----------------------------- MODULE Paragraphs ----------------------------
(***************************************************************************)
(* line.c and line.h: the lists of paragraphs of a screen, and everything  *)
(* that points into them: the rows of the screen (spans) and handles.      *)
(*                                                                         *)
(* A screen s has the fields                                               *)
(*   L        the lines by address: sequence number and size               *)
(*   list     the order of the lines, of the main and of the alternative   *)
(*            screen (prev and next)                                       *)
(*   span     the rows of each                                             *)
(*   h        the handles                                                  *)
(* Cells are only counted and every character is one column wide: what     *)
(* they hold is the subject of Lines.                                      *)
(***************************************************************************)
EXTENDS Integers, Sequences, SequencesExt, FiniteSetsExt

NULL == 0
Nowhere == [line |-> NULL, offset |-> 0]
At(line, offset) == [line |-> line, offset |-> offset]
Span(line, offset, width) == [line |-> line, offset |-> offset, width |-> width]
Pos(p) == At(p.line, p.offset)

SizeOf(s, id) == s.L[id].size
SeqOfLine(s, id) == IF id = NULL THEN 0 ELSE s.L[id].seq
Index(seq, id) == CHOOSE i \in 1..Len(seq) : seq[i] = id
ListOf(s, id) == IF Contains(s.list["main"], id) THEN "main" ELSE "alt"
NextOf(s, id) == LET l == s.list[ListOf(s, id)] i == Index(l, id) IN IF i = Len(l) THEN NULL ELSE l[i + 1]
PrevOf(s, id) == LET l == s.list[ListOf(s, id)] i == Index(l, id) IN IF i = 1 THEN NULL ELSE l[i - 1]

(* line_span_cmp(a, b) <= 0 *)
NotAfter(s, a, b) ==
    IF a.line = b.line THEN a.offset <= b.offset ELSE SeqOfLine(s, a.line) < SeqOfLine(s, b.line)

NewAddress(s) == Len(s.L) + 1
get_seqno_range(s) == Max({s.L[id].seq : id \in DOMAIN s.L} \cup {0}) + 1

(* Every handle, and every row of screen k, through a function *)
Each(seq, F(_)) == SubSeq([i \in DOMAIN seq |-> F(seq[i])], 1, Len(seq))
Handles(s, F(_)) ==
    [s EXCEPT !.h = [top |-> F(@.top), view |-> F(@.view), cur |-> F(@.cur),
                     saved |-> F(@.saved), first |-> F(@.first), low |-> F(@.low)]]
Rows(s, k, F(_)) == [s EXCEPT !.span[k] = Each(@, F)]

(* need_fix_span_array() *)
InRows(s, k, seq) ==
    LET first == s.span[k][1] last == s.span[k][Len(s.span[k])]
    IN  /\ first.line = NULL \/ SeqOfLine(s, first.line) <= seq
        /\ last.line = NULL \/ seq <= SeqOfLine(s, last.line)
FixRows(s, k, seq, F(_)) == IF InRows(s, k, seq) THEN Rows(s, k, F) ELSE s

Renumbered(s, ids) ==
    LET n == get_seqno_range(s)
    IN  [s EXCEPT !.L = FoldLeft(LAMBDA l, i : [l EXCEPT ![ids[i]].seq = n + i], @, [i \in DOMAIN ids |-> i])]

(* From the i-th line of list k on *)
fixup_lines_seqno(s, k, i) == Renumbered(s, SubSeq(s.list[k], i, Len(s.list[k])))

(* New lines, of size 0, behind the i-th of list k *)
NewIds(s, n) == [j \in 1..n |-> Len(s.L) + j]
WithLines(s, k, i, n) ==
    [s EXCEPT !.L = @ \o [j \in 1..n |-> [seq |-> get_seqno_range(s) + j, size |-> 0]],
              !.list[k] = SubSeq(@, 1, i) \o NewIds(s, n) \o SubSeq(@, i + 1, Len(@))]

free_line(s, k, id) ==
    LET t == FixRows(Handles(s, LAMBDA p : IF p.line = id THEN Nowhere ELSE p),
                     k, SeqOfLine(s, id), LAMBDA p : IF p.line = id THEN [p EXCEPT !.line = NULL] ELSE p)
    IN  [t EXCEPT !.L[id].size = 0, !.list[k] = SelectSeq(@, LAMBDA x : x # id)]

(* free_line_list_until(): the lines of list k from the i-th to the j-th *)
FreeLines(s, k, i, j) == FoldLeft(LAMBDA t, id : free_line(t, k, id), s, SubSeq(s.list[k], i, j))

(* A line gets another address *)
Replaced(s, k, id) ==
    [s EXCEPT !.L = Append(@, s.L[id]), !.list[k][Index(s.list[k], id)] = NewAddress(s)]
Renamed(p, id, new) == IF p.line = id THEN [p EXCEPT !.line = new] ELSE p
Moved(s, k, id) ==
    LET t == FixRows(s, k, s.L[id].seq, LAMBDA p : Renamed(p, id, NewAddress(s)))
    IN  Handles(Replaced(t, k, id), LAMBDA p : Renamed(p, id, NewAddress(s)))

(* realloc_line() to a larger size: to another address, as it may always   *)
(* be; the cells are used at once                                          *)
Grow(s, k, id, size) == [Moved(s, k, id) EXCEPT !.L[NewAddress(s)].size = size]

(* realloc_line() to a smaller size: in place *)
Shrink(s, id, size) == [s EXCEPT !.L[id].size = Min({@, size})]

(* The tail, at a new address, is put behind the line, between the numbers *)
(* of the line and its successor when there is room                        *)
Distance(s, k, id) ==
    IF Index(s.list[k], id) = Len(s.list[k]) THEN 0 ELSE SeqOfLine(s, NextOf(s, id)) - s.L[id].seq
WithTail(s, k, id, offset, dist, tail) ==
    [WithLines(s, k, Index(s.list[k], id), 1) EXCEPT
        !.L[tail] = [seq |-> IF dist < 2 THEN @.seq ELSE s.L[id].seq + dist \div 2, size |-> SizeOf(s, id) - offset],
        !.L[id].size = offset]
FixedBehind(s, k, tail, dist) == IF dist = 1 THEN fixup_lines_seqno(s, k, Index(s.list[k], tail) + 1) ELSE s
Divided(s, k, id, offset, tail) ==
    FixedBehind(WithTail(s, k, id, offset, Distance(s, k, id), tail), k, tail, Distance(s, k, id))

Behind(p, id, offset, tail) ==
    IF p.line = id /\ p.offset >= offset THEN [p EXCEPT !.line = tail, !.offset = @ - offset] ELSE p

(* Mutant: the rows behind the split keep their line *)
split_line_rows(s, k, id, offset) ==
    LET tail == NewAddress(s)
    IN  Handles(Divided(s, k, id, offset, tail), LAMBDA p : Behind(p, id, offset, tail))

split_line(s, k, id, offset) ==
    LET tail == NewAddress(s)
        t == Handles(Divided(s, k, id, offset, tail), LAMBDA p : Behind(p, id, offset, tail))
    IN  FixRows(t, k, s.L[id].seq, LAMBDA p : Behind(p, id, offset, tail))

(* The second line becomes the tail of the first *)
Into(p, id2, id1, len) == IF p.line = id2 THEN [p EXCEPT !.line = id1, !.offset = @ + len] ELSE p
Joined(s, k, id1, id2, len) ==
    LET t == FixRows(s, k, s.L[id2].seq, LAMBDA p : Into(p, id2, id1, len))
    IN  free_line(Handles(t, LAMBDA p : Into(p, id2, id1, len)), k, id2)
concat_line(s, k, id1, id2, size1, size2) ==
    Joined(Grow(s, k, id1, size1 + size2), k, NewAddress(s), id2, size1)

----------------------------------------------------------------------------
(* Positions in rows of w columns *)
line_advance_width(s, p, w) == Min({p.offset + w, SizeOf(s, p.line)})

line_segments(size, offset, w) ==
    IF size = 0 /\ offset = 0 THEN 1 ELSE IF offset >= size THEN 0 ELSE (size - offset + w - 1) \div w

(* line_span_shift(): the next row, none at the end of the list *)
NextRow(s, p, w) ==
    LET to == line_advance_width(s, p, w)
    IN  IF to < SizeOf(s, p.line) THEN <<At(p.line, to)>>
        ELSE IF NextOf(s, p.line) # NULL THEN <<At(NextOf(s, p.line), 0)>>
        ELSE <<>>

RECURSIVE Down(_, _, _, _)
Down(s, p, n, w) ==
    IF n = 0 \/ NextRow(s, p, w) = <<>> THEN [at |-> p, rest |-> n]
    ELSE Down(s, NextRow(s, p, w)[1], n - 1, w)

RECURSIVE Up(_, _, _, _)
Up(s, line, n, w) ==
    IF n >= 0 THEN Down(s, At(line, 0), n, w)
    ELSE IF PrevOf(s, line) = NULL THEN [at |-> At(line, 0), rest |-> n]
    ELSE Up(s, PrevOf(s, line), n + line_segments(SizeOf(s, PrevOf(s, line)), 0, w), w)

(* line_shift_n(): where it ends, and what is left of the amount *)
line_shift_n(s, p, n, w) ==
    IF n >= 0 THEN Down(s, p, n, w)
    ELSE Up(s, p.line, n + line_segments(SizeOf(s, p.line), 0, w) - line_segments(SizeOf(s, p.line), p.offset, w), w)
=============================================================================
