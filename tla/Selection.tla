----------------------------- MODULE Selection -----------------------------
(***************************************************************************)
(* mouse.c: what is selected. A paragraph that has something selected has  *)
(* a head, a list of segments, each at an offset from the end of the one   *)
(* before it; a segment to the right margin has length SNAP_RIGHT.         *)
(*                                                                         *)
(* Paragraphs are numbered from 1 in the order of their sequence numbers;  *)
(* their cells are classes of characters, 0 for those that separate words. *)
(* The array of heads is in that order, and a head without segments is not *)
(* told from none.                                                         *)
(***************************************************************************)
EXTENDS Integers, Sequences, SequencesExt, FiniteSetsExt

CONSTANTS
    Width, Height,      \* of the screen
    Users,              \* paragraphs, and how a user selects: points, snaps, modifiers, and what else happens
    keep_selection,     \* the configuration's
    MaxCommands,        \* bound: events and operations
    LeavesPressed       \* paragraphs go while segments of no selection are on them

SNAP_RIGHT == 100
INF == 1000
NoPos == [i |-> 0, o |-> 0]
Pos(i, o) == [i |-> i, o |-> o]
NotAfter(p, q) == p.i < q.i \/ (p.i = q.i /\ p.o <= q.o)
Size(L, i) == Len(L[i].cells)

(* foreach_segment_indexed(): where the k-th segment begins and ends *)
EndOf(s, k) == FoldLeft(LAMBDA e, seg : e + seg[1] + seg[2], 0, SubSeq(s, 1, k))
StartOf(s, k) == EndOf(s, k) - s[k][2]
First(s, P(_)) == IF \E k \in DOMAIN s : P(k) THEN CHOOSE k \in DOMAIN s : P(k) /\ \A j \in 1..(k - 1) : ~P(j) ELSE 0
Columns(s) == UNION {StartOf(s, k)..(EndOf(s, k) - 1) : k \in DOMAIN s}
Cells(L, i, s) == {<<i, c>> : c \in {x \in Columns(s) : x < Size(L, i)}}
Selected(L, segs) == UNION {Cells(L, i, segs[i]) : i \in DOMAIN L}

(* append_segment() of [x0, x1): the segments that are swallowed have to   *)
(* go, but the last one stays, and so do all that end before x1.           *)
Extended(s, k, x0) ==
    IF StartOf(s, k) > x0 THEN [s EXCEPT ![k] = <<@[1] - (StartOf(s, k) - x0), @[2] + (StartOf(s, k) - x0)>>] ELSE s
Without(s, from, to) == SubSeq(s, 1, from - 1) \o SubSeq(s, to + 1, Len(s))
Trimmed(s, k, j, x1) ==
    Without([s EXCEPT ![j][1] = StartOf(s, j) - x1, ![k][2] = x1 - StartOf(s, k)], k + 1, j - 1)
Swallowed(s, k, j) ==
    LET t == [s EXCEPT ![k][2] = IF s[j][2] = SNAP_RIGHT THEN SNAP_RIGHT ELSE EndOf(s, j) - StartOf(s, k)]
    IN  IF j = Len(s) THEN t ELSE Without(t, k + 1, j)
Reaching(s, k, j, x1) ==
    IF j = 0 THEN [s EXCEPT ![k][2] = x1 - StartOf(s, k)]
    ELSE IF StartOf(s, j) > x1 THEN Trimmed(s, k, j, x1) ELSE Swallowed(s, k, j)
FromSegment(s, k, x1) ==
    IF EndOf(s, k) >= x1 THEN s
    ELSE Reaching(s, k, First(s, LAMBDA j : j > k /\ (StartOf(s, j) > x1 \/ EndOf(s, j) >= x1)), x1)
Added(s, k, x0, x1) ==
    IF k = 0 THEN Append(s, <<x0 - EndOf(s, Len(s)), x1 - x0>>) ELSE FromSegment(Extended(s, k, x0), k, x1)
RightEnd(size, x0, x1) == IF x1 > size THEN SNAP_RIGHT + x0 ELSE x1
AddedIn(s, size, x0, x1) == Added(s, First(s, LAMBDA k : EndOf(s, k) >= x0), x0, RightEnd(size, x0, x1))
append_segment(L, segs, i, x0, x1) == [segs EXCEPT ![i] = AddedIn(@, Size(L, i), Min({x0, Size(L, i)}), x1)]

----------------------------------------------------------------------------
(* The operations on lines                                                 *)

ToItsEnd(s, size) ==
    IF s # <<>> /\ EndOf(s, Len(s)) >= SNAP_RIGHT
    THEN [s EXCEPT ![Len(s)][2] = size - (EndOf(s, Len(s)) - SNAP_RIGHT)] ELSE s
(* Mutant: the gap before the first segment is lost *)
Moved_offset(s, offset) == IF s = <<>> THEN s ELSE [s EXCEPT ![1][1] = offset]
Moved(s, offset) == IF s = <<>> THEN s ELSE [s EXCEPT ![1][1] = @ + offset]
Merged(d, s) == Append(Front(d), <<Last(d)[1], Min({SNAP_RIGHT, s[1][2] + Last(d)[2]})>>) \o Tail(s)
Tacked(d, s, size) ==
    IF d # <<>> /\ s # <<>> /\ s[1][1] = 0 /\ EndOf(d, Len(d)) = size THEN Merged(d, s)
    ELSE d \o Moved(s, size - EndOf(d, Len(d)))
selection_concat(d, s, size) == Tacked(ToItsEnd(d, size), s, size)

(* selection_split(): the two parts of the segments of a line that keeps   *)
(* its first size cells; what is behind the first segment that passes is   *)
(* dropped.                                                                *)
Passing(s, size) == First(s, LAMBDA k : EndOf(s, k) > size)
ToMargin(s, k) == [SubSeq(s, 1, k) EXCEPT ![k][2] = SNAP_RIGHT]
Kept(s, k, size) == IF StartOf(s, k) <= size THEN ToMargin(s, k) ELSE SubSeq(s, 1, k - 1)
LeftPart(s, size) == IF Passing(s, size) = 0 THEN s ELSE Kept(s, Passing(s, size), size)
TailPart(s, size, tail) ==
    IF Passing(s, size) = 0 THEN <<>>
    ELSE AddedIn(<<>>, tail, Max({0, StartOf(s, Passing(s, size)) - size}), EndOf(s, Passing(s, size)) - size)
(* selection_relocated() *)
Cut(s, size) == LeftPart(s, size)

selection_intersects(s, x0, x1) == \E k \in DOMAIN s : StartOf(s, k) <= x1 - 1 /\ EndOf(s, k) - 1 >= x0

----------------------------------------------------------------------------
(* Drawing: from the right of a row to the left, from the last segment     *)

RECURSIVE Back(_, _, _, _)
Back(s, k, idx, x) ==
    IF x >= idx - s[k][2] THEN [sel |-> TRUE, k |-> k, idx |-> idx]
    ELSE LET i == idx - s[k][2] - s[k][1]
         IN  IF i # 0 /\ x < i THEN Back(s, k - 1, i, x) ELSE [sel |-> FALSE, k |-> k - 1, idx |-> i]
is_selected_prev(s, it, x) == IF it.idx = 0 \/ x >= it.idx THEN [it EXCEPT !.sel = FALSE] ELSE Back(s, it.k, it.idx, x)
selection_begin_iteration(s) == [sel |-> FALSE, k |-> Len(s), idx |-> EndOf(s, Len(s))]
Drawn(s, it, cols, x) == IF it.sel THEN cols \cup {x} ELSE cols
DrawCell(s, w, x) == [it |-> is_selected_prev(s, w.it, x), cols |-> Drawn(s, is_selected_prev(s, w.it, x), w.cols, x)]
DrawnRow(s, from, to) ==
    FoldLeft(LAMBDA w, j : DrawCell(s, w, to - j), [it |-> selection_begin_iteration(s), cols |-> {}],
             [j \in 1..(to - from) |-> j]).cols

(* damage_changed(): the cells of a paragraph that are drawn again. n and  *)
(* o are what is left of the current new and old segment.                  *)
Bounds(s, k, end) == IF k \in DOMAIN s THEN <<end + s[k][1], end + s[k][1] + s[k][2]>> ELSE <<INF, INF>>
FromTo(n, o) ==
    IF n[1] < o[1] THEN <<n[1], Min({n[2], o[1]})>>
    ELSE IF n[1] > o[1] THEN <<o[1], Min({o[2], n[1]})>> ELSE <<0, 0>>
Damage(d, size) == IF d[2] <= size THEN d[1]..(d[2] - 1) ELSE 0..(size - 1)
RECURSIVE Changed(_, _, _, _, _, _, _)
Changed(new, old, j, k, n, o, size) ==
    IF n[2] = INF /\ o[2] = INF THEN {}
    ELSE Damage(FromTo(n, o), size) \cup
         Changed(new, old, IF o[2] >= n[2] THEN j + 1 ELSE j, IF o[2] <= n[2] THEN k + 1 ELSE k,
                 IF o[2] >= n[2] THEN Bounds(new, j + 1, n[2]) ELSE <<IF o[2] <= n[2] THEN o[2] ELSE n[1], n[2]>>,
                 IF o[2] <= n[2] THEN Bounds(old, k + 1, o[2]) ELSE <<IF o[2] >= n[2] THEN n[2] ELSE o[1], o[2]>>, size)
damage_head(s, size) ==
    IF \E k \in DOMAIN s : size < EndOf(s, k) THEN 0..(size - 1) ELSE Columns(s)
DamageIn(new, old, size) ==
    IF new = <<>> THEN damage_head(old, size) ELSE IF old = <<>> THEN damage_head(new, size)
    ELSE Changed(new, old, 1, 1, Bounds(new, 1, 0), Bounds(old, 1, 0), size)
damage_changed(L, new, old) == UNION {{<<i, c>> : c \in DamageIn(new[i], old[i], Size(L, i))} : i \in DOMAIN L}

----------------------------------------------------------------------------
(* The ends of a selection snap to words, lines, commands or all           *)

Before(L, p) ==
    IF p.o > 0 THEN Pos(p.i, p.o - 1)
    ELSE IF p.i = 1 \/ ~L[p.i - 1].wrapped \/ Size(L, p.i - 1) = 0 THEN NoPos ELSE Pos(p.i - 1, Size(L, p.i - 1) - 1)
After(L, p) ==
    IF p.o + 1 < Size(L, p.i) THEN Pos(p.i, p.o + 1)
    ELSE IF p.i = Len(L) \/ ~L[p.i].wrapped \/ Size(L, p.i + 1) = 0 THEN NoPos ELSE Pos(p.i + 1, 0)
Class(L, p) == L[p.i].cells[p.o + 1]
SameWord(L, p, q) == q # NoPos /\ Class(L, q) = Class(L, p)
RECURSIVE WordStart(_, _)
WordStart(L, p) == IF SameWord(L, p, Before(L, p)) THEN WordStart(L, Before(L, p)) ELSE p
RECURSIVE WordEnd(_, _)
WordEnd(L, p) == IF SameWord(L, p, After(L, p)) THEN WordEnd(L, After(L, p)) ELSE p

snap_backward(L, p, snap) ==
    CASE snap = "all" -> Pos(1, 0)
      [] snap = "command" -> Pos(CHOOSE j \in 1..p.i : /\ j = 1 \/ L[j - 1].cmd \/ L[j].ps1
                                                       /\ \A k \in (j + 1)..p.i : ~L[k - 1].cmd /\ ~L[k].ps1, 0)
      [] snap = "line" -> Pos(CHOOSE j \in 1..p.i : (j = 1 \/ ~L[j - 1].wrapped) /\ \A k \in j..(p.i - 1) : L[k].wrapped, 0)
      [] snap = "word" -> IF p.o >= Size(L, p.i) THEN Pos(p.i, Size(L, p.i)) ELSE WordStart(L, p)
      [] OTHER -> p
snap_forward(L, p, snap) ==
    CASE snap = "all" -> Pos(Max({p.i} \cup {j \in p.i..Len(L) : Size(L, j) > 0}), SNAP_RIGHT)
      [] snap = "command" -> Pos(CHOOSE j \in p.i..Len(L) : /\ j = Len(L) \/ L[j + 1].ps1 \/ L[j].cmd
                                                            /\ \A k \in p.i..(j - 1) : ~L[k + 1].ps1 /\ ~L[k].cmd, SNAP_RIGHT)
      [] snap = "line" -> Pos(CHOOSE j \in p.i..Len(L) : (j = Len(L) \/ ~L[j].wrapped) /\ \A k \in p.i..(j - 1) : L[k].wrapped, SNAP_RIGHT)
      [] snap = "word" -> IF p.o >= Size(L, p.i) THEN Pos(p.i, SNAP_RIGHT) ELSE WordEnd(L, p)
      [] OTHER -> p

(* Rows of the paragraphs, and the row that a position is in *)
RowsOf(L, i) == [r \in 1..Max({1, (Size(L, i) + Width - 1) \div Width}) |-> Pos(i, (r - 1) * Width)]
Rows(L) == FlattenSeq([i \in DOMAIN L |-> RowsOf(L, i)])
virtual_pos(L, p) == Pos(p.i, (Max({0, Min({p.o, Size(L, p.i) - 1})}) \div Width) * Width)
ColumnIn(L, p) == p.o - virtual_pos(L, p).o
absolute_pos(L, view, x, y) == LET r == Rows(L)[Min({view + y, Len(Rows(L))})] IN Pos(r.i, r.o + x)

Rectangle(L, segs, from, to, x0, x1) ==
    FoldLeft(LAMBDA s, r : append_segment(L, s, r.i, r.o + x0, r.o + x1 + 1), segs,
             SelectSeq(Rows(L), LAMBDA r : NotAfter(from, r) /\ NotAfter(r, to)))
Linear(L, segs, from, to) ==
    FoldLeft(LAMBDA s, j : append_segment(L, s, j, IF j = from.i THEN from.o ELSE 0, IF j = to.i THEN to.o + 1 ELSE SNAP_RIGHT),
             segs, [j \in 1..(to.i - from.i + 1) |-> from.i + j - 1])
decompose(L, segs, rect, from, to) ==
    IF rect THEN Rectangle(L, segs, virtual_pos(L, from), virtual_pos(L, to), Min({ColumnIn(L, from), ColumnIn(L, to)}),
                           Max({ColumnIn(L, from), ColumnIn(L, to)}))
    ELSE Linear(L, segs, from, to)

----------------------------------------------------------------------------
(* g: L and segs by paragraph, and the user (modifiers are "shift",        *)
(* "control" and, for mask_mod_1, "rect"); the ends start and end and how they snap    *)
(* (s0, s1); x, y the pointer; view the first row shown; pend the rows to  *)
(* scroll at each expiry of the timer; clip what the window offers. The    *)
(* rest is for the properties: what was done, what was selected before it, *)
(* dirty what is drawn again, plain the lines of at most one segment, want *)
(* what is to be selected and exact                                        *)
(* whether nothing else, over the cells of a selection's overwritten.      *)
VARIABLE g

None(L) == [i \in DOMAIN L |-> <<>>]
Init == \E u \in Users :
    g = [L |-> u.L, user |-> u, segs |-> None(u.L), state |-> "none", start |-> NoPos, end |-> NoPos, s0 |-> "none", s1 |-> "none",
         rect |-> FALSE, x |-> 0, y |-> 0, view |-> 1, pend |-> 0, timer |-> FALSE, clip |-> <<>>,
         op |-> "none", was |-> {}, dirty |-> {}, plain |-> {}, want |-> {}, exact |-> FALSE, over |-> {}, n |-> 0]
Now(h) == [h EXCEPT !.n = @ + 1, !.op = "other", !.was = Selected(h.L, h.segs), !.dirty = {}, !.plain = DOMAIN h.L, !.want = {}, !.exact = FALSE, !.over = {}]

selection_active(h) == h.state \notin {"none", "pressed"}
selection_clear(h) ==
    IF ~selection_active(h) THEN h
    ELSE [h EXCEPT !.start = NoPos, !.end = NoPos, !.state = "none", !.segs = None(h.L), !.clip = IF keep_selection THEN @ ELSE <<>>]

(* What the user means to select *)
Between(L, from, to) == {<<i, c>> \in UNION {{<<j, d>> : d \in 0..(Size(L, j) - 1)} : j \in DOMAIN L} :
                            NotAfter(from, Pos(i, c)) /\ NotAfter(Pos(i, c), to)}
Within(L, from, to) ==
    LET cols == {ColumnIn(L, from), ColumnIn(L, to)} IN
    {<<i, c>> \in Between(L, virtual_pos(L, from), Pos(to.i, SNAP_RIGHT)) :
        NotAfter(virtual_pos(L, Pos(i, c)), virtual_pos(L, to)) /\ ColumnIn(L, Pos(i, c)) \in Min(cols)..Max(cols)}
Meant(L, rect, from, to) == IF rect THEN Within(L, from, to) ELSE Between(L, from, to)

Decomposed(h, old, from, to) ==
    IF h.state \in {"progress", "released"} THEN decompose(h.L, old, h.rect, from, to) ELSE old
Applied(h, segs, from, to, keep) ==
    [h EXCEPT !.op = "change", !.segs = segs, !.dirty = @ \cup damage_changed(h.L, segs, h.segs),
              !.plain = {i \in @ : Len(segs[i]) < 2 /\ Len(h.segs[i]) < 2},
              !.exact = ~keep /\ (h.rect => to.o < SNAP_RIGHT),
              !.want = IF h.state = "pressed" THEN {} ELSE Meant(h.L, h.rect, from, to) \cup (IF keep THEN h.was ELSE {})]
Snapped(h, from, to, f, t, keep) ==
    LET a == snap_backward(h.L, from, f) b == snap_forward(h.L, to, t) old == IF keep THEN h.segs ELSE None(h.L)
    IN  Applied(h, Decomposed(h, old, a, b), a, b, keep)
apply_selection_change(h, keep) ==
    IF NotAfter(h.start, h.end) THEN Snapped(h, h.start, h.end, h.s0, h.s1, keep)
    ELSE Snapped(h, h.end, h.start, h.s1, h.s0, keep)

StateOf(h, state) == IF h.s0 # "none" /\ state = "pressed" THEN "progress" ELSE state
selection_changed(h, state, mods) ==
    LET pos == absolute_pos(h.L, h.view, h.x, h.y)
        start == IF h.start = NoPos THEN Pos(1, 0) ELSE h.start
    IN  apply_selection_change([h EXCEPT !.start = start, !.state = StateOf(h, state), !.rect = "rect" \in mods, !.end = pos],
                               "control" \in mods)
Anchored(h, snap, mods) ==
    IF "shift" \in mods /\ h.start # NoPos THEN [h EXCEPT !.s1 = snap]
    ELSE [h EXCEPT !.s1 = snap, !.s0 = snap, !.start = absolute_pos(h.L, h.view, h.x, h.y)]
selection_view_scrolled(h) ==
    IF h.state \in {"progress", "pressed"} THEN selection_changed(h, "progress", IF h.rect THEN {"rect"} ELSE {}) ELSE h

selection_data(h) ==
    FlattenSeq([i \in DOMAIN h.L |-> [k \in DOMAIN h.segs[i] |->
        [c \in 1..Max({0, Min({EndOf(h.segs[i], k), Size(h.L, i)}) - StartOf(h.segs[i], k)}) |-> <<i, StartOf(h.segs[i], k) + c - 1>>]]])
Offered(h) == [h EXCEPT !.op = "offer", !.clip = IF h.state = "released" THEN selection_data(h) ELSE <<>>]

(* screen_scroll_view(), of a screen whose last rows are the terminal's *)
LastView(L) == Max({1, Len(Rows(L)) - Height + 1})
Scrolled(h, amount) == [h EXCEPT !.view = Max({1, Min({@ - amount, LastView(h.L)})})]
screen_scroll_view(h, amount) ==
    IF h.view = LastView(h.L) /\ amount < 0 THEN h ELSE selection_view_scrolled(Scrolled(h, amount))
(* pending_scroll() at a motion above (1) or below (-1) the cells *)
pending_scroll(h, out) ==
    IF out # 0 /\ ~h.timer THEN screen_scroll_view([h EXCEPT !.pend = out, !.timer = TRUE], out)
    ELSE [h EXCEPT !.pend = out, !.timer = @ /\ out # 0]

----------------------------------------------------------------------------
Step(h) == g.n < MaxCommands /\ g' = h
At(x, y) == [Now(g) EXCEPT !.x = x, !.y = y, !.pend = 0]
Press(x, y, mods, snap) ==
    /\ snap \in {"none", "word", IF "rect" \in mods THEN "command" ELSE "line"}
    /\ LET h == Anchored(At(x, y), snap, mods)
       IN  Step(selection_changed(h, IF "shift" \in mods /\ g.start # NoPos THEN "progress" ELSE "pressed", mods))
Motion(x, y, out, mods) ==
    /\ g.state \in {"progress", "pressed"}
    /\ Step(pending_scroll(selection_changed(At(x, y), "progress", mods), out))
Release(x, y, mods) ==
    /\ g.state = "progress"
    /\ Step(Offered(selection_changed(At(x, y), "released", mods)))
Click == g.state = "pressed" /\ Step([Now(g) EXCEPT !.state = "none", !.pend = 0])
handle_pending_scroll ==
    /\ g.timer
    /\ Step(IF g.pend = 0 \/ g.state # "progress" THEN [Now(g) EXCEPT !.timer = FALSE] ELSE screen_scroll_view(Now(g), g.pend))
View(amount) == Step(screen_scroll_view(Now(g), amount))
selection_select_all ==
    LET p == Rows(g.L)[g.view]
    IN  Step(Offered(apply_selection_change([Now(g) EXCEPT !.start = p, !.end = p, !.s0 = "all", !.s1 = "all",
                                                           !.rect = FALSE, !.state = "released"], FALSE)))
(* The selection of another client, or a change of the screen *)
Lost == Step(selection_clear(Now(g)))
Write(i, x0, x1) ==
    /\ i \in DOMAIN g.L /\ x1 <= Size(g.L, i)
    /\ LET hit == selection_active(g) /\ selection_intersects(g.segs[i], x0, x1)
       IN  Step([(IF hit THEN selection_clear(Now(g)) ELSE Now(g)) EXCEPT !.over = IF selection_active(g) THEN {<<i, c>> : c \in x0..(x1 - 1)} ELSE {}])

(* Lines are split, joined, cut and freed: the ends are handles, which     *)
(* follow their cells.                                                     *)
Follow(p, F(_)) == IF p = NoPos THEN p ELSE F(p)
Relined(L, segs, F(_), want, exact) ==
    Step([Now(g) EXCEPT !.L = L, !.segs = segs, !.start = Follow(@, F), !.end = Follow(@, F), !.want = IF exact THEN want ELSE {}, !.exact = exact,
                        !.view = Min({@, LastView(L)})])
Part(line, from, to, wrapped) == [line EXCEPT !.cells = SubSeq(@, from, to), !.wrapped = wrapped]
Split(i, at) ==
    LET size == Size(g.L, i)
        L == SubSeq(g.L, 1, i - 1) \o <<Part(g.L[i], 1, at, FALSE), Part(g.L[i], at + 1, size, g.L[i].wrapped)>> \o SubSeq(g.L, i + 1, Len(g.L))
        Follows(p) == IF p.i < i \/ (p.i = i /\ p.o < at) THEN p ELSE IF p.i = i THEN Pos(i + 1, p.o - at) ELSE Pos(p.i + 1, p.o)
        CellAt(c) == <<Follows(Pos(c[1], c[2])).i, Follows(Pos(c[1], c[2])).o>>
    IN  /\ i \in DOMAIN g.L /\ at < size
        /\ Relined(L, SubSeq(g.segs, 1, i - 1) \o <<LeftPart(g.segs[i], at), TailPart(g.segs[i], at, size - at)>> \o SubSeq(g.segs, i + 1, Len(g.L)),
                   Follows, {CellAt(c) : c \in Selected(g.L, g.segs)}, Passing(g.segs[i], at) \in {0, Len(g.segs[i])})
Join(i) ==
    LET size == Size(g.L, i)
        line == [g.L[i] EXCEPT !.cells = @ \o g.L[i + 1].cells, !.wrapped = g.L[i + 1].wrapped]
        L == SubSeq(g.L, 1, i - 1) \o <<line>> \o SubSeq(g.L, i + 2, Len(g.L))
        Follows(p) == IF p.i <= i THEN p ELSE IF p.i = i + 1 THEN Pos(i, p.o + size) ELSE Pos(p.i - 1, p.o)
        CellAt(c) == <<Follows(Pos(c[1], c[2])).i, Follows(Pos(c[1], c[2])).o>>
    IN  /\ i \in 1..(Len(g.L) - 1)
        /\ Relined(L, SubSeq(g.segs, 1, i - 1) \o <<Cut(selection_concat(g.segs[i], g.segs[i + 1], size), Len(line.cells))>> \o SubSeq(g.segs, i + 2, Len(g.L)),
                   Follows, {CellAt(c) : c \in Selected(g.L, g.segs)}, \A k \in DOMAIN g.segs[i] : g.segs[i][k][2] <= SNAP_RIGHT)
Shorten(i, size) ==
    /\ i \in DOMAIN g.L /\ size < Size(g.L, i)
    /\ LET L == [g.L EXCEPT ![i].cells = SubSeq(@, 1, size)]
           Same(p) == p
       IN  Relined(L, [g.segs EXCEPT ![i] = Cut(@, size)], Same, {c \in Selected(g.L, g.segs) : c[1] # i \/ c[2] < size}, TRUE)
(* free_extra_lines() *)
FreeTop ==
    LET h == IF g.segs[1] = <<>> THEN Now(g) ELSE selection_clear(Now(g))
        Follows(p) == IF p.i = 1 THEN NoPos ELSE Pos(p.i - 1, p.o)
    IN  /\ Len(g.L) > 1 /\ g.view > Len(RowsOf(g.L, 1))
        /\ h.segs[1] = <<>> \/ LeavesPressed
        /\ Step([h EXCEPT !.L = Tail(@), !.segs = Tail(@), !.view = @ - Len(RowsOf(g.L, 1)),
                          !.start = Follow(@, Follows), !.end = Follow(@, Follows)])

Next ==
    \/ \E p \in g.user.points, mods \in g.user.mods :
          \/ \E snap \in g.user.snaps : Press(p[1], p[2], mods, snap)
          \/ \E out \in {-1, 0, 1} : Motion(p[1], p[2], out, mods)
          \/ Release(p[1], p[2], mods)
    \/ Click \/ handle_pending_scroll
    \/ "lines" \in g.user.does /\ \E i \in DOMAIN g.L, x0 \in 0..2 : Split(i, x0) \/ Join(i) \/ Shorten(i, x0) \/ FreeTop
    \/ "write" \in g.user.does /\ \E i \in DOMAIN g.L, x0 \in 0..2 : \E x1 \in (x0 + 1)..3 : Write(i, x0, x1)
    \/ "view" \in g.user.does /\ \E amount \in {-1, 1} : View(amount) \/ selection_select_all \/ Lost
Spec == Init /\ [][Next]_g

----------------------------------------------------------------------------
(* A change selects the cells from one end to the other, or the rectangle  *)
(* between them; with Control nothing that was selected is lost; and lines *)
(* that are split, joined or cut keep what is selected of them.            *)
SelectedIsMeant == g.want \subseteq Selected(g.L, g.segs) /\ (g.exact => Selected(g.L, g.segs) = g.want)

(* Every cell whose state a change has turned is drawn again. Where there  *)
(* are more segments than one, damage_changed() goes on with the part of a *)
(* list that has ended: see the README.                                    *)
TurnedIsDrawn ==
    g.op \in {"change", "offer"} =>
        {c \in (Selected(g.L, g.segs) \ g.was) \cup (g.was \ Selected(g.L, g.segs)) : c[1] \in g.plain} \subseteq g.dirty

(* The window offers the cells that are selected, each once, in order *)
OfferedIsSelected ==
    LET cells == FlattenSeq(g.clip)
    IN  g.op = "offer" =>
            /\ ToSet(cells) = Selected(g.L, g.segs)
            /\ \A j \in 2..Len(cells) : cells[j - 1] # cells[j] /\ NotAfter(Pos(cells[j - 1][1], cells[j - 1][2]), Pos(cells[j][1], cells[j][2]))

(* A selection under which the text changes is dropped *)
NothingOver == Selected(g.L, g.segs) \cap g.over = {}

(* What is drawn as selected is what is selected *)
DrawnIsSelected ==
    \A i \in DOMAIN g.L : \A r \in DOMAIN RowsOf(g.L, i) :
        LET from == (r - 1) * Width IN DrawnRow(g.segs[i], from, from + Width) = Columns(g.segs[i]) \cap from..(from + Width - 1)
=============================================================================
