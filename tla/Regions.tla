------------------------------- MODULE Regions ------------------------------
(***************************************************************************)
(* Margins, the origin mode and what works within them: the motion of the  *)
(* cursor and its report (term_dispatch_csi(), screen_move_*()), rectangle *)
(* operations, the copy of a rectangle, and scrolling by columns           *)
(* (screen.c).                                                             *)
(*                                                                         *)
(* A cell holds the place it was written at, a character that was filled   *)
(* in, blank, or with "sgr" an attribute that was changed. Paragraphs and  *)
(* the widths of rows are those of module Screen.                          *)
(***************************************************************************)
EXTENDS Integers, Sequences, SequencesExt

CONSTANTS
    Width, Height,
    Amounts,            \* bound: the parameters of motions
    Lines, Columns,     \* bound: the parameters of rectangles
    TopBeyondLeft       \* TRUE: in origin mode the top margin may be further than the left

VARIABLE scr
vars == scr

Lower(a, b) == IF a < b THEN a ELSE b
Upper(a, b) == IF a > b THEN a ELSE b
Clamped(lo, n, hi) == Upper(lo, Lower(n, hi))
(* What is passed as int16_t *)
Int16(n) == ((n + 32768) % 65536) - 32768
Rem(a, b) == IF a >= 0 THEN a % b ELSE -((-a) % b)

Rows == 0..(Height - 1)
Cols == 0..(Width - 1)
Places == Rows \X Cols
Painted == [p \in Places |-> p]
(* Protected cells, as DECSCA made them *)
Protected(p) == p[2] = 1

(* screen.h *)
min_y(s) == s.top
max_y(s) == s.bottom + 1
min_x(s) == IF s.lr THEN s.left ELSE 0
max_x(s) == IF s.lr THEN s.right + 1 ELSE Width
min_oy(s) == IF s.origin THEN s.top ELSE 0
max_oy(s) == IF s.origin THEN s.bottom + 1 ELSE Height
min_ox(s) == IF s.lr /\ s.origin THEN s.left ELSE 0
max_ox(s) == IF s.lr /\ s.origin THEN s.right + 1 ELSE Width
InRegion(s) == s.x \in min_x(s)..(max_x(s) - 1) /\ s.y \in min_y(s)..(max_y(s) - 1)

At(s, x, y) == [s EXCEPT !.x = x, !.y = y, !.pending = FALSE]
screen_move_to(s, x, y) == At(s, Clamped(0, Int16(x), Width - 1), Clamped(0, Int16(y), Height - 1))
screen_bounded_move_to(s, x, y) ==
    At(s, Lower(Upper(Int16(x), min_x(s)), max_x(s) - 1), Lower(Upper(Int16(y), min_y(s)), max_y(s) - 1))
Moved(s, bounded, x, y) == IF bounded THEN screen_bounded_move_to(s, x, y) ELSE screen_move_to(s, x, y)
screen_move_width_origin(s, x, y) == Moved(s, s.origin, x, y)

(* screen_move_left(): with reverse wrap the cursor goes on at the right   *)
(* end of the row above, and from the top at the bottom                    *)
FirstLeft(s) == IF s.x < min_x(s) THEN 0 ELSE min_x(s)
Around(s) == IF s.y \in min_y(s)..(max_y(s) - 1) THEN <<min_y(s), max_y(s) - min_y(s)>> ELSE <<0, Height>>
WrappedRow(s, y) ==
    LET r == Rem(y - Around(s)[1], Around(s)[2]) + Around(s)[1]
    IN  IF r < Around(s)[1] THEN r + Around(s)[2] ELSE r
WrapsLeft(s, x, amount) ==
    LET rest == amount - (x - FirstLeft(s))
        w == max_x(s) - min_x(s)
    IN  Moved(s, s.x >= min_x(s), max_x(s) - (rest % w), WrappedRow(s, s.y - (1 + (rest \div w))))
screen_move_left(s, amount) ==
    LET x == IF s.reverseWrap /\ s.pending THEN s.x + 1 ELSE s.x
    IN  IF amount > x - FirstLeft(s) /\ s.wrap /\ s.reverseWrap THEN WrapsLeft(s, x, amount)
        ELSE Moved(s, s.x >= min_x(s), x - amount, s.y)

screen_cr(s) == screen_move_to(s, IF s.x < min_x(s) THEN min_ox(s) ELSE min_x(s), s.y)
Home(s) == screen_move_to(s, min_ox(s), min_oy(s))
screen_set_origin(s, set) == Home([s EXCEPT !.origin = set])

CursorUp(s, n) == Moved(s, s.y >= min_y(s), s.x, s.y - n)
CursorDown(s, n) == Moved(s, s.y < max_y(s), s.x, s.y + n)
CursorRight(s, n) == Moved(s, s.x < max_x(s), s.x + n, s.y)
CursorTo(s, row, col) == screen_move_width_origin(s, min_ox(s) + col - 1, min_oy(s) + row - 1)
Report(s) == <<s.y - min_oy(s) + 1, s.x - min_ox(s) + 1>>

screen_set_tb_margins(s, top, bottom) ==
    IF top < bottom THEN [s EXCEPT !.top = Clamped(0, top, Height - 1), !.bottom = Clamped(0, bottom, Height - 1)]
    ELSE [s EXCEPT !.top = 0, !.bottom = Height - 1]
screen_set_lr_margins(s, left, right) ==
    IF left < right THEN [s EXCEPT !.left = Clamped(0, left, Width - 1), !.right = Clamped(0, right, Width - 1)]
    ELSE [s EXCEPT !.left = 0, !.right = Width - 1]

----------------------------------------------------------------------------
(* Rectangles, their ends excluded. The columns are bounded by min_oy.     *)
screen_rect_pre(s, r) ==
    [xs |-> Clamped(min_oy(s), r.xs, max_ox(s) - 1), xe |-> Clamped(min_oy(s), r.xe, max_ox(s)),
     ys |-> Clamped(min_oy(s), r.ys, max_oy(s) - 1), ye |-> Clamped(min_oy(s), r.ye, max_oy(s))]
screen_erase_pre(s, r, origin) ==
    IF origin THEN screen_rect_pre(s, r)
    ELSE [xs |-> Clamped(0, r.xs, Width), xe |-> Clamped(0, r.xe, Width),
          ys |-> Clamped(0, r.ys, Height), ye |-> Clamped(0, r.ye, Height)]
Within(p, r) == p[1] >= r.ys /\ p[1] < r.ye /\ p[2] >= r.xs /\ p[2] < r.xe

Put(s, what, where(_)) == [s EXCEPT !.cells = [p \in Places |-> IF where(p) THEN what ELSE s.cells[p]]]
Rect(xs, ys, xe, ye) == [xs |-> xs, ys |-> ys, xe |-> xe, ye |-> ye]
FillIn(s, r, what) == Put(s, what, LAMBDA p : Within(p, r))
screen_fill(s, r, origin, what) == FillIn(s, screen_erase_pre(s, r, origin), what)
Kept(s, r, what) == Put(s, what, LAMBDA p : Within(p, r) /\ ~Protected(p))
screen_protective_erase(s, r) == Kept(s, screen_erase_pre(s, r, TRUE), <<"blank">>)
screen_selective_erase(s, r) == Kept(s, screen_erase_pre(s, r, TRUE), <<"erased">>)

(* screen_apply_sgr(), screen_reverse_sgr(): the extent of the change is   *)
(* the rectangle, or the text from its first to its last cell              *)
FromCol(s, r, y) == IF y = r.ys \/ s.rectangle THEN r.xs ELSE min_ox(s)
ToCol(s, r, y) == IF y = r.ye - 1 \/ s.rectangle THEN r.xe ELSE max_ox(s)
SgrIn(s, r) ==
    Put(s, <<"sgr">>, LAMBDA p : p[1] >= r.ys /\ p[1] < r.ye /\ p[2] >= FromCol(s, r, p[1]) /\ p[2] < ToCol(s, r, p[1]))
screen_apply_sgr(s, r) == SgrIn(s, screen_erase_pre(s, r, TRUE))

(* screen_copy(), a row at a time *)
EndOf(from, to, start, dest, hi, lo) == Upper(lo, Lower(Lower(to - from + dest, hi) - dest + from, hi))
copy_line(s, ys, yd, r, xd) ==
    [s EXCEPT !.cells = [p \in Places |-> IF p[1] = yd /\ p[2] >= xd /\ p[2] < xd + (r.xe - r.xs)
                                          THEN s.cells[<<ys, p[2] - xd + r.xs>>] ELSE s.cells[p]]]
CopyRow(s, ys, yd, r, xd) == IF ys \in Rows /\ yd \in Rows THEN copy_line(s, ys, yd, r, xd) ELSE s
Upwards(n) == [k \in 1..n |-> k - 1]
(* Mutant: the copy always starts from the top *)
RowOrder_up(r, yd) == Upwards(r.ye - r.ys)
RowOrder(r, yd) == IF yd <= r.ys THEN Upwards(r.ye - r.ys) ELSE Reverse(Upwards(r.ye - r.ys))
CopyRows(s, r, xd, yd) ==
    IF r.xs >= r.xe \/ r.ys >= r.ye THEN s
    ELSE FoldLeft(LAMBDA t, k : CopyRow(t, r.ys + k, yd + k, r, xd), s, RowOrder(r, yd))
CopyTo(s, r, xs, ys, xd, yd, hx, lx, hy, ly) ==
    CopyRows(s, [xs |-> xs, ys |-> ys, xe |-> EndOf(xs, r.xe, xs, xd, hx, lx), ye |-> EndOf(ys, r.ye, ys, yd, hy, ly)], xd, yd)
CopyOrigin(s, r, xd, yd) ==
    CopyTo(s, r, Clamped(min_ox(s), r.xs, max_ox(s) - 1), Clamped(min_oy(s), r.ys, max_oy(s) - 1),
           Clamped(min_ox(s), xd, max_ox(s) - 1), Clamped(min_oy(s), yd, max_oy(s) - 1),
           max_ox(s), min_ox(s), max_oy(s), min_oy(s))
CopyScreen(s, r, xd, yd) ==
    CopyTo(s, r, Clamped(0, r.xs, Width), Clamped(0, r.ys, Height), Clamped(0, xd, Width), Clamped(0, yd, Height),
           Width, 0, Height, 0)
Ordered(r) == [xs |-> Lower(r.xs, r.xe), xe |-> Upper(r.xs, r.xe), ys |-> Lower(r.ys, r.ye), ye |-> Upper(r.ys, r.ye)]
screen_copy(s, r, xd, yd, origin) == IF origin THEN CopyOrigin(s, Ordered(r), xd, yd) ELSE CopyScreen(s, Ordered(r), xd, yd)

Erased(s, r) == screen_fill(s, r, FALSE, <<"blank">>)
LeftBy(s, left, n) ==
    Erased(screen_copy(s, Rect(left + n, min_y(s), max_x(s), max_y(s)), left, min_y(s), FALSE),
           Rect(max_x(s) - n, min_y(s), max_x(s), max_y(s)))
RightBy(s, left, n) ==
    Erased(screen_copy(s, Rect(left, min_y(s), max_x(s) - n, max_y(s)), left + n, min_y(s), FALSE),
           Rect(left, min_y(s), left + n, max_y(s)))
screen_scroll_horizontal(s, left, amount) ==
    IF amount > 0 THEN LeftBy(s, left, Lower(amount, max_x(s) - left))
    ELSE RightBy(s, left, Lower(-amount, max_x(s) - left))
(* screen_scroll() with left or right margins *)
UpBy(s, top, n) ==
    Erased(screen_copy(s, Rect(min_x(s), top + n, max_x(s), max_y(s)), min_x(s), top, FALSE),
           Rect(min_x(s), max_y(s) - n, max_x(s), max_y(s)))
DownBy(s, top, n) ==
    Erased(screen_copy(s, Rect(min_x(s), top, max_x(s), max_y(s) - n), min_x(s), top + n, FALSE),
           Rect(min_x(s), top, max_x(s), top + n))
screen_scroll(s, top, amount) ==
    IF amount > 0 THEN UpBy(s, top, Lower(amount, max_y(s) - top)) ELSE DownBy(s, top, Lower(-amount, max_y(s) - top))

(* DECBI, DECFI *)
screen_index_horizonal(s) ==
    IF s.x = max_x(s) - 1 THEN IF InRegion(s) THEN [screen_scroll_horizontal(s, min_x(s), 1) EXCEPT !.pending = FALSE] ELSE s
    ELSE screen_move_to(s, s.x + 1, s.y)
screen_rindex_horizonal(s) ==
    IF s.x = min_x(s) THEN IF InRegion(s) THEN [screen_scroll_horizontal(s, min_x(s), -1) EXCEPT !.pending = FALSE] ELSE s
    ELSE screen_move_to(s, s.x - 1, s.y)

----------------------------------------------------------------------------
(* did is the last operation, its arguments and the state before. After    *)
(* each operation the program paints the screen anew.                      *)
Init ==
    /\ scr \in {[x |-> 0, y |-> 0, pending |-> FALSE, origin |-> FALSE, lr |-> FALSE, top |-> 0, bottom |-> Height - 1,
                left |-> 0, right |-> Width - 1, wrap |-> w, reverseWrap |-> w, rectangle |-> e,
                cells |-> Painted, did |-> <<>>] : w \in BOOLEAN, e \in BOOLEAN}
    /\ ~(scr.wrap /\ scr.rectangle)

Does(new, did) == scr.did = <<>> /\ scr' = [new EXCEPT !.did = did]
Placed == \/ TopBeyondLeft
          \/ ~scr'.origin
          \/ min_oy(scr') <= min_ox(scr')
Margins ==
    \E top \in Rows, bottom \in Rows :
        Does(Home(screen_set_tb_margins(scr, top, bottom)), <<>>) /\ Placed
SideMargins ==
    \E left \in Cols, right \in Cols :
        scr.lr /\ Does(Home(screen_set_lr_margins(scr, left, right)), <<>>) /\ Placed
LrMode == \E set \in BOOLEAN : Does([scr EXCEPT !.lr = set], <<>>) /\ Placed
Origin == \E set \in BOOLEAN : Does(screen_set_origin(scr, set), <<>>) /\ Placed
(* A character in the last column *)
PrintLast == scr.x = max_x(scr) - 1 /\ Does([scr EXCEPT !.pending = scr.wrap], <<>>)

Position == \E row \in Lines, col \in Columns : Does(CursorTo(scr, row, col), <<"to", row, col>>)
Relative ==
    \E n \in Amounts :
        \/ Does(CursorUp(scr, n), <<"up", scr>>)
        \/ Does(CursorDown(scr, n), <<"down", scr>>)
        \/ Does(CursorRight(scr, n), <<"right", scr>>)
        \/ Does(screen_move_left(scr, n), <<"left", n, scr>>)
        \/ Does(screen_cr(CursorDown(scr, n)), <<"down", scr>>)

(* bound: the cursor does not matter to rectangles *)
AtHome == ~scr.wrap /\ scr.x = min_ox(scr) /\ scr.y = min_oy(scr)
Wanted(t, l, b, r) == Rect(min_ox(scr) + l - 1, min_oy(scr) + t - 1, min_ox(scr) + r, min_oy(scr) + b)
RectOp(t, l, b, r) ==
    LET w == Wanted(t, l, b, r)
    IN  \/ Does(screen_fill(scr, w, TRUE, <<"x">>), <<"rect", t, l, b, r, <<"x">>>>)
        \/ Does(screen_protective_erase(scr, w), <<"protected", t, l, b, r, <<"blank">>>>)
        \/ Does(screen_selective_erase(scr, w), <<"protected", t, l, b, r, <<"erased">>>>)
        \/ Does(screen_apply_sgr(scr, w), <<"extent", t, l, b, r>>)
Rectangle == \E t \in Lines, l \in Columns, b \in Lines, r \in Columns : AtHome /\ RectOp(t, l, b, r)
Copy ==
    \E t \in Lines, l \in Columns, b \in Lines, r \in Columns, dt \in Lines, dl \in Columns :
        /\ AtHome /\ t <= b /\ l <= r
        /\ Does(screen_copy(scr, Wanted(t, l, b, r), min_ox(scr) + dl - 1, min_oy(scr) + dt - 1, TRUE),
                <<"copy", t, l, b, r, dt, dl>>)
InsertDelete ==
    \E n \in Amounts :
        /\ InRegion(scr)
        /\ \/ Does(screen_scroll_horizontal(scr, scr.x, -n), <<"columns", scr.x, -n>>)
           \/ Does(screen_scroll_horizontal(scr, scr.x, n), <<"columns", scr.x, n>>)
           \/ scr.lr /\ Does(screen_scroll(scr, scr.y, n), <<"lines", scr.y, n>>)
           \/ scr.lr /\ Does(screen_scroll(scr, scr.y, -n), <<"lines", scr.y, -n>>)
Index ==
    \/ Does(screen_index_horizonal(scr), <<"index", scr>>)
    \/ Does(screen_rindex_horizonal(scr), <<"index", scr>>)
Repaint == scr.did # <<>> /\ scr' = [scr EXCEPT !.cells = Painted, !.did = <<>>]

Next ==
    \/ Margins \/ SideMargins \/ LrMode \/ Origin \/ PrintLast \/ Position \/ Relative
    \/ Rectangle \/ Copy \/ InsertDelete \/ Index \/ Repaint
Spec == Init /\ [][Next]_vars

----------------------------------------------------------------------------
Did == IF scr.did = <<>> THEN "nothing" ELSE scr.did[1]
(* A parameter beyond the region is the last of it *)
Row(n) == Lower(n, max_oy(scr) - min_oy(scr)) + min_oy(scr) - 1
Col(n) == Lower(n, max_ox(scr) - min_ox(scr)) + min_ox(scr) - 1
Region == {p \in Places : p[1] \in min_oy(scr)..(max_oy(scr) - 1) /\ p[2] \in min_ox(scr)..(max_ox(scr) - 1)}
Asked(d) == {p \in Region : p[1] \in Row(d[2])..Row(d[4]) /\ p[2] \in Col(d[3])..Col(d[5])}
Before(p, q) == p[1] < q[1] \/ (p[1] = q[1] /\ p[2] <= q[2])
Text(d) == {p \in Region : Before(<<Row(d[2]), Col(d[3])>>, p) /\ Before(p, <<Row(d[4]), Col(d[5])>>)}
Changed(set, what) == scr.cells = [p \in Places |-> IF p \in set THEN what ELSE p]

(* A rectangle operation changes the cells of its rectangle, limited to    *)
(* the region of the origin mode, and no other: what is protected stays,   *)
(* and the changes of attributes extend as DECSACE says. A copy is what    *)
(* the source was before, however source and destination overlap.          *)
CopyOf(d, p) ==
    LET q == <<p[1] - Row(d[6]) + Row(d[2]), p[2] - Col(d[7]) + Col(d[3])>>
    IN  IF p \in Region /\ q \in Asked(d) /\ p[1] >= Row(d[6]) /\ p[2] >= Col(d[7]) THEN q ELSE p
RectExact ==
    /\ Did = "rect" => Changed(Asked(scr.did), <<"x">>)
    /\ Did = "protected" => Changed({p \in Asked(scr.did) : ~Protected(p)}, scr.did[6])
    /\ Did = "extent" => Changed(IF scr.rectangle THEN Asked(scr.did) ELSE Text(scr.did), <<"sgr">>)
    /\ Did = "copy" => scr.cells = [p \in Places |-> CopyOf(scr.did, p)]

(* Insertion and deletion of columns and lines shift what is between the   *)
(* cursor and the margin, and nothing outside of the margins.              *)
Margined == {p \in Places : p[1] \in min_y(scr)..(max_y(scr) - 1) /\ p[2] \in min_x(scr)..(max_x(scr) - 1)}
Shifted(set, dy, dx) ==
    scr.cells = [p \in Places |-> IF p \notin set THEN p
                                  ELSE IF <<p[1] + dy, p[2] + dx>> \in set THEN <<p[1] + dy, p[2] + dx>> ELSE <<"blank">>]
ShiftExact ==
    /\ Did = "columns" => Shifted({p \in Margined : p[2] >= scr.did[2]}, 0, scr.did[3])
    /\ Did = "lines" => Shifted({p \in Margined : p[1] >= scr.did[2]}, scr.did[3], 0)

(* The cursor is reported at the place it was sent to. It does not leave   *)
(* the margins it is within, nor in origin mode any; and it goes the way   *)
(* it was told.                                                            *)
Stays(old) == InRegion(old) => InRegion(scr)
SentTo(d) == Report(scr) = <<Lower(d[2], max_oy(scr) - min_oy(scr)), Lower(d[3], max_ox(scr) - min_ox(scr))>>
CursorKept ==
    /\ Did = "to" => SentTo(scr.did)
    /\ Did \in {"up", "down", "right", "index"} => Stays(scr.did[2])
    /\ Did = "up" => scr.y <= scr.did[2].y
    /\ Did = "down" => scr.y >= scr.did[2].y
    /\ Did = "right" => scr.x >= scr.did[2].x \/ scr.did[2].x >= max_x(scr)

(* With reverse wrap the cursor goes back in the order of reading, from    *)
(* the first cell of the region to the last; whole rows exceed it.         *)
Cells(s) == (max_x(s) - min_x(s)) * (max_y(s) - min_y(s))
Linear(s) == (s.y - min_y(s)) * (max_x(s) - min_x(s)) + s.x - min_x(s)
GoesBack(n, old) ==
    InRegion(old) /\ old.wrap /\ ((n - (old.x + (IF old.pending THEN 1 ELSE 0) - min_x(old))) % (max_x(old) - min_x(old))) # 0
        => InRegion(scr) /\ (Linear(old) + (IF old.pending THEN 1 ELSE 0) - n - Linear(scr)) % Cells(scr) = 0
LeftInOrder == Did = "left" => GoesBack(scr.did[2], scr.did[3])
=============================================================================
