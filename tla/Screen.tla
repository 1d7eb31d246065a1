------------------------------- MODULE Screen ------------------------------
(***************************************************************************)
(* screen.c: the geometry of the screen. Rows are pieces of paragraphs; a  *)
(* paragraph is soft wrapped over rows, and its head may be in the history.*)
(* Every operation of the terminal cuts, joins, grows and frees paragraphs *)
(* under the rows, the view and the top of the history, which point into   *)
(* them.                                                                   *)
(*                                                                         *)
(* The variable scr holds, besides the fields of Paragraphs,               *)
(*   w, ht          width and height                                       *)
(*   top, bot       scrolling region                                       *)
(*   alt            mode.altscreen                                         *)
(*   sb             sb_limit                                               *)
(*   c, saved, back, last   c, saved_c, back_saved_c and last_scr_c        *)
(*   h.top, h.view  top_line and view_pos; the others serve a resize       *)
(*   ordered, kept  what the last operation did to the order of the        *)
(*                  numbers and to the place of the cursor in the text     *)
(* Rows and columns count from 0, as in the code. Left and right margins   *)
(* are those of the screen, characters are one column wide and tabulators  *)
(* are anywhere.                                                           *)
(***************************************************************************)
EXTENDS Paragraphs

CONSTANTS
    SB_MAX,         \* sb_max_caps, the length of the history
    MAX_LINE_LEN,
    Sizes,          \* sizes of the window: <<width, height>>
    Features,       \* the groups of operations of an instance
    MaxParagraphs   \* bound on the paragraphs of the main screen

ASSUME ScreenAssumption ==
    /\ SB_MAX \in Nat /\ MAX_LINE_LEN \in Nat /\ MaxParagraphs \in Nat
    /\ Sizes \subseteq (Nat \ {0}) \X (Nat \ {0})
    /\ Features \subseteq {"write", "feed", "move", "cells", "erase", "lines", "margins", "save", "alt", "view", "shortcuts", "anywhere", "resize"}

VARIABLE scr

Cur(s) == IF s.alt THEN "alt" ELSE "main"
Row(s, k, y) == s.span[k][y + 1]
RowHere(s, y) == Row(s, Cur(s), y)
WithWidth(s, k, y, width) == [s EXCEPT !.span[k][y + 1].width = width]
HandleTo(s, n, p) == [s EXCEPT !.h[n] = p]

screen_at_bottom(s) == s.h.view = Pos(RowHere(s, 0))
screen_reset_view(s) == HandleTo(s, "view", Pos(RowHere(s, 0)))

----------------------------------------------------------------------------
(* Cutting and growing the paragraph of a row *)
screen_split_line_before(s, y) ==
    LET r == RowHere(s, y) IN IF r.offset = 0 THEN s ELSE split_line(s, Cur(s), r.line, r.offset)

screen_split_line_after_ex(s, k, y) ==
    LET r == Row(s, k, y) IN split_line(s, k, r.line, r.offset + r.width)

screen_split_line_after(s, y) ==
    IF y + 1 >= s.ht \/ RowHere(s, y + 1).line # RowHere(s, y).line THEN s
    ELSE screen_split_line_after_ex(s, Cur(s), y)

screen_adjust_line_ex(s, k, y, size) ==
    LET r == Row(s, k, y)
    IN  IF SizeOf(s, r.line) >= r.offset + size THEN s
        ELSE WithWidth(Grow(s, k, r.line, r.offset + size), k, y, size)
screen_adjust_line(s, y, size) == screen_adjust_line_ex(s, Cur(s), y, size)

Empty(s, y) == WithWidth(Shrink(s, RowHere(s, y).line, 0), Cur(s), y, 0)
Emptied(s, y) == Empty(screen_split_line_after(s, y), y)

(* The rows from ys up to ye *)
screen_erase_fast(s, ys, ye) ==
    FoldLeft(Emptied, screen_split_line_before(s, ys), [i \in 1..ye - ys |-> ys + i - 1])

(* bare: the row has the attribute of the erased cells as its padding *)
Prepared(s, y, xs, xe, bare) ==
    LET r == RowHere(s, y)
    IN  IF ~bare \/ r.width > xe THEN screen_adjust_line(s, y, xe)
        ELSE IF r.width > xs THEN WithWidth(Shrink(s, r.line, r.offset + xs), Cur(s), y, xs)
        ELSE s

prep_lines(s, xs, ys, xe, ye, erase, bare) ==
    FoldLeft(LAMBDA t, y : Prepared(screen_split_line_after(t, y), y, xs, xe, erase /\ bare),
             IF erase /\ xs = 0 /\ ys < ye THEN screen_split_line_before(s, ys) ELSE s,
             [i \in 1..ye - ys |-> ys + i - 1])

(* New paragraphs behind the i-th of list k, on the rows from y on *)
create_lines_range(s, k, i, y, count) ==
    IF count <= 0 THEN s
    ELSE [WithLines(s, k, i, count) EXCEPT
             !.span[k] = SubSeq(@, 1, y) \o Each(NewIds(s, Min({count, Len(@) - y})), LAMBDA id : Span(id, 0, 0))
                         \o SubSeq(@, y + count + 1, Len(@))]

----------------------------------------------------------------------------
(* The history *)

(* "Pull from history": its loop ends before it began *)
push_history_until(s, from, to) ==
    LET n == Index(s.list["main"], to) - Index(s.list["main"], from)
    IN  IF n > 0 THEN [s EXCEPT !.sb = @ + n] ELSE s

(* The oldest n paragraphs are freed *)
FreedHistory(s, n) == FreeLines(s, "main", 1, n)

(* free_extra_lines() stops at the paragraph of the first row *)
ExtraLines(s) == Min({Max({s.sb - SB_MAX, 0}), Index(s.list["main"], Row(s, "main", 0).line) - 1})
OldestOnTop(s) == HandleTo(s, "top", At(s.list["main"][1], 0))
free_extra_lines(s) ==
    IF s.sb <= SB_MAX THEN s ELSE OldestOnTop([FreedHistory(s, ExtraLines(s)) EXCEPT !.sb = SB_MAX])
ViewFreed(s) == \E i \in 1..ExtraLines(s) : s.list["main"][i] = s.h.view.line

ViewOnTop(s) == HandleTo(s, "view", s.h.top)
screen_drain_scrolled(s) == IF ViewFreed(s) THEN ViewOnTop(free_extra_lines(s)) ELSE free_extra_lines(s)

screen_free_scrollback(s) ==
    LET n == Index(s.list["main"], Row(s, "main", 0).line) - 1
    IN  OldestOnTop([FreedHistory(IF n > 0 THEN screen_reset_view(s) ELSE s, n) EXCEPT !.sb = 0])

----------------------------------------------------------------------------
(* Scrolling *)

(* swap_3(): the paragraphs from top_after to mid_before go behind         *)
(* bottom_before                                                           *)
swap_3(s, k, top_after, mid_before, bottom_before) ==
    LET l == s.list[k]
        i == Index(l, top_after)  j == Index(l, mid_before)  m == Index(l, bottom_before)
    IN  [s EXCEPT !.list[k] = SubSeq(l, 1, i - 1) \o SubSeq(l, j + 1, m) \o SubSeq(l, i, j) \o SubSeq(l, m + 1, Len(l))]

(* The rows of the region, the first n of them last *)
Rotated(s, top, bottom, n) ==
    LET region == SubSeq(s.span[Cur(s)], top + 1, bottom)
        moved == SubSeq(region, n + 1, Len(region)) \o SubSeq(region, 1, n)
    IN  [s EXCEPT !.span[Cur(s)] = SubSeq(@, 1, top) \o moved \o SubSeq(@, bottom + 1, Len(@))]

FixFrom(s, k, y) == IF y < s.ht THEN fixup_lines_seqno(s, k, Index(s.list[k], Row(s, k, y).line)) ELSE s

(* Rows scrolled off the top go to the history *)
ScrollSaved(s, bottom, n) ==
    LET rest == bottom - n
        i == Index(s.list["main"], Row(s, "main", bottom - 1).line)
        t == [s EXCEPT !.span["main"] = SubSeq(@, n + 1, bottom) \o SubSeq(@, rest + 1, Len(@))]
        to == IF rest = 0 THEN NewAddress(s) ELSE Row(s, "main", n).line
    IN  push_history_until(fixup_lines_seqno(create_lines_range(t, "main", i, rest, n), "main", i + n + 1),
                           Row(s, "main", 0).line, to)

(* The first n rows of the region go last, with their paragraphs *)
Turned(s, top, bottom, n) ==
    LET k == Cur(s)
    IN  Rotated(IF n \in {0, bottom - top} THEN s
                ELSE swap_3(s, k, Row(s, k, top).line, Row(s, k, top + n - 1).line, Row(s, k, bottom - 1).line),
                top, bottom, n)

ScrollUp(s, top, bottom, n) ==
    FixFrom(Turned(screen_erase_fast(s, top, top + n), top, bottom, n), Cur(s), bottom - n)
ScrollDown(s, top, bottom, n) ==
    FixFrom(Turned(screen_erase_fast(s, bottom - n, bottom), top, bottom, bottom - top - n), Cur(s), top + n)

(* Mutant: the view is not moved with the first row *)
Followed_top(s, toTop, toView) == IF toTop THEN HandleTo(s, "top", At(RowHere(s, 0).line, 0)) ELSE s

Followed(s, toTop, toView) ==
    LET row == RowHere(s, 0)
    IN  [s EXCEPT !.h.top = IF toTop THEN At(row.line, 0) ELSE @, !.h.view = IF toView THEN Pos(row) ELSE @]

(* s.drain: no line is left unsealed *)
Drained(s, amount) == IF amount > 0 /\ s.drain THEN screen_drain_scrolled(s) ELSE s

Scrolled(s, top, bottom, amount, save) ==
    CASE amount < 0 -> ScrollDown(s, top, bottom, Min({-amount, bottom - top}))
      [] amount > 0 /\ save -> ScrollSaved(s, bottom, Min({amount, bottom - top}))
      [] amount > 0 /\ ~save -> ScrollUp(s, top, bottom, Min({amount, bottom - top}))

screen_scroll_fast(s, top, amount, save) ==
    Followed(Drained(Scrolled(screen_split_line_after(IF save THEN s ELSE screen_split_line_before(s, top), s.bot),
                              top, s.bot + 1, amount, save), amount),
             ~save /\ top = 0 /\ s.h.top = Pos(RowHere(s, 0)), screen_at_bottom(s))
screen_scroll(s, top, amount, save) ==
    screen_scroll_fast(s, top, amount, save /\ ~s.alt /\ top = 0 /\ amount >= 0)

----------------------------------------------------------------------------
(* The cursor *)
Clamp(i, n) == Max({0, Min({i, n - 1})})
screen_move_to(s, x, y) == [s EXCEPT !.c = [x |-> Clamp(x, s.w), y |-> Clamp(y, s.ht), pend |-> FALSE]]
screen_reset_pending(s) == [s EXCEPT !.c.pend = FALSE]
InRegion(s) == s.c.y \in s.top..s.bot

screen_cr(s) == screen_move_to(s, 0, s.c.y)
screen_index(s) ==
    IF s.c.y = s.bot THEN screen_reset_pending(screen_scroll(s, s.top, 1, TRUE))
    ELSE screen_move_to(s, s.c.x, s.c.y + 1)
screen_rindex(s) ==
    IF s.c.y = s.top THEN screen_reset_pending(screen_scroll(s, s.top, -1, TRUE))
    ELSE screen_move_to(s, s.c.x, s.c.y - 1)

(* The row of the cursor becomes the next of the paragraph above *)
JoinedTo(s, prev, line) == concat_line(s, "main", prev, line, SizeOf(s, prev), SizeOf(s, line))
JoinedAbove(s, line) == JoinedTo(s, PrevOf(s, line), line)
SoftWrapped(s, y) ==
    LET r == RowHere(s, y)
    IN  IF s.alt \/ PrevOf(s, r.line) = NULL \/ r.offset # 0 THEN s
        ELSE IF SizeOf(s, PrevOf(s, r.line)) + SizeOf(s, r.line) > MAX_LINE_LEN THEN s
        ELSE JoinedAbove(IF y > 0 THEN screen_adjust_line(s, y - 1, s.w) ELSE s, r.line)

WrapY(s) == IF s.c.y = s.bot THEN s.c.y ELSE Clamp(s.c.y + 1, s.ht)
screen_wrap(s, hard) ==
    IF hard THEN screen_cr(screen_index(s)) ELSE SoftWrapped(screen_cr(screen_index(s)), WrapY(s))

BeforeCursor(s) == screen_split_line_before(s, s.c.y)
screen_ensure_new_paragaph(s) == BeforeCursor(IF s.c.x > 0 THEN screen_wrap(s, TRUE) ELSE s)

(* print_buffer(): n characters at the cursor; inserted, they push the     *)
(* rest of the row to the right                                            *)
Put(s, n, size) ==
    LET pending == s.c.x + n = s.w
    IN  [IF RowHere(s, s.c.y).width < size THEN screen_adjust_line(s, s.c.y, size) ELSE s
            EXCEPT !.c.x = IF pending THEN s.w - 1 ELSE s.c.x + n, !.c.pend = pending]
PutSize(s, n, insert) ==
    LET width == RowHere(s, s.c.y).width
    IN  IF insert /\ s.c.x + n < s.w /\ s.c.x < width THEN Min({s.w, width + n}) ELSE s.c.x + n
Written(s, n, insert) == Put(screen_split_line_after(s, s.c.y), n, PutSize(s, n, insert))

WrapIfPending(s) == IF s.c.pend THEN screen_wrap(s, FALSE) ELSE s
print_buffer(s, n, wrap, insert) ==
    Written(IF wrap THEN WrapIfPending(s) ELSE [s EXCEPT !.c.x = Min({@, s.w - n})], n, insert)

(* screen_dispatch_print(), screen_dispatch_rep(): at most a row at once *)
MaxWidth(s, wrap) == IF s.c.pend /\ wrap THEN s.w ELSE s.w - s.c.x

(* screen_tabs(): one tabulator, over a cell that may be empty *)
screen_tabs(s, x) == [screen_adjust_line(s, s.c.y, s.c.x + 1) EXCEPT !.c.x = x]

----------------------------------------------------------------------------
(* Cells and lines at the cursor *)
EraseRect(s, xs, ys, xe, ye, bare) == prep_lines(s, xs, ys, xe, ye, TRUE, bare)

CutTo(s, y, width) ==
    LET r == RowHere(s, y) IN WithWidth(Shrink(s, r.line, r.offset + width), Cur(s), y, width)
Narrowed(s, y, width) ==
    CutTo(IF width = 0 THEN screen_split_line_before(screen_split_line_after(s, y), y)
          ELSE screen_split_line_after(s, y), y, width)
screen_delete_cells(s, m, bare) ==
    LET n == Min({m, s.w - s.c.x})
        width == RowHere(s, s.c.y).width
    IN  screen_reset_pending(EraseRect(IF width > s.c.x THEN Narrowed(s, s.c.y, Max({width - n, s.c.x})) ELSE s,
                                       s.w - n, s.c.y, s.w, s.c.y + 1, bare))

screen_insert_cells(s, m, bare) ==
    LET n == Min({m, s.w - s.c.x})
        width == RowHere(s, s.c.y).width
    IN  screen_reset_pending(
            IF ~InRegion(s) THEN s
            ELSE EraseRect(IF width > s.c.x THEN screen_adjust_line(s, s.c.y, Min({width + n, s.w})) ELSE s,
                           s.c.x, s.c.y, s.c.x + n, s.c.y + 1, bare))

screen_insert_lines(s, n) ==
    screen_cr(IF InRegion(s) THEN screen_scroll(s, s.c.y, -n, FALSE) ELSE s)
screen_delete_lines(s, n) ==
    screen_cr(IF InRegion(s) THEN screen_scroll(s, s.c.y, n, FALSE) ELSE s)

screen_set_tb_margins(s, top, bottom) ==
    IF top < bottom THEN [s EXCEPT !.top = Clamp(top, s.ht), !.bot = Clamp(bottom, s.ht)]
    ELSE [s EXCEPT !.top = 0, !.bot = s.ht - 1]

----------------------------------------------------------------------------
(* The two screens *)
screen_save_cursor(s) == [s EXCEPT !.saved = s.c]
screen_restore_cursor(s) == [s EXCEPT !.c = s.saved]
screen_swap_screen(s) ==
    screen_reset_view([s EXCEPT !.last = IF s.alt THEN @ ELSE s.c, !.alt = ~@, !.saved = s.back, !.back = s.saved])

Entered(s, save) == screen_swap_screen(IF save THEN screen_save_cursor(s) ELSE s)
Left(s, save) == IF save THEN screen_restore_cursor(screen_swap_screen(s)) ELSE screen_swap_screen(s)
Cleared(s, bare) == EraseRect(s, 0, 0, s.w, s.ht, bare)
screen_set_altscreen(s, set, clear, save, bare) ==
    IF ~set THEN IF s.alt THEN Left(s, save) ELSE s
    ELSE IF clear THEN Cleared(IF s.alt THEN s ELSE Entered(s, save), bare)
    ELSE IF s.alt THEN s ELSE Entered(s, save)

----------------------------------------------------------------------------
(* The view *)
NotBelow(s) == IF NotAfter(s, s.h.view, RowHere(s, 0)) THEN s ELSE screen_reset_view(s)
screen_scroll_view(s, amount) ==
    IF s.alt \/ SB_MAX = 0 \/ (screen_at_bottom(s) /\ amount < 0) THEN s
    ELSE NotBelow(HandleTo(s, "view", line_shift_n(s, s.h.view, -amount, s.w).at))

screen_scroll_view_top(s) == HandleTo(s, "view", At(s.h.top.line, 0))

(* Down, to a prompt or to the first row, whichever the search meets       *)
CmdBelow(s) ==
    LET l == s.list[ListOf(s, s.h.view.line)]
        i == Index(l, s.h.view.line)
        j == Index(l, RowHere(s, 0).line)
    IN  IF screen_at_bottom(s) THEN {} ELSE {l[m] : m \in i + 1..IF i < j THEN j ELSE Len(l)}

(* Up, to a prompt or to the oldest paragraph *)
CmdAbove(s) ==
    LET l == s.list[ListOf(s, s.h.view.line)] IN {l[m] : m \in 1..Index(l, s.h.view.line)}

screen_scroll_view_to_cmd(s, line) == HandleTo(s, "view", At(line, 0))

----------------------------------------------------------------------------
(* Resizing *)
ClampCursor(cur, w, h) ==
    [cur EXCEPT !.x = IF cur.pend THEN w - 1 ELSE Clamp(@, w), !.y = Clamp(@, h)]

SizedTo(s, id, w) ==
    IF w > s.w THEN Grow(s, "alt", id, SizeOf(s, id)) ELSE Shrink(s, id, w)

Blank(n) == [y \in 1..Max({n, 0}) |-> Span(NULL, 0, 0)]
AltLess(s, h) ==
    [FreeLines(s, "alt", h + 1, s.ht) EXCEPT !.span["alt"] = SubSeq(@, 1, Min({s.ht, h}))]
AltSized(s, w) == FoldLeft(LAMBDA t, id : SizedTo(t, id, w), s, s.list["alt"])
AltMore(s, w, h) ==
    create_lines_range([s EXCEPT !.span["alt"] = Each(@, LAMBDA r : [r EXCEPT !.width = Min({@, w})]) \o Blank(h - s.ht)],
                       "alt", Len(s.list["alt"]), s.ht, h - s.ht)
AltCursors(s, w, h) ==
    IF s.alt THEN [s EXCEPT !.saved = ClampCursor(@, w, h), !.c = ClampCursor(@, w, h)]
    ELSE [s EXCEPT !.back = ClampCursor(@, w, h)]
resize_altscreen(s, w, h) == AltCursors(AltMore(AltSized(AltLess(s, h), w), w, h), w, h)

(* The cursors of the main screen *)
MainCursor(s) == IF s.alt THEN "last" ELSE "c"
MainSaved(s) == IF s.alt THEN "back" ELSE "saved"
CursorPos(s, cur) == LET r == Row(s, "main", cur.y) IN At(r.line, r.offset + cur.x)

round_offset_to_width(p, w) == [p EXCEPT !.offset = (@ \div w) * w]

RECURSIVE RowOf(_, _, _, _, _)
RowOf(s, it, p, y, w) ==
    IF it.line = p.line /\ it.offset <= p.offset /\ p.offset < line_advance_width(s, it, w)
    THEN [y |-> y, x |-> p.offset - it.offset]
    ELSE IF NextRow(s, it, w) = <<>> THEN [y |-> -1, x |-> 0]
    ELSE RowOf(s, NextRow(s, it, w)[1], p, y + 1, w)

Placed(cur, found, w) == [cur EXCEPT !.x = IF cur.pend THEN w - 1 ELSE Min({found.x, w - 1}), !.y = Max({found.y, -1})]
translate_screen_position(s, first, p, cur, w) ==
    Placed(cur, IF NotAfter(s, first, p) THEN RowOf(s, first, p, 0, w) ELSE [x |-> cur.x, y |-> Max({cur.y, 0})], w)

(* The handles a resize takes along *)
Reach(s, cur) == screen_adjust_line_ex(s, "main", cur.y, cur.x + 1)
Anchored(s) ==
    Reach(Reach([s EXCEPT !.h.first = Pos(Row(s, "main", 0)),
                          !.h.cur = CursorPos(s, s[MainCursor(s)]), !.h.saved = CursorPos(s, s[MainSaved(s)])],
                s[MainCursor(s)]), s[MainSaved(s)])

(* When there is not enough above the cursor, empty rows come on top       *)
MoreHistory(s, n) ==
    IF n = 0 THEN s
    ELSE OldestOnTop(fixup_lines_seqno(create_lines_range([s EXCEPT !.sb = @ + n], "main", 0, 0, n), "main", n + 1))

(* The rows from position it on, and no further than the list *)
RECURSIVE RowsFrom(_, _, _, _)
RowsFrom(s, it, n, w) ==
    LET r == Span(it.line, it.offset, line_advance_width(s, it, w) - it.offset)
        next == NextRow(s, it, w)
    IN  IF n = 1 \/ next = <<>> THEN <<r>> ELSE <<r>> \o RowsFrom(s, next[1], n - 1, w)

(* What is below the last row is cut off, or rows are added *)
CutOff(s, i) == FreeLines(s, "main", i + 1, Len(s.list["main"]))
CutBelow(s, last, h) ==
    CutOff(IF SizeOf(s, last.line) # last.offset + last.width THEN screen_split_line_after_ex(s, "main", h - 1) ELSE s,
           Index(s.list["main"], last.line))
Fitted(s, rows, h) ==
    IF Len(rows) = h THEN CutBelow([s EXCEPT !.span["main"] = rows], rows[h], h)
    ELSE create_lines_range([s EXCEPT !.span["main"] = rows \o SubSeq(@, Len(rows) + 1, h)], "main",
                            Index(s.list["main"], Last(rows).line), Len(rows), h - Len(rows))

(* resize_main_screen(): the steps, in the order of the code. it is the    *)
(* first row; when the cursor does not fit, rows go to the history.        *)
Shifted(s, it, w, delta, h) ==
    [it |-> Down(s, it, delta, w).at,
     s |-> [s EXCEPT ![MainCursor(s)].y = @ - delta,
                     ![MainSaved(s)].y = Min({IF delta = 0 THEN @ ELSE Max({0, @ - delta}), h - 1})]]
(* Mutant: the saved cursor is not taken along *)
PlaceCursors_saved(s, it, w, h) ==
    LET y == translate_screen_position(s, it, s.h.cur, s[MainCursor(s)], w).y
    IN  Shifted([s EXCEPT ![MainSaved(s)].x = Min({@, w - 1}),
                          ![MainCursor(s)] = translate_screen_position(s, it, s.h.cur, @, w)],
                it, w, Max({0, y - (h - 1)}), h)
PlaceCursors(s, it, w, h) ==
    LET y == translate_screen_position(s, it, s.h.cur, s[MainCursor(s)], w).y
    IN  Shifted([s EXCEPT ![MainSaved(s)] = translate_screen_position(s, it, s.h.saved, @, w),
                          ![MainCursor(s)] = translate_screen_position(s, it, s.h.cur, @, w)],
                it, w, Max({0, y - (h - 1)}), h)
(* Where the row of the cursor gets to, going up from it *)
FirstRow(s, w) == line_shift_n(s, round_offset_to_width(s.h.cur, w), -s[MainCursor(s)].y, w)
WithFirstRow(s, up, w, h) == PlaceCursors(MoreHistory(s, -up.rest), IF up.rest = 0 THEN up.at ELSE At(NewAddress(s), 0), w, h)
ToHeight(s, h) == [s EXCEPT !.span["main"] = SubSeq(@, 1, Min({h, s.ht})) \o Blank(h - s.ht)]
WithHistory(q) == [it |-> q.it, s |-> push_history_until(q.s, q.s.h.first.line, q.it.line)]

(* Where the view stays, after lines have been freed and cut off *)
StickTo(s, p, f, stick) ==
    IF s.alt THEN stick
    ELSE IF free_extra_lines(p).h.low.line = NULL /\ ViewFreed(p) THEN "top"
    ELSE IF f.h.low.line = NULL THEN "bottom" ELSE stick

FitRows(s, it, w, h) == Fitted(s, RowsFrom(s, it, h, w), h)
Final(s, w, h) == [s EXCEPT !.w = w, !.ht = h, !.top = 0, !.bot = h - 1]

(* The last row of the view stays the last *)
ViewAbove(s, low) ==
    line_shift_n(s, [low EXCEPT !.offset = @ - (@ % s.w)], 1 - s.ht, s.w).at

fixup_view(s, stick) ==
    CASE stick = "bottom" -> screen_reset_view(s)
      [] stick = "top" -> ViewOnTop(s)
      [] stick = "none" -> HandleTo(s, "view", ViewAbove(s, s.h.low))

(* The rows of the main screen that show position p, and whether a cursor  *)
(* is there; one that waits at the margin has no column of its own.        *)
RowsWith(s, p) ==
    {y \in 0..s.ht - 1 : LET r == Row(s, "main", y)
                         IN  r.line = p.line /\ p.offset \in r.offset..r.offset + r.width - 1}
Shows(s, cur, p) ==
    cur.y \in RowsWith(s, p) /\ (cur.pend \/ CursorPos(s, cur) = p)
CursorKept(s) ==
    /\ Shows(s, s[MainCursor(s)], s.h.cur)
    /\ RowsWith(s, s.h.saved) # {} => Shows(s, s[MainSaved(s)], s.h.saved)
Viewed(s, stick) == [fixup_view(s, stick) EXCEPT !.kept = CursorKept(s)]

Refit(s, p, it, w, h, stick) ==
    LET f == FitRows(free_extra_lines(p), it, w, h)
    IN  Viewed(Final(f, w, h), StickTo(s, p, f, stick))
MainResized(s, q, w, h, stick) == Refit(s, q.s, q.it, w, h, stick)
Reflowed(s, a, w, h, stick) == MainResized(s, WithHistory(WithFirstRow(a, FirstRow(a, w), w, h)), w, h, stick)

WithLow(s) == HandleTo(s, "low", Down(s, s.h.view, s.ht - 1, s.w).at)
StickNow(s) == IF screen_at_bottom(s) THEN "bottom" ELSE IF s.h.view = s.h.top THEN "top" ELSE "none"
ResizeMain(s, w, h) == Reflowed(s, ToHeight(Anchored(s), h), w, h, StickNow(s))
screen_resize(s, w, h) == ResizeMain(WithLow(resize_altscreen(screen_drain_scrolled(s), w, h)), w, h)

----------------------------------------------------------------------------
(* Addresses and numbers are told apart by their order in the lists only.  *)
(* An operation begins with numbers that leave room between them or not.   *)
(* last_scr_c is read in the alternative screen only.                      *)
Lists(s) == s.list["main"] \o s.list["alt"]
Increasing(s, k) ==
    \A i, j \in 1..Len(s.list[k]) : i < j => s.L[s.list[k][i]].seq < s.L[s.list[k][j]].seq

Prep(s, gap, drain) ==
    [s EXCEPT !.L = Each(@, LAMBDA line : [line EXCEPT !.seq = gap * @]), !.drain = drain, !.kept = TRUE]

Known(p, names) == IF p.line = NULL THEN p ELSE [p EXCEPT !.line = names[@]]
Home == [x |-> 0, y |-> 0, pend |-> FALSE]
Names(s, ids) == SubSeq([id \in DOMAIN s.L |-> IF Contains(ids, id) THEN Index(ids, id) ELSE NULL], 1, Len(s.L))
Renaming(s, names) ==
    Handles(Rows(Rows(s, "main", LAMBDA p : Known(p, names)), "alt", LAMBDA p : Known(p, names)), LAMBDA p : Known(p, names))
Canon(s) ==
    LET ids == Lists(s)
        m == Len(s.list["main"])
    IN  [Renaming(s, Names(s, ids)) EXCEPT
            !.L = [i \in 1..Len(ids) |-> [seq |-> i, size |-> SizeOf(s, ids[i])]],
            !.list["main"] = [i \in 1..m |-> i], !.list["alt"] = [i \in 1..Len(ids) - m |-> m + i],
            !.h.cur = Nowhere, !.h.saved = Nowhere, !.h.first = Nowhere, !.h.low = Nowhere,
            !.ordered = Increasing(s, "main") /\ Increasing(s, "alt"), !.drain = FALSE,
            !.last = IF s.alt THEN @ ELSE Home]


(* screen_resize() of an empty screen *)
Opened(w, h) ==
    [L |-> [i \in 1..2 * h |-> [seq |-> i, size |-> 0]],
     list |-> [main |-> [i \in 1..h |-> i], alt |-> [i \in 1..h |-> h + i]],
     span |-> [main |-> [i \in 1..h |-> Span(i, 0, 0)], alt |-> [i \in 1..h |-> Span(h + i, 0, 0)]],
     h |-> [top |-> At(1, 0), view |-> At(1, 0), cur |-> Nowhere, saved |-> Nowhere, first |-> Nowhere, low |-> Nowhere],
     w |-> w, ht |-> h, top |-> 0, bot |-> h - 1, alt |-> FALSE, sb |-> 0,
     c |-> Home, saved |-> Home, back |-> Home, last |-> Home,
     drain |-> FALSE, ordered |-> TRUE, kept |-> TRUE]

Init == \E size \in Sizes : scr = Opened(size[1], size[2])

(* An operation, under each of the conditions it may meet *)
Becomes(s) == Len(s.list["main"]) <= MaxParagraphs /\ scr' = Canon(s)
Does(feature, Op(_)) ==
    /\ feature \in Features
    /\ \E tight \in IF feature \in {"write", "feed", "cells", "erase", "lines"} THEN BOOLEAN ELSE {FALSE} : Becomes(Op(Prep(scr, IF tight THEN 1 ELSE 2, tight)))

Write == \E n \in 1..MaxWidth(scr, TRUE) : Does("write", LAMBDA s : print_buffer(s, n, TRUE, FALSE))
Insert == \E n \in 1..MaxWidth(scr, TRUE) : Does("cells", LAMBDA s : print_buffer(s, n, TRUE, TRUE))
WriteNoWrap == \E n \in 1..MaxWidth(scr, FALSE) : Does("cells", LAMBDA s : print_buffer(s, n, FALSE, FALSE))
Feed == Does("feed", screen_index)
ReverseFeed == Does("feed", screen_rindex)
MoveTo == /\ "move" \in Features
          /\ \E x \in 0..scr.w, y \in 0..scr.ht : scr' = [screen_move_to(scr, x, y) EXCEPT !.kept = TRUE]
Return == Does("feed", screen_cr)
Tab == scr.c.x < scr.w - 1 /\ \E x \in scr.c.x + 1..scr.w - 1 : Does("cells", LAMBDA s : screen_tabs(s, x))
NewParagraph == Does("cells", screen_ensure_new_paragaph)
DeleteCells == \E n \in 1..scr.w, bare \in BOOLEAN : Does("cells", LAMBDA s : screen_delete_cells(s, n, bare))
InsertCells == \E n \in 1..scr.w, bare \in BOOLEAN : Does("cells", LAMBDA s : screen_insert_cells(s, n, bare))
Erase == \E xs \in 0..scr.w - 1, ys \in 0..scr.ht - 1 : \E xe \in xs + 1..scr.w, ye \in ys + 1..scr.ht :
            \/ \E bare \in BOOLEAN : Does("erase", LAMBDA s : EraseRect(s, xs, ys, xe, ye, bare))
            \/ Does("erase", LAMBDA s : prep_lines(s, xs, ys, xe, ye, FALSE, FALSE))
InsertLines == \E n \in 1..scr.ht : Does("lines", LAMBDA s : screen_insert_lines(s, n))
DeleteLines == \E n \in 1..scr.ht : Does("lines", LAMBDA s : screen_delete_lines(s, n))
SetMargins == \E top, bottom \in 0..scr.ht - 1 :
                 Does("margins", LAMBDA s : screen_move_to(screen_set_tb_margins(s, top, bottom), 0, 0))
SaveCursor == Does("save", screen_save_cursor)
RestoreCursor == Does("save", screen_restore_cursor)
(* DEC private modes 47 and 1049 *)
SetAltscreen ==
    \/ \E set, full \in BOOLEAN : ~(set /\ full) /\ Does("alt", LAMBDA s : screen_set_altscreen(s, set, full, full, FALSE))
    \/ \E bare \in BOOLEAN : Does("alt", LAMBDA s : screen_set_altscreen(s, TRUE, TRUE, TRUE, bare))
ScrollView == \E n \in {-1, 1} : Does("view", LAMBDA s : screen_scroll_view(s, n))
ViewBottom == Does("shortcuts", screen_reset_view)
ViewAboveCmd == \E line \in CmdAbove(scr) : Does("shortcuts", LAMBDA s : screen_scroll_view_to_cmd(s, line))

(* Two shortcuts leave the screen in a state the others do not expect:     *)
(* to the top of the history from the alternative screen, and down from a  *)
(* paragraph that is partly above the first row. "anywhere" allows them.   *)
ViewTop == (~scr.alt \/ "anywhere" \in Features) /\ Does("view", screen_scroll_view_top)
ViewBelowCmd == /\ scr.h.view.line # RowHere(scr, 0).line \/ "anywhere" \in Features
                /\ \E line \in CmdBelow(scr) : Does("shortcuts", LAMBDA s : screen_scroll_view_to_cmd(s, line))

FreeScrollback == Does("resize", screen_free_scrollback)
Drain == Does("view", screen_drain_scrolled)
Resize == \E size \in Sizes : Does("resize", LAMBDA s : screen_resize(s, size[1], size[2]))

Program == \/ Write \/ Insert \/ WriteNoWrap \/ Return \/ Feed \/ ReverseFeed \/ MoveTo \/ Tab \/ NewParagraph \/ DeleteCells \/ InsertCells \/ Erase
           \/ InsertLines \/ DeleteLines \/ SetMargins \/ SaveCursor \/ RestoreCursor \/ SetAltscreen
User == ScrollView \/ ViewBottom \/ ViewTop \/ ViewAboveCmd \/ ViewBelowCmd \/ FreeScrollback \/ Resize
Next == Program \/ User \/ Drain
Spec == Init /\ [][Next]_scr
----------------------------------------------------------------------------
Inside(s, cur) == cur.x \in 0..s.w - 1 /\ cur.y \in 0..s.ht - 1
Above(s) == Index(s.list["main"], Row(s, "main", 0).line) - 1
Adjacent(s, k, y) ==
    LET a == Row(s, k, y) b == Row(s, k, y + 1)
    IN  IF a.line = b.line THEN b.offset = a.offset + a.width ELSE b.offset = 0 /\ NextOf(s, a.line) = b.line

(* Every paragraph and every row is where it can be: rows have a line,     *)
(* cursors are on the screen, the region is a part of it.                  *)
TypeOK ==
    /\ \A k \in {"main", "alt"} : Len(scr.span[k]) = scr.ht
                                  /\ \A y \in 1..scr.ht : Contains(scr.list[k], scr.span[k][y].line)
    /\ \A cur \in {scr.c, scr.saved, scr.back, scr.last} : Inside(scr, cur)
    /\ 0 <= scr.top /\ scr.top <= scr.bot /\ scr.bot < scr.ht
    /\ scr.sb \in Nat

(* validate_main_screen(): the rows follow each other through the          *)
(* paragraphs without a hole, to the end of the last one; the history      *)
(* begins at the head of the list, and a row shows only what the paragraph *)
(* holds.                                                                  *)
MainValid ==
    LET last == Row(scr, "main", scr.ht - 1)
    IN  /\ scr.h.top = At(scr.list["main"][1], 0)
        /\ NextOf(scr, last.line) = NULL /\ last.offset + last.width = SizeOf(scr, last.line)
        /\ \A y \in 0..scr.ht - 1 : LET r == Row(scr, "main", y)
                                    IN  r.width <= scr.w /\ r.offset + r.width <= SizeOf(scr, r.line)
        /\ \A y \in 0..scr.ht - 2 : Adjacent(scr, "main", y)

(* validate_altscreen(): every row of the alternative screen is a          *)
(* paragraph of its own, in the order of the list, and there are no others *)
AltValid ==
    /\ Len(scr.list["alt"]) = scr.ht
    /\ \A y \in 0..scr.ht - 1 : LET r == Row(scr, "alt", y)
                                IN  r.line = scr.list["alt"][y + 1] /\ r.offset = 0 /\ r.width <= scr.w

(* The numbers by which positions are compared, and rows are found when a  *)
(* paragraph moves, grow along both lists (assert in                       *)
(* validate_main_screen()).                                                *)
Ordered == scr.ordered

(* The view is on a paragraph of the screen that is shown, between the     *)
(* oldest of the history and the first row (assert in fixup_view()).       *)
ViewInside ==
    /\ Contains(scr.list[Cur(scr)], scr.h.view.line)
    /\ NotAfter(scr, scr.h.view, RowHere(scr, 0))
    /\ scr.alt => screen_at_bottom(scr)

(* A resize leaves the cursor on the character it was on, whatever was     *)
(* rewrapped, pushed to the history or pulled from it, and the saved       *)
(* cursor too as long as its character is on the screen.  (When that went  *)
(* to the history, or was cut off below, screen.c:758-766 leaves the saved *)
(* cursor on the screen and the character it was on is not followed.)      *)
CursorStays == scr.kept

(* A view that shows the screen leaves it when the user moves it only, not *)
(* by what the program writes.                                             *)
BottomStays == screen_at_bottom(scr) => screen_at_bottom(scr') \/ User
=============================================================================
