------------------------------ MODULE Effects ------------------------------
(***************************************************************************)
(* window.c, render-shm.c, screen.c, window-x11.c: what a window hides for *)
(* a time and shows again: the text cursor, that blinks and goes while it  *)
(* moves, the mouse pointer, that goes while keys are pressed, and titles. *)
(*                                                                         *)
(* The grid is the cell at the cursor and the one it leaves; a timer is    *)
(* armed or not, and a step of its own when it expires.                    *)
(***************************************************************************)
EXTENDS Integers, Sequences

CONSTANTS
    Sessions,       \* of a configuration, what is done and, when it is read again, its next configuration
    Titles, MaxStack, MaxSteps      \* bounds

(* w: cfg; blink_timer is "none", "off" or "on", blink_inhibit_timer and   *)
(* pointer_inhibit_timer tell whether they are armed, event is             *)
(* any_event_happened or force_redraw. drawn tells that the cell of the    *)
(* cursor was, shown that a cursor is in it, text that blinking text is on *)
(* the screen, lit that it is seen; selected tells that the window has an  *)
(* image for the pointer. cut, popped and refused are ghosts: a reload     *)
(* took a timer from what waits for it, the titles that are due, and that  *)
(* the pointer was to be shown last time with no image to show.            *)
VARIABLE w
Init == \E s \in Sessions :
    w = [s |-> s, cfg |-> s.cfg, blink_timer |-> IF s.cfg.allow_blinking THEN "on" ELSE "none", blink |-> FALSE, committed |-> FALSE,
         inhibit |-> FALSE, blink_inhibit_timer |-> FALSE, event |-> TRUE, moved |-> FALSE, hidden |-> FALSE, prev_hidden |-> FALSE,
         drawn |-> FALSE, shown |-> FALSE, text |-> FALSE, lit |-> FALSE,
         pointer_inhibit |-> FALSE, pointer_inhibit_timer |-> FALSE, pointer_mode |-> "never", tracking |-> FALSE, pointer_is_hidden |-> FALSE,
         selected |-> FALSE, refused |-> FALSE,
         title |-> "nsst", icon |-> "nsst", stack |-> <<>>, due |-> <<>>, popped |-> <<>>, cut |-> FALSE, n |-> 0]

Do(what) == what \in w.s.does /\ w.n < MaxSteps
Count(v) == [v EXCEPT !.n = @ + 1]

----------------------------------------------------------------------------
(* What a redraw does to the cursor and to blinking text *)

(* screen_redraw(): the cell is drawn again when the cursor came or went,  *)
(* or blinks                                                               *)
Touched(v) == v.moved \/ v.prev_hidden # v.hidden \/ ~v.committed
screen_damage(v) ==
    [v EXCEPT !.drawn = @ /\ ~(Touched(v) /\ (~v.hidden \/ ~v.prev_hidden)),
              !.prev_hidden = v.hidden, !.moved = FALSE]

(* window_submit_screen() *)
Steady(v, moved) == IF moved THEN [v EXCEPT !.inhibit = TRUE, !.blink_inhibit_timer = TRUE] ELSE v

CursorBlinks(v) == v.cfg.blinking_shape /\ ~v.hidden /\ ~v.inhibit
CursorVisible(v) ==
    /\ ~v.hidden
    /\ CursorBlinks(v) => ~v.committed /\ ~v.blink
    /\ v.inhibit => ~v.cfg.cursor_hide_on_input
has_blinking(v) == CursorBlinks(v) \/ v.text

poller_toggle(timer, on) == IF timer = "none" THEN "none" ELSE IF on THEN "on" ELSE "off"

submit_screen(v) ==
    [v EXCEPT !.shown = IF v.drawn THEN @ ELSE CursorVisible(v), !.drawn = TRUE,
              !.lit = v.text /\ ~v.blink,
              !.committed = @ \/ v.blink_timer = "on",
              !.blink_timer = poller_toggle(@, has_blinking(v))]

Redraw(v) == submit_screen(Steady(screen_damage(v), v.moved))
Tick == w.event /\ w' = [Redraw(w) EXCEPT !.event = FALSE]

----------------------------------------------------------------------------
(* The pointer *)

Hide(v) ==
    \/ v.pointer_inhibit /\ v.cfg.pointer_hide_on_input
    \/ v.pointer_mode = "always"
    \/ v.pointer_mode = "no_tracking" /\ ~v.tracking
(* try_update_pointer_mode() hides, but shows no image that is not there *)
Refused(v) == v.pointer_is_hidden /\ ~Hide(v) /\ ~v.selected
window_update_pointer_mode(v) == [v EXCEPT !.pointer_is_hidden = Hide(v) \/ Refused(v), !.refused = Refused(v)]
select_cursor(v) == [v EXCEPT !.selected = TRUE]

handle_pointer_inhibit_timeout ==
    w.pointer_inhibit_timer /\ w' = window_update_pointer_mode([w EXCEPT !.pointer_inhibit_timer = FALSE, !.pointer_inhibit = FALSE])
handle_keydown ==
    /\ Do("key") /\ w.cfg.pointer_hide_on_input
    /\ w' = Count(window_update_pointer_mode([w EXCEPT !.pointer_inhibit_timer = TRUE, !.pointer_inhibit = TRUE]))
window_reset_pointer_inhibit_timer(v) ==
    window_update_pointer_mode([v EXCEPT !.pointer_inhibit_timer = FALSE, !.pointer_inhibit = FALSE])
(* The pointer moves; update_cursor() follows, as alone when the window    *)
(* gets the focus and when a program selects a shape                       *)
Motion == Do("motion") /\ w' = Count(select_cursor(window_reset_pointer_inhibit_timer(w)))
update_cursor == Do("motion") /\ ~w.selected /\ w' = Count(select_cursor(w))
window_set_pointer_mode ==
    Do("mode") /\ \E mode \in {"never", "no_tracking", "always"} \ {w.pointer_mode} :
        w' = Count(window_update_pointer_mode([w EXCEPT !.pointer_mode = mode]))
(* The modes of mouse reports: the X11 backend looks at the pointer again; *)
(* the other does not, where PointerAsAsked is of the last time it did     *)
SetMouse == Do("mode") /\ w' = Count(window_update_pointer_mode([w EXCEPT !.tracking = ~@]))

----------------------------------------------------------------------------
(* The timers of the cursor *)

handle_blink ==
    w.blink_timer = "on" /\ w' = [w EXCEPT !.blink = ~@, !.committed = FALSE, !.event = TRUE]
(* Mutant: the timer is left as the last redraw left it *)
Blinking_off(v) == [v EXCEPT !.inhibit = FALSE, !.blink = v.cfg.cursor_hide_on_input]
Blinking(v) == [v EXCEPT !.inhibit = FALSE, !.blink = v.cfg.cursor_hide_on_input, !.blink_timer = poller_toggle(@, TRUE)]
handle_blink_inhibit_timeout ==
    w.blink_inhibit_timer /\ w' = window_update_pointer_mode(Blinking([w EXCEPT !.blink_inhibit_timer = FALSE]))

(* What programs do to the cursor and the cells *)
Output ==
    Do("output") /\ \E v \in {[w EXCEPT !.moved = TRUE], [w EXCEPT !.hidden = ~@], [w EXCEPT !.drawn = FALSE]} :
        w' = Count([v EXCEPT !.event = TRUE])
BlinkingText == Do("text") /\ w' = Count([w EXCEPT !.text = ~@, !.event = TRUE])

(* reload_window() takes the timers, not what waits for them. The cursors  *)
(* of the pointer are loaded and the grid is drawn again                   *)
reload_window ==
    /\ Do("reload") /\ w.cfg # w.s.next
    /\ w' = Count(window_update_pointer_mode(
                [w EXCEPT !.cfg = w.s.next, !.blink_timer = IF w.s.next.allow_blinking THEN "on" ELSE "none",
                          !.blink_inhibit_timer = FALSE, !.pointer_inhibit_timer = FALSE,
                          !.event = TRUE, !.drawn = FALSE, !.cut = w.inhibit \/ w.pointer_inhibit]))

----------------------------------------------------------------------------
(* Titles. which is a set of "title" and "icon"; an item has what it saves *)
(* and NULL for the other. due has of each item both titles of the time.   *)
Which == {{"title"}, {"icon"}, {"title", "icon"}}
NULL == "NULL"

SetTitle == Do("title") /\ \E t \in Titles \ {w.title}, which \in Which :
    w' = Count([w EXCEPT !.title = IF "title" \in which THEN t ELSE @, !.icon = IF "icon" \in which THEN t ELSE @, !.popped = <<>>])

window_push_title ==
    /\ Do("title") /\ Len(w.stack) < MaxStack
    /\ \E which \in Which :
        w' = Count([w EXCEPT !.stack = <<[title |-> IF "title" \in which THEN w.title ELSE NULL,
                                          icon |-> IF "icon" \in which THEN w.icon ELSE NULL]>> \o @,
                             !.due = <<[which |-> which, title |-> w.title, icon |-> w.icon]>> \o @, !.popped = <<>>])

(* The first item that has a title, the one at the top or one below *)
First(stack, kind, current) ==
    LET has == {k \in DOMAIN stack : stack[k][kind] # NULL} IN
    IF has = {} THEN current ELSE stack[CHOOSE k \in has : \A l \in has : k <= l][kind]
window_pop_title ==
    /\ Do("title") /\ w.stack # <<>>
    /\ \E which \in Which :
        w' = Count([w EXCEPT !.title = IF "title" \in which THEN First(w.stack, "title", @) ELSE @,
                             !.icon = IF "icon" \in which THEN First(w.stack, "icon", @) ELSE @,
                             !.stack = Tail(@), !.due = Tail(@),
                             !.popped = IF which = Head(w.due).which THEN <<Head(w.due)>> ELSE <<>>])

Next ==
    \/ Tick \/ handle_blink \/ handle_blink_inhibit_timeout \/ handle_pointer_inhibit_timeout
    \/ handle_keydown \/ Motion \/ update_cursor \/ window_set_pointer_mode \/ SetMouse
    \/ Output \/ BlinkingText \/ reload_window
    \/ SetTitle \/ window_push_title \/ window_pop_title
Spec == Init /\ [][Next]_w

----------------------------------------------------------------------------
(* What hides the cursor or the pointer for a time has a timer that ends   *)
(* it, unless the configuration was read in that time: see the README.     *)
InhibitEnds == ~w.cut => (w.inhibit => w.blink_inhibit_timer) /\ (w.pointer_inhibit => w.pointer_inhibit_timer)

(* When nothing is left to happen, no event, no timer that draws, the      *)
(* cursor is on the screen as programs left it; what blinks has the timer, *)
(* so that nothing stays dark. Configurations without blinking are only    *)
(* those for which it holds: see the README.                               *)
CursorSettles ==
    ~w.event /\ ~w.cut =>
        /\ w.blink_timer # "on" /\ ~w.blink_inhibit_timer => (w.shown <=> ~w.hidden) /\ (w.text => w.lit)
        /\ (w.cfg.blinking_shape /\ ~w.hidden => w.blink_timer = "on" \/ w.blink_inhibit_timer)
        /\ (w.shown => ~w.hidden)

(* The pointer is hidden while keys or programs have it hidden, and it is  *)
(* shown otherwise, unless the window had no image for it when it was to   *)
(* be shown last: a new window has none until the pointer was in it.       *)
PointerAsAsked == (Hide(w) => w.pointer_is_hidden) /\ (w.pointer_is_hidden => Hide(w) \/ w.refused)

(* A pop of what the item at the top saved restores the titles of its push. *)
TitleRestored ==
    w.popped # <<>> =>
        /\ "title" \in w.popped[1].which => w.title = w.popped[1].title
        /\ "icon" \in w.popped[1].which => w.icon = w.popped[1].icon
=============================================================================
