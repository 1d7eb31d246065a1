---------------------------- MODULE PointerFrames ----------------------------
(***************************************************************************)
(* window-wayland.c: the pointer of a seat. The compositor sends events in *)
(* groups that end with a frame; they are only noted until then. A window  *)
(* that the compositor does not decorate is moved, resized and maximized   *)
(* by its own border. Pointer images are shared and counted.               *)
(***************************************************************************)
EXTENDS Integers, Sequences, SequencesExt, FiniteSets

CONSTANTS
    Window, Points,         \* "cells", "edge" and "top", the border above the cells
    Situations,             \* [does, ssd]: what may happen, and who decorates windows
    Values,                 \* movements of the wheel, in 120ths of a step
    Configs,                \* the pointer images configured: [resize, uri, normal]
    Images,                 \* those of the theme, with "default"
    Names,                  \* those that programs ask for, "" for none
    MaxSteps,
    Abrupt                  \* windows may be closed with buttons held and by their border,
                            \* and a border be pressed with buttons held

NULL == "NULL"
Buttons == {0, 1, 2}

(* h: win is the window that the program has the pointer in, mask the      *)
(* events noted, buttons those in the mask of the seat; out is what this   *)
(* frame gave the terminal. at, pos, held, grab and moved are the          *)
(* compositor's, given has the window that was told of a press.            *)
VARIABLE h
NoCursors == [cursor |-> NULL, uri |-> NULL, resize |-> NULL, normal |-> NULL, user |-> NULL]
Mouse == [pos |-> "cells", mask |-> {}]
Count0 == [i \in Images |-> 0]

----------------------------------------------------------------------------
(* get_cursor(), unref_cursor(): images are found by their name *)
ref_cursor(v, i) == [v EXCEPT !.refs[i] = @ + 1]
unref_cursor(v, i) == IF i = NULL THEN v ELSE [v EXCEPT !.refs[i] = @ - 1]
get_cursor(i) == IF i \in Images THEN i ELSE NULL
get_any_cursor(names) == LET found == SelectSeq(names, LAMBDA i : i \in Images) IN IF found = <<>> THEN "default" ELSE found[1]
Taken(v, w, field, i) ==
    LET u == IF i = NULL THEN v ELSE ref_cursor(v, i) IN [unref_cursor(u, v.cur[w][field]) EXCEPT !.cur[w][field] = i]

(* activate_cursor(): what the compositor shows where the pointer is *)
activate_cursor(v, w) ==
    IF v.win # w THEN v
    ELSE IF v.hidden[w] THEN [v EXCEPT !.image = NULL]
    ELSE IF v.cur[w].cursor = NULL THEN v ELSE [v EXCEPT !.image = v.cur[w].cursor]
select_cursor(v, w, i) == activate_cursor(Taken(v, w, "cursor", i), w)
wayland_select_cursor(v, w, name) ==
    LET u == Taken(v, w, "user", get_cursor(name))
    IN  select_cursor(u, w, IF u.cur[w].user = NULL THEN u.cur[w].normal ELSE u.cur[w].user)
Reselected(v, w) == IF v.cur[w].user # v.cur[w].cursor THEN select_cursor(v, w, v.cur[w].normal) ELSE v
Reloaded(v, w, field, i) == Taken(v, w, field, i)
wayland_reload_cursors(v, w, cfg) ==
    LET a == Reloaded(v, w, "resize", get_any_cursor(<<cfg.resize, "size_all", "fleur">>))
        b == Reloaded(a, w, "uri", get_any_cursor(<<cfg.uri, "hand2", "pointer">>))
        c == Reloaded(b, w, "normal", get_any_cursor(<<cfg.normal, "text", "ibeam">>))
    IN  activate_cursor(Reselected(c, w), w)

NewCursor(v, w) ==
    IF v.pos # "cells" /\ ~v.s.ssd THEN v.cur[w].resize
    ELSE IF v.cur[w].user # NULL THEN v.cur[w].user
    ELSE IF v.hover[w] THEN v.cur[w].uri ELSE v.cur[w].normal
update_cursor(v, w, i) == IF i # v.cur[w].cursor THEN select_cursor(v, w, i) ELSE v

Fields == {"cursor", "uri", "resize", "normal", "user"}
Unrefs(v, w) == [i \in Images |-> v.refs[i] - Cardinality({f \in Fields : v.cur[w][f] = i})]
(* wayland_free_window(): the pointer is in no window then *)
Freed(v, w) == [v EXCEPT !.refs = Unrefs(v, w), !.up = @ \ {w}, !.cur[w] = NoCursors, !.hover[w] = FALSE, !.hidden[w] = FALSE,
                         !.win = IF @ = w THEN NULL ELSE @, !.at = IF @ = w THEN NULL ELSE @]

Init == \E s \in Situations, cfg \in Configs :
    h = [s |-> s, n |-> 0, up |-> {}, win |-> NULL, mask |-> {}, buttons |-> {}, button |-> 0, pressed |-> FALSE,
         used |-> FALSE, discrete |-> 0, rest |-> 0, out |-> <<>>, mouse |-> [w \in Window |-> Mouse],
         cfg |-> cfg, refs |-> Count0, cur |-> [w \in Window |-> NoCursors], hover |-> [w \in Window |-> FALSE],
         hidden |-> [w \in Window |-> FALSE], image |-> NULL, bad |-> FALSE, asked |-> "",
         at |-> NULL, pos |-> "cells", held |-> {}, grab |-> FALSE, moved |-> 0, turned |-> 0, given |-> [b \in Buttons |-> NULL]]

----------------------------------------------------------------------------
(* Events until the frame *)
Noted(v, e) == [v EXCEPT !.mask = @ \cup {e}]
handle_pointer_enter(v, w) == Noted([activate_cursor([v EXCEPT !.win = w], w) EXCEPT !.win = w], "enter")
handle_pointer_leave(v) == Noted(v, "leave")
handle_pointer_motion(v) == Noted(v, "motion")
handle_pointer_button(v, b, pressed) == [Noted(v, "button") EXCEPT !.button = b, !.pressed = pressed, !.bad = @ \/ "button" \in v.mask]
Quotient(a, b) == IF a >= 0 THEN a \div b ELSE -((-a) \div b)
handle_pointer_axis_value120(v, value) ==
    LET v120 == v.rest + value
    IN  [Noted(v, "axis") EXCEPT !.used = TRUE, !.discrete = Quotient(v120, 120), !.rest = v120 - 120 * Quotient(v120, 120)]

(* try_handle_csd_button(), try_handle_csd_axis() *)
OnBorder(v) == ~v.s.ssd /\ v.pos # "cells"
CsdButton(v) == OnBorder(v) /\ v.pressed /\ (v.button # 1 \/ v.pos = "top")
try_handle_csd_button(v, w) ==
    IF v.button = 1 THEN [Freed(v, w) EXCEPT !.bad = TRUE] ELSE [v EXCEPT !.grab = TRUE]
CsdAxis(v) == ~v.s.ssd /\ v.discrete # 0 /\ v.pos = "top"
try_handle_csd_axis(v) == [v EXCEPT !.asked = IF v.discrete < 0 THEN "more" ELSE "less"]

(* handle_pointer_frame() *)
Given(v, w, event, b, mask) == [v EXCEPT !.out = Append(@, [win |-> w, event |-> event, button |-> b, mask |-> mask])]
ButtonGiven(v, w) ==
    IF v.pressed THEN Given([v EXCEPT !.buttons = @ \cup {v.button}], w, "press", v.button, v.buttons \cup {v.button})
    ELSE [Given(v, w, "release", v.button, v.buttons) EXCEPT !.buttons = @ \ {v.button}]
ButtonFrame(v, w) == IF "button" \notin v.mask THEN v ELSE IF CsdButton(v) THEN try_handle_csd_button(v, w) ELSE ButtonGiven(v, w)
WheelButton(v) == IF v.discrete > 0 THEN 4 ELSE 3
Step(v, w) == Given(Given(v, w, "press", WheelButton(v), v.buttons), w, "release", WheelButton(v), v.buttons \cup {WheelButton(v)})
(* Mutant: one step for each frame *)
Steps_one(v) == IF v.discrete = 0 THEN 0 ELSE 1
Steps(v) == IF v.discrete > 0 THEN v.discrete ELSE -v.discrete
Stepped(v, w) == [FoldLeft(LAMBDA u, k : Step(u, w), v, [k \in 1..Steps(v) |-> k]) EXCEPT !.discrete = 0]
AxisFrame(v, w) == IF "axis" \notin v.mask \/ ~v.used THEN v ELSE IF CsdAxis(v) THEN try_handle_csd_axis(v) ELSE Stepped(v, w)
MotionFrame(v, w) ==
    IF {"enter", "motion"} \cap v.mask = {} THEN v ELSE Given(update_cursor(v, w, NewCursor(v, w)), w, "motion", 0, v.buttons)
Saved(v, w) == [v EXCEPT !.mouse[w] = [pos |-> v.pos, mask |-> v.buttons]]
LeaveFrame(v) == [v EXCEPT !.win = IF "leave" \in v.mask THEN NULL ELSE @, !.mask = {}]
InWindow(v, w) == LeaveFrame(Saved(MotionFrame(AxisFrame(ButtonFrame(v, w), w), w), w))
handle_pointer_frame(v) == IF v.win = NULL THEN v ELSE InWindow(v, v.win)

----------------------------------------------------------------------------
(* Who was told of the press that is held *)
Told(given, out) == FoldLeft(LAMBDA g, e : IF e.event = "press" /\ e.button \in Buttons THEN [g EXCEPT ![e.button] = e.win] ELSE g, given, out)
Wheel(out) == Len(SelectSeq(out, LAMBDA e : e.event = "press" /\ e.button = 4)) - Len(SelectSeq(out, LAMBDA e : e.event = "press" /\ e.button = 3))
Do(what) == what \in h.s.does /\ h.n < MaxSteps
Begin == [h EXCEPT !.n = @ + 1, !.out = <<>>]
Frame(v) == LET u == handle_pointer_frame(v) IN h' = [u EXCEPT !.given = Told(@, u.out), !.turned = @ + Wheel(u.out)]

Free == h.held = {} /\ ~h.grab
Enter(w, p) ==
    /\ Do("frames") /\ Free /\ h.at = NULL /\ w \in h.up
    /\ Frame(handle_pointer_enter([Begin EXCEPT !.at = w, !.pos = p], w))
Leave ==
    /\ Do("frames") /\ h.at # NULL /\ (h.held = {} \/ h.grab)
    /\ Frame(handle_pointer_leave([Begin EXCEPT !.at = NULL, !.grab = FALSE, !.held = IF h.grab THEN {} ELSE @]))
Here == Do("frames") /\ h.at # NULL /\ ~h.grab
Motion(p) == Here /\ p # h.pos /\ Frame(handle_pointer_motion([Begin EXCEPT !.pos = p]))
Pressed(b) == b \notin h.held
(* The compositor grants a move or a resize for the only button held *)
Calm(b, p) == Abrupt \/ ~Pressed(b) \/ h.s.ssd \/ p = "cells" \/ (h.held = {} /\ ~(b = 1 /\ p = "top"))
ByHand(v, b) == [v EXCEPT !.held = IF Pressed(b) THEN @ \cup {b} ELSE @ \ {b}]
Button(b) ==
    /\ Here /\ Calm(b, h.pos)
    /\ Frame(handle_pointer_button(ByHand(Begin, b), b, Pressed(b)))
MotionButton(b, p) ==
    /\ Here /\ p # h.pos /\ Calm(b, p)
    /\ Frame(handle_pointer_button(handle_pointer_motion(ByHand([Begin EXCEPT !.pos = p], b)), b, Pressed(b)))
Axis(value) ==
    /\ Here /\ "wheel" \in h.s.does
    /\ Frame(handle_pointer_axis_value120([Begin EXCEPT !.moved = @ + value], value))

Open(w) == w \notin h.up /\ h.n < MaxSteps /\ h' = wayland_reload_cursors([Begin EXCEPT !.up = @ \cup {w}], w, h.cfg)
Close(w) ==
    /\ Do("close") /\ w \in h.up /\ (Abrupt \/ h.at # w \/ Free)
    /\ h' = Freed(Begin, w)
Select(w, name) == Do("cursors") /\ w \in h.up /\ h' = wayland_select_cursor(Begin, w, name)
Reload(w, cfg) == Do("cursors") /\ w \in h.up /\ h' = wayland_reload_cursors(Begin, w, cfg)
Hover(w) == Do("cursors") /\ w \in h.up /\ h' = [Begin EXCEPT !.hover[w] = ~@]
Hide(w) == (* wayland_update_pointer_mode() *)
    /\ Do("cursors") /\ w \in h.up /\ (h.hidden[w] => h.cur[w].cursor # NULL)
    /\ h' = activate_cursor([Begin EXCEPT !.hidden[w] = ~@], w)

Next ==
    \/ \E w \in Window : Open(w) \/ Close(w) \/ Hover(w) \/ Hide(w)
    \/ \E w \in Window, p \in Points : Enter(w, p)
    \/ Leave \/ \E p \in Points : Motion(p)
    \/ \E b \in Buttons : Button(b)
    \/ \E b \in Buttons, p \in Points : MotionButton(b, p)
    \/ \E value \in Values : Axis(value)
    \/ \E w \in Window, name \in Names : Select(w, name)
    \/ \E w \in Window, cfg \in Configs : Reload(w, cfg)
Spec == Init /\ [][Next]_h

----------------------------------------------------------------------------
(* The program has the pointer in the window the compositor has it in, and *)
(* no event is left from one frame to the next, where it could count for   *)
(* another window or twice; nothing of a closed window is used.            *)
PointerHere == h.win = h.at /\ h.mask = {} /\ ~h.bad

(* A button is held, for later reports, while it is and its press was the  *)
(* terminal's, not the border's; a release goes where the press went.      *)
ButtonsHeld ==
    /\ h.grab \/ h.buttons = {b \in h.held : h.given[b] # NULL}
    /\ \A k \in DOMAIN h.out : h.out[k].event = "release" /\ h.out[k].button \in Buttons =>
          h.given[h.out[k].button] = h.out[k].win

(* The wheel turns by all that it was moved, whatever was left of a step   *)
(* before, except what went to the border.                                 *)
WheelExact == h.s.ssd => 120 * h.turned + h.rest = h.moved /\ h.discrete = 0

(* Where the pointer was last is what the window reports of it.            *)
LastPlace == h.win # NULL => h.mouse[h.win] = [pos |-> h.pos, mask |-> h.buttons]

(* An image has as many references as windows have to it.                  *)
References(i) == {r \in Window \X Fields : h.cur[r[1]][r[2]] = i}
Counted == \A i \in Images : h.refs[i] = Cardinality(References(i))

(* What the compositor shows is the image of the window the pointer is in, *)
(* or none where it is hidden.                                             *)
ImageShown == h.win # NULL /\ h.cur[h.win].cursor # NULL => h.image = IF h.hidden[h.win] THEN NULL ELSE h.cur[h.win].cursor
=============================================================================
