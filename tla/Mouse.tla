------------------------------- MODULE Mouse -------------------------------
(***************************************************************************)
(* mouse.c: what a press, a release or a motion of the pointer is for: a   *)
(* report of the DEC locator or of a mouse mode, else the view, the paste, *)
(* the selection or the link under it.                                     *)
(*                                                                         *)
(* The window has a border and Cols by Rows cells of Cell pixels. Events *)
(* have a mask: modifiers, and the buttons that are down. Of the buttons,  *)
(* numbered from 0, a wheel turns as 3 or 4, pressed and released.         *)
(***************************************************************************)
EXTENDS Integers, Sequences, FiniteSets, FiniteSetsExt

CONSTANTS
    Border, Cell, Cols, Rows,
    LinkCells,          \* cells of the one link; the rows -1 and Rows are above and below the view
    USE_URI,
    Programs,           \* commands of a program, points, buttons and modifiers of its user
    MaxEvents           \* bound: commands and events

Width == Cols * Cell
Height == Rows * Cell
Clamp(v, size) == Max({0, Min({size - 1, v - Border})})
adj_coords(p, pixel) ==
    IF pixel THEN <<Clamp(p[1], Width), Clamp(p[2], Height)>>
    ELSE <<Clamp(p[1], Width) \div Cell, Clamp(p[2], Height) \div Cell>>

(* m: of mouse_state enabled to format, rx, ry and rb being the reported   *)
(* position and button; vt52 of the keyboard; asked whether the window     *)
(* sends motions without a button; sel, sx and sy of the selection; uri    *)
(* the active one. held are the buttons that are down, out the reports of  *)
(* this step, last those before. The rest is for the properties: told what the reports say is *)
(* down, clean whether one button is down and its press was reported,      *)
(* shots and exits the events of a one-shot locator and of a filter.       *)
VARIABLE m
Init == \E p \in Programs :
    m = [program |-> p, enabled |-> FALSE, oneshot |-> FALSE, filter |-> <<>>, pixels |-> FALSE, press |-> FALSE, release |-> FALSE,
         force |-> FALSE, mode |-> "none", format |-> "default", rx |-> 0, ry |-> 0, rb |-> 0, vt52 |-> FALSE, asked |-> USE_URI,
         sel |-> "none", at |-> <<0, 0>>, uri |-> 0, pressed |-> FALSE, held |-> {}, p |-> <<0, 0>>, out |-> <<>>, done |-> "none",
         told |-> {}, clean |-> FALSE, last |-> <<>>, oneshots |-> FALSE, shots |-> 0, exits |-> 0, n |-> 0]

window_set_active_uri(h, uri, pressed) == [h EXCEPT !.uri = uri, !.pressed = pressed]
window_set_mouse(h, enabled) == [window_set_active_uri(h, 0, FALSE) EXCEPT !.asked = enabled]

(* Locator reports: the event, the buttons, row and column *)
Inside(p) == p[1] >= Border /\ p[1] < Width + Border /\ p[2] >= Border /\ p[2] <= Height + Border
Located(evt, down, at) == [kind |-> "locator", evt |-> evt, buttons |-> down \cap {0, 1, 2, 3}, x |-> at[1] + 1, y |-> at[2] + 1]
mouse_report_locator(h, evt, p, down) ==
    IF Inside(p) THEN [h EXCEPT !.out = Append(@, Located(evt, down, adj_coords(p, h.pixels)))]
    ELSE IF evt = 1 THEN [h EXCEPT !.out = Append(@, [kind |-> "unavailable"])] ELSE h

(* DECEFR passes its left side, top, bottom and a fifth parameter as the   *)
(* two columns and the two rows; without one the pointer's y or x in       *)
(* pixels stands for it, and is scaled as well.                            *)
Scaled(h, v) == IF h.pixels THEN v ELSE v * Cell + Border
Low(h, a, b, size) == Min({Scaled(h, Min({a, b})), Border + size - 1})
High(h, a, b, size) == Min({Scaled(h, Max({a, b}) + 1), Border + size})
mouse_set_filter(h, xs, xe, ys, ye) ==
    window_set_mouse([h EXCEPT !.filter = <<Low(h, xs, xe, Width), High(h, xs, xe, Width), Low(h, ys, ye, Height), High(h, ys, ye, Height)>>], TRUE)
InFilter(h, p) == p[1] >= h.filter[1] /\ p[1] < h.filter[2] /\ p[2] >= h.filter[3] /\ p[2] < h.filter[4]

----------------------------------------------------------------------------
(* Mouse reports *)

Down(ev) == IF ev.event = "press" THEN ev.down \cup {ev.button} ELSE ev.down
OutOfFilter(h, ev) ==
    LET r == mouse_report_locator(h, 10, ev.p, Down(ev))
    IN  [window_set_mouse([r EXCEPT !.filter = <<>>], h.mode = "motion") EXCEPT !.exits = @ + 1]
Wanted(h, ev) == (ev.event = "press" /\ h.press) \/ (ev.event = "release" /\ h.release)
Locator(h, ev) ==
    LET once == [h EXCEPT !.enabled = @ /\ ~h.oneshot, !.oneshot = FALSE] IN
    IF Wanted(h, ev) /\ ev.button < 3
    THEN [mouse_report_locator(once, 2 + ev.button * 2 + (IF ev.event = "release" THEN 1 ELSE 0), ev.p, Down(ev))
             EXCEPT !.shots = @ + 1]
    ELSE once
ReportLocator(h, ev) ==
    IF h.filter = <<>> THEN Locator(h, ev) ELSE IF InFilter(h, ev.p) THEN h ELSE OutOfFilter(h, ev)

(* A modifier that is not one of mask_mod_mask counts as a button here *)
Dragging(ev) == ev.down # {} \/ ev.mods \ {"shift", "mod_1", "control"} # {}
Code(h, ev) ==
    IF ev.event = "motion" THEN 32 + (IF Dragging(ev) THEN h.rb ELSE 3)
    ELSE IF ev.event = "release" /\ h.format \notin {"sgr"} THEN 3
    ELSE IF ev.button > 6 THEN ev.button + 121 ELSE IF ev.button > 2 THEN ev.button + 61 ELSE ev.button
Modified(h, mods) ==
    IF h.mode = "x10" THEN 0
    ELSE (IF "shift" \in mods THEN 4 ELSE 0) + (IF "mod_1" \in mods THEN 8 ELSE 0) + (IF "control" \in mods THEN 16 ELSE 0)
Silent(h, ev, at) ==
    \/ h.mode = "x10" /\ (ev.button > 2 \/ ev.event # "press")
    \/ ev.event = "motion" /\ (at = <<h.rx, h.ry>> \/ h.mode = "button" \/ (h.mode = "drag" /\ ~Dragging(ev)))
    \/ ev.event = "release" /\ ev.button \in {3, 4}
(* The numbers that are sent, as a character's where the format has those *)
Offset(h) == IF h.format \in {"default", "utf8"} THEN 32 ELSE 0
ButtonOffset(h) == IF h.format = "sgr" \/ h.format = "pixel" THEN 0 ELSE 32
Report(h, ev, at, b) ==
    [kind |-> "mouse", format |-> h.format, b |-> b + ButtonOffset(h), x |-> at[1] + 1 + Offset(h), y |-> at[2] + 1 + Offset(h),
     up |-> h.format \in {"sgr", "pixel"} /\ ev.event = "release"]
TooFar(h, at) == h.format = "default" /\ (at[1] > 222 \/ at[2] > 222)
Sent(h, ev, at) ==
    LET k == [h EXCEPT !.rb = IF ev.event = "press" THEN Code(h, ev) ELSE @] IN
    IF TooFar(k, at) THEN k
    ELSE [k EXCEPT !.out = Append(@, Report(h, ev, at, Code(h, ev) + Modified(h, ev.mods))), !.rx = at[1], !.ry = at[2]]
(* Mutant: the column of a report is not kept *)
ReportAt_stale(h, ev, at) == IF Silent(h, ev, at) THEN h ELSE [Sent(h, ev, at) EXCEPT !.rx = h.rx]
ReportAt(h, ev, at) == IF Silent(h, ev, at) THEN h ELSE Sent(h, ev, at)
ReportMouse(h, ev) == ReportAt(h, ev, adj_coords(ev.p, h.format = "pixel"))

----------------------------------------------------------------------------
(* What is the window's own *)

(* C rounds to 0; the test of the row is always true *)
RowOf(p) == IF p[2] >= Border THEN (p[2] - Border) \div Cell ELSE -((Border - p[2]) \div Cell)
UriAt(p) ==
    IF p[1] >= Border /\ p[1] < Width + Border /\ <<(p[1] - Border) \div Cell, RowOf(p)>> \in LinkCells THEN 1 ELSE 0
is_button1_down(ev) ==
    ev.mods = {} /\ ((ev.event = "press" /\ ev.button = 0) \/ (0 \in ev.down /\ (ev.event # "release" \/ ev.button # 0)))
Opens(ev) == UriAt(ev.p) = 1 /\ ev.event = "release" /\ ev.button = 0 /\ ev.mods = {}
update_active_uri(h, ev) ==
    IF ~USE_URI THEN h
    ELSE [window_set_active_uri(h, UriAt(ev.p), is_button1_down(ev)) EXCEPT !.done = IF Opens(ev) THEN "open" ELSE @]

significantly_moved(h, p) == (h.at[1] - p[1]) * (h.at[1] - p[1]) + (h.at[2] - p[2]) * (h.at[2] - p[2]) > 9
is_selection_event(h, ev) ==
    \/ ev.event = "press" /\ ev.button = 0
    \/ ev.event = "motion" /\ 0 \in ev.down /\ (h.sel = "progress" \/ (h.sel = "pressed" /\ significantly_moved(h, ev.p)))
    \/ ev.event = "release" /\ ev.button = 0 /\ h.sel = "progress"
SelState == [press |-> "pressed", motion |-> "progress", release |-> "released"]
Select(h, ev) ==
    LET u == IF ev.event = "press" THEN update_active_uri(h, ev) ELSE window_set_active_uri(h, 0, FALSE)
    IN  [u EXCEPT !.sel = SelState[ev.event], !.at = ev.p, !.done = "select"]
Local(h, ev) ==
    IF ev.event = "press" /\ ev.button \in {3, 4}
    THEN [h EXCEPT !.done = IF "mod_1" \in ev.mods THEN "to command" ELSE IF "shift" \in ev.mods THEN "page" ELSE "scroll"]
    ELSE IF ev.button = 1 /\ ev.event = "release" THEN [h EXCEPT !.done = "paste"]
    ELSE IF ev.event = "release" /\ ev.button = 0 /\ h.sel = "pressed" THEN update_active_uri([h EXCEPT !.sel = "none"], ev)
    ELSE IF is_selection_event(h, ev) THEN Select(h, ev) ELSE update_active_uri(h, ev)

Locating(h) == (h.enabled \/ h.filter # <<>>) /\ ~h.force /\ ~h.vt52
Tracked(h) == ~Locating(h) /\ h.mode # "none" /\ ~h.force /\ ~h.vt52
mouse_handle_input(h, ev) ==
    IF Locating(h) THEN ReportLocator(h, ev) ELSE IF Tracked(h) THEN ReportMouse(h, ev) ELSE Local(h, ev)

----------------------------------------------------------------------------
(* What the reports tell a program of the buttons *)
Held(h, ev) == IF ev.event = "press" /\ ev.button < 3 THEN h.held \cup {ev.button} ELSE IF ev.event = "release" THEN h.held \ {ev.button} ELSE h.held
Button(r) == (IF r.b >= 32 /\ r.format \notin {"sgr", "pixel"} THEN r.b - 32 ELSE r.b) % 4
IsMotion(r) == ((IF r.format \notin {"sgr", "pixel"} THEN r.b - 32 ELSE r.b) \div 32) % 2 = 1
IsWheel(r) == (IF r.format \notin {"sgr", "pixel"} THEN r.b - 32 ELSE r.b) >= 64
Told(told, held, r, button) ==
    IF IsMotion(r) \/ IsWheel(r) THEN told
    ELSE IF r.up /\ r.format = "sgr" THEN told \ {Button(r)}
    ELSE IF Button(r) = 3 THEN (IF Cardinality(told) <= 1 /\ button < 3 THEN {} ELSE held)
    ELSE told \cup {Button(r)}
Counted(h, k, ev) ==
    [k EXCEPT !.held = Held(h, ev), !.p = ev.p, !.n = @ + 1, !.last = IF h.out = <<>> THEN @ ELSE h.out,
              !.told = IF Tracked(h) /\ h.mode # "x10" THEN (IF k.out = <<>> THEN h.told ELSE Told(h.told, Held(h, ev), k.out[1], ev.button)) ELSE Held(h, ev),
              !.clean = IF ev.event # "press" THEN @ ELSE Tracked(h) /\ k.out # <<>> /\ h.held = {} /\ ev.button < 3]
Event(ev) == m.n < MaxEvents /\ m' = Counted(m, mouse_handle_input([m EXCEPT !.out = <<>>, !.done = "none"], ev), ev)
Press(p, b, mods) == b \notin m.held /\ Event([event |-> "press", button |-> b, p |-> p, down |-> m.held, mods |-> mods])
Release(p, b, mods) == (b \in m.held \/ b > 2) /\ Event([event |-> "release", button |-> b, p |-> p, down |-> m.held, mods |-> mods])
Motion(p, mods) == (m.asked \/ m.held # {}) /\ p # m.p /\ Event([event |-> "motion", button |-> 0, p |-> p, down |-> m.held, mods |-> mods])

(* Commands *)
Command(c) == c \in m.program.commands /\ m.n < MaxEvents
Do(h) == m' = [h EXCEPT !.n = @ + 1, !.told = m.held, !.clean = FALSE, !.last = <<>>, !.done = "none"]
Clear == [m EXCEPT !.out = <<>>]
SetMode(mode) == Command(mode) /\ Do(window_set_mouse([Clear EXCEPT !.mode = mode], mode = "motion" \/ USE_URI))
SetFormat(format) == Command(format) /\ Do([Clear EXCEPT !.format = format])
DECELR(a, pixels) ==
    /\ Command("DECELR")
    /\ Do([Clear EXCEPT !.enabled = a # 0, !.oneshot = @ \/ a = 1, !.pixels = pixels, !.oneshots = (a = 1), !.shots = 0])
DECSLE(a) ==
    /\ Command("DECSLE")
    /\ Do([Clear EXCEPT !.press = IF a = 1 THEN TRUE ELSE IF a \in {0, 2} THEN FALSE ELSE @,
                        !.release = IF a = 3 THEN TRUE ELSE IF a \in {0, 4} THEN FALSE ELSE @])
DECEFR(top, left, right) ==
    /\ Command("DECEFR")
    /\ \E fifth \in {m.p[1], 1} : Do([mouse_set_filter(Clear, left, top, right, fifth) EXCEPT !.exits = 0])
DECRQLP == Command("DECRQLP") /\ Do(mouse_report_locator(Clear, 1, m.p, m.held))
term_toggle_force_mouse_mode == Command("force") /\ Do([Clear EXCEPT !.force = ~@])
Vt52 == Command("vt52") /\ Do([Clear EXCEPT !.vt52 = ~@])

Modes == {"none", "x10", "button", "drag", "motion"}
Formats == {"default", "sgr", "utf8", "uxvt", "pixel"}
Next ==
    \/ \E p \in m.program.points, mods \in m.program.mods :
          \/ \E b \in m.program.buttons : Press(p, b, mods) \/ Release(p, b, mods)
          \/ Motion(p, mods)
    \/ (\E mode \in Modes : SetMode(mode)) \/ (\E format \in Formats : SetFormat(format))
    \/ (\E a \in 0..2, pixels \in BOOLEAN : DECELR(a, pixels)) \/ (\E a \in 0..4 : DECSLE(a))
    \/ (\E top, left, right \in {0, 1} : DECEFR(top, left, right)) \/ DECRQLP \/ term_toggle_force_mouse_mode \/ Vt52
Spec == Init /\ [][Next]_m

----------------------------------------------------------------------------
(* While every event is reported, the buttons that the reports say are     *)
(* down are those that are.                                                *)
ButtonsTold == Tracked(m) /\ m.mode # "x10" => m.told = m.held

(* A drag names the button that is down, if it is the only one pressed     *)
(* since.                                                                  *)
DragNames ==
    \A k \in DOMAIN m.out : m.out[k].kind = "mouse" /\ IsMotion(m.out[k]) =>
        IF m.clean /\ m.held # {} THEN Button(m.out[k]) \in m.held ELSE m.held = {} => Button(m.out[k]) = 3

(* Positions are of the grid, and characters of 8 bits where the format    *)
(* has no more.                                                            *)
InGrid ==
    \A k \in DOMAIN m.out : LET r == m.out[k] IN
        /\ r.kind = "locator" => r.x \in 1..Width /\ r.y \in 1..Height
        /\ r.kind = "mouse" /\ r.format = "default" => {r.b, r.x, r.y} \subseteq 32..255
        /\ r.kind = "mouse" /\ r.format # "pixel" => r.x - (IF r.format \in {"default", "utf8"} THEN 32 ELSE 0) \in 1..Cols

(* A one-shot locator reports one event, and the filter is left once.      *)
Once == (m.oneshots => m.shots <= 1) /\ m.exits <= 1

(* What reports motion is sent motion.                                     *)
MotionHeard == USE_URI /\ (m.mode = "motion" \/ m.filter # <<>>) => m.asked

(* A motion that is reported is not reported again where it is.            *)
NotRepeated ==
    m.out # <<>> /\ m.last # <<>> /\ m.out[1].kind = "mouse" /\ m.last[1].kind = "mouse" /\ IsMotion(m.out[1]) =>
        <<m.out[1].x, m.out[1].y>> # <<m.last[1].x, m.last[1].y>>
=============================================================================
