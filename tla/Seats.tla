------------------------------- MODULE Seats -------------------------------
(***************************************************************************)
(* window-wayland.c: keyboards of seats, the timers that repeat their      *)
(* keys, what is pasted and the frames that the compositor asks for.       *)
(*                                                                         *)
(* Seats and pastes refer to windows by weak pointers, linked in the       *)
(* window: closing it clears them. Events are those the compositor has     *)
(* sent and the program has not handled yet; an event that was sent to a   *)
(* window names no window once that is closed.                             *)
(***************************************************************************)
EXTENDS Integers, Sequences, SequencesExt, FiniteSets

CONSTANTS
    Seat, Window, Keys,     \* what there is: sets of numbers above 0
    Situations,             \* what may happen, one set for each behaviour
    MaxEvents,              \* events sent and not handled
    MaxPart,                \* bytes read at once of what is pasted
    MaxText,                \* bytes of what is pasted
    MaxSteps,
    InFlight,               \* a window may be closed with keys on their way to it
    Bursts                  \* what is pasted may come in several writes

NULL == 0
Pastes == {1, 2}
Kbd(k) == [kind |-> "keyboard", of |-> k]
Paste(n) == [kind |-> "paste", of |-> n]

(* s: links are the weak pointers of a window, the newest first; bad is a  *)
(* use of what was freed. sent, focus and held are the compositor's, down  *)
(* the keys the program was told of, last the seat of the last input in    *)
(* each window, given what was pasted, in parts, as <<bytes, last>>.       *)
VARIABLE s
NoPaste == [win |-> NULL, state |-> "none", tail |-> FALSE, pipe |-> 0, left |-> 0, closed |-> FALSE, given |-> <<>>]
Init == \E does \in Situations :
    s = [does |-> does, n |-> 0, up |-> Window, auto |-> [w \in Window |-> TRUE], links |-> [w \in Window |-> <<>>],
         seats |-> Seat, kbd |-> [k \in Seat |-> [win |-> NULL, key |-> 0, timer |-> "none"]], bad |-> FALSE,
         paste |-> [p \in Pastes |-> NoPaste], size |-> [p \in Pastes |-> 0],
         callback |-> [w \in Window |-> 0], waiting |-> [w \in Window |-> <<>>], inhibit |-> [w \in Window |-> 0],
         sent |-> <<>>, focus |-> [k \in Seat |-> NULL], held |-> [k \in Seat |-> {}], down |-> [k \in Seat |-> {}],
         order |-> [w \in Window |-> <<>>]]

----------------------------------------------------------------------------
(* window-wayland.h: weak pointers *)
win_ptr_clear(v, w, ptr) == IF w = NULL THEN v ELSE [v EXCEPT !.links[w] = SelectSeq(@, LAMBDA q : q # ptr)]
win_ptr_set(v, old, w, ptr) == [win_ptr_clear(v, old, ptr) EXCEPT !.links[w] = <<ptr>> \o @]
(* Mutant: the seat that was used stays where it is on the list *)
win_ptr_ping_still(v, w, ptr) == v
win_ptr_ping(v, w, ptr) == IF w = NULL THEN v ELSE win_ptr_set(v, w, w, ptr)

(* find_first_seat() *)
find_first_seat(v, w) ==
    LET i == SelectInSeq(v.links[w], LAMBDA q : q.kind = "keyboard") IN IF i = 0 THEN NULL ELSE v.links[w][i].of

----------------------------------------------------------------------------
(* The timer that repeats a key: seat_stop_autorepeat() does nothing for a *)
(* key that is not the last; a timer that ended is freed by the loop and   *)
(* its pointer is left.                                                    *)
Stopped(v, k) ==
    IF v.kbd[k].timer = "none" THEN v
    ELSE [v EXCEPT !.kbd[k].timer = "none", !.bad = @ \/ v.kbd[k].timer = "freed"]
seat_stop_autorepeat(v, k, key) == IF v.kbd[k].key # key /\ key # 0 THEN v ELSE Stopped(v, k)
seat_start_autorepeat(v, k, key) == [Stopped(v, k) EXCEPT !.kbd[k].timer = "initial", !.kbd[k].key = key]
wayland_set_autorepeat(v, w) ==
    FoldLeft(LAMBDA a, q : IF q.kind = "keyboard" THEN seat_stop_autorepeat(a, q.of, 0) ELSE a, v, v.links[w])

(* The seats of a window in the order of their last input, as it happened *)
Used(v, w, k) == [v EXCEPT !.order[w] = <<k>> \o SelectSeq(@, LAMBDA j : j # k)]
NotUsed(v, w, k) == IF w = NULL THEN v ELSE [v EXCEPT !.order[w] = SelectSeq(@, LAMBDA j : j # k)]

handle_keyboard_enter(v, k, w) ==
    IF w = NULL THEN [v EXCEPT !.bad = TRUE]
    ELSE Used([win_ptr_set(v, v.kbd[k].win, w, Kbd(k)) EXCEPT !.kbd[k].win = w, !.kbd[k].key = 0], w, k)
handle_keyboard_leave(v, k) ==
    LET w == v.kbd[k].win
    IN  NotUsed([win_ptr_clear(seat_stop_autorepeat(v, k, 0), w, Kbd(k)) EXCEPT !.kbd[k].win = NULL, !.down[k] = {}], w, k)
Pressed(v, k, w, key) == IF v.auto[w] THEN seat_start_autorepeat(v, k, key) ELSE v
Released(v, k, w, key) == IF v.auto[w] THEN seat_stop_autorepeat(v, k, key) ELSE v
handle_keyboard_key(v, k, key, pressed) ==
    LET w == v.kbd[k].win
        u == Used(win_ptr_ping(v, w, Kbd(k)), w, k)
    IN  IF w = NULL THEN [v EXCEPT !.bad = TRUE]
        ELSE IF pressed THEN [Pressed(u, k, w, key) EXCEPT !.down[k] = @ \cup {key}]
        ELSE [Released(u, k, w, key) EXCEPT !.down[k] = @ \ {key}]

Handled(v, e) ==
    CASE e.what = "enter" -> handle_keyboard_enter(v, e.seat, e.win)
      [] e.what = "leave" -> [handle_keyboard_leave(v, e.seat) EXCEPT !.bad = @ \/ v.kbd[e.seat].win # e.win]
      [] e.what = "press" -> handle_keyboard_key(v, e.seat, e.key, TRUE)
      [] e.what = "release" -> handle_keyboard_key(v, e.seat, e.key, FALSE)

----------------------------------------------------------------------------
(* free_paste(), wayland_free_window() *)
free_paste(v, p) == [win_ptr_clear(v, v.paste[p].win, Paste(p)) EXCEPT !.paste[p].win = NULL, !.paste[p].state = "closed"]
Cleared(v, q) ==
    IF q.kind = "paste" THEN free_paste(v, q.of)
    ELSE [seat_stop_autorepeat(v, q.of, 0) EXCEPT !.kbd[q.of].win = NULL, !.down[q.of] = {}]
(* The callback that is waited for goes with the window, and only that one *)
FramesFreed(v, w) == [v EXCEPT !.waiting[w] = SelectSeq(@, LAMBDA c : c # v.callback[w]), !.callback[w] = 0]
Gone(v, w) == [i \in DOMAIN v.sent |-> IF v.sent[i].win = w THEN [v.sent[i] EXCEPT !.win = NULL] ELSE v.sent[i]]
Closed(v, w) == [FoldLeft(Cleared, FramesFreed(v, w), v.links[w]) EXCEPT !.links[w] = <<>>, !.order[w] = <<>>]
wayland_free_window(v, w) ==
    [Closed(v, w) EXCEPT !.up = @ \ {w}, !.inhibit[w] = 0, !.sent = Gone(v, w),
                         !.focus = [k \in Seat |-> IF @[k] = w THEN NULL ELSE @[k]]]

(* free_seat() *)
SeatFreed(v, k) == [Stopped(v, k) EXCEPT !.seats = @ \ {k}, !.sent = SelectSeq(@, LAMBDA e : e.seat # k)]
free_seat(v, k) == SeatFreed(IF v.kbd[k].win # NULL THEN handle_keyboard_leave(v, k) ELSE v, k)

----------------------------------------------------------------------------
Do(what) == what \in s.does /\ s.n < MaxSteps
Count(v) == [v EXCEPT !.n = @ + 1]
Event(what, k, w, key) == [what |-> what, seat |-> k, win |-> w, key |-> key]
Send(v, events) == [v EXCEPT !.sent = @ \o events, !.n = @ + 1]

(* The compositor *)
Left(k) == IF s.focus[k] = NULL THEN <<>> ELSE <<Event("leave", k, s.focus[k], 0)>>
Focus(k, w) ==
    /\ Do("focus") /\ Len(s.sent) + Len(Left(k)) < MaxEvents /\ s.focus[k] # w
    /\ s' = [Send(s, Left(k) \o <<Event("enter", k, w, 0)>>) EXCEPT !.focus[k] = w, !.held[k] = {}]
Key(k, key) ==
    /\ Do("key") /\ Len(s.sent) < MaxEvents /\ s.focus[k] # NULL
    /\ LET pressed == key \notin s.held[k]
       IN  s' = [Send(s, <<Event(IF pressed THEN "press" ELSE "release", k, s.focus[k], key)>>)
                    EXCEPT !.held[k] = IF pressed THEN @ \cup {key} ELSE @ \ {key}]
Dispatch == s.sent # <<>> /\ s' = Handled([s EXCEPT !.sent = Tail(@)], Head(s.sent))

(* handle_autorepeat(), handle_autorepeat2() *)
Repeat(k) ==
    /\ Do("repeat") /\ s.kbd[k].timer \in {"initial", "repeat"}
    /\ s' = [s EXCEPT !.kbd[k].timer = IF s.kbd[k].win = NULL THEN "freed" ELSE "repeat"]
SetAutorepeat(w) == (* window_set_autorepeat() *)
    /\ Do("mode") /\ w \in s.up
    /\ s' = Count([(IF s.auto[w] THEN wayland_set_autorepeat(s, w) ELSE s) EXCEPT !.auto[w] = ~@])
Close(w) ==
    /\ Do("close") /\ w \in s.up
    /\ InFlight \/ \A i \in DOMAIN s.sent : s.sent[i].win = w => s.sent[i].what = "leave"
    /\ s' = Count(wayland_free_window(s, w))
RemoveSeat(k) == Do("unplug") /\ k \in s.seats /\ s' = Count([free_seat(s, k) EXCEPT !.focus[k] = NULL])

(* do_start_paste(): the other end writes it all and closes the pipe *)
StartPaste(w) ==
    /\ Do("paste") /\ w \in s.up /\ find_first_seat(s, w) # NULL
    /\ \E p \in Pastes, size \in 0..MaxText :
        /\ s.paste[p].state = "none" /\ \A q \in Pastes : q < p => s.paste[q].state # "none"
        /\ s' = Count([win_ptr_set(s, NULL, w, Paste(p))
                    EXCEPT !.paste[p] = [NoPaste EXCEPT !.win = w, !.state = "open", !.left = size], !.size[p] = size])
Write(p) ==
    /\ s.paste[p].state = "open" /\ ~s.paste[p].closed
    /\ \E n \in IF Bursts THEN 0..s.paste[p].left ELSE {s.paste[p].left} :
        s' = [s EXCEPT !.paste[p].pipe = @ + n, !.paste[p].left = @ - n, !.paste[p].closed = (n = s.paste[p].left)]
(* do_paste_chunk(): a read that does not fill the buffer is tried again, *)
(* and nothing more, for whatever reason, is the end                      *)
Read(v, p, n, done) == [v EXCEPT !.paste[p].pipe = @ - n, !.paste[p].tail = TRUE,
                                 !.paste[p].given = IF v.paste[p].tail \/ n > 0 THEN Append(@, <<n, done>>) ELSE @]
Chunk(p) == IF s.paste[p].pipe < MaxPart THEN s.paste[p].pipe ELSE MaxPart
do_paste_chunk(p, n) == IF n < MaxPart THEN free_paste(Read(s, p, n, TRUE), p) ELSE Read(s, p, n, FALSE)
handle_paste(p) ==
    /\ s.paste[p].state = "open" /\ (s.paste[p].pipe > 0 \/ s.paste[p].closed)
    /\ s' = do_paste_chunk(p, Chunk(p))

(* wayland_draw_done(): a redraw that is forced does not wait *)
Draw(w) ==
    /\ Do("draw") /\ w \in s.up /\ (s.inhibit[w] = 0 \/ "force" \in s.does)
    /\ s' = Count([s EXCEPT !.inhibit[w] = IF s.callback[w] = 0 THEN @ + 1 ELSE @, !.callback[w] = s.n + 1,
                            !.waiting[w] = Append(@, s.n + 1)])
handle_callback_done(w) ==
    /\ s.waiting[w] # <<>>
    /\ s' = [s EXCEPT !.waiting[w] = Tail(@), !.bad = @ \/ w \notin s.up, !.callback[w] = 0,
                      !.inhibit[w] = IF s.callback[w] # 0 THEN @ - 1 ELSE @]

Next ==
    \/ \E k \in Seat, w \in Window : k \in s.seats /\ w \in s.up /\ Focus(k, w)
    \/ \E k \in Seat, key \in Keys : k \in s.seats /\ Key(k, key)
    \/ Dispatch
    \/ \E k \in Seat : Repeat(k) \/ RemoveSeat(k)
    \/ \E w \in Window : SetAutorepeat(w) \/ Close(w) \/ StartPaste(w) \/ Draw(w) \/ handle_callback_done(w)
    \/ \E p \in Pastes : Write(p) \/ handle_paste(p)
Spec == Init /\ [][Next]_s

----------------------------------------------------------------------------
(* A key is repeated only while it is held, as far as the program was      *)
(* told, in a window that has the seat's keyboard and repeats keys, through *)
(* closing, unplugging and modes; and nothing freed is used.               *)
RepeatHeld ==
    /\ ~s.bad
    /\ \A k \in Seat : s.kbd[k].timer # "none" =>
        /\ k \in s.seats /\ s.kbd[k].win \in s.up /\ s.auto[s.kbd[k].win]
        /\ s.kbd[k].key \in s.down[k]

(* The weak pointers linked in a window are those that refer to it.        *)
Refers(w) == {Kbd(k) : k \in {j \in Seat : s.kbd[j].win = w}} \cup {Paste(p) : p \in {q \in Pastes : s.paste[q].win = w}}
Linked == \A w \in Window :
    /\ ToSet(s.links[w]) = Refers(w) /\ IsInjective(s.links[w])
    /\ w \notin s.up => s.links[w] = <<>>
    /\ \A q \in Refers(w) : q.kind = "keyboard" => q.of \in s.seats

(* What is pasted is the selection of the seat of the last input there,    *)
(* not of the last paste.                                                  *)
LastSeat == \A w \in s.up : find_first_seat(s, w) = IF s.order[w] = <<>> THEN NULL ELSE Head(s.order[w])

(* A paste gives its window all there was, and ends with a last part, the  *)
(* only one, unless it was empty or the window was closed.                 *)
Sum(given) == FoldLeft(LAMBDA n, part : n + part[1], 0, given)
PasteWhole == \A p \in Pastes :
    LET given == s.paste[p].given
    IN  /\ \A i \in DOMAIN given : given[i][2] => i = Len(given) /\ s.paste[p].state = "closed"
        /\ s.paste[p].state = "closed" /\ "close" \notin s.does =>
            Sum(given) = s.size[p] /\ (given # <<>> => Last(given)[2])

(* A window waits for a frame exactly while a callback is on its way.      *)
FrameComes == \A w \in s.up :
    /\ s.inhibit[w] = IF s.callback[w] = 0 THEN 0 ELSE 1
    /\ s.callback[w] # 0 => s.callback[w] \in ToSet(s.waiting[w])
=============================================================================
