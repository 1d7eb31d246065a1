----------------------------- MODULE WindowLoop -----------------------------
(***************************************************************************)
(* One window of nsst on X11 in poller_run(): window.c decides when the    *)
(* terminal is read and when the screen is redrawn, with six timers and    *)
(* two counters, while the application in the terminal writes, exits or    *)
(* closes it and the X server sends events.                                *)
(*                                                                         *)
(* The process is single-threaded: an action is a whole callback, or the   *)
(* tick, as a function from the state w of the process and of the pty to   *)
(* the next one.  Application, server and SIGCHLD come between them.       *)
(*                                                                         *)
(* What an application writes is a sequence of commands:                   *)
(*   "text"    changes the screen                                          *)
(*   "clear"   changes a rectangle: window_delay_redraw()                  *)
(*   "scroll"  a scroll that exceeds the smooth scroll step                *)
(*   "bsu", "esu"  begin and end a synchronous update                      *)
(*   "resize"  asks for another size, and the server accepts the request   *)
(***************************************************************************)
EXTENDS Events, FiniteSets

CONSTANTS Commands,   (* those the application uses                          *)
          MaxOutput,  (* bound on how many it writes                         *)
          XEvents,    (* of "resize" (to another grid), "other", "delete",   *)
                      (* "reload" (the shortcut)                             *)
          MaxXEvents, (* bound on how many the server sends                  *)
          Period,     (* [timers -> delays], from the configuration          *)
          OnExit,     (* "close" or "keep": win->cfg.on_exit                 *)
          MaxLate     (* bound on how late ppoll() returns                   *)

Timers == {"frame", "redraw", "sync", "smooth", "configure", "read"}

ASSUME WindowLoopAssumption ==
    /\ Commands \subseteq {"text", "clear", "scroll", "bsu", "esu", "resize"}
    /\ XEvents \subseteq {"resize", "other", "delete", "reload"}
    /\ Ptrs = Timers \cup {"con", "tty"}
    /\ \E e, f \in Ev : e # f    \* memory for the two events of Start
    /\ Period \in [Timers -> Nat \ {0}]
    /\ OnExit \in {"close", "keep"}
    /\ MaxOutput \in Nat /\ MaxXEvents \in Nat /\ MaxLate \in Nat

VARIABLES w,        (* the process and the pty, see Start                    *)
          phase,    (* where poller_run() is                                 *)
          slot,     (* the index of its loop over the descriptors            *)
          written,  (* how many commands the application has written         *)
          sent,     (* how many events the server has sent                   *)
          xev       (* events on the connection to the X server              *)

vars == <<w, phase, slot, written, sent, xev>>

(* init_context() registers the connection, create_window() the terminal.  *)
Registered(p, o, cb) ==
    WithAutoreset(poller_add_fd(p, cb, o, {"in"}), alloc_event(p), o)

Start ==
    [p       |-> Registered(Registered(EmptyPoller, "con", "con"), "tty", "tty"),
     rd      |-> 0,        \* win->inhibit_read_counter
     rn      |-> 0,        \* win->inhibit_render_counter
     any     |-> FALSE,    \* win->any_event_happened
     force   |-> FALSE,    \* win->force_redraw
     gone    |-> FALSE,    \* free_window() was called
     req     |-> FALSE,    \* term->requested_resize
     buf     |-> <<>>,     \* tty->start .. tty->end
     fresh   |-> TRUE,     \* tty->start is where tty_open() puts it
     fd      |-> TRUE,     \* tty->w.fd >= 0
     child   |-> TRUE,     \* tty->w.child >= 0
     had     |-> FALSE,    \* had_sigchld
     out     |-> <<>>,     \* kernel: what can be read from the pty
     slave   |-> TRUE,     \* kernel: a process has the other end open
     proc    |-> "runs"]   \* kernel: the child "runs", has "exited", is "reaped"

Init ==
    /\ w = Start
    /\ phase = "poll"
    /\ slot = 0
    /\ written = 0
    /\ sent = 0
    /\ xev = <<>>

(* Undefined behaviour, a failed assertion, or die() *)
Fail(s) == [s EXCEPT !.p = Require(@, FALSE)]

(* xzalloc() calls die() when there is no memory for an event.             *)
SetTimer(s, t) ==
    IF CanAlloc(poller_unset(s.p, t))
    THEN [s EXCEPT !.p = poller_set_timer(@, t, t, Period[t])]
    ELSE Fail(s)

Unset(s, t)    == [s EXCEPT !.p = poller_unset(@, t)]
TimerSet(s, t) == IsSet(s.p, t)

----------------------------------------------------------------------------
(* tty.c *)

tty_toggle_read(s, enable) ==
    LET e   == s.p.ptr["tty"]
        old == poller_fd_get_mask(s.p, e)
        new == IF enable THEN old \cup {"in"} ELSE old \ {"in"}
        q   == poller_fd_set_mask(s.p, e, new)
    IN IF e = Null \/ s.p.kind[e] # "fd" THEN Fail(s)
       ELSE [s EXCEPT !.p = IF (new = {}) # (old = {}) THEN poller_toggle(q, e, new # {}) ELSE q]

(* remove_watcher() and the event; the child gets SIGHUP *)
tty_hang(s) == [s EXCEPT !.fd = FALSE, !.child = FALSE, !.p = poller_unset(@, "tty")]

(* It fails exactly when the pty is closed afterwards.  Without data it is *)
(* closed when nobody has the other end open, or when the child has exited *)
(* and 0 was counted: that is not so right after a pass over an empty      *)
(* buffer, because the tail kept for URIs is then not part of sz.          *)
tty_refill(s) ==
    IF ~ s.fd THEN s
    ELSE IF s.out # <<>> THEN [s EXCEPT !.buf = @ \o s.out, !.out = <<>>, !.fresh = FALSE]
    ELSE IF ~ s.slave \/ (~ s.child /\ ~ s.fresh) THEN tty_hang(s)
    ELSE [s EXCEPT !.fresh = (s.buf = <<>>)]

----------------------------------------------------------------------------
(* window.c: the counters *)

(* Mutant: the counter is never decreased. *)
dec_render_inhibit_lost(s) == s

inc_render_inhibit(s) == [s EXCEPT !.rn = @ + 1]
dec_render_inhibit(s) == [s EXCEPT !.rn = @ - 1]

inc_read_inhibit(s) ==
    LET t == [s EXCEPT !.rd = @ + 1]
    IN IF s.rd = 0 THEN tty_toggle_read(t, FALSE) ELSE t

(* poller_unset() of a timer that inhibits redrawing                       *)
UnsetRender(s, t) == IF TimerSet(s, t) THEN dec_render_inhibit(Unset(s, t)) ELSE s

window_reset_delayed_redraw(s) == UnsetRender([s EXCEPT !.any = TRUE], "redraw")

(* Mutant: counts again when the timer is set already. *)
window_delay_redraw_twice(s) == inc_render_inhibit(SetTimer(s, "redraw"))

window_delay_redraw(s) ==
    IF TimerSet(s, "redraw") THEN s ELSE inc_render_inhibit(SetTimer(s, "redraw"))

window_delay_redraw_after_read(s) == SetTimer(s, "read")

(* A timer that inhibits reading: it is counted once, however often set.   *)
SetInhibit(s, t) ==
    IF TimerSet(s, t) THEN SetTimer(s, t) ELSE inc_read_inhibit(SetTimer(s, t))

wait_for_configure(s) == SetInhibit(s, "configure")

window_request_scroll_flush(s) ==
    SetInhibit([window_reset_delayed_redraw(s) EXCEPT !.force = TRUE], "smooth")

window_set_sync(s, state) ==
    LET t == UnsetRender(s, "sync")
    IN IF state THEN inc_render_inhibit(SetTimer(t, "sync")) ELSE t

----------------------------------------------------------------------------
(* term.c *)

term_dispatch(s, c) ==
    CASE c = "text"   -> s
      [] c = "clear"  -> window_delay_redraw(s)
      [] c = "scroll" -> window_request_scroll_flush(window_delay_redraw(s))
      [] c \in {"bsu", "esu"} -> window_set_sync(s, c = "bsu")
      [] c = "resize" -> [wait_for_configure(s) EXCEPT !.req = TRUE]

(* What follows a resize request stays in the buffer. *)
Interpret(t, c) == IF t.req THEN [t EXCEPT !.buf = Append(@, c)] ELSE term_dispatch(t, c)

do_read(s) ==
    LET t[i \in 0 .. Len(s.buf)] ==
            IF i = 0 THEN [s EXCEPT !.req = FALSE, !.buf = <<>>] ELSE Interpret(t[i - 1], s.buf[i])
    IN t[Len(s.buf)]

(* Its result is Readable(tty_refill(s)). *)
Readable(s) == s.fd /\ s.buf # <<>>

term_read(s) ==
    LET t == tty_refill(s) IN IF Readable(t) THEN do_read(t) ELSE t

(* while (term_read(term)); each one but the last consumes something *)
ReadOnce(t) == IF t.more THEN [s |-> term_read(t.s), more |-> Readable(tty_refill(t.s))] ELSE t

ReadAll(s) ==
    LET n == Len(s.out) + Len(s.buf) + 1
        t[i \in 0 .. n] == IF i = 0 THEN [s |-> s, more |-> TRUE] ELSE ReadOnce(t[i - 1])
    IN t[n].s

(* The exit message is a text. *)
term_inject_string(s) == do_read([s EXCEPT !.buf = Append(@, "text")])

term_hang(s) ==
    IF OnExit = "keep"
    THEN IF s.fd THEN term_inject_string(tty_hang(ReadAll(s))) ELSE s
    ELSE LET t == tty_hang(s)
         IN IF CanAlloc(t.p)
            THEN [t EXCEPT !.p = [poller_add_timer(@, "close", 0) EXCEPT
                                     !.ptr["tty"] = alloc_event(t.p)]]
            ELSE Fail(t)

----------------------------------------------------------------------------
(* window.c: callbacks *)

(* What follows term_hang() or term_read() that returned `more' *)
AfterRead(s, more) ==
    IF more THEN [window_delay_redraw_after_read(s) EXCEPT !.any = TRUE] ELSE s

handle_term_read(s, mask) ==
    IF "hup" \in mask THEN AfterRead(term_hang(s), OnExit = "keep")
                      ELSE AfterRead(term_read(s), Readable(tty_refill(s)))

(* Mutants: reading is allowed again without reading, or not allowed again. *)
dec_read_inhibit_unread(s) ==
    LET t == [s EXCEPT !.rd = @ - 1]
    IN IF t.rd = 0 THEN tty_toggle_read(t, TRUE) ELSE t

dec_read_inhibit_untoggled(s) ==
    LET t == [s EXCEPT !.rd = @ - 1]
    IN IF t.rd = 0 THEN handle_term_read(t, {"in"}) ELSE t

dec_read_inhibit(s) ==
    LET t == [s EXCEPT !.rd = @ - 1]
    IN IF t.rd = 0 THEN handle_term_read(tty_toggle_read(t, TRUE), {"in"}) ELSE t

UnsetInhibit(s, t) == IF TimerSet(s, t) THEN dec_read_inhibit(Unset(s, t)) ELSE s

(* Mutant: a timer is forgotten. *)
UnsetAll_but_read(s) ==
    Unset(Unset(Unset(Unset(Unset(s, "frame"), "smooth"), "sync"), "configure"), "redraw")

UnsetAll(s) ==
    Unset(Unset(Unset(Unset(Unset(Unset(s, "frame"), "smooth"), "sync"), "configure"), "read"), "redraw")

free_window(s) == [tty_hang(UnsetAll(s)) EXCEPT !.gone = TRUE]

TimerCallback(s, cb) ==
    CASE cb = "frame"     -> dec_render_inhibit(s)
      [] cb = "redraw"    -> dec_render_inhibit(s)
      [] cb = "sync"      -> window_reset_delayed_redraw(dec_render_inhibit(s))
      [] cb = "smooth"    -> window_reset_delayed_redraw(dec_read_inhibit(s))
      [] cb = "configure" -> dec_read_inhibit([s EXCEPT !.p.ptr["configure"] = Null])
      [] cb = "read"      -> window_reset_delayed_redraw(s)
      [] cb = "close"     -> free_window(s)

(* The grid changes. *)
handle_resize(s) ==
    LET t == IF s.req THEN UnsetInhibit(term_read(s), "configure") ELSE s
    IN window_delay_redraw_after_read([window_delay_redraw(t) EXCEPT !.req = FALSE])

reload_window(s) ==
    LET t == UnsetInhibit(UnsetInhibit(s, "smooth"), "configure")
    IN [Unset(window_reset_delayed_redraw(UnsetRender(t, "sync")), "read") EXCEPT !.force = TRUE]

(* do_handle_events(): window_for_xid() finds the window while it exists. *)
XEvent(s, e) ==
    LET t == [s EXCEPT !.any = TRUE]
    IN IF s.gone THEN s
       ELSE CASE e = "resize" -> handle_resize(t)
              [] e = "other"  -> t
              [] e = "delete" -> free_window(t)
              [] e = "reload" -> reload_window(t)

HandleEvents(s, events) ==
    LET t[i \in 0 .. Len(events)] == IF i = 0 THEN s ELSE XEvent(t[i - 1], events[i])
    IN t[Len(events)]

(* tick(): the redraw, and whether it drew something *)
Redraw(s, drawn) ==
    LET t == IF TimerSet(s, "frame") THEN SetTimer(s, "frame")
             ELSE inc_render_inhibit(SetTimer(s, "frame"))
    IN IF s.gone \/ ~ ((s.any /\ s.rn = 0) \/ s.force) THEN s
       ELSE [(IF drawn THEN window_reset_delayed_redraw(t) ELSE s) EXCEPT
                !.force = FALSE, !.any = FALSE]

window_check_sigchld(s) ==
    LET t == [s EXCEPT !.had = FALSE]
    IN IF ~ s.had THEN s ELSE IF s.gone \/ s.child THEN t ELSE term_hang(t)

----------------------------------------------------------------------------
(* poller_run() *)

Ready ==
    [f \in {"con", "tty", "none"} |->
        CASE f = "con"  -> IF xev # <<>> THEN {"in"} ELSE {}
          [] f = "tty"  -> (IF w.out # <<>> THEN {"in"} ELSE {}) \cup (IF w.slave THEN {} ELSE {"hup"})
          [] f = "none" -> {}]

Environment == <<written, sent, xev>>

AnyReady == \E i \in 1 .. Len(w.p.pollfd) : HasEvents(Polled(w.p, Ready, 0), i)

Returned(d) ==
    /\ w' = [w EXCEPT !.p = Polled(@, Ready, d)]
    /\ phase' = "fds"
    /\ slot' = 1
    /\ UNCHANGED Environment

(* ppoll() finds something at once, or it blocks. *)
Poll ==
    /\ phase = "poll"
    /\ AnyReady \/ w.p.skip
    /\ \E d \in 0 .. MaxLate : Returned(d)

Block ==
    /\ phase = "poll"
    /\ ~ AnyReady /\ ~ w.p.skip
    /\ phase' = "blocked"
    /\ UNCHANGED <<w, slot>> /\ UNCHANGED Environment

Wake == phase = "blocked" /\ AnyReady /\ \E d \in 0 .. MaxLate : Returned(d)

Timeout ==
    /\ phase = "blocked"
    /\ \E e \in Earliest(w.p), late \in 0 .. MaxLate : Returned(w.p.due[e] + late)

(* The callback of a descriptor; free slots and what is not ready are passed. *)
RunFd ==
    /\ phase = "fds"
    /\ slot <= Len(w.p.pollfd)
    /\ IF HasEvents(w.p, slot)
       THEN LET s == [w EXCEPT !.p = StartFd(@, slot)]
                t == IF w.p.cb[s.p.current] = "con" THEN HandleEvents(s, xev)
                     ELSE handle_term_read(s, w.p.pollfd[slot].revents)
            IN /\ w' = [t EXCEPT !.p = EndFd(@, slot)]
               /\ xev' = IF w.p.cb[s.p.current] = "con" THEN <<>> ELSE xev
       ELSE UNCHANGED <<w, xev>>
    /\ slot' = slot + 1
    /\ UNCHANGED <<phase, written, sent>>

FdsDone ==
    /\ phase = "fds"
    /\ slot > Len(w.p.pollfd)
    /\ phase' = "timers"
    /\ slot' = 0
    /\ UNCHANGED w /\ UNCHANGED Environment

(* All callbacks of window.c return false.  After free_window() the window *)
(* is not there any more, and only a timer has a callback.                 *)
RunTimer(e) ==
    /\ phase = "timers"
    /\ e \in Due(w.p)
    /\ LET s == [w EXCEPT !.p = StartTimer(@, e)]
           t == IF w.gone \/ s.p.failed THEN Fail(s) ELSE TimerCallback(s, w.p.cb[e])
       IN w' = [t EXCEPT !.p = EndTimer(@, FALSE)]
    /\ UNCHANGED <<phase, slot>> /\ UNCHANGED Environment

TimersDone ==
    /\ phase = "timers"
    /\ Due(w.p) = {}
    /\ phase' = "tick"
    /\ UNCHANGED <<w, slot>> /\ UNCHANGED Environment

(* tick() with a window; events that the redraw left in the queue of xcb   *)
(* are handled by x11_flush(), which asks for another pass.                *)
Tick ==
    /\ phase = "tick"
    /\ ~ w.gone
    /\ \E drawn \in BOOLEAN :
        LET s == window_check_sigchld(Redraw(w, drawn))
        IN \/ w' = s /\ UNCHANGED xev
           \/ /\ xev # <<>>
              /\ w' = [HandleEvents(s, xev) EXCEPT !.p = poller_skip_wait(@)]
              /\ xev' = <<>>
    /\ phase' = "poll"
    /\ UNCHANGED <<slot, written, sent>>

(* tick() without one *)
Stop ==
    /\ phase = "tick"
    /\ w.gone
    /\ w' = [w EXCEPT !.p = poller_stop(@)]
    /\ phase' = "stopped"
    /\ UNCHANGED slot /\ UNCHANGED Environment

Loop ==
    \/ Poll \/ Block \/ Wake \/ Timeout
    \/ RunFd \/ FdsDone
    \/ (\E e \in Ev : RunTimer(e)) \/ TimersDone
    \/ Tick \/ Stop

----------------------------------------------------------------------------
(* The application, the server and the kernel *)

Write(c) ==
    /\ w.slave /\ w.fd
    /\ written < MaxOutput
    /\ w' = [w EXCEPT !.out = Append(@, c)]
    /\ written' = written + 1
    /\ UNCHANGED <<phase, slot, sent, xev>>

CloseSlave ==
    /\ w.slave
    /\ w' = [w EXCEPT !.slave = FALSE]
    /\ UNCHANGED <<phase, slot>> /\ UNCHANGED Environment

Exit ==
    /\ w.proc = "runs"
    /\ w' = [w EXCEPT !.proc = "exited"]
    /\ UNCHANGED <<phase, slot>> /\ UNCHANGED Environment

(* handle_chld(), once for the child; it interrupts ppoll(), but it can    *)
(* also run just before ppoll() blocks.                                    *)
Sigchld ==
    /\ w.proc = "exited"
    /\ w' = [w EXCEPT !.proc = "reaped", !.child = FALSE, !.had = TRUE,
                      !.p = IF phase = "blocked" THEN Polled(@, [f \in DOMAIN Ready |-> {}], 0) ELSE @]
    /\ phase' = IF phase = "blocked" THEN "fds" ELSE phase
    /\ slot' = IF phase = "blocked" THEN 1 ELSE slot
    /\ UNCHANGED Environment

Send(e) ==
    /\ sent < MaxXEvents
    /\ sent' = sent + 1
    /\ xev' = Append(xev, e)
    /\ UNCHANGED <<w, phase, slot, written>>

Next ==
    \/ Loop
    \/ \E c \in Commands : Write(c)
    \/ \E e \in XEvents : Send(e)
    \/ CloseSlave \/ Exit \/ Sigchld
(* Callbacks return, ppoll() does when it has something to report, and a   *)
(* signal is delivered.  Nothing is assumed of the application and of the  *)
(* X server.  The first conjunct is WF_vars(Loop), with the condition that *)
(* enables Loop written out.                                               *)
Blocked == phase = "blocked" /\ ~ AnyReady /\ DOMAIN w.p.due = {}

Fairness ==
    /\ []<>(Blocked \/ phase = "stopped") \/ []<><<Loop>>_vars
    /\ WF_vars(Sigchld)

Spec == Init /\ [][Next]_vars /\ Fairness

----------------------------------------------------------------------------
Off == w.fd /\ "in" \notin poller_fd_get_mask(w.p, w.p.ptr["tty"])

ArmedFor(cb) == {e \in DOMAIN w.p.due : w.p.cb[e] = cb}

Count(ts) == Cardinality({t \in ts : TimerSet(w, t)})

TypeOK ==
    /\ w.rd \in Int /\ (~ w.gone /\ ~ w.p.failed => w.rn \in Nat)
    /\ {w.any, w.force, w.gone, w.req, w.fresh, w.fd, w.child, w.had, w.slave} \subseteq BOOLEAN
    /\ w.buf \in Seq(Commands \cup {"text"}) /\ w.out \in Seq(Commands)
    /\ w.proc \in {"runs", "exited", "reaped"}
    /\ phase \in {"poll", "blocked", "fds", "timers", "tick", "stopped"}
    /\ slot \in 0 .. Len(w.p.pollfd) + 1
    /\ xev \in Seq(XEvents)

(* Redrawing is inhibited once for each of the timers frame, redraw and    *)
(* sync that are set, whoever set and cancelled them, in whatever order:   *)
(* the counter neither keeps the screen frozen nor lets a synchronous      *)
(* update show half-drawn.                                                 *)
RenderExact == ~ w.gone /\ ~ w.p.failed => w.rn = Count({"frame", "redraw", "sync"})

(* Whether the screen is redrawn is right in every state that can occur.   *)
RedrawRight == TypeOK /\ RenderExact

(* The terminal is not read while, and only while, the counter is          *)
(* positive; and then some timer is armed that will read it again: no      *)
(* sequence of scrolls, resizes, reloads and timeouts leaves it deaf.      *)
NotDeaf ==
    ~ w.gone /\ w.fd /\ ~ w.p.failed =>
        /\ Off <=> w.rd > 0
        /\ Off => ArmedFor("smooth") \cup ArmedFor("configure") # {}

(* No assertion of poller.c fails (the event whose mask changes is a       *)
(* descriptor, no timer is inserted twice), no event is used after it was  *)
(* freed, no callback runs for a window that was freed.                    *)
NoFailure == ~ w.p.failed

(* assert(!poller.timer_heap_size) in free_poller(): no timer outlives the *)
(* window.                                                                 *)
NoTimerLeft == phase = "stopped" => DOMAIN w.p.due = {}

(* Nothing of a window is used, or left in the poller, after it was freed. *)
NothingLeft == NoFailure /\ NoTimerLeft

(* What happened is shown, or the window closes, or an assertion ends the  *)
(* program (only after the terminal hung up in the run: poller.c:380).     *)
Shown == w.any ~> ~ w.any \/ w.gone \/ w.p.failed

(* What the application wrote is read, and what was read is interpreted.   *)
OutputRead == w.out # <<>> ~> w.out = <<>> \/ ~ w.fd
Interpreted == w.buf # <<>> ~> w.buf = <<>> \/ ~ w.fd

(* No output waits for ever, in the pty or behind a command that asked for *)
(* another size, whatever the server sends meanwhile.                      *)
NothingWaits == OutputRead /\ Interpreted

----------------------------------------------------------------------------
(* What the repository says of itself and the code does not do *)

(* docs/nsst.1 of --keep-on-exit: "never (default) for auto-closing": the  *)
(* window closes when the application has terminated and nobody has the    *)
(* terminal open.                                                          *)
Closes == w.proc = "reaped" /\ ~ w.slave ~> w.gone
=============================================================================
