------------------------------- MODULE Events -------------------------------
(***************************************************************************)
(* poller.c: what each of its operations does to the global `poller', as   *)
(* functions from a state of the poller to the next one.  Poller.tla runs  *)
(* them under poller_run() with an arbitrary client, WindowLoop.tla with   *)
(* the callbacks of a window.                                              *)
(*                                                                         *)
(* The timer heap is the set of armed timers, each with the time left      *)
(* until it is due (TimerHeap.tla shows that the heap behaves as that).    *)
(***************************************************************************)
EXTENDS Integers, Sequences, Functions

CONSTANTS Ev,        (* addresses of struct event                            *)
          Ptrs,      (* variables of the clients that point to an event      *)
          SlotBlock  (* slots grow_pollfd_array() adds: INIT_PFD_NUM         *)

Null  == 0           (* NULL, for an event                                   *)
NoPtr == "NULL"      (* NULL, for the address of a pointer to an event       *)

ASSUME EventsAssumption ==
    /\ Ev \subseteq Nat \ {Null}
    /\ NoPtr \notin Ptrs
    /\ SlotBlock \in Nat \ {0}

FreeSlot == [evt |-> Null, file |-> "none", on |-> FALSE, mask |-> {}, revents |-> {}]

FreeList == [i \in 1 .. SlotBlock |-> i]

(* init_poller() *)
EmptyPoller ==
    [kind      |-> [e \in Ev |-> "free"],      \* evt->state
     cb        |-> [e \in Ev |-> "none"],      \* evt->timer.cb, evt->fd.cb
     period    |-> [e \in Ev |-> 0],           \* evt->timer.period
     off       |-> {},                         \* evt->flags & evt_flag_disabled
     pptr      |-> [e \in Ev |-> NoPtr],       \* evt->pptr
     due       |-> [e \in {} |-> 0],           \* the heap: time left
     pollfd    |-> [i \in 1 .. SlotBlock |-> FreeSlot],  \* pollfd_array(_events)
     freeSlots |-> FreeList,                     \* from pollfd_first_free
     current   |-> Null,                       \* current_event
     delete    |-> FALSE,                      \* delete_current
     skip      |-> FALSE,                      \* skip_wait
     stop      |-> FALSE,                      \* should_stop
     ptr       |-> [o \in Ptrs |-> Null],      \* *evt->pptr
     failed    |-> FALSE]                      \* an assertion failed, or die()

Require(p, condition) == [p EXCEPT !.failed = @ \/ ~ condition]

(* alloc_event(): which of the free structures is taken does not matter.   *)
alloc_event(p) ==
    CHOOSE e \in Ev : p.kind[e] = "free" /\ \A f \in Ev : p.kind[f] = "free" => e <= f

CanAlloc(p) == \E e \in Ev : p.kind[e] = "free"

(* Its fields are overwritten when it is allocated again. *)
free_event(p, e) ==
    [p EXCEPT !.kind[e] = "free", !.cb[e] = "none", !.period[e] = 0, !.pptr[e] = NoPtr,
              !.off = @ \ {e},
              !.ptr = [o \in Ptrs |-> IF o = p.pptr[e] THEN Null ELSE @[o]]]

poller_set_autoreset(p, e, o) == [p EXCEPT !.pptr[e] = o]

(* The heap *)
heap_remove(p, e) == [p EXCEPT !.due = Restrict(@, DOMAIN @ \ {e})]

heap_insert(p, e) ==
    [Require(p, e \notin DOMAIN p.due) EXCEPT
        !.due = [t \in DOMAIN @ \cup {e} |-> IF t = e THEN p.period[e] ELSE @[t]]]

Earliest(p) == {e \in DOMAIN p.due : \A f \in DOMAIN p.due : p.due[e] <= p.due[f]}

poller_add_timer(p, cb, period) ==
    LET e == alloc_event(p)
    IN heap_insert([p EXCEPT !.kind[e] = "timer", !.cb[e] = cb, !.period[e] = period], e)

(* File descriptors *)

grow_pollfd_array(p) ==
    LET caps == Len(p.pollfd)
    IN [p EXCEPT
        !.pollfd = @ \o [i \in 1 .. SlotBlock |-> FreeSlot],
        !.freeSlots = [i \in 1 .. SlotBlock |-> caps + SlotBlock + 1 - i] \o @]

(* Mutant: the events of the descriptor that had the slot are kept. *)
poller_add_fd_revents(p, cb, file, mask) ==
    LET q == IF p.freeSlots = <<>> THEN grow_pollfd_array(p) ELSE p
        e == alloc_event(q)
    IN [q EXCEPT
        !.pollfd[Head(q.freeSlots)] =
            [@ EXCEPT !.evt = e, !.file = file, !.on = TRUE, !.mask = mask],
        !.freeSlots = Tail(@),
        !.kind[e] = "fd",
        !.cb[e] = cb]

poller_add_fd(p, cb, file, mask) ==
    LET q == IF p.freeSlots = <<>> THEN grow_pollfd_array(p) ELSE p
        e == alloc_event(q)
    IN [q EXCEPT
        !.pollfd[Head(q.freeSlots)] =
            [evt |-> e, file |-> file, on |-> TRUE, mask |-> mask, revents |-> {}],
        !.freeSlots = Tail(@),
        !.kind[e] = "fd",
        !.cb[e] = cb]

(* evt->fd.index *)
SlotOf(p, e) == CHOOSE i \in DOMAIN p.pollfd : p.pollfd[i].evt = e

(* The slot keeps its revents, but it is off. *)
remove_fd(p, e) ==
    free_event([p EXCEPT
        !.pollfd[SlotOf(p, e)] = [@ EXCEPT !.evt = Null, !.on = FALSE, !.file = "none"],
        !.freeSlots = <<SlotOf(p, e)>> \o @], e)

poller_fd_get_mask(p, e) == p.pollfd[SlotOf(p, e)].mask

poller_fd_set_mask(p, e, mask) == [p EXCEPT !.pollfd[SlotOf(p, e)].mask = mask]

poller_skip_wait(p) == [p EXCEPT !.skip = TRUE]

poller_stop(p) == [p EXCEPT !.stop = TRUE]

(* Both kinds of event *)

poller_remove(p, e) ==
    IF e = p.current
    THEN [p EXCEPT !.ptr = [o \in Ptrs |-> IF o = p.pptr[e] THEN Null ELSE @[o]],
                   !.pptr[e] = NoPtr,
                   !.delete = TRUE]
    ELSE CASE p.kind[e] = "fd"    -> remove_fd(p, e)
           [] p.kind[e] = "timer" -> free_event(heap_remove(p, e), e)
           [] p.kind[e] = "free"  -> Require(p, FALSE)

poller_is_enabled(p, e) == e # Null /\ e \notin p.off

poller_toggle(p, e, enable) ==
    IF poller_is_enabled(p, e) = enable THEN p
    ELSE IF e = Null THEN Require(p, FALSE)
    ELSE LET q == [p EXCEPT !.off = IF enable THEN @ \ {e} ELSE @ \cup {e}]
         IN CASE p.kind[e] = "fd"    -> [q EXCEPT !.pollfd[SlotOf(p, e)].on = ~ @]
              [] p.kind[e] = "timer" -> IF enable THEN heap_insert(q, e) ELSE heap_remove(q, e)
              [] p.kind[e] = "free"  -> Require(p, FALSE)

(* poller.h; the result of poller_unset() and of poller_set_timer() is     *)
(* whether the pointer was set.                                            *)
IsSet(p, o) == p.ptr[o] # Null

poller_unset(p, o) == IF IsSet(p, o) THEN poller_remove(p, p.ptr[o]) ELSE p

(* e is what the allocation returned. *)
WithAutoreset(p, e, o) == poller_set_autoreset([p EXCEPT !.ptr[o] = e], e, o)

AddAutoresetTimer(p, o, cb, period) ==
    WithAutoreset(poller_add_timer(p, cb, period), alloc_event(p), o)

poller_set_timer(p, o, cb, period) == AddAutoresetTimer(poller_unset(p, o), o, cb, period)

----------------------------------------------------------------------------
(* The body of the loop of poller_run() *)

(* ppoll() returned: revents for a file that is on, as its mask asks, and  *)
(* errors whatever it asks; d is the time that passed.                     *)
Polled(p, ready, d) ==
    [p EXCEPT
        !.skip = FALSE,
        !.pollfd = [i \in DOMAIN @ |-> [@[i] EXCEPT
            !.revents = IF p.pollfd[i].on THEN ready[p.pollfd[i].file] \cap (p.pollfd[i].mask \cup {"hup"})
                        ELSE {}]],
        !.due = [e \in DOMAIN @ |-> @[e] - d]]

HasEvents(p, i) == p.pollfd[i].on /\ p.pollfd[i].revents # {}

StartFd(p, i) ==
    [Require(p, p.pollfd[i].evt # Null /\ p.kind[p.pollfd[i].evt] = "fd") EXCEPT
        !.current = p.pollfd[i].evt]

Deleted(p, e) ==
    IF p.delete THEN poller_remove([p EXCEPT !.current = Null, !.delete = FALSE], e)
                ELSE [p EXCEPT !.current = Null]

EndFd(p, i) == Deleted([p EXCEPT !.pollfd[i].revents = {}], p.current)

(* Timers that are due: now2 is after evt->timer.current *)
Due(p) == {e \in Earliest(p) : p.due[e] <= 0}

StartTimer(p, e) ==
    [heap_remove(Require(p, p.kind[e] = "timer"), e) EXCEPT !.current = e]

(* The callback returned `requeue'. *)
EndTimer(p, requeue) ==
    LET e == p.current
    IN IF p.delete THEN Deleted(p, e)
       ELSE IF requeue THEN heap_insert(Deleted(p, e), e)
       ELSE free_event(Deleted(p, e), e)
=============================================================================
