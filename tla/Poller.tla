------------------------------- MODULE Poller -------------------------------
(***************************************************************************)
(* poller.c: poller_run() with an arbitrary client.  The client owns some  *)
(* pointers to timers and to descriptors; from a callback, from the tick   *)
(* and before the loop starts it may arm, disarm, add, remove and toggle   *)
(* any of them, the one whose callback runs too.  Files become ready and   *)
(* cease to be at any time.                                                *)
(***************************************************************************)
EXTENDS Events

CONSTANTS TimerPtrs, FdPtrs,  (* the client's pointers, by what they point to *)
          Files,              (* each pointer of FdPtrs is for one of them    *)
          FileOf,             (* [FdPtrs -> Files]                            *)
          Periods,            (* of the client's timers                       *)
          MaxOps,             (* bound on what a callback does                *)
          TickOps,            (* bound on what the tick does                  *)
          MaxLate             (* bound on how late ppoll() returns            *)

ASSUME PollerAssumption ==
    /\ Ptrs = TimerPtrs \cup FdPtrs
    /\ TimerPtrs \cap FdPtrs = {}
    /\ FileOf \in [FdPtrs -> Files]
    /\ Periods \subseteq Nat \ {0}
    /\ MaxOps \in Nat /\ TickOps \in Nat
    /\ MaxLate \in Nat

VARIABLES p,        (* the poller, and the client's pointers                 *)
          phase,    (* where poller_run() is                                 *)
          slot,     (* the index of its loop over the descriptors            *)
          ready,    (* files that are ready for reading                      *)
          ops,      (* operations the client may still do before it returns  *)
          polled    (* history: slots with events of the last ppoll() that    *)
                    (* are still for the same registration                   *)

vars == <<p, phase, slot, ready, ops, polled>>

Init ==
    /\ p = EmptyPoller
    /\ phase = "tick"
    /\ slot = 0
    /\ ready = {}
    /\ ops = TickOps
    /\ polled = {}

----------------------------------------------------------------------------
(* The client *)

Client ==
    /\ ops > 0
    /\ ops' = ops - 1
    /\ UNCHANGED <<phase, slot, ready>>

SetTimer(o, period) ==
    /\ Client
    /\ CanAlloc(poller_unset(p, o))
    /\ p' = poller_set_timer(p, o, "timer", period)
    /\ UNCHANGED polled

Unset(o) ==
    /\ Client
    /\ IsSet(p, o)
    /\ p' = poller_unset(p, o)
    /\ polled' = IF o \in FdPtrs /\ p.ptr[o] # p.current
                 THEN polled \ {SlotOf(p, p.ptr[o])} ELSE polled

AddFd(o) ==
    /\ Client
    /\ ~ IsSet(p, o)
    /\ CanAlloc(p)
    /\ LET e == alloc_event(p)
       IN p' = poller_set_autoreset([poller_add_fd(p, "fd", FileOf[o], {"in"}) EXCEPT !.ptr[o] = e], e, o)
    /\ UNCHANGED polled

(* No caller toggles the timer whose callback runs. *)
Toggle(o) ==
    /\ Client
    /\ IsSet(p, o)
    /\ o \in TimerPtrs => p.ptr[o] # p.current
    /\ p' = poller_toggle(p, p.ptr[o], ~ poller_is_enabled(p, p.ptr[o]))
    /\ UNCHANGED polled

(* The flush function of the platform, and the tick, call these. *)
SkipWait ==
    /\ Client
    /\ phase = "tick"
    /\ p' = poller_skip_wait(p)
    /\ UNCHANGED polled

Stop ==
    /\ Client
    /\ phase = "tick"
    /\ p' = poller_stop(p)
    /\ UNCHANGED polled

----------------------------------------------------------------------------
(* poller_run() *)

Ready == [f \in Files \cup {"none"} |-> IF f \in ready THEN {"in"} ELSE {}]

(* ppoll() returns because of a file, because the first timer is due or    *)
(* because of a signal; with a timeout of zero it returns at once.         *)
Returned(d) ==
    /\ p' = Polled(p, Ready, d)
    /\ polled' = {i \in DOMAIN p'.pollfd : HasEvents(p', i)}
    /\ phase' = "fds"
    /\ slot' = 1
    /\ UNCHANGED <<ready, ops>>

Poll ==
    /\ phase = "poll"
    /\ \E d \in 0 .. MaxLate : Returned(d) /\ polled' # {}

Timeout ==
    /\ phase = "poll"
    /\ ~ p.skip
    /\ \E e \in Earliest(p), late \in 0 .. MaxLate : Returned(p.due[e] + late)

Skipped == phase = "poll" /\ p.skip /\ \E d \in 0 .. MaxLate : Returned(d)

Interrupted == phase = "poll" /\ Returned(0) /\ polled' = {}

(* The loop over pollfd_array, as long as it is now; slots without events  *)
(* are passed.                                                             *)
RunFd(i) ==
    /\ phase = "fds"
    /\ p.current = Null
    /\ i \in slot .. Len(p.pollfd)
    /\ HasEvents(p, i)
    /\ \A j \in slot .. i - 1 : ~ HasEvents(p, j)
    /\ p' = StartFd(p, i)
    /\ slot' = i
    /\ ops' = MaxOps
    /\ UNCHANGED <<phase, ready, polled>>

(* Mutant: ppoll() is called again after each callback. *)
FdReturns_again ==
    /\ phase = "fds"
    /\ p.current # Null
    /\ p' = EndFd(p, slot)
    /\ slot' = slot + 1
    /\ polled' = {}
    /\ ops' = 0
    /\ phase' = "poll"
    /\ UNCHANGED ready

FdReturns ==
    /\ phase = "fds"
    /\ p.current # Null
    /\ p' = EndFd(p, slot)
    /\ slot' = slot + 1
    /\ polled' = polled \ {slot}
    /\ ops' = 0
    /\ UNCHANGED <<phase, ready>>

(* Mutant: the last slot is not looked at. *)
FdsDone_short ==
    /\ phase = "fds"
    /\ p.current = Null
    /\ \A i \in slot .. Len(p.pollfd) - 1 : ~ HasEvents(p, i)
    /\ phase' = "timers"
    /\ slot' = 0
    /\ polled' = {}
    /\ UNCHANGED <<p, ready, ops>>

FdsDone ==
    /\ phase = "fds"
    /\ p.current = Null
    /\ \A i \in slot .. Len(p.pollfd) : ~ HasEvents(p, i)
    /\ phase' = "timers"
    /\ slot' = 0
    /\ polled' = {}
    /\ UNCHANGED <<p, ready, ops>>

RunTimer(e) ==
    /\ phase = "timers"
    /\ p.current = Null
    /\ e \in Due(p)
    /\ p' = StartTimer(p, e)
    /\ ops' = MaxOps
    /\ UNCHANGED <<phase, slot, ready, polled>>

TimerReturns ==
    /\ phase = "timers"
    /\ p.current # Null
    /\ \E requeue \in BOOLEAN : p' = EndTimer(p, requeue)
    /\ ops' = 0
    /\ UNCHANGED <<phase, slot, ready, polled>>

TimersDone ==
    /\ phase = "timers"
    /\ p.current = Null
    /\ Due(p) = {}
    /\ phase' = "tick"
    /\ ops' = TickOps
    /\ UNCHANGED <<p, slot, ready, polled>>

(* The tick returns. *)
TickReturns ==
    /\ phase = "tick"
    /\ phase' = IF p.stop THEN "stopped" ELSE "poll"
    /\ ops' = 0
    /\ UNCHANGED <<p, slot, ready, polled>>

Loop ==
    \/ Poll \/ Timeout \/ Skipped \/ Interrupted
    \/ (\E i \in DOMAIN p.pollfd : RunFd(i)) \/ FdReturns \/ FdsDone
    \/ (\E e \in Ev : RunTimer(e)) \/ TimerReturns \/ TimersDone
    \/ TickReturns

(* The other end of a file.  Whether it is ready matters to ppoll() alone, *)
(* so that it may as well change then.                                     *)
Environment(f) ==
    /\ phase = "poll"
    /\ ready' = IF f \in ready THEN ready \ {f} ELSE ready \cup {f}
    /\ UNCHANGED <<p, phase, slot, ops, polled>>

Next ==
    \/ \E o \in TimerPtrs, period \in Periods : SetTimer(o, period)
    \/ \E o \in FdPtrs : AddFd(o)
    \/ \E o \in Ptrs : Unset(o) \/ Toggle(o)
    \/ SkipWait \/ Stop
    \/ Loop
    \/ \E f \in Files : Environment(f)

(* The loop goes on, and ppoll() returns when it has something to report,  *)
(* but a signal may never come; and the clock runs, so that ppoll() does   *)
(* not forever return at once while timers wait.                           *)
TimePasses ==
    \/ Timeout
    \/ phase = "poll" /\ \E d \in 1 .. MaxLate : Returned(d) /\ (p.skip \/ polled' # {})

Fairness ==
    /\ WF_vars(Loop /\ (Interrupted => p.skip))
    /\ SF_vars(TimePasses)

Spec == Init /\ [][Next]_vars /\ Fairness
----------------------------------------------------------------------------
Kinds == {"free", "timer", "fd"}

TypeOK ==
    /\ p.kind \in [Ev -> Kinds]
    /\ p.off \subseteq Ev
    /\ p.pptr \in [Ev -> Ptrs \cup {NoPtr}]
    /\ p.ptr \in [Ptrs -> Ev \cup {Null}]
    /\ p.current \in Ev \cup {Null}
    /\ DOMAIN p.due \subseteq Ev
    /\ Range(p.freeSlots) \subseteq DOMAIN p.pollfd
    /\ phase \in {"poll", "fds", "timers", "tick", "stopped"}
    /\ slot \in 0 .. Len(p.pollfd) + 1
    /\ ops \in 0 .. MaxOps + TickOps

(* The client's pointers and the events belong together: no pointer is     *)
(* left to an event that was freed or reused (poller_remove() of an event  *)
(* that has fired, or of the one whose callback runs), and no event stays  *)
(* registered that no pointer reaches.                                     *)
Owned ==
    /\ \A o \in Ptrs : IsSet(p, o) =>
         /\ p.kind[p.ptr[o]] = IF o \in FdPtrs THEN "fd" ELSE "timer"
         /\ p.pptr[p.ptr[o]] = o
    /\ \A e \in Ev : p.kind[e] # "free" =>
         \/ p.pptr[e] \in Ptrs /\ p.ptr[p.pptr[e]] = e
         \/ e = p.current /\ p.delete

(* The assertions of poller.c hold, and it does not die(): a timer is not  *)
(* inserted twice, the event a descriptor or a timer belongs to is of that *)
(* kind, no event is used after it was freed.                              *)
NoFailure == ~ p.failed

(* A timer is in the heap exactly when it is enabled and its callback does *)
(* not run; whatever was done to it, it can neither fire while disabled    *)
(* nor be forgotten while enabled.                                         *)
ArmedExact ==
    \A e \in Ev :
        e \in DOMAIN p.due <=> p.kind[e] = "timer" /\ poller_is_enabled(p, e) /\ e # p.current

(* The free list of pollfd_array holds each slot without an event once, an *)
(* event has one slot, and ppoll() looks at it when the event is enabled.  *)
SlotsExact ==
    LET free == {i \in DOMAIN p.pollfd : p.pollfd[i].evt = Null}
    IN /\ Range(p.freeSlots) = free
       /\ \A i, j \in DOMAIN p.freeSlots : p.freeSlots[i] = p.freeSlots[j] => i = j
       /\ \A e \in Ev : p.kind[e] = "fd" =>
            \E i \in DOMAIN p.pollfd :
                /\ {j \in DOMAIN p.pollfd : p.pollfd[j].evt = e} = {i}
                /\ p.pollfd[i].on <=> poller_is_enabled(p, e)
       /\ \A i \in free : ~ p.pollfd[i].on

(* A callback gets the events of its own file: not those of another one    *)
(* that had the same slot when ppoll() returned and was removed by an      *)
(* earlier callback, nor those of an earlier ppoll().                      *)
OwnEvents ==
    phase = "fds" =>
        \A i \in DOMAIN p.pollfd : i >= slot /\ HasEvents(p, i) => i \in polled

(* What the client does with its pointers, from whatever callback and in   *)
(* whatever order, reaches the events they stand for and no others.        *)
EventsRight == TypeOK /\ Owned /\ NoFailure /\ ArmedExact /\ SlotsExact /\ OwnEvents

(* The callback of an enabled descriptor whose file is ready runs, unless  *)
(* that changes.                                                           *)
Waiting(o) == IsSet(p, o) /\ poller_is_enabled(p, p.ptr[o]) /\ FileOf[o] \in ready
Running(o) == IsSet(p, o) /\ p.ptr[o] = p.current

FdServed == \A o \in FdPtrs : Waiting(o) ~> ~ Waiting(o) \/ Running(o) \/ p.stop

(* A timer that nobody arms anew fires, however busy the descriptors are.  *)
TimersFire ==
    (<>[][~ \E o \in TimerPtrs, period \in Periods : SetTimer(o, period)]_vars)
        => \A e \in Ev : e \in DOMAIN p.due ~> e \notin DOMAIN p.due \/ p.stop
=============================================================================
