---------------------------- MODULE PollerProofs ----------------------------
(***************************************************************************)
(* Proofs about poller_run() with an arbitrary client, for any number of   *)
(* events, pointers, files and slots: EventsRight.                         *)
(*                                                                         *)
(* Consistent (EventsProofs) is kept by every operation.  Current says     *)
(* what can be the current event in each phase of the loop, and Fresh that *)
(* a slot the loop has still to look at has only events of the last        *)
(* ppoll(), for the event it belonged to then, disabled ones included.     *)
(***************************************************************************)
EXTENDS Poller, EventsProofs

PtrKinds == \A o \in Ptrs : p.ptr[o] # Null =>
    p.kind[p.ptr[o]] = IF o \in FdPtrs THEN "fd" ELSE "timer"

Current ==
    p.current # Null =>
        \/ phase = "fds" /\ p.kind[p.current] = "fd" /\ slot \in DOMAIN p.pollfd
        \/ phase = "timers" /\ p.kind[p.current] = "timer" /\ p.current \notin p.off

Fresh == phase = "fds" => \A i \in DOMAIN p.pollfd : i >= slot /\ Pending(p, i) => i \in polled

Control ==
    /\ phase \in {"poll", "fds", "timers", "tick", "stopped"}
    /\ slot \in 0 .. Len(p.pollfd) + 1
    /\ ops \in 0 .. MaxOps + TickOps

IInv ==
    /\ Consistent(p, p.current, p.delete)
    /\ PtrKinds
    /\ Current
    /\ Fresh
    /\ Control

----------------------------------------------------------------------------

(* The poller starts consistent. *)
LEMMA InitOK == Init => IInv
<1> SUFFICES ASSUME Init PROVE IInv
  OBVIOUS
<1>1. p.current = Null /\ p.delete = FALSE /\ Len(p.pollfd) \in Nat
  <2>1. p.current = Null /\ p.delete = FALSE
    BY DEF Init, EmptyPoller
  <2>2. IsSeq(p.pollfd)
    BY EmptyOK DEF Init, Consistent, Shape, Form
  <2> QED BY <2>1, <2>2, IsSeqFacts
<1>2. Consistent(p, p.current, p.delete)
  BY <1>1, EmptyOK DEF Init
<1>3. PtrKinds /\ Current
  BY <1>1 DEF Init, EmptyPoller, PtrKinds, Current
<1>4. Fresh /\ Control
  BY <1>1, PollerAssumption DEF Init, Fresh, Control
<1> QED BY <1>2, <1>3, <1>4 DEF IInv

(* What is known of the array of descriptors in every state                *)
LEMMA ArrayFacts ==
    ASSUME IInv
    PROVE  /\ Len(p.pollfd) \in Nat /\ DOMAIN p.pollfd = 1 .. Len(p.pollfd)
           /\ p.current \in Ev \cup {Null} /\ p.delete \in BOOLEAN
           /\ slot \in Nat
<1>1. IsSeq(p.pollfd)
  BY DEF IInv, Consistent, Shape, Form
<1>2. Len(p.pollfd) \in Nat /\ DOMAIN p.pollfd = 1 .. Len(p.pollfd)
  BY <1>1, IsSeqFacts
<1> QED BY <1>2 DEF IInv, Consistent, Shape, Form, Control

(* A step of the client keeps the invariant when the operation keeps the   *)
(* poller consistent, gives its pointers events of their kind and takes    *)
(* out of polled only slots whose events nobody gets any more.             *)
LEMMA ClientStep ==
    ASSUME IInv, Client, NEW O, Consistent(p', p'.current, p'.delete), Keeps(p, p', O),
           \A o \in Ptrs \cap O : p'.ptr[o] # Null =>
               p'.kind[p'.ptr[o]] = IF o \in FdPtrs THEN "fd" ELSE "timer",
           \A i : Pending(p', i) /\ i \in polled => i \in polled'
    PROVE  IInv'
<1>1. phase' = phase /\ slot' = slot /\ ops > 0 /\ ops' = ops - 1
  BY DEF Client
<1>2. /\ Len(p.pollfd) \in Nat /\ DOMAIN p.pollfd = 1 .. Len(p.pollfd)
      /\ p.current \in Ev \cup {Null} /\ slot \in Nat
  BY ArrayFacts
<1>3. Len(p'.pollfd) \in Nat /\ DOMAIN p'.pollfd = 1 .. Len(p'.pollfd)
  <2>1. IsSeq(p'.pollfd)
    BY DEF Consistent, Shape, Form
  <2> QED BY <2>1, IsSeqFacts
<1>4. /\ p'.current = p.current /\ Len(p.pollfd) <= Len(p'.pollfd)
      /\ p.current # Null =>
           /\ p'.kind[p.current] = p.kind[p.current]
           /\ p.kind[p.current] = "timer" => (p.current \in p'.off <=> p.current \in p.off)
  BY DEF Keeps
<1>5. PtrKinds'
  BY DEF IInv, PtrKinds, Keeps
<1>6. Current'
  BY <1>1, <1>2, <1>3, <1>4 DEF IInv, Current
<1>7. Fresh'
  <2> SUFFICES ASSUME phase' = "fds", NEW i \in DOMAIN p'.pollfd, i >= slot', Pending(p', i)
               PROVE  i \in polled'
    BY DEF Fresh
  <2>1. Pending(p, i) /\ i \in DOMAIN p.pollfd
    BY DEF Keeps, Pending
  <2> QED BY <1>1, <2>1 DEF IInv, Fresh
<1>8. Control'
  BY <1>1, <1>2, <1>3, <1>4, PollerAssumption DEF IInv, Control
<1> QED BY <1>5, <1>6, <1>7, <1>8 DEF IInv

(* A client that sets a timer, replacing the one it had. *)
LEMMA SetTimerKeeps ==
    ASSUME IInv, NEW o \in TimerPtrs, NEW period \in Periods, SetTimer(o, period)
    PROVE  IInv'
<1>1. o \in Ptrs /\ o \notin FdPtrs
  BY PollerAssumption
<1>2. /\ Consistent(p', p'.current, p'.delete)
      /\ Keeps(p, p', {o})
      /\ p'.ptr[o] \in Ev /\ p'.kind[p'.ptr[o]] = "timer"
  BY <1>1, SetTimerOK DEF SetTimer, IInv
<1>3. Client /\ polled' = polled
  BY DEF SetTimer
<1> QED BY <1>1, <1>2, <1>3, ClientStep

(* A client that adds a descriptor. *)
LEMMA AddFdKeeps ==
    ASSUME IInv, NEW o \in FdPtrs, AddFd(o)
    PROVE  IInv'
<1>1. o \in Ptrs
  BY PollerAssumption
<1>2. /\ ~ IsSet(p, o) /\ CanAlloc(p)
      /\ p' = WithAutoreset(poller_add_fd(p, "fd", FileOf[o], {"in"}), alloc_event(p), o)
  BY DEF AddFd, WithAutoreset
<1>3. /\ Consistent(p', p'.current, p'.delete)
      /\ Keeps(p, p', {o})
      /\ p'.ptr[o] \in Ev /\ p'.kind[p'.ptr[o]] = "fd"
  BY <1>1, <1>2, AddFdOK DEF IInv
<1>4. Client /\ polled' = polled
  BY DEF AddFd
<1> QED BY <1>3, <1>4, ClientStep

(* A client that removes an event. *)
LEMMA UnsetKeeps ==
    ASSUME IInv, NEW o \in Ptrs, Unset(o)
    PROVE  IInv'
<1>1. Client /\ IsSet(p, o) /\ p' = poller_unset(p, o)
  BY DEF Unset
<1>2. /\ Consistent(p', p'.current, p'.delete)
      /\ Keeps(p, p', {})
      /\ p.ptr[o] # p.current /\ p.kind[p.ptr[o]] = "fd" =>
           p'.pollfd[SlotOf(p, p.ptr[o])].evt = Null
  BY <1>1, UnsetOK DEF IInv
<1>3. \A i : Pending(p', i) /\ i \in polled => i \in polled'
  <2>1. CASE o \in FdPtrs /\ p.ptr[o] # p.current
    <3>1. p.kind[p.ptr[o]] = "fd"
      BY <1>1, <2>1 DEF IInv, PtrKinds, IsSet
    <3>2. polled' = polled \ {SlotOf(p, p.ptr[o])}
      BY <2>1 DEF Unset
    <3> QED BY <1>2, <2>1, <3>1, <3>2 DEF Pending
  <2>2. CASE ~ (o \in FdPtrs /\ p.ptr[o] # p.current)
    BY <2>2 DEF Unset
  <2> QED BY <2>1, <2>2
<1> QED BY <1>1, <1>2, <1>3, ClientStep

(* A client that enables or disables an event. *)
LEMMA ToggleKeeps ==
    ASSUME IInv, NEW o \in Ptrs, Toggle(o)
    PROVE  IInv'
<1> DEFINE e == p.ptr[o]
           enable == ~ poller_is_enabled(p, e)
<1>1. Client /\ IsSet(p, o) /\ p' = poller_toggle(p, e, enable) /\ polled' = polled
  BY DEF Toggle
<1>2. e \in Ev /\ p.kind[e] = IF o \in FdPtrs THEN "fd" ELSE "timer"
  BY <1>1 DEF IInv, Consistent, Shape, Form, PtrKinds, IsSet
<1>3. p.kind[e] = "timer" => e # p.current
  BY <1>2, PollerAssumption DEF Toggle
<1>4. enable \in BOOLEAN
  OBVIOUS
<1>5. p.kind[e] # "free"
  BY <1>2
<1> HIDE DEF e, enable
<1>6. Consistent(p', p'.current, p'.delete) /\ Keeps(p, p', {})
  BY <1>1, <1>2, <1>3, <1>4, <1>5, ToggleOK DEF IInv
<1> QED BY <1>1, <1>6, ClientStep

(* poller_skip_wait() and poller_stop() set a field that no other          *)
(* operation tells from another one.                                       *)
LEMMA FieldKeeps ==
    ASSUME IInv, SkipWait \/ Stop
    PROVE  IInv'
<1>1. /\ DOMAIN p' = DOMAIN p
      /\ p'.kind = p.kind /\ p'.off = p.off /\ p'.ptr = p.ptr /\ p'.pptr = p.pptr /\ p'.due = p.due
      /\ p'.pollfd = p.pollfd /\ p'.freeSlots = p.freeSlots
      /\ p'.current = p.current /\ p'.delete = p.delete /\ p'.failed = p.failed
  BY DEF SkipWait, Stop, poller_skip_wait, poller_stop, IInv, Consistent, Shape, Form, Fields
<1>2. Client /\ polled' = polled
  BY DEF SkipWait, Stop
<1>3. Consistent(p', p'.current, p'.delete)
  <2>1. Shape(p')
    BY <1>1 DEF IInv, Consistent, Shape, Form
  <2>2. Pointers(p', p'.current, p'.delete) /\ Heap(p', p'.current)
    BY <1>1 DEF IInv, Consistent, Pointers, Heap
  <2>3. Slots(p') /\ FreeSlots(p')
    BY <1>1 DEF IInv, Consistent, Slots, FreeSlots
  <2> QED BY <2>1, <2>2, <2>3 DEF Consistent
<1>4. Len(p.pollfd) \in Nat
  BY ArrayFacts
<1>5. Keeps(p, p', {})
  BY <1>1, <1>4 DEF Keeps, Pending
<1> QED BY <1>2, <1>3, <1>5, ClientStep

----------------------------------------------------------------------------
(* ppoll() returns: what is pending then has events of this ppoll().       *)
LEMMA ReturnedKeeps ==
    ASSUME IInv, phase = "poll", NEW d, Returned(d)
    PROVE  IInv'
<1>1. p.current = Null
  BY DEF IInv, Current
<1>2. /\ p' = Polled(p, Ready, d)
      /\ polled' = {i \in DOMAIN p'.pollfd : HasEvents(p', i)}
      /\ phase' = "fds" /\ slot' = 1 /\ ops' = ops
  BY DEF Returned
<1>3. /\ Consistent(p', p.current, p.delete)
      /\ p'.current = p.current /\ p'.delete = p.delete
      /\ p'.kind = p.kind /\ p'.ptr = p.ptr
      /\ Len(p'.pollfd) = Len(p.pollfd)
      /\ \A i : Pending(p', i) => i \in DOMAIN p'.pollfd /\ HasEvents(p', i)
  BY <1>2, PolledOK DEF IInv
<1>4. PtrKinds'
  BY <1>3 DEF IInv, PtrKinds
<1>5. Current'
  BY <1>1, <1>3 DEF Current
<1>6. Fresh'
  BY <1>2, <1>3 DEF Fresh
<1>7. Control'
  BY <1>2, <1>3, ArrayFacts DEF IInv, Control
<1> QED BY <1>3, <1>4, <1>5, <1>6, <1>7 DEF IInv

(* The callback of a descriptor starts. *)
LEMMA RunFdKeeps ==
    ASSUME IInv, NEW i \in DOMAIN p.pollfd, RunFd(i)
    PROVE  IInv'
<1>1. /\ phase = "fds" /\ phase' = "fds" /\ p.current = Null /\ HasEvents(p, i)
      /\ i \in slot .. Len(p.pollfd) /\ slot' = i /\ ops' = MaxOps
      /\ p' = StartFd(p, i) /\ polled' = polled
  BY DEF RunFd
<1>2. /\ Consistent(p', p'.current, p'.delete)
      /\ p'.current \in Ev /\ p'.kind[p'.current] = "fd"
      /\ p'.kind = p.kind /\ p'.ptr = p.ptr /\ p'.pollfd = p.pollfd
  BY <1>1, StartFdOK DEF IInv
<1>3. PtrKinds'
  BY <1>2 DEF IInv, PtrKinds
<1>4. Current'
  BY <1>1, <1>2 DEF Current
<1>5. Fresh'
  <2> SUFFICES ASSUME NEW j \in DOMAIN p'.pollfd, j >= slot', Pending(p', j)
               PROVE  j \in polled'
    BY DEF Fresh
  <2>1. Pending(p, j) /\ j \in DOMAIN p.pollfd /\ j >= slot
    BY <1>1, <1>2, ArrayFacts DEF Pending
  <2> QED BY <1>1, <2>1 DEF IInv, Fresh
<1>6. Control'
  BY <1>1, <1>2, ArrayFacts, PollerAssumption DEF IInv, Control
<1> QED BY <1>2, <1>3, <1>4, <1>5, <1>6 DEF IInv

(* It returns, and its event is freed if it was removed meanwhile. *)
LEMMA FdReturnsKeeps ==
    ASSUME IInv, FdReturns
    PROVE  IInv'
<1>1. /\ phase = "fds" /\ phase' = "fds" /\ p.current # Null
      /\ p' = EndFd(p, slot) /\ slot' = slot + 1 /\ polled' = polled \ {slot} /\ ops' = 0
  BY DEF FdReturns
<1>2. p.kind[p.current] = "fd" /\ slot \in DOMAIN p.pollfd
  BY <1>1 DEF IInv, Current
<1>3. Consistent(p', p'.current, p'.delete) /\ Ends(p, p')
  BY <1>1, <1>2, EndFdOK DEF IInv
<1>4. PtrKinds'
  BY <1>3 DEF IInv, PtrKinds, Ends
<1>5. Current'
  BY <1>3 DEF Current, Ends
<1>6. Fresh'
  <2> SUFFICES ASSUME NEW j \in DOMAIN p'.pollfd, j >= slot', Pending(p', j)
               PROVE  j \in polled'
    BY DEF Fresh
  <2>1. Pending(p, j) /\ j \in DOMAIN p.pollfd
    BY <1>3 DEF Ends, Pending
  <2>2. j >= slot /\ j # slot
    BY <1>1, <2>1, ArrayFacts
  <2> QED BY <1>1, <2>1, <2>2 DEF IInv, Fresh
<1>7. Control'
  BY <1>1, <1>2, <1>3, ArrayFacts, PollerAssumption DEF IInv, Control, Ends
<1> QED BY <1>3, <1>4, <1>5, <1>6, <1>7 DEF IInv

(* The callback of a timer starts; the timer is out of the heap. *)
LEMMA RunTimerKeeps ==
    ASSUME IInv, NEW e \in Ev, RunTimer(e)
    PROVE  IInv'
<1>1. /\ phase = "timers" /\ phase' = "timers" /\ p.current = Null
      /\ e \in DOMAIN p.due /\ p' = StartTimer(p, e)
      /\ slot' = slot /\ ops' = MaxOps
  BY DEF RunTimer, Due, Earliest
<1>2. /\ Consistent(p', p'.current, p'.delete)
      /\ p'.current = e /\ p'.kind[e] = "timer" /\ e \notin p'.off
      /\ p'.kind = p.kind /\ p'.ptr = p.ptr /\ p'.pollfd = p.pollfd
  BY <1>1, StartTimerOK DEF IInv
<1>3. PtrKinds'
  BY <1>2 DEF IInv, PtrKinds
<1>4. Current' /\ Fresh'
  BY <1>1, <1>2 DEF Current, Fresh
<1>5. Control'
  BY <1>1, <1>2, PollerAssumption DEF IInv, Control
<1> QED BY <1>2, <1>3, <1>4, <1>5 DEF IInv

(* It returns, and the timer is armed again, freed or left. *)
LEMMA TimerReturnsKeeps ==
    ASSUME IInv, TimerReturns
    PROVE  IInv'
<1>1. /\ phase = "timers" /\ phase' = "timers" /\ p.current # Null
      /\ slot' = slot /\ ops' = 0
  BY DEF TimerReturns
<1>2. PICK requeue \in BOOLEAN : p' = EndTimer(p, requeue)
  BY DEF TimerReturns
<1>3. p.kind[p.current] = "timer" /\ p.current \notin p.off
  BY <1>1 DEF IInv, Current
<1>4. Consistent(p', p'.current, p'.delete) /\ Ends(p, p')
  BY <1>1, <1>2, <1>3, EndTimerOK DEF IInv
<1>5. PtrKinds'
  BY <1>4 DEF IInv, PtrKinds, Ends
<1>6. Current' /\ Fresh'
  BY <1>1, <1>4 DEF Current, Fresh, Ends
<1>7. Control'
  BY <1>1, <1>4, PollerAssumption DEF IInv, Control, Ends
<1> QED BY <1>4, <1>5, <1>6, <1>7 DEF IInv

(* The steps from one phase to the next one leave the poller as it is.     *)
LEMMA PhaseKeeps ==
    ASSUME IInv, FdsDone \/ TimersDone \/ TickReturns \/ (\E f \in Files : Environment(f))
                 \/ UNCHANGED vars
    PROVE  IInv'
<1>1. p' = p
  BY DEF FdsDone, TimersDone, TickReturns, Environment, vars
<1>2. Consistent(p', p'.current, p'.delete) /\ PtrKinds'
  BY <1>1 DEF IInv, PtrKinds
<1>3. Current' /\ Fresh'
  <2>1. CASE FdsDone \/ TimersDone \/ TickReturns
    BY <1>1, <2>1 DEF IInv, FdsDone, TimersDone, TickReturns, Current, Fresh
  <2>2. CASE (\E f \in Files : Environment(f)) \/ UNCHANGED vars
    BY <1>1, <2>2 DEF IInv, Environment, vars, Current, Fresh
  <2> QED BY <2>1, <2>2
<1>4. Control'
  <2>1. Len(p.pollfd) \in Nat
    BY ArrayFacts
  <2>2. CASE FdsDone \/ TimersDone \/ TickReturns
    BY <1>1, <2>1, <2>2, PollerAssumption DEF IInv, FdsDone, TimersDone, TickReturns, Control
  <2>3. CASE (\E f \in Files : Environment(f)) \/ UNCHANGED vars
    BY <1>1, <2>3 DEF IInv, Environment, vars, Control
  <2> QED BY <2>2, <2>3
<1> QED BY <1>2, <1>3, <1>4 DEF IInv

(* Every step keeps the invariant. *)
LEMMA NextOK == IInv /\ [Next]_vars => IInv'
<1> SUFFICES ASSUME IInv, [Next]_vars PROVE IInv'
  OBVIOUS
<1>1. CASE \E o \in TimerPtrs, period \in Periods : SetTimer(o, period)
  BY <1>1, SetTimerKeeps
<1>2. CASE \E o \in FdPtrs : AddFd(o)
  BY <1>2, AddFdKeeps
<1>3. CASE \E o \in Ptrs : Unset(o) \/ Toggle(o)
  BY <1>3, UnsetKeeps, ToggleKeeps
<1>4. CASE SkipWait \/ Stop
  BY <1>4, FieldKeeps
<1>5. CASE Poll \/ Timeout \/ Skipped \/ Interrupted
  BY <1>5, ReturnedKeeps DEF Poll, Timeout, Skipped, Interrupted
<1>6. CASE \E i \in DOMAIN p.pollfd : RunFd(i)
  BY <1>6, RunFdKeeps
<1>7. CASE FdReturns
  BY <1>7, FdReturnsKeeps
<1>8. CASE \E e \in Ev : RunTimer(e)
  BY <1>8, RunTimerKeeps
<1>9. CASE TimerReturns
  BY <1>9, TimerReturnsKeeps
<1>10. CASE FdsDone \/ TimersDone \/ TickReturns \/ (\E f \in Files : Environment(f))
            \/ UNCHANGED vars
  BY <1>10, PhaseKeeps
<1> QED BY <1>1, <1>2, <1>3, <1>4, <1>5, <1>6, <1>7, <1>8, <1>9, <1>10 DEF Next, Loop

(* The invariant of poller_run(): whatever the client does, from whatever  *)
(* callback, pointers, events, heap, slots and free list stay consistent,  *)
(* and what the loop has still to look at belongs to the last ppoll().     *)
THEOREM Inductive == Spec => []IInv
BY InitOK, NextOK, PTL DEF Spec

----------------------------------------------------------------------------

(* What the invariant implies: the types, *)
LEMMA TypesFollow == IInv => TypeOK
<1> SUFFICES ASSUME IInv PROVE TypeOK
  OBVIOUS
<1>1. /\ p.kind \in [Ev -> Kinds] /\ p.off \subseteq Ev
      /\ p.pptr \in [Ev -> Ptrs \cup {NoPtr}] /\ p.ptr \in [Ptrs -> Ev \cup {Null}]
      /\ p.current \in Ev \cup {Null} /\ DOMAIN p.due \subseteq Ev
  BY DEF IInv, Consistent, Shape, Form, EventKinds, Kinds
<1>2. Range(p.freeSlots) \subseteq DOMAIN p.pollfd
  BY DEF IInv, Consistent, FreeSlots, Range
<1> QED BY <1>1, <1>2 DEF IInv, Control, TypeOK

(* the correspondence of events with pointers and with the heap, *)
LEMMA OwnedFollows == IInv => Owned /\ NoFailure /\ ArmedExact
<1> SUFFICES ASSUME IInv PROVE Owned /\ NoFailure /\ ArmedExact
  OBVIOUS
<1>1. Owned
  BY DEF IInv, Consistent, Pointers, PtrKinds, Owned, IsSet
<1>2. NoFailure
  BY DEF IInv, Consistent, Shape, Form, NoFailure
<1>3. ArmedExact
  BY EventsAssumption DEF IInv, Consistent, Heap, ArmedExact, poller_is_enabled
<1> QED BY <1>1, <1>2, <1>3

(* that of events with slots and the free list, *)
LEMMA SlotsFollow == IInv => SlotsExact
<1> SUFFICES ASSUME IInv PROVE SlotsExact
  OBVIOUS
<1> DEFINE free == {i \in DOMAIN p.pollfd : p.pollfd[i].evt = Null}
<1>1. Slots(p) /\ FreeSlots(p) /\ Null \notin Ev
  BY EventsAssumption DEF IInv, Consistent
<1>2. Range(p.freeSlots) = free
  BY <1>1 DEF FreeSlots, Range
<1>3. \A i, j \in DOMAIN p.freeSlots : p.freeSlots[i] = p.freeSlots[j] => i = j
  BY <1>1 DEF FreeSlots
<1>4. ASSUME NEW e \in Ev, p.kind[e] = "fd"
      PROVE  \E i \in DOMAIN p.pollfd :
                /\ {j \in DOMAIN p.pollfd : p.pollfd[j].evt = e} = {i}
                /\ p.pollfd[i].on <=> poller_is_enabled(p, e)
  <2>1. PICK i \in DOMAIN p.pollfd : p.pollfd[i].evt = e
    BY <1>1, <1>4 DEF Slots
  <2>2. \A j \in DOMAIN p.pollfd : p.pollfd[j].evt = e => j = i
    BY <1>1, <2>1 DEF Slots
  <2>3. p.pollfd[i].on <=> poller_is_enabled(p, e)
    BY <1>1, <2>1 DEF Slots, poller_is_enabled
  <2> QED BY <2>1, <2>2, <2>3
<1>5. \A i \in free : ~ p.pollfd[i].on
  BY <1>1 DEF Slots
<1> HIDE DEF free
<1>6. /\ Range(p.freeSlots) = free
      /\ \A i, j \in DOMAIN p.freeSlots : p.freeSlots[i] = p.freeSlots[j] => i = j
      /\ \A e \in Ev : p.kind[e] = "fd" =>
            \E i \in DOMAIN p.pollfd :
                /\ {j \in DOMAIN p.pollfd : p.pollfd[j].evt = e} = {i}
                /\ p.pollfd[i].on <=> poller_is_enabled(p, e)
      /\ \A i \in free : ~ p.pollfd[i].on
  BY <1>2, <1>3, <1>4, <1>5
<1> QED BY <1>6 DEF SlotsExact, free

(* and that the events of a slot are those of its event. *)
LEMMA EventsFollow == IInv => OwnEvents
<1> SUFFICES ASSUME IInv, phase = "fds", NEW i \in DOMAIN p.pollfd, i >= slot, HasEvents(p, i)
             PROVE  i \in polled
  BY DEF OwnEvents
<1>1. p.pollfd[i].evt # Null
  BY DEF IInv, Consistent, Slots, HasEvents
<1> QED BY <1>1 DEF IInv, Fresh, Pending, HasEvents

(* No pointer of a client is left to an event that was freed or reused,    *)
(* no assertion fails, a timer is armed exactly when it should be, each    *)
(* descriptor has one slot and a callback gets only events of its own      *)
(* registration, for any number of events, pointers, files and slots and   *)
(* any number of operations in a callback.                                 *)
THEOREM EventsAreRight == Spec => []EventsRight
<1>1. IInv => EventsRight
  BY TypesFollow, OwnedFollows, SlotsFollow, EventsFollow DEF EventsRight
<1> QED BY <1>1, Inductive, PTL
=============================================================================
