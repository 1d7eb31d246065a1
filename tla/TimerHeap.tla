----------------------------- MODULE TimerHeap -----------------------------
(***************************************************************************)
(* poller.c, the timer heap: an array `heap' of timers in which a parent   *)
(* is never due after its children, with the position of each timer kept   *)
(* in the timer itself (`index', -1 when it is not in the heap), so that   *)
(* any timer can be removed.  One action for each iteration of the loops   *)
(* heap_sift_up() and heap_sift_down(): the element that moves is at `at', *)
(* and it is the only one whose `index' is not up to date.                 *)
(***************************************************************************)
EXTENDS Integers

CONSTANTS Timers, Periods, Slack, Horizon,
          MaxTimers,   (* bound on timer_heap_size: the array grows on demand *)
          None         (* not a timer                                         *)

ASSUME TimerHeapAssumption ==
    /\ Periods \subseteq Nat
    /\ Slack \in Nat
    /\ Horizon \in Nat
    /\ MaxTimers \in Nat
    /\ None \notin Timers

VARIABLES heap,      (* timer_heap                                            *)
          size,      (* timer_heap_size                                       *)
          index,     (* evt->timer.index                                      *)
          current,   (* evt->timer.current, when the timer is due             *)
          now,       (* poller.now                                            *)
          pc,        (* "idle", or the loop that is running: "up", "down"     *)
          at,        (* where the loop is                                     *)
          removing,  (* the timer heap_remove() is about, None in heap_insert() *)
          firing     (* the timer that is poller.current_event                *)

vars == <<heap, size, index, current, now, pc, at, removing, firing>>

Places == 0 .. MaxTimers - 1

Parent(i) == (i - 1) \div 2

heap_leq(a, b) == current[heap[a]] <= current[heap[b]]

(* heap with the elements at a and b exchanged (SWAP) *)
Swapped(a, b) == [heap EXCEPT ![a] = heap[b], ![b] = heap[a]]

Init ==
    /\ heap = [i \in Places |-> None]
    /\ size = 0
    /\ index = [t \in Timers |-> -1]
    /\ current = [t \in Timers |-> 0]
    /\ now = 0
    /\ pc = "idle"
    /\ at = 0
    /\ removing = None
    /\ firing = None

(* heap_insert(), up to the loop *)
StartInsert(t, period) ==
    /\ pc = "idle"
    /\ index[t] = -1
    /\ size < MaxTimers
    /\ current' = [current EXCEPT ![t] = now + period]
    /\ heap' = [heap EXCEPT ![size] = t]
    /\ size' = size + 1
    /\ at' = size
    /\ pc' = "up"
    /\ removing' = None
    /\ UNCHANGED <<index, now>>

(* Mutant: the element that takes the place only moves down. *)
StartRemove_down(t) ==
    /\ pc = "idle"
    /\ index[t] # -1
    /\ heap' = Swapped(size - 1, index[t])
    /\ size' = size - 1
    /\ at' = index[t]
    /\ pc' = "down"
    /\ removing' = t
    /\ UNCHANGED <<index, current, now>>

(* heap_remove(), up to the loops: the last element takes the place of t *)
StartRemove(t) ==
    /\ pc = "idle"
    /\ index[t] # -1
    /\ heap' = Swapped(size - 1, index[t])
    /\ size' = size - 1
    /\ at' = index[t]
    /\ pc' = "up"
    /\ removing' = t
    /\ UNCHANGED <<index, current, now>>

(* poller_add_timer(): the event is not one that is still in use *)
Add(t, period) ==
    /\ t # firing
    /\ StartInsert(t, period)
    /\ UNCHANGED firing

(* poller_remove() of a timer that is not the current event *)
Remove(t) ==
    /\ t # firing
    /\ StartRemove(t)
    /\ UNCHANGED firing

(* The loop of poller_run() over the timers that are due. *)
FireFirst ==
    /\ firing = None
    /\ size > 0
    /\ current[heap[0]] < now + Slack
    /\ StartRemove(heap[0])
    /\ firing' = heap[0]

(* Its callback returned, false or true. *)
Done ==
    /\ pc = "idle"
    /\ firing # None
    /\ firing' = None
    /\ UNCHANGED <<heap, size, index, current, now, pc, at, removing>>

Requeue(period) ==
    /\ firing # None
    /\ StartInsert(firing, period)
    /\ firing' = None

(* heap_sift_up(), an iteration, and its end *)
SiftUp ==
    /\ pc = "up"
    /\ at > 0
    /\ ~ heap_leq(Parent(at), at)
    /\ index' = [index EXCEPT ![heap[Parent(at)]] = at]
    /\ heap' = Swapped(Parent(at), at)
    /\ at' = Parent(at)
    /\ UNCHANGED <<size, current, now, pc, removing, firing>>

SiftUpEnds ==
    /\ pc = "up"
    /\ at > 0 => heap_leq(Parent(at), at)
    /\ IF removing = None
       THEN pc' = "idle" /\ index' = [index EXCEPT ![heap[at]] = at]
       ELSE pc' = "down" /\ UNCHANGED index
    /\ UNCHANGED <<heap, size, current, now, at, removing, firing>>

(* Mutant: the right child is not looked at. *)
SmallerChild_left(i) == 2 * i + 1

(* heap_sift_down(), an iteration, and its end *)
SmallerChild(i) ==
    IF 2 * i + 2 < size /\ ~ heap_leq(2 * i + 1, 2 * i + 2) THEN 2 * i + 2 ELSE 2 * i + 1

SiftDown ==
    /\ pc = "down"
    /\ 2 * at + 1 < size
    /\ ~ heap_leq(at, SmallerChild(at))
    /\ index' = [index EXCEPT ![heap[SmallerChild(at)]] = at]
    /\ heap' = Swapped(SmallerChild(at), at)
    /\ at' = SmallerChild(at)
    /\ UNCHANGED <<size, current, now, pc, removing, firing>>

SiftDownEnds ==
    /\ pc = "down"
    /\ 2 * at + 1 < size => heap_leq(at, SmallerChild(at))
    /\ index' = [index EXCEPT ![heap[at]] = at, ![removing] = -1]
    /\ pc' = "idle"
    /\ removing' = None
    /\ UNCHANGED <<heap, size, current, now, at, firing>>

Advance ==
    /\ pc = "idle"
    /\ firing = None
    /\ now < Horizon
    /\ now' = now + 1
    /\ UNCHANGED <<heap, size, index, current, pc, at, removing, firing>>

Next ==
    \/ \E t \in Timers, period \in Periods : Add(t, period)
    \/ \E t \in Timers : Remove(t)
    \/ FireFirst \/ Done
    \/ \E period \in Periods : Requeue(period)
    \/ SiftUp \/ SiftUpEnds
    \/ SiftDown \/ SiftDownEnds
    \/ Advance

Spec == Init /\ [][Next]_vars

----------------------------------------------------------------------------
InHeap == 0 .. size - 1

Armed == {heap[i] : i \in InHeap}

TypeOK ==
    /\ heap \in [Places -> Timers \cup {None}]
    /\ size \in 0 .. MaxTimers
    /\ index \in [Timers -> {-1} \cup Places]
    /\ current \in [Timers -> Nat]
    /\ now \in Nat
    /\ pc \in {"idle", "up", "down"}
    /\ at \in Nat
    /\ removing \in Timers \cup {None}
    /\ firing \in Timers \cup {None}

(* Between operations no timer is due before its parent in the heap, so    *)
(* that poller_run() has to look at the first one alone.                   *)
HeapOrdered ==
    pc = "idle" => \A i \in InHeap : i > 0 => heap_leq(Parent(i), i)

(* Between operations every timer knows where it is: heap_remove() takes   *)
(* the right element out, and the assertion of heap_insert() (index == -1) *)
(* means that the timer is in no place of the heap.                        *)
IndexExact ==
    pc = "idle" =>
        /\ \A i \in InHeap : heap[i] \in Timers /\ index[heap[i]] = i
        /\ \A t \in Timers \ Armed : index[t] = -1

(* poller_run() fires the first timer and heap_remove() takes out the one  *)
(* that it is asked to.                                                    *)
HeapRight == TypeOK /\ HeapOrdered /\ IndexExact

(* The heap behaves as a set of timers that fire in the order in which     *)
(* they are due.                                                           *)
Abstract == INSTANCE TimerSet WITH due <- [t \in Armed |-> current[t]]

Implements == Abstract!Spec
=============================================================================
