-------------------------- MODULE TimerHeapProofs --------------------------
(***************************************************************************)
(* Proofs about the timer heap of poller.c, for all sets of timers and     *)
(* periods and for heaps of any size: between operations it is a heap and  *)
(* every timer knows its place (HeapRight), and it behaves as a set of     *)
(* timers of which the earliest fires (Implements).                        *)
(*                                                                         *)
(* IInv is inductive. While a loop runs only the element at `at' is out of *)
(* place: Contents says that no timer is lost or in the heap twice, Places *)
(* that the others know where they are, and Order which edges of the tree  *)
(* hold then. The edges that matter are those from the parent of `at' to   *)
(* the children of `at', which become edges of the tree when it moves.     *)
(***************************************************************************)
EXTENDS TimerHeap, WellFoundedInduction, TLAPS

(* Places that hold a timer, the one that is being removed included *)
Used == IF removing = None THEN InHeap ELSE 0 .. size

(* The element that moves is in the heap, behind it when the timer that is *)
(* removed was the last.                                                   *)
Control ==
    /\ pc = "idle" => removing = None
    /\ pc = "down" => removing # None
    /\ pc # "idle" => at \in Used
    /\ removing # None => size < MaxTimers /\ heap[size] = removing

Contents ==
    /\ \A i \in Used : heap[i] \in Timers
    /\ \A i, j \in Used : heap[i] = heap[j] => i = j

Known == IF pc = "idle" THEN InHeap ELSE InHeap \ {at}

Indices ==
    /\ \A i \in Known : index[heap[i]] = i
    /\ \A t \in Timers : (\A i \in Used : heap[i] # t) => index[t] = -1

(* No timer is due before its parent, but for the edges of X *)
Leq(i) == current[heap[Parent(i)]] <= current[heap[i]]
Skips(i) == at > 0 => current[heap[Parent(at)]] <= current[heap[i]]

Order ==
    \A i \in InHeap : i > 0 =>
        /\ pc = "idle" \/ Parent(i) # at => (pc = "up" /\ i = at) \/ Leq(i)
        /\ pc # "idle" /\ Parent(i) = at => Skips(i)
        /\ pc = "up" /\ removing = None /\ Parent(i) = at => Leq(i)

(* The last timer is removed where it is. *)
Last == pc = "up" /\ at = size /\ at > 0 => Leq(at)

IInv == TypeOK /\ Control /\ Contents /\ Indices /\ Order /\ Last

----------------------------------------------------------------------------
(* The tree: where parents and children are.                               *)
LEMMA ParentOf ==
    ASSUME NEW i \in Nat, i > 0
    PROVE  /\ Parent(i) \in Nat
           /\ Parent(i) < i
           /\ i = 2 * Parent(i) + 1 \/ i = 2 * Parent(i) + 2
BY DEF Parent

(* And the parent of each of its children is that one. *)
LEMMA ChildOf ==
    ASSUME NEW i \in Nat
    PROVE  Parent(2 * i + 1) = i /\ Parent(2 * i + 2) = i
BY DEF Parent

(* The empty heap has the invariant. *)
LEMMA InitOK == Init => IInv
BY TimerHeapAssumption DEF Init, IInv, TypeOK, Control, Contents, Known, Indices, Order, Last,
   Used, InHeap, Places, Parent, Leq, Skips

(* heap_insert() starts: the new timer is behind the others.               *)
LEMMA StartInsertOK ==
    ASSUME IInv, NEW t \in Timers, NEW period \in Periods, StartInsert(t, period),
           firing' \in Timers \cup {None}
    PROVE  IInv'
<1> USE DEF StartInsert
<1>1. /\ size \in Nat /\ size < MaxTimers /\ size \in Places
      /\ InHeap = 0 .. size - 1 /\ Used = InHeap /\ Known = InHeap
      /\ Used' = InHeap' /\ Known' = InHeap
      /\ at' = size /\ size' = size + 1
  BY TimerHeapAssumption DEF IInv, TypeOK, Control, Used, Known, InHeap, Places
<1>2. TypeOK'
  BY <1>1, TimerHeapAssumption DEF IInv, TypeOK, Places
<1>3. heap'[size] = t /\ \A i \in InHeap : heap'[i] = heap[i]
  BY <1>1 DEF IInv, TypeOK, Places
<1>4. \A i \in InHeap : heap[i] \in Timers /\ index[heap[i]] = i /\ heap[i] # t
  BY <1>1 DEF IInv, Contents, Indices, InHeap
<1>5. Control'
  BY <1>1, TimerHeapAssumption DEF IInv, Control, InHeap
<1>6. Contents'
  BY <1>1, <1>3, <1>4 DEF IInv, Contents, InHeap
<1>7. Indices'
  BY <1>1, <1>3, <1>4 DEF IInv, Indices, InHeap
<1>8. Order'
  <2> SUFFICES ASSUME NEW i \in 0 .. size, i > 0
               PROVE  Parent(i) # size /\ (i = size \/ Leq(i)')
    BY <1>1 DEF Order, InHeap
  <2>1. Parent(i) \in InHeap
    BY <1>1, ParentOf DEF InHeap
  <2>2. ASSUME i # size PROVE Leq(i)'
    <3>1. i \in InHeap
      BY <1>1, <2>2 DEF InHeap
    <3>2. Leq(i)
      BY <3>1 DEF IInv, Order
    <3> QED BY <1>3, <1>4, <2>1, <3>1, <3>2 DEF Leq, IInv, TypeOK
  <2> QED BY <2>1, <2>2 DEF InHeap
<1>9. Last'
  BY <1>1 DEF Last
<1> QED BY <1>2, <1>5, <1>6, <1>7, <1>8, <1>9 DEF IInv

(* heap_remove() starts: the last timer takes the place of the one that is *)
(* removed, which stays behind the heap.                                   *)
LEMMA StartRemoveOK ==
    ASSUME IInv, NEW t \in Timers, StartRemove(t),
           firing' \in Timers \cup {None}
    PROVE  IInv'
<1> USE DEF StartRemove
<1> DEFINE p == index[t]
<1>1. /\ removing = None /\ size \in Nat /\ size <= MaxTimers /\ MaxTimers \in Nat
      /\ Used = InHeap /\ Known = InHeap
  BY TimerHeapAssumption DEF IInv, TypeOK, Control, Used, Known, InHeap
<1>2. p \in InHeap /\ heap[p] = t
  <2>1. PICK i \in InHeap : heap[i] = t
    BY <1>1 DEF IInv, Indices
  <2> QED BY <1>1, <2>1 DEF IInv, Indices
<1>3. /\ size - 1 \in InHeap /\ size' = size - 1 /\ size' \in Nat /\ size' < MaxTimers
      /\ InHeap' = 0 .. size - 2 /\ Used' = InHeap /\ Known' = InHeap' \ {p}
      /\ at' = p /\ p \in Nat
  BY <1>1, <1>2, TimerHeapAssumption DEF InHeap, Used, Known, IInv, TypeOK
<1>4. /\ heap'[size - 1] = t
      /\ p # size - 1 => heap'[p] = heap[size - 1]
      /\ \A i \in InHeap : i # p /\ i # size - 1 => heap'[i] = heap[i]
      /\ heap' \in [Places -> Timers \cup {None}]
  <2>1. /\ heap \in [Places -> Timers \cup {None}] /\ InHeap \subseteq Places
        /\ heap[size - 1] \in Timers
    BY <1>1, <1>3 DEF IInv, TypeOK, Contents, Places, InHeap
  <2>2. heap' = [heap EXCEPT ![size - 1] = heap[p], ![p] = heap[size - 1]]
    BY DEF Swapped
  <2> HIDE DEF p
  <2> QED BY <1>2, <1>3, <2>1, <2>2
<1>5. TypeOK'
  BY <1>1, <1>3, <1>4, TimerHeapAssumption DEF IInv, TypeOK
<1>6. Control'
  BY <1>2, <1>3, <1>4, TimerHeapAssumption DEF Control
<1>7. \A i \in InHeap : heap[i] \in Timers /\ index[heap[i]] = i
  BY <1>1 DEF IInv, Contents, Indices
<1>8. Contents'
  BY <1>1, <1>2, <1>3, <1>4, <1>7 DEF Contents
<1>9. Indices'
  <2>1. ASSUME NEW i \in InHeap', i # p PROVE index'[heap'[i]] = i
    BY <1>1, <1>3, <1>4, <1>7, <2>1 DEF InHeap
  <2>2. ASSUME NEW u \in Timers, \A i \in InHeap : heap'[i] # u PROVE index'[u] = -1
    <3>1. \A i \in InHeap : heap[i] # u
      BY <1>2, <1>3, <1>4, <2>2
    <3> QED BY <1>1, <3>1 DEF IInv, Indices
  <2> QED BY <1>3, <2>1, <2>2 DEF Indices
<1>10. \A i \in InHeap : i > 0 => Parent(i) \in InHeap /\ Parent(i) < i /\ Leq(i)
  BY <1>1, ParentOf DEF IInv, Order, InHeap
<1>11. \A i \in InHeap' : i \in InHeap /\ i # size - 1
  BY <1>1, <1>3 DEF InHeap
<1>12. Order'
  <2> SUFFICES ASSUME NEW i \in InHeap', i > 0
               PROVE  /\ Parent(i) # p => i = p \/ Leq(i)'
                      /\ Parent(i) = p => Skips(i)'
    BY <1>3, TimerHeapAssumption DEF Order
  <2>1. ASSUME Parent(i) # p, i # p PROVE Leq(i)'
    <3>1. Parent(i) \in InHeap /\ Parent(i) # size - 1
      BY <1>1, <1>3, <1>10, <1>11 DEF InHeap
    <3> QED BY <1>4, <1>10, <1>11, <2>1, <3>1 DEF Leq
  <2>2. ASSUME Parent(i) = p, p > 0 PROVE current[heap'[Parent(p)]] <= current[heap'[i]]
    <3>1. Leq(i) /\ Leq(p) /\ Parent(p) \in InHeap /\ Parent(p) < p /\ p < i
      BY <1>2, <1>3, <1>10, <1>11, <2>2
    <3>2. Parent(p) # size - 1 /\ i # p
      BY <1>2, <1>3, <3>1 DEF InHeap
    <3>3. heap'[Parent(p)] = heap[Parent(p)] /\ heap'[i] = heap[i]
      BY <1>3, <1>4, <1>11, <3>1, <3>2 DEF InHeap
    <3> QED BY <1>2, <1>7, <1>11, <2>2, <3>1, <3>3 DEF Leq, IInv, TypeOK
  <2> QED BY <1>3, <2>1, <2>2 DEF Skips
<1>13. Last'
  <2> SUFFICES ASSUME p = size - 1, p > 0 PROVE Leq(p)'
    BY <1>3 DEF Last
  <2>1. Leq(p) /\ Parent(p) \in InHeap /\ Parent(p) # p
    BY <1>2, <1>3, <1>10
  <2> QED BY <1>2, <1>4, <2>1 DEF Leq
<1> QED BY <1>5, <1>6, <1>8, <1>9, <1>12, <1>13 DEF IInv

(* An iteration of either loop exchanges the element that moves, at `at',  *)
(* with a timer at q which then knows its place.                           *)
LEMMA SwapKeepsPlaces ==
    ASSUME IInv, pc # "idle", NEW q \in InHeap, q # at, at \in InHeap,
           index' = [index EXCEPT ![heap[q]] = at], heap' = Swapped(q, at), at' = q,
           UNCHANGED <<size, current, now, pc, removing, firing>>
    PROVE  /\ TypeOK' /\ Control' /\ Contents' /\ Indices'
           /\ heap'[at] = heap[q] /\ heap'[q] = heap[at]
           /\ \A i \in Used : i # at /\ i # q => heap'[i] = heap[i]
<1>1. /\ size \in Nat /\ size <= MaxTimers /\ MaxTimers \in Nat /\ q \in Nat
      /\ InHeap' = InHeap /\ Used' = Used /\ Known = InHeap \ {at} /\ Known' = InHeap \ {q}
      /\ InHeap \subseteq Used /\ Used \subseteq Places
  BY TimerHeapAssumption DEF IInv, TypeOK, Control, Used, Known, InHeap, Places
<1>2. /\ heap'[at] = heap[q] /\ heap'[q] = heap[at]
      /\ \A i \in Used : i # at /\ i # q => heap'[i] = heap[i]
      /\ heap' \in [Places -> Timers \cup {None}]
  <2>1. heap[q] \in Timers /\ heap[at] \in Timers /\ heap \in [Places -> Timers \cup {None}]
    BY <1>1 DEF IInv, Contents, TypeOK
  <2> QED BY <1>1, <2>1 DEF Swapped
<1>3. \A i \in Used : heap[i] \in Timers
  BY DEF IInv, Contents
<1>4. index[heap[q]] = q /\ index' \in [Timers -> {-1} \cup Places]
      /\ index'[heap[q]] = at /\ \A t \in Timers : t # heap[q] => index'[t] = index[t]
  BY <1>1, <1>3 DEF IInv, Indices, TypeOK
<1>5. TypeOK'
  BY <1>1, <1>2, <1>4 DEF IInv, TypeOK
<1>6. Control'
  <2>1. removing # None => size # at /\ size # q /\ size \in Used
    BY <1>1 DEF InHeap, Used
  <2> QED BY <1>1, <1>2, <2>1 DEF IInv, Control
<1>7. Contents'
  BY <1>1, <1>2, <1>3 DEF IInv, Contents
<1>8. Indices'
  <2>1. ASSUME NEW i \in InHeap, i # q PROVE index'[heap'[i]] = i
    <3>1. i # at => heap[i] # heap[q] /\ index[heap[i]] = i
      BY <1>1, <2>1 DEF IInv, Indices, Contents
    <3> QED BY <1>1, <1>2, <1>3, <1>4, <2>1, <3>1
  <2>2. ASSUME NEW u \in Timers, \A i \in Used : heap'[i] # u PROVE index'[u] = -1
    <3>1. \A i \in Used : heap[i] # u
      BY <1>1, <1>2, <2>2
    <3> QED BY <1>1, <1>4, <3>1 DEF IInv, Indices
  <2> QED BY <1>1, <2>1, <2>2 DEF Indices
<1> QED BY <1>2, <1>5, <1>6, <1>7, <1>8

(* The timer moves up: its parent is not due after its other descendants.  *)
LEMMA SiftUpOK ==
    ASSUME IInv, SiftUp
    PROVE  IInv'
<1> DEFINE q == Parent(at)
<1>1. /\ size \in Nat /\ at \in Nat /\ at \in InHeap /\ q \in InHeap /\ q < at
      /\ InHeap' = InHeap /\ InHeap \subseteq Used
  <2>1. at \in Nat /\ size \in Nat /\ at \in Used /\ at # size
    BY DEF SiftUp, IInv, TypeOK, Control, Last, heap_leq, Leq
  <2> QED BY <2>1, ParentOf DEF SiftUp, InHeap, Used
<1>2. /\ TypeOK' /\ Control' /\ Contents' /\ Indices'
      /\ heap'[at] = heap[q] /\ heap'[q] = heap[at]
      /\ \A i \in Used : i # at /\ i # q => heap'[i] = heap[i]
  <2>1. /\ pc # "idle" /\ index' = [index EXCEPT ![heap[q]] = at] /\ heap' = Swapped(q, at) /\ at' = q
        /\ UNCHANGED <<size, current, now, pc, removing, firing>>
    BY DEF SiftUp
  <2>2. q # at
    BY <1>1
  <2> HIDE DEF q
  <2> QED BY <1>1, <2>1, <2>2, SwapKeepsPlaces
<1> DEFINE key(i) == current[heap[i]]
<1>3. /\ \A i \in InHeap : key(i) \in Nat
      /\ \A i \in InHeap : current'[heap'[i]] = IF i = at THEN key(q) ELSE IF i = q THEN key(at) ELSE key(i)
  BY <1>1, <1>2 DEF SiftUp, IInv, Contents, TypeOK
<1>4. key(at) < key(q)
  <2>1. ~ (key(q) <= key(at))
    BY DEF SiftUp, heap_leq
  <2>2. key(at) \in Nat /\ key(q) \in Nat
    BY <1>1, <1>3
  <2> HIDE DEF key
  <2> QED BY <2>1, <2>2
<1>5. \A i \in InHeap : i > 0 =>
        /\ Parent(i) \in InHeap /\ Parent(i) < i
        /\ Parent(i) # at /\ i # at => key(Parent(i)) <= key(i)
        /\ Parent(i) = at => key(q) <= key(i)
        /\ Parent(i) = at /\ removing = None => key(at) <= key(i)
  BY <1>1, ParentOf DEF SiftUp, IInv, Order, Leq, Skips, InHeap
<1>6. Order'
  <2>0. pc = "up" /\ pc' = "up" /\ removing' = removing /\ at' = q
    BY DEF SiftUp
  <2> HIDE DEF q
  <2> SUFFICES ASSUME NEW i \in InHeap, i > 0
               PROVE  /\ Parent(i) # q => i = q \/ Leq(i)'
                      /\ Parent(i) = q => Skips(i)' /\ Leq(i)'
    BY <1>1, <2>0 DEF Order
  <2>1. ASSUME Parent(i) # q, i # q PROVE Leq(i)'
    <3>1. CASE i = at
      BY <2>1, <3>1 DEF q
    <3>2. CASE Parent(i) = at /\ i # at
      <4>1. key(q) <= key(i)
        BY <1>5, <3>2
      <4> QED BY <1>1, <1>3, <2>1, <3>2, <4>1 DEF Leq
    <3>3. CASE Parent(i) # at /\ i # at
      <4>1. key(Parent(i)) <= key(i) /\ Parent(i) \in InHeap
        BY <1>5, <3>3
      <4> QED BY <1>3, <2>1, <3>3, <4>1 DEF Leq
    <3> QED BY <3>1, <3>2, <3>3
  <2>2. ASSUME Parent(i) = q PROVE i # q /\ Leq(i)' /\ (i # at => key(q) <= key(i))
    <3>1. i # q
      BY <1>5, <2>2, <1>1 DEF InHeap
    <3>2. i # at => key(q) <= key(i)
      BY <1>1, <1>5, <2>2
    <3>3. current'[heap'[q]] = key(at) /\ current'[heap'[i]] = IF i = at THEN key(q) ELSE key(i)
      BY <1>1, <1>3, <3>1
    <3>4. key(at) \in Nat /\ key(q) \in Nat /\ key(i) \in Nat
      BY <1>1, <1>3
    <3> HIDE DEF key
    <3>5. current'[heap'[q]] <= current'[heap'[i]]
      BY <1>4, <3>2, <3>3, <3>4
    <3> QED BY <2>2, <3>1, <3>2, <3>5 DEF Leq
  <2>3. ASSUME Parent(i) = q, q > 0 PROVE current'[heap'[Parent(q)]] <= current'[heap'[i]]
    <3>1. Parent(q) \in InHeap /\ Parent(q) < q /\ Parent(q) # at /\ q # at
      BY <1>1, <1>5, <2>3, ParentOf DEF InHeap
    <3>2. key(Parent(q)) <= key(q)
      BY <1>1, <1>5, <2>3, <3>1
    <3>3. current'[heap'[Parent(q)]] = key(Parent(q))
      BY <1>1, <1>3, <3>1 DEF InHeap
    <3>4. current'[heap'[i]] = IF i = at THEN key(q) ELSE key(i)
      BY <1>3, <2>2, <2>3
    <3>5. key(Parent(q)) \in Nat /\ key(q) \in Nat /\ key(i) \in Nat
      BY <1>1, <1>3, <3>1
    <3> HIDE DEF key
    <3> QED BY <2>2, <2>3, <3>2, <3>3, <3>4, <3>5
  <2> QED BY <2>0, <2>1, <2>2, <2>3 DEF Skips
<1>7. Last'
  BY <1>1 DEF SiftUp, Last, InHeap
<1> QED BY <1>2, <1>6, <1>7 DEF IInv

(* The timer is stored where the sift up ended. *)
LEMMA SiftUpEndsOK ==
    ASSUME IInv, SiftUpEnds
    PROVE  IInv'
<1> USE DEF SiftUpEnds
<1>1. /\ size \in Nat /\ at \in Nat /\ at \in Used
      /\ at > 0 => Leq(at)
      /\ InHeap' = InHeap /\ Used' = Used /\ InHeap \subseteq Used
  BY DEF IInv, TypeOK, Control, heap_leq, Leq, InHeap, Used
<1>2. \A i \in InHeap : i > 0 =>
        /\ Parent(i) # at => Leq(i)
        /\ Parent(i) = at => Skips(i)
        /\ removing = None => Leq(i)
  <2> SUFFICES ASSUME NEW i \in InHeap, i > 0
               PROVE  /\ Parent(i) # at => Leq(i)
                      /\ Parent(i) = at => Skips(i)
                      /\ removing = None => Leq(i)
    OBVIOUS
  <2>1. /\ Parent(i) # at => i = at \/ Leq(i)
        /\ Parent(i) = at => Skips(i)
        /\ removing = None /\ Parent(i) = at => Leq(i)
    BY DEF IInv, Order
  <2>2. i = at => Leq(i)
    BY <1>1 DEF Leq
  <2> QED BY <2>1, <2>2
<1>3. CASE removing = None
  <2>1. Used = InHeap /\ Known = InHeap \ {at} /\ Known' = InHeap
    BY <1>3 DEF Known, Used, InHeap
  <2>2. heap[at] \in Timers /\ at \in Places
    <3>1. size \in 0 .. MaxTimers /\ MaxTimers \in Nat
      BY TimerHeapAssumption DEF IInv, TypeOK
    <3>2. at \in 0 .. size - 1
      BY <1>1, <2>1 DEF InHeap
    <3>3. at \in Places
      BY <3>1, <3>2 DEF Places
    <3> QED BY <1>1, <3>3 DEF IInv, Contents
  <2>3. TypeOK' /\ Control' /\ Contents'
    BY <1>1, <1>3, <2>2 DEF IInv, TypeOK, Control, Contents
  <2>4. Indices'
    <3>1. /\ index' = [index EXCEPT ![heap[at]] = at] /\ heap' = heap
          /\ index \in [Timers -> {-1} \cup Places]
      BY <1>3 DEF IInv, TypeOK
    <3>2. /\ \A i \in InHeap : heap[i] \in Timers /\ (heap[i] = heap[at] => i = at)
          /\ \A i \in InHeap \ {at} : index[heap[i]] = i
          /\ \A t \in Timers : (\A i \in InHeap : heap[i] # t) => index[t] = -1
      <4> HIDE DEF SiftUpEnds
      <4> QED BY <1>1, <2>1 DEF IInv, Contents, Indices
    <3>3. \A i \in InHeap : index'[heap[i]] = i
      BY <1>1, <2>1, <2>2, <3>1, <3>2
    <3>4. \A t \in Timers : (\A i \in InHeap : heap[i] # t) => index'[t] = -1
      BY <1>1, <2>1, <2>2, <3>1, <3>2
    <3> QED BY <1>1, <2>1, <3>1, <3>3, <3>4 DEF Indices
  <2>5. Order' /\ Last'
    BY <1>1, <1>2, <1>3 DEF Order, Last, Leq
  <2> QED BY <2>3, <2>4, <2>5 DEF IInv
<1>4. CASE removing # None
  <2>1. TypeOK' /\ Control' /\ Contents' /\ Indices'
    BY <1>1, <1>4 DEF IInv, TypeOK, Control, Contents, Indices, Known
  <2>2. Order' /\ Last'
    BY <1>1, <1>2, <1>4 DEF Order, Last, Leq, Skips
  <2> QED BY <2>1, <2>2 DEF IInv
<1> QED BY <1>3, <1>4

(* The timer moves down: the child it changes places with is the smaller.  *)
LEMMA SiftDownOK ==
    ASSUME IInv, SiftDown
    PROVE  IInv'
<1> USE DEF SiftDown
<1> DEFINE q == SmallerChild(at)
<1> DEFINE key(i) == current[heap[i]]
<1>1. /\ size \in Nat /\ at \in Nat /\ removing # None /\ at \in InHeap
      /\ InHeap' = InHeap /\ InHeap \subseteq Used
  BY DEF IInv, TypeOK, Control, InHeap, Used
<1>2. /\ q \in InHeap /\ at < q /\ q > 0 /\ Parent(q) = at
  BY <1>1, ChildOf DEF SmallerChild, InHeap
<1>3. /\ TypeOK' /\ Control' /\ Contents' /\ Indices'
      /\ heap'[at] = heap[q] /\ heap'[q] = heap[at]
      /\ \A i \in Used : i # at /\ i # q => heap'[i] = heap[i]
  <2>1. /\ pc # "idle" /\ index' = [index EXCEPT ![heap[q]] = at] /\ heap' = Swapped(q, at) /\ at' = q
        /\ UNCHANGED <<size, current, now, pc, removing, firing>>
    OBVIOUS
  <2>2. at # q
    BY <1>1, <1>2
  <2> HIDE DEF q, SiftDown
  <2> QED BY <1>1, <1>2, <2>1, <2>2, SwapKeepsPlaces
<1>4. /\ \A i \in InHeap : key(i) \in Nat
      /\ \A i \in InHeap : current'[heap'[i]] = IF i = at THEN key(q) ELSE IF i = q THEN key(at) ELSE key(i)
  <2> HIDE DEF q
  <2> QED BY <1>1, <1>2, <1>3 DEF IInv, Contents, TypeOK, q
<1>5. /\ key(q) < key(at)
      /\ \A i \in InHeap : i > 0 /\ Parent(i) = at => key(q) <= key(i)
  <2>1. ASSUME NEW i \in InHeap, i > 0, Parent(i) = at PROVE key(q) <= key(i)
    <3>1. i = 2 * at + 1 \/ i = 2 * at + 2
      BY <1>1, <2>1, ParentOf DEF InHeap
    <3> QED BY <1>1, <1>4, <3>1 DEF SmallerChild, heap_leq, InHeap
  <2>2. key(q) < key(at)
    <3>1. ~ (key(at) <= key(q)) /\ key(at) \in Nat /\ key(q) \in Nat
      BY <1>1, <1>2, <1>4 DEF heap_leq
    <3> HIDE DEF key, q
    <3> QED BY <3>1
  <2> QED BY <2>1, <2>2
<1> HIDE DEF q
<1>6. \A i \in InHeap : i > 0 =>
        /\ Parent(i) \in InHeap /\ Parent(i) < i
        /\ Parent(i) # at => key(Parent(i)) <= key(i)
        /\ Parent(i) = at /\ at > 0 => key(Parent(at)) <= key(i)
  BY <1>1, ParentOf DEF IInv, Order, Leq, Skips, InHeap
<1>7. Order'
  <2> SUFFICES ASSUME NEW i \in InHeap, i > 0
               PROVE  /\ Parent(i) # q => Leq(i)'
                      /\ Parent(i) = q => Skips(i)'
    BY <1>1 DEF Order, q
  <2>1. ASSUME Parent(i) # q PROVE Leq(i)'
    <3>1. CASE Parent(i) = at
      BY <1>1, <1>2, <1>4, <1>5, <1>6, <2>1, <3>1 DEF Leq
    <3>2. CASE i = at
      <4>1. Parent(at) \in InHeap /\ Parent(at) # at /\ Parent(at) # q
        BY <1>1, <1>6, <2>1, <3>2, ParentOf
      <4>2. key(Parent(at)) <= key(q)
        BY <1>2, <1>6, <3>2
      <4>3. current'[heap'[i]] = key(q) /\ current'[heap'[Parent(i)]] = key(Parent(at))
        <5> HIDE DEF key
        <5> QED BY <1>1, <1>4, <3>2, <4>1
      <4> QED BY <4>2, <4>3 DEF Leq
    <3>3. CASE Parent(i) # at /\ i # at
      <4>1. i # q /\ Parent(i) \in InHeap /\ key(Parent(i)) <= key(i)
        BY <1>2, <1>6, <3>3
      <4>2. current'[heap'[i]] = key(i) /\ current'[heap'[Parent(i)]] = key(Parent(i))
        BY <1>4, <2>1, <3>3, <4>1
      <4> QED BY <4>1, <4>2 DEF Leq
    <3> QED BY <3>1, <3>2, <3>3
  <2>2. ASSUME Parent(i) = q PROVE current'[heap'[Parent(q)]] <= current'[heap'[i]]
    <3>1. i # q /\ i # at
      BY <1>1, <1>2, <1>6, <2>2 DEF InHeap
    <3>2. key(q) <= key(i)
      BY <1>2, <1>6, <2>2
    <3>3. current'[heap'[Parent(q)]] = key(q) /\ current'[heap'[i]] = key(i)
      <4> HIDE DEF key
      <4> QED BY <1>1, <1>2, <1>4, <3>1
    <3> QED BY <3>2, <3>3
  <2> QED BY <2>1, <2>2 DEF Skips, q
<1>8. Last'
  BY DEF Last
<1> QED BY <1>3, <1>7, <1>8 DEF IInv

(* And where the sift down ended. *)
LEMMA SiftDownEndsOK ==
    ASSUME IInv, SiftDownEnds
    PROVE  IInv'
<1> USE DEF SiftDownEnds
<1>1. /\ size \in Nat /\ at \in Nat /\ at \in Used /\ removing \in Timers
      /\ InHeap' = InHeap /\ Used' = InHeap /\ Known' = InHeap
      /\ Used = InHeap \cup {size} /\ Used \subseteq Places /\ size \notin InHeap
      /\ Known = InHeap \ {at} /\ heap[size] = removing
  BY TimerHeapAssumption DEF IInv, TypeOK, Control, InHeap, Used, Known, Places
<1>2. \A i \in Used : heap[i] \in Timers
  BY DEF IInv, Contents
<1>3. \A i \in InHeap : heap[i] # removing
  BY <1>1 DEF IInv, Contents
<1>4. /\ index'[removing] = -1
      /\ at # size => index'[heap[at]] = at
      /\ \A t \in Timers : t # removing /\ t # heap[at] => index'[t] = index[t]
      /\ index' \in [Timers -> {-1} \cup Places]
  BY <1>1, <1>2, <1>3 DEF IInv, TypeOK
<1>5. TypeOK' /\ Control' /\ Contents'
  BY <1>1, <1>4 DEF IInv, TypeOK, Control, Contents
<1>6. Indices'
  <2>1. ASSUME NEW i \in InHeap PROVE index'[heap[i]] = i
    <3>1. i # at => heap[i] # heap[at] /\ index[heap[i]] = i
      BY <1>1, <2>1 DEF IInv, Contents, Indices
    <3> QED BY <1>1, <1>2, <1>3, <1>4, <2>1, <3>1
  <2>2. ASSUME NEW u \in Timers, \A i \in InHeap : heap[i] # u PROVE index'[u] = -1
    <3>1. CASE u = removing
      BY <1>4, <3>1
    <3>2. CASE u # removing
      BY <1>1, <1>4, <2>2, <3>2 DEF IInv, Indices
    <3> QED BY <3>1, <3>2
  <2> QED BY <1>1, <2>1, <2>2 DEF Indices
<1>7. Order'
  <2> SUFFICES ASSUME NEW i \in InHeap, i > 0 PROVE Leq(i)
    BY <1>1 DEF Order, Leq
  <2>1. CASE Parent(i) # at
    BY <2>1 DEF IInv, Order
  <2>2. CASE Parent(i) = at
    <3>1. i = 2 * at + 1 \/ i = 2 * at + 2
      BY <1>1, <2>2, ParentOf DEF InHeap
    <3>2. \A j \in InHeap : current[heap[j]] \in Nat
      BY <1>1, <1>2 DEF IInv, TypeOK
    <3>3. 2 * at + 1 \in InHeap /\ at \in InHeap
      BY <1>1, <3>1 DEF InHeap
    <3>4. current[heap[at]] <= current[heap[SmallerChild(at)]]
      BY <1>1, <3>3 DEF heap_leq, InHeap
    <3>5. CASE SmallerChild(at) = i
      BY <2>2, <3>4, <3>5 DEF Leq
    <3>6. CASE SmallerChild(at) # i
      <4>1. /\ SmallerChild(at) \in InHeap
            /\ current[heap[SmallerChild(at)]] <= current[heap[i]]
        <5>1. CASE i = 2 * at + 1
          <6>1. /\ SmallerChild(at) = 2 * at + 2 /\ 2 * at + 2 < size
                /\ ~ (current[heap[2 * at + 1]] <= current[heap[2 * at + 2]])
            BY <3>6, <5>1 DEF SmallerChild, heap_leq
          <6>2. 2 * at + 2 \in InHeap
            BY <1>1, <6>1 DEF InHeap
          <6>3. /\ current[heap[2 * at + 1]] \in Nat /\ current[heap[2 * at + 2]] \in Nat
            BY <3>2, <3>3, <6>2
          <6> QED BY <5>1, <6>1, <6>2, <6>3
        <5>2. CASE i = 2 * at + 2
          <6>1. /\ SmallerChild(at) = 2 * at + 1
                /\ current[heap[2 * at + 1]] <= current[heap[2 * at + 2]]
            BY <1>1, <3>6, <5>2 DEF SmallerChild, heap_leq, InHeap
          <6> QED BY <3>3, <5>2, <6>1
        <5> QED BY <3>1, <5>1, <5>2
      <4>2. /\ current[heap[at]] \in Nat /\ current[heap[i]] \in Nat
            /\ current[heap[SmallerChild(at)]] \in Nat
        BY <3>2, <3>3, <4>1
      <4> QED BY <2>2, <3>4, <4>1, <4>2 DEF Leq
    <3> QED BY <3>5, <3>6
  <2> QED BY <2>1, <2>2
<1>8. Last'
  BY DEF Last
<1> QED BY <1>5, <1>6, <1>7, <1>8 DEF IInv

(* The callback returned, or time passes.                                  *)
LEMMA SameHeap ==
    ASSUME IInv, UNCHANGED <<heap, size, index, current, pc, at, removing>>,
           now' \in Nat, firing' \in Timers \cup {None}
    PROVE  IInv'
BY DEF IInv, TypeOK, Control, Contents, Indices, Order, Last, Used, InHeap, Known, Places, Leq, Skips

(* Every step keeps the invariant.                                         *)
LEMMA NextOK == IInv /\ [Next]_vars => IInv'
<1> SUFFICES ASSUME IInv, [Next]_vars PROVE IInv'
  OBVIOUS
<1>1. /\ firing \in Timers \cup {None} /\ now \in Nat
      /\ size > 0 => heap[0] \in Timers
  BY DEF IInv, TypeOK, Contents, Used, InHeap
<1>2. ASSUME NEW t \in Timers, NEW period \in Periods, Add(t, period) PROVE IInv'
  BY <1>1, <1>2, StartInsertOK DEF Add
<1>3. ASSUME NEW t \in Timers, Remove(t) PROVE IInv'
  BY <1>1, <1>3, StartRemoveOK DEF Remove
<1>4. CASE FireFirst
  BY <1>1, <1>4, StartRemoveOK DEF FireFirst
<1>5. CASE Done
  BY <1>1, <1>5, SameHeap DEF Done
<1>6. ASSUME NEW period \in Periods, Requeue(period) PROVE IInv'
  BY <1>1, <1>6, StartInsertOK DEF Requeue
<1>7. CASE Advance
  BY <1>1, <1>7, SameHeap DEF Advance
<1>8. CASE UNCHANGED vars
  BY <1>1, <1>8, SameHeap DEF vars
<1> QED
  BY <1>2, <1>3, <1>4, <1>5, <1>6, <1>7, <1>8, SiftUpOK, SiftUpEndsOK, SiftDownOK, SiftDownEndsOK DEF Next

(* The inductive invariant of the heap (heap_insert(), heap_remove(),      *)
(* heap_sift_up(), heap_sift_down()) holds in every reachable state.       *)
THEOREM Inductive == Spec => []IInv
BY InitOK, NextOK, PTL DEF Spec

(* Between operations the heap is in order and every timer knows its place *)
(* (heap_insert(), heap_remove()).                                         *)
THEOREM HeapIsRight == Spec => []HeapRight
<1>1. IInv => HeapRight
  <2> SUFFICES ASSUME IInv PROVE HeapRight
    OBVIOUS
  <2>1. HeapOrdered
    BY DEF IInv, HeapOrdered, Order, Leq, heap_leq
  <2>2. IndexExact
    <3> SUFFICES ASSUME pc = "idle"
                 PROVE  /\ \A i \in InHeap : heap[i] \in Timers /\ index[heap[i]] = i
                        /\ \A t \in Timers \ Armed : index[t] = -1
      BY DEF IndexExact
    <3>1. Used = InHeap /\ Known = InHeap
      BY DEF IInv, Control, Used, Known
    <3> QED BY <3>1 DEF IInv, Contents, Indices, Armed
  <2> QED BY <2>1, <2>2 DEF IInv, HeapRight
<1> QED BY <1>1, Inductive, PTL

----------------------------------------------------------------------------
(* A set of numbers that is not empty has a smallest one: induction over   *)
(* the places of the heap.                                                 *)
LEMMA SmallestOf ==
    ASSUME NEW S, S \subseteq Nat, S # {}
    PROVE  \E m \in S : \A k \in S : m <= k
<1>1. PICK m \in S : \A k \in S : <<k, m>> \notin OpToRel(<, Nat)
  BY NatLessThanWellFounded, WFMin
<1>2. \A k \in S : ~ (k < m)
  BY <1>1 DEF OpToRel
<1> QED BY <1>2

(* The first of the timers that is due later than some place of the heap   *)
(* would be due later than its own parent: there is none, so poller_run()  *)
(* has to look at the first timer alone.                                   *)
LEMMA FirstIsLeast ==
    ASSUME IInv, pc = "idle"
    PROVE  \A i \in InHeap : current[heap[0]] <= current[heap[i]]
<1> DEFINE key(i) == current[heap[i]]
<1> DEFINE Late == {i \in InHeap : ~ (key(0) <= key(i))}
<1>1. /\ size \in Nat /\ InHeap \subseteq Nat
      /\ \A i \in InHeap : key(i) \in Nat
  BY DEF IInv, TypeOK, Control, Contents, Used, InHeap
<1>2. \A i \in InHeap : i > 0 => Parent(i) \in InHeap /\ Parent(i) < i /\ key(Parent(i)) <= key(i)
  BY <1>1, ParentOf DEF IInv, Order, Leq, InHeap
<1>3. SUFFICES ASSUME NEW i \in Late PROVE FALSE
  OBVIOUS
<1>4. PICK m \in Late : \A k \in Late : m <= k
  <2> HIDE DEF key
  <2>1. Late \subseteq Nat
    BY <1>1
  <2> HIDE DEF Late
  <2> QED BY <1>3, <2>1, SmallestOf
<1>5. m \in InHeap /\ ~ (key(0) <= key(m))
  OBVIOUS
<1>6. 0 \in InHeap /\ key(0) \in Nat /\ key(m) \in Nat /\ m \in Nat
  BY <1>1, <1>5 DEF InHeap
<1> HIDE DEF key
<1>7. m > 0
  BY <1>5, <1>6
<1>8. Parent(m) \in InHeap /\ Parent(m) < m /\ key(Parent(m)) <= key(m)
  BY <1>2, <1>5, <1>7
<1>9. Parent(m) \notin Late
  <2>1. Parent(m) \in Nat
    BY <1>1, <1>8
  <2> HIDE DEF Late
  <2> QED BY <1>4, <1>6, <1>8, <2>1
<1>10. key(Parent(m)) \in Nat /\ key(0) <= key(Parent(m))
  BY <1>1, <1>8, <1>9
<1> QED BY <1>5, <1>6, <1>8, <1>10

Due == [t \in Armed |-> current[t]]

(* heap_insert() arms the timer, heap_remove() disarms it, as they start.  *)
LEMMA InsertArms ==
    ASSUME IInv, NEW t \in Timers, NEW period \in Periods, StartInsert(t, period)
    PROVE  t \notin Armed /\ Due' = Abstract!Armed(t, period)
<1> USE DEF StartInsert
<1>1. /\ size \in Nat /\ size < MaxTimers /\ size \in Places
      /\ Used = InHeap /\ Known = InHeap /\ InHeap \subseteq Places
      /\ InHeap' = InHeap \cup {size} /\ size \notin InHeap
  BY TimerHeapAssumption DEF IInv, TypeOK, Control, Used, Known, InHeap, Places
<1>2. heap'[size] = t /\ \A i \in InHeap : heap'[i] = heap[i]
  BY <1>1 DEF IInv, TypeOK
<1>3. Armed' = Armed \cup {t}
  BY <1>1, <1>2 DEF Armed
<1>4. Armed \subseteq Timers /\ t \notin Armed
  BY <1>1 DEF Armed, IInv, Contents, Indices, TypeOK, InHeap
<1>5. \A u \in Timers : current'[u] = IF u = t THEN now + period ELSE current[u]
  BY DEF IInv, TypeOK
<1> QED BY <1>3, <1>4, <1>5 DEF Due, Abstract!Armed

(* The timer that is removed is disarmed, and no other. *)
LEMMA RemoveDisarms ==
    ASSUME IInv, NEW t \in Timers, StartRemove(t)
    PROVE  t \in Armed /\ Due' = Abstract!Without(t)
<1> USE DEF StartRemove
<1> DEFINE p == index[t]
<1>1. /\ size \in Nat /\ Used = InHeap /\ Known = InHeap
      /\ \A i, j \in InHeap : heap[i] = heap[j] => i = j
      /\ InHeap \subseteq Places
  BY TimerHeapAssumption DEF IInv, TypeOK, Control, Contents, Used, Known, InHeap, Places
<1>2. p \in InHeap /\ heap[p] = t
  <2>1. PICK i \in InHeap : heap[i] = t
    BY <1>1 DEF IInv, Indices
  <2> QED BY <1>1, <2>1 DEF IInv, Indices
<1>3. InHeap' = InHeap \ {size - 1} /\ size - 1 \in InHeap
  BY <1>1, <1>2 DEF InHeap
<1>4. /\ p # size - 1 => heap'[p] = heap[size - 1]
      /\ \A i \in InHeap : i # p /\ i # size - 1 => heap'[i] = heap[i]
  <2>1. heap \in [Places -> Timers \cup {None}]
    BY DEF IInv, TypeOK
  <2>2. heap' = [heap EXCEPT ![size - 1] = heap[p], ![p] = heap[size - 1]]
    BY DEF Swapped
  <2> HIDE DEF p
  <2> QED BY <1>1, <1>2, <1>3, <2>1, <2>2
<1> HIDE DEF p
<1>5. Armed' = Armed \ {t}
  <2>1. ASSUME NEW i \in InHeap' PROVE heap'[i] \in Armed \ {t}
    BY <1>1, <1>2, <1>3, <1>4 DEF Armed
  <2>2. ASSUME NEW i \in InHeap, heap[i] # t PROVE \E j \in InHeap' : heap'[j] = heap[i]
    <3>1. CASE i = size - 1
      BY <1>2, <1>3, <1>4, <2>2, <3>1
    <3>2. CASE i # size - 1
      BY <1>2, <1>3, <1>4, <2>2, <3>2
    <3> QED BY <3>1, <3>2
  <2> QED BY <2>1, <2>2 DEF Armed
<1>6. t \in Armed
  BY <1>2 DEF Armed
<1> QED BY <1>5, <1>6 DEF Due, Abstract!Without

(* The loops move timers around.                                           *)
LEMMA SwapKeepsDue ==
    ASSUME NEW q \in InHeap, at \in InHeap, IInv, heap' = Swapped(q, at),
           UNCHANGED <<size, current>>
    PROVE  Due' = Due
<1>1. InHeap' = InHeap /\ InHeap \subseteq Places /\ heap \in [Places -> Timers \cup {None}]
  BY TimerHeapAssumption DEF IInv, TypeOK, InHeap, Places
<1>2. \A i \in InHeap : heap'[i] = IF i = at THEN heap[q] ELSE IF i = q THEN heap[at] ELSE heap[i]
  BY <1>1 DEF Swapped
<1>3. Armed' = Armed
  BY <1>1, <1>2 DEF Armed
<1> QED BY <1>3 DEF Due

(* The heap implements the set of timers: each operation is the operation  *)
(* of the set when it starts, and the rest of it cannot be told from the   *)
(* outside.                                                                *)
LEMMA InitMaps == Init => Abstract!Init
<1> SUFFICES ASSUME Init PROVE Abstract!Init
  OBVIOUS
<1>1. InHeap = {}
  BY DEF Init, InHeap
<1>2. Armed = {}
  BY <1>1 DEF Armed
<1> QED BY <1>2 DEF Init, Abstract!Init

(* Every step is a step of the set or changes nothing in it. *)
LEMMA NextMaps == IInv /\ IInv' /\ [Next]_vars => [Abstract!Next]_(Abstract!vars)
<1> SUFFICES ASSUME IInv, IInv', [Next]_vars
             PROVE  Abstract!Next \/ UNCHANGED Abstract!vars
  BY DEF Abstract!vars
<1>1. /\ firing \in Timers \cup {None} /\ None \notin Timers
      /\ size > 0 => 0 \in InHeap /\ heap[0] \in Timers
  BY TimerHeapAssumption DEF IInv, TypeOK, Contents, Used, InHeap
<1>2. ASSUME NEW t \in Timers, NEW period \in Periods, Add(t, period)
      PROVE  Abstract!Arm(t, period)
  BY <1>2, InsertArms DEF Add, StartInsert, Abstract!Arm, Due
<1>3. ASSUME NEW t \in Timers, Remove(t) PROVE Abstract!Disarm(t)
  BY <1>3, RemoveDisarms DEF Remove, StartRemove, Abstract!Disarm, Due
<1>4. CASE FireFirst
  <2>1. PICK t \in Timers : t = heap[0]
    BY <1>1, <1>4 DEF FireFirst
  <2>2. StartRemove(t) /\ firing = None /\ pc = "idle"
    BY <1>4, <2>1 DEF FireFirst, StartRemove
  <2>3. t \in Armed /\ Due' = Abstract!Without(t)
    BY <2>2, RemoveDisarms
  <2>4. \A u \in Armed : current[t] <= current[u]
    BY <2>1, <2>2, FirstIsLeast DEF Armed
  <2>5. Abstract!Fire(t)
    BY <1>4, <2>1, <2>3, <2>4 DEF FireFirst, StartRemove, Abstract!Fire, Due
  <2> QED BY <2>1, <2>5 DEF Abstract!Next
<1>5. CASE Done
  BY <1>5 DEF Done, Abstract!Next, Abstract!Done, Armed, InHeap
<1>6. ASSUME NEW period \in Periods, Requeue(period) PROVE Abstract!Rearm(period)
  BY <1>1, <1>6, InsertArms DEF Requeue, StartInsert, Abstract!Rearm, Due
<1>7. CASE SiftUp
  <2>1. at \in InHeap /\ Parent(at) \in InHeap
    <3>1. at \in Nat /\ size \in Nat /\ at \in Used /\ at # size
      BY <1>7 DEF SiftUp, IInv, TypeOK, Control, Last, heap_leq, Leq
    <3> QED BY <1>7, <3>1, ParentOf DEF SiftUp, InHeap, Used
  <2> QED BY <1>7, <2>1, SwapKeepsDue DEF SiftUp, Abstract!vars, Due
<1>8. CASE SiftDown
  <2>1. at \in InHeap /\ SmallerChild(at) \in InHeap
    BY <1>8 DEF SiftDown, IInv, TypeOK, SmallerChild, InHeap
  <2> QED BY <1>8, <2>1, SwapKeepsDue DEF SiftDown, Abstract!vars, Due
<1>9. CASE SiftUpEnds \/ SiftDownEnds
  BY <1>9 DEF SiftUpEnds, SiftDownEnds, Abstract!vars, Armed, InHeap
<1>10. CASE Advance
  BY <1>10 DEF Advance, Abstract!Next, Abstract!Advance, Armed, InHeap
<1>11. CASE UNCHANGED vars
  BY <1>11 DEF vars, Abstract!vars, Armed, InHeap
<1> QED
  BY <1>2, <1>3, <1>4, <1>5, <1>6, <1>7, <1>8, <1>9, <1>10, <1>11 DEF Next, Abstract!Next

(* The heap of timers (heap_insert(), heap_remove(), the loop of           *)
(* poller_run() over timers) implements a set of timers of which one that  *)
(* is due first fires.                                                     *)
THEOREM HeapImplementsSet == Spec => Implements
BY InitMaps, NextMaps, Inductive, PTL DEF Spec, Implements, Abstract!Spec
=============================================================================
