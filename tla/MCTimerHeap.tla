---------------------------- MODULE MCTimerHeap ----------------------------
(* Six timers: the smallest heap in which the last element can be smaller   *)
(* than the parent of the one that is removed, so that it has to move up.   *)
EXTENDS TimerHeap, TLC

Symmetry == Permutations(Timers)

(* What was left behind the end of the heap, in the timers that are not in *)
(* it and in the variables of a loop that has ended is never read again.   *)
Live ==
    <<[i \in InHeap |-> heap[i]], size, index,
      [t \in Armed \cup {removing} |-> IF t = None THEN 0 ELSE current[t]],
      now, pc, IF pc = "idle" THEN 0 ELSE at, removing, firing>>
=============================================================================
