------------------------------ MODULE MCPoller ------------------------------
(* Two descriptors share an array of one slot, so that it has to grow and a *)
(* slot is reused in the pass in which it was freed; one event more than    *)
(* there are pointers, since poller_set_timer() from the timer's own        *)
(* callback needs it.                                                       *)
EXTENDS Poller

MCFileOf == [o \in FdPtrs |-> IF o = "fd1" THEN "a" ELSE "b"]
=============================================================================
