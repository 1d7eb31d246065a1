---------------------------- MODULE MCWindowLoop ----------------------------
EXTENDS WindowLoop

(* Two values, so that timers are due in different orders.  *)
MCPeriod == [t \in Timers |-> IF t \in {"sync", "configure", "read"} THEN 2 ELSE 1]
=============================================================================
