------------------------------ MODULE TimerSet ------------------------------
(***************************************************************************)
(* What poller.c promises about timers: a set of armed timers, each with   *)
(* the time it is due.  One timer at a time fires: the earliest, once it   *)
(* is due; it is not armed while its callback runs, and the callback       *)
(* decides whether it is armed again.  A timer that was disarmed never     *)
(* fires.                                                                  *)
(***************************************************************************)
EXTENDS Integers

CONSTANTS Timers,   (* timer events                                          *)
          Periods,  (* delays they are armed with                            *)
          Slack,    (* how early a timer may fire: 10000 ns in poller_run()  *)
          Horizon,  (* bound on the clock                                    *)
          None      (* not a timer                                           *)

VARIABLES due,      (* [armed timers -> time]                                *)
          firing,   (* the timer whose callback runs                         *)
          now       (* poller.now                                            *)

vars == <<due, firing, now>>

Init == due = [t \in {} |-> 0] /\ firing = None /\ now = 0

Armed(t, period) ==
    [u \in DOMAIN due \cup {t} |-> IF u = t THEN now + period ELSE due[u]]

Without(t) == [u \in DOMAIN due \ {t} |-> due[u]]

Arm(t, period) ==
    /\ t \notin DOMAIN due \cup {firing}
    /\ due' = Armed(t, period)
    /\ UNCHANGED <<firing, now>>

Disarm(t) ==
    /\ t \in DOMAIN due
    /\ due' = Without(t)
    /\ UNCHANGED <<firing, now>>

Fire(t) ==
    /\ firing = None
    /\ t \in DOMAIN due
    /\ due[t] < now + Slack
    /\ \A u \in DOMAIN due : due[t] <= due[u]
    /\ due' = Without(t)
    /\ firing' = t
    /\ UNCHANGED now

(* The callback of the timer that fires returns false, or true. *)
Done ==
    /\ firing # None
    /\ firing' = None
    /\ UNCHANGED <<due, now>>

Rearm(period) ==
    /\ firing # None
    /\ firing' = None
    /\ due' = Armed(firing, period)
    /\ UNCHANGED now

Advance ==
    /\ firing = None
    /\ now < Horizon
    /\ now' = now + 1
    /\ UNCHANGED <<due, firing>>

Next ==
    \/ \E t \in Timers, period \in Periods : Arm(t, period)
    \/ \E t \in Timers : Disarm(t) \/ Fire(t)
    \/ \E period \in Periods : Rearm(period)
    \/ Done
    \/ Advance

Spec == Init /\ [][Next]_vars
=============================================================================
