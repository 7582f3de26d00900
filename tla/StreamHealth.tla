---------------------------- MODULE StreamHealth ----------------------------
(* What the SSE client promises to those who read its reports: the retained   *)
(* <topic>/bridge/miele value and the failure streak.  An attempt is announced *)
(* when it comes up, may deliver events, ends, and is reported on.             *)
EXTENDS Naturals

CONSTANTS
    Threshold,   \* failures in a row after which a working poll means `degraded`
    Cap          \* bound: the streak is counted up to this number

VARIABLES
    streak,      \* attempts in a row that delivered nothing
    status,      \* the state last reported
    healthy,     \* polling has delivered
    attempt      \* idle, up, delivered, ended

vars == <<streak, status, healthy, attempt>>

Init ==
    /\ streak = 0
    /\ status = "none"
    /\ healthy = FALSE
    /\ attempt = "idle"

Open ==
    /\ attempt = "idle"
    /\ attempt' = "up"
    /\ status' = "connected"
    /\ UNCHANGED <<streak, healthy>>

Deliver ==
    /\ attempt = "up"
    /\ attempt' = "delivered"
    /\ streak' = 0
    /\ UNCHANGED <<status, healthy>>

\* An attempt ends that delivered nothing, or that never came up.
EndBarren ==
    /\ attempt \in {"idle", "up"}
    /\ attempt' = "ended"
    /\ streak' = IF streak < Cap THEN streak + 1 ELSE streak
    /\ UNCHANGED <<status, healthy>>

EndDelivered ==
    /\ attempt = "delivered"
    /\ attempt' = "ended"
    /\ UNCHANGED <<streak, status, healthy>>

\* Without a token no attempt is made; right after a delivery that is not counted.
EndSkipped ==
    /\ attempt = "idle"
    /\ streak = 0
    /\ attempt' = "ended"
    /\ UNCHANGED <<streak, status, healthy>>

Report ==
    /\ attempt = "ended"
    /\ attempt' = "idle"
    /\ status' = IF streak >= Threshold /\ healthy THEN "degraded" ELSE "disconnected"
    /\ UNCHANGED <<streak, healthy>>

PollingDelivers ==
    /\ healthy' = TRUE
    /\ UNCHANGED <<streak, status, attempt>>

Next ==
    \/ Open \/ Deliver \/ EndBarren \/ EndDelivered \/ EndSkipped \/ Report
    \/ PollingDelivers

Spec == Init /\ [][Next]_vars
=============================================================================
