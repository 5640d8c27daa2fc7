-------------------------- MODULE IncidentLifecycle ---------------------------
(* What the monitor promises about outages (README.md, "Two-failure incident   *)
(* opening, one-success recovery"), without replicas, locks, clocks or rows:   *)
(* a monitor has a run of failures, and an incident is open from the second    *)
(* failure in a row until the next success.  Retention may forget failures but *)
(* never closes, opens or forgets an incident.                                 *)
EXTENDS Naturals

CONSTANT Monitor

VARIABLES
    streak,     \* streak[m]: the remembered failures in a row, counted up to 2
    outage,     \* outage[m]: an incident of m is open
    outages     \* outages[m]: how many incidents m has had

vars == <<streak, outage, outages>>

Init ==
    /\ streak = [m \in Monitor |-> 0]
    /\ outage = [m \in Monitor |-> FALSE]
    /\ outages = [m \in Monitor |-> 0]

Succeed(m) ==
    /\ streak' = [streak EXCEPT ![m] = 0]
    /\ outage' = [outage EXCEPT ![m] = FALSE]
    /\ UNCHANGED outages

(* The first failure after a success, or after failures were forgotten.         *)
FailOnce(m) ==
    /\ streak[m] = 0
    /\ streak' = [streak EXCEPT ![m] = 1]
    /\ UNCHANGED <<outage, outages>>

FailAgain(m) ==
    /\ streak[m] >= 1
    /\ streak' = [streak EXCEPT ![m] = 2]
    /\ outage' = [outage EXCEPT ![m] = TRUE]
    /\ outages' = [outages EXCEPT ![m] = IF outage[m] THEN @ ELSE @ + 1]

(* Retention forgets the oldest results of any monitors.                        *)
Forget ==
    /\ streak' \in [Monitor -> 0 .. 2]
    /\ \A m \in Monitor : streak'[m] <= streak[m]
    /\ UNCHANGED <<outage, outages>>

Delete(m) ==
    /\ streak' = [streak EXCEPT ![m] = 0]
    /\ outage' = [outage EXCEPT ![m] = FALSE]
    /\ outages' = [outages EXCEPT ![m] = 0]

Next ==
    \/ Forget
    \/ \E m \in Monitor : Succeed(m) \/ FailOnce(m) \/ FailAgain(m) \/ Delete(m)

Spec == Init /\ [][Next]_vars
===============================================================================
