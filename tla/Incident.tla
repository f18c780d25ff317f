------------------------------ MODULE Incident ------------------------------
(***************************************************************************)
(* What an endpoint's alerts promise, whatever the code does to keep the   *)
(* promise: the outcomes of the health checks form runs of failures and    *)
(* runs of successes, an incident opens only when the current run of       *)
(* failures has reached the alert's failure threshold, and it closes only  *)
(* when the current run of successes has reached its success threshold.    *)
(* The README of the program states both ("Number of failures in a row     *)
(* needed before triggering the alert", "Number of successes in a row      *)
(* before an ongoing incident is marked as resolved").                     *)
(***************************************************************************)
EXTENDS Naturals

CONSTANTS
    Alerts,             \* the alerts of one endpoint
    FailureThreshold,   \* [Alerts -> Nat \ {0}]
    SuccessThreshold,   \* [Alerts -> Nat \ {0}]
    MaxRun              \* runs longer than this are not told apart

VARIABLES
    failureRun,         \* length of the current run of failures
    successRun,         \* length of the current run of successes
    ongoing             \* [Alerts -> BOOLEAN], is an incident open?

vars == <<failureRun, successRun, ongoing>>

Longer(n) == IF n < MaxRun THEN n + 1 ELSE n

Init ==
    /\ failureRun = 0
    /\ successRun = 0
    /\ ongoing = [a \in Alerts |-> FALSE]

Observe(success) ==
    /\ failureRun' = IF success THEN 0 ELSE Longer(failureRun)
    /\ successRun' = IF success THEN Longer(successRun) ELSE 0
    /\ UNCHANGED ongoing

Open(a) ==
    /\ failureRun >= FailureThreshold[a]
    /\ ongoing' = [ongoing EXCEPT ![a] = TRUE]
    /\ UNCHANGED <<failureRun, successRun>>

Close(a) ==
    /\ successRun >= SuccessThreshold[a]
    /\ ongoing' = [ongoing EXCEPT ![a] = FALSE]
    /\ UNCHANGED <<failureRun, successRun>>

Next ==
    \/ \E success \in BOOLEAN : Observe(success)
    \/ \E a \in Alerts : Open(a) \/ Close(a)

Spec == Init /\ [][Next]_vars
=============================================================================
