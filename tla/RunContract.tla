---------------------------- MODULE RunContract ----------------------------
(***************************************************************************)
(* What the analysis-run queue promises to the people and services around  *)
(* it, with no worker, lease, token or clock in sight: a run is open until *)
(* it is settled once; only a failed run may be opened again, and only     *)
(* while attempts remain; a report appears in the very step that makes its *)
(* run succeed and is never replaced.  RunLifecycle implements it.         *)
(***************************************************************************)
EXTENDS Integers

CONSTANTS
    Runs,          \* the analysis runs
    MaxAttempts    \* how often a run may be attempted

VARIABLES
    phase,    \* run -> "open", "succeeded", "failed" or "cancelled"
    tries,    \* run -> attempts started so far
    report    \* run -> 0, or the number that names its published report

vars == <<phase, tries, report>>

Phases == {"open", "succeeded", "failed", "cancelled"}

Init ==
    /\ phase = [r \in Runs |-> "open"]
    /\ tries = [r \in Runs |-> 0]
    /\ report = [r \in Runs |-> 0]

(* An attempt starts; an open run may see several when workers are lost. *)
Attempt(r) ==
    /\ phase[r] = "open"
    /\ tries[r] < MaxAttempts
    /\ tries' = [tries EXCEPT ![r] = @ + 1]
    /\ UNCHANGED <<phase, report>>

(* A run that was attempted succeeds, with its report or, for a specialist *)
(* run, with an artifact only.                                             *)
Succeed(r) ==
    /\ phase[r] = "open"
    /\ tries[r] > 0
    /\ phase' = [phase EXCEPT ![r] = "succeeded"]
    /\ report'[r] \in Nat
    /\ report' = [report EXCEPT ![r] = report'[r]]
    /\ UNCHANGED tries

Fail(r) ==
    /\ phase[r] = "open"
    /\ phase' = [phase EXCEPT ![r] = "failed"]
    /\ UNCHANGED <<tries, report>>

Cancel(r) ==
    /\ phase[r] = "open"
    /\ phase' = [phase EXCEPT ![r] = "cancelled"]
    /\ UNCHANGED <<tries, report>>

(* Only a failed run is opened again, and only while attempts remain. *)
Reopen(r) ==
    /\ phase[r] = "failed"
    /\ tries[r] < MaxAttempts
    /\ phase' = [phase EXCEPT ![r] = "open"]
    /\ UNCHANGED <<tries, report>>

Next == \E r \in Runs : Attempt(r) \/ Succeed(r) \/ Fail(r) \/ Cancel(r) \/ Reopen(r)

Spec == Init /\ [][Next]_vars
=============================================================================
