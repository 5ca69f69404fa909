---------------------------- MODULE TurnContract ----------------------------
(***************************************************************************)
(* What a durable chat turn promises: it is answered, failed or cancelled  *)
(* exactly once.  It starts at most one analysis run and is open again for *)
(* its answer only when that run has succeeded; a run that fails or is     *)
(* cancelled takes the turn with it in the same step, and a turn whose run *)
(* has begun can only be cancelled through the run.  DurableTurn           *)
(* implements it.                                                          *)
(***************************************************************************)
CONSTANT Jobs     \* the durable turns

VARIABLES
    phase,    \* turn -> "new", "open", "completed", "failed" or "cancelled"
    run       \* turn -> "none", "open", "succeeded", "failed" or "cancelled"

vars == <<phase, run>>

Init ==
    /\ phase = [j \in Jobs |-> "new"]
    /\ run = [j \in Jobs |-> "none"]

Accept(j) ==
    /\ phase[j] = "new"
    /\ phase' = [phase EXCEPT ![j] = "open"]
    /\ UNCHANGED run

StartRun(j) ==
    /\ phase[j] = "open" /\ run[j] = "none"
    /\ run' = [run EXCEPT ![j] = "open"]
    /\ UNCHANGED phase

RunSucceeds(j) ==
    /\ run[j] = "open"
    /\ run' = [run EXCEPT ![j] = "succeeded"]
    /\ UNCHANGED phase

(* A run that ends without a result ends its turn with it. *)
RunEnds(j, outcome) ==
    /\ run[j] = "open"
    /\ run' = [run EXCEPT ![j] = outcome]
    /\ phase' = [phase EXCEPT ![j] = outcome]

(* The turn ends on its own: never while its run is open, and cancelled    *)
(* only if it started none.                                                *)
End(j, outcome) ==
    /\ phase[j] = "open"
    /\ run[j] \in {"none", "succeeded"}
    /\ outcome = "cancelled" => run[j] = "none"
    /\ phase' = [phase EXCEPT ![j] = outcome]
    /\ UNCHANGED run

Next ==
    \E j \in Jobs :
       \/ Accept(j) \/ StartRun(j) \/ RunSucceeds(j)
       \/ \E outcome \in {"failed", "cancelled"} : RunEnds(j, outcome)
       \/ \E outcome \in {"completed", "failed", "cancelled"} : End(j, outcome)

Spec == Init /\ [][Next]_vars
=============================================================================
