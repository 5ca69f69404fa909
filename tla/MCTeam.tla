------------------------------- MODULE MCTeam -------------------------------
(* The team of a whole analysis and that of one specialist, as             *)
(* executeTeam writes their programs.                                      *)
EXTENDS TeamRuntime

Agents == {"coordinator", "data", "comparison", "chart", "analyst", "insight", "report", "reviewer"}

(* "detail" asks data for the evidence, "revision" and "reviewed" are the  *)
(* second report and review.                                               *)
TeamSteps == Agents \cup {"detail", "revision", "reviewed"}
TeamAgents ==
    [s \in TeamSteps |-> CASE s = "detail" -> "data" [] s = "revision" -> "report"
                           [] s = "reviewed" -> "reviewer" [] OTHER -> s]

Branches == {"comparison", "chart", "analyst"}

(* coordinator *)
WholeTeam ==
    [main |-> "coordinator",
     groups |-> [s \in TeamSteps |->
        CASE s = "coordinator" ->
               <<{"data"}, Branches, {"insight"}, {"report"}, {"reviewer"}, {"revision"}, {"reviewed"}>>
          [] s = "insight" -> <<{"detail"}>>
          [] OTHER -> <<>>]]

(* A specialist takes its data first, that of insights its branches too.   *)
SpecialistTeam(target) ==
    [main |-> target,
     groups |-> [s \in TeamSteps |->
        CASE s # target -> <<>>
          [] target = "insight" -> <<{"data"}, Branches, {"detail"}>>
          [] target = "data" -> <<>>
          [] OTHER -> <<{"data"}>>]]

TeamPrograms == {WholeTeam} \cup {SpecialistTeam(target) : target \in {"insight", "comparison"}}

(* The budgets of the code, and one short of each kind. *)
TeamBudgets ==
    LET standard == [invocations |-> 40, delegations |-> 30, perAgent |-> 6]
    IN  {standard, [standard EXCEPT !.invocations = 4], [standard EXCEPT !.delegations = 3],
         [standard EXCEPT !.perAgent = 1]}

TeamSpec == TeamInit /\ [][TeamNext]_teamVars /\ TeamFairness
=============================================================================
