-------------------------- MODULE StageCheckpoints --------------------------
(***************************************************************************)
(* How one analysis run works through its stages, attempt after attempt:   *)
(* coordinator, data, the three branches in parallel, insight, report,     *)
(* reviewer (at most one revision of the draft) and publication, or the    *)
(* part of it a specialist needs.                                          *)
(*                                                                         *)
(* A stage is a sequence of small transactions: mark the task running,     *)
(* store each artifact under its key, mark the task succeeded, write the   *)
(* stage's chat message.  The worker may die between any two; the next     *)
(* owner of the run (RunLifecycle proves there is never more than one)     *)
(* starts the whole workflow again, and every stage decides from what it   *)
(* finds stored whether to reuse it, to complete it or to give up.         *)
(*                                                                         *)
(* Payloads are abstracted to what can differ between attempts: the        *)
(* provider's narrative and the reviewer's verdict.  Everything else is    *)
(* computed from snapshots and thresholds pinned to the run.               *)
(***************************************************************************)
EXTENDS Integers, Sequences, FiniteSets

CONSTANTS
    Targets,       \* what runs are asked for: "report" or a specialist's stage
    MaxAttempts,   \* 3 in the code
    Narratives,    \* what the narrative provider may answer
    Faults,        \* whether database and provider calls fail and time out
    None           \* absent

ASSUME StageAssumption ==
    /\ Targets \subseteq {"report", "data", "comparison", "chart", "analyst", "insight"}
    /\ MaxAttempts \in Nat \ {0}
    /\ Narratives \cap {None, "data"} = {}
    /\ Faults \in BOOLEAN

VARIABLES
    target,      \* request.agent_target
    status,      \* runs.status
    attempt,     \* runs attempt
    error_code,  \* why the run failed
    task,        \* tasks: stage -> its status and the attempt that set it
    artifact,    \* artifacts: artifact_key -> what is stored there
    told,        \* the stages whose chat message was written
    published,   \* the draft the published report was made from
    pc,          \* the owner's progress in each step
    thrown       \* the error on its way to failRun

stored == <<task, artifact, told, published>>
vars == <<target, status, attempt, error_code, stored, pc, thrown>>

Branches == {"comparison", "chart", "analyst"}
Kinds == {"coordinator", "data", "insight", "report", "reviewer", "publication"}
            \cup Branches

(* The calls of the coordinator program: the stages of the DAG, and for a  *)
(* draft sent back the revision and its second review.                     *)
Steps == Kinds \cup {"revision", "recheck"}

TaskOf(s) == CASE s = "revision" -> "report" [] s = "recheck" -> "reviewer" [] OTHER -> s

(* The artifact keys of a step, in the order it stores them. *)
Keys == [s \in Steps |->
    CASE s = "coordinator" -> <<"analysis_request", "coordinator_decision">>
      [] s = "data"        -> <<"data.query", "data.query_result", "data.calculation",
                                "data.comparison_calculation", "data.comparison",
                                "data_analysis_pack">>
      [] s = "comparison"  -> <<"comparison_pack">>
      [] s = "chart"       -> <<"chart.visual_evidence", "chart_pack">>
      [] s = "analyst"     -> <<"analysis_pack">>
      [] s = "insight"     -> <<"insight", "insight_pack", "decision_intelligence_pack">>
      [] s = "report"      -> <<"report_draft:1">>
      [] s = "reviewer"    -> <<"review_result:1">>
      [] s = "revision"    -> <<"report_draft:2">>
      [] s = "recheck"     -> <<"review_result:2">>
      [] OTHER             -> <<>>]

KeySet == [s \in Steps |-> {Keys[s][i] : i \in DOMAIN Keys[s]}]
AllKeys == UNION {KeySet[s] : s \in Steps}
Verdicts == {"PASS", "REVISION_REQUIRED"}
Contents == Narratives \cup Verdicts \cup {"data", None}

(* The codes a stage gives up with when it cannot use what it finds, and   *)
(* those of a run that fails for another reason.                           *)
StageCodes == {"INVALID_COORDINATOR_STAGE_ARTIFACT", "INVALID_DATA_STAGE_ARTIFACT",
    "ARTIFACT_NOT_FOUND", "INVALID_BRANCH_STAGE_ARTIFACT", "UNVALIDATED_DEPENDENCY",
    "INVALID_INSIGHT_STAGE_ARTIFACT", "INVALID_REPORT_DRAFT_STAGE_ARTIFACT",
    "INVALID_REVIEW_STAGE_ARTIFACT", "REPORT_REVISION_NOT_REQUIRED", "REVIEW_REVISION_LIMIT"}
Codes == StageCodes \cup {"FAULT", "TOOL_TIMEOUT", "INVALID_PUBLICATION_PREDECESSOR",
    "SPECIALIST_STAGES_INCOMPLETE", "MAX_ATTEMPTS"}

(* What is absent is none of the things that can be there. *)
ASSUME NoneAssumption == None \notin AllKeys \cup Verdicts \cup {"data"} \cup Codes

(* The stages a run needs before it may succeed (specialistPlan; a report  *)
(* needs all of them).                                                     *)
Plan ==
    CASE target = "report"  -> Kinds
      [] target = "insight" -> {"coordinator", "data", "insight"} \cup Branches
      [] OTHER              -> {"coordinator", "data", target}

Phases == {"idle", "store", "mark", "tell", "done", "error"}
TaskStatuses == {"none", "running", "succeeded", "failed"}

TypeOK ==
    /\ target \in Targets
    /\ status \in {"queued", "running", "succeeded", "failed"}
    /\ attempt \in 0 .. MaxAttempts
    /\ task \in [Kinds -> [status : TaskStatuses, attempt : 0 .. MaxAttempts]]
    /\ artifact \in [AllKeys -> Contents]
    /\ told \subseteq Kinds
    /\ published \in AllKeys \cup {None}
    /\ pc \in [Steps -> Phases]
    /\ {error_code, thrown} \subseteq Codes \cup {None}

-----------------------------------------------------------------------------
(* What is stored *)

Has(key) == artifact[key] # None
HasAll(s) == \A key \in KeySet[s] : Has(key)
Succeeded(k) == task[k].status = "succeeded"

(* isCurrentSuccessfulTask *)
Current(k) == Succeeded(k) /\ task[k].attempt = attempt

(* draftTwo ?? draftOne, and the review result of the same revision. *)
LatestDraft == IF Has("report_draft:2") THEN "report_draft:2" ELSE "report_draft:1"
ReviewOf(draft) ==
    IF draft = "report_draft:2" THEN "review_result:2" ELSE "review_result:1"
Verdict == artifact[ReviewOf(LatestDraft)]

SetTask(k, to) == task' = [task EXCEPT ![k] = [status |-> to, attempt |-> attempt]]

-----------------------------------------------------------------------------
(* Which step may begin *)

(* After the review of a first draft the coordinator asks for one revision. *)
NeedsRevision == LatestDraft = "report_draft:1" /\ Verdict = "REVISION_REQUIRED"

(* loadDataStageArtifacts accepts the whole of coordinator and data. *)
Recovered ==
    /\ HasAll("coordinator") /\ HasAll("data")
    /\ Succeeded("coordinator") /\ Succeeded("data")

(* Mutant: data waits for the coordinator's task even when both are        *)
(* recovered, while the coordinator's task waits for data to be loaded.    *)
BeforeInOrder(s) ==
    CASE s = "coordinator" -> TRUE
      [] s = "data"        -> pc["coordinator"] = "done"
      [] s \in Branches    -> pc["data"] = "done"
      [] s = "insight"     -> \A b \in Branches : pc[b] = "done"
      [] s = "report"      -> pc["insight"] = "done"
      [] s = "reviewer"    -> pc["report"] = "done"
      [] s = "revision"    -> pc["reviewer"] = "done" /\ NeedsRevision
      [] s = "recheck"     -> pc["revision"] = "done"
      [] OTHER             -> \/ pc["reviewer"] = "done" /\ pc["revision"] = "idle"
                                 /\ ~NeedsRevision
                              \/ pc["recheck"] = "done"

(* The steps before s are done; recovered data is told before the          *)
(* coordinator's task is marked again.                                     *)
Before(s) ==
    CASE s = "coordinator" -> TRUE
      [] s = "data"        -> \/ pc["coordinator"] = "done"
                              \/ pc["coordinator"] = "mark" /\ Recovered
      [] s \in Branches    -> pc["data"] = "done"
      [] s = "insight"     -> \A b \in Branches : pc[b] = "done"
      [] s = "report"      -> pc["insight"] = "done"
      [] s = "reviewer"    -> pc["report"] = "done"
      [] s = "revision"    -> pc["reviewer"] = "done" /\ NeedsRevision
      [] s = "recheck"     -> pc["revision"] = "done"
      [] OTHER             -> \/ pc["reviewer"] = "done" /\ pc["revision"] = "idle"
                                 /\ ~NeedsRevision
                              \/ pc["recheck"] = "done"

Ready(s) ==
    /\ status = "running"
    /\ thrown = None
    /\ TaskOf(s) \in Plan
    /\ pc[s] = "idle"
    /\ Before(s)

InProgress(s) == status = "running" /\ pc[s] \in {"store", "mark", "tell"}

-----------------------------------------------------------------------------
(* What a step refuses to continue from *)

CoordinatorProblem ==
    IF HasAll("coordinator") /\ HasAll("data")
    THEN IF Recovered THEN None ELSE "INVALID_DATA_STAGE_ARTIFACT"
    ELSE IF Succeeded("data") THEN "ARTIFACT_NOT_FOUND"
    ELSE IF HasAll("coordinator") /\ ~Succeeded("coordinator")
    THEN "INVALID_COORDINATOR_STAGE_ARTIFACT"
    ELSE IF ~HasAll("coordinator") /\ Succeeded("coordinator") THEN "ARTIFACT_NOT_FOUND"
    ELSE None

(* Mutant: a branch with a part of its artifacts is taken for damaged. *)
StrictBranchProblem(s) ==
    IF ~HasAll(s) /\ (Succeeded(s) \/ \E key \in KeySet[s] : Has(key))
    THEN "INVALID_BRANCH_STAGE_ARTIFACT" ELSE None

BranchProblem(s) ==
    IF \/ s = "chart" /\ Has("chart_pack") /\ ~Has("chart.visual_evidence")
       \/ Succeeded(s) /\ ~HasAll(s)
    THEN "INVALID_BRANCH_STAGE_ARTIFACT"
    ELSE IF ~HasAll(s) /\ ~Succeeded("data") THEN "UNVALIDATED_DEPENDENCY" ELSE None

(* loadBranchStageArtifacts, then the checks of executeInsightStage. *)
InsightProblem ==
    IF \E b \in Branches : ~Succeeded(b) THEN "INVALID_BRANCH_STAGE_ARTIFACT"
    ELSE IF \E b \in Branches : ~HasAll(b) THEN "ARTIFACT_NOT_FOUND"
    ELSE IF \/ Has("insight_pack") /\ ~HasAll("insight")
            \/ ~Has("insight_pack") /\ Has("decision_intelligence_pack")
            \/ ~Has("insight_pack") /\ Succeeded("insight")
    THEN "INVALID_INSIGHT_STAGE_ARTIFACT" ELSE None

(* loadInsightStageArtifacts, then the check of executeReportDraftStage. *)
ReportProblem ==
    IF ~Succeeded("insight") \/ ~HasAll("insight") THEN "INVALID_INSIGHT_STAGE_ARTIFACT"
    ELSE IF ~Has("report_draft:1") /\ Succeeded("report")
    THEN "INVALID_REPORT_DRAFT_STAGE_ARTIFACT" ELSE None

(* loadReportDraftStage: a second draft rests on the first and its review. *)
DraftProblem ==
    IF \/ ~Has("report_draft:1")
       \/ ~Succeeded("report")
       \/ Has("report_draft:2") /\ ~Has("review_result:1")
    THEN "INVALID_REPORT_DRAFT_STAGE_ARTIFACT" ELSE None

(* loadReviewStageArtifacts *)
ReviewProblem ==
    IF DraftProblem # None THEN DraftProblem
    ELSE IF Verdict = None \/ ~Succeeded("reviewer") THEN "INVALID_REVIEW_STAGE_ARTIFACT"
    ELSE None

(* Mutant: publication forgets to ask for the reviewer's PASS. *)
UnreviewedPublicationProblem == ReviewProblem

(* publishIfPassed, then executePublicationStage *)
PublicationProblem ==
    IF ReviewProblem # None THEN ReviewProblem
    ELSE IF Verdict # "PASS" THEN "REVIEW_REVISION_LIMIT" ELSE None

RevisionProblem ==
    IF ReviewProblem # None THEN ReviewProblem
    ELSE IF ~NeedsRevision THEN "REPORT_REVISION_NOT_REQUIRED" ELSE None

Problem(s) ==
    CASE s = "coordinator"             -> CoordinatorProblem
      [] s = "data"                    -> None
      [] s \in Branches                -> BranchProblem(s)
      [] s = "insight"                 -> InsightProblem
      [] s = "report"                  -> ReportProblem
      [] s \in {"reviewer", "recheck"} -> DraftProblem
      [] s = "revision"                -> RevisionProblem
      [] OTHER                         -> PublicationProblem

(* The task the catch block of a step marks failed.  Coordinator and data  *)
(* are one function with one catch block: it blames the coordinator until  *)
(* it turns to the task of data.  The review limit is recorded on the      *)
(* reviewer's task.                                                        *)
Blamed(s, code) ==
    IF s \in {"coordinator", "data"}
    THEN IF pc["coordinator"] = "done" THEN "data" ELSE "coordinator"
    ELSE IF code = "REVIEW_REVISION_LIMIT" THEN "reviewer" ELSE TaskOf(s)

-----------------------------------------------------------------------------
(* The transactions of a step *)

(* Mutant: the first stored artifact of a stage stands for all of them. *)
AnchorFirst(s) ==
    CASE s \in Branches \cup {"insight", "report"} -> Keys[s][1]
      [] OTHER -> None

(* The pack whose presence makes a step reuse what is stored.  The         *)
(* reviewer and the revision always run again, over what they stored.      *)
Anchor(s) ==
    CASE s = "comparison" -> "comparison_pack"
      [] s = "chart"      -> "chart_pack"
      [] s = "analyst"    -> "analysis_pack"
      [] s = "insight"    -> "insight_pack"
      [] s = "report"     -> "report_draft:1"
      [] OTHER            -> None

Reusable(s) == Anchor(s) # None /\ Has(Anchor(s))

(* Coordinator and data are rehydrated before anything is written. *)
Rehydratable(s) ==
    \/ s = "coordinator" /\ HasAll(s) /\ Succeeded(s)
    \/ s = "data" /\ Recovered

(* loadDataStageArtifacts, loadCoordinatorStageArtifacts: their one write  *)
(* is the stage's chat message.                                            *)
Rehydrate(s) ==
    /\ Ready(s) /\ Problem(s) = None
    /\ Rehydratable(s)
    /\ told' = told \cup {s}
    /\ pc' = [pc EXCEPT ![s] = "mark"]
    /\ UNCHANGED <<target, status, attempt, error_code, task, artifact, published, thrown>>

(* Mutant: a reused stage does not write its chat message again. *)
ReuseSilently(s) ==
    /\ Ready(s) /\ Problem(s) = None
    /\ Reusable(s)
    /\ SetTask(TaskOf(s), "succeeded")
    /\ pc' = [pc EXCEPT ![s] = "done"]
    /\ UNCHANGED <<target, status, attempt, error_code, artifact, told, published, thrown>>

(* The stage's pack is stored: its task succeeds in this attempt too. *)
Reuse(s) ==
    /\ Ready(s) /\ Problem(s) = None
    /\ Reusable(s)
    /\ SetTask(TaskOf(s), "succeeded")
    /\ pc' = [pc EXCEPT ![s] = "tell"]
    /\ UNCHANGED <<target, status, attempt, error_code, artifact, told, published, thrown>>

Start(s) ==
    /\ Ready(s) /\ Problem(s) = None
    /\ ~Reusable(s) /\ ~Rehydratable(s)
    /\ SetTask(TaskOf(s), "running")
    /\ pc' = [pc EXCEPT ![s] = "store"]
    /\ UNCHANGED <<target, status, attempt, error_code, artifact, told, published, thrown>>

(* Mutant: packs are built on a new answer of the provider. *)
PayloadsAskingAgain(key) ==
    CASE key \in KeySet["insight"] -> Narratives
      [] key \in {"report_draft:1", "report_draft:2"} -> {artifact["insight"]}
      [] key \in {"review_result:1", "review_result:2"} -> Verdicts
      [] OTHER -> {"data"}

(* What a step may store under a key: the provider's answer, the           *)
(* reviewer's verdict, or what follows from the stored narrative or data.  *)
Payloads(key) ==
    CASE key = "insight" -> Narratives
      [] key \in {"insight_pack", "decision_intelligence_pack",
                  "report_draft:1", "report_draft:2"} -> {artifact["insight"]}
      [] key \in {"review_result:1", "review_result:2"} -> Verdicts
      [] OTHER -> {"data"}

(* The keys step s stores; a review goes with the draft it reviewed. *)
Output(s) == IF s \in {"reviewer", "recheck"} THEN <<ReviewOf(LatestDraft)>> ELSE Keys[s]

(* persistStageArtifact stores the first artifact that is missing. *)
StoreArtifact(s) ==
    /\ InProgress(s) /\ pc[s] = "store"
    /\ \E i \in DOMAIN Output(s) :
          /\ ~Has(Output(s)[i])
          /\ \A j \in 1 .. i - 1 : Has(Output(s)[j])
          /\ \E p \in Payloads(Output(s)[i]) :
                artifact' = [artifact EXCEPT ![Output(s)[i]] = p]
    /\ UNCHANGED <<target, status, attempt, error_code, task, told, published, pc, thrown>>

(* The artifacts are stored: the task succeeds, and then the message says so. *)
Complete(s) ==
    /\ InProgress(s) /\ pc[s] = "store"
    /\ s # "publication"
    /\ \A i \in DOMAIN Output(s) : Has(Output(s)[i])
    /\ SetTask(TaskOf(s), "succeeded")
    /\ pc' = [pc EXCEPT ![s] = "tell"]
    /\ UNCHANGED <<target, status, attempt, error_code, artifact, told, published, thrown>>

(* The task of a rehydrated stage succeeds in this attempt too, the        *)
(* coordinator's before that of data.                                      *)
Remark(s) ==
    /\ InProgress(s) /\ pc[s] = "mark"
    /\ IF s = "coordinator" THEN Recovered => pc["data"] = "mark"
                            ELSE pc["coordinator"] = "done"
    /\ SetTask(s, "succeeded")
    /\ pc' = [pc EXCEPT ![s] = "done"]
    /\ UNCHANGED <<target, status, attempt, error_code, artifact, told, published, thrown>>

(* upsertStageMessage *)
Tell(s) ==
    /\ InProgress(s) /\ pc[s] = "tell"
    /\ told' = told \cup {TaskOf(s)}
    /\ pc' = [pc EXCEPT ![s] = "done"]
    /\ UNCHANGED <<target, status, attempt, error_code, task, artifact, published, thrown>>

(* The step throws code: its catch block marks the task failed, unless     *)
(* that fails as well, and the error goes up to failRun.                   *)
Throws(s, code) ==
    /\ \/ SetTask(Blamed(s, code), "failed")
       \/ Faults /\ UNCHANGED task
    /\ pc' = [pc EXCEPT ![s] = "error"]
    /\ thrown' = IF thrown = None THEN code ELSE thrown
    /\ UNCHANGED <<target, status, attempt, error_code, artifact, told, published>>

Refuse(s) == Ready(s) /\ Problem(s) # None /\ Throws(s, Problem(s))

(* A database or provider call fails. *)
Fault(s) == Faults /\ (Ready(s) \/ InProgress(s)) /\ Throws(s, "FAULT")

(* The tool call gives up on the step, which goes on in the background.    *)
TimeOut(s) ==
    /\ Faults
    /\ InProgress(s) /\ s # "publication"
    /\ thrown = None
    /\ thrown' = "TOOL_TIMEOUT"
    /\ UNCHANGED <<target, status, attempt, error_code, stored, pc>>

-----------------------------------------------------------------------------
(* The terminal transactions *)

(* publishReviewedDraft: the persisted publication task runs in this       *)
(* attempt, its predecessors succeeded in it, and there is no report yet.  *)
(* executePublicationStage would first mark report and reviewer again, but *)
(* both have run in this very attempt.                                     *)
Publish ==
    /\ InProgress("publication")
    /\ IF /\ task["publication"] = [status |-> "running", attempt |-> attempt]
          /\ Current("report") /\ Current("reviewer")
          /\ published = None
       THEN /\ published' = LatestDraft
            /\ SetTask("publication", "succeeded")
            /\ status' = "succeeded"
            /\ pc' = [pc EXCEPT !["publication"] = "done"]
            /\ UNCHANGED <<target, attempt, error_code, artifact, told, thrown>>
       ELSE Throws("publication", "INVALID_PUBLICATION_PREDECESSOR")

(* finishAgentArtifactRun: every stage of the plan succeeded in this       *)
(* attempt and the specialist's artifact is stored.                        *)
FinishAgentArtifactRun ==
    /\ status = "running" /\ thrown = None
    /\ target # "report"
    /\ pc[target] = "done"
    /\ IF HasAll(target) /\ \A k \in Plan : Current(k)
       THEN status' = "succeeded" /\ UNCHANGED thrown
       ELSE thrown' = "SPECIALIST_STAGES_INCOMPLETE" /\ UNCHANGED status
    /\ UNCHANGED <<target, attempt, error_code, stored, pc>>

(* failRun and terminalizeRun: tasks still running fail with the run.      *)
(* Branches that go on after their tool call gave up lose the fence here.  *)
FailRun ==
    /\ status = "running" /\ thrown # None
    /\ status' = "failed"
    /\ error_code' = thrown
    /\ task' = [k \in Kinds |-> IF task[k].status = "running"
                                THEN [task[k] EXCEPT !.status = "failed"] ELSE task[k]]
    /\ pc' = [s \in Steps |-> "idle"]
    /\ thrown' = None
    /\ UNCHANGED <<target, attempt, artifact, told, published>>

(* claimNextRun: a queued run, or a running one whose owner died or lost   *)
(* its lease.  The new owner starts the workflow from its first step.      *)
Claim ==
    /\ attempt < MaxAttempts
    /\ status' = "running"
    /\ attempt' = attempt + 1
    /\ error_code' = None
    /\ pc' = [s \in Steps |-> "idle"]
    /\ thrown' = None
    /\ UNCHANGED <<target, stored>>

ClaimQueued == status = "queued" /\ Claim

Reclaim == status = "running" /\ Claim

(* The attempts are used up: the claim fails the run. *)
RejectClaim ==
    /\ status = "running" /\ attempt = MaxAttempts
    /\ status' = "failed"
    /\ error_code' = "MAX_ATTEMPTS"
    /\ task' = [k \in Kinds |-> IF task[k].status = "running"
                                THEN [task[k] EXCEPT !.status = "failed"] ELSE task[k]]
    /\ pc' = [s \in Steps |-> "idle"]
    /\ thrown' = None
    /\ UNCHANGED <<target, attempt, artifact, told, published>>

(* retryRun: tasks and artifacts stay as they are. *)
RetryRun ==
    /\ status = "failed"
    /\ attempt < MaxAttempts
    /\ status' = "queued"
    /\ error_code' = None
    /\ UNCHANGED <<target, attempt, stored, pc, thrown>>

-----------------------------------------------------------------------------

Init ==
    /\ target \in Targets
    /\ status = "queued"
    /\ attempt = 0
    /\ error_code = None
    /\ task = [k \in Kinds |-> [status |-> "none", attempt |-> 0]]
    /\ artifact = [key \in AllKeys |-> None]
    /\ told = {}
    /\ published = None
    /\ pc = [s \in Steps |-> "idle"]
    /\ thrown = None

Step(s) ==
    \/ Rehydrate(s) \/ Reuse(s) \/ Start(s) \/ StoreArtifact(s) \/ Complete(s)
    \/ Remark(s) \/ Tell(s) \/ Refuse(s)

(* What the worker does when nothing goes wrong from outside. *)
Proceed ==
    \/ \E s \in Steps : Step(s)
    \/ Publish \/ FinishAgentArtifactRun \/ FailRun \/ ClaimQueued

Disturb == (\E s \in Steps : Fault(s) \/ TimeOut(s)) \/ Reclaim \/ RejectClaim

Next == Proceed \/ Disturb \/ RetryRun

Spec == Init /\ [][Next]_vars

(* A worker that lives carries on: every call returns, fails or times out. *)
FairSpec == Spec /\ WF_vars(Proceed)

-----------------------------------------------------------------------------
(* Properties *)

(* A checkpoint tells the truth: a task succeeded only when everything its *)
(* stage is to leave behind is stored, whatever attempt marked it.         *)
CheckpointHonest == \A k \in Kinds : Succeeded(k) => HasAll(k)

(* What the artifact under a key was made from. *)
Inputs == [key \in AllKeys |->
    CASE key \in KeySet["coordinator"] -> {}
      [] key \in KeySet["data"] -> KeySet["coordinator"]
      [] key \in UNION {KeySet[b] : b \in Branches} -> KeySet["data"]
      [] key = "insight" -> UNION {KeySet[b] : b \in Branches}
      [] key = "insight_pack" -> {"insight"}
      [] key = "decision_intelligence_pack" -> {"insight_pack"}
      [] key = "report_draft:1" -> KeySet["insight"]
      [] key = "review_result:1" -> {"report_draft:1"}
      [] key = "report_draft:2" -> {"review_result:1"} \cup KeySet["insight"]
      [] OTHER -> {"report_draft:2"}]

(* Attempts never mix: whatever is stored has all its inputs stored, one   *)
(* narrative runs through insight, decision and drafts though the provider *)
(* may answer each attempt differently, and a second draft answers a       *)
(* review that asked for it.                                               *)
Lineage ==
    /\ \A key \in AllKeys : Has(key) => \A input \in Inputs[key] : Has(input)
    /\ \A key \in KeySet["insight"] \cup {"report_draft:1", "report_draft:2"} :
          Has(key) => artifact[key] = artifact["insight"]
    /\ Has("report_draft:2") => artifact["review_result:1"] = "REVISION_REQUIRED"

(* What is published was reviewed: the last draft there is, with a PASS    *)
(* for exactly that draft; and all stages succeeded in the last attempt.   *)
PublishedReviewed ==
    /\ published # None => /\ status = "succeeded" /\ published = LatestDraft
                           /\ artifact[ReviewOf(published)] = "PASS"
    /\ status = "succeeded" => \A k \in Plan : Current(k)

(* No chat message is lost to a crash: when the run succeeds every stage   *)
(* of its plan has reported, and none reported before it succeeded.        *)
AllStagesTold ==
    /\ status = "succeeded" => Plan \ {"publication"} \subseteq told
    /\ \A k \in told : HasAll(k)

(* The codes a stage gives up with when it cannot use what it finds. *)
CoordinatorDataCodes == {"INVALID_COORDINATOR_STAGE_ARTIFACT", "INVALID_DATA_STAGE_ARTIFACT"}
InsightCodes == {"INVALID_INSIGHT_STAGE_ARTIFACT"}

(* Whatever crashes, faults and timeouts leave behind, the branches, the   *)
(* report, the review, its revision and the publication can carry on: only *)
(* coordinator, data and insight ever refuse what is stored, and apart     *)
(* from that a run fails only for a fault, a review or its attempts.       *)
LateStagesRecover ==
    {error_code, thrown} \subseteq
        {None, "FAULT", "TOOL_TIMEOUT", "REVIEW_REVISION_LIMIT", "MAX_ATTEMPTS"}
            \cup CoordinatorDataCodes \cup InsightCodes

(* The workflow never hangs: no order of reuse and repetition leaves a     *)
(* claimed run without a next step.                                        *)
AttemptsEnd == status \in {"queued", "running"} ~> status \in {"succeeded", "failed"}

(* docs/architecture/execution-model.md: a worker that is interrupted or   *)
(* loses its lease lets the new owner continue from valid checkpoints and  *)
(* artifacts.  Stated for the coordinator and data stages.                 *)
ResumesFromCheckpoints == {error_code, thrown} \cap CoordinatorDataCodes = {}

(* insight-report.ts: the Insight stage is retry-safe. *)
InsightRetrySafe == {error_code, thrown} \cap InsightCodes = {}
=============================================================================
