----------------------- MODULE StageCheckpoints_proofs -----------------------
(***************************************************************************)
(* The stages of a run and their checkpoints, proved for every set of      *)
(* targets, any number of attempts and any answers of the provider, with   *)
(* workers that die between any two transactions, calls that fail and      *)
(* steps that go on after their tool call has given up.                    *)
(***************************************************************************)
EXTENDS StageCheckpoints, TLAPS

(* The steps of one attempt wait for each other.                           *)
InOrder ==
    /\ pc["data"] # "idle" => pc["coordinator"] \in {"mark", "done", "error"}
    /\ pc["data"] \in {"store", "tell", "done"} => pc["coordinator"] = "done"
    /\ \A b \in Branches : pc[b] # "idle" => pc["data"] = "done"
    /\ pc["insight"] # "idle" => \A b \in Branches : pc[b] = "done"
    /\ pc["report"] # "idle" => pc["insight"] = "done"
    /\ pc["reviewer"] # "idle" => pc["report"] = "done"
    /\ pc["revision"] # "idle" => pc["reviewer"] = "done"
    /\ pc["recheck"] # "idle" => pc["revision"] = "done"
    /\ pc["publication"] # "idle" =>
          pc["reviewer"] = "done" /\ (pc["revision"] = "idle" \/ pc["recheck"] = "done")

(* Only coordinator and data are rehydrated, and the publication, which    *)
(* tells nothing, is the last thing that happens in a run.                 *)
PhasesFit ==
    /\ \A s \in Steps : pc[s] = "mark" => s \in {"coordinator", "data"}
    /\ pc["publication"] \in {"idle", "store", "done", "error"}
    /\ pc["publication"] = "done" => status # "running"
    /\ pc["publication"] = "error" => thrown # None

(* A step that has stored has everything it is to store.                   *)
StoredWhole == \A s \in Steps : pc[s] \in {"mark", "tell", "done"} => HasAll(s)

(* What a step knows of the reviews once it has begun.                     *)
ReviewsKnown ==
    /\ pc["reviewer"] \in {"tell", "done"} /\ pc["revision"] = "idle" => Verdict # None
    /\ pc["revision"] # "idle" => artifact["review_result:1"] = "REVISION_REQUIRED"
    /\ pc["publication"] \in {"store", "done"} => Verdict = "PASS"

(* What succeeded in this attempt stays so, unless a later step blames it. *)
TasksCurrent ==
    /\ \A s \in {"coordinator", "data", "insight"} \cup Branches :
          pc[s] \in {"tell", "done"} => Current(s)
    /\ pc["report"] \in {"tell", "done"} /\ pc["revision"] = "idle" => Current("report")
    /\ pc["revision"] \in {"tell", "done"} => Current("report")
    /\ pc["reviewer"] \in {"tell", "done"} /\ pc["recheck"] = "idle"
          /\ pc["publication"] # "error" => Current("reviewer")
    /\ pc["recheck"] \in {"tell", "done"} /\ pc["publication"] # "error" => Current("reviewer")
    /\ pc["publication"] = "store" =>
          task["publication"] = [status |-> "running", attempt |-> attempt]

(* A step is done when it has told. *)
ToldWhenDone ==
    \A s \in Steps \ {"publication"} : pc[s] \in {"mark", "done"} => TaskOf(s) \in told

(* The pictures are stored before the pack that shows them. *)
PicturesFirst == Has("chart_pack") => Has("chart.visual_evidence")

IInv ==
    /\ TypeOK /\ InOrder /\ PhasesFit /\ StoredWhole /\ ReviewsKnown /\ TasksCurrent
    /\ ToldWhenDone /\ PicturesFirst
    /\ CheckpointHonest /\ Lineage /\ PublishedReviewed /\ AllStagesTold /\ LateStagesRecover

-----------------------------------------------------------------------------
(* Steps and keys *)

LEMMA StepNames ==
  /\ Steps = {"coordinator", "data", "comparison", "chart", "analyst", "insight", "report",
              "reviewer", "publication", "revision", "recheck"}
  /\ Kinds = {"coordinator", "data", "comparison", "chart", "analyst", "insight", "report",
              "reviewer", "publication"}
  /\ Kinds \subseteq Steps /\ Branches \subseteq Kinds
  /\ \A s \in Steps : TaskOf(s) \in Kinds
  /\ \A s \in Kinds : TaskOf(s) = s
  /\ TaskOf("revision") = "report" /\ TaskOf("recheck") = "reviewer"
  BY DEF Steps, Kinds, Branches, TaskOf

(* What each step stores, in its order. *)
LEMMA KeyLists ==
  /\ Keys["coordinator"] = <<"analysis_request", "coordinator_decision">>
  /\ Keys["data"] = <<"data.query", "data.query_result", "data.calculation",
                      "data.comparison_calculation", "data.comparison", "data_analysis_pack">>
  /\ Keys["comparison"] = <<"comparison_pack">>
  /\ Keys["chart"] = <<"chart.visual_evidence", "chart_pack">>
  /\ Keys["analyst"] = <<"analysis_pack">>
  /\ Keys["insight"] = <<"insight", "insight_pack", "decision_intelligence_pack">>
  /\ Keys["report"] = <<"report_draft:1">>
  /\ Keys["reviewer"] = <<"review_result:1">>
  /\ Keys["revision"] = <<"report_draft:2">>
  /\ Keys["recheck"] = <<"review_result:2">>
  /\ Keys["publication"] = <<>>
  BY StepNames DEF Keys

LEMMA KeySets ==
  /\ KeySet["coordinator"] = {"analysis_request", "coordinator_decision"}
  /\ KeySet["data"] = {"data.query", "data.query_result", "data.calculation",
                       "data.comparison_calculation", "data.comparison", "data_analysis_pack"}
  /\ KeySet["comparison"] = {"comparison_pack"}
  /\ KeySet["chart"] = {"chart.visual_evidence", "chart_pack"}
  /\ KeySet["analyst"] = {"analysis_pack"}
  /\ KeySet["insight"] = {"insight", "insight_pack", "decision_intelligence_pack"}
  /\ KeySet["report"] = {"report_draft:1"}
  /\ KeySet["reviewer"] = {"review_result:1"}
  /\ KeySet["revision"] = {"report_draft:2"}
  /\ KeySet["recheck"] = {"review_result:2"}
  /\ KeySet["publication"] = {}
  <1>1. \A s \in Steps : KeySet[s] = {Keys[s][i] : i \in DOMAIN Keys[s]}
    BY DEF KeySet
  <1>2. ASSUME NEW a PROVE {<<a>>[i] : i \in DOMAIN <<a>>} = {a}
    OBVIOUS
  <1>3. ASSUME NEW a, NEW b PROVE {<<a, b>>[i] : i \in DOMAIN <<a, b>>} = {a, b}
    OBVIOUS
  <1>4. ASSUME NEW a, NEW b, NEW c
        PROVE {<<a, b, c>>[i] : i \in DOMAIN <<a, b, c>>} = {a, b, c}
    OBVIOUS
  <1>5. ASSUME NEW a, NEW b, NEW c, NEW d, NEW e, NEW f
        PROVE {<<a, b, c, d, e, f>>[i] : i \in DOMAIN <<a, b, c, d, e, f>>} = {a, b, c, d, e, f}
    OBVIOUS
  <1>6. {<<>>[i] : i \in DOMAIN <<>>} = {}
    OBVIOUS
  <1>7. /\ KeySet["coordinator"] = {"analysis_request", "coordinator_decision"}
        /\ KeySet["chart"] = {"chart.visual_evidence", "chart_pack"}
    BY <1>1, <1>3, KeyLists, StepNames
  <1>8. KeySet["data"] = {"data.query", "data.query_result", "data.calculation",
                          "data.comparison_calculation", "data.comparison", "data_analysis_pack"}
    BY <1>1, <1>5, KeyLists, StepNames
  <1>9. /\ KeySet["comparison"] = {"comparison_pack"}
        /\ KeySet["analyst"] = {"analysis_pack"}
        /\ KeySet["report"] = {"report_draft:1"}
        /\ KeySet["reviewer"] = {"review_result:1"}
        /\ KeySet["revision"] = {"report_draft:2"}
        /\ KeySet["recheck"] = {"review_result:2"}
    BY <1>1, <1>2, KeyLists, StepNames
  <1>10. KeySet["insight"] = {"insight", "insight_pack", "decision_intelligence_pack"}
    BY <1>1, <1>4, KeyLists, StepNames
  <1>11. KeySet["publication"] = {}
    BY <1>1, <1>6, KeyLists, StepNames
  <1>. QED
    BY <1>7, <1>8, <1>9, <1>10, <1>11

LEMMA KeyNames ==
  /\ AllKeys = KeySet["coordinator"] \cup KeySet["data"] \cup KeySet["comparison"]
               \cup KeySet["chart"] \cup KeySet["analyst"] \cup KeySet["insight"]
               \cup {"report_draft:1", "review_result:1", "report_draft:2", "review_result:2"}
  /\ \A s \in Steps : KeySet[s] \subseteq AllKeys
  /\ None \notin AllKeys
  <1>1. \A s \in Steps : KeySet[s] \subseteq AllKeys
    BY DEF AllKeys
  <1>2. AllKeys = KeySet["coordinator"] \cup KeySet["data"] \cup KeySet["comparison"]
                  \cup KeySet["chart"] \cup KeySet["analyst"] \cup KeySet["insight"]
                  \cup KeySet["report"] \cup KeySet["reviewer"] \cup KeySet["revision"]
                  \cup KeySet["recheck"] \cup KeySet["publication"]
    BY StepNames DEF AllKeys
  <1>3. AllKeys = KeySet["coordinator"] \cup KeySet["data"] \cup KeySet["comparison"]
               \cup KeySet["chart"] \cup KeySet["analyst"] \cup KeySet["insight"]
               \cup {"report_draft:1", "review_result:1", "report_draft:2", "review_result:2"}
    BY <1>2, KeySets
  <1>. QED
    BY <1>1, <1>3, NoneAssumption

(* The first part of Lineage, input by input. *)
Inherits(a) == \A key \in AllKeys : a[key] # None => \A input \in Inputs[key] : a[input] # None

LEMMA InputSets ==
  ASSUME NEW a
  PROVE  Inherits(a) <=>
           /\ \A key \in KeySet["data"] :
                 a[key] # None => \A input \in KeySet["coordinator"] : a[input] # None
           /\ \A b \in Branches : \A key \in KeySet[b] :
                 a[key] # None => \A input \in KeySet["data"] : a[input] # None
           /\ a["insight"] # None => \A b \in Branches : \A input \in KeySet[b] : a[input] # None
           /\ a["insight_pack"] # None => a["insight"] # None
           /\ a["decision_intelligence_pack"] # None => a["insight_pack"] # None
           /\ a["report_draft:1"] # None => \A input \in KeySet["insight"] : a[input] # None
           /\ a["review_result:1"] # None => a["report_draft:1"] # None
           /\ a["report_draft:2"] # None => /\ a["review_result:1"] # None
                                            /\ \A input \in KeySet["insight"] : a[input] # None
           /\ a["review_result:2"] # None => a["report_draft:2"] # None
  <1>b. UNION {KeySet[b] : b \in Branches} =
           {"comparison_pack", "chart.visual_evidence", "chart_pack", "analysis_pack"}
    BY KeySets DEF Branches
  <1>. DEFINE Late == {"insight", "insight_pack", "decision_intelligence_pack", "report_draft:1",
                       "review_result:1", "report_draft:2", "review_result:2"}
              OfBranches == UNION {KeySet[b] : b \in Branches}
  <1>1. \A key \in KeySet["coordinator"] : Inputs[key] = {}
    <2>1. \A key \in KeySet["coordinator"] :
             key \in AllKeys /\ key \notin KeySet["data"] /\ key \notin OfBranches /\ key \notin Late
      BY <1>b, KeyNames, KeySets
    <2>. QED
      BY <2>1 DEF Inputs
  <1>2. \A key \in KeySet["data"] : Inputs[key] = KeySet["coordinator"]
    <2>1. \A key \in KeySet["data"] :
             key \in AllKeys /\ key \notin KeySet["coordinator"] /\ key \notin OfBranches
                /\ key \notin Late
      BY <1>b, KeyNames, KeySets
    <2>. QED
      BY <2>1 DEF Inputs
  <1>3. \A b \in Branches : \A key \in KeySet[b] : Inputs[key] = KeySet["data"]
    <2>1. \A b \in Branches : \A key \in KeySet[b] : key \in OfBranches
      OBVIOUS
    <2>2. \A key \in OfBranches :
             key \in AllKeys /\ key \notin KeySet["coordinator"] /\ key \notin KeySet["data"]
                /\ key \notin Late
      BY <1>b, KeyNames, KeySets
    <2>3. \A key \in OfBranches : Inputs[key] = KeySet["data"]
      BY <2>2 DEF Inputs
    <2>. QED
      BY <2>1, <2>3
  <1>4. /\ Inputs["insight"] = UNION {KeySet[b] : b \in Branches}
        /\ Inputs["insight_pack"] = {"insight"}
        /\ Inputs["decision_intelligence_pack"] = {"insight_pack"}
        /\ Inputs["report_draft:1"] = KeySet["insight"]
        /\ Inputs["review_result:1"] = {"report_draft:1"}
        /\ Inputs["report_draft:2"] = {"review_result:1"} \cup KeySet["insight"]
        /\ Inputs["review_result:2"] = {"report_draft:2"}
    <2>1. \A key \in Late : /\ key \in AllKeys /\ key \notin KeySet["coordinator"]
                            /\ key \notin KeySet["data"]
                            /\ key \notin UNION {KeySet[b] : b \in Branches}
      BY <1>b, KeyNames, KeySets
    <2>. QED
      BY <2>1 DEF Inputs
  <1>5. \A key \in AllKeys :
           \/ key \in KeySet["coordinator"] \/ key \in KeySet["data"]
           \/ \E b \in Branches : key \in KeySet[b]
           \/ key \in Late
    BY KeyNames, KeySets DEF Branches
  <1>6. \A key \in KeySet["data"] : key \in AllKeys
    BY KeyNames, StepNames
  <1>7. \A b \in Branches : \A key \in KeySet[b] : key \in AllKeys
    BY KeyNames, StepNames
  <1>8. Late \subseteq AllKeys
    BY KeyNames, KeySets
  <1>9. (\A input \in Inputs["insight"] : a[input] # None)
           <=> \A b \in Branches : \A input \in KeySet[b] : a[input] # None
    BY <1>4
  <1>. QED
    BY <1>1, <1>2, <1>3, <1>4, <1>5, <1>6, <1>7, <1>8, <1>9 DEF Inherits

-----------------------------------------------------------------------------
(* What a step stores *)

(* One key is written once, by the step whose key it is, after the keys    *)
(* before it, with one of the payloads it may have.                        *)
Writes(s, key) ==
    /\ key \in AllKeys /\ ~Has(key)
    /\ \E p \in Payloads(key) : artifact' = [artifact EXCEPT ![key] = p]
    /\ IF s \in {"reviewer", "recheck"} THEN key = ReviewOf(LatestDraft) ELSE key \in KeySet[s]
    /\ key = "chart_pack" => Has("chart.visual_evidence")
    /\ key = "insight_pack" => Has("insight")
    /\ key = "decision_intelligence_pack" => Has("insight") /\ Has("insight_pack")

LEMMA StoreWrites ==
  ASSUME NEW s \in Steps, StoreArtifact(s)
  PROVE  \E key \in AllKeys : Writes(s, key)
  <1>1. PICK i \in DOMAIN Output(s) :
           /\ ~Has(Output(s)[i])
           /\ \A j \in 1 .. i - 1 : Has(Output(s)[j])
           /\ \E p \in Payloads(Output(s)[i]) :
                 artifact' = [artifact EXCEPT ![Output(s)[i]] = p]
    BY DEF StoreArtifact
  <1>2. CASE s \in {"reviewer", "recheck"}
    <2>1. Output(s) = <<ReviewOf(LatestDraft)>>
      BY <1>2 DEF Output
    <2>2. i = 1 /\ Output(s)[i] = ReviewOf(LatestDraft)
      BY <1>1, <2>1
    <2>3. ReviewOf(LatestDraft) \in {"review_result:1", "review_result:2"}
      BY DEF ReviewOf
    <2>4. ReviewOf(LatestDraft) \in AllKeys
      BY <2>3, KeyNames
    <2>. QED
      BY <1>1, <1>2, <2>2, <2>3, <2>4 DEF Writes
  <1>3. CASE s \notin {"reviewer", "recheck"}
    <2>1. Output(s) = Keys[s]
      BY <1>3 DEF Output
    <2>2. Keys[s][i] \in KeySet[s] /\ Keys[s][i] \in AllKeys
      BY <1>1, <2>1, KeyNames DEF KeySet
    <2>. DEFINE key == Keys[s][i]
    <2>3. key = "chart_pack" => Has("chart.visual_evidence")
      <3>1. SUFFICES ASSUME key = "chart_pack"
                     PROVE  Has("chart.visual_evidence")
        OBVIOUS
      <3>2. s = "chart"
        BY <2>2, <3>1, KeySets, StepNames
      <3>3. Keys[s] = <<"chart.visual_evidence", "chart_pack">>
        BY <3>2, KeyLists
      <3>4. i = 2
        BY <1>1, <2>1, <3>1, <3>3
      <3>. QED
        BY <1>1, <2>1, <3>3, <3>4
    <2>4. /\ key = "insight_pack" => Has("insight")
          /\ key = "decision_intelligence_pack" => Has("insight") /\ Has("insight_pack")
      <3>1. SUFFICES ASSUME key \in {"insight_pack", "decision_intelligence_pack"}
                     PROVE  /\ key = "insight_pack" => Has("insight")
                            /\ key = "decision_intelligence_pack" => Has("insight") /\ Has("insight_pack")
        OBVIOUS
      <3>2. s = "insight"
        BY <2>2, <3>1, KeySets, StepNames
      <3>3. Keys[s] = <<"insight", "insight_pack", "decision_intelligence_pack">>
        BY <3>2, KeyLists
      <3>4. (key = "insight_pack" /\ i = 2) \/ (key = "decision_intelligence_pack" /\ i = 3)
        BY <1>1, <2>1, <3>1, <3>3
      <3>5. i = 2 => Has(Keys[s][1])
        BY <1>1, <2>1
      <3>6. i = 3 => Has(Keys[s][1]) /\ Has(Keys[s][2])
        BY <1>1, <2>1
      <3>. QED
        BY <3>3, <3>4, <3>5, <3>6
    <2>. HIDE DEF key
    <2>5. /\ ~Has(key) /\ key \in KeySet[s] /\ key \in AllKeys
          /\ \E p \in Payloads(key) : artifact' = [artifact EXCEPT ![key] = p]
      BY <1>1, <2>1, <2>2 DEF key
    <2>. QED
      BY <1>3, <2>3, <2>4, <2>5 DEF Writes
  <1>. QED
    BY <1>2, <1>3

(* Every other step leaves the artifacts as they are. *)
LEMMA ArtifactsChange ==
  ASSUME [Next]_vars
  PROVE  artifact' = artifact \/ \E s \in Steps : StoreArtifact(s)
  BY DEF Next, Proceed, Disturb, Step, Rehydrate, Reuse, Start, Complete, Remark, Tell, Refuse,
         Throws, Fault, TimeOut, Publish, FinishAgentArtifactRun, FailRun, ClaimQueued, Reclaim,
         Claim, RejectClaim, RetryRun, stored, vars

(* What is stored stays as it is. *)
LEMMA ArtifactsKept ==
  ASSUME TypeOK, [Next]_vars
  PROVE  /\ artifact' \in [AllKeys -> Contents]
         /\ \A key \in AllKeys : Has(key) => artifact'[key] = artifact[key]
  <1>1. CASE artifact' = artifact
    BY <1>1 DEF TypeOK
  <1>2. ASSUME NEW s \in Steps, StoreArtifact(s)
        PROVE  /\ artifact' \in [AllKeys -> Contents]
               /\ \A key \in AllKeys : Has(key) => artifact'[key] = artifact[key]
    <2>1. PICK key \in AllKeys : Writes(s, key)
      BY <1>2, StoreWrites
    <2>2. PICK p \in Payloads(key) : artifact' = [artifact EXCEPT ![key] = p]
      BY <2>1 DEF Writes
    <2>3. "insight" \in AllKeys
      BY KeyNames, KeySets
    <2>4. p \in Contents
      <3>1. artifact["insight"] \in Contents
        BY <2>3 DEF TypeOK
      <3>. QED
        BY <2>2, <3>1 DEF Payloads, Contents, Verdicts
    <2>. QED
      BY <2>1, <2>2, <2>4 DEF TypeOK, Writes
  <1>. QED
    BY <1>1, <1>2, ArtifactsChange

(* A key has one owner, but for the reviews. *)
LEMMA Owners ==
  ASSUME NEW s \in Steps, NEW key, Writes(s, key)
  PROVE  /\ key \in KeySet["coordinator"] => s = "coordinator"
         /\ key \in KeySet["data"] => s = "data"
         /\ \A b \in Branches : key \in KeySet[b] => s = b
         /\ key \in KeySet["insight"] => s = "insight"
         /\ key = "report_draft:1" => s = "report"
         /\ key = "report_draft:2" => s = "revision"
         /\ key \in {"review_result:1", "review_result:2"} => s \in {"reviewer", "recheck"}
  <1>1. CASE s \in {"reviewer", "recheck"}
    <2>1. key \in {"review_result:1", "review_result:2"}
      BY <1>1 DEF Writes, ReviewOf
    <2>. QED
      BY <1>1, <2>1, KeySets DEF Branches
  <1>2. CASE s \notin {"reviewer", "recheck"}
    <2>1. key \in KeySet[s]
      BY <1>2 DEF Writes
    <2>. QED
      BY <1>2, <2>1, KeySets, StepNames DEF Branches
  <1>. QED
    BY <1>1, <1>2

(* The inputs of what a step writes are there. *)
LEMMA InputsThere ==
  ASSUME TypeOK, InOrder, StoredWhole, ReviewsKnown, Lineage,
         NEW s \in Steps, pc[s] = "store", NEW key, Writes(s, key)
  PROVE  /\ key \in KeySet["data"] => HasAll("coordinator")
         /\ \A b \in Branches : key \in KeySet[b] => HasAll("data")
         /\ key = "insight" => \A b \in Branches : HasAll(b)
         /\ key = "report_draft:1" => HasAll("insight")
         /\ key = "review_result:1" => Has("report_draft:1")
         /\ key = "report_draft:2" =>
               /\ artifact["review_result:1"] = "REVISION_REQUIRED" /\ Has("review_result:1")
               /\ HasAll("insight") /\ Has("report_draft:1")
         /\ key = "review_result:2" => Has("report_draft:2")
  <1>. USE DEF Has, HasAll
  <1>1. key \in KeySet["data"] => HasAll("coordinator")
    BY Owners, StepNames DEF InOrder, StoredWhole
  <1>2. \A b \in Branches : key \in KeySet[b] => HasAll("data")
    BY Owners, StepNames DEF InOrder, StoredWhole
  <1>3. key = "insight" => \A b \in Branches : HasAll(b)
    <2>1. key = "insight" => key \in KeySet["insight"]
      BY KeySets
    <2>. QED
      BY <2>1, Owners, StepNames DEF InOrder, StoredWhole
  <1>4. key = "report_draft:1" => HasAll("insight")
    BY Owners, StepNames DEF InOrder, StoredWhole
  <1>5. s \in {"reviewer", "recheck"} => Has("report_draft:1")
    <2>1. s \in {"reviewer", "recheck"} => pc["report"] = "done"
      BY DEF InOrder
    <2>2. pc["report"] = "done" => HasAll("report")
      BY StepNames DEF StoredWhole
    <2>. QED
      BY <2>1, <2>2, KeySets
  <1>6. key \in {"review_result:1", "review_result:2"} => key = ReviewOf(LatestDraft)
    BY Owners DEF Writes
  <1>7. key = "review_result:2" => Has("report_draft:2")
    BY <1>6 DEF ReviewOf, LatestDraft
  <1>8. ASSUME key = "report_draft:2"
        PROVE  /\ artifact["review_result:1"] = "REVISION_REQUIRED" /\ Has("review_result:1")
               /\ HasAll("insight") /\ Has("report_draft:1")
    <2>1. artifact["review_result:1"] = "REVISION_REQUIRED"
      BY <1>8, Owners DEF ReviewsKnown
    <2>2. Has("review_result:1")
      BY <2>1, NoneAssumption DEF Verdicts
    <2>3. Inherits(artifact)
      BY DEF Lineage, Inherits
    <2>4. Has("report_draft:1") /\ HasAll("insight")
      BY <2>2, <2>3, InputSets
    <2>. QED
      BY <2>1, <2>2, <2>4
  <1>. QED
    BY <1>1, <1>2, <1>3, <1>4, <1>5, <1>7, <1>8, Owners

LEMMA LineageStep ==
  ASSUME TypeOK, InOrder, StoredWhole, ReviewsKnown, Lineage, PicturesFirst, [Next]_vars
  PROVE  Lineage' /\ PicturesFirst'
  <1>. USE DEF Has, HasAll
  <1>0. Inherits(artifact)
    BY DEF Lineage, Inherits
  <1>1. CASE artifact' = artifact
    BY <1>1 DEF Lineage, PicturesFirst
  <1>2. ASSUME NEW s \in Steps, StoreArtifact(s)
        PROVE  Lineage' /\ PicturesFirst'
    <2>1. PICK key \in AllKeys : Writes(s, key)
      BY <1>2, StoreWrites
    <2>2. pc[s] = "store"
      BY <1>2 DEF StoreArtifact
    <2>3. PICK p \in Payloads(key) : artifact' = [artifact EXCEPT ![key] = p]
      BY <2>1 DEF Writes
    <2>4. \A k \in AllKeys : /\ k # key => artifact'[k] = artifact[k]
                             /\ artifact[k] # None => artifact'[k] = artifact[k]
      BY <2>1, <2>3 DEF TypeOK, Writes
    <2>5. artifact'[key] = p
      BY <2>3 DEF TypeOK
    <2>6. \A t \in Steps : HasAll(t) => \A input \in KeySet[t] : artifact'[input] # None
      BY <2>4, KeyNames
    <2>7. Inherits(artifact')
      <3>1. \A k \in KeySet["data"] :
               artifact'[k] # None => \A input \in KeySet["coordinator"] : artifact'[input] # None
        BY <1>0, <2>1, <2>2, <2>4, <2>6, InputSets, InputsThere, KeyNames, StepNames
      <3>2. \A b \in Branches : \A k \in KeySet[b] :
               artifact'[k] # None => \A input \in KeySet["data"] : artifact'[input] # None
        BY <1>0, <2>1, <2>2, <2>4, <2>6, InputSets, InputsThere, KeyNames, StepNames
      <3>3. artifact'["insight"] # None =>
               \A b \in Branches : \A input \in KeySet[b] : artifact'[input] # None
        <4>1. "insight" \in AllKeys
          BY KeyNames, KeySets
        <4>. QED
          BY <1>0, <2>1, <2>2, <2>4, <2>6, <4>1, InputSets, InputsThere, StepNames
      <3>4. /\ artifact'["insight_pack"] # None => artifact'["insight"] # None
            /\ artifact'["decision_intelligence_pack"] # None => artifact'["insight_pack"] # None
        <4>1. {"insight", "insight_pack", "decision_intelligence_pack"} \subseteq AllKeys
          BY KeyNames, KeySets
        <4>. QED
          BY <1>0, <2>1, <2>4, <4>1, InputSets DEF Writes
      <3>5. {"report_draft:1", "review_result:1", "report_draft:2", "review_result:2"} \subseteq AllKeys
        BY KeyNames
      <3>6. artifact'["report_draft:1"] # None =>
               \A input \in KeySet["insight"] : artifact'[input] # None
        BY <1>0, <2>1, <2>2, <2>4, <2>6, <3>5, InputSets, InputsThere, StepNames
      <3>7. artifact'["review_result:1"] # None => artifact'["report_draft:1"] # None
        BY <1>0, <2>1, <2>2, <2>4, <3>5, InputSets, InputsThere
      <3>8. artifact'["report_draft:2"] # None =>
               /\ artifact'["review_result:1"] # None
               /\ \A input \in KeySet["insight"] : artifact'[input] # None
        BY <1>0, <2>1, <2>2, <2>4, <2>6, <3>5, InputSets, InputsThere, StepNames
      <3>9. artifact'["review_result:2"] # None => artifact'["report_draft:2"] # None
        BY <1>0, <2>1, <2>2, <2>4, <3>5, InputSets, InputsThere
      <3>. QED
        BY <3>1, <3>2, <3>3, <3>4, <3>6, <3>7, <3>8, <3>9, InputSets
    <2>8. \A k \in KeySet["insight"] \cup {"report_draft:1", "report_draft:2"} :
             artifact'[k] # None => artifact'[k] = artifact'["insight"]
      <3>1. SUFFICES ASSUME NEW k \in KeySet["insight"] \cup {"report_draft:1", "report_draft:2"},
                            artifact'[k] # None
                     PROVE  artifact'[k] = artifact'["insight"]
        OBVIOUS
      <3>2. k \in AllKeys /\ "insight" \in AllKeys
        BY KeyNames, KeySets
      <3>3. CASE k # key
        <4>1. Has(k) /\ artifact'[k] = artifact[k] /\ artifact[k] = artifact["insight"]
          BY <2>4, <3>1, <3>2, <3>3 DEF Lineage
        <4>. QED
          BY <2>4, <3>2, <4>1
      <3>4. CASE k = key /\ k # "insight"
        <4>1. Has("insight")
          BY <2>1, <2>2, <3>4, KeySets, InputsThere DEF Writes
        <4>2. p = artifact["insight"]
          BY <2>3, <3>1, <3>4, KeySets DEF Payloads
        <4>. QED
          BY <2>4, <2>5, <3>2, <3>4, <4>1, <4>2
      <3>. QED
        BY <3>3, <3>4
    <2>9. artifact'["report_draft:2"] # None => artifact'["review_result:1"] = "REVISION_REQUIRED"
      <3>1. "report_draft:2" \in AllKeys /\ "review_result:1" \in AllKeys
        BY KeyNames
      <3>2. "REVISION_REQUIRED" # None
        BY NoneAssumption DEF Verdicts
      <3>3. CASE Has("report_draft:2")
        BY <2>4, <3>1, <3>2, <3>3 DEF Lineage
      <3>4. CASE key = "report_draft:2"
        BY <2>1, <2>2, <2>4, <3>1, <3>4, InputsThere
      <3>. QED
        BY <2>4, <3>1, <3>3, <3>4
    <2>10. artifact'["chart_pack"] # None => artifact'["chart.visual_evidence"] # None
      <3>1. "chart_pack" \in AllKeys /\ "chart.visual_evidence" \in AllKeys
        BY KeyNames, KeySets
      <3>. QED
        BY <2>1, <2>4, <3>1 DEF Writes, PicturesFirst
    <2>. QED
      BY <2>7, <2>8, <2>9, <2>10 DEF Lineage, PicturesFirst, Inherits
  <1>. QED
    BY <1>1, <1>2, ArtifactsChange

-----------------------------------------------------------------------------
(* How a step moves *)

(* What a step gives up with. *)
LEMMA ProblemCodes == \A s \in Steps : Problem(s) \in StageCodes \cup {None}
  <1>1. CoordinatorProblem \in StageCodes \cup {None}
    BY DEF CoordinatorProblem, StageCodes
  <1>2. \A s : BranchProblem(s) \in StageCodes \cup {None}
    BY DEF BranchProblem, StageCodes
  <1>3. InsightProblem \in StageCodes \cup {None} /\ ReportProblem \in StageCodes \cup {None}
    BY DEF InsightProblem, ReportProblem, StageCodes
  <1>4. DraftProblem \in StageCodes \cup {None}
    BY DEF DraftProblem, StageCodes
  <1>5. ReviewProblem \in StageCodes \cup {None}
    BY <1>4 DEF ReviewProblem, StageCodes
  <1>6. PublicationProblem \in StageCodes \cup {None} /\ RevisionProblem \in StageCodes \cup {None}
    BY <1>5 DEF PublicationProblem, RevisionProblem, StageCodes
  <1>. QED
    BY <1>1, <1>2, <1>3, <1>4, <1>6, StepNames DEF Problem, Branches

(* Only the publication gives up for the review limit. *)
LEMMA LimitOfPublication ==
  ASSUME NEW s \in Steps, Problem(s) = "REVIEW_REVISION_LIMIT"
  PROVE  s = "publication"
  <1>1. "REVIEW_REVISION_LIMIT" # None
    BY NoneAssumption DEF Codes, StageCodes
  <1>2. CoordinatorProblem # "REVIEW_REVISION_LIMIT"
    BY <1>1 DEF CoordinatorProblem
  <1>3. \A b : BranchProblem(b) # "REVIEW_REVISION_LIMIT"
    BY <1>1 DEF BranchProblem
  <1>4. InsightProblem # "REVIEW_REVISION_LIMIT" /\ ReportProblem # "REVIEW_REVISION_LIMIT"
    BY <1>1 DEF InsightProblem, ReportProblem
  <1>5. DraftProblem # "REVIEW_REVISION_LIMIT"
    BY <1>1 DEF DraftProblem
  <1>6. RevisionProblem # "REVIEW_REVISION_LIMIT"
    BY <1>1, <1>5 DEF RevisionProblem, ReviewProblem
  <1>. QED
    BY <1>1, <1>2, <1>3, <1>4, <1>5, <1>6, StepNames DEF Problem, Branches

(* A step fails: a task is marked failed, or not even that. *)
Fails(s) ==
    /\ thrown' # None
    /\ \/ task' = task
       \/ SetTask(TaskOf(s), "failed")
       \/ s = "data" /\ pc["coordinator"] # "done" /\ SetTask("coordinator", "failed")
       \/ s = "publication" /\ SetTask("reviewer", "failed")

(* A step begins: it is rehydrated, reused, started, or it fails.          *)
Begins(s, to) ==
    /\ Ready(s) /\ pc' = [pc EXCEPT ![s] = to]
    /\ UNCHANGED <<target, status, attempt, artifact, published>>
    /\ to \in {"mark", "tell", "store", "error"}
    /\ to # "error" => Problem(s) = None /\ thrown' = thrown
    /\ to = "mark" => /\ s \in {"coordinator", "data"} /\ Rehydratable(s)
                      /\ task' = task /\ told' = told \cup {s}
    /\ to # "mark" => told' = told
    /\ to = "tell" => Reusable(s) /\ SetTask(TaskOf(s), "succeeded")
    /\ to = "store" => ~Rehydratable(s) /\ SetTask(TaskOf(s), "running")
    /\ to = "error" => Fails(s)

(* A step in progress goes on. *)
GoesOn(s, to) ==
    /\ InProgress(s) /\ pc' = [pc EXCEPT ![s] = to]
    /\ UNCHANGED <<target, attempt, artifact>>
    /\ thrown # None => thrown' # None
    /\ to \in {"tell", "done", "error"}
    /\ to # "done" => status' = status /\ published' = published /\ told' = told
    /\ to = "error" => Fails(s)
    /\ to = "tell" => /\ pc[s] = "store" /\ s # "publication"
                      /\ \A i \in DOMAIN Output(s) : Has(Output(s)[i])
                      /\ SetTask(TaskOf(s), "succeeded")
    /\ to = "done" =>
          \/ /\ pc[s] = "mark" /\ s # "coordinator" => pc["coordinator"] = "done"
             /\ pc[s] = "mark" => SetTask(s, "succeeded") /\ told' = told
             /\ pc[s] = "tell" => task' = task /\ told' = told \cup {TaskOf(s)}
             /\ pc[s] \in {"mark", "tell"}
             /\ status' = status /\ published' = published
          \/ /\ s = "publication" /\ status' = "succeeded" /\ thrown' = thrown
             /\ Current("report") /\ Current("reviewer") /\ SetTask(s, "succeeded")
             /\ told' = told /\ published' = LatestDraft

(* No step moves, but one may store and a specialist's run may succeed.    *)
Rests ==
    /\ UNCHANGED <<target, attempt, task, told, published, pc>>
    /\ thrown # None => thrown' # None
    /\ (\E s \in Steps : StoreArtifact(s)) \/ artifact' = artifact
    /\ \/ status' = status
       \/ status = "failed" /\ status' = "queued"
       \/ /\ status = "running" /\ status' = "succeeded" /\ artifact' = artifact
          /\ target # "report" /\ pc[target] = "done"
          /\ \A k \in Plan : Current(k)

(* Another attempt, or none. *)
Resets ==
    /\ status \in {"queued", "running"} /\ status' \in {"running", "failed"}
    /\ pc' = [s \in Steps |-> "idle"]
    /\ UNCHANGED <<target, artifact, told, published>>
    /\ attempt' \in 0 .. MaxAttempts
    /\ \/ task' = task
       \/ task' = [k \in Kinds |-> IF task[k].status = "running"
                                   THEN [task[k] EXCEPT !.status = "failed"] ELSE task[k]]

LEMMA NextPhases ==
  ASSUME TypeOK, [Next]_vars
  PROVE  \/ \E s \in Steps, to \in Phases : Begins(s, to) \/ GoesOn(s, to)
         \/ Rests \/ Resets
  <1>1. {"mark", "tell", "store", "error", "done"} \subseteq Phases
    BY DEF Phases
  <1>2. ASSUME NEW s \in Steps
        PROVE  /\ Rehydrate(s) => Begins(s, "mark")
               /\ Reuse(s) => Begins(s, "tell")
               /\ Start(s) => Begins(s, "store")
    <2>1. Rehydrate(s) => Begins(s, "mark")
      BY DEF Rehydrate, Begins, Rehydratable
    <2>2. Reuse(s) => Begins(s, "tell")
      BY DEF Reuse, Begins
    <2>3. Start(s) => Begins(s, "store")
      BY DEF Start, Begins
    <2>. QED
      BY <2>1, <2>2, <2>3
  <1>3. ASSUME NEW s \in Steps
        PROVE  /\ Complete(s) => GoesOn(s, "tell")
               /\ Remark(s) => GoesOn(s, "done")
               /\ Tell(s) => GoesOn(s, "done")
    <2>1. Complete(s) => GoesOn(s, "tell")
      BY DEF Complete, GoesOn
    <2>2. Remark(s) => GoesOn(s, "done")
      BY DEF Remark, GoesOn
    <2>3. Tell(s) => GoesOn(s, "done")
      BY DEF Tell, GoesOn
    <2>. QED
      BY <2>1, <2>2, <2>3
  <1>4. ASSUME NEW s \in Steps, NEW code \in Codes, Throws(s, code),
               s = "coordinator" => pc[s] # "done",
               code = "REVIEW_REVISION_LIMIT" => s = "publication"
        PROVE  /\ pc' = [pc EXCEPT ![s] = "error"] /\ Fails(s)
               /\ UNCHANGED <<target, status, attempt, artifact, told, published>>
    <2>1. thrown' # None
      BY <1>4, NoneAssumption DEF Throws
    <2>2. \/ Blamed(s, code) = TaskOf(s)
          \/ s = "data" /\ pc["coordinator"] # "done" /\ Blamed(s, code) = "coordinator"
          \/ s = "publication" /\ Blamed(s, code) = "reviewer"
      BY <1>4, StepNames DEF Blamed
    <2>. QED
      BY <1>4, <2>1, <2>2 DEF Throws, Fails
  <1>5. ASSUME NEW s \in Steps
        PROVE  /\ Refuse(s) => Begins(s, "error")
               /\ Fault(s) => (Begins(s, "error") \/ GoesOn(s, "error"))
    <2>1. Problem(s) # None => Problem(s) \in Codes
      BY ProblemCodes DEF Codes
    <2>2. "FAULT" \in Codes
      BY DEF Codes
    <2>3. Problem(s) = "REVIEW_REVISION_LIMIT" => s = "publication"
      BY LimitOfPublication
    <2>4. (Ready(s) \/ InProgress(s)) => pc[s] # "done"
      BY DEF Ready, InProgress
    <2>5. Refuse(s) => Begins(s, "error")
      BY <1>4, <2>1, <2>3, <2>4 DEF Refuse, Begins
    <2>6. Fault(s) => (Begins(s, "error") \/ GoesOn(s, "error"))
      BY <1>4, <2>2, <2>4 DEF Fault, Begins, GoesOn, Fails
    <2>. QED
      BY <2>5, <2>6
  <1>6. Publish => (\E to \in Phases : GoesOn("publication", to)) /\ "publication" \in Steps
    <2>1. "INVALID_PUBLICATION_PREDECESSOR" \in Codes /\ "publication" \in Steps
      BY StepNames DEF Codes
    <2>2. ASSUME InProgress("publication"), Throws("publication", "INVALID_PUBLICATION_PREDECESSOR")
          PROVE  GoesOn("publication", "error")
      BY <1>4, <2>1, <2>2 DEF GoesOn, Fails
    <2>3. ASSUME Publish, pc' = [pc EXCEPT !["publication"] = "done"], status' = "succeeded",
                 UNCHANGED <<target, attempt, error_code, artifact, told, thrown>>,
                 published' = LatestDraft, SetTask("publication", "succeeded"),
                 Current("report"), Current("reviewer")
          PROVE  GoesOn("publication", "done")
      BY <2>3 DEF GoesOn, Publish
    <2>. QED
      BY <1>1, <2>1, <2>2, <2>3 DEF Publish
  <1>7. ASSUME NEW s \in Steps
        PROVE  (StoreArtifact(s) => Rests) /\ (TimeOut(s) => Rests)
    <2>1. "TOOL_TIMEOUT" # None
      BY NoneAssumption DEF Codes
    <2>. QED
      BY <2>1 DEF StoreArtifact, TimeOut, Rests, stored
  <1>8. (FinishAgentArtifactRun => Rests) /\ (RetryRun => Rests) /\ (UNCHANGED vars => Rests)
    <2>1. "SPECIALIST_STAGES_INCOMPLETE" # None
      BY NoneAssumption DEF Codes
    <2>. QED
      BY <2>1 DEF FinishAgentArtifactRun, RetryRun, Rests, stored, vars
  <1>9. (FailRun => Resets) /\ (ClaimQueued => Resets) /\ (Reclaim => Resets) /\ (RejectClaim => Resets)
    <2>1. Claim => attempt' \in 0 .. MaxAttempts
      BY StageAssumption DEF Claim, TypeOK
    <2>. QED
      BY <2>1 DEF FailRun, ClaimQueued, Reclaim, Claim, RejectClaim, Resets, stored, TypeOK
  <1>. QED
    BY <1>1, <1>2, <1>3, <1>5, <1>6, <1>7, <1>8, <1>9 DEF Next, Proceed, Disturb, Step

(* Where the codes come from. *)
LEMMA NextCodes ==
  ASSUME [Next]_vars
  PROVE  /\ error_code' \in {error_code, thrown, None, "MAX_ATTEMPTS"}
         /\ \/ thrown' \in {thrown, None, "FAULT", "TOOL_TIMEOUT"}
            \/ \E s \in Steps : Ready(s) /\ Problem(s) # None /\ thrown' = Problem(s)
            \/ /\ thrown' = "INVALID_PUBLICATION_PREDECESSOR" /\ InProgress("publication")
               /\ ~ /\ task["publication"] = [status |-> "running", attempt |-> attempt]
                    /\ Current("report") /\ Current("reviewer")
                    /\ published = None
            \/ /\ thrown' = "SPECIALIST_STAGES_INCOMPLETE"
               /\ target # "report" /\ pc[target] = "done"
               /\ ~(HasAll(target) /\ \A k \in Plan : Current(k))
  <1>1. ASSUME NEW s \in Steps, Step(s) \/ Fault(s) \/ TimeOut(s)
        PROVE  /\ error_code' = error_code
               /\ \/ thrown' \in {thrown, None, "FAULT", "TOOL_TIMEOUT"}
                  \/ Ready(s) /\ Problem(s) # None /\ thrown' = Problem(s)
    <2>1. CASE Fault(s) \/ TimeOut(s)
      BY <2>1 DEF Fault, TimeOut, Throws
    <2>2. CASE Refuse(s)
      BY <2>2 DEF Refuse, Throws
    <2>3. CASE Step(s) /\ ~Refuse(s)
      BY <2>3 DEF Step, Rehydrate, Reuse, Start, StoreArtifact, Complete, Remark, Tell
    <2>. QED
      BY <1>1, <2>1, <2>2, <2>3
  <1>2. Publish => /\ error_code' = error_code
                   /\ \/ thrown' = thrown
                      \/ /\ thrown' = "INVALID_PUBLICATION_PREDECESSOR" /\ InProgress("publication")
                         /\ ~ /\ task["publication"] = [status |-> "running", attempt |-> attempt]
                              /\ Current("report") /\ Current("reviewer")
                              /\ published = None
    BY DEF Publish, Throws
  <1>3. FinishAgentArtifactRun =>
           /\ error_code' = error_code
           /\ \/ thrown' = thrown
              \/ /\ thrown' = "SPECIALIST_STAGES_INCOMPLETE"
                 /\ target # "report" /\ pc[target] = "done"
                 /\ ~(HasAll(target) /\ \A k \in Plan : Current(k))
    BY DEF FinishAgentArtifactRun
  <1>4. FailRun \/ ClaimQueued \/ Reclaim \/ RejectClaim \/ RetryRun \/ UNCHANGED vars =>
           /\ error_code' \in {error_code, thrown, None, "MAX_ATTEMPTS"}
           /\ thrown' \in {thrown, None}
    BY DEF FailRun, ClaimQueued, Reclaim, Claim, RejectClaim, RetryRun, vars
  <1>. QED
    BY <1>1, <1>2, <1>3, <1>4 DEF Next, Proceed, Disturb

(* The types. *)
LEMMA TypesStep ==
  ASSUME TypeOK, [Next]_vars
  PROVE  TypeOK'
  <1>1. {error_code', thrown'} \subseteq Codes \cup {None}
    <2>1. {"FAULT", "TOOL_TIMEOUT", "MAX_ATTEMPTS", "INVALID_PUBLICATION_PREDECESSOR",
           "SPECIALIST_STAGES_INCOMPLETE"} \subseteq Codes
      BY DEF Codes
    <2>2. \A s \in Steps : Problem(s) \in Codes \cup {None}
      BY ProblemCodes DEF Codes
    <2>3. error_code \in Codes \cup {None} /\ thrown \in Codes \cup {None}
      BY DEF TypeOK
    <2>. QED
      BY <2>1, <2>2, <2>3, NextCodes
  <1>2. \A k \in Kinds, to \in TaskStatuses :
           SetTask(k, to) => task' \in [Kinds -> [status : TaskStatuses, attempt : 0 .. MaxAttempts]]
    BY DEF SetTask, TypeOK
  <1>3. ASSUME NEW s \in Steps, Fails(s)
        PROVE  task' \in [Kinds -> [status : TaskStatuses, attempt : 0 .. MaxAttempts]]
    <2>1. "failed" \in TaskStatuses /\ {"coordinator", "reviewer"} \subseteq Kinds
      BY StepNames DEF TaskStatuses
    <2>. QED
      BY <1>2, <1>3, <2>1, StepNames DEF Fails, TypeOK
  <1>4. {"succeeded", "running", "failed"} \subseteq TaskStatuses
    BY DEF TaskStatuses
  <1>5. LatestDraft \in AllKeys
    BY KeyNames DEF LatestDraft
  <1>6. artifact' \in [AllKeys -> Contents]
    BY ArtifactsKept
  <1>7. ASSUME NEW s \in Steps, NEW to \in Phases, Begins(s, to)
        PROVE  TypeOK'
    <2>1. "coordinator" \in Kinds /\ "data" \in Kinds
      BY StepNames
    <2>2. told' \subseteq Kinds
      <3>1. told' = told \/ told' = told \cup {"coordinator"} \/ told' = told \cup {"data"}
        BY <1>7 DEF Begins
      <3>. QED
        BY <2>1, <3>1 DEF TypeOK
    <2>3. task' \in [Kinds -> [status : TaskStatuses, attempt : 0 .. MaxAttempts]]
      BY <1>2, <1>3, <1>4, <1>7, StepNames DEF Begins, TypeOK
    <2>. QED
      BY <1>1, <1>6, <1>7, <2>2, <2>3 DEF Begins, TypeOK
  <1>8. ASSUME NEW s \in Steps, NEW to \in Phases, GoesOn(s, to)
        PROVE  TypeOK'
    <2>1. told' \subseteq Kinds
      <3>1. told' = told \/ told' = told \cup {TaskOf(s)}
        BY <1>8 DEF GoesOn
      <3>2. TaskOf(s) \in Kinds /\ told \subseteq Kinds
        BY StepNames DEF TypeOK
      <3>. QED
        BY <3>1, <3>2
    <2>2. TaskOf(s) \in Kinds
      BY StepNames
    <2>3. CASE to # "done"
      <3>1. task' \in [Kinds -> [status : TaskStatuses, attempt : 0 .. MaxAttempts]]
        BY <1>2, <1>3, <1>4, <1>8, <2>2, <2>3 DEF GoesOn
      <3>. QED
        BY <1>1, <1>6, <1>8, <2>1, <2>3, <3>1 DEF GoesOn, TypeOK
    <2>4. CASE to = "done" /\ pc[s] = "mark" /\ SetTask(s, "succeeded") /\ status' = status
               /\ published' = published
      <3>1. task' \in [Kinds -> [status : TaskStatuses, attempt : 0 .. MaxAttempts]]
        BY <1>4, <2>4 DEF SetTask, TypeOK
      <3>. QED
        BY <1>1, <1>6, <1>8, <2>1, <2>4, <3>1 DEF GoesOn, TypeOK
    <2>5. CASE task' = task /\ status' = status /\ published' = published
      BY <1>1, <1>6, <1>8, <2>1, <2>5 DEF GoesOn, TypeOK
    <2>6. CASE s = "publication" /\ status' = "succeeded" /\ SetTask(s, "succeeded")
               /\ published' = LatestDraft
      <3>1. task' \in [Kinds -> [status : TaskStatuses, attempt : 0 .. MaxAttempts]]
        BY <1>4, <2>6 DEF SetTask, TypeOK
      <3>. QED
        BY <1>1, <1>5, <1>6, <1>8, <2>1, <2>6, <3>1 DEF GoesOn, TypeOK
    <2>. QED
      BY <1>8, <2>3, <2>4, <2>5, <2>6 DEF GoesOn
  <1>9. CASE Rests
    BY <1>1, <1>6, <1>9 DEF Rests, TypeOK
  <1>10. CASE Resets
    <2>1. \A k \in Kinds : [task[k] EXCEPT !.status = "failed"]
                              \in [status : TaskStatuses, attempt : 0 .. MaxAttempts]
      BY <1>4 DEF TypeOK
    <2>2. task' \in [Kinds -> [status : TaskStatuses, attempt : 0 .. MaxAttempts]]
      BY <1>10, <2>1 DEF Resets, TypeOK
    <2>3. pc' \in [Steps -> Phases]
      BY <1>10 DEF Resets, Phases
    <2>. QED
      BY <1>1, <1>6, <1>10, <2>2, <2>3 DEF Resets, TypeOK
  <1>. QED
    BY <1>7, <1>8, <1>9, <1>10, NextPhases

-----------------------------------------------------------------------------
(* The order of the steps *)

(* What has no artifact to stand for it is never reused. *)
LEMMA NotReusable ==
  \A s \in {"coordinator", "data", "reviewer", "revision", "recheck", "publication"} : ~Reusable(s)
  BY DEF Reusable, Anchor

(* A step begins when the steps before it are done, and it alone moves.    *)
LEMMA OrderBegins ==
  ASSUME TypeOK, InOrder, PhasesFit, ReviewsKnown,
         NEW s \in Steps, NEW to \in Phases, Begins(s, to)
  PROVE  InOrder' /\ PhasesFit'
  <1>1. /\ \A t \in Steps : pc'[t] = IF t = s THEN to ELSE pc[t]
        /\ pc[s] = "idle" /\ Before(s) /\ status = "running" /\ status' = "running"
        /\ to \in {"mark", "tell", "store", "error"} /\ thrown = None
    BY DEF Begins, Ready, TypeOK
  <1>2. pc["publication"] \in {"idle", "store"}
    BY <1>1 DEF PhasesFit
  <1>3. /\ to = "mark" => s \in {"coordinator", "data"}
        /\ s = "data" => to \in {"mark", "error"} \/ pc["coordinator"] = "done"
        /\ s = "data" => pc["coordinator"] \in {"mark", "done"}
        /\ s = "publication" => to \in {"store", "error"}
    <2>1. to = "tell" => s \notin {"data", "publication"}
      BY NotReusable DEF Begins
    <2>2. s = "data" /\ to = "store" => pc["coordinator"] = "done"
      BY <1>1 DEF Begins, Before, Rehydratable
    <2>3. s = "data" => pc["coordinator"] \in {"mark", "done"}
      BY <1>1 DEF Before
    <2>. QED
      BY <1>1, <2>1, <2>2, <2>3 DEF Begins
  <1>4. s = "revision" => pc["publication"] = "idle"
    <2>1. s = "revision" => Verdict # "PASS"
      BY <1>1 DEF Before, NeedsRevision, Branches
    <2>. QED
      BY <1>2, <2>1 DEF ReviewsKnown
  <1>5. PhasesFit'
    <2>1. to = "error" => thrown' # None
      BY DEF Begins, Fails
    <2>. QED
      BY <1>1, <1>2, <1>3, <2>1, StepNames DEF PhasesFit
  <1>6. InOrder'
    <2>. USE <1>1, <1>2, <1>3, StepNames DEF InOrder, Branches
    <2>1. CASE s \in {"coordinator", "data"}
      BY <2>1
    <2>2. CASE s \in Branches
      <3>1. pc["data"] = "done"
        BY <2>2 DEF Before
      <3>. QED
        BY <2>2, <3>1
    <2>3. CASE s = "insight"
      <3>1. \A b \in Branches : pc[b] = "done"
        BY <2>3 DEF Before
      <3>. QED
        BY <2>3, <3>1
    <2>4. CASE s \in {"report", "reviewer", "recheck"}
      <3>1. /\ s = "report" => pc["insight"] = "done"
            /\ s = "reviewer" => pc["report"] = "done"
            /\ s = "recheck" => pc["revision"] = "done"
        BY <2>4 DEF Before
      <3>. QED
        BY <2>4, <3>1
    <2>5. CASE s = "revision"
      <3>1. pc["reviewer"] = "done"
        BY <2>5 DEF Before
      <3>. QED
        BY <1>4, <2>5, <3>1
    <2>6. CASE s = "publication"
      <3>1. (pc["reviewer"] = "done" /\ pc["revision"] = "idle") \/ pc["recheck"] = "done"
        BY <2>6 DEF Before
      <3>. QED
        BY <2>6, <3>1
    <2>. QED
      BY <2>1, <2>2, <2>3, <2>4, <2>5, <2>6
  <1>. QED
    BY <1>5, <1>6

(* While a step is in progress those behind it have not begun. *)
LEMMA OrderGoesOn ==
  ASSUME TypeOK, InOrder, PhasesFit, NEW s \in Steps, NEW to \in Phases, GoesOn(s, to)
  PROVE  InOrder' /\ PhasesFit'
  <1>1. /\ \A t \in Steps : pc'[t] = IF t = s THEN to ELSE pc[t]
        /\ pc[s] \in {"store", "mark", "tell"} /\ status = "running"
        /\ to \in {"tell", "done", "error"}
    BY DEF GoesOn, InProgress, TypeOK
  <1>2. /\ to = "tell" => pc[s] = "store" /\ s # "publication"
        /\ pc[s] = "mark" => to \in {"done", "error"}
        /\ s = "data" /\ to = "done" => pc["coordinator"] = "done"
        /\ s = "publication" /\ to = "done" => status' # "running"
        /\ to = "error" => thrown' # None
        /\ thrown # None => thrown' # None
    <2>1. s = "data" /\ to = "done" /\ pc[s] # "mark" => pc["coordinator"] = "done"
      BY <1>1 DEF InOrder
    <2>2. s = "publication" => pc[s] = "store"
      BY <1>1 DEF PhasesFit
    <2>. QED
      BY <1>1, <2>1, <2>2 DEF GoesOn, Fails
  <1>3. pc["publication"] # "done"
    BY <1>1 DEF PhasesFit
  <1>4. PhasesFit'
    BY <1>1, <1>2, <1>3, StepNames DEF PhasesFit
  <1>5. InOrder'
    <2>. USE <1>1, <1>2, StepNames DEF InOrder, Branches
    <2>1. CASE s = "coordinator"
      BY <2>1
    <2>2. CASE s = "data"
      BY <2>2
    <2>3. CASE s \in Branches
      BY <2>3
    <2>4. CASE s \in {"insight", "report", "reviewer"}
      BY <2>4
    <2>5. CASE s \in {"revision", "recheck", "publication"}
      BY <2>5
    <2>. QED
      BY <2>1, <2>2, <2>3, <2>4, <2>5
  <1>. QED
    BY <1>4, <1>5

LEMMA OrderStep ==
  ASSUME TypeOK, InOrder, PhasesFit, ReviewsKnown, [Next]_vars
  PROVE  InOrder' /\ PhasesFit'
  <1>1. CASE Rests
    BY <1>1 DEF Rests, InOrder, PhasesFit
  <1>2. CASE Resets
    <2>1. \A t \in Steps : pc'[t] = "idle"
      BY <1>2 DEF Resets
    <2>. QED
      BY <2>1, StepNames DEF InOrder, PhasesFit
  <1>. QED
    BY <1>1, <1>2, NextPhases, OrderBegins, OrderGoesOn

-----------------------------------------------------------------------------
(* What the steps leave stored *)

(* A step that reuses what is stored has all of it. *)
LEMMA ReusedWhole ==
  ASSUME PicturesFirst, NEW s \in Steps, Reusable(s), Problem(s) = None
  PROVE  HasAll(s)
  <1>. USE DEF Has, HasAll
  <1>1. s \in {"comparison", "chart", "analyst", "insight", "report"}
    BY NotReusable, StepNames
  <1>2. CASE s = "insight"
    <2>1. Has("insight_pack") /\ InsightProblem = None
      BY <1>2 DEF Reusable, Anchor, Problem, Branches
    <2>2. "INVALID_INSIGHT_STAGE_ARTIFACT" # None
      BY NoneAssumption DEF Codes, StageCodes
    <2>3. HasAll("insight")
      BY <2>1, <2>2, NoneAssumption DEF InsightProblem, Codes, StageCodes
    <2>. QED
      BY <1>2, <2>3
  <1>3. CASE s \in {"comparison", "analyst", "report"}
    <2>1. Has(Anchor(s)) /\ KeySet[s] = {Anchor(s)}
      BY <1>3, KeySets DEF Reusable, Anchor
    <2>. QED
      BY <2>1
  <1>4. CASE s = "chart"
    <2>1. Has("chart_pack")
      BY <1>4 DEF Reusable, Anchor
    <2>. QED
      BY <1>4, <2>1, KeySets DEF PicturesFirst
  <1>. QED
    BY <1>1, <1>2, <1>3, <1>4

(* When its output is there a step has stored its keys, and when these are *)
(* there so are those of its task: a second draft rests on the first, a    *)
(* second review on the first review.                                      *)
LEMMA TaskWhole ==
  ASSUME Lineage, NEW s \in Steps, HasAll(s)
  PROVE  HasAll(TaskOf(s))
  <1>. USE DEF Has, HasAll
  <1>1. Inherits(artifact)
    BY DEF Lineage, Inherits
  <1>2. /\ Has("review_result:2") => Has("report_draft:2")
        /\ Has("report_draft:2") => Has("review_result:1")
        /\ Has("review_result:1") => Has("report_draft:1")
    BY <1>1, InputSets
  <1>3. CASE s \in {"revision", "recheck"}
    BY <1>2, <1>3, KeySets, StepNames
  <1>4. CASE s \notin {"revision", "recheck"}
    <2>1. TaskOf(s) = s
      BY <1>4 DEF TaskOf
    <2>. QED
      BY <2>1
  <1>. QED
    BY <1>3, <1>4

LEMMA OutputWhole ==
  ASSUME InOrder, StoredWhole, Lineage,
         NEW s \in Steps, InProgress(s), \A i \in DOMAIN Output(s) : Has(Output(s)[i])
  PROVE  /\ HasAll(s)
         /\ s \in {"reviewer", "recheck"} => Verdict # None
  <1>. USE DEF Has, HasAll
  <1>1. CASE s \notin {"reviewer", "recheck"}
    <2>1. Output(s) = Keys[s]
      BY <1>1 DEF Output
    <2>2. KeySet[s] = {Keys[s][i] : i \in DOMAIN Keys[s]}
      BY DEF KeySet
    <2>. QED
      BY <1>1, <2>1, <2>2
  <1>2. CASE s \in {"reviewer", "recheck"}
    <2>1. Output(s) = <<ReviewOf(LatestDraft)>>
      BY <1>2 DEF Output
    <2>2. 1 \in DOMAIN Output(s) /\ Output(s)[1] = ReviewOf(LatestDraft)
      BY <2>1
    <2>3. Has(ReviewOf(LatestDraft))
      BY <2>2
    <2>4. Inherits(artifact)
      BY DEF Lineage, Inherits
    <2>5. /\ Has("review_result:2") => Has("report_draft:2")
          /\ Has("report_draft:2") => Has("review_result:1")
      BY <2>4, InputSets
    <2>6. s = "recheck" => Has("report_draft:2")
      <3>1. s = "recheck" => pc["revision"] = "done"
        BY DEF InOrder, InProgress
      <3>2. pc["revision"] = "done" => HasAll("revision")
        BY StepNames DEF StoredWhole
      <3>. QED
        BY <3>1, <3>2, KeySets
    <2>. QED
      BY <1>2, <2>3, <2>5, <2>6, KeySets DEF Verdict, ReviewOf, LatestDraft
  <1>. QED
    BY <1>1, <1>2

LEMMA StoredStep ==
  ASSUME TypeOK, InOrder, PhasesFit, StoredWhole, Lineage, PicturesFirst, [Next]_vars
  PROVE  StoredWhole'
  <1>1. \A t \in Steps : HasAll(t) => HasAll(t)'
    BY ArtifactsKept, KeyNames DEF HasAll, Has
  <1>2. ASSUME NEW s \in Steps, NEW to \in Phases, Begins(s, to)
        PROVE  StoredWhole'
    <2>1. /\ \A t \in Steps : pc'[t] = IF t = s THEN to ELSE pc[t]
          /\ to # "done"
      BY <1>2 DEF Begins, TypeOK
    <2>2. to = "mark" => HasAll(s)
      BY <1>2 DEF Begins, Rehydratable, Recovered
    <2>3. to = "tell" => HasAll(s)
      BY <1>2, ReusedWhole DEF Begins
    <2>. QED
      BY <1>1, <2>1, <2>2, <2>3 DEF StoredWhole
  <1>3. ASSUME NEW s \in Steps, NEW to \in Phases, GoesOn(s, to)
        PROVE  StoredWhole'
    <2>1. /\ \A t \in Steps : pc'[t] = IF t = s THEN to ELSE pc[t]
          /\ to # "mark"
      BY <1>3 DEF GoesOn, TypeOK
    <2>2. to = "tell" => HasAll(s)
      BY <1>3, OutputWhole DEF GoesOn
    <2>3. to = "done" => pc[s] \in {"mark", "tell"} \/ s = "publication"
      BY <1>3 DEF GoesOn
    <2>4. HasAll("publication")
      BY KeySets DEF HasAll
    <2>. QED
      BY <1>1, <2>1, <2>2, <2>3, <2>4 DEF StoredWhole
  <1>4. CASE Rests
    BY <1>1, <1>4 DEF Rests, StoredWhole
  <1>5. CASE Resets
    <2>1. \A t \in Steps : pc'[t] = "idle"
      BY <1>5 DEF Resets
    <2>. QED
      BY <2>1 DEF StoredWhole
  <1>. QED
    BY <1>2, <1>3, <1>4, <1>5, NextPhases

-----------------------------------------------------------------------------
(* The reviews *)

(* Unless the revision is storing its draft, the draft to review stays the *)
(* same and so does what the review said.                                  *)
LEMMA DraftKept ==
  ASSUME TypeOK, [Next]_vars, pc["revision"] # "store"
  PROVE  LatestDraft' = LatestDraft /\ (Verdict # None => Verdict' = Verdict)
  <1>. USE DEF Has
  <1>1. {"report_draft:1", "report_draft:2", "review_result:1", "review_result:2"} \subseteq AllKeys
    BY KeyNames
  <1>2. Has("report_draft:2") => Has("report_draft:2")'
    BY <1>1, ArtifactsKept
  <1>3. Has("report_draft:2")' => Has("report_draft:2")
    <2>1. CASE artifact' = artifact
      BY <2>1
    <2>2. ASSUME NEW s \in Steps, StoreArtifact(s)
          PROVE  Has("report_draft:2")' => Has("report_draft:2")
      <3>1. PICK key \in AllKeys : Writes(s, key)
        BY <2>2, StoreWrites
      <3>2. s # "revision"
        BY <2>2 DEF StoreArtifact
      <3>3. key # "report_draft:2"
        BY <3>1, <3>2, Owners
      <3>. QED
        BY <1>1, <3>1, <3>3 DEF Writes, TypeOK
    <2>. QED
      BY <2>1, <2>2, ArtifactsChange
  <1>4. LatestDraft' = LatestDraft
    BY <1>2, <1>3 DEF LatestDraft
  <1>5. ReviewOf(LatestDraft) \in AllKeys /\ ReviewOf(LatestDraft)' = ReviewOf(LatestDraft)
    BY <1>1, <1>4 DEF ReviewOf
  <1>6. Verdict' = artifact'[ReviewOf(LatestDraft)]
    BY <1>5 DEF Verdict
  <1>. QED
    BY <1>4, <1>5, <1>6, ArtifactsKept DEF Verdict

LEMMA ReviewsStep ==
  ASSUME TypeOK, InOrder, PhasesFit, StoredWhole, ReviewsKnown, Lineage, [Next]_vars
  PROVE  ReviewsKnown'
  <1>1. {"REVISION_REQUIRED", "PASS"} \cap {None} = {}
    BY NoneAssumption DEF Verdicts
  <1>2. artifact["review_result:1"] = "REVISION_REQUIRED" =>
           artifact'["review_result:1"] = "REVISION_REQUIRED"
    BY <1>1, ArtifactsKept, KeyNames DEF Has
  <1>3. (pc["reviewer"] \in {"tell", "done"} /\ pc["revision"] = "idle") => Verdict' # None
    BY DraftKept DEF ReviewsKnown
  <1>4. pc["publication"] \in {"store", "done"} => Verdict' = "PASS"
    <2>1. pc["publication"] \in {"store", "done"} => pc["revision"] # "store"
      BY DEF InOrder
    <2>. QED
      BY <1>1, <2>1, DraftKept DEF ReviewsKnown
  <1>5. ASSUME NEW s \in Steps, NEW to \in Phases, Begins(s, to) \/ GoesOn(s, to)
        PROVE  ReviewsKnown'
    <2>1. /\ \A t \in Steps : pc'[t] = IF t = s THEN to ELSE pc[t]
          /\ artifact' = artifact /\ to # "idle"
      BY <1>5 DEF Begins, GoesOn, TypeOK
    <2>2. Verdict' = Verdict /\ LatestDraft' = LatestDraft
      BY <2>1 DEF Verdict, LatestDraft, ReviewOf, Has
    <2>3. s = "reviewer" /\ to \in {"tell", "done"} => Verdict' # None \/ pc'["revision"] # "idle"
      <3>1. Begins(s, to) /\ s = "reviewer" => to \notin {"tell", "done"}
        BY NotReusable DEF Begins
      <3>2. GoesOn(s, to) /\ s = "reviewer" /\ to = "tell" => Verdict # None
        BY OutputWhole DEF GoesOn
      <3>3. GoesOn(s, to) /\ s = "reviewer" /\ to = "done" => pc[s] = "tell"
        BY DEF GoesOn, PhasesFit
      <3>. QED
        BY <1>3, <1>5, <2>1, <2>2, <3>1, <3>2, <3>3, StepNames
    <2>4. s = "revision" => artifact["review_result:1"] = "REVISION_REQUIRED"
      <3>1. Begins(s, to) /\ s = "revision" => NeedsRevision
        BY DEF Begins, Ready, Before, Branches
      <3>2. NeedsRevision => artifact["review_result:1"] = "REVISION_REQUIRED"
        BY DEF NeedsRevision, Verdict, ReviewOf
      <3>3. GoesOn(s, to) /\ s = "revision" => artifact["review_result:1"] = "REVISION_REQUIRED"
        BY DEF GoesOn, InProgress, ReviewsKnown
      <3>. QED
        BY <1>5, <3>1, <3>2, <3>3
    <2>5. s = "publication" /\ to \in {"store", "done"} => Verdict = "PASS"
      <3>1. Begins(s, to) /\ s = "publication" /\ to \in {"store", "done"} =>
               PublicationProblem = None
        BY DEF Begins, Problem, Branches
      <3>2. PublicationProblem = None => Verdict = "PASS"
        BY NoneAssumption DEF PublicationProblem, Codes, StageCodes
      <3>3. GoesOn(s, to) /\ s = "publication" => pc[s] = "store"
        BY DEF GoesOn, InProgress, PhasesFit
      <3>. QED
        BY <1>5, <3>1, <3>2, <3>3 DEF ReviewsKnown
    <2>6. {"reviewer", "revision", "publication"} \subseteq Steps
      BY StepNames
    <2>7. (pc'["reviewer"] \in {"tell", "done"} /\ pc'["revision"] = "idle") => Verdict' # None
      BY <1>3, <2>1, <2>3, <2>6
    <2>8. pc'["revision"] # "idle" => artifact'["review_result:1"] = "REVISION_REQUIRED"
      BY <1>2, <2>1, <2>4, <2>6 DEF ReviewsKnown
    <2>9. pc'["publication"] \in {"store", "done"} => Verdict' = "PASS"
      BY <1>4, <2>1, <2>2, <2>5, <2>6
    <2>. QED
      BY <2>7, <2>8, <2>9 DEF ReviewsKnown
  <1>6. CASE Rests
    BY <1>2, <1>3, <1>4, <1>6 DEF Rests, ReviewsKnown
  <1>7. CASE Resets
    <2>1. \A t \in Steps : pc'[t] = "idle"
      BY <1>7 DEF Resets
    <2>. QED
      BY <2>1, StepNames DEF ReviewsKnown
  <1>. QED
    BY <1>5, <1>6, <1>7, NextPhases

-----------------------------------------------------------------------------
(* The tasks *)

(* The task of k is marked, in this attempt. *)
Marked(k, to) == \A j \in Kinds : task'[j] = IF j = k THEN [status |-> to, attempt |-> attempt]
                                             ELSE task[j]

LEMMA SetTaskMarks ==
  ASSUME TypeOK, NEW k \in Kinds, NEW to, SetTask(k, to)
  PROVE  Marked(k, to)
  BY DEF SetTask, Marked, TypeOK

(* Which task a moving step marks. *)
LEMMA MovesMark ==
  ASSUME TypeOK, PhasesFit, NEW s \in Steps, NEW to \in Phases, Begins(s, to) \/ GoesOn(s, to)
  PROVE  /\ to = "tell" => Marked(TaskOf(s), "succeeded")
         /\ to = "store" => Marked(TaskOf(s), "running")
         /\ to = "mark" => task' = task
         /\ to = "done" => \/ pc[s] = "tell" /\ task' = task
                           \/ s \in {"coordinator", "data", "publication"} /\ Marked(s, "succeeded")
         /\ to = "error" => \/ task' = task
                            \/ Marked(TaskOf(s), "failed")
                            \/ s = "data" /\ pc["coordinator"] # "done" /\ Marked("coordinator", "failed")
                            \/ s = "publication" /\ Marked("reviewer", "failed")
  <1>1. TaskOf(s) \in Kinds
    BY StepNames
  <1>2. {"coordinator", "data", "publication", "reviewer"} \subseteq Kinds
    BY StepNames
  <1>3. to = "error" => Fails(s)
    BY DEF Begins, GoesOn
  <1>4. \/ to = "tell" /\ SetTask(TaskOf(s), "succeeded")
        \/ to = "store" /\ SetTask(TaskOf(s), "running")
        \/ to = "mark" /\ task' = task
        \/ to = "error"
        \/ to = "done" /\ pc[s] = "tell" /\ task' = task
        \/ to = "done" /\ (pc[s] = "mark" \/ s = "publication") /\ SetTask(s, "succeeded")
    BY DEF Begins, GoesOn
  <1>5. pc[s] = "mark" => s \in {"coordinator", "data"}
    BY DEF PhasesFit
  <1>. QED
    BY <1>1, <1>2, <1>3, <1>4, <1>5, SetTaskMarks DEF Fails

(* What succeeded in this attempt stays so, until a step after it takes it *)
(* up again or blames it.                                                  *)
LEMMA TasksStep ==
  ASSUME TypeOK, InOrder, PhasesFit, TasksCurrent, [Next]_vars
  PROVE  TasksCurrent'
  <1>1. ASSUME NEW s \in Steps, NEW to \in Phases, Begins(s, to) \/ GoesOn(s, to)
        PROVE  TasksCurrent'
    <2>1. /\ \A t \in Steps : pc'[t] = IF t = s THEN to ELSE pc[t]
          /\ attempt' = attempt /\ status = "running" /\ to # "idle"
          /\ pc[s] \in {"idle", "store", "mark", "tell"}
          /\ s = "data" => pc["coordinator"] \in {"mark", "done", "error"}
      <3>1. Begins(s, to) /\ s = "data" => pc["coordinator"] \in {"mark", "done"}
        BY DEF Begins, Ready, Before
      <3>. QED
        BY <1>1, <3>1 DEF Begins, GoesOn, TypeOK, Ready, InProgress, InOrder
    <2>2. \A j \in Kinds :
             \/ task'[j] = task[j]
             \/ TaskOf(s) = j
             \/ s = "data" /\ j = "coordinator" /\ pc["coordinator"] \in {"mark", "error"}
             \/ s = "publication" /\ j = "reviewer" /\ to = "error"
      BY <1>1, <2>1, MovesMark, StepNames, SMTT(30) DEF Marked, Phases
    <2>3. to = "tell" => Current(TaskOf(s))'
      BY <1>1, <2>1, MovesMark, StepNames, SMTT(30) DEF Marked, Current, Succeeded
    <2>4. to = "done" => (pc[s] = "tell" /\ task' = task) \/ (s \in Kinds /\ TaskOf(s) = s /\ Current(s)')
      BY <1>1, <2>1, MovesMark, StepNames DEF Marked, Current, Succeeded
    <2>5. \A j \in Kinds : task'[j] = task[j] => (Current(j)' <=> Current(j))
      BY <2>1 DEF Current, Succeeded
    <2>6. ASSUME NEW t \in {"coordinator", "data", "insight"} \cup Branches,
                 pc'[t] \in {"tell", "done"}
          PROVE  Current(t)'
      <3>1. t \in Kinds /\ t \in Steps /\ TaskOf(t) = t /\ t \notin {"report", "reviewer"}
        BY StepNames DEF Branches
      <3>2. CASE t = s
        BY <2>1, <2>3, <2>4, <2>5, <2>6, <3>1, <3>2 DEF TasksCurrent
      <3>3. CASE t # s
        <4>1. TaskOf(s) # t
          BY <3>1, <3>3 DEF TaskOf
        <4>2. pc[t] \in {"tell", "done"}
          BY <2>1, <2>6, <3>1, <3>3
        <4>3. task'[t] = task[t]
          BY <2>2, <3>1, <4>1, <4>2
        <4>. QED
          BY <2>5, <3>1, <4>2, <4>3 DEF TasksCurrent
      <3>. QED
        BY <3>2, <3>3
    <2>7. /\ {"report", "reviewer", "publication"} \subseteq Kinds
          /\ {"report", "reviewer", "revision", "recheck", "publication"} \subseteq Steps
          /\ TaskOf(s) = "report" <=> s \in {"report", "revision"}
          /\ TaskOf(s) = "reviewer" <=> s \in {"reviewer", "recheck"}
          /\ TaskOf(s) = "publication" <=> s = "publication"
      BY StepNames DEF TaskOf
    <2>8. /\ pc["revision"] # "idle" => pc["reviewer"] = "done" /\ pc["report"] = "done"
          /\ pc["recheck"] # "idle" => pc["revision"] = "done"
      BY DEF InOrder
    <2>9. pc'["report"] \in {"tell", "done"} /\ pc'["revision"] = "idle" => Current("report")'
      BY <2>1, <2>2, <2>3, <2>4, <2>5, <2>7 DEF TasksCurrent
    <2>10. pc'["revision"] \in {"tell", "done"} => Current("report")'
      BY <2>1, <2>2, <2>3, <2>4, <2>5, <2>7, <2>8 DEF TasksCurrent
    <2>11. pc'["reviewer"] \in {"tell", "done"} /\ pc'["recheck"] = "idle"
              /\ pc'["publication"] # "error" => Current("reviewer")'
      BY <2>1, <2>2, <2>3, <2>4, <2>5, <2>7 DEF TasksCurrent
    <2>12. pc'["recheck"] \in {"tell", "done"} /\ pc'["publication"] # "error" => Current("reviewer")'
      BY <2>1, <2>2, <2>3, <2>4, <2>5, <2>7, <2>8 DEF TasksCurrent
    <2>13. pc'["publication"] = "store" =>
              task'["publication"] = [status |-> "running", attempt |-> attempt']
      BY <1>1, <2>1, <2>2, <2>7, MovesMark DEF Marked, TasksCurrent
    <2>. QED
      BY <2>6, <2>9, <2>10, <2>11, <2>12, <2>13 DEF TasksCurrent
  <1>2. CASE Rests
    BY <1>2 DEF Rests, TasksCurrent, Current, Succeeded
  <1>3. CASE Resets
    <2>1. \A t \in Steps : pc'[t] = "idle"
      BY <1>3 DEF Resets
    <2>. QED
      BY <2>1, StepNames DEF TasksCurrent
  <1>. QED
    BY <1>1, <1>2, <1>3, NextPhases

(* A task that is marked succeeded has all its artifacts. *)
LEMMA MarkedWhole ==
  ASSUME TypeOK, InOrder, PhasesFit, StoredWhole, Lineage, PicturesFirst,
         NEW s \in Steps, NEW to \in {"mark", "tell", "done"}, Begins(s, to) \/ GoesOn(s, to)
  PROVE  HasAll(TaskOf(s))
  <1>1. CASE Begins(s, to)
    <2>1. to = "mark" => HasAll(s)
      BY <1>1 DEF Begins, Rehydratable, Recovered
    <2>2. to = "tell" => HasAll(s)
      BY <1>1, ReusedWhole DEF Begins
    <2>. QED
      BY <1>1, <2>1, <2>2, TaskWhole DEF Begins
  <1>2. CASE GoesOn(s, to)
    <2>1. to = "tell" => HasAll(s)
      BY <1>2, OutputWhole DEF GoesOn
    <2>2. to = "done" => pc[s] \in {"mark", "tell"} \/ s = "publication"
      BY <1>2 DEF GoesOn
    <2>3. HasAll("publication")
      BY KeySets DEF HasAll
    <2>4. to # "mark"
      BY <1>2 DEF GoesOn
    <2>. QED
      BY <2>1, <2>2, <2>3, <2>4, TaskWhole DEF StoredWhole
  <1>. QED
    BY <1>1, <1>2

LEMMA CheckpointStep ==
  ASSUME TypeOK, InOrder, PhasesFit, StoredWhole, Lineage, PicturesFirst, CheckpointHonest,
         [Next]_vars
  PROVE  CheckpointHonest'
  <1>1. \A t \in Steps : HasAll(t) => HasAll(t)'
    BY ArtifactsKept, KeyNames DEF HasAll, Has
  <1>2. ASSUME NEW s \in Steps, NEW to \in Phases, Begins(s, to) \/ GoesOn(s, to)
        PROVE  CheckpointHonest'
    <2>1. \A j \in Kinds : \/ task'[j] = task[j]
                           \/ task'[j].status # "succeeded"
                           \/ j = TaskOf(s) /\ to \in {"tell", "done"}
      <3>1. \A j, k, st : Marked(k, st) /\ j \in Kinds =>
                task'[j] = task[j] \/ (j = k /\ task'[j].status = st)
        BY DEF Marked
      <3>2. s \in {"coordinator", "data", "publication"} => TaskOf(s) = s
        BY StepNames
      <3>3. to \in {"tell", "store", "mark", "done", "error"}
        BY <1>2 DEF Begins, GoesOn
      <3>. QED
        BY <1>2, <3>1, <3>2, <3>3, MovesMark
    <2>2. to \in {"tell", "done"} => HasAll(TaskOf(s))
      BY <1>2, MarkedWhole
    <2>. QED
      BY <1>1, <2>1, <2>2, StepNames DEF CheckpointHonest, Succeeded
  <1>3. CASE Rests
    BY <1>1, <1>3, StepNames DEF Rests, CheckpointHonest, Succeeded
  <1>4. CASE Resets
    <2>1. \A k \in Kinds : Succeeded(k)' => Succeeded(k)
      BY <1>4 DEF Resets, Succeeded, TypeOK
    <2>. QED
      BY <1>1, <2>1, StepNames DEF CheckpointHonest
  <1>. QED
    BY <1>2, <1>3, <1>4, NextPhases

-----------------------------------------------------------------------------
(* The messages *)

LEMMA ToldStep ==
  ASSUME TypeOK, InOrder, PhasesFit, StoredWhole, Lineage, PicturesFirst, ToldWhenDone,
         \A k \in told : HasAll(k), [Next]_vars
  PROVE  ToldWhenDone' /\ \A k \in told' : HasAll(k)'
  <1>1. \A t \in Steps : HasAll(t) => HasAll(t)'
    BY ArtifactsKept, KeyNames DEF HasAll, Has
  <1>2. \A k \in told : k \in Steps
    BY StepNames DEF TypeOK
  <1>3. ASSUME NEW s \in Steps, NEW to \in Phases, Begins(s, to) \/ GoesOn(s, to)
        PROVE  ToldWhenDone' /\ \A k \in told' : HasAll(k)'
    <2>1. \A t \in Steps : pc'[t] = IF t = s THEN to ELSE pc[t]
      BY <1>3 DEF Begins, GoesOn, TypeOK
    <2>2. \/ told' = told
          \/ told' = told \cup {TaskOf(s)} /\ to \in {"mark", "done"}
      <3>1. s \in {"coordinator", "data"} => TaskOf(s) = s
        BY StepNames
      <3>. QED
        BY <1>3, <3>1 DEF Begins, GoesOn
    <2>3. s # "publication" /\ to \in {"mark", "done"} => TaskOf(s) \in told'
      <3>1. Begins(s, to) /\ to = "mark" => TaskOf(s) = s /\ told' = told \cup {s}
        BY StepNames DEF Begins
      <3>2. GoesOn(s, to) => to # "mark"
        BY DEF GoesOn
      <3>3. Begins(s, to) => to # "done"
        BY DEF Begins
      <3>4. GoesOn(s, to) /\ to = "done" /\ s # "publication" =>
               \/ pc[s] = "mark" /\ told' = told
               \/ pc[s] = "tell" /\ told' = told \cup {TaskOf(s)}
        BY DEF GoesOn
      <3>. QED
        BY <1>3, <3>1, <3>2, <3>3, <3>4 DEF ToldWhenDone
    <2>4. ToldWhenDone'
      BY <2>1, <2>2, <2>3 DEF ToldWhenDone
    <2>5. to \in {"mark", "done"} => HasAll(TaskOf(s))
      BY <1>3, MarkedWhole
    <2>6. TaskOf(s) \in Steps
      BY StepNames
    <2>. QED
      BY <1>1, <1>2, <2>2, <2>4, <2>5, <2>6
  <1>4. CASE Rests
    BY <1>1, <1>2, <1>4 DEF Rests, ToldWhenDone
  <1>5. CASE Resets
    <2>1. \A t \in Steps : pc'[t] = "idle"
      BY <1>5 DEF Resets
    <2>2. told' = told
      BY <1>5 DEF Resets
    <2>. QED
      BY <1>1, <1>2, <2>1, <2>2 DEF ToldWhenDone
  <1>. QED
    BY <1>3, <1>4, <1>5, NextPhases

-----------------------------------------------------------------------------
(* Success *)

(* What a publication finds: everything before it is done. *)
LEMMA BeforePublication ==
  ASSUME TypeOK, InOrder, TasksCurrent, ToldWhenDone, pc["publication"] # "idle"
  PROVE  /\ \A k \in Kinds \ {"report", "reviewer", "publication"} : Current(k)
         /\ Kinds \ {"publication"} \subseteq told
  <1>1. \A k \in Kinds \ {"publication"} : pc[k] = "done"
    BY StepNames DEF InOrder, Branches
  <1>2. \A k \in Kinds \ {"publication"} : k \in Steps \ {"publication"} /\ TaskOf(k) = k
    BY StepNames
  <1>3. \A k \in Kinds \ {"report", "reviewer", "publication"} :
           k \in {"coordinator", "data", "insight"} \cup Branches
    BY StepNames DEF Branches
  <1>. QED
    BY <1>1, <1>2, <1>3 DEF TasksCurrent, ToldWhenDone

(* A specialist's last stage is done when all the stages it needs are. *)
LEMMA BeforeTarget ==
  ASSUME TypeOK, InOrder, TasksCurrent, ToldWhenDone, target # "report", pc[target] = "done"
  PROVE  /\ target \in Kinds /\ \A k \in Plan : Current(k)
         /\ Plan \subseteq told
  <1>1. target \in {"data", "comparison", "chart", "analyst", "insight"}
    BY StageAssumption DEF TypeOK
  <1>2. Plan \subseteq {"coordinator", "data", "insight"} \cup Branches
    BY <1>1 DEF Plan, Branches
  <1>3. \A k \in Plan : pc[k] = "done"
    <2>1. CASE target = "insight"
      <3>1. Plan = {"coordinator", "data", "insight"} \cup Branches
        BY <2>1 DEF Plan
      <3>. QED
        BY <2>1, <3>1 DEF InOrder, Branches
    <2>2. CASE target # "insight"
      <3>1. Plan = {"coordinator", "data", target}
        BY <1>1, <2>2 DEF Plan
      <3>. QED
        BY <1>1, <2>2, <3>1 DEF InOrder, Branches
    <2>. QED
      BY <2>1, <2>2
  <1>4. \A k \in Plan : k \in Steps \ {"publication"} /\ TaskOf(k) = k
    BY <1>2, StepNames DEF Branches
  <1>. QED
    BY <1>1, <1>2, <1>3, <1>4, StepNames DEF TasksCurrent, ToldWhenDone

(* Before anything is published the run was not over; after it nothing     *)
(* changes any more.                                                       *)
LEMMA SuccessStep ==
  ASSUME TypeOK, InOrder, PhasesFit, ReviewsKnown, TasksCurrent, ToldWhenDone,
         PublishedReviewed, AllStagesTold, [Next]_vars
  PROVE  /\ PublishedReviewed'
         /\ status' = "succeeded" => Plan' \ {"publication"} \subseteq told'
  <1>1. ASSUME NEW s \in Steps, NEW to \in Phases, Begins(s, to) \/ GoesOn(s, to),
               ~(s = "publication" /\ to = "done")
        PROVE  status' = "running" /\ published' = None
    <2>1. status = "running" /\ status' = status /\ published' = published
      <3>1. s = "publication" => to # "done"
        BY <1>1
      <3>. QED
        BY <1>1, <3>1 DEF Begins, GoesOn, Ready, InProgress
    <2>. QED
      BY <2>1 DEF PublishedReviewed
  <1>2. ASSUME GoesOn("publication", "done")
        PROVE  /\ PublishedReviewed'
               /\ status' = "succeeded" => Plan' \ {"publication"} \subseteq told'
    <2>1. /\ status' = "succeeded" /\ Current("report") /\ Current("reviewer")
          /\ SetTask("publication", "succeeded") /\ told' = told /\ published' = LatestDraft
          /\ target' = target /\ attempt' = attempt /\ artifact' = artifact
          /\ pc["publication"] = "store"
      BY <1>2 DEF GoesOn, InProgress, PhasesFit
    <2>2. Verdict = "PASS"
      BY <2>1 DEF ReviewsKnown
    <2>3. LatestDraft' = LatestDraft /\ artifact'[ReviewOf(LatestDraft)] = "PASS"
      BY <2>1, <2>2 DEF LatestDraft, Verdict, Has
    <2>4. "publication" \in Kinds
      BY StepNames
    <2>5. Marked("publication", "succeeded")
      BY <2>1, <2>4, SetTaskMarks
    <2>6. \A k \in Kinds : Current(k)'
      BY <2>1, <2>4, <2>5, BeforePublication DEF Marked, Current, Succeeded
    <2>7. Plan' = Plan /\ Plan \subseteq Kinds
      BY <2>1, StageAssumption, StepNames DEF Plan, TypeOK
    <2>8. ReviewOf(published') = ReviewOf(LatestDraft)
      BY <2>1
    <2>. QED
      BY <2>1, <2>3, <2>6, <2>7, <2>8, BeforePublication DEF PublishedReviewed, ReviewOf
  <1>3. CASE Rests
    <2>1. /\ UNCHANGED <<target, attempt, task, told, published, pc>>
          /\ artifact' = artifact \/ status = "running"
      BY <1>3 DEF Rests, StoreArtifact, InProgress
    <2>2. Plan' = Plan /\ \A k : Current(k)' <=> Current(k)
      BY <2>1 DEF Plan, Current, Succeeded
    <2>3. artifact' = artifact => LatestDraft' = LatestDraft
      BY DEF LatestDraft, Has
    <2>4. status' = status /\ status # "running" => artifact' = artifact
      BY <2>1
    <2>5. CASE status' = status
      BY <2>1, <2>2, <2>3, <2>5 DEF PublishedReviewed, AllStagesTold, ReviewOf
    <2>6. CASE status = "failed" /\ status' = "queued"
      BY <2>1, <2>6 DEF PublishedReviewed
    <2>7. CASE /\ status = "running" /\ status' = "succeeded" /\ artifact' = artifact
               /\ target # "report" /\ pc[target] = "done"
               /\ \A k \in Plan : Current(k)
      BY <2>1, <2>2, <2>7, BeforeTarget DEF PublishedReviewed
    <2>. QED
      BY <1>3, <2>5, <2>6, <2>7 DEF Rests
  <1>4. CASE Resets
    BY <1>4 DEF Resets, PublishedReviewed
  <1>5. ASSUME status' # "succeeded", published' = None
        PROVE  PublishedReviewed'
    BY <1>5 DEF PublishedReviewed
  <1>6. ASSUME NEW s \in Steps, NEW to \in Phases, Begins(s, to) \/ GoesOn(s, to)
        PROVE  /\ PublishedReviewed'
               /\ status' = "succeeded" => Plan' \ {"publication"} \subseteq told'
    <2>1. CASE s = "publication" /\ to = "done"
      <3>1. ~Begins(s, to)
        BY <2>1 DEF Begins
      <3>. QED
        BY <1>2, <1>6, <2>1, <3>1
    <2>2. CASE ~(s = "publication" /\ to = "done")
      BY <1>1, <1>5, <1>6, <2>2
    <2>. QED
      BY <2>1, <2>2
  <1>. QED
    BY <1>3, <1>4, <1>6, NextPhases

-----------------------------------------------------------------------------
(* What late stages refuse *)

(* A first draft that is done is a sound one, until its revision begins    *)
(* and again when that is done.                                            *)
LEMMA DraftSound ==
  ASSUME StoredWhole, TasksCurrent, Lineage,
         pc["report"] = "done", pc["revision"] \in {"idle", "done"}
  PROVE  DraftProblem = None /\ Current("report")
  <1>. USE DEF Has, HasAll
  <1>1. Current("report")
    BY DEF TasksCurrent
  <1>2. Has("report_draft:1")
    BY KeySets, StepNames DEF StoredWhole
  <1>3. Has("report_draft:2") => Has("review_result:1")
    <2>1. Inherits(artifact)
      BY DEF Lineage, Inherits
    <2>. QED
      BY <2>1, InputSets
  <1>. QED
    BY <1>1, <1>2, <1>3 DEF DraftProblem, Current

(* So is the review that goes with it, before a revision and after the     *)
(* second review.                                                          *)
LEMMA ReviewSound ==
  ASSUME InOrder, StoredWhole, TasksCurrent, ReviewsKnown, Lineage,
         pc["publication"] # "error",
         \/ pc["reviewer"] = "done" /\ pc["revision"] = "idle"
         \/ pc["recheck"] = "done"
  PROVE  ReviewProblem = None /\ Current("report") /\ Current("reviewer")
  <1>. USE DEF Has, HasAll
  <1>1. pc["report"] = "done" /\ pc["revision"] \in {"idle", "done"}
    BY DEF InOrder
  <1>2. DraftProblem = None /\ Current("report")
    BY <1>1, DraftSound
  <1>3. Verdict # None /\ Current("reviewer")
    <2>1. CASE pc["reviewer"] = "done" /\ pc["revision"] = "idle"
      BY <2>1 DEF InOrder, TasksCurrent, ReviewsKnown
    <2>2. CASE pc["recheck"] = "done"
      <3>1. Has("review_result:2")
        BY <2>2, KeySets, StepNames DEF StoredWhole
      <3>2. Has("report_draft:2")
        <4>1. Inherits(artifact)
          BY DEF Lineage, Inherits
        <4>. QED
          BY <3>1, <4>1, InputSets
      <3>3. Verdict # None
        BY <3>1, <3>2 DEF Verdict, ReviewOf, LatestDraft
      <3>. QED
        BY <2>2, <3>3 DEF TasksCurrent
    <2>. QED
      BY <2>1, <2>2
  <1>. QED
    BY <1>2, <1>3 DEF ReviewProblem, Current

(* What may be wrong where a step is ready to begin. *)
LEMMA ReadyProblems ==
  ASSUME TypeOK, InOrder, PhasesFit, StoredWhole, ReviewsKnown, TasksCurrent, PicturesFirst,
         CheckpointHonest, Lineage, NEW s \in Steps, Ready(s)
  PROVE  Problem(s) \in {None, "INVALID_COORDINATOR_STAGE_ARTIFACT", "INVALID_DATA_STAGE_ARTIFACT",
                         "INVALID_INSIGHT_STAGE_ARTIFACT", "REVIEW_REVISION_LIMIT"}
  <1>. USE DEF Has, HasAll
  <1>0. /\ pc[s] = "idle" /\ Before(s) /\ pc["publication"] # "error"
        /\ Inherits(artifact)
    BY DEF Ready, PhasesFit, Lineage, Inherits
  <1>1. CASE s = "coordinator"
    <2>1. Succeeded("data") => HasAll("data")
      BY StepNames DEF CheckpointHonest
    <2>2. HasAll("data") => HasAll("coordinator")
      BY <1>0, InputSets, KeySets
    <2>3. Succeeded("coordinator") => HasAll("coordinator")
      BY StepNames DEF CheckpointHonest
    <2>4. CoordinatorProblem \in {None, "INVALID_COORDINATOR_STAGE_ARTIFACT",
                                  "INVALID_DATA_STAGE_ARTIFACT"}
      BY <2>1, <2>2, <2>3 DEF CoordinatorProblem
    <2>. QED
      BY <1>1, <2>4 DEF Problem, Branches
  <1>2. CASE s = "data"
    BY <1>2 DEF Problem, Branches
  <1>3. CASE s \in Branches
    <2>1. pc["data"] = "done"
      BY <1>0, <1>3 DEF Before, Branches
    <2>2. Succeeded("data")
      BY <2>1 DEF TasksCurrent, Current
    <2>3. Succeeded(s) => HasAll(s)
      BY <1>3, StepNames DEF CheckpointHonest
    <2>4. BranchProblem(s) = None
      BY <2>2, <2>3 DEF BranchProblem, PicturesFirst
    <2>. QED
      BY <1>3, <2>4 DEF Problem, Branches
  <1>4. CASE s = "insight"
    <2>1. \A b \in Branches : pc[b] = "done"
      BY <1>0, <1>4 DEF Before, Branches
    <2>2. \A b \in Branches : Succeeded(b)
      BY <2>1 DEF TasksCurrent, Current
    <2>3. \A b \in Branches : HasAll(b)
      BY <2>1, StepNames DEF StoredWhole
    <2>4. InsightProblem \in {None, "INVALID_INSIGHT_STAGE_ARTIFACT"}
      BY <2>2, <2>3 DEF InsightProblem
    <2>. QED
      BY <1>4, <2>4 DEF Problem, Branches
  <1>5. CASE s = "report"
    <2>1. Succeeded("report") => Has("report_draft:1")
      BY KeySets, StepNames DEF CheckpointHonest
    <2>2. ReportProblem \in {None, "INVALID_INSIGHT_STAGE_ARTIFACT"}
      BY <2>1 DEF ReportProblem
    <2>. QED
      BY <1>5, <2>2 DEF Problem, Branches
  <1>6. CASE s \in {"reviewer", "recheck"}
    <2>1. pc["report"] = "done" /\ pc["revision"] \in {"idle", "done"}
      <3>1. s = "reviewer" => pc["report"] = "done"
        BY <1>0 DEF Before, Branches
      <3>2. s = "recheck" => pc["revision"] = "done"
        BY <1>0 DEF Before, Branches
      <3>. QED
        BY <1>0, <1>6, <3>1, <3>2 DEF InOrder
    <2>2. DraftProblem = None
      BY <2>1, DraftSound
    <2>. QED
      BY <1>6, <2>2 DEF Problem, Branches
  <1>7. CASE s = "revision"
    <2>1. pc["reviewer"] = "done" /\ NeedsRevision
      BY <1>0, <1>7 DEF Before, Branches
    <2>2. ReviewProblem = None
      BY <1>0, <1>7, <2>1, ReviewSound
    <2>3. Problem(s) = None
      BY <1>7, <2>1, <2>2 DEF RevisionProblem, Problem, Branches
    <2>. QED
      BY <2>3
  <1>8. CASE s = "publication"
    <2>1. (pc["reviewer"] = "done" /\ pc["revision"] = "idle") \/ pc["recheck"] = "done"
      BY <1>0, <1>8 DEF Before, Branches
    <2>2. ReviewProblem = None
      BY <1>0, <2>1, ReviewSound
    <2>3. PublicationProblem \in {None, "REVIEW_REVISION_LIMIT"}
      BY <2>2 DEF PublicationProblem
    <2>4. Problem(s) = PublicationProblem
      BY <1>8 DEF Problem, Branches
    <2>. QED
      BY <2>3, <2>4
  <1>9. s \in {"coordinator", "data", "insight", "report", "reviewer", "recheck", "revision",
               "publication"} \cup Branches
    BY StepNames DEF Branches
  <1>. QED
    BY <1>1, <1>2, <1>3, <1>4, <1>5, <1>6, <1>7, <1>8, <1>9

LEMMA LateStep ==
  ASSUME TypeOK, InOrder, PhasesFit, StoredWhole, ReviewsKnown, TasksCurrent, ToldWhenDone,
         PicturesFirst, CheckpointHonest, Lineage, PublishedReviewed, LateStagesRecover,
         [Next]_vars
  PROVE  LateStagesRecover'
  <1>1. ~(/\ InProgress("publication")
          /\ ~ /\ task["publication"] = [status |-> "running", attempt |-> attempt]
               /\ Current("report") /\ Current("reviewer")
               /\ published = None)
    <2>1. SUFFICES ASSUME InProgress("publication")
                   PROVE  /\ task["publication"] = [status |-> "running", attempt |-> attempt]
                          /\ Current("report") /\ Current("reviewer")
                          /\ published = None
      OBVIOUS
    <2>2. pc["publication"] = "store" /\ status = "running"
      BY <2>1 DEF InProgress, PhasesFit
    <2>3. (pc["reviewer"] = "done" /\ pc["revision"] = "idle") \/ pc["recheck"] = "done"
      BY <2>2 DEF InOrder
    <2>. QED
      BY <2>2, <2>3, ReviewSound DEF TasksCurrent, PublishedReviewed
  <1>2. ~(/\ target # "report" /\ pc[target] = "done"
          /\ ~(HasAll(target) /\ \A k \in Plan : Current(k)))
    BY BeforeTarget, StepNames DEF StoredWhole
  <1>3. \A s \in Steps : Ready(s) => Problem(s) \in
           {None, "INVALID_COORDINATOR_STAGE_ARTIFACT", "INVALID_DATA_STAGE_ARTIFACT",
            "INVALID_INSIGHT_STAGE_ARTIFACT", "REVIEW_REVISION_LIMIT"}
    BY ReadyProblems
  <1>. DEFINE Known == {None, "FAULT", "TOOL_TIMEOUT", "REVIEW_REVISION_LIMIT", "MAX_ATTEMPTS",
                        "INVALID_COORDINATOR_STAGE_ARTIFACT", "INVALID_DATA_STAGE_ARTIFACT",
                        "INVALID_INSIGHT_STAGE_ARTIFACT"}
  <1>4. error_code \in Known /\ thrown \in Known
    BY DEF LateStagesRecover, CoordinatorDataCodes, InsightCodes
  <1>5. error_code' \in Known /\ thrown' \in Known
    BY <1>1, <1>2, <1>3, <1>4, NextCodes
  <1>. QED
    BY <1>5 DEF LateStagesRecover, CoordinatorDataCodes, InsightCodes

-----------------------------------------------------------------------------
(* The invariant and what follows from it *)

LEMMA InitHolds == Init => IInv
  <1>1. SUFFICES ASSUME Init
                 PROVE  IInv
    OBVIOUS
  <1>2. TypeOK
    <2>1. task \in [Kinds -> [status : TaskStatuses, attempt : 0 .. MaxAttempts]]
      BY <1>1, StageAssumption DEF Init, TaskStatuses
    <2>2. artifact \in [AllKeys -> Contents] /\ pc \in [Steps -> Phases]
      BY <1>1 DEF Init, Contents, Phases
    <2>. QED
      BY <1>1, <2>1, <2>2, StageAssumption DEF Init, TypeOK
  <1>3. /\ \A s \in Steps : pc[s] = "idle"
        /\ \A key \in AllKeys : artifact[key] = None
        /\ \A k \in Kinds : ~Succeeded(k)
    BY <1>1 DEF Init, Succeeded
  <1>4. InOrder /\ PhasesFit /\ StoredWhole /\ ReviewsKnown /\ TasksCurrent /\ ToldWhenDone
    BY <1>3, StepNames DEF InOrder, PhasesFit, StoredWhole, ReviewsKnown, TasksCurrent,
                           ToldWhenDone, Branches
  <1>5. PicturesFirst /\ Lineage
    <2>1. {"chart_pack", "report_draft:1", "report_draft:2"} \cup KeySet["insight"] \subseteq AllKeys
      BY KeyNames, KeySets
    <2>. QED
      BY <1>3, <2>1 DEF PicturesFirst, Lineage, Has
  <1>6. CheckpointHonest
    BY <1>3 DEF CheckpointHonest
  <1>7. PublishedReviewed /\ AllStagesTold /\ LateStagesRecover
    BY <1>1 DEF Init, PublishedReviewed, AllStagesTold, LateStagesRecover
  <1>. QED
    BY <1>2, <1>4, <1>5, <1>6, <1>7 DEF IInv

LEMMA NextKeeps == IInv /\ [Next]_vars => IInv'
  <1>1. SUFFICES ASSUME IInv, [Next]_vars
                 PROVE  IInv'
    OBVIOUS
  <1>. USE <1>1 DEF IInv
  <1>2. TypeOK'
    BY TypesStep
  <1>3. InOrder' /\ PhasesFit'
    BY OrderStep
  <1>4. StoredWhole'
    BY StoredStep
  <1>5. ReviewsKnown'
    BY ReviewsStep
  <1>6. TasksCurrent'
    BY TasksStep
  <1>7. CheckpointHonest'
    BY CheckpointStep
  <1>8. Lineage' /\ PicturesFirst'
    BY LineageStep
  <1>9. ToldWhenDone' /\ \A k \in told' : HasAll(k)'
    BY ToldStep DEF AllStagesTold
  <1>10. PublishedReviewed' /\ (status' = "succeeded" => Plan' \ {"publication"} \subseteq told')
    BY SuccessStep
  <1>11. LateStagesRecover'
    BY LateStep
  <1>12. AllStagesTold'
    BY <1>9, <1>10 DEF AllStagesTold
  <1>. QED
    BY <1>2, <1>3, <1>4, <1>5, <1>6, <1>7, <1>8, <1>9, <1>10, <1>11, <1>12

(* Every run of the stages keeps the invariant, whatever its target, the   *)
(* answers it gets and the attempts it takes.                              *)
THEOREM Invariance == Spec => []IInv
  <1>1. Init => IInv
    BY InitHolds
  <1>2. IInv /\ [Next]_vars => IInv'
    BY NextKeeps
  <1>. QED
    BY <1>1, <1>2, PTL DEF Spec

(* Type correctness of the run's tasks, artifacts, messages and error      *)
(* codes: what persistStageArtifact, upsertStageMessage and failRun write. *)
THEOREM TypeCorrect == Spec => []TypeOK
  <1>1. IInv => TypeOK
    BY DEF IInv
  <1>. QED
    BY <1>1, Invariance, PTL

(* A task that succeeded, in whatever attempt, has all its artifacts       *)
(* stored, so loading a checkpoint never meets a hole.                     *)
THEOREM CheckpointHonestHolds == Spec => []CheckpointHonest
  <1>1. IInv => CheckpointHonest
    BY DEF IInv
  <1>. QED
    BY <1>1, Invariance, PTL

(* However many attempts contribute to a run, its artifacts descend from   *)
(* each other: one narrative, and a second draft only on demand.           *)
THEOREM LineageHolds == Spec => []Lineage
  <1>1. IInv => Lineage
    BY DEF IInv
  <1>. QED
    BY <1>1, Invariance, PTL

(* publishReviewedDraft publishes the last draft and only with its PASS.   *)
THEOREM PublishedReviewedHolds == Spec => []PublishedReviewed
  <1>1. IInv => PublishedReviewed
    BY DEF IInv
  <1>. QED
    BY <1>1, Invariance, PTL

(* A run that succeeds has told of each of its stages, a crash between the *)
(* task's success and its message notwithstanding.                         *)
THEOREM AllStagesToldHolds == Spec => []AllStagesTold
  <1>1. IInv => AllStagesTold
    BY DEF IInv
  <1>. QED
    BY <1>1, Invariance, PTL

(* The loaders of the branches, the report, its review, its revision and   *)
(* its publication accept whatever an earlier attempt left behind.         *)
THEOREM LateStagesRecoverHolds == Spec => []LateStagesRecover
  <1>1. IInv => LateStagesRecover
    BY DEF IInv
  <1>. QED
    BY <1>1, Invariance, PTL
=============================================================================
