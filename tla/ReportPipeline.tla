--------------------------- MODULE ReportPipeline ---------------------------
(***************************************************************************)
(* From an imported file to a published report: what the stages of one run *)
(* read, what they keep in the artifact graph and what the validators of   *)
(* the next stage, of the reviewer and of the publication gate demand of   *)
(* it.  Leases, crashes and repeated stages are in StageCheckpoints; here  *)
(* a stage runs once, and its data is what matters.                        *)
(***************************************************************************)
EXTENDS DecisionPack, Sequences

CONSTANTS Project,     \* the project the run is about
          Files,       \* the CSV files somebody may import, sets of rows
          Requests,    \* [day, zone] of the analyses somebody may request
          Thresholds,  \* slow_moving_threshold_days of the organization
          MaxFiles     \* bound on the files imported

(* The run: what was asked, the rows that may be read, and all rows there  *)
(* were when it was asked.                                                 *)
RunRow == [request : Requests, threshold : Thresholds,
           pinned : SUBSET UNION Files, known : SUBSET UNION Files]

(* What a run may fail with. *)
Codes == {"DATA_AGENT_LINEAGE_MISMATCH", "CHART_AGENT_FAILED", "INSIGHT_AGENT_INPUT_INVALID",
          "NARRATIVE_CANCELLED", "LLM_AUTHENTICATION_FAILED", "ALL_LLM_PROVIDERS_FAILED",
          "DECISION_PACK_INVALID", "REPORT_AGENT_FAILED", "REVIEWER_AGENT_INPUT_INVALID",
          "INVALID_DETERMINISTIC_REVIEW", "REPORT_REVISION_FAILED", "REVIEW_REVISION_LIMIT",
          "PUBLICATION_FAILED"}

(* A file is a finite set of rows, days and thresholds are numbers. *)
ASSUME ReportConstants ==
    /\ \A file \in Files : IsFiniteSet(file)
    /\ \A request \in Requests : request.day \in Int
    /\ Thresholds \subseteq Int
    /\ Null \notin RunRow /\ Null \notin Codes

VARIABLES files,      \* the files imported so far
          run,        \* Null, or the run with its request and pinned rows
          artifacts,  \* the artifact graph of the run, by key
          stage,      \* the last stage completed
          error       \* the code the run failed with

vars == <<files, run, artifacts, stage, error>>

Init ==
    /\ files = {}
    /\ run = Null
    /\ artifacts = [key \in {} |-> Null]
    /\ stage = "none"
    /\ error = Null

Snapshots == UNION files
Scope(request) == [project |-> Project, zone |-> request.zone]

----------------------------------------------------------------------------
(* importCsv(): a file is taken as a whole or refused as a whole.          *)

(* Mutant: the hierarchy is validated within the file only. *)
ValidWithinFile(rows, existing) ==
    \A a, b \in rows :
        /\ a.zone = b.zone => a.project = b.project
        /\ a.unit = b.unit => a.zone = b.zone /\ a.type = b.type
        /\ a.unit = b.unit /\ a.date = b.date => a = b

(* validateHierarchy(): a unit stays in its zone, a zone in its project.   *)
ValidHierarchy(rows, existing) ==
    /\ \A a, b \in rows \cup existing :
          /\ a.zone = b.zone => a.project = b.project
          /\ a.unit = b.unit => a.zone = b.zone /\ a.type = b.type
    /\ \A a, b \in rows : a.unit = b.unit /\ a.date = b.date => a = b

ParseCsv(file) ==
    /\ file # {}
    /\ \A row \in file : SnapshotRow(row)
    /\ ValidHierarchy(file, {})

Unclashing(file) ==
    \A row \in file, kept \in Snapshots : row.unit = kept.unit => row.date # kept.date

(* A file with a hash already imported gives the manifest of that import.  *)
Import(file) ==
    /\ Cardinality(files) < MaxFiles
    /\ stage \in {"none", "queued", "coordinator"}   \* nothing reads the snapshots later
    /\ file \notin files
    /\ ParseCsv(file)
    /\ ValidHierarchy(file, Snapshots)
    /\ Unclashing(file)
    /\ files' = files \cup {file}
    /\ UNCHANGED <<run, artifacts, stage, error>>

----------------------------------------------------------------------------
(* buildRun(): the rows the run may read are pinned when it is enqueued.   *)

PinnedRows(rows, day) ==
    UNION {{row \in rows :
              /\ row.project = Project /\ row.date <= day - back
              /\ \A other \in rows :
                    other.unit = row.unit /\ other.date <= day - back => other.date <= row.date} :
           back \in {0} \cup Periods}

CreateRun(request, threshold) ==
    /\ run = Null
    /\ \E row \in Snapshots : InScope(row, Scope(request))
    /\ run' = [request |-> request, threshold |-> threshold,
               pinned |-> PinnedRows(Snapshots, request.day),
               known |-> Snapshots]   \* history: the warehouse at this moment
    /\ stage' = "queued"
    /\ UNCHANGED <<files, artifacts, error>>

----------------------------------------------------------------------------
(* persistStageArtifact(): an artifact names its inputs and carries the    *)
(* snapshots of all of them; the query result brings in its rows.          *)

Refs(rows) == {<<row.unit, row.date>> : row \in rows}

WithRefs(graph, key, inputs, payload, refs) ==
    [k \in DOMAIN graph \cup {key} |->
        IF k = key THEN [inputs |-> inputs, snapshots |-> refs, payload |-> payload]
        ELSE graph[k]]

Put(graph, key, inputs, payload) ==
    WithRefs(graph, key, inputs, payload, UNION {graph[k].snapshots : k \in inputs})

Calculation(graph) == graph["calculation"].payload

Fail(code) ==
    /\ stage' = "failed"
    /\ error' = code

----------------------------------------------------------------------------
(* Coordinator and Data: the request, the pinned rows, the calculation.    *)

Coordinate ==
    /\ stage = "queued"
    /\ LET request == Put(artifacts, "analysis_request", {}, run.request)
       IN artifacts' = Put(request, "coordinator_decision", {"analysis_request"}, run.request.day)
    /\ stage' = "coordinator"
    /\ UNCHANGED <<files, run, error>>

(* Mutant: the rows are read when the stage runs, not when it was queued. *)
ReadWarehouse == Snapshots

ReadSnapshots == run.pinned

Calculate(rows) == Analyze(rows, run.request.day, Scope(run.request), run.threshold)

PeerItems(calc) == [items |-> calc.peers, periods |-> calc.periods, segments |-> calc.segments]

DataGraph(graph, rows) ==
    LET query == Put(graph, "query", {"coordinator_decision"}, run.request)
        result == WithRefs(query, "query_result", {"query"}, rows, Refs(rows))
        calc == Put(result, "calculation", {"query_result"}, Calculate(rows))
        peers == Put(calc, "comparison_calculation", {"query_result", "calculation"},
                     Calculation(calc).peers)
        comparison == Put(peers, "comparison", {"comparison_calculation"},
                          PeerItems(Calculation(calc)))
    IN Put(comparison, "data_analysis_pack",
           {"query", "query_result", "calculation", "comparison_calculation", "comparison"},
           Calculation(calc))

(* validateDataAnalysisPack(): the whole calculation is made again.        *)
ValidData(graph) ==
    LET rows == graph["query_result"].payload
        calc == Calculation(graph)
    IN /\ \A row \in rows : row.project = Project
       /\ graph["query_result"].snapshots = Refs(rows)
       /\ calc = Calculate(rows)
       /\ graph["comparison_calculation"].payload = calc.peers
       /\ graph["comparison"].payload = PeerItems(calc)
       /\ graph["data_analysis_pack"].payload = calc

AnalyseData ==
    /\ stage = "coordinator"
    /\ artifacts' = DataGraph(artifacts, ReadSnapshots)
    /\ stage' = "data"
    /\ UNCHANGED <<files, run, error>>

----------------------------------------------------------------------------
(* The branches: Comparison, Chart and Analyst each read the data pack.    *)

Findings(calc) ==
    {[candidate |-> <<c.metric, c.period>>,
      category |-> IF c.period # Null THEN "trend"
                   ELSE IF c.metric = "missing_inventory_age_rate" THEN "data_quality"
                   ELSE "current_state"] : c \in calc.candidates}

ComparisonPack(calc) ==
    [comparisons |-> calc.peers, periods |-> calc.periods, segments |-> calc.segments,
     changes |-> calc.changes]

ChartPack(calc) ==
    [charts |-> Charts(calc),
     evidence |-> UNION {{point.path : point \in chart.points} : chart \in Charts(calc)}]

ValidBranches(graph) ==
    LET calc == Calculation(graph)
    IN /\ graph["comparison_pack"].payload = ComparisonPack(calc)
       /\ graph["visual_evidence"].payload = Charts(calc)
       /\ graph["chart_pack"].payload = ChartPack(calc)
       /\ graph["analysis_pack"].payload = Findings(calc)

BranchGraph(graph) ==
    LET calc == Calculation(graph)
        comparison == Put(graph, "comparison_pack", {"data_analysis_pack"}, ComparisonPack(calc))
        visual == Put(comparison, "visual_evidence",
                      {"calculation", "comparison"}, Charts(calc))
        chart == Put(visual, "chart_pack", {"data_analysis_pack", "visual_evidence"},
                     ChartPack(calc))
    IN Put(chart, "analysis_pack", {"data_analysis_pack"}, Findings(calc))

RunBranches ==
    /\ stage = "data"
    /\ IF ~ValidData(artifacts)
       THEN Fail("DATA_AGENT_LINEAGE_MISMATCH") /\ artifacts' = artifacts
       ELSE IF \E chart \in Charts(Calculation(artifacts)) :
                 ~ValidChart(Calculation(artifacts), chart)
       THEN Fail("CHART_AGENT_FAILED") /\ artifacts' = artifacts
       ELSE artifacts' = BranchGraph(artifacts) /\ stage' = "branches" /\ error' = error
    /\ UNCHANGED <<files, run>>

----------------------------------------------------------------------------
(* Insight: the providers may only choose the order of the bound claims.   *)

(* bindClaims(): one claim of each candidate, strongest first, each with   *)
(* the metric's value and the path in the calculation it is read from.     *)
ClaimPath(candidate) ==
    IF candidate.period = Null THEN <<"metrics", candidate.metric>>
    ELSE <<"periods", candidate.period, candidate.metric, "current">>

Stronger(a, b) == a.priority > b.priority

BindClaims(calc) ==
    LET ranked == Ordered(calc.candidates, Stronger)
    IN [i \in DOMAIN ranked |->
          [id |-> <<ranked[i].metric, ranked[i].period>>,
           metric |-> ranked[i].metric,
           value |-> calc.metrics[ranked[i].metric],
           path |-> ClaimPath(ranked[i])]]

Bound(calc) ==
    \A i \in DOMAIN BindClaims(calc) :
        ValueAt(calc, BindClaims(calc)[i].path) = BindClaims(calc)[i].value

(* What a provider may answer: the claim ids in some order, not all of     *)
(* them, one of them twice, an id it was not given, or no answer at all.   *)
Selections == {"in_order", "reversed", "partial", "repeated", "foreign"}
Answers == Selections \cup {"unauthorized", "failed", "cancelled"}

Selected(claims, answer) ==
    LET n == Len(claims)
        Id(i) == CASE answer = "reversed" -> claims[n + 1 - i].id
                   [] answer = "repeated" -> claims[IF i = n THEN 1 ELSE i].id
                   [] answer = "foreign" /\ i = n -> <<"unknown", Null>>
                   [] OTHER -> claims[i].id
    IN [i \in 1..(IF answer = "partial" /\ n > 0 THEN n - 1 ELSE n) |-> Id(i)]

(* narrativeFromClaimIds(): as many ids as claims, all different, no other.*)
Grounded(claims, ids) ==
    /\ Len(ids) = Len(claims)
    /\ \A i, j \in DOMAIN ids : ids[i] = ids[j] => i = j
    /\ \A i \in DOMAIN ids : \E j \in DOMAIN claims : claims[j].id = ids[i]

Answered(claims, answer) ==
    answer \in Selections /\ Grounded(claims, Selected(claims, answer))

(* FallbackNarrativeProvider: the second provider is asked when the first  *)
(* fails for any reason but a cancelled run.                               *)
Narrate(claims, primary, fallback) ==
    LET asked == IF Answered(claims, primary) \/ primary = "cancelled" THEN primary ELSE fallback
    IN CASE Answered(claims, asked) ->
              [code |-> Null, provider |-> IF asked = primary THEN "primary" ELSE "fallback",
               ids |-> Selected(claims, asked)]
         [] asked = "cancelled" -> [code |-> "NARRATIVE_CANCELLED"]
         [] ~Answered(claims, asked) /\ asked # "cancelled" ->
              [code |-> IF primary = "unauthorized" /\ fallback = "unauthorized"
                        THEN "LLM_AUTHENTICATION_FAILED" ELSE "ALL_LLM_PROVIDERS_FAILED"]

(* Mutant: the provider's order is kept. *)
ProviderClaims(claims, ids) ==
    [i \in DOMAIN ids |-> CHOOSE claim \in {claims[j] : j \in DOMAIN claims} : claim.id = ids[i]]

(* assertNarrative(): whatever the order, the canonical order is kept.     *)
CanonicalClaims(claims, ids) == claims

InsightPayload(calc, narrative) ==
    [claims |-> CanonicalClaims(BindClaims(calc), narrative.ids), provider |-> narrative.provider]

(* assertLegacyInsight() and the one-to-one join of claims and findings.   *)
ValidInsight(graph) ==
    LET calc == Calculation(graph)
        claims == BindClaims(calc)
        findings == graph["analysis_pack"].payload
    IN /\ graph["insight"].payload.claims = claims
       /\ Cardinality(findings) = Len(claims)
       /\ {f.candidate : f \in findings} = {claims[i].id : i \in DOMAIN claims}

InsightPack(graph) ==
    [claims |-> graph["insight"].payload.claims,
     findings |-> {f.candidate : f \in graph["analysis_pack"].payload},
     provider |-> graph["insight"].payload.provider]

Branches == {"comparison_pack", "chart_pack", "analysis_pack"}

PutInsight(graph, narrative) ==
    Put(graph, "insight", {"calculation", "comparison"} \cup Branches,
        InsightPayload(Calculation(graph), narrative))

PutInsightPack(graph) ==
    Put(graph, "insight_pack", {"data_analysis_pack", "insight"} \cup Branches, InsightPack(graph))

RunInsight(primary, fallback) ==
    /\ stage = "branches"
    /\ LET calc == Calculation(artifacts)
           narrative == Narrate(BindClaims(calc), primary, fallback)
           insight == PutInsight(artifacts, narrative)
           graph == PutInsightPack(insight)
           pack == BuildPack(calc)
       IN IF ~ValidBranches(artifacts) \/ ~Bound(calc)
          THEN Fail("INSIGHT_AGENT_INPUT_INVALID") /\ artifacts' = artifacts
          ELSE IF narrative.code # Null
          THEN Fail(narrative.code) /\ artifacts' = artifacts
          ELSE IF ~ValidInsight(insight)
          THEN Fail("INSIGHT_AGENT_INPUT_INVALID") /\ artifacts' = insight
          ELSE IF ~Accepts(pack)
          THEN Fail("DECISION_PACK_INVALID") /\ artifacts' = graph
          ELSE /\ artifacts' = Put(graph, "decision_intelligence_pack",
                                   {"data_analysis_pack", "insight_pack"} \cup Branches, pack)
               /\ stage' = "insight" /\ error' = error
    /\ UNCHANGED <<files, run>>

----------------------------------------------------------------------------
(* Report: the draft is a projection of what the graph already holds.      *)

SectionStatus(calc, claims) ==
    LET available(condition) == IF condition THEN "available" ELSE "unavailable"
        periodComparable == \E p \in Periods, key \in Compared : calc.periods[p][key].delta # Null
        segmentComparable == \E d \in Dimensions, key \in BrokenDown :
                                \E k \in DOMAIN calc.segments[d][key] :
                                    calc.segments[d][key][k] # Null
        peersComparable == \E u \in DOMAIN calc.peers : calc.peers[u].median # Null
    IN [executive_summary |-> available(claims # <<>>),
        inventory_overview |-> available(calc.metrics.total_inventory # Null),
        trend |-> available(periodComparable),
        aging_analysis |-> IF calc.metrics.slow_moving_rate # Null /\ AgingLimited(calc.metrics)
                           THEN "limited" ELSE available(calc.metrics.slow_moving_rate # Null),
        price_analysis |-> available(calc.metrics.median_price_per_area # Null),
        segment_analysis |-> available(\E d \in Dimensions : DOMAIN calc.breakdowns[d] # {}),
        comparison |-> available(peersComparable \/ periodComparable \/ segmentComparable)]

Report(graph) ==
    LET calc == Calculation(graph)
        claims == graph["insight"].payload.claims
    IN [claims |-> claims, metrics |-> calc.metrics, units |-> calc.units,
        sections |-> SectionStatus(calc, claims), brief |-> BuildBrief(calc)]

(* An evidence reference: the key of an artifact and a path in it.         *)
BaseEvidence ==
    {<<"data_analysis_pack", <<"metrics">>>>, <<"comparison_pack", <<"comparisons">>>>,
     <<"chart_pack", <<"charts">>>>, <<"analysis_pack", <<"findings">>>>,
     <<"insight_pack", <<"claims">>>>, <<"calculation", <<"metrics">>>>,
     <<"comparison", <<"items">>>>, <<"visual_evidence", <<"charts">>>>,
     <<"insight", <<"claims">>>>, <<"decision_intelligence_pack", <<"decision_brief">>>>}

DraftKey(revision) == IF revision = 1 THEN "report_draft:1" ELSE "report_draft:2"
ReviewKey(revision) == IF revision = 1 THEN "review_result:1" ELSE "review_result:2"
Revision(graph) == IF DraftKey(2) \in DOMAIN graph THEN 2 ELSE 1

PackInputs == {"data_analysis_pack", "insight_pack", "decision_intelligence_pack"} \cup Branches
DraftInputs(revision) == PackInputs \cup (IF revision = 1 THEN {} ELSE {ReviewKey(1)})

IssueEvidence(graph, revision) ==
    UNION {issue.evidence : issue \in graph[ReviewKey(revision)].payload.issues}

(* Mutant: a revision forgets the evidence the review asked for. *)
FirstEvidence(graph, revision) == BaseEvidence

DraftEvidence(graph, revision) ==
    BaseEvidence \cup (IF revision = 1 THEN {} ELSE IssueEvidence(graph, 1))

DraftPayload(graph, revision) ==
    [revision |-> revision, report |-> Report(graph), evidence |-> DraftEvidence(graph, revision)]

PutDraft(graph, revision) ==
    Put(graph, DraftKey(revision), DraftInputs(revision), DraftPayload(graph, revision))

(* inputClosure(): what an artifact is made from, directly or not.         *)
Closure(graph, root) ==
    LET upstream[depth \in 0..Cardinality(DOMAIN graph)] ==
            IF depth = 0 THEN graph[root].inputs
            ELSE LET known == upstream[depth - 1]
                 IN known \cup UNION {graph[k].inputs : k \in known}
    IN upstream[Cardinality(DOMAIN graph)]

(* validateEvidenceRefs(); a path inside an artifact of the closure is     *)
(* readable, for the paths written here are those of its own fields.       *)
ValidEvidence(graph, owner, refs) == {ref[1] : ref \in refs} \subseteq Closure(graph, owner)

(* Every artifact carries the snapshots of its inputs, the query result    *)
(* those of its rows, and no artifact names one that is not in the graph.  *)
SoundLineage(graph) ==
    \A key \in DOMAIN graph :
        /\ graph[key].inputs \subseteq DOMAIN graph
        /\ graph[key].snapshots =
             IF key = "query_result" THEN Refs(graph[key].payload)
             ELSE UNION {graph[k].snapshots : k \in graph[key].inputs}

(* validateReport(): the report against the artifacts it stands on.        *)
ValidReport(graph, report) ==
    LET calc == Calculation(graph)
        claims == BindClaims(calc)
    IN /\ SoundLineage(graph)
       /\ report.metrics = calc.metrics /\ report.units = calc.units
       /\ report.brief = BuildBrief(calc)
       /\ Len(report.claims) = Len(claims)
       /\ \A i \in DOMAIN report.claims :
             /\ \E j \in DOMAIN claims : report.claims[i] = claims[j]
             /\ ValueAt(calc, report.claims[i].path) = report.claims[i].value
       /\ {"calculation", "comparison"} \subseteq graph["visual_evidence"].inputs
       /\ \A chart \in graph["visual_evidence"].payload : \A point \in chart.points :
             point.value = ValueAt(calc, point.path)
       /\ graph["comparison"].payload = PeerItems(calc)
       /\ "comparison_calculation" \in graph["comparison"].inputs
       /\ graph["insight"].payload.claims = report.claims
       /\ "query" \in graph["query_result"].inputs
       /\ "query_result" \in graph["calculation"].inputs

(* validateReportDraftArtifact() without the review a revision answers.    *)
SoundDraft(graph, revision) ==
    LET draft == graph[DraftKey(revision)]
    IN /\ draft.inputs = DraftInputs(revision)
       /\ draft.snapshots = graph["data_analysis_pack"].snapshots
       /\ draft.payload.evidence = DraftEvidence(graph, revision)
       /\ ValidEvidence(graph, DraftKey(revision), draft.payload.evidence)
       /\ ValidReport(graph, draft.payload.report)
       /\ draft.payload = DraftPayload(graph, revision)

----------------------------------------------------------------------------
(* Review: a blocking issue may only ask for a claim's wording again.      *)

CorrectionIssue(claim) ==
    [category |-> "overstatement", claim |-> claim.id,
     evidence |-> {<<"calculation", claim.path>>}]

DraftIssue(revision) ==
    [category |-> "evidence", claim |-> Null,
     evidence |-> {<<DraftKey(revision), <<"report">>>>}]

(* validateReviewResultArtifactCore() without its draft.                   *)
SoundReview(graph, revision) ==
    LET review == graph[ReviewKey(revision)]
        claims == graph[DraftKey(revision)].payload.report.claims
    IN /\ review.inputs = {DraftKey(revision)}
       /\ review.snapshots = graph[DraftKey(revision)].snapshots
       /\ review.payload.draft = graph[DraftKey(revision)].payload
       /\ review.payload.status = "PASS" => review.payload.issues = {}
       /\ review.payload.status = "REVISION_REQUIRED" =>
             \E i \in DOMAIN claims : review.payload.issues = {CorrectionIssue(claims[i])}
       /\ ValidEvidence(graph, ReviewKey(revision), IssueEvidence(graph, revision))

ValidDraft(graph, revision) ==
    /\ SoundDraft(graph, revision)
    /\ revision = 2 => /\ SoundDraft(graph, 1) /\ SoundReview(graph, 1)
                       /\ graph[ReviewKey(1)].payload.status = "REVISION_REQUIRED"

ValidReview(graph, revision) == ValidDraft(graph, revision) /\ SoundReview(graph, revision)

(* reviewIssues(): the draft is projected again before anything is asked.  *)
Issues(graph, revision, correction) ==
    LET claims == graph[DraftKey(revision)].payload.report.claims
    IN IF ~ValidDraft(graph, revision) THEN {DraftIssue(revision)}
       ELSE {CorrectionIssue(claims[i]) : i \in {i \in DOMAIN claims : claims[i].id = correction}}

ReviewPayload(graph, revision, correction) ==
    LET issues == Issues(graph, revision, correction)
    IN [draft |-> graph[DraftKey(revision)].payload, issues |-> issues,
        status |-> IF issues = {} THEN "PASS" ELSE "REVISION_REQUIRED"]

PutReview(graph, revision, correction) ==
    Put(graph, ReviewKey(revision), {DraftKey(revision)},
        ReviewPayload(graph, revision, correction))

(* resolveInput() of the reviewer runs the validator of every stage again. *)
ValidInputs(graph) == ValidData(graph) /\ ValidBranches(graph) /\ ValidInsight(graph)

----------------------------------------------------------------------------
(* The stages from the draft to the published report.                      *)

DraftReport ==
    /\ stage = "insight"
    /\ LET graph == PutDraft(artifacts, 1)
       IN IF ValidInsight(artifacts) /\ ValidReport(artifacts, Report(artifacts))
          THEN artifacts' = graph /\ stage' = "draft" /\ error' = error
          ELSE Fail("REPORT_AGENT_FAILED") /\ artifacts' = artifacts
    /\ UNCHANGED <<files, run>>

(* The claim a reviewing provider may name is one of the draft or unknown. *)
Corrections(graph) ==
    LET claims == graph[DraftKey(1)].payload.report.claims
    IN {Null, <<"unknown", Null>>} \cup {claims[i].id : i \in DOMAIN claims}

Review(correction) ==
    /\ stage = "draft"
    /\ LET revision == Revision(artifacts)
           graph == PutReview(artifacts, revision, correction)
       IN IF ~ValidInputs(artifacts) \/ correction = <<"unknown", Null>>
          THEN Fail("REVIEWER_AGENT_INPUT_INVALID") /\ artifacts' = artifacts
          ELSE IF ~ValidReview(graph, revision)
          THEN Fail("INVALID_DETERMINISTIC_REVIEW") /\ artifacts' = graph
          ELSE artifacts' = graph /\ stage' = "reviewed" /\ error' = error
    /\ UNCHANGED <<files, run>>

Reviewed(status) ==
    /\ stage = "reviewed"
    /\ artifacts[ReviewKey(Revision(artifacts))].payload.status = status

(* executeReportRevisionStage(): the report stays, the evidence grows.     *)
Revise ==
    /\ Reviewed("REVISION_REQUIRED")
    /\ Revision(artifacts) = 1
    /\ LET graph == PutDraft(artifacts, 2)
       IN IF ValidDraft(graph, 2)
          THEN artifacts' = graph /\ stage' = "draft" /\ error' = error
          ELSE Fail("REPORT_REVISION_FAILED") /\ artifacts' = graph
    /\ UNCHANGED <<files, run>>

FailAtReviewLimit ==
    /\ Reviewed("REVISION_REQUIRED")
    /\ Revision(artifacts) = 2
    /\ Fail("REVIEW_REVISION_LIMIT")
    /\ UNCHANGED <<files, run, artifacts>>

ReportInputs == {"calculation", "comparison", "visual_evidence", "insight",
                 "decision_intelligence_pack"}

(* buildPublicationArtifact(): the report of the draft that was reviewed.  *)
PublishedGraph(graph, draft) ==
    WithRefs(graph, "report", ReportInputs, graph[draft].payload.report, graph[draft].snapshots)

(* validateAgentPublication(), on the graph read again under the fence.    *)
ValidPublication(graph, revision) ==
    LET report == graph["report"]
        draft == graph[DraftKey(revision)]
    IN /\ ValidReview([k \in DOMAIN graph \ {"report"} |-> graph[k]], revision)
       /\ graph[ReviewKey(revision)].payload.status = "PASS"
       /\ report.payload = draft.payload.report
       /\ report.snapshots = draft.snapshots
       /\ report.inputs = ReportInputs
       /\ ValidReport(graph, report.payload)

Publish ==
    /\ Reviewed("PASS")
    /\ LET revision == Revision(artifacts)
           graph == PublishedGraph(artifacts, DraftKey(revision))
       IN IF ValidPublication(graph, revision)
          THEN artifacts' = graph /\ stage' = "published" /\ error' = error
          ELSE Fail("PUBLICATION_FAILED") /\ artifacts' = artifacts
    /\ UNCHANGED <<files, run>>

Next ==
    \/ \E file \in Files : Import(file)
    \/ \E request \in Requests, threshold \in Thresholds : CreateRun(request, threshold)
    \/ Coordinate
    \/ AnalyseData
    \/ RunBranches
    \/ \E primary, fallback \in Answers : RunInsight(primary, fallback)
    \/ DraftReport
    \/ stage = "draft" /\ \E correction \in Corrections(artifacts) : Review(correction)
    \/ Revise
    \/ FailAtReviewLimit
    \/ Publish

Spec == Init /\ [][Next]_vars

----------------------------------------------------------------------------
(* Correctness.                                                            *)

(* The shape of the state: a run fails with a code, and has one only then. *)
TypeOK ==
    /\ files \subseteq Files
    /\ stage \in {"none", "queued", "coordinator", "data", "branches", "insight", "draft",
                  "reviewed", "published", "failed"}
    /\ IF stage = "none" THEN run = Null ELSE run \in RunRow
    /\ IF stage = "failed" THEN error \in Codes ELSE error = Null

(* The rows pinned when the run is enqueued (createRun) give the figures   *)
(* the whole warehouse of that moment would have given: nothing an import  *)
(* brings in afterwards, and nothing left unpinned, changes the analysis.  *)
PinnedIsEnough ==
    stage = "data" =>
        Calculation(artifacts) =
            Analyze(run.known, run.request.day, Scope(run.request), run.threshold)

(* The earlier value of a comparison is the one an analysis of that day    *)
(* gives, and a unit the earlier day counted is still counted.             *)
HistoryAgrees(calc) ==
    \A p \in Periods :
        LET day == run.request.day - p
            rows == SelectLatest(run.known, day, Scope(run.request))
        IN /\ \A key \in Compared :
                 calc.periods[p][key].prior = Summarize(rows, day, run.threshold)[key]
           /\ {row.unit : row \in rows} \subseteq DOMAIN calc.units

(* The sum of the values of a function of numbers. *)
Total(value) ==
    LET add[n \in 0..Cardinality(DOMAIN value)] ==
            IF n = 0 THEN 0 ELSE add[n - 1] + value[AtPlace(DOMAIN value, n)]
    IN add[Cardinality(DOMAIN value)]

(* A unit is counted once, the parts of a breakdown and the buckets of     *)
(* ages add up, and a quartile is not below a lower one.                   *)
PartsAddUp(calc) ==
    LET m == calc.metrics
        AtMost(a, b) == a # Null /\ b # Null => a <= b
    IN m.total_inventory # Null =>
        /\ m.total_inventory = Scale * Cardinality(DOMAIN calc.units)
        /\ \A dimension \in Dimensions, key \in {"total_inventory", "available_inventory"} :
              LET parts == calc.breakdowns[dimension]
              IN Total([k \in DOMAIN parts |-> parts[k][key]]) = m[key]
        /\ Total(m.age_buckets) = m.available_inventory
        /\ m.sold[7] <= m.sold[30] /\ m.sold[30] <= m.sold[90]
        /\ AtMost(m.median_inventory_age_days, m.p75_inventory_age_days)
        /\ AtMost(m.p25_price_per_area, m.median_price_per_area)
        /\ AtMost(m.median_price_per_area, m.p75_price_per_area)
        /\ calc.coverage <= 100 * Scale

(* The figures of an analysis agree with one another and with those of the *)
(* days it compares (analyze(), validateHierarchy(), importCsv()).         *)
FiguresAgree ==
    stage = "data" => HistoryAgrees(Calculation(artifacts)) /\ PartsAddUp(Calculation(artifacts))

(* No notable change is lost on its way to the reader: its metric has a    *)
(* claim, at the strongest severity the metric has; the changes the        *)
(* decision policy reports are the notable ones, as severe or less, except *)
(* the median age, which only the policy looks at.                         *)
ChangesTold ==
    stage = "insight" =>
        LET calc == Calculation(artifacts)
            pack == artifacts["decision_intelligence_pack"].payload
            told == {claim.id : claim \in {artifacts["insight"].payload.claims[i] :
                               i \in DOMAIN artifacts["insight"].payload.claims}}
        IN /\ \A c \in calc.changes :
                 \E d \in calc.changes : /\ d.metric = c.metric
                                         /\ <<d.metric, d.period>> \in told
                                         /\ c.severity = "material" => d.severity = "material"
           /\ \A i \in DOMAIN pack.changes :
                 LET c == pack.changes[i]
                 IN c.metric = "median_inventory_age_days"
                    \/ \E d \in calc.changes : /\ d.metric = c.metric /\ d.period = c.period
                                               /\ c.severity = "material" => d.severity = "material"

(* Every figure a chart, claim, brief or ranked entity shows is the one    *)
(* its evidence path leads to, lists read by position included.            *)
CitationsHold ==
    stage = "insight" =>
        LET calc == Calculation(artifacts)
            claims == artifacts["insight"].payload.claims
            pack == artifacts["decision_intelligence_pack"].payload
            brief == BuildBrief(calc)
            Cited(value, path) == value = ValueAt(calc, path)
        IN /\ \A i \in DOMAIN claims : Cited(claims[i].value, claims[i].path)
           /\ \A chart \in artifacts["visual_evidence"].payload : \A point \in chart.points :
                 Cited(point.value, point.path)
           /\ \A i \in DOMAIN pack.entities : Cited(pack.entities[i].value, pack.entities[i].path)
           /\ \A h \in pack.hotspots : Cited(h.value, h.path)
           /\ \A h \in pack.hotspots : \A other \in DOMAIN calc.breakdowns[h.type] :
                 LET value == calc.breakdowns[h.type][other][h.metric]
                 IN value # Null /\ value > h.value => \E g \in pack.hotspots : g.value = value
           /\ brief.concentration # Null =>
                 Cited(brief.concentration.support, brief.concentration.path)

(* No stage refuses what an earlier stage of the same code kept: a run     *)
(* fails because of its providers, of the second revision demanded or of   *)
(* a decision pack its schema has no room for, and for no other reason.    *)
AcceptsOwn ==
    stage = "failed" =>
        \/ error \in {"LLM_AUTHENTICATION_FAILED", "ALL_LLM_PROVIDERS_FAILED",
                      "NARRATIVE_CANCELLED", "REVIEW_REVISION_LIMIT"}
        \/ error = "DECISION_PACK_INVALID" /\ ~Accepts(BuildPack(Calculation(artifacts)))
        \/ error = "REVIEWER_AGENT_INPUT_INVALID" /\ ValidInputs(artifacts)

(* A published report is the one of the draft that passed its review; that *)
(* is the first draft's, whatever the revision, and it stands on the rows  *)
(* that were pinned and on no other.                                       *)
ReportSound ==
    stage = "published" =>
        LET report == artifacts["report"]
            revision == Revision(artifacts)
            review == artifacts[ReviewKey(revision)].payload
        IN /\ review.status = "PASS" /\ review.draft = artifacts[DraftKey(revision)].payload
           /\ report.payload = review.draft.report
           /\ report.payload = artifacts[DraftKey(1)].payload.report
           /\ report.snapshots = Refs(run.pinned)
           /\ report.snapshots \subseteq Refs(run.known)
           /\ revision = 2 => IssueEvidence(artifacts, 1) \subseteq review.draft.evidence
           /\ report.payload.metrics =
                 Summarize(SelectLatest(run.known, run.request.day, Scope(run.request)),
                           run.request.day, run.threshold)

(* The builder's own pack meets the schema it is kept under: identifiers   *)
(* are listed once and no action carries more evidence than it may.        *)
PackAccepted == error # "DECISION_PACK_INVALID"
=============================================================================
