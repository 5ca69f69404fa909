------------------------ MODULE ReportPipeline_proofs ------------------------
(***************************************************************************)
(* The report pipeline, proved for any files, requests, thresholds and     *)
(* answers of providers and reviewers.  First the rows a report stands on: *)
(* the pinned rows are enough for the analysis and all its comparisons,    *)
(* and what is published stands on them.  Then what is made of those rows: *)
(* no stage refuses what an earlier one kept, and what is shown is         *)
(* evidenced, tells every notable change and adds up.                      *)
(***************************************************************************)
EXTENDS ReportPipeline, Figures_proofs

-----------------------------------------------------------------------------
(* Rows *)

(* What imports leave behind: finitely many rows, one of a unit on a day,  *)
(* of a unit in one zone and a zone in one project.                        *)
Warehouse(R) ==
    /\ Stock(R)
    /\ \A a, b \in R : /\ a.zone = b.zone => a.project = b.project
                       /\ a.unit = b.unit => a.zone = b.zone /\ a.type = b.type

LEMMA RowsDated ==
  ASSUME NEW R, Warehouse(R)
  PROVE  IsFiniteSet(R) /\ \A row \in R : row.date \in Int
  BY DEF Warehouse, Stock, SnapshotRow

(* Of finitely many rows one is dated last. *)
LEMMA LastDated ==
  ASSUME NEW S, IsFiniteSet(S), S # {}, \A row \in S : row.date \in Int
  PROVE  \E last \in S : \A row \in S : row.date <= last.date
  <1>1. PICK f : f = [row \in S |-> row.date]
    OBVIOUS
  <1>2. PICK dates : dates = {f[row] : row \in S}
    OBVIOUS
  <1>3. IsFiniteSet(dates)
    BY <1>1, <1>2, Imaged
  <1>4. dates # {} /\ dates \subseteq Int
    BY <1>1, <1>2
  <1>5. PICK most \in dates : \A n \in dates : n <= most
    BY <1>3, <1>4, Extremes
  <1>6. PICK last \in S : most = f[last]
    BY <1>2
  <1>. QED
    BY <1>1, <1>2, <1>5, <1>6

(* A unit's last row on or before a day. *)
LEMMA LastRow ==
  ASSUME NEW R, Warehouse(R), NEW day \in Int, NEW row \in R, row.date <= day
  PROVE  \E last \in R : /\ last.unit = row.unit /\ last.date <= day /\ row.date <= last.date
                         /\ \A other \in R : other.unit = row.unit /\ other.date <= day
                                               => other.date <= last.date
  <1>. DEFINE S == {other \in R : other.unit = row.unit /\ other.date <= day}
  <1>1. IsFiniteSet(S)
    BY RowsDated, FS_Subset
  <1>2. row \in S /\ \A other \in S : other.date \in Int
    BY RowsDated
  <1>3. PICK last \in S : \A other \in S : other.date <= last.date
    <2>. HIDE DEF S
    <2>. QED
      BY <1>1, <1>2, LastDated
  <1>. QED
    BY <1>2, <1>3

(* Rows of a scope of the project: one row of a unit is in it if another is. *)
LEMMA ScopeOfUnit ==
  ASSUME NEW R, Warehouse(R), NEW a \in R, NEW b \in R, a.unit = b.unit, NEW request
  PROVE  /\ InScope(a, Scope(request)) => InScope(b, Scope(request))
         /\ InScope(a, Scope(request)) => a.project = Project
  BY DEF Warehouse, InScope, Scope

(* The pinned rows of a day give the same latest rows as all rows, on the  *)
(* day and on the days the comparisons look back to.                       *)
LEMMA LatestPinned ==
  ASSUME NEW R, Warehouse(R), NEW day \in Int, NEW request, NEW back \in {0} \cup Periods
  PROVE  SelectLatest(PinnedRows(R, day), day - back, Scope(request))
           = SelectLatest(R, day - back, Scope(request))
  <1>. DEFINE P == PinnedRows(R, day)
              prior == day - back
              scope == Scope(request)
              Last(row) == \A other \in R : other.unit = row.unit /\ other.date <= prior
                                             => other.date <= row.date
  <1>1. prior \in Int /\ \A row \in R : row.date \in Int
    BY RowsDated DEF Periods
  <1>2. P \subseteq R
    BY DEF PinnedRows
  <1>3. ASSUME NEW row \in R, row.project = Project, row.date <= prior, Last(row)
        PROVE  row \in P
    BY <1>3 DEF PinnedRows
  <1>. HIDE DEF P, prior
  <1>4. ASSUME NEW row \in SelectLatest(R, prior, scope)
        PROVE  row \in SelectLatest(P, prior, scope)
    <2>1. row \in R /\ row.date <= prior /\ Last(row) /\ InScope(row, scope)
      BY DEF SelectLatest
    <2>2. row.project = Project
      BY <2>1 DEF InScope, Scope
    <2>3. row \in P
      BY <1>3, <2>1, <2>2
    <2>. QED
      BY <1>2, <2>1, <2>3 DEF SelectLatest
  <1>5. ASSUME NEW row \in SelectLatest(P, prior, scope)
        PROVE  row \in SelectLatest(R, prior, scope)
    <2>1. /\ row \in P /\ row \in R /\ row.date <= prior /\ InScope(row, scope)
          /\ \A other \in P : other.unit = row.unit /\ other.date <= prior => other.date <= row.date
      BY <1>2 DEF SelectLatest
    <2>2. PICK last \in R : /\ last.unit = row.unit /\ last.date <= prior
                            /\ \A other \in R : other.unit = row.unit /\ other.date <= prior
                                                  => other.date <= last.date
      BY <1>1, <2>1, LastRow
    <2>3. last.project = Project
      BY <2>1, <2>2, ScopeOfUnit DEF InScope, Scope
    <2>4. last \in P
      BY <1>3, <2>2, <2>3
    <2>5. last.date <= row.date
      BY <2>1, <2>2, <2>4
    <2>6. Last(row)
      BY <1>1, <2>1, <2>2, <2>5
    <2>. QED
      BY <2>1, <2>6 DEF SelectLatest
  <1>6. SelectLatest(P, prior, scope) = SelectLatest(R, prior, scope)
    BY <1>4, <1>5
  <1>. QED
    BY <1>6 DEF P, prior

LEMMA PinnedKnown == ASSUME NEW R, NEW day PROVE PinnedRows(R, day) \subseteq R
  BY DEF PinnedRows

(* The date a set of current rows is of. *)
LEMMA DateOfLast ==
  ASSUME NEW S, IsFiniteSet(S), S # {}, \A row \in S : row.date \in Int
  PROVE  \A row \in S : row.date <= LatestDate(S)
  <1>1. PICK last \in S : \A row \in S : row.date <= last.date
    BY LastDated
  <1>. DEFINE D == {row.date : row \in S}
  <1>2. last.date \in D /\ \A n \in D : n <= last.date
    BY <1>1
  <1>3. \A n \in D : n <= Largest(D)
    BY <1>2 DEF Largest
  <1>. QED
    BY <1>3 DEF LatestDate

(* The rows of the current date are the same: a row that a later one of    *)
(* its unit replaces is not of that date, which is the last of all.        *)
LEMMA CoveragePinned ==
  ASSUME NEW R, Warehouse(R), NEW day \in Int, NEW request
  PROVE  LET current == SelectLatest(R, day, Scope(request))
         IN  SnapshotCoverage(PinnedRows(R, day), current, day, Scope(request))
               = SnapshotCoverage(R, current, day, Scope(request))
  <1>. DEFINE P == PinnedRows(R, day)
              scope == Scope(request)
              current == SelectLatest(R, day, scope)
              date == LatestDate(current)
              Of(rows) == {r \in rows : r.date = date /\ r.date <= day /\ InScope(r, scope)}
  <1>1. \A row \in R : row.date \in Int
    BY RowsDated
  <1>2. P \subseteq R
    BY PinnedKnown
  <1>3. current \subseteq P
    <2>1. day - 0 = day /\ 0 \in {0} \cup Periods
      OBVIOUS
    <2>2. SelectLatest(P, day, scope) = current
      BY <2>1, LatestPinned
    <2>. QED
      BY <2>2 DEF SelectLatest
  <1>4. CASE current = {}
    BY <1>4 DEF SnapshotCoverage
  <1>5. CASE current # {}
    <2>1. \A row \in current : row.date <= date
      <3>1. current \subseteq R
        BY DEF SelectLatest
      <3>2. IsFiniteSet(current)
        BY <3>1, RowsDated, FS_Subset
      <3>. HIDE DEF current
      <3>. QED
        BY <1>1, <1>5, <3>1, <3>2, DateOfLast
    <2>2. ASSUME NEW row \in R, row.date = date, row.date <= day, InScope(row, scope)
          PROVE  row \in P
      <3>1. PICK last \in R : /\ last.unit = row.unit /\ last.date <= day /\ row.date <= last.date
                              /\ \A other \in R : other.unit = row.unit /\ other.date <= day
                                                    => other.date <= last.date
        BY <1>1, <2>2, LastRow
      <3>2. InScope(last, scope)
        BY <2>2, <3>1, ScopeOfUnit
      <3>3. last \in current
        BY <3>1, <3>2 DEF SelectLatest
      <3>4. last.date <= row.date
        BY <2>1, <2>2, <3>3
      <3>5. \A other \in R : other.unit = row.unit /\ other.date <= day => other.date <= row.date
        BY <1>1, <3>1, <3>4
      <3>6. row \in current
        BY <2>2, <3>5 DEF SelectLatest
      <3>. QED
        BY <1>3, <3>6
    <2>3. Of(P) = Of(R)
      BY <1>2, <2>2
    <2>. HIDE DEF P, current, date, scope
    <2>4. SnapshotCoverage(P, current, day, scope) = SnapshotCoverage(R, current, day, scope)
      <3>1. {row.unit : row \in Of(P)} = {row.unit : row \in Of(R)}
        BY <2>3
      <3>. QED
        BY <3>1 DEF SnapshotCoverage, date
    <2>. QED
      BY <2>4 DEF P, current, scope
  <1>. QED
    BY <1>4, <1>5

(* The pinned rows give the analysis that all rows would have given.       *)
LEMMA AnalysisPinned ==
  ASSUME NEW R, Warehouse(R), NEW day \in Int, NEW request, NEW threshold
  PROVE  Analyze(PinnedRows(R, day), day, Scope(request), threshold)
           = Analyze(R, day, Scope(request), threshold)
  <1>. DEFINE P == PinnedRows(R, day)
              scope == Scope(request)
              current == SelectLatest(R, day, scope)
              metrics == Summarize(current, day, threshold)
  <1>1. SelectLatest(P, day, scope) = current
    <2>1. day - 0 = day /\ 0 \in {0} \cup Periods
      OBVIOUS
    <2>. QED
      BY <2>1, LatestPinned
  <1>2. \A back \in Periods : SelectLatest(P, day - back, scope) = SelectLatest(R, day - back, scope)
    BY LatestPinned
  <1>3. SnapshotCoverage(P, current, day, scope) = SnapshotCoverage(R, current, day, scope)
    BY CoveragePinned
  <1>. HIDE DEF P, scope, current, metrics
  <1>4. PeriodComparisons(P, metrics, day, scope, threshold)
          = PeriodComparisons(R, metrics, day, scope, threshold)
    BY <1>2 DEF PeriodComparisons
  <1>5. /\ Analyze(P, day, scope, threshold)
             = AnalysisOf(current, PeriodComparisons(P, metrics, day, scope, threshold),
                          SnapshotCoverage(P, current, day, scope), day, threshold)
        /\ Analyze(R, day, scope, threshold)
             = AnalysisOf(current, PeriodComparisons(R, metrics, day, scope, threshold),
                          SnapshotCoverage(R, current, day, scope), day, threshold)
    BY <1>1 DEF Analyze, metrics, current
  <1>6. Analyze(P, day, scope, threshold) = Analyze(R, day, scope, threshold)
    BY <1>3, <1>4, <1>5
  <1>. QED
    BY <1>6 DEF P, scope

(* The parts of an analysis. *)
LEMMA AnalysisParts ==
  ASSUME NEW rows, NEW day, NEW scope, NEW threshold
  PROVE  LET current == SelectLatest(rows, day, scope)
             calc == Analyze(rows, day, scope, threshold)
         IN  /\ calc.metrics = Summarize(current, day, threshold)
             /\ calc.periods = PeriodComparisons(rows, calc.metrics, day, scope, threshold)
             /\ DOMAIN calc.units = {row.unit : row \in current}
  BY DEF Analyze, AnalysisOf

(* The earlier value of a comparison is that of an analysis of the earlier *)
(* day, and a unit counted then is still counted.                          *)
LEMMA HistoryOf ==
  ASSUME NEW R, Warehouse(R), NEW day \in Int, NEW request, NEW threshold, NEW p \in Periods
  PROVE  LET calc == Analyze(R, day, Scope(request), threshold)
             rows == SelectLatest(R, day - p, Scope(request))
         IN  /\ \A key \in Compared :
                   calc.periods[p][key].prior = Summarize(rows, day - p, threshold)[key]
             /\ {row.unit : row \in rows} \subseteq DOMAIN calc.units
  <1>. DEFINE scope == Scope(request)
              calc == Analyze(R, day, scope, threshold)
              rows == SelectLatest(R, day - p, scope)
              current == SelectLatest(R, day, scope)
  <1>1. calc.periods = PeriodComparisons(R, calc.metrics, day, scope, threshold)
        /\ DOMAIN calc.units = {row.unit : row \in current}
    BY AnalysisParts
  <1>. HIDE DEF calc
  <1>2. calc.periods[p] = ComparedWith(rows, day - p, calc.metrics, threshold)
    BY <1>1 DEF PeriodComparisons
  <1>3. \A key \in Compared : calc.periods[p][key].prior = Summarize(rows, day - p, threshold)[key]
    BY <1>2 DEF ComparedWith
  <1>4. ASSUME NEW row \in rows
        PROVE  \E last \in current : last.unit = row.unit
    <2>1. row \in R /\ row.date <= day - p /\ InScope(row, scope)
      BY DEF SelectLatest
    <2>2. row.date \in Int /\ row.date <= day
      BY <2>1, RowsDated DEF Periods
    <2>3. PICK last \in R : /\ last.unit = row.unit /\ last.date <= day
                            /\ \A other \in R : other.unit = row.unit /\ other.date <= day
                                                  => other.date <= last.date
      BY <2>1, <2>2, LastRow
    <2>4. InScope(last, scope)
      BY <2>1, <2>3, ScopeOfUnit
    <2>5. last \in current
      BY <2>3, <2>4 DEF SelectLatest
    <2>. QED
      BY <2>3, <2>5
  <1>. HIDE DEF rows, current
  <1>5. {row.unit : row \in rows} \subseteq DOMAIN calc.units
    BY <1>1, <1>4
  <1>. QED
    BY <1>3, <1>5 DEF calc, rows

-----------------------------------------------------------------------------
(* The artifact graph *)

(* A graph with one more artifact, or another under its key. *)
Grown(graph, new, key, inputs, refs, payload) ==
    /\ DOMAIN new = DOMAIN graph \cup {key}
    /\ new[key].inputs = inputs /\ new[key].snapshots = refs /\ new[key].payload = payload
    /\ \A k \in DOMAIN graph \ {key} : new[k] = graph[k]

LEMMA WithRefsGrows ==
  ASSUME NEW graph, NEW key, NEW inputs, NEW payload, NEW refs
  PROVE  Grown(graph, WithRefs(graph, key, inputs, payload, refs), key, inputs, refs, payload)
  BY DEF WithRefs, Grown

LEMMA PutGrows ==
  ASSUME NEW graph, NEW key, NEW inputs, NEW payload
  PROVE  Grown(graph, Put(graph, key, inputs, payload), key, inputs,
               UNION {graph[k].snapshots : k \in inputs}, payload)
  <1>1. PICK refs : refs = UNION {graph[k].snapshots : k \in inputs}
    OBVIOUS
  <1>2. Put(graph, key, inputs, payload) = WithRefs(graph, key, inputs, payload, refs)
    BY <1>1 DEF Put
  <1>. QED
    BY <1>1, <1>2, WithRefsGrows

(* What is made from one artifact carries the snapshots of that one. *)
LEMMA PutOfOne ==
  ASSUME NEW graph, NEW key, NEW input, NEW payload
  PROVE  Grown(graph, Put(graph, key, {input}, payload), key, {input}, graph[input].snapshots, payload)
  <1>1. UNION {graph[k].snapshots : k \in {input}} = graph[input].snapshots
    OBVIOUS
  <1>2. PICK inputs : inputs = {input}
    OBVIOUS
  <1>3. Grown(graph, Put(graph, key, inputs, payload), key, inputs,
              UNION {graph[k].snapshots : k \in inputs}, payload)
    BY PutGrows
  <1>. QED
    BY <1>1, <1>2, <1>3

LEMMA PutOfNone ==
  ASSUME NEW graph, NEW key, NEW payload
  PROVE  Grown(graph, Put(graph, key, {}, payload), key, {}, {}, payload)
  <1>1. UNION {graph[k].snapshots : k \in {}} = {}
    OBVIOUS
  <1>2. PICK inputs : inputs = {}
    OBVIOUS
  <1>3. Grown(graph, Put(graph, key, inputs, payload), key, inputs,
              UNION {graph[k].snapshots : k \in inputs}, payload)
    BY PutGrows
  <1>. QED
    BY <1>1, <1>2, <1>3

(* The calculation and the snapshots of the data pack are those of the     *)
(* pinned rows.                                                            *)
Kept(graph, calc, refs) ==
    /\ {"calculation", "data_analysis_pack"} \subseteq DOMAIN graph
    /\ graph["calculation"].payload = calc
    /\ graph["data_analysis_pack"].snapshots = refs

-----------------------------------------------------------------------------
(* The first layer of the invariant: the rows *)

RunFits ==
    stage # "none" =>
       /\ Warehouse(run.known) /\ run.request.day \in Int
       /\ run.pinned = PinnedRows(run.known, run.request.day)

Drafted(graph) ==
    DraftKey(1) \in DOMAIN graph /\ (DraftKey(2) \in DOMAIN graph => ReviewKey(1) \in DOMAIN graph)

GraphFits ==
    /\ stage \in {"none", "queued"} => DOMAIN artifacts = {}
    /\ stage = "coordinator" =>
          /\ DOMAIN artifacts = {"analysis_request", "coordinator_decision"}
          /\ \A k \in DOMAIN artifacts : artifacts[k].snapshots = {}
    /\ stage \in {"data", "branches", "insight", "draft", "reviewed", "published"} =>
          Kept(artifacts, Calculate(run.pinned), Refs(run.pinned))
    /\ stage \in {"data", "branches", "insight"} => DraftKey(2) \notin DOMAIN artifacts
    /\ stage \in {"draft", "reviewed"} => Drafted(artifacts)
    /\ stage = "reviewed" => ReviewKey(Revision(artifacts)) \in DOMAIN artifacts

IInv ==
    /\ TypeOK /\ Warehouse(Snapshots)
    /\ RunFits /\ GraphFits /\ ReportSound

LEMMA Initial == Init => IInv
  <1>. SUFFICES ASSUME Init
                PROVE  IInv
    OBVIOUS
  <1>1. Snapshots = {}
    BY DEF Init, Snapshots
  <1>2. Warehouse(Snapshots)
    BY <1>1, FS_EmptySet DEF Warehouse, Stock
  <1>. QED
    BY <1>2 DEF Init, IInv, TypeOK, RunFits, GraphFits, ReportSound

LEMMA ImportStep ==
  ASSUME IInv, NEW file \in Files, Import(file)
  PROVE  IInv'
  <1>1. /\ files' = files \cup {file} /\ run' = run /\ artifacts' = artifacts /\ stage' = stage
        /\ error' = error /\ stage \in {"none", "queued", "coordinator"}
        /\ ValidHierarchy(file, Snapshots) /\ ParseCsv(file) /\ Unclashing(file)
    BY DEF Import
  <1>2. Snapshots' = file \cup Snapshots
    BY <1>1 DEF Snapshots
  <1>3. IsFiniteSet(file) /\ \A row \in file : SnapshotRow(row)
    BY <1>1, ReportConstants DEF ParseCsv
  <1>4. Stock(Snapshots')
    <2>1. Stock(Snapshots)
      BY DEF IInv, Warehouse
    <2>2. IsFiniteSet(Snapshots')
      BY <1>2, <1>3, <2>1, FS_Union DEF Stock
    <2>3. \A row \in Snapshots' : SnapshotRow(row)
      BY <1>2, <1>3, <2>1 DEF Stock
    <2>4. ASSUME NEW a \in Snapshots', NEW b \in Snapshots', a.unit = b.unit, a.date = b.date
          PROVE  a = b
      <3>1. CASE a \in file /\ b \in file
        BY <1>1, <2>4, <3>1 DEF ValidHierarchy
      <3>2. CASE a \in Snapshots /\ b \in Snapshots
        BY <2>1, <2>4, <3>2 DEF Stock
      <3>3. ~(a \in file /\ b \in Snapshots) /\ ~(a \in Snapshots /\ b \in file)
        BY <1>1, <2>4 DEF Unclashing
      <3>. QED
        BY <1>2, <3>1, <3>2, <3>3
    <2>. QED
      BY <2>2, <2>3, <2>4 DEF Stock
  <1>5. Warehouse(Snapshots)'
    BY <1>1, <1>2, <1>4 DEF IInv, Warehouse, ValidHierarchy
  <1>6. RunFits'
    BY <1>1 DEF IInv, RunFits
  <1>7. GraphFits' /\ ReportSound'
    <2>1. GraphFits'
      BY <1>1 DEF IInv, GraphFits
    <2>2. ReportSound'
      BY <1>1 DEF ReportSound
    <2>. QED
      BY <2>1, <2>2
  <1>8. TypeOK'
    BY <1>1 DEF IInv, TypeOK
  <1>. QED
    BY <1>5, <1>6, <1>7, <1>8 DEF IInv

LEMMA CreateStep ==
  ASSUME IInv, NEW request \in Requests, NEW threshold \in Thresholds, CreateRun(request, threshold)
  PROVE  IInv'
  <1>1. /\ files' = files /\ artifacts' = artifacts /\ stage' = "queued" /\ error' = error /\ run = Null
        /\ run' = [request |-> request, threshold |-> threshold,
                   pinned |-> PinnedRows(Snapshots, request.day), known |-> Snapshots]
    BY DEF CreateRun
  <1>2. Snapshots' = Snapshots
    BY <1>1 DEF Snapshots
  <1>3. run' \in RunRow
    <2>1. Snapshots \in SUBSET UNION Files
      BY DEF IInv, TypeOK, Snapshots
    <2>2. PinnedRows(Snapshots, request.day) \in SUBSET UNION Files
      BY <2>1, PinnedKnown
    <2>. QED
      BY <1>1, <2>1, <2>2 DEF RunRow
  <1>4. stage = "none"
    BY <1>1, ReportConstants DEF IInv, TypeOK
  <1>5. RunFits'
    BY <1>1, ReportConstants DEF IInv, RunFits
  <1>6. GraphFits' /\ ReportSound'
    <2>1. DOMAIN artifacts = {}
      BY <1>4 DEF IInv, GraphFits
    <2>. QED
      BY <1>1, <2>1 DEF GraphFits, ReportSound
  <1>7. TypeOK'
    BY <1>1, <1>3, <1>4 DEF IInv, TypeOK
  <1>. QED
    BY <1>2, <1>5, <1>6, <1>7 DEF IInv, Warehouse

(* A step that leaves the warehouse and the run as they are. *)
LEMMA SameRows ==
  ASSUME IInv, UNCHANGED <<files, run>>, stage # "none",
         stage' \in {"coordinator", "data", "branches", "insight", "draft", "reviewed", "published",
                     "failed"},
         IF stage' = "failed" THEN error' \in Codes ELSE error' = Null, GraphFits', ReportSound'
  PROVE  IInv'
  <1>1. Snapshots' = Snapshots
    BY DEF Snapshots
  <1>2. TypeOK'
    BY DEF IInv, TypeOK
  <1>. QED
    BY <1>1, <1>2 DEF IInv, Warehouse, RunFits

(* A run that fails tells why; nothing is asked of its artifacts.          *)
LEMMA Failing ==
  ASSUME IInv, UNCHANGED <<files, run>>, stage # "none", NEW code \in Codes, Fail(code)
  PROVE  IInv'
  <1>1. GraphFits' /\ ReportSound' /\ stage' = "failed" /\ error' \in Codes
    BY DEF Fail, GraphFits, ReportSound
  <1>. QED
    BY <1>1, SameRows

LEMMA CoordinateStep == IInv /\ Coordinate => IInv'
  <1>. SUFFICES ASSUME IInv, Coordinate
                PROVE  IInv'
    OBVIOUS
  <1>1. PICK g1 : g1 = Put(artifacts, "analysis_request", {}, run.request)
    OBVIOUS
  <1>2. PICK g2 : g2 = Put(g1, "coordinator_decision", {"analysis_request"}, run.request.day)
    OBVIOUS
  <1>3. /\ stage = "queued" /\ stage' = "coordinator" /\ UNCHANGED <<files, run, error>>
        /\ DOMAIN artifacts = {}
    BY DEF Coordinate, IInv, GraphFits
  <1>4. artifacts' = g2
    BY <1>1, <1>2 DEF Coordinate
  <1>5. /\ DOMAIN g1 = {"analysis_request"} /\ g1["analysis_request"].snapshots = {}
        /\ DOMAIN g2 = {"analysis_request", "coordinator_decision"}
        /\ g2["analysis_request"].snapshots = {} /\ g2["coordinator_decision"].snapshots = {}
    <2>1. Grown(artifacts, g1, "analysis_request", {}, {}, run.request)
      BY <1>1, PutOfNone
    <2>2. Grown(g1, g2, "coordinator_decision", {"analysis_request"},
                g1["analysis_request"].snapshots, run.request.day)
      BY <1>2, PutOfOne
    <2>3. DOMAIN g1 = {"analysis_request"} /\ g1["analysis_request"].snapshots = {}
      BY <1>3, <2>1 DEF Grown
    <2>. QED
      BY <2>2, <2>3 DEF Grown
  <1>6. GraphFits' /\ ReportSound'
    BY <1>3, <1>4, <1>5 DEF GraphFits, ReportSound
  <1>7. error' = Null
    BY <1>3 DEF IInv, TypeOK
  <1>. QED
    BY <1>3, <1>6, <1>7, SameRows

(* The data stage analyses the pinned rows; its pack carries their         *)
(* snapshots and no other.                                                 *)
LEMMA DataStep == IInv /\ AnalyseData => IInv'
  <1>. SUFFICES ASSUME IInv, AnalyseData
                PROVE  IInv'
    OBVIOUS
  <1>. DEFINE inputs == {"query", "query_result", "calculation", "comparison_calculation", "comparison"}
  <1>1. PICK rows, calc, refs : rows = run.pinned /\ calc = Calculate(rows) /\ refs = Refs(rows)
    OBVIOUS
  <1>2. PICK g1 : g1 = Put(artifacts, "query", {"coordinator_decision"}, run.request)
    OBVIOUS
  <1>3. PICK g2 : g2 = WithRefs(g1, "query_result", {"query"}, rows, refs)
    OBVIOUS
  <1>4. PICK g3 : g3 = Put(g2, "calculation", {"query_result"}, calc)
    OBVIOUS
  <1>5. PICK g4 : g4 = Put(g3, "comparison_calculation", {"query_result", "calculation"},
                           Calculation(g3).peers)
    OBVIOUS
  <1>6. PICK g5 : g5 = Put(g4, "comparison", {"comparison_calculation"}, PeerItems(Calculation(g3)))
    OBVIOUS
  <1>7. PICK g6 : g6 = Put(g5, "data_analysis_pack", inputs, Calculation(g3))
    OBVIOUS
  <1>8. /\ stage = "coordinator" /\ stage' = "data" /\ UNCHANGED <<files, run, error>>
        /\ DOMAIN artifacts = {"analysis_request", "coordinator_decision"}
        /\ \A k \in DOMAIN artifacts : artifacts[k].snapshots = {}
    BY DEF AnalyseData, IInv, GraphFits
  <1>9. artifacts' = g6
    <2>1. DataGraph(artifacts, rows) = g6
      BY <1>1, <1>2, <1>3, <1>4, <1>5, <1>6, <1>7 DEF DataGraph
    <2>. QED
      BY <1>1, <2>1 DEF AnalyseData, ReadSnapshots
  <1>10. /\ Grown(artifacts, g1, "query", {"coordinator_decision"},
                  artifacts["coordinator_decision"].snapshots, run.request)
         /\ Grown(g1, g2, "query_result", {"query"}, refs, rows)
         /\ Grown(g2, g3, "calculation", {"query_result"}, g2["query_result"].snapshots, calc)
    BY <1>2, <1>3, <1>4, PutOfOne, WithRefsGrows
  <1>11. /\ Grown(g3, g4, "comparison_calculation", {"query_result", "calculation"},
                  UNION {g3[k].snapshots : k \in {"query_result", "calculation"}},
                  Calculation(g3).peers)
         /\ Grown(g4, g5, "comparison", {"comparison_calculation"},
                  g4["comparison_calculation"].snapshots, PeerItems(Calculation(g3)))
    BY <1>5, <1>6, PutOfOne, PutGrows
  <1>12. Grown(g5, g6, "data_analysis_pack", inputs, UNION {g5[k].snapshots : k \in inputs},
               Calculation(g3))
    <2>. HIDE DEF inputs
    <2>. QED
      BY <1>7, PutGrows
  <1>13. /\ DOMAIN g1 = DOMAIN artifacts \cup {"query"} /\ g1["query"].snapshots = {}
         /\ DOMAIN g2 = DOMAIN g1 \cup {"query_result"} /\ g2["query"].snapshots = {}
         /\ g2["query_result"].snapshots = refs
    BY <1>8, <1>10 DEF Grown
  <1>14. /\ DOMAIN g3 = DOMAIN g2 \cup {"calculation"} /\ g3["query"].snapshots = {}
         /\ g3["query_result"].snapshots = refs /\ g3["calculation"].snapshots = refs
         /\ g3["calculation"].payload = calc
    BY <1>10, <1>13 DEF Grown
  <1>15. /\ DOMAIN g4 = DOMAIN g3 \cup {"comparison_calculation"} /\ g4["query"].snapshots = {}
         /\ g4["query_result"].snapshots = refs /\ g4["calculation"].snapshots = refs
         /\ g4["comparison_calculation"].snapshots = refs /\ g4["calculation"].payload = calc
    <2>1. UNION {g3[k].snapshots : k \in {"query_result", "calculation"}} = refs
      BY <1>14
    <2>. QED
      BY <1>11, <1>13, <1>14, <2>1 DEF Grown
  <1>16. /\ DOMAIN g5 = DOMAIN g4 \cup {"comparison"} /\ g5["calculation"].payload = calc
         /\ \A k \in inputs \ {"query"} : g5[k].snapshots = refs
         /\ g5["query"].snapshots = {}
    BY <1>11, <1>13, <1>14, <1>15, ZenonT(60) DEF Grown
  <1>17. UNION {g5[k].snapshots : k \in inputs} = refs
    BY <1>16
  <1>18. Kept(g6, calc, refs) /\ DraftKey(2) \notin DOMAIN g6
    <2>1. DOMAIN g6 = {"analysis_request", "coordinator_decision", "query", "query_result",
                       "calculation", "comparison_calculation", "comparison", "data_analysis_pack"}
      BY <1>8, <1>12, <1>13, <1>14, <1>15, <1>16 DEF Grown
    <2>2. g6["calculation"].payload = calc /\ g6["data_analysis_pack"].snapshots = refs
      BY <1>12, <1>13, <1>14, <1>15, <1>16, <1>17 DEF Grown
    <2>. QED
      BY <2>1, <2>2 DEF Kept, DraftKey
  <1>19. GraphFits' /\ ReportSound'
    <2>1. calc = Calculate(run.pinned)' /\ refs = Refs(run.pinned)'
      BY <1>1, <1>8 DEF Calculate
    <2>. QED
      BY <1>8, <1>9, <1>18, <2>1 DEF GraphFits, ReportSound
  <1>20. error' = Null
    BY <1>8 DEF IInv, TypeOK
  <1>. QED
    BY <1>8, <1>19, <1>20, SameRows

(* A graph that differs under one key at most. *)
Adds(graph, new, key) ==
    DOMAIN new = DOMAIN graph \cup {key} /\ \A k \in DOMAIN graph \ {key} : new[k] = graph[k]

LEMMA PutAdds ==
  ASSUME NEW graph, NEW key, NEW inputs, NEW payload
  PROVE  Adds(graph, Put(graph, key, inputs, payload), key)
  <1>1. PICK refs : refs = UNION {graph[k].snapshots : k \in inputs}
    OBVIOUS
  <1>2. Grown(graph, Put(graph, key, inputs, payload), key, inputs, refs, payload)
    BY <1>1, PutGrows
  <1>. QED
    BY <1>2 DEF Adds, Grown

LEMMA BranchStep == IInv /\ RunBranches => IInv'
  <1>. SUFFICES ASSUME IInv, RunBranches
                PROVE  IInv'
    OBVIOUS
  <1>1. stage = "data" /\ UNCHANGED <<files, run>>
    BY DEF RunBranches
  <1>2. CASE stage' = "failed"
    <2>1. Fail("DATA_AGENT_LINEAGE_MISMATCH") \/ Fail("CHART_AGENT_FAILED")
      BY <1>1, <1>2 DEF RunBranches
    <2>2. PICK code \in Codes : Fail(code)
      BY <2>1 DEF Codes
    <2>. QED
      BY <1>1, <2>2, Failing
  <1>3. CASE stage' # "failed"
    <2>1. artifacts' = BranchGraph(artifacts) /\ stage' = "branches" /\ error' = error
      BY <1>3 DEF RunBranches, Fail
    <2>2. PICK calc, refs : calc = Calculate(run.pinned) /\ refs = Refs(run.pinned)
      OBVIOUS
    <2>3. Kept(artifacts, calc, refs) /\ DraftKey(2) \notin DOMAIN artifacts
      BY <1>1, <2>2 DEF IInv, GraphFits
    <2>4. PICK told : told = Calculation(artifacts)
      OBVIOUS
    <2>5. PICK g1 : g1 = Put(artifacts, "comparison_pack", {"data_analysis_pack"}, ComparisonPack(told))
      OBVIOUS
    <2>6. PICK g2 : g2 = Put(g1, "visual_evidence", {"calculation", "comparison"}, Charts(told))
      OBVIOUS
    <2>7. PICK g3 : g3 = Put(g2, "chart_pack", {"data_analysis_pack", "visual_evidence"}, ChartPack(told))
      OBVIOUS
    <2>8. PICK g4 : g4 = Put(g3, "analysis_pack", {"data_analysis_pack"}, Findings(told))
      OBVIOUS
    <2>9. BranchGraph(artifacts) = g4
      BY <2>4, <2>5, <2>6, <2>7, <2>8, Zenon DEF BranchGraph
    <2>10. /\ Adds(artifacts, g1, "comparison_pack") /\ Adds(g1, g2, "visual_evidence")
           /\ Adds(g2, g3, "chart_pack") /\ Adds(g3, g4, "analysis_pack")
      BY <2>5, <2>6, <2>7, <2>8, PutAdds
    <2>11. Kept(g1, calc, refs) /\ Kept(g2, calc, refs)
      BY <2>3, <2>10 DEF Adds, Kept
    <2>12. Kept(g3, calc, refs) /\ Kept(g4, calc, refs)
      BY <2>10, <2>11 DEF Adds, Kept
    <2>14. DraftKey(2) \notin DOMAIN g4
      BY <2>3, <2>10 DEF Adds, DraftKey
    <2>15. calc = Calculate(run.pinned)' /\ refs = Refs(run.pinned)'
      BY <1>1, <2>2 DEF Calculate
    <2>16. GraphFits' /\ ReportSound'
      BY <2>1, <2>9, <2>12, <2>14, <2>15 DEF GraphFits, ReportSound
    <2>17. error' = Null
      BY <1>1, <2>1 DEF IInv, TypeOK
    <2>. QED
      BY <1>1, <2>1, <2>16, <2>17, SameRows
  <1>. QED
    BY <1>2, <1>3

LEMMA InsightStep ==
  ASSUME IInv, NEW primary, NEW fallback, RunInsight(primary, fallback)
  PROVE  IInv'
  <1>1. stage = "branches" /\ UNCHANGED <<files, run>>
    BY DEF RunInsight
  <1>2. PICK calc, refs : calc = Calculate(run.pinned) /\ refs = Refs(run.pinned)
    OBVIOUS
  <1>3. Kept(artifacts, calc, refs) /\ DraftKey(2) \notin DOMAIN artifacts
    BY <1>1, <1>2 DEF IInv, GraphFits
  <1>4. PICK told : told = Calculation(artifacts)
    OBVIOUS
  <1>5. PICK narrative : narrative = Narrate(BindClaims(told), primary, fallback)
    OBVIOUS
  <1>6. PICK insight : insight = PutInsight(artifacts, narrative)
    OBVIOUS
  <1>7. PICK graph : graph = PutInsightPack(insight)
    OBVIOUS
  <1>8. PICK inputs : inputs = {"data_analysis_pack", "insight_pack"} \cup Branches
    OBVIOUS
  <1>9. PICK pack : pack = BuildPack(told)
    OBVIOUS
  <1>10. PICK new : new = Put(graph, "decision_intelligence_pack", inputs, pack)
    OBVIOUS
  <1>11. narrative.code \in Codes \cup {Null}
    BY <1>5 DEF Narrate, Codes
  <1>12. \/ Fail("INSIGHT_AGENT_INPUT_INVALID")
         \/ narrative.code # Null /\ Fail(narrative.code)
         \/ Fail("DECISION_PACK_INVALID")
         \/ artifacts' = new /\ stage' = "insight" /\ error' = error
    BY <1>4, <1>5, <1>6, <1>7, <1>8, <1>9, <1>10, Zenon DEF RunInsight
  <1>13. \/ \E code \in Codes : Fail(code)
         \/ artifacts' = new /\ stage' = "insight" /\ error' = error
    BY <1>11, <1>12 DEF Codes
  <1>14. CASE \E code \in Codes : Fail(code)
    BY <1>1, <1>14, Failing
  <1>15. CASE artifacts' = new /\ stage' = "insight" /\ error' = error
    <2>1. /\ Adds(artifacts, insight, "insight") /\ Adds(insight, graph, "insight_pack")
          /\ Adds(graph, new, "decision_intelligence_pack")
      BY <1>6, <1>7, <1>10, PutAdds DEF PutInsight, PutInsightPack
    <2>2. Kept(insight, calc, refs) /\ Kept(graph, calc, refs)
      BY <1>3, <2>1 DEF Adds, Kept
    <2>3. Kept(new, calc, refs)
      BY <2>1, <2>2 DEF Adds, Kept
    <2>4. DraftKey(2) \notin DOMAIN new
      BY <1>3, <2>1 DEF Adds, DraftKey
    <2>5. calc = Calculate(run.pinned)' /\ refs = Refs(run.pinned)'
      BY <1>1, <1>2 DEF Calculate
    <2>6. GraphFits' /\ ReportSound'
      BY <1>15, <2>3, <2>4, <2>5 DEF GraphFits, ReportSound
    <2>7. error' = Null
      BY <1>1, <1>15 DEF IInv, TypeOK
    <2>. QED
      BY <1>1, <1>15, <2>6, <2>7, SameRows
  <1>. QED
    BY <1>13, <1>14, <1>15

LEMMA DraftStep == IInv /\ DraftReport => IInv'
  <1>. SUFFICES ASSUME IInv, DraftReport
                PROVE  IInv'
    OBVIOUS
  <1>1. stage = "insight" /\ UNCHANGED <<files, run>>
    BY DEF DraftReport
  <1>2. CASE Fail("REPORT_AGENT_FAILED")
    BY <1>1, <1>2, Failing DEF Codes
  <1>3. CASE ~Fail("REPORT_AGENT_FAILED")
    <2>1. PICK calc, refs : calc = Calculate(run.pinned) /\ refs = Refs(run.pinned)
      OBVIOUS
    <2>2. Kept(artifacts, calc, refs) /\ DraftKey(2) \notin DOMAIN artifacts
      BY <1>1, <2>1 DEF IInv, GraphFits
    <2>3. artifacts' = PutDraft(artifacts, 1) /\ stage' = "draft" /\ error' = error
      BY <1>3, Zenon DEF DraftReport
    <2>4. Adds(artifacts, artifacts', DraftKey(1))
      BY <2>3, PutAdds DEF PutDraft
    <2>5. Kept(artifacts', calc, refs) /\ Drafted(artifacts')
      BY <2>2, <2>4 DEF Adds, Kept, Drafted, DraftKey
    <2>6. calc = Calculate(run.pinned)' /\ refs = Refs(run.pinned)'
      BY <1>1, <2>1 DEF Calculate
    <2>7. GraphFits' /\ ReportSound'
      BY <2>3, <2>5, <2>6 DEF GraphFits, ReportSound
    <2>8. error' = Null
      BY <1>1, <2>3 DEF IInv, TypeOK
    <2>. QED
      BY <1>1, <2>3, <2>7, <2>8, SameRows
  <1>. QED
    BY <1>2, <1>3

LEMMA ReviewStep ==
  ASSUME IInv, NEW correction, Review(correction)
  PROVE  IInv'
  <1>1. stage = "draft" /\ UNCHANGED <<files, run>>
    BY DEF Review
  <1>2. CASE \E code \in {"REVIEWER_AGENT_INPUT_INVALID", "INVALID_DETERMINISTIC_REVIEW"} : Fail(code)
    BY <1>1, <1>2, Failing DEF Codes
  <1>3. CASE ~ \E code \in {"REVIEWER_AGENT_INPUT_INVALID", "INVALID_DETERMINISTIC_REVIEW"} : Fail(code)
    <2>1. PICK calc, refs : calc = Calculate(run.pinned) /\ refs = Refs(run.pinned)
      OBVIOUS
    <2>2. Kept(artifacts, calc, refs) /\ Drafted(artifacts)
      BY <1>1, <2>1 DEF IInv, GraphFits
    <2>3. PICK revision : revision = Revision(artifacts)
      OBVIOUS
    <2>4. ~Fail("REVIEWER_AGENT_INPUT_INVALID") /\ ~Fail("INVALID_DETERMINISTIC_REVIEW")
      BY <1>3
    <2>5. artifacts' = PutReview(artifacts, revision, correction) /\ stage' = "reviewed" /\ error' = error
      BY <2>3, <2>4, Zenon DEF Review
    <2>6. Adds(artifacts, artifacts', ReviewKey(revision))
      BY <2>5, PutAdds DEF PutReview
    <2>7. ReviewKey(revision) \in {"review_result:1", "review_result:2"}
      BY DEF ReviewKey
    <2>8. Kept(artifacts', calc, refs)
      BY <2>2, <2>6, <2>7 DEF Adds, Kept
    <2>9. /\ DraftKey(1) \in DOMAIN artifacts' <=> DraftKey(1) \in DOMAIN artifacts
          /\ DraftKey(2) \in DOMAIN artifacts' <=> DraftKey(2) \in DOMAIN artifacts
      BY <2>6, <2>7 DEF Adds, DraftKey
    <2>10. Drafted(artifacts') /\ revision = Revision(artifacts') /\ ReviewKey(revision) \in DOMAIN artifacts'
      BY <2>2, <2>3, <2>6, <2>9 DEF Adds, Drafted, Revision
    <2>11. calc = Calculate(run.pinned)' /\ refs = Refs(run.pinned)'
      BY <1>1, <2>1 DEF Calculate
    <2>12. GraphFits' /\ ReportSound'
      BY <2>5, <2>8, <2>10, <2>11 DEF GraphFits, ReportSound
    <2>13. error' = Null
      BY <1>1, <2>5 DEF IInv, TypeOK
    <2>. QED
      BY <1>1, <2>5, <2>12, <2>13, SameRows
  <1>. QED
    BY <1>2, <1>3

LEMMA ReviseStep == IInv /\ Revise => IInv'
  <1>. SUFFICES ASSUME IInv, Revise
                PROVE  IInv'
    OBVIOUS
  <1>1. stage = "reviewed" /\ UNCHANGED <<files, run>> /\ Revision(artifacts) = 1
    BY DEF Revise, Reviewed
  <1>2. CASE Fail("REPORT_REVISION_FAILED")
    BY <1>1, <1>2, Failing DEF Codes
  <1>3. CASE ~Fail("REPORT_REVISION_FAILED")
    <2>1. PICK calc, refs : calc = Calculate(run.pinned) /\ refs = Refs(run.pinned)
      OBVIOUS
    <2>2. Kept(artifacts, calc, refs) /\ Drafted(artifacts) /\ ReviewKey(1) \in DOMAIN artifacts
      BY <1>1, <2>1 DEF IInv, GraphFits
    <2>3. artifacts' = PutDraft(artifacts, 2) /\ stage' = "draft" /\ error' = error
      BY <1>3, Zenon DEF Revise
    <2>4. Adds(artifacts, artifacts', DraftKey(2))
      BY <2>3, PutAdds DEF PutDraft
    <2>5. Kept(artifacts', calc, refs) /\ Drafted(artifacts')
      BY <2>2, <2>4 DEF Adds, Kept, Drafted, DraftKey, ReviewKey
    <2>6. calc = Calculate(run.pinned)' /\ refs = Refs(run.pinned)'
      BY <1>1, <2>1 DEF Calculate
    <2>7. GraphFits' /\ ReportSound'
      BY <2>3, <2>5, <2>6 DEF GraphFits, ReportSound
    <2>8. error' = Null
      BY <1>1, <2>3 DEF IInv, TypeOK
    <2>. QED
      BY <1>1, <2>3, <2>7, <2>8, SameRows
  <1>. QED
    BY <1>2, <1>3

LEMMA LimitStep == IInv /\ FailAtReviewLimit => IInv'
  <1>. SUFFICES ASSUME IInv, FailAtReviewLimit
                PROVE  IInv'
    OBVIOUS
  <1>1. stage = "reviewed" /\ UNCHANGED <<files, run>> /\ Fail("REVIEW_REVISION_LIMIT")
    BY DEF FailAtReviewLimit, Reviewed
  <1>. QED
    BY <1>1, Failing DEF Codes

(* What the publication gate accepts is what ReportSound asks of a report. *)
LEMMA PublishStep == IInv /\ Publish => IInv'
  <1>. SUFFICES ASSUME IInv, Publish
                PROVE  IInv'
    OBVIOUS
  <1>1. stage = "reviewed" /\ UNCHANGED <<files, run>>
    BY DEF Publish, Reviewed
  <1>2. CASE Fail("PUBLICATION_FAILED")
    BY <1>1, <1>2, Failing DEF Codes
  <1>3. CASE ~Fail("PUBLICATION_FAILED")
    <2>1. PICK calc, refs : calc = Calculate(run.pinned) /\ refs = Refs(run.pinned)
      OBVIOUS
    <2>2. PICK revision : revision = Revision(artifacts)
      OBVIOUS
    <2>3. /\ Kept(artifacts, calc, refs) /\ Drafted(artifacts) /\ ReviewKey(revision) \in DOMAIN artifacts
          /\ revision \in {1, 2} /\ (revision = 2 => DraftKey(2) \in DOMAIN artifacts)
      BY <1>1, <2>1, <2>2 DEF IInv, GraphFits, Revision
    <2>4. PICK draft : draft = DraftKey(revision)
      OBVIOUS
    <2>5. PICK graph : graph = PublishedGraph(artifacts, draft)
      OBVIOUS
    <2>6. artifacts' = graph /\ stage' = "published" /\ error' = error /\ ValidPublication(graph, revision)
      BY <1>3, <2>2, <2>4, <2>5, Zenon DEF Publish
    <2>7. PICK text, snapshots : text = artifacts[draft].payload.report /\ snapshots = artifacts[draft].snapshots
      OBVIOUS
    <2>8. graph = WithRefs(artifacts, "report", ReportInputs, text, snapshots)
      BY <2>5, <2>7 DEF PublishedGraph
    <2>9. Grown(artifacts, graph, "report", ReportInputs, snapshots, text)
      BY <2>8, WithRefsGrows
    <2>10. PICK read : read = [k \in DOMAIN graph \ {"report"} |-> graph[k]]
      OBVIOUS
    <2>11. /\ \A k \in DOMAIN artifacts \ {"report"} : graph[k] = artifacts[k] /\ read[k] = artifacts[k]
           /\ graph["report"].payload = text /\ graph["report"].snapshots = snapshots
           /\ DOMAIN graph = DOMAIN artifacts \cup {"report"}
      BY <2>9, <2>10 DEF Grown
    <2>12. /\ graph["calculation"] = artifacts["calculation"]
           /\ read["data_analysis_pack"] = artifacts["data_analysis_pack"]
           /\ graph[DraftKey(1)] = artifacts[DraftKey(1)] /\ read[DraftKey(1)] = artifacts[DraftKey(1)]
           /\ graph[draft] = artifacts[draft] /\ read[draft] = artifacts[draft]
           /\ graph[ReviewKey(revision)] = artifacts[ReviewKey(revision)]
           /\ read[ReviewKey(revision)] = artifacts[ReviewKey(revision)]
           /\ revision = 2 => read[ReviewKey(1)] = artifacts[ReviewKey(1)]
                              /\ graph[ReviewKey(1)] = artifacts[ReviewKey(1)]
      BY <2>3, <2>4, <2>11 DEF Kept, Drafted, DraftKey, ReviewKey
    <2>13. Kept(graph, calc, refs) /\ Revision(graph) = revision
      BY <2>2, <2>3, <2>11 DEF Kept, Revision, DraftKey
    <2>14. /\ ValidDraft(read, revision) /\ SoundReview(read, revision)
           /\ graph[ReviewKey(revision)].payload.status = "PASS"
           /\ ValidReport(graph, text)
      BY <2>6, <2>10, <2>11 DEF ValidPublication, ValidReview
    <2>15. SoundDraft(read, revision) /\ (revision = 2 => SoundDraft(read, 1))
      BY <2>14 DEF ValidDraft
    <2>16. artifacts[ReviewKey(revision)].payload.draft = artifacts[draft].payload
      BY <2>4, <2>12, <2>14 DEF SoundReview
    <2>17. text = artifacts[DraftKey(1)].payload.report
      <3>1. \A r \in {1, revision} : SoundDraft(read, r) => read[DraftKey(r)].payload.report = Report(read)
        BY DEF SoundDraft, DraftPayload
      <3>. QED
        BY <2>3, <2>4, <2>7, <2>12, <2>15, <3>1
    <2>18. snapshots = refs
      <3>1. read[draft].snapshots = read["data_analysis_pack"].snapshots
        BY <2>4, <2>15 DEF SoundDraft
      <3>. QED
        BY <2>3, <2>7, <2>12, <3>1 DEF Kept
    <2>19. revision = 2 => IssueEvidence(artifacts, 1) \subseteq artifacts[draft].payload.evidence
      <3>1. SUFFICES ASSUME revision = 2
                     PROVE  IssueEvidence(artifacts, 1) \subseteq artifacts[draft].payload.evidence
        OBVIOUS
      <3>2. read[draft].payload.evidence = DraftEvidence(read, 2)
        BY <2>4, <2>15, <3>1 DEF SoundDraft
      <3>3. IssueEvidence(read, 1) = IssueEvidence(artifacts, 1)
        BY <2>12, <3>1 DEF IssueEvidence
      <3>. QED
        BY <2>12, <3>2, <3>3 DEF DraftEvidence
    <2>20. text.metrics = Summarize(SelectLatest(run.known, run.request.day, Scope(run.request)),
                                    run.request.day, run.threshold)
      <3>1. text.metrics = calc.metrics
        BY <2>13, <2>14 DEF ValidReport, Kept, Calculation
      <3>2. calc = Analyze(run.known, run.request.day, Scope(run.request), run.threshold)
        BY <1>1, <2>1, AnalysisPinned DEF IInv, RunFits, Calculate
      <3>. QED
        BY <3>1, <3>2, AnalysisParts
    <2>21. refs \subseteq Refs(run.known)
      BY <1>1, <2>1, PinnedKnown DEF IInv, RunFits, Refs
    <2>22. calc = Calculate(run.pinned)' /\ refs = Refs(run.pinned)'
      BY <1>1, <2>1 DEF Calculate
    <2>23. GraphFits'
      BY <2>6, <2>13, <2>22 DEF GraphFits
    <2>24. ReportSound'
      <3>1. /\ artifacts'[ReviewKey(revision)].payload.status = "PASS"
            /\ artifacts'[ReviewKey(revision)].payload.draft = artifacts'[DraftKey(revision)].payload
        BY <2>4, <2>6, <2>12, <2>14, <2>16
      <3>2. /\ artifacts'["report"].payload = artifacts'[ReviewKey(revision)].payload.draft.report
            /\ artifacts'["report"].payload = artifacts'[DraftKey(1)].payload.report
        BY <2>4, <2>6, <2>7, <2>11, <2>12, <2>16, <2>17
      <3>3. artifacts'["report"].snapshots = Refs(run.pinned)' /\ refs \subseteq Refs(run.known)'
        BY <1>1, <2>1, <2>6, <2>11, <2>18, <2>21
      <3>4. revision = 2 => IssueEvidence(artifacts', 1)
                              \subseteq artifacts'[ReviewKey(revision)].payload.draft.evidence
        BY <2>6, <2>12, <2>16, <2>19 DEF IssueEvidence
      <3>5. artifacts'["report"].payload.metrics
              = Summarize(SelectLatest(run.known, run.request.day, Scope(run.request)),
                          run.request.day, run.threshold)'
        BY <1>1, <2>6, <2>11, <2>20
      <3>6. revision = Revision(artifacts')
        BY <2>6, <2>13
      <3>. QED
        BY <2>6, <2>22, <3>1, <3>2, <3>3, <3>4, <3>5, <3>6 DEF ReportSound
    <2>25. error' = Null
      BY <1>1, <2>6 DEF IInv, TypeOK
    <2>. QED
      BY <1>1, <2>6, <2>23, <2>24, <2>25, SameRows
  <1>. QED
    BY <1>2, <1>3

LEMMA Stepwise == IInv /\ [Next]_vars => IInv'
  <1>. SUFFICES ASSUME IInv, [Next]_vars
                PROVE  IInv'
    OBVIOUS
  <1>1. CASE \E file \in Files : Import(file)
    BY <1>1, ImportStep
  <1>2. CASE \E request \in Requests, threshold \in Thresholds : CreateRun(request, threshold)
    BY <1>2, CreateStep
  <1>3. CASE Coordinate
    BY <1>3, CoordinateStep
  <1>4. CASE AnalyseData
    BY <1>4, DataStep
  <1>5. CASE RunBranches
    BY <1>5, BranchStep
  <1>6. CASE \E primary, fallback \in Answers : RunInsight(primary, fallback)
    BY <1>6, InsightStep
  <1>7. CASE DraftReport
    BY <1>7, DraftStep
  <1>8. CASE stage = "draft" /\ \E correction \in Corrections(artifacts) : Review(correction)
    BY <1>8, ReviewStep
  <1>9. CASE Revise
    BY <1>9, ReviseStep
  <1>10. CASE FailAtReviewLimit
    BY <1>10, LimitStep
  <1>11. CASE Publish
    BY <1>11, PublishStep
  <1>12. CASE UNCHANGED vars
    <2>1. Snapshots' = Snapshots
      BY <1>12 DEF Snapshots, vars
    <2>2. TypeOK' /\ Warehouse(Snapshots)' /\ RunFits'
      BY <1>12, <2>1 DEF IInv, TypeOK, RunFits, Warehouse, vars
    <2>3. GraphFits'
      BY <1>12 DEF IInv, GraphFits, Calculate, vars
    <2>4. ReportSound'
      BY <1>12 DEF IInv, ReportSound, vars
    <2>. QED
      BY <2>2, <2>3, <2>4 DEF IInv
  <1>. QED
    BY <1>1, <1>2, <1>3, <1>4, <1>5, <1>6, <1>7, <1>8, <1>9, <1>10, <1>11, <1>12 DEF Next

-----------------------------------------------------------------------------
(* What holds in every state *)

(* The invariant of the whole pipeline: the warehouse is finite, dated and *)
(* hierarchical, the run reads the rows pinned of it and the graph keeps   *)
(* their calculation through every later stage.                            *)
THEOREM Invariance == Spec => []IInv
  <1>. QED
    BY Initial, Stepwise, PTL DEF Spec

(* A run has a request once it is queued and a known code when it failed.  *)
THEOREM TypeCorrect == Spec => []TypeOK
  <1>1. IInv => TypeOK
    BY DEF IInv
  <1>. QED
    BY <1>1, Invariance, PTL

LEMMA Enough == IInv => PinnedIsEnough
  <1>. SUFFICES ASSUME IInv, stage = "data"
                PROVE  Calculation(artifacts)
                         = Analyze(run.known, run.request.day, Scope(run.request), run.threshold)
    BY DEF PinnedIsEnough
  <1>1. Calculation(artifacts) = Calculate(run.pinned)
    BY DEF IInv, GraphFits, Kept, Calculation
  <1>2. Calculate(run.pinned)
          = Analyze(run.known, run.request.day, Scope(run.request), run.threshold)
    BY AnalysisPinned DEF IInv, RunFits, Calculate
  <1>. QED
    BY <1>1, <1>2

(* The pinned rows give the analysis the whole warehouse of the moment the *)
(* run was enqueued would have given, whatever was imported since          *)
(* (buildRun(), analyze()).                                                *)
THEOREM PinnedIsEnoughHolds == Spec => []PinnedIsEnough
  <1>. QED
    BY Enough, Invariance, PTL

(* The half of FiguresAgree about time. *)
Dated == stage = "data" => HistoryAgrees(Calculation(artifacts))

LEMMA History == IInv => Dated
  <1>. SUFFICES ASSUME IInv, stage = "data"
                PROVE  HistoryAgrees(Calculation(artifacts))
    BY DEF Dated
  <1>1. Calculation(artifacts)
          = Analyze(run.known, run.request.day, Scope(run.request), run.threshold)
    BY Enough DEF PinnedIsEnough
  <1>2. Warehouse(run.known) /\ run.request.day \in Int
    BY DEF IInv, RunFits
  <1>. QED
    BY <1>1, <1>2, HistoryOf DEF HistoryAgrees

(* The earlier value of every comparison the data stage keeps is the value *)
(* an analysis of that earlier day gives, from all rows there were, and no *)
(* unit counted then is missing now (buildPeriodComparisons()).            *)
THEOREM DatedHolds == Spec => []Dated
  <1>. QED
    BY History, Invariance, PTL

(* A published report is the first draft's, passed its review and stands   *)
(* on the pinned rows and on no other.                                     *)
THEOREM ReportSoundHolds == Spec => []ReportSound
  <1>1. IInv => ReportSound
    BY DEF IInv
  <1>. QED
    BY <1>1, Invariance, PTL

-----------------------------------------------------------------------------
(* What an artifact is made from *)

Grow(graph, known) == known \cup UNION {graph[k].inputs : k \in known}

Upstream(graph, start, n, f) ==
    f = [depth \in 0..n |-> IF depth = 0 THEN start ELSE Grow(graph, f[depth - 1])]

(* The closure is well defined: the depths are finitely many, and the      *)
(* first that could not be reached would follow one that is.               *)
LEMMA ClosureDefined ==
  ASSUME NEW graph, NEW start, NEW N \in Nat
  PROVE  \E f : Upstream(graph, start, N, f)
  <1>. DEFINE Is(f, n) == Upstream(graph, start, n, f)
              Without == {n \in 0..N : ~ \E f : Is(f, n)}
  <1>1. CASE Without = {}
    <2>1. N \in 0..N
      OBVIOUS
    <2>. QED
      BY <1>1, <2>1
  <1>2. CASE Without # {}
    <2>1. IsFiniteSet(Without) /\ Without \subseteq Int
      <3>1. PICK lo \in Int : lo = 0
        OBVIOUS
      <3>2. IsFiniteSet(lo..N)
        BY FS_Interval
      <3>3. Without \subseteq lo..N
        BY <3>1
      <3>. QED
        BY <3>2, <3>3, FS_Subset
    <2>2. PICK n \in Without : \A m \in Without : n <= m
      <3>. HIDE DEF Without
      <3>. QED
        BY <1>2, <2>1, Extremes
    <2>3. CASE n = 0
      <3>1. PICK f : f = [depth \in 0..0 |-> start]
        OBVIOUS
      <3>2. Is(f, 0)
        <4>1. \A depth \in 0..0 : depth = 0
          OBVIOUS
        <4>. QED
          BY <3>1, <4>1 DEF Upstream
      <3>. QED
        BY <2>3, <3>2
    <2>4. CASE n # 0
      <3>1. n \in 1..N /\ n - 1 \in 0..N /\ ~(n <= n - 1)
        BY <2>4
      <3>2. n - 1 \notin Without
        BY <2>2, <3>1
      <3>3. PICK f : Is(f, n - 1)
        BY <3>1, <3>2
      <3>4. PICK g : g = [depth \in 0..n |-> IF depth = n THEN Grow(graph, f[n - 1]) ELSE f[depth]]
        OBVIOUS
      <3>5. ASSUME NEW depth \in 0..n
            PROVE  g[depth] = IF depth = 0 THEN start ELSE Grow(graph, g[depth - 1])
        <4>1. CASE depth = n
          BY <3>1, <3>4, <4>1
        <4>2. CASE depth # n
          <5>1. depth \in 0..(n - 1) /\ depth # n /\ (depth # 0 => depth - 1 \in 0..n /\ depth - 1 # n)
            BY <3>1, <4>2
          <5>2. g[depth] = f[depth]
            BY <3>4, <5>1
          <5>3. depth # 0 => g[depth - 1] = f[depth - 1]
            BY <3>4, <5>1
          <5>4. f[depth] = IF depth = 0 THEN start ELSE Grow(graph, f[depth - 1])
            BY <3>3, <5>1 DEF Upstream
          <5>. QED
            BY <5>2, <5>3, <5>4
        <4>. QED
          BY <4>1, <4>2
      <3>6. Is(g, n)
        BY <3>4, <3>5 DEF Upstream
      <3>. QED
        BY <3>6
    <2>. QED
      BY <2>3, <2>4
  <1>. QED
    BY <1>1, <1>2

(* The closure of an artifact of a graph of two or more holds its inputs,  *)
(* their inputs, and the inputs of those.                                  *)
LEMMA ClosureReaches ==
  ASSUME NEW graph, IsFiniteSet(DOMAIN graph), 2 <= Cardinality(DOMAIN graph), NEW root
  PROVE  Grow(graph, Grow(graph, graph[root].inputs)) \subseteq Closure(graph, root)
  <1>1. PICK N \in Nat : N = Cardinality(DOMAIN graph)
    BY FS_CardinalityType
  <1>2. PICK start : start = graph[root].inputs
    OBVIOUS
  <1>3. PICK f : f = CHOOSE g : Upstream(graph, start, N, g)
    OBVIOUS
  <1>4. Upstream(graph, start, N, f)
    <2>1. \E g : Upstream(graph, start, N, g)
      BY ClosureDefined
    <2>. QED
      BY <1>3, <2>1, Zenon
  <1>5. Closure(graph, root) = f[N]
    BY <1>1, <1>2, <1>3 DEF Closure, Grow, Upstream
  <1>6. /\ f[0] = start
        /\ \A d \in 0..N : d # 0 => f[d] = Grow(graph, f[d - 1])
    BY <1>4 DEF Upstream
  <1>7. f[2] = Grow(graph, Grow(graph, start)) /\ f[2] \subseteq f[2]
    <2>1. f[1] = Grow(graph, start)
      <3>1. 1 \in 0..N /\ 1 - 1 = 0
        BY <1>1
      <3>. QED
        BY <1>6, <3>1
    <2>2. 2 \in 0..N /\ 2 - 1 = 1
      BY <1>1
    <2>. QED
      BY <1>6, <2>1, <2>2
  <1>8. \A d \in 0..N : d # 0 => f[d - 1] \subseteq f[d]
    BY <1>6 DEF Grow
  <1>9. \A d \in 2..N : f[2] \subseteq f[d]
    <2>. DEFINE Without == {d \in 2..N : ~(f[2] \subseteq f[d])}
    <2>1. SUFFICES ASSUME Without # {}
                   PROVE  FALSE
      OBVIOUS
    <2>2. IsFiniteSet(Without) /\ Without \subseteq Int
      <3>1. PICK lo \in Int : lo = 2
        OBVIOUS
      <3>2. IsFiniteSet(lo..N)
        BY FS_Interval
      <3>3. Without \subseteq lo..N
        BY <3>1
      <3>. QED
        BY <3>2, <3>3, FS_Subset
    <2>3. PICK n \in Without : \A m \in Without : n <= m
      <3>. HIDE DEF Without
      <3>. QED
        BY <2>1, <2>2, Extremes
    <2>4. n # 2 /\ n \in 2..N
      OBVIOUS
    <2>5. n - 1 \in 2..N /\ ~(n <= n - 1) /\ n \in 0..N /\ n # 0
      BY <2>4
    <2>6. f[2] \subseteq f[n - 1]
      BY <2>3, <2>5
    <2>7. f[n - 1] \subseteq f[n]
      BY <1>8, <2>5
    <2>. QED
      BY <2>6, <2>7
  <1>10. N \in 2..N
    BY <1>1
  <1>. QED
    BY <1>2, <1>5, <1>7, <1>9, <1>10

-----------------------------------------------------------------------------
(* Lineage *)

Early == {"analysis_request", "coordinator_decision", "query"}   \* made before any row is read

(* Before rows are read artifacts carry no snapshots, afterwards they all  *)
(* carry those of the rows.                                                *)
Lineage(graph, refs) ==
    /\ IsFiniteSet(DOMAIN graph)
    /\ \A key \in DOMAIN graph :
          /\ graph[key].inputs \subseteq DOMAIN graph
          /\ graph[key].snapshots = IF key \in Early THEN {} ELSE refs
          /\ key \in Early => graph[key].inputs \subseteq Early
          /\ key \notin Early \cup {"query_result"} => graph[key].inputs \ Early # {}
    /\ "query_result" \in DOMAIN graph => Refs(graph["query_result"].payload) = refs

CarriedBy(graph, inputs, carried) == carried = UNION {graph[k].snapshots : k \in inputs}

LEMMA SnapshotsOf ==
  ASSUME NEW graph, NEW refs, Lineage(graph, refs), NEW inputs, inputs \subseteq DOMAIN graph,
         NEW carried, CarriedBy(graph, inputs, carried)
  PROVE  /\ inputs \subseteq Early => carried = {}
         /\ inputs \ Early # {} => carried = refs
  <1>1. \A k \in inputs : graph[k].snapshots = IF k \in Early THEN {} ELSE refs
    BY DEF Lineage
  <1>2. CASE inputs \subseteq Early
    BY <1>1, <1>2 DEF CarriedBy
  <1>3. CASE inputs \ Early # {}
    <2>1. PICK k \in inputs : k \notin Early
      BY <1>3
    <2>2. graph[k].snapshots = refs /\ refs \subseteq carried
      BY <1>1, <2>1 DEF CarriedBy
    <2>3. carried \subseteq refs
      BY <1>1 DEF CarriedBy
    <2>. QED
      BY <2>1, <2>2, <2>3
  <1>. QED
    BY <1>2, <1>3

LEMMA LineageSound ==
  ASSUME NEW graph, NEW refs, Lineage(graph, refs)
  PROVE  SoundLineage(graph)
  <1>1. SUFFICES ASSUME NEW key \in DOMAIN graph
                 PROVE  /\ graph[key].inputs \subseteq DOMAIN graph
                        /\ graph[key].snapshots =
                             IF key = "query_result" THEN Refs(graph[key].payload)
                             ELSE UNION {graph[k].snapshots : k \in graph[key].inputs}
    BY DEF SoundLineage
  <1>2. PICK inputs, carried : /\ inputs = graph[key].inputs
                               /\ carried = UNION {graph[k].snapshots : k \in inputs}
    OBVIOUS
  <1>3. /\ inputs \subseteq DOMAIN graph
        /\ graph[key].snapshots = IF key \in Early THEN {} ELSE refs
        /\ key \in Early => inputs \subseteq Early
        /\ key \notin Early \cup {"query_result"} => inputs \ Early # {}
    BY <1>2 DEF Lineage
  <1>4. (inputs \subseteq Early => carried = {}) /\ (inputs \ Early # {} => carried = refs)
    <2>1. CarriedBy(graph, inputs, carried)
      BY <1>2 DEF CarriedBy
    <2>. QED
      BY <1>3, <2>1, SnapshotsOf
  <1>5. CASE key = "query_result"
    BY <1>2, <1>3, <1>5 DEF Lineage, Early
  <1>6. CASE key # "query_result"
    BY <1>2, <1>3, <1>4, <1>6
  <1>. QED
    BY <1>5, <1>6

(* One more artifact made from others keeps the lineage.                   *)
LEMMA LineageGrows ==
  ASSUME NEW graph, NEW refs, Lineage(graph, refs), NEW new, NEW key, NEW inputs, NEW carried, NEW payload,
         Grown(graph, new, key, inputs, carried, payload), inputs \subseteq DOMAIN graph,
         \/ key \in Early /\ inputs \subseteq Early /\ carried = {}
         \/ key = "query_result" /\ carried = refs /\ Refs(payload) = refs
         \/ key \notin Early \cup {"query_result"} /\ inputs \ Early # {} /\ carried = refs
  PROVE  Lineage(new, refs)
  <1>1. /\ DOMAIN new = DOMAIN graph \cup {key}
        /\ new[key].inputs = inputs /\ new[key].snapshots = carried /\ new[key].payload = payload
        /\ \A k \in DOMAIN graph \ {key} : new[k] = graph[k]
    BY DEF Grown
  <1>2. IsFiniteSet(DOMAIN new)
    BY <1>1, FS_AddElement DEF Lineage
  <1>3. "query_result" \notin Early
    BY DEF Early
  <1>4. ASSUME NEW k \in DOMAIN new
        PROVE  /\ new[k].inputs \subseteq DOMAIN new
               /\ new[k].snapshots = IF k \in Early THEN {} ELSE refs
               /\ k \in Early => new[k].inputs \subseteq Early
               /\ k \notin Early \cup {"query_result"} => new[k].inputs \ Early # {}
    <2>1. CASE k = key
      BY <1>1, <1>3, <2>1
    <2>2. CASE k # key
      BY <1>1, <2>2 DEF Lineage
    <2>. QED
      BY <2>1, <2>2
  <1>5. "query_result" \in DOMAIN new => Refs(new["query_result"].payload) = refs
    <2>1. CASE key = "query_result"
      BY <1>1, <1>3, <2>1
    <2>2. CASE key # "query_result"
      BY <1>1, <2>2 DEF Lineage
    <2>. QED
      BY <2>1, <2>2
  <1>. QED
    BY <1>2, <1>4, <1>5 DEF Lineage

LEMMA PutLineage ==
  ASSUME NEW graph, NEW refs, Lineage(graph, refs), NEW key, NEW inputs, NEW payload,
         inputs \subseteq DOMAIN graph,
         \/ key \in Early /\ inputs \subseteq Early
         \/ key \notin Early \cup {"query_result"} /\ inputs \ Early # {}
  PROVE  Lineage(Put(graph, key, inputs, payload), refs)
  <1>1. PICK carried : carried = UNION {graph[k].snapshots : k \in inputs}
    OBVIOUS
  <1>2. PICK new : new = Put(graph, key, inputs, payload)
    OBVIOUS
  <1>3. Grown(graph, new, key, inputs, carried, payload)
    BY <1>1, <1>2, PutGrows
  <1>4. (inputs \subseteq Early => carried = {}) /\ (inputs \ Early # {} => carried = refs)
    <2>1. CarriedBy(graph, inputs, carried)
      BY <1>1 DEF CarriedBy
    <2>. QED
      BY <2>1, SnapshotsOf
  <1>5. Lineage(new, refs)
    BY <1>3, <1>4, LineageGrows
  <1>. QED
    BY <1>2, <1>5

-----------------------------------------------------------------------------
(* What the stages leave in the graph *)

Entry(graph, key, inputs, payload) ==
    key \in DOMAIN graph /\ graph[key].inputs = inputs /\ graph[key].payload = payload

DataInputs == {"query", "query_result", "calculation", "comparison_calculation", "comparison"}

DataMade(graph, rows, calc) ==
    /\ Entry(graph, "query_result", {"query"}, rows)
    /\ Entry(graph, "calculation", {"query_result"}, calc)
    /\ Entry(graph, "comparison_calculation", {"query_result", "calculation"}, calc.peers)
    /\ Entry(graph, "comparison", {"comparison_calculation"}, PeerItems(calc))
    /\ Entry(graph, "data_analysis_pack", DataInputs, calc)

BranchesMade(graph, calc) ==
    /\ Entry(graph, "comparison_pack", {"data_analysis_pack"}, ComparisonPack(calc))
    /\ Entry(graph, "visual_evidence", {"calculation", "comparison"}, Charts(calc))
    /\ Entry(graph, "chart_pack", {"data_analysis_pack", "visual_evidence"}, ChartPack(calc))
    /\ Entry(graph, "analysis_pack", {"data_analysis_pack"}, Findings(calc))

ClaimsMade(graph, calc) ==
    /\ "insight" \in DOMAIN graph
    /\ graph["insight"].payload.claims = BindClaims(calc)

InsightMade(graph, calc) ==
    /\ ClaimsMade(graph, calc)
    /\ "insight_pack" \in DOMAIN graph
    /\ graph["insight_pack"].inputs = {"data_analysis_pack", "insight"} \cup Branches
    /\ Entry(graph, "decision_intelligence_pack", {"data_analysis_pack", "insight_pack"} \cup Branches,
             BuildPack(calc))

ReportOf(calc) ==
    [claims |-> BindClaims(calc), metrics |-> calc.metrics, units |-> calc.units,
     sections |-> SectionStatus(calc, BindClaims(calc)), brief |-> BuildBrief(calc)]

DraftMade(graph, calc, revision) ==
    Entry(graph, DraftKey(revision), DraftInputs(revision),
          [revision |-> revision, report |-> ReportOf(calc), evidence |-> DraftEvidence(graph, revision)])

(* A review asks for nothing, or for one claim to be worded again.         *)
Asked(calc) == {{}} \cup {{CorrectionIssue(BindClaims(calc)[i])} : i \in DOMAIN BindClaims(calc)}

ReviewMade(graph, calc, revision) ==
    \E issues \in Asked(calc) :
       Entry(graph, ReviewKey(revision), {DraftKey(revision)},
             [draft |-> graph[DraftKey(revision)].payload, issues |-> issues,
              status |-> IF issues = {} THEN "PASS" ELSE "REVISION_REQUIRED"])

LEMMA EntryPut ==
  ASSUME NEW graph, NEW key, NEW inputs, NEW payload
  PROVE  Entry(Put(graph, key, inputs, payload), key, inputs, payload)
  <1>1. PICK refs : refs = UNION {graph[k].snapshots : k \in inputs}
    OBVIOUS
  <1>2. Grown(graph, Put(graph, key, inputs, payload), key, inputs, refs, payload)
    BY <1>1, PutGrows
  <1>. QED
    BY <1>2 DEF Entry, Grown

LEMMA EntryKept ==
  ASSUME NEW graph, NEW new, NEW added, Adds(graph, new, added), NEW key, key # added, NEW inputs, NEW payload,
         Entry(graph, key, inputs, payload)
  PROVE  Entry(new, key, inputs, payload)
  BY DEF Entry, Adds

DataKeys == {"query_result", "calculation", "comparison_calculation", "comparison", "data_analysis_pack"}
BranchKeys == {"comparison_pack", "visual_evidence", "chart_pack", "analysis_pack"}
InsightKeys == {"insight", "insight_pack", "decision_intelligence_pack"}

LEMMA DataKept ==
  ASSUME NEW graph, NEW new, NEW added, Adds(graph, new, added), added \notin DataKeys, NEW rows, NEW calc,
         DataMade(graph, rows, calc)
  PROVE  DataMade(new, rows, calc)
  BY EntryKept DEF DataMade, DataKeys

LEMMA BranchesKept ==
  ASSUME NEW graph, NEW new, NEW added, Adds(graph, new, added), added \notin BranchKeys, NEW calc,
         BranchesMade(graph, calc)
  PROVE  BranchesMade(new, calc)
  BY EntryKept DEF BranchesMade, BranchKeys

LEMMA InsightKept ==
  ASSUME NEW graph, NEW new, NEW added, Adds(graph, new, added), added \notin InsightKeys, NEW calc,
         InsightMade(graph, calc)
  PROVE  InsightMade(new, calc)
  <1>1. Entry(new, "decision_intelligence_pack", {"data_analysis_pack", "insight_pack"} \cup Branches,
              BuildPack(calc))
    BY EntryKept DEF InsightMade, InsightKeys
  <1>2. new["insight"] = graph["insight"] /\ new["insight_pack"] = graph["insight_pack"]
    BY DEF InsightMade, ClaimsMade, InsightKeys, Adds
  <1>. QED
    BY <1>1, <1>2 DEF InsightMade, ClaimsMade, Adds

-----------------------------------------------------------------------------
(* The claims *)

LEMMA ClaimValue ==
  ASSUME NEW calc, Analysed(calc), NEW x \in calc.candidates
  PROVE  ValueAt(calc, ClaimPath(x)) = calc.metrics[x.metric]
  <1>1. x.metric \in Compared /\ x.period \in Periods \cup {Null}
    BY CandidatesKept
  <1>2. PICK p, key : p = x.period /\ key = x.metric
    OBVIOUS
  <1>3. CASE p = Null
    <2>1. ClaimPath(x) = <<"metrics", key>>
      BY <1>2, <1>3 DEF ClaimPath
    <2>2. ValueAt(calc, <<"metrics", key>>) = calc.metrics[key]
      BY PathValues
    <2>. QED
      BY <1>2, <2>1, <2>2
  <1>4. CASE p # Null
    <2>1. ClaimPath(x) = <<"periods", p, key, "current">>
      BY <1>2, <1>4 DEF ClaimPath
    <2>2. PICK side : side = "current"
      OBVIOUS
    <2>3. ValueAt(calc, <<"periods", p, key, side>>) = calc.periods[p][key][side]
      BY PathValues
    <2>4. calc.periods[p][key].current = calc.metrics[key]
      BY <1>1, <1>2, <1>4 DEF Analysed, ComparisonsFit
    <2>. QED
      BY <1>2, <2>1, <2>2, <2>3, <2>4
  <1>. QED
    BY <1>3, <1>4

(* Each candidate has its claim, and each claim its candidate.             *)
LEMMA ClaimsAre ==
  ASSUME NEW calc, Analysed(calc), NEW claims, claims = BindClaims(calc), NEW C, C = calc.candidates
  PROVE  /\ IsFiniteSet(C) /\ DOMAIN claims = 1..Cardinality(C) /\ Len(claims) = Cardinality(C)
         /\ \A i \in DOMAIN claims : \E x \in C :
               /\ claims[i].id = <<x.metric, x.period>>
               /\ claims[i].value = ValueAt(calc, claims[i].path)
         /\ \A x \in C : \E i \in DOMAIN claims : claims[i].id = <<x.metric, x.period>>
         /\ \A i, j \in DOMAIN claims : claims[i].id = claims[j].id => i = j
  <1>1. /\ IsFiniteSet(C) /\ \A x \in C : x.priority \in Int
        /\ \A x, y \in C : x.priority = y.priority \/ x.metric = y.metric => x = y
    BY CandidatesKept
  <1>2. Cardinality(C) \in Nat
    BY <1>1, FS_CardinalityType
  <1>3. PICK R : R = {p \in C \X C : p[1].priority > p[2].priority}
    OBVIOUS
  <1>4. StrictOrder(C, R)
    BY <1>1, <1>3 DEF StrictOrder
  <1>5. \A x \in C : Ahead(C, R, x) = {y \in C : Stronger(y, x)}
    BY <1>3 DEF Ahead, Stronger
  <1>6. PICK ranked : ranked = Ordered(C, Stronger)
    OBVIOUS
  <1>7. ranked = [i \in 1..Cardinality(C) |->
                    CHOOSE x \in C : Cardinality({y \in C : Stronger(y, x)}) = i - 1]
    BY <1>6 DEF Ordered
  <1>8. ASSUME NEW i \in 1..Cardinality(C)
        PROVE  ranked[i] \in C /\ Cardinality(Ahead(C, R, ranked[i])) = i - 1
    <2>1. i - 1 \in 0..(Cardinality(C) - 1)
      BY <1>2
    <2>2. PICK x \in C : Cardinality(Ahead(C, R, x)) = i - 1
      BY <1>1, <1>4, <2>1, RankTaken
    <2>3. Cardinality({y \in C : Stronger(y, x)}) = i - 1
      BY <1>5, <2>2
    <2>4. ranked[i] \in C /\ Cardinality({y \in C : Stronger(y, ranked[i])}) = i - 1
      BY <1>7, <2>3
    <2>. QED
      BY <1>5, <2>4
  <1>9. claims = [i \in 1..Cardinality(C) |->
                    [id |-> <<ranked[i].metric, ranked[i].period>>, metric |-> ranked[i].metric,
                     value |-> calc.metrics[ranked[i].metric], path |-> ClaimPath(ranked[i])]]
    <2>1. DOMAIN ranked = 1..Cardinality(C)
      BY <1>7
    <2>. QED
      BY <1>6, <2>1 DEF BindClaims
  <1>10. DOMAIN claims = 1..Cardinality(C) /\ Len(claims) = Cardinality(C)
    BY <1>2, <1>9
  <1>11. ASSUME NEW i \in DOMAIN claims
         PROVE  /\ ranked[i] \in C /\ Cardinality(Ahead(C, R, ranked[i])) = i - 1
                /\ claims[i].id = <<ranked[i].metric, ranked[i].period>>
                /\ claims[i].value = ValueAt(calc, claims[i].path)
    <2>1. i \in 1..Cardinality(C)
      BY <1>10
    <2>2. ValueAt(calc, ClaimPath(ranked[i])) = calc.metrics[ranked[i].metric]
      BY <1>8, <2>1, ClaimValue
    <2>. QED
      BY <1>8, <1>9, <2>1, <2>2
  <1>12. ASSUME NEW x \in C
         PROVE  \E i \in DOMAIN claims : claims[i].id = <<x.metric, x.period>>
    <2>1. PICK r : r = Cardinality(Ahead(C, R, x))
      OBVIOUS
    <2>2. r \in 0..(Cardinality(C) - 1)
      BY <1>1, <1>4, <2>1, RankBounded
    <2>3. r + 1 \in DOMAIN claims /\ (r + 1) - 1 = r
      BY <1>2, <1>10, <2>2
    <2>4. ranked[r + 1] \in C /\ Cardinality(Ahead(C, R, ranked[r + 1])) = r
      BY <1>11, <2>3
    <2>5. ranked[r + 1] = x
      BY <1>1, <1>4, <2>1, <2>4, RankApart
    <2>. QED
      BY <1>11, <2>3, <2>5
  <1>13. ASSUME NEW i \in DOMAIN claims, NEW j \in DOMAIN claims, claims[i].id = claims[j].id
         PROVE  i = j
    <2>1. ranked[i].metric = ranked[j].metric
      BY <1>11, <1>13
    <2>2. ranked[i] = ranked[j]
      BY <1>1, <1>11, <2>1
    <2>3. i - 1 = j - 1 /\ i \in Int /\ j \in Int
      BY <1>2, <1>10, <1>11, <2>2
    <2>. QED
      BY <2>3
  <1>. QED
    BY <1>1, <1>10, <1>11, <1>12, <1>13

LEMMA ClaimsBound == ASSUME NEW calc, Analysed(calc) PROVE Bound(calc)
  <1>1. PICK claims, C : claims = BindClaims(calc) /\ C = calc.candidates
    OBVIOUS
  <1>2. \A i \in DOMAIN claims : claims[i].value = ValueAt(calc, claims[i].path)
    BY <1>1, ClaimsAre
  <1>. QED
    BY <1>1, <1>2 DEF Bound

Joined(findings, claims) ==
    /\ Cardinality(findings) = Len(claims)
    /\ {f.candidate : f \in findings} = {claims[i].id : i \in DOMAIN claims}

(* Claims and findings are of the same candidates, one of each.            *)
LEMMA FindingsJoin ==
  ASSUME NEW calc, Analysed(calc), NEW claims, claims = BindClaims(calc),
         NEW findings, findings = Findings(calc)
  PROVE  Joined(findings, claims)
  <1>1. PICK C : C = calc.candidates
    OBVIOUS
  <1>2. /\ IsFiniteSet(C) /\ DOMAIN claims = 1..Cardinality(C) /\ Len(claims) = Cardinality(C)
        /\ \A i \in DOMAIN claims : \E x \in C : claims[i].id = <<x.metric, x.period>>
        /\ \A x \in C : \E i \in DOMAIN claims : claims[i].id = <<x.metric, x.period>>
    BY <1>1, ClaimsAre, SMTT(30)
  <1>3. PICK f : f = [x \in C |-> [candidate |-> <<x.metric, x.period>>,
                                   category |-> IF x.period # Null THEN "trend"
                                                ELSE IF x.metric = "missing_inventory_age_rate"
                                                     THEN "data_quality" ELSE "current_state"]]
    OBVIOUS
  <1>4. findings = {f[x] : x \in C}
    BY <1>1, <1>3 DEF Findings
  <1>5. \A x \in C : f[x].candidate = <<x.metric, x.period>>
    BY <1>3
  <1>6. \A x, y \in C : f[x] = f[y] => x = y
    <2>1. \A x, y \in C : x.metric = y.metric => x = y
      BY <1>1, CandidatesKept
    <2>2. SUFFICES ASSUME NEW x \in C, NEW y \in C, f[x] = f[y]
                   PROVE  x = y
      OBVIOUS
    <2>3. <<x.metric, x.period>> = <<y.metric, y.period>>
      BY <1>5, <2>2
    <2>. QED
      BY <2>1, <2>3
  <1>7. Cardinality(findings) = Cardinality(C)
    <2>1. DOMAIN f = C
      BY <1>3
    <2>. QED
      BY <1>2, <1>4, <1>6, <2>1, ImagedOnce
  <1>8. ASSUME NEW x \in C
        PROVE  \E i \in DOMAIN claims : f[x].candidate = claims[i].id
    BY <1>2, <1>5
  <1>9. ASSUME NEW i \in DOMAIN claims
        PROVE  \E x \in C : f[x].candidate = claims[i].id
    BY <1>2, <1>5, ZenonT(60)
  <1>10. {g.candidate : g \in findings} = {f[x].candidate : x \in C}
    BY <1>4
  <1>11. {f[x].candidate : x \in C} = {claims[i].id : i \in DOMAIN claims}
    BY <1>8, <1>9
  <1>. QED
    BY <1>2, <1>7, <1>10, <1>11 DEF Joined

-----------------------------------------------------------------------------
(* What the validators ask of such a graph *)

LEMMA StockOfSome ==
  ASSUME NEW R, Stock(R), NEW T, T \subseteq R
  PROVE  Stock(T)
  BY FS_Subset DEF Stock

(* The run's calculation is an analysis of sound rows. *)
LEMMA RunAnalysed ==
  ASSUME RunFits, stage # "none"
  PROVE  Analysed(Calculate(run.pinned)) /\ \A row \in run.pinned : row.project = Project
  <1>1. /\ Stock(run.known) /\ run.request.day \in Int
        /\ run.pinned = PinnedRows(run.known, run.request.day)
    BY DEF RunFits, Warehouse
  <1>2. run.pinned \subseteq run.known /\ \A row \in run.pinned : row.project = Project
    BY <1>1 DEF PinnedRows
  <1>3. Stock(run.pinned)
    BY <1>1, <1>2, StockOfSome
  <1>. QED
    BY <1>1, <1>2, <1>3, Analysing DEF Calculate

LEMMA DataValid ==
  ASSUME NEW graph, NEW calc, calc = Calculate(run.pinned), DataMade(graph, run.pinned, calc),
         Lineage(graph, Refs(run.pinned)), \A row \in run.pinned : row.project = Project
  PROVE  ValidData(graph)
  <1>1. /\ graph["query_result"].payload = run.pinned /\ graph["calculation"].payload = calc
        /\ graph["comparison_calculation"].payload = calc.peers
        /\ graph["comparison"].payload = PeerItems(calc)
        /\ graph["data_analysis_pack"].payload = calc /\ "query_result" \in DOMAIN graph
    BY DEF DataMade, Entry
  <1>2. graph["query_result"].snapshots = Refs(run.pinned)
    BY <1>1 DEF Lineage, Early
  <1>. QED
    BY <1>1, <1>2 DEF ValidData, Calculation

LEMMA BranchesValid ==
  ASSUME NEW graph, NEW rows, NEW calc, DataMade(graph, rows, calc), BranchesMade(graph, calc)
  PROVE  ValidBranches(graph)
  BY DEF ValidBranches, DataMade, BranchesMade, Entry, Calculation

LEMMA InsightValid ==
  ASSUME NEW graph, NEW rows, NEW calc, Analysed(calc), DataMade(graph, rows, calc),
         BranchesMade(graph, calc), ClaimsMade(graph, calc)
  PROVE  ValidInsight(graph)
  <1>1. /\ Calculation(graph) = calc /\ graph["analysis_pack"].payload = Findings(calc)
        /\ graph["insight"].payload.claims = BindClaims(calc)
    BY DEF DataMade, BranchesMade, ClaimsMade, Entry, Calculation
  <1>2. PICK claims, findings : claims = BindClaims(calc) /\ findings = Findings(calc)
    OBVIOUS
  <1>3. Joined(findings, claims)
    BY <1>2, FindingsJoin
  <1>. QED
    BY <1>1, <1>2, <1>3, ZenonT(60) DEF ValidInsight, Joined

LEMMA ReportMade ==
  ASSUME NEW graph, NEW rows, NEW calc, DataMade(graph, rows, calc), ClaimsMade(graph, calc)
  PROVE  Report(graph) = ReportOf(calc)
  BY DEF Report, ReportOf, DataMade, ClaimsMade, Entry, Calculation

LEMMA ReportValid ==
  ASSUME NEW graph, NEW rows, NEW refs, NEW calc, Analysed(calc), Lineage(graph, refs),
         DataMade(graph, rows, calc), BranchesMade(graph, calc), ClaimsMade(graph, calc)
  PROVE  ValidReport(graph, ReportOf(calc))
  <1>1. PICK claims, C : claims = BindClaims(calc) /\ C = calc.candidates
    OBVIOUS
  <1>2. PICK report : report = ReportOf(calc)
    OBVIOUS
  <1>3. /\ Calculation(graph) = calc /\ graph["insight"].payload.claims = claims
        /\ "query" \in graph["query_result"].inputs /\ "query_result" \in graph["calculation"].inputs
        /\ graph["comparison"].payload = PeerItems(calc)
        /\ "comparison_calculation" \in graph["comparison"].inputs
    BY <1>1 DEF DataMade, ClaimsMade, Entry, Calculation
  <1>4. /\ {"calculation", "comparison"} \subseteq graph["visual_evidence"].inputs
        /\ graph["visual_evidence"].payload = Charts(calc)
    BY DEF BranchesMade, Entry
  <1>5. \A chart \in Charts(calc) : \A point \in chart.points : point.value = ValueAt(calc, point.path)
    BY ChartsValid DEF ValidChart
  <1>6. \A i \in DOMAIN claims : claims[i].value = ValueAt(calc, claims[i].path)
    BY <1>1, ClaimsAre
  <1>7. /\ report.claims = claims /\ report.metrics = calc.metrics /\ report.units = calc.units
        /\ report.brief = BuildBrief(calc)
    BY <1>1, <1>2 DEF ReportOf
  <1>8. SoundLineage(graph)
    BY LineageSound
  <1>9. ValidReport(graph, report)
    BY <1>1, <1>3, <1>4, <1>5, <1>6, <1>7, <1>8 DEF ValidReport
  <1>. QED
    BY <1>2, <1>9

-----------------------------------------------------------------------------
(* Drafts and reviews *)

(* A graph the insight stage has completed.                                *)
Ready(graph, rows, refs, calc) ==
    /\ Analysed(calc) /\ Lineage(graph, refs)
    /\ DataMade(graph, rows, calc) /\ BranchesMade(graph, calc) /\ InsightMade(graph, calc)

LEMMA ReadyGraph ==
  ASSUME NEW graph, NEW rows, NEW refs, NEW calc, Ready(graph, rows, refs, calc)
  PROVE  IsFiniteSet(DOMAIN graph) /\ 2 <= Cardinality(DOMAIN graph)
  <1>1. IsFiniteSet(DOMAIN graph)
    BY DEF Ready, Lineage
  <1>2. PICK a, b : a = "calculation" /\ b = "query_result"
    OBVIOUS
  <1>3. {a, b} \subseteq DOMAIN graph /\ a # b
    BY <1>2 DEF Ready, DataMade, Entry
  <1>4. Cardinality({a, b}) = 2
    <2>1. IsFiniteSet({a}) /\ Cardinality({a}) = 1
      BY FS_Singleton
    <2>2. Cardinality({a} \cup {b}) = 1 + 1
      BY <1>3, <2>1, FS_AddElement
    <2>3. {a} \cup {b} = {a, b}
      OBVIOUS
    <2>. QED
      BY <2>2, <2>3
  <1>5. Cardinality({a, b}) <= Cardinality(DOMAIN graph)
    BY <1>1, <1>3, FS_Subset
  <1>. QED
    BY <1>1, <1>4, <1>5

LEMMA Reached ==
  ASSUME NEW graph, IsFiniteSet(DOMAIN graph), 2 <= Cardinality(DOMAIN graph), NEW root,
         NEW k \in graph[root].inputs
  PROVE  /\ k \in Closure(graph, root) /\ graph[k].inputs \subseteq Closure(graph, root)
         /\ \A j \in graph[k].inputs : graph[j].inputs \subseteq Closure(graph, root)
  <1>1. PICK start, near, far : /\ start = graph[root].inputs /\ near = Grow(graph, start)
                                /\ far = Grow(graph, near)
    OBVIOUS
  <1>2. far \subseteq Closure(graph, root)
    BY <1>1, ClosureReaches
  <1>3. k \in near /\ graph[k].inputs \subseteq near
    BY <1>1 DEF Grow
  <1>4. near \subseteq far /\ \A j \in near : graph[j].inputs \subseteq far
    BY <1>1 DEF Grow
  <1>. QED
    BY <1>2, <1>3, <1>4

PackKeys == (DataKeys \ {"query_result", "comparison_calculation"}) \cup BranchKeys \cup InsightKeys

(* What is made from the packs can cite any of the artifacts behind them.  *)
LEMMA PacksReached ==
  ASSUME NEW graph, NEW rows, NEW refs, NEW calc, Ready(graph, rows, refs, calc), NEW root,
         PackInputs \subseteq graph[root].inputs
  PROVE  PackKeys \subseteq Closure(graph, root)
  <1>1. IsFiniteSet(DOMAIN graph) /\ 2 <= Cardinality(DOMAIN graph)
    BY ReadyGraph
  <1>2. \A k \in PackInputs : k \in Closure(graph, root) /\ graph[k].inputs \subseteq Closure(graph, root)
    BY <1>1, Reached
  <1>3. /\ {"calculation", "comparison"} \subseteq graph["data_analysis_pack"].inputs
        /\ "visual_evidence" \in graph["chart_pack"].inputs
        /\ "insight" \in graph["insight_pack"].inputs
    BY DEF Ready, DataMade, BranchesMade, InsightMade, Entry, DataInputs
  <1>4. {"data_analysis_pack", "insight_pack", "decision_intelligence_pack", "comparison_pack",
         "chart_pack", "analysis_pack"} \subseteq Closure(graph, root)
    BY <1>2 DEF PackInputs, Branches
  <1>5. {"calculation", "comparison", "visual_evidence", "insight"} \subseteq Closure(graph, root)
    BY <1>2, <1>3 DEF PackInputs, Branches
  <1>. QED
    BY <1>4, <1>5 DEF PackKeys, DataKeys, BranchKeys, InsightKeys

LEMMA BaseCited == \A ref \in BaseEvidence : ref[1] \in PackKeys
  BY DEF BaseEvidence, PackKeys, DataKeys, BranchKeys, InsightKeys

LEMMA IssuesCited ==
  ASSUME NEW graph, NEW calc, NEW revision, ReviewMade(graph, calc, revision)
  PROVE  \A ref \in IssueEvidence(graph, revision) : ref[1] = "calculation"
  <1>1. PICK issues \in Asked(calc) : graph[ReviewKey(revision)].payload.issues = issues
    BY DEF ReviewMade, Entry
  <1>2. \A issue \in issues : \A ref \in issue.evidence : ref[1] = "calculation"
    BY DEF Asked, CorrectionIssue
  <1>. QED
    BY <1>1, <1>2 DEF IssueEvidence

LEMMA DraftSound ==
  ASSUME NEW graph, NEW rows, NEW refs, NEW calc, Ready(graph, rows, refs, calc), NEW revision \in {1, 2},
         DraftMade(graph, calc, revision), revision = 2 => ReviewMade(graph, calc, 1)
  PROVE  SoundDraft(graph, revision)
  <1>1. PICK key, evidence : key = DraftKey(revision) /\ evidence = DraftEvidence(graph, revision)
    OBVIOUS
  <1>2. /\ key \in DOMAIN graph /\ graph[key].inputs = DraftInputs(revision)
        /\ graph[key].payload = [revision |-> revision, report |-> ReportOf(calc), evidence |-> evidence]
    BY <1>1 DEF DraftMade, Entry
  <1>3. graph[key].snapshots = refs /\ graph["data_analysis_pack"].snapshots = refs
    <2>1. key \notin Early /\ "data_analysis_pack" \notin Early
      BY <1>1 DEF DraftKey, Early
    <2>2. "data_analysis_pack" \in DOMAIN graph
      BY DEF Ready, DataMade, Entry
    <2>. QED
      BY <1>2, <2>1, <2>2 DEF Ready, Lineage
  <1>4. ValidEvidence(graph, key, evidence)
    <2>1. PackKeys \subseteq Closure(graph, key)
      <3>1. PackInputs \subseteq graph[key].inputs
        BY <1>2 DEF DraftInputs
      <3>. QED
        BY <3>1, PacksReached
    <2>2. \A ref \in evidence : ref[1] \in PackKeys
      <3>1. CASE revision = 1
        BY <1>1, <3>1, BaseCited DEF DraftEvidence
      <3>2. CASE revision = 2
        <4>1. \A ref \in IssueEvidence(graph, 1) : ref[1] = "calculation"
          BY <3>2, IssuesCited
        <4>2. "calculation" \in PackKeys
          BY DEF PackKeys, DataKeys
        <4>3. evidence = BaseEvidence \cup IssueEvidence(graph, 1)
          BY <1>1, <3>2 DEF DraftEvidence
        <4>. QED
          BY <4>1, <4>2, <4>3, BaseCited
      <3>. QED
        BY <3>1, <3>2
    <2>. QED
      BY <2>1, <2>2 DEF ValidEvidence
  <1>5. ValidReport(graph, ReportOf(calc)) /\ Report(graph) = ReportOf(calc)
    <2>1. ClaimsMade(graph, calc)
      BY DEF Ready, InsightMade
    <2>. QED
      BY <2>1, ReportValid, ReportMade DEF Ready
  <1>. QED
    BY <1>1, <1>2, <1>3, <1>4, <1>5 DEF SoundDraft, DraftPayload

LEMMA ReviewSound ==
  ASSUME NEW graph, NEW rows, NEW refs, NEW calc, Ready(graph, rows, refs, calc), NEW revision \in {1, 2},
         DraftMade(graph, calc, revision), ReviewMade(graph, calc, revision)
  PROVE  SoundReview(graph, revision)
  <1>1. PICK key, draft : key = ReviewKey(revision) /\ draft = DraftKey(revision)
    OBVIOUS
  <1>2. PICK claims : claims = BindClaims(calc)
    OBVIOUS
  <1>3. PICK issues \in Asked(calc) :
          /\ key \in DOMAIN graph /\ graph[key].inputs = {draft}
          /\ graph[key].payload = [draft |-> graph[draft].payload, issues |-> issues,
                                   status |-> IF issues = {} THEN "PASS" ELSE "REVISION_REQUIRED"]
    BY <1>1 DEF ReviewMade, Entry
  <1>4. /\ draft \in DOMAIN graph /\ graph[draft].inputs = DraftInputs(revision)
        /\ graph[draft].payload.report.claims = claims
    BY <1>1, <1>2 DEF DraftMade, Entry, ReportOf
  <1>5. graph[key].snapshots = refs /\ graph[draft].snapshots = refs
    <2>1. key \notin Early /\ draft \notin Early
      BY <1>1 DEF DraftKey, ReviewKey, Early
    <2>. QED
      BY <1>3, <1>4, <2>1 DEF Ready, Lineage
  <1>6. issues = {} \/ \E i \in DOMAIN claims : issues = {CorrectionIssue(claims[i])}
    BY <1>2, <1>3 DEF Asked
  <1>7. ValidEvidence(graph, key, IssueEvidence(graph, revision))
    <2>1. IsFiniteSet(DOMAIN graph) /\ 2 <= Cardinality(DOMAIN graph)
      BY ReadyGraph
    <2>2. draft \in graph[key].inputs /\ "data_analysis_pack" \in graph[draft].inputs
      BY <1>3, <1>4 DEF DraftInputs, PackInputs
    <2>3. "calculation" \in graph["data_analysis_pack"].inputs
      BY DEF Ready, DataMade, Entry, DataInputs
    <2>4. "calculation" \in Closure(graph, key)
      BY <2>1, <2>2, <2>3, Reached
    <2>5. \A ref \in IssueEvidence(graph, revision) : ref[1] = "calculation"
      BY IssuesCited
    <2>. QED
      BY <2>4, <2>5 DEF ValidEvidence
  <1>8. /\ graph[key].payload.issues = issues /\ graph[key].payload.draft = graph[draft].payload
        /\ graph[key].payload.status = IF issues = {} THEN "PASS" ELSE "REVISION_REQUIRED"
    BY <1>3
  <1>. QED
    BY <1>1, <1>3, <1>4, <1>5, <1>6, <1>7, <1>8 DEF SoundReview

(* Of a graph with two drafts the first has been reviewed and sent back.   *)
Told(graph, calc, revision) ==
    /\ DraftMade(graph, calc, 1)
    /\ revision = 2 => /\ DraftMade(graph, calc, 2) /\ ReviewMade(graph, calc, 1)
                       /\ graph[ReviewKey(1)].payload.status = "REVISION_REQUIRED"

LEMMA DraftValid ==
  ASSUME NEW graph, NEW rows, NEW refs, NEW calc, Ready(graph, rows, refs, calc), NEW revision \in {1, 2},
         Told(graph, calc, revision)
  PROVE  ValidDraft(graph, revision)
  <1>1. SoundDraft(graph, 1)
    <2>1. 1 \in {1, 2} /\ 1 # 2
      OBVIOUS
    <2>. QED
      BY <2>1, DraftSound DEF Told
  <1>2. CASE revision = 1
    BY <1>1, <1>2 DEF ValidDraft
  <1>3. CASE revision = 2
    <2>1. SoundDraft(graph, 2)
      BY <1>3, DraftSound DEF Told
    <2>2. SoundReview(graph, 1)
      BY <1>3, ReviewSound DEF Told
    <2>. QED
      BY <1>1, <1>3, <2>1, <2>2 DEF ValidDraft, Told
  <1>. QED
    BY <1>2, <1>3

LEMMA ReviewValid ==
  ASSUME NEW graph, NEW rows, NEW refs, NEW calc, Ready(graph, rows, refs, calc), NEW revision \in {1, 2},
         Told(graph, calc, revision), ReviewMade(graph, calc, revision)
  PROVE  ValidReview(graph, revision)
  <1>1. DraftMade(graph, calc, revision)
    BY DEF Told
  <1>. QED
    BY <1>1, DraftValid, ReviewSound DEF ValidReview

-----------------------------------------------------------------------------
(* The second layer of the invariant: what the stages have kept *)

Made(done, graph, rows, calc) ==
    /\ done \in {"coordinator", "data", "branches", "insight", "draft", "reviewed"} =>
          Lineage(graph, Refs(rows)) /\ "report" \notin DOMAIN graph
    /\ done \in {"data", "branches", "insight", "draft", "reviewed"} => DataMade(graph, rows, calc)
    /\ done \in {"branches", "insight", "draft", "reviewed"} => BranchesMade(graph, calc)
    /\ done \in {"insight", "draft", "reviewed"} => InsightMade(graph, calc)
    /\ done \in {"draft", "reviewed"} => Told(graph, calc, Revision(graph))
    /\ done = "reviewed" => /\ ReviewMade(graph, calc, Revision(graph))
                            /\ graph = [k \in DOMAIN graph |-> graph[k]]

Crafted == Made(stage, artifacts, run.pinned, Calculate(run.pinned))

(* What each step has to show of it. *)
Crafting == Crafted' /\ AcceptsOwn'

LEMMA Crafts ==
  ASSUME UNCHANGED run, Made(stage', artifacts', run.pinned, Calculate(run.pinned)), stage' # "failed"
  PROVE  Crafting
  <1>1. Calculate(run.pinned)' = Calculate(run.pinned) /\ run.pinned' = run.pinned
    BY DEF Calculate
  <1>2. Crafted'
    BY <1>1 DEF Crafted
  <1>. QED
    BY <1>2 DEF Crafting, AcceptsOwn

LEMMA FailsFairly ==
  ASSUME NEW code, Fail(code),
         \/ code \in {"LLM_AUTHENTICATION_FAILED", "ALL_LLM_PROVIDERS_FAILED",
                      "NARRATIVE_CANCELLED", "REVIEW_REVISION_LIMIT"}
         \/ code = "DECISION_PACK_INVALID" /\ ~Accepts(BuildPack(Calculation(artifacts')))
         \/ code = "REVIEWER_AGENT_INPUT_INVALID" /\ ValidInputs(artifacts)'
  PROVE  Crafting
  <1>1. stage' = "failed" /\ error' = code
    BY DEF Fail
  <1>2. Crafted'
    BY <1>1 DEF Crafted, Made
  <1>3. AcceptsOwn'
    BY <1>1 DEF AcceptsOwn
  <1>. QED
    BY <1>2, <1>3 DEF Crafting

LEMMA CoordinateCrafts ==
  ASSUME IInv, Coordinate
  PROVE  Crafting
  <1>1. PICK g1 : g1 = Put(artifacts, "analysis_request", {}, run.request)
    OBVIOUS
  <1>2. PICK g2 : g2 = Put(g1, "coordinator_decision", {"analysis_request"}, run.request.day)
    OBVIOUS
  <1>3. /\ stage = "queued" /\ stage' = "coordinator" /\ UNCHANGED <<files, run, error>>
        /\ DOMAIN artifacts = {}
    BY DEF Coordinate, IInv, GraphFits
  <1>4. artifacts' = g2
    BY <1>1, <1>2 DEF Coordinate
  <1>5. PICK refs : refs = Refs(run.pinned)
    OBVIOUS
  <1>6. Lineage(artifacts, refs)
    BY <1>3, FS_EmptySet DEF Lineage
  <1>7. Lineage(g1, refs)
    BY <1>1, <1>6, PutLineage DEF Early
  <1>8. Adds(artifacts, g1, "analysis_request") /\ Adds(g1, g2, "coordinator_decision")
    BY <1>1, <1>2, PutAdds
  <1>9. Lineage(g2, refs)
    <2>1. {"analysis_request"} \subseteq DOMAIN g1
      BY <1>8 DEF Adds
    <2>. QED
      BY <1>2, <1>7, <2>1, PutLineage DEF Early
  <1>10. "report" \notin DOMAIN g2
    BY <1>3, <1>8 DEF Adds
  <1>. QED
    BY <1>3, <1>4, <1>5, <1>9, <1>10, Crafts DEF Made

LEMMA DataCrafts ==
  ASSUME IInv, Crafted, AnalyseData
  PROVE  Crafting
  <1>1. PICK rows, calc, refs : rows = run.pinned /\ calc = Calculate(rows) /\ refs = Refs(rows)
    OBVIOUS
  <1>2. PICK g1 : g1 = Put(artifacts, "query", {"coordinator_decision"}, run.request)
    OBVIOUS
  <1>3. PICK g2 : g2 = WithRefs(g1, "query_result", {"query"}, rows, refs)
    OBVIOUS
  <1>4. PICK g3 : g3 = Put(g2, "calculation", {"query_result"}, calc)
    OBVIOUS
  <1>5. PICK g4 : g4 = Put(g3, "comparison_calculation", {"query_result", "calculation"},
                           Calculation(g3).peers)
    OBVIOUS
  <1>6. PICK g5 : g5 = Put(g4, "comparison", {"comparison_calculation"}, PeerItems(Calculation(g3)))
    OBVIOUS
  <1>7. PICK g6 : g6 = Put(g5, "data_analysis_pack", DataInputs, Calculation(g3))
    OBVIOUS
  <1>8. /\ stage = "coordinator" /\ stage' = "data" /\ UNCHANGED <<files, run, error>>
        /\ DOMAIN artifacts = {"analysis_request", "coordinator_decision"}
    BY DEF AnalyseData, IInv, GraphFits
  <1>9. artifacts' = g6
    <2>1. DataGraph(artifacts, rows) = g6
      BY <1>1, <1>2, <1>3, <1>4, <1>5, <1>6, <1>7 DEF DataGraph, DataInputs
    <2>. QED
      BY <1>1, <2>1 DEF AnalyseData, ReadSnapshots
  <1>10. Lineage(artifacts, refs)
    BY <1>1, <1>8 DEF Crafted, Made
  <1>11. Grown(g1, g2, "query_result", {"query"}, refs, rows)
    BY <1>3, WithRefsGrows
  <1>12. /\ Adds(artifacts, g1, "query") /\ Adds(g1, g2, "query_result") /\ Adds(g2, g3, "calculation")
         /\ Adds(g3, g4, "comparison_calculation") /\ Adds(g4, g5, "comparison")
         /\ Adds(g5, g6, "data_analysis_pack")
    <2>1. Adds(g1, g2, "query_result")
      BY <1>11 DEF Grown, Adds
    <2>. QED
      BY <1>2, <1>4, <1>5, <1>6, <1>7, <2>1, PutAdds
  <1>13. Entry(g2, "query_result", {"query"}, rows)
    BY <1>11 DEF Entry, Grown
  <1>14. Entry(g3, "query_result", {"query"}, rows) /\ Entry(g3, "calculation", {"query_result"}, calc)
    BY <1>4, <1>12, <1>13, EntryPut, EntryKept
  <1>15. Calculation(g3) = calc
    BY <1>14 DEF Entry, Calculation
  <1>16. /\ Entry(g4, "query_result", {"query"}, rows) /\ Entry(g4, "calculation", {"query_result"}, calc)
         /\ Entry(g4, "comparison_calculation", {"query_result", "calculation"}, calc.peers)
    BY <1>5, <1>12, <1>14, <1>15, EntryPut, EntryKept
  <1>17. /\ Entry(g5, "query_result", {"query"}, rows) /\ Entry(g5, "calculation", {"query_result"}, calc)
         /\ Entry(g5, "comparison_calculation", {"query_result", "calculation"}, calc.peers)
         /\ Entry(g5, "comparison", {"comparison_calculation"}, PeerItems(calc))
    BY <1>6, <1>12, <1>15, <1>16, EntryPut, EntryKept
  <1>18. DataMade(g6, rows, calc)
    <2>1. Entry(g6, "query_result", {"query"}, rows) /\ Entry(g6, "calculation", {"query_result"}, calc)
      BY <1>12, <1>17, EntryKept
    <2>2. /\ Entry(g6, "comparison_calculation", {"query_result", "calculation"}, calc.peers)
          /\ Entry(g6, "comparison", {"comparison_calculation"}, PeerItems(calc))
      BY <1>12, <1>17, EntryKept
    <2>3. Entry(g6, "data_analysis_pack", DataInputs, calc)
      BY <1>7, <1>15, EntryPut
    <2>. QED
      BY <2>1, <2>2, <2>3 DEF DataMade
  <1>19. /\ {"query", "query_result"} \subseteq DOMAIN g2
         /\ {"query", "query_result", "calculation"} \subseteq DOMAIN g3
         /\ {"query", "query_result", "calculation", "comparison_calculation"} \subseteq DOMAIN g4
         /\ DataInputs \subseteq DOMAIN g5 /\ "query" \in DOMAIN g1
    BY <1>12 DEF Adds, DataInputs
  <1>20. Lineage(g1, refs)
    BY <1>2, <1>8, <1>10, PutLineage DEF Early
  <1>21. Lineage(g2, refs)
    <2>1. {"query"} \subseteq DOMAIN g1 /\ Refs(rows) = refs
      BY <1>1, <1>19
    <2>. QED
      BY <1>11, <1>20, <2>1, LineageGrows
  <1>22. Lineage(g3, refs)
    <2>1. {"query_result"} \subseteq DOMAIN g2 /\ {"query_result"} \ Early # {}
      BY <1>19 DEF Early
    <2>. QED
      BY <1>4, <1>21, <2>1, PutLineage DEF Early
  <1>23. Lineage(g4, refs)
    <2>1. {"query_result", "calculation"} \subseteq DOMAIN g3 /\ {"query_result", "calculation"} \ Early # {}
      BY <1>19 DEF Early
    <2>. QED
      BY <1>5, <1>22, <2>1, PutLineage DEF Early
  <1>24. Lineage(g5, refs)
    <2>1. {"comparison_calculation"} \subseteq DOMAIN g4 /\ {"comparison_calculation"} \ Early # {}
      BY <1>19 DEF Early
    <2>. QED
      BY <1>6, <1>23, <2>1, PutLineage DEF Early
  <1>25. Lineage(g6, refs)
    <2>1. DataInputs \ Early # {} /\ "data_analysis_pack" \notin Early \cup {"query_result"}
      BY DEF Early, DataInputs
    <2>. QED
      BY <1>7, <1>19, <1>24, <2>1, PutLineage
  <1>26. "report" \notin DOMAIN g6
    BY <1>8, <1>12 DEF Adds
  <1>. QED
    BY <1>1, <1>8, <1>9, <1>18, <1>25, <1>26, Crafts DEF Made

LEMMA BranchesCraft ==
  ASSUME IInv, Crafted, RunBranches
  PROVE  Crafting
  <1>1. PICK rows, calc, refs : rows = run.pinned /\ calc = Calculate(rows) /\ refs = Refs(rows)
    OBVIOUS
  <1>2. stage = "data" /\ UNCHANGED <<files, run>>
    BY DEF RunBranches
  <1>3. Lineage(artifacts, refs) /\ DataMade(artifacts, rows, calc) /\ "report" \notin DOMAIN artifacts
    BY <1>1, <1>2 DEF Crafted, Made
  <1>4. Analysed(calc) /\ \A row \in rows : row.project = Project
    BY <1>1, <1>2, RunAnalysed DEF IInv
  <1>5. ValidData(artifacts)
    BY <1>1, <1>3, <1>4, DataValid
  <1>6. Calculation(artifacts) = calc
    BY <1>3 DEF DataMade, Entry, Calculation
  <1>7. \A chart \in Charts(calc) : ValidChart(calc, chart)
    BY <1>4, ChartsValid
  <1>8. artifacts' = BranchGraph(artifacts) /\ stage' = "branches" /\ error' = error
    BY <1>5, <1>6, <1>7 DEF RunBranches
  <1>9. PICK g1 : g1 = Put(artifacts, "comparison_pack", {"data_analysis_pack"}, ComparisonPack(calc))
    OBVIOUS
  <1>10. PICK g2 : g2 = Put(g1, "visual_evidence", {"calculation", "comparison"}, Charts(calc))
    OBVIOUS
  <1>11. PICK g3 : g3 = Put(g2, "chart_pack", {"data_analysis_pack", "visual_evidence"}, ChartPack(calc))
    OBVIOUS
  <1>12. PICK g4 : g4 = Put(g3, "analysis_pack", {"data_analysis_pack"}, Findings(calc))
    OBVIOUS
  <1>13. artifacts' = g4
    BY <1>6, <1>8, <1>9, <1>10, <1>11, <1>12, Zenon DEF BranchGraph
  <1>14. /\ Adds(artifacts, g1, "comparison_pack") /\ Adds(g1, g2, "visual_evidence")
         /\ Adds(g2, g3, "chart_pack") /\ Adds(g3, g4, "analysis_pack")
    BY <1>9, <1>10, <1>11, <1>12, PutAdds
  <1>15. DataMade(g4, rows, calc)
    <2>1. DataMade(g1, rows, calc)
      BY <1>3, <1>14, DataKept DEF DataKeys
    <2>2. DataMade(g2, rows, calc)
      BY <1>14, <2>1, DataKept DEF DataKeys
    <2>3. DataMade(g3, rows, calc)
      BY <1>14, <2>2, DataKept DEF DataKeys
    <2>. QED
      BY <1>14, <2>3, DataKept DEF DataKeys
  <1>16. BranchesMade(g4, calc)
    <2>1. Entry(g4, "comparison_pack", {"data_analysis_pack"}, ComparisonPack(calc))
      <3>1. Entry(g1, "comparison_pack", {"data_analysis_pack"}, ComparisonPack(calc))
        BY <1>9, EntryPut
      <3>2. Entry(g2, "comparison_pack", {"data_analysis_pack"}, ComparisonPack(calc))
        BY <1>14, <3>1, EntryKept
      <3>3. Entry(g3, "comparison_pack", {"data_analysis_pack"}, ComparisonPack(calc))
        BY <1>14, <3>2, EntryKept
      <3>. QED
        BY <1>14, <3>3, EntryKept
    <2>2. Entry(g4, "visual_evidence", {"calculation", "comparison"}, Charts(calc))
      <3>1. Entry(g2, "visual_evidence", {"calculation", "comparison"}, Charts(calc))
        BY <1>10, EntryPut
      <3>2. Entry(g3, "visual_evidence", {"calculation", "comparison"}, Charts(calc))
        BY <1>14, <3>1, EntryKept
      <3>. QED
        BY <1>14, <3>2, EntryKept
    <2>3. Entry(g4, "chart_pack", {"data_analysis_pack", "visual_evidence"}, ChartPack(calc))
      <3>1. Entry(g3, "chart_pack", {"data_analysis_pack", "visual_evidence"}, ChartPack(calc))
        BY <1>11, EntryPut
      <3>. QED
        BY <1>14, <3>1, EntryKept
    <2>4. Entry(g4, "analysis_pack", {"data_analysis_pack"}, Findings(calc))
      BY <1>12, EntryPut
    <2>. QED
      BY <2>1, <2>2, <2>3, <2>4 DEF BranchesMade
  <1>17. Lineage(g4, refs)
    <2>1. {"calculation", "comparison", "data_analysis_pack"} \subseteq DOMAIN artifacts
      BY <1>3 DEF DataMade, Entry
    <2>2. /\ {"data_analysis_pack"} \subseteq DOMAIN artifacts
          /\ {"calculation", "comparison"} \subseteq DOMAIN g1
          /\ {"data_analysis_pack", "visual_evidence"} \subseteq DOMAIN g2
          /\ {"data_analysis_pack"} \subseteq DOMAIN g3
      BY <1>14, <2>1 DEF Adds
    <2>3. /\ {"data_analysis_pack"} \ Early # {} /\ {"calculation", "comparison"} \ Early # {}
          /\ {"data_analysis_pack", "visual_evidence"} \ Early # {}
      BY DEF Early
    <2>4. Lineage(g1, refs)
      BY <1>3, <1>9, <2>2, <2>3, PutLineage DEF Early
    <2>5. Lineage(g2, refs)
      BY <1>10, <2>2, <2>3, <2>4, PutLineage DEF Early
    <2>6. Lineage(g3, refs)
      BY <1>11, <2>2, <2>3, <2>5, PutLineage DEF Early
    <2>. QED
      BY <1>12, <2>2, <2>3, <2>6, PutLineage DEF Early
  <1>18. "report" \notin DOMAIN g4
    BY <1>3, <1>14 DEF Adds
  <1>. QED
    BY <1>1, <1>2, <1>8, <1>13, <1>15, <1>16, <1>17, <1>18, Crafts DEF Made

LEMMA NarrativeOr ==
  ASSUME NEW claims, NEW primary, NEW fallback
  PROVE  Narrate(claims, primary, fallback).code
           \in {Null, "NARRATIVE_CANCELLED", "LLM_AUTHENTICATION_FAILED", "ALL_LLM_PROVIDERS_FAILED"}
  BY DEF Narrate

(* The insight joins the findings one to one whatever the providers        *)
(* answered, so only the pack's own schema can refuse what follows.        *)
LEMMA InsightCrafts ==
  ASSUME IInv, Crafted, NEW primary, NEW fallback, RunInsight(primary, fallback)
  PROVE  Crafting
  <1>1. PICK rows, calc, refs : rows = run.pinned /\ calc = Calculate(rows) /\ refs = Refs(rows)
    OBVIOUS
  <1>2. stage = "branches" /\ UNCHANGED <<files, run>>
    BY DEF RunInsight
  <1>3. /\ Lineage(artifacts, refs) /\ DataMade(artifacts, rows, calc) /\ BranchesMade(artifacts, calc)
        /\ "report" \notin DOMAIN artifacts
    BY <1>1, <1>2 DEF Crafted, Made
  <1>4. Analysed(calc)
    BY <1>1, <1>2, RunAnalysed DEF IInv
  <1>5. Calculation(artifacts) = calc
    BY <1>3 DEF DataMade, Entry, Calculation
  <1>6. PICK narrative : narrative = Narrate(BindClaims(calc), primary, fallback)
    OBVIOUS
  <1>7. PICK insight : insight = PutInsight(artifacts, narrative)
    OBVIOUS
  <1>8. PICK graph : graph = PutInsightPack(insight)
    OBVIOUS
  <1>9. PICK inputs : inputs = {"data_analysis_pack", "insight_pack"} \cup Branches
    OBVIOUS
  <1>10. PICK pack : pack = BuildPack(calc)
    OBVIOUS
  <1>11. PICK new : new = Put(graph, "decision_intelligence_pack", inputs, pack)
    OBVIOUS
  <1>12. PICK joined : joined = {"calculation", "comparison"} \cup Branches
    OBVIOUS
  <1>13. insight = Put(artifacts, "insight", joined, InsightPayload(calc, narrative))
    BY <1>5, <1>7, <1>12 DEF PutInsight
  <1>14. PICK taken : taken = {"data_analysis_pack", "insight"} \cup Branches
    OBVIOUS
  <1>15. graph = Put(insight, "insight_pack", taken, InsightPack(insight))
    BY <1>8, <1>14 DEF PutInsightPack
  <1>16. /\ Adds(artifacts, insight, "insight") /\ Adds(insight, graph, "insight_pack")
         /\ Adds(graph, new, "decision_intelligence_pack")
    BY <1>11, <1>13, <1>15, PutAdds
  <1>17. /\ DataMade(insight, rows, calc) /\ BranchesMade(insight, calc)
         /\ DataMade(graph, rows, calc) /\ BranchesMade(graph, calc)
    <2>1. DataMade(insight, rows, calc) /\ BranchesMade(insight, calc)
      BY <1>3, <1>16, DataKept, BranchesKept DEF DataKeys, BranchKeys
    <2>. QED
      BY <1>16, <2>1, DataKept, BranchesKept DEF DataKeys, BranchKeys
  <1>18. ClaimsMade(insight, calc)
    <2>1. Entry(insight, "insight", joined, InsightPayload(calc, narrative))
      BY <1>13, EntryPut
    <2>. QED
      BY <2>1 DEF ClaimsMade, Entry, InsightPayload, CanonicalClaims
  <1>19. ValidBranches(artifacts) /\ Bound(calc) /\ ValidInsight(insight)
    BY <1>3, <1>4, <1>17, <1>18, BranchesValid, ClaimsBound, InsightValid
  <1>20. \/ narrative.code # Null /\ Fail(narrative.code)
         \/ Fail("DECISION_PACK_INVALID") /\ ~Accepts(pack) /\ artifacts' = graph
         \/ artifacts' = new /\ stage' = "insight" /\ error' = error
    BY <1>5, <1>6, <1>7, <1>8, <1>9, <1>10, <1>11, <1>19, Zenon DEF RunInsight
  <1>21. CASE narrative.code # Null /\ Fail(narrative.code)
    <2>1. narrative.code \in {"NARRATIVE_CANCELLED", "LLM_AUTHENTICATION_FAILED",
                              "ALL_LLM_PROVIDERS_FAILED"}
      BY <1>6, <1>21, NarrativeOr
    <2>. QED
      BY <1>21, <2>1, FailsFairly
  <1>22. CASE Fail("DECISION_PACK_INVALID") /\ ~Accepts(pack) /\ artifacts' = graph
    <2>1. Calculation(graph) = calc
      BY <1>17 DEF DataMade, Entry, Calculation
    <2>. QED
      BY <1>10, <1>22, <2>1, FailsFairly
  <1>23. CASE artifacts' = new /\ stage' = "insight" /\ error' = error
    <2>1. DataMade(new, rows, calc) /\ BranchesMade(new, calc)
      BY <1>16, <1>17, DataKept, BranchesKept DEF DataKeys, BranchKeys
    <2>2. ClaimsMade(new, calc)
      BY <1>16, <1>18 DEF ClaimsMade, Adds
    <2>3. "insight_pack" \in DOMAIN new /\ new["insight_pack"].inputs = taken
      <3>1. Entry(graph, "insight_pack", taken, InsightPack(insight))
        BY <1>15, EntryPut
      <3>. QED
        BY <1>16, <3>1 DEF Entry, Adds
    <2>4. Entry(new, "decision_intelligence_pack", inputs, pack)
      BY <1>11, EntryPut
    <2>5. InsightMade(new, calc)
      BY <1>9, <1>10, <1>14, <2>2, <2>3, <2>4 DEF InsightMade
    <2>6. {"calculation", "comparison", "data_analysis_pack"} \cup Branches \subseteq DOMAIN artifacts
      BY <1>3 DEF DataMade, BranchesMade, Entry, Branches
    <2>7. joined \subseteq DOMAIN artifacts /\ taken \subseteq DOMAIN insight /\ inputs \subseteq DOMAIN graph
      BY <1>9, <1>12, <1>14, <1>16, <2>6 DEF Adds
    <2>8. joined \ Early # {} /\ taken \ Early # {} /\ inputs \ Early # {}
      BY <1>9, <1>12, <1>14 DEF Early
    <2>9. Lineage(insight, refs)
      BY <1>3, <1>13, <2>7, <2>8, PutLineage DEF Early
    <2>10. Lineage(graph, refs)
      BY <1>15, <2>7, <2>8, <2>9, PutLineage DEF Early
    <2>11. Lineage(new, refs)
      BY <1>11, <2>7, <2>8, <2>10, PutLineage DEF Early
    <2>12. "report" \notin DOMAIN new
      BY <1>3, <1>16 DEF Adds
    <2>. QED
      BY <1>1, <1>2, <1>23, <2>1, <2>5, <2>11, <2>12, Crafts DEF Made
  <1>. QED
    BY <1>20, <1>21, <1>22, <1>23

LEMMA DraftKept ==
  ASSUME NEW graph, NEW new, NEW added, Adds(graph, new, added), NEW calc, NEW revision \in {1, 2},
         DraftMade(graph, calc, revision), added # DraftKey(revision),
         revision = 2 => ReviewKey(1) \in DOMAIN graph /\ added # ReviewKey(1)
  PROVE  DraftMade(new, calc, revision)
  <1>1. DraftEvidence(new, revision) = DraftEvidence(graph, revision)
    BY DEF DraftEvidence, IssueEvidence, Adds
  <1>. QED
    BY <1>1, EntryKept DEF DraftMade

LEMMA ReviewKept ==
  ASSUME NEW graph, NEW new, NEW added, Adds(graph, new, added), NEW calc, NEW revision,
         ReviewMade(graph, calc, revision), DraftKey(revision) \in DOMAIN graph,
         added # ReviewKey(revision), added # DraftKey(revision)
  PROVE  ReviewMade(new, calc, revision)
  <1>1. new[DraftKey(revision)] = graph[DraftKey(revision)]
    BY DEF Adds
  <1>. QED
    BY <1>1, EntryKept DEF ReviewMade

LEMMA ReadyKept ==
  ASSUME NEW graph, NEW new, NEW key, NEW inputs, NEW payload, new = Put(graph, key, inputs, payload),
         key \notin DataKeys \cup BranchKeys \cup InsightKeys \cup Early, inputs \subseteq DOMAIN graph,
         inputs \ Early # {}, NEW rows, NEW refs, NEW calc, Ready(graph, rows, refs, calc)
  PROVE  Ready(new, rows, refs, calc)
  <1>1. Adds(graph, new, key)
    BY PutAdds
  <1>2. DataMade(new, rows, calc) /\ BranchesMade(new, calc) /\ InsightMade(new, calc)
    BY <1>1, DataKept, BranchesKept, InsightKept DEF Ready
  <1>3. Lineage(new, refs)
    BY PutLineage DEF Ready, DataKeys
  <1>. QED
    BY <1>2, <1>3 DEF Ready

LEMMA StageReady ==
  ASSUME IInv, Crafted, stage \in {"insight", "draft", "reviewed"}
  PROVE  /\ Ready(artifacts, run.pinned, Refs(run.pinned), Calculate(run.pinned))
         /\ "report" \notin DOMAIN artifacts /\ PackInputs \subseteq DOMAIN artifacts
         /\ \A row \in run.pinned : row.project = Project
  <1>1. PICK rows, calc, refs : rows = run.pinned /\ calc = Calculate(rows) /\ refs = Refs(rows)
    OBVIOUS
  <1>2. Analysed(calc) /\ \A row \in run.pinned : row.project = Project
    BY <1>1, RunAnalysed DEF IInv
  <1>3. Ready(artifacts, rows, refs, calc) /\ "report" \notin DOMAIN artifacts
    BY <1>1, <1>2 DEF Crafted, Made, Ready
  <1>4. PackInputs \subseteq DOMAIN artifacts
    BY <1>3 DEF Ready, DataMade, BranchesMade, InsightMade, Entry, PackInputs, Branches
  <1>. QED
    BY <1>1, <1>2, <1>3, <1>4

LEMMA DraftInputsLate ==
  ASSUME NEW revision
  PROVE  DraftInputs(revision) \ Early # {}
  <1>1. "insight_pack" \in DraftInputs(revision) /\ "insight_pack" \notin Early
    BY DEF DraftInputs, PackInputs, Early
  <1>. QED
    BY <1>1

LEMMA DraftCrafts ==
  ASSUME IInv, Crafted, DraftReport
  PROVE  Crafting
  <1>1. PICK rows, calc, refs : rows = run.pinned /\ calc = Calculate(rows) /\ refs = Refs(rows)
    OBVIOUS
  <1>2. stage = "insight" /\ UNCHANGED <<files, run>> /\ DraftKey(2) \notin DOMAIN artifacts
    BY DEF DraftReport, IInv, GraphFits
  <1>3. /\ Ready(artifacts, rows, refs, calc) /\ "report" \notin DOMAIN artifacts
        /\ PackInputs \subseteq DOMAIN artifacts
    BY <1>1, <1>2, StageReady
  <1>4. ClaimsMade(artifacts, calc)
    BY <1>3 DEF Ready, InsightMade
  <1>5. Report(artifacts) = ReportOf(calc)
    BY <1>3, <1>4, ReportMade DEF Ready
  <1>6. ValidInsight(artifacts) /\ ValidReport(artifacts, Report(artifacts))
    BY <1>3, <1>4, <1>5, InsightValid, ReportValid DEF Ready
  <1>7. artifacts' = PutDraft(artifacts, 1) /\ stage' = "draft" /\ error' = error
    BY <1>6 DEF DraftReport
  <1>8. PICK new, key, inputs, payload :
          /\ key = DraftKey(1) /\ inputs = DraftInputs(1) /\ payload = DraftPayload(artifacts, 1)
          /\ new = Put(artifacts, key, inputs, payload)
    OBVIOUS
  <1>9. artifacts' = new
    BY <1>7, <1>8 DEF PutDraft
  <1>10. key = "report_draft:1" /\ inputs = PackInputs /\ inputs \ Early # {}
    BY <1>8, DraftInputsLate DEF DraftKey, DraftInputs
  <1>11. Ready(new, rows, refs, calc)
    <2>1. key \notin DataKeys \cup BranchKeys \cup InsightKeys \cup Early
      BY <1>10 DEF DataKeys, BranchKeys, InsightKeys, Early
    <2>. QED
      BY <1>3, <1>8, <1>10, <2>1, ReadyKept
  <1>12. Adds(artifacts, new, key)
    BY <1>8, PutAdds
  <1>13. DraftMade(new, calc, 1)
    <2>1. Entry(new, key, inputs, payload)
      BY <1>8, EntryPut
    <2>2. payload = [revision |-> 1, report |-> ReportOf(calc), evidence |-> DraftEvidence(new, 1)]
      BY <1>5, <1>8 DEF DraftPayload, DraftEvidence
    <2>. QED
      BY <1>8, <2>1, <2>2 DEF DraftMade
  <1>14. Revision(new) = 1 /\ "report" \notin DOMAIN new
    BY <1>2, <1>3, <1>10, <1>12 DEF Revision, Adds, DraftKey
  <1>15. Told(new, calc, Revision(new))
    BY <1>13, <1>14 DEF Told
  <1>. QED
    BY <1>1, <1>2, <1>7, <1>9, <1>11, <1>14, <1>15, Crafts DEF Made, Ready

(* What the draft agent keeps the reviewer accepts, and the reviewer's own *)
(* issues pass its validator: a claim is named by one id only.             *)
AskedOf(issues, claims, correction) ==
    issues = {CorrectionIssue(claims[i]) : i \in {i \in DOMAIN claims : claims[i].id = correction}}

LEMMA IssuesAsked ==
  ASSUME NEW calc, Analysed(calc), NEW claims, claims = BindClaims(calc), NEW correction,
         NEW issues, AskedOf(issues, claims, correction)
  PROVE  issues \in Asked(calc)
  <1>1. \A i, j \in DOMAIN claims : claims[i].id = claims[j].id => i = j
    BY ClaimsAre
  <1>2. CASE \A i \in DOMAIN claims : claims[i].id # correction
    BY <1>2 DEF Asked, AskedOf
  <1>3. CASE \E i \in DOMAIN claims : claims[i].id = correction
    <2>1. PICK i \in DOMAIN claims : claims[i].id = correction
      BY <1>3
    <2>2. \A j \in DOMAIN claims : claims[j].id = correction <=> j = i
      BY <1>1, <2>1
    <2>3. issues = {CorrectionIssue(claims[i])}
      BY <2>2 DEF AskedOf
    <2>. QED
      BY <2>3 DEF Asked
  <1>. QED
    BY <1>2, <1>3

LEMMA ToldKept ==
  ASSUME NEW graph, NEW new, NEW added, Adds(graph, new, added), NEW calc, NEW revision \in {1, 2},
         Told(graph, calc, revision), added \notin {DraftKey(1), DraftKey(revision)},
         revision = 2 => added # ReviewKey(1)
  PROVE  Told(new, calc, revision)
  <1>1. DraftMade(new, calc, 1)
    <2>1. 1 \in {1, 2} /\ 1 # 2
      OBVIOUS
    <2>. QED
      BY <2>1, DraftKept DEF Told
  <1>2. ASSUME revision = 2
        PROVE  /\ DraftMade(new, calc, 2) /\ ReviewMade(new, calc, 1)
               /\ new[ReviewKey(1)].payload.status = "REVISION_REQUIRED"
    <2>1. ReviewKey(1) \in DOMAIN graph
      BY <1>2 DEF Told, ReviewMade, Entry
    <2>2. DraftMade(new, calc, 2)
      BY <1>2, <2>1, DraftKept DEF Told
    <2>3. DraftKey(1) \in DOMAIN graph
      BY DEF Told, DraftMade, Entry
    <2>4. ReviewMade(new, calc, 1)
      BY <1>2, <2>3, ReviewKept DEF Told
    <2>5. new[ReviewKey(1)] = graph[ReviewKey(1)]
      BY <1>2, <2>1 DEF Adds
    <2>. QED
      BY <1>2, <2>2, <2>4, <2>5 DEF Told
  <1>. QED
    BY <1>1, <1>2 DEF Told

LEMMA ReviewCrafts ==
  ASSUME IInv, Crafted, NEW correction, Review(correction)
  PROVE  Crafting
  <1>1. PICK rows, calc, refs : rows = run.pinned /\ calc = Calculate(rows) /\ refs = Refs(rows)
    OBVIOUS
  <1>2. stage = "draft" /\ UNCHANGED <<files, run>>
    BY DEF Review
  <1>3. /\ Ready(artifacts, rows, refs, calc) /\ "report" \notin DOMAIN artifacts
        /\ \A row \in rows : row.project = Project
    BY <1>1, <1>2, StageReady
  <1>4. PICK revision : revision = Revision(artifacts)
    OBVIOUS
  <1>5. revision \in {1, 2} /\ Told(artifacts, calc, revision)
    BY <1>1, <1>2, <1>4 DEF Crafted, Made, Revision
  <1>6. ValidInputs(artifacts)
    <2>1. ClaimsMade(artifacts, calc)
      BY <1>3 DEF Ready, InsightMade
    <2>. QED
      BY <1>1, <1>3, <2>1, DataValid, BranchesValid, InsightValid DEF Ready, ValidInputs
  <1>7. PICK new, key, inputs, payload :
          /\ key = ReviewKey(revision) /\ inputs = {DraftKey(revision)}
          /\ payload = ReviewPayload(artifacts, revision, correction)
          /\ new = Put(artifacts, key, inputs, payload)
    OBVIOUS
  <1>8. new = PutReview(artifacts, revision, correction)
    BY <1>7 DEF PutReview
  <1>9. key \in {"review_result:1", "review_result:2"} /\ (key = "review_result:1" <=> revision = 1)
    BY <1>5, <1>7 DEF ReviewKey
  <1>10. Adds(artifacts, new, key) /\ Entry(new, key, inputs, payload)
    BY <1>7, PutAdds, EntryPut
  <1>11. Ready(new, rows, refs, calc)
    <2>1. key \notin DataKeys \cup BranchKeys \cup InsightKeys \cup Early
      BY <1>9 DEF DataKeys, BranchKeys, InsightKeys, Early
    <2>2. inputs \subseteq DOMAIN artifacts
      BY <1>5, <1>7 DEF Told, DraftMade, Entry
    <2>3. inputs \ Early # {}
      BY <1>7 DEF DraftKey, Early
    <2>. QED
      BY <1>3, <1>7, <2>1, <2>2, <2>3, ReadyKept
  <1>12. Told(new, calc, revision)
    <2>1. key \notin {DraftKey(1), DraftKey(revision)} /\ (revision = 2 => key # ReviewKey(1))
      BY <1>9 DEF DraftKey, ReviewKey
    <2>. QED
      BY <1>5, <1>10, <2>1, ToldKept
  <1>13. PICK issues, draft : issues = payload.issues /\ draft = DraftKey(revision)
    OBVIOUS
  <1>14. issues \in Asked(calc)
    <2>1. PICK claims : claims = BindClaims(calc)
      OBVIOUS
    <2>2. ValidDraft(artifacts, revision)
      BY <1>3, <1>5, DraftValid
    <2>3. artifacts[draft].payload.report.claims = claims
      BY <1>5, <1>13, <2>1 DEF Told, DraftMade, Entry, ReportOf
    <2>4. issues = Issues(artifacts, revision, correction)
      BY <1>7, <1>13 DEF ReviewPayload
    <2>5. AskedOf(issues, claims, correction)
      BY <1>13, <2>2, <2>3, <2>4 DEF Issues, AskedOf
    <2>6. Analysed(calc)
      BY <1>3 DEF Ready
    <2>. QED
      BY <2>1, <2>5, <2>6, IssuesAsked
  <1>15. ReviewMade(new, calc, revision)
    <2>1. new[draft] = artifacts[draft]
      BY <1>5, <1>9, <1>10, <1>13 DEF Told, DraftMade, Entry, Adds, DraftKey
    <2>2. payload = [draft |-> new[draft].payload, issues |-> issues,
                     status |-> IF issues = {} THEN "PASS" ELSE "REVISION_REQUIRED"]
      BY <1>7, <1>13, <2>1 DEF ReviewPayload
    <2>. QED
      BY <1>7, <1>10, <1>13, <1>14, <2>2 DEF ReviewMade
  <1>16. ValidReview(new, revision)
    BY <1>5, <1>11, <1>12, <1>15, ReviewValid
  <1>17. \/ correction = <<"unknown", Null>> /\ Fail("REVIEWER_AGENT_INPUT_INVALID") /\ artifacts' = artifacts
         \/ artifacts' = new /\ stage' = "reviewed" /\ error' = error
    BY <1>4, <1>6, <1>8, <1>16, Zenon DEF Review
  <1>18. CASE Fail("REVIEWER_AGENT_INPUT_INVALID") /\ artifacts' = artifacts
    <2>1. ValidInputs(artifacts)'
      BY <1>2, <1>6, <1>18 DEF ValidInputs, ValidData, Calculate
    <2>. QED
      BY <1>18, <2>1, FailsFairly
  <1>19. CASE artifacts' = new /\ stage' = "reviewed" /\ error' = error
    <2>1. Revision(new) = revision
      BY <1>4, <1>9, <1>10 DEF Revision, Adds, DraftKey
    <2>2. "report" \notin DOMAIN new
      BY <1>3, <1>9, <1>10 DEF Adds
    <2>3. new = [k \in DOMAIN new |-> new[k]]
      BY <1>7 DEF Put, WithRefs
    <2>. QED
      BY <1>1, <1>2, <1>11, <1>12, <1>15, <1>19, <2>1, <2>2, <2>3, Crafts DEF Made, Ready
  <1>. QED
    BY <1>17, <1>18, <1>19

LEMMA ReviseCrafts ==
  ASSUME IInv, Crafted, Revise
  PROVE  Crafting
  <1>1. PICK rows, calc, refs : rows = run.pinned /\ calc = Calculate(rows) /\ refs = Refs(rows)
    OBVIOUS
  <1>2. /\ stage = "reviewed" /\ UNCHANGED <<files, run>> /\ Revision(artifacts) = 1
        /\ artifacts[ReviewKey(1)].payload.status = "REVISION_REQUIRED"
    BY DEF Revise, Reviewed
  <1>3. /\ Ready(artifacts, rows, refs, calc) /\ "report" \notin DOMAIN artifacts
        /\ PackInputs \subseteq DOMAIN artifacts
    BY <1>1, <1>2, StageReady
  <1>4. DraftMade(artifacts, calc, 1) /\ ReviewMade(artifacts, calc, 1)
    BY <1>1, <1>2 DEF Crafted, Made, Told
  <1>5. PICK new, key, inputs, payload :
          /\ key = DraftKey(2) /\ inputs = DraftInputs(2) /\ payload = DraftPayload(artifacts, 2)
          /\ new = Put(artifacts, key, inputs, payload)
    OBVIOUS
  <1>6. new = PutDraft(artifacts, 2)
    BY <1>5 DEF PutDraft
  <1>7. /\ key = "report_draft:2" /\ ReviewKey(1) = "review_result:1" /\ DraftKey(1) = "report_draft:1"
        /\ inputs = PackInputs \cup {ReviewKey(1)} /\ inputs \ Early # {}
    BY <1>5, DraftInputsLate DEF DraftKey, DraftInputs, ReviewKey
  <1>8. ReviewKey(1) \in DOMAIN artifacts
    BY <1>4 DEF ReviewMade, Entry
  <1>9. Ready(new, rows, refs, calc)
    <2>1. key \notin DataKeys \cup BranchKeys \cup InsightKeys \cup Early
      BY <1>7 DEF DataKeys, BranchKeys, InsightKeys, Early
    <2>2. inputs \subseteq DOMAIN artifacts
      BY <1>3, <1>7, <1>8
    <2>. QED
      BY <1>3, <1>5, <1>7, <2>1, <2>2, ReadyKept
  <1>10. Adds(artifacts, new, key) /\ Entry(new, key, inputs, payload)
    BY <1>5, PutAdds, EntryPut
  <1>11. new[ReviewKey(1)] = artifacts[ReviewKey(1)]
    BY <1>7, <1>8, <1>10 DEF Adds
  <1>12. DraftMade(new, calc, 2)
    <2>1. ClaimsMade(artifacts, calc)
      BY <1>3 DEF Ready, InsightMade
    <2>2. Report(artifacts) = ReportOf(calc)
      BY <1>3, <2>1, ReportMade DEF Ready
    <2>3. DraftEvidence(new, 2) = DraftEvidence(artifacts, 2)
      BY <1>11 DEF DraftEvidence, IssueEvidence
    <2>4. payload = [revision |-> 2, report |-> ReportOf(calc), evidence |-> DraftEvidence(new, 2)]
      BY <1>5, <2>2, <2>3 DEF DraftPayload
    <2>. QED
      BY <1>5, <1>10, <2>4 DEF DraftMade
  <1>13. DraftMade(new, calc, 1) /\ ReviewMade(new, calc, 1)
    <2>1. 1 \in {1, 2} /\ 1 # 2
      OBVIOUS
    <2>2. DraftKey(1) \in DOMAIN artifacts
      BY <1>4 DEF DraftMade, Entry
    <2>. QED
      BY <1>4, <1>7, <1>10, <2>1, <2>2, DraftKept, ReviewKept
  <1>14. Revision(new) = 2
    BY <1>5, <1>10 DEF Revision, Entry
  <1>15. Told(new, calc, 2)
    BY <1>2, <1>11, <1>12, <1>13 DEF Told
  <1>16. ValidDraft(new, 2)
    BY <1>9, <1>15, DraftValid
  <1>17. artifacts' = new /\ stage' = "draft" /\ error' = error
    BY <1>6, <1>16 DEF Revise
  <1>18. "report" \notin DOMAIN new
    BY <1>3, <1>7, <1>10 DEF Adds
  <1>. QED
    BY <1>1, <1>2, <1>9, <1>14, <1>15, <1>17, <1>18, Crafts DEF Made, Ready

(* The publication gate accepts what the review passed.                    *)
LEMMA PublishCrafts ==
  ASSUME IInv, Crafted, Publish
  PROVE  Crafting
  <1>1. PICK rows, calc, refs : rows = run.pinned /\ calc = Calculate(rows) /\ refs = Refs(rows)
    OBVIOUS
  <1>2. PICK revision, draft : revision = Revision(artifacts) /\ draft = DraftKey(revision)
    OBVIOUS
  <1>3. /\ stage = "reviewed" /\ UNCHANGED <<files, run>>
        /\ artifacts[ReviewKey(revision)].payload.status = "PASS"
    BY <1>2 DEF Publish, Reviewed
  <1>4. Ready(artifacts, rows, refs, calc) /\ "report" \notin DOMAIN artifacts
    BY <1>1, <1>3, StageReady
  <1>5. /\ revision \in {1, 2} /\ Told(artifacts, calc, revision) /\ ReviewMade(artifacts, calc, revision)
        /\ artifacts = [k \in DOMAIN artifacts |-> artifacts[k]]
    BY <1>1, <1>2, <1>3 DEF Crafted, Made, Revision
  <1>6. ValidReview(artifacts, revision)
    BY <1>4, <1>5, ReviewValid
  <1>7. PICK text, snapshots, graph :
          /\ text = artifacts[draft].payload.report /\ snapshots = artifacts[draft].snapshots
          /\ graph = WithRefs(artifacts, "report", ReportInputs, text, snapshots)
    OBVIOUS
  <1>8. graph = PublishedGraph(artifacts, draft)
    BY <1>7 DEF PublishedGraph
  <1>9. /\ draft \in DOMAIN artifacts /\ artifacts[draft].payload.report = ReportOf(calc)
        /\ ReviewKey(revision) \in DOMAIN artifacts
    BY <1>2, <1>5 DEF Told, DraftMade, ReviewMade, Entry
  <1>10. text = ReportOf(calc) /\ snapshots = refs
    <2>1. draft \notin Early
      BY <1>2 DEF DraftKey, Early
    <2>2. artifacts[draft].snapshots = refs
      BY <1>4, <1>9, <2>1 DEF Ready, Lineage
    <2>. QED
      BY <1>7, <1>9, <2>2
  <1>11. Grown(artifacts, graph, "report", ReportInputs, refs, text)
    BY <1>7, <1>10, WithRefsGrows
  <1>12. Adds(artifacts, graph, "report")
    BY <1>11 DEF Grown, Adds
  <1>13. Lineage(graph, refs)
    <2>1. ReportInputs \subseteq DOMAIN artifacts
      BY <1>4 DEF Ready, DataMade, BranchesMade, InsightMade, ClaimsMade, Entry, ReportInputs
    <2>2. "report" \notin Early \cup {"query_result"} /\ ReportInputs \ Early # {}
      BY DEF Early, ReportInputs
    <2>. QED
      BY <1>4, <1>11, <2>1, <2>2, LineageGrows DEF Ready
  <1>14. ValidReport(graph, text)
    <2>1. DataMade(graph, rows, calc) /\ BranchesMade(graph, calc) /\ InsightMade(graph, calc)
      BY <1>4, <1>12, DataKept, BranchesKept, InsightKept DEF Ready, DataKeys, BranchKeys, InsightKeys
    <2>2. ClaimsMade(graph, calc) /\ Analysed(calc)
      BY <1>4, <2>1 DEF InsightMade, Ready
    <2>. QED
      BY <1>10, <1>13, <2>1, <2>2, ReportValid
  <1>15. [k \in DOMAIN graph \ {"report"} |-> graph[k]] = artifacts
    <2>1. DOMAIN graph \ {"report"} = DOMAIN artifacts /\ \A k \in DOMAIN artifacts : graph[k] = artifacts[k]
      BY <1>4, <1>12 DEF Adds
    <2>. QED
      BY <1>5, <2>1
  <1>16. ValidPublication(graph, revision)
    <2>1. /\ graph[draft] = artifacts[draft]
          /\ graph[ReviewKey(revision)] = artifacts[ReviewKey(revision)]
      BY <1>4, <1>9, <1>12 DEF Adds
    <2>2. /\ graph["report"].payload = text /\ graph["report"].snapshots = refs
          /\ graph["report"].inputs = ReportInputs
      BY <1>11 DEF Grown
    <2>. QED
      BY <1>2, <1>3, <1>6, <1>7, <1>10, <1>14, <1>15, <2>1, <2>2 DEF ValidPublication
  <1>17. artifacts' = graph /\ stage' = "published" /\ error' = error
    BY <1>2, <1>8, <1>16 DEF Publish
  <1>. QED
    BY <1>3, <1>17, Crafts DEF Made

LEMMA Initially == Init => Crafted /\ AcceptsOwn
  BY DEF Init, Crafted, Made, AcceptsOwn

LEMMA Onwards == IInv /\ Crafted /\ AcceptsOwn /\ [Next]_vars => Crafted' /\ AcceptsOwn'
  <1>. SUFFICES ASSUME IInv, Crafted, AcceptsOwn, [Next]_vars
                PROVE  Crafting
    BY DEF Crafting
  <1>1. CASE \E file \in Files : Import(file)
    <2>1. /\ run' = run /\ artifacts' = artifacts /\ stage' = stage
          /\ stage \in {"none", "queued", "coordinator"}
      BY <1>1 DEF Import
    <2>. QED
      BY <2>1, Crafts DEF Crafted
  <1>2. CASE \E request \in Requests, threshold \in Thresholds : CreateRun(request, threshold)
    <2>1. stage' = "queued"
      BY <1>2 DEF CreateRun
    <2>. QED
      BY <2>1 DEF Crafting, Crafted, Made, AcceptsOwn
  <1>3. CASE Coordinate
    BY <1>3, CoordinateCrafts
  <1>4. CASE AnalyseData
    BY <1>4, DataCrafts
  <1>5. CASE RunBranches
    BY <1>5, BranchesCraft
  <1>6. CASE \E primary, fallback \in Answers : RunInsight(primary, fallback)
    BY <1>6, InsightCrafts
  <1>7. CASE DraftReport
    BY <1>7, DraftCrafts
  <1>8. CASE stage = "draft" /\ \E correction \in Corrections(artifacts) : Review(correction)
    BY <1>8, ReviewCrafts
  <1>9. CASE Revise
    BY <1>9, ReviseCrafts
  <1>10. CASE FailAtReviewLimit
    <2>1. Fail("REVIEW_REVISION_LIMIT")
      BY <1>10 DEF FailAtReviewLimit
    <2>. QED
      BY <2>1, FailsFairly
  <1>11. CASE Publish
    BY <1>11, PublishCrafts
  <1>12. CASE UNCHANGED vars
    <2>1. Crafted'
      BY <1>12 DEF Crafted, Calculate, vars
    <2>2. AcceptsOwn'
      BY <1>12 DEF AcceptsOwn, ValidInputs, ValidData, Calculate, vars
    <2>. QED
      BY <2>1, <2>2 DEF Crafting
  <1>. QED
    BY <1>1, <1>2, <1>3, <1>4, <1>5, <1>6, <1>7, <1>8, <1>9, <1>10, <1>11, <1>12 DEF Next

(* The artifacts of every completed stage are the ones the calculation of  *)
(* the pinned rows gives, with the snapshots of those rows behind them.    *)
THEOREM CraftedHolds == Spec => [](IInv /\ Crafted /\ AcceptsOwn)
  <1>1. Init => IInv /\ Crafted /\ AcceptsOwn
    BY Initial, Initially
  <1>2. IInv /\ Crafted /\ AcceptsOwn /\ [Next]_vars => (IInv /\ Crafted /\ AcceptsOwn)'
    BY Stepwise, Onwards
  <1>. QED
    BY <1>1, <1>2, PTL DEF Spec

(* No stage refuses what an earlier stage kept: a run fails because of its *)
(* providers, of the second revision demanded or of a decision pack its    *)
(* schema has no room for, and at no other validator, the publication gate *)
(* included (validateDataAnalysisPack() to validateAgentPublication()).    *)
THEOREM AcceptsOwnHolds == Spec => []AcceptsOwn
  <1>. QED
    BY CraftedHolds, PTL

-----------------------------------------------------------------------------
(* What the insight stage shows *)

LEMMA InsightShows ==
  ASSUME IInv, Crafted, stage = "insight"
  PROVE  LET calc == Calculation(artifacts)
         IN  /\ Analysed(calc) /\ artifacts["insight"].payload.claims = BindClaims(calc)
             /\ artifacts["visual_evidence"].payload = Charts(calc)
             /\ artifacts["decision_intelligence_pack"].payload = BuildPack(calc)
  <1>1. PICK rows, calc, refs : rows = run.pinned /\ calc = Calculate(rows) /\ refs = Refs(rows)
    OBVIOUS
  <1>2. Ready(artifacts, rows, refs, calc)
    BY <1>1, StageReady
  <1>3. Calculation(artifacts) = calc
    BY <1>2 DEF Ready, DataMade, Entry, Calculation
  <1>. QED
    BY <1>2, <1>3 DEF Ready, BranchesMade, InsightMade, ClaimsMade, Entry

Citing(calc, claims, charts, pack) ==
    LET brief == BuildBrief(calc)
        Cited(value, path) == value = ValueAt(calc, path)
    IN /\ \A i \in DOMAIN claims : Cited(claims[i].value, claims[i].path)
       /\ \A chart \in charts : \A point \in chart.points : Cited(point.value, point.path)
       /\ \A i \in DOMAIN pack.entities : Cited(pack.entities[i].value, pack.entities[i].path)
       /\ \A h \in pack.hotspots : Cited(h.value, h.path)
       /\ \A h \in pack.hotspots : \A other \in DOMAIN calc.breakdowns[h.type] :
             LET value == calc.breakdowns[h.type][other][h.metric]
             IN value # Null /\ value > h.value => \E g \in pack.hotspots : g.value = value
       /\ brief.concentration # Null =>
             Cited(brief.concentration.support, brief.concentration.path)

LEMMA AllCited ==
  ASSUME NEW calc, Analysed(calc), NEW claims, claims = BindClaims(calc), NEW charts, charts = Charts(calc),
         NEW pack, pack = BuildPack(calc)
  PROVE  Citing(calc, claims, charts, pack)
  <1>1. \A i \in DOMAIN claims : claims[i].value = ValueAt(calc, claims[i].path)
    <2>1. PICK C : C = calc.candidates
      OBVIOUS
    <2>. QED
      BY <2>1, ClaimsAre
  <1>2. \A chart \in charts : \A point \in chart.points : point.value = ValueAt(calc, point.path)
    BY ChartsValid DEF ValidChart
  <1>3. pack.entities = Entities(calc) /\ pack.hotspots = Hotspots(calc)
    BY DEF BuildPack
  <1>4. \A i \in DOMAIN pack.entities : pack.entities[i].value = ValueAt(calc, pack.entities[i].path)
    BY <1>3, EntitiesCited
  <1>5. \A h \in pack.hotspots :
           /\ h.value = ValueAt(calc, h.path)
           /\ \A other \in DOMAIN calc.breakdowns[h.type] :
                LET value == calc.breakdowns[h.type][other][h.metric]
                IN value # Null /\ value > h.value => \E g \in pack.hotspots : g.value = value
    BY <1>3, HotspotsCited
  <1>6. LET brief == BuildBrief(calc)
        IN  brief.concentration # Null => brief.concentration.support = ValueAt(calc, brief.concentration.path)
    <2>1. BuildBrief(calc).concentration = Concentration(calc)
      BY DEF BuildBrief
    <2>. QED
      BY <2>1, ConcentrationCited
  <1>. QED
    BY <1>1, <1>2, <1>4, <1>5, <1>6 DEF Citing

LEMMA Citations == IInv /\ Crafted => CitationsHold
  <1>. SUFFICES ASSUME IInv, Crafted, stage = "insight"
                PROVE  CitationsHold
    BY DEF CitationsHold
  <1>1. PICK calc, claims, charts, pack :
          /\ calc = Calculation(artifacts) /\ claims = artifacts["insight"].payload.claims
          /\ charts = artifacts["visual_evidence"].payload
          /\ pack = artifacts["decision_intelligence_pack"].payload
    OBVIOUS
  <1>2. /\ Analysed(calc) /\ claims = BindClaims(calc) /\ charts = Charts(calc) /\ pack = BuildPack(calc)
    BY <1>1, InsightShows
  <1>3. Citing(calc, claims, charts, pack)
    BY <1>2, AllCited
  <1>. QED
    BY <1>1, <1>3 DEF Citing, CitationsHold

(* Every figure a chart, a claim, the brief, a hotspot or a ranked unit    *)
(* shows is the one its evidence path leads to, positions in sorted lists  *)
(* included, and no larger value than a hotspot's is left out              *)
(* (validateVisualEvidence(), bindClaims(), hotspots(), prioritise(),      *)
(* buildDecisionBrief()).                                                  *)
THEOREM CitationsHoldHolds == Spec => []CitationsHold
  <1>. QED
    BY Citations, CraftedHolds, PTL

Telling(calc, told, pack) ==
    /\ \A c \in calc.changes :
          \E d \in calc.changes : /\ d.metric = c.metric
                                  /\ <<d.metric, d.period>> \in told
                                  /\ c.severity = "material" => d.severity = "material"
    /\ \A i \in DOMAIN pack.changes :
          LET c == pack.changes[i]
          IN c.metric = "median_inventory_age_days"
             \/ \E d \in calc.changes : /\ d.metric = c.metric /\ d.period = c.period
                                        /\ c.severity = "material" => d.severity = "material"

LEMMA AllTold ==
  ASSUME NEW calc, Analysed(calc), NEW claims, claims = BindClaims(calc), NEW pack, pack = BuildPack(calc),
         NEW told, \A i \in DOMAIN claims : claims[i].id \in told
  PROVE  Telling(calc, told, pack)
  <1>2. ASSUME NEW c \in calc.changes
        PROVE  \E d \in calc.changes : /\ d.metric = c.metric
                                       /\ <<d.metric, d.period>> \in told
                                       /\ c.severity = "material" => d.severity = "material"
    <2>1. PICK d \in calc.changes, x \in calc.candidates :
             /\ d.metric = c.metric /\ x.metric = d.metric /\ x.period = d.period
             /\ c.severity = "material" => d.severity = "material"
      BY ChangeKept
    <2>2. PICK C : C = calc.candidates
      OBVIOUS
    <2>3. PICK i \in DOMAIN claims : claims[i].id = <<x.metric, x.period>>
      BY <2>1, <2>2, ClaimsAre
    <2>4. <<d.metric, d.period>> \in told
      BY <2>1, <2>3
    <2>. QED
      BY <2>1, <2>4
  <1>3. ASSUME NEW i \in DOMAIN pack.changes
        PROVE  LET c == pack.changes[i]
               IN c.metric = "median_inventory_age_days"
                  \/ \E d \in calc.changes : /\ d.metric = c.metric /\ d.period = c.period
                                             /\ c.severity = "material" => d.severity = "material"
    <2>1. PICK C, listed : C = PolicyChanges(calc) /\ listed = Ordered(C, ChangeBefore)
      OBVIOUS
    <2>2. pack.changes = listed
      BY <2>1 DEF BuildPack
    <2>3. pack.changes[i] \in PolicyChanges(calc)
      BY <2>1, <2>2, ChangesListed
    <2>. QED
      BY <2>3, PolicyChangesNotable
  <1>. QED
    BY <1>2, <1>3 DEF Telling

LEMMA Tellings == IInv /\ Crafted => ChangesTold
  <1>. SUFFICES ASSUME IInv, Crafted, stage = "insight"
                PROVE  ChangesTold
    BY DEF ChangesTold
  <1>1. PICK calc, claims, pack :
          /\ calc = Calculation(artifacts) /\ claims = artifacts["insight"].payload.claims
          /\ pack = artifacts["decision_intelligence_pack"].payload
    OBVIOUS
  <1>2. /\ Analysed(calc) /\ claims = BindClaims(calc) /\ pack = BuildPack(calc)
    BY <1>1, InsightShows
  <1>3. PICK told : told = {claim.id : claim \in {artifacts["insight"].payload.claims[i] :
                                       i \in DOMAIN artifacts["insight"].payload.claims}}
    OBVIOUS
  <1>4. \A i \in DOMAIN claims : claims[i].id \in told
    BY <1>1, <1>3
  <1>5. Telling(calc, told, pack)
    BY <1>2, <1>4, AllTold
  <1>. QED
    BY <1>1, <1>3, <1>5 DEF Telling, ChangesTold

(* Every notable change has its metric among the claims, at the strongest  *)
(* severity the metric has, and the decision policy reports no change but  *)
(* the notable ones and the median age's (detectNotableChanges(),          *)
(* bindClaims(), changes()).                                               *)
THEOREM ChangesToldHolds == Spec => []ChangesTold
  <1>. QED
    BY Tellings, CraftedHolds, PTL

-----------------------------------------------------------------------------
(* Sums *)

LEMMA PlaceTaken ==
  ASSUME NEW S, IsFiniteSet(S), S \subseteq Int, NEW n \in 1..Cardinality(S)
  PROVE  AtPlace(S, n) \in S /\ PlaceOf(S, AtPlace(S, n)) = n
  <1>1. PICK R : R = {p \in S \X S : p[1] < p[2]}
    OBVIOUS
  <1>2. StrictOrder(S, R)
    BY <1>1 DEF StrictOrder
  <1>3. \A y \in S : Ahead(S, R, y) = {z \in S : z < y}
    BY <1>1 DEF Ahead
  <1>4. Cardinality(S) \in Nat
    BY FS_CardinalityType
  <1>5. PICK r : r = n - 1
    OBVIOUS
  <1>6. r \in 0..(Cardinality(S) - 1) /\ r + 1 = n
    BY <1>4, <1>5
  <1>7. PICK x \in S : Cardinality(Ahead(S, R, x)) = r
    BY <1>2, <1>6, RankTaken
  <1>8. PlaceOf(S, x) = n
    BY <1>3, <1>6, <1>7 DEF PlaceOf
  <1>9. AtPlace(S, n) = x
    BY <1>8, Placed
  <1>. QED
    BY <1>8, <1>9

Summing(value, N, f) ==
    f = [n \in 0..N |-> IF n = 0 THEN 0 ELSE f[n - 1] + value[AtPlace(DOMAIN value, n)]]

LEMMA SumsAgree ==
  ASSUME NEW value, NEW N \in Nat, NEW f, Summing(value, N, f), NEW g, Summing(value, N, g)
  PROVE  f[N] = g[N]
  <1>1. \A n \in 0..N : n # 0 => /\ f[n] = f[n - 1] + value[AtPlace(DOMAIN value, n)]
                                 /\ g[n] = g[n - 1] + value[AtPlace(DOMAIN value, n)]
    BY DEF Summing
  <1>2. f[0] = 0 /\ g[0] = 0
    BY DEF Summing
  <1>3. PICK without : without = {n \in 0..N : f[n] # g[n]}
    OBVIOUS
  <1>4. SUFFICES ASSUME without # {}
                 PROVE  FALSE
    BY <1>3
  <1>5. IsFiniteSet(without) /\ without \subseteq Int
    <2>1. PICK lo \in Int : lo = 0
      OBVIOUS
    <2>2. IsFiniteSet(lo..N)
      BY FS_Interval
    <2>3. without \subseteq 0..N
      BY <1>3
    <2>4. IsFiniteSet(without)
      BY <2>1, <2>2, <2>3, FS_Subset
    <2>. QED
      BY <2>3, <2>4
  <1>6. PICK n \in without : \A m \in without : n <= m
    BY <1>4, <1>5, Extremes
  <1>7. n # 0 /\ n \in 0..N /\ f[n] # g[n]
    BY <1>2, <1>3
  <1>8. n - 1 \in 0..N /\ ~(n <= n - 1)
    BY <1>7
  <1>9. f[n - 1] = g[n - 1]
    BY <1>3, <1>6, <1>8
  <1>. QED
    BY <1>1, <1>7, <1>9

(* Where the values count the elements a map sends to each place, the sum  *)
(* counts them all.                                                        *)
LEMMA Totals ==
  ASSUME NEW value, IsFiniteSet(DOMAIN value), DOMAIN value \subseteq Int, NEW T, IsFiniteSet(T), NEW g,
         \A t \in T : g[t] \in DOMAIN value,
         \A k \in DOMAIN value : value[k] = Scale * Cardinality({t \in T : g[t] = k})
  PROVE  Total(value) = Scale * Cardinality(T)
  <1>1. PICK S, N : S = DOMAIN value /\ N = Cardinality(S)
    OBVIOUS
  <1>2. N \in Nat
    BY <1>1, FS_CardinalityType
  <1>3. PICK upto : upto = [n \in 0..N |-> {t \in T : PlaceOf(S, g[t]) <= n}]
    OBVIOUS
  <1>4. \A t \in T : PlaceOf(S, g[t]) \in 1..N /\ AtPlace(S, PlaceOf(S, g[t])) = g[t]
    BY <1>1, Placed
  <1>5. \A n \in 0..N : IsFiniteSet(upto[n]) /\ Cardinality(upto[n]) \in Nat
    BY <1>3, CountOfSome
  <1>6. upto[0] = {} /\ upto[N] = T
    <2>1. 0 \in 0..N /\ N \in 0..N
      BY <1>2
    <2>2. \A t \in T : ~(PlaceOf(S, g[t]) <= 0) /\ PlaceOf(S, g[t]) <= N
      BY <1>2, <1>4
    <2>. QED
      BY <1>3, <2>1, <2>2
  <1>7. ASSUME NEW n \in 1..N
        PROVE  Cardinality(upto[n]) = Cardinality(upto[n - 1]) + Cardinality({t \in T : g[t] = AtPlace(S, n)})
    <2>1. n \in 0..N /\ n - 1 \in 0..N
      BY <1>2
    <2>2. PICK here : here = {t \in T : g[t] = AtPlace(S, n)}
      OBVIOUS
    <2>3. AtPlace(S, n) \in S /\ PlaceOf(S, AtPlace(S, n)) = n
      BY <1>1, PlaceTaken
    <2>4. \A t \in T : t \in here <=> PlaceOf(S, g[t]) = n
      BY <1>4, <2>2, <2>3
    <2>5. \A t \in T : PlaceOf(S, g[t]) <= n <=> PlaceOf(S, g[t]) <= n - 1 \/ PlaceOf(S, g[t]) = n
      BY <1>2, <1>4
    <2>6. \A t \in T : ~(PlaceOf(S, g[t]) <= n - 1 /\ PlaceOf(S, g[t]) = n)
      BY <1>2
    <2>7. upto[n] = upto[n - 1] \cup here /\ upto[n - 1] \cap here = {}
      BY <1>3, <2>1, <2>2, <2>4, <2>5, <2>6
    <2>8. IsFiniteSet(here) /\ Cardinality(here) \in Nat
      BY <2>2, CountOfSome
    <2>9. Cardinality(upto[n]) = Cardinality(upto[n - 1]) + Cardinality(here) - Cardinality({})
      BY <1>5, <2>1, <2>7, <2>8, FS_Union
    <2>. QED
      BY <1>5, <2>1, <2>2, <2>8, <2>9, FS_EmptySet
  <1>8. PICK f : f = [n \in 0..N |-> Scale * Cardinality(upto[n])]
    OBVIOUS
  <1>9. Summing(value, N, f)
    <2>1. ASSUME NEW n \in 0..N
          PROVE  f[n] = IF n = 0 THEN 0 ELSE f[n - 1] + value[AtPlace(DOMAIN value, n)]
      <3>1. CASE n = 0
        <4>1. Cardinality({}) = 0
          BY FS_EmptySet
        <4>2. f[n] = Scale * Cardinality(upto[n]) /\ upto[n] = {}
          BY <1>6, <1>8, <3>1
        <4>. QED
          BY <3>1, <4>1, <4>2 DEF Scale
      <3>2. CASE n # 0
        <4>1. n \in 1..N /\ n - 1 \in 0..N
          BY <1>2, <3>2
        <4>2. AtPlace(S, n) \in S
          BY <1>1, <4>1, PlaceTaken
        <4>3. PICK there : there = {t \in T : g[t] = AtPlace(S, n)}
          OBVIOUS
        <4>4. value[AtPlace(S, n)] = Scale * Cardinality(there) /\ Cardinality(there) \in Nat
          BY <1>1, <4>2, <4>3, CountOfSome
        <4>5. Cardinality(upto[n]) = Cardinality(upto[n - 1]) + Cardinality(there)
          BY <1>7, <4>1, <4>3
        <4>6. /\ f[n] = Scale * Cardinality(upto[n]) /\ f[n - 1] = Scale * Cardinality(upto[n - 1])
              /\ Cardinality(upto[n - 1]) \in Nat
          BY <1>5, <1>8, <4>1
        <4>. QED
          BY <1>1, <3>2, <4>4, <4>5, <4>6 DEF Scale
      <3>. QED
        BY <3>1, <3>2
    <2>. QED
      BY <1>8, <2>1 DEF Summing
  <1>10. PICK add : add = CHOOSE h : Summing(value, N, h)
    OBVIOUS
  <1>11. Summing(value, N, add)
    BY <1>9, <1>10, Zenon
  <1>12. Total(value) = add[N]
    BY <1>1, <1>10 DEF Total, Summing
  <1>13. add[N] = f[N]
    BY <1>2, <1>9, <1>11, SumsAgree
  <1>14. f[N] = Scale * Cardinality(T)
    <2>1. N \in 0..N
      BY <1>2
    <2>. QED
      BY <1>6, <1>8, <2>1
  <1>. QED
    BY <1>12, <1>13, <1>14

-----------------------------------------------------------------------------
(* The figures of one analysis *)

LEMMA PartsSum ==
  ASSUME NEW S, SomeRows(S), S # {}, NEW day \in Int, NEW threshold, NEW d \in Dimensions,
         NEW key \in {"total_inventory", "available_inventory"},
         NEW parts, parts = Breakdown(S, day, threshold, d)
  PROVE  Total([k \in DOMAIN parts |-> parts[k][key]]) = Summarize(S, day, threshold)[key]
  <1>1. PICK value : value = [k \in DOMAIN parts |-> parts[k][key]]
    OBVIOUS
  <1>2. PICK T : T = IF key = "total_inventory" THEN S ELSE Available(S)
    OBVIOUS
  <1>3. PICK g : g = [t \in T |-> DimensionValue(t, d)]
    OBVIOUS
  <1>4. T \subseteq S
    BY <1>2 DEF Available
  <1>5. IsFiniteSet(T)
    BY <1>4, FS_Subset DEF SomeRows
  <1>6. DOMAIN parts = {DimensionValue(row, d) : row \in S}
    BY DEF Breakdown
  <1>7. \A t \in T : g[t] \in DOMAIN value
    BY <1>1, <1>3, <1>4, <1>6
  <1>8. DOMAIN value = DOMAIN parts /\ IsFiniteSet(DOMAIN parts) /\ DOMAIN parts \subseteq Int
    BY <1>1, BreakdownOf
  <1>9. ASSUME NEW k \in DOMAIN value
        PROVE  value[k] = Scale * Cardinality({t \in T : g[t] = k})
    <2>1. PICK rows : rows = {row \in S : DimensionValue(row, d) = k}
      OBVIOUS
    <2>2. parts[k] = Summarize(rows, day, threshold)
      BY <1>8, <1>9, <2>1, BreakdownOf
    <2>3. rows # {}
      BY <1>6, <1>8, <2>1
    <2>4. SomeRows(rows)
      BY <2>1, FS_Subset DEF SomeRows
    <2>5. /\ parts[k].total_inventory = Scale * Cardinality(rows)
          /\ parts[k].available_inventory = Scale * Cardinality(Available(rows))
      BY <2>2, <2>3, <2>4, CountsCounted
    <2>6. CASE key = "total_inventory"
      <3>1. {t \in T : g[t] = k} = rows
        BY <1>2, <1>3, <2>1, <2>6
      <3>. QED
        BY <1>1, <1>8, <2>5, <2>6, <3>1
    <2>7. CASE key = "available_inventory"
      <3>1. {t \in T : g[t] = k} = Available(rows)
        BY <1>2, <1>3, <2>1, <2>7 DEF Available
      <3>. QED
        BY <1>1, <1>8, <2>5, <2>7, <3>1
    <2>. QED
      BY <2>6, <2>7
  <1>10. Total(value) = Scale * Cardinality(T)
    BY <1>5, <1>7, <1>8, <1>9, Totals
  <1>11. Summarize(S, day, threshold)[key] = Scale * Cardinality(T)
    <2>1. /\ Summarize(S, day, threshold).total_inventory = Scale * Cardinality(S)
          /\ Summarize(S, day, threshold).available_inventory = Scale * Cardinality(Available(S))
      BY CountsCounted
    <2>. QED
      BY <1>2, <2>1
  <1>. QED
    BY <1>1, <1>10, <1>11

(* An available unit has been held for no negative number of days: its     *)
(* row says nothing of what happened after its date.                       *)
LEMMA BucketsSum ==
  ASSUME NEW S, SomeRows(S), S # {}, NEW day \in Int, \A row \in S : row.date <= day, NEW threshold
  PROVE  LET m == Summarize(S, day, threshold)
         IN  Total(m.age_buckets) = m.available_inventory
  <1>1. PICK T : T = Available(S)
    OBVIOUS
  <1>2. PICK m, value : m = Summarize(S, day, threshold) /\ value = m.age_buckets
    OBVIOUS
  <1>3. /\ DOMAIN value = 1..6 /\ m.available_inventory = Scale * Cardinality(T)
        /\ \A b \in 1..6 : value[b] = Scale * Cardinality(Bucket(S, day, b))
    BY <1>1, <1>2, CountsCounted
  <1>4. PICK g : g = [t \in T |-> IF t.since = Null THEN 6
                                  ELSE IF day - t.since < 31 THEN 1
                                  ELSE IF day - t.since < 61 THEN 2
                                  ELSE IF day - t.since < 91 THEN 3
                                  ELSE IF day - t.since < 181 THEN 4 ELSE 5]
    OBVIOUS
  <1>5. \A t \in T : /\ t \in S /\ t.status = "available" /\ g[t] \in 1..6
                     /\ t.since # Null => t.since \in Int /\ day - t.since \in Int /\ 0 <= day - t.since
    <2>1. SUFFICES ASSUME NEW t \in T
                   PROVE  /\ t \in S /\ t.status = "available" /\ g[t] \in 1..6
                          /\ t.since # Null => t.since \in Int /\ day - t.since \in Int
                                               /\ 0 <= day - t.since
      OBVIOUS
    <2>2. t \in S /\ t.status = "available"
      BY <1>1 DEF Available
    <2>3. t.date \in Int /\ t.date <= day /\ (t.since # Null => t.since \in Int /\ t.since <= t.date)
      BY <2>2 DEF SomeRows, SnapshotRow
    <2>. QED
      BY <1>4, <2>2, <2>3
  <1>6. ASSUME NEW b \in 1..6
        PROVE  Bucket(S, day, b) = {t \in T : g[t] = b}
    <2>1. Bucket(S, day, b) \subseteq T
      BY <1>1 DEF Bucket
    <2>2. ASSUME NEW t \in T
          PROVE  t \in Bucket(S, day, b) <=> g[t] = b
      <3>1. t \in Bucket(S, day, b)
              <=> IF b = 6 THEN t.since = Null
                  ELSE /\ t.since # Null
                       /\ Age(t, day) >= AgeBuckets[b]
                       /\ b < 5 => Age(t, day) < AgeBuckets[b + 1]
        BY <1>1 DEF Bucket
      <3>2. CASE t.since = Null
        BY <1>4, <3>1, <3>2
      <3>3. CASE t.since # Null
        <4>1. PICK age \in Int : age = day - t.since
          BY <1>5, <3>3
        <4>2. Age(t, day) = age /\ 0 <= age
          BY <1>5, <3>3, <4>1 DEF Age
        <4>3. g[t] = IF age < 31 THEN 1 ELSE IF age < 61 THEN 2 ELSE IF age < 91 THEN 3
                     ELSE IF age < 181 THEN 4 ELSE 5
          BY <1>4, <3>3, <4>1
        <4>4. t \in Bucket(S, day, b)
                <=> b # 6 /\ age >= AgeBuckets[b] /\ (b < 5 => age < AgeBuckets[b + 1])
          BY <3>1, <3>3, <4>2
        <4>5. /\ AgeBuckets[1] = 0 /\ AgeBuckets[2] = 31 /\ AgeBuckets[3] = 61 /\ AgeBuckets[4] = 91
              /\ AgeBuckets[5] = 181
          BY DEF AgeBuckets
        <4>6. CASE b = 1
          BY <4>2, <4>3, <4>4, <4>5, <4>6
        <4>7. CASE b = 2
          BY <4>2, <4>3, <4>4, <4>5, <4>7
        <4>8. CASE b = 3
          BY <4>2, <4>3, <4>4, <4>5, <4>8
        <4>9. CASE b = 4
          BY <4>2, <4>3, <4>4, <4>5, <4>9
        <4>10. CASE b = 5
          BY <4>2, <4>3, <4>4, <4>5, <4>10
        <4>11. CASE b = 6
          BY <4>3, <4>4, <4>11
        <4>. QED
          BY <4>6, <4>7, <4>8, <4>9, <4>10, <4>11
      <3>. QED
        BY <3>2, <3>3
    <2>. QED
      BY <2>1, <2>2
  <1>7. IsFiniteSet(T)
    BY <1>1, FS_Subset DEF SomeRows, Available
  <1>8. IsFiniteSet(DOMAIN value) /\ DOMAIN value \subseteq Int
    <2>1. PICK lo \in Int, hi \in Int : lo = 1 /\ hi = 6
      OBVIOUS
    <2>2. IsFiniteSet(lo..hi)
      BY FS_Interval
    <2>. QED
      BY <1>3, <2>1, <2>2
  <1>9. \A t \in T : g[t] \in DOMAIN value
    BY <1>3, <1>5
  <1>10. ASSUME NEW b \in DOMAIN value
         PROVE  value[b] = Scale * Cardinality({t \in T : g[t] = b})
    <2>1. b \in 1..6
      BY <1>3, <1>10
    <2>2. Bucket(S, day, b) = {t \in T : g[t] = b}
      BY <1>6, <2>1
    <2>. QED
      BY <1>3, <2>1, <2>2
  <1>11. Total(value) = Scale * Cardinality(T)
    BY <1>7, <1>8, <1>9, <1>10, Totals
  <1>. QED
    BY <1>2, <1>3, <1>11

LEMMA SoldGrows ==
  ASSUME NEW S, SomeRows(S), S # {}, NEW day \in Int, NEW threshold
  PROVE  LET m == Summarize(S, day, threshold)
         IN  m.sold[7] <= m.sold[30] /\ m.sold[30] <= m.sold[90]
  <1>1. PICK m : m = Summarize(S, day, threshold)
    OBVIOUS
  <1>2. PICK a, b, c : a = SoldWithin(S, day, 7) /\ b = SoldWithin(S, day, 30) /\ c = SoldWithin(S, day, 90)
    OBVIOUS
  <1>3. \A row \in S : row.sold # Null => row.sold \in Int
    BY DEF SomeRows, SnapshotRow
  <1>4. a \subseteq b /\ b \subseteq c /\ c \subseteq S
    BY <1>2, <1>3 DEF SoldWithin
  <1>5. IsFiniteSet(c) /\ IsFiniteSet(b)
    BY <1>4, FS_Subset DEF SomeRows
  <1>6. /\ Cardinality(a) \in Nat /\ Cardinality(b) \in Nat /\ Cardinality(c) \in Nat
        /\ Cardinality(a) <= Cardinality(b) /\ Cardinality(b) <= Cardinality(c)
    BY <1>4, <1>5, CountOfSome
  <1>7. m.sold[7] = Scale * Cardinality(a) /\ m.sold[30] = Scale * Cardinality(b)
        /\ m.sold[90] = Scale * Cardinality(c)
    BY <1>1, <1>2, CountsCounted DEF Periods
  <1>. QED
    BY <1>1, <1>6, <1>7 DEF Scale

LEMMA CoverageBounded ==
  ASSUME NEW R, Warehouse(R), NEW day \in Int, NEW request, NEW S, S = SelectLatest(R, day, Scope(request)),
         S # {}
  PROVE  SnapshotCoverage(R, S, day, Scope(request)) <= 100 * Scale
  <1>1. PICK scope, date : scope = Scope(request) /\ date = LatestDate(S)
    OBVIOUS
  <1>2. PICK covered : covered = {row.unit : row \in {r \in R : r.date = date /\ r.date <= day
                                                                /\ InScope(r, scope)}}
    OBVIOUS
  <1>3. SnapshotCoverage(R, S, day, Scope(request)) = Percent(Cardinality(covered), Cardinality(S))
    BY <1>1, <1>2 DEF SnapshotCoverage
  <1>4. IsFiniteSet(S)
    <2>1. S \in SUBSET R
      BY DEF SelectLatest
    <2>. QED
      BY <2>1, RowsDated, FS_Subset
  <1>5. PICK f, units : f = [row \in S |-> row.unit] /\ units = {f[row] : row \in S}
    OBVIOUS
  <1>6. IsFiniteSet(units) /\ Cardinality(units) <= Cardinality(S)
    BY <1>4, <1>5, Imaged
  <1>7. covered \subseteq units
    <2>1. SUFFICES ASSUME NEW row \in R, row.date <= day, InScope(row, scope)
                   PROVE  row.unit \in units
      BY <1>2
    <2>2. PICK last \in R : /\ last.unit = row.unit /\ last.date <= day
                            /\ \A other \in R : other.unit = row.unit /\ other.date <= day
                                                  => other.date <= last.date
      BY <2>1, LastRow
    <2>3. InScope(last, scope)
      BY <1>1, <2>1, <2>2, ScopeOfUnit
    <2>4. last \in S
      BY <1>1, <2>2, <2>3 DEF SelectLatest
    <2>. QED
      BY <1>5, <2>2, <2>4
  <1>8. /\ Cardinality(covered) \in Nat /\ Cardinality(units) \in Nat
        /\ Cardinality(covered) <= Cardinality(units)
    BY <1>6, <1>7, CountOfSome
  <1>9. Cardinality(S) \in Nat /\ Cardinality(S) # 0
    BY <1>4, FS_CardinalityType, FS_EmptySet
  <1>10. PICK n \in Nat, d \in Nat : n = Cardinality(covered) /\ d = Cardinality(S)
    BY <1>8, <1>9
  <1>11. n <= d /\ d # 0
    BY <1>6, <1>8, <1>9, <1>10
  <1>12. Percent(n, d) \in {Null} \cup 0..100 * Scale /\ Percent(n, d) \in Int
    BY <1>11, PercentBounded
  <1>13. Percent(n, d) \in 0..100 * Scale
    BY <1>12, NullIsNoNumber
  <1>. QED
    BY <1>3, <1>10, <1>13 DEF Scale

LEMMA Additive ==
  ASSUME NEW R, Warehouse(R), NEW day \in Int, NEW request, NEW threshold,
         NEW calc, calc = Analyze(R, day, Scope(request), threshold)
  PROVE  PartsAddUp(calc)
  <1>1. PICK S, m : S = SelectLatest(R, day, Scope(request)) /\ m = Summarize(S, day, threshold)
    OBVIOUS
  <1>2. /\ calc.metrics = m /\ DOMAIN calc.units = {row.unit : row \in S}
        /\ calc.breakdowns = Breakdowns(S, day, threshold)
        /\ calc.coverage = SnapshotCoverage(R, S, day, Scope(request))
    BY <1>1 DEF Analyze, AnalysisOf
  <1>3. OneEach(S) /\ SomeRows(S)
    BY <1>1, LatestOfEach DEF Warehouse, OneEach, SomeRows
  <1>4. m.total_inventory = IF S = {} THEN Null ELSE Scale * Cardinality(S)
    BY <1>1, <1>3, CountsCounted
  <1>5. CASE S = {}
    BY <1>2, <1>4, <1>5 DEF PartsAddUp
  <1>6. CASE S # {}
    <2>1. m.total_inventory = Scale * Cardinality(DOMAIN calc.units)
      <3>1. PICK f : f = [row \in S |-> row.unit]
        OBVIOUS
      <3>2. PICK units : units = DOMAIN calc.units
        OBVIOUS
      <3>3. units = {f[row] : row \in S} /\ DOMAIN f = S /\ \A a, b \in S : f[a] = f[b] => a = b
        BY <1>2, <1>3, <3>1, <3>2 DEF OneEach
      <3>4. Cardinality(units) = Cardinality(S)
        BY <1>3, <3>3, ImagedOnce DEF OneEach
      <3>. QED
        BY <1>4, <1>6, <3>2, <3>4
    <2>2. ASSUME NEW dimension \in Dimensions, NEW key \in {"total_inventory", "available_inventory"}
          PROVE  LET parts == calc.breakdowns[dimension]
                 IN  Total([k \in DOMAIN parts |-> parts[k][key]]) = m[key]
      <3>1. PICK parts : parts = Breakdown(S, day, threshold, dimension)
        OBVIOUS
      <3>2. calc.breakdowns[dimension] = parts
        BY <1>2, <3>1 DEF Breakdowns
      <3>3. Total([k \in DOMAIN parts |-> parts[k][key]]) = m[key]
        BY <1>1, <1>3, <1>6, <3>1, PartsSum
      <3>. QED
        BY <3>2, <3>3
    <2>3. Total(m.age_buckets) = m.available_inventory
      <3>1. \A row \in S : row.date <= day
        BY <1>1 DEF SelectLatest
      <3>. QED
        BY <1>1, <1>3, <1>6, <3>1, BucketsSum
    <2>4. m.sold[7] <= m.sold[30] /\ m.sold[30] <= m.sold[90]
      BY <1>1, <1>3, <1>6, SoldGrows
    <2>5. /\ m.median_inventory_age_days # Null /\ m.p75_inventory_age_days # Null
               => m.median_inventory_age_days <= m.p75_inventory_age_days
          /\ m.p25_price_per_area # Null /\ m.median_price_per_area # Null
               => m.p25_price_per_area <= m.median_price_per_area
          /\ m.median_price_per_area # Null /\ m.p75_price_per_area # Null
               => m.median_price_per_area <= m.p75_price_per_area
      BY <1>1, <1>3, QuartilesOrdered
    <2>6. calc.coverage <= 100 * Scale
      BY <1>1, <1>2, <1>6, CoverageBounded
    <2>. QED
      BY <1>2, <2>1, <2>2, <2>3, <2>4, <2>5, <2>6 DEF PartsAddUp
  <1>. QED
    BY <1>5, <1>6

LEMMA Agreeing == IInv => FiguresAgree
  <1>. SUFFICES ASSUME IInv, stage = "data"
                PROVE  HistoryAgrees(Calculation(artifacts)) /\ PartsAddUp(Calculation(artifacts))
    BY DEF FiguresAgree
  <1>1. HistoryAgrees(Calculation(artifacts))
    BY History DEF Dated
  <1>2. Calculation(artifacts)
          = Analyze(run.known, run.request.day, Scope(run.request), run.threshold)
    BY Enough DEF PinnedIsEnough
  <1>3. Warehouse(run.known) /\ run.request.day \in Int
    BY DEF IInv, RunFits
  <1>4. PartsAddUp(Calculation(artifacts))
    BY <1>2, <1>3, Additive
  <1>. QED
    BY <1>1, <1>4

(* The figures of an analysis agree with those of the days it compares,    *)
(* and with one another: a unit is counted once, the parts of every        *)
(* breakdown and the buckets of ages add up to the whole, a longer period  *)
(* has no fewer sales, a quartile is not below a lower one and no more     *)
(* than all units are covered (summarize(), buildBreakdowns(), analyze()). *)
THEOREM FiguresAgreeHolds == Spec => []FiguresAgree
  <1>. QED
    BY Agreeing, Invariance, PTL
=============================================================================
