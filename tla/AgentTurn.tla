------------------------------ MODULE AgentTurn ------------------------------
(***************************************************************************)
(* One execution of a chat turn by the agent runtime, in the request that  *)
(* submitted it or in a worker's dispatch: the context it may use, the     *)
(* plan, the capabilities it calls, the answer that is composed of what    *)
(* they observed, and the transaction that ends the turn.  Each of these   *)
(* reads the database on its own; in between runs go on, the author may    *)
(* lose the right to write or the membership, the request may be aborted,  *)
(* the deadline may pass.                                                  *)
(*                                                                         *)
(* What the tests on the question's words say of it is the set `ask'.  A   *)
(* run's scope and date either fit the turn's or do not.  Of a report's    *)
(* sections only the number without data is kept.  The queue that          *)
(* dispatches a turn again is in DurableTurn.                              *)
(***************************************************************************)
EXTENDS Integers, FiniteSets, Sequences, SequencesExt

CONSTANTS
    Runs,              \* analysis runs of the organisation
    None,              \* no run, no step
    Specialists,       \* targets with an artifact of their own
    MaxPlanSteps,      \* 3 in the code
    MaxShownLimits,    \* limitations in a deterministic answer: 4 in the code
    MaxObservations,   \* a turn may observe: 12 in the code
    ProviderAttempts,  \* providers a stage may try: 2 in the code
    MaxExecutions,     \* dispatches of a durable turn: 3 in the code
    MaxTurnFaults      \* disturbances TLC looks at: failed calls, dead
                       \* processes, aborts, lost roles

ASSUME TurnConstants ==
    /\ MaxPlanSteps \in Nat \ {0} /\ MaxShownLimits \in Nat \ {0} /\ MaxObservations \in Nat
    /\ ProviderAttempts \in Nat \ {0} /\ MaxExecutions \in Nat \ {0}
    /\ MaxTurnFaults \in Nat /\ None \notin Runs

VARIABLES
    role,       \* of the turn's author: "writer", "viewer", "none"
    runs,       \* run -> [status, fits, named, report, missing]
    request,    \* the turn's request
    turn,       \* the assistant message: [status, run, shown]
    at,         \* what the execution does next
    stop,       \* "no", "aborted" (by the caller), "late" (the deadline)
    ctx,        \* the authorized context
    plan,       \* the steps still to execute
    seen,       \* observations so far
    tries,      \* provider calls of the current stage
    draft,      \* the rendered answer, or the code the turn ends with
    turnFaults, executions

turnVars == <<role, runs, request, turn, at, stop, ctx, plan, seen, tries, draft,
              turnFaults, executions>>

Statuses == {"running", "succeeded", "failed"}
Asks == {"causal", "analyze", "new", "update", "compute", "refer"}
Capabilities == {"create", "result", "signal", "decision", "chart", "entity", "evidence",
                 "report", "checkpoint"}

(* status; fits: scope and date are the turn's; named: an answer of the    *)
(* conversation refers to it; report: it publishes a report (else only an  *)
(* artifact); missing: sections of the report without data.                *)
RunFacts == [status : Statuses, fits : BOOLEAN, named : BOOLEAN, report : BOOLEAN,
             missing : 0 .. 8]

(* source and refs: where the context's references come from; signal: the  *)
(* run of the signal acted on; dashboard: a chart and an entity are        *)
(* selected; lease: the turn is dispatched by a worker.                    *)
Request == [source : {"message", "reply", "selection", "thread"}, refs : SUBSET Runs,
            target : {"coordinator", "report", "reviewer", "comparison"} \cup Specialists,
            ask : SUBSET Asks, action : {"none", "inspect", "analyze"},
            signal : Runs \cup {None}, dashboard : BOOLEAN, lease : BOOLEAN]

ShownRun == [run : Runs, status : Statuses \cup {"unsaid"}]
Observation == [cap : Capabilities, n : Nat, avail : {"available", "pending", "unavailable", "failed"},
                on : SUBSET ShownRun]

(* A read names its run; a new analysis and the look at a target's work    *)
(* name none.                                                              *)
Step == [cap : {"create", "checkpoint"}, run : {None}]
        \cup [cap : Capabilities \ {"create", "checkpoint"}, run : Runs]

NoContext == [role |-> "none", active |-> None, fresh |-> FALSE, dashboard |-> FALSE,
              allowed |-> {}, reports |-> {}, packs |-> {}]

(* What a turn ends with: an error, or a reply that says why there is none.*)
Code(c) == [kind |-> "code", code |-> c, limits |-> 0, shown |-> {}]
Said(c) == [Code(c) EXCEPT !.kind = "said"]
NoDraft == Code("none")

TurnTypeOK ==
    /\ role \in {"writer", "viewer", "none"}
    /\ runs \in [Runs -> RunFacts]
    /\ request \in Request /\ (request.action # "none" => request.signal # None)
    /\ turn \in [status : {"in_progress", "completed", "failed", "cancelled"},
                run : Runs \cup {None, "made"}, shown : SUBSET ShownRun]
    /\ at \in {"context", "plan", "step", "answer", "compose", "render", "final", "ended", "lost"}
    /\ stop \in {"no", "aborted", "late"}
    /\ ctx.allowed \subseteq Runs /\ ctx.reports \subseteq ctx.allowed
    /\ plan \in Seq(Step) /\ Len(plan) <= MaxPlanSteps
    /\ seen \subseteq Observation /\ draft.shown \subseteq ShownRun
    /\ tries \in 0 .. ProviderAttempts /\ turnFaults \in 0 .. MaxTurnFaults
    /\ executions \in 1 .. MaxExecutions

Writer == role = "writer"
Explicit == request.source \in {"message", "reply"}

(* A turn begins with its author's right to write and nothing known; an    *)
(* action of the page is on a signal of some run.                          *)
TurnInit ==
    /\ role = "writer" /\ runs \in [Runs -> RunFacts]
    /\ request \in Request /\ (request.action # "none" => request.signal # None)
    /\ turn = [status |-> "in_progress", run |-> None, shown |-> {}] /\ at = "context" /\ stop = "no"
    /\ ctx = NoContext /\ plan = <<>> /\ seen = {} /\ tries = 0 /\ draft = NoDraft
    /\ turnFaults = 0 /\ executions = 1

-----------------------------------------------------------------------------
(* The context *)

HasReport(r) == runs[r].status = "succeeded" /\ runs[r].report

(* The one run the browser's snapshot, the thread or a single reference    *)
(* points at.                                                              *)
Root == IF Cardinality(request.refs) = 1 THEN CHOOSE r \in request.refs : TRUE ELSE None

(* Mutant: a run that was mentioned before may be used whatever its scope. *)
AnyScope(candidates) == candidates

(* A stale default must still fit; explicit references may compare periods.*)
Compatible(candidates) ==
    {r \in candidates : runs[r].fits \/ (Explicit /\ r \in request.refs)}

(* A default of another scope or date asks for a new analysis. *)
Fresh == Root # None /\ ~Explicit /\ ~runs[Root].fits
Active == IF Fresh THEN None ELSE Root

(* What the selection of the dashboard names is in the active run's pack;  *)
(* references given with the message replace the selection.                *)
Dashboard == request.dashboard /\ ~Explicit /\ Active # None /\ HasReport(Active)

(* The runs referred to, selected, acted on or mentioned before. *)
Candidates ==
    request.refs \cup {r \in Runs : runs[r].named}
    \cup (IF request.action = "none" THEN {} ELSE {request.signal})

PublicReports(allowed) == {r \in allowed \cap request.refs : HasReport(r)}
Packs(allowed) == {r \in allowed : HasReport(r)}

(* RuntimeContextBuilder.build: what the author may see of all this.  A    *)
(* read that is not required may fail and drops what it was for.           *)
BuiltContext(unread) ==
    LET allowed == Compatible(Candidates \ unread)
    IN  [role |-> role, active |-> Active, fresh |-> Fresh, dashboard |-> Dashboard,
         allowed |-> allowed, reports |-> PublicReports(allowed), packs |-> Packs(allowed)]

(* An update names exactly one report. *)
AmbiguousUpdate == "update" \in request.ask /\ Cardinality({r \in request.refs : HasReport(r)}) # 1

(* The action's signal is in the brief of a run that has one. *)
SignalLost == request.action # "none" /\ ~HasReport(request.signal)

(* The two reports a comparison was explicitly asked of. *)
Pair(c) ==
    IF request.target = "comparison" /\ request.source = "message" /\ Cardinality(c.reports) = 2
    THEN c.reports ELSE {}

-----------------------------------------------------------------------------
(* The plan *)

Create == [cap |-> "create", run |-> None]
Terminal(c) == [kind |-> "terminal", code |-> c, steps |-> <<>>]
Steps(s) == [kind |-> "plan", code |-> "none", steps |-> s]
CreateUnless(c, viewerCode) == IF c.role = "viewer" THEN Terminal(viewerCode) ELSE Steps(<<Create>>)

FirstAnalysis(c) ==
    c.allowed = {} /\ (request.target = "reviewer"
                       \/ (request.target = "coordinator" /\ "analyze" \in request.ask))

SpecialistWork(c) ==
    request.target \in Specialists /\ (c.allowed = {} \/ "compute" \in request.ask)

(* What is decided without a model, in the order the code decides it. *)
DeterministicPolicy(c) ==
    IF request.action = "inspect" THEN Steps(<<[cap |-> "signal", run |-> request.signal]>>)
    ELSE IF request.action = "analyze" THEN Steps(<<Create>>)
    ELSE IF "causal" \in request.ask THEN Terminal("UNSUPPORTED_CAUSAL_REQUEST")
    ELSE IF FirstAnalysis(c) \/ {"new", "update"} \cap request.ask # {} \/ SpecialistWork(c)
         THEN CreateUnless(c, "CAPABILITY_DENIED")
    ELSE IF c.fresh THEN CreateUnless(c, "CAPABILITY_UNAVAILABLE")
    ELSE IF request.target # "coordinator" THEN Steps(<<[cap |-> "checkpoint", run |-> None]>>)
    ELSE [kind |-> "model", code |-> "none", steps |-> <<>>]

(* The registry's check of a step against the context. *)
Preflight(c, s) ==
    CASE s.cap = "create" -> c.role = "writer"
      [] s.cap = "result" -> s.run \in c.allowed
      [] s.cap = "signal" -> s.run \in c.packs
      [] s.cap = "evidence" -> s.run \in c.packs
      [] s.cap = "decision" -> s.run \in c.packs \cap c.reports /\ s.run = c.active
      [] s.cap \in {"chart", "entity"} -> s.run \in c.packs /\ s.run = c.active /\ c.dashboard
      [] s.cap = "report" -> s.run \in c.reports
      [] s.cap = "checkpoint" -> TRUE

(* validateAgentPlan: reads of one run, each capability once; an analysis  *)
(* or a checkpoint is the only step.                                       *)
ValidPlan(c, steps) ==
    /\ Len(steps) \in 1 .. MaxPlanSteps
    /\ \A i \in DOMAIN steps : Preflight(c, steps[i])
    /\ \A i, j \in DOMAIN steps :
          /\ i # j => steps[i].cap # steps[j].cap
          /\ steps[i].run # None /\ steps[j].run # None => steps[i].run = steps[j].run
    /\ (\E i \in DOMAIN steps : steps[i].cap \in {"create", "checkpoint"}) => Len(steps) = 1

ModelPlans(c) ==
    LET reads(r) == [cap : Capabilities \ {"create", "checkpoint"}, run : {r}]
    IN  {steps \in {<<Create>>} \cup UNION {SeqOf(reads(r), MaxPlanSteps) : r \in Runs} :
            ValidPlan(c, steps)}

-----------------------------------------------------------------------------
(* The capabilities: what a call reads, now *)

Saw(cap, n, avail, on) == [cap |-> cap, n |-> n, avail |-> avail, on |-> on]
Shown(r, status) == [run |-> r, status |-> status]
Unavailable(cap) == {Saw(cap, 1, "unavailable", {})}
ReadFailure(cap) == {Saw(cap, 1, "failed", {})}

AnalysisResult(r) ==
    LET avail == CASE runs[r].status = "succeeded" -> "available"
                   [] runs[r].status = "running" -> "pending"
                   [] OTHER -> "unavailable"
    IN  {Saw("result", 1, avail, {Shown(r, runs[r].status)})}

(* A report's summary, and a line for each section. *)
ReportContext(r) ==
    LET on == {Shown(r, "succeeded")}
    IN  {Saw("report", 0, "available", on)}
        \cup {Saw("report", n, "unavailable", on) : n \in 1 .. runs[r].missing}

Inspected(cap, r) == {Saw(cap, 1, "available", {Shown(r, "succeeded")})}

(* A signal that has no value is a limitation of its run. *)
SignalInspection(r) ==
    {{Saw("signal", 1, avail, {Shown(r, "succeeded")})} : avail \in {"available", "unavailable"}}
DecisionInspection(r) == {Inspected("decision", r), Unavailable("decision")}
VisualInspection(r) == {Inspected("chart", r), Unavailable("chart")}
EntityInspection(r) == {Inspected("entity", r), Unavailable("entity")}
EvidenceInspection(r) == {Inspected("evidence", r), Unavailable("evidence")}

TargetRuns(c) == {r \in c.allowed : runs[r].fits}

(* What the conversation's runs of the same scope have to show for the     *)
(* target: an artifact of one that succeeded, the state of a draft; and    *)
(* only to a question that merely refers to it.                            *)
FollowUps(c) ==
    LET shows == IF request.ask # {"refer"} THEN {}
                 ELSE IF request.target \notin {"report", "reviewer"}
                 THEN {r \in TargetRuns(c) : runs[r].status = "succeeded"}
                 ELSE {r \in TargetRuns(c) : runs[r].report /\ Writer}
    IN  {Unavailable("checkpoint")}
        \cup {{Saw("checkpoint", 1, "available", {Shown(r, runs[r].status)})} : r \in shows}

(* Metrics the two reports share; their references name no status. *)
ReportComparison(c) ==
    {Saw("checkpoint", 1, "available", {Shown(r, "unsaid") : r \in Pair(c)})}

Checkpoint(c) ==
    IF Pair(c) # {} THEN {ReportComparison(c), Unavailable("checkpoint")} ELSE FollowUps(c)

(* What a call may return; a read that throws is an observation too. *)
Results(c, s) ==
    CASE s.cap = "result" -> {AnalysisResult(s.run)}
      [] s.cap = "report" -> {ReportContext(s.run)}
      [] s.cap = "signal" -> SignalInspection(s.run)
      [] s.cap = "decision" -> DecisionInspection(s.run)
      [] s.cap = "chart" -> VisualInspection(s.run)
      [] s.cap = "entity" -> EntityInspection(s.run)
      [] s.cap = "evidence" -> EvidenceInspection(s.run)
      [] s.cap = "checkpoint" -> Checkpoint(c)

-----------------------------------------------------------------------------
(* The answer *)

Limits(obs) == {o \in obs : o.avail # "available"}
Available(obs) == obs \ Limits(obs)

(* A complete answer also links to the run it speaks of. *)
Links(status, obs) ==
    IF status = "complete" THEN {Shown(o.run, "unsaid") : o \in UNION {p.on : p \in obs}} ELSE {}
ShownRuns(status, obs) == Links(status, obs) \cup UNION {o.on : o \in obs}

Coherent(status, obs) ==
    CASE status = "complete" -> obs # {} /\ Limits(obs) = {}
      [] status = "partial" -> Available(obs) # {} /\ Limits(obs) # {}
      [] status = "queued" -> \E o \in obs : o.avail = "pending"
      [] status = "unavailable" -> Available(obs) = {}

(* Mutant: a reference is not read again. *)
TrustedReference(c, ref) == ref.run \in c.allowed

(* reauthorizeReference: the run may be used, the author is still a        *)
(* member, the artifact is public, and a status said is the status now.    *)
Reauthorized(c, ref) ==
    /\ ref.run \in c.allowed /\ role # "none"
    /\ ref.status # "unsaid" => runs[ref.run].status = ref.status

(* validateAndRenderGroundedResponse: every limitation observed is in the  *)
(* selection, its facts are of one run or of the compared pair.            *)
Grounded(c, status, obs) ==
    /\ Limits(seen) \subseteq obs /\ Coherent(status, obs)
    /\ \A ref \in ShownRuns(status, obs) : Reauthorized(c, ref)
    /\ \A a, b \in ShownRuns(status, obs) : a.run = b.run \/ {a.run, b.run} = Pair(c)
    /\ status # "unavailable" => ShownRuns(status, obs) # {}

Answer(status, obs) == [kind |-> "answer", code |-> status,
                        limits |-> Cardinality(Limits(obs)), shown |-> ShownRuns(status, obs)]

(* The selection made without a model: every fact with the first few       *)
(* limitations, or with none the state of the run that is waited for.      *)
DeterministicSelection ==
    LET first == {o \in Limits(seen) :
                     Cardinality({p \in Limits(seen) : p.n < o.n}) < MaxShownLimits}
        pending == {o \in Limits(seen) : o.avail = "pending"}
    IN  CASE Available(seen) = {} /\ pending # {} -> [status |-> "queued", obs |-> pending]
          [] Available(seen) = {} /\ pending = {} -> [status |-> "unavailable", obs |-> Limits(seen)]
          [] OTHER -> [status |-> IF Limits(seen) = {} THEN "complete" ELSE "partial",
                       obs |-> Available(seen) \cup first]

-----------------------------------------------------------------------------
(* The execution *)

Kept == UNCHANGED <<role, runs, request, stop, executions>>
Stopping == IF stop = "no" THEN 0 ELSE 1
Demoted == IF Writer THEN 0 ELSE 1
Bounded == turnFaults + Stopping + Demoted < MaxTurnFaults
Fault == Bounded /\ turnFaults' = turnFaults + 1
NoFault == UNCHANGED turnFaults

(* The errors of a turn go to one place: the message ends with a code. *)
EndsWith(d) == at' = "final" /\ draft' = d /\ UNCHANGED <<turn, ctx, plan, seen>> /\ tries' = 0
Ends(code) == EndsWith(Code(code))
Says(code) == EndsWith(Said(code))
StopCode == IF stop = "aborted" THEN "TURN_CANCELLED" ELSE "PROVIDER_TIMEOUT"
Stopped == stop # "no" /\ Ends(StopCode) /\ NoFault /\ Kept

BuildContext ==
    /\ at = "context"
    /\ \/ Stopped
       \/ stop = "no" /\ Kept /\
          \/ role = "none" /\ Ends("NO_AUTHORIZED_RESULT") /\ NoFault
          \/ Fault /\ Ends("NO_AUTHORIZED_RESULT")
          \/ /\ role # "none"
             /\ \/ AmbiguousUpdate /\ Ends("MISSING_CONTEXT") /\ NoFault
                \/ ~AmbiguousUpdate /\ SignalLost /\ Ends("NO_AUTHORIZED_RESULT") /\ NoFault
                \/ /\ ~AmbiguousUpdate /\ ~SignalLost
                   /\ \E unread \in SUBSET Runs :
                         /\ IF unread = {} THEN NoFault ELSE Fault
                         /\ ctx' = BuiltContext(unread)
                   /\ at' = "plan" /\ UNCHANGED <<turn, plan, seen, tries, draft>>

(* A policy's plan passes the same validation as a model's; a plan that    *)
(* names a capability the context has nothing for is denied.               *)
Decide ==
    /\ at = "plan" /\ tries = 0 /\ NoFault /\ Kept
    /\ LET policy == DeterministicPolicy(ctx)
       IN  \/ policy.kind = "terminal" /\ Says(policy.code)
           \/ /\ policy.kind = "plan" /\ ValidPlan(ctx, policy.steps)
              /\ at' = "step" /\ plan' = policy.steps
              /\ UNCHANGED <<turn, ctx, seen, tries, draft>>
           \/ policy.kind = "plan" /\ ~ValidPlan(ctx, policy.steps) /\ Ends("CAPABILITY_DENIED")
           \/ /\ policy.kind = "model" /\ tries' = 1
              /\ UNCHANGED <<turn, at, ctx, plan, seen, draft>>

(* OrderedFallback: the next provider after an error that may be retried;  *)
(* an abort is noticed between two attempts.                               *)
ProviderErrors == {"PROVIDER_UNAVAILABLE", "PROVIDER_TIMEOUT", "PROVIDER_OUTPUT_INVALID"}

PlanAttempt ==
    /\ at = "plan" /\ tries > 0 /\ NoFault /\ Kept
    /\ \/ /\ stop = "no"
          /\ \E steps \in ModelPlans(ctx) : plan' = steps
          /\ at' = "step" /\ tries' = 0 /\ UNCHANGED <<turn, ctx, seen, draft>>
       \/ stop = "no" /\ Says("CAPABILITY_UNAVAILABLE")   \* the model cannot
       \/ /\ stop = "no" /\ tries < ProviderAttempts /\ tries' = tries + 1
          /\ UNCHANGED <<turn, at, ctx, plan, seen, draft>>
       \/ stop = "no" /\ \E error \in ProviderErrors : Ends(error)
       \/ stop # "no" /\ Ends(StopCode)

(* The run is created and attached to the turn in one transaction; its     *)
(* reply may be lost.                                                      *)
CreateAnalysis ==
    /\ at = "step" /\ stop = "no" /\ plan # <<>> /\ Head(plan).cap = "create" /\ Kept
    /\ \/ /\ Writer /\ turn.status = "in_progress" /\ turn.run = None
          /\ turn' = [turn EXCEPT !.run = "made"]
          /\ \/ at' = "ended" /\ NoFault /\ UNCHANGED <<ctx, plan, seen, tries, draft>>
             \/ /\ Fault /\ at' = "final" /\ draft' = Code("CAPABILITY_UNAVAILABLE") /\ tries' = 0
                /\ UNCHANGED <<ctx, plan, seen>>
       \/ ~Writer /\ Ends("CAPABILITY_DENIED") /\ NoFault
       \/ Fault /\ Ends("CAPABILITY_UNAVAILABLE")

(* Every call asks for the membership again; the first result that is not  *)
(* available is the last.                                                  *)
CallCapability ==
    /\ at = "step" /\ stop = "no" /\ plan # <<>> /\ Head(plan).cap # "create" /\ Kept
    /\ \/ role = "none" /\ Ends("CAPABILITY_DENIED") /\ NoFault
       \/ /\ role # "none"
          /\ \E obs \in Results(ctx, Head(plan)) \cup {ReadFailure(Head(plan).cap)} :
                /\ IF obs = ReadFailure(Head(plan).cap) THEN Fault ELSE NoFault
                /\ IF Cardinality(seen) + Cardinality(obs) > MaxObservations
                   THEN Ends("RUNTIME_LIMIT_EXCEEDED")
                   ELSE /\ seen' = seen \cup obs
                        /\ plan' = IF Available(obs) = {} THEN <<>> ELSE Tail(plan)
                        /\ UNCHANGED <<turn, at, ctx, tries, draft>>

StepsDone ==
    /\ at = "step" /\ NoFault /\ Kept
    /\ \/ stop # "no" /\ Ends(StopCode)
       \/ /\ stop = "no" /\ plan = <<>>
          /\ at' = IF Available(seen) = {} THEN "render" ELSE "compose"
          /\ UNCHANGED <<turn, ctx, plan, seen, tries, draft>>

Renders(status, obs) == EndsWith(Answer(status, obs))

(* A model only selects among the observations; what it selects is         *)
(* validated inside the attempt, so that the next provider or the          *)
(* deterministic selection takes over.                                     *)
ComposeAttempt ==
    /\ at = "compose" /\ NoFault /\ Kept
    /\ \/ /\ stop = "no"
          /\ \E status \in {"complete", "partial", "queued"}, obs \in SUBSET seen :
                Grounded(ctx, status, obs) /\ Renders(status, obs)
       \/ /\ stop = "no" /\ tries < ProviderAttempts - 1 /\ tries' = tries + 1
          /\ UNCHANGED <<turn, at, ctx, plan, seen, draft>>
       \/ stop # "aborted" /\ at' = "render" /\ UNCHANGED <<turn, ctx, plan, seen, tries, draft>>
       \/ stop = "aborted" /\ Ends("TURN_CANCELLED")

(* Mutant: the grounding error leaves the execution. *)
RenderOrThrow ==
    /\ at = "render" /\ NoFault /\ Kept
    /\ LET s == DeterministicSelection
       IN  \/ Grounded(ctx, s.status, s.obs) /\ Renders(s.status, s.obs)
           \/ /\ ~Grounded(ctx, s.status, s.obs) /\ at' = "lost"
              /\ UNCHANGED <<turn, ctx, plan, seen, tries, draft>>

(* GroundingValidationError is not among the errors whose code is kept.    *)
RenderDeterministic ==
    /\ at = "render" /\ NoFault /\ Kept
    /\ LET s == DeterministicSelection
       IN  \/ Grounded(ctx, s.status, s.obs) /\ Renders(s.status, s.obs)
           \/ ~Grounded(ctx, s.status, s.obs) /\ Ends("PROVIDER_UNAVAILABLE")

EndStatus ==
    IF draft.kind \in {"answer", "said"} THEN "completed"
    ELSE IF draft.code = "TURN_CANCELLED" THEN "cancelled" ELSE "failed"

(* finalizeTurn: only a message in progress with no run is ended, and only *)
(* by an author who may write.                                             *)
CanWrite == Writer /\ turn.status = "in_progress" /\ turn.run = None

(* What cannot be written is thrown to the caller: the request fails, the  *)
(* dispatch is over.  Only the answer's write is awaited inside the try.   *)
Finalize ==
    /\ at = "final" /\ Kept /\ UNCHANGED <<ctx, plan, seen, tries>>
    /\ LET late == draft.kind = "answer" /\ stop # "no"
       IN  \/ late /\ draft' = Code(StopCode) /\ UNCHANGED <<turn, at, turnFaults>>
           \/ /\ ~late /\ CanWrite /\ at' = "ended" /\ NoFault /\ UNCHANGED draft
              /\ turn' = [turn EXCEPT !.status = EndStatus, !.shown = draft.shown]
           \/ ~late /\ ~CanWrite /\ at' = "lost" /\ UNCHANGED <<turn, draft>> /\ NoFault
           \/ /\ ~late /\ Fault /\ UNCHANGED turn
              /\ IF draft.kind = "answer"
                 THEN draft' = Code("PROVIDER_UNAVAILABLE") /\ UNCHANGED at
                 ELSE at' = "lost" /\ UNCHANGED draft

-----------------------------------------------------------------------------
(* Around the execution *)

Dies ==
    /\ at \notin {"ended", "lost"} /\ Fault /\ at' = "lost"
    /\ UNCHANGED <<turn, ctx, plan, seen, tries, draft>> /\ Kept

AttemptsLeft == executions < MaxExecutions

(* The queue gives an unfinished durable turn to a worker again; a turn    *)
(* whose author may not write is ended there.  A direct turn is nobody's:  *)
(* submitting it again only shows what is stored.                          *)
DispatchAgain ==
    /\ request.lease /\ at = "lost" /\ turn.status = "in_progress" /\ turn.run = None
    /\ plan' = <<>> /\ seen' = {} /\ tries' = 0 /\ draft' = NoDraft /\ ctx' = NoContext
    /\ stop' = "no" /\ UNCHANGED <<role, runs, request, turnFaults>>
    /\ \/ /\ Writer /\ AttemptsLeft /\ executions' = executions + 1
          /\ at' = "context" /\ UNCHANGED turn
       \/ /\ ~Writer \/ ~AttemptsLeft
          /\ turn' = [turn EXCEPT !.status = "failed"] /\ at' = "ended" /\ UNCHANGED executions

RunGoesOn(r) ==
    /\ runs[r].status = "running" /\ at \notin {"ended", "lost"}
    /\ \E status \in Statuses \ {"running"} : runs' = [runs EXCEPT ![r].status = status]
    /\ UNCHANGED <<role, request, turn, at, stop, ctx, plan, seen, tries, draft, turnFaults, executions>>

LosesRole ==
    /\ at # "ended" /\ Writer /\ Bounded /\ role' \in {"viewer", "none"}
    /\ UNCHANGED <<runs, request, turn, at, stop, ctx, plan, seen, tries, draft, turnFaults, executions>>

(* The caller goes away, the heartbeat fails; the deadline passes. *)
Stops ==
    /\ stop = "no" /\ at \notin {"ended", "lost"} /\ Bounded /\ stop' \in {"aborted", "late"}
    /\ UNCHANGED <<role, runs, request, turn, at, ctx, plan, seen, tries, draft, turnFaults, executions>>

Execute ==
    \/ BuildContext \/ Decide \/ PlanAttempt \/ CreateAnalysis \/ CallCapability
    \/ StepsDone \/ ComposeAttempt \/ RenderDeterministic \/ Finalize

TurnNext == Execute \/ Dies \/ DispatchAgain \/ LosesRole \/ Stops \/ \E r \in Runs : RunGoesOn(r)

(* An execution goes on until it ends; nothing is assumed of its callers.  *)
TurnFairness == WF_turnVars(Execute) /\ WF_turnVars(DispatchAgain)

-----------------------------------------------------------------------------
(* Properties *)

(* An answer says something only of runs of the scope and date that were   *)
(* asked about or of runs the author attached, and of one run unless two   *)
(* attached reports are compared: a selection left over from another       *)
(* scope, earlier messages and a model's choice never widen it.            *)
AnswerGrounded ==
    /\ \A p \in turn.shown : runs[p.run].fits \/ (Explicit /\ p.run \in request.refs)
    /\ \A p, q \in turn.shown :
          p.run # q.run => request.target = "comparison" /\ {p.run, q.run} \subseteq request.refs

(* However the runs move between a capability's read and the composition,  *)
(* what is rendered says of each run what it is at that moment and keeps   *)
(* every limitation that was observed; and a message ends once, never when *)
(* a run has been attached to it.                                          *)
AnswerCurrent ==
    [][/\ (draft'.kind = "answer" /\ draft # draft') =>
             /\ \A p \in draft'.shown : p.status \in {runs[p.run].status, "unsaid"}
             /\ draft'.limits = Cardinality(Limits(seen))
       /\ turn'.status # turn.status => turn.status = "in_progress" /\ turn.run = None
       /\ turn.run # None => turn'.run = turn.run]_turnVars

(* A turn ends with an answer, an error or a run that will answer it.  A   *)
(* direct turn stays open for good only when its process died, a call to   *)
(* the database failed or its author lost the right to write.              *)
TurnEnds ==
    <>(\/ turn.status # "in_progress" \/ turn.run # None
       \/ at = "lost" /\ ~request.lease /\ (role # "writer" \/ turnFaults > 0))
=============================================================================
