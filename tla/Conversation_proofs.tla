------------------------ MODULE Conversation_proofs ------------------------
(***************************************************************************)
(* What an answer may speak of and what the browser shows.  Of a turn, for *)
(* every set of runs, every request, any number of disturbances, and every *)
(* plan and selection a model may make; of the browser, for any number of  *)
(* submissions, conversations, moves of the user and lost answers, and for *)
(* activities and pages of any size.                                       *)
(***************************************************************************)
EXTENDS Conversation, FiniteSetTheorems, TLAPS

(* A turn's execution *)

TurnSafety == TurnInit /\ [][TurnNext]_turnVars

(* Runs of the scope and date asked about, and those the author attached. *)
Fitting == {r \in Runs : runs[r].fits \/ (Explicit /\ r \in request.refs)}

(* The context names no other, and as reports only those referred to. *)
ContextFits ==
    /\ ctx.allowed \subseteq Fitting /\ ctx.packs \subseteq Runs
    /\ ctx.reports \subseteq ctx.allowed \cap request.refs

(* Nor does what is shown; of two runs only in a comparison. *)
ShownFits(shown) ==
    /\ \A p \in shown : p.run \in Fitting
    /\ \A p, q \in shown :
          p.run # q.run => request.target = "comparison" /\ {p.run, q.run} \subseteq request.refs

TurnInvariant == TurnTypeOK /\ ContextFits /\ ShownFits(turn.shown) /\ ShownFits(draft.shown)

-----------------------------------------------------------------------------
(* The steps of the execution *)

(* What fits is settled before the execution begins. *)
LEMMA FittingStays ==
  ASSUME TurnTypeOK, [TurnNext]_turnVars
  PROVE  /\ request' = request /\ Fitting' = Fitting
         /\ \A shown : ShownFits(shown)' <=> ShownFits(shown)
         /\ runs' \in [Runs -> RunFacts]
  <1>1. request' = request /\ (runs' = runs \/ \E r \in Runs : RunGoesOn(r))
    BY DEF TurnNext, turnVars, Execute, BuildContext, Decide, PlanAttempt, CreateAnalysis,
           CallCapability, StepsDone, ComposeAttempt, RenderDeterministic, Finalize, Dies,
           DispatchAgain, LosesRole, Stops, RunGoesOn, Kept, Stopped
  <1>2. /\ runs' \in [Runs -> RunFacts]
        /\ \A r \in Runs : runs'[r].fits = runs[r].fits
    <2>1. CASE runs' = runs
      BY <2>1 DEF TurnTypeOK
    <2>2. ASSUME NEW r \in Runs, RunGoesOn(r)
          PROVE  /\ runs' \in [Runs -> RunFacts]
                 /\ \A q \in Runs : runs'[q].fits = runs[q].fits
      <3>1. PICK status \in Statuses : runs' = [runs EXCEPT ![r].status = status]
        BY <2>2 DEF RunGoesOn
      <3>. QED
        BY <3>1 DEF TurnTypeOK, RunFacts
    <2>. QED
      BY <1>1, <2>1, <2>2
  <1>3. Fitting' = Fitting
    BY <1>1, <1>2 DEF Fitting, Explicit
  <1>. QED
    BY <1>1, <1>2, <1>3 DEF ShownFits

(* Whatever the author referred to, selected or mentioned, what the        *)
(* context allows fits.                                                    *)
LEMMA BuiltFits ==
  ASSUME TurnTypeOK, NEW unread \in SUBSET Runs, ctx' = BuiltContext(unread), UNCHANGED <<runs, request>>
  PROVE  ContextFits' /\ ctx'.reports \subseteq ctx'.allowed /\ ctx'.allowed \subseteq Runs
  <1>1. Candidates \subseteq Runs
    BY DEF TurnTypeOK, Candidates, Request
  <1>2. Compatible(Candidates \ unread) \subseteq Fitting
    BY <1>1 DEF Compatible, Fitting
  <1>3. /\ ctx'.allowed = Compatible(Candidates \ unread)
        /\ ctx'.reports = PublicReports(ctx'.allowed) /\ ctx'.packs = Packs(ctx'.allowed)
    BY DEF BuiltContext
  <1>4. Fitting' = Fitting /\ Fitting \subseteq Runs
    BY DEF Fitting, Explicit
  <1>. QED
    BY <1>2, <1>3, <1>4 DEF ContextFits, PublicReports, Packs

(* A plan, the policy's or a model's, is of steps the code has. *)
LEMMA PlanTyped ==
  ASSUME TurnTypeOK, ContextFits, NEW steps, ValidPlan(ctx, steps),
         \/ DeterministicPolicy(ctx).kind = "plan" /\ steps = DeterministicPolicy(ctx).steps
         \/ steps \in ModelPlans(ctx)
  PROVE  steps \in Seq(Step) /\ Len(steps) <= MaxPlanSteps
  <1>1. Len(steps) <= MaxPlanSteps
    BY TurnConstants DEF ValidPlan
  <1>2. CASE steps = <<Create>>
    BY <1>1, <1>2 DEF Create, Step
  <1>3. CASE steps = <<[cap |-> "checkpoint", run |-> None]>>
    BY <1>1, <1>3 DEF Step
  <1>4. CASE steps = <<[cap |-> "signal", run |-> request.signal]>>
    <2>1. request.signal \in Runs
      <3>1. Preflight(ctx, steps[1])
        BY <1>4 DEF ValidPlan
      <3>. QED
        BY <1>4, <3>1 DEF Preflight, ContextFits
    <2>. QED
      BY <1>1, <1>4, <2>1 DEF Step, Capabilities
  <1>5. ASSUME NEW r \in Runs,
               steps \in SeqOf([cap : Capabilities \ {"create", "checkpoint"}, run : {r}], MaxPlanSteps)
        PROVE  steps \in Seq(Step)
    <2>1. PICK n \in 0 .. MaxPlanSteps :
             steps \in [1 .. n -> [cap : Capabilities \ {"create", "checkpoint"}, run : {r}]]
      BY <1>5 DEF SeqOf
    <2>2. steps \in [1 .. n -> Step]
      BY <2>1 DEF Step
    <2>. QED
      BY <2>2, TurnConstants
  <1>6. CASE DeterministicPolicy(ctx).kind = "plan" /\ steps = DeterministicPolicy(ctx).steps
    BY <1>1, <1>2, <1>3, <1>4, <1>6 DEF DeterministicPolicy, Steps, Terminal, CreateUnless
  <1>7. CASE steps \in ModelPlans(ctx)
    <2>1. steps = <<Create>> \/ \E r \in Runs :
             steps \in SeqOf([cap : Capabilities \ {"create", "checkpoint"}, run : {r}], MaxPlanSteps)
      BY <1>7 DEF ModelPlans
    <2>. QED
      BY <1>1, <1>2, <1>5, <2>1
  <1>. QED
    BY <1>6, <1>7

(* What a call returns is made of observations. *)
LEMMA ResultsTyped ==
  ASSUME TurnTypeOK, ContextFits, NEW s \in Step, s.cap # "create",
         NEW obs \in Results(ctx, s) \cup {ReadFailure(s.cap)}
  PROVE  obs \subseteq Observation
  <1>1. s.cap \in Capabilities
    BY DEF Step, Capabilities
  <1>2. \A cap \in Capabilities, n \in Nat,
           avail \in {"available", "pending", "unavailable", "failed"}, on \in SUBSET ShownRun :
              Saw(cap, n, avail, on) \in Observation
    BY DEF Saw, Observation
  <1>3. \A r \in Runs : /\ runs[r].status \in Statuses /\ runs[r].missing \in 0 .. 8
                        /\ Shown(r, runs[r].status) \in ShownRun
                        /\ Shown(r, "succeeded") \in ShownRun /\ Shown(r, "unsaid") \in ShownRun
    BY DEF TurnTypeOK, RunFacts, Shown, ShownRun, Statuses
  <1>4. CASE obs = ReadFailure(s.cap)
    BY <1>1, <1>2, <1>4 DEF ReadFailure
  <1>5. \A cap \in Capabilities : Unavailable(cap) \subseteq Observation
    BY <1>2 DEF Unavailable
  <1>6. \A cap \in Capabilities, r \in Runs : Inspected(cap, r) \subseteq Observation
    BY <1>2, <1>3 DEF Inspected
  <1>7. CASE s.cap = "checkpoint" /\ obs \in Results(ctx, s)
    <2>1. obs \in Checkpoint(ctx)
      BY <1>7 DEF Results
    <2>2. CASE obs = Unavailable("checkpoint")
      BY <1>5, <2>2 DEF Capabilities
    <2>3. CASE obs = ReportComparison(ctx)
      <3>1. Pair(ctx) \subseteq Runs
        BY DEF Pair, ContextFits, Fitting
      <3>2. {Shown(r, "unsaid") : r \in Pair(ctx)} \subseteq ShownRun
        BY <1>3, <3>1
      <3>. QED
        BY <1>2, <2>3, <3>2 DEF ReportComparison, Capabilities
    <2>4. CASE \E r \in TargetRuns(ctx) : obs = {Saw("checkpoint", 1, "available", {Shown(r, runs[r].status)})}
      <3>1. TargetRuns(ctx) \subseteq Runs
        BY DEF TargetRuns, ContextFits, Fitting
      <3>. QED
        BY <1>2, <1>3, <2>4, <3>1 DEF Capabilities
    <2>. QED
      BY <2>1, <2>2, <2>3, <2>4 DEF Checkpoint, FollowUps
  <1>8. CASE s.cap # "checkpoint" /\ obs \in Results(ctx, s)
    <2>1. s.run \in Runs /\ s.cap \in Capabilities \ {"create", "checkpoint"}
      BY <1>8 DEF Step
    <2>2. CASE s.cap = "result"
      <3>1. PICK avail \in {"available", "pending", "unavailable"} :
               obs = {Saw("result", 1, avail, {Shown(s.run, runs[s.run].status)})}
        BY <1>8, <2>2, <1>3, <2>1 DEF Results, AnalysisResult
      <3>. QED
        BY <1>2, <1>3, <2>1, <3>1 DEF Capabilities
    <2>3. CASE s.cap = "report"
      <3>1. obs = ReportContext(s.run)
        BY <1>8, <2>3 DEF Results
      <3>2. \A n \in 1 .. runs[s.run].missing : n \in Nat
        BY <1>3, <2>1
      <3>. QED
        BY <1>2, <1>3, <2>1, <3>1, <3>2 DEF ReportContext, Capabilities
    <2>4. CASE s.cap = "signal"
      BY <1>2, <1>3, <1>8, <2>1, <2>4 DEF Results, SignalInspection, Capabilities
    <2>5. CASE s.cap \in {"decision", "chart", "entity", "evidence"}
      BY <1>5, <1>6, <1>8, <2>1, <2>5 DEF Results, DecisionInspection, VisualInspection,
         EntityInspection, EvidenceInspection, Capabilities
    <2>. QED
      BY <2>1, <2>2, <2>3, <2>4, <2>5 DEF Capabilities
  <1>. QED
    BY <1>4, <1>7, <1>8

(* What is grounded fits, keeps every limitation observed and says of a    *)
(* run what it is now.                                                     *)
LEMMA GroundedFits ==
  ASSUME TurnInvariant, NEW status, NEW obs \in SUBSET seen, Grounded(ctx, status, obs)
  PROVE  /\ ShownFits(ShownRuns(status, obs)) /\ ShownRuns(status, obs) \subseteq ShownRun
         /\ Limits(obs) = Limits(seen)
         /\ \A p \in ShownRuns(status, obs) : p.status \in {runs[p.run].status, "unsaid"}
  <1>1. Limits(obs) = Limits(seen)
    BY DEF Grounded, Limits
  <1>2. \A o \in obs : o.on \subseteq ShownRun
    BY DEF TurnInvariant, TurnTypeOK, Observation
  <1>3. UNION {o.on : o \in obs} \subseteq ShownRun
    BY <1>2
  <1>4. Links(status, obs) \subseteq ShownRun
    BY <1>3 DEF Links, Shown, ShownRun
  <1>5. ShownRuns(status, obs) \subseteq ShownRun
    BY <1>3, <1>4 DEF ShownRuns
  <1>6. \A p \in ShownRuns(status, obs) :
           p.run \in ctx.allowed /\ p.status \in {runs[p.run].status, "unsaid"}
    BY DEF Grounded, Reauthorized
  <1>7. ShownFits(ShownRuns(status, obs))
    <2>1. \A p, q \in ShownRuns(status, obs) : p.run # q.run => {p.run, q.run} = Pair(ctx)
      BY DEF Grounded
    <2>2. Pair(ctx) # {} => request.target = "comparison" /\ Pair(ctx) \subseteq request.refs
      BY DEF Pair, TurnInvariant, ContextFits
    <2>. QED
      BY <1>6, <2>1, <2>2 DEF ShownFits, TurnInvariant, ContextFits
  <1>. QED
    BY <1>1, <1>5, <1>6, <1>7

LEMMA FaultsTyped ==
  ASSUME TurnTypeOK, Fault \/ NoFault
  PROVE  turnFaults' \in 0 .. MaxTurnFaults
  BY TurnConstants DEF TurnTypeOK, Fault, NoFault, Bounded, Stopping, Demoted

(* Ending shows nothing new unless it is an answer. *)
LEMMA EndsKeeps ==
  ASSUME TurnInvariant, NEW d, EndsWith(d), Kept, Fault \/ NoFault,
         d.shown \subseteq ShownRun, ShownFits(d.shown)
  PROVE  TurnInvariant'
  <1>1. Fitting' = Fitting
    BY DEF Kept, Fitting, Explicit
  <1>2. turnFaults' \in 0 .. MaxTurnFaults
    BY FaultsTyped DEF TurnInvariant
  <1>3. TurnTypeOK'
    BY <1>2, TurnConstants DEF EndsWith, Kept, TurnInvariant, TurnTypeOK
  <1>. QED
    BY <1>1, <1>3 DEF EndsWith, Kept, TurnInvariant, ContextFits, ShownFits

LEMMA CodeKeeps ==
  ASSUME TurnInvariant, NEW c, Ends(c) \/ Says(c), Kept, Fault \/ NoFault
  PROVE  TurnInvariant'
  <1>1. Code(c).shown = {} /\ Said(c).shown = {}
    BY DEF Code, Said
  <1>2. ShownFits({})
    BY DEF ShownFits
  <1>. QED
    BY <1>1, <1>2, EndsKeeps DEF Ends, Says

LEMMA ContextStep ==
  ASSUME TurnInvariant, BuildContext
  PROVE  TurnInvariant'
  <1>1. CASE Stopped
    BY <1>1, CodeKeeps DEF Stopped
  <1>2. ASSUME NEW c, Ends(c), Kept, Fault \/ NoFault
        PROVE  TurnInvariant'
    BY <1>2, CodeKeeps
  <1>3. ASSUME NEW unread \in SUBSET Runs, IF unread = {} THEN NoFault ELSE Fault,
               ctx' = BuiltContext(unread), Kept, at' = "plan", UNCHANGED <<turn, plan, seen, tries, draft>>
        PROVE  TurnInvariant'
    <2>1. ContextFits' /\ ctx'.reports \subseteq ctx'.allowed /\ ctx'.allowed \subseteq Runs
      BY <1>3, BuiltFits DEF Kept, TurnInvariant
    <2>2. turnFaults' \in 0 .. MaxTurnFaults
      BY <1>3, FaultsTyped DEF TurnInvariant
    <2>3. TurnTypeOK'
      BY <1>3, <2>1, <2>2 DEF Kept, TurnInvariant, TurnTypeOK
    <2>4. Fitting' = Fitting
      BY <1>3 DEF Kept, Fitting, Explicit
    <2>. QED
      BY <1>3, <2>1, <2>3, <2>4 DEF TurnInvariant, Kept, ShownFits
  <1>. QED
    BY <1>1, <1>2, <1>3 DEF BuildContext

(* Steps that only move on: they leave what is known and shown alone. *)
LEMMA MovesKeep ==
  ASSUME TurnInvariant, Kept, Fault \/ NoFault, UNCHANGED <<turn, ctx, draft>>,
         at' \in {"context", "plan", "step", "answer", "compose", "render", "final", "ended", "lost"},
         plan' \in Seq(Step) /\ Len(plan') <= MaxPlanSteps, seen' \subseteq Observation,
         tries' \in 0 .. ProviderAttempts
  PROVE  TurnInvariant'
  <1>1. turnFaults' \in 0 .. MaxTurnFaults
    BY FaultsTyped DEF TurnInvariant
  <1>2. TurnTypeOK'
    BY <1>1 DEF Kept, TurnInvariant, TurnTypeOK
  <1>3. Fitting' = Fitting
    BY DEF Kept, Fitting, Explicit
  <1>. QED
    BY <1>2, <1>3 DEF TurnInvariant, Kept, ContextFits, ShownFits

LEMMA PlanStep ==
  ASSUME TurnInvariant, Decide \/ PlanAttempt
  PROVE  TurnInvariant'
  <1>. USE DEF TurnInvariant
  <1>1. /\ Kept /\ NoFault /\ tries \in 0 .. ProviderAttempts /\ seen \subseteq Observation
        /\ plan \in Seq(Step) /\ Len(plan) <= MaxPlanSteps
    BY DEF Decide, PlanAttempt, TurnTypeOK
  <1>2. ASSUME NEW c, Ends(c) \/ Says(c)
        PROVE  TurnInvariant'
    BY <1>1, <1>2, CodeKeeps
  <1>3. ASSUME NEW steps, ValidPlan(ctx, steps),
               \/ DeterministicPolicy(ctx).kind = "plan" /\ steps = DeterministicPolicy(ctx).steps
               \/ steps \in ModelPlans(ctx),
               plan' = steps, at' = "step", tries' \in {0, tries}, UNCHANGED <<turn, ctx, seen, draft>>
        PROVE  TurnInvariant'
    <2>1. steps \in Seq(Step) /\ Len(steps) <= MaxPlanSteps
      BY <1>3, PlanTyped
    <2>2. tries' \in 0 .. ProviderAttempts
      BY <1>1, <1>3, TurnConstants
    <2>. QED
      BY <1>1, <1>3, <2>1, <2>2, MovesKeep
  <1>4. ASSUME tries' \in 0 .. ProviderAttempts, UNCHANGED <<turn, at, ctx, plan, seen, draft>>
        PROVE  TurnInvariant'
    <2>1. at' \in {"context", "plan", "step", "answer", "compose", "render", "final", "ended", "lost"}
      BY <1>4 DEF TurnTypeOK
    <2>. QED
      BY <1>1, <1>4, <2>1, MovesKeep
  <1>5. CASE Decide
    <2>1. CASE DeterministicPolicy(ctx).kind = "plan" /\ ValidPlan(ctx, DeterministicPolicy(ctx).steps)
               /\ plan' = DeterministicPolicy(ctx).steps /\ at' = "step"
               /\ UNCHANGED <<turn, ctx, seen, tries, draft>>
      BY <2>1, <1>3
    <2>2. CASE tries' = 1 /\ UNCHANGED <<turn, at, ctx, plan, seen, draft>>
      BY <2>2, <1>4, TurnConstants
    <2>. QED
      BY <1>2, <1>5, <2>1, <2>2 DEF Decide
  <1>6. CASE PlanAttempt
    <2>1. ASSUME NEW steps \in ModelPlans(ctx), plan' = steps, at' = "step", tries' = 0,
                 UNCHANGED <<turn, ctx, seen, draft>>
          PROVE  TurnInvariant'
      <3>1. ValidPlan(ctx, steps)
        BY <2>1 DEF ModelPlans
      <3>. QED
        BY <2>1, <3>1, <1>3
    <2>2. CASE tries < ProviderAttempts /\ tries' = tries + 1 /\ UNCHANGED <<turn, at, ctx, plan, seen, draft>>
      BY <2>2, <1>1, <1>4, TurnConstants
    <2>. QED
      BY <1>2, <1>6, <2>1, <2>2 DEF PlanAttempt
  <1>. QED
    BY <1>5, <1>6

LEMMA CreateStep ==
  ASSUME TurnInvariant, CreateAnalysis
  PROVE  TurnInvariant'
  <1>1. Kept
    BY DEF CreateAnalysis
  <1>2. ASSUME NEW c, Ends(c), Fault \/ NoFault
        PROVE  TurnInvariant'
    BY <1>1, <1>2, CodeKeeps
  <1>3. ASSUME turn' = [turn EXCEPT !.run = "made"], UNCHANGED <<ctx, plan, seen>>, Fault \/ NoFault,
               \/ at' = "ended" /\ UNCHANGED <<tries, draft>>
               \/ at' = "final" /\ draft' = Code("CAPABILITY_UNAVAILABLE") /\ tries' = 0
        PROVE  TurnInvariant'
    <2>1. /\ turn'.shown = turn.shown
          /\ turn' \in [status : {"in_progress", "completed", "failed", "cancelled"},
                        run : Runs \cup {None, "made"}, shown : SUBSET ShownRun]
      BY <1>3 DEF TurnInvariant, TurnTypeOK
    <2>2. draft'.shown \in {{}, draft.shown} /\ tries' \in 0 .. ProviderAttempts
      BY <1>3, TurnConstants DEF Code, TurnInvariant, TurnTypeOK
    <2>3. turnFaults' \in 0 .. MaxTurnFaults
      BY <1>3, FaultsTyped DEF TurnInvariant
    <2>4. TurnTypeOK'
      BY <1>1, <1>3, <2>1, <2>2, <2>3 DEF Kept, TurnInvariant, TurnTypeOK
    <2>5. Fitting' = Fitting
      BY <1>1 DEF Kept, Fitting, Explicit
    <2>. QED
      BY <1>1, <1>3, <2>1, <2>2, <2>4, <2>5 DEF TurnInvariant, Kept, ContextFits, ShownFits
  <1>. QED
    BY <1>2, <1>3 DEF CreateAnalysis

LEMMA CallStep ==
  ASSUME TurnInvariant, CallCapability
  PROVE  TurnInvariant'
  <1>1. Kept /\ plan \in Seq(Step) /\ plan # <<>> /\ Head(plan).cap # "create"
    BY DEF CallCapability, TurnInvariant, TurnTypeOK
  <1>2. ASSUME NEW c, Ends(c), Fault \/ NoFault
        PROVE  TurnInvariant'
    BY <1>1, <1>2, CodeKeeps
  <1>3. ASSUME NEW obs \in Results(ctx, Head(plan)) \cup {ReadFailure(Head(plan).cap)},
               Fault \/ NoFault, seen' = seen \cup obs, plan' \in {<<>>, Tail(plan)},
               UNCHANGED <<turn, at, ctx, tries, draft>>
        PROVE  TurnInvariant'
    <2>1. Head(plan) \in Step
      BY <1>1
    <2>2. obs \subseteq Observation
      BY <1>1, <1>3, <2>1, ResultsTyped DEF TurnInvariant
    <2>3. plan' \in Seq(Step) /\ Len(plan') <= MaxPlanSteps
      <3>1. /\ Tail(plan) \in Seq(Step) /\ Len(Tail(plan)) = Len(plan) - 1
            /\ Len(plan) \in Nat /\ Len(plan) <= MaxPlanSteps
        <4>1. Tail(plan) \in Seq(Step)
          BY <1>1
        <4>2. Len(plan) \in Nat /\ Len(Tail(plan)) = Len(plan) - 1
          BY <1>1
        <4>3. Len(plan) <= MaxPlanSteps
          BY DEF TurnInvariant, TurnTypeOK
        <4>. QED
          BY <4>1, <4>2, <4>3
      <3>2. <<>> \in Seq(Step) /\ Len(<<>>) = 0
        OBVIOUS
      <3>3. MaxPlanSteps \in Nat
        BY TurnConstants
      <3>4. CASE plan' = <<>>
        BY <3>2, <3>3, <3>4
      <3>5. CASE plan' = Tail(plan)
        BY <3>1, <3>3, <3>5
      <3>. QED
        BY <1>3, <3>4, <3>5
    <2>4. /\ at' \in {"context", "plan", "step", "answer", "compose", "render", "final", "ended", "lost"}
          /\ seen' \subseteq Observation /\ tries' \in 0 .. ProviderAttempts
      BY <1>3, <2>2 DEF TurnInvariant, TurnTypeOK
    <2>. QED
      BY <1>1, <1>3, <2>3, <2>4, MovesKeep
  <1>. QED
    BY <1>2, <1>3 DEF CallCapability

(* Whatever a model selects, or the deterministic selection. *)
LEMMA AnswerKeeps ==
  ASSUME TurnInvariant, NEW status, NEW obs \in SUBSET seen, Grounded(ctx, status, obs), Renders(status, obs),
         Kept, NoFault
  PROVE  TurnInvariant'
  BY GroundedFits, EndsKeeps DEF Renders, Answer

LEMMA SelectionSeen == DeterministicSelection.obs \subseteq seen
  BY DEF DeterministicSelection, Available, Limits

LEMMA AnswerStep ==
  ASSUME TurnInvariant, StepsDone \/ ComposeAttempt \/ RenderDeterministic
  PROVE  TurnInvariant'
  <1>1. Kept /\ NoFault
    BY DEF StepsDone, ComposeAttempt, RenderDeterministic
  <1>2. ASSUME NEW c, Ends(c)
        PROVE  TurnInvariant'
    BY <1>1, <1>2, CodeKeeps
  <1>3. ASSUME at' \in {at, "render", "compose"}, UNCHANGED <<turn, ctx, plan, seen, draft>>,
               tries' = tries \/ (tries < ProviderAttempts - 1 /\ tries' = tries + 1)
        PROVE  TurnInvariant'
    <2>1. /\ at' \in {"context", "plan", "step", "answer", "compose", "render", "final", "ended", "lost"}
          /\ plan' \in Seq(Step) /\ Len(plan') <= MaxPlanSteps /\ seen' \subseteq Observation
      BY <1>3 DEF TurnInvariant, TurnTypeOK
    <2>2. tries' \in 0 .. ProviderAttempts
      BY <1>3, TurnConstants DEF TurnInvariant, TurnTypeOK
    <2>. QED
      BY <1>1, <1>3, <2>1, <2>2, MovesKeep
  <1>4. CASE StepsDone
    BY <1>2, <1>3, <1>4 DEF StepsDone
  <1>5. CASE ComposeAttempt
    BY <1>1, <1>2, <1>3, <1>5, AnswerKeeps DEF ComposeAttempt
  <1>6. CASE RenderDeterministic
    BY <1>1, <1>2, <1>6, AnswerKeeps, SelectionSeen DEF RenderDeterministic
  <1>. QED
    BY <1>4, <1>5, <1>6

LEMMA FinalStep ==
  ASSUME TurnInvariant, Finalize
  PROVE  TurnInvariant'
  <1>1. Kept /\ UNCHANGED <<ctx, plan, seen, tries>>
    BY DEF Finalize
  <1>2. Fault \/ NoFault
    BY DEF Finalize, NoFault
  <1>3. draft' = draft \/ \E c : draft' = Code(c)
    BY DEF Finalize
  <1>4. draft'.shown \in {{}, draft.shown}
    BY <1>3 DEF Code
  <1>5. /\ turn'.shown \in {draft.shown, turn.shown}
        /\ turn' \in [status : {"in_progress", "completed", "failed", "cancelled"},
                      run : Runs \cup {None, "made"}, shown : SUBSET ShownRun]
    <2>1. CASE turn' = turn
      BY <2>1 DEF TurnInvariant, TurnTypeOK
    <2>2. CASE turn' = [turn EXCEPT !.status = EndStatus, !.shown = draft.shown]
      <3>1. EndStatus \in {"completed", "cancelled", "failed"}
        BY DEF EndStatus
      <3>. QED
        BY <2>2, <3>1 DEF TurnInvariant, TurnTypeOK
    <2>. QED
      BY <2>1, <2>2 DEF Finalize
  <1>6. turnFaults' \in 0 .. MaxTurnFaults
    BY <1>2, FaultsTyped DEF TurnInvariant
  <1>7. at' \in {at, "ended", "lost"}
    BY DEF Finalize
  <1>8. TurnTypeOK'
    BY <1>1, <1>4, <1>5, <1>6, <1>7 DEF Kept, TurnInvariant, TurnTypeOK
  <1>9. Fitting' = Fitting
    BY <1>1 DEF Kept, Fitting, Explicit
  <1>. QED
    BY <1>1, <1>4, <1>5, <1>8, <1>9 DEF TurnInvariant, Kept, ContextFits, ShownFits

LEMMA AroundStep ==
  ASSUME TurnInvariant, Dies \/ DispatchAgain \/ LosesRole \/ Stops \/ \E r \in Runs : RunGoesOn(r)
  PROVE  TurnInvariant'
  <1>1. /\ request' = request /\ Fitting' = Fitting /\ runs' \in [Runs -> RunFacts]
        /\ \A shown : ShownFits(shown)' <=> ShownFits(shown)
    <2>1. TurnNext /\ TurnTypeOK
      BY DEF TurnNext, TurnInvariant
    <2>. QED
      BY <2>1, FittingStays
  <1>2. CASE Dies
    <2>1. at' = "lost" /\ UNCHANGED <<turn, ctx, plan, seen, tries, draft>> /\ Kept /\ Fault
      BY <1>2 DEF Dies
    <2>. QED
      BY <2>1, MovesKeep DEF TurnInvariant, TurnTypeOK
  <1>3. CASE DispatchAgain
    <2>1. /\ turn'.shown = turn.shown
          /\ turn' \in [status : {"in_progress", "completed", "failed", "cancelled"},
                        run : Runs \cup {None, "made"}, shown : SUBSET ShownRun]
      BY <1>3 DEF DispatchAgain, TurnInvariant, TurnTypeOK
    <2>2. executions' \in 1 .. MaxExecutions
      BY <1>3, TurnConstants DEF DispatchAgain, AttemptsLeft, TurnInvariant, TurnTypeOK
    <2>3. at' \in {"context", "ended"} /\ draft'.shown = {}
      BY <1>3 DEF DispatchAgain, NoDraft, Code
    <2>4. TurnTypeOK'
      BY <1>1, <1>3, <2>1, <2>2, <2>3, TurnConstants DEF DispatchAgain, TurnInvariant, TurnTypeOK, NoContext
    <2>5. ContextFits' /\ ShownFits({})
      BY <1>3 DEF DispatchAgain, NoContext, ContextFits, ShownFits
    <2>. QED
      BY <1>1, <2>1, <2>3, <2>4, <2>5 DEF TurnInvariant, ShownFits
  <1>4. CASE LosesRole \/ Stops \/ \E r \in Runs : RunGoesOn(r)
    <2>1. UNCHANGED <<turn, at, ctx, plan, seen, tries, draft, turnFaults, executions>>
      BY <1>4 DEF LosesRole, Stops, RunGoesOn
    <2>2. role' \in {"writer", "viewer", "none"} /\ stop' \in {"no", "aborted", "late"}
      BY <1>4 DEF LosesRole, Stops, RunGoesOn, TurnInvariant, TurnTypeOK
    <2>3. TurnTypeOK'
      BY <1>1, <2>1, <2>2 DEF TurnInvariant, TurnTypeOK
    <2>. QED
      BY <1>1, <2>1, <2>3 DEF TurnInvariant, ContextFits, ShownFits
  <1>. QED
    BY <1>2, <1>3, <1>4

-----------------------------------------------------------------------------
(* The theorems *)

LEMMA Initial == TurnInit => TurnInvariant
  <1>. SUFFICES ASSUME TurnInit PROVE TurnInvariant
    OBVIOUS
  <1>1. turn = [status |-> "in_progress", run |-> None, shown |-> {}] /\ draft.shown = {}
    BY DEF TurnInit, NoDraft, Code
  <1>2. <<>> \in Seq(Step) /\ Len(<<>>) = 0
    OBVIOUS
  <1>3. TurnTypeOK
    BY <1>1, <1>2, TurnConstants DEF TurnInit, TurnTypeOK, NoContext
  <1>. QED
    BY <1>1, <1>3 DEF TurnInit, TurnInvariant, ContextFits, ShownFits, NoContext

LEMMA Inductive == TurnInvariant /\ [TurnNext]_turnVars => TurnInvariant'
  <1>. SUFFICES ASSUME TurnInvariant, [TurnNext]_turnVars PROVE TurnInvariant'
    OBVIOUS
  <1>1. CASE UNCHANGED turnVars
    <2>1. UNCHANGED <<role, runs, request, turn, at, stop, ctx, plan, seen, tries, draft,
                      turnFaults, executions>>
      BY <1>1 DEF turnVars
    <2>2. TurnTypeOK'
      BY <2>1 DEF TurnInvariant, TurnTypeOK
    <2>3. Fitting' = Fitting
      BY <2>1 DEF Fitting, Explicit
    <2>. QED
      BY <2>1, <2>2, <2>3 DEF TurnInvariant, ContextFits, ShownFits
  <1>2. CASE TurnNext
    BY <1>2, ContextStep, PlanStep, CreateStep, CallStep, AnswerStep, FinalStep, AroundStep
       DEF TurnNext, Execute
  <1>. QED
    BY <1>1, <1>2

(* An execution never leaves the strengthened invariant (agent-runtime.ts).*)
THEOREM TurnInvariance == TurnSafety => []TurnInvariant
  BY Initial, Inductive, PTL DEF TurnSafety

(* Every variable keeps its type: plans are of at most the allowed number  *)
(* of steps, observations and what is shown name runs there are, and no    *)
(* stage tries more providers nor a turn more dispatches than the limits.  *)
THEOREM TurnTypeCorrect == TurnSafety => []TurnTypeOK
  <1>1. TurnInvariant => TurnTypeOK
    BY DEF TurnInvariant
  <1>. QED
    BY <1>1, TurnInvariance, PTL

(* An answer says something only of runs of the scope and date asked about *)
(* or of runs the author attached, and of one run unless two attached      *)
(* reports are compared, whatever was selected or mentioned before, and    *)
(* whatever plan and selection a model chooses.                            *)
THEOREM AnswerGroundedHolds == TurnSafety => []AnswerGrounded
  <1>1. TurnInvariant => AnswerGrounded
    BY DEF TurnInvariant, ShownFits, Fitting, AnswerGrounded
  <1>. QED
    BY <1>1, TurnInvariance, PTL

(* What is rendered says of each run what it is at that moment and keeps   *)
(* every limitation that was observed; a message ends once, and never when *)
(* a run has been attached to it.                                          *)
THEOREM AnswerCurrentHolds == TurnSafety => AnswerCurrent
  <1>. DEFINE Rendered == draft'.kind = "answer" /\ draft # draft' =>
                             /\ \A p \in draft'.shown : p.status \in {runs[p.run].status, "unsaid"}
                             /\ draft'.limits = Cardinality(Limits(seen))
              Once == /\ turn'.status # turn.status => turn.status = "in_progress" /\ turn.run = None
                      /\ turn.run # None => turn'.run = turn.run
  <1>1. TurnInvariant /\ TurnNext => Rendered
    <2>. SUFFICES ASSUME TurnInvariant, TurnNext PROVE Rendered
      OBVIOUS
    <2>1. \/ draft' = draft \/ \E c : draft' \in {Code(c), Said(c)}
          \/ \E status : \E obs \in SUBSET seen : Grounded(ctx, status, obs) /\ Renders(status, obs)
      <3>1. CASE BuildContext \/ Decide \/ PlanAttempt
        BY <3>1 DEF BuildContext, Decide, PlanAttempt, Stopped, Ends, Says, EndsWith
      <3>2. CASE CreateAnalysis \/ CallCapability \/ StepsDone
        BY <3>2 DEF CreateAnalysis, CallCapability, StepsDone, Ends, EndsWith
      <3>3. CASE ComposeAttempt
        BY <3>3 DEF ComposeAttempt, Ends, EndsWith
      <3>4. CASE RenderDeterministic
        BY <3>4, SelectionSeen DEF RenderDeterministic, Ends, EndsWith
      <3>5. CASE Finalize
        BY <3>5 DEF Finalize
      <3>6. CASE Dies \/ DispatchAgain \/ LosesRole \/ Stops \/ \E r \in Runs : RunGoesOn(r)
        BY <3>6 DEF Dies, DispatchAgain, LosesRole, Stops, RunGoesOn, NoDraft
      <3>. QED
        BY <3>1, <3>2, <3>3, <3>4, <3>5, <3>6 DEF TurnNext, Execute
    <2>2. ASSUME NEW c, draft' \in {Code(c), Said(c)}
          PROVE  draft'.kind # "answer"
      BY <2>2 DEF Code, Said
    <2>3. ASSUME NEW status, NEW obs \in SUBSET seen, Grounded(ctx, status, obs), Renders(status, obs)
          PROVE  Rendered
      BY <2>3, GroundedFits DEF Renders, EndsWith, Answer
    <2>. QED
      BY <2>1, <2>2, <2>3
  <1>2. TurnInvariant /\ TurnNext => Once
    <2>. SUFFICES ASSUME TurnInvariant, TurnNext PROVE Once
      OBVIOUS
    <2>1. turn \in [status : {"in_progress", "completed", "failed", "cancelled"},
                    run : Runs \cup {None, "made"}, shown : SUBSET ShownRun]
      BY DEF TurnInvariant, TurnTypeOK
    <2>2. CASE turn' = turn
      BY <2>2
    <2>3. CASE CreateAnalysis
      <3>1. CASE turn.run = None /\ turn' = [turn EXCEPT !.run = "made"]
        BY <2>1, <3>1
      <3>. QED
        BY <2>2, <2>3, <3>1 DEF CreateAnalysis, Ends, EndsWith
    <2>4. CASE Finalize
      <3>1. CASE CanWrite /\ turn' = [turn EXCEPT !.status = EndStatus, !.shown = draft.shown]
        BY <2>1, <3>1 DEF CanWrite
      <3>. QED
        BY <2>2, <2>4, <3>1 DEF Finalize
    <2>5. CASE DispatchAgain
      BY <2>1, <2>2, <2>5 DEF DispatchAgain
    <2>6. CASE BuildContext \/ Decide \/ PlanAttempt \/ CallCapability \/ StepsDone
               \/ ComposeAttempt \/ RenderDeterministic
      <3>1. turn' = turn
        BY <2>6 DEF BuildContext, Decide, PlanAttempt, CallCapability, StepsDone, ComposeAttempt,
           RenderDeterministic, Stopped, Ends, Says, Renders, EndsWith
      <3>. QED
        BY <2>2, <3>1
    <2>7. CASE Dies \/ LosesRole \/ Stops \/ \E r \in Runs : RunGoesOn(r)
      BY <2>2, <2>7 DEF Dies, LosesRole, Stops, RunGoesOn
    <2>. QED
      BY <2>3, <2>4, <2>5, <2>6, <2>7 DEF TurnNext, Execute
  <1>3. UNCHANGED turnVars => Rendered /\ Once
    BY DEF turnVars
  <1>4. TurnInvariant /\ [TurnNext]_turnVars => [Rendered /\ Once]_turnVars
    BY <1>1, <1>2, <1>3
  <1>. QED
    BY <1>4, TurnInvariance, PTL DEF TurnSafety, AnswerCurrent, Rendered, Once

-----------------------------------------------------------------------------
(* The browser *)

Safety == Init /\ [][Next]_vars

-----------------------------------------------------------------------------
(* Numbers *)

LEMMA OfTwo ==
  ASSUME NEW x \in Int, NEW y \in Int
  PROVE  /\ Max({x, y}) \in {x, y} /\ Max({x, y}) >= x /\ Max({x, y}) >= y
         /\ Min({x, y}) \in {x, y} /\ Min({x, y}) <= x /\ Min({x, y}) <= y
  <1>1. \E m \in {x, y} : \A z \in {x, y} : m >= z
    BY x >= y \/ y >= x
  <1>2. \E m \in {x, y} : \A z \in {x, y} : m <= z
    BY x <= y \/ y <= x
  <1>. QED
    BY <1>1, <1>2 DEF Max, Min

(* A finite set of numbers has a greatest. *)
LEMMA Greatest ==
  ASSUME NEW S \in SUBSET Nat, IsFiniteSet(S), S # {}
  PROVE  Max(S) \in S /\ \A y \in S : y <= Max(S)
  <1>. DEFINE Above(x) == {y \in S : x < y}
              Family == {Above(x) : x \in S}
  <1>1. IsWellFoundedOn(StrictSubsetOrdering(S), FiniteSubsetsOf(S))
    BY FS_StrictSubsetOrderingWellFounded
  <1>2. Family \subseteq FiniteSubsetsOf(S) /\ Family # {}
    <2>1. \A T \in SUBSET S : IsFiniteSet(T)
      BY FS_Subset
    <2>2. \A x \in S : Above(x) \in SUBSET S
      OBVIOUS
    <2>. QED
      BY <2>1, <2>2 DEF FiniteSubsetsOf
  <1>3. PICK X \in Family : \A Y \in Family : ~ (<<Y, X>> \in StrictSubsetOrdering(S))
    BY <1>1, <1>2, WFMin, Zenon
  <1>4. PICK x \in S : X = Above(x)
    OBVIOUS
  <1>5. \A y \in S : ~(x < y)
    <2>1. SUFFICES ASSUME NEW y \in S, x < y
                   PROVE  FALSE
      OBVIOUS
    <2>2. Above(y) \subseteq X /\ y \in X /\ y \notin Above(y)
      <3>1. \A z \in S : z \in Int
        OBVIOUS
      <3>2. \A z \in S : y < z => x < z
        BY <2>1, <3>1
      <3>3. ~(y < y)
        BY <3>1
      <3>. QED
        BY <1>4, <2>1, <3>2, <3>3
    <2>3. X \in SUBSET S /\ Above(y) \in SUBSET S
      BY <1>4
    <2>4. Above(y) \in Family
      OBVIOUS
    <2>5. <<Above(y), X>> \in StrictSubsetOrdering(S)
      BY <2>2, <2>3 DEF StrictSubsetOrdering
    <2>. QED
      BY <1>3, <2>4, <2>5
  <1>6. \A y \in S : x >= y
    BY <1>5
  <1>7. Max(S) \in S /\ \A y \in S : Max(S) >= y
    BY <1>6 DEF Max
  <1>. QED
    BY <1>7

-----------------------------------------------------------------------------
(* The chat page *)

Begun(i) == turns[i].status # "none"

(* A submission has a job and a conversation only once it is a turn. *)
RowsInOrder ==
    \A i \in Turns :
       /\ turns[i].job => Started(i)
       /\ Started(i) => turns[i].conv \in Conversations

(* No draft was submitted under two identities. *)
DistinctPrompts ==
    \A i, k \in Turns : i # k /\ Begun(i) /\ Begun(k) =>
       turns[i].prompt # turns[k].prompt \/ turns[i].prompt = Suggestion

(* What is sent was submitted; what was answered is a turn. *)
SentInOrder ==
    \A i \in Turns :
       /\ wire[i] # "idle" \/ i \in late => Begun(i)
       /\ wire[i] \in {"handled", "replayed"} => Started(i)

(* Messages are of turns of the conversation they were read for. *)
OfConversation(messages, c) ==
    \A i \in Turns : messages[i] # "absent" => Started(i) /\ turns[i].conv = c

GoodRead(l) == l \in FeedReads /\ OfConversation(l.seen, l.conv)
GoodJobPage(g) == g \in JobPages /\ (g # NoPage => Started(g.job))

(* A page retries and sends what was submitted and follows what was        *)
(* accepted; what it shows is of the conversation that is open.            *)
GoodPage(p) ==
    /\ p \in Page /\ GoodJobPage(p.snap) /\ OfConversation(p.screen, p.open)
    /\ p.retry # NoId => Begun(p.retry)
    /\ p.sending # NoId => Begun(p.sending)
    /\ p.job # NoId => Started(p.job)

(* A draft that is not a submission's is another prompt than all of them:  *)
(* what is not sent again cannot repeat one.                               *)
FreshDraft(p) ==
    p.text # 0 /\ p.retry = NoId /\ p.sending = NoId =>
       \A i \in Turns : Begun(i) => turns[i].prompt # p.text

Rows == turns \in [Turns -> TurnRow] /\ RowsInOrder /\ DistinctPrompts
Wires == /\ wire \in [Turns -> {"idle", "sent", "handled", "replayed"}] /\ late \subseteq Turns
         /\ SentInOrder
Shows == GoodPage(ui) /\ FreshDraft(ui)
Reading == \A l \in loads : GoodRead(l)
Polling ==
    /\ poll \in [leg : {"off", "ask", "asked"}, page : JobPages]
    /\ GoodJobPage(poll.page) /\ GoodJobPage(frame)
Surroundings ==
    /\ setup \in [sse : BOOLEAN, durable : BOOLEAN]
    /\ moves \in 0 .. MaxMoves /\ netFaults \in 0 .. MaxNetFaults

ClientInv == Rows /\ Wires /\ Shows /\ Reading /\ Polling /\ Surroundings

LEMMA Identity == NoId \notin Turns /\ Turns \subseteq Nat \ {0} /\ IsFiniteSet(Turns)
  <1>1. IsFiniteSet(Turns)
    BY ClientConstants, FS_Interval DEF Turns
  <1>. QED
    BY <1>1 DEF Turns, NoId

(* A new prompt is none of those submitted. *)
LEMMA PromptIsNew ==
  ASSUME turns \in [Turns -> TurnRow]
  PROVE  NextPrompt \in Nat \ {0} /\ \A i \in Turns : turns[i].prompt # NextPrompt
  <1>. DEFINE Used == {0} \cup {turns[i].prompt : i \in Turns}
  <1>1. \A i \in Turns : turns[i].prompt \in Nat
    BY DEF TurnRow
  <1>2. Used \in SUBSET Nat /\ 0 \in Used
    BY <1>1
  <1>3. IsFiniteSet(Used)
    <2>1. IsFiniteSet({turns[i].prompt : i \in Turns})
      <3>. DEFINE prompt == [i \in Turns |-> turns[i].prompt]
      <3>1. prompt \in Surjection(Turns, {turns[i].prompt : i \in Turns})
        BY DEF Surjection
      <3>. QED
        BY <3>1, Identity, FS_Surjection
    <2>. QED
      BY <2>1, FS_AddElement
  <1>4. Max(Used) \in Used /\ \A y \in Used : y <= Max(Used)
    BY <1>2, <1>3, Greatest
  <1>5. Max(Used) \in Nat
    BY <1>2, <1>4
  <1>6. \A i \in Turns : turns[i].prompt <= Max(Used) /\ turns[i].prompt \in Nat
    BY <1>1, <1>4
  <1>7. NextPrompt = 1 + Max(Used)
    BY DEF NextPrompt
  <1>. HIDE DEF Used
  <1>. QED
    BY <1>5, <1>6, <1>7

(* As turns go on, what was good stays good. *)
Onward ==
    \A i \in Turns :
       /\ Begun(i) => Begun(i)' /\ turns'[i].prompt = turns[i].prompt
       /\ Started(i) => Started(i)' /\ turns'[i].conv = turns[i].conv

LEMMA GoodStays ==
  ASSUME Onward
  PROVE  /\ \A l : GoodRead(l) => GoodRead(l)'
         /\ \A g : GoodJobPage(g) => GoodJobPage(g)'
         /\ \A p : GoodPage(p) => GoodPage(p)'
  <1>1. \A m, c : OfConversation(m, c) => OfConversation(m, c)'
    BY DEF OfConversation, Onward
  <1>2. \A g : GoodJobPage(g) => GoodJobPage(g)'
    BY DEF GoodJobPage, JobPages, Onward
  <1>3. \A l : GoodRead(l) => GoodRead(l)'
    BY <1>1 DEF GoodRead
  <1>4. \A p : GoodPage(p) => GoodPage(p)'
    BY <1>1, <1>2, Identity DEF GoodPage, Page, Onward
  <1>. QED
    BY <1>2, <1>3, <1>4

LEMMA StillOnward == turns' = turns => Onward
  BY DEF Onward, Begun, Started

(* Only the page changed, and what it reads. *)
LEMMA PageChanges ==
  ASSUME ClientInv, UNCHANGED turns
  PROVE  /\ Rows' /\ Onward
         /\ UNCHANGED <<wire, late>> => Wires'
         /\ UNCHANGED setup /\ moves' \in 0 .. MaxMoves /\ netFaults' \in 0 .. MaxNetFaults
               => Surroundings'
  BY StillOnward DEF ClientInv, Rows, RowsInOrder, DistinctPrompts, Begun, Started, Wires,
     SentInOrder, Surroundings

LEMMA NothingGood ==
  /\ NoPage \in JobPages /\ GoodJobPage(NoPage) /\ Empty \in [Turns -> Messages]
  /\ \A c : OfConversation(Empty, c)
  /\ \A c \in Addresses : GoodPage(Mounted(c)) /\ FreshDraft(Mounted(c))
  /\ NoPoll \in [leg : {"off", "ask", "asked"}, page : JobPages]
  /\ Ask \in [leg : {"off", "ask", "asked"}, page : JobPages]
  /\ NoPoll.page = NoPage /\ Ask.page = NoPage
  <1>1. /\ NoPage \in JobPages /\ GoodJobPage(NoPage)
        /\ Empty \in [Turns -> Messages] /\ \A c : OfConversation(Empty, c)
    BY DEF JobPages, GoodJobPage, Messages, Empty, OfConversation
  <1>2. \A c \in Addresses : Mounted(c) \in Page
    BY <1>1, ClientConstants DEF Mounted, Page
  <1>3. \A c \in Addresses : GoodPage(Mounted(c)) /\ FreshDraft(Mounted(c))
    BY <1>1, <1>2 DEF Mounted, GoodPage, FreshDraft
  <1>4. /\ NoPoll \in [leg : {"off", "ask", "asked"}, page : JobPages]
        /\ Ask \in [leg : {"off", "ask", "asked"}, page : JobPages]
        /\ NoPoll.page = NoPage /\ Ask.page = NoPage
    BY <1>1 DEF NoPoll, Ask
  <1>. QED
    BY <1>1, <1>3, <1>4

(* A read that is sent has seen nothing yet. *)
LEMMA ReadsGood ==
  ASSUME NEW gen \in Nat
  PROVE  /\ \A c \in Conversations : GoodRead(FeedRead(c, gen))
         /\ \A c \in Addresses : \A l \in FirstRead(c, gen) : GoodRead(l)
  <1>1. \A c \in Conversations : GoodRead(FeedRead(c, gen))
    <2>1. \A c \in Conversations : FeedRead(c, gen) \in FeedReads
      BY NothingGood DEF FeedRead, FeedReads
    <2>. QED
      BY <2>1, NothingGood DEF GoodRead, FeedRead
  <1>2. \A c \in Addresses : \A l \in FirstRead(c, gen) : c \in Conversations /\ l = FeedRead(c, gen)
    BY DEF FirstRead, Addresses
  <1>. QED
    BY <1>1, <1>2

(* Reads are added, or answered. *)
LEMMA ReadingGrows ==
  ASSUME ClientInv, Onward, NEW more, loads' \subseteq loads \cup more, \A l \in more : GoodRead(l)
  PROVE  Reading'
  <1>1. \A l \in loads' : GoodRead(l)
    BY DEF ClientInv, Reading
  <1>. QED
    BY <1>1, GoodStays DEF Reading

LEMMA EffectsGood ==
  ASSUME ClientInv, NEW next, GoodPage(next), Effects(next), UNCHANGED turns
  PROVE  /\ GoodPage(ui)' /\ Polling' /\ Reading'
         /\ ui'.text = next.text /\ ui'.retry = next.retry /\ ui'.sending = next.sending
  <1>. DEFINE cleared == [next EXCEPT !.snap = NoPage]
  <1>1. next \in Page
    BY DEF GoodPage
  <1>2. /\ cleared \in Page /\ cleared.snap = NoPage /\ cleared.screen = next.screen
        /\ cleared.open = next.open /\ cleared.gen = next.gen /\ cleared.text = next.text
        /\ cleared.retry = next.retry /\ cleared.sending = next.sending /\ cleared.job = next.job
    <2>1. NoPage \in JobPages
      BY DEF JobPages
    <2>2. cleared \in Page
      BY <1>1, <2>1 DEF Page
    <2>. QED
      BY <1>1, <2>2 DEF Page
  <1>. HIDE DEF cleared
  <1>3. ui' \in {next, cleared}
    BY DEF Effects, cleared
  <1>4. GoodPage(cleared)
    BY <1>2, NothingGood DEF GoodPage
  <1>5. GoodPage(ui)'
    BY <1>3, <1>4, GoodStays, StillOnward
  <1>6. poll' \in {poll, NoPoll, Ask} /\ frame' \in {frame, NoPage}
    BY DEF Effects
  <1>7. GoodJobPage(poll.page) /\ GoodJobPage(frame)
        /\ poll \in [leg : {"off", "ask", "asked"}, page : JobPages]
    BY DEF ClientInv, Polling
  <1>8. Polling'
    <2>1. GoodJobPage(poll'.page) /\ GoodJobPage(frame')
      BY <1>6, <1>7, NothingGood
    <2>2. GoodJobPage(poll.page)' /\ GoodJobPage(frame)'
      BY <2>1, GoodStays, StillOnward
    <2>. QED
      BY <2>2, <1>6, <1>7, NothingGood DEF Polling
  <1>9. Reading'
    <2>1. next.open \in Addresses /\ next.gen \in Nat
      BY <1>1 DEF Page
    <2>2. \A l \in FirstRead(next.open, next.gen) : GoodRead(l)
      BY <2>1, ReadsGood
    <2>3. loads' \subseteq loads \cup FirstRead(next.open, next.gen)
      BY DEF Effects
    <2>. QED
      BY <2>2, <2>3, ReadingGrows, StillOnward
  <1>. QED
    BY <1>2, <1>3, <1>5, <1>8, <1>9

LEMMA Restarted ==
  ASSUME NEW p \in Page
  PROVE  /\ Restart(p) \in Page /\ Restart(p).screen = Empty /\ Restart(p).snap = p.snap
         /\ Restart(p).open = p.open /\ Restart(p).sending = p.sending /\ Restart(p).job = p.job
         /\ Restart(p).text = p.text /\ Restart(p).retry = p.retry /\ Restart(p).gen \in Nat
  <1>1. Empty \in [Turns -> Messages] /\ p.gen + 1 \in Nat
    BY NothingGood DEF Page
  <1>2. Restart(p) = [p EXCEPT !.gen = p.gen + 1, !.screen = Empty]
    BY DEF Restart
  <1>. QED
    BY <1>1, <1>2 DEF Page

LEMMA Activated ==
  ASSUME NEW p \in Page, NEW c \in Addresses
  PROVE  /\ Activate(p, c) \in Page /\ Activate(p, c).snap = p.snap /\ Activate(p, c).open = c
         /\ Activate(p, c).sending = p.sending
         /\ Activate(p, c).screen = IF c = p.open THEN p.screen ELSE Empty
  <1>1. CASE c = p.open
    BY <1>1 DEF Activate
  <1>2. CASE c # p.open
    <2>. DEFINE page == Restart(p)
    <2>1. page \in Page /\ page.snap = p.snap /\ page.sending = p.sending /\ page.screen = Empty
      BY Restarted
    <2>2. Activate(p, c) = [page EXCEPT !.open = c]
      BY <1>2 DEF Activate
    <2>. HIDE DEF page
    <2>. QED
      BY <1>2, <2>1, <2>2 DEF Page
  <1>. QED
    BY <1>1, <1>2

LEMMA SelectStep ==
  ASSUME ClientInv, NEW c \in Addresses, SelectConversation(c)
  PROVE  ClientInv'
  <1>. DEFINE next == [Activate(ui, c) EXCEPT
                          !.job = NoId, !.error = FALSE, !.retry = NoId, !.going = c,
                          !.text = IF c = New \/ ui.text = 0 THEN 0 ELSE NextPrompt]
  <1>1. UNCHANGED <<turns, wire, late, setup, netFaults>> /\ Effects(next)
        /\ moves < MaxMoves /\ moves' = moves + 1
    BY DEF SelectConversation
  <1>2. ui \in Page /\ GoodPage(ui)
    BY DEF ClientInv, Shows, GoodPage
  <1>3. NextPrompt \in Nat /\ \A i \in Turns : turns[i].prompt # NextPrompt
    BY PromptIsNew DEF ClientInv, Rows
  <1>4. /\ next \in Page /\ next.snap = ui.snap /\ next.open = c
        /\ next.screen = (IF c = ui.open THEN ui.screen ELSE Empty)
        /\ next.retry = NoId /\ next.sending = ui.sending /\ next.job = NoId
        /\ next.text \in {0, NextPrompt}
    <2>. DEFINE page == Activate(ui, c)
    <2>1. /\ page \in Page /\ page.snap = ui.snap /\ page.open = c /\ page.sending = ui.sending
          /\ page.screen = (IF c = ui.open THEN ui.screen ELSE Empty)
      BY <1>2, Activated
    <2>2. next = [page EXCEPT
                    !.job = NoId, !.error = FALSE, !.retry = NoId, !.going = c,
                    !.text = IF c = New \/ ui.text = 0 THEN 0 ELSE NextPrompt]
      OBVIOUS
    <2>. HIDE DEF page, next
    <2>3. /\ next \in Page /\ next.snap = page.snap /\ next.screen = page.screen
          /\ next.open = page.open /\ next.retry = NoId /\ next.sending = page.sending
          /\ next.job = NoId /\ next.text \in {0, NextPrompt}
      BY <2>1, <2>2, <1>3 DEF Page
    <2>. QED
      BY <2>1, <2>3
  <1>. HIDE DEF next
  <1>5. GoodPage(next)
    <2>1. OfConversation(next.screen, next.open)
      BY <1>2, <1>4, NothingGood DEF GoodPage
    <2>. QED
      BY <1>2, <1>4, <2>1 DEF GoodPage
  <1>6. /\ GoodPage(ui)' /\ Polling' /\ Reading'
        /\ ui'.text = next.text /\ ui'.retry = next.retry /\ ui'.sending = next.sending
    BY <1>1, <1>5, EffectsGood
  <1>7. FreshDraft(ui)'
    BY <1>1, <1>3, <1>4, <1>6 DEF FreshDraft, Begun
  <1>8. Rows' /\ Wires' /\ Surroundings'
    <2>1. moves' \in 0 .. MaxMoves /\ netFaults' \in 0 .. MaxNetFaults
      BY <1>1, ClientConstants DEF ClientInv, Surroundings
    <2>. QED
      BY <1>1, <2>1, PageChanges
  <1>. QED
    BY <1>6, <1>7, <1>8 DEF ClientInv, Shows

(* Steps that leave what is read alone keep the reading. *)
LEMMA ReadingStays ==
  ASSUME ClientInv, Onward, loads' = loads
  PROVE  Reading'
  BY GoodStays DEF ClientInv, Reading

LEMMA PollingStays ==
  ASSUME ClientInv, Onward, UNCHANGED <<poll, frame>>
  PROVE  Polling'
  BY GoodStays DEF ClientInv, Polling

(* Another agent's thread and back: the feed is empty, the rest stays. *)
LEMMA SwitchStep ==
  ASSUME ClientInv, SwitchAgent
  PROVE  ClientInv'
  <1>. DEFINE page == [ui EXCEPT !.going = ui.open]
              next == Restart(page)
  <1>1. /\ ui' = next /\ loads' = loads \cup FirstRead(ui.open, next.gen)
        /\ moves < MaxMoves /\ moves' = moves + 1
        /\ UNCHANGED <<turns, wire, late, poll, frame, setup, netFaults>>
    BY DEF SwitchAgent
  <1>2. ui \in Page /\ GoodPage(ui) /\ FreshDraft(ui)
    BY DEF ClientInv, Shows, GoodPage
  <1>3. /\ page \in Page /\ page.snap = ui.snap /\ page.open = ui.open /\ page.job = ui.job
        /\ page.sending = ui.sending /\ page.text = ui.text /\ page.retry = ui.retry
    BY <1>2 DEF Page
  <1>. HIDE DEF page
  <1>4. /\ next \in Page /\ next.snap = ui.snap /\ next.open = ui.open /\ next.job = ui.job
        /\ next.sending = ui.sending /\ next.text = ui.text /\ next.retry = ui.retry
        /\ next.screen = Empty /\ next.gen \in Nat
    BY <1>3, Restarted
  <1>. HIDE DEF next
  <1>5. GoodPage(ui') /\ FreshDraft(ui')
    BY <1>1, <1>2, <1>4, NothingGood DEF GoodPage, FreshDraft
  <1>6. Shows'
    BY <1>1, <1>5, GoodStays, StillOnward DEF Shows, FreshDraft, Begun
  <1>7. Reading'
    <2>1. ui.open \in Addresses
      BY <1>2 DEF Page
    <2>2. \A l \in FirstRead(ui.open, next.gen) : GoodRead(l)
      BY <1>4, <2>1, ReadsGood
    <2>. QED
      BY <1>1, <2>2, ReadingGrows, StillOnward
  <1>8. Rows' /\ Wires' /\ Surroundings'
    <2>1. moves' \in 0 .. MaxMoves /\ netFaults' \in 0 .. MaxNetFaults
      BY <1>1, ClientConstants DEF ClientInv, Surroundings
    <2>. QED
      BY <1>1, <2>1, PageChanges
  <1>. QED
    BY <1>1, <1>6, <1>7, <1>8, PollingStays, StillOnward DEF ClientInv

LEMMA RouteStep ==
  ASSUME ClientInv, RouteCommits
  PROVE  ClientInv'
  <1>1. ui.going \in Addresses
    BY DEF ClientInv, Shows, GoodPage, Page
  <1>2. UNCHANGED <<turns, wire, late, setup, moves, netFaults>> /\ ui' = Mounted(ui.going)
        /\ frame' = NoPage /\ poll' \in {NoPoll, Ask} /\ loads' = FirstRead(ui.going, 0)
    BY DEF RouteCommits
  <1>3. GoodPage(ui') /\ FreshDraft(ui')
    BY <1>1, <1>2, NothingGood
  <1>4. Shows'
    BY <1>2, <1>3, GoodStays, StillOnward DEF Shows, FreshDraft, Begun
  <1>5. Rows' /\ Wires' /\ Surroundings'
    BY <1>2, PageChanges DEF ClientInv, Surroundings
  <1>6. Reading'
    <2>1. \A l \in loads' : GoodRead(l)
      BY <1>1, <1>2, ReadsGood
    <2>. QED
      BY <1>2, <2>1, GoodStays, StillOnward DEF Reading
  <1>7. Polling'
    <2>1. GoodJobPage(poll'.page) /\ GoodJobPage(frame')
      BY <1>2, NothingGood
    <2>2. GoodJobPage(poll.page)' /\ GoodJobPage(frame)'
      BY <1>2, <2>1, GoodStays, StillOnward
    <2>. QED
      BY <1>2, <2>2, NothingGood DEF Polling
  <1>. QED
    BY <1>4, <1>5, <1>6, <1>7 DEF ClientInv

LEMMA EditStep ==
  ASSUME ClientInv, EditDraft
  PROVE  ClientInv'
  <1>1. /\ ui' = [ui EXCEPT !.text = NextPrompt, !.retry = NoId]
        /\ UNCHANGED <<turns, wire, late, loads, poll, frame, setup, moves, netFaults>>
    BY DEF EditDraft
  <1>2. ui \in Page /\ GoodPage(ui)
    BY DEF ClientInv, Shows, GoodPage
  <1>3. NextPrompt \in Nat /\ \A i \in Turns : turns[i].prompt # NextPrompt
    BY PromptIsNew DEF ClientInv, Rows
  <1>4. ui' \in Page
    BY <1>1, <1>2, <1>3 DEF Page
  <1>5. /\ ui'.open = ui.open /\ ui'.snap = ui.snap
        /\ ui'.screen = ui.screen /\ ui'.sending = ui.sending /\ ui'.job = ui.job
        /\ ui'.text = NextPrompt /\ ui'.retry = NoId
    BY <1>1, <1>2 DEF Page
  <1>6. GoodPage(ui')
    BY <1>2, <1>4, <1>5 DEF GoodPage
  <1>7. Shows'
    BY <1>1, <1>3, <1>5, <1>6, GoodStays, StillOnward DEF Shows, FreshDraft, Begun
  <1>8. Rows' /\ Wires' /\ Surroundings'
    BY <1>1, PageChanges DEF ClientInv, Surroundings
  <1>. QED
    BY <1>1, <1>5, <1>7, <1>8, ReadingStays, PollingStays, StillOnward DEF ClientInv

(* What is sent is a submission that was begun, or a new prompt. *)
LEMMA SendStep ==
  ASSUME ClientInv, NEW i \in Turns, NEW prompt \in Nat, Send(i, prompt),
         Begun(i) \/ prompt = Suggestion \/ \A k \in Turns : Begun(k) => turns[k].prompt # prompt
  PROVE  ClientInv'
  <1>. DEFINE made == [turns[i] EXCEPT !.prompt = prompt, !.asked = ui.open, !.status = "made"]
  <1>1. /\ wire[i] = "idle" /\ wire' = [wire EXCEPT ![i] = "sent"]
        /\ turns' = IF turns[i].status = "none" THEN [turns EXCEPT ![i] = made] ELSE turns
        /\ ui' = [ui EXCEPT !.sending = i, !.error = FALSE]
        /\ UNCHANGED <<late, loads, poll, frame, setup, moves, netFaults>>
    BY DEF Send
  <1>2. ui \in Page /\ GoodPage(ui)
    BY DEF ClientInv, Shows, GoodPage
  <1>4. /\ made \in TurnRow /\ made.prompt = prompt /\ made.status = "made"
        /\ made.job = turns[i].job /\ made.conv = turns[i].conv
    <2>1. turns[i] \in TurnRow /\ ui.open \in Addresses
      BY <1>2 DEF ClientInv, Rows, Page
    <2>. QED
      BY <2>1 DEF TurnRow
  <1>5. /\ turns' \in [Turns -> TurnRow] /\ \A k \in Turns : k # i => turns'[k] = turns[k]
        /\ turns[i].status = "none" => turns'[i] = made
        /\ turns[i].status # "none" => turns'[i] = turns[i]
    BY <1>1, <1>4 DEF ClientInv, Rows
  <1>. HIDE DEF made
  <1>6. Onward /\ Begun(i)'
    BY <1>4, <1>5 DEF Onward, Begun, Started
  <1>7. Rows'
    <2>1. RowsInOrder'
      BY <1>4, <1>5 DEF ClientInv, Rows, RowsInOrder, Started
    <2>2. DistinctPrompts'
      <3>1. CASE turns[i].status # "none"
        BY <1>5, <3>1 DEF ClientInv, Rows, DistinctPrompts, Begun
      <3>2. CASE turns[i].status = "none"
        <4>1. prompt = Suggestion \/ \A k \in Turns : Begun(k) => turns[k].prompt # prompt
          BY <3>2 DEF Begun
        <4>. QED
          BY <1>4, <1>5, <3>2, <4>1 DEF ClientInv, Rows, DistinctPrompts, Begun
      <3>. QED
        BY <3>1, <3>2
    <2>. QED
      BY <1>5, <2>1, <2>2 DEF Rows
  <1>8. Wires'
    <2>1. wire' \in [Turns -> {"idle", "sent", "handled", "replayed"}] /\ late' \subseteq Turns
      BY <1>1 DEF ClientInv, Wires
    <2>2. \A k \in Turns : wire'[k] = IF k = i THEN "sent" ELSE wire[k]
      BY <1>1 DEF ClientInv, Wires
    <2>3. SentInOrder'
      BY <1>1, <1>6, <2>2 DEF ClientInv, Wires, SentInOrder, Onward
    <2>. QED
      BY <2>1, <2>3 DEF Wires
  <1>9. /\ ui' \in Page /\ ui'.open = ui.open
        /\ ui'.snap = ui.snap /\ ui'.screen = ui.screen /\ ui'.sending = i /\ ui'.job = ui.job
        /\ ui'.text = ui.text /\ ui'.retry = ui.retry
    BY <1>1, <1>2 DEF Page
  <1>10. Shows'
    <2>1. GoodPage(ui)'
      BY <1>2, <1>6, <1>9, GoodStays DEF GoodPage
    <2>2. FreshDraft(ui)'
      BY <1>9, Identity DEF FreshDraft
    <2>. QED
      BY <2>1, <2>2 DEF Shows
  <1>. QED
    BY <1>1, <1>6, <1>7, <1>8, <1>10, ReadingStays, PollingStays DEF ClientInv, Surroundings

LEMMA SubmitStep ==
  ASSUME ClientInv, NEW i \in Turns, Submit(i) \/ SubmitPrompt(i)
  PROVE  ClientInv'
  <1>1. ui \in Page /\ GoodPage(ui) /\ FreshDraft(ui)
    BY DEF ClientInv, Shows, GoodPage
  <1>2. CASE SubmitPrompt(i)
    BY <1>2, SendStep DEF SubmitPrompt, Suggestion
  <1>3. CASE Submit(i)
    <2>1. Send(i, ui.text) /\ ui.text \in Nat /\ ui.sending = NoId
      BY <1>1, <1>3 DEF Submit, NotSubmitting, Page
    <2>2. CASE ui.retry # NoId
      <3>1. Begun(i)
        BY <1>1, <1>3, <2>2 DEF Submit, Attempt, GoodPage
      <3>. QED
        BY <2>1, <3>1, SendStep
    <2>3. CASE ui.retry = NoId
      <3>1. \A k \in Turns : Begun(k) => turns[k].prompt # ui.text
        BY <1>1, <1>3, <2>1, <2>3 DEF Submit, FreshDraft
      <3>. QED
        BY <2>1, <3>1, SendStep
    <2>. QED
      BY <2>2, <2>3
  <1>. QED
    BY <1>2, <1>3

(* Rows change under a page that stays as it is. *)
LEMMA RowsChange ==
  ASSUME ClientInv, Onward, turns' \in [Turns -> TurnRow], RowsInOrder',
         \A i \in Turns : Begun(i)' => Begun(i),
         Wires', UNCHANGED <<ui, loads, poll, frame, setup, moves, netFaults>>
  PROVE  ClientInv'
  <1>1. Rows'
    BY DEF ClientInv, Rows, DistinctPrompts, Onward
  <1>2. Shows'
    BY GoodStays DEF ClientInv, Shows, FreshDraft, Onward
  <1>3. Surroundings'
    BY DEF ClientInv, Surroundings
  <1>. QED
    BY <1>1, <1>2, <1>3, ReadingStays, PollingStays DEF ClientInv

(* Of the rows one is another. *)
LEMMA RowChanges ==
  ASSUME ClientInv, NEW i \in Turns, NEW row \in TurnRow, turns' = [turns EXCEPT ![i] = row],
         Begun(i), row.status # "none", row.prompt = turns[i].prompt,
         Started(i) => row.status \in {"in_progress", "final"} /\ row.conv = turns[i].conv,
         row.job => row.status \in {"in_progress", "final"},
         row.status \in {"in_progress", "final"} => row.conv \in Conversations
  PROVE  /\ turns' \in [Turns -> TurnRow] /\ RowsInOrder' /\ Onward
         /\ \A k \in Turns : Begun(k)' => Begun(k)
         /\ turns'[i] = row /\ \A k \in Turns : k # i => turns'[k] = turns[k]
  <1>1. /\ turns' \in [Turns -> TurnRow] /\ turns'[i] = row
        /\ \A k \in Turns : k # i => turns'[k] = turns[k]
    BY DEF ClientInv, Rows
  <1>2. RowsInOrder'
    BY <1>1 DEF ClientInv, Rows, RowsInOrder, Started
  <1>3. Onward /\ \A k \in Turns : Begun(k)' => Begun(k)
    BY <1>1 DEF Onward, Begun, Started
  <1>. QED
    BY <1>1, <1>2, <1>3

LEMMA StartedTurn ==
  ASSUME ClientInv, NEW i \in Turns, Begun(i), StartTurn(i)
  PROVE  /\ turns' \in [Turns -> TurnRow] /\ RowsInOrder' /\ Onward /\ Started(i)'
         /\ \A k \in Turns : Begun(k)' => Begun(k)
  <1>1. CASE turns[i].status # "made"
    <2>1. turns' = turns
      BY <1>1 DEF StartTurn
    <2>2. turns[i].status \in {"in_progress", "final"}
      BY <1>1 DEF ClientInv, Rows, TurnRow, Begun
    <2>. QED
      BY <2>1, <2>2, StillOnward DEF ClientInv, Rows, RowsInOrder, Begun, Started
  <1>2. CASE turns[i].status = "made"
    <2>. DEFINE born == 1 + Cardinality({k \in Turns : turns[k].born > 0})
                begun(c) == [turns[i] EXCEPT !.status = "in_progress", !.conv = c, !.job = setup.durable,
                                             !.born = born]
    <2>1. PICK c \in Conversations : turns' = [turns EXCEPT ![i] = begun(c)]
      BY <1>2, ZenonT(60) DEF StartTurn
    <2>2. born \in Nat
      <3>1. IsFiniteSet({k \in Turns : turns[k].born > 0})
        BY Identity, FS_Subset
      <3>. QED
        BY <3>1, FS_CardinalityType
    <2>. HIDE DEF born
    <2>3. turns[i] \in TurnRow /\ setup.durable \in BOOLEAN /\ c \in Addresses
      BY DEF ClientInv, Rows, Surroundings, Addresses
    <2>4. begun(c) \in TurnRow
      BY <2>2, <2>3 DEF TurnRow
    <2>5. /\ begun(c).status = "in_progress" /\ begun(c).prompt = turns[i].prompt
          /\ begun(c).conv = c
      BY <2>3 DEF TurnRow
    <2>6. ~Started(i)
      BY <1>2 DEF Started
    <2>. HIDE DEF begun
    <2>7. /\ turns' \in [Turns -> TurnRow] /\ RowsInOrder' /\ Onward
          /\ \A k \in Turns : Begun(k)' => Begun(k)
          /\ turns'[i] = begun(c)
      BY <2>1, <2>4, <2>5, <2>6, RowChanges
    <2>. QED
      BY <2>5, <2>7 DEF Started
  <1>. QED
    BY <1>1, <1>2

LEMMA DeliverStep ==
  ASSUME ClientInv, NEW i \in Turns, DeliverAgentTurn(i)
  PROVE  ClientInv'
  <1>1. StartTurn(i) /\ UNCHANGED <<ui, loads, poll, frame, setup, moves, netFaults>>
    BY DEF DeliverAgentTurn
  <1>2. Begun(i)
    BY DEF DeliverAgentTurn, ClientInv, Wires, SentInOrder
  <1>3. /\ turns' \in [Turns -> TurnRow] /\ RowsInOrder' /\ Onward /\ Started(i)'
        /\ \A k \in Turns : Begun(k)' => Begun(k)
    BY <1>1, <1>2, StartedTurn
  <1>4. Wires'
    <2>1. /\ wire' \in [Turns -> {"idle", "sent", "handled", "replayed"}] /\ late' \subseteq late
          /\ \A k \in Turns : k # i => wire'[k] = wire[k]
      BY DEF DeliverAgentTurn, ClientInv, Wires
    <2>2. Begun(i)'
      BY <1>3 DEF Begun, Started
    <2>3. SentInOrder'
      BY <1>3, <2>1, <2>2 DEF ClientInv, Wires, SentInOrder, Onward
    <2>. QED
      BY <2>1, <2>3 DEF ClientInv, Wires
  <1>. QED
    BY <1>1, <1>3, <1>4, RowsChange

LEMMA DatesTyped ==
  ASSUME ClientInv, NEW i \in Turns
  PROVE  Dates(i) \subseteq Nat
  BY DEF Dates

LEMMA ServerStep ==
  ASSUME ClientInv, NEW i \in Turns, JobWorks(i) \/ TurnEndsThere(i)
  PROVE  ClientInv'
  <1>1. UNCHANGED <<wire, late, ui, loads, poll, frame, setup, moves, netFaults>>
        /\ turns[i].status = "in_progress" /\ Started(i) /\ Begun(i)
    BY DEF JobWorks, TurnEndsThere, Started, Begun
  <1>2. turns[i] \in TurnRow /\ turns[i].conv \in Conversations
    BY <1>1 DEF ClientInv, Rows, RowsInOrder
  <1>3. /\ turns' \in [Turns -> TurnRow] /\ RowsInOrder' /\ Onward
        /\ \A k \in Turns : Begun(k)' => Begun(k)
    <2>1. CASE JobWorks(i)
      <3>. DEFINE worked(t) == [turns[i] EXCEPT !.logged = turns[i].logged + 1, !.time = t]
      <3>1. PICK t \in Dates(i) : turns' = [turns EXCEPT ![i] = worked(t)]
        BY <2>1 DEF JobWorks
      <3>2. t \in Nat /\ turns[i].logged + 1 \in 0 .. MaxLogged
        BY <1>2, <2>1, <3>1, DatesTyped, ClientConstants DEF TurnRow, JobWorks
      <3>3. worked(t) \in TurnRow
        BY <1>2, <3>2 DEF TurnRow
      <3>4. /\ worked(t).status = "in_progress" /\ worked(t).prompt = turns[i].prompt
            /\ worked(t).conv = turns[i].conv
        BY <1>1, <1>2 DEF TurnRow
      <3>. HIDE DEF worked
      <3>. QED
        BY <1>1, <1>2, <3>1, <3>3, <3>4, RowChanges
    <2>2. CASE TurnEndsThere(i)
      <3>1. PICK t \in Dates(i) : turns' = [turns EXCEPT ![i] = Final(turns[i], t)]
        BY <2>2 DEF TurnEndsThere
      <3>2. t \in Nat
        BY <3>1, DatesTyped
      <3>3. Final(turns[i], t) \in TurnRow
        BY <1>2, <3>2 DEF TurnRow, Final
      <3>4. /\ Final(turns[i], t).status = "final" /\ Final(turns[i], t).prompt = turns[i].prompt
            /\ Final(turns[i], t).conv = turns[i].conv
        BY <1>2 DEF TurnRow, Final
      <3>. QED
        BY <1>1, <1>2, <3>1, <3>3, <3>4, RowChanges
    <2>. QED
      BY <2>1, <2>2
  <1>4. Wires'
    BY <1>1, <1>3 DEF ClientInv, Wires, SentInOrder, Onward
  <1>. QED
    BY <1>1, <1>3, <1>4, RowsChange

LEMMA AcceptedStep ==
  ASSUME ClientInv, NEW i \in Turns, Accepted(i)
  PROVE  ClientInv'
  <1>. DEFINE c == turns[i].conv
              moved == [ui EXCEPT !.going = IF ui.at = New THEN c ELSE ui.going]
              shown == [Activate(moved, c) EXCEPT !.retry = NoId, !.text = 0, !.sending = NoId,
                                                  !.job = IF turns[i].job THEN i ELSE NoId]
              next == IF ui.sending # i THEN moved ELSE shown
  <1>1. /\ Answerable(i) /\ wire' = [wire EXCEPT ![i] = "idle"] /\ Effects(next)
        /\ UNCHANGED <<turns, late, setup, moves, netFaults>>
    BY DEF Accepted
  <1>2. Started(i)
    BY <1>1 DEF Answerable, ClientInv, Wires, SentInOrder
  <1>3. ui \in Page /\ GoodPage(ui) /\ FreshDraft(ui) /\ c \in Addresses /\ turns[i].job \in BOOLEAN
    BY DEF ClientInv, Shows, GoodPage, Rows, TurnRow
  <1>. HIDE DEF c
  <1>4. /\ moved \in Page /\ moved.open = ui.open /\ moved.text = ui.text
        /\ moved.retry = ui.retry /\ moved.sending = ui.sending /\ moved.job = ui.job
        /\ moved.snap = ui.snap /\ moved.screen = ui.screen
    <2>1. (IF ui.at = New THEN c ELSE ui.going) \in Addresses
      BY <1>3 DEF Page
    <2>2. moved \in Page
      BY <1>3, <2>1 DEF Page
    <2>. QED
      BY <1>3, <2>2 DEF Page
  <1>. HIDE DEF moved
  <1>5. /\ Activate(moved, c) \in Page /\ Activate(moved, c).snap = ui.snap /\ Activate(moved, c).open = c
        /\ Activate(moved, c).screen = IF c = ui.open THEN ui.screen ELSE Empty
    BY <1>3, <1>4, Activated
  <1>6. /\ shown \in Page /\ shown.open = c /\ shown.snap = ui.snap
        /\ shown.screen = (IF c = ui.open THEN ui.screen ELSE Empty)
        /\ shown.retry = NoId /\ shown.text = 0 /\ shown.sending = NoId /\ shown.job \in {i, NoId}
    <2>. DEFINE page == Activate(moved, c)
                job == IF turns[i].job THEN i ELSE NoId
    <2>1. page \in Page /\ job \in {i, NoId}
      BY <1>5
    <2>2. shown = [page EXCEPT !.retry = NoId, !.text = 0, !.sending = NoId, !.job = job]
      OBVIOUS
    <2>. HIDE DEF page, shown, job
    <2>3. shown \in Page
      BY <2>1, <2>2 DEF Page
    <2>4. /\ shown.open = page.open /\ shown.snap = page.snap /\ shown.screen = page.screen
          /\ shown.retry = NoId /\ shown.text = 0 /\ shown.sending = NoId /\ shown.job \in {i, NoId}
      BY <2>1, <2>2 DEF Page
    <2>. QED
      BY <1>5, <2>3, <2>4 DEF page
  <1>. HIDE DEF shown
  <1>7. GoodPage(next) /\ FreshDraft(next)
    <2>1. CASE ui.sending # i
      BY <1>3, <1>4, <2>1 DEF GoodPage, FreshDraft
    <2>2. CASE ui.sending = i
      <3>1. OfConversation(shown.screen, shown.open)
        BY <1>3, <1>6, NothingGood DEF GoodPage
      <3>. QED
        BY <1>2, <1>3, <1>6, <2>2, <3>1 DEF GoodPage, FreshDraft
    <2>. QED
      BY <2>1, <2>2
  <1>. HIDE DEF next
  <1>8. /\ GoodPage(ui)' /\ Polling' /\ Reading'
        /\ ui'.text = next.text /\ ui'.retry = next.retry /\ ui'.sending = next.sending
    BY <1>1, <1>7, EffectsGood
  <1>9. FreshDraft(ui)'
    BY <1>1, <1>7, <1>8 DEF FreshDraft, Begun
  <1>10. Rows' /\ Surroundings'
    BY <1>1, PageChanges DEF ClientInv, Surroundings
  <1>11. Wires'
    BY <1>1 DEF ClientInv, Wires, SentInOrder, Begun, Started
  <1>. QED
    BY <1>8, <1>9, <1>10, <1>11 DEF ClientInv, Shows

LEMMA FailsStep ==
  ASSUME ClientInv, NEW i \in Turns, SubmitFails(i)
  PROVE  ClientInv'
  <1>1. /\ wire[i] # "idle" /\ wire' = [wire EXCEPT ![i] = "idle"] /\ late' \in {late, late \cup {i}}
        /\ netFaults < MaxNetFaults /\ netFaults' = netFaults + 1
        /\ UNCHANGED <<turns, loads, poll, frame, setup, moves>>
    BY DEF SubmitFails
  <1>2. Begun(i) /\ ui \in Page /\ GoodPage(ui) /\ FreshDraft(ui)
    BY <1>1 DEF ClientInv, Wires, SentInOrder, Shows, GoodPage
  <1>3. Rows' /\ Surroundings'
    <2>1. moves' \in 0 .. MaxMoves /\ netFaults' \in 0 .. MaxNetFaults
      BY <1>1, ClientConstants DEF ClientInv, Surroundings
    <2>. QED
      BY <1>1, <2>1, PageChanges
  <1>4. Wires'
    BY <1>1, <1>2 DEF ClientInv, Wires, SentInOrder, Begun, Started
  <1>5. CASE ui' = ui
    <2>1. Shows'
      BY <1>1, <1>2, <1>5, GoodStays, StillOnward DEF Shows, FreshDraft, Begun
    <2>. QED
      BY <1>1, <1>3, <1>4, <1>5, <2>1, ReadingStays, PollingStays, StillOnward DEF ClientInv
  <1>6. CASE ui' = [ui EXCEPT !.sending = NoId, !.retry = i, !.error = TRUE]
    <2>1. /\ ui' \in Page /\ ui'.open = ui.open
          /\ ui'.snap = ui.snap /\ ui'.screen = ui.screen /\ ui'.sending = NoId /\ ui'.job = ui.job
          /\ ui'.text = ui.text /\ ui'.retry = i
      BY <1>2, <1>6 DEF Page
    <2>2. GoodPage(ui')
      BY <1>2, <2>1 DEF GoodPage
    <2>3. Shows'
      BY <1>1, <2>1, <2>2, GoodStays, StillOnward, Identity DEF Shows, FreshDraft
    <2>. QED
      BY <1>1, <1>3, <1>4, <2>3, ReadingStays, PollingStays, StillOnward DEF ClientInv
  <1>. QED
    BY <1>5, <1>6 DEF SubmitFails

(* A page of a job that has started. *)
LEMMA JobPageGood ==
  ASSUME ClientInv, NEW i \in Turns, Started(i), NEW last \in Nat
  PROVE  GoodJobPage(JobPage(i, last)) /\ JobPage(i, last) # NoPage /\ JobPage(i, last).job = i
         /\ JobPage(i, last).status = turns[i].status
  <1>1. turns[i] \in TurnRow /\ turns[i].status \in {"in_progress", "final"}
    BY DEF ClientInv, Rows, Started
  <1>2. JobPage(i, last) \in JobPages
    BY <1>1 DEF JobPage, JobPages, TurnRow
  <1>3. JobPage(i, last).job = i /\ JobPage(i, last).status = turns[i].status
    BY DEF JobPage
  <1>4. JobPage(i, last) # NoPage
    BY <1>1, <1>3 DEF NoPage
  <1>. QED
    BY <1>2, <1>3, <1>4 DEF GoodJobPage

LEMMA EventsCounted ==
  ASSUME ClientInv, NEW i \in Turns
  PROVE  turns[i].logged \in Nat /\ FirstEvents(i) \in Nat
  <1>1. turns[i].logged \in Nat /\ PageSize \in Nat
    BY ClientConstants DEF ClientInv, Rows, TurnRow
  <1>2. turns[i].logged \in Int /\ PageSize \in Int
    BY <1>1
  <1>3. Min({turns[i].logged, PageSize}) \in {turns[i].logged, PageSize}
    BY <1>2, OfTwo, Zenon
  <1>. QED
    BY <1>1, <1>3 DEF FirstEvents

(* Of two pages one is kept; what it says of the job is what one of them   *)
(* says, and an ended job stays ended.                                     *)
LEMMA SnapshotGood ==
  ASSUME NEW current, NEW new, GoodJobPage(current), GoodJobPage(new), new # NoPage
  PROVE  /\ GoodJobPage(NewerSnapshot(current, new))
         /\ current.status = "final" /\ NewerSnapshot(current, new).job = current.job
               => NewerSnapshot(current, new).status = "final"
  <1>1. new \in [job : Turns, status : {"in_progress", "final"}, time : Nat, last : Nat]
    BY DEF GoodJobPage, JobPages
  <1>2. new.job \in Turns /\ new.job # NoId /\ Started(new.job)
    BY <1>1, Identity DEF GoodJobPage
  <1>3. current.last \in Nat
    BY DEF GoodJobPage, JobPages, NoPage
  <1>. DEFINE last == IF current.job = new.job THEN Max({new.last, current.last}) ELSE new.last
              merged == [new EXCEPT !.last = last]
  <1>4. last \in Nat
    <2>1. new.last \in Nat /\ new.last \in Int /\ current.last \in Int
      BY <1>1, <1>3
    <2>2. Max({new.last, current.last}) \in {new.last, current.last}
      BY <2>1, OfTwo, Zenon
    <2>. QED
      BY <2>1, <2>2, <1>3
  <1>5. Merged(current, new) = merged
    BY DEF Merged
  <1>. HIDE DEF last
  <1>6. /\ merged \in [job : Turns, status : {"in_progress", "final"}, time : Nat, last : Nat]
        /\ merged.job = new.job /\ merged.status = new.status
    BY <1>1, <1>4
  <1>. HIDE DEF merged
  <1>7. GoodJobPage(merged)
    BY <1>2, <1>6 DEF GoodJobPage, JobPages
  <1>8. /\ NewerSnapshot(current, new) \in {current, merged}
        /\ NewerSnapshot(current, new) = merged => ~Overtaken(current, new) \/ merged = current
    BY <1>5 DEF NewerSnapshot
  <1>9. current.status = "final" /\ merged.job = current.job /\ ~Overtaken(current, new)
           => merged.status = "final"
    BY <1>1, <1>6 DEF Overtaken
  <1>. QED
    BY <1>7, <1>8, <1>9

(* Steps of the feed that leave the page as it is. *)
LEMMA FeedStep ==
  ASSUME ClientInv, NEW more, loads' \subseteq loads \cup more, \A l \in more : GoodRead(l),
         UNCHANGED <<turns, wire, late, ui, poll, frame, setup, moves>>,
         netFaults' \in 0 .. MaxNetFaults
  PROVE  ClientInv'
  <1>1. Shows'
    BY GoodStays, StillOnward DEF ClientInv, Shows, FreshDraft, Begun
  <1>2. Rows' /\ Wires' /\ Surroundings'
    BY PageChanges DEF ClientInv, Surroundings
  <1>. QED
    BY <1>1, <1>2, ReadingGrows, PollingStays, StillOnward DEF ClientInv

LEMMA PollFeedStep ==
  ASSUME ClientInv, PollFeed
  PROVE  ClientInv'
  <1>1. /\ ui.open # New /\ loads' = loads \cup {FeedRead(ui.open, ui.gen)}
        /\ UNCHANGED <<turns, wire, late, ui, poll, frame, setup, moves, netFaults>>
    BY DEF PollFeed, FeedPolls
  <1>2. ui.open \in Conversations /\ ui.gen \in Nat
    BY <1>1 DEF ClientInv, Shows, GoodPage, Page, Addresses
  <1>3. GoodRead(FeedRead(ui.open, ui.gen))
    BY <1>2, ReadsGood
  <1>. DEFINE more == {FeedRead(ui.open, ui.gen)}
  <1>4. loads' \subseteq loads \cup more /\ \A l \in more : GoodRead(l)
    BY <1>1, <1>3
  <1>5. netFaults' \in 0 .. MaxNetFaults
    BY <1>1 DEF ClientInv, Surroundings
  <1>6. UNCHANGED <<turns, wire, late, ui, poll, frame, setup, moves>>
    BY <1>1
  <1>. HIDE DEF more
  <1>. QED
    BY <1>4, <1>5, <1>6, FeedStep

LEMMA ServeStep ==
  ASSUME ClientInv, NEW l \in loads, ServeFeed(l)
  PROVE  ClientInv'
  <1>. DEFINE told == [i \in Turns |-> IF Started(i) /\ turns[i].conv = l.conv
                                       THEN turns[i].status ELSE "absent"]
              served == [l EXCEPT !.read = TRUE, !.seen = told]
  <1>1. loads' = (loads \ {l}) \cup {served}
        /\ UNCHANGED <<turns, wire, late, ui, poll, frame, setup, moves, netFaults>>
    BY DEF ServeFeed
  <1>2. l \in FeedReads
    BY DEF ClientInv, Reading, GoodRead
  <1>3. told \in [Turns -> Messages] /\ OfConversation(told, l.conv)
    BY DEF Started, Messages, OfConversation
  <1>. HIDE DEF told
  <1>4. served \in FeedReads /\ served.seen = told /\ served.conv = l.conv
    BY <1>2, <1>3 DEF FeedReads
  <1>. HIDE DEF served
  <1>. DEFINE more == {served}
  <1>5. loads' \subseteq loads \cup more /\ \A m \in more : GoodRead(m)
    BY <1>1, <1>3, <1>4 DEF GoodRead
  <1>6. netFaults' \in 0 .. MaxNetFaults
    BY <1>1 DEF ClientInv, Surroundings
  <1>7. UNCHANGED <<turns, wire, late, ui, poll, frame, setup, moves>>
    BY <1>1
  <1>. HIDE DEF more
  <1>. QED
    BY <1>5, <1>6, <1>7, FeedStep

LEMMA ArriveStep ==
  ASSUME ClientInv, NEW l \in loads, FeedArrives(l)
  PROVE  ClientInv'
  <1>1. loads' = loads \ {l} /\ UNCHANGED <<turns, wire, late, poll, frame, setup, moves>>
    BY DEF FeedArrives
  <1>2. ui \in Page /\ GoodPage(ui) /\ FreshDraft(ui) /\ GoodRead(l)
    BY DEF ClientInv, Shows, GoodPage, Reading
  <1>3. netFaults' \in 0 .. MaxNetFaults
    BY ClientConstants DEF FeedArrives, ClientInv, Surroundings
  <1>4. CASE ui' = ui
    <2>. DEFINE more == {}
    <2>1. loads' \subseteq loads \cup more /\ \A m \in more : GoodRead(m)
      BY <1>1
    <2>2. UNCHANGED <<turns, wire, late, ui, poll, frame, setup, moves>>
      BY <1>1, <1>4
    <2>. HIDE DEF more
    <2>. QED
      BY <1>3, <2>1, <2>2, FeedStep
  <1>5. CASE CurrentFeed(l) /\ ui' = [ui EXCEPT !.screen = [i \in Turns |-> MergeFeed(ui.screen[i], l.seen[i])]]
    <2>. DEFINE merged == [i \in Turns |-> MergeFeed(ui.screen[i], l.seen[i])]
    <2>1. ui.screen \in [Turns -> Messages] /\ l.seen \in [Turns -> Messages]
      BY <1>2 DEF Page, GoodRead, FeedReads
    <2>2. \A i \in Turns : merged[i] \in {ui.screen[i], l.seen[i]}
      BY DEF MergeFeed
    <2>3. merged \in [Turns -> Messages]
      BY <2>1, <2>2
    <2>4. OfConversation(merged, ui.open)
      BY <1>2, <1>5, <2>2 DEF GoodPage, GoodRead, OfConversation, CurrentFeed
    <2>5. ui' = [ui EXCEPT !.screen = merged]
      BY <1>5
    <2>. HIDE DEF merged
    <2>6. /\ ui' \in Page /\ ui'.open = ui.open /\ ui'.snap = ui.snap
          /\ ui'.sending = ui.sending /\ ui'.job = ui.job /\ ui'.text = ui.text
          /\ ui'.retry = ui.retry /\ ui'.screen = merged
      BY <1>2, <2>3, <2>5 DEF Page
    <2>7. GoodPage(ui') /\ FreshDraft(ui')
      BY <1>2, <2>4, <2>6 DEF GoodPage, FreshDraft
    <2>8. Shows'
      BY <1>1, <2>7, GoodStays, StillOnward DEF Shows, FreshDraft, Begun
    <2>9. Reading'
      BY <1>1, GoodStays, StillOnward DEF ClientInv, Reading
    <2>10. Rows' /\ Wires' /\ Surroundings'
      BY <1>1, <1>3, PageChanges DEF ClientInv, Surroundings
    <2>. QED
      BY <1>1, <2>8, <2>9, <2>10, PollingStays, StillOnward DEF ClientInv
  <1>. QED
    BY <1>4, <1>5 DEF FeedArrives

(* Only what is known of the job changes. *)
LEMMA JobKnown ==
  ASSUME ClientInv, UNCHANGED <<turns, wire, late, loads, setup, moves>>,
         netFaults' \in 0 .. MaxNetFaults,
         NEW snap, GoodJobPage(snap), ui' = [ui EXCEPT !.snap = snap],
         poll' \in [leg : {"off", "ask", "asked"}, page : JobPages],
         GoodJobPage(poll'.page), GoodJobPage(frame')
  PROVE  ClientInv'
  <1>1. ui \in Page /\ GoodPage(ui) /\ FreshDraft(ui) /\ snap \in JobPages
    BY DEF ClientInv, Shows, GoodPage, GoodJobPage
  <1>2. /\ ui' \in Page /\ ui'.open = ui.open /\ ui'.snap = snap
        /\ ui'.sending = ui.sending /\ ui'.job = ui.job /\ ui'.text = ui.text
        /\ ui'.retry = ui.retry /\ ui'.screen = ui.screen
    BY <1>1 DEF Page
  <1>3. GoodPage(ui')
    BY <1>1, <1>2 DEF GoodPage
  <1>4. Shows'
    BY <1>1, <1>2, <1>3, GoodStays, StillOnward DEF Shows, FreshDraft, Begun
  <1>5. Polling'
    <2>1. GoodJobPage(poll.page)' /\ GoodJobPage(frame)'
      BY GoodStays, StillOnward
    <2>. QED
      BY <2>1 DEF Polling
  <1>6. Rows' /\ Wires' /\ Surroundings'
    BY PageChanges DEF ClientInv, Surroundings
  <1>. QED
    BY <1>2, <1>4, <1>5, <1>6, ReadingStays, StillOnward DEF ClientInv

LEMMA SnapUnchanged ==
  ASSUME ui \in Page
  PROVE  ui = [ui EXCEPT !.snap = ui.snap]
  BY DEF Page

LEMMA PollStep ==
  ASSUME ClientInv, PollJob
  PROVE  ClientInv'
  <1>1. poll' = [leg |-> "asked", page |-> NoPage]
        \/ \E page \in Polled : poll' = [leg |-> "asked", page |-> page]
    BY DEF PollJob
  <1>2. UNCHANGED <<turns, wire, late, ui, loads, frame, setup, moves, netFaults>>
    BY DEF PollJob
  <1>3. ui \in Page /\ GoodPage(ui) /\ GoodJobPage(frame)
    BY DEF ClientInv, Shows, GoodPage, Polling
  <1>4. \A page \in Polled : GoodJobPage(page)
    <2>1. CASE ui.job # NoId
      <3>1. ui.job \in Turns /\ Started(ui.job)
        BY <1>3, <2>1 DEF GoodPage, Page
      <3>2. GoodJobPage(JobPage(ui.job, FirstEvents(ui.job)))
        BY <3>1, EventsCounted, JobPageGood
      <3>. QED
        BY <2>1, <3>2 DEF Polled
    <2>2. CASE ui.job = NoId
      <3>1. ASSUME NEW i \in LatestJob(ui.open)
            PROVE  GoodJobPage(JobPage(i, turns[i].logged))
        <4>1. i \in Turns /\ Started(i)
          BY DEF LatestJob, ClientInv, Rows, RowsInOrder
        <4>. QED
          BY <4>1, EventsCounted, JobPageGood
      <3>. QED
        BY <2>2, <3>1 DEF Polled
    <2>. QED
      BY <2>1, <2>2
  <1>5. poll' \in [leg : {"off", "ask", "asked"}, page : JobPages] /\ GoodJobPage(poll'.page)
    BY <1>1, <1>4, NothingGood DEF GoodJobPage
  <1>6. ui' = [ui EXCEPT !.snap = ui.snap]
    BY <1>2, <1>3, SnapUnchanged
  <1>. QED
    BY <1>2, <1>3, <1>5, <1>6, JobKnown DEF GoodPage, ClientInv, Surroundings

LEMMA PollAnsweredStep ==
  ASSUME ClientInv, PollAnswered
  PROVE  ClientInv'
  <1>1. ui \in Page /\ GoodJobPage(ui.snap) /\ GoodJobPage(frame) /\ GoodJobPage(poll.page)
    BY DEF ClientInv, Shows, GoodPage, Polling
  <1>2. frame' \in {frame, NoPage} /\ UNCHANGED <<turns, wire, late, loads, setup, moves>>
        /\ poll' \in {Ask, NoPoll} /\ netFaults' \in {netFaults, netFaults + 1}
    BY DEF PollAnswered
  <1>3. GoodJobPage(frame') /\ poll' \in [leg : {"off", "ask", "asked"}, page : JobPages]
        /\ GoodJobPage(poll'.page)
    BY <1>1, <1>2, NothingGood
  <1>4. netFaults' \in 0 .. MaxNetFaults
    BY ClientConstants DEF PollAnswered, ClientInv, Surroundings
  <1>5. \E snap : GoodJobPage(snap) /\ ui' = [ui EXCEPT !.snap = snap]
    <2>1. CASE ui' = ui
      BY <1>1, <2>1, SnapUnchanged
    <2>2. CASE ui' = [ui EXCEPT !.snap = IF poll.page = NoPage THEN NoPage
                                         ELSE NewerSnapshot(ui.snap, poll.page)]
      <3>1. GoodJobPage(IF poll.page = NoPage THEN NoPage ELSE NewerSnapshot(ui.snap, poll.page))
        BY <1>1, NothingGood, SnapshotGood
      <3>. QED
        BY <2>2, <3>1
    <2>. QED
      BY <2>1, <2>2 DEF PollAnswered
  <1>. QED
    BY <1>2, <1>3, <1>4, <1>5, JobKnown

LEMMA StreamStep ==
  ASSUME ClientInv, StreamReads \/ FrameArrives
  PROVE  ClientInv'
  <1>1. /\ ui \in Page /\ GoodJobPage(ui.snap) /\ GoodJobPage(frame) /\ GoodJobPage(poll.page)
        /\ poll \in [leg : {"off", "ask", "asked"}, page : JobPages] /\ netFaults \in 0 .. MaxNetFaults
    BY DEF ClientInv, Shows, GoodPage, Polling, Surroundings
  <1>2. CASE StreamReads
    <2>1. UNCHANGED <<turns, wire, late, ui, loads, poll, setup, moves, netFaults>>
          /\ ui.snap.status = "in_progress"
      BY <1>2 DEF StreamReads
    <2>2. ui.snap.job \in Turns /\ Started(ui.snap.job)
      <3>1. ui.snap # NoPage
        BY <2>1 DEF NoPage
      <3>. QED
        BY <1>1, <3>1 DEF GoodJobPage, JobPages
    <2>3. PICK last \in {0, turns[ui.snap.job].logged, FirstEvents(ui.snap.job)} :
             frame' = JobPage(ui.snap.job, last)
      BY <1>2 DEF StreamReads
    <2>4. last \in Nat
      BY <2>2, <2>3, EventsCounted
    <2>5. GoodJobPage(frame')
      BY <2>2, <2>3, <2>4, JobPageGood
    <2>6. ui' = [ui EXCEPT !.snap = ui.snap]
      BY <1>1, <2>1, SnapUnchanged
    <2>. QED
      BY <1>1, <2>1, <2>5, <2>6, JobKnown
  <1>3. CASE FrameArrives
    <2>1. /\ frame # NoPage /\ frame' = NoPage
          /\ ui' = [ui EXCEPT !.snap = NewerSnapshot(ui.snap, frame)]
          /\ UNCHANGED <<turns, wire, late, loads, poll, setup, moves, netFaults>>
      BY <1>3 DEF FrameArrives
    <2>2. GoodJobPage(NewerSnapshot(ui.snap, frame))
      BY <1>1, <2>1, SnapshotGood
    <2>. QED
      BY <1>1, <2>1, <2>2, NothingGood, JobKnown
  <1>. QED
    BY <1>2, <1>3

(* cancelJob ends the row, or leaves it. *)
LEMMA CancelRow ==
  ASSUME ClientInv, CancelJob
  PROVE  /\ Rows' /\ Onward /\ \A k \in Turns : Begun(k)' => Begun(k)
         /\ ui.snap.job \in Turns /\ Started(ui.snap.job)
  <1>1. ui.snap.job \in Turns /\ Started(ui.snap.job)
    <2>0. ui.snap.status = "in_progress"
      BY Zenon DEF CancelJob
    <2>1. ui.snap # NoPage
      BY <2>0 DEF NoPage
    <2>2. GoodJobPage(ui.snap)
      BY DEF ClientInv, Shows, GoodPage
    <2>. QED
      BY <2>1, <2>2 DEF GoodJobPage, JobPages
  <1>. DEFINE i == ui.snap.job
  <1>2. CASE turns' = turns
    BY <1>1, <1>2, StillOnward DEF ClientInv, Rows, RowsInOrder, DistinctPrompts, Begun, Started
  <1>3. ASSUME NEW t \in Dates(i), turns' = [turns EXCEPT ![i] = Final(turns[i], t)]
        PROVE  /\ Rows' /\ Onward /\ \A k \in Turns : Begun(k)' => Begun(k)
               /\ i \in Turns /\ Started(i)
    <2>1. turns[i] \in TurnRow
      BY <1>1 DEF ClientInv, Rows
    <2>2. t \in Nat
      BY <1>1, DatesTyped
    <2>3. Final(turns[i], t) \in TurnRow
      BY <2>1, <2>2 DEF TurnRow, Final
    <2>4. /\ Final(turns[i], t).status = "final" /\ Final(turns[i], t).prompt = turns[i].prompt
          /\ Final(turns[i], t).conv = turns[i].conv
      BY <2>1 DEF TurnRow, Final
    <2>5. i \in Turns /\ Begun(i) /\ turns[i].conv \in Conversations
      BY <1>1 DEF Begun, Started, ClientInv, Rows, RowsInOrder
    <2>. HIDE DEF i
    <2>6. /\ turns' \in [Turns -> TurnRow] /\ RowsInOrder' /\ Onward
          /\ \A k \in Turns : Begun(k)' => Begun(k)
      BY <1>3, <2>3, <2>4, <2>5, RowChanges
    <2>7. DistinctPrompts'
      BY <2>6 DEF ClientInv, Rows, DistinctPrompts, Onward
    <2>8. Rows'
      BY <2>6, <2>7 DEF Rows
    <2>. QED
      BY <2>5, <2>6, <2>8, <1>1 DEF i
  <1>. QED
    BY <1>2, <1>3 DEF CancelJob

LEMMA CancelStep ==
  ASSUME ClientInv, CancelJob
  PROVE  ClientInv'
  <1>1. /\ Rows' /\ Onward /\ \A k \in Turns : Begun(k)' => Begun(k)
        /\ ui.snap.job \in Turns /\ Started(ui.snap.job)
    BY CancelRow
  <1>2. UNCHANGED <<wire, late, loads, poll, frame, setup, moves>>
        /\ netFaults' \in {netFaults, netFaults + 1}
    BY DEF CancelJob
  <1>3. Surroundings'
    <2>1. \/ UNCHANGED netFaults
          \/ netFaults < MaxNetFaults /\ netFaults' = netFaults + 1
      BY Zenon DEF CancelJob
    <2>2. netFaults' \in 0 .. MaxNetFaults
      BY <2>1, ClientConstants DEF ClientInv, Surroundings
    <2>. QED
      BY <1>2, <2>2 DEF ClientInv, Surroundings
  <1>4. Wires'
    BY <1>1, <1>2 DEF ClientInv, Wires, SentInOrder, Onward
  <1>5. ui \in Page /\ GoodPage(ui) /\ FreshDraft(ui)
    BY DEF ClientInv, Shows, GoodPage
  <1>6. /\ ui' \in Page /\ GoodJobPage(ui'.snap)
        /\ ui'.open = ui.open /\ ui'.sending = ui.sending /\ ui'.job = ui.job
        /\ ui'.text = ui.text /\ ui'.retry = ui.retry /\ ui'.screen = ui.screen
    <2>1. ASSUME NEW t \in Dates(ui.snap.job),
                 ui' = [ui EXCEPT !.snap.status = "final", !.snap.time = t]
          PROVE  /\ ui' \in Page /\ GoodJobPage(ui'.snap)
                 /\ ui'.open = ui.open /\ ui'.sending = ui.sending /\ ui'.job = ui.job
                 /\ ui'.text = ui.text /\ ui'.retry = ui.retry /\ ui'.screen = ui.screen
      <3>. DEFINE ended == [ui.snap EXCEPT !.status = "final", !.time = t]
      <3>0. ui.snap.status = "in_progress"
        BY Zenon DEF CancelJob
      <3>1. ui.snap \in [job : Turns, status : {"in_progress", "final"}, time : Nat, last : Nat]
        BY <3>0, <1>5 DEF GoodPage, GoodJobPage, JobPages, NoPage
      <3>2. t \in Nat
        BY <1>1, DatesTyped
      <3>3. ended \in JobPages /\ ended.job = ui.snap.job
        BY <3>1, <3>2 DEF JobPages
      <3>4. ui' = [ui EXCEPT !.snap = ended]
        BY <2>1, <1>5 DEF Page
      <3>. HIDE DEF ended
      <3>5. /\ ui' \in Page /\ ui'.snap = ended
            /\ ui'.open = ui.open /\ ui'.sending = ui.sending /\ ui'.job = ui.job
            /\ ui'.text = ui.text /\ ui'.retry = ui.retry /\ ui'.screen = ui.screen
        BY <1>5, <3>3, <3>4 DEF Page
      <3>. QED
        BY <1>1, <3>3, <3>5 DEF GoodJobPage
    <2>2. CASE ui' = [ui EXCEPT !.error = TRUE]
      <3>1. /\ ui' \in Page /\ ui'.snap = ui.snap
            /\ ui'.open = ui.open /\ ui'.sending = ui.sending /\ ui'.job = ui.job
            /\ ui'.text = ui.text /\ ui'.retry = ui.retry /\ ui'.screen = ui.screen
        BY <1>5, <2>2 DEF Page
      <3>. QED
        BY <1>5, <3>1 DEF GoodPage
    <2>. QED
      BY <2>1, <2>2 DEF CancelJob
  <1>7. GoodPage(ui') /\ FreshDraft(ui')
    BY <1>5, <1>6 DEF GoodPage, FreshDraft
  <1>8. Shows'
    BY <1>1, <1>7, GoodStays DEF Shows, FreshDraft, Onward
  <1>. QED
    BY <1>1, <1>2, <1>3, <1>4, <1>8, ReadingStays, PollingStays DEF ClientInv

LEMMA ClientInitial == ClientInit => ClientInv
  <1>. SUFFICES ASSUME ClientInit PROVE ClientInv
    OBVIOUS
  <1>1. New \in Addresses /\ NoTurn \in TurnRow
    BY ClientConstants DEF Addresses, NoTurn, TurnRow
  <1>2. \A i \in Turns : turns[i] = NoTurn /\ wire[i] = "idle"
    BY DEF ClientInit
  <1>3. Rows
    BY <1>1, <1>2 DEF ClientInit, NoTurn, Rows, RowsInOrder, DistinctPrompts, Begun, Started
  <1>4. Wires
    BY <1>2 DEF ClientInit, Wires, SentInOrder
  <1>5. Shows
    BY <1>1, NothingGood DEF ClientInit, Shows
  <1>6. Reading
    BY DEF ClientInit, Reading
  <1>7. Polling
    BY NothingGood DEF ClientInit, Polling
  <1>8. Surroundings
    BY ClientConstants DEF ClientInit, Surroundings
  <1>. QED
    BY <1>3, <1>4, <1>5, <1>6, <1>7, <1>8 DEF ClientInv

LEMMA ClientUnchanged ==
  ASSUME ClientInv, UNCHANGED clientVars
  PROVE  ClientInv'
  <1>1. UNCHANGED <<turns, wire, late, ui, loads, poll, frame, setup, moves, netFaults>>
    BY DEF clientVars
  <1>2. Rows' /\ Wires' /\ Surroundings' /\ Onward
    BY <1>1, PageChanges DEF ClientInv, Surroundings
  <1>3. Shows'
    BY <1>1, <1>2, GoodStays DEF ClientInv, Shows, FreshDraft, Begun
  <1>. QED
    BY <1>1, <1>2, <1>3, ReadingStays, PollingStays DEF ClientInv

LEMMA ClientInductive == ClientInv /\ [ClientNext]_clientVars => ClientInv'
  <1>. SUFFICES ASSUME ClientInv, [ClientNext]_clientVars PROVE ClientInv'
    OBVIOUS
  <1>1. CASE UNCHANGED clientVars
    BY <1>1, ClientUnchanged
  <1>2. CASE Reads
    BY <1>2, RouteStep, PollFeedStep, PollStep, PollAnsweredStep, ServeStep, ArriveStep
       DEF Reads, FeedServed, FeedAnswered
  <1>3. CASE EditDraft \/ StreamReads \/ FrameArrives \/ CancelJob \/ SwitchAgent
    BY <1>3, EditStep, StreamStep, CancelStep, SwitchStep
  <1>4. ASSUME NEW c \in Conversations \cup {New}, SelectConversation(c)
        PROVE  ClientInv'
    BY <1>4, SelectStep DEF Addresses
  <1>5. ASSUME NEW i \in Turns, \/ Submit(i) \/ SubmitPrompt(i) \/ DeliverAgentTurn(i)
                                \/ Accepted(i) \/ SubmitFails(i)
                                \/ JobWorks(i) \/ TurnEndsThere(i)
        PROVE  ClientInv'
    BY <1>5, SubmitStep, DeliverStep, AcceptedStep, FailsStep, ServerStep
  <1>. QED
    BY <1>1, <1>2, <1>3, <1>4, <1>5 DEF ClientNext

-----------------------------------------------------------------------------
(* What a step of the client shows *)

(* Messages of a conversation that is not open are not shown. *)
LEMMA ScreenOfOpen ==
  ASSUME ClientInv'
  PROVE  \A i \in Turns : ui'.screen[i] # "absent" => turns'[i].conv = ui'.open
  BY DEF ClientInv, Shows, GoodPage, OfConversation

(* While the user stays, an ended job stays. *)
Stays ==
    moves' = moves /\ ui'.at = ui.at /\ ui'.open = ui.open =>
       (ui.snap.status = "final" /\ ui'.snap.job = ui.snap.job => ui'.snap.status = "final")

(* An effect of another page forgets the job or keeps what is known of it. *)
LEMMA EffectsStay ==
  ASSUME ClientInv, NEW next \in Page, Effects(next), next.snap = ui.snap
  PROVE  ui.snap.status = "final" /\ ui'.snap.job = ui.snap.job => ui'.snap.status = "final"
  <1>1. CASE ui' = next
    BY <1>1
  <1>2. CASE ui' = [next EXCEPT !.snap = NoPage]
    <2>1. ui'.snap = NoPage
      BY <1>2 DEF Page
    <2>2. ui.snap.status = "final" => ui.snap.job \in Turns
      BY DEF ClientInv, Shows, GoodPage, GoodJobPage, JobPages, NoPage
    <2>. QED
      BY <2>1, <2>2, Identity DEF NoPage
  <1>. QED
    BY <1>1, <1>2 DEF Effects

LEMMA ClientStays ==
  ASSUME ClientInv, ClientNext
  PROVE  Stays
  <1>1. ui \in Page /\ GoodJobPage(ui.snap) /\ GoodJobPage(frame) /\ GoodJobPage(poll.page)
    BY DEF ClientInv, Shows, GoodPage, Polling, Page
  <1>2. CASE ui' = ui
    BY <1>2 DEF Stays
  <1>3. CASE RouteCommits
    <2>1. ui'.at # ui.at
      BY <1>3 DEF RouteCommits, Mounted
    <2>. QED
      BY <2>1 DEF Stays
  <1>4. CASE EditDraft
    <2>1. ui' = [ui EXCEPT !.text = NextPrompt, !.retry = NoId]
      BY <1>4 DEF EditDraft
    <2>2. ui'.snap = ui.snap
      BY <1>1, <2>1 DEF Page
    <2>. QED
      BY <2>2 DEF Stays
  <1>5. ASSUME NEW c, SelectConversation(c) \/ SwitchAgent
        PROVE  Stays
    <2>1. moves' # moves
      BY <1>5 DEF SelectConversation, SwitchAgent, ClientInv, Surroundings
    <2>. QED
      BY <2>1 DEF Stays
  <1>6. ASSUME NEW snap, GoodJobPage(snap), ui' = [ui EXCEPT !.snap = snap],
               ui.snap.status = "final" /\ snap.job = ui.snap.job => snap.status = "final"
        PROVE  Stays
    <2>1. ui'.snap = snap
      BY <1>1, <1>6 DEF Page
    <2>. QED
      BY <1>6, <2>1 DEF Stays
  <1>7. CASE PollAnswered
    <2>1. CASE ui' = [ui EXCEPT !.snap = IF poll.page = NoPage THEN NoPage
                                         ELSE NewerSnapshot(ui.snap, poll.page)]
      <3>1. CASE poll.page = NoPage
        <4>1. ui.snap.status = "final" => ui.snap.job # NoId
          BY <1>1, Identity DEF GoodJobPage, JobPages, NoPage
        <4>2. ui' = [ui EXCEPT !.snap = NoPage]
          BY <2>1, <3>1
        <4>3. NoPage.job = NoId
          BY DEF NoPage
        <4>. QED
          BY <1>6, <4>1, <4>2, <4>3, NothingGood
      <3>2. CASE poll.page # NoPage
        <4>1. ui' = [ui EXCEPT !.snap = NewerSnapshot(ui.snap, poll.page)]
          BY <2>1, <3>2
        <4>. QED
          BY <1>1, <1>6, <3>2, <4>1, SnapshotGood
      <3>. QED
        BY <3>1, <3>2
    <2>. QED
      BY <1>2, <1>7, <2>1 DEF PollAnswered
  <1>8. CASE FrameArrives
    <2>1. frame # NoPage /\ ui' = [ui EXCEPT !.snap = NewerSnapshot(ui.snap, frame)]
      BY <1>8 DEF FrameArrives
    <2>. QED
      BY <1>1, <1>6, <2>1, SnapshotGood
  <1>9. CASE CancelJob
    <2>1. ui.snap.status = "in_progress"
      BY <1>9 DEF CancelJob
    <2>. QED
      BY <2>1 DEF Stays
  <1>10. ASSUME NEW l \in loads, FeedArrives(l)
         PROVE  Stays
    <2>1. CASE ui' = [ui EXCEPT !.screen = [i \in Turns |-> MergeFeed(ui.screen[i], l.seen[i])]]
      <3>1. ui'.snap = ui.snap
        BY <1>1, <2>1 DEF Page
      <3>. QED
        BY <3>1 DEF Stays
    <2>. QED
      BY <1>2, <1>10, <2>1 DEF FeedArrives
  <1>11. ASSUME NEW i \in Turns, Submit(i) \/ SubmitPrompt(i) \/ SubmitFails(i)
         PROVE  Stays
    <2>1. \/ ui' = ui \/ ui' = [ui EXCEPT !.sending = i, !.error = FALSE]
          \/ ui' = [ui EXCEPT !.sending = NoId, !.retry = i, !.error = TRUE]
      BY <1>11 DEF Submit, SubmitPrompt, Send, SubmitFails
    <2>2. ui'.snap = ui.snap
      BY <1>1, <2>1 DEF Page
    <2>. QED
      BY <2>2 DEF Stays
  <1>12. ASSUME NEW i \in Turns, Accepted(i)
         PROVE  Stays
    <2>. DEFINE c == turns[i].conv
                moved == [ui EXCEPT !.going = IF ui.at = New THEN c ELSE ui.going]
                shown == [Activate(moved, c) EXCEPT !.retry = NoId, !.text = 0, !.sending = NoId,
                                                    !.job = IF turns[i].job THEN i ELSE NoId]
    <2>1. Effects(IF ui.sending # i THEN moved ELSE shown)
      BY <1>12 DEF Accepted
    <2>2. c \in Addresses
      BY DEF ClientInv, Rows, TurnRow
    <2>. HIDE DEF c
    <2>3. moved \in Page /\ moved.snap = ui.snap
      <3>1. (IF ui.at = New THEN c ELSE ui.going) \in Addresses
        BY <1>1, <2>2 DEF Page
      <3>2. moved \in Page
        BY <1>1, <3>1 DEF Page
      <3>. QED
        BY <1>1, <3>2 DEF Page
    <2>. HIDE DEF moved
    <2>4. shown \in Page /\ shown.snap = ui.snap
      <3>. DEFINE page == Activate(moved, c)
                  job == IF turns[i].job THEN i ELSE NoId
      <3>1. page \in Page /\ page.snap = ui.snap
        BY <2>2, <2>3, Activated
      <3>2. job \in Turns \cup {NoId}
        OBVIOUS
      <3>3. shown = [page EXCEPT !.retry = NoId, !.text = 0, !.sending = NoId, !.job = job]
        OBVIOUS
      <3>. HIDE DEF page, shown, job
      <3>. QED
        BY <3>1, <3>2, <3>3 DEF Page
    <2>. HIDE DEF shown
    <2>5. CASE ui.sending # i
      BY <2>1, <2>3, <2>5, EffectsStay DEF Stays
    <2>6. CASE ui.sending = i
      BY <2>1, <2>4, <2>6, EffectsStay DEF Stays
    <2>. QED
      BY <2>5, <2>6
  <1>13. CASE PollFeed \/ PollJob \/ StreamReads
    BY <1>2, <1>13 DEF PollFeed, PollJob, StreamReads
  <1>14. ASSUME NEW l \in loads, ServeFeed(l)
         PROVE  Stays
    BY <1>2, <1>14 DEF ServeFeed
  <1>15. ASSUME NEW i \in Turns, DeliverAgentTurn(i) \/ JobWorks(i) \/ TurnEndsThere(i)
         PROVE  Stays
    BY <1>2, <1>15 DEF DeliverAgentTurn, JobWorks, TurnEndsThere
  <1>. QED
    BY <1>3, <1>4, <1>5, <1>7, <1>8, <1>9, <1>10, <1>11, <1>12, <1>13, <1>14, <1>15
       DEF ClientNext, Reads, FeedServed, FeedAnswered

-----------------------------------------------------------------------------
(* The pane of a run *)

PaneRow == [run : RunRow, loaded : BOOLEAN, failures : 0 .. MaxPolls, finals : 0 .. MaxPolls,
            state : {"loading", "ready", "stale", "error", "unavailable"}, followed : BOOLEAN]
PollRow == [leg : {"ask", "read", "off"}, run : RunRow]

(* What was read of an activity with n events goes no further than n. *)
KnownFeed(n) == [phase : {"connect", "open", "stream", "idle", "retry"}, delivered : 0 .. n,
                 mark : 0 .. n, lost : BOOLEAN]
KnownFrame(n) == [kind : {"snapshot", "runtime", "terminal"}, run : RunRow, upto : 0 .. n, mark : 0 .. n]
KnownServer(n) ==
    {s \in [cursor : 0 .. n, run : RunRow, page : RunRow,
            previous : {<<>>} \cup (RunRow \X (0 .. MaxActivity) \X (0 .. MaxActivity))] :
        s.page.activity <= n /\ (s.page # NoRun => s.cursor <= s.page.activity)}

Stocked ==
    /\ stored \in RunRow /\ stored.time \in Nat /\ member \in BOOLEAN /\ sseOn \in BOOLEAN
    /\ paneFaults \in 0 .. MaxPaneFaults

(* A poll is left to make only while its retries last. *)
PaneShows ==
    /\ pane \in PaneRow /\ pollAt \in PollRow
    /\ pollAt.leg # "off" => pane.failures < MaxPolls /\ pane.finals < MaxPolls

FollowedBy(n) == feed \in KnownFeed(n) /\ server \in KnownServer(n) /\ frames \in Seq(KnownFrame(n))

PaneInv == Stocked /\ PaneShows /\ FollowedBy(stored.activity)

LEMMA NothingRead == NoRun \in RunRow
  BY PaneConstants DEF NoRun, RunRow

LEMMA PaneTyped == PaneInv => PaneTypeOK
  <1>. SUFFICES ASSUME PaneInv
                PROVE  PaneTypeOK
    OBVIOUS
  <1>1. stored.activity \in 0 .. MaxActivity
    BY DEF PaneInv, Stocked, RunRow
  <1>2. KnownFrame(stored.activity) \subseteq Frame
    BY <1>1, PaneConstants DEF KnownFrame, Frame
  <1>3. \A S, T : S \subseteq T => Seq(S) \subseteq Seq(T)
    BY SMT
  <1>4. frames \in Seq(Frame)
    BY <1>2, <1>3 DEF PaneInv, FollowedBy
  <1>. QED
    BY <1>4 DEF PaneInv, Stocked, PaneShows, FollowedBy, PaneTypeOK, PaneRow, PollRow, KnownFeed, KnownServer

(* A feed from nothing fits any activity. *)
LEMMA FromNothing ==
  ASSUME NEW n \in Nat
  PROVE  NoFeed \in KnownFeed(n) /\ NoServer \in KnownServer(n) /\ <<>> \in Seq(KnownFrame(n))
  <1>1. NoFeed \in KnownFeed(n)
    BY DEF NoFeed, KnownFeed
  <1>2. NoServer \in KnownServer(n)
    BY NothingRead DEF NoServer, KnownServer, NoRun
  <1>. QED
    BY <1>1, <1>2

LEMMA PaneInitial == PaneInit => PaneInv
  <1>. SUFFICES ASSUME PaneInit
                PROVE  PaneInv
    OBVIOUS
  <1>1. Stocked
    BY PaneConstants DEF PaneInit, Stocked, RunRow
  <1>2. PaneShows
    BY PaneConstants, NothingRead DEF PaneInit, PaneShows, PaneRow, PollRow
  <1>3. FollowedBy(stored.activity)
    BY FromNothing DEF PaneInit, FollowedBy
  <1>. QED
    BY <1>1, <1>2, <1>3 DEF PaneInv

(* What was known of an activity stays known when it grows. *)
LEMMA KnownGrows ==
  ASSUME NEW n \in Nat, NEW m \in Nat, n <= m
  PROVE  FollowedBy(n) => FollowedBy(m)
  <1>1. KnownFeed(n) \subseteq KnownFeed(m)
    BY DEF KnownFeed
  <1>2. KnownServer(n) \subseteq KnownServer(m)
    <2>1. SUFFICES ASSUME NEW s \in KnownServer(n)
                   PROVE  s \in KnownServer(m)
      OBVIOUS
    <2>2. s.page.activity \in Int
      BY PaneConstants DEF KnownServer, RunRow
    <2>. QED
      BY <2>2 DEF KnownServer
  <1>3. KnownFrame(n) \subseteq KnownFrame(m)
    BY DEF KnownFrame
  <1>4. \A S, T : S \subseteq T => Seq(S) \subseteq Seq(T)
    BY SMT
  <1>. QED
    BY <1>1, <1>2, <1>3, <1>4 DEF FollowedBy

(* A run that is told replaces the one shown unless that is the newer. *)
LEMMA Told ==
  ASSUME PaneShows, NEW run \in RunRow
  PROVE  /\ NewerRun(run) \in RunRow
         /\ Tell(run) = [pane EXCEPT !.run = NewerRun(run),
                                     !.followed = pane.followed \/ Unfinished(NewerRun(run))]
         /\ Tell(run) \in PaneRow /\ Tell(run).run = NewerRun(run)
         /\ Tell(run).failures = pane.failures /\ Tell(run).finals = pane.finals
         /\ pane.run # NoRun => /\ pane.run.ended => NewerRun(run).ended
                                /\ NewerRun(run).time >= pane.run.time
  <1>. DEFINE shown == NewerRun(run)
  <1>1. pane \in PaneRow
    BY DEF PaneShows
  <1>2. shown \in RunRow
    BY <1>1 DEF NewerRun, PaneRow
  <1>3. pane.run # NoRun => /\ pane.run.ended => shown.ended
                            /\ shown.time >= pane.run.time
    BY <1>1 DEF NewerRun, PaneRow, RunRow
  <1>4. Tell(run) = [pane EXCEPT !.run = shown, !.followed = pane.followed \/ Unfinished(shown)]
    BY DEF Tell
  <1>. HIDE DEF shown
  <1>5. Unfinished(shown) \in BOOLEAN
    BY <1>2 DEF Unfinished, RunRow
  <1>6. Tell(run) \in PaneRow
    BY <1>1, <1>2, <1>4, <1>5 DEF PaneRow
  <1>7. Tell(run).run = shown /\ Tell(run).failures = pane.failures /\ Tell(run).finals = pane.finals
    BY <1>1, <1>4 DEF PaneRow
  <1>. QED
    BY <1>2, <1>3, <1>4, <1>6, <1>7 DEF shown

(* What is shown of a run, and the activity, are not taken back. *)
KeepsRun ==
    pane.run # NoRun /\ pane'.state # "unavailable" =>
       /\ pane.run.ended => pane'.run.ended
       /\ pane'.run.time >= pane.run.time
PaneStays ==
    /\ KeepsRun
    /\ feed' # NoFeed /\ ~feed'.lost => feed'.mark >= feed.mark

LEMMA Refollowed ==
  ASSUME NEW n \in Nat, FollowedBy(n), NEW run \in RunRow, Refollow(run)
  PROVE  FollowedBy(n)' /\ (feed' # NoFeed => feed' = feed)
  BY FromNothing DEF Refollow, FollowedBy

(* A page of the activity that is installed. *)
LEMMA PageInstalled ==
  ASSUME NEW n \in Nat, NEW f \in KnownFeed(n), NEW page, page.upto \in 0 .. n, page.mark \in 0 .. n
  PROVE  /\ Installed(f, page) \in KnownFeed(n) /\ Installed(f, page).mark >= f.mark
         /\ \A ph \in {"connect", "open", "stream", "idle", "retry"}, lost \in BOOLEAN :
               [Installed(f, page) EXCEPT !.phase = ph, !.lost = lost] \in KnownFeed(n)
  <1>. DEFINE got == Max({f.delivered, page.upto})
              all == Max({f.mark, page.mark})
              new == Installed(f, page)
  <1>1. f.delivered \in Int /\ f.mark \in Int /\ page.upto \in Int /\ page.mark \in Int
    BY DEF KnownFeed
  <1>2. got \in {f.delivered, page.upto}
    BY <1>1, OfTwo, Zenon
  <1>3. all \in {f.mark, page.mark} /\ all >= f.mark
    BY <1>1, OfTwo, Zenon
  <1>4. new = [f EXCEPT !.delivered = got, !.mark = all, !.lost = FALSE]
    BY DEF Installed
  <1>. HIDE DEF got, all, new
  <1>5. got \in 0 .. n /\ all \in 0 .. n
    BY <1>2, <1>3 DEF KnownFeed
  <1>6. new \in KnownFeed(n)
    BY <1>4, <1>5 DEF KnownFeed
  <1>7. new.mark = all
    BY <1>4 DEF KnownFeed
  <1>8. \A ph \in {"connect", "open", "stream", "idle", "retry"}, lost \in BOOLEAN :
           [new EXCEPT !.phase = ph, !.lost = lost] \in KnownFeed(n)
    BY <1>6 DEF KnownFeed
  <1>. QED
    BY <1>3, <1>6, <1>7, <1>8 DEF new

(* The server's steps do not touch what the pane shows. *)
LEMMA ServerSteps ==
  ASSUME PaneInv, RunWorks \/ RunEndsThere \/ MemberRemoved
  PROVE  PaneInv' /\ PaneStays
  <1>1. pane' = pane /\ pollAt' = pollAt /\ feed' = feed /\ server' = server /\ frames' = frames
    BY DEF RunWorks, RunEndsThere, MemberRemoved
  <1>2. stored \in RunRow /\ stored.time \in Nat
    BY DEF PaneInv, Stocked
  <1>3. /\ stored' \in RunRow /\ stored'.time \in Nat
        /\ stored.activity \in Nat /\ stored'.activity \in Nat /\ stored.activity <= stored'.activity
    <2>0. stored.activity \in 0 .. MaxActivity /\ stored.activity \in Nat
      BY <1>2, PaneConstants DEF RunRow
    <2>1. CASE RunWorks
      <3>1. PICK t \in {0, 1} : stored' = [stored EXCEPT !.activity = stored.activity + 1,
                                                        !.time = stored.time + t]
        BY <2>1 DEF RunWorks
      <3>2. stored.activity < MaxActivity
        BY <2>1 DEF RunWorks
      <3>3. stored.activity + 1 \in 0 .. MaxActivity /\ stored.time + t \in Nat
        BY <1>2, <2>0, <3>2, PaneConstants
      <3>4. stored' \in RunRow
        BY <1>2, <3>1, <3>3 DEF RunRow
      <3>5. stored'.activity = stored.activity + 1 /\ stored'.time = stored.time + t
        BY <1>2, <3>1 DEF RunRow
      <3>. QED
        BY <2>0, <3>3, <3>4, <3>5
    <2>2. CASE RunEndsThere
      <3>1. stored' = [stored EXCEPT !.ended = TRUE, !.time = stored.time + 1]
        BY <2>2 DEF RunEndsThere
      <3>2. stored.time + 1 \in Nat
        BY <1>2
      <3>3. stored' \in RunRow
        BY <1>2, <3>1, <3>2 DEF RunRow
      <3>4. stored'.activity = stored.activity /\ stored'.time = stored.time + 1
        BY <1>2, <3>1 DEF RunRow
      <3>. QED
        BY <2>0, <3>2, <3>3, <3>4
    <2>3. CASE MemberRemoved
      BY <1>2, <2>0, <2>3 DEF MemberRemoved
    <2>. QED
      BY <2>1, <2>2, <2>3
  <1>4. member' \in BOOLEAN /\ sseOn' \in BOOLEAN /\ paneFaults' \in 0 .. MaxPaneFaults
    <2>1. member \in BOOLEAN /\ sseOn \in BOOLEAN /\ paneFaults \in 0 .. MaxPaneFaults
      BY DEF PaneInv, Stocked
    <2>2. sseOn' = sseOn /\ member' \in {member, FALSE}
          /\ (paneFaults' = paneFaults \/ (paneFaults < MaxPaneFaults /\ paneFaults' = paneFaults + 1))
      <3>1. CASE RunWorks
        BY <3>1 DEF RunWorks
      <3>2. CASE RunEndsThere
        BY <3>2 DEF RunEndsThere
      <3>3. CASE MemberRemoved
        BY <3>3 DEF MemberRemoved, Glitch
      <3>. QED
        BY <3>1, <3>2, <3>3
    <2>3. paneFaults' \in 0 .. MaxPaneFaults
      BY <2>1, <2>2, PaneConstants
    <2>. QED
      BY <2>1, <2>2, <2>3, Zenon
  <1>5. FollowedBy(stored.activity)'
    <2>1. PICK n \in Nat : n = stored.activity
      BY <1>3
    <2>2. PICK m \in Nat : m = stored'.activity
      BY <1>3
    <2>3. FollowedBy(m)
      BY <1>3, <2>1, <2>2, KnownGrows DEF PaneInv
    <2>. QED
      BY <1>1, <2>2, <2>3 DEF FollowedBy
  <1>6. PaneShows'
    BY <1>1 DEF PaneInv, PaneShows
  <1>7. PaneStays
    <2>1. pane.run # NoRun => pane.run.time \in Int
      BY DEF PaneInv, PaneShows, PaneRow, RunRow
    <2>2. feed.mark \in Int
      BY <1>3 DEF PaneInv, FollowedBy, KnownFeed
    <2>. QED
      BY <1>1, <2>1, <2>2 DEF PaneStays, KeepsRun
  <1>. QED
    BY <1>3, <1>4, <1>5, <1>6, <1>7 DEF PaneInv, Stocked

(* The detail is polled. *)
LEMMA PollSteps ==
  ASSUME PaneInv, PollRun \/ PollArrives
  PROVE  PaneInv' /\ PaneStays
  <1>. DEFINE n == stored.activity
  <1>1. /\ stored \in RunRow /\ stored' = stored /\ pane \in PaneRow /\ pollAt \in PollRow
        /\ pane.run \in RunRow /\ pane.run.time \in Int /\ pollAt.run \in RunRow
    BY DEF PaneInv, Stocked, PaneShows, PollRun, PollArrives, PaneRow, PollRow, RunRow
  <1>2. Stocked'
    <2>1. member' = member /\ sseOn' = sseOn
      BY DEF PollRun, PollArrives
    <2>2. paneFaults' \in 0 .. MaxPaneFaults
      BY PaneConstants DEF PaneInv, Stocked, PollRun, PollArrives, Glitch, NoGlitch
    <2>. QED
      BY <1>1, <2>1, <2>2 DEF PaneInv, Stocked
  <1>3. PICK k \in Nat : k = stored.activity
    BY <1>1, PaneConstants DEF RunRow
  <1>4. feed.mark \in Int
    BY <1>3 DEF PaneInv, FollowedBy, KnownFeed
  <1>5. CASE PollRun
    <2>1. pane' = pane /\ feed' = feed /\ server' = server /\ frames' = frames
          /\ pollAt.leg = "ask" /\ pollAt' = [leg |-> "read", run |-> stored]
      BY <1>5 DEF PollRun
    <2>2. PaneShows'
      BY <1>1, <2>1 DEF PaneInv, PaneShows, PollRow
    <2>3. FollowedBy(stored.activity)'
      BY <1>1, <2>1 DEF PaneInv, FollowedBy
    <2>4. PaneStays
      BY <1>1, <1>4, <2>1 DEF PaneStays, KeepsRun
    <2>. QED
      BY <1>2, <2>2, <2>3, <2>4 DEF PaneInv
  <1>6. CASE PollArrives
    <2>1. /\ pollAt.leg = "read" /\ Refollow(pane'.run)
          /\ pane.failures \in 0 .. MaxPolls /\ pane.finals \in 0 .. MaxPolls
          /\ pane.failures < MaxPolls /\ pane.finals < MaxPolls
      BY <1>1, <1>6 DEF PollArrives, PaneInv, PaneShows, PaneRow
    <2>. DEFINE run == pollAt.run
                told == Tell(run)
                last == pane.finals + 1 = MaxPolls
    <2>2. /\ told \in PaneRow /\ told.failures = pane.failures /\ told.finals = pane.finals
          /\ pane.run # NoRun => /\ pane.run.ended => told.run.ended
                                 /\ told.run.time >= pane.run.time
      BY <1>1, Told DEF PaneInv
    <2>3. (Again => pollAt' \in PollRow /\ pollAt'.leg = "ask")
          /\ (NoMore => pollAt' \in PollRow /\ pollAt'.leg = "off")
      BY NothingRead DEF Again, NoMore, PollRow
    <2>4. \/ /\ pane' = [told EXCEPT !.state = "ready", !.failures = 0, !.loaded = run.ended]
             /\ IF run.ended THEN NoMore ELSE Again
          \/ /\ pane' = [told EXCEPT !.finals = told.finals + 1, !.failures = 0,
                                     !.state = IF last THEN "stale" ELSE "ready"]
             /\ IF last THEN NoMore ELSE Again
          \/ /\ pane' = [pane EXCEPT !.failures = pane.failures + 1,
                            !.state = IF pane.state \in {"ready", "stale"} THEN "stale" ELSE "error"]
             /\ IF pane.failures + 1 = MaxPolls THEN NoMore ELSE Again
          \/ pane' = Revoked /\ NoMore
      BY <1>6, Zenon DEF PollArrives
    <2>5. run.ended \in BOOLEAN
      BY <1>1 DEF RunRow
    <2>. HIDE DEF run, told
    <2>6. PaneShows' /\ KeepsRun
      <3>1. CASE /\ pane' = [told EXCEPT !.state = "ready", !.failures = 0, !.loaded = run.ended]
                 /\ IF run.ended THEN NoMore ELSE Again
        <4>1. 0 \in 0 .. MaxPolls /\ 0 < MaxPolls
          BY PaneConstants
        <4>2. pane' \in PaneRow
          BY <2>2, <2>5, <3>1, <4>1 DEF PaneRow
        <4>3. pane'.run = told.run /\ pane'.failures = 0 /\ pane'.finals = told.finals
          BY <2>2, <3>1 DEF PaneRow
        <4>. QED
          BY <2>1, <2>2, <2>3, <3>1, <4>1, <4>2, <4>3 DEF PaneShows, KeepsRun
      <3>2. CASE /\ pane' = [told EXCEPT !.finals = told.finals + 1, !.failures = 0,
                                         !.state = IF last THEN "stale" ELSE "ready"]
                 /\ IF last THEN NoMore ELSE Again
        <4>1. told.finals + 1 \in 0 .. MaxPolls /\ (~last => told.finals + 1 < MaxPolls)
          BY <2>1, <2>2, PaneConstants
        <4>. DEFINE finals == told.finals + 1
                    state == IF last THEN "stale" ELSE "ready"
        <4>2. 0 \in 0 .. MaxPolls /\ 0 < MaxPolls
          BY PaneConstants
        <4>3. pane' = [told EXCEPT !.finals = finals, !.failures = 0, !.state = state]
          BY <3>2
        <4>4. state \in {"stale", "ready"}
          OBVIOUS
        <4>5. IF last THEN NoMore ELSE Again
          BY <3>2
        <4>. HIDE DEF finals, state, last
        <4>6. pane' \in PaneRow
          BY <2>2, <4>1, <4>2, <4>3, <4>4 DEF PaneRow, finals
        <4>7. pane'.run = told.run /\ pane'.failures = 0 /\ pane'.finals = finals
          BY <2>2, <4>3 DEF PaneRow
        <4>. QED
          BY <2>2, <2>3, <4>1, <4>2, <4>5, <4>6, <4>7 DEF PaneShows, KeepsRun, finals
      <3>3. CASE /\ pane' = [pane EXCEPT !.failures = pane.failures + 1,
                              !.state = IF pane.state \in {"ready", "stale"} THEN "stale" ELSE "error"]
                 /\ IF pane.failures + 1 = MaxPolls THEN NoMore ELSE Again
        <4>1. pane.failures + 1 \in 0 .. MaxPolls
          BY <2>1, PaneConstants
        <4>2. /\ pane' \in PaneRow /\ pane'.run = pane.run /\ pane'.failures = pane.failures + 1
              /\ pane'.finals = pane.finals
          BY <1>1, <3>3, <4>1 DEF PaneRow
        <4>. QED
          BY <1>1, <2>1, <2>3, <3>3, <4>2, PaneConstants DEF PaneShows, KeepsRun
      <3>4. CASE pane' = Revoked /\ NoMore
        <4>1. pane.followed \in BOOLEAN
          BY <1>1 DEF PaneRow
        <4>2. pane' \in PaneRow /\ pane'.state = "unavailable"
          BY <3>4, <4>1, NothingRead, PaneConstants DEF Revoked, PaneRow
        <4>. QED
          BY <2>3, <3>4, <4>2 DEF PaneShows, KeepsRun
      <3>. QED
        BY <2>4, <3>1, <3>2, <3>3, <3>4
    <2>7. FollowedBy(stored.activity)' /\ (feed' # NoFeed => feed' = feed)
      <3>1. pane'.run \in RunRow
        BY <2>6 DEF PaneShows, PaneRow
      <3>2. FollowedBy(k)
        BY <1>3 DEF PaneInv
      <3>3. PICK r \in RunRow : r = pane'.run
        BY <3>1
      <3>4. Refollow(r)
        BY <2>1, <3>3
      <3>5. FollowedBy(k)' /\ (feed' # NoFeed => feed' = feed)
        BY <3>2, <3>4, Refollowed
      <3>. QED
        BY <1>1, <1>3, <3>5
    <2>. QED
      BY <1>2, <1>4, <2>6, <2>7 DEF PaneInv, PaneStays, KeepsRun
  <1>. QED
    BY <1>5, <1>6

MarkKept == feed' # NoFeed /\ ~feed'.lost => feed'.mark >= feed.mark

LEMMA SameRun ==
  ASSUME PaneInv, stored' = stored, member' = member, sseOn' = sseOn, pane' = pane, pollAt' = pollAt,
         Glitch \/ NoGlitch
  PROVE  Stocked' /\ PaneShows' /\ KeepsRun
  <1>1. paneFaults \in 0 .. MaxPaneFaults
    BY DEF PaneInv, Stocked
  <1>2. paneFaults' \in 0 .. MaxPaneFaults
    BY <1>1, PaneConstants DEF Glitch, NoGlitch
  <1>3. pane.run.time \in Int
    BY DEF PaneInv, PaneShows, PaneRow, RunRow
  <1>. QED
    BY <1>2, <1>3 DEF PaneInv, Stocked, PaneShows, KeepsRun

LEMMA Activity == PaneInv => stored.activity \in Nat /\ stored.activity \in 0 .. MaxActivity
  BY PaneConstants DEF PaneInv, Stocked, RunRow

(* What the server answers after a cursor is known of the activity. *)
LEMMA PageKnown ==
  ASSUME NEW n \in Nat, NEW c \in 0 .. n
  PROVE  Min({c + ActivityPage, n}) \in c .. n
  <1>1. c + ActivityPage \in Int /\ n \in Int /\ c + ActivityPage >= c
    BY PaneConstants
  <1>. DEFINE m == Min({c + ActivityPage, n})
  <1>2. m \in {c + ActivityPage, n} /\ m <= n
    BY <1>1, OfTwo, Zenon
  <1>. HIDE DEF m
  <1>3. m \in c .. n
    BY <1>1, <1>2
  <1>. QED
    BY <1>3 DEF m

(* The activity read after what was delivered. *)
LEMMA ReadAfter ==
  ASSUME PaneInv,
         NEW ph \in {"connect", "open", "stream", "idle", "retry"}, NEW lost \in BOOLEAN
  PROVE  LET f == Installed(feed, PageAfter(feed.delivered))
         IN  /\ f \in KnownFeed(stored.activity) /\ f.mark >= feed.mark
             /\ [f EXCEPT !.phase = ph, !.lost = lost] \in KnownFeed(stored.activity)
             /\ [f EXCEPT !.phase = ph] \in KnownFeed(stored.activity)
             /\ [f EXCEPT !.phase = ph].mark = f.mark
  <1>. DEFINE f == Installed(feed, PageAfter(feed.delivered))
  <1>1. PICK n \in Nat : n = stored.activity
    BY Activity
  <1>2. feed \in KnownFeed(n) /\ feed.delivered \in 0 .. n
    BY <1>1 DEF PaneInv, FollowedBy, KnownFeed
  <1>3. PageAfter(feed.delivered).upto \in 0 .. n /\ PageAfter(feed.delivered).mark \in 0 .. n
    <2>1. PICK d \in 0 .. n : d = feed.delivered
      BY <1>2
    <2>2. Min({d + ActivityPage, n}) \in 0 .. n
      <3>1. Min({d + ActivityPage, n}) \in d .. n
        BY PageKnown
      <3>. QED
        BY <3>1
    <2>. QED
      BY <1>1, <2>1, <2>2 DEF PageAfter
  <1>4. PICK page : page = PageAfter(feed.delivered)
    OBVIOUS
  <1>5. PICK before \in KnownFeed(n) : before = feed
    BY <1>2, SMTT(30)
  <1>6. /\ f \in KnownFeed(n) /\ f.mark >= feed.mark
        /\ [f EXCEPT !.phase = ph, !.lost = lost] \in KnownFeed(n)
    BY <1>3, <1>4, <1>5, PageInstalled
  <1>. HIDE DEF f
  <1>7. [f EXCEPT !.phase = ph] \in KnownFeed(n) /\ [f EXCEPT !.phase = ph].mark = f.mark
    BY <1>6 DEF KnownFeed
  <1>. QED
    BY <1>1, <1>6, <1>7 DEF f

LEMMA ConnectStep ==
  ASSUME PaneInv, Connect
  PROVE  PaneInv' /\ PaneStays
  <1>1. stored' = stored /\ member' = member /\ sseOn' = sseOn /\ pane' = pane /\ pollAt' = pollAt
        /\ frames' = frames /\ server' = NoServer /\ (Glitch \/ NoGlitch)
    BY DEF Connect
  <1>2. PICK n \in Nat : n = stored.activity
    BY Activity
  <1>3. feed \in KnownFeed(n) /\ frames \in Seq(KnownFrame(n))
    BY <1>2 DEF PaneInv, FollowedBy
  <1>4. feed' \in KnownFeed(n) /\ MarkKept
    <2>. DEFINE ph == IF ~Unfinished(pane.run) THEN "idle" ELSE IF sseOn THEN "open" ELSE "connect"
    <2>1. CASE feed' = [Installed(feed, PageAfter(feed.delivered)) EXCEPT !.phase = ph]
      <3>1. ph \in {"connect", "open", "stream", "idle", "retry"}
        OBVIOUS
      <3>2. PICK q \in {"connect", "open", "stream", "idle", "retry"} : q = ph
        BY <3>1
      <3>. HIDE DEF ph
      <3>. QED
        BY <1>2, <2>1, <3>2, ReadAfter DEF MarkKept
    <2>2. CASE feed' = [feed EXCEPT !.phase = "retry", !.lost = TRUE]
      BY <1>3, <2>2 DEF KnownFeed, MarkKept
    <2>3. CASE feed' = [NoFeed EXCEPT !.phase = "idle", !.lost = TRUE]
      <3>1. feed' = [phase |-> "idle", delivered |-> 0, mark |-> 0, lost |-> TRUE]
        BY <2>3 DEF NoFeed
      <3>2. feed' \in KnownFeed(n)
        BY <3>1 DEF KnownFeed
      <3>. QED
        BY <3>1, <3>2 DEF MarkKept
    <2>. QED
      BY <2>1, <2>2, <2>3 DEF Connect
  <1>5. NoServer \in KnownServer(n)
    BY FromNothing
  <1>6. FollowedBy(stored.activity)'
    BY <1>1, <1>2, <1>3, <1>4, <1>5 DEF FollowedBy
  <1>7. Stocked' /\ PaneShows' /\ KeepsRun
    BY <1>1, SameRun
  <1>. QED
    BY <1>4, <1>6, <1>7 DEF PaneInv, PaneStays, MarkKept

LEMMA StreamSteps ==
  ASSUME PaneInv, OpenStream \/ StreamEnds
  PROVE  PaneInv' /\ PaneStays
  <1>1. stored' = stored /\ member' = member /\ sseOn' = sseOn /\ pane' = pane /\ pollAt' = pollAt
        /\ frames' = <<>> /\ (Glitch \/ NoGlitch)
    BY DEF OpenStream, StreamEnds, NoGlitch
  <1>2. PICK n \in Nat : n = stored.activity
    BY Activity
  <1>3. feed \in KnownFeed(n) /\ server \in KnownServer(n) /\ feed.delivered \in 0 .. n
    BY <1>2 DEF PaneInv, FollowedBy, KnownFeed
  <1>4. feed' \in KnownFeed(n) /\ MarkKept
    <2>1. CASE feed' = [feed EXCEPT !.phase = "stream"]
      <3>1. feed' \in KnownFeed(n)
        BY <1>3, <2>1 DEF KnownFeed
      <3>2. feed'.mark = feed.mark /\ feed.mark \in Int
        BY <1>3, <2>1 DEF KnownFeed
      <3>. QED
        BY <3>1, <3>2 DEF MarkKept
    <2>2. CASE feed' = [feed EXCEPT !.phase = "retry", !.lost = TRUE]
      BY <1>3, <2>2 DEF KnownFeed, MarkKept
    <2>3. CASE feed' = [NoFeed EXCEPT !.phase = "idle", !.lost = TRUE]
      <3>1. feed' = [phase |-> "idle", delivered |-> 0, mark |-> 0, lost |-> TRUE]
        BY <2>3 DEF NoFeed
      <3>2. feed' \in KnownFeed(n)
        BY <3>1 DEF KnownFeed
      <3>. QED
        BY <3>1, <3>2 DEF MarkKept
    <2>4. CASE feed' = [Installed(feed, PageAfter(feed.delivered)) EXCEPT !.phase = "retry", !.lost = TRUE]
      <3>1. feed' \in KnownFeed(n)
        BY <1>2, <2>4, ReadAfter
      <3>2. Installed(feed, PageAfter(feed.delivered)) \in KnownFeed(n)
        BY <1>2, ReadAfter
      <3>3. feed'.lost
        BY <2>4, <3>2 DEF KnownFeed
      <3>. QED
        BY <3>1, <3>3 DEF MarkKept
    <2>. QED
      BY <2>1, <2>2, <2>3, <2>4 DEF OpenStream, StreamEnds
  <1>5. server' \in KnownServer(n)
    <2>1. NoServer \in KnownServer(n)
      BY FromNothing
    <2>2. CASE server' = [NoServer EXCEPT !.cursor = feed.delivered]
      <3>1. server' = [cursor |-> feed.delivered, run |-> NoRun, page |-> NoRun, previous |-> <<>>]
        BY <2>2 DEF NoServer
      <3>2. NoRun.activity = 0
        BY DEF NoRun
      <3>. QED
        BY <1>3, <3>1, <3>2, NothingRead DEF KnownServer
    <2>. QED
      BY <1>3, <2>1, <2>2 DEF OpenStream, StreamEnds
  <1>6. FollowedBy(stored.activity)'
    BY <1>1, <1>2, <1>4, <1>5, FromNothing DEF FollowedBy
  <1>7. Stocked' /\ PaneShows' /\ KeepsRun
    BY <1>1, SameRun
  <1>. QED
    BY <1>4, <1>6, <1>7 DEF PaneInv, PaneStays, MarkKept

LEMMA ServerReadsStep ==
  ASSUME PaneInv, ServerReads
  PROVE  PaneInv' /\ PaneStays
  <1>1. stored' = stored /\ member' = member /\ sseOn' = sseOn /\ pane' = pane /\ pollAt' = pollAt
        /\ frames' = frames /\ feed' = feed /\ (Glitch \/ NoGlitch)
    BY DEF ServerReads, NoGlitch
  <1>2. PICK n \in Nat : n = stored.activity
    BY Activity
  <1>3. feed \in KnownFeed(n) /\ server \in KnownServer(n) /\ frames \in Seq(KnownFrame(n))
        /\ stored \in RunRow
    BY <1>2 DEF PaneInv, FollowedBy, Stocked
  <1>4. server' \in KnownServer(n)
    <2>. DEFINE S == [cursor : 0 .. n, run : RunRow, page : RunRow,
                      previous : {<<>>} \cup (RunRow \X (0 .. MaxActivity) \X (0 .. MaxActivity))]
    <2>0. server \in S /\ server.cursor \in 0 .. n
          /\ server.page.activity <= n /\ (server.page # NoRun => server.cursor <= server.page.activity)
      BY <1>3 DEF KnownServer
    <2>1. CASE server' = [server EXCEPT !.run = stored]
      <3>1. server' \in S
        BY <1>3, <2>0, <2>1
      <3>2. server'.cursor = server.cursor /\ server'.page = server.page
        BY <2>0, <2>1
      <3>. QED
        BY <2>0, <3>1, <3>2 DEF KnownServer
    <2>2. CASE server' = [server EXCEPT !.page = stored]
      <3>1. server' \in S
        BY <1>3, <2>0, <2>2
      <3>2. server'.cursor = server.cursor /\ server'.page = stored
        BY <2>0, <2>2
      <3>3. server.cursor <= n
        BY <2>0
      <3>. QED
        BY <1>2, <3>1, <3>2, <3>3 DEF KnownServer
    <2>. QED
      BY <2>1, <2>2 DEF ServerReads
  <1>5. MarkKept
    BY <1>1, <1>3 DEF MarkKept, KnownFeed
  <1>6. FollowedBy(stored.activity)'
    BY <1>1, <1>2, <1>3, <1>4 DEF FollowedBy
  <1>7. Stocked' /\ PaneShows' /\ KeepsRun
    BY <1>1, SameRun
  <1>. QED
    BY <1>5, <1>6, <1>7 DEF PaneInv, PaneStays, MarkKept

(* The frames of a page are known of the activity. *)
LEMMA PublishStep ==
  ASSUME PaneInv, Publish
  PROVE  PaneInv' /\ PaneStays
  <1>1. stored' = stored /\ member' = member /\ sseOn' = sseOn /\ pane' = pane /\ pollAt' = pollAt
        /\ feed' = feed /\ (Glitch \/ NoGlitch)
    BY DEF Publish, NoGlitch
  <1>2. PICK n \in Nat : n = stored.activity /\ n \in 0 .. MaxActivity
    BY Activity
  <1>3. feed \in KnownFeed(n) /\ server \in KnownServer(n)
    BY <1>2, SMTT(30) DEF PaneInv, FollowedBy
  <1>4. server.run # NoRun /\ server.page # NoRun
    BY DEF Publish
  <1>5. PICK c \in 0 .. n : c = server.cursor
    BY <1>3 DEF KnownServer
  <1>6. PICK a \in c .. n : a = server.page.activity
    <2>1. server.page.activity \in Int
      BY <1>3, PaneConstants DEF KnownServer, RunRow
    <2>. QED
      BY <1>3, <1>4, <1>5, <2>1 DEF KnownServer
  <1>7. PICK r \in RunRow : r = server.run
    BY <1>3 DEF KnownServer
  <1>. DEFINE upto == Min({c + ActivityPage, a})
              now == <<r, c, a>>
              snapshot == [kind |-> "snapshot", run |-> r, upto |-> upto, mark |-> a]
              runtime(k) == [kind |-> "runtime", run |-> NoRun, upto |-> k, mark |-> 0]
              terminal == [kind |-> "terminal", run |-> NoRun, upto |-> 0, mark |-> 0]
              first == IF now = server.previous THEN <<>> ELSE <<snapshot>>
              second == [k \in 1 .. upto - c |-> runtime(c + k)]
              third == IF r.ended /\ upto = c THEN <<terminal>> ELSE <<>>
  <1>8. upto \in c .. a
    BY PageKnown, SMTT(30)
  <1>9. /\ frames' = first \o second \o third
        /\ server' = [cursor |-> upto, run |-> NoRun, page |-> NoRun, previous |-> now]
    BY <1>5, <1>6, <1>7 DEF Publish
  <1>. HIDE DEF upto
  <1>10. upto - c \in Nat /\ upto \in 0 .. n /\ a \in 0 .. n
    BY <1>8
  <1>11. first \in Seq(KnownFrame(n))
    <2>1. snapshot \in KnownFrame(n)
      BY <1>10 DEF KnownFrame
    <2>. HIDE DEF snapshot
    <2>. QED
      BY <2>1
  <1>12. second \in Seq(KnownFrame(n))
    <2>1. \A k \in 1 .. upto - c : c + k \in 0 .. n
      BY <1>8
    <2>2. \A k \in 1 .. upto - c : runtime(c + k) \in KnownFrame(n)
      BY <2>1, NothingRead DEF KnownFrame
    <2>. HIDE DEF runtime
    <2>3. second \in [1 .. upto - c -> KnownFrame(n)]
      BY <2>2
    <2>. QED
      BY <1>10, <2>3
  <1>13. third \in Seq(KnownFrame(n))
    <2>1. terminal \in KnownFrame(n)
      BY NothingRead DEF KnownFrame
    <2>. HIDE DEF terminal
    <2>. QED
      BY <2>1
  <1>. HIDE DEF first, second, third
  <1>14. frames' \in Seq(KnownFrame(n))
    BY <1>9, <1>11, <1>12, <1>13
  <1>15. server' \in KnownServer(n)
    <2>1. now \in RunRow \X (0 .. MaxActivity) \X (0 .. MaxActivity)
      <3>1. c \in 0 .. MaxActivity /\ a \in 0 .. MaxActivity
        BY <1>2, <1>6, PaneConstants
      <3>. QED
        BY <3>1
    <2>2. NoRun.activity = 0
      BY DEF NoRun
    <2>. HIDE DEF now
    <2>. QED
      BY <1>9, <1>10, <2>1, <2>2, NothingRead DEF KnownServer
  <1>16. MarkKept
    BY <1>1, <1>3 DEF MarkKept, KnownFeed
  <1>17. FollowedBy(stored.activity)'
    BY <1>1, <1>2, <1>3, <1>14, <1>15 DEF FollowedBy
  <1>18. Stocked' /\ PaneShows' /\ KeepsRun
    BY <1>1, SameRun
  <1>. QED
    BY <1>16, <1>17, <1>18 DEF PaneInv, PaneStays, MarkKept

LEMMA FrameReadStep ==
  ASSUME PaneInv, FrameRead
  PROVE  PaneInv' /\ PaneStays
  <1>1. stored' = stored /\ member' = member /\ sseOn' = sseOn /\ pollAt' = pollAt
        /\ paneFaults' = paneFaults
    BY DEF FrameRead, NoGlitch
  <1>2. PICK n \in Nat : n = stored.activity
    BY Activity
  <1>3. feed \in KnownFeed(n) /\ server \in KnownServer(n) /\ frames \in Seq(KnownFrame(n))
        /\ FollowedBy(n)
    BY <1>2 DEF PaneInv, FollowedBy
  <1>4. frames # <<>>
    BY DEF FrameRead
  <1>5. PICK f \in KnownFrame(n) : f = Head(frames)
    BY <1>3, <1>4
  <1>6. f.run \in RunRow /\ f.upto \in 0 .. n /\ f.mark \in 0 .. n
        /\ f.kind \in {"snapshot", "runtime", "terminal"}
    BY DEF KnownFrame
  <1>. DEFINE told == IF f.kind = "snapshot" /\ pane.run # NoRun THEN Tell(f.run) ELSE pane
  <1>7. pane \in PaneRow /\ pane.run \in RunRow /\ pane.run.time \in Int
    BY DEF PaneInv, PaneShows, PaneRow, RunRow
  <1>8. pane' = told
    BY <1>5 DEF FrameRead
  <1>9. /\ pane' \in PaneRow /\ pane'.failures = pane.failures /\ pane'.finals = pane.finals
        /\ KeepsRun
    <2>1. CASE pane' = pane
      BY <1>7, <2>1 DEF KeepsRun
    <2>2. CASE pane' = Tell(f.run)
      BY <1>6, <2>2, Told DEF PaneInv, KeepsRun
    <2>. QED
      BY <1>8, <2>1, <2>2
  <1>10. PaneShows'
    BY <1>1, <1>9 DEF PaneInv, PaneShows
  <1>11. FollowedBy(n)' /\ MarkKept
    <2>1. CASE Unfinished(told.run) # Unfinished(pane.run)
      <3>1. Refollow(told.run)
        BY <1>5, <2>1 DEF FrameRead
      <3>2. PICK r \in RunRow : r = told.run
        BY <1>8, <1>9 DEF PaneRow
      <3>3. FollowedBy(n)' /\ (feed' # NoFeed => feed' = feed)
        BY <1>3, <3>1, <3>2, Refollowed
      <3>4. feed.mark \in Int
        BY <1>3 DEF KnownFeed
      <3>. QED
        BY <3>3, <3>4 DEF MarkKept
    <2>2. CASE Unfinished(told.run) = Unfinished(pane.run)
      <3>1. frames' = Tail(frames)
        BY <1>5, <2>2 DEF FrameRead
      <3>2. frames' \in Seq(KnownFrame(n))
        BY <1>3, <1>4, <3>1
      <3>3. CASE f.kind = "snapshot"
        <4>1. feed' = Installed(feed, f) /\ server' = server
          BY <1>5, <2>2, <3>3 DEF FrameRead
        <4>2. PICK before \in KnownFeed(n) : before = feed
          BY <1>3
        <4>3. feed' \in KnownFeed(n) /\ feed'.mark >= feed.mark
          BY <1>6, <4>1, <4>2, PageInstalled
        <4>. QED
          BY <1>3, <3>2, <4>1, <4>3 DEF FollowedBy, MarkKept
      <3>4. CASE f.kind = "runtime"
        <4>. DEFINE got == Max({feed.delivered, f.upto})
        <4>1. feed' = [feed EXCEPT !.delivered = got] /\ server' = server
          BY <1>5, <2>2, <3>4 DEF FrameRead
        <4>2. feed.delivered \in 0 .. n /\ feed.delivered \in Int /\ f.upto \in Int
          BY <1>3, <1>6 DEF KnownFeed
        <4>3. got \in {feed.delivered, f.upto}
          <5>1. PICK x \in Int : x = feed.delivered
            BY <4>2
          <5>2. Max({x, f.upto}) \in {x, f.upto}
            BY <4>2, OfTwo, Zenon
          <5>. QED
            BY <5>1, <5>2
        <4>. HIDE DEF got
        <4>4. got \in 0 .. n
          BY <1>6, <4>2, <4>3
        <4>5. feed' \in KnownFeed(n)
          BY <1>3, <4>1, <4>4 DEF KnownFeed
        <4>6. feed'.mark = feed.mark /\ feed.mark \in Int
          BY <1>3, <4>1 DEF KnownFeed
        <4>. QED
          BY <1>3, <3>2, <4>1, <4>5, <4>6 DEF FollowedBy, MarkKept
      <3>5. CASE f.kind = "terminal"
        <4>1. feed' = [feed EXCEPT !.phase = "idle"] /\ server' = NoServer
          BY <1>5, <2>2, <3>5 DEF FrameRead
        <4>2. feed' \in KnownFeed(n)
          BY <1>3, <4>1 DEF KnownFeed
        <4>3. feed'.mark = feed.mark /\ feed.mark \in Int
          BY <1>3, <4>1 DEF KnownFeed
        <4>. QED
          BY <3>2, <4>1, <4>2, <4>3, FromNothing DEF FollowedBy, MarkKept
      <3>. QED
        BY <1>6, <3>3, <3>4, <3>5
    <2>. QED
      BY <2>1, <2>2
  <1>12. Stocked'
    BY <1>1 DEF PaneInv, Stocked
  <1>. QED
    BY <1>1, <1>2, <1>9, <1>10, <1>11, <1>12 DEF PaneInv, PaneStays, MarkKept

LEMMA PaneInductive ==
  ASSUME PaneInv, PaneNext
  PROVE  PaneInv' /\ PaneStays
  BY ServerSteps, PollSteps, ConnectStep, StreamSteps, ServerReadsStep, PublishStep, FrameReadStep
     DEF PaneNext, PaneReads

LEMMA PaneUnchanged ==
  ASSUME PaneInv, UNCHANGED paneVars
  PROVE  PaneInv'
  BY DEF paneVars, PaneInv, Stocked, PaneShows, FollowedBy

-----------------------------------------------------------------------------
(* The page and the pane beside each other *)

Invariant == ClientInv /\ PaneInv

(* Whatever the user, the network, the server and the workers of the turns *)
(* do and in whatever order, and however clocks date it: no draft is       *)
(* submitted under two identities, what the page shows is of the           *)
(* conversation that is open and of jobs there are, and what the pane has  *)
(* read of an activity goes no further than what is stored.                *)
THEOREM Invariance == Safety => []Invariant
  <1>1. Init => Invariant
    BY ClientInitial, PaneInitial DEF Init, Invariant
  <1>2. Invariant /\ [Next]_vars => Invariant'
    <2>. SUFFICES ASSUME Invariant, [Next]_vars
                  PROVE  Invariant'
      OBVIOUS
    <2>1. [ClientNext]_clientVars
      BY DEF Next, vars
    <2>2. PaneNext \/ UNCHANGED paneVars
      BY DEF Next, vars
    <2>3. ClientInv'
      BY <2>1, ClientInductive DEF Invariant
    <2>4. PaneInv'
      BY <2>2, PaneInductive, PaneUnchanged DEF Invariant
    <2>. QED
      BY <2>3, <2>4 DEF Invariant
  <1>. QED
    BY <1>1, <1>2, PTL DEF Safety

(* The state of the chat page keeps its types: turns, requests, answers    *)
(* under way and what the page shows.                                      *)
THEOREM ClientTyped == Safety => []ClientTypeOK
  <1>1. Invariant => ClientTypeOK
    BY DEF Invariant, ClientInv, Rows, Wires, Shows, Reading, Polling, Surroundings, ClientTypeOK,
           GoodPage, GoodRead, GoodJobPage
  <1>. QED
    BY <1>1, Invariance, PTL

(* The state of the pane keeps its types; in particular the cursors and    *)
(* marks of the feed and of the stream's server stay within the activity   *)
(* that is stored, and no poll fails more often than it is retried.        *)
THEOREM PaneTypeCorrect == Safety => []PaneTypeOK
  BY Invariance, PaneTyped, PTL DEF Invariant

(* A draft never becomes two turns: when the answer to it is lost or late, *)
(* it is sent again under the identity it was submitted with               *)
(* (useAgentTurn, agent_turns' client_request_id).  Only the suggestion of *)
(* an empty page, clicked again, is another turn.                          *)
THEOREM OnePerPromptHolds == Safety => []OnePerPrompt
  <1>1. Invariant => OnePerPrompt
    BY DEF Invariant, ClientInv, Rows, DistinctPrompts, OnePerPrompt, Begun, Started
  <1>. QED
    BY <1>1, Invariance, PTL

(* No answer or frame that was overtaken brings a message of another       *)
(* conversation, shows an ended job active, or takes back the run or the   *)
(* activity of the pane, whatever the clocks say.                          *)
THEOREM NeverRegressesHolds == Safety => NeverRegresses
  <1>1. Invariant /\ Invariant' /\ [Next]_vars =>
          [/\ \A i \in Turns : ui'.screen[i] # "absent" => turns'[i].conv = ui'.open
           /\ moves' = moves /\ ui'.at = ui.at /\ ui'.open = ui.open =>
                 (ui.snap.status = "final" /\ ui'.snap.job = ui.snap.job
                       => ui'.snap.status = "final")]_clientVars
    <2>. SUFFICES ASSUME Invariant, Invariant', [Next]_vars, ~ UNCHANGED clientVars
                  PROVE  /\ \A i \in Turns : ui'.screen[i] # "absent" => turns'[i].conv = ui'.open
                         /\ Stays
      BY DEF Stays
    <2>1. ClientNext
      BY DEF Next, vars
    <2>. QED
      BY <2>1, ScreenOfOpen, ClientStays DEF Invariant
  <1>2. Invariant /\ [Next]_vars =>
          [/\ pane.run # NoRun /\ pane'.state # "unavailable" =>
                 /\ pane.run.ended => pane'.run.ended
                 /\ pane'.run.time >= pane.run.time
           /\ feed' # NoFeed /\ ~feed'.lost => feed'.mark >= feed.mark]_paneVars
    <2>. SUFFICES ASSUME Invariant, [Next]_vars, ~ UNCHANGED paneVars
                  PROVE  PaneStays
      BY DEF PaneStays, KeepsRun
    <2>1. PaneNext
      BY DEF Next, vars
    <2>. QED
      BY <2>1, PaneInductive DEF Invariant
  <1>. QED
    BY <1>1, <1>2, Invariance, PTL
       DEF Safety, NeverRegresses, ScreenNeverRegresses, PaneNeverRegresses
=============================================================================
