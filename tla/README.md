# VDaAgent: formal models

TLA+ models of VDaAgent, in three layers. *Work that survives its worker*: the
queue of analysis runs with its leases and fencing tokens, the stages of a run with
their checkpoints, the team that works through them, the durable chat turn, the
schedule and the outbox around the worker loop. *What is said*: one execution of a
chat turn from its question to its answer, and the report pipeline from an imported
file to a published report. *What is shown*: the chat page and the pane of a run in
the browser. TLC checks them on small instances; TLAPS proves most of the safety
properties for every value of the constants: any number of runs, turns, workers, attempts,
submissions, files and clock ticks.
Paths below are relative to the repository (`src/backend`, ...); `PROJECT.json` maps
every definition to its lines.

## 1. The system

VDaAgent answers questions about inventory data. A question becomes a chat
*turn*; a turn that needs an analysis creates a *run*; a run passes through
*stages*, each a *task* with *artifacts*; a full run ends with a published
report. A pool of worker processes does the work. All durable state is in
PostgreSQL, and every repository operation is one transaction.

| Component | State it keeps | Operations | Talks to |
| --- | --- | --- | --- |
| Canonical run queue (`database/workflow/lease-repository.ts`, `fail-run.ts`, `terminal-run.ts`, `repositories/run-repository.ts`) | `runs`: status, attempt, fencing token, worker, lease, report | claim, heartbeat, fail, cancel, retry, publish | workers call it; ends are projected on tasks, jobs and messages |
| Stages and checkpoints (`agents/analysis`, `checkpoint-repository.ts`, `publish-reviewed-draft.ts`, `finish-agent-artifact-run.ts`) | `tasks`, `artifacts`, stage messages, `reports` | run, reuse, complete or refuse a stage; publish | every write passes the fence of the run |
| Worker process (`worker/run-loop.ts`, `workflow-dispatcher.ts`, `main.ts`) | what it is dispatching, its heartbeat timer | alternate between turns and runs, deliver, tick | all queues |
| Durable turns (`agent-execution-repository.ts`, `worker/agent-turn-dispatcher.ts`, `agent-projection.ts`) | `agent_turn_jobs`, `agent_invocations`, events, the two messages of a turn | enqueue, claim, start an analysis, wait, resume, complete, fail, cancel | creates runs; ends of runs settle or wake it |
| Run creation, turn admission (`transactions/create-run.ts`, `conversation-repository.ts`) | idempotency keys, snapshots, messages | create or replay | HTTP routes, scheduler, durable turns |
| Scheduler (`worker/scheduler.ts`, `schedule-repository.ts`, `domain/scheduling`) | definitions, occurrences | tick, trigger, update, delete | creates runs |
| External delivery (`worker/external-delivery.ts`, `external-channel-repository.ts`, `agents/external`) | `external_channel_deliveries` | enqueue, claim, send, finish | Telegram |
| Team runtime (`agents/runtime/team`) | budgets, cycle guard, pending children, in memory | delegate, call a tool, time out, abort | runs inside one dispatch |
| Chat agent runtime (`agents/runtime`, `agents/chat`) | a plan, its observations and limits, in memory | plan, call capabilities, compose | providers; durable turns |
| Providers (`agents/runtime/providers`, `agents/providers`) | none | call, fall back | external models |
| Specialists, domain rules, semantic metrics (`agents/analysis/specialists`, `domain`, `semantic`) | none: pure functions | build and validate payloads | stages |
| Other repositories, authorization, schema | rows read and written singly | reads, single-row writes | HTTP routes |
| HTTP server and event streams (`src/frontend/server`) | a cursor per stream | read pages of events until terminal | browser |
| Browser client (`src/frontend/features`) | a submission with its retry key, a poll | submit, poll, reconcile | HTTP server |

### What is hard here

* **Ownership.** A worker that stalls past its lease keeps its lease object and
  goes on writing. Only the run's row (status, token, worker, lease) tells the
  owners apart, and each clock reads the lease differently.
* **Tools outlive their time-out.** A tool call returns with an error while the
  stage behind it still runs, with the same lease, beside whatever comes next.
* **Many ends.** A run settles on six paths, and its tasks, its job and its chat
  reply have to settle with it, in the same transaction.
* **A stage is not a transaction.** Its artifacts, its task and its message are
  separate commits. A worker may die between any two; the next attempt decides
  from what is stored whether to reuse, to complete or to refuse.
* **Providers are not deterministic.** Asked again, they answer otherwise, so an
  attempt must not mix two narratives.
* **Two machines in one turn.** A job waits for a run it does not own; the run
  ends while workers poll, cancel and lose leases.
* **At least once.** A delivery is sent first and recorded afterwards.
* **One loop for everything.** The tick, two queues and the outbox share an endless
  loop that an error of any of them may end.
* **Calls at once.** An agent delegates several steps in parallel out of shared
  budgets and writes their progress to an activity that outlives the attempt.
* **Reads at different times.** An answer is composed of what several reads
  observed while the runs they read went on.
* **Checks of checks.** Every stage of a report validates again what earlier stages
  stored, with expectations of its own; a figure is cited by its position in a list.
* **Overtaken answers.** The browser polls, follows streams and reloads at once;
  answers come in any order, late, twice or never.

### What makes each component correct

* Queue: one owner at a time; a lost lease stays lost; the result comes from the
  last attempt; the reply agrees with the run; attempts are bounded; every run
  settles.
* Stages: a task is marked succeeded only with all its artifacts; one narrative
  per lineage; only a draft with a PASS is published; no stage message is lost;
  an attempt resumes from whatever a crash left; an attempt ends.
* Durable turn: one run per turn; job, invocations and messages settle together;
  a waiting job is woken once its run has settled; a turn settles.
* Scheduler: one run per definition and date, of what is defined; nothing due is
  dropped.
* Worker loop: whatever arrives, runs, turns, due definitions and deliveries are all
  served.
* Delivery: one row per update; every terminal answer is sent or given up, and said
  to be sent only if it was.
* Team runtime: no budget is exceeded by concurrent calls; a caller resumes only when
  its last child has ended; what is completed stays so when the program is replayed.
* Chat agent: an answer speaks of runs of the scope asked about or attached, says what
  they are when it is given, and a turn ends once.
* Report pipeline: the figures of a run are those of the warehouse when it was
  queued; they agree with one another, every citation leads to its figure, no
  notable change is lost, no stage refuses what the same code stored.
* Browser: a draft is one turn; no overtaken answer shows what is of another conversation
  or makes an ended job, run or activity look unfinished; what was begun is shown to its end.

## 2. Modules

| Module | Models | Lines it stands for |
| --- | --- | --- |
| `RunContract` | the promise of the run queue, with no worker, lease or clock | – (abstract) |
| `RunLifecycle` | the run queue, the workers that dispatch from it and the reply | lease, run, fail and terminal repositories, dispatcher, loop |
| `RunLifecycle_proofs` | theorems about `RunLifecycle` | – |
| `TurnContract` | the promise of a durable turn | – (abstract) |
| `DurableTurn` | the queue of turns: job, messages, invocations, linked run | agent execution repository, turn dispatcher, projection, terminal repository |
| `DurableTurn_proofs` | theorems about `DurableTurn` | – |
| `StageCheckpoints` | one run's stages over its attempts | `agents/analysis`, checkpoint repository, publication |
| `StageCheckpoints_proofs` | theorems about `StageCheckpoints` | – |
| `Scheduling` | definitions, occurrences, the tick | schedule repository, `domain/scheduling`, schedules panel |
| `ExternalDelivery` | webhook, outbox, dispatch | channel repository, delivery worker, Telegram adapter and route |
| `Background` | the worker loop, composing the two | `worker/run-loop.ts`, `scheduler.ts`, `main.ts` |
| `MCBackground` | a clock and initial states for TLC | – |
| `Background_proofs` | theorems about `Scheduling` and `ExternalDelivery` in `Background` | – |
| `TeamRuntime` | delegation, budgets, activity | `agents/runtime/team`, activity of the workspace repository |
| `MCTeam` | the programs and budgets of `executeTeam` | `team-workflow.ts`, `definitions.ts` |
| `TeamRuntime_proofs` | theorems about `TeamRuntime` | – |
| `AgentTurn` | one execution of a chat turn | `agents/runtime`, `agents/chat` |
| `ChatClient` | the chat page | hooks of `features/agent-chat`, conversation routes and repository |
| `RunPane` | a run in the browser and its event stream | run hooks, `durable-event-stream.ts`, `runtime-workspace.ts` |
| `Conversation` | the three side by side: they meet through stored rows only | – (composition) |
| `Conversation_proofs` | theorems about `AgentTurn`, and `ChatClient` and `RunPane` in `Conversation` | – |
| `MCConversation` | runs, faults and initial states for TLC | – |
| `InventoryMetrics` | `analyze()` and `compare()` as operators | `semantic` |
| `VisualEvidence` | the ten charts and their evidence paths | `chart-builder.ts` |
| `DecisionPack` | hotspots, entities, actions, brief, the pack's schema | `domain/decision-intelligence`, `semantic/decisions` |
| `ReportPipeline` | import, run creation, every stage, publication | `stages`, `specialists`, `domain/workflow-validation`, `domain/reports`, narrative providers |
| `MCReports` | files, requests and thresholds for TLC | – |
| `Figures_proofs` | lemmas about the operators of `InventoryMetrics`, `VisualEvidence` and `DecisionPack` | – |
| `ReportPipeline_proofs` | theorems about `ReportPipeline` | – |

### RunLifecycle

`status`, `attempt`, `fencing_token`, `worker_id`, `lease_left` are the columns of
`runs`; `lease_left` is `lease_until` less the current time. `reply` is the status of
the assistant message, `report` and `staged` what publication reads and writes.
`leases` are the lease *objects* that live processes still hold. It is a set, not
a function of the worker, because a tool that outlived its dispatch keeps the
object after the dispatch is over, and the same worker may meanwhile hold a newer
one. `active[w]` is what the loop of `w` is dispatching.

Each transaction takes the run's row lock first, so it is one action:
`ClaimNextRun` (fresh claim, reclaim, or rejection for attempts or membership),
`RenewRunLease`, `CompleteStages`, `DispatchSucceeds` (either publication),
`DispatchFails`, `CancelRun`, `RetryRun`. `DispatchAbandons` is the swallowed error of
`failRun`; `BackgroundEnds`, `Crash`, `ChangeMembership` and `Tick` are the
environment. Every operation that reads a clock takes an offset of at most
`Skew`, chosen anew each time.

The candidate of a claim is *any* claimable row: rows are taken oldest first but
`SKIP LOCKED` passes over those another transaction holds. The stages of an attempt
are one step here (`CompleteStages`), since their order is the subject of the other
module. `fenceRun` checks the *creator's* membership.

### StageCheckpoints

`task`, `artifact`, `told` and `published` are rows; `pc` and `thrown` are the memory of
the current owner and vanish with it. There is one owner, which is what
`SingleOwner` of `RunLifecycle` provides. The steps are the eight stages of
`AGENT_WORKFLOW_DAG` (coordinator and data share one function), the publication, and
for a draft sent back `revision` and `recheck`. A step goes idle → store → mark/tell
→ done; each transition is one transaction of the code. `...Problem` operators
collect what a stage refuses to continue from, in the order the code tests it.
The three branches interleave. `Fault` and `TimeOut` are a failing call and a tool
that gives up while its stage goes on; `Reclaim` is the claim after a crash or a
lost lease.

Payloads are one value: the narrative they rest on, a verdict, or "data" for
everything computed from rows pinned to the run. Validators that compare
contents are therefore left to `ReportPipeline`; they compare a stored payload with one
rebuilt from the same stored inputs. Simplifications, each a superset of the code's
behaviour or commuting with it: `FailRun` may commit while sibling branches still
work (in the code only after they timed out); a branch that has not begun when
a sibling throws does not begin (its writes would change nothing later steps
read); publication's second marking of report and reviewer is left out, as both
ran in the same attempt.

### DurableTurn

`job` is the row of `agent_turn_jobs`, `answer` and `asked` the status of the two
messages, `inv` the tree of invocations: the root, the capability reads a plan
contains (`Reads`) and the personas of a run (`Personas`). `run` is the linked run as
the turn sees it: `none`, `open`, then how it settled. That is the `phase` of
`RunContract` without reopening, since `retryRun` refuses a run that a job is linked
to. `active[w]` is the lease a worker dispatches and `step[w]` how far its plan is.

One claim is one transaction with two effects: it wakes one waiting job whose run
has settled, then takes or rejects any claimable job, perhaps another one (`Claim`,
`RejectClaim`, both over a choice `woken`). A dispatch is a sequence of fenced
transactions: `BeginRead`, `StartRead`, `EndRead`, `FinalizeExecution`, `StartAnalysis`,
`ResumeAnalysis`, `FailTurn`; `Stop` is its death or an end that writes nothing. The
plan comes from a language model, so each attempt may read other steps than the last
or turn to an analysis; this is what leaves reads of lost attempts in the tree.
`FinalizeExecution` with `cancelled` is the abort after a failed heartbeat.

`RunSucceeds` and `RunEnds` are the turn's side of publication and `terminalizeRun`;
`StageMoves` is the projection of a run's stages on a persona, any status the
aggregation can return. Left out: the event log, the checks of stored artifacts
in `resumeAnalysis` (they can only make it throw, which is `FailTurn`), and the
branch of it for failed runs, which `RunAgrees` shows to be unreachable.

### Scheduling, ExternalDelivery, Background

`def` and `occ` are the rows of definitions and occurrences; an occurrence stands for
its run, as both are inserted together. A time zone is what the code uses it for, the
date and time its wall shows at each minute (`Clock`). `CreateDefinition`,
`UpdateDefinition`, `DeleteDefinition`, `TriggerDefinition` and `Tick` are the
transactions of the schedule repository; `TickBlocked` is the tick that rolls back
because one due definition cannot make its run. `hook`, `answer`, `row`, `dispatch` and `heard`
follow one Telegram update: the webhook's two transactions, the outbox row with its
attempts and lease, the three calls of a dispatch, and how often the chat heard the
answer. Each call may fail, and the send may fail with the message taken.

`Background` is the loop: `TickWhenDue`, `ClaimWork` (the two queues in turn), then
`TakeDelivery` and `DispatchDelivery`. An error of the tick, of a claim or of a delivery's
last call ends the process (`Crash` as well), and `Restart` starts it again. A claimed turn
or run is one step here. The two components share nothing but the loop, so the
initial states of `MCBackground` let one of them rest.

### TeamRuntime

`call` is the invocation in memory (idle, refused, asking, calling, preparing,
working, returned, failing, resuming, settled), `group` how far a program is, `used` what the
budgets have admitted, `rows` and `messages` the run's activity in the database. A
program is a map from a step to the groups of steps it delegates, one group after
the other, the steps of a group at once. `DelegateGroup` admits what the budgets
have room for, in any order; `Written` is the rule that a completed row is never
rewritten; `LastInFlight` decides who puts the parent back to work. A worker may die at any
await; the next attempt (`TakeUp`) runs the whole program over the rows it finds, also
when the team had completed and only its run had not. A delegation has a time limit
(`TimesOut`): its caller is answered at once, whatever works below it gives up
(`GiveUp`), and the invocation itself writes its row afterwards (`LateEnd`), possibly when its
caller has ended too. The time limit of any other tool is a call that fails.
`MCTeam` gives the program of the coordinator and of two specialists, with the
budgets of the code and budgets in which one of the three kinds is short. Left out: the rows
of tools, the limit of 80 tool calls, message contents.

### AgentTurn

`at` is what the execution does next: context, plan, one capability after the
other, composition, finalization. `ctx` is the authorized context with the runs it allows,
`plan` the remaining steps, `seen` the observations, `draft` the rendered answer or
the code the turn ends with. The classification of a question is the set of tests its
words pass; a run's scope either fits or not. The provider's plan is any list of
capabilities it may name, valid or not, and it fails in the two ways the fallback
tells apart. Between any two steps runs change, the author loses the right to write,
the caller aborts or the deadline passes. `DispatchAgain` is the queue's second
dispatch of an unfinished durable turn.

### ChatClient and RunPane

`turns` is what the server stores of each submission, `wire` and `late` are requests on
their way, `ui` is the mounted page (address, open conversation, draft, retry identity,
feed, snapshot of the job), `loads`, `poll` and `frame` are reads in flight. A prompt is a
draft, which has an identity until it is edited or accepted (`Attempt`), or the
suggestion of an empty page, a new request at each click (`SubmitPrompt`); the error of a
failed submission has a button that sends it again without a draft (`Submit`). The user also
selects conversations, looks at another agent's thread and back, and cancels, which the
server refuses for a job that has ended. Answers are lost or arrive after the page has
gone. `RouteCommits` is the router mounting the page of the new address after the selection
has changed.

The messages shown are those of the feed (`use-agent-conversation.ts`), read again every
second or two and on focus without waiting for the read before. A read carries the
conversation and a generation (`CurrentFeed`); among reads of one generation what arrives
last is shown (`MergeFeed`). The status of the job is another matter: `NewerSnapshot` is the
rule of `use-agent-execution.ts`, which goes by the time the row was last written. That time
comes from the clock of the worker or of the database, so the next one may be
earlier by `ClockSkew` (`Dates`). The feed is the one of the agent the turns are addressed
to, from its newest items on.

`RunPane` is the other reader: the polling of a run's detail and the activity that is
read once or followed through the event stream. `server` is the stream's server, whose
load reads run and activity in two transactions. `frames` may be cut off anywhere.

The three modules have their own picture of what the server stores and no variable in
common, so `MCConversation` puts them side by side and lets two of them rest in each
initial state: a product of their states would add nothing.

### InventoryMetrics, VisualEvidence, DecisionPack, ReportPipeline

The first three are pure operators: selection of the latest snapshots, the summary
with its quartiles, rates and sales windows, breakdowns, periods, segments, peers,
notable changes, claim candidates and the brief; the charts with the path every mark
cites; hotspots, priority entities, actions and the schema's rules. Values are exact
multiples of 1/12, where the code rounds to six decimals. Units, zones and types are
numbers ordered as the code orders their names.

`ReportPipeline` has one action per stage: `Import`, `CreateRun` (which pins rows),
`Coordinate`, `AnalyseData`, `RunBranches`, `RunInsight`, `DraftReport`, `Review`, `Revise`,
`FailAtReviewLimit`, `Publish`. `artifacts` is the artifact graph by key, with inputs,
snapshot references, evidence and payloads; every `Valid...` and `Sound...` operator
is the validator of that name. The narrative providers answer with any selection
of claims, or fail, and a reviewer may ask for a correction of any claim or of one
that does not exist. A stage runs once here: attempts, crashes and partly stored
stages are the subject of `StageCheckpoints`. Files are imported only until the data
stage has read its rows, as nothing reads the warehouse afterwards.

## 3. Runs

| Run | Instance | Shows |
| --- | --- | --- |
| `run_lifecycle` | 1 run, 2 workers, 3 attempts, lease of 2 ticks, clocks off by 1, tokens to 4 | `TypeOK` (attempts bounded), `SingleOwner`, `ReplyAgrees`, `ResultFromLastAttempt`, `LostLeaseStaysLost`, `RunsSettle`, `ImplementsContract` |
| `stage_checkpoints` | report, insight and chart targets, 2 attempts, 2 narratives, faults | `CheckpointHonest`, `Lineage`, `PublishedReviewed`, `AllStagesTold`, `LateStagesRecover`, `AttemptsEnd` |
| `durable_turn` | 1 turn, 2 workers, 3 attempts, 2 reads, 2 personas, lease of 2 ticks | `TypeOK`, `AnswerAgrees` (job, messages and root of the tree agree), `RunAgrees`, `StepsSettle` (what an ended turn leaves live), `LostLeaseStaysLost`, `MovesAreLegal`, `TurnsSettle`, `ImplementsContract` |
| `background` | 2 definitions, 1 member, a clock of 5 minutes with a fold and a gap, 1 update, 2 workers of which 1 is supervised, 2 attempts, 2 faults | `SlotsHonest` (once per date, of what is defined), `OutboxHonest`, `NoSlotDropped`, `AllServed` |
| `team` | the program of the coordinator and of two specialists, the budgets of the code and short ones, 2 attempts, 2 faults | `BudgetsKept`, `WaitingHonest`, `CompletedIsFinal`, `TeamSettles` |
| `conversation` | 2 runs, three families of questions, 2 dispatches, 2 faults; 2 submissions, 2 conversations, pages of 1 event, 2 reads of the feed at once, clocks off by 1; a run with 2 activity events in pages of 1 | `AnswerGrounded`, `AnswerCurrent`, `OnePerPrompt`, `NeverRegresses`, `AllSettle` |
| `reports` | 7 files over half a year, up to 3 imported, 3 requests | `PinnedIsEnough`, `FiguresAgree`, `ChangesTold`, `CitationsHold`, `AcceptsOwn`, `ReportSound` |
| `stage_resume` | 2 attempts, crashes only | violated: `ResumesFromCheckpoints` |
| `insight_retry` | 2 attempts, crashes only | violated: `InsightRetrySafe` |
| `job_status` | the instance of `conversation` | violated: `TerminalNotVetoed` |
| `terminal_tail` | the instance of `conversation` | violated: `TerminalDrained` |
| `pack_accepted` | the instance of `reports` | violated: `PackAccepted` |

Every property of a passing run has a mutant: a definition changed the way a bug in its
code would change it, with which the same run fails. Two runs list their type invariant;
the others are proved, so that the runs answer only for what could go wrong.

**Bounds.** Two workers are enough for an old and a new owner; the third attempt
is the code's limit. A lease of two ticks with clocks off by one has a moment at
which the owner believes in its lease and a claimant does not. `MaxToken` only
stops *users* from cancelling and retrying for ever; workers are not bounded by
it. Two attempts show every crash point once and, with faults, combinations of a
fault and a crash. Two narratives are the least that can differ. The insight target has
every branch and the partial publication, the chart target the shortest plan. A turn
needs two read steps for attempts to plan differently, and two personas for a mixed
projection; its tokens need no bound, as attempts end.

The clock shows one local time twice on a date and skips it on the next, which is all
a zone can do to a daily time; of two definitions due at the same minute one has no data
and blocks the tick of the other. One update is enough, since every identity of the channel is a function of its
update. Two faults allow a lost call and the failure of what handles it. The
team's program is the one of the code; a budget short of one kind makes that limit
refuse. Two runs are the least an answer could confuse, two steps of a plan and two
dispatches the least between which something can change. Two submissions show an
identity reused and one that must not be; a page of one event makes every answer
a page behind. Two reads of the feed are the least that can overtake each other, and
clocks off by one the least by which a later write is dated earlier. A zone or a type with one unit and one with several, ages on both sides of
every bucket, a correction, a row of the next day and a move between zones are the cases the
calculations tell apart; three files let a late one fall before or after the pinned day.

**Fairness.** `RunLifecycle`: time passes; an idle worker loop claims again
(`run-loop.ts` is an endless loop with a sleep of 500 ms); a dispatch ends, since
every tool and provider call has a time-out; background work ends for the same
reason. Crashes, users and administrators owe nothing. `StageCheckpoints`: weak
fairness of the worker's own steps together; no stage is promised to succeed.
`DurableTurn`: some worker polls, a dispatch ends (a turn has a
deadline of 45 s), the linked run settles (`RunsSettle` of `RunLifecycle`), time
passes; nothing is assumed of read steps, users or administrators.
`Background`: each loop goes on, a worker of `Supervised` is started again when it
has ended and no other is (an assumption about operation: the repository configures no
restart, and without one a single error of a tick or claim stops everything), turns
end, leases lapse. Members and the browser owe nothing, and `AllServed` is promised only if the tick is not blocked for ever.
`TeamRuntime`: calls and programs go on, and a run whose worker died is taken up while
attempts are left. `AgentTurn`: the execution goes on, as every call has a deadline, and the queue
dispatches again. `ChatClient`, `RunPane`: timers fire (`PollFeed` every second or two), requests
are answered or lost (`FeedServed`, `FeedAnswered`, `PollAnswered`; losses are bounded), turns
and runs end; of the user and of the event stream nothing is assumed.
`CHECK_DEADLOCK FALSE` is set where the system comes to rest: a settled run
(`StageCheckpoints`, `TeamRuntime`, `ReportPipeline`), a finished conversation, and a
background with nothing to do and no worker left.

## 4. Proofs

Eight modules of proofs: seven of theorems about a module or composition, and the lemmas
about calculations, `Figures_proofs`. Every invariant and every action property of a passing
run has its theorem. Each states, for
every value of the constants that its module's `ASSUME` admits, `Spec => []TypeOK`,
the safety invariants its run checks and its action properties. Where a module has
fairness, the theorems are about its initial states and steps alone. They start from the states the program
starts in (`TurnInit`, `ClientInit`, `PaneInit`, `Scheduling`'s and the team's own), where some
instances for TLC start further on. `Invariance` is the theorem that the strengthened
invariant of the module is kept; the others follow from it.

**`RunLifecycle_proofs`.** `TypeCorrect`, `SingleOwnerHolds`, `ReplyAgreesHolds`,
`ResultFromLastAttemptHolds`, `LostLeaseStaysLostHolds`, and `ContractImplemented`: every
behaviour implements `RunContract`, with `phase` and `attempt` as the refinement mapping.
Assumed: a skew smaller than the lease. `IInv` adds *tokens bounded* (no lease object has a
token above its row's), *tokens unique* (two lease objects of one run with the same token are
the same object), *active held* (what a loop dispatches is among the lease objects, under
its own worker) and *running was claimed*. An owner's token equals the row's, so two owners
of a run have equal tokens and are one object; a claim keeps this because it raises
the token above every existing one. That clocks play no part shows in the proof:
`Fence` is used only through its token and status.

**`DurableTurn_proofs`.** `TypeCorrect`, `AnswerAgreesHolds`, `RunAgreesHolds`,
`StepsSettleHolds`, `MovesAreLegalHolds`, `LostLeaseStaysLostHolds`, and
`ContractImplemented` (of `TurnContract`). The argument is made one turn at a time: a
transaction does one of eleven things to each turn, and answer, run, tree, moves and contract
are case splits on those. `IInv` adds `OpenSteps`: no read of an open turn has failed, and its personas come and
complete with its run. Without it, a turn finalised after its run succeeded could leave a
persona open. Fencing is a separate argument over rows and tokens (`RowStep`).

**`StageCheckpoints_proofs`.** `TypeCorrect`, `CheckpointHonestHolds`, `LineageHolds`,
`PublishedReviewedHolds`, `AllStagesToldHolds`, `LateStagesRecoverHolds`, for any targets,
narratives and number of attempts. The five need each other and are one invariant, with:
the order in which the steps of an attempt wait for one another; what a step that has stored
has stored; that what succeeded in this attempt stays so until a later step blames it
(`TasksCurrent`); and what a step knows of the verdicts once it has begun. A crash
empties the memory and so makes each of these easier; what survives it is only what
is about rows.

**`TeamRuntime_proofs`.** `TypeCorrect`, `BudgetsKeptHolds`, `WaitingHonestHolds`,
`CompletedIsFinalHolds`, for any programs in which a step is delegated by one group
and never by its own agent, and any budgets that admit the first step. Time-outs make two
things of a delegation, the answer its caller has and the invocation that goes on
below it; the invariant says of each how far the other may be. `Within(used)` is kept because steps
are admitted one after the other. That the team is shown completed only after every
step needs an induction up the delegations, which is made without induction: every set of used
steps has one whose parent is not in the set (`UsedWellFounded`), and the steps that
have not answered are such a set.

**`Background_proofs`.** `TypeCorrect`, `SlotsHonestHolds`, `OutboxHonestHolds`,
`NoSlotDroppedHolds`, for any clock whose dates do not run backwards (local times may).
Two occurrences of a definition on one date have different slots that both show its time
(`Shows`), so the wall shows an earlier time in between, and that is what
`SlotsHonest` allows. For the outbox, `HeardCharged` counts what the chat has heard together with the dispatches
that may still reach it: no more than the attempts charged to the row.

**`Conversation_proofs`.** Of a turn's execution: `TurnTypeCorrect`, `AnswerGroundedHolds`,
`AnswerCurrentHolds`, for any runs, requests, plans and selections. `ContextFits` says the
context names only runs of the scope and date or attached by the author, `ShownFits` that the
draft and the answer show no other, and two only in a comparison. Of the browser:
`ClientTyped`, `PaneTypeCorrect`, `OnePerPromptHolds`,
`NeverRegressesHolds`, for any number of submissions, moves and lost answers and any size of
activities and pages, any number of reads at once and any difference of clocks. `OnePerPrompt` is
about the server and holds because of the page: no draft is submitted under two
identities, and a draft that is not a submission's own differs from all of them
(`FreshDraft`). `NeverRegresses` needs that every read in flight holds messages of its own
conversation (`GoodRead`), that screen and page are of what the server has accepted, and
that a started turn keeps its conversation (`Onward`). The pane's cursors, marks
and frames are bounded by the activity stored (`FollowedBy`), which only grows.

**`ReportPipeline_proofs`.** `TypeCorrect`, `PinnedIsEnoughHolds`, `DatedHolds`,
`ReportSoundHolds`, `CraftedHolds`, `AcceptsOwnHolds`, `CitationsHoldHolds`,
`ChangesToldHolds`, `FiguresAgreeHolds`, for any finite files, any request day, zone and
threshold, and any answers of providers and reviewers. Assumed: days and thresholds are
numbers, and a field left empty is none (`NullIsNoNumber`). That a row is as
`SnapshotRowSchema` has it is not assumed: `ParseCsv` refuses a file with any other row. The
invariant has two layers.

* *The rows* (`IInv`). The rows of a warehouse (`Warehouse`) are finitely many and in a
  hierarchy, which imports keep because they check a file against all that is stored. A
  unit's last row on a day is then in the project whenever any row of it is, so it is
  pinned: the pinned rows give the same latest rows, on the day and on the days compared with,
  and the same coverage (`LatestPinned`, `CoveragePinned`). `Kept` carries the calculation
  and its snapshots through every later stage. `DatedHolds` is the part of `FiguresAgree`
  about time.
* *What is made of them* (`Crafted`). `Made` says, for every completed stage, which artifacts
  there are, from which inputs and with which payload: charts, claims, findings, hotspots
  and entities are those of the calculation of the pinned rows, a draft tells the findings,
  a review reports on its draft. `Lineage` is the closure of the inputs, proved to reach
  the data pack and through it the pinned snapshots. `AcceptsOwn` is then one lemma for each
  validator (`DataValid`, `BranchesValid`, `InsightValid`, `DraftValid`, `ReviewValid`,
  `ReadyGraph`): it accepts what `Made` describes. `CitationsHold`, `ChangesTold` and
  `FiguresAgree` follow from `Made` and the lemmas about calculations.

**`Figures_proofs`.** For any finitely many rows that imports may leave: a number has as many
places as there are elements and each is taken once (`Ranked`, `Placed`), a quartile exists
and is not below a lower one (`QuartileGrows`), no share exceeds the whole
(`RatesBounded`), every chart cites what it shows (`ChartsValid`), hotspots are the largest
values and cite them (`HotspotsOrdered`, `HotspotsCited`), entities and concentration are
cited by the position they really have (`EntitiesCited`, `ConcentrationCited`), and every
change is listed under its strongest severity (`CandidatesKept`, `PolicyChangesNotable`).

Two definitions are recursive functions, the sum of `PartsAddUp` (`Total`) and the closure
of inputs. The induction theorems of the library take the formula to be proved as an
operator, so what they compute is proved by a least counterexample instead: among
finitely many numbers for which a claim fails one is the least, and the one before it
contradicts it (`ClosureDefined`, `ClosureReaches`, `SumsAgree`). `Totals` is the result:
the sizes of the classes a function divides a finite set into add up to the size of the set.

**Only model-checked.** Liveness (`RunsSettle`, `AttemptsEnd`, `TurnsSettle`, `AllServed`,
`TeamSettles`, `AllSettle`): it needs fairness and `ENABLED`, which are beyond TLAPS. The
runs that expect a violation are about an instance each. The theorems are about the
initial states the program starts in; that the instances for TLC which start further on do so in
reachable states is not proved.

## 5. What disagrees, and what to know

* `stage_resume`: `docs/architecture/execution-model.md` promises that a new owner
  continues from valid checkpoints and artifacts. If the worker dies between the
  last artifact of the coordinator or data stage and the task that marks it, the
  next attempt refuses the artifacts and the run fails for good.
* `insight_retry`: a comment calls the insight stage retry-safe; dying between
  `insight_pack` and `decision_intelligence_pack` makes it refuse.
* `job_status`: a comment of `use-agent-execution.ts` says that a shorter page cannot veto a
  newer job status, especially its terminal state. The line before vetoes by
  `updated_at` alone, and that is written by two clocks: the page that brings the end of a
  job is dropped when it is dated before the last renewal, and the polling stops with it, so
  the job is shown active with nobody asking. With clocks that agree (`ClockSkew = 0`) the
  run finds nothing; `TurnShown` holds in either case, as the answer is in the feed.
* Not a disagreement but worth knowing, and written into `StepsSettle`: a read begun by
  a lost attempt stays live. It makes a later direct answer fail
  (`INVOCATIONS_PENDING`), makes a specialist turn fail although its run succeeded,
  and under a completed full analysis it stays `queued` or `running` for ever.
* `terminal_tail`: the API document says that an event stream tells `terminal` when all
  pages are drained. The stream of a run reads the run and its activity in two
  transactions and may end before the last events. The pane is not left without
  them, as it reads once more when the detail turns inactive (`AllSettle`).
* `pack_accepted`: a defect. Hotspots are the three largest values of all breakdowns,
  whatever their metrics and units, but the entities made of them are named
  after the zone or unit type alone. In a scope of one zone and one unit type two of
  the three share a name, the pack's own schema refuses it with "Duplicate identifier",
  and the run fails after its insight is stored. The test project has two zones and one
  type, which is one segment more than the defect needs.

Not runs, but worth knowing; the models contain them as the code has them:

* The diagram of `execution-model.md` shows running → queued when a lease expires. The
  row stays `running` until it is claimed again.
* Chat agent: `errorCode()` does not know the errors of grounding, so an answer that fails
  its validation ends as `PROVIDER_UNAVAILABLE`; the last `return this.finalize(...)` of
  `executeTurn` is not awaited inside its `try`, so an error of it is not handled there; a direct turn
  whose process dies stays in progress for ever, as does one whose author lost the right
  to write; the branch that answers `UNSUPPORTED_REQUEST` to another target is never
  reached.
* `docs/workflows/failure-recovery.md` says that a waiting turn goes back to the queue when its
  run is terminal. Only after a run that succeeded: one that failed or was cancelled ends the
  turn in its own transaction, and the code that would resume such a turn is dead
  (`RunAgrees`).
* Chat page: an older answer of the feed may replace a newer one, so that an answer
  already shown is in progress again until the next read; `docs/agent-experience-plan.md` says
  that guards of the response's generation prevent it, but the generation is the
  conversation's, not the response's. `NeverRegresses` therefore claims nothing of a
  message's status, and `TurnShown` that it is final in the end. A suggestion clicked
  again after its answer was lost is a second turn (`OnePerPrompt` says so); the acceptance
  of a suggestion or of a retry clears a draft written before. Choosing the
  conversation that is already open forgets the retry but keeps the draft, so sending
  the same draft makes a second turn; the acceptance of a page already left moves the address if that is still the empty chat.
* Run pane: while no detail is loaded the activity is read once and not followed; it
  stays as it was if the run ends before the first successful poll (`PaneShown` leaves that
  case out by name).
* Decision pack: the policy's rules for `slow_moving_units` and `median_price` never
  fire, as these metrics are not in `period_comparisons`; "notable" means 20 % or ten
  points, "material" in the policy only points, so a brief may be called stable whose
  headline is a deterioration; an open action may collect more evidence than its schema
  has room for when very many changes fire.
* Import: `bedrooms` is not a column of the CSV, so that breakdown has one group; the
  branch for line charts with fewer than two points is never taken; the registry
  describes `snapshot_coverage` with another denominator than the code divides by.
* Review: a review that found a coverage gap or a broken draft projection would be refused
  by `validateReviewResultArtifactCore` after it was stored; neither can arise
  from artifacts the same code built (`AcceptsOwn`).

## 6. Plan

Done: the queue, stages, durable turns, schedule, outbox and worker loop, team, chat
agent, chat page, run pane and report pipeline, each with the theorems of section 4.
Nothing a run checks as an invariant or action property is left to prove. What would come next:
that a turn of `DurableTurn` is linked to a run of `RunLifecycle` and not only to its outcome,
and that the stages of `StageCheckpoints` store what those of `ReportPipeline` calculate; both
are joined here by what they agree on, the states of a run and the keys of its artifacts.

**Not modelled.** Rendering, formatting and wording on both sides; parsing of
configuration; the schema's row-level policies, which repeat what each transaction checks;
reports shared by link and single-row settings; scripts run by hand, of which
`reconcile-stalled-turn` repairs direct turns; the HTTP calls to providers. Known gaps of modelled
parts: in the browser, `submitSignalAction` (which nothing in the repository calls), older
pages of the feed, a feed opened at one item, the window of its newest thirty, what a refused
read does to it, the feeds of other agents, and the list of `use-messages`, which for a selected
conversation only chooses the run to follow and reports a failed synchronisation; in the
reports, the size limits of the pack schemas (`workflow-packs.ts`: 2000 evidence
references, 100 limitations, 40 entities and actions, 20 000 snapshot references, and the like)
and the 20 000 rows a snapshot query may return, so `AcceptsOwn` is claimed below them only;
everywhere, row locks and the order in which `startTurn`, `startAgentAnalysis` and publication
take them (a transaction is one step, and PostgreSQL fails one of two that wait on each
other); a transient database error while a recovered stage reads its artifacts back
(`coordinator-data.ts:272`), which may mark a succeeded stage failed; signals and
shutdown of a worker; the personas on screen, which are projected from task states
without the transition table (`agent-projection.ts:46`); tool rows of the
activity, its limit of 500 rows and the limit of 80 tool calls; rounding to six decimals.
