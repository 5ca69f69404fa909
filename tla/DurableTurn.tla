---------------------------- MODULE DurableTurn ----------------------------
(***************************************************************************)
(* A durable chat turn: the job row that queues it (agent_turn_jobs), the  *)
(* pair of messages it answers, the tree of invocations it shows, and the  *)
(* analysis run it may start and then wait for.                            *)
(*                                                                         *)
(* Each repository operation is one transaction that locks the job row     *)
(* first.  A worker's dispatch of a claimed job is a sequence of them:     *)
(* anything may happen in between, and it may stop after any of them.  A   *)
(* dispatch plans with a language model, so what one attempt plans need    *)
(* not be what the attempt before it planned.                              *)
(*                                                                         *)
(* The run is seen from the turn: open until it settles, whatever          *)
(* RunLifecycle says happens to it in between (retryRun refuses a run that *)
(* a job is linked to).  Clocks agree here; RunLifecycle has their skew.   *)
(* The operations complete and waitForRun have no caller in the program.   *)
(***************************************************************************)
EXTENDS Integers, FiniteSets

CONSTANTS
    Jobs,          \* durable turns
    Workers,       \* worker processes (worker_id)
    Reads,         \* step keys of the capability reads a plan may contain
    Personas,      \* step keys of the personas of an analysis run
    MaxAttempts,   \* 3 in the code
    LeaseTicks,    \* leaseMs = 30000, in ticks
    None           \* SQL NULL

ASSUME ConstantsAssumption ==
    /\ MaxAttempts \in Nat \ {0}
    /\ LeaseTicks \in Nat \ {0}
    /\ Reads \cap Personas = {}
    /\ "root" \notin Reads \cup Personas
    /\ None \notin Workers

VARIABLES
    job,          \* the rows of agent_turn_jobs
    run,          \* "none" while run_id is null, else the linked run's state
    answer,       \* status of the assistant message
    asked,        \* status of the user message
    inv,          \* agent_invocations: turn -> step key -> status
    specialist,   \* whether the request targets a specialist's artifact
    member,       \* whether the turns' author may write in the organisation
    active,       \* worker -> the lease it is dispatching, or None
    step          \* worker -> "planning", "reading", or the read step it is at

vars == <<job, run, answer, asked, inv, specialist, member, active, step>>

Keys == {"root"} \cup Reads \cup Personas
Live == {"queued", "running", "waiting"}
Ended == {"completed", "failed", "cancelled"}
Expired == -1

Row == [status : {"none"} \cup Live \cup Ended, attempt : 0 .. MaxAttempts,
        token : Nat, worker : Workers \cup {None}, lease_left : Expired .. LeaseTicks]
Leases == [job : Jobs, token : Nat]

(* Types, and two constraints of the schema: at most MaxAttempts attempts, *)
(* and a worker and a lease exactly while the job is running.              *)
TypeOK ==
    /\ job \in [Jobs -> Row]
    /\ \A j \in Jobs : (job[j].status = "running") <=> (job[j].worker # None)
    /\ run \in [Jobs -> {"none", "open", "succeeded", "failed", "cancelled"}]
    /\ answer \in [Jobs -> {"none", "in_progress"} \cup Ended]
    /\ asked \in [Jobs -> {"none", "submitted", "completed"}]
    /\ inv \in [Jobs -> [Keys -> {"none"} \cup Live \cup Ended]]
    /\ specialist \in [Jobs -> BOOLEAN]
    /\ member \in BOOLEAN
    /\ active \in [Workers -> Leases \cup {None}]
    /\ step \in [Workers -> {"planning", "reading"} \cup Reads]

Init ==
    /\ job = [j \in Jobs |-> [status |-> "none", attempt |-> 0, token |-> 0,
                              worker |-> None, lease_left |-> Expired]]
    /\ run = [j \in Jobs |-> "none"]
    /\ answer = [j \in Jobs |-> "none"]
    /\ asked = [j \in Jobs |-> "none"]
    /\ inv = [j \in Jobs |-> [k \in Keys |-> "none"]]
    /\ specialist \in [Jobs -> BOOLEAN]
    /\ member = TRUE
    /\ active = [w \in Workers |-> None]
    /\ step = [w \in Workers |-> "planning"]

-----------------------------------------------------------------------------
(* What the operations share *)

(* The row is still leased to w under the token it was given. *)
Owns(w) ==
    /\ active[w] # None
    /\ LET row == job[active[w].job]
       IN  /\ row.status = "running" /\ row.worker = w
           /\ row.token = active[w].token
           /\ row.lease_left > 0

(* Mutant: nobody looks at lease_until. *)
FencedForever(w) ==
    /\ active[w] # None /\ member
    /\ job[active[w].job].status = "running" /\ job[active[w].job].worker = w
    /\ job[active[w].job].token = active[w].token

(* fencedJob, which also asks whether the author may still write. *)
Fenced(w) == member /\ Owns(w)

(* A row that is nobody's, in the given status. *)
Released(row, status) ==
    [row EXCEPT !.status = status, !.worker = None, !.lease_left = Expired]

(* The same by somebody who need not be its worker: the next token fences  *)
(* off a dispatch that still holds the last one.                           *)
Revoked(row, status) == [Released(row, status) EXCEPT !.token = row.token + 1]

(* Mutant: steps already settled are rewritten too. *)
AllEnded(steps, outcome) ==
    [k \in Keys |-> IF steps[k] = "none" THEN "none" ELSE outcome]

(* The update every ending makes: what is still live takes the outcome. *)
LiveEnded(steps, outcome) ==
    [k \in Keys |-> IF steps[k] \in Live THEN outcome ELSE steps[k]]

(* Mutant: the messages are left as they are. *)
MessagesKept(j, outcome) == UNCHANGED <<answer, asked>>

(* terminalMessages: an answer in progress takes the outcome; the question *)
(* has been dealt with.                                                    *)
TerminalMessages(j, outcome) ==
    /\ answer' = [answer EXCEPT ![j] = IF @ = "in_progress" THEN outcome ELSE @]
    /\ asked' = [asked EXCEPT ![j] = "completed"]

(* The worker's dispatch is over. *)
Leave(w) ==
    /\ active' = [active EXCEPT ![w] = None]
    /\ step' = [step EXCEPT ![w] = "planning"]

(* A dispatch that owns job j ends it, and itself. *)
EndTurn(w, j, outcome) ==
    /\ job' = [job EXCEPT ![j] = Released(@, outcome)]
    /\ TerminalMessages(j, outcome)
    /\ Leave(w)
    /\ UNCHANGED <<run, specialist, member>>

-----------------------------------------------------------------------------
(* enqueue and claim *)

(* The message pair, the job and its root invocation, in one transaction;  *)
(* sending the request again finds the job that is there.                  *)
Enqueue(j) ==
    /\ job[j].status = "none"
    /\ member
    /\ job' = [job EXCEPT ![j].status = "queued"]
    /\ answer' = [answer EXCEPT ![j] = "in_progress"]
    /\ asked' = [asked EXCEPT ![j] = "submitted"]
    /\ inv' = [inv EXCEPT ![j]["root"] = "queued"]
    /\ UNCHANGED <<run, specialist, member, active, step>>

(* Mutant: a waiting job is woken whatever its run is doing. *)
ReadyAnyRun == {j \in Jobs : job[j].status = "waiting"}

(* Mutant: the claim no longer looks for jobs whose run has ended. *)
NeverReady == {}

Ready ==
    {j \in Jobs : job[j].status = "waiting"
                  /\ run[j] \in {"succeeded", "failed", "cancelled"}}

(* Before it picks a job, the claim wakes one waiting job if it can. *)
Wakings == IF Ready = {} THEN {{}} ELSE {{j} : j \in Ready}

WokenRow(j, woken) == IF j \in woken THEN [job[j] EXCEPT !.status = "queued"] ELSE job[j]

WokenSteps(j, woken) ==
    IF j \in woken THEN [inv[j] EXCEPT !["root"] = "queued"] ELSE inv[j]

(* Oldest first in the code; which row that is, once locked rows are       *)
(* skipped, is open.                                                       *)
Claimable(j, woken) ==
    \/ WokenRow(j, woken).status = "queued"
    \/ WokenRow(j, woken).status = "running" /\ job[j].lease_left < 0

(* Mutant: one attempt too many. *)
ExhaustedLate(j) == job[j].attempt > MaxAttempts

Exhausted(j) == job[j].attempt >= MaxAttempts

Claim(w, j, woken) ==
    /\ active[w] = None
    /\ woken \in Wakings
    /\ Claimable(j, woken)
    /\ ~Exhausted(j) /\ member
    /\ job' = [i \in Jobs |->
                 IF i # j THEN WokenRow(i, woken)
                 ELSE [status |-> "running", attempt |-> job[j].attempt + 1,
                       token |-> job[j].token + 1, worker |-> w,
                       lease_left |-> LeaseTicks]]
    /\ inv' = [i \in Jobs |->
                 IF i # j THEN WokenSteps(i, woken)
                 ELSE [inv[j] EXCEPT !["root"] = "running"]]
    /\ active' = [active EXCEPT ![w] = [job |-> j, token |-> job[j].token + 1]]
    /\ step' = [step EXCEPT ![w] = "planning"]
    /\ UNCHANGED <<run, answer, asked, specialist, member>>

(* MAX_ATTEMPTS or MEMBERSHIP_REVOKED: the job fails where it is found, and *)
(* the claim returns nothing.                                               *)
RejectClaim(w, j, woken) ==
    /\ active[w] = None
    /\ woken \in Wakings
    /\ Claimable(j, woken)
    /\ Exhausted(j) \/ ~member
    /\ job' = [i \in Jobs |->
                 IF i # j THEN WokenRow(i, woken)
                 ELSE Revoked(job[j], "failed")]
    /\ inv' = [i \in Jobs |->
                 IF i # j THEN WokenSteps(i, woken)
                 ELSE LiveEnded(WokenSteps(j, woken), "failed")]
    /\ TerminalMessages(j, "failed")
    /\ UNCHANGED <<run, specialist, member, active, step>>

Renew(w) ==
    /\ Fenced(w)
    /\ job' = [job EXCEPT ![active[w].job].lease_left = LeaseTicks]
    /\ UNCHANGED <<run, answer, asked, inv, specialist, member, active, step>>

-----------------------------------------------------------------------------
(* The dispatch of a turn without a run: plan, read, answer *)

(* createInvocation returns the row an earlier attempt left for this step. *)
BeginRead(w, k) ==
    /\ Fenced(w)
    /\ LET j == active[w].job
       IN  /\ run[j] = "none"
           /\ step[w] \in {"planning", "reading"}
           /\ inv' = [inv EXCEPT ![j][k] = IF @ = "none" THEN "queued" ELSE @]
    /\ step' = [step EXCEPT ![w] = k]
    /\ UNCHANGED <<job, run, answer, asked, specialist, member, active>>

(* setInvocationStatus to 'running', unless the step completed earlier. *)
StartRead(w) ==
    /\ Fenced(w)
    /\ step[w] \in Reads
    /\ inv[active[w].job][step[w]] = "queued"
    /\ inv' = [inv EXCEPT ![active[w].job][step[w]] = "running"]
    /\ UNCHANGED <<job, run, answer, asked, specialist, member, active, step>>

(* The capability has returned: setInvocationStatus to 'completed'. *)
EndRead(w) ==
    /\ Fenced(w)
    /\ step[w] \in Reads
    /\ inv[active[w].job][step[w]] \in {"running", "completed"}
    /\ inv' = [inv EXCEPT ![active[w].job][step[w]] = "completed"]
    /\ step' = [step EXCEPT ![w] = "reading"]
    /\ UNCHANGED <<job, run, answer, asked, specialist, member, active>>

Pending(j) == \E k \in Reads \cup Personas : inv[j][k] \in Live

(* The plan's reads are over, or it had none. *)
Answering(w) == step[w] \in {"planning", "reading"}

(* finalizeExecution.  A read that fails, a deadline or a refused answer    *)
(* ends as 'failed'; a heartbeat that failed, for whatever reason, aborts   *)
(* the provider and ends as 'cancelled'.                                    *)
FinalizeExecution(w, outcome) ==
    /\ Fenced(w)
    /\ LET j == active[w].job
       IN  /\ run[j] = "none"
           /\ outcome = "completed" => Answering(w) /\ ~Pending(j)
           /\ answer[j] = "in_progress"
           /\ inv' = [inv EXCEPT ![j] = LiveEnded(@, outcome)]
           /\ EndTurn(w, j, outcome)

-----------------------------------------------------------------------------
(* The analysis a turn may start, wait for and answer with *)

(* Run, personas, link and release of the lease commit together.  A plan   *)
(* that creates a run has that single step; reads in the tree are those of *)
(* earlier attempts.                                                       *)
StartAnalysis(w) ==
    /\ Fenced(w)
    /\ step[w] = "planning"
    /\ LET j == active[w].job
       IN  /\ run[j] = "none"
           /\ run' = [run EXCEPT ![j] = "open"]
           /\ job' = [job EXCEPT ![j] = [Released(@, "waiting") EXCEPT !.attempt = 0]]
           /\ inv' = [inv EXCEPT ![j] = [k \in Keys |->
                        IF k = "root" THEN "waiting"
                        ELSE IF k \in Personas THEN "queued" ELSE @[k]]]
    /\ Leave(w)
    /\ UNCHANGED <<answer, asked, specialist, member>>

(* syncAgentInvocationsFromRun at each stage the run saves: the persona    *)
(* shows whatever its stages add up to, not what the table of legal        *)
(* transitions allows.                                                     *)
StageMoves(j, p, shown) ==
    /\ run[j] = "open"
    /\ shown # inv[j][p]
    /\ inv' = [inv EXCEPT ![j][p] = shown]
    /\ UNCHANGED <<job, run, answer, asked, specialist, member, active, step>>

(* publishReviewedDraft or finishAgentArtifactRun, with every stage done. *)
RunSucceeds(j) ==
    /\ run[j] = "open"
    /\ run' = [run EXCEPT ![j] = "succeeded"]
    /\ inv' = [inv EXCEPT ![j] = [k \in Keys |-> IF k \in Personas THEN "completed" ELSE @[k]]]
    /\ UNCHANGED <<job, answer, asked, specialist, member, active, step>>

(* Mutant: the failed run leaves its turn waiting. *)
RunEndsAlone(j, outcome, shown) ==
    /\ run[j] = "open"
    /\ run' = [run EXCEPT ![j] = outcome]
    /\ inv' = [inv EXCEPT ![j] = [k \in Keys |-> IF k \in Personas THEN shown[k] ELSE @[k]]]
    /\ UNCHANGED <<job, answer, asked, specialist, member, active, step>>

(* terminalizeRun: the personas show where their stages stopped, and the   *)
(* turn ends with the run.                                                 *)
RunEnds(j, outcome, shown) ==
    /\ run[j] = "open"
    /\ run' = [run EXCEPT ![j] = outcome]
    /\ IF job[j].status \in Ended
         THEN /\ inv' = [inv EXCEPT ![j] = [k \in Keys |->
                           IF k \in Personas THEN shown[k] ELSE @[k]]]
              /\ UNCHANGED job
         ELSE /\ inv' = [inv EXCEPT ![j] = [k \in Keys |->
                           IF k \in Personas THEN shown[k] ELSE LiveEnded(@, outcome)[k]]]
              /\ job' = [job EXCEPT ![j] = Revoked(@, outcome)]
    /\ TerminalMessages(j, outcome)
    /\ UNCHANGED <<specialist, member, active, step>>

(* Mutant: only the personas are asked, whatever was requested. *)
PersonasOnly(j) == Personas

(* The invocations that must have completed before the answer is given. *)
Required(j) ==
    IF specialist[j] THEN {k \in Reads \cup Personas : inv[j][k] # "none"} ELSE Personas

(* resumeAnalysis.  Its branch for a failed or cancelled run is never      *)
(* taken: see RunAgrees.                                                   *)
ResumeAnalysis(w) ==
    /\ Fenced(w)
    /\ LET j == active[w].job
       IN  /\ run[j] = "succeeded"
           /\ \A k \in Required(j) : inv[j][k] = "completed"
           /\ answer[j] = "in_progress"
           /\ inv' = [inv EXCEPT ![j]["root"] = "completed"]
           /\ EndTurn(w, j, "completed")

(* The dispatch caught an error: a run that could not be started, a result *)
(* that could not be verified, a turn already settled.                     *)
FailTurn(w) ==
    /\ Fenced(w)
    /\ inv' = [inv EXCEPT ![active[w].job] = LiveEnded(@, "failed")]
    /\ EndTurn(w, active[w].job, "failed")

(* The process dies, or the dispatch ends without reaching the database:   *)
(* its lease is lost, or its last call failed.                             *)
Stop(w) ==
    /\ active[w] # None
    /\ Leave(w)
    /\ UNCHANGED <<job, run, answer, asked, inv, specialist, member>>

-----------------------------------------------------------------------------
(* Users and time *)

(* AGENT_JOB_HAS_RUN and AGENT_JOB_TERMINAL *)
Cancellable(j) == job[j].status \in Live /\ run[j] = "none"

(* Anyone who may write in the organisation cancels, not only the author. *)
CancelJob(j) ==
    /\ Cancellable(j)
    /\ job' = [job EXCEPT ![j] = Revoked(@, "cancelled")]
    /\ inv' = [inv EXCEPT ![j] = LiveEnded(@, "cancelled")]
    /\ TerminalMessages(j, "cancelled")
    /\ UNCHANGED <<run, specialist, member, active, step>>

ChangeMembership ==
    /\ member' = ~member
    /\ UNCHANGED <<job, run, answer, asked, inv, specialist, active, step>>

Tick ==
    /\ \E j \in Jobs : job[j].lease_left > Expired
    /\ job' = [j \in Jobs |->
                 [job[j] EXCEPT !.lease_left = IF @ > Expired THEN @ - 1 ELSE @]]
    /\ UNCHANGED <<run, answer, asked, inv, specialist, member, active, step>>

-----------------------------------------------------------------------------

ClaimOrReject(w) ==
    \E j \in Jobs : \E woken \in Wakings : Claim(w, j, woken) \/ RejectClaim(w, j, woken)

DispatchEnds(w) ==
    \/ \E outcome \in Ended : FinalizeExecution(w, outcome)
    \/ StartAnalysis(w) \/ ResumeAnalysis(w) \/ FailTurn(w) \/ Stop(w)

RunSettles(j) ==
    \/ RunSucceeds(j)
    \/ \E outcome \in {"failed", "cancelled"} :
          \E shown \in [Personas -> {"completed", "failed", outcome}] : RunEnds(j, outcome, shown)

Next ==
    \/ \E j \in Jobs : Enqueue(j) \/ RunSettles(j) \/ CancelJob(j)
    \/ \E j \in Jobs : \E p \in Personas :
          \E shown \in {"queued", "running"} \cup Ended : StageMoves(j, p, shown)
    \/ \E w \in Workers :
          \/ ClaimOrReject(w) \/ DispatchEnds(w) \/ Renew(w)
          \/ StartRead(w) \/ EndRead(w)
          \/ \E k \in Reads : BeginRead(w, k)
    \/ ChangeMembership
    \/ Tick

Spec == Init /\ [][Next]_vars

(* Some worker keeps polling, a dispatch ends (provider and turn have      *)
(* deadlines), runs settle (RunLifecycle's RunsSettle) and time passes.    *)
Fairness ==
    /\ WF_vars(\E w \in Workers : ClaimOrReject(w))
    /\ \A w \in Workers : WF_vars(DispatchEnds(w))
    /\ \A j \in Jobs : WF_vars(RunSettles(j))
    /\ WF_vars(Tick)

FairSpec == Spec /\ Fairness

-----------------------------------------------------------------------------
(* Properties *)

(* The chat never contradicts the job: the answer is in progress exactly   *)
(* while the job is live and otherwise shows its outcome, the question is  *)
(* closed exactly when the answer is, and the root of the tree on screen   *)
(* is the job's status, through every wake, claim, loss and ending         *)
(* (terminalMessages, terminalizeRun, finalizeExecution, resumeAnalysis).  *)
AnswerAgrees ==
    \A j \in Jobs :
       /\ answer[j] = IF job[j].status \in Live THEN "in_progress" ELSE job[j].status
       /\ asked[j] = "completed" <=> job[j].status \in Ended
       /\ inv[j]["root"] = job[j].status

(* A turn never runs ahead of its run: it waits, unleased, while the run is *)
(* open, and has ended as the run did once the run has failed or been       *)
(* cancelled, so that the branch of resumeAnalysis for such runs and the    *)
(* same two statuses in claim are dead code; a turn that ends otherwise     *)
(* with a run linked has one that succeeded.                                *)
RunAgrees ==
    \A j \in Jobs :
       /\ run[j] = "open" => job[j].status = "waiting"
       /\ run[j] \in {"failed", "cancelled"} => job[j].status = run[j]
       /\ job[j].status = "waiting" => run[j] \in {"open", "succeeded"}
       /\ job[j].status = "cancelled" => run[j] \in {"none", "cancelled"}

(* What an ended turn leaves in its tree.  Nothing is live any more, with   *)
(* one exception: resumeAnalysis closes the root only, so the tree of a     *)
(* full analysis keeps a read that an earlier, lost attempt began before    *)
(* the plan became an analysis.  A turn that completed without a run has    *)
(* completed every step it shows; a specialist turn too, and any analysis   *)
(* has completed its personas.                                              *)
StepsSettle ==
    \A j \in Jobs : job[j].status \in Ended =>
       /\ \A k \in Keys : inv[j][k] \in Live =>
             k \in Reads /\ job[j].status = "completed" /\ run[j] = "succeeded"
                         /\ ~specialist[j]
       /\ job[j].status = "completed" =>
             /\ \A k \in Personas : run[j] # "none" => inv[j][k] = "completed"
             /\ run[j] = "none" \/ specialist[j] =>
                  \A k \in Keys : inv[j][k] \in {"none", "completed"}

(* A dispatch that lost its job never gets it back: no heartbeat, however   *)
(* late, revives a lease that ran out or was taken over or cancelled.       *)
LostLeaseStaysLost ==
    [][\A w \in Workers :
          active[w] # None /\ active'[w] = active[w] /\ ~Owns(w) => ~Owns(w)']_vars

(* contracts/runtime/execution.ts: what a status may become. *)
Transitions(from) ==
    CASE from = "none" -> {"queued"}
      [] from = "queued" -> {"running", "cancelled", "failed"}
      [] from = "running" -> {"waiting", "completed", "failed", "cancelled"}
      [] from = "waiting" -> {"queued", "completed", "failed", "cancelled"}
      [] OTHER -> {}

(* The job row, the root and the read steps only make the moves the         *)
(* contract's table allows, though most of the statements that move them    *)
(* do not consult it.  A claim makes two: it may wake the job it takes, and *)
(* it starts again a job that is running, which writes the same status.     *)
MovesAreLegal ==
    [][\A j \in Jobs :
          LET Legal(from, to) ==
                \/ to = from
                \/ to \in Transitions(from)
                \/ from = "waiting" /\ to \in Transitions("queued")
          IN  /\ Legal(job[j].status, job'[j].status)
              /\ \A k \in {"root"} \cup Reads : Legal(inv[j][k], inv'[j][k])]_vars

(* Every turn that was accepted is answered, failed or cancelled, though    *)
(* workers die, leases run out, plans change and the author may leave.      *)
TurnsSettle == \A j \in Jobs : job[j].status \in Live ~> job[j].status \in Ended

(* A turn that is queued, running or waiting is open to the contract. *)
phase ==
    [j \in Jobs |-> CASE job[j].status = "none" -> "new"
                      [] job[j].status \in Live -> "open"
                      [] OTHER -> job[j].status]

(* The turn implements what it promises. *)
Contract == INSTANCE TurnContract WITH phase <- phase

(* The rows and transactions of the turn implement TurnContract: at most    *)
(* one run, none ended twice, none cancelled past its run.                  *)
ImplementsContract == Contract!Spec
=============================================================================
