---------------------------- MODULE RunLifecycle ----------------------------
(***************************************************************************)
(* The canonical analysis run: its row in table runs, the leases workers   *)
(* hold on it, and the chat reply that projects its outcome.               *)
(*                                                                         *)
(* Every repository operation is one PostgreSQL transaction that takes the *)
(* run's row lock first (FOR UPDATE), so each is one action.  Between two  *)
(* operations of a worker anything may happen: its lease expires, another  *)
(* worker claims the run, a user cancels it, the creator loses membership, *)
(* the process dies.                                                       *)
(*                                                                         *)
(* Time is relative: lease_left[r] is the time until runs.lease_until, and *)
(* Tick lets one unit pass.  A process compares lease_until with its own   *)
(* clock, which may be off by up to Skew, so an operation that reads the   *)
(* clock takes the offset s it reads.                                      *)
(*                                                                         *)
(* What the stages of an attempt do is modelled in StageCheckpoints; here  *)
(* they appear as the attempt at which the whole plan was checkpointed.    *)
(* What a run's end does to the durable turn waiting for it is modelled in *)
(* DurableTurn.                                                            *)
(***************************************************************************)
EXTENDS Integers, FiniteSets

CONSTANTS
    Runs,          \* analysis runs
    Workers,       \* worker processes (worker_id)
    MaxAttempts,   \* 3 in the code
    LeaseTicks,    \* leaseMs = 30000, in ticks
    Skew,          \* how far a process clock is off, in ticks
    MaxToken,      \* bound of the model: users stop cancelling and retrying here
    None           \* SQL NULL

ASSUME ConstantsAssumption ==
    /\ MaxAttempts \in Nat \ {0}
    /\ LeaseTicks \in Nat
    /\ Skew \in Nat
    /\ Skew < LeaseTicks
    /\ MaxToken \in Nat
    /\ None \notin Workers

VARIABLES
    kind,           \* what was asked for: "durable" if an agent turn owns the run,
                    \* "specialist" if it ends with an artifact instead of a report
    status,         \* runs.status
    attempt,        \* payload.attempt
    fencing_token,  \* runs.fencing_token
    worker_id,      \* runs.worker_id
    lease_left,     \* runs.lease_until less the current time
    report,         \* payload.report_artifact_id: 0 is null, n the report made under token n
    staged,         \* the last attempt whose planned stages all persisted 'succeeded'
    reply,          \* status of the assistant message that belongs to the run
    member,         \* whether the run's creator may still write in the organisation
    leases,         \* the lease objects living processes still hold
    active          \* worker -> the lease its run loop is dispatching, or None

rowVars == <<kind, status, attempt, fencing_token, worker_id, lease_left>>
vars == <<rowVars, report, staged, reply, member, leases, active>>

Statuses == {"queued", "running", "succeeded", "failed", "cancelled"}
ReplyStatuses == {"in_progress", "completed", "failed", "cancelled"}

(* Lease: the object claimNextRun returns. *)
Leases == [run : Runs, worker : Workers, token : Nat, attempt : Nat]

Offsets == -Skew .. Skew

(* The least value lease_left takes: by then every process sees it expired. *)
Expired == -(Skew + 1)

(* Every variable has its type, and no run is attempted more often than    *)
(* the limit allows, however its claims, crashes and retries are mixed.    *)
TypeOK ==
    /\ kind \in [Runs -> SUBSET {"durable", "specialist"}]
    /\ status \in [Runs -> Statuses]
    /\ attempt \in [Runs -> 0 .. MaxAttempts]
    /\ fencing_token \in [Runs -> Nat]
    /\ worker_id \in [Runs -> Workers \cup {None}]
    /\ lease_left \in [Runs -> Int]
    /\ report \in [Runs -> Nat]
    /\ staged \in [Runs -> Nat]
    /\ reply \in [Runs -> ReplyStatuses]
    /\ member \in [Runs -> BOOLEAN]
    /\ leases \subseteq Leases
    /\ active \in [Workers -> Leases \cup {None}]

-----------------------------------------------------------------------------

(* buildRun leaves a queued row, attempt 0, token 0, and an assistant      *)
(* message that is in progress.                                            *)
Init ==
    /\ kind \in [Runs -> SUBSET {"durable", "specialist"}]
    /\ status = [r \in Runs |-> "queued"]
    /\ attempt = [r \in Runs |-> 0]
    /\ fencing_token = [r \in Runs |-> 0]
    /\ worker_id = [r \in Runs |-> None]
    /\ lease_left = [r \in Runs |-> Expired]
    /\ report = [r \in Runs |-> 0]
    /\ staged = [r \in Runs |-> 0]
    /\ reply = [r \in Runs |-> "in_progress"]
    /\ member = [r \in Runs |-> TRUE]
    /\ leases = {}
    /\ active = [w \in Workers |-> None]

(* fenceRun: the creator may write, the row is running under this token    *)
(* and worker, and the lease has not expired on the caller's clock.        *)
Fence(l, s) ==
    /\ member[l.run]
    /\ status[l.run] = "running"
    /\ fencing_token[l.run] = l.token
    /\ worker_id[l.run] = l.worker
    /\ lease_left[l.run] > s

(* updateRun(tx, run) writes worker_id NULL; lease_until is null too. *)
Release(r) ==
    /\ worker_id' = [worker_id EXCEPT ![r] = None]
    /\ lease_left' = [lease_left EXCEPT ![r] = Expired]

(* terminalizeRun: the reply still in progress takes the run's end. *)
TerminalizeRun(r, outcome) ==
    reply' = [reply EXCEPT ![r] = IF @ = "in_progress" THEN outcome ELSE @]

(* finishRunAssistant: a durable turn owns its reply, so only the reply of *)
(* a run without one is written here.                                      *)
FinishRunAssistant(r, outcome) ==
    reply' = [reply EXCEPT ![r] = IF "durable" \in kind[r] THEN @ ELSE outcome]

(* Mutant: a failed run leaves its reply in progress. *)
FailRowSilently(r) ==
    /\ status' = [status EXCEPT ![r] = "failed"]
    /\ fencing_token' = [fencing_token EXCEPT ![r] = @ + 1]
    /\ UNCHANGED <<attempt, reply>>
    /\ Release(r)

(* The row a failed run leaves behind, whoever found the failure. *)
FailRow(r) ==
    /\ status' = [status EXCEPT ![r] = "failed"]
    /\ fencing_token' = [fencing_token EXCEPT ![r] = @ + 1]
    /\ UNCHANGED attempt
    /\ Release(r)
    /\ TerminalizeRun(r, "failed")

-----------------------------------------------------------------------------
(* claimNextRun *)

(* Mutant: only queued runs are offered, never one whose lease ran out. *)
ClaimableQueuedOnly(r, s) == status[r] = "queued"

Claimable(r, s) ==
    \/ status[r] = "queued"
    \/ status[r] = "running" /\ lease_left[r] < s

(* The candidate has used up its attempts, or its creator lost the right   *)
(* to write: it fails and the claim returns null.                          *)
RejectClaim(r) ==
    /\ attempt[r] >= MaxAttempts \/ ~member[r]
    /\ FailRow(r)
    /\ UNCHANGED <<leases, active>>

(* Mutant: the claim hands out the lease without a new fencing token. *)
TakeRunSameToken(w, r, s) ==
    /\ attempt[r] < MaxAttempts
    /\ member[r]
    /\ status' = [status EXCEPT ![r] = "running"]
    /\ attempt' = [attempt EXCEPT ![r] = @ + 1]
    /\ worker_id' = [worker_id EXCEPT ![r] = w]
    /\ lease_left' = [lease_left EXCEPT ![r] = LeaseTicks + s]
    /\ LET l == [run |-> r, worker |-> w, token |-> fencing_token[r],
                 attempt |-> attempt[r] + 1]
       IN  leases' = leases \cup {l} /\ active' = [active EXCEPT ![w] = l]
    /\ UNCHANGED <<fencing_token, reply>>

(* Mutant: the claim forgets the attempt limit. *)
TakeRunUnlimited(w, r, s) ==
    /\ member[r]
    /\ status' = [status EXCEPT ![r] = "running"]
    /\ attempt' = [attempt EXCEPT ![r] = @ + 1]
    /\ fencing_token' = [fencing_token EXCEPT ![r] = @ + 1]
    /\ worker_id' = [worker_id EXCEPT ![r] = w]
    /\ lease_left' = [lease_left EXCEPT ![r] = LeaseTicks + s]
    /\ LET l == [run |-> r, worker |-> w, token |-> fencing_token[r] + 1,
                 attempt |-> attempt[r] + 1]
       IN  leases' = leases \cup {l} /\ active' = [active EXCEPT ![w] = l]
    /\ UNCHANGED reply

(* The worker becomes the owner under the next token. *)
TakeRun(w, r, s) ==
    /\ attempt[r] < MaxAttempts
    /\ member[r]
    /\ status' = [status EXCEPT ![r] = "running"]
    /\ attempt' = [attempt EXCEPT ![r] = @ + 1]
    /\ fencing_token' = [fencing_token EXCEPT ![r] = @ + 1]
    /\ worker_id' = [worker_id EXCEPT ![r] = w]
    /\ lease_left' = [lease_left EXCEPT ![r] = LeaseTicks + s]
    /\ LET l == [run |-> r, worker |-> w, token |-> fencing_token[r] + 1,
                 attempt |-> attempt[r] + 1]
       IN  leases' = leases \cup {l} /\ active' = [active EXCEPT ![w] = l]
    /\ UNCHANGED reply

(* The oldest claimable row that no other transaction has locked: under    *)
(* SKIP LOCKED that may be any claimable row.  A worker claims only when   *)
(* its loop is not dispatching.                                            *)
ClaimNextRun(w) ==
    /\ active[w] = None
    /\ \E r \in Runs, s \in Offsets :
          /\ Claimable(r, s)
          /\ RejectClaim(r) \/ TakeRun(w, r, s)
    /\ UNCHANGED <<kind, report, staged, member>>

-----------------------------------------------------------------------------
(* What the holder of a lease does with it *)

(* renewRunLease: the 10 s heartbeat of a dispatch, and loadStageContext   *)
(* at every stage boundary, background stages included.                    *)
RenewRunLease(l) ==
    /\ \E s \in Offsets :
          /\ Fence(l, s)
          /\ lease_left' = [lease_left EXCEPT ![l.run] = LeaseTicks + s]
    /\ UNCHANGED <<kind, status, attempt, fencing_token, worker_id, report, staged,
                   reply, member, leases, active>>

(* Mutant: a stage checkpoint is written without the fence. *)
CompleteStagesUnfenced(l) ==
    /\ staged' = [staged EXCEPT ![l.run] = l.attempt]
    /\ UNCHANGED <<rowVars, report, reply, member, leases, active>>

(* setTask, fenced: the last planned stage of the lease's attempt persists *)
(* 'succeeded' (StageCheckpoints has the single stages).                   *)
CompleteStages(l) ==
    /\ \E s \in Offsets : Fence(l, s)
    /\ staged' = [staged EXCEPT ![l.run] = l.attempt]
    /\ UNCHANGED <<rowVars, report, reply, member, leases, active>>

(* The part the two terminal transactions share: the row succeeds, its     *)
(* token stays, its worker and lease are cleared.                          *)
SucceedRow(l) ==
    /\ \E s \in Offsets : Fence(l, s)
    /\ staged[l.run] = attempt[l.run]
    /\ status' = [status EXCEPT ![l.run] = "succeeded"]
    /\ UNCHANGED <<attempt, fencing_token>>
    /\ Release(l.run)
    /\ FinishRunAssistant(l.run, "completed")

(* publishReviewedDraft: at most one report, from stages of this attempt. *)
PublishReviewedDraft(l) ==
    /\ "specialist" \notin kind[l.run]
    /\ report[l.run] = 0
    /\ SucceedRow(l)
    /\ report' = [report EXCEPT ![l.run] = l.token]

(* finishAgentArtifactRun: a specialist run succeeds without a report. *)
FinishAgentArtifactRun(l) ==
    /\ "specialist" \in kind[l.run]
    /\ report[l.run] = 0
    /\ SucceedRow(l)
    /\ UNCHANGED report

(* The workflow of a dispatch ends by publishing. *)
DispatchSucceeds(w) ==
    /\ active[w] # None
    /\ PublishReviewedDraft(active[w]) \/ FinishAgentArtifactRun(active[w])
    /\ active' = [active EXCEPT ![w] = None]
    /\ UNCHANGED <<kind, staged, member, leases>>

(* The workflow throws and failRun commits. *)
DispatchFails(w) ==
    /\ active[w] # None
    /\ \E s \in Offsets : Fence(active[w], s)
    /\ FailRow(active[w].run)
    /\ active' = [active EXCEPT ![w] = None]
    /\ UNCHANGED <<kind, report, staged, member, leases>>

(* The workflow throws and failRun throws too, because the fence or the    *)
(* connection is gone; dispatchWorkflow swallows that error.               *)
DispatchAbandons(w) ==
    /\ active[w] # None
    /\ active' = [active EXCEPT ![w] = None]
    /\ UNCHANGED <<rowVars, report, staged, reply, member, leases>>

(* A stage that outlived its dispatch (a tool timeout returns before the   *)
(* tool does) finishes; nobody holds the lease object any more.            *)
BackgroundEnds(l) ==
    /\ \A w \in Workers : active[w] # l
    /\ leases' = leases \ {l}
    /\ UNCHANGED <<rowVars, report, staged, reply, member, active>>

(* The process dies with every lease object it holds. *)
Crash(w) ==
    /\ leases' = {l \in leases : l.worker # w}
    /\ active' = [active EXCEPT ![w] = None]
    /\ leases' # leases
    /\ UNCHANGED <<rowVars, report, staged, reply, member>>

-----------------------------------------------------------------------------
(* Users, membership and time *)

(* Mutant: a run that already succeeded can still be cancelled. *)
CancelRunAnyStatus(r) ==
    /\ fencing_token[r] < MaxToken
    /\ status' = [status EXCEPT ![r] = "cancelled"]
    /\ fencing_token' = [fencing_token EXCEPT ![r] = @ + 1]
    /\ Release(r)
    /\ TerminalizeRun(r, "cancelled")
    /\ UNCHANGED <<kind, attempt, report, staged, member, leases, active>>

(* cancelRun, by any writer of the organisation; cancelling twice is legal. *)
CancelRun(r) ==
    /\ status[r] \in {"queued", "running", "cancelled"}
    /\ fencing_token[r] < MaxToken
    /\ status' = [status EXCEPT ![r] = "cancelled"]
    /\ fencing_token' = [fencing_token EXCEPT ![r] = @ + 1]
    /\ Release(r)
    /\ TerminalizeRun(r, "cancelled")
    /\ UNCHANGED <<kind, attempt, report, staged, member, leases, active>>

(* retryRun: a failed run that no durable turn owns goes back in the queue *)
(* with its attempts and its token; its reply is in progress again.        *)
RetryRun(r) ==
    /\ status[r] = "failed"
    /\ "durable" \notin kind[r]
    /\ attempt[r] < MaxAttempts
    /\ member[r]
    /\ fencing_token[r] < MaxToken
    /\ status' = [status EXCEPT ![r] = "queued"]
    /\ Release(r)
    /\ FinishRunAssistant(r, "in_progress")
    /\ UNCHANGED <<kind, attempt, fencing_token, report, staged, member, leases,
                   active>>

(* An administrator removes or restores the creator's membership. *)
ChangeMembership(r) ==
    /\ member' = [member EXCEPT ![r] = ~@]
    /\ UNCHANGED <<rowVars, report, staged, reply, leases, active>>

Tick ==
    /\ \E r \in Runs : lease_left[r] > Expired
    /\ lease_left' = [r \in Runs |-> IF lease_left[r] > Expired
                                     THEN lease_left[r] - 1 ELSE lease_left[r]]
    /\ UNCHANGED <<kind, status, attempt, fencing_token, worker_id, report, staged,
                   reply, member, leases, active>>

-----------------------------------------------------------------------------

DispatchEnds(w) == DispatchSucceeds(w) \/ DispatchFails(w) \/ DispatchAbandons(w)

WorkerStep(w) == ClaimNextRun(w) \/ DispatchEnds(w) \/ Crash(w)

LeaseStep(l) == RenewRunLease(l) \/ CompleteStages(l) \/ BackgroundEnds(l)

UserStep(r) == CancelRun(r) \/ RetryRun(r) \/ ChangeMembership(r)

Next ==
    \/ \E w \in Workers : WorkerStep(w)
    \/ \E l \in leases : LeaseStep(l)
    \/ \E r \in Runs : UserStep(r)
    \/ Tick

Spec == Init /\ [][Next]_vars

(* What the scheduling justifies: time passes; a worker's loop comes back  *)
(* to claim; every dispatch ends, because every tool and provider call has *)
(* a timeout; background work ends.  Crashes, users and administrators owe *)
(* nothing.                                                                *)
Fairness ==
    /\ WF_vars(Tick)
    /\ \A w \in Workers : WF_vars(ClaimNextRun(w)) /\ WF_vars(DispatchEnds(w))
    /\ WF_vars(\E l \in leases : BackgroundEnds(l))

FairSpec == Spec /\ Fairness

-----------------------------------------------------------------------------
(* Properties *)

(* The lease owns the row: what fenceRun checks apart from the clock and   *)
(* the creator's membership.                                               *)
Owns(l) ==
    /\ status[l.run] = "running"
    /\ fencing_token[l.run] = l.token
    /\ worker_id[l.run] = l.worker

(* However wrong the clocks are, at most one of all the lease objects that *)
(* processes still hold owns a run: fencing never rests on time, and not   *)
(* on a worker forgetting the lease of an earlier claim of the same run.   *)
SingleOwner ==
    \A l, m \in leases : l.run = m.run /\ Owns(l) /\ Owns(m) => l = m

(* The chat tells the truth: the reply is in progress exactly while the    *)
(* run can still produce a result, and ends as the run ended.  The reply   *)
(* of a durable turn is left to that turn when its run succeeds.           *)
ReplyAgrees ==
    \A r \in Runs :
       reply[r] = CASE status[r] \in {"queued", "running"} -> "in_progress"
                    [] status[r] = "succeeded" ->
                          IF "durable" \in kind[r] THEN "in_progress" ELSE "completed"
                    [] OTHER -> status[r]

(* A result comes from one attempt: the stages it rests on were all        *)
(* checkpointed by the run's last attempt, and a report carries the token  *)
(* under which that attempt ran, so no later claim ever touched the run.   *)
ResultFromLastAttempt ==
    \A r \in Runs :
       /\ status[r] = "succeeded" => staged[r] = attempt[r]
       /\ report[r] # 0 => status[r] = "succeeded" /\ report[r] = fencing_token[r]

(* A lease that no longer owns its run never owns it again, whatever is    *)
(* reclaimed, retried or cancelled later, even by the same worker.         *)
LostLeaseStaysLost == [][\A l \in leases : ~Owns(l) => ~Owns(l)']_vars

(* A queued or running run does not stay so: it succeeds, fails or is      *)
(* cancelled, even though workers may crash again and again.               *)
RunsSettle ==
    \A r \in Runs : status[r] \in {"queued", "running"}
                       ~> status[r] \in {"succeeded", "failed", "cancelled"}

(* The queue keeps the promise RunContract states. *)
phase == [r \in Runs |-> IF status[r] \in {"queued", "running"} THEN "open"
                         ELSE status[r]]

Contract == INSTANCE RunContract WITH tries <- attempt

ImplementsContract == Contract!Spec
=============================================================================
