------------------------ MODULE RunLifecycle_proofs ------------------------
(***************************************************************************)
(* Fencing of analysis runs, proved for any number of runs and workers,    *)
(* any lease length, any clock skew and any number of attempts.            *)
(*                                                                         *)
(* The argument: every claim draws a token larger than all tokens of the   *)
(* run handed out before (TokensBounded), so two lease objects of a run    *)
(* never share a token (TokensUnique), and the fence admits one token.     *)
(* Time and skew play no part in it.                                       *)
(***************************************************************************)
EXTENDS RunLifecycle, TLAPS

(* No lease object carries a token its run has not reached. *)
TokensBounded == \A l \in leases : l.token <= fencing_token[l.run]

(* A token of a run was handed out once. *)
TokensUnique == \A l, m \in leases : l.run = m.run /\ l.token = m.token => l = m

(* A dispatch uses a lease object of its own process. *)
ActiveHeld ==
    \A w \in Workers : active[w] # None => active[w] \in leases /\ active[w].worker = w

(* A running run was claimed at least once. *)
RunningWasClaimed == \A r \in Runs : status[r] = "running" => attempt[r] > 0

(* The inductive invariant. *)
IInv ==
    /\ TypeOK
    /\ TokensBounded
    /\ TokensUnique
    /\ ActiveHeld
    /\ RunningWasClaimed
    /\ ReplyAgrees
    /\ ResultFromLastAttempt

-----------------------------------------------------------------------------

(* Every variable keeps its type, and attempts their limit. *)
LEMMA InitTypeOK == Init => TypeOK
  <1>1. Expired \in Int
    BY ConstantsAssumption DEF Expired
  <1>. QED
    BY <1>1, ConstantsAssumption
    DEF Init, TypeOK, Statuses, ReplyStatuses, Leases

(* Every step of a worker, a lease holder, a user or time keeps the types. *)
LEMMA StepTypeOK == TypeOK /\ [Next]_vars => TypeOK'
  <1>. SUFFICES ASSUME TypeOK, [Next]_vars PROVE TypeOK'
    OBVIOUS
  <1>0. Expired \in Int /\ \A s \in Offsets : LeaseTicks + s \in Int
    BY ConstantsAssumption DEF Expired, Offsets
  <1>1. ASSUME NEW w \in Workers, ClaimNextRun(w) PROVE TypeOK'
    <2>. PICK r \in Runs, s \in Offsets :
              RejectClaim(r) \/ TakeRun(w, r, s)
      BY <1>1 DEF ClaimNextRun
    <2>1. CASE RejectClaim(r)
      BY <2>1, <1>1, <1>0
      DEF ClaimNextRun, RejectClaim, FailRow, Release, TerminalizeRun, TypeOK,
          Statuses, ReplyStatuses
    <2>2. CASE TakeRun(w, r, s)
      <3>. DEFINE l == [run |-> r, worker |-> w, token |-> fencing_token[r] + 1,
                        attempt |-> attempt[r] + 1]
      <3>1. l \in Leases
        BY DEF TypeOK, Leases
      <3>2. leases' = leases \cup {l} /\ active' = [active EXCEPT ![w] = l]
        BY <2>2 DEF TakeRun
      <3>3. leases' \subseteq Leases /\ active' \in [Workers -> Leases \cup {None}]
        BY <3>1, <3>2 DEF TypeOK
      <3>4. attempt' \in [Runs -> 0 .. MaxAttempts]
        BY <2>2, ConstantsAssumption DEF TakeRun, TypeOK
      <3>. QED
        BY <2>2, <1>1, <1>0, <3>3, <3>4
        DEF ClaimNextRun, TakeRun, TypeOK, Statuses
    <2>. QED
      BY <2>1, <2>2
  <1>2. ASSUME NEW w \in Workers, DispatchEnds(w) PROVE TypeOK'
    <2>1. CASE DispatchSucceeds(w)
      BY <2>1, <1>0
      DEF DispatchSucceeds, PublishReviewedDraft, FinishAgentArtifactRun, SucceedRow,
          Release, FinishRunAssistant, TypeOK, Statuses, ReplyStatuses, Leases
    <2>2. CASE DispatchFails(w)
      BY <2>2, <1>0
      DEF DispatchFails, FailRow, Release, TerminalizeRun, TypeOK, Statuses,
          ReplyStatuses, Leases
    <2>3. CASE DispatchAbandons(w)
      BY <2>3 DEF DispatchAbandons, rowVars, TypeOK
    <2>. QED
      BY <1>2, <2>1, <2>2, <2>3 DEF DispatchEnds
  <1>3. ASSUME NEW w \in Workers, Crash(w) PROVE TypeOK'
    BY <1>3 DEF Crash, rowVars, TypeOK
  <1>4. ASSUME NEW l \in leases, LeaseStep(l) PROVE TypeOK'
    <2>1. CASE RenewRunLease(l)
      BY <2>1, <1>0 DEF RenewRunLease, TypeOK, Leases
    <2>2. CASE CompleteStages(l)
      BY <2>2 DEF CompleteStages, rowVars, TypeOK, Leases
    <2>3. CASE BackgroundEnds(l)
      BY <2>3 DEF BackgroundEnds, rowVars, TypeOK
    <2>. QED
      BY <1>4, <2>1, <2>2, <2>3 DEF LeaseStep
  <1>5. ASSUME NEW r \in Runs, UserStep(r) PROVE TypeOK'
    <2>1. CASE CancelRun(r)
      BY <2>1, <1>0
      DEF CancelRun, Release, TerminalizeRun, TypeOK, Statuses, ReplyStatuses
    <2>2. CASE RetryRun(r)
      BY <2>2, <1>0
      DEF RetryRun, Release, FinishRunAssistant, TypeOK, Statuses, ReplyStatuses
    <2>3. CASE ChangeMembership(r)
      BY <2>3 DEF ChangeMembership, rowVars, TypeOK
    <2>. QED
      BY <1>5, <2>1, <2>2, <2>3 DEF UserStep
  <1>6. CASE Tick
    BY <1>6 DEF Tick, TypeOK
  <1>7. CASE UNCHANGED vars
    BY <1>7 DEF vars, rowVars, TypeOK
  <1>. QED
    BY <1>1, <1>2, <1>3, <1>4, <1>5, <1>6, <1>7 DEF Next, WorkerStep

(* In every behaviour the run table keeps its types, and no run is claimed *)
(* more often than MaxAttempts, whatever claims, crashes and retries mix.  *)
THEOREM TypeCorrect == Spec => []TypeOK
  BY InitTypeOK, StepTypeOK, PTL DEF Spec

-----------------------------------------------------------------------------
(* The inductive invariant *)

(* A freshly queued run, claimed by nobody, satisfies the invariant. *)
LEMMA InitIInv == Init => IInv
  BY InitTypeOK
  DEF Init, IInv, TokensBounded, TokensUnique, ActiveHeld, RunningWasClaimed,
      ReplyAgrees, ResultFromLastAttempt

(* A failed row: from a run that was still open, with the next token. *)
LEMMA FailRowKeeps ==
  ASSUME IInv, NEW r \in Runs, status[r] \in {"queued", "running"}, FailRow(r),
         UNCHANGED <<kind, report, staged>>
  PROVE  /\ RunningWasClaimed' /\ ReplyAgrees' /\ ResultFromLastAttempt'
         /\ \A q \in Runs : fencing_token[q] <= fencing_token'[q]
  <1>1. RunningWasClaimed'
    BY DEF IInv, TypeOK, FailRow, RunningWasClaimed
  <1>2. ReplyAgrees'
    BY DEF IInv, TypeOK, FailRow, TerminalizeRun, ReplyAgrees, Statuses, ReplyStatuses
  <1>3. ResultFromLastAttempt'
    BY DEF IInv, TypeOK, FailRow, ResultFromLastAttempt
  <1>4. \A q \in Runs : fencing_token[q] <= fencing_token'[q]
    BY DEF IInv, TypeOK, FailRow
  <1>. QED
    BY <1>1, <1>2, <1>3, <1>4

(* Leases stay bounded and unique when none is added and tokens only grow. *)
LEMMA NoNewLease ==
  ASSUME IInv, leases' \subseteq leases,
         \A q \in Runs : fencing_token[q] <= fencing_token'[q],
         fencing_token' \in [Runs -> Nat]
  PROVE  TokensBounded' /\ TokensUnique'
  BY DEF IInv, TypeOK, TokensBounded, TokensUnique, Leases

(* Every operation on a run keeps the invariant. *)
LEMMA StepIInv == IInv /\ [Next]_vars => IInv'
  <1>. SUFFICES ASSUME IInv, [Next]_vars
                PROVE  IInv'
    OBVIOUS
  <1>0. TypeOK /\ TypeOK'
    BY StepTypeOK DEF IInv
  <1>1. ASSUME NEW w \in Workers, ClaimNextRun(w) PROVE IInv'
    <2>. PICK r \in Runs, s \in Offsets :
              Claimable(r, s) /\ (RejectClaim(r) \/ TakeRun(w, r, s))
      BY <1>1 DEF ClaimNextRun
    <2>0. status[r] \in {"queued", "running"}
      BY DEF Claimable
    <2>1. CASE RejectClaim(r)
      <3>1. FailRow(r) /\ UNCHANGED <<kind, report, staged, leases, active>>
        BY <2>1, <1>1 DEF RejectClaim, ClaimNextRun
      <3>2. TokensBounded' /\ TokensUnique'
        BY <3>1, <2>0, <1>0, FailRowKeeps, NoNewLease DEF TypeOK
      <3>. QED
        BY <3>1, <3>2, <2>0, <1>0, FailRowKeeps DEF IInv, ActiveHeld
    <2>2. CASE TakeRun(w, r, s)
      <3>. DEFINE l == [run |-> r, worker |-> w, token |-> fencing_token[r] + 1,
                        attempt |-> attempt[r] + 1]
      <3>1. leases' = leases \cup {l} /\ active' = [active EXCEPT ![w] = l]
        BY <2>2 DEF TakeRun
      <3>2. fencing_token' = [fencing_token EXCEPT ![r] = @ + 1]
        BY <2>2 DEF TakeRun
      <3>3. TokensBounded'
        BY <3>1, <3>2, <1>0 DEF IInv, TokensBounded, TypeOK, Leases
      <3>4. TokensUnique'
        BY <3>1, <1>0 DEF IInv, TokensBounded, TokensUnique, TypeOK, Leases
      <3>5. ActiveHeld'
        BY <3>1, <1>0 DEF IInv, ActiveHeld, TypeOK
      <3>6. RunningWasClaimed'
        BY <2>2, <1>0 DEF TakeRun, IInv, RunningWasClaimed, TypeOK
      <3>7. ReplyAgrees'
        BY <2>2, <2>0, <1>1, <1>0 DEF TakeRun, ClaimNextRun, IInv, ReplyAgrees, TypeOK
      <3>8. ResultFromLastAttempt'
        BY <2>2, <2>0, <1>1, <1>0
        DEF TakeRun, ClaimNextRun, IInv, ResultFromLastAttempt, TypeOK
      <3>. QED
        BY <1>0, <3>3, <3>4, <3>5, <3>6, <3>7, <3>8 DEF IInv
    <2>. QED
      BY <2>1, <2>2
  <1>2. ASSUME NEW w \in Workers, DispatchEnds(w) PROVE IInv'
    <2>1. CASE DispatchSucceeds(w)
      <3>. DEFINE l == active[w]
      <3>0. l \in leases /\ l \in Leases /\ SucceedRow(l) /\ report[l.run] = 0
            /\ UNCHANGED <<kind, staged, leases>>
            /\ active' = [active EXCEPT ![w] = None]
        BY <2>1, <1>0
        DEF DispatchSucceeds, PublishReviewedDraft, FinishAgentArtifactRun, IInv,
            ActiveHeld, TypeOK
      <3>1. l.run \in Runs /\ fencing_token[l.run] = l.token
            /\ status[l.run] = "running" /\ staged[l.run] = attempt[l.run]
            /\ UNCHANGED <<attempt, fencing_token>>
            /\ status' = [status EXCEPT ![l.run] = "succeeded"]
            /\ FinishRunAssistant(l.run, "completed")
        BY <3>0 DEF SucceedRow, Fence, Leases
      <3>2. TokensBounded' /\ TokensUnique'
        BY <3>0, <3>1 DEF IInv, TokensBounded, TokensUnique
      <3>3. ActiveHeld'
        BY <3>0, <1>0 DEF IInv, ActiveHeld, TypeOK
      <3>4. RunningWasClaimed'
        BY <3>1, <1>0 DEF IInv, RunningWasClaimed, TypeOK
      <3>5. ReplyAgrees'
        BY <3>0, <3>1, <1>0 DEF IInv, ReplyAgrees, FinishRunAssistant, TypeOK
      <3>6. report' = report \/ report' = [report EXCEPT ![l.run] = l.token]
        BY <2>1 DEF DispatchSucceeds, PublishReviewedDraft, FinishAgentArtifactRun
      <3>7. ResultFromLastAttempt'
        BY <3>0, <3>1, <3>6, <1>0 DEF IInv, ResultFromLastAttempt, TypeOK
      <3>. QED
        BY <1>0, <3>2, <3>3, <3>4, <3>5, <3>7 DEF IInv
    <2>2. CASE DispatchFails(w)
      <3>. DEFINE r == active[w].run
      <3>1. r \in Runs /\ status[r] = "running" /\ FailRow(r)
            /\ UNCHANGED <<kind, report, staged, leases>>
            /\ active' = [active EXCEPT ![w] = None]
        BY <2>2, <1>0 DEF DispatchFails, Fence, TypeOK, Leases
      <3>2. /\ RunningWasClaimed' /\ ReplyAgrees' /\ ResultFromLastAttempt'
            /\ \A q \in Runs : fencing_token[q] <= fencing_token'[q]
        BY <3>1, FailRowKeeps
      <3>3. TokensBounded' /\ TokensUnique'
        BY <3>1, <3>2, <1>0, NoNewLease DEF TypeOK
      <3>4. ActiveHeld'
        BY <3>1, <1>0 DEF IInv, ActiveHeld, TypeOK
      <3>. QED
        BY <1>0, <3>2, <3>3, <3>4 DEF IInv
    <2>3. CASE DispatchAbandons(w)
      <3>1. ActiveHeld'
        BY <2>3, <1>0 DEF DispatchAbandons, IInv, ActiveHeld, TypeOK
      <3>. QED
        BY <2>3, <3>1, <1>0
        DEF DispatchAbandons, rowVars, IInv, TokensBounded, TokensUnique,
            RunningWasClaimed, ReplyAgrees, ResultFromLastAttempt
    <2>. QED
      BY <1>2, <2>1, <2>2, <2>3 DEF DispatchEnds
  <1>3. ASSUME NEW w \in Workers, Crash(w) PROVE IInv'
    <2>1. TokensBounded' /\ TokensUnique'
      BY <1>3, <1>0, NoNewLease DEF Crash, rowVars, TypeOK
    <2>2. ActiveHeld'
      BY <1>3, <1>0 DEF Crash, IInv, ActiveHeld, TypeOK
    <2>. QED
      BY <1>3, <2>1, <2>2, <1>0
      DEF Crash, rowVars, IInv, RunningWasClaimed, ReplyAgrees, ResultFromLastAttempt
  <1>4. ASSUME NEW l \in leases, LeaseStep(l) PROVE IInv'
    <2>0. l.run \in Runs
      BY <1>0 DEF TypeOK, Leases
    <2>1. CASE RenewRunLease(l)
      BY <2>1, <1>0
      DEF RenewRunLease, IInv, TokensBounded, TokensUnique, ActiveHeld,
          RunningWasClaimed, ReplyAgrees, ResultFromLastAttempt
    <2>2. CASE CompleteStages(l)
      <3>1. ResultFromLastAttempt'
        BY <2>2, <2>0, <1>0
        DEF CompleteStages, Fence, rowVars, IInv, ResultFromLastAttempt, TypeOK
      <3>. QED
        BY <2>2, <3>1, <1>0
        DEF CompleteStages, rowVars, IInv, TokensBounded, TokensUnique, ActiveHeld,
            RunningWasClaimed, ReplyAgrees
    <2>3. CASE BackgroundEnds(l)
      <3>1. ActiveHeld'
        BY <2>3, <1>0 DEF BackgroundEnds, IInv, ActiveHeld, TypeOK
      <3>. QED
        BY <2>3, <3>1, <1>0
        DEF BackgroundEnds, rowVars, IInv, TokensBounded, TokensUnique,
            RunningWasClaimed, ReplyAgrees, ResultFromLastAttempt
    <2>. QED
      BY <1>4, <2>1, <2>2, <2>3 DEF LeaseStep
  <1>5. ASSUME NEW r \in Runs, UserStep(r) PROVE IInv'
    <2>1. CASE CancelRun(r)
      <3>1. TokensBounded' /\ TokensUnique'
        BY <2>1, <1>0, NoNewLease DEF CancelRun, TypeOK
      <3>2. RunningWasClaimed' /\ ActiveHeld'
        BY <2>1, <1>0 DEF CancelRun, IInv, RunningWasClaimed, ActiveHeld, TypeOK
      <3>3. ReplyAgrees'
        BY <2>1, <1>0
        DEF CancelRun, TerminalizeRun, IInv, ReplyAgrees, TypeOK, Statuses,
            ReplyStatuses
      <3>4. ResultFromLastAttempt'
        BY <2>1, <1>0 DEF CancelRun, IInv, ResultFromLastAttempt, TypeOK
      <3>. QED
        BY <1>0, <3>1, <3>2, <3>3, <3>4 DEF IInv
    <2>2. CASE RetryRun(r)
      <3>1. TokensBounded' /\ TokensUnique'
        BY <2>2, <1>0, NoNewLease DEF RetryRun, TypeOK
      <3>2. RunningWasClaimed' /\ ActiveHeld'
        BY <2>2, <1>0 DEF RetryRun, IInv, RunningWasClaimed, ActiveHeld, TypeOK
      <3>3. ReplyAgrees'
        BY <2>2, <1>0 DEF RetryRun, FinishRunAssistant, IInv, ReplyAgrees, TypeOK
      <3>4. ResultFromLastAttempt'
        BY <2>2, <1>0 DEF RetryRun, IInv, ResultFromLastAttempt, TypeOK
      <3>. QED
        BY <1>0, <3>1, <3>2, <3>3, <3>4 DEF IInv
    <2>3. CASE ChangeMembership(r)
      BY <2>3, <1>0
      DEF ChangeMembership, rowVars, IInv, TokensBounded, TokensUnique, ActiveHeld,
          RunningWasClaimed, ReplyAgrees, ResultFromLastAttempt
    <2>. QED
      BY <1>5, <2>1, <2>2, <2>3 DEF UserStep
  <1>6. CASE Tick
    BY <1>6, <1>0
    DEF Tick, IInv, TokensBounded, TokensUnique, ActiveHeld, RunningWasClaimed,
        ReplyAgrees, ResultFromLastAttempt
  <1>7. CASE UNCHANGED vars
    BY <1>7, <1>0
    DEF vars, rowVars, IInv, TokensBounded, TokensUnique, ActiveHeld,
        RunningWasClaimed, ReplyAgrees, ResultFromLastAttempt
  <1>. QED
    BY <1>1, <1>2, <1>3, <1>4, <1>5, <1>6, <1>7 DEF Next, WorkerStep

(* Tokens stay bounded and unique, and reply and result agree with the row. *)
THEOREM Invariance == Spec => []IInv
  BY InitIInv, StepIInv, PTL DEF Spec

-----------------------------------------------------------------------------
(* The theorems *)

(* At most one of all lease objects of a run passes the fence, for every   *)
(* clock skew: the fence admits one token and a token is handed out once.  *)
THEOREM SingleOwnerHolds == Spec => []SingleOwner
  <1>1. IInv => SingleOwner
    BY DEF IInv, TokensUnique, SingleOwner, Owns
  <1>. QED
    BY <1>1, Invariance, PTL

(* The chat reply of a run always tells the state of the run. *)
THEOREM ReplyAgreesHolds == Spec => []ReplyAgrees
  BY Invariance, PTL DEF IInv

(* A result rests on the stages of the last attempt, and a published       *)
(* report bears the token of that attempt.                                 *)
THEOREM ResultFromLastAttemptHolds == Spec => []ResultFromLastAttempt
  BY Invariance, PTL DEF IInv

(* Ownership of a run is never regained with an old lease object: the only *)
(* step that makes a run running draws a token above every lease's token.  *)
THEOREM LostLeaseStaysLostHolds == Spec => LostLeaseStaysLost
  <1>1. ASSUME IInv, [Next]_vars, NEW l \in leases, ~Owns(l)
        PROVE  ~Owns(l)'
    <2>. DEFINE q == l.run
    <2>0. TypeOK /\ q \in Runs /\ l.token \in Nat /\ l.token <= fencing_token[q]
      BY <1>1 DEF IInv, TypeOK, TokensBounded, Leases
    <2>1. ASSUME NEW w \in Workers, ClaimNextRun(w) PROVE ~Owns(l)'
      <3>. PICK r \in Runs, s \in Offsets : RejectClaim(r) \/ TakeRun(w, r, s)
        BY <2>1 DEF ClaimNextRun
      <3>1. CASE RejectClaim(r)
        BY <3>1, <2>0, <1>1 DEF RejectClaim, FailRow, Release, Owns, TypeOK
      <3>2. CASE TakeRun(w, r, s)
        <4>1. CASE q = r
          <5>1. fencing_token'[q] = fencing_token[q] + 1
            BY <3>2, <4>1, <2>0 DEF TakeRun, TypeOK
          <5>. QED
            BY <5>1, <2>0 DEF Owns, TypeOK
        <4>2. CASE q # r
          BY <3>2, <4>2, <2>0, <1>1 DEF TakeRun, Owns, TypeOK
        <4>. QED
          BY <4>1, <4>2
      <3>. QED
        BY <3>1, <3>2
    <2>2. ASSUME NEW w \in Workers, DispatchEnds(w) PROVE ~Owns(l)'
      <3>1. CASE DispatchSucceeds(w)
        <4>1. active[w] \in Leases /\ SucceedRow(active[w])
          BY <3>1, <2>0
          DEF DispatchSucceeds, PublishReviewedDraft, FinishAgentArtifactRun, TypeOK
        <4>. QED
          BY <4>1, <2>0, <1>1 DEF SucceedRow, Release, Owns, TypeOK, Leases
      <3>2. CASE DispatchFails(w)
        BY <3>2, <2>0, <1>1 DEF DispatchFails, FailRow, Release, Owns, TypeOK, Leases
      <3>3. CASE DispatchAbandons(w)
        BY <3>3, <1>1 DEF DispatchAbandons, rowVars, Owns
      <3>. QED
        BY <2>2, <3>1, <3>2, <3>3 DEF DispatchEnds
    <2>3. ASSUME NEW w \in Workers, Crash(w) PROVE ~Owns(l)'
      BY <2>3, <1>1 DEF Crash, rowVars, Owns
    <2>4. ASSUME NEW m \in leases, LeaseStep(m) PROVE ~Owns(l)'
      BY <2>4, <1>1
      DEF LeaseStep, RenewRunLease, CompleteStages, BackgroundEnds, rowVars, Owns
    <2>5. ASSUME NEW r \in Runs, UserStep(r) PROVE ~Owns(l)'
      BY <2>5, <2>0, <1>1
      DEF UserStep, CancelRun, RetryRun, ChangeMembership, Release, rowVars, Owns, TypeOK
    <2>6. CASE Tick
      BY <2>6, <1>1 DEF Tick, Owns
    <2>7. CASE UNCHANGED vars
      BY <2>7, <1>1 DEF vars, rowVars, Owns
    <2>. QED
      BY <1>1, <2>1, <2>2, <2>3, <2>4, <2>5, <2>6, <2>7 DEF Next, WorkerStep
  <1>2. IInv /\ [Next]_vars => [\A l \in leases : ~Owns(l) => ~Owns(l)']_vars
    BY <1>1
  <1>. QED
    BY <1>2, Invariance, PTL DEF Spec, LostLeaseStaysLost

-----------------------------------------------------------------------------
(* The detailed specification implements the contract.                     *)

(* A queued run is an open run of the contract. *)
LEMMA InitContract == Init => Contract!Init
  BY DEF Init, Contract!Init, phase

(* What a step does to the phase of a run, from what it does to its status. *)
LEMMA PhaseStep ==
  ASSUME TypeOK, NEW r \in Runs, NEW to \in Statuses,
         status' = [status EXCEPT ![r] = to]
  PROVE  phase' = [phase EXCEPT ![r] =
                     IF to \in {"queued", "running"} THEN "open" ELSE to]
  BY DEF phase, TypeOK

(* A step that leaves the status column alone leaves the phase alone. *)
LEMMA PhaseSame == ASSUME UNCHANGED status PROVE UNCHANGED phase
  BY DEF phase

(* Every operation on a run is a step of the contract or a stutter. *)
LEMMA StepContract == IInv /\ [Next]_vars => [Contract!Next]_(Contract!vars)
  <1>. SUFFICES ASSUME IInv, [Next]_vars
                PROVE  Contract!Next \/ UNCHANGED Contract!vars
    OBVIOUS
  <1>0. TypeOK
    BY DEF IInv
  <1>f. ASSUME NEW r \in Runs, status[r] \in {"queued", "running"}, FailRow(r),
               UNCHANGED report
        PROVE  Contract!Fail(r)
    <2>1. phase[r] = "open"
      BY <1>f DEF phase
    <2>2. phase' = [phase EXCEPT ![r] = "failed"]
      BY <1>f, <1>0, PhaseStep DEF FailRow, Statuses
    <2>. QED
      BY <1>f, <2>1, <2>2 DEF FailRow, Contract!Fail
  <1>1. ASSUME NEW w \in Workers, ClaimNextRun(w) PROVE Contract!Next
    <2>. PICK r \in Runs, s \in Offsets :
              Claimable(r, s) /\ (RejectClaim(r) \/ TakeRun(w, r, s))
      BY <1>1 DEF ClaimNextRun
    <2>0. status[r] \in {"queued", "running"}
      BY DEF Claimable
    <2>1. CASE RejectClaim(r)
      BY <2>1, <2>0, <1>1, <1>f DEF RejectClaim, ClaimNextRun, Contract!Next
    <2>2. CASE TakeRun(w, r, s)
      <3>1. phase[r] = "open"
        BY <2>0 DEF phase
      <3>2. phase' = [phase EXCEPT ![r] = "open"]
        BY <2>2, <1>0, PhaseStep DEF TakeRun, Statuses
      <3>3. phase' = phase
        BY <3>1, <3>2 DEF phase
      <3>. QED
        BY <2>2, <3>1, <3>3, <1>1
        DEF TakeRun, ClaimNextRun, Contract!Attempt, Contract!Next
    <2>. QED
      BY <2>1, <2>2
  <1>2. ASSUME NEW w \in Workers, DispatchEnds(w)
        PROVE  Contract!Next \/ UNCHANGED Contract!vars
    <2>1. CASE DispatchSucceeds(w)
      <3>. DEFINE r == active[w].run
      <3>1. active[w] \in Leases /\ r \in Runs /\ SucceedRow(active[w])
            /\ (report' = report \/ report' = [report EXCEPT ![r] = active[w].token])
        BY <2>1, <1>0
        DEF DispatchSucceeds, PublishReviewedDraft, FinishAgentArtifactRun, TypeOK,
            Leases
      <3>2. status[r] = "running" /\ attempt' = attempt
            /\ status' = [status EXCEPT ![r] = "succeeded"]
        BY <3>1 DEF SucceedRow, Fence
      <3>3. phase[r] = "open" /\ attempt[r] > 0
        BY <3>1, <3>2 DEF IInv, RunningWasClaimed, phase
      <3>4. phase' = [phase EXCEPT ![r] = "succeeded"]
        BY <3>1, <3>2, <1>0, PhaseStep DEF Statuses
      <3>5. report'[r] \in Nat /\ report' = [report EXCEPT ![r] = report'[r]]
        BY <3>1, <1>0 DEF TypeOK, Leases
      <3>. QED
        BY <3>1, <3>2, <3>3, <3>4, <3>5 DEF Contract!Succeed, Contract!Next
    <2>2. CASE DispatchFails(w)
      <3>. DEFINE r == active[w].run
      <3>1. r \in Runs /\ status[r] = "running" /\ FailRow(r) /\ UNCHANGED report
        BY <2>2, <1>0 DEF DispatchFails, Fence, TypeOK, Leases
      <3>. QED
        BY <3>1, <1>f DEF Contract!Next
    <2>3. CASE DispatchAbandons(w)
      BY <2>3, PhaseSame DEF DispatchAbandons, rowVars, Contract!vars
    <2>. QED
      BY <1>2, <2>1, <2>2, <2>3 DEF DispatchEnds
  <1>3. ASSUME NEW w \in Workers, Crash(w) PROVE UNCHANGED Contract!vars
    BY <1>3, PhaseSame DEF Crash, rowVars, Contract!vars
  <1>4. ASSUME NEW l \in leases, LeaseStep(l) PROVE UNCHANGED Contract!vars
    BY <1>4, PhaseSame
    DEF LeaseStep, RenewRunLease, CompleteStages, BackgroundEnds, rowVars, Contract!vars
  <1>5. ASSUME NEW r \in Runs, UserStep(r)
        PROVE  Contract!Next \/ UNCHANGED Contract!vars
    <2>1. CASE CancelRun(r)
      <3>1. phase' = [phase EXCEPT ![r] = "cancelled"]
        BY <2>1, <1>0, PhaseStep DEF CancelRun, Statuses
      <3>2. CASE status[r] \in {"queued", "running"}
        <4>1. phase[r] = "open"
          BY <3>2 DEF phase
        <4>. QED
          BY <2>1, <3>1, <4>1 DEF CancelRun, Contract!Cancel, Contract!Next
      <3>3. CASE status[r] = "cancelled"
        <4>1. phase' = phase
          BY <3>1, <3>3 DEF phase
        <4>. QED
          BY <2>1, <4>1 DEF CancelRun, Contract!vars
      <3>. QED
        BY <2>1, <3>2, <3>3 DEF CancelRun
    <2>2. CASE RetryRun(r)
      <3>1. phase[r] = "failed"
        BY <2>2 DEF RetryRun, phase
      <3>2. phase' = [phase EXCEPT ![r] = "open"]
        BY <2>2, <1>0, PhaseStep DEF RetryRun, Statuses
      <3>. QED
        BY <2>2, <3>1, <3>2 DEF RetryRun, Contract!Reopen, Contract!Next
    <2>3. CASE ChangeMembership(r)
      BY <2>3, PhaseSame DEF ChangeMembership, rowVars, Contract!vars
    <2>. QED
      BY <1>5, <2>1, <2>2, <2>3 DEF UserStep
  <1>6. CASE Tick
    BY <1>6, PhaseSame DEF Tick, Contract!vars
  <1>7. CASE UNCHANGED vars
    BY <1>7, PhaseSame DEF vars, rowVars, Contract!vars
  <1>. QED
    BY <1>1, <1>2, <1>3, <1>4, <1>5, <1>6, <1>7 DEF Next, WorkerStep

(* Workers, leases, tokens and clocks implement the promise of the queue:  *)
(* a run settles once, reopens only from failure and within its attempts,  *)
(* and its report is written by the step that makes it succeed.            *)
THEOREM ContractImplemented == Spec => ImplementsContract
  BY InitContract, StepContract, Invariance, PTL
  DEF Spec, ImplementsContract, Contract!Spec
=============================================================================
