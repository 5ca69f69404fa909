------------------------- MODULE DurableTurn_proofs -------------------------
(***************************************************************************)
(* Durable turns, proved for any number of turns and workers, any plans of *)
(* reads and personas, any lease length and any number of attempts.        *)
(*                                                                         *)
(* The argument is made one turn at a time.  A transaction does one of     *)
(* eleven things to each turn (TurnStep, StepTurns), so that answer, run,  *)
(* tree, legal moves and the contract are each a case split on those       *)
(* eleven.  What makes the invariant inductive is OpenSteps: no read of an *)
(* open turn has failed, and its personas come and complete with its run.  *)
(* Fencing is separate: what a step does to a row (RowStep, StepRows) and  *)
(* that tokens only grow.                                                  *)
(***************************************************************************)
EXTENDS DurableTurn, TLAPS

-----------------------------------------------------------------------------
(* Types *)

(* What TypeOK asks of one row. *)
RowOK(row) == row \in Row /\ (row.status = "running" <=> row.worker # None)

Statuses == {"none"} \cup Live \cup Ended

(* A row that is let go of is well formed, and still is when its token     *)
(* grows or its attempts start again.                                      *)
LEMMA ReleasedRow ==
  ASSUME NEW row \in Row, NEW s \in Statuses \ {"running"}
  PROVE  /\ RowOK(Released(row, s))
         /\ RowOK(Revoked(row, s))
         /\ RowOK([Released(row, s) EXCEPT !.attempt = 0])
  <1>. DEFINE freed == Released(row, s)
  <1>1. freed \in Row /\ freed.status = s /\ freed.worker = None
    <2>1. Expired \in Expired .. LeaseTicks /\ s \in {"none"} \cup Live \cup Ended
      BY ConstantsAssumption DEF Expired, Statuses
    <2>. QED
      BY <2>1 DEF Row, Released
  <1>. HIDE DEF freed
  <1>2. /\ RowOK(freed)
        /\ RowOK([freed EXCEPT !.token = row.token + 1])
        /\ RowOK([freed EXCEPT !.attempt = 0])
    BY <1>1, ConstantsAssumption DEF RowOK, Row
  <1>. QED
    BY <1>2 DEF freed, Revoked

(* The steps of an ended turn are statuses. *)
LEMMA LiveEndedSteps ==
  ASSUME NEW steps \in [Keys -> Statuses], NEW outcome \in Statuses
  PROVE  LiveEnded(steps, outcome) \in [Keys -> Statuses]
  BY DEF LiveEnded

(* Only a job whose run has ended is woken. *)
LEMMA WokenReady ==
  ASSUME NEW woken \in Wakings
  PROVE  woken \subseteq Ready
  BY DEF Wakings

(* Waking a job leaves its row and its tree well formed. *)
LEMMA WokenTypes ==
  ASSUME TypeOK, NEW woken \in Wakings, NEW j \in Jobs
  PROVE  RowOK(WokenRow(j, woken)) /\ WokenSteps(j, woken) \in [Keys -> Statuses]
  <1>1. job[j] \in Row /\ RowOK(job[j]) /\ inv[j] \in [Keys -> Statuses]
    BY DEF TypeOK, RowOK, Statuses
  <1>2. j \in woken => job[j].status = "waiting"
    BY WokenReady DEF Ready
  <1>3. RowOK(WokenRow(j, woken))
    BY <1>1, <1>2 DEF WokenRow, RowOK, Row, Live
  <1>4. WokenSteps(j, woken) \in [Keys -> Statuses]
    BY <1>1 DEF WokenSteps, Statuses, Live
  <1>. QED
    BY <1>3, <1>4

(* TypeOK, with the rows taken one at a time. *)
LEMMA TypeOKRows ==
  TypeOK <=>
    /\ job \in [Jobs -> Row] /\ \A j \in Jobs : RowOK(job[j])
    /\ run \in [Jobs -> {"none", "open", "succeeded", "failed", "cancelled"}]
    /\ answer \in [Jobs -> {"none", "in_progress"} \cup Ended]
    /\ asked \in [Jobs -> {"none", "submitted", "completed"}]
    /\ inv \in [Jobs -> [Keys -> Statuses]]
    /\ specialist \in [Jobs -> BOOLEAN]
    /\ member \in BOOLEAN
    /\ active \in [Workers -> Leases \cup {None}]
    /\ step \in [Workers -> {"planning", "reading"} \cup Reads]
  BY Zenon DEF TypeOK, RowOK, Statuses

(* Nobody has asked anything yet. *)
LEMMA InitTypeOK == Init => TypeOK
  <1>. SUFFICES ASSUME Init PROVE TypeOK
    OBVIOUS
  <1>1. job \in [Jobs -> Row] /\ \A j \in Jobs : (job[j].status = "running") <=> (job[j].worker # None)
    BY ConstantsAssumption DEF Init, Row, Live, Ended, Expired
  <1>2. inv \in [Jobs -> [Keys -> {"none"} \cup Live \cup Ended]]
    BY DEF Init
  <1>. QED
    BY <1>1, <1>2 DEF Init, TypeOK, Ended

(* What a step writes to one row, to its tree and to its messages is well  *)
(* formed.                                                                 *)
LEMMA WriteTypes ==
  ASSUME TypeOK, NEW j \in Jobs
  PROVE  /\ \A row : RowOK(row) /\ job' = [job EXCEPT ![j] = row] =>
               job' \in [Jobs -> Row] /\ \A i \in Jobs : RowOK(job'[i])
         /\ \A tree \in [Keys -> Statuses] : inv' = [inv EXCEPT ![j] = tree] =>
               inv' \in [Jobs -> [Keys -> Statuses]]
         /\ \A outcome \in Ended : TerminalMessages(j, outcome) =>
               /\ answer' \in [Jobs -> {"none", "in_progress"} \cup Ended]
               /\ asked' \in [Jobs -> {"none", "submitted", "completed"}]
  <1>1. ASSUME NEW row, RowOK(row), job' = [job EXCEPT ![j] = row]
        PROVE  job' \in [Jobs -> Row] /\ \A i \in Jobs : RowOK(job'[i])
    BY <1>1 DEF TypeOK, RowOK
  <1>2. ASSUME NEW tree \in [Keys -> Statuses], inv' = [inv EXCEPT ![j] = tree]
        PROVE  inv' \in [Jobs -> [Keys -> Statuses]]
    BY <1>2 DEF TypeOK, Statuses
  <1>3. ASSUME NEW outcome \in Ended, TerminalMessages(j, outcome)
        PROVE  /\ answer' \in [Jobs -> {"none", "in_progress"} \cup Ended]
               /\ asked' \in [Jobs -> {"none", "submitted", "completed"}]
    BY <1>3 DEF TypeOK, TerminalMessages
  <1>. QED
    BY <1>1, <1>2, <1>3

(* A dispatch that is over leaves its worker well formed. *)
LEMMA LeaveTypes ==
  ASSUME TypeOK, NEW w \in Workers, Leave(w)
  PROVE  /\ active' \in [Workers -> Leases \cup {None}]
         /\ step' \in [Workers -> {"planning", "reading"} \cup Reads]
  BY DEF TypeOK, Leave

(* The job of a dispatch that owns it is a running row. *)
LEMMA OwnedJob ==
  ASSUME TypeOK, NEW w \in Workers, Owns(w)
  PROVE  /\ active[w] \in Leases /\ active[w].job \in Jobs
         /\ job[active[w].job].status = "running" /\ job[active[w].job].worker = w
         /\ job[active[w].job].token = active[w].token
         /\ job[active[w].job].lease_left > 0
  BY DEF TypeOK, Owns, Leases

(* Every transaction of a user, a worker or a run, and time, keep the types. *)
LEMMA StepTypeOK == TypeOK /\ [Next]_vars => TypeOK'
  <1>. SUFFICES ASSUME TypeOK, [Next]_vars PROVE TypeOK'
    OBVIOUS
  <1>0. /\ job \in [Jobs -> Row] /\ \A j \in Jobs : RowOK(job[j])
        /\ inv \in [Jobs -> [Keys -> Statuses]]
        /\ "root" \in Keys /\ Reads \subseteq Keys /\ Personas \subseteq Keys
    BY TypeOKRows DEF Keys
  <1>e. Ended \subseteq Statuses \ {"running"} /\ "waiting" \in Statuses \ {"running"}
        /\ "failed" \in Ended /\ "cancelled" \in Ended /\ "completed" \in Ended
    BY DEF Statuses, Live, Ended
  <1>q. ASSUME /\ job' \in [Jobs -> Row] /\ \A j \in Jobs : RowOK(job'[j])
               /\ inv' \in [Jobs -> [Keys -> Statuses]]
               /\ run' \in [Jobs -> {"none", "open", "succeeded", "failed", "cancelled"}]
               /\ answer' \in [Jobs -> {"none", "in_progress"} \cup Ended]
               /\ asked' \in [Jobs -> {"none", "submitted", "completed"}]
               /\ specialist' = specialist /\ member' \in BOOLEAN
               /\ active' \in [Workers -> Leases \cup {None}]
               /\ step' \in [Workers -> {"planning", "reading"} \cup Reads]
        PROVE  TypeOK'
    BY <1>q DEF TypeOK, RowOK, Statuses
  <1>1. ASSUME NEW j \in Jobs, Enqueue(j) PROVE TypeOK'
    <2>1. job' \in [Jobs -> Row] /\ \A i \in Jobs : RowOK(job'[i])
      BY <1>1, <1>0 DEF Enqueue, RowOK, Row, Live
    <2>2. inv' \in [Jobs -> [Keys -> Statuses]]
      BY <1>1, <1>0 DEF Enqueue, Statuses, Live
    <2>. QED
      BY <1>1, <1>q, <2>1, <2>2 DEF Enqueue, TypeOK
  <1>2. ASSUME NEW j \in Jobs, CancelJob(j) PROVE TypeOK'
    <2>1. RowOK(Revoked(job[j], "cancelled"))
          /\ LiveEnded(inv[j], "cancelled") \in [Keys -> Statuses]
      BY <1>0, <1>e, ReleasedRow, LiveEndedSteps
    <2>2. /\ job' = [job EXCEPT ![j] = Revoked(job[j], "cancelled")]
          /\ inv' = [inv EXCEPT ![j] = LiveEnded(inv[j], "cancelled")]
          /\ TerminalMessages(j, "cancelled")
          /\ UNCHANGED <<run, specialist, member, active, step>>
      BY <1>2 DEF CancelJob
    <2>. QED
      BY <1>q, <1>e, <2>1, <2>2, WriteTypes DEF TypeOK
  <1>3. ASSUME NEW j \in Jobs, RunSucceeds(j) PROVE TypeOK'
    <2>1. inv' \in [Jobs -> [Keys -> Statuses]]
      BY <1>3, <1>0, <1>e DEF RunSucceeds
    <2>2. run' \in [Jobs -> {"none", "open", "succeeded", "failed", "cancelled"}]
      BY <1>3 DEF RunSucceeds, TypeOK
    <2>. QED
      BY <1>3, <1>0, <1>q, <2>1, <2>2 DEF RunSucceeds, TypeOK
  <1>4. ASSUME NEW j \in Jobs, NEW outcome \in {"failed", "cancelled"},
               NEW shown \in [Personas -> {"completed", "failed", outcome}],
               RunEnds(j, outcome, shown)
        PROVE  TypeOK'
    <2>1. outcome \in Ended /\ outcome \in Statuses \ {"running"}
          /\ {"completed", "failed", outcome} \subseteq Statuses
      BY <1>e
    <2>2. run' \in [Jobs -> {"none", "open", "succeeded", "failed", "cancelled"}]
      BY <1>4 DEF RunEnds, TypeOK
    <2>3. LiveEnded(inv[j], outcome) \in [Keys -> Statuses]
      BY <1>0, <2>1, LiveEndedSteps
    <2>4. inv' \in [Jobs -> [Keys -> Statuses]]
      <3>1. \A k \in Keys : /\ inv[j][k] \in Statuses
                            /\ LiveEnded(inv[j], outcome)[k] \in Statuses
                            /\ k \in Personas => shown[k] \in Statuses
        BY <1>0, <2>1, <2>3
      <3>2. CASE job[j].status \in Ended
        BY <1>4, <1>0, <3>1, <3>2 DEF RunEnds
      <3>3. CASE job[j].status \notin Ended
        BY <1>4, <1>0, <3>1, <3>3 DEF RunEnds
      <3>. QED
        BY <3>2, <3>3
    <2>5. job' \in [Jobs -> Row] /\ \A i \in Jobs : RowOK(job'[i])
      <3>1. RowOK(Revoked(job[j], outcome))
        BY <1>0, <2>1, ReleasedRow
      <3>. QED
        BY <1>4, <1>0, <3>1, WriteTypes DEF RunEnds
    <2>6. TerminalMessages(j, outcome)
          /\ UNCHANGED <<specialist, member, active, step>>
      BY <1>4 DEF RunEnds
    <2>. QED
      BY <1>q, <2>1, <2>2, <2>4, <2>5, <2>6, WriteTypes DEF TypeOK
  <1>5. ASSUME NEW j \in Jobs, NEW p \in Personas,
               NEW shown \in {"queued", "running"} \cup Ended, StageMoves(j, p, shown)
        PROVE  TypeOK'
    <2>1. inv' \in [Jobs -> [Keys -> Statuses]]
      BY <1>5, <1>0 DEF StageMoves, Statuses, Live
    <2>. QED
      BY <1>5, <1>0, <1>q, <2>1 DEF StageMoves, TypeOK
  <1>6. ASSUME NEW w \in Workers, NEW j \in Jobs, NEW woken \in Wakings,
               Claim(w, j, woken)
        PROVE  TypeOK'
    <2>. DEFINE taken == [status |-> "running", attempt |-> job[j].attempt + 1,
                          token |-> job[j].token + 1, worker |-> w,
                          lease_left |-> LeaseTicks]
    <2>1. RowOK(taken)
      <3>1. job[j].attempt + 1 \in 0 .. MaxAttempts /\ job[j].token + 1 \in Nat
            /\ LeaseTicks \in Expired .. LeaseTicks
        BY <1>6, <1>0, ConstantsAssumption DEF Claim, Exhausted, Row, Expired
      <3>. QED
        BY <3>1, ConstantsAssumption DEF RowOK, Row, Live
    <2>2. job' = [i \in Jobs |-> IF i # j THEN WokenRow(i, woken) ELSE taken]
      BY <1>6 DEF Claim
    <2>3. job' \in [Jobs -> Row] /\ \A i \in Jobs : RowOK(job'[i])
      <3>. HIDE DEF taken
      <3>. QED
        BY <2>1, <2>2, WokenTypes DEF RowOK
    <2>4. inv' \in [Jobs -> [Keys -> Statuses]]
      BY <1>6, <1>0, WokenTypes DEF Claim, Statuses, Live
    <2>5. active' \in [Workers -> Leases \cup {None}]
      BY <1>6, <1>0 DEF Claim, TypeOK, Leases, Row
    <2>6. step' \in [Workers -> {"planning", "reading"} \cup Reads]
      BY <1>6 DEF Claim, TypeOK
    <2>. QED
      BY <1>6, <1>q, <2>3, <2>4, <2>5, <2>6 DEF Claim, TypeOK
  <1>7. ASSUME NEW w \in Workers, NEW j \in Jobs, NEW woken \in Wakings,
               RejectClaim(w, j, woken)
        PROVE  TypeOK'
    <2>1. RowOK(Revoked(job[j], "failed"))
      BY <1>0, <1>e, ReleasedRow
    <2>2. LiveEnded(WokenSteps(j, woken), "failed") \in [Keys -> Statuses]
      BY <1>e, WokenTypes, LiveEndedSteps
    <2>3. job' \in [Jobs -> Row] /\ \A i \in Jobs : RowOK(job'[i])
      BY <1>7, <2>1, WokenTypes DEF RejectClaim, RowOK
    <2>4. inv' \in [Jobs -> [Keys -> Statuses]]
      BY <1>7, <2>2, WokenTypes DEF RejectClaim
    <2>5. TerminalMessages(j, "failed") /\ UNCHANGED <<run, specialist, member, active, step>>
      BY <1>7 DEF RejectClaim
    <2>. QED
      BY <1>q, <1>e, <2>3, <2>4, <2>5, WriteTypes DEF TypeOK
  <1>8. ASSUME NEW w \in Workers, Renew(w) PROVE TypeOK'
    <2>1. job' \in [Jobs -> Row] /\ \A i \in Jobs : RowOK(job'[i])
      BY <1>8, <1>0, OwnedJob, ConstantsAssumption
      DEF Renew, Fenced, RowOK, Row, Expired
    <2>. QED
      BY <1>8, <1>0, <1>q, <2>1 DEF Renew, TypeOK
  <1>9. ASSUME NEW w \in Workers, NEW k \in Reads, BeginRead(w, k) PROVE TypeOK'
    <2>1. inv' \in [Jobs -> [Keys -> Statuses]]
      BY <1>9, <1>0 DEF BeginRead, Statuses, Live
    <2>2. step' \in [Workers -> {"planning", "reading"} \cup Reads]
      BY <1>9 DEF BeginRead, TypeOK
    <2>. QED
      BY <1>9, <1>0, <1>q, <2>1, <2>2 DEF BeginRead, TypeOK
  <1>10. ASSUME NEW w \in Workers, StartRead(w) PROVE TypeOK'
    <2>1. inv' \in [Jobs -> [Keys -> Statuses]]
      BY <1>10, <1>0 DEF StartRead, Statuses, Live
    <2>. QED
      BY <1>10, <1>0, <1>q, <2>1 DEF StartRead, TypeOK
  <1>11. ASSUME NEW w \in Workers, EndRead(w) PROVE TypeOK'
    <2>1. inv' \in [Jobs -> [Keys -> Statuses]]
      BY <1>11, <1>0 DEF EndRead, Statuses, Ended
    <2>2. step' \in [Workers -> {"planning", "reading"} \cup Reads]
      BY <1>11 DEF EndRead, TypeOK
    <2>. QED
      BY <1>11, <1>0, <1>q, <2>1, <2>2 DEF EndRead, TypeOK
  <1>12. ASSUME NEW w \in Workers, StartAnalysis(w) PROVE TypeOK'
    <2>. DEFINE j == active[w].job
    <2>1. j \in Jobs
      BY <1>12, OwnedJob DEF StartAnalysis, Fenced
    <2>2. RowOK([Released(job[j], "waiting") EXCEPT !.attempt = 0])
      BY <2>1, <1>0, <1>e, ReleasedRow, SMTT(30)
    <2>3. job' \in [Jobs -> Row] /\ \A i \in Jobs : RowOK(job'[i])
      BY <1>12, <1>0, <2>1, <2>2, WriteTypes DEF StartAnalysis
    <2>4. inv' \in [Jobs -> [Keys -> Statuses]]
      BY <1>12, <1>0 DEF StartAnalysis, Statuses, Live
    <2>5. run' \in [Jobs -> {"none", "open", "succeeded", "failed", "cancelled"}]
      BY <1>12 DEF StartAnalysis, TypeOK
    <2>6. Leave(w) /\ UNCHANGED <<answer, asked, specialist, member>>
      BY <1>12 DEF StartAnalysis
    <2>. QED
      BY <1>q, <2>3, <2>4, <2>5, <2>6, LeaveTypes DEF TypeOK
  <1>13. ASSUME NEW w \in Workers, NEW j \in Jobs, NEW outcome \in Ended,
                NEW tree \in [Keys -> Statuses],
                inv' = [inv EXCEPT ![j] = tree], EndTurn(w, j, outcome)
         PROVE  TypeOK'
    <2>1. RowOK(Released(job[j], outcome))
      BY <1>0, <1>e, ReleasedRow
    <2>2. /\ job' = [job EXCEPT ![j] = Released(job[j], outcome)]
          /\ TerminalMessages(j, outcome) /\ Leave(w)
          /\ UNCHANGED <<run, specialist, member>>
      BY <1>13 DEF EndTurn
    <2>. QED
      BY <1>13, <1>q, <2>1, <2>2, WriteTypes, LeaveTypes DEF TypeOK
  <1>14. ASSUME NEW w \in Workers, DispatchEnds(w) PROVE TypeOK'
    <2>. DEFINE j == active[w].job
    <2>1. ASSUME NEW outcome \in Ended, FinalizeExecution(w, outcome) PROVE TypeOK'
      <3>1. j \in Jobs
        BY <2>1, OwnedJob DEF FinalizeExecution, Fenced
      <3>2. LiveEnded(inv[j], outcome) \in [Keys -> Statuses]
        BY <3>1, <1>0, <1>e, LiveEndedSteps
      <3>. QED
        BY <2>1, <3>1, <3>2, <1>13 DEF FinalizeExecution
    <2>2. CASE ResumeAnalysis(w)
      <3>1. j \in Jobs
        BY <2>2, OwnedJob DEF ResumeAnalysis, Fenced
      <3>2. [inv[j] EXCEPT !["root"] = "completed"] \in [Keys -> Statuses]
            /\ inv' = [inv EXCEPT ![j] = [inv[j] EXCEPT !["root"] = "completed"]]
        BY <2>2, <3>1, <1>0, <1>e DEF ResumeAnalysis
      <3>. QED
        BY <2>2, <3>1, <3>2, <1>e, <1>13 DEF ResumeAnalysis
    <2>3. CASE FailTurn(w)
      <3>1. j \in Jobs
        BY <2>3, OwnedJob DEF FailTurn, Fenced
      <3>2. LiveEnded(inv[j], "failed") \in [Keys -> Statuses]
        BY <3>1, <1>0, <1>e, LiveEndedSteps
      <3>. QED
        BY <2>3, <3>1, <3>2, <1>e, <1>13 DEF FailTurn
    <2>4. CASE Stop(w)
      BY <2>4, <1>0, <1>q, LeaveTypes DEF Stop, TypeOK
    <2>. QED
      BY <1>14, <2>1, <2>2, <2>3, <2>4, <1>12 DEF DispatchEnds
  <1>15. CASE ChangeMembership
    BY <1>15, <1>0, <1>q DEF ChangeMembership, TypeOK
  <1>16. CASE Tick
    <2>1. job' \in [Jobs -> Row] /\ \A i \in Jobs : RowOK(job'[i])
      BY <1>16, <1>0, ConstantsAssumption DEF Tick, RowOK, Row, Expired
    <2>. QED
      BY <1>16, <1>0, <1>q, <2>1 DEF Tick, TypeOK
  <1>17. CASE UNCHANGED vars
    BY <1>17, <1>0, <1>q DEF vars, TypeOK
  <1>. QED
    BY <1>1, <1>2, <1>3, <1>4, <1>5, <1>6, <1>7, <1>8, <1>9, <1>10, <1>11, <1>14,
       <1>15, <1>16, <1>17 DEF Next, RunSettles, ClaimOrReject

(* In every behaviour the rows keep their types and the constraints of the *)
(* schema: no turn is claimed more than MaxAttempts times between resets,  *)
(* and it has a worker exactly while it is running.                        *)
THEOREM TypeCorrect == Spec => []TypeOK
  BY InitTypeOK, StepTypeOK, PTL DEF Spec

-----------------------------------------------------------------------------
(* What a step may do to one turn *)

(* The run, the messages and the tree of turn i are left alone. *)
RestKept(i) == run'[i] = run[i] /\ answer'[i] = answer[i] /\ asked'[i] = asked[i]

Kept(i) == job'[i].status = job[i].status /\ inv'[i] = inv[i] /\ RestKept(i)

Accepted(i) ==
    /\ job[i].status = "none" /\ job'[i].status = "queued"
    /\ inv'[i] = [inv[i] EXCEPT !["root"] = "queued"]
    /\ run'[i] = run[i] /\ answer'[i] = "in_progress" /\ asked'[i] = "submitted"

Woken(i) ==
    /\ i \in Ready /\ job'[i].status = "queued"
    /\ inv'[i] = [inv[i] EXCEPT !["root"] = "queued"]
    /\ RestKept(i)

Taken(i) ==
    /\ job[i].status \in {"queued", "running"} \/ i \in Ready
    /\ job'[i].status = "running"
    /\ inv'[i] = [inv[i] EXCEPT !["root"] = "running"]
    /\ RestKept(i)

(* A read step of a running turn is created, started or completed. *)
Read(i) ==
    /\ job[i].status = "running" /\ job'[i].status = "running"
    /\ \E k \in Reads : \E to \in {"queued", "running", "completed"} :
          /\ inv'[i] = [inv[i] EXCEPT ![k] = to]
          /\ <<inv[i][k], to>> \in {<<"none", "queued">>, <<"queued", "running">>,
                                    <<"running", "completed">>}
    /\ RestKept(i)

Began(i) ==
    /\ job[i].status = "running" /\ job'[i].status = "waiting"
    /\ run[i] = "none" /\ run'[i] = "open"
    /\ inv'[i] = [k \in Keys |-> IF k = "root" THEN "waiting"
                                 ELSE IF k \in Personas THEN "queued" ELSE inv[i][k]]
    /\ answer'[i] = answer[i] /\ asked'[i] = asked[i]

Staged(i) ==
    /\ run[i] = "open" /\ job'[i].status = job[i].status
    /\ \E p \in Personas : \E shown \in {"queued", "running"} \cup Ended :
          inv'[i] = [inv[i] EXCEPT ![p] = shown]
    /\ RestKept(i)

Succeeded(i) ==
    /\ run[i] = "open" /\ run'[i] = "succeeded" /\ job'[i].status = job[i].status
    /\ inv'[i] = [k \in Keys |-> IF k \in Personas THEN "completed" ELSE inv[i][k]]
    /\ answer'[i] = answer[i] /\ asked'[i] = asked[i]

(* The messages of a turn that ends. *)
Told(i, outcome) ==
    /\ answer'[i] = IF answer[i] = "in_progress" THEN outcome ELSE answer[i]
    /\ asked'[i] = "completed"

RunEnded(i, outcome) ==
    /\ run[i] = "open" /\ run'[i] = outcome
    /\ job'[i].status = IF job[i].status \in Ended THEN job[i].status ELSE outcome
    /\ \E shown \in [Personas -> {"completed", "failed", outcome}] :
          inv'[i] = [k \in Keys |->
                       IF k \in Personas THEN shown[k]
                       ELSE IF job[i].status \in Ended THEN inv[i][k]
                       ELSE LiveEnded(inv[i], outcome)[k]]
    /\ Told(i, outcome)

(* The turn ends by itself: by its dispatch, a claim that refuses it or a  *)
(* user.                                                                   *)
Closed(i, outcome) ==
    /\ job[i].status \in Live /\ job'[i].status = outcome /\ run'[i] = run[i]
    /\ \/ job[i].status = "running" /\ run[i] = "none"
       \/ job[i].status \in Live /\ run[i] = "none" /\ outcome = "cancelled"
       \/ outcome = "failed" /\ (job[i].status \in {"queued", "running"} \/ i \in Ready)
    /\ outcome = "completed" => ~Pending(i)
    /\ inv'[i] = LiveEnded(inv[i], outcome)
    /\ Told(i, outcome)

Resumed(i) ==
    /\ job[i].status = "running" /\ job'[i].status = "completed"
    /\ run[i] = "succeeded" /\ run'[i] = run[i]
    /\ \A k \in Required(i) : inv[i][k] = "completed"
    /\ inv'[i] = [inv[i] EXCEPT !["root"] = "completed"]
    /\ Told(i, "completed")

TurnStep(i) ==
    \/ Kept(i) \/ Accepted(i) \/ Woken(i) \/ Taken(i) \/ Read(i)
    \/ Began(i) \/ Staged(i) \/ Succeeded(i) \/ Resumed(i)
    \/ \E outcome \in {"failed", "cancelled"} : RunEnded(i, outcome)
    \/ \E outcome \in Ended : Closed(i, outcome)

(* Every transaction does one of these to each turn. *)
LEMMA StepTurns == TypeOK /\ AnswerAgrees /\ [Next]_vars => \A i \in Jobs : TurnStep(i)
  <1>. SUFFICES ASSUME TypeOK, AnswerAgrees, [Next]_vars, NEW i \in Jobs PROVE TurnStep(i)
    OBVIOUS
  <1>0. /\ job \in [Jobs -> Row] /\ inv \in [Jobs -> [Keys -> Statuses]]
        /\ "root" \in Keys /\ Reads \subseteq Keys /\ Personas \subseteq Keys
    BY TypeOKRows DEF Keys
  <1>1. ASSUME NEW j \in Jobs, Enqueue(j) PROVE TurnStep(i)
    BY <1>1, <1>0, ZenonT(60) DEF Enqueue, TypeOK, TurnStep, Accepted, Kept, RestKept, Row
  <1>2. ASSUME NEW j \in Jobs, CancelJob(j) PROVE TurnStep(i)
    <2>1. CASE i = j
      BY <1>2, <1>0, <2>1
      DEF CancelJob, Cancellable, Revoked, Released, TerminalMessages, TypeOK, TurnStep,
          Closed, Told, Row, Ended
    <2>2. CASE i # j
      BY <1>2, <1>0, <2>2
      DEF CancelJob, TerminalMessages, TypeOK, TurnStep, Kept, RestKept
    <2>. QED
      BY <2>1, <2>2
  <1>3. ASSUME NEW j \in Jobs, RunSucceeds(j) PROVE TurnStep(i)
    BY <1>3, <1>0 DEF RunSucceeds, TypeOK, TurnStep, Succeeded, Kept, RestKept
  <1>4. ASSUME NEW j \in Jobs, NEW outcome \in {"failed", "cancelled"},
               NEW shown \in [Personas -> {"completed", "failed", outcome}],
               RunEnds(j, outcome, shown)
        PROVE  TurnStep(i)
    <2>1. CASE i = j
      <3>. DEFINE tree == [k \in Keys |->
                             IF k \in Personas THEN shown[k]
                             ELSE IF job[i].status \in Ended THEN inv[i][k]
                             ELSE LiveEnded(inv[i], outcome)[k]]
      <3>1. run[i] = "open" /\ run'[i] = outcome /\ Told(i, outcome)
        BY <1>4, <2>1 DEF RunEnds, TerminalMessages, Told, TypeOK
      <3>2. job'[i].status = IF job[i].status \in Ended THEN job[i].status ELSE outcome
        BY <1>4, <1>0, <2>1, ZenonT(60) DEF RunEnds, Revoked, Released, Row
      <3>3. inv'[i] = tree
        BY <1>4, <1>0, <2>1 DEF RunEnds
      <3>4. RunEnded(i, outcome)
        BY <3>1, <3>2, <3>3 DEF RunEnded
      <3>. QED
        BY <3>4 DEF TurnStep
    <2>2. CASE i # j
      BY <1>4, <1>0, <2>2
      DEF RunEnds, TerminalMessages, TypeOK, TurnStep, Kept, RestKept
    <2>. QED
      BY <2>1, <2>2
  <1>5. ASSUME NEW j \in Jobs, NEW p \in Personas,
               NEW shown \in {"queued", "running"} \cup Ended, StageMoves(j, p, shown)
        PROVE  TurnStep(i)
    BY <1>5, <1>0 DEF StageMoves, TypeOK, TurnStep, Staged, Kept, RestKept
  <1>6. ASSUME NEW w \in Workers, NEW j \in Jobs, NEW woken \in Wakings,
               Claim(w, j, woken)
        PROVE  TurnStep(i)
    <2>0. RestKept(i)
      BY <1>6 DEF Claim, RestKept
    <2>1. CASE i = j
      <3>1. job[i].status \in {"queued", "running"} \/ i \in Ready
        BY <1>6, <2>1, WokenReady DEF Claim, Claimable, WokenRow
      <3>2. job'[i].status = "running" /\ inv'[i] = [inv[i] EXCEPT !["root"] = "running"]
        BY <1>6, <2>1 DEF Claim
      <3>. QED
        BY <2>0, <3>1, <3>2 DEF TurnStep, Taken
    <2>2. CASE i # j /\ i \in woken
      <3>1. i \in Ready
        BY <2>2, WokenReady
      <3>2. job'[i].status = "queued" /\ inv'[i] = [inv[i] EXCEPT !["root"] = "queued"]
        BY <1>6, <1>0, <2>2 DEF Claim, WokenRow, WokenSteps, Row
      <3>. QED
        BY <2>0, <3>1, <3>2 DEF TurnStep, Woken
    <2>3. CASE i # j /\ i \notin woken
      BY <1>6, <2>0, <2>3 DEF Claim, WokenRow, WokenSteps, TurnStep, Kept
    <2>. QED
      BY <2>1, <2>2, <2>3
  <1>7. ASSUME NEW w \in Workers, NEW j \in Jobs, NEW woken \in Wakings,
               RejectClaim(w, j, woken)
        PROVE  TurnStep(i)
    <2>1. CASE i = j
      <3>1. job[i].status \in {"queued", "running"} \/ i \in Ready
        BY <1>7, <2>1, WokenReady DEF RejectClaim, Claimable, WokenRow
      <3>2. job[i].status \in Live
        BY <3>1 DEF Ready, Live
      <3>3. job'[i].status = "failed" /\ run'[i] = run[i] /\ Told(i, "failed")
        <4>1. job'[i] = Revoked(job[i], "failed") /\ run' = run /\ TerminalMessages(i, "failed")
          BY <1>7, <2>1 DEF RejectClaim
        <4>2. Revoked(job[i], "failed").status = "failed"
          BY <1>0 DEF Revoked, Released, Row
        <4>3. Told(i, "failed")
          BY <4>1 DEF TerminalMessages, Told, TypeOK
        <4>. QED
          BY <4>1, <4>2, <4>3
      <3>4. inv'[i] = LiveEnded(inv[i], "failed")
        <4>1. inv'[i] = LiveEnded(WokenSteps(i, woken), "failed")
          BY <1>7, <2>1 DEF RejectClaim
        <4>2. CASE i \in woken
          <5>1. inv[i]["root"] \in Live
            BY <4>2, WokenReady DEF AnswerAgrees, Ready, Live
          <5>2. WokenSteps(i, woken) = [inv[i] EXCEPT !["root"] = "queued"]
            BY <4>2 DEF WokenSteps
          <5>. QED
            BY <4>1, <5>1, <5>2, <1>0 DEF LiveEnded, Live
        <4>3. CASE i \notin woken
          BY <4>1, <4>3 DEF WokenSteps
        <4>. QED
          BY <4>2, <4>3
      <3>. QED
        BY <3>1, <3>2, <3>3, <3>4 DEF TurnStep, Closed, Ended
    <2>2. CASE i # j /\ i \in woken
      <3>1. i \in Ready
        BY <2>2, WokenReady
      <3>2. job'[i].status = "queued" /\ inv'[i] = [inv[i] EXCEPT !["root"] = "queued"]
        BY <1>7, <1>0, <2>2 DEF RejectClaim, WokenRow, WokenSteps, Row
      <3>3. RestKept(i)
        BY <1>7, <2>2 DEF RejectClaim, TerminalMessages, TypeOK, RestKept
      <3>. QED
        BY <3>1, <3>2, <3>3 DEF TurnStep, Woken
    <2>3. CASE i # j /\ i \notin woken
      BY <1>7, <2>3
      DEF RejectClaim, TerminalMessages, WokenRow, WokenSteps, TypeOK, TurnStep, Kept, RestKept
    <2>. QED
      BY <2>1, <2>2, <2>3
  <1>8. ASSUME NEW w \in Workers, Owns(w), i # active[w].job,
               \/ Renew(w) \/ StartRead(w) \/ EndRead(w)
               \/ (\E k \in Reads : BeginRead(w, k)) \/ DispatchEnds(w)
        PROVE  TurnStep(i)
    <2>1. active[w].job \in Jobs
      BY <1>8, OwnedJob
    <2>2. job'[i] = job[i] /\ inv'[i] = inv[i] /\ RestKept(i)
      <3>1. CASE Renew(w) \/ StartRead(w) \/ EndRead(w) \/ (\E k \in Reads : BeginRead(w, k))
        BY <1>8, <1>0, <2>1, <3>1 DEF Renew, StartRead, EndRead, BeginRead, RestKept, TypeOK
      <3>2. ASSUME NEW outcome \in Ended, FinalizeExecution(w, outcome)
            PROVE  job'[i] = job[i] /\ inv'[i] = inv[i] /\ RestKept(i)
        BY <1>8, <1>0, <2>1, <3>2 DEF FinalizeExecution, EndTurn, TerminalMessages, RestKept, TypeOK
      <3>3. CASE StartAnalysis(w)
        BY <1>8, <1>0, <2>1, <3>3 DEF StartAnalysis, RestKept, TypeOK
      <3>4. CASE ResumeAnalysis(w)
        BY <1>8, <1>0, <2>1, <3>4 DEF ResumeAnalysis, EndTurn, TerminalMessages, RestKept, TypeOK
      <3>5. CASE FailTurn(w)
        BY <1>8, <1>0, <2>1, <3>5 DEF FailTurn, EndTurn, TerminalMessages, RestKept, TypeOK
      <3>6. CASE Stop(w)
        BY <3>6 DEF Stop, RestKept
      <3>. QED
        BY <1>8, <3>1, <3>2, <3>3, <3>4, <3>5, <3>6, SMTT(30) DEF DispatchEnds
    <2>. QED
      BY <2>2 DEF TurnStep, Kept
  <1>9. ASSUME NEW w \in Workers, Owns(w), i = active[w].job,
               Renew(w) \/ StartRead(w) \/ EndRead(w) \/ \E k \in Reads : BeginRead(w, k)
        PROVE  TurnStep(i)
    <2>0. job[i].status = "running" /\ i \in Jobs
      BY <1>9, OwnedJob
    <2>1. CASE Renew(w)
      BY <2>0, <2>1, <1>0 DEF Renew, TurnStep, Kept, RestKept, Row
    <2>2. CASE StartRead(w)
      BY <2>0, <2>2, <1>0, <1>9 DEF StartRead, TurnStep, Read, RestKept
    <2>3. CASE EndRead(w)
      <3>1. CASE inv[i][step[w]] = "running"
        BY <2>0, <2>3, <3>1, <1>0, <1>9 DEF EndRead, TurnStep, Read, RestKept
      <3>2. CASE inv[i][step[w]] = "completed"
        BY <2>0, <2>3, <3>2, <1>0, <1>9 DEF EndRead, TurnStep, Kept, RestKept
      <3>. QED
        BY <2>3, <3>1, <3>2, <1>9 DEF EndRead
    <2>4. ASSUME NEW k \in Reads, BeginRead(w, k) PROVE TurnStep(i)
      <3>1. CASE inv[i][k] = "none"
        BY <2>0, <2>4, <3>1, <1>0, <1>9 DEF BeginRead, TurnStep, Read, RestKept
      <3>2. CASE inv[i][k] # "none"
        BY <2>0, <2>4, <3>2, <1>0, <1>9 DEF BeginRead, TurnStep, Kept, RestKept
      <3>. QED
        BY <3>1, <3>2, SMTT(30)
    <2>. QED
      BY <1>9, <2>1, <2>2, <2>3, <2>4
  <1>10. ASSUME NEW w \in Workers, Owns(w), i = active[w].job, DispatchEnds(w)
         PROVE  TurnStep(i)
    <2>0. job[i].status = "running" /\ i \in Jobs /\ job[i] \in Row
      BY <1>10, <1>0, OwnedJob
    <2>1. ASSUME NEW outcome \in Ended, EndTurn(w, i, outcome)
          PROVE  job'[i].status = outcome /\ run'[i] = run[i] /\ Told(i, outcome)
      BY <2>0, <2>1, <1>0 DEF EndTurn, Released, TerminalMessages, Told, TypeOK, Row
    <2>2. ASSUME NEW outcome \in Ended, FinalizeExecution(w, outcome)
          PROVE  TurnStep(i)
      <3>1. run[i] = "none" /\ (outcome = "completed" => ~Pending(i))
            /\ inv'[i] = LiveEnded(inv[i], outcome) /\ EndTurn(w, i, outcome)
        BY <2>0, <2>2, <1>0, <1>10 DEF FinalizeExecution
      <3>2. Closed(i, outcome)
        BY <2>0, <2>1, <3>1 DEF Closed, Live
      <3>. QED
        BY <3>2 DEF TurnStep
    <2>3. CASE StartAnalysis(w)
      <3>1. run[i] = "none" /\ run'[i] = "open" /\ answer' = answer /\ asked' = asked
        BY <2>0, <2>3, <1>10 DEF StartAnalysis, TypeOK
      <3>2. job'[i].status = "waiting"
        BY <2>0, <2>3, <1>0, <1>10 DEF StartAnalysis, Released, Row
      <3>3. inv'[i] = [k \in Keys |-> IF k = "root" THEN "waiting"
                                      ELSE IF k \in Personas THEN "queued" ELSE inv[i][k]]
        BY <2>0, <2>3, <1>0, <1>10 DEF StartAnalysis
      <3>. QED
        BY <2>0, <3>1, <3>2, <3>3 DEF TurnStep, Began
    <2>4. CASE ResumeAnalysis(w)
      <3>1. run[i] = "succeeded" /\ (\A k \in Required(i) : inv[i][k] = "completed")
            /\ inv'[i] = [inv[i] EXCEPT !["root"] = "completed"]
            /\ EndTurn(w, i, "completed")
        BY <2>0, <2>4, <1>0, <1>10 DEF ResumeAnalysis
      <3>2. Resumed(i)
        BY <2>0, <2>1, <3>1 DEF Resumed, Ended
      <3>. QED
        BY <3>2 DEF TurnStep
    <2>5. CASE FailTurn(w)
      <3>1. inv'[i] = LiveEnded(inv[i], "failed") /\ EndTurn(w, i, "failed")
        BY <2>0, <2>5, <1>0, <1>10 DEF FailTurn
      <3>2. Closed(i, "failed")
        BY <2>0, <2>1, <3>1 DEF Closed, Live, Ended
      <3>. QED
        BY <3>2 DEF TurnStep, Ended
    <2>6. CASE Stop(w)
      BY <2>6 DEF Stop, TurnStep, Kept, RestKept
    <2>. QED
      BY <1>10, <2>2, <2>3, <2>4, <2>5, <2>6 DEF DispatchEnds
  <1>11. ASSUME NEW w \in Workers, DispatchEnds(w), ~Owns(w) PROVE TurnStep(i)
    BY <1>11
    DEF DispatchEnds, FinalizeExecution, StartAnalysis, ResumeAnalysis, FailTurn, Fenced,
        Stop, TurnStep, Kept, RestKept
  <1>12. ASSUME NEW w \in Workers,
                \/ Renew(w) \/ StartRead(w) \/ EndRead(w)
                \/ (\E k \in Reads : BeginRead(w, k)) \/ DispatchEnds(w)
         PROVE  TurnStep(i)
    <2>1. CASE DispatchEnds(w)
      BY <2>1, <1>8, <1>10, <1>11
    <2>2. CASE Renew(w) \/ StartRead(w) \/ EndRead(w) \/ \E k \in Reads : BeginRead(w, k)
      <3>1. Owns(w)
        BY <2>2 DEF Renew, StartRead, EndRead, BeginRead, Fenced
      <3>. QED
        BY <2>2, <3>1, <1>8, <1>9
    <2>. QED
      BY <1>12, <2>1, <2>2
  <1>13. CASE ChangeMembership
    BY <1>13 DEF ChangeMembership, TurnStep, Kept, RestKept
  <1>14. CASE Tick
    BY <1>14, <1>0 DEF Tick, TurnStep, Kept, RestKept, Row
  <1>15. CASE UNCHANGED vars
    BY <1>15 DEF vars, TurnStep, Kept, RestKept
  <1>. QED
    BY <1>1, <1>2, <1>3, <1>4, <1>5, <1>6, <1>7, <1>12, <1>13, <1>14, <1>15
    DEF Next, RunSettles, ClaimOrReject

-----------------------------------------------------------------------------
(* The inductive invariant *)

(* The tree of a turn that has not ended: no read has failed, the personas *)
(* appear with the run and have all completed when it has succeeded.       *)
OpenSteps ==
    \A i \in Jobs : job[i].status \in {"none"} \cup Live =>
       /\ \A k \in Reads : inv[i][k] \in {"none", "queued", "running", "completed"}
       /\ run[i] = "none" => \A k \in Personas : inv[i][k] = "none"
       /\ run[i] = "succeeded" => \A k \in Personas : inv[i][k] = "completed"

IInv == TypeOK /\ AnswerAgrees /\ RunAgrees /\ OpenSteps /\ StepsSettle

(* A turn nobody asked for has no answer, no run and an empty tree. *)
LEMMA InitIInv == Init => IInv
  <1>. SUFFICES ASSUME Init PROVE IInv
    OBVIOUS
  <1>1. TypeOK
    BY InitTypeOK
  <1>2. AnswerAgrees /\ RunAgrees
    BY DEF Init, AnswerAgrees, RunAgrees, Live, Ended, Keys
  <1>3. OpenSteps /\ StepsSettle
    BY DEF Init, OpenSteps, StepsSettle, Live, Ended, Keys
  <1>. QED
    BY <1>1, <1>2, <1>3 DEF IInv

(* A job is woken, taken or refused as waiting only if its run succeeded. *)
LEMMA ReadySucceeded ==
  ASSUME RunAgrees, NEW i \in Ready
  PROVE  i \in Jobs /\ job[i].status = "waiting" /\ run[i] = "succeeded"
  BY DEF RunAgrees, Ready

(* An open run leaves its turn waiting. *)
LEMMA OpenWaiting ==
  ASSUME RunAgrees, NEW i \in Jobs, run[i] = "open"
  PROVE  job[i].status = "waiting"
  BY DEF RunAgrees

(* Only personas move while a run is open, and reads are none of them. *)
LEMMA KeysApart == /\ "root" \in Keys /\ "root" \notin Reads /\ "root" \notin Personas
                   /\ \A k \in Reads : k \in Keys /\ k \notin Personas
                   /\ \A k \in Personas : k \in Keys /\ k \notin Reads
  BY ConstantsAssumption DEF Keys

(* Every step leaves answer, question and root telling the job's status. *)
LEMMA StepAnswerAgrees ==
  ASSUME TypeOK, AnswerAgrees, RunAgrees, NEW i \in Jobs, TurnStep(i)
  PROVE  /\ answer'[i] = IF job'[i].status \in Live THEN "in_progress" ELSE job'[i].status
         /\ asked'[i] = "completed" <=> job'[i].status \in Ended
         /\ inv'[i]["root"] = job'[i].status
  <1>0. /\ inv[i] \in [Keys -> Statuses] /\ job[i].status \in Statuses
        /\ answer[i] = IF job[i].status \in Live THEN "in_progress" ELSE job[i].status
        /\ asked[i] = "completed" <=> job[i].status \in Ended
        /\ inv[i]["root"] = job[i].status
    BY TypeOKRows DEF AnswerAgrees, Row, Statuses
  <1>. USE KeysApart DEF Live, Ended
  <1>1. CASE Kept(i)
    BY <1>0, <1>1 DEF Kept, RestKept
  <1>2. CASE Accepted(i)
    BY <1>0, <1>2 DEF Accepted
  <1>3. CASE Woken(i) \/ Taken(i)
    BY <1>0, <1>3, ReadySucceeded DEF Woken, Taken, RestKept
  <1>4. CASE Read(i)
    BY <1>0, <1>4 DEF Read, RestKept
  <1>5. CASE Began(i)
    BY <1>0, <1>5 DEF Began
  <1>6. CASE Staged(i) \/ Succeeded(i)
    BY <1>0, <1>6 DEF Staged, Succeeded, RestKept
  <1>7. CASE Resumed(i)
    BY <1>0, <1>7 DEF Resumed, Told
  <1>8. ASSUME NEW outcome \in {"failed", "cancelled"}, RunEnded(i, outcome)
        PROVE  /\ answer'[i] = IF job'[i].status \in Live THEN "in_progress" ELSE job'[i].status
               /\ asked'[i] = "completed" <=> job'[i].status \in Ended
               /\ inv'[i]["root"] = job'[i].status
    <2>1. job[i].status = "waiting" /\ job'[i].status = outcome /\ Told(i, outcome)
          /\ inv'[i]["root"] = LiveEnded(inv[i], outcome)["root"]
      BY <1>8, OpenWaiting DEF RunEnded
    <2>. QED
      BY <1>0, <2>1 DEF Told, LiveEnded
  <1>9. ASSUME NEW outcome \in Ended, Closed(i, outcome)
        PROVE  /\ answer'[i] = IF job'[i].status \in Live THEN "in_progress" ELSE job'[i].status
               /\ asked'[i] = "completed" <=> job'[i].status \in Ended
               /\ inv'[i]["root"] = job'[i].status
    BY <1>0, <1>9 DEF Closed, Told, LiveEnded
  <1>. QED
    BY <1>1, <1>2, <1>3, <1>4, <1>5, <1>6, <1>7, <1>8, <1>9 DEF TurnStep

(* Every step leaves the turn where its run is. *)
LEMMA StepRunAgrees ==
  ASSUME TypeOK, RunAgrees, NEW i \in Jobs, TurnStep(i)
  PROVE  /\ run'[i] = "open" => job'[i].status = "waiting"
         /\ run'[i] \in {"failed", "cancelled"} => job'[i].status = run'[i]
         /\ job'[i].status = "waiting" => run'[i] \in {"open", "succeeded"}
         /\ job'[i].status = "cancelled" => run'[i] \in {"none", "cancelled"}
  <1>0. /\ run[i] = "open" => job[i].status = "waiting"
        /\ run[i] \in {"failed", "cancelled"} => job[i].status = run[i]
        /\ job[i].status = "waiting" => run[i] \in {"open", "succeeded"}
        /\ job[i].status = "cancelled" => run[i] \in {"none", "cancelled"}
        /\ job[i].status \in Statuses
        /\ run[i] \in {"none", "open", "succeeded", "failed", "cancelled"}
    BY TypeOKRows DEF RunAgrees, Row, Statuses
  <1>. USE DEF Live, Ended
  <1>1. CASE Kept(i) \/ Accepted(i) \/ Woken(i) \/ Taken(i) \/ Read(i)
    BY <1>0, <1>1, ReadySucceeded DEF Kept, Accepted, Woken, Taken, Read, RestKept
  <1>2. CASE Began(i) \/ Staged(i) \/ Succeeded(i) \/ Resumed(i)
    BY <1>0, <1>2 DEF Began, Staged, Succeeded, Resumed, RestKept
  <1>3. ASSUME NEW outcome \in {"failed", "cancelled"}, RunEnded(i, outcome)
        PROVE  job'[i].status = outcome /\ run'[i] = outcome
    BY <1>0, <1>3 DEF RunEnded
  <1>4. ASSUME NEW outcome \in Ended, Closed(i, outcome)
        PROVE  /\ job'[i].status = outcome /\ run'[i] = run[i]
               /\ run[i] \in {"none", "succeeded"}
               /\ outcome = "cancelled" => run[i] = "none"
    BY <1>0, <1>4, ReadySucceeded DEF Closed
  <1>5. CASE \E outcome \in {"failed", "cancelled"} : RunEnded(i, outcome)
    BY <1>3, <1>5
  <1>6. CASE \E outcome \in Ended : Closed(i, outcome)
    BY <1>4, <1>6
  <1>. QED
    BY <1>1, <1>2, <1>5, <1>6 DEF TurnStep

(* Every step keeps the tree of an open turn in order. *)
LEMMA StepOpenSteps ==
  ASSUME TypeOK, RunAgrees, OpenSteps, NEW i \in Jobs, TurnStep(i),
         job'[i].status \in {"none"} \cup Live
  PROVE  /\ \A k \in Reads : inv'[i][k] \in {"none", "queued", "running", "completed"}
         /\ run'[i] = "none" => \A k \in Personas : inv'[i][k] = "none"
         /\ run'[i] = "succeeded" => \A k \in Personas : inv'[i][k] = "completed"
  <1>. USE KeysApart DEF Live, Ended
  <1>0. inv[i] \in [Keys -> Statuses]
    BY TypeOKRows
  <1>1. CASE Kept(i) \/ Accepted(i) \/ Woken(i) \/ Taken(i)
    <2>1. job[i].status \in {"none"} \cup Live /\ run'[i] = run[i]
          /\ \A k \in Reads \cup Personas : inv'[i][k] = inv[i][k]
      BY <1>0, <1>1, ReadySucceeded DEF Kept, Accepted, Woken, Taken, RestKept
    <2>. QED
      BY <2>1 DEF OpenSteps
  <1>2. CASE Read(i)
    BY <1>0, <1>2 DEF Read, RestKept, OpenSteps
  <1>3. CASE Began(i)
    BY <1>0, <1>3 DEF Began, OpenSteps
  <1>4. CASE Staged(i)
    BY <1>0, <1>4, OpenWaiting DEF Staged, RestKept, OpenSteps
  <1>5. CASE Succeeded(i)
    BY <1>0, <1>5, OpenWaiting DEF Succeeded, OpenSteps
  <1>6. CASE Resumed(i)
    BY <1>6 DEF Resumed
  <1>7. ASSUME NEW outcome \in {"failed", "cancelled"}, RunEnded(i, outcome) PROVE FALSE
    BY <1>7, OpenWaiting DEF RunEnded
  <1>8. ASSUME NEW outcome \in Ended, Closed(i, outcome) PROVE FALSE
    BY <1>8 DEF Closed
  <1>. QED
    BY <1>1, <1>2, <1>3, <1>4, <1>5, <1>6, <1>7, <1>8 DEF TurnStep

(* What StepsSettle asks of one ended turn. *)
Settled(i) ==
    /\ \A k \in Keys : inv[i][k] \in Live =>
          k \in Reads /\ job[i].status = "completed" /\ run[i] = "succeeded" /\ ~specialist[i]
    /\ job[i].status = "completed" =>
          /\ \A k \in Personas : run[i] # "none" => inv[i][k] = "completed"
          /\ run[i] = "none" \/ specialist[i] =>
               \A k \in Keys : inv[i][k] \in {"none", "completed"}

(* Every ending settles the tree, and nothing moves in it afterwards. *)
LEMMA StepSettled ==
  ASSUME TypeOK, AnswerAgrees, RunAgrees, OpenSteps, StepsSettle, NEW i \in Jobs,
         TurnStep(i), specialist' = specialist, job'[i].status \in Ended
  PROVE  Settled(i)'
  <1>. USE KeysApart DEF Live, Ended
  <1>0. inv[i] \in [Keys -> Statuses] /\ job[i].status \in Statuses
        /\ run[i] \in {"none", "open", "succeeded", "failed", "cancelled"}
    BY TypeOKRows DEF Row, Statuses
  <1>1. CASE Kept(i)
    <2>1. Settled(i)
      BY <1>1 DEF Kept, StepsSettle, Settled
    <2>. QED
      BY <1>1, <2>1 DEF Kept, RestKept, Settled
  <1>2. CASE Accepted(i) \/ Woken(i) \/ Taken(i) \/ Read(i) \/ Began(i)
    BY <1>2 DEF Accepted, Woken, Taken, Read, Began
  <1>3. CASE Staged(i) \/ Succeeded(i)
    BY <1>3, OpenWaiting DEF Staged, Succeeded
  <1>4. CASE Resumed(i)
    <2>1. /\ job[i].status = "running" /\ job'[i].status = "completed"
          /\ run[i] = "succeeded" /\ run'[i] = "succeeded"
          /\ inv'[i] = [inv[i] EXCEPT !["root"] = "completed"]
          /\ \A k \in Personas : inv[i][k] = "completed"
      BY <1>4 DEF Resumed, OpenSteps
    <2>2. \A k \in Keys : k = "root" \/ k \in Reads \/ k \in Personas
      BY DEF Keys
    <2>3. specialist[i] => \A k \in Reads : inv[i][k] \in {"none", "completed"}
      BY <1>4 DEF Resumed, Required
    <2>. QED
      BY <1>0, <2>1, <2>2, <2>3 DEF Settled
  <1>5. ASSUME NEW outcome \in {"failed", "cancelled"}, RunEnded(i, outcome)
        PROVE  Settled(i)'
    <2>1. job[i].status = "waiting" /\ job'[i].status = outcome
      BY <1>5, OpenWaiting DEF RunEnded
    <2>2. \A k \in Keys : inv'[i][k] \notin Live
      BY <1>0, <1>5, <2>1 DEF RunEnded, LiveEnded
    <2>. QED
      BY <2>1, <2>2 DEF Settled
  <1>6. ASSUME NEW outcome \in Ended, Closed(i, outcome)
        PROVE  Settled(i)'
    <2>1. /\ job[i].status \in Live /\ job'[i].status = outcome /\ run'[i] = run[i]
          /\ inv'[i] = LiveEnded(inv[i], outcome)
          /\ outcome = "completed" => run[i] = "none" /\ ~Pending(i)
      BY <1>6 DEF Closed
    <2>2. \A k \in Keys : inv'[i][k] = IF inv[i][k] \in Live THEN outcome ELSE inv[i][k]
      BY <2>1 DEF LiveEnded
    <2>3. CASE outcome # "completed"
      BY <2>1, <2>2, <2>3 DEF Settled
    <2>4. CASE outcome = "completed"
      <3>1. \A k \in Keys : k = "root" \/ k \in Reads \/ k \in Personas
        BY DEF Keys
      <3>2. inv[i]["root"] \in Live
        BY <2>1 DEF AnswerAgrees
      <3>3. \A k \in Reads \cup Personas : inv[i][k] \in {"none", "completed"}
        BY <2>1, <2>4 DEF Pending, OpenSteps
      <3>4. \A k \in Keys : inv'[i][k] \in {"none", "completed"}
        BY <2>2, <2>4, <3>1, <3>2, <3>3
      <3>. QED
        BY <2>1, <2>4, <3>4 DEF Settled
    <2>. QED
      BY <2>3, <2>4
  <1>. QED
    BY <1>1, <1>2, <1>3, <1>4, <1>5, <1>6 DEF TurnStep

(* The author's request does not change what it asks for. *)
LEMMA SpecialistFixed == [Next]_vars => specialist' = specialist
  <1>1. ASSUME NEW j \in Jobs, Enqueue(j) \/ RunSettles(j) \/ CancelJob(j)
        PROVE  specialist' = specialist
    BY <1>1 DEF Enqueue, RunSettles, RunSucceeds, RunEnds, CancelJob
  <1>2. ASSUME NEW j \in Jobs, NEW p \in Personas, NEW shown, StageMoves(j, p, shown)
        PROVE  specialist' = specialist
    BY <1>2 DEF StageMoves
  <1>3. ASSUME NEW w \in Workers, ClaimOrReject(w)
        PROVE  specialist' = specialist
    BY <1>3 DEF ClaimOrReject, Claim, RejectClaim
  <1>4. ASSUME NEW w \in Workers, DispatchEnds(w)
        PROVE  specialist' = specialist
    BY <1>4
    DEF DispatchEnds, FinalizeExecution, StartAnalysis, ResumeAnalysis, FailTurn, Stop, EndTurn
  <1>5. ASSUME NEW w \in Workers,
               Renew(w) \/ StartRead(w) \/ EndRead(w) \/ \E k \in Reads : BeginRead(w, k)
        PROVE  specialist' = specialist
    BY <1>5 DEF Renew, StartRead, EndRead, BeginRead
  <1>6. CASE ChangeMembership \/ Tick \/ UNCHANGED vars
    BY <1>6 DEF ChangeMembership, Tick, vars
  <1>. QED
    BY <1>1, <1>2, <1>3, <1>4, <1>5, <1>6 DEF Next

(* Every step on any turn keeps the invariant. *)
LEMMA StepIInv == IInv /\ [Next]_vars => IInv'
  <1>. SUFFICES ASSUME IInv, [Next]_vars PROVE IInv'
    OBVIOUS
  <1>1. TypeOK' /\ specialist' = specialist /\ \A i \in Jobs : TurnStep(i)
    BY StepTypeOK, StepTurns, SpecialistFixed DEF IInv
  <1>2. AnswerAgrees'
    BY <1>1, StepAnswerAgrees DEF IInv, AnswerAgrees
  <1>3. RunAgrees'
    BY <1>1, StepRunAgrees DEF IInv, RunAgrees
  <1>4. OpenSteps'
    BY <1>1, StepOpenSteps DEF IInv, OpenSteps
  <1>5. StepsSettle'
    BY <1>1, StepSettled DEF IInv, StepsSettle, Settled
  <1>. QED
    BY <1>1, <1>2, <1>3, <1>4, <1>5 DEF IInv

(* In every behaviour rows, messages, trees and runs agree. *)
THEOREM Invariance == Spec => []IInv
  BY InitIInv, StepIInv, PTL DEF Spec

-----------------------------------------------------------------------------
(* The theorems *)

(* The chat never contradicts the job: the answer is in progress exactly   *)
(* while the job is live, and root and answer show its outcome afterwards. *)
THEOREM AnswerAgreesHolds == Spec => []AnswerAgrees
  BY Invariance, PTL DEF IInv

(* A turn waits while its run is open and ends as a run that failed or was *)
(* cancelled: the branch of resumeAnalysis for such runs is dead code.     *)
THEOREM RunAgreesHolds == Spec => []RunAgrees
  BY Invariance, PTL DEF IInv

(* Whatever a turn planned and lost, its tree is settled when it ends, but *)
(* for the reads of an earlier plan under a full analysis.                 *)
THEOREM StepsSettleHolds == Spec => []StepsSettle
  BY Invariance, PTL DEF IInv

(* A move the contract's table allows, or the two that a claim may make.   *)
Legal(from, to) ==
    \/ to = from
    \/ to \in Transitions(from)
    \/ from = "waiting" /\ to \in Transitions("queued")

(* The rows of the table that the steps of a turn use. *)
LEMMA LegalMoves ==
  /\ \A s : Legal(s, s)
  /\ Legal("none", "queued") /\ Legal("queued", "running") /\ Legal("waiting", "running")
  /\ Legal("waiting", "queued") /\ Legal("running", "waiting")
  /\ Legal("running", "completed") /\ Legal("waiting", "completed")
  /\ \A s \in Live : Legal(s, "failed") /\ Legal(s, "cancelled")
  <1>1. /\ Transitions("none") = {"queued"}
        /\ Transitions("queued") = {"running", "cancelled", "failed"}
        /\ Transitions("running") = {"waiting", "completed", "failed", "cancelled"}
        /\ Transitions("waiting") = {"queued", "completed", "failed", "cancelled"}
    BY DEF Transitions
  <1>. QED
    BY <1>1 DEF Legal, Live

(* Status, root and reads of a turn only make legal moves. *)
LEMMA StepLegal ==
  ASSUME TypeOK, AnswerAgrees, RunAgrees, OpenSteps, NEW i \in Jobs, TurnStep(i)
  PROVE  /\ Legal(job[i].status, job'[i].status)
         /\ \A k \in {"root"} \cup Reads : Legal(inv[i][k], inv'[i][k])
  <1>. USE KeysApart, LegalMoves
  <1>0. /\ inv[i] \in [Keys -> Statuses] /\ job[i].status \in Statuses
        /\ inv[i]["root"] = job[i].status
    BY TypeOKRows DEF AnswerAgrees, Row, Statuses
  <1>1. CASE Kept(i)
    BY <1>1 DEF Kept
  <1>2. CASE Accepted(i) \/ Woken(i) \/ Taken(i)
    <2>1. Legal(job[i].status, job'[i].status)
      BY <1>2, ReadySucceeded DEF Accepted, Woken, Taken
    <2>2. inv'[i]["root"] = job'[i].status
      BY <1>0, <1>2 DEF Accepted, Woken, Taken
    <2>3. \A k \in Reads : inv'[i][k] = inv[i][k]
      BY <1>0, <1>2 DEF Accepted, Woken, Taken
    <2>. QED
      BY <1>0, <2>1, <2>2, <2>3
  <1>3. CASE Read(i)
    <2>. PICK k \in Reads, to \in {"queued", "running", "completed"} :
              /\ inv'[i] = [inv[i] EXCEPT ![k] = to]
              /\ <<inv[i][k], to>> \in {<<"none", "queued">>, <<"queued", "running">>,
                                        <<"running", "completed">>}
      BY <1>3 DEF Read
    <2>1. Legal(inv[i][k], to) /\ \A q \in Keys \ {k} : inv'[i][q] = inv[i][q]
      BY <1>0
    <2>2. inv'[i][k] = to
      BY <1>0
    <2>. QED
      BY <1>3, <2>1, <2>2 DEF Read
  <1>4. CASE Began(i)
    BY <1>0, <1>4 DEF Began
  <1>5. CASE Staged(i) \/ Succeeded(i)
    BY <1>0, <1>5 DEF Staged, Succeeded
  <1>6. CASE Resumed(i)
    BY <1>0, <1>6 DEF Resumed
  <1>7. ASSUME NEW outcome \in {"failed", "cancelled"}, RunEnded(i, outcome)
        PROVE  /\ Legal(job[i].status, job'[i].status)
               /\ \A k \in {"root"} \cup Reads : Legal(inv[i][k], inv'[i][k])
    <2>1. job[i].status = "waiting" /\ job'[i].status = outcome
          /\ \A k \in {"root"} \cup Reads : inv'[i][k] = LiveEnded(inv[i], outcome)[k]
      BY <1>7, OpenWaiting DEF RunEnded, Ended
    <2>. QED
      BY <2>1 DEF LiveEnded, Live
  <1>8. ASSUME NEW outcome \in Ended, Closed(i, outcome)
        PROVE  /\ Legal(job[i].status, job'[i].status)
               /\ \A k \in {"root"} \cup Reads : Legal(inv[i][k], inv'[i][k])
    <2>1. /\ job[i].status \in Live /\ job'[i].status = outcome
          /\ \A k \in Keys : inv'[i][k] = IF inv[i][k] \in Live THEN outcome ELSE inv[i][k]
          /\ outcome = "completed" => job[i].status = "running" /\ ~Pending(i)
      BY <1>8, ReadySucceeded DEF Closed, LiveEnded
    <2>2. CASE outcome = "completed"
      BY <1>0, <2>1, <2>2 DEF Pending
    <2>3. CASE outcome \in {"failed", "cancelled"}
      BY <1>0, <2>1, <2>3
    <2>. QED
      BY <2>2, <2>3 DEF Ended
  <1>. QED
    BY <1>1, <1>2, <1>3, <1>4, <1>5, <1>6, <1>7, <1>8 DEF TurnStep

(* Job, root and reads only make the moves of the contract's table, though *)
(* hardly any statement consults it.                                       *)
THEOREM MovesAreLegalHolds == Spec => MovesAreLegal
  <1>1. IInv /\ [Next]_vars =>
          \A j \in Jobs : /\ Legal(job[j].status, job'[j].status)
                          /\ \A k \in {"root"} \cup Reads : Legal(inv[j][k], inv'[j][k])
    BY StepTurns, StepLegal DEF IInv
  <1>. QED
    BY <1>1, Invariance, PTL DEF Spec, MovesAreLegal, Legal

-----------------------------------------------------------------------------
(* Fencing *)

(* No dispatch carries a token its job has not reached. *)
TokensBounded ==
    \A w \in Workers : active[w] # None => active[w].token <= job[active[w].job].token

(* What a step may do to one row: nothing, queue it, take it, let go of it, *)
(* renew its lease or let the lease run down.                               *)
Requeued(i) ==
    job[i].status \in {"none", "waiting"} /\ job'[i] = [job[i] EXCEPT !.status = "queued"]

Leased(i) == job'[i].token = job[i].token + 1

LetGo(i) ==
    \E s \in Statuses \ {"running"} :
       \/ job'[i] = Released(job[i], s)
       \/ job'[i] = [Released(job[i], s) EXCEPT !.attempt = 0]
       \/ job'[i] = Revoked(job[i], s)

Renewed(i) ==
    job[i].lease_left > 0 /\ job'[i] = [job[i] EXCEPT !.lease_left = LeaseTicks]

Aged(i) ==
    job'[i] = [job[i] EXCEPT !.lease_left = IF @ > Expired THEN @ - 1 ELSE @]

RowStep(i) ==
    job'[i] = job[i] \/ Requeued(i) \/ Leased(i) \/ LetGo(i) \/ Renewed(i) \/ Aged(i)

(* Every transaction does one of these to each row. *)
LEMMA StepRows ==
  ASSUME TypeOK, [Next]_vars, NEW i \in Jobs
  PROVE  RowStep(i)
  <1>0. job \in [Jobs -> Row] /\ job[i] \in Row
    BY TypeOKRows
  <1>e. Ended \subseteq Statuses \ {"running"} /\ "waiting" \in Statuses \ {"running"}
        /\ {"failed", "cancelled", "completed"} \subseteq Ended
    BY DEF Statuses, Live, Ended
  <1>1. ASSUME NEW j \in Jobs, Enqueue(j) \/ CancelJob(j)
        PROVE  RowStep(i)
    BY <1>0, <1>1, <1>e DEF Enqueue, CancelJob, RowStep, Requeued, LetGo
  <1>2. ASSUME NEW j \in Jobs, RunSettles(j)
        PROVE  RowStep(i)
    <2>1. CASE RunSucceeds(j)
      BY <2>1 DEF RunSucceeds, RowStep
    <2>2. ASSUME NEW outcome \in {"failed", "cancelled"}, NEW shown, RunEnds(j, outcome, shown)
          PROVE  RowStep(i)
      <3>1. job'[i] = job[i] \/ job'[i] = Revoked(job[i], outcome)
        BY <1>0, <2>2 DEF RunEnds
      <3>. QED
        BY <1>e, <3>1 DEF RowStep, LetGo
    <2>. QED
      BY <1>2, <2>1, <2>2 DEF RunSettles
  <1>3. ASSUME NEW w \in Workers, NEW j \in Jobs, NEW woken \in Wakings,
               Claim(w, j, woken) \/ RejectClaim(w, j, woken)
        PROVE  RowStep(i)
    <2>1. CASE i # j
      <3>1. job'[i] = WokenRow(i, woken)
        BY <1>3, <2>1 DEF Claim, RejectClaim
      <3>. QED
        BY <3>1, WokenReady DEF WokenRow, Ready, RowStep, Requeued
    <2>2. CASE i = j /\ Claim(w, j, woken)
      BY <1>0, <2>2 DEF Claim, RowStep, Leased
    <2>3. CASE i = j /\ RejectClaim(w, j, woken)
      BY <1>e, <2>3 DEF RejectClaim, RowStep, LetGo
    <2>. QED
      BY <1>3, <2>1, <2>2, <2>3
  <1>4. ASSUME NEW w \in Workers, DispatchEnds(w)
        PROVE  RowStep(i)
    <2>1. ASSUME NEW j, NEW outcome \in Ended, EndTurn(w, j, outcome)
          PROVE  RowStep(i)
      BY <1>0, <1>e, <2>1 DEF EndTurn, RowStep, LetGo
    <2>2. CASE StartAnalysis(w)
      BY <1>0, <1>e, <2>2 DEF StartAnalysis, RowStep, LetGo
    <2>3. CASE ResumeAnalysis(w) \/ FailTurn(w)
      BY <1>e, <2>1, <2>3 DEF ResumeAnalysis, FailTurn
    <2>4. CASE Stop(w)
      BY <2>4 DEF Stop, RowStep
    <2>5. ASSUME NEW outcome \in Ended, FinalizeExecution(w, outcome)
          PROVE  RowStep(i)
      BY <2>1, <2>5 DEF FinalizeExecution
    <2>. QED
      BY <1>4, <2>2, <2>3, <2>4, <2>5 DEF DispatchEnds
  <1>5. ASSUME NEW w \in Workers, Renew(w)
        PROVE  RowStep(i)
    <2>1. /\ job[active[w].job].lease_left > 0
          /\ job' = [job EXCEPT ![active[w].job].lease_left = LeaseTicks]
      BY <1>5, OwnedJob DEF Renew, Fenced
    <2>. QED
      BY <1>0, <2>1 DEF RowStep, Renewed
  <1>6. ASSUME NEW w \in Workers, StartRead(w) \/ EndRead(w) \/ \E k \in Reads : BeginRead(w, k)
        PROVE  RowStep(i)
    BY <1>6 DEF StartRead, EndRead, BeginRead, RowStep
  <1>7. ASSUME NEW j, NEW p, NEW shown, StageMoves(j, p, shown)
        PROVE  RowStep(i)
    BY <1>7 DEF StageMoves, RowStep
  <1>8. CASE ChangeMembership \/ UNCHANGED vars
    BY <1>8 DEF ChangeMembership, vars, RowStep
  <1>9. CASE Tick
    BY <1>9 DEF Tick, RowStep, Aged
  <1>. QED
    BY <1>1, <1>2, <1>3, <1>4, <1>5, <1>6, <1>7, <1>8, <1>9 DEF Next, ClaimOrReject

(* A token never shrinks. *)
LEMMA TokensGrow ==
  ASSUME TypeOK, [Next]_vars, NEW i \in Jobs
  PROVE  job[i].token <= job'[i].token
  <1>0. job[i] \in Row /\ job[i].token \in Nat
    BY TypeOKRows DEF Row
  <1>1. CASE LetGo(i)
    <2>. PICK s : \/ job'[i] = Released(job[i], s)
                  \/ job'[i] = [Released(job[i], s) EXCEPT !.attempt = 0]
                  \/ job'[i] = Revoked(job[i], s)
      BY <1>1 DEF LetGo
    <2>1. /\ Released(job[i], s).token = job[i].token
          /\ [Released(job[i], s) EXCEPT !.attempt = 0].token = job[i].token
          /\ Revoked(job[i], s).token = job[i].token + 1
      BY <1>0 DEF Released, Revoked, Row
    <2>2. job'[i].token = job[i].token \/ job'[i].token = job[i].token + 1
      BY <2>1, Zenon
    <2>. QED
      BY <1>0, <2>2
  <1>2. CASE job'[i] = job[i] \/ Requeued(i) \/ Leased(i) \/ Renewed(i) \/ Aged(i)
    BY <1>0, <1>2 DEF Requeued, Leased, Renewed, Aged, Row
  <1>. QED
    BY <1>1, <1>2, StepRows DEF RowStep

(* A row that is leased to a worker without a new token was leased to it   *)
(* before.                                                                 *)
LEMMA HeldBefore ==
  ASSUME TypeOK, [Next]_vars, NEW i \in Jobs,
         job'[i].token = job[i].token, job'[i].status = "running", job'[i].lease_left > 0
  PROVE  /\ job[i].status = "running" /\ job[i].lease_left > 0
         /\ job[i].worker = job'[i].worker
  <1>0. job[i] \in Row /\ job[i].token \in Nat /\ job[i].lease_left \in Int
    BY TypeOKRows, ConstantsAssumption DEF Row, Expired
  <1>1. ~Requeued(i)
    BY <1>0 DEF Requeued, Row
  <1>2. ~Leased(i)
    BY <1>0 DEF Leased
  <1>3. ASSUME LetGo(i) PROVE FALSE
    <2>. PICK s \in Statuses \ {"running"} :
                  \/ job'[i] = Released(job[i], s)
                  \/ job'[i] = [Released(job[i], s) EXCEPT !.attempt = 0]
                  \/ job'[i] = Revoked(job[i], s)
      BY <1>3 DEF LetGo
    <2>1. /\ Released(job[i], s).status = s
          /\ [Released(job[i], s) EXCEPT !.attempt = 0].status = s
          /\ Revoked(job[i], s).status = s
      BY <1>0 DEF Released, Revoked, Row
    <2>. QED
      BY <2>1
  <1>4. CASE job'[i] = job[i]
    BY <1>4
  <1>5. CASE Renewed(i)
    BY <1>0, <1>5 DEF Renewed, Row
  <1>6. CASE Aged(i)
    BY <1>0, <1>6 DEF Aged, Row, Expired
  <1>. QED
    BY <1>1, <1>2, <1>3, <1>4, <1>5, <1>6, StepRows DEF RowStep

(* A dispatch begins with a claim, which hands it the token the job has    *)
(* from then on.                                                           *)
LEMMA DispatchBegins ==
  ASSUME TypeOK, [Next]_vars, NEW w \in Workers
  PROVE  \/ active'[w] = active[w] \/ active'[w] = None
         \/ \E j \in Jobs : active'[w] = [job |-> j, token |-> job'[j].token]
  <1>0. active \in [Workers -> Leases \cup {None}]
    BY TypeOKRows
  <1>1. ASSUME NEW v \in Workers, NEW j \in Jobs, NEW woken \in Wakings, Claim(v, j, woken)
        PROVE  \/ active'[w] = active[w]
               \/ active'[w] = [job |-> j, token |-> job'[j].token]
    <2>1. job'[j].token = job[j].token + 1
      BY <1>1 DEF Claim
    <2>2. active' = [active EXCEPT ![v] = [job |-> j, token |-> job[j].token + 1]]
      BY <1>1 DEF Claim
    <2>. QED
      BY <1>0, <2>1, <2>2
  <1>2. ASSUME NEW v \in Workers, DispatchEnds(v)
        PROVE  active'[w] = active[w] \/ active'[w] = None
    <2>1. active' = [active EXCEPT ![v] = None]
      BY <1>2
      DEF DispatchEnds, FinalizeExecution, StartAnalysis, ResumeAnalysis, FailTurn, Stop,
          EndTurn, Leave
    <2>. QED
      BY <1>0, <2>1
  <1>3. ASSUME NEW v \in Workers, NEW j, NEW woken, RejectClaim(v, j, woken)
        PROVE  active' = active
    BY <1>3 DEF RejectClaim
  <1>4. ASSUME NEW v \in Workers,
               Renew(v) \/ StartRead(v) \/ EndRead(v) \/ \E k \in Reads : BeginRead(v, k)
        PROVE  active' = active
    BY <1>4 DEF Renew, StartRead, EndRead, BeginRead
  <1>5. ASSUME NEW j \in Jobs, Enqueue(j) \/ RunSettles(j) \/ CancelJob(j)
        PROVE  active' = active
    BY <1>5 DEF Enqueue, RunSettles, RunSucceeds, RunEnds, CancelJob
  <1>6. ASSUME NEW j \in Jobs, NEW p, NEW shown, StageMoves(j, p, shown)
        PROVE  active' = active
    BY <1>6 DEF StageMoves
  <1>7. CASE ChangeMembership \/ Tick \/ UNCHANGED vars
    BY <1>7 DEF ChangeMembership, Tick, vars
  <1>. QED
    BY <1>1, <1>2, <1>3, <1>4, <1>5, <1>6, <1>7 DEF Next, ClaimOrReject

(* No dispatch ever gets ahead of its job. *)
LEMMA TokensInvariance == Spec => [](TypeOK /\ TokensBounded)
  <1>1. Init => TypeOK /\ TokensBounded
    BY InitTypeOK DEF Init, TokensBounded
  <1>2. TypeOK /\ TokensBounded /\ [Next]_vars => (TypeOK /\ TokensBounded)'
    <2>. SUFFICES ASSUME TypeOK, TokensBounded, [Next]_vars,
                         NEW w \in Workers, active'[w] # None
                  PROVE  active'[w].token <= job'[active'[w].job].token
      BY StepTypeOK DEF TokensBounded
    <2>0. /\ active[w] \in Leases \cup {None}
          /\ \A i \in Jobs : job[i].token \in Nat /\ job'[i].token \in Nat
      BY StepTypeOK, TypeOKRows DEF TypeOK, Row
    <2>1. CASE active'[w] = active[w]
      BY <2>0, <2>1, TokensGrow DEF TokensBounded, Leases
    <2>2. CASE \E j \in Jobs : active'[w] = [job |-> j, token |-> job'[j].token]
      BY <2>0, <2>2
    <2>. QED
      BY <2>1, <2>2, DispatchBegins
  <1>. QED
    BY <1>1, <1>2, PTL DEF Spec

(* A dispatch that lost its job never gets it back: a lease that is held   *)
(* under the same token was held before.                                   *)
THEOREM LostLeaseStaysLostHolds == Spec => LostLeaseStaysLost
  <1>1. ASSUME TypeOK, TokensBounded, [Next]_vars, NEW w \in Workers,
               active[w] # None, active'[w] = active[w], Owns(w)'
        PROVE  Owns(w)
    <2>. DEFINE j == active[w].job
    <2>0. /\ j \in Jobs /\ active[w].token \in Nat
          /\ job[j].token \in Nat /\ job'[j].token \in Nat
      BY <1>1, StepTypeOK, TypeOKRows DEF TypeOK, Leases, Row
    <2>1. /\ job'[j].status = "running" /\ job'[j].worker = w
          /\ job'[j].token = active[w].token /\ job'[j].lease_left > 0
      BY <1>1 DEF Owns
    <2>2. job[j].token = active[w].token
      BY <1>1, <2>0, <2>1, TokensGrow DEF TokensBounded
    <2>3. job[j].status = "running" /\ job[j].worker = w /\ job[j].lease_left > 0
      BY <1>1, <2>0, <2>1, <2>2, HeldBefore
    <2>. QED
      BY <1>1, <2>2, <2>3 DEF Owns
  <1>2. TypeOK /\ TokensBounded /\ [Next]_vars =>
          [\A w \in Workers :
              active[w] # None /\ active'[w] = active[w] /\ ~Owns(w) => ~Owns(w)']_vars
    BY <1>1
  <1>. QED
    BY <1>2, TokensInvariance, PTL DEF Spec, LostLeaseStaysLost

-----------------------------------------------------------------------------
(* The detailed specification implements the contract.                     *)

(* What the contract sees of one turn. *)
LEMMA PhaseOf ==
  /\ \A i \in Jobs :
        /\ job[i].status = "none" => phase[i] = "new"
        /\ job[i].status \in Live => phase[i] = "open"
        /\ job[i].status \in Ended => phase[i] = job[i].status
  /\ \A i \in Jobs :
        /\ job'[i].status = "none" => phase'[i] = "new"
        /\ job'[i].status \in Live => phase'[i] = "open"
        /\ job'[i].status \in Ended => phase'[i] = job'[i].status
  BY DEF phase, Live, Ended

(* A turn nobody asked for is new to the contract. *)
LEMMA InitContract == Init => Contract!Init
  <1>1. ASSUME Init PROVE phase = [j \in Jobs |-> "new"]
    <2>1. \A j \in Jobs : job[j].status = "none"
      BY <1>1 DEF Init
    <2>2. \A j \in Jobs : phase[j] = "new"
      BY <2>1, PhaseOf
    <2>3. phase = [j \in Jobs |-> phase[j]]
      BY DEF phase
    <2>. HIDE DEF phase
    <2>. QED
      BY <2>2, <2>3
  <1>. QED
    BY <1>1 DEF Init, Contract!Init

(* The contract does not see a step that keeps the statuses of job and run. *)
Unseen(i) == phase'[i] = phase[i] /\ run'[i] = run[i]

(* A transaction changes at most one turn as far as the contract sees.     *)
LEMMA StepOne == TypeOK /\ [Next]_vars => \E j : \A i \in Jobs \ {j} : Unseen(i)
  <1>. SUFFICES ASSUME TypeOK, [Next]_vars PROVE \E j : \A i \in Jobs \ {j} : Unseen(i)
    OBVIOUS
  <1>0. job \in [Jobs -> Row]
    BY TypeOKRows
  <1>1. ASSUME NEW i \in Jobs, run'[i] = run[i],
               \/ job'[i].status = job[i].status
               \/ \E woken \in Wakings : job'[i] = WokenRow(i, woken)
        PROVE  Unseen(i)
    <2>1. CASE job'[i].status = job[i].status
      BY <1>1, <2>1 DEF Unseen, phase
    <2>2. ASSUME NEW woken \in Wakings, job'[i] = WokenRow(i, woken)
          PROVE  phase'[i] = phase[i]
      <3>1. CASE i \notin woken
        BY <2>2, <3>1 DEF WokenRow, phase
      <3>2. CASE i \in woken
        <4>1. job[i].status = "waiting" /\ job'[i].status = "queued"
          BY <1>0, <2>2, <3>2, WokenReady DEF WokenRow, Ready, Row
        <4>. QED
          BY <4>1, PhaseOf DEF Live
      <3>. QED
        BY <3>1, <3>2
    <2>. QED
      BY <1>1, <2>1, <2>2 DEF Unseen
  <1>2. ASSUME NEW j \in Jobs, Enqueue(j) \/ RunSettles(j) \/ CancelJob(j)
        PROVE  \A i \in Jobs \ {j} : Unseen(i)
    <2>. SUFFICES ASSUME NEW i \in Jobs \ {j}
                  PROVE  job'[i] = job[i] /\ run'[i] = run[i]
      BY <1>1
    <2>1. CASE Enqueue(j) \/ CancelJob(j)
      BY <1>0, <2>1 DEF Enqueue, CancelJob
    <2>2. CASE RunSettles(j)
      BY <1>0, <2>2 DEF RunSettles, RunSucceeds, RunEnds, TypeOK
    <2>. QED
      BY <1>2, <2>1, <2>2
  <1>3. ASSUME NEW w \in Workers, NEW j \in Jobs, NEW woken \in Wakings,
               Claim(w, j, woken) \/ RejectClaim(w, j, woken)
        PROVE  \A i \in Jobs \ {j} : Unseen(i)
    BY <1>1, <1>3 DEF Claim, RejectClaim
  <1>4. ASSUME NEW w \in Workers, DispatchEnds(w)
        PROVE  \E j : \A i \in Jobs \ {j} : Unseen(i)
    <2>. DEFINE j == active[w].job
    <2>1. ASSUME NEW i \in Jobs \ {j} PROVE job'[i] = job[i] /\ run'[i] = run[i]
      BY <1>0, <1>4, <2>1
      DEF DispatchEnds, FinalizeExecution, StartAnalysis, ResumeAnalysis, FailTurn, Stop,
          EndTurn, TypeOK
    <2>. QED
      BY <1>1, <2>1
  <1>5. ASSUME NEW w \in Workers,
               Renew(w) \/ StartRead(w) \/ EndRead(w) \/ \E k \in Reads : BeginRead(w, k)
        PROVE  \A i \in Jobs : Unseen(i)
    <2>1. CASE Renew(w)
      BY <1>0, <1>1, <2>1 DEF Renew, Row
    <2>2. CASE StartRead(w) \/ EndRead(w) \/ \E k \in Reads : BeginRead(w, k)
      BY <1>1, <2>2 DEF StartRead, EndRead, BeginRead
    <2>. QED
      BY <1>5, <2>1, <2>2
  <1>6. ASSUME NEW j, NEW p, NEW shown, StageMoves(j, p, shown)
        PROVE  \A i \in Jobs : Unseen(i)
    BY <1>1, <1>6 DEF StageMoves
  <1>7. CASE ChangeMembership \/ UNCHANGED vars
    BY <1>1, <1>7 DEF ChangeMembership, vars
  <1>8. CASE Tick
    <2>1. \A i \in Jobs : job'[i].status = job[i].status /\ run' = run
      BY <1>0, <1>8 DEF Tick, Row
    <2>. QED
      BY <1>1, <2>1
  <1>. QED
    BY <1>2, <1>3, <1>4, <1>5, <1>6, <1>7, <1>8 DEF Next, ClaimOrReject

(* What a step does to one turn is a step of the contract or unseen. *)
ContractStep(j) ==
    \/ phase[j] = "new" /\ phase'[j] = "open" /\ run'[j] = run[j]
    \/ phase[j] = "open" /\ phase'[j] = "open" /\ run[j] = "none" /\ run'[j] = "open"
    \/ run[j] = "open" /\ run'[j] = "succeeded" /\ phase'[j] = phase[j]
    \/ \E outcome \in {"failed", "cancelled"} :
          run[j] = "open" /\ run'[j] = outcome /\ phase'[j] = outcome
    \/ \E outcome \in {"completed", "failed", "cancelled"} :
          /\ phase[j] = "open" /\ run[j] \in {"none", "succeeded"}
          /\ outcome = "cancelled" => run[j] = "none"
          /\ phase'[j] = outcome /\ run'[j] = run[j]

LEMMA TurnStepContract ==
  ASSUME TypeOK, RunAgrees, NEW j \in Jobs, TurnStep(j)
  PROVE  Unseen(j) \/ ContractStep(j)
  <1>. USE DEF Live, Ended
  <1>0. run[j] \in {"none", "open", "succeeded", "failed", "cancelled"}
    BY TypeOKRows
  <1>1. CASE Kept(j)
    BY <1>1 DEF Kept, RestKept, Unseen, phase
  <1>2. CASE Accepted(j)
    BY <1>2, PhaseOf DEF Accepted, ContractStep
  <1>3. CASE Woken(j) \/ Taken(j) \/ Read(j)
    BY <1>3, PhaseOf, ReadySucceeded DEF Woken, Taken, Read, RestKept, Unseen
  <1>4. CASE Began(j)
    BY <1>4, PhaseOf DEF Began, ContractStep
  <1>5. CASE Staged(j)
    BY <1>5 DEF Staged, RestKept, Unseen, phase
  <1>6. CASE Succeeded(j)
    BY <1>6 DEF Succeeded, ContractStep, phase
  <1>7. CASE Resumed(j)
    BY <1>7, PhaseOf DEF Resumed, ContractStep
  <1>8. ASSUME NEW outcome \in {"failed", "cancelled"}, RunEnded(j, outcome)
        PROVE  ContractStep(j)
    <2>1. job'[j].status = outcome /\ run[j] = "open" /\ run'[j] = outcome
      BY <1>8, OpenWaiting DEF RunEnded
    <2>. QED
      BY <2>1, PhaseOf DEF ContractStep
  <1>9. ASSUME NEW outcome \in Ended, Closed(j, outcome)
        PROVE  ContractStep(j)
    <2>1. /\ job[j].status \in Live /\ job'[j].status = outcome /\ run'[j] = run[j]
          /\ run[j] \in {"none", "succeeded"}
          /\ outcome = "cancelled" => run[j] = "none"
      BY <1>0, <1>9, ReadySucceeded DEF Closed, RunAgrees
    <2>. QED
      BY <2>1, PhaseOf DEF ContractStep
  <1>. QED
    BY <1>1, <1>2, <1>3, <1>4, <1>5, <1>6, <1>7, <1>8, <1>9 DEF TurnStep

(* Every transaction is a step of the contract or a stutter. *)
LEMMA StepContract == IInv /\ [Next]_vars => [Contract!Next]_(Contract!vars)
  <1>. SUFFICES ASSUME IInv, [Next]_vars
                PROVE  Contract!Next \/ UNCHANGED Contract!vars
    OBVIOUS
  <1>0. /\ TypeOK /\ RunAgrees /\ DOMAIN run = Jobs /\ DOMAIN run' = Jobs
        /\ run = [i \in Jobs |-> run[i]] /\ run' = [i \in Jobs |-> run'[i]]
        /\ \A i \in Jobs : TurnStep(i)
    BY StepTypeOK, StepTurns DEF IInv, TypeOK
  <1>1. PICK j : \A i \in Jobs \ {j} : Unseen(i)
    BY <1>0, StepOne
  <1>p. /\ phase = [i \in Jobs |-> phase[i]]
        /\ phase' = [i \in Jobs |-> phase'[i]]
    BY DEF phase
  <1>2. CASE \A i \in Jobs : Unseen(i)
    <2>1. phase' = phase
      BY <1>2 DEF phase, Unseen
    <2>2. run' = run
      BY <1>0, <1>2 DEF Unseen
    <2>. QED
      BY <2>1, <2>2 DEF Contract!vars
  <1>3. CASE j \in Jobs /\ ContractStep(j)
    <2>1. /\ phase' = [phase EXCEPT ![j] = phase'[j]]
          /\ run' = [run EXCEPT ![j] = run'[j]]
      <3>. DEFINE P == phase
                  Q == phase'
                  R == run
                  S == run'
      <3>1. /\ P = [i \in Jobs |-> P[i]] /\ Q = [i \in Jobs |-> Q[i]]
            /\ R = [i \in Jobs |-> R[i]] /\ S = [i \in Jobs |-> S[i]]
            /\ \A i \in Jobs \ {j} : Q[i] = P[i] /\ S[i] = R[i]
        BY <1>0, <1>p, <1>1 DEF Unseen
      <3>. HIDE DEF P, Q, R, S
      <3>2. Q = [P EXCEPT ![j] = Q[j]] /\ S = [R EXCEPT ![j] = S[j]]
        BY <3>1
      <3>. QED
        BY <3>2 DEF P, Q, R, S
    <2>2. /\ phase'[j] = phase[j] => phase' = phase
          /\ run'[j] = run[j] => run' = run
      BY <1>0, <1>p, <1>1, <1>3 DEF Unseen
    <2>. QED
      BY <1>3, <2>1, <2>2
      DEF ContractStep, Contract!Next, Contract!Accept, Contract!StartRun,
          Contract!RunSucceeds, Contract!RunEnds, Contract!End
  <1>. QED
    BY <1>0, <1>1, <1>2, <1>3, TurnStepContract

(* Rows, leases and trees implement the promise of the turn: it ends once, *)
(* with at most one run, and is cancelled past its run only with the run.  *)
THEOREM ContractImplemented == Spec => ImplementsContract
  BY InitContract, StepContract, Invariance, PTL
  DEF Spec, ImplementsContract, Contract!Spec
=============================================================================
