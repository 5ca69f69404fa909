--------------------------- MODULE ExternalDelivery ---------------------------
(***************************************************************************)
(* The Telegram channel: the webhook that turns an update into a chat turn *)
(* and a row of the outbox, and the dispatch that sends the answer.        *)
(*                                                                         *)
(* Every identity (conversation, turn, idempotency key, delivery) is a     *)
(* function of the update, so an update redelivered by Telegram repeats    *)
(* the same two transactions: the turn is accepted, the delivery is        *)
(* queued.  A dispatch reads the answer, sends it and finishes the row:    *)
(* three calls that can each fail, of which the second also in a way that  *)
(* leaves open whether Telegram took the message.                          *)
(*                                                                         *)
(* Time is nondeterministic: a lease lapses and a retry comes due some     *)
(* time after they were set, as a worker may be slow at any step.          *)
(* The commands /start, /help, /status and /latest only read and reply.    *)
(***************************************************************************)
EXTENDS Integers, FiniteSets

CONSTANTS
    Updates,       \* updates Telegram delivers, by update_id
    Workers,       \* worker processes
    MaxAttempts,   \* 5 in the code
    MaxFaults,     \* bound on faults: calls lost or failing, processes dying
    None           \* SQL NULL

ASSUME DeliveryAssumption ==
    /\ MaxAttempts \in Nat \ {0} /\ MaxFaults \in Nat
    /\ IsFiniteSet(Workers) /\ None \notin Workers

VARIABLES
    hook,          \* the webhook call that handles the update
    answer,        \* status of the assistant message: "none", "open" or "ended"
    row,           \* the rows of external_channel_deliveries
    dispatch,      \* worker -> the claimed delivery it is dispatching, or None
    heard,         \* update -> how often the chat received the answer
    faults         \* faults so far

deliveryVars == <<hook, answer, row, dispatch, heard, faults>>

Settled == {"sent", "failed"}
Delivery == [status : {"none", "pending", "sending"} \cup Settled, attempts : 0 .. MaxAttempts,
             worker : Workers \cup {None}, live : BOOLEAN, due : BOOLEAN]
Dispatch == [of : Updates, attempt : 1 .. MaxAttempts, step : {"read", "send", "sent", "failed"}]

DeliveryTypeOK ==
    /\ hook \in [Updates -> {"delivering", "accepted", "acknowledged"}]
    /\ answer \in [Updates -> {"none", "open", "ended"}]
    /\ row \in [Updates -> Delivery]
    /\ dispatch \in [Workers -> Dispatch \cup {None}]
    /\ heard \in [Updates -> Nat]
    /\ faults \in 0 .. MaxFaults

DeliveryInit ==
    /\ hook = [u \in Updates |-> "delivering"]
    /\ answer = [u \in Updates |-> "none"]
    /\ row = [u \in Updates |-> [status |-> "none", attempts |-> 0, worker |-> None,
                                 live |-> FALSE, due |-> FALSE]]
    /\ dispatch = [w \in Workers |-> None]
    /\ heard = [u \in Updates |-> 0]
    /\ faults = 0

Fault == faults < MaxFaults /\ faults' = faults + 1

-----------------------------------------------------------------------------
(* The webhook *)

(* The turn is accepted once, under the update's idempotency key. *)
SubmitTurn(u) ==
    /\ hook[u] = "delivering"
    /\ hook' = [hook EXCEPT ![u] = "accepted"]
    /\ answer' = [answer EXCEPT ![u] = IF @ = "none" THEN "open" ELSE @]
    /\ UNCHANGED <<row, dispatch, heard, faults>>

(* Mutant: a redelivered update queues its answer again. *)
EnqueueAgain(u) ==
    /\ hook[u] = "accepted"
    /\ hook' = [hook EXCEPT ![u] = "acknowledged"]
    /\ row' = [row EXCEPT ![u] = [status |-> "pending", attempts |-> 0, worker |-> None,
                                  live |-> FALSE, due |-> TRUE]]
    /\ UNCHANGED <<answer, dispatch, heard, faults>>

(* enqueueDelivery: a row for the event, unless it has one. *)
EnqueueDelivery(u) ==
    /\ hook[u] = "accepted"
    /\ hook' = [hook EXCEPT ![u] = "acknowledged"]
    /\ row' = [row EXCEPT ![u] =
                 IF @.status = "none" THEN [@ EXCEPT !.status = "pending", !.due = TRUE] ELSE @]
    /\ UNCHANGED <<answer, dispatch, heard, faults>>

(* The call fails between its transactions, or its reply is lost: Telegram *)
(* delivers the update again.                                              *)
Redeliver(u) ==
    /\ hook[u] \in {"accepted", "acknowledged"} /\ Fault
    /\ hook' = [hook EXCEPT ![u] = "delivering"]
    /\ UNCHANGED <<answer, row, dispatch, heard>>

-----------------------------------------------------------------------------
(* The outbox *)

Claimable(u) ==
    /\ row[u].due /\ row[u].attempts < MaxAttempts
    /\ row[u].status = "pending" \/ (row[u].status = "sending" /\ ~row[u].live)
    /\ answer[u] = "ended"

(* claimDelivery: any claimable row; SKIP LOCKED may pass over the oldest. *)
ClaimDelivery(w, u) ==
    /\ dispatch[w] = None /\ Claimable(u)
    /\ row' = [row EXCEPT ![u].status = "sending", ![u].attempts = @ + 1,
                          ![u].worker = w, ![u].live = TRUE]
    /\ dispatch' = [dispatch EXCEPT ![w] =
                      [of |-> u, attempt |-> row[u].attempts + 1, step |-> "read"]]
    /\ UNCHANGED <<hook, answer, heard, faults>>

At(w, step) == dispatch[w] # None /\ dispatch[w].step = step
Goto(w, step) == dispatch' = [dispatch EXCEPT ![w].step = step]

(* The row is still leased to w in the attempt it dispatches. *)
Leased(w) ==
    LET d == dispatch[w]
    IN  /\ row[d.of].status = "sending" /\ row[d.of].worker = w
        /\ row[d.of].attempts = d.attempt /\ row[d.of].live

(* What finishDelivery writes: sent, given up, or to be tried again later. *)
Finished(w, sent) ==
    LET d == dispatch[w]
    IN  [row EXCEPT ![d.of].status = IF sent THEN "sent"
                                     ELSE IF d.attempt >= MaxAttempts THEN "failed" ELSE "pending",
                    ![d.of].worker = None, ![d.of].live = FALSE, ![d.of].due = FALSE]

ReadAnswer(w) ==
    /\ At(w, "read")
    /\ \/ answer[dispatch[w].of] = "ended" /\ Goto(w, "send") /\ UNCHANGED faults
       \/ Fault /\ Goto(w, "failed")
    /\ UNCHANGED <<hook, answer, row, heard>>

(* Telegram takes the message, or refuses it; or it takes it and the reply *)
(* is lost or late (the call gives up after ten seconds).                  *)
SendMessage(w) ==
    /\ At(w, "send")
    /\ \E taken \in BOOLEAN, told \in BOOLEAN :
          /\ told => taken
          /\ heard' = [heard EXCEPT ![dispatch[w].of] = IF taken THEN @ + 1 ELSE @]
          /\ Goto(w, IF told THEN "sent" ELSE "failed")
    /\ UNCHANGED <<hook, answer, row, faults>>

(* finishDelivery(sent): a lost lease is thrown into the same catch as a   *)
(* failed send; so is a commit whose reply was lost.                       *)
FinishSent(w) ==
    /\ At(w, "sent")
    /\ \/ /\ Leased(w)
          /\ row' = Finished(w, TRUE)
          /\ \/ dispatch' = [dispatch EXCEPT ![w] = None] /\ UNCHANGED faults
             \/ Fault /\ Goto(w, "failed")
       \/ Fault /\ Goto(w, "failed") /\ UNCHANGED row
       \/ ~Leased(w) /\ Goto(w, "failed") /\ UNCHANGED <<row, faults>>
    /\ UNCHANGED <<hook, answer, heard>>

(* finishDelivery(not sent) by a dispatch that still has its lease.  One   *)
(* that has not throws out of dispatchExternalDelivery: DispatchThrows.    *)
FinishFailed(w) ==
    /\ At(w, "failed") /\ Leased(w)
    /\ row' = Finished(w, FALSE)
    /\ dispatch' = [dispatch EXCEPT ![w] = None]
    /\ UNCHANGED <<hook, answer, heard, faults>>

DispatchThrows(w) ==
    /\ At(w, "failed")
    /\ \/ ~Leased(w) /\ UNCHANGED faults
       \/ Fault
    /\ dispatch' = [dispatch EXCEPT ![w] = None]
    /\ UNCHANGED <<hook, answer, row, heard>>

Lapse(u) ==
    /\ row[u].live /\ row' = [row EXCEPT ![u].live = FALSE]
    /\ UNCHANGED <<hook, answer, dispatch, heard, faults>>

ComesDue(u) ==
    /\ row[u].status = "pending" /\ ~row[u].due
    /\ row' = [row EXCEPT ![u].due = TRUE]
    /\ UNCHANGED <<hook, answer, dispatch, heard, faults>>

ChannelActs ==
    \E u \in Updates :
        SubmitTurn(u) \/ EnqueueDelivery(u) \/ Redeliver(u) \/ Lapse(u) \/ ComesDue(u)

-----------------------------------------------------------------------------
(* Properties *)

(* The outbox tells the truth and repeats itself within bounds, whichever  *)
(* of several dispatches of a delivery (some of which lost its lease) and  *)
(* of redelivered webhook calls come in between: "sent" means the chat     *)
(* received the answer, it received it no more often than attempts were    *)
(* charged, and a delivery is given up only after all of them.             *)
OutboxHonest ==
    \A u \in Updates :
        /\ row[u].status = "sent" => heard[u] > 0
        /\ heard[u] <= row[u].attempts
        /\ row[u].status = "failed" => row[u].attempts = MaxAttempts

(* The hole: the last attempt's dispatch is gone and nobody may claim.     *)
Abandoned(u) == row[u].status = "sending" /\ row[u].attempts = MaxAttempts

=============================================================================
