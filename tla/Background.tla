----------------------------- MODULE Background -----------------------------
(***************************************************************************)
(* The worker's loop around its three kinds of work: the tick that makes   *)
(* runs of due definitions, the queues of chat turns and of runs, and the  *)
(* outbox.  An error of the tick, of a claim or of a delivery's last call  *)
(* leaves the loop and ends the process; a dispatch of a turn or of a run  *)
(* catches its own.                                                        *)
(*                                                                         *)
(* What a dispatched turn or run goes through is in DurableTurn and        *)
(* RunLifecycle; here taking one from its queue is all there is to it, and *)
(* the answer of a turn is in when its dispatch is over.                   *)
(***************************************************************************)
EXTENDS Scheduling, ExternalDelivery

CONSTANT Supervised   \* the workers that are started again when their process has ended

VARIABLES
    loop,          \* worker -> where its loop is
    ticked,        \* worker -> it has ticked within the current minute (in memory)
    preferAgent,   \* worker -> which queue it looks at first (in memory)
    taken          \* occurrences whose run has been taken from the queue

loopVars == <<loop, ticked, preferAgent, taken>>
vars == <<schedulingVars, deliveryVars, loopVars>>

TypeOK ==
    /\ SchedulingTypeOK /\ DeliveryTypeOK
    /\ loop \in [Workers -> {"tick", "claim", "delivery", "dispatch", "down"}]
    /\ ticked \in [Workers -> BOOLEAN]
    /\ preferAgent \in [Workers -> BOOLEAN]
    /\ taken \subseteq occ

Init ==
    /\ SchedulingInit /\ DeliveryInit
    /\ loop = [w \in Workers |-> "tick"]
    /\ ticked = [w \in Workers |-> FALSE]
    /\ preferAgent = [w \in Workers |-> TRUE]
    /\ taken = {}

-----------------------------------------------------------------------------
(* One iteration of runLoop *)

GoesTo(w, place) == loop' = [loop EXCEPT ![w] = place]

(* tickWhenDue: the next tick is due a minute after the last. *)
TickWhenDue(w) ==
    /\ loop[w] = "tick"
    /\ UNCHANGED <<preferAgent, taken, deliveryVars>>
    /\ \/ /\ ~ticked[w] /\ Tick
          /\ ticked' = [ticked EXCEPT ![w] = TRUE]
          /\ GoesTo(w, "claim")
       \/ /\ ~ticked[w] /\ TickBlocked
          /\ GoesTo(w, "down") /\ UNCHANGED <<ticked, schedulingVars>>
       \/ /\ ticked[w]
          /\ GoesTo(w, "claim") /\ UNCHANGED <<ticked, schedulingVars>>

RunsWait == occ # taken

(* The turn of an update, or one submitted in the browser: of those there  *)
(* may be one waiting at any time.  Turns are claimed oldest first, so the *)
(* ones submitted after an update's turn do not pass it.                   *)
TakeTurn ==
    \/ \E u \in Updates : answer[u] = "open" /\ answer' = [answer EXCEPT ![u] = "ended"]
    \/ (\A u \in Updates : answer[u] # "open") /\ UNCHANGED answer

TakeRun == \E o \in occ \ taken : taken' = taken \cup {o}

Handling(w, swap) ==
    /\ loop[w] = "claim" /\ GoesTo(w, "delivery")
    /\ preferAgent' = [preferAgent EXCEPT ![w] = @ # swap]
    /\ UNCHANGED <<ticked, schedulingVars, hook, row, dispatch, heard, faults>>

(* Mutant: turns always come first. *)
TurnsFirst(w) ==
    \E browser \in BOOLEAN :
        LET turnsWait == browser \/ \E u \in Updates : answer[u] = "open"
        IN  /\ \/ turnsWait /\ TakeTurn /\ UNCHANGED taken
               \/ ~turnsWait /\ RunsWait /\ TakeRun /\ UNCHANGED answer
               \/ ~turnsWait /\ ~RunsWait /\ UNCHANGED <<taken, answer>>
            /\ Handling(w, FALSE)

(* The preferred queue, the other one if that is empty; then they swap.    *)
ClaimWork(w) ==
    \E browser \in BOOLEAN :
        LET turnsWait == browser \/ \E u \in Updates : answer[u] = "open"
        IN  /\ \/ turnsWait /\ (preferAgent[w] \/ ~RunsWait) /\ TakeTurn /\ UNCHANGED taken
               \/ RunsWait /\ (~preferAgent[w] \/ ~turnsWait) /\ TakeRun /\ UNCHANGED answer
               \/ ~turnsWait /\ ~RunsWait /\ UNCHANGED <<taken, answer>>
            /\ Handling(w, turnsWait \/ RunsWait)

TakeDelivery(w) ==
    /\ loop[w] = "delivery"
    /\ \/ \E u \in Updates : ClaimDelivery(w, u) /\ GoesTo(w, "dispatch")
       \/ /\ \A u \in Updates : ~Claimable(u)
          /\ GoesTo(w, "tick") /\ UNCHANGED deliveryVars
    /\ UNCHANGED <<ticked, preferAgent, taken, schedulingVars>>

(* dispatchExternalDelivery, call by call; what it throws ends the loop.   *)
DispatchDelivery(w) ==
    /\ loop[w] = "dispatch"
    /\ \/ ReadAnswer(w) \/ SendMessage(w) \/ FinishSent(w) \/ FinishFailed(w)
       \/ DispatchThrows(w)
    /\ GoesTo(w, IF dispatch'[w] # None THEN "dispatch"
                 ELSE IF row' = row THEN "down" ELSE "tick")
    /\ UNCHANGED <<ticked, preferAgent, taken, schedulingVars>>

Crash(w) ==
    /\ loop[w] # "down" /\ Fault
    /\ GoesTo(w, "down") /\ dispatch' = [dispatch EXCEPT ![w] = None]
    /\ UNCHANGED <<ticked, preferAgent, taken, schedulingVars, hook, answer, row, heard>>

Restart(w) ==
    /\ w \in Supervised /\ loop[w] = "down" /\ GoesTo(w, "tick")
    /\ ticked' = [ticked EXCEPT ![w] = FALSE]
    /\ preferAgent' = [preferAgent EXCEPT ![w] = TRUE]
    /\ UNCHANGED <<taken, schedulingVars, deliveryVars>>

Iterate(w) ==
    TickWhenDue(w) \/ ClaimWork(w) \/ TakeDelivery(w) \/ DispatchDelivery(w) \/ Restart(w)

-----------------------------------------------------------------------------

Others ==
    \/ (MemberActs \/ \E m \in Members : ChangeRole(m)) /\ UNCHANGED <<deliveryVars, loopVars>>
    \/ /\ Advance /\ ticked' = [w \in Workers |-> FALSE]
       /\ UNCHANGED <<deliveryVars, loop, preferAgent, taken>>
    \/ ChannelActs /\ UNCHANGED <<schedulingVars, loopVars>>

Next == Others \/ \E w \in Workers : Iterate(w) \/ Crash(w)

Spec == Init /\ [][Next]_vars

(* A worker's loop never rests, a dead one is started again, a lease and a *)
(* retry's delay run out, and a webhook call goes on to its second         *)
(* transaction.  Nothing is assumed of members and of the browser.         *)
Fairness ==
    /\ \A w \in Workers : WF_vars(Iterate(w))
    /\ \A u \in Updates :
          /\ WF_vars((SubmitTurn(u) \/ EnqueueDelivery(u)) /\ UNCHANGED <<schedulingVars, loopVars>>)
          /\ WF_vars((Lapse(u) \/ ComesDue(u)) /\ UNCHANGED <<schedulingVars, loopVars>>)

FairSpec == Spec /\ Fairness

-----------------------------------------------------------------------------
(* Properties *)

(* A due slot is never dropped: a definition moves past it only with its   *)
(* occurrence made, unless it is edited; a tick that is late, repeated by  *)
(* another worker or cut short by a crash changes nothing in that.         *)
NoSlotDropped ==
    [][\A d \in Due :
          (def'[d].version = def[d].version /\ def'[d].next # def[d].next)
              => \E o \in occ' : o.of = d /\ o.slot = def[d].next]_vars

(* What is due is dealt with. *)
DueServed == []<>(Due = {})

(* However many turns keep arriving, the queue of runs is emptied. *)
RunsTaken == []<>(taken = occ)

(* An answer is sent or given up, or its last attempt was lost. *)
AnswersSettle ==
    \A u \in Updates :
        (hook[u] # "delivering") ~>
            (row[u].status \in Settled \/ (Abandoned(u) /\ \A w \in Workers : dispatch[w] = None))

(* The worker serves all its kinds of work, whatever the others ask of it, *)
(* except while a due definition of an unknown scope fails every tick: the *)
(* tick comes first in the loop and its error ends the process, so then    *)
(* nothing is served (schedule-repository tick, run-loop).                 *)
AllServed == <>[]~TickBlocked => (DueServed /\ RunsTaken /\ AnswersSettle)

=============================================================================
