---------------------------- MODULE MCBackground ----------------------------
(***************************************************************************)
(* The schedule and the channel share nothing but the worker, so TLC looks *)
(* at one of them at a time: in the first family of initial states the     *)
(* channel has nothing left to do, in the second no definition is edited   *)
(* any more.  All of them are states the program reaches from Init.        *)
(*                                                                         *)
(* The clock goes back over the times of the first date and skips the      *)
(* first time of the second.                                               *)
(***************************************************************************)
EXTENDS Background, TLC

CONSTANTS d1, d2, ana, w1

MCCreator == d1 :> ana @@ d2 :> ana

Minute(date, time) == [date |-> date, time |-> time]
MCClock == <<Minute(1, 1), Minute(1, 2), Minute(1, 1), Minute(1, 2), Minute(2, 2)>>

(* A definition that has been edited as often as the bound allows. *)
Edited(time, enabled) ==
    [exists |-> TRUE, enabled |-> enabled, version |-> MaxVersion, time |-> time,
     next |-> NextScheduledAt(time, 1)]

NotYet(t) == [exists |-> FALSE, enabled |-> FALSE, version |-> 0, time |-> t, next |-> Never]

LastMinute == Cardinality(Minutes)

MCInit ==
    /\ occ = {} /\ taken = {} /\ writer = [m \in Members |-> TRUE]
    /\ dispatch = [w \in Workers |-> None]
    /\ ticked = [w \in Workers |-> FALSE]
    /\ preferAgent = [w \in Workers |-> TRUE]
    /\ \/ /\ now = 1 /\ faults = MaxFaults /\ loaded = d1 :> TRUE @@ d2 :> FALSE
          /\ loop = [w \in Workers |-> IF w = w1 THEN "tick" ELSE "down"]
          /\ \/ def = d1 :> NotYet(1) @@ d2 :> Edited(1, TRUE)
             \/ def = [d \in Definitions |-> Edited(2, TRUE)]
          /\ hook = [u \in Updates |-> "acknowledged"]
          /\ answer = [u \in Updates |-> "ended"]
          /\ row = [u \in Updates |-> [status |-> "sent", attempts |-> 1, worker |-> None,
                                       live |-> FALSE, due |-> FALSE]]
          /\ heard = [u \in Updates |-> 1]
       \/ /\ now = LastMinute /\ faults = 0 /\ loaded = [d \in Definitions |-> TRUE]
          /\ loop = [w \in Workers |-> "tick"]
          /\ def = [d \in Definitions |-> Edited(1, FALSE)]
          /\ hook = [u \in Updates |-> "delivering"]
          /\ answer = [u \in Updates |-> "none"]
          /\ row = [u \in Updates |-> [status |-> "none", attempts |-> 0, worker |-> None,
                                       live |-> FALSE, due |-> FALSE]]
          /\ heard = [u \in Updates |-> 0]

MCSpec == MCInit /\ [][Next]_vars /\ Fairness
=============================================================================
