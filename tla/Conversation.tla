---------------------------- MODULE Conversation ----------------------------
(***************************************************************************)
(* A turn's execution, the chat page and the pane of a run.  They meet     *)
(* only through what the server stores, and each module has its own        *)
(* picture of that; here they go on side by side.                          *)
(***************************************************************************)
EXTENDS AgentTurn, ChatClient, RunPane

vars == <<turnVars, clientVars, paneVars>>

Init == TurnInit /\ ClientInit /\ PaneInit

Next ==
    \/ TurnNext /\ UNCHANGED <<clientVars, paneVars>>
    \/ ClientNext /\ UNCHANGED <<turnVars, paneVars>>
    \/ PaneNext /\ UNCHANGED <<turnVars, clientVars>>

Fairness == TurnFairness /\ ClientFairness /\ PaneFairness

Spec == Init /\ [][Next]_vars /\ Fairness

(* An answer or a frame that was overtaken brings no message of another    *)
(* conversation and no ended job back to life (ScreenNeverRegresses), and  *)
(* takes back neither the run nor the activity of the pane                 *)
(* (PaneNeverRegresses).  The feed of messages is not claimed to keep what *)
(* it shows: what arrives last wins there.                                 *)
NeverRegresses == ScreenNeverRegresses /\ PaneNeverRegresses

(* What was begun comes to its end: the turn (TurnEnds), its answer in the *)
(* feed, for good (TurnShown), and what the pane shows of a run            *)
(* (PaneSettles).                                                          *)
AllSettle == TurnEnds /\ TurnShown /\ PaneSettles
=============================================================================
