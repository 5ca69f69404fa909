----------------------------- MODULE TeamRuntime -----------------------------
(***************************************************************************)
(* The team that analyses a run: agents invoked step by step, each of      *)
(* which runs its program, delegates steps to others, some of them at      *)
(* once, and calls the tool of its stage.  Delegations share the budgets   *)
(* of one attempt; every transition of an invocation is written to the     *)
(* run's activity, which outlives the attempt: another worker runs the     *)
(* whole program again over the rows and messages of the last one.         *)
(*                                                                         *)
(* Tool rows, contents of messages and contexts are left out; what the     *)
(* tools do is in StageCheckpoints.  A write that is awaited is one step   *)
(* that may fail.                                                          *)
(***************************************************************************)
EXTENDS Integers, FiniteSets, Sequences, Functions

CONSTANTS
    Steps,           \* step keys of invocations
    AgentOf,         \* step -> agent
    Programs,        \* [main, groups]: the step the team is run with; step ->
                     \* the groups of steps its program delegates, one group
                     \* after the other, the steps of a group at once
    Optional,        \* steps at which the program may also end
    Budgets,         \* [invocations, delegations, perAgent] the team may have
    MaxAttempts,     \* workers that take the run up
    MaxTeamFaults    \* calls that fail, dead workers, aborts

(* Every other step is delegated by one program, and no program delegates  *)
(* to its own agent.                                                       *)
(* The step the team is run with is within every budget it may have.       *)
ASSUME TeamConstants ==
    /\ IsFiniteSet(Steps) /\ DOMAIN AgentOf = Steps /\ Optional \subseteq Steps
    /\ Budgets \subseteq [invocations : Nat \ {0}, delegations : Nat, perAgent : Nat \ {0}]
    /\ MaxAttempts \in Nat \ {0} /\ MaxTeamFaults \in Nat
    /\ \A program \in Programs :
          /\ program.main \in Steps /\ program.groups \in [Steps -> Seq(SUBSET Steps)]
          /\ \A c, p, q \in Steps : \A g \in DOMAIN program.groups[p], h \in DOMAIN program.groups[q] :
                c \in program.groups[p][g] =>
                    /\ AgentOf[p] # AgentOf[c] /\ c # program.main
                    /\ c \in program.groups[q][h] => p = q /\ g = h

VARIABLES
    team,       \* [program, budget]: what the team runs, its options
    call,       \* step -> [phase, ok]: its invocation, in memory
    group,      \* step -> the group its program is at
    used,       \* steps that were admitted
    rows,       \* step -> status of its invocation row
    messages,   \* <<step, "request" or "response">> written
    aborted,    \* the attempt's signal: shutdown, deadline
    expired,    \* steps whose signal a time-out has aborted
    adrift,     \* invocations nobody waits for, before they write their end
    worker,     \* "up", "down"
    attempt, teamFaults

teamVars ==
    <<team, call, group, used, rows, messages, aborted, expired, adrift, worker, attempt, teamFaults>>

Main == team.program.main
Groups == team.program.groups
Children(p) == UNION Range(Groups[p])
ParentOf(c) == CHOOSE p \in Steps : c \in Children(p)

(* A step and all that is delegated below it. *)
Subtree(c) ==
    LET reached[n \in 0 .. Cardinality(Steps)] ==
          IF n = 0 THEN {c} ELSE reached[n - 1] \cup UNION {Children(p) : p \in reached[n - 1]}
    IN  Steps \cap reached[Cardinality(Steps)]

(* "refused" was never admitted; "asking", "calling" wait for the request  *)
(* and the invocation's own row, "returned" and "failing" for the row of   *)
(* its end, "resuming" for that of its parent.                             *)
Phases == {"idle", "refused", "asking", "calling", "preparing", "working", "returned",
           "failing", "resuming", "settled"}
Open == {"queued", "running", "waiting"}
Idle == [phase |-> "idle", ok |-> FALSE]
Call(phase, ok) == [phase |-> phase, ok |-> ok]

TeamTypeOK ==
    /\ team \in [program : Programs, budget : Budgets]
    /\ call \in [Steps -> [phase : Phases, ok : BOOLEAN]]
    /\ group \in [Steps -> Nat] /\ \A s \in Steps : group[s] \in 1 .. Len(Groups[s]) + 1
    /\ used \subseteq Steps
    /\ rows \in [Steps -> Open \cup {"none", "completed", "failed", "cancelled"}]
    /\ messages \subseteq Steps \X {"request", "response"}
    /\ aborted \in BOOLEAN /\ expired \subseteq Steps /\ adrift \subseteq Steps
    /\ worker \in {"up", "down"}
    /\ attempt \in 1 .. MaxAttempts /\ teamFaults \in 0 .. MaxTeamFaults

Started == [s \in Steps |-> IF s = Main THEN Call("calling", FALSE) ELSE Idle]

TeamInit ==
    /\ team \in [program : Programs, budget : Budgets]
    /\ call = Started /\ group = [s \in Steps |-> 1] /\ used = {Main}
    /\ rows = [s \in Steps |-> "none"] /\ messages = {}
    /\ aborted = FALSE /\ expired = {} /\ adrift = {}
    /\ worker = "up" /\ attempt = 1 /\ teamFaults = 0

TeamFault == teamFaults < MaxTeamFaults /\ teamFaults' = teamFaults + 1
NoTeamFault == UNCHANGED teamFaults
(* The signal of a delegation is that of its parent, or its own time-out. *)
Stopped(s) == aborted \/ s \in expired
(* What fails by itself, or because the signal is aborted. *)
MayFail(s) == IF Stopped(s) THEN NoTeamFault ELSE TeamFault
Fixed == UNCHANGED <<team, aborted, expired, adrift, worker, attempt>>

-----------------------------------------------------------------------------
(* The run's activity *)

(* Mutant: a replayed program writes its row anew. *)
Overwritten(r, s, status) == [r EXCEPT ![s] = status]

(* Mutant: a replayed step keeps the row of its first write. *)
FirstKept(r, s, status) == IF r[s] = "none" THEN [r EXCEPT ![s] = status] ELSE r

(* writeRuntimeActivity: a completed row is canonical. *)
Written(r, s, status) == IF r[s] = "completed" THEN r ELSE [r EXCEPT ![s] = status]

-----------------------------------------------------------------------------
(* Delegation *)

InFlight(c) == call[c].phase \in {"asking", "calling", "preparing", "working", "returned", "failing"}

Within(steps) ==
    /\ Cardinality(steps) <= team.budget.invocations
    /\ Cardinality(steps \ {Main}) <= team.budget.delegations
    /\ \A a \in Range(AgentOf) : Cardinality({s \in steps : AgentOf[s] = a}) <= team.budget.perAgent

(* Mutant: the budgets are spent once the request is persisted, so that    *)
(* steps asked for at once are admitted apart from each other.             *)
AdmissionsApart(steps) == {{c \in steps : Within(used \cup {c})}}

(* What the budgets allow is admitted, in any order, the rest refused.     *)
Admissions(steps) ==
    {a \in SUBSET steps : /\ Within(used \cup a)
                          /\ \A c \in steps \ a : ~Within(used \cup a \cup {c})}

(* requestAgent up to its first await, for all steps of a group.           *)
DelegateGroup(p) ==
    /\ call[p].phase = "working" /\ group[p] <= Len(Groups[p])
    /\ LET steps == Groups[p][group[p]]
       IN  /\ \A c \in steps : call[c] = Idle
           /\ \E admitted \in IF Stopped(p) THEN {{}} ELSE Admissions(steps) :
                 /\ used' = used \cup admitted
                 /\ call' = [c \in Steps |-> IF c \notin steps THEN call[c]
                                             ELSE Call(IF c \in admitted THEN "asking" ELSE "refused", FALSE)]
    /\ UNCHANGED <<group, rows, messages>> /\ NoTeamFault /\ Fixed

(* Mutant: the parent goes on as soon as one child has answered. *)
AnyAnswer(c) == TRUE

LastInFlight(c) == \A d \in Children(ParentOf(c)) \ {c} : ~InFlight(d)

(* finally: the last child in flight tells that the parent goes on.        *)
Settled(c, ok) ==
    call' = [call EXCEPT ![c] = Call(IF LastInFlight(c) /\ ~Stopped(ParentOf(c)) THEN "resuming" ELSE "settled", ok)]

(* The accepted delegation, in one transaction: the step is queued, the    *)
(* request written, the parent waits.                                      *)
Ask(c) ==
    /\ call[c].phase = "asking" /\ UNCHANGED <<group, used>> /\ Fixed
    /\ \/ /\ NoTeamFault /\ call' = [call EXCEPT ![c].phase = "calling"]
          /\ rows' = Written(Written(rows, c, "queued"), ParentOf(c), "waiting")
          /\ messages' = messages \cup {<<c, "request">>}
       \/ TeamFault /\ Settled(c, FALSE) /\ UNCHANGED <<rows, messages>>

(* The tool call and invoke: an error before the invocation's own row is   *)
(* written leaves that as it is.                                           *)
Begin(s) ==
    /\ call[s].phase = "calling" /\ UNCHANGED <<group, used, messages>> /\ Fixed
    /\ \/ /\ ~Stopped(s) /\ NoTeamFault /\ call' = [call EXCEPT ![s].phase = "preparing"]
          /\ rows' = Written(rows, s, "running")
       \/ /\ MayFail(s)
          /\ IF s = Main THEN call' = [call EXCEPT ![s] = Call("settled", FALSE)] ELSE Settled(s, FALSE)
          /\ UNCHANGED rows

(* buildContext *)
Prepare(s) ==
    /\ call[s].phase = "preparing" /\ ~Stopped(s) /\ UNCHANGED <<group, used, rows, messages>> /\ Fixed
    /\ \/ NoTeamFault /\ call' = [call EXCEPT ![s].phase = "working"]
       \/ TeamFault /\ call' = [call EXCEPT ![s].phase = "failing"]

-----------------------------------------------------------------------------
(* Programs *)

(* Mutant: an answer is enough to go on. *)
SomeAnswer(p) == TRUE

AllAnswered(p) == \A c \in Groups[p][group[p]] : call[c].ok

(* allSettled: the program goes on when all steps of its group have ended, *)
(* and fails when one of them did.                                         *)
GroupEnds(p) ==
    /\ call[p].phase = "working" /\ group[p] <= Len(Groups[p])
    /\ \A c \in Groups[p][group[p]] : call[c].phase \in {"settled", "refused"}
    /\ IF AllAnswered(p) THEN group' = [group EXCEPT ![p] = @ + 1] /\ UNCHANGED call
       ELSE call' = [call EXCEPT ![p].phase = "failing"] /\ UNCHANGED group
    /\ UNCHANGED <<used, rows, messages>> /\ NoTeamFault /\ Fixed

(* No group is left, or the reviewer asked for no revision.                *)
Finished(p) ==
    group[p] <= Len(Groups[p]) => \A c \in Groups[p][group[p]] : c \in Optional /\ call[c] = Idle

(* The tool of the stage, or the coordinator's result. *)
Return(s) ==
    /\ call[s].phase = "working" /\ Finished(s) /\ ~Stopped(s)
    /\ \/ NoTeamFault /\ call' = [call EXCEPT ![s].phase = "returned"]
       \/ TeamFault /\ call' = [call EXCEPT ![s].phase = "failing"]
    /\ UNCHANGED <<group, used, rows, messages>> /\ Fixed

(* abortable: the invocation gives up at once, whatever it has called.     *)
GiveUp(s) ==
    /\ Stopped(s) /\ call[s].phase \in {"preparing", "working"}
    /\ call' = [call EXCEPT ![s].phase = "failing"]
    /\ UNCHANGED <<group, used, rows, messages>> /\ NoTeamFault /\ Fixed

-----------------------------------------------------------------------------
(* Ends *)

(* The end of a delegation, in one transaction: the row and the response.  *)
Answer(c) ==
    /\ c # Main /\ call[c].phase = "returned" /\ UNCHANGED <<group, used>> /\ Fixed
    /\ \/ /\ NoTeamFault /\ Settled(c, TRUE) /\ rows' = Written(rows, c, "completed")
          /\ messages' = messages \cup {<<c, "response">>}
       \/ MayFail(c) /\ Settled(c, FALSE) /\ UNCHANGED <<rows, messages>>

TeamEnds ==
    /\ call[Main].phase = "returned" /\ UNCHANGED <<group, used, messages>> /\ Fixed
    /\ \/ /\ ~Stopped(Main) /\ NoTeamFault /\ call' = [call EXCEPT ![Main] = Call("settled", TRUE)]
          /\ rows' = Written(rows, Main, "completed")
       \/ /\ MayFail(Main)
          /\ call' = [call EXCEPT ![Main].phase = "failing"] /\ UNCHANGED rows

(* The row of a failure; the failure itself counts, whether or not it is   *)
(* written.                                                                *)
Fail(s) ==
    /\ call[s].phase = "failing" /\ UNCHANGED <<group, used, messages>> /\ Fixed
    /\ \/ NoTeamFault /\ rows' = Written(rows, s, IF Stopped(s) THEN "cancelled" ELSE "failed")
       \/ TeamFault /\ UNCHANGED rows
    /\ IF s = Main THEN call' = [call EXCEPT ![s] = Call("settled", FALSE)] ELSE Settled(s, FALSE)

(* The parent goes on; if that cannot be written, the delegation failed.   *)
Resume(c) ==
    /\ call[c].phase = "resuming" /\ UNCHANGED <<group, used, messages>> /\ Fixed
    /\ \/ /\ NoTeamFault /\ rows' = Written(rows, ParentOf(c), "running")
          /\ call' = [call EXCEPT ![c].phase = "settled"]
       \/ TeamFault /\ call' = [call EXCEPT ![c] = Call("settled", FALSE)] /\ UNCHANGED rows

(* A delegation has a time limit: its parent is answered at once, all that *)
(* goes on below gives up, and the invocation itself writes its end when   *)
(* nobody waits for it any more.                                           *)
TimesOut(c) ==
    /\ c # Main /\ call[c].phase \in {"preparing", "working"} /\ ~Stopped(c)
    /\ TeamFault /\ Settled(c, FALSE)
    /\ expired' = expired \cup Subtree(c) /\ adrift' = adrift \cup {c}
    /\ UNCHANGED <<team, group, used, rows, messages, aborted, worker, attempt>>

LateEnd(c) ==
    /\ c \in adrift /\ adrift' = adrift \ {c}
    /\ \/ NoTeamFault /\ rows' = Written(rows, c, "cancelled")
       \/ TeamFault /\ UNCHANGED rows
    /\ UNCHANGED <<team, call, group, used, messages, aborted, expired, worker, attempt>>

-----------------------------------------------------------------------------
(* Attempts *)

Over == call[Main].phase = "settled"

Abort ==
    /\ worker = "up" /\ ~Over /\ ~aborted /\ TeamFault /\ aborted' = TRUE
    /\ UNCHANGED <<team, call, group, used, rows, messages, expired, adrift, worker, attempt>>

(* The worker dies, or loses its lease: it writes nothing any more. *)
TeamCrash ==
    /\ worker = "up" /\ TeamFault /\ worker' = "down"
    /\ call' = [s \in Steps |-> Idle] /\ adrift' = {}
    /\ UNCHANGED <<team, group, used, rows, messages, aborted, expired, attempt>>

(* Another worker runs the team again, also when it has come to its end    *)
(* before: publication is after that.                                      *)
TakeUp ==
    /\ worker = "down" /\ attempt < MaxAttempts
    /\ worker' = "up" /\ attempt' = attempt + 1
    /\ aborted' = FALSE /\ expired' = {} /\ UNCHANGED adrift
    /\ call' = Started /\ group' = [s \in Steps |-> 1] /\ used' = {Main}
    /\ UNCHANGED <<team, rows, messages>> /\ NoTeamFault

RunsTeam ==
    \E s \in Steps :
        \/ DelegateGroup(s) \/ GroupEnds(s) \/ Begin(s) \/ Prepare(s) \/ Return(s) \/ GiveUp(s)
        \/ Ask(s) \/ Answer(s) \/ Fail(s) \/ Resume(s) \/ LateEnd(s)

TeamNext ==
    RunsTeam \/ TeamEnds \/ Abort \/ TeamCrash \/ TakeUp \/ \E s \in Steps : TimesOut(s)

TeamFairness == WF_teamVars(RunsTeam \/ TeamEnds) /\ WF_teamVars(TakeUp)

-----------------------------------------------------------------------------
(* Properties *)

(* Steps delegated at once never spend more than the attempt's budgets.    *)
BudgetsKept == Within({s \in Steps : call[s].phase \notin {"idle", "refused"}})

(* The activity tells the truth of the delegations, whatever the order in  *)
(* which parallel steps are answered: a parent shown at work has no        *)
(* request in flight, one shown waiting that still works has one, and a    *)
(* response is there exactly when its step is shown completed.             *)
WaitingHonest ==
    /\ worker = "up" /\ ~aborted => \A c \in Steps \ {Main} :
          call[c].phase \in {"calling", "preparing", "working", "returned", "failing"}
             => rows[ParentOf(c)] # "running"
    /\ worker = "up" /\ ~aborted /\ teamFaults = 0 => \A p \in Steps :
          rows[p] = "waiting" => \E c \in Children(p) : InFlight(c) \/ call[c].phase = "resuming"
    /\ \A c \in Steps \ {Main} : rows[c] = "completed" <=> <<c, "response">> \in messages

(* The team is shown completed only when every step it delegated in the    *)
(* last attempt is, and what is completed stays so over all attempts.      *)
CompletedIsFinal ==
    [][/\ rows'[Main] = "completed" /\ rows[Main] # "completed" =>
             \A s \in used \ {Main} : rows[s] = "completed"
       /\ \A s \in Steps : rows[s] = "completed" => rows'[s] = "completed"]_teamVars

(* The team ends, if its worker is not lost for good; and when nothing     *)
(* failed, no row is left open.                                            *)
TeamSettles ==
    <>[](\/ Over /\ (teamFaults = 0 => \A s \in Steps : rows[s] \notin Open)
         \/ worker = "down")
=============================================================================
