------------------------- MODULE TeamRuntime_proofs -------------------------
(***************************************************************************)
(* The team that analyses a run, proved for every set of programs whose    *)
(* steps are delegated once, every budget, and any number of attempts,     *)
(* failed calls, dead workers and aborts.                                  *)
(***************************************************************************)
EXTENDS TeamRuntime, FiniteSetTheorems, TLAPS

TeamSafety == TeamInit /\ [][TeamNext]_teamVars

InUse(s) == call[s].phase \notin {"idle", "refused"}

(* Steps are used while they are in memory, and while the worker is up     *)
(* they are in memory when they are used; a dead worker has none.          *)
UsedInMemory ==
    /\ Main \in used
    /\ \A s \in Steps : InUse(s) => s \in used
    /\ worker = "up" => \A s \in used : InUse(s)
    /\ worker = "down" => \A s \in Steps : call[s] = Idle

(* Every used step but the first was delegated by a used step, in a group  *)
(* its program has reached.                                                *)
UsedByParent ==
    \A c \in used \ {Main} :
       \E p \in used : \E g \in DOMAIN Groups[p] : g <= group[p] /\ c \in Groups[p][g]

(* No used step descends from itself: every set of delegated steps has one *)
(* whose parent is not in the set.                                         *)
UsedWellFounded ==
    \A T \in SUBSET (used \ {Main}) : T # {} => \E c \in T : ParentOf(c) \notin T

(* An answer was given, and the row was written with it. *)
OkWritten ==
    \A s \in Steps : call[s].ok =>
       /\ call[s].phase \in {"resuming", "settled"}
       /\ s # Main => rows[s] = "completed"

(* Where the steps of a program's groups stand: those of the groups behind *)
(* it have answered, those ahead are idle, and all are while the program   *)
(* has not begun.                                                          *)
GroupsInOrder ==
    worker = "up" =>
      \A p \in Steps : \A g \in DOMAIN Groups[p] : \A c \in Groups[p][g] :
         /\ g < group[p] => call[c].phase = "settled" /\ call[c].ok
         /\ g > group[p] => call[c] = Idle
         /\ call[p].phase \in {"idle", "refused", "asking", "calling", "preparing"} =>
               call[c] = Idle

(* A program that has returned delegates no more. *)
ReturnedFinished ==
    \A s \in Steps : call[s].phase = "returned" \/ call[s].ok => Finished(s)

(* While a step tells that its parent goes on, none beside it is at work. *)
ResumesLast ==
    \A c \in Steps \ {Main} : call[c].phase = "resuming" =>
       \A d \in Children(ParentOf(c)) : ~InFlight(d)

(* Nobody delegates the first step, and it has no parent to tell. *)
FirstAlone == call[Main].phase \notin {"asking", "refused", "resuming"}

(* A response is there exactly when its step is shown completed. *)
ResponsesHonest ==
    \A c \in Steps \ {Main} : rows[c] = "completed" <=> <<c, "response">> \in messages

(* A parent shown at work has no request in flight. *)
AtWorkHonest ==
    worker = "up" /\ ~aborted => \A c \in Steps \ {Main} :
       call[c].phase \in {"calling", "preparing", "working", "returned", "failing"}
          => rows[ParentOf(c)] # "running"

(* While nothing failed, a parent shown waiting has a request in flight.   *)
(* (A dead worker is a fault, and so is a time-out.)                       *)
WaitsHonest ==
    /\ worker = "up" /\ ~aborted /\ teamFaults = 0 => \A p \in Steps :
          rows[p] = "waiting" => \E c \in Children(p) : InFlight(c) \/ call[c].phase = "resuming"
    /\ worker = "down" \/ expired # {} => teamFaults # 0

IInv ==
    /\ TeamTypeOK /\ FirstAlone /\ UsedInMemory /\ UsedByParent /\ UsedWellFounded
    /\ OkWritten /\ GroupsInOrder /\ ReturnedFinished /\ ResumesLast
    /\ Within(used) /\ AtWorkHonest /\ WaitsHonest /\ ResponsesHonest

-----------------------------------------------------------------------------
(* Programs *)

(* What a program is: groups of steps, the first step in none of them. *)
LEMMA ProgramTypes ==
  ASSUME TeamTypeOK
  PROVE  /\ Main \in Steps
         /\ \A p \in Steps : /\ Groups[p] \in Seq(SUBSET Steps) /\ Len(Groups[p]) \in Nat
                             /\ DOMAIN Groups[p] = 1 .. Len(Groups[p])
         /\ \A p \in Steps : \A g \in DOMAIN Groups[p] : \A c \in Groups[p][g] :
               c \in Steps /\ c # Main
         /\ team.budget \in Budgets
  <1>1. team.program \in Programs /\ team.budget \in Budgets
    BY DEF TeamTypeOK
  <1>2. Main \in Steps /\ Groups \in [Steps -> Seq(SUBSET Steps)]
    BY <1>1, TeamConstants DEF Main, Groups
  <1>3. \A p \in Steps : /\ Groups[p] \in Seq(SUBSET Steps) /\ Len(Groups[p]) \in Nat
                         /\ DOMAIN Groups[p] = 1 .. Len(Groups[p])
    BY <1>2
  <1>4. \A p \in Steps : \A g \in DOMAIN Groups[p] : Groups[p][g] \in SUBSET Steps
    BY <1>3
  <1>5. \A p \in Steps : \A g \in DOMAIN Groups[p] : \A c \in Groups[p][g] : c # Main
    BY <1>1, <1>2, <1>4, TeamConstants DEF Main, Groups
  <1>. QED
    BY <1>1, <1>2, <1>3, <1>4, <1>5

(* A step is delegated in one place. *)
LEMMA DelegatedOnce ==
  ASSUME TeamTypeOK, NEW p \in Steps, NEW g \in DOMAIN Groups[p], NEW c \in Groups[p][g]
  PROVE  /\ c \in Steps /\ c # p /\ c # Main
         /\ c \in Children(p) /\ ParentOf(c) = p
         /\ \A q \in Steps : \A h \in DOMAIN Groups[q] : c \in Groups[q][h] => q = p /\ h = g
  <1>1. \A q \in Steps : \A h \in DOMAIN Groups[q] : c \in Groups[q][h] => q = p /\ h = g
    <2>1. team.program \in Programs
      BY DEF TeamTypeOK
    <2>2. c \in Steps
      BY ProgramTypes
    <2>. QED
      BY <2>1, <2>2, TeamConstants DEF Groups
  <1>2. \A q : c \in Children(q) <=> \E h \in DOMAIN Groups[q] : c \in Groups[q][h]
    BY DEF Children, Range
  <1>3. ParentOf(c) = p
    BY <1>1, <1>2 DEF ParentOf
  <1>4. c \in Steps /\ c # Main
    BY ProgramTypes
  <1>5. AgentOf[p] # AgentOf[c]
    <2>1. team.program \in Programs
      BY DEF TeamTypeOK
    <2>. QED
      BY <1>4, <2>1, TeamConstants DEF Groups
  <1>. QED
    BY <1>1, <1>2, <1>3, <1>4, <1>5

(* The team, its program and its budgets stay the same. *)
LEMMA TeamFixed ==
  ASSUME [TeamNext]_teamVars
  PROVE  /\ team' = team /\ Main' = Main /\ Groups' = Groups
         /\ \A p : Children(p)' = Children(p)
         /\ \A c : ParentOf(c)' = ParentOf(c)
  <1>1. team' = team
    BY DEF TeamNext, RunsTeam, teamVars, Fixed, DelegateGroup, GroupEnds, Begin, Prepare,
           Return, GiveUp, Ask, Answer, Fail, Resume, TeamEnds, Abort, TeamCrash, TakeUp,
           TimesOut, LateEnd
  <1>2. Main' = Main /\ Groups' = Groups
    BY <1>1 DEF Main, Groups
  <1>. QED
    BY <1>1, <1>2 DEF Children, ParentOf

(* A row is written with a status, unless it is completed. *)
LEMMA WrittenRows ==
  ASSUME NEW r \in [Steps -> Open \cup {"none", "completed", "failed", "cancelled"}],
         NEW s \in Steps, NEW status \in Open \cup {"completed", "failed", "cancelled"}
  PROVE  /\ Written(r, s, status)
               \in [Steps -> Open \cup {"none", "completed", "failed", "cancelled"}]
         /\ \A q \in Steps : q # s => Written(r, s, status)[q] = r[q]
         /\ Written(r, s, status)[s] = IF r[s] = "completed" THEN "completed" ELSE status
  BY DEF Written

(* The team has begun: only its first step is in memory. *)
LEMMA StartedTypes ==
  ASSUME TeamTypeOK
  PROVE  /\ Started \in [Steps -> [phase : Phases, ok : BOOLEAN]]
         /\ Started[Main].phase = "calling" /\ ~Started[Main].ok
         /\ \A s \in Steps \ {Main} : Started[s] = Idle
         /\ Idle.phase = "idle" /\ ~Idle.ok
  BY ProgramTypes DEF Started, Call, Idle, Phases

-----------------------------------------------------------------------------
(* What a step of the team does to its invocations *)

(* A step of the team, at one of its invocations. *)
Runs(s) ==
    \/ DelegateGroup(s) \/ GroupEnds(s) \/ Begin(s) \/ Prepare(s) \/ Return(s)
    \/ GiveUp(s) \/ Ask(s) \/ Answer(s) \/ Fail(s) \/ Resume(s) \/ TimesOut(s)
    \/ s = Main /\ TeamEnds

(* Nothing happens to the invocations; the activity may tell the end of    *)
(* one that nobody waits for.                                              *)
Stays ==
    /\ UNCHANGED <<call, group, used, messages, worker>>
    /\ \A q \in Steps : /\ rows'[q] = "completed" <=> rows[q] = "completed"
                        /\ rows'[q] \in {"running", "waiting"} => rows'[q] = rows[q]

(* One invocation moves on. *)
Moved(s) ==
    /\ \A q \in Steps \ {s} : call'[q] = call[q]
    /\ group' = group /\ used' = used
    /\ call[s].phase \notin {"idle", "refused", "settled"}
    /\ call'[s].phase \notin {"idle", "refused", "asking"}
    /\ call'[s].phase \in {"calling", "preparing"} => call[s].phase \in {"asking", "calling"}
    /\ call[s].phase = "asking" => call'[s].phase \in {"calling", "resuming", "settled"}
    /\ InFlight(s)' => InFlight(s)
    /\ call'[s].phase = "resuming" => s # Main /\ LastInFlight(s)
    /\ call'[s].phase = "returned" => Finished(s)
    /\ call'[s].ok =>
          /\ call'[s].phase \in {"resuming", "settled"}
          /\ \/ call[s].ok
             \/ call[s].phase = "returned" /\ (s # Main => rows'[s] = "completed")

(* A program delegates its next group. *)
Delegated(p) ==
    /\ call[p].phase = "working" /\ group[p] \in DOMAIN Groups[p] /\ group' = group
    /\ \A c \in Groups[p][group[p]] : call[c] = Idle
    /\ \A c \in Steps \ Groups[p][group[p]] : call'[c] = call[c]
    /\ \E admitted \in SUBSET Groups[p][group[p]] :
          /\ used' = used \cup admitted
          /\ admitted = {} \/ Within(used \cup admitted)
          /\ \A c \in admitted : call'[c].phase = "asking" /\ ~call'[c].ok
          /\ \A c \in Groups[p][group[p]] \ admitted : call'[c].phase = "refused" /\ ~call'[c].ok

(* A program goes on to its next group. *)
Advanced(p) ==
    /\ call[p].phase = "working" /\ group[p] \in DOMAIN Groups[p]
    /\ call' = call /\ used' = used /\ group' = [group EXCEPT ![p] = @ + 1]
    /\ \A c \in Groups[p][group[p]] :
          call[c].phase \in {"settled", "refused"} /\ call[c].ok

(* The end of a delegation. *)
LEMMA SettledMoves ==
  ASSUME TeamTypeOK, NEW c \in Steps, NEW ok \in BOOLEAN, Settled(c, ok)
  PROVE  /\ call' \in [Steps -> [phase : Phases, ok : BOOLEAN]]
         /\ \A q \in Steps \ {c} : call'[q] = call[q]
         /\ call'[c].phase \in {"resuming", "settled"} /\ call'[c].ok = ok
         /\ call'[c].phase = "resuming" => LastInFlight(c)
         /\ ~Stopped(ParentOf(c)) =>
               \/ call'[c].phase = "resuming"
               \/ \E d \in Children(ParentOf(c)) \ {c} : InFlight(d)
  <1>1. CASE LastInFlight(c) /\ ~Stopped(ParentOf(c))
    BY <1>1 DEF Settled, Call, TeamTypeOK, Phases
  <1>2. CASE ~(LastInFlight(c) /\ ~Stopped(ParentOf(c)))
    BY <1>2 DEF Settled, Call, TeamTypeOK, Phases, LastInFlight
  <1>. QED
    BY <1>1, <1>2

(* Every step of the team does one of the three. *)
LEMMA StepMoves ==
  ASSUME TeamTypeOK, FirstAlone, OkWritten, NEW s \in Steps, Runs(s)
  PROVE  /\ call' \in [Steps -> [phase : Phases, ok : BOOLEAN]]
         /\ Moved(s) \/ Delegated(s) \/ Advanced(s)
  <1>. USE DEF Runs
  <1>0. /\ call \in [Steps -> [phase : Phases, ok : BOOLEAN]]
        /\ group \in [Steps -> Nat] /\ group[s] \in 1 .. Len(Groups[s]) + 1
        /\ DOMAIN Groups[s] = 1 .. Len(Groups[s]) /\ Len(Groups[s]) \in Nat
        /\ rows \in [Steps -> Open \cup {"none", "completed", "failed", "cancelled"}]
        /\ Main \in Steps
    BY ProgramTypes DEF TeamTypeOK
  <1>. DEFINE Goal == /\ call' \in [Steps -> [phase : Phases, ok : BOOLEAN]]
                      /\ Moved(s) \/ Delegated(s) \/ Advanced(s)
  <1>s. ASSUME NEW ok \in BOOLEAN, s # Main, Settled(s, ok), group' = group, used' = used,
               call[s].phase \notin {"idle", "refused", "settled"}, InFlight(s),
               ok => call[s].phase = "returned" /\ (s # Main => rows'[s] = "completed")
        PROVE  Goal
    BY <1>s, SettledMoves DEF Moved, InFlight
  <1>m. ASSUME NEW to \in Phases, call' = [call EXCEPT ![s].phase = to]
        PROVE  /\ call' \in [Steps -> [phase : Phases, ok : BOOLEAN]]
               /\ \A q \in Steps \ {s} : call'[q] = call[q]
               /\ call'[s].phase = to /\ call'[s].ok = call[s].ok
    BY <1>0, <1>m
  <1>e. ASSUME NEW ok \in BOOLEAN, call' = [call EXCEPT ![s] = Call("settled", ok)]
        PROVE  /\ call' \in [Steps -> [phase : Phases, ok : BOOLEAN]]
               /\ \A q \in Steps \ {s} : call'[q] = call[q]
               /\ call'[s].phase = "settled" /\ call'[s].ok = ok
    BY <1>0, <1>e DEF Call, Phases
  <1>1. CASE DelegateGroup(s)
    <2>1. \A c \in Groups[s][group[s]] : c \in Steps
      BY <1>0, <1>1, ProgramTypes DEF DelegateGroup
    <2>. PICK admitted \in IF Stopped(s) THEN {{}} ELSE Admissions(Groups[s][group[s]]) :
              /\ used' = used \cup admitted
              /\ call' = [c \in Steps |->
                            IF c \notin Groups[s][group[s]] THEN call[c]
                            ELSE Call(IF c \in admitted THEN "asking" ELSE "refused", FALSE)]
      BY <1>1 DEF DelegateGroup
    <2>2. admitted \in SUBSET Groups[s][group[s]]
          /\ (admitted = {} \/ Within(used \cup admitted))
      BY DEF Admissions
    <2>3. call' \in [Steps -> [phase : Phases, ok : BOOLEAN]]
      BY <1>0 DEF Call, Phases
    <2>4. /\ \A c \in admitted : call'[c].phase = "asking" /\ ~call'[c].ok
          /\ \A c \in Groups[s][group[s]] \ admitted : call'[c].phase = "refused" /\ ~call'[c].ok
          /\ \A c \in Steps \ Groups[s][group[s]] : call'[c] = call[c]
      BY <2>1, <2>2 DEF Call
    <2>5. /\ call[s].phase = "working" /\ group[s] \in DOMAIN Groups[s] /\ group' = group
          /\ \A c \in Groups[s][group[s]] : call[c] = Idle
      BY <1>0, <1>1 DEF DelegateGroup
    <2>6. Delegated(s)
      BY <2>2, <2>4, <2>5 DEF Delegated
    <2>. QED
      BY <2>3, <2>6
  <1>2. CASE GroupEnds(s)
    <2>1. CASE AllAnswered(s)
      BY <1>0, <1>2, <2>1 DEF GroupEnds, Advanced, AllAnswered
    <2>2. CASE ~AllAnswered(s)
      <3>1. call' = [call EXCEPT ![s].phase = "failing"] /\ group' = group /\ used' = used
            /\ call[s].phase = "working"
        BY <1>2, <2>2 DEF GroupEnds
      <3>2. "failing" \in Phases
        BY DEF Phases
      <3>3. /\ call' \in [Steps -> [phase : Phases, ok : BOOLEAN]]
            /\ \A q \in Steps \ {s} : call'[q] = call[q]
            /\ call'[s].phase = "failing" /\ call'[s].ok = call[s].ok
        BY <3>1, <3>2, <1>m
      <3>4. ~call[s].ok
        BY <3>1 DEF OkWritten
      <3>. QED
        BY <3>1, <3>3, <3>4 DEF Moved, InFlight
    <2>. QED
      BY <2>1, <2>2
  <1>p. {"calling", "preparing", "working", "returned", "failing", "settled"} \subseteq Phases
    BY DEF Phases
  <1>o. call[s].phase \notin {"resuming", "settled"} => ~call[s].ok
    BY DEF OkWritten
  <1>3. CASE Begin(s)
    <2>1. call[s].phase = "calling" /\ group' = group /\ used' = used
      BY <1>3 DEF Begin
    <2>2. CASE call' = [call EXCEPT ![s].phase = "preparing"]
      BY <1>m, <1>o, <1>p, <2>1, <2>2 DEF Moved, InFlight
    <2>3. CASE call' = [call EXCEPT ![s] = Call("settled", FALSE)]
      BY <1>e, <2>1, <2>3 DEF Moved, InFlight
    <2>4. CASE s # Main /\ Settled(s, FALSE)
      BY <1>s, <2>1, <2>4 DEF InFlight
    <2>. QED
      BY <1>3, <2>2, <2>3, <2>4 DEF Begin
  <1>4. CASE Prepare(s)
    <2>1. call[s].phase = "preparing" /\ group' = group /\ used' = used
      BY <1>4 DEF Prepare
    <2>2. CASE call' = [call EXCEPT ![s].phase = "working"]
      BY <1>m, <1>o, <1>p, <2>1, <2>2 DEF Moved, InFlight
    <2>3. CASE call' = [call EXCEPT ![s].phase = "failing"]
      BY <1>m, <1>o, <1>p, <2>1, <2>3 DEF Moved, InFlight
    <2>. QED
      BY <1>4, <2>2, <2>3 DEF Prepare
  <1>5. CASE Return(s)
    <2>1. call[s].phase = "working" /\ group' = group /\ used' = used /\ Finished(s)
      BY <1>5 DEF Return
    <2>2. CASE call' = [call EXCEPT ![s].phase = "returned"]
      BY <1>m, <1>o, <1>p, <2>1, <2>2 DEF Moved, InFlight
    <2>3. CASE call' = [call EXCEPT ![s].phase = "failing"]
      BY <1>m, <1>o, <1>p, <2>1, <2>3 DEF Moved, InFlight
    <2>. QED
      BY <1>5, <2>2, <2>3 DEF Return
  <1>6. CASE GiveUp(s)
    <2>1. /\ call[s].phase \in {"preparing", "working"} /\ group' = group /\ used' = used
          /\ call' = [call EXCEPT ![s].phase = "failing"]
      BY <1>6 DEF GiveUp
    <2>. QED
      BY <1>m, <1>o, <1>p, <2>1 DEF Moved, InFlight
  <1>7. CASE Ask(s)
    <2>1. call[s].phase = "asking" /\ group' = group /\ used' = used /\ s # Main
      BY <1>7 DEF Ask, FirstAlone
    <2>2. CASE call' = [call EXCEPT ![s].phase = "calling"]
      BY <1>m, <1>o, <1>p, <2>1, <2>2 DEF Moved, InFlight
    <2>3. CASE Settled(s, FALSE)
      BY <1>s, <2>1, <2>3 DEF InFlight
    <2>. QED
      BY <1>7, <2>2, <2>3 DEF Ask
  <1>8. CASE Answer(s)
    <2>1. call[s].phase = "returned" /\ group' = group /\ used' = used /\ s # Main
      BY <1>8 DEF Answer
    <2>2. CASE Settled(s, TRUE) /\ rows' = Written(rows, s, "completed")
      <3>1. rows'[s] = "completed"
        BY <1>0, <2>2, WrittenRows, SMTT(30)
      <3>. QED
        BY <1>s, <2>1, <2>2, <3>1 DEF InFlight
    <2>3. CASE Settled(s, FALSE)
      BY <1>s, <2>1, <2>3 DEF InFlight
    <2>. QED
      BY <1>8, <2>2, <2>3 DEF Answer
  <1>9. CASE Fail(s)
    <2>1. call[s].phase = "failing" /\ group' = group /\ used' = used
      BY <1>9 DEF Fail
    <2>2. CASE call' = [call EXCEPT ![s] = Call("settled", FALSE)]
      BY <1>e, <2>1, <2>2 DEF Moved, InFlight
    <2>3. CASE s # Main /\ Settled(s, FALSE)
      BY <1>s, <2>1, <2>3 DEF InFlight
    <2>. QED
      BY <1>9, <2>2, <2>3 DEF Fail
  <1>10. CASE Resume(s)
    <2>1. call[s].phase = "resuming" /\ group' = group /\ used' = used
      BY <1>10 DEF Resume
    <2>2. CASE call' = [call EXCEPT ![s].phase = "settled"]
      BY <1>m, <1>p, <2>1, <2>2 DEF Moved, InFlight
    <2>3. CASE call' = [call EXCEPT ![s] = Call("settled", FALSE)]
      BY <1>e, <2>1, <2>3 DEF Moved, InFlight
    <2>. QED
      BY <1>10, <2>2, <2>3 DEF Resume
  <1>11. CASE s = Main /\ TeamEnds
    <2>1. call[s].phase = "returned" /\ group' = group /\ used' = used
      BY <1>11 DEF TeamEnds
    <2>2. CASE call' = [call EXCEPT ![s] = Call("settled", TRUE)]
      BY <1>e, <1>11, <2>1, <2>2 DEF Moved, InFlight
    <2>3. CASE call' = [call EXCEPT ![s].phase = "failing"]
      BY <1>m, <1>o, <1>p, <2>1, <2>3 DEF Moved, InFlight
    <2>. QED
      BY <1>11, <2>2, <2>3 DEF TeamEnds
  <1>12. CASE TimesOut(s)
    <2>1. /\ call[s].phase \in {"preparing", "working"} /\ group' = group /\ used' = used
          /\ s # Main /\ Settled(s, FALSE)
      BY <1>12 DEF TimesOut
    <2>. QED
      BY <1>s, <2>1 DEF InFlight
  <1>. QED
    BY <1>1, <1>2, <1>3, <1>4, <1>5, <1>6, <1>7, <1>8, <1>9, <1>10, <1>11, <1>12

(* What a step of the team leaves alone, and that a failure is counted. *)
LEMMA RunsKeep ==
  ASSUME TeamTypeOK, NEW s \in Steps, Runs(s)
  PROVE  /\ UNCHANGED <<team, aborted, worker, attempt>>
         /\ expired' \subseteq Steps /\ adrift' \subseteq Steps
         /\ NoTeamFault \/ TeamFault
         /\ expired' = expired \/ TeamFault
  <1>1. expired \subseteq Steps /\ adrift \subseteq Steps
    BY DEF TeamTypeOK
  <1>2. CASE TimesOut(s)
    BY <1>1, <1>2 DEF TimesOut, Subtree
  <1>3. CASE ~TimesOut(s)
    <2>1. Fixed /\ (NoTeamFault \/ TeamFault)
      BY <1>3 DEF Runs, DelegateGroup, GroupEnds, Begin, Prepare, Return, GiveUp, Ask, Answer,
                  Fail, Resume, TeamEnds, MayFail
    <2>. QED
      BY <1>1, <2>1 DEF Fixed
  <1>. QED
    BY <1>2, <1>3

(* The end of an invocation nobody waits for: no program is shown at work  *)
(* or waiting by it, and what is completed stays so.                       *)
LEMMA LateStays ==
  ASSUME TeamTypeOK, NEW s \in Steps, LateEnd(s)
  PROVE  /\ rows' \in [Steps -> Open \cup {"none", "completed", "failed", "cancelled"}]
         /\ UNCHANGED <<team, call, group, used, messages, aborted, expired, worker, attempt>>
         /\ adrift' \subseteq Steps /\ (NoTeamFault \/ TeamFault)
         /\ Stays
  <1>0. /\ rows \in [Steps -> Open \cup {"none", "completed", "failed", "cancelled"}]
        /\ adrift \subseteq Steps
    BY DEF TeamTypeOK
  <1>1. /\ UNCHANGED <<team, call, group, used, messages, aborted, expired, worker, attempt>>
        /\ adrift' \subseteq Steps /\ (NoTeamFault \/ TeamFault)
        /\ rows' = rows \/ rows' = Written(rows, s, "cancelled")
    BY <1>0 DEF LateEnd
  <1>2. CASE rows' = rows
    BY <1>0, <1>1, <1>2 DEF Stays
  <1>3. CASE rows' = Written(rows, s, "cancelled")
    <2>1. /\ rows' \in [Steps -> Open \cup {"none", "completed", "failed", "cancelled"}]
          /\ \A q \in Steps : q # s => rows'[q] = rows[q]
          /\ rows'[s] = IF rows[s] = "completed" THEN "completed" ELSE "cancelled"
      BY <1>0, <1>3, WrittenRows
    <2>. QED
      BY <1>1, <2>1 DEF Stays
  <1>. QED
    BY <1>1, <1>2, <1>3

-----------------------------------------------------------------------------
(* What a step of the team writes to the activity *)

(* A used step has a used parent, which has reached its group. *)
LEMMA UsedParent ==
  ASSUME TeamTypeOK, UsedByParent, NEW c \in used \ {Main}
  PROVE  /\ c \in Steps /\ ParentOf(c) \in used /\ ParentOf(c) \in Steps
         /\ c \in Children(ParentOf(c))
         /\ \E g \in DOMAIN Groups[ParentOf(c)] :
               g <= group[ParentOf(c)] /\ c \in Groups[ParentOf(c)][g]
  <1>1. PICK p \in used : \E g \in DOMAIN Groups[p] : g <= group[p] /\ c \in Groups[p][g]
    BY DEF UsedByParent
  <1>2. p \in Steps
    BY DEF TeamTypeOK
  <1>3. ParentOf(c) = p /\ c \in Children(p)
    BY <1>1, <1>2, DelegatedOnce
  <1>. QED
    BY <1>1, <1>2, <1>3 DEF TeamTypeOK

(* A completed row stays so; a row is completed by the end of its step,    *)
(* with the response of a delegation.                                      *)
LEMMA StepRows ==
  ASSUME TeamTypeOK, FirstAlone, UsedInMemory, UsedByParent, NEW s \in Steps, Runs(s)
  PROVE  /\ rows' \in [Steps -> Open \cup {"none", "completed", "failed", "cancelled"}]
         /\ messages' \subseteq Steps \X {"request", "response"}
         /\ \A q \in Steps : rows[q] = "completed" => rows'[q] = "completed"
         /\ \A q \in Steps : rows'[q] = "completed" /\ rows[q] # "completed" =>
               q = s /\ call[s].phase = "returned"
         /\ ResponsesHonest => ResponsesHonest'
  <1>. USE DEF Runs
  <1>. DEFINE Statuses == Open \cup {"none", "completed", "failed", "cancelled"}
              Kept == \A q \in Steps : rows[q] = "completed" => rows'[q] = "completed"
              New == \A q \in Steps : rows'[q] = "completed" => rows[q] = "completed"
  <1>0. /\ rows \in [Steps -> Statuses] /\ messages \subseteq Steps \X {"request", "response"}
        /\ Main \in Steps
    BY ProgramTypes DEF TeamTypeOK
  <1>f. Main' = Main
    <2>1. team' = team
      BY DEF Fixed, DelegateGroup, GroupEnds, Begin, Prepare, Return, GiveUp, Ask, Answer, Fail,
             Resume, TeamEnds, TimesOut
    <2>. QED
      BY <2>1 DEF Main
  <1>a. s # Main /\ call[s].phase \notin {"idle", "refused"} => ParentOf(s) \in Steps
    BY UsedParent DEF UsedInMemory, InUse
  <1>w. ASSUME NEW q \in Steps, NEW status \in Open \cup {"failed", "cancelled"},
               rows' = Written(rows, q, status)
        PROVE  rows' \in [Steps -> Statuses] /\ Kept /\ New
    <2>1. /\ rows' \in [Steps -> Statuses]
          /\ \A t \in Steps : t # q => rows'[t] = rows[t]
          /\ rows'[q] = IF rows[q] = "completed" THEN "completed" ELSE status
      BY <1>0, <1>w, WrittenRows
    <2>. QED
      BY <2>1 DEF Open
  <1>n. ASSUME rows' \in [Steps -> Statuses], Kept, New,
               messages' = messages \/ messages' = messages \cup {<<s, "request">>}
        PROVE  /\ rows' \in [Steps -> Statuses]
               /\ messages' \subseteq Steps \X {"request", "response"}
               /\ Kept
               /\ \A q \in Steps : rows'[q] = "completed" /\ rows[q] # "completed" =>
                     q = s /\ call[s].phase = "returned"
               /\ ResponsesHonest => ResponsesHonest'
    <2>1. \A c \in Steps : <<c, "response">> \in messages' <=> <<c, "response">> \in messages
      BY <1>n
    <2>. QED
      BY <1>0, <1>f, <1>n, <2>1 DEF ResponsesHonest
  <1>1. CASE rows' = rows /\ messages' = messages
    BY <1>0, <1>1, <1>n
  <1>2. CASE Ask(s) /\ rows' = Written(Written(rows, s, "queued"), ParentOf(s), "waiting")
                    /\ messages' = messages \cup {<<s, "request">>}
    <2>. DEFINE queued == Written(rows, s, "queued")
    <2>1. ParentOf(s) \in Steps
      BY <1>2, <1>a DEF Ask, FirstAlone
    <2>2. /\ queued \in [Steps -> Statuses]
          /\ \A t \in Steps : t # s => queued[t] = rows[t]
          /\ queued[s] = IF rows[s] = "completed" THEN "completed" ELSE "queued"
      BY <1>0, WrittenRows DEF Open
    <2>. HIDE DEF queued
    <2>3. /\ rows' \in [Steps -> Statuses]
          /\ \A t \in Steps : t # ParentOf(s) => rows'[t] = queued[t]
          /\ rows'[ParentOf(s)] = IF queued[ParentOf(s)] = "completed" THEN "completed" ELSE "waiting"
      <3>1. rows' = Written(queued, ParentOf(s), "waiting")
        BY <1>2 DEF queued
      <3>. QED
        BY <2>1, <2>2, <3>1, WrittenRows DEF Open
    <2>4. Kept /\ New
      BY <1>0, <2>1, <2>2, <2>3 DEF Open
    <2>. QED
      BY <1>2, <1>n, <2>3, <2>4
  <1>3. CASE messages' = messages /\ \/ rows' = Written(rows, s, "running")
                                     \/ rows' = Written(rows, s, "failed")
                                     \/ rows' = Written(rows, s, "cancelled")
    BY <1>3, <1>w, <1>n DEF Open
  <1>4. CASE Resume(s) /\ messages' = messages /\ rows' = Written(rows, ParentOf(s), "running")
    BY <1>4, <1>a, <1>w, <1>n DEF Resume, FirstAlone, Open
  <1>5. CASE Answer(s) /\ rows' = Written(rows, s, "completed")
                       /\ messages' = messages \cup {<<s, "response">>}
    <2>1. /\ rows' \in [Steps -> Statuses] /\ rows'[s] = "completed"
          /\ \A t \in Steps : t # s => rows'[t] = rows[t]
      BY <1>0, <1>5, WrittenRows
    <2>2. messages' \subseteq Steps \X {"request", "response"}
          /\ \A c \in Steps : <<c, "response">> \in messages'
                                 <=> <<c, "response">> \in messages \/ c = s
      BY <1>0, <1>5
    <2>3. ResponsesHonest => ResponsesHonest'
      BY <1>f, <2>1, <2>2 DEF ResponsesHonest
    <2>. QED
      BY <1>5, <2>1, <2>2, <2>3 DEF Answer
  <1>6. CASE s = Main /\ TeamEnds /\ rows' = Written(rows, Main, "completed") /\ messages' = messages
    <2>1. /\ rows' \in [Steps -> Statuses] /\ rows'[Main] = "completed"
          /\ \A t \in Steps : t # Main => rows'[t] = rows[t]
      BY <1>0, <1>6, WrittenRows
    <2>2. ResponsesHonest => ResponsesHonest'
      BY <1>f, <1>6, <2>1 DEF ResponsesHonest
    <2>. QED
      BY <1>0, <1>6, <2>1, <2>2 DEF TeamEnds
  <1>. QED
    <2>1. CASE DelegateGroup(s) \/ GroupEnds(s) \/ Prepare(s) \/ Return(s) \/ GiveUp(s) \/ TimesOut(s)
      BY <1>1, <2>1 DEF DelegateGroup, GroupEnds, Prepare, Return, GiveUp, TimesOut
    <2>2. CASE Ask(s)
      BY <1>1, <1>2, <2>2 DEF Ask
    <2>3. CASE Begin(s) \/ Fail(s)
      BY <1>1, <1>3, <2>3 DEF Begin, Fail
    <2>4. CASE Answer(s)
      BY <1>1, <1>5, <2>4 DEF Answer
    <2>5. CASE Resume(s)
      BY <1>1, <1>4, <2>5 DEF Resume
    <2>6. CASE s = Main /\ TeamEnds
      BY <1>1, <1>6, <2>6 DEF TeamEnds
    <2>. QED
      BY <2>1, <2>2, <2>3, <2>4, <2>5, <2>6

-----------------------------------------------------------------------------
(* The inductive step, one invariant at a time *)

(* What a step is, by what it does. *)
LEMMA NextKinds ==
  ASSUME TeamTypeOK, FirstAlone, OkWritten, [TeamNext]_teamVars
  PROVE  \/ \E s \in Steps : Runs(s) /\ worker' = worker
                             /\ (Moved(s) \/ Delegated(s) \/ Advanced(s))
         \/ Stays \/ TeamCrash \/ TakeUp
  <1>1. ASSUME NEW s \in Steps, Runs(s)
        PROVE  worker' = worker /\ (Moved(s) \/ Delegated(s) \/ Advanced(s))
    <2>1. Moved(s) \/ Delegated(s) \/ Advanced(s)
      BY <1>1, StepMoves
    <2>2. worker' = worker
      BY <1>1, RunsKeep
    <2>. QED
      BY <2>1, <2>2
  <1>2. CASE RunsTeam \/ \E s \in Steps : TimesOut(s)
    BY <1>1, <1>2, LateStays DEF RunsTeam, Runs
  <1>3. CASE TeamEnds
    BY <1>1, <1>3, ProgramTypes DEF Runs
  <1>4. CASE Abort \/ UNCHANGED teamVars
    BY <1>4 DEF Abort, Stays, teamVars
  <1>. QED
    BY <1>2, <1>3, <1>4 DEF TeamNext

LEMMA TypesStep ==
  ASSUME TeamTypeOK, FirstAlone, OkWritten, UsedInMemory, UsedByParent, [TeamNext]_teamVars
  PROVE  TeamTypeOK'
  <1>0. /\ team \in [program : Programs, budget : Budgets]
        /\ call \in [Steps -> [phase : Phases, ok : BOOLEAN]]
        /\ group \in [Steps -> Nat] /\ \A s \in Steps : group[s] \in 1 .. Len(Groups[s]) + 1
        /\ used \subseteq Steps
        /\ rows \in [Steps -> Open \cup {"none", "completed", "failed", "cancelled"}]
        /\ messages \subseteq Steps \X {"request", "response"}
        /\ aborted \in BOOLEAN /\ worker \in {"up", "down"}
        /\ expired \subseteq Steps /\ adrift \subseteq Steps
        /\ attempt \in 1 .. MaxAttempts /\ teamFaults \in 0 .. MaxTeamFaults
        /\ Main \in Steps /\ \A p \in Steps : Len(Groups[p]) \in Nat
    BY ProgramTypes DEF TeamTypeOK
  <1>1. team' = team /\ Main' = Main /\ Groups' = Groups
    BY TeamFixed
  <1>2. ASSUME NEW s \in Steps, Runs(s)
        PROVE  TeamTypeOK'
    <2>1. /\ aborted' = aborted /\ worker' = worker /\ attempt' = attempt
          /\ expired' \subseteq Steps /\ adrift' \subseteq Steps
          /\ teamFaults' \in 0 .. MaxTeamFaults
      <3>1. /\ UNCHANGED <<aborted, worker, attempt>>
            /\ expired' \subseteq Steps /\ adrift' \subseteq Steps
            /\ NoTeamFault \/ TeamFault
        BY <1>2, RunsKeep
      <3>. QED
        BY <1>0, <3>1, TeamConstants DEF TeamFault, NoTeamFault
    <2>2. call' \in [Steps -> [phase : Phases, ok : BOOLEAN]]
      BY <1>2, StepMoves
    <2>3. /\ rows' \in [Steps -> Open \cup {"none", "completed", "failed", "cancelled"}]
          /\ messages' \subseteq Steps \X {"request", "response"}
      BY <1>2, StepRows
    <2>4. /\ group' \in [Steps -> Nat] /\ \A q \in Steps : group'[q] \in 1 .. Len(Groups[q]) + 1
          /\ used' \subseteq Steps
      <3>1. CASE Moved(s)
        BY <1>0, <3>1 DEF Moved
      <3>2. CASE Delegated(s)
        BY <1>0, <3>2, ProgramTypes DEF Delegated
      <3>3. CASE Advanced(s)
        <4>1. group[s] \in 1 .. Len(Groups[s])
          BY <3>3, ProgramTypes DEF Advanced
        <4>. QED
          BY <1>0, <3>3, <4>1 DEF Advanced
      <3>. QED
        BY <1>2, <3>1, <3>2, <3>3, StepMoves
    <2>. QED
      BY <1>0, <1>1, <2>1, <2>2, <2>3, <2>4 DEF TeamTypeOK
  <1>3. CASE Abort
    BY <1>0, <1>1, <1>3, TeamConstants DEF Abort, TeamFault, TeamTypeOK
  <1>4. CASE TeamCrash
    <2>1. call' \in [Steps -> [phase : Phases, ok : BOOLEAN]]
      BY <1>4 DEF TeamCrash, Idle, Phases
    <2>. QED
      BY <1>0, <1>1, <1>4, <2>1, TeamConstants DEF TeamCrash, TeamFault, TeamTypeOK
  <1>5. CASE TakeUp
    <2>1. call' \in [Steps -> [phase : Phases, ok : BOOLEAN]]
      BY <1>5, StartedTypes DEF TakeUp
    <2>2. group' \in [Steps -> Nat] /\ \A q \in Steps : group'[q] \in 1 .. Len(Groups[q]) + 1
      BY <1>0, <1>5 DEF TakeUp
    <2>3. attempt' \in 1 .. MaxAttempts /\ teamFaults' = teamFaults
      BY <1>0, <1>5, TeamConstants DEF TakeUp, NoTeamFault
    <2>. QED
      BY <1>0, <1>1, <1>5, <2>1, <2>2, <2>3 DEF TakeUp, TeamTypeOK
  <1>6. CASE UNCHANGED teamVars
    BY <1>0, <1>1, <1>6 DEF teamVars, TeamTypeOK
  <1>7. ASSUME NEW s \in Steps, LateEnd(s)
        PROVE  TeamTypeOK'
    <2>1. /\ rows' \in [Steps -> Open \cup {"none", "completed", "failed", "cancelled"}]
          /\ UNCHANGED <<team, call, group, used, messages, aborted, expired, worker, attempt>>
          /\ adrift' \subseteq Steps /\ (NoTeamFault \/ TeamFault)
      BY <1>7, LateStays
    <2>2. teamFaults' \in 0 .. MaxTeamFaults
      BY <1>0, <2>1, TeamConstants DEF TeamFault, NoTeamFault
    <2>. QED
      BY <1>0, <1>1, <2>1, <2>2 DEF TeamTypeOK
  <1>. QED
    BY <1>2, <1>3, <1>4, <1>5, <1>6, <1>7, ProgramTypes DEF TeamNext, RunsTeam, Runs

LEMMA MemoryStep ==
  ASSUME TeamTypeOK, FirstAlone, OkWritten, UsedInMemory, [TeamNext]_teamVars
  PROVE  FirstAlone' /\ UsedInMemory'
  <1>0. Main' = Main /\ Main \in Steps /\ used \subseteq Steps
    BY TeamFixed, ProgramTypes DEF TeamTypeOK
  <1>1. ASSUME NEW s \in Steps, Moved(s), worker' = worker
        PROVE  FirstAlone' /\ UsedInMemory'
    BY <1>0, <1>1 DEF Moved, FirstAlone, UsedInMemory, InUse, Idle
  <1>2. ASSUME NEW p \in Steps, Delegated(p), worker' = worker
        PROVE  FirstAlone' /\ UsedInMemory'
    <2>1. PICK admitted \in SUBSET Groups[p][group[p]] :
             /\ used' = used \cup admitted
             /\ \A c \in admitted : call'[c].phase = "asking"
             /\ \A c \in Groups[p][group[p]] \ admitted : call'[c].phase = "refused"
      BY <1>2 DEF Delegated
    <2>2. /\ \A c \in Groups[p][group[p]] : c \in Steps /\ c # Main /\ call[c] = Idle
          /\ \A c \in Steps \ Groups[p][group[p]] : call'[c] = call[c]
          /\ worker # "down" /\ worker' = worker
      BY <1>2, ProgramTypes DEF Delegated, UsedInMemory, Idle
    <2>3. FirstAlone'
      BY <1>0, <2>2 DEF FirstAlone
    <2>4. /\ \A c \in Steps : InUse(c)' => c \in used'
          /\ \A c \in used' : InUse(c)'
      BY <1>0, <2>1, <2>2 DEF UsedInMemory, InUse, Idle, TeamTypeOK
    <2>. QED
      BY <1>0, <2>1, <2>2, <2>3, <2>4 DEF UsedInMemory
  <1>3. ASSUME NEW p \in Steps, Advanced(p), worker' = worker
        PROVE  FirstAlone' /\ UsedInMemory'
    BY <1>0, <1>3 DEF Advanced, FirstAlone, UsedInMemory, InUse
  <1>4. CASE Stays
    BY <1>0, <1>4 DEF Stays, FirstAlone, UsedInMemory, InUse
  <1>5. CASE TeamCrash
    BY <1>0, <1>5 DEF TeamCrash, FirstAlone, UsedInMemory, InUse, Idle
  <1>6. CASE TakeUp
    BY <1>0, <1>6, StartedTypes DEF TakeUp, FirstAlone, UsedInMemory, InUse
  <1>. QED
    BY <1>1, <1>2, <1>3, <1>4, <1>5, <1>6, NextKinds

LEMMA OkStep ==
  ASSUME TeamTypeOK, FirstAlone, OkWritten, UsedInMemory, UsedByParent, [TeamNext]_teamVars
  PROVE  OkWritten'
  <1>0. Main' = Main /\ Main \in Steps
    BY TeamFixed, ProgramTypes
  <1>1. ASSUME NEW s \in Steps, Runs(s), Moved(s) \/ Delegated(s) \/ Advanced(s)
        PROVE  OkWritten'
    <2>1. \A q \in Steps : rows[q] = "completed" => rows'[q] = "completed"
      BY <1>1, StepRows
    <2>2. CASE Moved(s)
      BY <1>0, <2>1, <2>2 DEF Moved, OkWritten
    <2>3. CASE Delegated(s)
      BY <1>0, <2>1, <2>3 DEF Delegated, OkWritten
    <2>4. CASE Advanced(s)
      BY <1>0, <2>1, <2>4 DEF Advanced, OkWritten
    <2>. QED
      BY <1>1, <2>2, <2>3, <2>4
  <1>2. CASE Stays
    BY <1>0, <1>2 DEF Stays, OkWritten
  <1>3. CASE TeamCrash
    BY <1>0, <1>3 DEF TeamCrash, OkWritten, Idle
  <1>4. CASE TakeUp
    BY <1>0, <1>4, StartedTypes DEF TakeUp, OkWritten
  <1>. QED
    BY <1>1, <1>2, <1>3, <1>4, NextKinds

LEMMA GroupsStep ==
  ASSUME TeamTypeOK, FirstAlone, OkWritten, UsedInMemory, GroupsInOrder, [TeamNext]_teamVars
  PROVE  GroupsInOrder'
  <1>0. /\ Groups' = Groups /\ worker \in {"up", "down"} /\ group \in [Steps -> Nat]
        /\ \A p \in Steps : DOMAIN Groups[p] = 1 .. Len(Groups[p])
    BY TeamFixed, ProgramTypes DEF TeamTypeOK
  <1>1. ASSUME NEW s \in Steps, Moved(s), worker' = worker
        PROVE  GroupsInOrder'
    <2>. SUFFICES ASSUME worker = "up", NEW p \in Steps, NEW g \in DOMAIN Groups[p],
                         NEW c \in Groups[p][g]
                  PROVE  /\ g < group[p] => call'[c].phase = "settled" /\ call'[c].ok
                         /\ g > group[p] => call'[c] = Idle
                         /\ call'[p].phase \in {"idle", "refused", "asking", "calling", "preparing"} =>
                               call'[c] = Idle
      BY <1>0, <1>1 DEF GroupsInOrder, Moved
    <2>1. c \in Steps /\ c # p
      BY DelegatedOnce
    <2>2. /\ g < group[p] => call[c].phase = "settled" /\ call[c].ok
          /\ g > group[p] => call[c] = Idle
          /\ call[p].phase \in {"idle", "refused", "asking", "calling", "preparing"} =>
                call[c] = Idle
      BY DEF GroupsInOrder
    <2>. QED
      BY <1>1, <2>1, <2>2 DEF Moved, Idle
  <1>2. ASSUME NEW q \in Steps, Delegated(q), worker' = worker
        PROVE  GroupsInOrder'
    <2>. SUFFICES ASSUME worker = "up", NEW p \in Steps, NEW g \in DOMAIN Groups[p],
                         NEW c \in Groups[p][g]
                  PROVE  /\ g < group[p] => call'[c].phase = "settled" /\ call'[c].ok
                         /\ g > group[p] => call'[c] = Idle
                         /\ call'[p].phase \in {"idle", "refused", "asking", "calling", "preparing"} =>
                               call'[c] = Idle
      BY <1>0, <1>2 DEF GroupsInOrder, Delegated
    <2>1. c \in Steps /\ c # p /\ group[q] \in DOMAIN Groups[q]
      BY <1>2, DelegatedOnce DEF Delegated
    <2>2. /\ g < group[p] => call[c].phase = "settled" /\ call[c].ok
          /\ g > group[p] => call[c] = Idle
          /\ call[p].phase \in {"idle", "refused", "asking", "calling", "preparing"} =>
                call[c] = Idle
      BY DEF GroupsInOrder
    <2>3. CASE c \in Groups[q][group[q]]
      <3>1. p = q /\ g = group[q]
        BY <2>1, <2>3, DelegatedOnce
      <3>2. p \notin Groups[q][group[q]]
        BY <2>1, <3>1, DelegatedOnce
      <3>. QED
        BY <1>0, <1>2, <3>1, <3>2 DEF Delegated
    <2>4. CASE c \notin Groups[q][group[q]]
      <3>1. call'[c] = call[c]
        BY <1>2, <2>1, <2>4 DEF Delegated
      <3>2. p \in Groups[q][group[q]] => call[p] = Idle
        BY <1>2 DEF Delegated
      <3>3. p \notin Groups[q][group[q]] => call'[p] = call[p]
        BY <1>2 DEF Delegated
      <3>. QED
        BY <2>2, <3>1, <3>2, <3>3 DEF Idle
    <2>. QED
      BY <2>3, <2>4
  <1>3. ASSUME NEW q \in Steps, Advanced(q), worker' = worker
        PROVE  GroupsInOrder'
    <2>. SUFFICES ASSUME worker = "up", NEW p \in Steps, NEW g \in DOMAIN Groups[p],
                         NEW c \in Groups[p][g]
                  PROVE  /\ g < group'[p] => call[c].phase = "settled" /\ call[c].ok
                         /\ g > group'[p] => call[c] = Idle
                         /\ call[p].phase \in {"idle", "refused", "asking", "calling", "preparing"} =>
                               call[c] = Idle
      BY <1>0, <1>3 DEF GroupsInOrder, Advanced
    <2>1. c \in Steps
      BY DelegatedOnce
    <2>2. /\ g < group[p] => call[c].phase = "settled" /\ call[c].ok
          /\ g > group[p] => call[c] = Idle
          /\ call[p].phase \in {"idle", "refused", "asking", "calling", "preparing"} =>
                call[c] = Idle
      BY DEF GroupsInOrder
    <2>3. g \in Nat /\ group[p] \in Nat /\ group'[p] = IF p = q THEN group[p] + 1 ELSE group[p]
      BY <1>0, <1>3 DEF Advanced
    <2>4. CASE p = q /\ g = group[p]
      BY <1>3, <2>1, <2>3, <2>4 DEF Advanced, OkWritten
    <2>5. CASE ~(p = q /\ g = group[p])
      BY <2>2, <2>3, <2>5
    <2>. QED
      BY <2>4, <2>5
  <1>4. CASE Stays
    BY <1>0, <1>4 DEF Stays, GroupsInOrder
  <1>5. CASE TeamCrash
    BY <1>5 DEF TeamCrash, GroupsInOrder
  <1>6. CASE TakeUp
    <2>. SUFFICES ASSUME NEW p \in Steps, NEW g \in DOMAIN Groups[p], NEW c \in Groups[p][g]
                  PROVE  call'[c] = Idle /\ ~(g < group'[p])
      BY <1>0 DEF GroupsInOrder
    <2>1. c \in Steps /\ c # Main
      BY DelegatedOnce
    <2>. QED
      BY <1>0, <1>6, <2>1, StartedTypes DEF TakeUp
  <1>. QED
    BY <1>1, <1>2, <1>3, <1>4, <1>5, <1>6, NextKinds

LEMMA FinishedStep ==
  ASSUME TeamTypeOK, FirstAlone, OkWritten, UsedInMemory, ReturnedFinished, [TeamNext]_teamVars
  PROVE  ReturnedFinished'
  <1>0. /\ Groups' = Groups /\ group \in [Steps -> Nat]
        /\ \A p \in Steps : DOMAIN Groups[p] = 1 .. Len(Groups[p])
        /\ \A p \in Steps : group[p] \in 1 .. Len(Groups[p]) + 1 /\ Len(Groups[p]) \in Nat
    BY TeamFixed, ProgramTypes DEF TeamTypeOK
  <1>a. ASSUME NEW t \in Steps, Finished(t), group'[t] = group[t],
               group[t] \in DOMAIN Groups[t] =>
                  \A c \in Groups[t][group[t]] : call[c] = Idle => call'[c] = Idle
        PROVE  Finished(t)'
    BY <1>0, <1>a DEF Finished
  <1>1. ASSUME NEW s \in Steps, Moved(s)
        PROVE  ReturnedFinished'
    <2>. SUFFICES ASSUME NEW t \in Steps, call'[t].phase = "returned" \/ call'[t].ok
                  PROVE  Finished(t)'
      BY DEF ReturnedFinished
    <2>1. Finished(t)
      BY <1>1 DEF Moved, ReturnedFinished
    <2>2. group'[t] = group[t]
      BY <1>1 DEF Moved
    <2>3. \A c \in Steps : call[c] = Idle => call'[c] = Idle
      BY <1>1 DEF Moved, Idle
    <2>4. group[t] \in DOMAIN Groups[t] => \A c \in Groups[t][group[t]] : c \in Steps
      BY ProgramTypes
    <2>. QED
      BY <1>a, <2>1, <2>2, <2>3, <2>4
  <1>2. ASSUME NEW q \in Steps, Delegated(q)
        PROVE  ReturnedFinished'
    <2>. SUFFICES ASSUME NEW t \in Steps, call'[t].phase = "returned" \/ call'[t].ok
                  PROVE  Finished(t)'
      BY DEF ReturnedFinished
    <2>1. call'[t] = call[t]
      BY <1>2 DEF Delegated
    <2>2. t # q /\ Finished(t)
      BY <1>2, <2>1 DEF Delegated, OkWritten, ReturnedFinished
    <2>3. ASSUME group[t] \in DOMAIN Groups[t], NEW c \in Groups[t][group[t]]
          PROVE  call'[c] = call[c]
      <3>1. c \in Steps /\ c \notin Groups[q][group[q]]
        BY <1>2, <2>2, <2>3, DelegatedOnce DEF Delegated
      <3>. QED
        BY <1>2, <3>1 DEF Delegated
    <2>. QED
      BY <1>2, <1>a, <2>2, <2>3 DEF Delegated
  <1>3. ASSUME NEW q \in Steps, Advanced(q)
        PROVE  ReturnedFinished'
    <2>. SUFFICES ASSUME NEW t \in Steps, call[t].phase = "returned" \/ call[t].ok
                  PROVE  Finished(t)'
      BY <1>3 DEF ReturnedFinished, Advanced
    <2>1. t # q /\ Finished(t)
      BY <1>3 DEF Advanced, OkWritten, ReturnedFinished
    <2>2. group'[t] = group[t]
      BY <1>0, <1>3, <2>1 DEF Advanced
    <2>. QED
      BY <1>3, <1>a, <2>1, <2>2 DEF Advanced
  <1>4. CASE Stays
    BY <1>0, <1>4 DEF Stays, ReturnedFinished, Finished
  <1>5. CASE TeamCrash
    BY <1>5 DEF TeamCrash, ReturnedFinished, Idle
  <1>6. CASE TakeUp
    <2>1. \A t \in Steps : call'[t].phase # "returned" /\ ~call'[t].ok
      BY <1>6, StartedTypes DEF TakeUp
    <2>. QED
      BY <2>1 DEF ReturnedFinished
  <1>. QED
    BY <1>1, <1>2, <1>3, <1>4, <1>5, <1>6, NextKinds

LEMMA ResumesStep ==
  ASSUME TeamTypeOK, FirstAlone, OkWritten, UsedInMemory, UsedByParent, GroupsInOrder,
         ResumesLast, [TeamNext]_teamVars
  PROVE  ResumesLast'
  <1>0. /\ Main' = Main /\ Groups' = Groups /\ worker \in {"up", "down"}
        /\ \A p : Children(p)' = Children(p)
        /\ \A c : ParentOf(c)' = ParentOf(c)
    BY TeamFixed DEF TeamTypeOK
  <1>t. ASSUME NEW c \in Steps \ {Main}, call[c].phase = "resuming"
        PROVE  /\ ParentOf(c) \in Steps /\ c \in Children(ParentOf(c))
               /\ \A d \in Children(ParentOf(c)) : d \in Steps
    <2>1. c \in used \ {Main}
      BY <1>t DEF UsedInMemory, InUse
    <2>2. ParentOf(c) \in Steps /\ c \in Children(ParentOf(c))
      BY <2>1, UsedParent
    <2>. QED
      BY <2>2, ProgramTypes DEF Children, Range
  <1>1. ASSUME NEW s \in Steps, Moved(s)
        PROVE  ResumesLast'
    <2>. SUFFICES ASSUME NEW c \in Steps \ {Main}, call'[c].phase = "resuming",
                         NEW d \in Children(ParentOf(c))
                  PROVE  ~InFlight(d)'
      BY <1>0 DEF ResumesLast
    <2>1. CASE c = s
      <3>1. s \in used \ {Main}
        BY <1>1, <2>1 DEF UsedInMemory, InUse, Moved
      <3>2. d \in Steps
        BY <2>1, <3>1, UsedParent, ProgramTypes DEF Children, Range
      <3>3. d # s => ~InFlight(d) /\ call'[d] = call[d]
        BY <1>1, <2>1, <3>2 DEF Moved, LastInFlight
      <3>. QED
        BY <2>1, <3>3 DEF InFlight
    <2>2. CASE c # s
      <3>1. call[c].phase = "resuming"
        BY <1>1, <2>2 DEF Moved
      <3>2. d \in Steps /\ ~InFlight(d)
        BY <1>t, <3>1 DEF ResumesLast
      <3>. QED
        BY <1>1, <3>2 DEF Moved, InFlight
    <2>. QED
      BY <2>1, <2>2
  <1>2. ASSUME NEW q \in Steps, Delegated(q)
        PROVE  ResumesLast'
    <2>. SUFFICES ASSUME NEW c \in Steps \ {Main}, call'[c].phase = "resuming",
                         NEW d \in Children(ParentOf(c))
                  PROVE  ~InFlight(d)'
      BY <1>0 DEF ResumesLast
    <2>1. call[c].phase = "resuming"
      BY <1>2 DEF Delegated
    <2>2. d \in Steps /\ ~InFlight(d) /\ ParentOf(c) \in Steps
      BY <1>t, <2>1 DEF ResumesLast
    <2>3. PICK g \in DOMAIN Groups[ParentOf(c)] :
             g <= group[ParentOf(c)] /\ c \in Groups[ParentOf(c)][g]
      BY <2>1, UsedParent DEF UsedInMemory, InUse
    <2>4. ParentOf(c) # q
      <3>1. worker = "up" /\ group[q] \in DOMAIN Groups[q]
        BY <1>0, <1>2 DEF Delegated, UsedInMemory, Idle
      <3>2. g \in Nat /\ group[q] \in Nat
        BY <2>2, <2>3, ProgramTypes DEF TeamTypeOK
      <3>3. ~(g < group[ParentOf(c)])
        BY <2>1, <2>2, <2>3, <3>1 DEF GroupsInOrder
      <3>4. ParentOf(c) = q => c \notin Groups[q][group[q]]
        BY <1>2, <2>1 DEF Delegated, Idle
      <3>. QED
        BY <2>3, <3>2, <3>3, <3>4
    <2>5. d \notin Groups[q][group[q]]
      <3>1. group[q] \in DOMAIN Groups[q]
        BY <1>2 DEF Delegated
      <3>2. PICK h \in DOMAIN Groups[ParentOf(c)] : d \in Groups[ParentOf(c)][h]
        BY DEF Children, Range
      <3>. QED
        BY <2>2, <2>4, <3>1, <3>2, DelegatedOnce
    <2>. QED
      BY <1>2, <2>2, <2>5 DEF Delegated, InFlight
  <1>3. ASSUME NEW q \in Steps, Advanced(q)
        PROVE  ResumesLast'
    BY <1>0, <1>3 DEF Advanced, ResumesLast, InFlight
  <1>4. CASE Stays
    BY <1>0, <1>4 DEF Stays, ResumesLast, InFlight
  <1>5. CASE TeamCrash
    BY <1>0, <1>5 DEF TeamCrash, ResumesLast, Idle
  <1>6. CASE TakeUp
    <2>1. \A t \in Steps : call'[t].phase # "resuming"
      BY <1>6, StartedTypes DEF TakeUp
    <2>. QED
      BY <1>0, <2>1 DEF ResumesLast
  <1>. QED
    BY <1>1, <1>2, <1>3, <1>4, <1>5, <1>6, NextKinds

LEMMA ParentStep ==
  ASSUME TeamTypeOK, FirstAlone, OkWritten, UsedInMemory, UsedByParent, [TeamNext]_teamVars
  PROVE  UsedByParent'
  <1>0. /\ Main' = Main /\ Groups' = Groups /\ group \in [Steps -> Nat] /\ used \subseteq Steps
        /\ \A p \in Steps : DOMAIN Groups[p] \subseteq Nat
    BY TeamFixed, ProgramTypes DEF TeamTypeOK
  <1>1. ASSUME NEW s \in Steps, Moved(s)
        PROVE  UsedByParent'
    BY <1>0, <1>1 DEF Moved, UsedByParent
  <1>2. ASSUME NEW q \in Steps, Delegated(q)
        PROVE  UsedByParent'
    <2>. SUFFICES ASSUME NEW c \in used' \ {Main}
                  PROVE  \E p \in used' : \E g \in DOMAIN Groups[p] :
                            g <= group[p] /\ c \in Groups[p][g]
      BY <1>0, <1>2 DEF UsedByParent, Delegated
    <2>1. used \subseteq used' /\ (c \in used \/ c \in Groups[q][group[q]])
      BY <1>2 DEF Delegated
    <2>2. CASE c \in used
      BY <2>1, <2>2 DEF UsedByParent
    <2>3. CASE c \in Groups[q][group[q]]
      <3>1. q \in used /\ group[q] \in DOMAIN Groups[q] /\ group[q] \in Nat
        BY <1>0, <1>2 DEF Delegated, UsedInMemory, InUse
      <3>. QED
        BY <2>1, <2>3, <3>1
    <2>. QED
      BY <2>1, <2>2, <2>3
  <1>3. ASSUME NEW q \in Steps, Advanced(q)
        PROVE  UsedByParent'
    <2>1. \A p \in Steps : group'[p] \in Nat /\ group[p] <= group'[p]
      BY <1>0, <1>3 DEF Advanced
    <2>. SUFFICES ASSUME NEW c \in used \ {Main}
                  PROVE  \E p \in used : \E g \in DOMAIN Groups[p] :
                            g <= group'[p] /\ c \in Groups[p][g]
      BY <1>0, <1>3 DEF UsedByParent, Advanced
    <2>2. PICK p \in used : \E g \in DOMAIN Groups[p] : g <= group[p] /\ c \in Groups[p][g]
      BY DEF UsedByParent
    <2>. QED
      BY <1>0, <2>1, <2>2
  <1>4. CASE Stays
    BY <1>0, <1>4 DEF Stays, UsedByParent
  <1>5. CASE TeamCrash
    BY <1>0, <1>5 DEF TeamCrash, UsedByParent
  <1>6. CASE TakeUp
    BY <1>0, <1>6 DEF TakeUp, UsedByParent
  <1>. QED
    BY <1>1, <1>2, <1>3, <1>4, <1>5, <1>6, NextKinds

LEMMA WellFoundedStep ==
  ASSUME TeamTypeOK, FirstAlone, OkWritten, UsedInMemory, UsedByParent, UsedWellFounded,
         [TeamNext]_teamVars
  PROVE  UsedWellFounded'
  <1>0. /\ Main' = Main /\ \A c : ParentOf(c)' = ParentOf(c)
    BY TeamFixed
  <1>1. CASE used' = used
    BY <1>0, <1>1 DEF UsedWellFounded
  <1>2. ASSUME NEW q \in Steps, Delegated(q)
        PROVE  UsedWellFounded'
    <2>1. q \in used /\ group[q] \in DOMAIN Groups[q]
      BY <1>2 DEF Delegated, UsedInMemory, InUse
    <2>. SUFFICES ASSUME NEW T \in SUBSET (used' \ {Main}), T # {}
                  PROVE  \E c \in T : ParentOf(c) \notin T
      BY <1>0 DEF UsedWellFounded
    <2>2. CASE T \cap used = {}
      <3>1. PICK c \in T : c \in Groups[q][group[q]]
        BY <1>2, <2>2 DEF Delegated
      <3>2. ParentOf(c) = q
        BY <2>1, <3>1, DelegatedOnce
      <3>. QED
        BY <2>1, <2>2, <3>1, <3>2
    <2>3. CASE T \cap used # {}
      <3>1. PICK c \in T \cap used : ParentOf(c) \notin T \cap used
        BY <2>3 DEF UsedWellFounded
      <3>2. ParentOf(c) \in used
        BY <3>1, UsedParent
      <3>. QED
        BY <3>1, <3>2
    <2>. QED
      BY <2>2, <2>3
  <1>3. CASE TakeUp
    BY <1>0, <1>3 DEF TakeUp, UsedWellFounded
  <1>. QED
    BY <1>1, <1>2, <1>3, NextKinds DEF Moved, Advanced, Stays, TeamCrash

-----------------------------------------------------------------------------
(* Budgets *)

(* What is within the budgets stays so when steps are left out. *)
LEMMA WithinLess ==
  ASSUME TeamTypeOK, NEW steps \in SUBSET Steps, Within(steps), NEW some \in SUBSET steps
  PROVE  Within(some)
  <1>1. \A S \in SUBSET steps : IsFiniteSet(S) /\ Cardinality(S) \in Nat
    <2>1. IsFiniteSet(steps)
      BY TeamConstants, FS_Subset
    <2>. QED
      BY <2>1, FS_Subset, FS_CardinalityType
  <1>2. /\ team.budget.invocations \in Nat /\ team.budget.delegations \in Nat
        /\ team.budget.perAgent \in Nat
    BY ProgramTypes, TeamConstants
  <1>3. \A S, T \in SUBSET steps : T \subseteq S => Cardinality(T) <= Cardinality(S)
    BY <1>1, FS_Subset
  <1>4. Cardinality(some) <= Cardinality(steps)
    BY <1>3
  <1>5. Cardinality(some \ {Main}) <= Cardinality(steps \ {Main})
    BY <1>3
  <1>6. \A a : Cardinality({s \in some : AgentOf[s] = a}) <= Cardinality({s \in steps : AgentOf[s] = a})
    BY <1>3
  <1>. DEFINE Mine(S, a) == {s \in S : AgentOf[s] = a}
  <1>7. ASSUME NEW a \in Range(AgentOf)
        PROVE  Cardinality(Mine(some, a)) <= team.budget.perAgent
    <2>1. Mine(some, a) \in SUBSET steps /\ Mine(steps, a) \in SUBSET steps
      OBVIOUS
    <2>2. Cardinality(Mine(steps, a)) <= team.budget.perAgent
      BY DEF Within
    <2>3. Cardinality(Mine(some, a)) <= Cardinality(Mine(steps, a))
      BY <1>6
    <2>4. Cardinality(Mine(some, a)) \in Nat /\ Cardinality(Mine(steps, a)) \in Nat
      BY <1>1, <2>1
    <2>. HIDE DEF Mine
    <2>. QED
      BY <1>2, <2>2, <2>3, <2>4
  <1>8. /\ Cardinality(some) \in Nat /\ Cardinality(steps) \in Nat
        /\ Cardinality(some \ {Main}) \in Nat /\ Cardinality(steps \ {Main}) \in Nat
    BY <1>1
  <1>9. /\ Cardinality(some) <= team.budget.invocations
        /\ Cardinality(some \ {Main}) <= team.budget.delegations
    BY <1>2, <1>4, <1>5, <1>8 DEF Within
  <1>. QED
    BY <1>7, <1>9 DEF Within

(* The step the team is run with is within them. *)
LEMMA WithinFirst ==
  ASSUME TeamTypeOK
  PROVE  Within({Main})
  <1>1. /\ team.budget.invocations \in Nat \ {0} /\ team.budget.delegations \in Nat
        /\ team.budget.perAgent \in Nat \ {0}
    BY ProgramTypes, TeamConstants
  <1>2. Cardinality({}) = 0 /\ Cardinality({Main}) = 1
    BY FS_EmptySet, FS_Singleton
  <1>3. {Main} \ {Main} = {}
    OBVIOUS
  <1>4. \A a : {s \in {Main} : AgentOf[s] = a} = {} \/ {s \in {Main} : AgentOf[s] = a} = {Main}
    OBVIOUS
  <1>. QED
    BY <1>1, <1>2, <1>3, <1>4 DEF Within

LEMMA WithinStep ==
  ASSUME TeamTypeOK, FirstAlone, OkWritten, Within(used), [TeamNext]_teamVars
  PROVE  Within(used)'
  <1>0. team' = team /\ Main' = Main
    BY TeamFixed
  <1>1. used' = used \/ Within(used') \/ used' = {Main}
    BY NextKinds DEF Moved, Delegated, Advanced, Stays, TeamCrash, TakeUp
  <1>2. Within(used')
    BY <1>1, WithinFirst
  <1>. QED
    BY <1>0, <1>2 DEF Within

-----------------------------------------------------------------------------
(* Who waits for whom *)

(* Which step shows a program at work, and which one shows it waiting. *)
LEMMA StepShows ==
  ASSUME TeamTypeOK, FirstAlone, UsedInMemory, UsedByParent, NEW s \in Steps, Runs(s)
  PROVE  /\ \A p \in Steps : rows'[p] = "running" /\ rows[p] # "running" =>
               \/ p = s /\ call[s].phase = "calling"
               \/ p = ParentOf(s) /\ call[s].phase = "resuming" /\ s # Main
         /\ \A p \in Steps : rows'[p] = "waiting" /\ rows[p] # "waiting" =>
               s # Main /\ p = ParentOf(s) /\ call'[s].phase = "calling"
         /\ call[s].phase = "asking" /\ call'[s].phase = "calling" => rows'[ParentOf(s)] # "running"
         /\ call[s].phase = "resuming" /\ teamFaults' = teamFaults => rows'[ParentOf(s)] # "waiting"
  <1>. DEFINE Statuses == Open \cup {"none", "completed", "failed", "cancelled"}
  <1>0. /\ rows \in [Steps -> Statuses] /\ Main \in Steps /\ teamFaults \in Nat
        /\ call \in [Steps -> [phase : Phases, ok : BOOLEAN]]
    BY ProgramTypes, TeamConstants DEF TeamTypeOK
  <1>a. s # Main /\ call[s].phase \notin {"idle", "refused"} => ParentOf(s) \in Steps
    BY UsedParent DEF UsedInMemory, InUse
  <1>w. ASSUME NEW q \in Steps, NEW status \in {"running", "completed", "failed", "cancelled"},
               rows' = Written(rows, q, status)
        PROVE  /\ \A t \in Steps : t # q => rows'[t] = rows[t]
               /\ rows'[q] = IF rows[q] = "completed" THEN "completed" ELSE status
    <2>1. status \in Open \cup {"completed", "failed", "cancelled"}
      BY DEF Open
    <2>. QED
      BY <1>0, <1>w, <2>1, WrittenRows
  <1>1. CASE Ask(s)
    <2>1. call[s].phase = "asking" /\ s # Main /\ ParentOf(s) \in Steps
      BY <1>1, <1>a DEF Ask, FirstAlone
    <2>2. CASE rows' = rows /\ Settled(s, FALSE)
      BY <1>0, <2>1, <2>2, SettledMoves
    <2>3. CASE /\ rows' = Written(Written(rows, s, "queued"), ParentOf(s), "waiting")
               /\ call' = [call EXCEPT ![s].phase = "calling"]
      <3>. DEFINE queued == Written(rows, s, "queued")
      <3>1. /\ queued \in [Steps -> Statuses]
            /\ \A t \in Steps : t # s => queued[t] = rows[t]
            /\ queued[s] = IF rows[s] = "completed" THEN "completed" ELSE "queued"
        BY <1>0, WrittenRows DEF Open
      <3>2. rows' = Written(queued, ParentOf(s), "waiting")
        BY <2>3
      <3>. HIDE DEF queued
      <3>3. /\ \A t \in Steps : t # ParentOf(s) => rows'[t] = queued[t]
            /\ rows'[ParentOf(s)] = IF queued[ParentOf(s)] = "completed" THEN "completed" ELSE "waiting"
        BY <2>1, <3>1, <3>2, WrittenRows DEF Open
      <3>4. call'[s].phase = "calling"
        BY <1>0, <2>3
      <3>. QED
        BY <2>1, <3>1, <3>3, <3>4
    <2>. QED
      BY <1>1, <2>2, <2>3 DEF Ask
  <1>2. CASE Resume(s)
    <2>1. call[s].phase = "resuming" /\ s # Main /\ ParentOf(s) \in Steps
      BY <1>2, <1>a DEF Resume, FirstAlone
    <2>2. CASE TeamFault /\ rows' = rows
      BY <1>0, <2>1, <2>2 DEF TeamFault
    <2>3. CASE rows' = Written(rows, ParentOf(s), "running")
      BY <1>w, <2>1, <2>3
    <2>. QED
      BY <1>2, <2>2, <2>3 DEF Resume
  <1>3. CASE Begin(s)
    <2>1. call[s].phase = "calling"
      BY <1>3 DEF Begin
    <2>2. rows' = rows \/ rows' = Written(rows, s, "running")
      BY <1>3 DEF Begin
    <2>. QED
      BY <1>w, <2>1, <2>2
  <1>4. CASE Fail(s)
    <2>1. call[s].phase = "failing"
      BY <1>4 DEF Fail
    <2>2. rows' = rows \/ rows' = Written(rows, s, "failed") \/ rows' = Written(rows, s, "cancelled")
      BY <1>4 DEF Fail
    <2>. QED
      BY <1>w, <2>1, <2>2
  <1>5. CASE Answer(s) \/ (s = Main /\ TeamEnds)
    <2>1. call[s].phase = "returned"
      BY <1>5 DEF Answer, TeamEnds
    <2>2. rows' = rows \/ rows' = Written(rows, s, "completed")
      BY <1>5 DEF Answer, TeamEnds
    <2>. QED
      BY <1>w, <2>1, <2>2
  <1>6. CASE DelegateGroup(s) \/ GroupEnds(s) \/ Prepare(s) \/ Return(s) \/ GiveUp(s) \/ TimesOut(s)
    <2>1. rows' = rows /\ call[s].phase \in {"working", "preparing"}
      BY <1>6 DEF DelegateGroup, GroupEnds, Prepare, Return, GiveUp, TimesOut
    <2>. QED
      BY <2>1
  <1>. QED
    BY <1>1, <1>2, <1>3, <1>4, <1>5, <1>6 DEF Runs

(* When nothing fails, a delegation stays in flight until its parent goes  *)
(* on or another one of its parent's is.                                   *)
LEMMA MovesOn ==
  ASSUME TeamTypeOK, OkWritten, FirstAlone, NEW s \in Steps \ {Main}, Runs(s), ~aborted,
         expired = {}, teamFaults' = teamFaults, InFlight(s)
  PROVE  \/ InFlight(s)' \/ call'[s].phase = "resuming"
         \/ \E d \in Children(ParentOf(s)) \ {s} : InFlight(d)
  <1>0. call \in [Steps -> [phase : Phases, ok : BOOLEAN]] /\ teamFaults \in Nat
    BY TeamConstants DEF TeamTypeOK
  <1>1. ~TeamFault /\ ~Stopped(ParentOf(s)) /\ ~MayFail(s)
    BY <1>0 DEF TeamFault, MayFail, Stopped
  <1>2. CASE \E ok \in BOOLEAN : Settled(s, ok)
    BY <1>1, <1>2, SettledMoves
  <1>3. CASE \E to \in {"calling", "preparing", "working", "returned", "failing"} :
                call' = [call EXCEPT ![s].phase = to]
    BY <1>0, <1>3 DEF InFlight
  <1>4. CASE call'[s] = call[s]
    BY <1>4 DEF InFlight
  <1>5. CASE DelegateGroup(s)
    <2>1. Runs(s) /\ call[s].phase = "working" /\ s \notin Groups[s][group[s]]
      <3>1. call[s].phase = "working" /\ \A c \in Groups[s][group[s]] : call[c] = Idle
        BY <1>5 DEF DelegateGroup
      <3>. QED
        BY <3>1 DEF Idle
    <2>2. call'[s] = call[s]
      BY <1>5, <2>1 DEF DelegateGroup
    <2>. QED
      BY <1>4, <2>2
  <1>6. CASE GroupEnds(s) \/ Prepare(s) \/ Return(s) \/ GiveUp(s)
    BY <1>1, <1>3, <1>4, <1>6 DEF GroupEnds, Prepare, Return, GiveUp
  <1>7. CASE Begin(s) \/ Ask(s) \/ Answer(s) \/ Fail(s)
    BY <1>1, <1>2, <1>3, <1>7 DEF Begin, Ask, Answer, Fail
  <1>8. CASE Resume(s) \/ TimesOut(s)
    BY <1>1, <1>8 DEF Resume, TimesOut, InFlight
  <1>. QED
    BY <1>5, <1>6, <1>7, <1>8 DEF Runs

(* What fails, the time-outs and the abort of the attempt are counted. *)
LEMMA FaultsCounted ==
  ASSUME TeamTypeOK, [TeamNext]_teamVars
  PROVE  UNCHANGED <<aborted, expired, teamFaults>> \/ TeamFault \/ TakeUp
  <1>1. ASSUME NEW s \in Steps, Runs(s)
        PROVE  UNCHANGED <<aborted, expired, teamFaults>> \/ TeamFault
    BY <1>1, RunsKeep DEF NoTeamFault
  <1>2. CASE RunsTeam \/ \E s \in Steps : TimesOut(s)
    BY <1>1, <1>2, LateStays DEF RunsTeam, Runs, NoTeamFault
  <1>3. CASE TeamEnds
    BY <1>1, <1>3, ProgramTypes DEF Runs
  <1>4. CASE Abort \/ TeamCrash
    BY <1>4 DEF Abort, TeamCrash
  <1>. QED
    BY <1>2, <1>3, <1>4 DEF TeamNext, teamVars

LEMMA AtWorkStep ==
  ASSUME TeamTypeOK, FirstAlone, OkWritten, UsedInMemory, UsedByParent, GroupsInOrder,
         ResumesLast, AtWorkHonest, [TeamNext]_teamVars
  PROVE  AtWorkHonest'
  <1>0. /\ Main' = Main /\ Groups' = Groups /\ worker \in {"up", "down"}
        /\ \A c : ParentOf(c)' = ParentOf(c)
    BY TeamFixed DEF TeamTypeOK
  <1>. DEFINE Asked == {"calling", "preparing", "working", "returned", "failing"}
  <1>1. ASSUME NEW s \in Steps, Runs(s), worker' = worker,
               Moved(s) \/ Delegated(s) \/ Advanced(s)
        PROVE  AtWorkHonest'
    <2>. SUFFICES ASSUME worker = "up", ~aborted, NEW c \in Steps \ {Main},
                         call'[c].phase \in Asked
                  PROVE  rows'[ParentOf(c)] # "running"
      <3>1. aborted' = aborted
        BY <1>1, RunsKeep
      <3>. QED
        BY <1>0, <1>1, <3>1 DEF AtWorkHonest
    <2>1. CASE c = s /\ call[s].phase = "asking" /\ call'[s].phase = "calling"
      BY <1>1, <2>1, StepShows
    <2>2. CASE call[c].phase \in Asked
      <3>1. /\ c \in used \ {Main} /\ ParentOf(c) \in Steps
            /\ rows[ParentOf(c)] # "running" /\ InFlight(c) /\ call[c] # Idle
        BY <2>2, UsedParent DEF UsedInMemory, InUse, AtWorkHonest, InFlight, Idle
      <3>2. PICK g \in DOMAIN Groups[ParentOf(c)] : c \in Groups[ParentOf(c)][g]
        BY <3>1, UsedParent
      <3>3. call[ParentOf(c)].phase # "calling"
        BY <3>1, <3>2 DEF GroupsInOrder
      <3>4. ~(call[s].phase = "resuming" /\ s # Main /\ ParentOf(s) = ParentOf(c))
        BY <3>1, UsedParent DEF ResumesLast
      <3>. QED
        BY <1>1, <3>1, <3>3, <3>4, StepShows
    <2>3. CASE ~(call[c].phase \in Asked) /\ Moved(s)
      BY <2>1, <2>3 DEF Moved, InFlight
    <2>4. CASE ~(call[c].phase \in Asked) /\ (Delegated(s) \/ Advanced(s))
      BY <2>4 DEF Delegated, Advanced
    <2>. QED
      BY <1>1, <2>2, <2>3, <2>4
  <1>2. CASE Stays
    <2>1. aborted => aborted'
      <3>1. ASSUME NEW s \in Steps, Runs(s) \/ LateEnd(s)
            PROVE  aborted' = aborted
        BY <3>1, RunsKeep, LateStays
      <3>2. TeamEnds => aborted' = aborted
        BY DEF TeamEnds, Fixed
      <3>3. ~TakeUp /\ (TeamCrash => aborted' = aborted) /\ (Abort => aborted')
        BY <1>2 DEF TakeUp, TeamCrash, Abort, Stays
      <3>4. RunsTeam \/ (\E s \in Steps : TimesOut(s)) => aborted' = aborted
        BY <3>1 DEF RunsTeam, Runs
      <3>. QED
        BY <3>2, <3>3, <3>4 DEF TeamNext, teamVars
    <2>. SUFFICES ASSUME worker = "up", ~aborted, NEW c \in Steps \ {Main},
                         call[c].phase \in Asked
                  PROVE  rows'[ParentOf(c)] # "running"
      BY <1>0, <1>2, <2>1 DEF Stays, AtWorkHonest
    <2>2. c \in used \ {Main}
      BY DEF UsedInMemory, InUse
    <2>3. ParentOf(c) \in Steps /\ rows[ParentOf(c)] # "running"
      BY <2>2, UsedParent DEF AtWorkHonest
    <2>. QED
      BY <1>2, <2>3 DEF Stays
  <1>3. CASE TeamCrash
    BY <1>3 DEF TeamCrash, AtWorkHonest
  <1>4. CASE TakeUp
    <2>1. \A c \in Steps \ {Main} : call'[c] = Idle
      BY <1>4, StartedTypes DEF TakeUp
    <2>. QED
      BY <1>0, <2>1 DEF AtWorkHonest, Idle
  <1>. QED
    BY <1>1, <1>2, <1>3, <1>4, NextKinds

LEMMA WaitsStep ==
  ASSUME TeamTypeOK, FirstAlone, OkWritten, UsedInMemory, UsedByParent, WaitsHonest,
         [TeamNext]_teamVars
  PROVE  WaitsHonest'
  <1>0. /\ Main' = Main /\ worker \in {"up", "down"} /\ teamFaults \in Nat
        /\ \A p : Children(p)' = Children(p)
        /\ \A c : ParentOf(c)' = ParentOf(c)
    BY TeamFixed, TeamConstants DEF TeamTypeOK
  <1>1. ASSUME NEW s \in Steps, Runs(s), worker' = worker,
               Moved(s) \/ Delegated(s) \/ Advanced(s)
        PROVE  WaitsHonest'
    <2>1. aborted' = aborted /\ (NoTeamFault \/ TeamFault) /\ (expired' = expired \/ TeamFault)
      BY <1>1, RunsKeep
    <2>2. /\ worker' = "down" \/ expired' # {} => teamFaults' # 0
          /\ teamFaults' = 0 => teamFaults' = teamFaults /\ expired = {}
      BY <1>0, <1>1, <2>1 DEF NoTeamFault, TeamFault, WaitsHonest
    <2>. SUFFICES ASSUME worker = "up", ~aborted, expired = {}, teamFaults = 0,
                         teamFaults' = teamFaults, NEW p \in Steps, rows'[p] = "waiting"
                  PROVE  \E c \in Children(p) : InFlight(c)' \/ call'[c].phase = "resuming"
      BY <1>0, <1>1, <2>1, <2>2 DEF WaitsHonest
    <2>3. CASE rows[p] # "waiting"
      <3>1. s # Main /\ p = ParentOf(s) /\ call'[s].phase = "calling"
        BY <1>1, <2>3, StepShows
      <3>2. s \in used \ {Main}
        BY <1>1, <3>1 DEF UsedInMemory, InUse, Moved, Delegated, Advanced, Idle
      <3>. QED
        BY <3>1, <3>2, UsedParent DEF InFlight
    <2>4. CASE rows[p] = "waiting"
      <3>1. PICK c \in Children(p) : InFlight(c) \/ call[c].phase = "resuming"
        BY <2>4 DEF WaitsHonest
      <3>2. PICK g \in DOMAIN Groups[p] : c \in Groups[p][g]
        BY DEF Children, Range
      <3>3. c \in Steps /\ c # Main /\ ParentOf(c) = p
        BY <3>2, DelegatedOnce
      <3>4. \A d \in Children(p) : d \in Steps
        BY ProgramTypes DEF Children, Range
      <3>5. CASE c = s /\ call[c].phase = "resuming"
        BY <1>1, <3>3, <3>5, StepShows
      <3>6. CASE c = s /\ Moved(s) /\ InFlight(c)
        BY <1>1, <3>3, <3>4, <3>6, MovesOn DEF Moved, InFlight
      <3>7. CASE c # s /\ Moved(s)
        BY <3>1, <3>3, <3>7 DEF Moved, InFlight
      <3>8. CASE Delegated(s) \/ Advanced(s)
        BY <3>1, <3>3, <3>8 DEF Delegated, Advanced, InFlight, Idle
      <3>. QED
        BY <1>1, <3>1, <3>5, <3>6, <3>7, <3>8
    <2>. QED
      BY <2>3, <2>4
  <1>2. CASE Stays
    <2>1. CASE teamFaults' # 0
      BY <1>0, <2>1 DEF WaitsHonest
    <2>2. teamFaults' # 0 \/ UNCHANGED <<aborted, expired, teamFaults>>
      <3>1. ~TakeUp
        BY <1>2 DEF Stays, TakeUp
      <3>2. TeamFault => teamFaults' # 0
        BY <1>0 DEF TeamFault
      <3>. QED
        BY <3>1, <3>2, FaultsCounted
    <2>3. CASE UNCHANGED <<aborted, expired, teamFaults>>
      <3>. SUFFICES ASSUME worker = "up", ~aborted, teamFaults = 0, NEW p \in Steps,
                           rows'[p] = "waiting"
                    PROVE  \E c \in Children(p) : InFlight(c)' \/ call'[c].phase = "resuming"
        BY <1>0, <1>2, <2>3 DEF Stays, WaitsHonest
      <3>1. rows[p] = "waiting"
        BY <1>2 DEF Stays
      <3>. QED
        BY <1>2, <3>1 DEF Stays, WaitsHonest, InFlight
    <2>. QED
      BY <2>1, <2>2, <2>3
  <1>3. CASE TeamCrash
    BY <1>0, <1>3 DEF TeamCrash, WaitsHonest, TeamFault
  <1>4. CASE TakeUp
    BY <1>0, <1>4 DEF TakeUp, WaitsHonest, NoTeamFault
  <1>. QED
    BY <1>1, <1>2, <1>3, <1>4, NextKinds

LEMMA ResponsesStep ==
  ASSUME TeamTypeOK, FirstAlone, OkWritten, UsedInMemory, UsedByParent, ResponsesHonest,
         [TeamNext]_teamVars
  PROVE  ResponsesHonest'
  <1>0. Main' = Main
    BY TeamFixed
  <1>1. CASE Stays \/ TeamCrash \/ TakeUp
    BY <1>0, <1>1 DEF Stays, TeamCrash, TakeUp, ResponsesHonest
  <1>. QED
    BY <1>1, NextKinds, StepRows

-----------------------------------------------------------------------------
(* The theorems *)

LEMMA InitHolds == TeamInit => IInv
  <1>. SUFFICES ASSUME TeamInit
                PROVE  IInv
    OBVIOUS
  <1>1. Main \in Steps /\ team \in [program : Programs, budget : Budgets]
        /\ \A p \in Steps : Len(Groups[p]) \in Nat
    <2>1. team.program \in Programs /\ team \in [program : Programs, budget : Budgets]
      BY DEF TeamInit
    <2>. QED
      BY <2>1, TeamConstants DEF Main, Groups
  <1>2. Started \in [Steps -> [phase : Phases, ok : BOOLEAN]]
    BY DEF Started, Call, Idle, Phases
  <1>3. TeamTypeOK
    <2>1. group \in [Steps -> Nat] /\ \A s \in Steps : group[s] \in 1 .. Len(Groups[s]) + 1
      BY <1>1 DEF TeamInit
    <2>2. /\ rows \in [Steps -> Open \cup {"none", "completed", "failed", "cancelled"}]
          /\ messages \subseteq Steps \X {"request", "response"} /\ used \subseteq Steps
      BY <1>1 DEF TeamInit
    <2>3. /\ aborted \in BOOLEAN /\ expired \subseteq Steps /\ adrift \subseteq Steps
          /\ worker \in {"up", "down"} /\ attempt = 1 /\ teamFaults = 0
      BY DEF TeamInit
    <2>4. attempt \in 1 .. MaxAttempts /\ teamFaults \in 0 .. MaxTeamFaults
      BY <2>3, TeamConstants
    <2>. QED
      BY <1>1, <1>2, <2>1, <2>2, <2>3, <2>4 DEF TeamInit, TeamTypeOK
  <1>4. /\ call[Main].phase = "calling" /\ ~call[Main].ok
        /\ \A s \in Steps \ {Main} : call[s] = Idle
        /\ Idle.phase = "idle" /\ ~Idle.ok
    BY <1>3, StartedTypes DEF TeamInit
  <1>5. FirstAlone /\ UsedInMemory /\ UsedByParent /\ UsedWellFounded /\ OkWritten
    BY <1>1, <1>4 DEF TeamInit, FirstAlone, UsedInMemory, UsedByParent, UsedWellFounded, OkWritten,
                      InUse
  <1>6. GroupsInOrder
    <2>. SUFFICES ASSUME NEW p \in Steps, NEW g \in DOMAIN Groups[p], NEW c \in Groups[p][g]
                  PROVE  call[c] = Idle /\ ~(g < group[p])
      BY DEF GroupsInOrder
    <2>1. c \in Steps /\ c # Main /\ g \in 1 .. Len(Groups[p])
      BY <1>3, DelegatedOnce, ProgramTypes
    <2>. QED
      BY <1>1, <1>4, <2>1 DEF TeamInit
  <1>7. ReturnedFinished /\ ResumesLast
    BY <1>1, <1>4 DEF ReturnedFinished, ResumesLast
  <1>8. Within(used)
    BY <1>3, WithinFirst DEF TeamInit
  <1>9. AtWorkHonest /\ WaitsHonest /\ ResponsesHonest
    BY <1>1, <1>4 DEF TeamInit, AtWorkHonest, WaitsHonest, ResponsesHonest
  <1>. QED
    BY <1>3, <1>5, <1>6, <1>7, <1>8, <1>9 DEF IInv

LEMMA NextKeeps == IInv /\ [TeamNext]_teamVars => IInv'
  <1>. SUFFICES ASSUME IInv, [TeamNext]_teamVars
                PROVE  IInv'
    OBVIOUS
  <1>. USE DEF IInv
  <1>1. TeamTypeOK' /\ FirstAlone' /\ UsedInMemory'
    BY TypesStep, MemoryStep
  <1>2. UsedByParent' /\ UsedWellFounded' /\ OkWritten'
    BY ParentStep, WellFoundedStep, OkStep
  <1>3. GroupsInOrder' /\ ReturnedFinished' /\ ResumesLast'
    BY GroupsStep, FinishedStep, ResumesStep
  <1>4. Within(used)' /\ AtWorkHonest' /\ WaitsHonest' /\ ResponsesHonest'
    BY WithinStep, AtWorkStep, WaitsStep, ResponsesStep
  <1>. QED
    BY <1>1, <1>2, <1>3, <1>4

(* No step of the team, of its workers or of a fault leaves IInv.          *)
THEOREM Invariance == TeamSafety => []IInv
  BY InitHolds, NextKeeps, PTL DEF TeamSafety

(* Invocations, rows, messages and counters are what TeamTypeOK says. *)
THEOREM TypeCorrect == TeamSafety => []TeamTypeOK
  BY Invariance, PTL DEF IInv

(* Steps delegated at once never spend more than the attempt's budgets,    *)
(* whatever the programs are and however they are interleaved.             *)
THEOREM BudgetsKeptHolds == TeamSafety => []BudgetsKept
  <1>1. IInv => BudgetsKept
    <2>. SUFFICES ASSUME IInv
                  PROVE  BudgetsKept
      OBVIOUS
    <2>1. {s \in Steps : InUse(s)} \in SUBSET used /\ used \in SUBSET Steps
      BY DEF IInv, UsedInMemory, TeamTypeOK
    <2>2. Within({s \in Steps : InUse(s)})
      BY <2>1, WithinLess DEF IInv
    <2>. QED
      BY <2>2 DEF BudgetsKept, InUse
  <1>. QED
    BY <1>1, Invariance, PTL

(* The activity tells the truth of the delegations, in whatever order      *)
(* parallel steps are answered.                                            *)
THEOREM WaitingHonestHolds == TeamSafety => []WaitingHonest
  <1>1. IInv => WaitingHonest
    BY DEF IInv, AtWorkHonest, WaitsHonest, ResponsesHonest, WaitingHonest
  <1>. QED
    BY <1>1, Invariance, PTL

(* When the team's first step returns, every step it delegated has         *)
(* answered: the ones that have not would all have parents among them.     *)
LEMMA AllAnsweredAtEnd ==
  ASSUME IInv, worker = "up", call[Main].phase = "returned", NEW s \in used \ {Main}
  PROVE  call[s].ok
  <1>. DEFINE Unanswered == {c \in used \ {Main} : ~call[c].ok}
  <1>. SUFFICES ASSUME Unanswered # {}
                PROVE  FALSE
    OBVIOUS
  <1>1. PICK c \in Unanswered : ParentOf(c) \notin Unanswered
    <2>1. Unanswered \in SUBSET (used \ {Main})
      OBVIOUS
    <2>. QED
      BY <2>1 DEF IInv, UsedWellFounded
  <1>. DEFINE p == ParentOf(c)
  <1>2. p \in used /\ p \in Steps /\ c \in Steps /\ TeamTypeOK
    BY <1>1, UsedParent DEF IInv
  <1>3. PICK g \in DOMAIN Groups[p] : g <= group[p] /\ c \in Groups[p][g]
    BY <1>1, UsedParent DEF IInv
  <1>. HIDE DEF p
  <1>4. call[p].phase = "returned" \/ call[p].ok
    BY <1>1, <1>2 DEF p
  <1>5. Finished(p)
    BY <1>2, <1>4 DEF IInv, ReturnedFinished
  <1>6. call[c] # Idle
    BY <1>1 DEF IInv, UsedInMemory, InUse, Idle
  <1>7. g \in Nat /\ group[p] \in Nat /\ Len(Groups[p]) \in Nat /\ g <= Len(Groups[p])
    BY <1>2, <1>3, ProgramTypes DEF TeamTypeOK
  <1>8. g < group[p]
    BY <1>3, <1>5, <1>6, <1>7 DEF Finished
  <1>9. call[c].ok
    BY <1>2, <1>3, <1>8 DEF IInv, GroupsInOrder
  <1>. QED
    BY <1>1, <1>9

(* The team is shown completed only when every step it delegated in the    *)
(* last attempt is, and what is completed stays so over all attempts.      *)
THEOREM CompletedIsFinalHolds == TeamSafety => CompletedIsFinal
  <1>1. IInv /\ [TeamNext]_teamVars =>
           [/\ rows'[Main] = "completed" /\ rows[Main] # "completed" =>
                  \A s \in used \ {Main} : rows[s] = "completed"
            /\ \A s \in Steps : rows[s] = "completed" => rows'[s] = "completed"]_teamVars
    <2>. SUFFICES ASSUME IInv, [TeamNext]_teamVars
                  PROVE  /\ rows'[Main] = "completed" /\ rows[Main] # "completed" =>
                               \A s \in used \ {Main} : rows[s] = "completed"
                         /\ \A s \in Steps : rows[s] = "completed" => rows'[s] = "completed"
      OBVIOUS
    <2>. USE DEF IInv
    <2>1. CASE Stays
      BY <2>1, ProgramTypes DEF Stays
    <2>c. CASE TeamCrash \/ TakeUp
      BY <2>c DEF TeamCrash, TakeUp
    <2>2. ASSUME NEW s \in Steps, Runs(s)
          PROVE  /\ rows'[Main] = "completed" /\ rows[Main] # "completed" =>
                       \A q \in used \ {Main} : rows[q] = "completed"
                 /\ \A q \in Steps : rows[q] = "completed" => rows'[q] = "completed"
      <3>1. \A q \in Steps : rows[q] = "completed" => rows'[q] = "completed"
        BY <2>2, StepRows
      <3>2. ASSUME rows'[Main] = "completed", rows[Main] # "completed", NEW q \in used \ {Main}
            PROVE  rows[q] = "completed"
        <4>1. call[Main].phase = "returned"
          BY <2>2, <3>2, StepRows, ProgramTypes
        <4>2. worker = "up"
          BY <4>1, ProgramTypes DEF UsedInMemory, Idle, TeamTypeOK
        <4>3. call[q].ok
          BY <4>1, <4>2, AllAnsweredAtEnd
        <4>. QED
          BY <4>3 DEF OkWritten, TeamTypeOK
      <3>. QED
        BY <3>1, <3>2
    <2>. QED
      BY <2>1, <2>c, <2>2, NextKinds
  <1>. QED
    BY <1>1, Invariance, PTL DEF TeamSafety, CompletedIsFinal
=============================================================================
