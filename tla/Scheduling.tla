----------------------------- MODULE Scheduling -----------------------------
(***************************************************************************)
(* Daily report definitions and the occurrences they give rise to.         *)
(*                                                                         *)
(* Every operation is one transaction.  Time is counted in minutes, and a  *)
(* time zone is what the code uses it for: the local date and the local    *)
(* time of each minute.  A clock that goes back shows a local time twice   *)
(* on one date, one that goes forward skips it.                            *)
(*                                                                         *)
(* An occurrence and its run are inserted together, so an occurrence       *)
(* stands for its run too.  Name, use case and data_as_of_policy are       *)
(* payload.  Row locks are held only within a transaction, so what SKIP    *)
(* LOCKED passes over is met by the next tick.                             *)
(***************************************************************************)
EXTENDS Integers, FiniteSets, FiniteSetsExt

CONSTANTS
    Definitions,   \* report definitions
    Members,       \* members of the organisation
    Creator,       \* definition -> the member who created it
    Clock,         \* minute -> [date, time], as the zone's wall shows them
    MaxVersion     \* bound on definition_version

Minutes == DOMAIN Clock
Times == {Clock[m].time : m \in Minutes}
Never == Cardinality(Minutes) + 1     \* beyond the clock's last minute

ASSUME ClockAssumption ==
    /\ IsFiniteSet(Minutes) /\ 1 \in Minutes
    /\ Clock \in [1 .. Cardinality(Minutes) -> [date : Int, time : Int]]
    /\ \A m, n \in Minutes : m <= n => Clock[m].date <= Clock[n].date
    /\ Creator \in [Definitions -> Members]
    /\ MaxVersion \in Nat \ {0}

VARIABLES
    now,       \* the current minute
    def,       \* the rows of definitions
    occ,       \* the rows of occurrences
    writer,    \* member -> may write in the organisation
    loaded     \* definition -> a snapshot of its scope has been imported

schedulingVars == <<now, def, occ, writer, loaded>>

Row == [exists : BOOLEAN, enabled : BOOLEAN, version : 0 .. MaxVersion,
        time : Times, next : Minutes \cup {Never}]
Occurrence == [of : Definitions, slot : Minutes, version : 1 .. MaxVersion, time : Times]

SchedulingTypeOK ==
    /\ now \in Minutes
    /\ def \in [Definitions -> Row]
    /\ occ \subseteq Occurrence
    /\ writer \in [Members -> BOOLEAN]
    /\ loaded \in [Definitions -> BOOLEAN]

SchedulingInit ==
    /\ now = 1
    /\ def \in {[d \in Definitions |->
                    [exists |-> FALSE, enabled |-> FALSE, version |-> 0,
                     time |-> t, next |-> Never]] : t \in Times}
    /\ occ = {}
    /\ writer = [m \in Members |-> TRUE]
    /\ loaded \in [Definitions -> BOOLEAN]

-----------------------------------------------------------------------------
(* The calendar *)

FirstOf(minutes) == IF minutes = {} THEN Never ELSE Min(minutes)

(* Mutant: the date is not looked at. *)
NextShowing(time, after) == FirstOf({m \in Minutes : m > after /\ Clock[m].time = time})

(* nextScheduledAt: the first later minute that shows the time, on a later *)
(* date if the wall already shows that time or a later one.                *)
NextScheduledAt(time, after) ==
    FirstOf({m \in Minutes :
                /\ m > after
                /\ Clock[m].time = time
                /\ Clock[after].time >= time => Clock[m].date > Clock[after].date})

(* scheduledOnDate: the first minute of the date that shows the time, if   *)
(* there is one; the search starts before the date and advances date by date. *)
ScheduledOnDate(time, date) ==
    FirstOf({m \in Minutes : Clock[m] = [date |-> date, time |-> time]})

-----------------------------------------------------------------------------
(* Operations of a member, through the API.  Any member who may write may  *)
(* change any definition of the organisation.                              *)

SomeoneWrites == \E m \in Members : writer[m]

CreateDefinition(d, time, enabled) ==
    /\ writer[Creator[d]] /\ ~def[d].exists
    /\ def' = [def EXCEPT ![d] = [exists |-> TRUE, enabled |-> enabled, version |-> 1,
                                  time |-> time, next |-> NextScheduledAt(time, now)]]
    /\ UNCHANGED <<now, occ, writer, loaded>>

(* Mutant: an edit keeps the due time it had. *)
EditKeepsNext(d, time, enabled) ==
    /\ SomeoneWrites /\ def[d].exists /\ def[d].version < MaxVersion
    /\ def' = [def EXCEPT ![d].enabled = enabled, ![d].time = time, ![d].version = @ + 1]
    /\ UNCHANGED <<now, occ, writer, loaded>>

(* An edit, a pause or a resume: the panel sends every field each time.    *)
UpdateDefinition(d, time, enabled) ==
    /\ SomeoneWrites /\ def[d].exists /\ def[d].version < MaxVersion
    /\ def' = [def EXCEPT ![d].enabled = enabled, ![d].time = time, ![d].version = @ + 1,
                          ![d].next = NextScheduledAt(time, now)]
    /\ UNCHANGED <<now, occ, writer, loaded>>

(* A deleted definition keeps its row and its occurrences. *)
DeleteDefinition(d) ==
    /\ SomeoneWrites /\ def[d].exists /\ def[d].version < MaxVersion
    /\ def' = [def EXCEPT ![d].enabled = FALSE, ![d].version = @ + 1]
    /\ UNCHANGED <<now, occ, writer, loaded>>

Occurred(d, slot) == \E o \in occ : o.of = d /\ o.slot = slot

(* occurrence(): the one that exists for the slot, or a new one, with a    *)
(* snapshot of the definition and a run.                                   *)
WithOccurrence(d, slot) ==
    IF Occurred(d, slot) THEN occ
    ELSE occ \cup {[of |-> d, slot |-> slot, version |-> def[d].version, time |-> def[d].time]}

(* buildRun refuses a scope of which nothing has been imported. *)
MakesRun(d, slot) == writer[Creator[d]] /\ (Occurred(d, slot) \/ loaded[d])

(* Today's occurrence, by hand: whether or not it is due yet, and enabled. *)
TriggerDefinition(d) ==
    LET slot == ScheduledOnDate(def[d].time, Clock[now].date)
    IN  /\ SomeoneWrites /\ def[d].exists
        /\ slot # Never /\ MakesRun(d, slot)
        /\ occ' = WithOccurrence(d, slot)
        /\ UNCHANGED <<now, def, writer, loaded>>

-----------------------------------------------------------------------------
(* The tick *)

Due == {d \in Definitions : def[d].enabled /\ def[d].next <= now}
Permitted == {d \in Due : writer[Creator[d]]}

(* One due definition of which no run can be made fails the transaction.   *)
TickBlocked == \E d \in Permitted : ~MakesRun(d, def[d].next)

(* Mutant: what is due moves on without its occurrence. *)
TickSkips ==
    /\ ~TickBlocked
    /\ def' = [d \in Definitions |->
                 IF d \in Permitted
                 THEN [def[d] EXCEPT !.next = NextScheduledAt(def[d].time, now)]
                 ELSE def[d]]
    /\ UNCHANGED <<now, occ, writer, loaded>>

(* tick: an occurrence for each due definition, at the time it was due,    *)
(* however late this is; those whose creator may no longer write are       *)
(* switched off.  Dates that were missed altogether are not made up for.   *)
Tick ==
    /\ ~TickBlocked
    /\ occ' = occ \cup UNION {WithOccurrence(d, def[d].next) : d \in Permitted}
    /\ def' = [d \in Definitions |->
                 IF d \in Permitted
                 THEN [def[d] EXCEPT !.next = NextScheduledAt(def[d].time, now)]
                 ELSE IF d \in Due THEN [def[d] EXCEPT !.enabled = FALSE]
                 ELSE def[d]]
    /\ UNCHANGED <<now, writer, loaded>>

-----------------------------------------------------------------------------
(* The environment *)

Advance ==
    /\ now + 1 \in Minutes /\ now' = now + 1
    /\ UNCHANGED <<def, occ, writer, loaded>>

ChangeRole(m) ==
    /\ writer' = [writer EXCEPT ![m] = ~@]
    /\ UNCHANGED <<now, def, occ, loaded>>

(* An import brings the first snapshot of the scope; none is ever removed. *)
Import(d) ==
    /\ SomeoneWrites /\ ~loaded[d] /\ loaded' = [loaded EXCEPT ![d] = TRUE]
    /\ UNCHANGED <<now, def, occ, writer>>

(* What the panel and the API ask for; a member's tick is of the whole     *)
(* organisation, and one that fails fails only the request.                *)
MemberActs ==
    \/ SomeoneWrites /\ Tick
    \/ \E d \in Definitions :
          \/ \E t \in Times, e \in BOOLEAN : CreateDefinition(d, t, e) \/ UpdateDefinition(d, t, e)
          \/ DeleteDefinition(d)
          \/ TriggerDefinition(d)
          \/ Import(d)

-----------------------------------------------------------------------------
(* Properties *)

(* A definition occurs once per local date however it is triggered, ticked *)
(* late and edited; twice only where the clock goes back so far that the   *)
(* wall shows an earlier time again (nextScheduledAt asked in between then *)
(* finds the second showing, on the same date).                            *)
OncePerDate ==
    \A o, p \in occ :
        (o # p /\ o.of = p.of) =>
            /\ o.slot # p.slot
            /\ (o.slot < p.slot /\ o.time = p.time /\ Clock[o.slot].date = Clock[p.slot].date) =>
                   \E m \in o.slot .. p.slot : Clock[m].time < o.time

(* An occurrence happens at the time of the definition it has a snapshot   *)
(* of: an edit between two ticks never leaves a due time of the old one.   *)
SlotFitsSnapshot == \A o \in occ : Clock[o.slot].time = o.time

(* A slot promises a report once and of what is defined: OncePerDate and   *)
(* SlotFitsSnapshot together.                                              *)
SlotsHonest == OncePerDate /\ SlotFitsSnapshot

=============================================================================
