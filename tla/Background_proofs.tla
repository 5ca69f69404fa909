-------------------------- MODULE Background_proofs --------------------------
(***************************************************************************)
(* The schedule and the outbox around one worker loop, proved for any      *)
(* number of definitions, members, updates and workers, for every clock    *)
(* (dates that do not run backwards, local times that may) and any number  *)
(* of attempts and faults.                                                 *)
(***************************************************************************)
EXTENDS Background, FiniteSetTheorems, TLAPS

(* The minute m shows the time, and between it and an earlier minute of    *)
(* the same date that shows it too the wall shows an earlier time.         *)
Shows(m, time) ==
    /\ Clock[m].time = time
    /\ \A n \in Minutes :
          n < m /\ Clock[n] = Clock[m] => \E k \in n .. m : Clock[k].time < time

(* A definition that exists has a version, and what it is due for shows    *)
(* its time; one that does not exist is not due.                           *)
RowsFit ==
    \A d \in Definitions :
        /\ def[d].exists => def[d].version > 0
        /\ ~def[d].exists => ~def[d].enabled /\ def[d].version = 0
        /\ def[d].exists /\ def[d].next # Never => Shows(def[d].next, def[d].time)

SlotsShow == \A o \in occ : Shows(o.slot, o.time)

SlotsDiffer == \A o, p \in occ : o # p /\ o.of = p.of => o.slot # p.slot

SchedulingInv == SchedulingTypeOK /\ RowsFit /\ SlotsShow /\ SlotsDiffer

(* The workers whose dispatch may still reach the chat. *)
Sending(u) == {w \in Workers : /\ dispatch[w] # None /\ dispatch[w].of = u
                               /\ dispatch[w].step \in {"read", "send"}}

(* What the chat heard and may still hear was charged as attempts. *)
HeardCharged == \A u \in Updates : heard[u] + Cardinality(Sending(u)) <= row[u].attempts

(* A dispatch that is to say "sent" was heard. *)
SentHeard == \A w \in Workers : At(w, "sent") => heard[dispatch[w].of] > 0

DeliveryInv == DeliveryTypeOK /\ HeardCharged /\ SentHeard /\ OutboxHonest

IInv == TypeOK /\ SchedulingInv /\ DeliveryInv

-----------------------------------------------------------------------------
(* The calendar *)

(* The least of a set of minutes. *)
LEMMA Least ==
  ASSUME NEW n \in Nat, NEW S \in SUBSET (1 .. n), S # {}
  PROVE  Min(S) \in S /\ \A y \in S : Min(S) <= y
  <1>. DEFINE Upto == {1 .. m : m \in S}
  <1>1. IsWellFoundedOn(StrictSubsetOrdering(1 .. n), FiniteSubsetsOf(1 .. n))
    BY FS_StrictSubsetOrderingWellFounded
  <1>2. Upto \subseteq FiniteSubsetsOf(1 .. n) /\ Upto # {}
    <2>1. \A m \in S : 1 .. m \in SUBSET (1 .. n) /\ IsFiniteSet(1 .. m)
      BY FS_Interval
    <2>. QED
      BY <2>1 DEF FiniteSubsetsOf
  <1>3. PICK X \in Upto : \A Y \in Upto : ~ (<<Y, X>> \in StrictSubsetOrdering(1 .. n))
    BY <1>1, <1>2, WFMin, Zenon
  <1>4. PICK x \in S : X = 1 .. x
    OBVIOUS
  <1>5. \A y \in S : ~(y < x)
    <2>1. SUFFICES ASSUME NEW y \in S, y < x
                   PROVE  FALSE
      OBVIOUS
    <2>2. 1 .. y \in Upto /\ 1 .. y \subseteq X /\ 1 .. y # X
      BY <1>4, <2>1
    <2>3. X \in SUBSET (1 .. n) /\ 1 .. y \in SUBSET (1 .. n)
      BY <1>4
    <2>4. <<1 .. y, X>> \in StrictSubsetOrdering(1 .. n)
      BY <2>2, <2>3 DEF StrictSubsetOrdering
    <2>. QED
      BY <1>3, <2>2, <2>4
  <1>6. \A y \in S : x <= y
    BY <1>5
  <1>. QED
    BY <1>6 DEF Min

LEMMA Calendar ==
  /\ Cardinality(Minutes) \in Nat /\ Minutes = 1 .. Cardinality(Minutes)
  /\ Minutes \subseteq Int /\ Never \in Int /\ Never \notin Minutes
  /\ \A m \in Minutes : Clock[m].time \in Int /\ Clock[m].date \in Int
                        /\ Clock[m] = [date |-> Clock[m].date, time |-> Clock[m].time]
  /\ Times \subseteq Int
  /\ \A m, n \in Minutes : m <= n => Clock[m].date <= Clock[n].date
  <1>1. Cardinality(Minutes) \in Nat
    BY ClockAssumption, FS_CardinalityType
  <1>2. Minutes = 1 .. Cardinality(Minutes)
    BY ClockAssumption DEF Minutes
  <1>3. \A m \in Minutes : Clock[m] \in [date : Int, time : Int]
    BY <1>2, ClockAssumption
  <1>. QED
    BY <1>1, <1>2, <1>3, ClockAssumption DEF Never, Times

LEMMA FirstOfFinds ==
  ASSUME NEW S \in SUBSET Minutes
  PROVE  \/ FirstOf(S) = Never
         \/ FirstOf(S) \in S /\ \A y \in S : FirstOf(S) <= y
  <1>1. CASE S = {}
    BY <1>1 DEF FirstOf
  <1>2. CASE S # {}
    <2>1. FirstOf(S) = Min(S)
      BY <1>2 DEF FirstOf
    <2>2. Cardinality(Minutes) \in Nat /\ S \in SUBSET (1 .. Cardinality(Minutes))
      BY Calendar
    <2>3. Min(S) \in S /\ \A y \in S : Min(S) <= y
      BY <1>2, <2>2, Least
    <2>. QED
      BY <2>1, <2>3
  <1>. QED
    BY <1>1, <1>2

(* nextScheduledAt finds a minute that shows the time and never skips the  *)
(* first showing on a date unless the wall has since gone back behind it.  *)
LEMMA NextShows ==
  ASSUME NEW after \in Minutes, NEW time \in Int
  PROVE  \/ NextScheduledAt(time, after) = Never
         \/ /\ NextScheduledAt(time, after) \in Minutes
            /\ Shows(NextScheduledAt(time, after), time)
  <1>. DEFINE S == {m \in Minutes :
                       /\ m > after
                       /\ Clock[m].time = time
                       /\ Clock[after].time >= time => Clock[m].date > Clock[after].date}
              next == NextScheduledAt(time, after)
  <1>1. next = FirstOf(S)
    BY DEF NextScheduledAt
  <1>. HIDE DEF next
  <1>2. SUFFICES ASSUME next # Never
                 PROVE  next \in Minutes /\ Shows(next, time)
    BY DEF next
  <1>3. next \in S /\ \A y \in S : next <= y
    BY <1>1, <1>2, FirstOfFinds
  <1>4. ASSUME NEW n \in Minutes, n < next, Clock[n] = Clock[next]
        PROVE  \E k \in n .. next : Clock[k].time < time
    <2>1. n \notin S
      BY <1>3, <1>4, Calendar
    <2>2. Clock[n].time = time /\ Clock[n].date = Clock[next].date
      BY <1>3, <1>4
    <2>3. CASE n > after
      BY <1>3, <2>1, <2>2, <2>3, Calendar
    <2>4. CASE n <= after
      <3>1. Clock[n].date <= Clock[after].date /\ Clock[after].date <= Clock[next].date
        BY <1>3, <2>4, Calendar
      <3>2. Clock[after].time < time
        <4>1. /\ Clock[after].time \in Int /\ Clock[after].date \in Int
              /\ Clock[next].date \in Int
          BY <1>3, Calendar
        <4>2. Clock[after].time >= time => Clock[next].date > Clock[after].date
          BY <1>3
        <4>. QED
          BY <2>2, <3>1, <4>1, <4>2
      <3>. QED
        BY <1>3, <2>4, <3>2, Calendar
    <2>. QED
      BY <2>3, <2>4, Calendar
  <1>. QED
    BY <1>3, <1>4 DEF Shows

(* scheduledOnDate finds the first showing. *)
LEMMA OnDateShows ==
  ASSUME NEW date \in Int, NEW time \in Int
  PROVE  \/ ScheduledOnDate(time, date) = Never
         \/ /\ ScheduledOnDate(time, date) \in Minutes
            /\ Shows(ScheduledOnDate(time, date), time)
  <1>. DEFINE S == {m \in Minutes : Clock[m] = [date |-> date, time |-> time]}
              slot == ScheduledOnDate(time, date)
  <1>1. slot = FirstOf(S)
    BY DEF ScheduledOnDate
  <1>. HIDE DEF slot
  <1>2. SUFFICES ASSUME slot # Never
                 PROVE  slot \in Minutes /\ Shows(slot, time)
    BY DEF slot
  <1>3. slot \in S /\ \A y \in S : slot <= y
    BY <1>1, <1>2, FirstOfFinds
  <1>4. \A n \in Minutes : n < slot => Clock[n] # Clock[slot]
    BY <1>3, Calendar
  <1>. QED
    BY <1>3, <1>4 DEF Shows

-----------------------------------------------------------------------------
(* What happens to a definition *)

Edits(d) ==
    /\ def[d].exists /\ def'[d].exists
    /\ def'[d].version = def[d].version + 1 /\ def[d].version < MaxVersion
    /\ def'[d].enabled \in BOOLEAN
    /\ \/ def'[d].time = def[d].time /\ def'[d].next = def[d].next
       \/ def'[d].time \in Times /\ def'[d].next = NextScheduledAt(def'[d].time, now)

Creates(d) ==
    /\ ~def[d].exists /\ def'[d].exists
    /\ def'[d].version = 1 /\ def'[d].enabled \in BOOLEAN
    /\ def'[d].time \in Times /\ def'[d].next = NextScheduledAt(def'[d].time, now)

(* By the tick it moves on, with its occurrence, or it is switched off. *)
Ticks(d) ==
    /\ def'[d].exists = def[d].exists /\ def'[d].version = def[d].version
    /\ def'[d].time = def[d].time
    /\ \/ /\ d \in Permitted /\ def'[d].enabled = def[d].enabled
          /\ def'[d].next = NextScheduledAt(def[d].time, now)
          /\ \E o \in occ' : o.of = d /\ o.slot = def[d].next
       \/ def'[d].enabled = FALSE /\ def'[d].next = def[d].next

SchedulingMoves == Tick \/ MemberActs \/ (\E m \in Members : ChangeRole(m)) \/ Advance

(* What an operation of a member leaves alone. *)
LEMMA MembersKeep ==
  /\ \A d \in Definitions, t \in Times, e \in BOOLEAN :
        CreateDefinition(d, t, e) \/ UpdateDefinition(d, t, e) =>
           UNCHANGED <<now, occ, writer, loaded>>
  /\ \A d \in Definitions : /\ DeleteDefinition(d) => UNCHANGED <<now, occ, writer, loaded>>
                            /\ TriggerDefinition(d) => UNCHANGED <<now, def, writer, loaded>>
                            /\ Import(d) => UNCHANGED <<now, def, occ, writer>>
  /\ Tick => UNCHANGED <<now, writer, loaded>>
  <1>1. ASSUME NEW d \in Definitions, NEW t \in Times, NEW e \in BOOLEAN, CreateDefinition(d, t, e)
        PROVE  UNCHANGED <<now, occ, writer, loaded>>
    BY <1>1, Zenon DEF CreateDefinition
  <1>2. ASSUME NEW d \in Definitions, NEW t \in Times, NEW e \in BOOLEAN, UpdateDefinition(d, t, e)
        PROVE  UNCHANGED <<now, occ, writer, loaded>>
    BY <1>2, Zenon DEF UpdateDefinition
  <1>3. ASSUME NEW d \in Definitions, DeleteDefinition(d)
        PROVE  UNCHANGED <<now, occ, writer, loaded>>
    BY <1>3, Zenon DEF DeleteDefinition
  <1>4. \A d \in Definitions : /\ TriggerDefinition(d) => UNCHANGED <<now, def, writer, loaded>>
                               /\ Import(d) => UNCHANGED <<now, def, occ, writer>>
    BY DEF TriggerDefinition, Import
  <1>5. Tick => UNCHANGED <<now, writer, loaded>>
    BY DEF Tick
  <1>. QED
    BY <1>1, <1>2, <1>3, <1>4, <1>5

LEMMA TickOccurs ==
  ASSUME NEW d \in Permitted, Tick
  PROVE  \E o \in occ' : o.of = d /\ o.slot = def[d].next
  <1>1. \E o \in WithOccurrence(d, def[d].next) : o.of = d /\ o.slot = def[d].next
    <2>1. CASE Occurred(d, def[d].next)
      BY <2>1 DEF WithOccurrence, Occurred
    <2>2. CASE ~Occurred(d, def[d].next)
      <3>. DEFINE o == [of |-> d, slot |-> def[d].next, version |-> def[d].version,
                        time |-> def[d].time]
      <3>1. o \in WithOccurrence(d, def[d].next)
        BY <2>2 DEF WithOccurrence
      <3>. QED
        BY <3>1
    <2>. QED
      BY <2>1, <2>2
  <1>2. WithOccurrence(d, def[d].next) \subseteq occ'
    BY DEF Tick
  <1>. QED
    BY <1>1, <1>2

LEMMA RowsMove ==
  ASSUME SchedulingTypeOK, [SchedulingMoves]_schedulingVars, NEW d \in Definitions
  PROVE  def'[d] = def[d] \/ Edits(d) \/ Creates(d) \/ Ticks(d)
  <1>0. def \in [Definitions -> Row] /\ def[d] \in Row
    BY DEF SchedulingTypeOK
  <1>1. CASE def' = def
    BY <1>1
  <1>2. ASSUME NEW c \in Definitions, NEW t \in Times, NEW e \in BOOLEAN, CreateDefinition(c, t, e)
        PROVE  def'[d] = def[d] \/ Creates(d)
    <2>1. CASE c = d
      <3>1. def'[d] = [exists |-> TRUE, enabled |-> e, version |-> 1, time |-> t,
                       next |-> NextScheduledAt(t, now)]
        BY <1>0, <1>2, <2>1 DEF CreateDefinition
      <3>. QED
        BY <1>2, <2>1, <3>1 DEF CreateDefinition, Creates
    <2>2. CASE c # d
      BY <1>0, <1>2, <2>2 DEF CreateDefinition
    <2>. QED
      BY <2>1, <2>2
  <1>3. ASSUME NEW c \in Definitions, NEW t \in Times, NEW e \in BOOLEAN, UpdateDefinition(c, t, e)
        PROVE  def'[d] = def[d] \/ Edits(d)
    <2>1. CASE c = d
      BY <1>0, <1>3, <2>1 DEF UpdateDefinition, Edits, Row
    <2>2. CASE c # d
      BY <1>0, <1>3, <2>2 DEF UpdateDefinition
    <2>. QED
      BY <2>1, <2>2
  <1>4. ASSUME NEW c \in Definitions, DeleteDefinition(c)
        PROVE  def'[d] = def[d] \/ Edits(d)
    <2>1. CASE c = d
      BY <1>0, <1>4, <2>1 DEF DeleteDefinition, Edits, Row
    <2>2. CASE c # d
      BY <1>0, <1>4, <2>2 DEF DeleteDefinition
    <2>. QED
      BY <2>1, <2>2
  <1>5. CASE Tick
    <2>1. CASE d \in Permitted
      <3>1. def'[d] = [def[d] EXCEPT !.next = NextScheduledAt(def[d].time, now)]
        BY <1>5, <2>1 DEF Tick
      <3>. QED
        BY <1>0, <1>5, <2>1, <3>1, TickOccurs DEF Ticks, Row
    <2>2. CASE d \notin Permitted
      <3>1. def'[d] = IF d \in Due THEN [def[d] EXCEPT !.enabled = FALSE] ELSE def[d]
        BY <1>5, <2>2 DEF Tick
      <3>. QED
        BY <1>0, <3>1 DEF Ticks, Row
    <2>. QED
      BY <2>1, <2>2
  <1>6. SchedulingMoves \/ UNCHANGED schedulingVars =>
           \/ def' = def \/ Tick
           \/ \E c \in Definitions : \/ DeleteDefinition(c)
                                     \/ \E t \in Times, e \in BOOLEAN :
                                           CreateDefinition(c, t, e) \/ UpdateDefinition(c, t, e)
    BY DEF SchedulingMoves, MemberActs, TriggerDefinition, Import, ChangeRole, Advance,
           schedulingVars
  <1>. QED
    BY <1>1, <1>2, <1>3, <1>4, <1>5, <1>6

-----------------------------------------------------------------------------
(* What happens to the occurrences *)

(* A new occurrence, of a definition as it is, at a slot that had none. *)
Occurs(o) ==
    /\ o.of \in Definitions /\ o.slot \in Minutes /\ ~Occurred(o.of, o.slot)
    /\ o.version = def[o.of].version /\ o.time = def[o.of].time
    /\ o = [of |-> o.of, slot |-> o.slot, version |-> o.version, time |-> o.time]
    /\ def[o.of].exists /\ Shows(o.slot, o.time)

LEMMA DueShows ==
  ASSUME SchedulingTypeOK, RowsFit, NEW d \in Permitted
  PROVE  /\ d \in Definitions /\ def[d].exists /\ def[d].next \in Minutes
         /\ Shows(def[d].next, def[d].time)
  <1>1. d \in Definitions /\ def[d].enabled /\ def[d].next <= now
    BY DEF Permitted, Due
  <1>2. def[d].exists
    BY <1>1 DEF RowsFit
  <1>3. def[d].next # Never
    <2>1. now <= Cardinality(Minutes)
      BY Calendar DEF SchedulingTypeOK
    <2>. QED
      BY <1>1, <2>1, Calendar DEF Never, SchedulingTypeOK
  <1>. QED
    BY <1>1, <1>2, <1>3 DEF RowsFit, SchedulingTypeOK, Row

LEMMA AddsOne ==
  ASSUME NEW d \in Definitions, NEW slot \in Minutes, def[d].exists, Shows(slot, def[d].time),
         NEW o \in WithOccurrence(d, slot), o \notin occ
  PROVE  Occurs(o) /\ o.of = d
  BY DEF WithOccurrence, Occurs

LEMMA OccurrencesMove ==
  ASSUME SchedulingInv, [SchedulingMoves]_schedulingVars
  PROVE  /\ occ \subseteq occ'
         /\ \A o \in occ' : o \in occ \/ Occurs(o)
         /\ \A o, p \in occ' : o \notin occ /\ p \notin occ /\ o.of = p.of => o = p
  <1>1. CASE occ' = occ
    BY <1>1
  <1>2. CASE Tick
    <2>1. occ' = occ \cup UNION {WithOccurrence(d, def[d].next) : d \in Permitted}
      BY <1>2 DEF Tick
    <2>2. \A o \in occ' : o \notin occ =>
             \E d \in Permitted : o \in WithOccurrence(d, def[d].next)
      BY <2>1
    <2>3. \A d \in Permitted : \A o \in WithOccurrence(d, def[d].next) :
             o \notin occ => /\ Occurs(o) /\ o.of = d
                             /\ o = [of |-> d, slot |-> def[d].next, version |-> def[d].version,
                                     time |-> def[d].time]
      <3>1. SUFFICES ASSUME NEW d \in Permitted, NEW o \in WithOccurrence(d, def[d].next), o \notin occ
                     PROVE  /\ Occurs(o) /\ o.of = d
                            /\ o = [of |-> d, slot |-> def[d].next, version |-> def[d].version,
                                    time |-> def[d].time]
        OBVIOUS
      <3>2. Occurs(o) /\ o.of = d
        BY <3>1, AddsOne, DueShows DEF SchedulingInv
      <3>. QED
        BY <3>1, <3>2 DEF WithOccurrence
    <2>. QED
      BY <2>1, <2>2, <2>3
  <1>3. ASSUME NEW d \in Definitions, TriggerDefinition(d)
        PROVE  /\ occ \subseteq occ'
               /\ \A o \in occ' : o \in occ \/ Occurs(o)
               /\ \A o, p \in occ' : o \notin occ /\ p \notin occ /\ o.of = p.of => o = p
    <2>. DEFINE slot == ScheduledOnDate(def[d].time, Clock[now].date)
    <2>1. def[d].exists /\ slot # Never /\ occ' = WithOccurrence(d, slot)
      BY <1>3 DEF TriggerDefinition
    <2>2. slot \in Minutes /\ Shows(slot, def[d].time)
      BY <2>1, Calendar, OnDateShows DEF SchedulingInv, SchedulingTypeOK, Row
    <2>. HIDE DEF slot
    <2>3. \A o \in occ' : o \in occ \/ Occurs(o)
      BY <2>1, <2>2, AddsOne
    <2>. QED
      BY <2>1, <2>3 DEF WithOccurrence
  <1>4. SchedulingMoves \/ UNCHANGED schedulingVars =>
           occ' = occ \/ Tick \/ \E d \in Definitions : TriggerDefinition(d)
    BY MembersKeep DEF SchedulingMoves, MemberActs, ChangeRole, Advance, schedulingVars
  <1>5. occ' = occ \/ Tick \/ \E d \in Definitions : TriggerDefinition(d)
    BY <1>4
  <1>. QED
    BY <1>1, <1>2, <1>3, <1>5

LEMMA RowsTyped ==
  ASSUME SchedulingTypeOK, [SchedulingMoves]_schedulingVars,
         \A time \in Times : NextScheduledAt(time, now) \in Minutes \cup {Never}
  PROVE  def' \in [Definitions -> Row]
  <1>0. def \in [Definitions -> Row] /\ MaxVersion \in Nat \ {0}
    BY ClockAssumption DEF SchedulingTypeOK
  <1>1. CASE def' = def
    BY <1>0, <1>1
  <1>2. ASSUME NEW c \in Definitions, NEW t \in Times, NEW e \in BOOLEAN, CreateDefinition(c, t, e)
        PROVE  def' \in [Definitions -> Row]
    BY <1>0, <1>2 DEF CreateDefinition, Row
  <1>3. ASSUME NEW c \in Definitions, NEW t \in Times, NEW e \in BOOLEAN, UpdateDefinition(c, t, e)
        PROVE  def' \in [Definitions -> Row]
    BY <1>0, <1>3 DEF UpdateDefinition, Row
  <1>4. ASSUME NEW c \in Definitions, DeleteDefinition(c)
        PROVE  def' \in [Definitions -> Row]
    BY <1>0, <1>4 DEF DeleteDefinition, Row
  <1>5. CASE Tick
    <2>1. \A d \in Definitions : /\ [def[d] EXCEPT !.enabled = FALSE] \in Row
                                  /\ [def[d] EXCEPT !.next = NextScheduledAt(def[d].time, now)] \in Row
      BY <1>0 DEF Row
    <2>. QED
      BY <1>0, <1>5, <2>1 DEF Tick
  <1>6. SchedulingMoves \/ UNCHANGED schedulingVars =>
           \/ def' = def \/ Tick
           \/ \E c \in Definitions : \/ DeleteDefinition(c)
                                     \/ \E t \in Times, e \in BOOLEAN :
                                           CreateDefinition(c, t, e) \/ UpdateDefinition(c, t, e)
    BY DEF SchedulingMoves, MemberActs, TriggerDefinition, Import, ChangeRole, Advance,
           schedulingVars
  <1>. QED
    BY <1>1, <1>2, <1>3, <1>4, <1>5, <1>6

LEMMA SchedulingStep ==
  ASSUME SchedulingInv, [SchedulingMoves]_schedulingVars
  PROVE  SchedulingInv'
  <1>. USE DEF SchedulingInv
  <1>0. now \in Minutes /\ \A d \in Definitions : def[d] \in Row
    BY DEF SchedulingTypeOK
  <1>1. \A time \in Times :
           \/ NextScheduledAt(time, now) = Never
           \/ NextScheduledAt(time, now) \in Minutes /\ Shows(NextScheduledAt(time, now), time)
    BY <1>0, Calendar, NextShows
  <1>2. ASSUME NEW d \in Definitions
        PROVE  /\ def'[d].exists \in BOOLEAN /\ def'[d].enabled \in BOOLEAN
               /\ def'[d].version \in 0 .. MaxVersion /\ def'[d].time \in Times
               /\ def'[d].next \in Minutes \cup {Never}
               /\ def'[d].exists => def'[d].version > 0
               /\ ~def'[d].exists => ~def'[d].enabled /\ def'[d].version = 0
               /\ def'[d].exists /\ def'[d].next # Never => Shows(def'[d].next, def'[d].time)
    <2>0. /\ def[d].exists \in BOOLEAN /\ def[d].enabled \in BOOLEAN
          /\ def[d].version \in 0 .. MaxVersion /\ def[d].time \in Times
          /\ def[d].next \in Minutes \cup {Never}
      BY <1>0 DEF Row
    <2>1. CASE def'[d] = def[d]
      BY <2>0, <2>1 DEF RowsFit
    <2>2. CASE Edits(d)
      BY <1>1, <2>0, <2>2, ClockAssumption DEF RowsFit, Edits
    <2>3. CASE Creates(d)
      BY <1>1, <2>0, <2>3, ClockAssumption DEF RowsFit, Creates
    <2>4. CASE Ticks(d)
      <3>1. d \in Permitted => def[d].exists
        BY DueShows
      <3>. QED
        BY <1>1, <2>0, <2>4, <3>1 DEF RowsFit, Ticks
    <2>. QED
      BY <2>1, <2>2, <2>3, <2>4, RowsMove
  <1>3. RowsFit'
    BY <1>2 DEF RowsFit, Shows
  <1>4. occ' \subseteq Occurrence
    <2>1. ASSUME NEW o, Occurs(o)
          PROVE  o \in Occurrence
      <3>1. def[o.of].version \in 1 .. MaxVersion /\ def[o.of].time \in Times
        BY <1>0, <2>1 DEF Occurs, RowsFit, Row
      <3>. QED
        BY <2>1, <3>1 DEF Occurs, Occurrence
    <2>. QED
      BY <2>1, OccurrencesMove DEF SchedulingTypeOK
  <1>5. SlotsShow'
    <2>1. \A o \in occ' : Shows(o.slot, o.time)
      BY OccurrencesMove DEF SlotsShow, Occurs
    <2>. QED
      BY <2>1 DEF SlotsShow, Shows
  <1>6. SlotsDiffer'
    <2>1. ASSUME NEW o \in occ', NEW p \in occ', o # p, o.of = p.of
          PROVE  o.slot # p.slot
      <3>1. CASE o \in occ /\ p \in occ
        BY <2>1, <3>1 DEF SlotsDiffer
      <3>2. CASE o \notin occ
        BY <2>1, <3>2, OccurrencesMove DEF Occurs, Occurred
      <3>3. CASE p \notin occ
        BY <2>1, <3>3, OccurrencesMove DEF Occurs, Occurred
      <3>. QED
        BY <3>1, <3>2, <3>3
    <2>. QED
      BY <2>1 DEF SlotsDiffer
  <1>7. def' \in [Definitions -> Row]
    BY <1>1, RowsTyped
  <1>8. /\ now' \in Minutes /\ writer' \in [Members -> BOOLEAN]
        /\ loaded' \in [Definitions -> BOOLEAN]
    <2>1. CASE UNCHANGED <<now, writer, loaded>>
      BY <2>1 DEF SchedulingTypeOK
    <2>2. ASSUME NEW m \in Members, ChangeRole(m)
          PROVE  /\ now' \in Minutes /\ writer' \in [Members -> BOOLEAN]
                 /\ loaded' \in [Definitions -> BOOLEAN]
      BY <2>2 DEF ChangeRole, SchedulingTypeOK
    <2>3. CASE Advance
      BY <2>3 DEF Advance, SchedulingTypeOK
    <2>4. ASSUME NEW d \in Definitions, Import(d)
          PROVE  /\ now' \in Minutes /\ writer' \in [Members -> BOOLEAN]
                 /\ loaded' \in [Definitions -> BOOLEAN]
      BY <2>4 DEF Import, SchedulingTypeOK
    <2>5. Tick => UNCHANGED <<now, writer, loaded>>
      BY MembersKeep
    <2>6. MemberActs => UNCHANGED <<now, writer, loaded>> \/ \E d \in Definitions : Import(d)
      BY MembersKeep DEF MemberActs
    <2>7. UNCHANGED schedulingVars => UNCHANGED <<now, writer, loaded>>
      BY DEF schedulingVars
    <2>8. \/ UNCHANGED <<now, writer, loaded>> \/ Advance
          \/ (\E m \in Members : ChangeRole(m)) \/ \E d \in Definitions : Import(d)
      BY <2>5, <2>6, <2>7 DEF SchedulingMoves
    <2>. QED
      BY <2>1, <2>2, <2>3, <2>4, <2>8
  <1>. QED
    BY <1>3, <1>4, <1>5, <1>6, <1>7, <1>8 DEF SchedulingTypeOK

(* A definition moves past a slot it was due for only with its occurrence. *)
LEMMA SlotStep ==
  ASSUME SchedulingInv, [SchedulingMoves]_schedulingVars, NEW d \in Due,
         def'[d].version = def[d].version, def'[d].next # def[d].next
  PROVE  \E o \in occ' : o.of = d /\ o.slot = def[d].next
  <1>1. d \in Definitions /\ def[d].exists /\ def[d].version \in Nat
    BY DEF Due, SchedulingInv, RowsFit, SchedulingTypeOK, Row
  <1>2. def'[d] # def[d] /\ ~Edits(d) /\ ~Creates(d)
    BY <1>1 DEF Edits, Creates
  <1>3. Ticks(d)
    BY <1>1, <1>2, RowsMove DEF SchedulingInv
  <1>. QED
    BY <1>3 DEF Ticks

-----------------------------------------------------------------------------
(* What happens to a delivery *)

DeliveryMoves ==
    \/ ChannelActs
    \/ TakeTurn /\ UNCHANGED <<hook, row, dispatch, heard, faults>>
    \/ \E w \in Workers :
          \/ \E u \in Updates : ClaimDelivery(w, u)
          \/ ReadAnswer(w) \/ SendMessage(w) \/ FinishSent(w) \/ FinishFailed(w)
          \/ DispatchThrows(w)
          \/ /\ Fault /\ dispatch' = [dispatch EXCEPT ![w] = None]
             /\ UNCHANGED <<hook, answer, row, heard>>

(* The row of u, its attempts and its end. *)
Same(u) == row'[u].status = row[u].status /\ row'[u].attempts = row[u].attempts
Queued(u) == row'[u].status \in {"pending", "none"} /\ row'[u].attempts = row[u].attempts
Charged(u) == row'[u].status = "sending" /\ row'[u].attempts = row[u].attempts + 1
Ended(u) ==
    /\ row'[u].attempts = row[u].attempts
    /\ \E w \in Workers :
          /\ dispatch[w] # None /\ dispatch[w].of = u /\ Leased(w)
          /\ row'[u].status = "sent" => At(w, "sent")
          /\ row'[u].status = "failed" => dispatch[w].attempt >= MaxAttempts

LEMMA FinishedRow ==
  ASSUME DeliveryTypeOK, NEW w \in Workers, NEW sent \in BOOLEAN, dispatch[w] # None, Leased(w),
         sent => At(w, "sent"), row' = Finished(w, sent)
  PROVE  /\ row' \in [Updates -> Delivery]
         /\ \A u \in Updates : IF u = dispatch[w].of THEN Ended(u) ELSE Same(u)
  <1>. DEFINE d == dispatch[w]
  <1>1. d \in Dispatch /\ d.of \in Updates /\ d.attempt \in 1 .. MaxAttempts
    BY DEF DeliveryTypeOK, Dispatch
  <1>2. row \in [Updates -> Delivery] /\ row[d.of] \in Delivery
    BY <1>1, SMTT(30) DEF DeliveryTypeOK
  <1>3. row' \in [Updates -> Delivery]
    BY <1>1, <1>2, SMTT(30) DEF Finished, Delivery, Settled
  <1>4. /\ row'[d.of].attempts = row[d.of].attempts
        /\ row'[d.of].status = IF sent THEN "sent"
                               ELSE IF d.attempt >= MaxAttempts THEN "failed" ELSE "pending"
    BY <1>1, <1>2 DEF Finished, Delivery
  <1>5. \A u \in Updates : u # d.of => row'[u] = row[u]
    BY <1>1, <1>2 DEF Finished
  <1>6. Ended(d.of)
    BY <1>4 DEF Ended
  <1>. QED
    BY <1>3, <1>5, <1>6 DEF Same

LEMMA DeliveriesMove ==
  ASSUME DeliveryTypeOK, [DeliveryMoves]_deliveryVars
  PROVE  /\ row' \in [Updates -> Delivery]
         /\ \A u \in Updates : Same(u) \/ Queued(u) \/ Charged(u) \/ Ended(u)
  <1>0. row \in [Updates -> Delivery]
    BY DEF DeliveryTypeOK
  <1>1. CASE row' = row
    BY <1>0, <1>1 DEF Same
  <1>2. ASSUME NEW u \in Updates, EnqueueDelivery(u)
        PROVE  /\ row' \in [Updates -> Delivery]
               /\ \A v \in Updates : Same(v) \/ Queued(v)
    <2>1. row'[u] = IF row[u].status = "none"
                    THEN [row[u] EXCEPT !.status = "pending", !.due = TRUE] ELSE row[u]
      BY <1>0, <1>2 DEF EnqueueDelivery
    <2>2. row' = [row EXCEPT ![u] = row'[u]]
      BY <1>0, <1>2, <2>1 DEF EnqueueDelivery
    <2>3. row'[u] \in Delivery /\ (Same(u) \/ Queued(u))
      BY <1>0, <2>1 DEF Delivery, Same, Queued
    <2>. QED
      BY <1>0, <2>2, <2>3 DEF Same
  <1>3. ASSUME NEW u \in Updates, Lapse(u) \/ ComesDue(u)
        PROVE  /\ row' \in [Updates -> Delivery]
               /\ \A v \in Updates : Same(v)
    <2>1. PICK r \in Delivery : /\ row' = [row EXCEPT ![u] = r]
                                /\ r.status = row[u].status /\ r.attempts = row[u].attempts
      <3>1. /\ [row[u] EXCEPT !.live = FALSE] \in Delivery
            /\ [row[u] EXCEPT !.live = FALSE].status = row[u].status
            /\ [row[u] EXCEPT !.live = FALSE].attempts = row[u].attempts
        BY <1>0 DEF Delivery
      <3>2. /\ [row[u] EXCEPT !.due = TRUE] \in Delivery
            /\ [row[u] EXCEPT !.due = TRUE].status = row[u].status
            /\ [row[u] EXCEPT !.due = TRUE].attempts = row[u].attempts
        BY <1>0 DEF Delivery
      <3>3. \/ row' = [row EXCEPT ![u] = [row[u] EXCEPT !.live = FALSE]]
            \/ row' = [row EXCEPT ![u] = [row[u] EXCEPT !.due = TRUE]]
        BY <1>0, <1>3 DEF Lapse, ComesDue
      <3>. QED
        BY <3>1, <3>2, <3>3
    <2>. QED
      BY <1>0, <2>1 DEF Same
  <1>4. ASSUME NEW w \in Workers, NEW u \in Updates, ClaimDelivery(w, u)
        PROVE  /\ row' \in [Updates -> Delivery]
               /\ \A v \in Updates : Same(v) \/ Charged(v)
    <2>1. row[u].attempts \in 0 .. MaxAttempts /\ row[u].attempts < MaxAttempts
      BY <1>0, <1>4 DEF ClaimDelivery, Claimable, Delivery
    <2>2. row' \in [Updates -> Delivery]
      BY <1>0, <1>4, <2>1, DeliveryAssumption DEF ClaimDelivery, Delivery
    <2>3. row'[u].status = "sending" /\ row'[u].attempts = row[u].attempts + 1
      BY <1>0, <1>4 DEF ClaimDelivery, Delivery
    <2>4. \A v \in Updates : v # u => row'[v] = row[v]
      BY <1>0, <1>4 DEF ClaimDelivery
    <2>. QED
      BY <2>2, <2>3, <2>4 DEF Same, Charged
  <1>5. ASSUME NEW w \in Workers, NEW sent \in BOOLEAN, dispatch[w] # None, Leased(w),
               sent => At(w, "sent"), row' = Finished(w, sent)
        PROVE  /\ row' \in [Updates -> Delivery]
               /\ \A u \in Updates : Same(u) \/ Ended(u)
    BY <1>5, FinishedRow
  <1>6. DeliveryMoves \/ UNCHANGED deliveryVars =>
           \/ row' = row
           \/ \E u \in Updates : EnqueueDelivery(u) \/ Lapse(u) \/ ComesDue(u)
           \/ \E w \in Workers, u \in Updates : ClaimDelivery(w, u)
           \/ \E w \in Workers, sent \in BOOLEAN :
                 dispatch[w] # None /\ Leased(w) /\ (sent => At(w, "sent")) /\ row' = Finished(w, sent)
    BY DEF DeliveryMoves, ChannelActs, SubmitTurn, Redeliver, ReadAnswer, SendMessage, FinishSent,
           FinishFailed, DispatchThrows, At, deliveryVars
  <1>. QED
    BY <1>1, <1>2, <1>3, <1>4, <1>5, <1>6

-----------------------------------------------------------------------------
(* What the chat hears *)

(* For the delivery of u nothing is sent, an attempt is charged, or the    *)
(* dispatch of one of its workers is no longer about to send.              *)
Quiet(u) == Sending(u)' \subseteq Sending(u) /\ heard'[u] = heard[u]
Begun(u) == /\ Charged(u) /\ heard'[u] = heard[u]
            /\ \E w \in Workers : Sending(u)' \subseteq Sending(u) \cup {w}
Heard(u) == /\ heard'[u] \in {heard[u], heard[u] + 1}
            /\ \E w \in Sending(u) : Sending(u)' \subseteq Sending(u) \ {w}

LEMMA GotoMoves ==
  ASSUME DeliveryTypeOK, NEW w \in Workers, dispatch[w] # None,
         NEW step \in {"read", "send", "sent", "failed"}, Goto(w, step)
  PROVE  /\ dispatch' \in [Workers -> Dispatch \cup {None}]
         /\ dispatch'[w].of = dispatch[w].of /\ dispatch'[w].step = step
         /\ dispatch[w].of \in Updates /\ heard[dispatch[w].of] \in Nat
         /\ \A v \in Workers : v # w => dispatch'[v] = dispatch[v]
  <1>1. dispatch \in [Workers -> Dispatch \cup {None}] /\ dispatch[w] \in Dispatch
    BY DEF DeliveryTypeOK
  <1>2. dispatch' = [dispatch EXCEPT ![w] = [dispatch[w] EXCEPT !.step = step]]
    BY <1>1 DEF Goto
  <1>3. [dispatch[w] EXCEPT !.step = step] \in Dispatch
    BY <1>1 DEF Dispatch
  <1>. QED
    BY <1>1, <1>2, <1>3 DEF Dispatch, DeliveryTypeOK

LEMMA LeavesMoves ==
  ASSUME DeliveryTypeOK, NEW w \in Workers, dispatch' = [dispatch EXCEPT ![w] = None]
  PROVE  /\ dispatch' \in [Workers -> Dispatch \cup {None}]
         /\ dispatch'[w] = None
         /\ \A v \in Workers : v # w => dispatch'[v] = dispatch[v]
  BY DEF DeliveryTypeOK

LEMMA DispatchesMove ==
  ASSUME DeliveryTypeOK, SentHeard, [DeliveryMoves]_deliveryVars
  PROVE  /\ dispatch' \in [Workers -> Dispatch \cup {None}]
         /\ heard' \in [Updates -> Nat]
         /\ SentHeard'
         /\ \A u \in Updates : Quiet(u) \/ Begun(u) \/ Heard(u)
  <1>0. /\ dispatch \in [Workers -> Dispatch \cup {None}] /\ heard \in [Updates -> Nat]
        /\ \A w \in Workers : dispatch[w] # None => dispatch[w].of \in Updates
    BY DEF DeliveryTypeOK, Dispatch
  <1>1. CASE dispatch' = dispatch /\ heard' = heard
    BY <1>0, <1>1 DEF SentHeard, At, Quiet, Sending
  <1>2. ASSUME NEW w \in Workers, NEW u \in Updates, ClaimDelivery(w, u)
        PROVE  /\ dispatch' \in [Workers -> Dispatch \cup {None}]
               /\ heard' = heard
               /\ SentHeard'
               /\ \A v \in Updates : Quiet(v) \/ Begun(v)
    <2>. DEFINE new == [of |-> u, attempt |-> row[u].attempts + 1, step |-> "read"]
    <2>1. row[u].attempts \in 0 .. MaxAttempts /\ row[u].attempts < MaxAttempts
      BY <1>2 DEF ClaimDelivery, Claimable, Delivery, DeliveryTypeOK
    <2>2. new \in Dispatch /\ new.step = "read" /\ new.of = u
      BY <2>1, DeliveryAssumption DEF Dispatch
    <2>3. heard' = heard /\ dispatch' = [dispatch EXCEPT ![w] = new]
      BY <1>2 DEF ClaimDelivery
    <2>. HIDE DEF new
    <2>4. /\ dispatch'[w] = new
          /\ \A v \in Workers : v # w => dispatch'[v] = dispatch[v]
      BY <1>0, <2>3
    <2>5. SentHeard'
      BY <2>2, <2>3, <2>4 DEF SentHeard, At
    <2>6. \A v \in Updates : v # u => Quiet(v)
      BY <2>2, <2>3, <2>4 DEF Quiet, Sending
    <2>7. Begun(u)
      <3>1. Charged(u)
        BY <1>2 DEF ClaimDelivery, Charged, DeliveryTypeOK, Delivery
      <3>2. Sending(u)' \subseteq Sending(u) \cup {w}
        BY <2>4 DEF Sending
      <3>. QED
        BY <2>3, <3>1, <3>2 DEF Begun
    <2>. QED
      BY <1>0, <2>2, <2>3, <2>5, <2>6, <2>7
  <1>3. ASSUME NEW w \in Workers, dispatch[w] # None, heard' = heard,
               NEW step \in {"send", "failed"}, Goto(w, step), ~(step = "send" /\ ~At(w, "read"))
        PROVE  /\ dispatch' \in [Workers -> Dispatch \cup {None}]
               /\ SentHeard'
               /\ \A v \in Updates : Quiet(v)
    <2>1. /\ dispatch' \in [Workers -> Dispatch \cup {None}]
          /\ dispatch'[w].of = dispatch[w].of /\ dispatch'[w].step = step
          /\ \A v \in Workers : v # w => dispatch'[v] = dispatch[v]
      BY <1>3, GotoMoves
    <2>2. SentHeard'
      BY <1>3, <2>1 DEF SentHeard, At
    <2>3. \A v \in Updates : Quiet(v)
      BY <1>3, <2>1 DEF Quiet, Sending, At
    <2>. QED
      BY <2>1, <2>2, <2>3
  <1>4. ASSUME NEW w \in Workers, heard' = heard, dispatch' = [dispatch EXCEPT ![w] = None]
        PROVE  /\ dispatch' \in [Workers -> Dispatch \cup {None}]
               /\ SentHeard'
               /\ \A v \in Updates : Quiet(v)
    <2>1. /\ dispatch' \in [Workers -> Dispatch \cup {None}] /\ dispatch'[w] = None
          /\ \A v \in Workers : v # w => dispatch'[v] = dispatch[v]
      BY <1>4, LeavesMoves
    <2>2. SentHeard'
      BY <1>4, <2>1 DEF SentHeard, At
    <2>3. \A v \in Updates : Quiet(v)
      BY <1>4, <2>1 DEF Quiet, Sending
    <2>. QED
      BY <2>1, <2>2, <2>3
  <1>5. ASSUME NEW w \in Workers, SendMessage(w)
        PROVE  /\ dispatch' \in [Workers -> Dispatch \cup {None}]
               /\ heard' \in [Updates -> Nat]
               /\ SentHeard'
               /\ \A v \in Updates : Quiet(v) \/ Heard(v)
    <2>. DEFINE u == dispatch[w].of
    <2>1. PICK took \in BOOLEAN, told \in BOOLEAN :
             /\ told => took
             /\ heard' = [heard EXCEPT ![u] = IF took THEN @ + 1 ELSE @]
             /\ Goto(w, IF told THEN "sent" ELSE "failed")
      BY <1>5 DEF SendMessage
    <2>2. dispatch[w] # None /\ dispatch[w].step = "send" /\ u \in Updates
      BY <1>0, <1>5 DEF SendMessage, At
    <2>3. /\ dispatch' \in [Workers -> Dispatch \cup {None}]
          /\ dispatch'[w].of = u /\ dispatch'[w].step = IF told THEN "sent" ELSE "failed"
          /\ \A v \in Workers : v # w => dispatch'[v] = dispatch[v]
      <3>1. (IF told THEN "sent" ELSE "failed") \in {"read", "send", "sent", "failed"}
        OBVIOUS
      <3>. QED
        BY <2>1, <2>2, <3>1, GotoMoves
    <2>. HIDE DEF u
    <2>4. /\ heard' \in [Updates -> Nat]
          /\ \A v \in Updates : heard'[v] \in {heard[v], heard[v] + 1}
          /\ \A v \in Updates : v # u => heard'[v] = heard[v]
          /\ told => heard'[u] > 0
      BY <1>0, <2>1, <2>2
    <2>5. SentHeard'
      <3>1. SUFFICES ASSUME NEW v \in Workers, At(v, "sent")'
                     PROVE  heard'[dispatch'[v].of] > 0
        BY DEF SentHeard
      <3>2. CASE v = w
        BY <2>3, <2>4, <3>1, <3>2 DEF At
      <3>3. CASE v # w
        <4>1. dispatch'[v] = dispatch[v] /\ At(v, "sent") /\ dispatch[v].of \in Updates
          BY <1>0, <2>3, <3>1, <3>3 DEF At
        <4>2. heard[dispatch[v].of] > 0 /\ heard[dispatch[v].of] \in Nat
          BY <1>0, <4>1 DEF SentHeard
        <4>. QED
          BY <2>4, <4>1, <4>2
      <3>. QED
        BY <3>2, <3>3
    <2>6. \A v \in Updates : v # u => Quiet(v)
      BY <2>3, <2>4 DEF Quiet, Sending
    <2>7. w \in Sending(u) /\ Sending(u)' \subseteq Sending(u) \ {w}
      BY <2>2, <2>3 DEF Sending, u
    <2>8. Heard(u)
      BY <2>2, <2>4, <2>7 DEF Heard
    <2>. QED
      BY <2>3, <2>4, <2>5, <2>6, <2>8
  <1>6. DeliveryMoves \/ UNCHANGED deliveryVars =>
           \/ dispatch' = dispatch /\ heard' = heard
           \/ \E w \in Workers, u \in Updates : ClaimDelivery(w, u)
           \/ \E w \in Workers, step \in {"send", "failed"} :
                 dispatch[w] # None /\ heard' = heard /\ Goto(w, step)
                 /\ ~(step = "send" /\ ~At(w, "read"))
           \/ \E w \in Workers : heard' = heard /\ dispatch' = [dispatch EXCEPT ![w] = None]
           \/ \E w \in Workers : SendMessage(w)
    <2>1. ChannelActs \/ (UNCHANGED dispatch /\ UNCHANGED heard) \/ UNCHANGED deliveryVars
             => dispatch' = dispatch /\ heard' = heard
      BY DEF ChannelActs, SubmitTurn, EnqueueDelivery, Redeliver, Lapse, ComesDue, deliveryVars
    <2>2. \A w \in Workers :
             ReadAnswer(w) \/ FinishSent(w) \/ FinishFailed(w) \/ DispatchThrows(w)
                \/ (/\ Fault /\ dispatch' = [dispatch EXCEPT ![w] = None]
                    /\ UNCHANGED <<hook, answer, row, heard>>)
             => \/ \E step \in {"send", "failed"} :
                      dispatch[w] # None /\ heard' = heard /\ Goto(w, step)
                      /\ ~(step = "send" /\ ~At(w, "read"))
                \/ heard' = heard /\ dispatch' = [dispatch EXCEPT ![w] = None]
      BY DEF ReadAnswer, FinishSent, FinishFailed, DispatchThrows, At
    <2>3. TakeTurn /\ UNCHANGED <<hook, row, dispatch, heard, faults>>
             => UNCHANGED dispatch /\ UNCHANGED heard
      OBVIOUS
    <2>. QED
      BY <2>1, <2>2, <2>3, ZenonT(60) DEF DeliveryMoves
  <1>. QED
    BY <1>0, <1>1, <1>2, <1>3, <1>4, <1>5, <1>6

LEMMA Fewer ==
  ASSUME NEW A, IsFiniteSet(A), NEW B
  PROVE  /\ Cardinality(A) \in Nat
         /\ B \subseteq A => Cardinality(B) \in Nat /\ Cardinality(B) <= Cardinality(A)
         /\ \A x : B \subseteq A \cup {x} => Cardinality(B) \in Nat /\ Cardinality(B) <= Cardinality(A) + 1
         /\ \A x \in A : B \subseteq A \ {x} => Cardinality(B) \in Nat /\ Cardinality(B) + 1 <= Cardinality(A)
  <1>1. Cardinality(A) \in Nat
    BY FS_CardinalityType
  <1>2. B \subseteq A => Cardinality(B) \in Nat /\ Cardinality(B) <= Cardinality(A)
    BY FS_Subset, FS_CardinalityType
  <1>3. ASSUME NEW x, B \subseteq A \cup {x}
        PROVE  Cardinality(B) \in Nat /\ Cardinality(B) <= Cardinality(A) + 1
    <2>1. IsFiniteSet(A \cup {x}) /\ Cardinality(A \cup {x}) <= Cardinality(A) + 1
      BY <1>1, FS_AddElement
    <2>2. Cardinality(A \cup {x}) \in Nat
      BY <2>1, FS_CardinalityType
    <2>3. IsFiniteSet(B) /\ Cardinality(B) <= Cardinality(A \cup {x})
      BY <1>3, <2>1, FS_Subset
    <2>4. Cardinality(B) \in Nat
      BY <2>3, FS_CardinalityType
    <2>. QED
      BY <1>1, <2>1, <2>2, <2>3, <2>4
  <1>4. ASSUME NEW x \in A, B \subseteq A \ {x}
        PROVE  Cardinality(B) \in Nat /\ Cardinality(B) + 1 <= Cardinality(A)
    <2>1. IsFiniteSet(A \ {x}) /\ Cardinality(A \ {x}) = Cardinality(A) - 1
      BY FS_RemoveElement
    <2>2. IsFiniteSet(B) /\ Cardinality(B) <= Cardinality(A \ {x})
      BY <1>4, <2>1, FS_Subset
    <2>3. Cardinality(B) \in Nat
      BY <2>2, FS_CardinalityType
    <2>. QED
      BY <1>1, <2>1, <2>2, <2>3
  <1>. QED
    BY <1>1, <1>2, <1>3, <1>4

LEMMA DeliveryStep ==
  ASSUME DeliveryInv, [DeliveryMoves]_deliveryVars
  PROVE  DeliveryInv'
  <1>. USE DEF DeliveryInv
  <1>1. /\ row' \in [Updates -> Delivery]
        /\ \A u \in Updates : Same(u) \/ Queued(u) \/ Charged(u) \/ Ended(u)
    BY DeliveriesMove
  <1>2. /\ dispatch' \in [Workers -> Dispatch \cup {None}]
        /\ heard' \in [Updates -> Nat]
        /\ SentHeard'
        /\ \A u \in Updates : Quiet(u) \/ Begun(u) \/ Heard(u)
    BY DispatchesMove
  <1>3. \A u \in Updates : /\ row[u].attempts \in Nat /\ row[u].attempts <= MaxAttempts
                           /\ row'[u].attempts \in Nat /\ row'[u].attempts <= MaxAttempts
                           /\ heard[u] \in Nat /\ heard'[u] \in Nat
    BY <1>1, <1>2, DeliveryAssumption DEF DeliveryTypeOK, Delivery
  <1>4. ASSUME NEW u \in Updates
        PROVE  /\ heard'[u] + Cardinality(Sending(u)') <= row'[u].attempts
               /\ heard'[u] >= heard[u] /\ Cardinality(Sending(u)') \in Nat
    <2>1. IsFiniteSet(Sending(u))
      BY DeliveryAssumption, FS_Subset DEF Sending
    <2>2. heard[u] + Cardinality(Sending(u)) <= row[u].attempts /\ Cardinality(Sending(u)) \in Nat
      BY <2>1, Fewer DEF HeardCharged
    <2>3. row'[u].attempts >= row[u].attempts
      BY <1>1, <1>3 DEF Same, Queued, Charged, Ended
    <2>4. CASE Quiet(u)
      <3>1. Cardinality(Sending(u)') \in Nat /\ Cardinality(Sending(u)') <= Cardinality(Sending(u))
        BY <2>1, <2>4, Fewer DEF Quiet
      <3>. QED
        BY <1>3, <2>2, <2>3, <2>4, <3>1 DEF Quiet
    <2>5. CASE Begun(u)
      <3>1. Cardinality(Sending(u)') \in Nat /\ Cardinality(Sending(u)') <= Cardinality(Sending(u)) + 1
        BY <2>1, <2>5, Fewer DEF Begun
      <3>. QED
        BY <1>3, <2>2, <2>5, <3>1 DEF Begun, Charged
    <2>6. CASE Heard(u)
      <3>1. Cardinality(Sending(u)') \in Nat /\ Cardinality(Sending(u)') + 1 <= Cardinality(Sending(u))
        BY <2>1, <2>6, Fewer DEF Heard
      <3>. QED
        BY <1>3, <2>2, <2>3, <2>6, <3>1 DEF Heard
    <2>. QED
      BY <1>2, <2>4, <2>5, <2>6
  <1>5. HeardCharged'
    BY <1>4 DEF HeardCharged
  <1>6. ASSUME NEW u \in Updates
        PROVE  /\ row'[u].status = "sent" => heard'[u] > 0
               /\ heard'[u] <= row'[u].attempts
               /\ row'[u].status = "failed" => row'[u].attempts = MaxAttempts
    <2>1. heard'[u] <= row'[u].attempts
      BY <1>3, <1>4
    <2>2. CASE Same(u)
      BY <1>3, <1>4, <2>1, <2>2 DEF Same, OutboxHonest
    <2>3. CASE Queued(u) \/ Charged(u)
      BY <2>1, <2>3 DEF Queued, Charged
    <2>4. CASE Ended(u)
      <3>1. PICK w \in Workers :
               /\ dispatch[w] # None /\ dispatch[w].of = u /\ Leased(w)
               /\ row'[u].status = "sent" => At(w, "sent")
               /\ row'[u].status = "failed" => dispatch[w].attempt >= MaxAttempts
        BY <2>4 DEF Ended
      <3>2. row'[u].status = "sent" => heard'[u] > 0
        BY <1>3, <1>4, <3>1 DEF SentHeard
      <3>3. row[u].attempts = dispatch[w].attempt /\ row'[u].attempts = row[u].attempts
        BY <2>4, <3>1 DEF Leased, Ended
      <3>. QED
        BY <1>3, <2>1, <3>1, <3>2, <3>3, DeliveryAssumption
    <2>. QED
      BY <1>1, <2>2, <2>3, <2>4
  <1>7. /\ hook' \in [Updates -> {"delivering", "accepted", "acknowledged"}]
        /\ answer' \in [Updates -> {"none", "open", "ended"}]
        /\ faults' \in 0 .. MaxFaults
    <2>1. Fault => faults' \in 0 .. MaxFaults
      BY DeliveryAssumption DEF Fault, DeliveryTypeOK
    <2>2. ASSUME NEW u \in Updates, SubmitTurn(u) \/ Redeliver(u) \/ EnqueueDelivery(u)
                                    \/ Lapse(u) \/ ComesDue(u)
          PROVE  /\ hook' \in [Updates -> {"delivering", "accepted", "acknowledged"}]
                 /\ answer' \in [Updates -> {"none", "open", "ended"}]
                 /\ faults' \in 0 .. MaxFaults
      <3>1. CASE SubmitTurn(u)
        BY <3>1 DEF SubmitTurn, DeliveryTypeOK
      <3>2. CASE Redeliver(u)
        BY <2>1, <3>2 DEF Redeliver, DeliveryTypeOK
      <3>3. CASE EnqueueDelivery(u)
        <4>1. /\ hook' = [hook EXCEPT ![u] = "acknowledged"]
              /\ UNCHANGED <<answer, faults>>
          BY <3>3, Zenon DEF EnqueueDelivery
        <4>. QED
          BY <4>1 DEF DeliveryTypeOK
      <3>4. CASE Lapse(u) \/ ComesDue(u)
        <4>1. UNCHANGED <<hook, answer, faults>>
          BY <3>4, Zenon DEF Lapse, ComesDue
        <4>. QED
          BY <4>1 DEF DeliveryTypeOK
      <3>. QED
        BY <2>2, <3>1, <3>2, <3>3, <3>4
    <2>3. TakeTurn => answer' \in [Updates -> {"none", "open", "ended"}]
      BY DEF TakeTurn, DeliveryTypeOK
    <2>4. ChannelActs =>
             /\ hook' \in [Updates -> {"delivering", "accepted", "acknowledged"}]
             /\ answer' \in [Updates -> {"none", "open", "ended"}]
             /\ faults' \in 0 .. MaxFaults
      BY <2>2, SMTT(30) DEF ChannelActs
    <2>5. DeliveryMoves \/ UNCHANGED deliveryVars =>
             /\ ChannelActs \/ TakeTurn \/ UNCHANGED answer
             /\ ChannelActs \/ UNCHANGED hook
             /\ ChannelActs \/ UNCHANGED faults \/ Fault
      BY ZenonT(60) DEF DeliveryMoves, ClaimDelivery, ReadAnswer, SendMessage, FinishSent, FinishFailed,
             DispatchThrows, deliveryVars
    <2>. QED
      BY <2>1, <2>3, <2>4, <2>5 DEF DeliveryTypeOK
  <1>. QED
    BY <1>1, <1>2, <1>5, <1>6, <1>7 DEF DeliveryTypeOK, OutboxHonest

-----------------------------------------------------------------------------
(* The whole *)

(* A step of the worker, its members or its channel moves the schedule and *)
(* the outbox each in one of its own ways, or not at all.                  *)
LEMMA Parts ==
  ASSUME [Next]_vars
  PROVE  [SchedulingMoves]_schedulingVars /\ [DeliveryMoves]_deliveryVars
  <1>1. ASSUME NEW w \in Workers, Iterate(w) \/ Crash(w)
        PROVE  [SchedulingMoves]_schedulingVars /\ [DeliveryMoves]_deliveryVars
    <2>1. CASE TickWhenDue(w)
      BY <2>1 DEF TickWhenDue, SchedulingMoves
    <2>2. CASE ClaimWork(w)
      <3>1. UNCHANGED schedulingVars /\ UNCHANGED <<hook, row, dispatch, heard, faults>>
        BY <2>2 DEF ClaimWork, Handling
      <3>2. TakeTurn \/ UNCHANGED answer
        BY <2>2 DEF ClaimWork
      <3>. QED
        BY <3>1, <3>2 DEF DeliveryMoves, deliveryVars
    <2>3. CASE TakeDelivery(w)
      BY <2>3 DEF TakeDelivery, DeliveryMoves
    <2>4. CASE DispatchDelivery(w)
      BY <2>4 DEF DispatchDelivery, DeliveryMoves
    <2>5. CASE Restart(w)
      BY <2>5 DEF Restart
    <2>6. CASE Crash(w)
      BY <2>6 DEF Crash, DeliveryMoves
    <2>. QED
      BY <1>1, <2>1, <2>2, <2>3, <2>4, <2>5, <2>6 DEF Iterate
  <1>2. CASE Others
    BY <1>2 DEF Others, SchedulingMoves, DeliveryMoves
  <1>3. CASE UNCHANGED vars
    BY <1>3 DEF vars
  <1>. QED
    BY <1>1, <1>2, <1>3 DEF Next

LEMMA InitHolds ==
  ASSUME Init
  PROVE  IInv
  <1>. USE DEF Init
  <1>1. SchedulingTypeOK
    <2>1. PICK t \in Times : def = [d \in Definitions |->
                                      [exists |-> FALSE, enabled |-> FALSE, version |-> 0,
                                       time |-> t, next |-> Never]]
      BY DEF SchedulingInit
    <2>2. 1 \in Minutes /\ MaxVersion \in Nat
      BY ClockAssumption
    <2>3. 0 \in 0 .. MaxVersion
      BY <2>2
    <2>4. [exists |-> FALSE, enabled |-> FALSE, version |-> 0, time |-> t, next |-> Never] \in Row
      BY <2>3 DEF Row
    <2>5. def \in [Definitions -> Row]
      BY <2>1, <2>4
    <2>. QED
      BY <2>2, <2>5 DEF SchedulingInit, SchedulingTypeOK
  <1>2. RowsFit /\ SlotsShow /\ SlotsDiffer
    BY DEF SchedulingInit, RowsFit, SlotsShow, SlotsDiffer
  <1>3. DeliveryTypeOK
    BY DeliveryAssumption DEF DeliveryInit, DeliveryTypeOK, Delivery, Settled
  <1>4. HeardCharged
    <2>1. \A u \in Updates : Sending(u) = {}
      BY DEF DeliveryInit, Sending
    <2>2. \A u \in Updates : heard[u] = 0 /\ row[u].attempts = 0
      BY DEF DeliveryInit
    <2>3. Cardinality({}) = 0
      BY FS_EmptySet
    <2>4. ASSUME NEW u \in Updates
          PROVE  heard[u] + Cardinality(Sending(u)) <= row[u].attempts
      <3>1. heard[u] + Cardinality(Sending(u)) = 0 + 0
        BY <2>1, <2>2, <2>3
      <3>. QED
        BY <2>2, <3>1
    <2>. QED
      BY <2>4 DEF HeardCharged
  <1>5. SentHeard /\ OutboxHonest
    BY DEF DeliveryInit, SentHeard, At, OutboxHonest
  <1>6. TypeOK
    BY <1>1, <1>3 DEF TypeOK
  <1>. QED
    BY <1>1, <1>2, <1>3, <1>4, <1>5, <1>6 DEF IInv, SchedulingInv, DeliveryInv

(* The loops keep their types. *)
LEMMA LoopStep ==
  ASSUME TypeOK, [Next]_vars
  PROVE  /\ loop' \in [Workers -> {"tick", "claim", "delivery", "dispatch", "down"}]
         /\ ticked' \in [Workers -> BOOLEAN]
         /\ preferAgent' \in [Workers -> BOOLEAN]
         /\ taken' = taken \/ \E o \in occ : taken' = taken \cup {o}
  <1>. USE DEF TypeOK, GoesTo
  <1>1. ASSUME NEW w \in Workers, Iterate(w) \/ Crash(w)
        PROVE  /\ loop' \in [Workers -> {"tick", "claim", "delivery", "dispatch", "down"}]
               /\ ticked' \in [Workers -> BOOLEAN]
               /\ preferAgent' \in [Workers -> BOOLEAN]
               /\ taken' = taken \/ \E o \in occ : taken' = taken \cup {o}
    <2>1. CASE TickWhenDue(w)
      BY <2>1 DEF TickWhenDue
    <2>2. CASE ClaimWork(w)
      <3>1. PICK swap \in BOOLEAN : Handling(w, swap)
        BY <2>2 DEF ClaimWork
      <3>2. taken' = taken \/ TakeRun
        BY <2>2 DEF ClaimWork
      <3>. QED
        BY <3>1, <3>2 DEF Handling, TakeRun
    <2>3. CASE TakeDelivery(w)
      BY <2>3 DEF TakeDelivery
    <2>4. CASE DispatchDelivery(w)
      BY <2>4 DEF DispatchDelivery
    <2>5. CASE Restart(w)
      BY <2>5 DEF Restart
    <2>6. CASE Crash(w)
      BY <2>6 DEF Crash
    <2>. QED
      BY <1>1, <2>1, <2>2, <2>3, <2>4, <2>5, <2>6 DEF Iterate
  <1>2. CASE Others
    BY <1>2 DEF Others, loopVars
  <1>3. CASE UNCHANGED vars
    BY <1>3 DEF vars, loopVars
  <1>. QED
    BY <1>1, <1>2, <1>3 DEF Next

LEMMA NextKeeps ==
  ASSUME IInv, [Next]_vars
  PROVE  IInv'
  <1>. USE DEF IInv
  <1>1. SchedulingInv'
    BY Parts, SchedulingStep
  <1>2. DeliveryInv'
    BY Parts, DeliveryStep
  <1>3. taken' \subseteq occ'
    <2>1. occ \subseteq occ'
      BY Parts, OccurrencesMove
    <2>. QED
      BY <2>1, LoopStep DEF TypeOK
  <1>4. TypeOK'
    BY <1>1, <1>2, <1>3, LoopStep DEF TypeOK, SchedulingInv, DeliveryInv
  <1>. QED
    BY <1>1, <1>2, <1>4

-----------------------------------------------------------------------------

(* The inductive invariant of the worker loop with its schedule and its    *)
(* outbox (run-loop, schedule-repository and telegram delivery): whatever  *)
(* ticks, edits, hand-made occurrences, redelivered webhooks, lapsed       *)
(* leases and dying workers come in between.                               *)
THEOREM Invariance == Spec => []IInv
  <1>1. Init => IInv
    BY InitHolds
  <1>2. IInv /\ [Next]_vars => IInv'
    BY NextKeeps
  <1>. QED
    BY <1>1, <1>2, PTL DEF Spec

(* The rows of definitions, occurrences and deliveries, and each worker's  *)
(* place in its loop, keep their types: no attempt beyond the limit, no    *)
(* version beyond the last edit, only existing runs taken from the queue.  *)
THEOREM TypeCorrect == Spec => []TypeOK
  <1>1. IInv => TypeOK
    BY DEF IInv
  <1>. QED
    BY <1>1, Invariance, PTL

(* A definition occurs once per local date, at the time of the definition  *)
(* its snapshot is of (nextScheduledAt, scheduledOnDate and the key of the *)
(* occurrences): twice on a date only where the clock went back behind the *)
(* time in between.                                                        *)
THEOREM SlotsHonestHolds == Spec => []SlotsHonest
  <1>1. IInv => SlotsHonest
    <2>1. SUFFICES ASSUME IInv
                   PROVE  SlotsHonest
      OBVIOUS
    <2>2. \A o \in occ : Shows(o.slot, o.time) /\ o.slot \in Minutes
      BY <2>1 DEF IInv, SchedulingInv, SchedulingTypeOK, SlotsShow, Occurrence
    <2>3. SlotFitsSnapshot
      BY <2>2 DEF SlotFitsSnapshot, Shows
    <2>4. ASSUME NEW o \in occ, NEW p \in occ, o # p, o.of = p.of
          PROVE  /\ o.slot # p.slot
                 /\ (o.slot < p.slot /\ o.time = p.time
                     /\ Clock[o.slot].date = Clock[p.slot].date) =>
                        \E m \in o.slot .. p.slot : Clock[m].time < o.time
      <3>1. o.slot # p.slot
        BY <2>1, <2>4 DEF IInv, SchedulingInv, SlotsDiffer
      <3>2. ASSUME o.slot < p.slot, o.time = p.time,
                   Clock[o.slot].date = Clock[p.slot].date
            PROVE  \E m \in o.slot .. p.slot : Clock[m].time < o.time
        <4>1. Clock[o.slot].time = Clock[p.slot].time
          BY <2>2, <3>2 DEF Shows
        <4>2. Clock[o.slot] = Clock[p.slot]
          BY <2>2, <3>2, <4>1, Calendar
        <4>. QED
          BY <2>2, <3>2, <4>2 DEF Shows
      <3>. QED
        BY <3>1, <3>2
    <2>. QED
      BY <2>3, <2>4 DEF SlotsHonest, OncePerDate
  <1>. QED
    BY <1>1, Invariance, PTL

(* The outbox tells the truth (claimDelivery, dispatchExternalDelivery and *)
(* finishDelivery): "sent" was heard, nothing is heard more often than it  *)
(* was charged as an attempt, and only all attempts make it "failed".      *)
THEOREM OutboxHonestHolds == Spec => []OutboxHonest
  <1>1. IInv => OutboxHonest
    BY DEF IInv, DeliveryInv
  <1>. QED
    BY <1>1, Invariance, PTL

(* No due slot is dropped (tick and updateDefinition): a definition that   *)
(* is not edited moves past a slot only with its occurrence made.          *)
THEOREM NoSlotDroppedHolds == Spec => NoSlotDropped
  <1>1. ASSUME IInv, [Next]_vars
        PROVE  \A d \in Due :
                  (def'[d].version = def[d].version /\ def'[d].next # def[d].next)
                      => \E o \in occ' : o.of = d /\ o.slot = def[d].next
    BY <1>1, Parts, SlotStep DEF IInv
  <1>2. IInv /\ [Next]_vars =>
           [\A d \in Due :
               (def'[d].version = def[d].version /\ def'[d].next # def[d].next)
                   => \E o \in occ' : o.of = d /\ o.slot = def[d].next]_vars
    BY <1>1
  <1>. QED
    BY <1>2, Invariance, PTL DEF Spec, NoSlotDropped
=============================================================================
