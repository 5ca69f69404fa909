----------------------------- MODULE ChatClient -----------------------------
(***************************************************************************)
(* The chat page of the browser, from the moment the user writes a prompt  *)
(* until the answer is on the screen: the submission with its identity,    *)
(* the retry of one that failed, the conversation that is open, its feed   *)
(* of messages, which is read again and again, and the status of its job.  *)
(* Reads are sent independently of each other and may be answered in any   *)
(* order, or after the user has moved on.                                  *)
(*                                                                         *)
(* A page belongs to one address; going to another address mounts a new    *)
(* page a moment after the old one has changed its selection.  The feed is *)
(* that of the agent the turns are addressed to, from its newest items on; *)
(* older pages, and a feed opened at one item, are left out.  The turn's   *)
(* execution is one step here; DurableTurn and AgentTurn have the rest.    *)
(***************************************************************************)
EXTENDS Integers, FiniteSets, FiniteSetsExt

CONSTANTS
    MaxTurns,        \* submissions TLC looks at
    Conversations,
    New,             \* the page of a conversation that does not exist yet
    PageSize,        \* events of a job in one answer: 100 in the code
    MaxLogged,       \* events of a job TLC looks at
    MaxReads,        \* reads of the feed in flight
    ClockSkew,       \* how far the clocks that date a job's writes differ
    MaxMoves,        \* times the user selects a conversation or an agent
    MaxNetFaults     \* answers that are lost

ASSUME ClientConstants ==
    /\ MaxTurns \in Nat /\ New \notin Conversations /\ PageSize \in Nat \ {0} /\ MaxLogged \in Nat
    /\ MaxReads \in Nat \ {0} /\ ClockSkew \in Nat /\ MaxMoves \in Nat /\ MaxNetFaults \in Nat

VARIABLES
    turns,     \* identity -> what it is and what the server stores of it
    wire,      \* identity -> "idle", "sent", "handled", "replayed": its
               \* request
    late,      \* requests the browser gave up that may still arrive
    ui,        \* the mounted page
    loads,     \* reads of the feed in flight
    poll,      \* the read of the job: [leg, page]
    frame,     \* a page of the job's event stream in flight
    setup,     \* of the server: [sse, durable]
    moves, netFaults

clientVars == <<turns, wire, late, ui, loads, poll, frame, setup, moves, netFaults>>

Turns == 1 .. MaxTurns      \* the identities of submissions
NoId == 0
NoPage == [job |-> NoId, status |-> "none", time |-> 0, last |-> 0]
Empty == [i \in Turns |-> "absent"]
NoPoll == [leg |-> "off", page |-> NoPage]
Ask == [leg |-> "ask", page |-> NoPage]

(* What an empty page offers to ask; a prompt the user writes is 1, 2, ... *)
Suggestion == 0

(* Until it is accepted a turn is only an attempt ("made"): its prompt and *)
(* the conversation it was written in.  time is when its job was last      *)
(* written, born orders the jobs.                                          *)
NoTurn == [prompt |-> 0, asked |-> New, conv |-> New, status |-> "none", job |-> FALSE,
           born |-> 0, time |-> 0, logged |-> 0]

(* A page as it is mounted: no draft, no retry, nothing loaded. *)
Mounted(c) ==
    [at |-> c, going |-> c, open |-> c, gen |-> 0, text |-> 0, retry |-> NoId, sending |-> NoId,
     job |-> NoId, snap |-> NoPage, screen |-> Empty, error |-> FALSE]

FeedRead(c, gen) == [conv |-> c, gen |-> gen, read |-> FALSE, seen |-> Empty]
FirstRead(c, gen) == IF c = New THEN {} ELSE {FeedRead(c, gen)}

Addresses == Conversations \cup {New}

TurnRow == [prompt : Nat, asked : Addresses, conv : Addresses,
            status : {"none", "made", "in_progress", "final"}, job : BOOLEAN,
            born : Nat, time : Nat, logged : 0 .. MaxLogged]

Messages == {"absent", "in_progress", "final"}

JobPages == {NoPage} \cup [job : Turns, status : {"in_progress", "final"}, time : Nat, last : Nat]

Page == [at : Addresses, going : Addresses, open : Addresses, gen : Nat, text : Nat,
         retry : Turns \cup {NoId}, sending : Turns \cup {NoId}, job : Turns \cup {NoId},
         snap : JobPages, screen : [Turns -> Messages], error : BOOLEAN]

FeedReads == [conv : Conversations, gen : Nat, read : BOOLEAN, seen : [Turns -> Messages]]

ClientTypeOK ==
    /\ turns \in [Turns -> TurnRow] /\ late \subseteq Turns
    /\ wire \in [Turns -> {"idle", "sent", "handled", "replayed"}]
    /\ ui \in Page /\ loads \subseteq FeedReads /\ frame \in JobPages
    /\ poll \in [leg : {"off", "ask", "asked"}, page : JobPages]
    /\ setup \in [sse : BOOLEAN, durable : BOOLEAN]
    /\ moves \in 0 .. MaxMoves /\ netFaults \in 0 .. MaxNetFaults

ClientInit ==
    /\ turns = [i \in Turns |-> NoTurn] /\ wire = [i \in Turns |-> "idle"] /\ late = {}
    /\ ui = Mounted(New) /\ loads = {} /\ poll = NoPoll /\ frame = NoPage
    /\ setup \in [sse : BOOLEAN, durable : BOOLEAN] /\ moves = 0 /\ netFaults = 0

-----------------------------------------------------------------------------
(* The conversation that is open *)

(* Another conversation starts an empty feed, whose reads have a           *)
(* generation of their own.                                                *)
Restart(page) == [page EXCEPT !.gen = @ + 1, !.screen = Empty]
Activate(page, c) == IF c = page.open THEN page ELSE [Restart(page) EXCEPT !.open = c]

(* The effects of a page that changed: the feed is read when another       *)
(* conversation is open, the job is followed anew when the conversation or *)
(* the accepted job is another.                                            *)
Effects(next) ==
    LET followed == <<next.open, next.job>> = <<ui.open, ui.job>>
    IN  /\ ui' = IF followed THEN next ELSE [next EXCEPT !.snap = NoPage]
        /\ poll' = IF followed THEN poll ELSE IF next.open = New THEN NoPoll ELSE Ask
        /\ frame' = IF followed THEN frame ELSE NoPage
        /\ loads' = IF next.open = ui.open THEN loads ELSE loads \cup FirstRead(next.open, next.gen)

NextPrompt == 1 + Max({0} \cup {turns[i].prompt : i \in Turns})

(* selectConversation and newConversation, then the router.  The draft     *)
(* stays with a selected conversation, as another prompt; what failed      *)
(* before is not replayed there.                                           *)
SelectConversation(c) ==
    /\ moves < MaxMoves /\ moves' = moves + 1
    /\ Effects([Activate(ui, c) EXCEPT
                   !.job = NoId, !.error = FALSE, !.retry = NoId, !.going = c,
                   !.text = IF c = New \/ ui.text = 0 THEN 0 ELSE NextPrompt])
    /\ UNCHANGED <<turns, wire, late, setup, netFaults>>

(* A look at another agent's thread of the conversation, and back: each    *)
(* starts the feed again and leaves a failed submission as it is.          *)
SwitchAgent ==
    /\ ui.open # New /\ moves < MaxMoves /\ moves' = moves + 1
    /\ LET next == Restart([ui EXCEPT !.going = ui.open])
       IN  ui' = next /\ loads' = loads \cup FirstRead(ui.open, next.gen)
    /\ UNCHANGED <<turns, wire, late, poll, frame, setup, netFaults>>

(* Another address is another page; what is in flight has nobody to tell.  *)
RouteCommits ==
    /\ ui.going # ui.at
    /\ ui' = Mounted(ui.going) /\ frame' = NoPage
    /\ loads' = FirstRead(ui.going, 0) /\ poll' = IF ui.going = New THEN NoPoll ELSE Ask
    /\ UNCHANGED <<turns, wire, late, setup, moves, netFaults>>

-----------------------------------------------------------------------------
(* The submission *)

(* Editing makes another request of the prompt; busy disables the draft.   *)
EditDraft ==
    /\ ui.sending = NoId
    /\ \E i \in Turns : turns[i].status = "none"
    /\ ui.text # NextPrompt \/ ui.retry # NoId
    /\ ui' = [ui EXCEPT !.text = NextPrompt, !.retry = NoId]
    /\ UNCHANGED <<turns, wire, late, loads, poll, frame, setup, moves, netFaults>>

Identities == {i \in Turns : turns[i].status = "none" /\ \A k \in Turns : k < i => turns[k].status # "none"}

(* Mutant: every submission has an identity of its own. *)
AlwaysNew == Identities

(* The identity, prompt and conversation of the submission that failed are *)
(* sent again, whether it was a draft or a suggestion; anything else gets  *)
(* a new identity.                                                         *)
Attempt == IF ui.retry # NoId THEN {ui.retry} ELSE Identities

(* submitting.current *)
NotSubmitting == ui.sending = NoId

Send(i, prompt) ==
    /\ wire[i] = "idle" /\ wire' = [wire EXCEPT ![i] = "sent"]
    /\ turns' = IF turns[i].status = "none"
                THEN [turns EXCEPT ![i].prompt = prompt, ![i].asked = ui.open, ![i].status = "made"]
                ELSE turns
    /\ ui' = [ui EXCEPT !.sending = i, !.error = FALSE]
    /\ UNCHANGED <<late, loads, poll, frame, setup, moves, netFaults>>

(* The composer wants a draft; the error of a submission that failed has a *)
(* button that sends it again.                                             *)
Submit(i) ==
    /\ NotSubmitting /\ i \in Attempt /\ (ui.text # 0 \/ (ui.retry # NoId /\ ui.error))
    /\ Send(i, ui.text)

(* A click on the suggestion of an empty page is a new request each time,  *)
(* also after the same one has failed.                                     *)
SubmitPrompt(i) ==
    /\ NotSubmitting /\ ui.open = New /\ ui.job = NoId /\ i \in Identities
    /\ Send(i, Suggestion)

(* startTurn: one turn per identity, created in the conversation it was    *)
(* written in or in a new one, whose name nobody has.                      *)
Unused == {c \in Conversations : \A k \in Turns : turns[k].conv # c}

StartTurn(i) ==
    IF turns[i].status # "made" THEN turns' = turns
    ELSE \E c \in Conversations :
            /\ c = IF turns[i].asked # New THEN turns[i].asked ELSE CHOOSE x \in Unused : TRUE
            /\ turns[i].asked = New => c \in Unused
            /\ turns' = [turns EXCEPT ![i].status = "in_progress", ![i].conv = c, ![i].job = setup.durable,
                                      ![i].born = 1 + Cardinality({k \in Turns : turns[k].born > 0})]

(* The stream of a turn is refused when turns are durable; the same        *)
(* identity is then posted, here in one step with it.  What is sent again  *)
(* is answered with what is stored.                                        *)
DeliverAgentTurn(i) ==
    /\ \/ /\ wire[i] = "sent" /\ UNCHANGED late
          /\ wire' = [wire EXCEPT ![i] = IF turns[i].status = "made" THEN "handled" ELSE "replayed"]
       \/ i \in late /\ late' = late \ {i} /\ UNCHANGED wire
    /\ StartTurn(i)
    /\ UNCHANGED <<ui, loads, poll, frame, setup, moves, netFaults>>

(* A durable turn is accepted, a direct one answered when it has ended.    *)
Answerable(i) == wire[i] = "replayed" \/ (wire[i] = "handled" /\ (turns[i].job \/ turns[i].status = "final"))

(* The page that submitted shows the turn; a page that is gone only moves  *)
(* the address on from that of a new conversation.                         *)
Accepted(i) ==
    /\ Answerable(i) /\ wire' = [wire EXCEPT ![i] = "idle"]
    /\ LET c == turns[i].conv
           moved == [ui EXCEPT !.going = IF ui.at = New THEN c ELSE @]
           next == IF ui.sending # i THEN moved
                   ELSE [Activate(moved, c) EXCEPT !.retry = NoId, !.text = 0, !.sending = NoId,
                                                   !.job = IF turns[i].job THEN i ELSE NoId]
       IN  Effects(next)
    /\ UNCHANGED <<turns, late, setup, moves, netFaults>>

(* The request or its answer is lost, or the stream breaks off: the        *)
(* attempt is kept for a retry.                                            *)
SubmitFails(i) ==
    /\ wire[i] # "idle" /\ wire' = [wire EXCEPT ![i] = "idle"]
    /\ netFaults < MaxNetFaults /\ netFaults' = netFaults + 1
    /\ \/ wire[i] = "sent" /\ late' = late \cup {i}
       \/ UNCHANGED late
    /\ ui' = IF ui.sending = i THEN [ui EXCEPT !.sending = NoId, !.retry = i, !.error = TRUE] ELSE ui
    /\ UNCHANGED <<turns, loads, poll, frame, setup, moves>>

-----------------------------------------------------------------------------
(* The server *)

(* A claim and a renewal are dated by the worker's clock, other writes by  *)
(* the database's and, there, by the begin of the transaction: the next    *)
(* date may be the same, later or, by the skew, earlier.                   *)
Dates(i) == {t \in 0 .. turns[i].time + 1 : t + ClockSkew >= turns[i].time}

(* The job logs, is claimed and renewed, and ends in one transaction with  *)
(* its answer.                                                             *)
JobWorks(i) ==
    /\ turns[i].status = "in_progress" /\ turns[i].job /\ turns[i].logged < MaxLogged
    /\ \E t \in Dates(i) : turns' = [turns EXCEPT ![i].logged = @ + 1, ![i].time = t]
    /\ UNCHANGED <<wire, late, ui, loads, poll, frame, setup, moves, netFaults>>

Final(turn, t) == [turn EXCEPT !.status = "final", !.time = t]

TurnEndsThere(i) ==
    /\ turns[i].status = "in_progress"
    /\ \E t \in Dates(i) : turns' = [turns EXCEPT ![i] = Final(turns[i], t)]
    /\ UNCHANGED <<wire, late, ui, loads, poll, frame, setup, moves, netFaults>>

Started(i) == turns[i].status \in {"in_progress", "final"}
JobPage(i, last) == [job |-> i, status |-> turns[i].status, time |-> turns[i].time, last |-> last]
FirstEvents(i) == Min({turns[i].logged, PageSize})

LatestJob(c) ==
    {i \in Turns : turns[i].conv = c /\ turns[i].job
        /\ \A k \in Turns : turns[k].conv = c /\ turns[k].job => turns[k].born <= turns[i].born}

-----------------------------------------------------------------------------
(* The feed *)

(* Mutant: a conversation whose job has ended is not read any more. *)
WhileActive == ui.open # New /\ ui.snap.status # "final"

FeedPolls == ui.open # New

(* Every second or two, when the window gets the focus and when the        *)
(* summary of the agents changes; earlier reads may still be under way.    *)
PollFeed ==
    /\ FeedPolls /\ Cardinality(loads) < MaxReads
    /\ loads' = loads \cup {FeedRead(ui.open, ui.gen)}
    /\ UNCHANGED <<turns, wire, late, ui, poll, frame, setup, moves, netFaults>>

ServeFeed(l) ==
    /\ ~l.read
    /\ LET seen == [i \in Turns |-> IF Started(i) /\ turns[i].conv = l.conv THEN turns[i].status ELSE "absent"]
       IN  loads' = (loads \ {l}) \cup {[l EXCEPT !.read = TRUE, !.seen = seen]}
    /\ UNCHANGED <<turns, wire, late, ui, poll, frame, setup, moves, netFaults>>

(* merge: what arrives last is shown, whenever it was read. *)
MergeFeed(prior, next) == IF next = "absent" THEN prior ELSE next

(* Mutant: the conversation is not asked about. *)
AnyFeed(l) == TRUE

CurrentFeed(l) == l.conv = ui.open /\ l.gen = ui.gen

(* A read of a feed that was started again says nothing; one that is lost  *)
(* leaves what is shown.                                                   *)
FeedArrives(l) ==
    /\ l.read /\ loads' = loads \ {l}
    /\ \/ /\ UNCHANGED netFaults
          /\ ui' = IF CurrentFeed(l)
                   THEN [ui EXCEPT !.screen = [i \in Turns |-> MergeFeed(@[i], l.seen[i])]]
                   ELSE ui
       \/ netFaults < MaxNetFaults /\ netFaults' = netFaults + 1 /\ UNCHANGED ui
    /\ UNCHANGED <<turns, wire, late, poll, frame, setup, moves>>

-----------------------------------------------------------------------------
(* The job *)

(* The accepted job with its first events, or the last one of the          *)
(* conversation with its last.                                             *)
Polled ==
    IF ui.job # NoId THEN {JobPage(ui.job, FirstEvents(ui.job))}
    ELSE {JobPage(i, turns[i].logged) : i \in LatestJob(ui.open)}

PollJob ==
    /\ poll.leg = "ask"
    /\ IF Polled = {} THEN poll' = [leg |-> "asked", page |-> NoPage]
       ELSE \E page \in Polled : poll' = [leg |-> "asked", page |-> page]
    /\ UNCHANGED <<turns, wire, late, ui, loads, frame, setup, moves, netFaults>>

Merged(current, next) ==
    [next EXCEPT !.last = IF current.job = next.job THEN Max({@, current.last}) ELSE @]

Overtaken(current, next) ==
    current.job = next.job /\ (\/ current.status = "final" /\ next.status = "in_progress"
                              \/ next.time < current.time)

(* newerExecutionSnapshot: pages hold different slices of the ledger, so   *)
(* fewer events make a page older only of the same status and time.        *)
NewerSnapshot(current, next) ==
    IF \/ Overtaken(current, next)
       \/ /\ current.job = next.job /\ next.last < current.last
          /\ next.time = current.time /\ next.status = current.status
    THEN current ELSE Merged(current, next)

(* The answer; polling goes on while the polled job is active, and after   *)
(* an answer that was lost.                                                *)
PollAnswered ==
    /\ poll.leg = "asked"
    /\ \/ /\ ui' = [ui EXCEPT !.snap = IF poll.page = NoPage THEN NoPage
                                       ELSE NewerSnapshot(@, poll.page)]
          /\ poll' = IF poll.page.status = "in_progress" THEN Ask ELSE NoPoll
          /\ UNCHANGED netFaults
       \/ /\ netFaults < MaxNetFaults /\ netFaults' = netFaults + 1
          /\ poll' = Ask /\ UNCHANGED ui
    /\ frame' = IF ui'.snap.job = ui.snap.job THEN frame ELSE NoPage
    /\ UNCHANGED <<turns, wire, late, loads, setup, moves>>

(* The job's event stream: a page of what follows the cursor, possibly of  *)
(* nothing, or on an event the first page again.                           *)
StreamReads ==
    /\ setup.sse /\ ui.snap.status = "in_progress" /\ frame = NoPage
    /\ LET i == ui.snap.job
       IN  \E last \in {0, turns[i].logged, FirstEvents(i)} : frame' = JobPage(i, last)
    /\ UNCHANGED <<turns, wire, late, ui, loads, poll, setup, moves, netFaults>>

FrameArrives ==
    /\ frame # NoPage /\ frame' = NoPage
    /\ ui' = [ui EXCEPT !.snap = NewerSnapshot(@, frame)]
    /\ UNCHANGED <<turns, wire, late, loads, poll, setup, moves, netFaults>>

(* cancelJob: the answer to it is shown as it is; the server refuses to    *)
(* cancel a job that has ended.                                            *)
CancelJob ==
    /\ ui.snap.status = "in_progress" /\ turns[ui.snap.job].conv = ui.open
    /\ ui.job \in {NoId, ui.snap.job}
    /\ LET i == ui.snap.job
       IN  \/ /\ turns[i].status # "final" /\ UNCHANGED netFaults
              /\ \E t \in Dates(i) :
                    /\ turns' = [turns EXCEPT ![i] = Final(turns[i], t)]
                    /\ ui' = [ui EXCEPT !.snap.status = "final", !.snap.time = t]
           \/ /\ turns[i].status = "final" /\ UNCHANGED <<turns, netFaults>>
              /\ ui' = [ui EXCEPT !.error = TRUE]
           \/ /\ netFaults < MaxNetFaults /\ netFaults' = netFaults + 1
              /\ turns[i].status # "final"
              /\ \/ \E t \in Dates(i) : turns' = [turns EXCEPT ![i] = Final(turns[i], t)]
                 \/ UNCHANGED turns
              /\ ui' = [ui EXCEPT !.error = TRUE]
    /\ UNCHANGED <<wire, late, loads, poll, frame, setup, moves>>

-----------------------------------------------------------------------------
FeedServed == \E l \in loads : ServeFeed(l)
FeedAnswered == \E l \in loads : FeedArrives(l)
Reads == RouteCommits \/ PollFeed \/ FeedServed \/ FeedAnswered \/ PollJob \/ PollAnswered

ClientNext ==
    \/ Reads \/ EditDraft \/ StreamReads \/ FrameArrives \/ CancelJob \/ SwitchAgent
    \/ \E c \in Conversations \cup {New} :
          (c = New \/ \E i \in Turns : turns[i].conv = c) /\ SelectConversation(c)
    \/ \E i \in Turns : \/ Submit(i) \/ SubmitPrompt(i) \/ DeliverAgentTurn(i) \/ Accepted(i)
                        \/ SubmitFails(i) \/ JobWorks(i) \/ TurnEndsThere(i)

(* The page goes on asking, what is asked is answered and durable turns    *)
(* end (DurableTurn); nothing is assumed of the user, of submissions, of   *)
(* the stream or of the order in which answers arrive.                     *)
ClientFairness ==
    /\ WF_clientVars(RouteCommits) /\ WF_clientVars(PollFeed)
    /\ WF_clientVars(FeedServed) /\ WF_clientVars(FeedAnswered) /\ WF_clientVars(PollJob)
    /\ WF_clientVars(PollAnswered)
    /\ \A i \in Turns : WF_clientVars(TurnEndsThere(i))

-----------------------------------------------------------------------------
(* Properties *)

(* However answers are lost or late and however often the user sends it,   *)
(* one draft is at most one turn on the server; editing it or going        *)
(* elsewhere makes another prompt of it.  Only the suggestion, clicked     *)
(* again, is a second turn.                                                *)
OnePerPrompt ==
    \A i, k \in Turns : i # k /\ Started(i) /\ Started(k) =>
        turns[i].prompt # turns[k].prompt \/ turns[i].prompt = Suggestion

(* The feed shows messages of the conversation that is open, and while the *)
(* user stays no poll, stream page or answer to a cancellation, in any     *)
(* order and dated by any clocks, shows a job active that was shown ended. *)
ScreenNeverRegresses ==
    [][/\ \A i \in Turns : ui'.screen[i] # "absent" => turns'[i].conv = ui'.open
       /\ moves' = moves /\ ui'.at = ui.at /\ ui'.open = ui.open =>
             (ui.snap.status = "final" /\ ui'.snap.job = ui.snap.job => ui'.snap.status = "final")]_clientVars

(* The answer of a durable turn the page has accepted or follows ends up   *)
(* in its feed and, once the user has made the last move, stays there: a   *)
(* read that was overtaken may take it back, but not for good.             *)
Followed(i) == ui.job = i \/ ui.snap.job = i
TurnShown == <>[](\A i \in Turns : Followed(i) => ui.screen[i] = "final")

(* What use-agent-execution.ts:22-23 says of the status of a job, that a   *)
(* shorter page "cannot veto a newer job status, especially its terminal   *)
(* state": a page that asks no more shows no job as active.                *)
TerminalNotVetoed == poll.leg = "off" => ui.snap.status # "in_progress"
=============================================================================
