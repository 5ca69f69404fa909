------------------------------ MODULE RunPane ------------------------------
(***************************************************************************)
(* What the browser shows of one run while it is selected: its detail,     *)
(* polled together with what its end publishes, and its runtime activity,  *)
(* read once or followed through an event stream that carries the run as   *)
(* well.  The two have their own connections, errors and retries and meet  *)
(* in the run's status: the activity is followed while the detail says     *)
(* that the run is active, and read anew when that changes.                *)
(*                                                                         *)
(* The stream's server reads the run and the activity in two transactions  *)
(* at once; either may be the older one.  Selecting another run starts a   *)
(* pane from nothing.                                                      *)
(***************************************************************************)
EXTENDS Integers, Sequences, FiniteSets, FiniteSetsExt

CONSTANTS
    MaxActivity,     \* activity events of the run TLC looks at
    ActivityPage,    \* events in one answer: 500 in the code
    MaxPolls,        \* failed polls, and polls of an ended run: 6 in the code
    MaxPaneFaults    \* reads that fail

ASSUME PaneConstants ==
    /\ MaxActivity \in Nat /\ ActivityPage \in Nat \ {0} /\ MaxPolls \in Nat \ {0}
    /\ MaxPaneFaults \in Nat

VARIABLES
    stored,     \* the run on the server: [ended, time, activity]
    member,     \* the user may read it
    pane,       \* the detail: [run, loaded, failures, finals, state]; and
                \* whether it has shown the run active
    pollAt,     \* "ask", "off" or the run that was read
    feed,       \* the activity: [phase, delivered, mark, lost]
    server,     \* the stream's server: [cursor, run, page, previous]
    frames,     \* frames on their way
    sseOn,
    paneFaults

paneVars == <<stored, member, pane, pollAt, feed, server, frames, sseOn, paneFaults>>

NoRun == [ended |-> FALSE, time |-> -1, activity |-> 0]
NoServer == [cursor |-> 0, run |-> NoRun, page |-> NoRun, previous |-> <<>>]
NoFeed == [phase |-> "connect", delivered |-> 0, mark |-> 0, lost |-> FALSE]

RunRow == [ended : BOOLEAN, time : Nat \cup {-1}, activity : 0 .. MaxActivity]

Frame == [kind : {"snapshot", "runtime", "terminal"}, run : RunRow,
          upto : 0 .. MaxActivity, mark : 0 .. MaxActivity]

PaneTypeOK ==
    /\ stored \in RunRow /\ stored.time \in Nat /\ member \in BOOLEAN /\ sseOn \in BOOLEAN
    /\ pane \in [run : RunRow, loaded : BOOLEAN, failures : 0 .. MaxPolls, finals : 0 .. MaxPolls,
                state : {"loading", "ready", "stale", "error", "unavailable"}, followed : BOOLEAN]
    /\ pollAt \in [leg : {"ask", "read", "off"}, run : RunRow]
    /\ feed \in [phase : {"connect", "open", "stream", "idle", "retry"}, delivered : 0 .. stored.activity,
                mark : 0 .. stored.activity, lost : BOOLEAN]
    /\ server \in [cursor : 0 .. stored.activity, run : RunRow, page : RunRow,
                  previous : {<<>>} \cup (RunRow \X (0 .. MaxActivity) \X (0 .. MaxActivity))]
    /\ frames \in Seq(Frame) /\ paneFaults \in 0 .. MaxPaneFaults

PaneInit ==
    /\ stored = [ended |-> FALSE, time |-> 0, activity |-> 0] /\ member = TRUE
    /\ pane = [run |-> NoRun, loaded |-> FALSE, failures |-> 0, finals |-> 0, state |-> "loading",
            followed |-> FALSE]
    /\ pollAt = [leg |-> "ask", run |-> NoRun] /\ feed = NoFeed /\ server = NoServer
    /\ frames = <<>> /\ sseOn \in BOOLEAN /\ paneFaults = 0

Glitch == paneFaults < MaxPaneFaults /\ paneFaults' = paneFaults + 1
NoGlitch == UNCHANGED paneFaults

Unfinished(run) == run # NoRun /\ ~run.ended

(* Mutant: the activity is not read again when the run turns out ended. *)
FollowOnce(run) == UNCHANGED <<feed, server, frames>>

(* The effect of useRunRuntime depends on `active': its stream is closed,  *)
(* what it knew forgotten, and the activity read again.                    *)
Refollow(run) ==
    IF Unfinished(run) = Unfinished(pane.run) THEN UNCHANGED <<feed, server, frames>>
    ELSE feed' = NoFeed /\ server' = NoServer /\ frames' = <<>>

(* Mutant: what was read last is shown. *)
LastRun(next) == next

(* An ended run stays ended, an older one does not replace a newer one.    *)
NewerRun(next) ==
    IF pane.run # NoRun /\ ((pane.run.ended /\ ~next.ended) \/ next.time < pane.run.time)
    THEN pane.run ELSE next

Tell(run) == [pane EXCEPT !.run = NewerRun(run), !.followed = @ \/ Unfinished(NewerRun(run))]

(* 401, 403, 404: nothing of the run stays. *)
Revoked == [run |-> NoRun, loaded |-> FALSE, failures |-> 0, finals |-> 0, state |-> "unavailable",
            followed |-> pane.followed]

-----------------------------------------------------------------------------
(* The server *)

RunWorks ==
    /\ ~stored.ended /\ stored.activity < MaxActivity
    /\ \E t \in {0, 1} : stored' = [stored EXCEPT !.activity = @ + 1, !.time = @ + t]
    /\ UNCHANGED <<member, pane, pollAt, feed, server, frames, sseOn, paneFaults>>

RunEndsThere ==
    /\ ~stored.ended /\ stored' = [stored EXCEPT !.ended = TRUE, !.time = @ + 1]
    /\ UNCHANGED <<member, pane, pollAt, feed, server, frames, sseOn, paneFaults>>

MemberRemoved ==
    /\ member /\ member' = FALSE /\ Glitch
    /\ UNCHANGED <<stored, pane, pollAt, feed, server, frames, sseOn>>

-----------------------------------------------------------------------------
(* The detail *)

PollRun ==
    /\ pollAt.leg = "ask" /\ pollAt' = [leg |-> "read", run |-> stored]
    /\ UNCHANGED <<stored, member, pane, feed, server, frames, sseOn, paneFaults>>

Again == pollAt' = [leg |-> "ask", run |-> NoRun]
NoMore == pollAt' = [leg |-> "off", run |-> NoRun]

(* poll: the detail; once the run has ended also the artifacts, decision,  *)
(* report and messages it published, of which any read may fail and is     *)
(* tried again with the whole poll.  A failed poll is retried a few times. *)
PollArrives ==
    /\ pollAt.leg = "read" /\ UNCHANGED <<stored, member, sseOn>>
    /\ \/ /\ member /\ NoGlitch
          /\ pane' = [Tell(pollAt.run) EXCEPT !.state = "ready", !.failures = 0, !.loaded = pollAt.run.ended]
          /\ IF pollAt.run.ended THEN NoMore ELSE Again
       \/ /\ member /\ pollAt.run.ended /\ Glitch
          /\ LET last == pane.finals + 1 = MaxPolls
             IN  /\ pane' = [Tell(pollAt.run) EXCEPT !.finals = @ + 1, !.failures = 0,
                                         !.state = IF last THEN "stale" ELSE "ready"]
                 /\ IF last THEN NoMore ELSE Again
       \/ /\ member /\ Glitch
          /\ pane' = [pane EXCEPT !.failures = @ + 1,
                                  !.state = IF @ \in {"ready", "stale"} THEN "stale" ELSE "error"]
          /\ IF pane.failures + 1 = MaxPolls THEN NoMore ELSE Again
       \/ ~member /\ NoGlitch /\ pane' = Revoked /\ NoMore
    /\ Refollow(pane'.run)

-----------------------------------------------------------------------------
(* The activity *)

(* getRunRuntime after a cursor, in one snapshot of the database: all      *)
(* records, marked with the last event, and a page of events.              *)
PageAfter(cursor) == [upto |-> Min({cursor + ActivityPage, stored.activity}), mark |-> stored.activity]

(* installRuntimeSnapshot: the cursor only acknowledges events that were   *)
(* in the page; older records do not replace newer ones.                   *)
Installed(f, page) ==
    [f EXCEPT !.delivered = Max({@, page.upto}), !.mark = Max({@, page.mark}), !.lost = FALSE]

(* connect: one read, then nothing, the next read or the stream. *)
Connect ==
    /\ feed.phase \in {"connect", "retry"} /\ UNCHANGED <<stored, member, pane, pollAt, frames, sseOn>>
    /\ \/ /\ member /\ NoGlitch
          /\ feed' = [Installed(feed, PageAfter(feed.delivered)) EXCEPT
                         !.phase = IF ~Unfinished(pane.run) THEN "idle" ELSE IF sseOn THEN "open" ELSE "connect"]
       \/ member /\ Glitch /\ feed' = [feed EXCEPT !.phase = "retry", !.lost = TRUE]
       \/ ~member /\ NoGlitch /\ feed' = [NoFeed EXCEPT !.phase = "idle", !.lost = TRUE]
    /\ server' = NoServer

(* The stream is opened after what was delivered; its first load answers   *)
(* the request, which fails if the load does.                              *)
OpenStream ==
    /\ feed.phase = "open" /\ UNCHANGED <<stored, member, pane, pollAt, sseOn>>
    /\ \/ /\ member /\ NoGlitch /\ feed' = [feed EXCEPT !.phase = "stream"]
          /\ server' = [NoServer EXCEPT !.cursor = feed.delivered]
       \/ /\ member /\ Glitch /\ feed' = [feed EXCEPT !.phase = "retry", !.lost = TRUE]
          /\ UNCHANGED server
       \/ /\ ~member /\ NoGlitch /\ feed' = [NoFeed EXCEPT !.phase = "idle", !.lost = TRUE]
          /\ UNCHANGED server
    /\ frames' = <<>>

(* The two reads of the stream's load, in either order. *)
ServerReads ==
    /\ feed.phase = "stream" /\ frames = <<>> /\ member
    /\ \/ server.run = NoRun /\ server' = [server EXCEPT !.run = stored]
       \/ server.page = NoRun /\ server' = [server EXCEPT !.page = stored]
    /\ UNCHANGED <<stored, member, pane, pollAt, feed, frames, sseOn, paneFaults>>

(* publish: the snapshot if it changed, the events of its page, and the    *)
(* end, if the run has ended and the page brought nothing more.            *)
Publish ==
    /\ feed.phase = "stream" /\ frames = <<>> /\ server.run # NoRun /\ server.page # NoRun
    /\ LET upto == Min({server.cursor + ActivityPage, server.page.activity})
           now == <<server.run, server.cursor, server.page.activity>>
           snapshot == [kind |-> "snapshot", run |-> server.run, upto |-> upto,
                        mark |-> server.page.activity]
           runtime(n) == [kind |-> "runtime", run |-> NoRun, upto |-> n, mark |-> 0]
           terminal == [kind |-> "terminal", run |-> NoRun, upto |-> 0, mark |-> 0]
       IN  /\ frames' = (IF now = server.previous THEN <<>> ELSE <<snapshot>>)
                        \o [k \in 1 .. upto - server.cursor |-> runtime(server.cursor + k)]
                        \o (IF server.run.ended /\ upto = server.cursor THEN <<terminal>> ELSE <<>>)
           /\ server' = [cursor |-> upto, run |-> NoRun, page |-> NoRun, previous |-> now]
    /\ UNCHANGED <<stored, member, pane, pollAt, feed, sseOn, paneFaults>>

(* readSse: the frames in their order.  A snapshot tells the detail of the *)
(* run first; if that ends the stream, the rest is not read.               *)
FrameRead ==
    /\ feed.phase = "stream" /\ frames # <<>> /\ NoGlitch
    /\ LET f == Head(frames)
           told == IF f.kind = "snapshot" /\ pane.run # NoRun
                   THEN Tell(f.run) ELSE pane
       IN  /\ pane' = told
           /\ IF Unfinished(told.run) # Unfinished(pane.run) THEN Refollow(told.run)
              ELSE /\ frames' = Tail(frames)
                   /\ CASE f.kind = "snapshot" -> feed' = Installed(feed, f) /\ UNCHANGED server
                        [] f.kind = "runtime" ->
                              feed' = [feed EXCEPT !.delivered = Max({@, f.upto})] /\ UNCHANGED server
                        [] f.kind = "terminal" -> feed' = [feed EXCEPT !.phase = "idle"] /\ server' = NoServer
    /\ UNCHANGED <<stored, member, pollAt, sseOn>>

(* The stream's lifetime is over, the connection breaks, or the server's   *)
(* next load is refused: read once more, then connect again later.         *)
StreamEnds ==
    /\ feed.phase = "stream"
    /\ \/ member /\ feed' = [Installed(feed, PageAfter(feed.delivered)) EXCEPT !.phase = "retry", !.lost = TRUE]
       \/ ~member /\ feed' = [NoFeed EXCEPT !.phase = "idle", !.lost = TRUE]
    /\ server' = NoServer /\ frames' = <<>>
    /\ UNCHANGED <<stored, member, pane, pollAt, sseOn, paneFaults>>

-----------------------------------------------------------------------------
PaneReads == PollRun \/ PollArrives \/ Connect \/ OpenStream
PaneNext ==
    PaneReads \/ ServerReads \/ Publish \/ FrameRead \/ StreamEnds \/ RunWorks \/ RunEndsThere
    \/ MemberRemoved

(* Timers fire and requests are answered; the run ends (RunLifecycle).  Of *)
(* the stream nothing is assumed.                                          *)
PaneFairness ==
    /\ WF_paneVars(PollRun \/ PollArrives) /\ WF_paneVars(Connect \/ OpenStream)
    /\ WF_paneVars(RunEndsThere)

(* While the pane is open its two sources never take each other back: an   *)
(* ended run is not shown active again, nor an older detail, and the       *)
(* records of the activity only grow until they are read from nothing.     *)
PaneNeverRegresses ==
    [][/\ pane.run # NoRun /\ pane'.state # "unavailable" =>
             /\ pane.run.ended => pane'.run.ended
             /\ pane'.run.time >= pane.run.time
       /\ feed' # NoFeed /\ ~feed'.lost => feed'.mark >= feed.mark]_paneVars

(* In the end the pane shows what the run published and all of its         *)
(* activity, or says that it could not.  The stream alone would not do: it *)
(* is the second reading, once the detail has turned inactive, that brings *)
(* the rest.  A run the pane never showed active is read only once.        *)
PaneShown ==
    \/ pane.state \in {"unavailable", "stale", "error"}
    \/ ~member
    \/ /\ pane.loaded /\ pane.run.ended
       /\ feed.mark = stored.activity \/ ~pane.followed

PaneSettles == <>[]PaneShown

(* "terminal when all pages of events have been drained"                   *)
(* (docs/api/streaming.md): the stream does not tell the end of a run      *)
(* before all of the run's events.                                         *)
TerminalDrained ==
    \A i \in DOMAIN frames : frames[i].kind = "terminal" => server.cursor = stored.activity
=============================================================================
