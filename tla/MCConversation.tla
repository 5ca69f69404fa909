---------------------------- MODULE MCConversation ----------------------------
(***************************************************************************)
(* TLC looks at one of a turn's execution, the chat page and the pane at a *)
(* time.  In every initial state two of the three have nothing left to do. *)
(* All are states the program reaches; what an execution finds when it     *)
(* begins is one of three families of questions.                           *)
(***************************************************************************)
EXTENDS Conversation, TLC

CONSTANTS r1, r2, a, b

-----------------------------------------------------------------------------
(* Executions *)

Facts(status, fits, named, report, missing) ==
    [status |-> status, fits |-> fits, named |-> named, report |-> report, missing |-> missing]

Good == Facts("succeeded", TRUE, FALSE, TRUE, 1)
Stale == Facts("succeeded", FALSE, TRUE, TRUE, 0)
Draft == Facts("running", TRUE, TRUE, FALSE, 0)

Question(source, refs, target, ask) ==
    [source |-> source, refs |-> refs, target |-> target, ask |-> ask,
     action |-> "none", signal |-> None, dashboard |-> FALSE, lease |-> TRUE]

Words ==
    {Question(k[1], k[2], t, x) : k \in {<<"message", {}>>, <<"message", {r1, r2}>>, <<"thread", {r1}>>},
        t \in {"coordinator", "reviewer", "insight"},
        x \in {{}} \cup {{y} : y \in Asks \ {"new", "compute"}}}

Actions ==
    {[Question("message", {r1}, "coordinator", {}) EXCEPT !.action = x, !.signal = r, !.dashboard = d] :
        x \in {"inspect", "analyze"}, r \in {r1, r2}, d \in BOOLEAN}

Sources ==
    {Question(k[1], k[2], "coordinator", {}) :
        k \in {<<"message", {r1}>>, <<"reply", {r1, r2}>>, <<"selection", {r1}>>}}

Direct == [Question("message", {r1}, "coordinator", {}) EXCEPT !.lease = FALSE]
Comparison == Question("message", {r1, r2}, "comparison", {})

ExecutionBegins ==
    /\ \/ request \in Words \cup Actions /\ runs = r1 :> Good @@ r2 :> Stale /\ turnFaults = 1
       \/ /\ request \in Sources \cup {Comparison} /\ turnFaults = 1
          /\ \/ runs = r1 :> Facts("succeeded", TRUE, FALSE, TRUE, 3) @@ r2 :> Draft
             \/ runs = r1 :> Facts("running", TRUE, FALSE, TRUE, 0) @@ r2 :> Stale
       \/ /\ request \in {Question("message", {}, "coordinator", {}), Direct} /\ turnFaults = 0
          /\ runs = r1 :> Facts("running", TRUE, FALSE, TRUE, 0) @@ r2 :> Stale
    /\ at = "context" /\ turn = [status |-> "in_progress", run |-> None, shown |-> {}]

ExecutionOver ==
    /\ request = Direct /\ runs = r1 :> Good @@ r2 :> Stale /\ turnFaults = MaxTurnFaults
    /\ at = "ended" /\ turn = [status |-> "completed", run |-> None, shown |-> {}]

-----------------------------------------------------------------------------
(* Pages: of a new conversation, on a server that holds no job, before and *)
(* after a submission that was lost or got through late; of a conversation *)
(* whose turn has just been accepted, while there is another.              *)

Known(c, job, n) ==
    [prompt |-> n, asked |-> c, conv |-> c, status |-> "final", job |-> job, born |-> n,
     time |-> 0, logged |-> 0]
Pending(logged) == [Known(a, TRUE, 1) EXCEPT !.status = "in_progress", !.logged = logged]
Turned(first) == [i \in Turns |-> IF i = 1 THEN first ELSE Known(b, FALSE, 2)]

PageOpens ==
    /\ setup = [sse |-> FALSE, durable |-> FALSE] /\ wire = [i \in Turns |-> "idle"]
    /\ \/ /\ moves = MaxMoves /\ netFaults = 0 /\ late = {}
          /\ turns = [i \in Turns |-> NoTurn] /\ ui = Mounted(New)
       \/ /\ netFaults = MaxNetFaults
          /\ \/ moves = 0 /\ late = {}
             \/ moves = MaxMoves /\ late = {1}
          /\ turns = [i \in Turns |-> IF i = 1 THEN [NoTurn EXCEPT !.prompt = 1, !.status = "made"] ELSE NoTurn]
          /\ ui = [Mounted(New) EXCEPT !.text = 1, !.retry = 1, !.error = TRUE]

PageSubmitted ==
    /\ setup = [sse |-> TRUE, durable |-> TRUE]
    /\ \/ moves = MaxMoves /\ netFaults = 0 /\ turns = Turned(Pending(1))
       \/ moves = 0 /\ netFaults = MaxNetFaults /\ turns = Turned(Pending(MaxLogged))
    /\ wire = [i \in Turns |-> IF i = 1 THEN "handled" ELSE "idle"]
    /\ ui = [Mounted(a) EXCEPT !.sending = 1, !.text = 1] /\ late = {}

PageRests ==
    /\ setup = [sse |-> FALSE, durable |-> FALSE] /\ moves = MaxMoves /\ netFaults = MaxNetFaults
    /\ turns = Turned(Known(a, FALSE, 1)) /\ wire = [i \in Turns |-> "idle"] /\ ui = Mounted(New)
    /\ late = {}

-----------------------------------------------------------------------------
PaneRests ==
    /\ stored = [ended |-> TRUE, time |-> 0, activity |-> 0] /\ member = FALSE
    /\ pane = [run |-> stored, loaded |-> TRUE, failures |-> 0, finals |-> 0, state |-> "ready",
               followed |-> FALSE]
    /\ pollAt = [leg |-> "off", run |-> NoRun] /\ feed = [NoFeed EXCEPT !.phase = "idle"]
    /\ server = NoServer /\ frames = <<>> /\ sseOn = FALSE /\ paneFaults = MaxPaneFaults

MCInit ==
    /\ role = "writer" /\ stop = "no" /\ ctx = NoContext /\ plan = <<>> /\ seen = {}
    /\ tries = 0 /\ draft = NoDraft /\ executions = 1
    /\ frame = NoPage /\ poll = NoPoll /\ loads = {}
    /\ \/ ExecutionBegins /\ PageRests /\ PaneRests
       \/ ExecutionOver /\ (PageOpens \/ PageSubmitted) /\ PaneRests
       \/ ExecutionOver /\ PageRests /\ PaneInit

MCSpec == MCInit /\ [][Next]_vars /\ Fairness
=============================================================================
