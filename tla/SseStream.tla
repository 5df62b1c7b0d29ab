----------------------------- MODULE SseStream -----------------------------
(***************************************************************************)
(* How a browser learns what became of a run: the event stream of          *)
(* api/sse.py (one bounded queue per connection), its client in            *)
(* frontend/src/lib/useSSE.ts, and the status polling of ChatPage.tsx over  *)
(* GET /projects/{id}/status, for the one project the pages show.          *)
(*                                                                         *)
(* The stream loses events: nobody is connected, a slow reader's queue is  *)
(* full, the connection breaks, the process ends.  It also ends early: the *)
(* terminal event is sent before the execution row is closed.              *)
(***************************************************************************)
EXTENDS Naturals, Sequences, FiniteSets

CONSTANTS Clients,     \* pages that show the project
          MaxConns,    \* sse_max_connections_per_project
          QueueSize,   \* sse_max_queue_events
          MaxRuns,     \* bound: executions of the project
          MaxProgress, \* bound: progress events of one execution
          MaxCrashes   \* bound: ends of the process

ASSUME SseAssumption ==
    /\ MaxConns \in Nat \ {0}
    /\ QueueSize \in Nat \ {0}
    /\ MaxRuns \in Nat /\ MaxProgress \in Nat /\ MaxCrashes \in Nat

VARIABLES
    up,       \* the process runs
    crashes,
    exec,     \* status of the project's latest execution row
    runner,   \* how far the background task of that execution is
    runs, sent,
    conn,     \* the manager's connections: reader, whether it is still there, queue, loop
    stream,   \* each page's useSSE effect
    view,     \* the status each page shows (statusQuery.data)
    fetch     \* each page's status request and its answer under way

server == <<up, crashes, exec, runner, runs, sent>>
page == <<stream, view, fetch>>
vars == <<up, crashes, exec, runner, runs, sent, conn, stream, view, fetch>>

Terminal == {"complete", "error"}
Event == Terminal \cup {"progress"}
ExecStatus == {"none", "running", "succeeded", "failed", "interrupted"}
Shown == {"pending", "running", "completed", "failed", "interrupted"}
Conns == 1..MaxConns

Free == [client |-> "nobody", peer |-> FALSE, queue |-> <<>>, at |-> "free"]
Connected == {k \in Conns : conn[k].at # "free"}
LinkOf(c) == {k \in Conns : conn[k].peer /\ conn[k].client = c}

TypeOK ==
    /\ up \in BOOLEAN /\ crashes \in 0..MaxCrashes
    /\ exec \in ExecStatus
    /\ runner \in {"idle", "streaming", "completing", "failing", "failed"}
    /\ runs \in 0..MaxRuns /\ sent \in 0..MaxProgress
    /\ conn \in [Conns -> [client : Clients \cup {"nobody"}, peer : BOOLEAN,
                           queue : {q \in Seq(Event) : Len(q) <= QueueSize},
                           at : {"free", "check", "wait"}]]
    /\ stream \in [Clients -> {"off", "connecting", "open", "delay", "ended"}]
    /\ view \in [Clients -> Shown \cup {"none", "loading", "error"}]
    /\ fetch \in [Clients -> Shown \cup {"none", "asked"}]

Init ==
    /\ up = TRUE /\ crashes = 0
    /\ exec = "none" /\ runner = "idle" /\ runs = 0 /\ sent = 0
    /\ conn = [k \in Conns |-> Free]
    /\ stream = [c \in Clients |-> "off"]
    /\ view = [c \in Clients |-> "none"]
    /\ fetch = [c \in Clients |-> "none"]

-----------------------------------------------------------------------------
(* The server: one execution after the other, and what it tells the stream *)

\* Mutant: the oldest event is dropped whatever it is.
PutDroppingOldest(q, e) ==
    IF Len(q) < QueueSize THEN Append(q, e) ELSE Append(Tail(q), e)

\* send_event on one queue: a full queue drops its head, but a progress event
\* gives way to a terminal event it finds there, which goes to the end
Put(q, e) ==
    IF Len(q) < QueueSize THEN Append(q, e)
    ELSE IF e = "progress" /\ Head(q) \in Terminal THEN Append(Tail(q), Head(q))
    ELSE Append(Tail(q), e)

Send(e) == conn' = [k \in Conns |->
    IF k \in Connected THEN [conn[k] EXCEPT !.queue = Put(conn[k].queue, e)] ELSE conn[k]]

Start ==
    /\ up /\ runner = "idle" /\ runs < MaxRuns
    /\ runner' = "streaming" /\ exec' = "running"
    /\ runs' = runs + 1 /\ sent' = 0
    /\ UNCHANGED <<up, crashes, conn, page>>

Progress ==
    /\ up /\ runner = "streaming" /\ sent < MaxProgress
    /\ sent' = sent + 1
    /\ Send("progress")
    /\ UNCHANGED <<up, crashes, exec, runner, runs, page>>

\* run_agent_graph tells the readers first, _run closes the row afterwards
GraphCompletes ==
    /\ up /\ runner = "streaming"
    /\ runner' = "completing"
    /\ Send("complete")
    /\ UNCHANGED <<up, crashes, exec, runs, sent, page>>

Record ==
    /\ up /\ runner = "completing"
    /\ runner' = "idle"
    /\ exec' \in {"succeeded", "failed"}
    /\ UNCHANGED <<up, crashes, runs, sent, conn, page>>

\* an exception is told twice: by run_agent_graph and, after the row, by _run
GraphRaises ==
    /\ up /\ runner = "streaming"
    /\ runner' = "failing"
    /\ Send("error")
    /\ UNCHANGED <<up, crashes, exec, runs, sent, page>>

RecordFailure ==
    /\ up /\ runner = "failing"
    /\ runner' = "failed" /\ exec' = "failed"
    /\ UNCHANGED <<up, crashes, runs, sent, conn, page>>

TellFailure ==
    /\ up /\ runner = "failed"
    /\ runner' = "idle"
    /\ Send("error")
    /\ UNCHANGED <<up, crashes, exec, runs, sent, page>>

\* pause or shutdown: the row is closed and no event is sent
Interrupt ==
    /\ up /\ runner \in {"streaming", "completing"}
    /\ runner' = "idle" /\ exec' = "interrupted"
    /\ UNCHANGED <<up, crashes, runs, sent, conn, page>>

\* every connection and every request under way ends with the process
Crash ==
    /\ up /\ crashes < MaxCrashes
    /\ up' = FALSE /\ crashes' = crashes + 1
    /\ runner' = "idle"
    /\ conn' = [k \in Conns |-> Free]
    /\ stream' = [c \in Clients |-> IF stream[c] = "open" THEN "delay" ELSE stream[c]]
    /\ UNCHANGED <<exec, runs, sent, view, fetch>>

\* the startup cleanup closes the row of the process that is gone
Restart ==
    /\ ~up
    /\ up' = TRUE
    /\ exec' = IF exec = "running" THEN "interrupted" ELSE exec
    /\ UNCHANGED <<crashes, runner, runs, sent, conn, page>>

-----------------------------------------------------------------------------
(* sse_generator: one loop per connection *)

\* the loop looks whether its reader is still there; when it is not, the finally
\* block takes the queue out of the manager
CheckReader(k) ==
    /\ conn[k].at = "check"
    /\ conn' = [conn EXCEPT ![k] = IF @.peer THEN [@ EXCEPT !.at = "wait"] ELSE Free]
    /\ UNCHANGED <<server, page>>

\* queue.get returns: the event is written, to a reader that may have gone.  A
\* terminal event ends the page's stream and asks for the status anew
Deliver(k) ==
    LET e == Head(conn[k].queue)
        c == conn[k].client
        ends == conn[k].peer /\ e \in Terminal
    IN
    /\ conn[k].at = "wait" /\ conn[k].queue # <<>>
    /\ conn' = [conn EXCEPT ![k].queue = Tail(@), ![k].at = "check",
                            ![k].peer = @ /\ ~ends]
    /\ IF ends THEN /\ stream' = [stream EXCEPT ![c] = "ended"]
                    /\ fetch' = [fetch EXCEPT ![c] = "asked"]
               ELSE UNCHANGED <<stream, fetch>>
    /\ UNCHANGED <<server, view>>

\* Mutant: queue.get waits without a time-out.
WaitOn(k) ==
    /\ conn[k].at = "wait" /\ conn[k].queue = <<>>
    /\ UNCHANGED vars

\* 30 seconds without an event: a comment line, and the loop looks again
Heartbeat(k) ==
    /\ conn[k].at = "wait" /\ conn[k].queue = <<>>
    /\ conn' = [conn EXCEPT ![k].at = "check"]
    /\ UNCHANGED <<server, page>>

-----------------------------------------------------------------------------
(* The page *)

\* Mutant: the effect's clean-up does not abort the request.
KeepReading(cs) == UNCHANGED conn

\* the connection a page gives up; the server does not notice yet
Hangup(cs) == conn' = [k \in Conns |->
    IF conn[k].client \in cs THEN [conn[k] EXCEPT !.peer = FALSE] ELSE conn[k]]

Open(c) ==
    /\ view[c] = "none"
    /\ view' = [view EXCEPT ![c] = "loading"]
    /\ fetch' = [fetch EXCEPT ![c] = "asked"]
    /\ UNCHANGED <<server, conn, stream>>

Leave(c) ==
    /\ view[c] # "none"
    /\ view' = [view EXCEPT ![c] = "none"]
    /\ fetch' = [fetch EXCEPT ![c] = "none"]
    /\ stream' = [stream EXCEPT ![c] = "off"]
    /\ Hangup({c})
    /\ UNCHANGED server

\* connect: stream_events accepts a reader, or answers 429 when zombies of
\* earlier connections and other pages use all the places
Connect(c) ==
    /\ up /\ stream[c] = "connecting"
    /\ IF Cardinality(Connected) >= MaxConns
       THEN /\ stream' = [stream EXCEPT ![c] = "delay"]
            /\ UNCHANGED conn
       ELSE LET k == CHOOSE j \in Conns \ Connected : TRUE IN
            /\ stream' = [stream EXCEPT ![c] = "open"]
            /\ conn' = [conn EXCEPT ![k] = [client |-> c, peer |-> TRUE,
                                            queue |-> <<>>, at |-> "check"]]
    /\ UNCHANGED <<server, view, fetch>>

\* the connection breaks, or there is no server
Break(c) ==
    /\ stream[c] = "open" \/ (stream[c] = "connecting" /\ ~up)
    /\ stream' = [stream EXCEPT ![c] = "delay"]
    /\ Hangup({c})
    /\ UNCHANGED <<server, view, fetch>>

Retry(c) ==
    /\ stream[c] = "delay"
    /\ stream' = [stream EXCEPT ![c] = "connecting"]
    /\ UNCHANGED <<server, conn, view, fetch>>

\* Mutant: the page does not poll while its effect is on.
PollWithoutStream(c) ==
    /\ view[c] = "running" /\ fetch[c] = "none"
    /\ stream[c] = "delay"
    /\ fetch' = [fetch EXCEPT ![c] = "asked"]
    /\ UNCHANGED <<server, conn, stream, view>>

\* refetchInterval: polled while the status shown is running
Poll(c) ==
    /\ view[c] = "running" /\ fetch[c] = "none"
    /\ fetch' = [fetch EXCEPT ![c] = "asked"]
    /\ UNCHANGED <<server, conn, stream, view>>

\* get_project_status: the latest execution decides, whatever the project row says
PublicStatus(s) == CASE s = "none" -> "pending"
                     [] s = "succeeded" -> "completed"
                     [] OTHER -> s

Answer(c) ==
    /\ up /\ fetch[c] = "asked"
    /\ fetch' = [fetch EXCEPT ![c] = PublicStatus(exec)]
    /\ UNCHANGED <<server, conn, stream, view>>

\* the answer is shown; the effect of useSSE runs when `enabled` has changed
Show(c) ==
    LET s == fetch[c] IN
    /\ s \in Shown
    /\ view' = [view EXCEPT ![c] = s]
    /\ fetch' = [fetch EXCEPT ![c] = "none"]
    /\ IF (s = "running") = (view[c] = "running")
       THEN UNCHANGED <<stream, conn>>
       ELSE /\ stream' = [stream EXCEPT ![c] = IF s = "running" THEN "connecting" ELSE "off"]
            /\ Hangup({c})
    /\ UNCHANGED server

\* without a server the request fails: a page that has shown nothing yet gives up
FetchFails(c) ==
    /\ ~up /\ fetch[c] = "asked"
    /\ fetch' = [fetch EXCEPT ![c] = "none"]
    /\ view' = [view EXCEPT ![c] = IF @ = "loading" THEN "error" ELSE @]
    /\ UNCHANGED <<server, conn, stream>>

-----------------------------------------------------------------------------
RunNext == Start \/ Progress \/ GraphCompletes \/ Record \/ GraphRaises
           \/ RecordFailure \/ TellFailure \/ Interrupt \/ Crash \/ Restart
LoopNext(k) == CheckReader(k) \/ Deliver(k) \/ Heartbeat(k)
PageNext(c) == Open(c) \/ Leave(c) \/ Connect(c) \/ Break(c) \/ Retry(c)
               \/ Poll(c) \/ Answer(c) \/ Show(c) \/ FetchFails(c)

Next == \/ RunNext
        \/ \E k \in Conns : LoopNext(k)
        \/ \E c \in Clients : PageNext(c)

\* The process restarts and closes its rows; the event loop runs every connection;
\* a page that polls goes on polling.  Nothing obliges a run to end, a page to
\* reconnect in time or a connection to hold.
Fairness ==
    /\ WF_vars(Record) /\ WF_vars(RecordFailure) /\ WF_vars(TellFailure) /\ WF_vars(Restart)
    /\ \A k \in Conns : WF_vars(LoopNext(k))
    /\ \A c \in Clients : WF_vars(Poll(c) \/ Answer(c) \/ Show(c) \/ FetchFails(c))

Spec == Init /\ [][Next]_vars /\ Fairness

-----------------------------------------------------------------------------
\* A terminal event that has been queued for a page is not displaced by later
\* events of any kind: it leaves the queue when it is written, or with the
\* connection, or replaced by another terminal event.  send_event's comment
\* promises it for progress events; the queue may be full and hold several.
HasTerminal(q) == \E i \in DOMAIN q : q[i] \in Terminal
TerminalStays(k) ==
    \/ ~HasTerminal(conn[k].queue)
    \/ HasTerminal(conn'[k].queue)
    \/ conn'[k].at = "free"
    \/ Head(conn[k].queue) \in Terminal /\ conn'[k].queue = Tail(conn[k].queue)
TerminalSurvives == [][\A k \in Conns : TerminalStays(k)]_vars

\* A page has one connection at most that the server may still write to, it has
\* one exactly while its effect is reading, and it has none unless it shows a run:
\* connections given up on the way (429, break, status change, closed tab) are
\* never revived or left behind by useSSE's clean-up.  Types are part of it.
OneLiveStream == TypeOK /\ \A c \in Clients :
    /\ Cardinality(LinkOf(c)) = (IF stream[c] = "open" THEN 1 ELSE 0)
    /\ stream[c] # "off" => view[c] = "running"

\* The place of a reader that has gone is given back: no zombie keeps
\* sse_max_connections_per_project exhausted.
PlacesReturn == \A k \in Conns :
    (conn[k].at # "free" /\ ~conn[k].peer) ~> (conn[k].at = "free")

\* A page never goes on showing a run that is over, though the terminal event may
\* have been lost, refused or read before the row was closed: "Status and progress
\* polling remain the authoritative recovery path" (ChatPage.tsx:142).
ViewSettles == \A c \in Clients :
    (view[c] = "running" /\ exec # "running") ~> (view[c] # "running" \/ exec = "running")
=============================================================================
