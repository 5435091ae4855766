-------------------------- MODULE ServerConnection --------------------------
(***************************************************************************)
(* The life of the connections of an HTTP server (web/src/server.c) over    *)
(* asynchronous connections: accept, read and parse, run the request        *)
(* pipeline, write the response, release; the upgrade to a WebSocket, which *)
(* takes the connection over; hang-ups of the peer at any point; and the    *)
(* shutdown of the server.                                                  *)
(*                                                                          *)
(* A connection has up to three heap objects that refer to each other: the  *)
(* bb_async_connection_t, the server's bb_server_task_data_t and, after an  *)
(* upgrade, the bb_websocket_t.  fault says that one of them was used or    *)
(* released again after its release; what follows is undefined.             *)
(***************************************************************************)
EXTENDS AsyncConnection

CONSTANTS
    Conns,         \* identities of connections, each accepted at most once
    ReqLen,        \* chunks of a request
    ResLen,        \* chunks of a response
    MaxSent        \* bound: chunks that a peer sends

ASSUME ServerAssumption ==
    /\ ReqLen \in Nat \ {0}
    /\ ResLen \in Nat \ {0}
    /\ MaxSent \in Nat

\* How the request pipeline ends with a response.
Answer == {"400", "404", "handler", "preFailed", "handlerFailed", "postFailed", "101"}

ServerConn == [
    data : Memory,                    \* the bb_server_task_data_t
    ws : Memory,                      \* the bb_websocket_t
    listed : BOOLEAN,                 \* in server->conn_list
    wsListed : BOOLEAN,               \* in server->ws_list
    closeCb : BOOLEAN,                \* ws->close_cb is _server_ws_closed
    answer : Answer \cup {"none"},    \* the response that was queued (ghost)
    sent : Nat,                       \* chunks of it that were written (ghost)
    received : Nat]                   \* chunks that the peer has sent (ghost)

VARIABLES
    io,        \* [Conns -> AsyncConn]
    own,       \* [Conns -> ServerConn]
    serverUp   \* the bb_server_t exists

vars == <<io, own, serverUp>>

Init ==
    /\ io = [c \in Conns |-> NoConnection]
    /\ own = [c \in Conns |->
                [data |-> "none", ws |-> "none", listed |-> FALSE,
                 wsListed |-> FALSE, closeCb |-> FALSE, answer |-> "none",
                 sent |-> 0, received |-> 0]]
    /\ serverUp = TRUE

-----------------------------------------------------------------------------
(* Releasing a connection.  These operators map a pair <<io, own>> of one    *)
(* connection to the next.                                                   *)

AllocResult == IF AllocMayFail THEN BOOLEAN ELSE {TRUE}

Pair(a, o) == [io |-> a, own |-> o]
Fault(p) == [p EXCEPT !.io.fault = TRUE]

\* bb_async_connection_destroy.  A disconnect callback that releases the
\* connection, called from here, releases it a second time.
AsyncDestroy(p) ==
    LET callback == \/ p.io.hook = "server"
                    \/ p.io.hook = "websocket" /\ p.own.closeCb
    IN IF p.io.async # "live" \/ (~ p.io.disconnected /\ callback)
       THEN Fault(p)
       ELSE [p EXCEPT !.io = [Disconnected(ConnectionDestroy(@)) EXCEPT !.async = "freed"]]

\* bb_websocket_destroy: the disconnect callback is removed first.
WebsocketDestroy(p) ==
    IF p.own.ws # "live" THEN Fault(p)
    ELSE [AsyncDestroy([p EXCEPT !.io.hook = "none"]) EXCEPT !.own.ws = "freed"]

\* _server_ws_closed
ServerWsClosed(p) == WebsocketDestroy([p EXCEPT !.own.wsListed = FALSE])

\* _server_clear_disconnect_hook
ClearHook(a) == [a EXCEPT !.hook = IF @ = "server" THEN "none" ELSE @]

\* The part that _server_task_data_cleanup and _server_conn_cleanup share.
ReleaseConnection(p) ==
    LET released == IF p.own.ws # "none" THEN WebsocketDestroy(p) ELSE AsyncDestroy(p)
    IN [released EXCEPT !.own.data = "freed"]

\* Mutant of TaskDataCleanup: the disconnect hook stays installed.
TaskDataCleanupKeepsHook(p) ==
    IF p.own.data # "live" \/ ~ serverUp THEN Fault(p)
    ELSE ReleaseConnection([p EXCEPT !.own.listed = FALSE])

\* _server_task_data_cleanup, which uses the server's conn_list
TaskDataCleanup(p) ==
    IF p.own.data # "live" \/ ~ serverUp THEN Fault(p)
    ELSE ReleaseConnection([p EXCEPT !.io = ClearHook(@), !.own.listed = FALSE])

\* _bb_async_connection_handle_disconnect with the owner's callback:
\* _server_on_disconnect or _bb_websocket_handle_disconnect.
HandleDisconnect(p) ==
    LET d == [p EXCEPT !.io = Disconnected(@)]
    IN IF p.io.disconnected THEN p
       ELSE IF p.io.hook = "server" THEN TaskDataCleanup(d)
       ELSE IF p.io.hook = "websocket" /\ p.own.closeCb THEN ServerWsClosed(d)
       ELSE d

\* bb_async_connection_close
AsyncClose(p) == HandleDisconnect([p EXCEPT !.io = ConnectionDestroy(@)])

-----------------------------------------------------------------------------
(* Reading a request *)

\* _server_create_write_task, and the read error that _server_read_step
\* returns when it fails
ServerCreateWriteTask(p) ==
    LET cleared == [p EXCEPT !.io = ClearHook(@)]
    IN {IF ok THEN [cleared EXCEPT !.io = CreateWriteTask(@)]
        ELSE TaskDataCleanup(cleared) : ok \in AllocResult}

\* _run_request_pipeline: a WebSocket route makes a bb_websocket_t, which
\* installs its own disconnect callback.
Pipeline(p, answer) ==
    IF ~ serverUp THEN Fault(p)
    ELSE IF answer = "101"
    THEN [p EXCEPT !.io.hook = "websocket", !.io.len = 0, !.own.ws = "live"]
    ELSE p

\* The end of _server_read_step: the response is serialised and queued, reading
\* stops and writing starts.
Respond(p, answer) ==
    LET done == Pipeline(p, answer)
        filled == [done.io EXCEPT !.out = @ + ResLen, !.state = "WRITING"]
        queued == [done EXCEPT !.io = PauseRead(filled), !.own.answer = answer]
    IN UNION {IF ok THEN ServerCreateWriteTask(queued) ELSE {TaskDataCleanup(done)} :
                 ok \in AllocResult}

\* Mutant of ReadStep: a request of exactly the expected length is incomplete.
ReadStepOffByOne(p) ==
    {TaskDataCleanup(p)}
    \cup (IF p.io.len <= ReqLen THEN {p}
          ELSE UNION {Respond(p, answer) : answer \in Answer})

\* _server_read_step and, when it returns an error, _server_read_error: the
\* parser may refuse any input; a request that is complete is answered, unless
\* an upgrade is refused.
ReadStep(p) ==
    {TaskDataCleanup(p)}
    \cup (IF p.io.len < ReqLen THEN {p}
          ELSE UNION {Respond(p, answer) : answer \in Answer})

\* _bb_async_connection_rewatch_read
ServerRewatchRead(p, e) ==
    {IF ok THEN [p EXCEPT !.io = RewatchRead(@, e)]
     ELSE TaskDataCleanup([p EXCEPT !.io = CancelRead(@)]) : ok \in AllocResult}

\* _bb_read_task, after bb_connection_read
AfterRead(p, err, wants) ==
    CASE err = "closed" -> {HandleDisconnect(p)}
      [] err = "error" -> {TaskDataCleanup([p EXCEPT !.io = CancelRead(@)])}
      [] OTHER -> IF wants # p.io.readOn THEN ServerRewatchRead(p, wants)
                  ELSE IF p.io.state = "HANDSHAKE" THEN {p}
                  ELSE ReadStep(p)

-----------------------------------------------------------------------------
(* Writing the response *)

\* Mutant of HandOver: the connection stays in conn_list.
HandOverStaysListed(p) ==
    LET session == [p EXCEPT !.own.wsListed = TRUE, !.own.closeCb = TRUE]
    IN {[session EXCEPT !.io = CreateReadTask(@), !.own.data = "freed"]}

\* The end of _server_after_write for a WebSocket
FreeTaskData(p) ==
    [p EXCEPT !.own = [@ EXCEPT !.listed = FALSE, !.data = "freed"]]

\* _server_after_write: a WebSocket takes the connection over.  Adding it to
\* ws_list may fail, and so may its read task.
HandOver(p) ==
    LET session == [p EXCEPT !.own = [@ EXCEPT !.wsListed = TRUE, !.closeCb = TRUE]]
    IN {FreeTaskData([session EXCEPT !.io = CreateReadTask(@)])}
       \cup (IF AllocMayFail
             THEN {FreeTaskData(WebsocketDestroy(p)),
                   FreeTaskData(ServerWsClosed(AsyncClose(session)))}
             ELSE {})

AfterWrite(p) == IF p.own.ws # "none" THEN HandOver(p) ELSE {TaskDataCleanup(p)}

\* _bb_async_connection_rewatch_write
ServerRewatchWrite(p, e) ==
    {IF ok THEN [p EXCEPT !.io = RewatchWrite(@, e)]
     ELSE TaskDataCleanup([p EXCEPT !.io = [CancelWrite(@, TRUE) EXCEPT !.pending = FALSE]]) :
        ok \in AllocResult}

\* Mutant of AfterConnectionWrite: the write is over although data is left.
AfterConnectionWriteCutsShort(p, err, wants) ==
    LET cancelled == [p EXCEPT !.io = CancelWrite(@, FALSE)]
    IN CASE err = "closed" -> {TaskDataCleanup(HandleDisconnect(cancelled))}
         [] err = "error" -> {TaskDataCleanup(cancelled)}
         [] OTHER -> IF wants # p.io.writeOn THEN ServerRewatchWrite(p, wants)
                     ELSE AfterWrite(cancelled)

\* _bb_write_task, after bb_connection_write
AfterConnectionWrite(p, err, wants) ==
    LET cancelled == [p EXCEPT !.io = CancelWrite(@, FALSE)]
    IN CASE err = "closed" -> {TaskDataCleanup(HandleDisconnect(cancelled))}
         [] err = "error" -> {TaskDataCleanup(cancelled)}
         [] OTHER -> IF wants # p.io.writeOn THEN ServerRewatchWrite(p, wants)
                     ELSE IF p.io.out > 0 THEN {p}
                     ELSE AfterWrite(cancelled)

-----------------------------------------------------------------------------
(* Actions *)

Becomes(c, p) ==
    /\ io' = [io EXCEPT ![c] = p.io]
    /\ own' = [own EXCEPT ![c] = p.own]
    /\ UNCHANGED serverUp

\* _server_create_read_task: conn_list_add may fail, which is ignored.
ServerCreateReadTask(p) ==
    LET installed == [p EXCEPT !.io.hook = "server", !.own.data = "live"]
    IN {[installed EXCEPT !.io = CreateReadTask(@), !.own.listed = listed] :
           listed \in AllocResult}
       \cup (IF AllocMayFail
             THEN {AsyncDestroy(p), AsyncDestroy([installed EXCEPT !.own.data = "freed"])}
             ELSE {})

\* One iteration of _server_accept_task
Accept(c) ==
    /\ serverUp
    /\ io[c].async = "none"
    /\ \E p \in ServerCreateReadTask(Pair(Accepted(io[c]), own[c])) : Becomes(c, p)

\* The read task of a connection that the server owns
ReadTask(c) ==
    /\ io[c].async = "live"
    /\ own[c].data = "live"
    /\ ~ io[c].fault
    /\ io[c].watch[io[c].readOn] = "read"
    /\ Ready(io[c], io[c].readOn)
    /\ \E o \in ConnectionRead(io[c]) :
          \E p \in AfterRead(Pair(o.conn, own[c]), o.err, o.wants) : Becomes(c, p)

WriteTask(c) ==
    /\ io[c].async = "live"
    /\ own[c].data = "live"
    /\ ~ io[c].fault
    /\ io[c].watch[io[c].writeOn] = "write"
    /\ Ready(io[c], io[c].writeOn)
    /\ \E o \in ConnectionWrite(io[c]) :
          LET written == [own[c] EXCEPT !.sent = @ + (io[c].out - o.conn.out)]
          IN \E p \in AfterConnectionWrite(Pair(o.conn, written), o.err, o.wants) :
                Becomes(c, p)

\* The WebSocket session closes its connection, which calls _server_ws_closed.
SessionEnds(c) ==
    /\ own[c].wsListed
    /\ ~ io[c].fault
    /\ Becomes(c, AsyncClose(Pair(io[c], own[c])))

\* The peer sends a chunk, reads one, sends a TLS message without data (of the
\* handshake or for a write that waits for one), or closes its socket.
PeerSends(c) ==
    /\ io[c].open
    /\ ~ io[c].peerClosed
    /\ own[c].received < MaxSent
    /\ io' = [io EXCEPT ![c].inbox = @ + 1]
    /\ own' = [own EXCEPT ![c].received = @ + 1]
    /\ UNCHANGED serverUp

PeerReads(c) ==
    /\ io[c].open
    /\ ~ io[c].peerClosed
    /\ io[c].outbox > 0
    /\ io' = [io EXCEPT ![c].outbox = @ - 1]
    /\ UNCHANGED <<own, serverUp>>

PeerSendsRecord(c) ==
    /\ Tls
    /\ io[c].open
    /\ ~ io[c].peerClosed
    /\ ~ io[c].record
    /\ io' = [io EXCEPT ![c].record = TRUE]
    /\ UNCHANGED <<own, serverUp>>

PeerCloses(c) ==
    /\ io[c].open
    /\ ~ io[c].peerClosed
    /\ io' = [io EXCEPT ![c].peerClosed = TRUE]
    /\ UNCHANGED <<own, serverUp>>

\* _server_conn_cleanup, and bb_ws_list_destroy for the sessions
Shutdown(p) ==
    IF p.own.listed THEN [ReleaseConnection([p EXCEPT !.io = ClearHook(@)])
                             EXCEPT !.own.listed = FALSE]
    ELSE IF p.own.wsListed THEN [WebsocketDestroy(p) EXCEPT !.own.wsListed = FALSE]
    ELSE p

\* bb_server_destroy
ServerDestroy ==
    /\ serverUp
    /\ serverUp' = FALSE
    /\ io' = [c \in Conns |-> Shutdown(Pair(io[c], own[c])).io]
    /\ own' = [c \in Conns |-> Shutdown(Pair(io[c], own[c])).own]

Terminated == ~ serverUp /\ UNCHANGED vars

Next ==
    \/ \E c \in Conns : Accept(c)
    \/ \E c \in Conns : ReadTask(c)
    \/ \E c \in Conns : WriteTask(c)
    \/ \E c \in Conns : SessionEnds(c)
    \/ \E c \in Conns : PeerSends(c)
    \/ \E c \in Conns : PeerReads(c)
    \/ \E c \in Conns : PeerSendsRecord(c)
    \/ \E c \in Conns : PeerCloses(c)
    \/ ServerDestroy
    \/ Terminated

Spec == Init /\ [][Next]_vars

\* The poller is level-triggered and the runtime gives every woken task its
\* turn (module Runtime).  Nothing is assumed of the peer: it need not send,
\* read or close, and a task that waits for it does not run.
Fairness == \A c \in Conns : WF_vars(ReadTask(c)) /\ WF_vars(WriteTask(c))
FairSpec == Spec /\ Fairness

-----------------------------------------------------------------------------
(* Properties *)

\* Type invariant of the connections' state.
TypeOK ==
    /\ io \in [Conns -> AsyncConn]
    /\ own \in [Conns -> ServerConn]
    /\ serverUp \in BOOLEAN

\* No object of a connection is used or released after its release.  The comment
\* on _server_clear_disconnect_hook: the hook "is removed before any other
\* teardown or write path, so it can never run a second cleanup".
NoSecondCleanup == \A c \in Conns : ~ io[c].fault

\* Every connection that exists has one owner that will release it: the task
\* data, which is then in conn_list, or a session in ws_list.  So the gauges
\* of bb_server_get_metrics count what exists, and bb_server_destroy finds
\* everything.  Holds when no allocation fails.
OneOwner ==
    \A c \in Conns :
        /\ own[c].listed <=> own[c].data = "live"
        /\ own[c].wsListed <=> own[c].ws = "live" /\ own[c].data # "live"
        /\ io[c].async = "live" <=> own[c].listed \/ own[c].wsListed
        /\ ~ serverUp => io[c].async # "live"

\* The server's disconnect hook is installed in the read phase and only there
\* (the same comment): then a peer that hangs up is noticed by exactly one of
\* the hook and the write task's failure callback.
HookWhileReading ==
    \A c \in Conns :
        /\ io[c].hook = "server" =>
              /\ own[c].data = "live"
              /\ ~ io[c].writeTask
        /\ own[c].data = "live" /\ io[c].readTask => io[c].hook = "server"

\* A task pointer is set exactly while the task is watched, in the direction
\* that is remembered, and write_pending says whether a write is in flight,
\* also across a direction flip (comment in _bb_write_task_cleanup).
TasksMatchWatchers ==
    \A c \in Conns : io[c].async = "live" =>
        /\ \A e \in Event :
              /\ io[c].watch[e] = "read" <=> io[c].readTask /\ io[c].readOn = e
              /\ io[c].watch[e] = "write" <=> io[c].writeTask /\ io[c].writeOn = e
        /\ io[c].pending <=> io[c].writeTask

\* A connection of the server is always driven by exactly one task: it neither
\* idles without a watcher nor reads the next request while it responds.
AlwaysDriven ==
    \A c \in Conns : own[c].data = "live" =>
        /\ io[c].readTask # io[c].writeTask
        /\ io[c].writeTask <=> own[c].answer # "none"

\* A connection is released with a response only when all of it has been
\* written, unless the peer hung up or the server was shut down ("no bytes are
\* discarded", docs/web/tls.md).  Holds when no allocation fails.
ResponseComplete ==
    [][\A c \in Conns :
          /\ own[c].data = "live" /\ own'[c].data = "freed"
          /\ own[c].answer # "none"
          /\ ~ io[c].peerClosed
          /\ serverUp'
          => own'[c].sent = ResLen]_vars

\* "A client that closes before a response is written must not leave its
\* connection behind" (test_connection_eof_cleanup.c): a connection whose peer
\* hung up is released, or has become a WebSocket session.
HangUpIsNoticed ==
    \A c \in Conns :
        io[c].open /\ io[c].peerClosed ~> io[c].async = "freed" \/ own[c].wsListed

\* A request that has been read completely is answered: the read task "resumes
\* the original operation" (docs/web/tls.md) or the connection is released.
RequestGetsAnswer ==
    \A c \in Conns :
        own[c].data = "live" /\ io[c].len >= ReqLen
           ~> own[c].answer # "none" \/ own[c].data = "freed"

\* What a write waits for has come: the peer made room in the socket or sent the
\* TLS message, or it closed its socket.
WriteCanGoOn(c) ==
    \/ io[c].peerClosed
    \/ io[c].writeOn = "WRITE" /\ io[c].outbox < SockCap
    \/ io[c].writeOn = "READ" /\ io[c].record

\* A response that was queued is written, or the connection is released, for a
\* peer that gives again and again what the write waits for: no partial write and
\* no direction flip leaves the rest of it without a task ("the retry resumes
\* cleanly", comment in bb_connection_write).  The server has no timeout for
\* writes, and a peer that stays and stops reading holds its response for ever.
ResponseIsWritten ==
    \A c \in Conns :
        ([]<> WriteCanGoOn(c)) =>
            (own[c].data = "live" /\ own[c].answer # "none" ~> own[c].data = "freed")

====
