--------------------------- MODULE WebSocketSession ---------------------------
(***************************************************************************)
(* A WebSocket session between two programs of this library                *)
(* (web/src/websocket/websocket.c): the client writes its upgrade request   *)
(* and reads the answer, both sides exchange messages and control frames    *)
(* over a socket of bounded capacity, the server's heartbeat pings, either  *)
(* side closes, and either side may vanish without closing its socket.      *)
(* How the server gets to its answer is module ServerConnection's subject   *)
(* and one step here.                                                       *)
(*                                                                          *)
(* A frame has a length in chunks.  The stream towards a side is the        *)
(* sequence of frames that it has not taken yet; how much of it the sender  *)
(* still holds, is in the socket, or is in the receiver's buffer, are the   *)
(* counters out, inbox and len of the two connections.                      *)
(***************************************************************************)
EXTENDS AsyncConnection, Sequences, FiniteSetsExt

CONSTANTS
    MaxMsgs,       \* bound: messages that each side sends
    MsgLen,        \* lengths of a message, in chunks
    Answers,       \* what the server answers to the upgrade request
    MaxMissed      \* max_missed_pongs of the server's heartbeat; 0 disables it

ASSUME SessionAssumption ==
    /\ MaxMsgs \in [{"client", "server"} -> Nat]
    /\ MsgLen \subseteq Nat \ {0}
    /\ Answers \subseteq {"101", "404", "malformed", "none"}
    /\ MaxMissed \in Nat

Sides == {"client", "server"}
Peer(s) == IF s = "client" THEN "server" ELSE "client"

VARIABLES
    io,        \* [Sides -> AsyncConn]
    ws,        \* [Sides -> bb_websocket_t]
    wire,      \* [Sides -> sequence of the frames on their way to the side]
    gone       \* sides that vanished

vars == <<io, ws, wire, gone>>

Frame(op, id, n) == [op |-> op, id |-> id, len |-> n]

\* Where each frame of a stream ends, in chunks
Ends(frames) ==
    LET end[k \in 0 .. Len(frames)] == IF k = 0 THEN 0 ELSE end[k - 1] + frames[k].len
    IN end

\* bb_websocket_create_on_runtime and bb_websocket_create_with_type
Session(phase) == [
    mem |-> IF phase = "http" THEN "none" ELSE "live",    \* the bb_websocket_t
    phase |-> phase,
    heartbeat |-> FALSE,  \* heartbeat_task # NULL
    waiting |-> FALSE,    \* waiting_for_pong
    missed |-> 0,         \* missed_pongs
    sent |-> 0,           \* messages queued (ghost)
    closes |-> 0,         \* bound: a program closes once
    got |-> <<>>,         \* messages that reached the handler (ghost)
    silent |-> 0]         \* ticks since the last frame (ghost)

\* After bb_websocket_connect: the client has queued its upgrade request, and
\* the server has accepted the connection.
Init ==
    LET connected == [Accepted(NoConnection) EXCEPT !.hook = "websocket", !.out = 1]
    IN /\ io = [client |-> CreateWriteTask(connected), server |-> Accepted(NoConnection)]
       /\ ws = [client |-> Session("request"), server |-> Session("http")]
       /\ wire = [client |-> <<>>, server |-> <<Frame("GET", 0, 1)>>]
       /\ gone = {}

\* A handler maps the world to a set of possible next ones.
World == [io |-> io, ws |-> ws, wire |-> wire]
Fault(w, s) == [w EXCEPT !.io[s].fault = TRUE]

-----------------------------------------------------------------------------
(* Closing *)

\* bb_async_connection_destroy without a disconnect callback
AsyncDestroy(w, s) ==
    IF w.io[s].async # "live" THEN Fault(w, s)
    ELSE [w EXCEPT !.io[s] = [Disconnected(ConnectionDestroy(@)) EXCEPT !.async = "freed"]]

\* bb_websocket_destroy
WebsocketDestroy(w, s) ==
    IF w.ws[s].mem # "live" THEN Fault(w, s)
    ELSE LET quiet == [w EXCEPT !.io[s].hook = "none", !.ws[s].heartbeat = FALSE]
         IN [AsyncDestroy(quiet, s) EXCEPT !.ws[s].mem = "freed"]

\* Mutant of HandleDisconnect: the server is not told.
HandleDisconnectSilently(w, s) ==
    IF w.io[s].disconnected THEN w ELSE [w EXCEPT !.io[s] = Disconnected(@)]

\* _bb_async_connection_handle_disconnect with _bb_websocket_handle_disconnect:
\* the server's close callback, _server_ws_closed, destroys the session.
HandleDisconnect(w, s) ==
    LET d == [w EXCEPT !.io[s] = Disconnected(@)]
    IN IF w.io[s].disconnected THEN w
       ELSE IF s = "server" /\ w.io[s].hook = "websocket" THEN WebsocketDestroy(d, s)
       ELSE d

\* bb_async_connection_close
AsyncClose(w, s) ==
    IF w.io[s].async # "live" \/ w.ws[s].mem # "live" THEN Fault(w, s)
    ELSE HandleDisconnect([w EXCEPT !.io[s] = ConnectionDestroy(@)], s)

-----------------------------------------------------------------------------
(* Sending *)

\* bb_connection_write into the socket whose other end is the peer's inbox; it
\* takes as many chunks as fit.  Every result is [w, err, wants].
Written(w, s) ==
    LET c == w.io[s]
        room == IF w.io[Peer(s)].open THEN SockCap - w.io[Peer(s)].inbox ELSE c.out
        Deliver(n) == IF w.io[Peer(s)].open THEN n ELSE 0
    IN {[w |-> [w EXCEPT !.io[s] = [o.conn EXCEPT !.outbox = 0],
                         !.io[Peer(s)].inbox = @ + Deliver(c.out - o.conn.out)],
         err |-> o.err, wants |-> o.wants] :
           o \in {x \in ConnectionWrite([c EXCEPT !.outbox = w.io[Peer(s)].inbox]) :
                    c.out - x.conn.out = IF x.err = "ok" THEN Min({c.out, room}) ELSE 0}}

\* bb_websocket_queue_frame
QueueFrame(w, s, f) ==
    [w EXCEPT !.io[s].out = @ + f.len, !.wire[Peer(s)] = Append(@, f),
              !.ws[s].sent = IF f.op = "TEXT" THEN f.id ELSE @]

\* bb_websocket_send_*: the frame is queued and written at once as far as the
\* socket takes it.  Out of memory the frame is not queued, and is released
\* twice when the write buffer's node cannot be allocated.
Send(w, s, f) ==
    IF ~ w.io[s].open THEN {[w |-> w, ok |-> FALSE]}
    ELSE {[w |-> x.w, ok |-> x.err = "ok"] : x \in Written(QueueFrame(w, s, f), s)}
         \cup (IF AllocMayFail THEN {[w |-> w, ok |-> FALSE], [w |-> Fault(w, s), ok |-> FALSE]}
               ELSE {})

\* bb_websocket_send_text and bb_websocket_send_binary
SendMessage(w, s, n) == {r.w : r \in Send(w, s, Frame("TEXT", w.ws[s].sent + 1, n))}

\* bb_websocket_send_close
SendClose(w, s) ==
    {IF r.ok THEN AsyncClose(r.w, s) ELSE r.w : r \in Send(w, s, Frame("CLOSE", 0, 1))}

-----------------------------------------------------------------------------
(* Receiving.  The loop of _websocket_read_step maps a pair of a world and    *)
(* whether the step has returned.                                            *)

At(w, done) == [w |-> w, done |-> done]

\* The handler takes a message and may answer it with a message.
Handler(w, s, f) ==
    LET taken == [w EXCEPT !.ws[s].got = Append(@, f.id)]
    IN {taken} \cup (IF w.io[s].open /\ w.ws[s].sent < MaxMsgs[s]
                     THEN UNION {SendMessage(taken, s, n) : n \in MsgLen}
                     ELSE {})

\* Mutant of OnFrame: only a pong shows that the peer is alive.
OnFramePongOnly(st, s, f) ==
    LET w == IF f.op = "PONG"
             THEN [st.w EXCEPT !.ws[s] = [@ EXCEPT !.waiting = FALSE, !.missed = 0, !.silent = 0]]
             ELSE [st.w EXCEPT !.ws[s].silent = 0]
    IN IF st.done THEN {st} ELSE
       CASE f.op = "TEXT" -> {At(x, FALSE) : x \in Handler(w, s, f)}
         [] f.op = "PING" -> {At(r.w, FALSE) : r \in Send(w, s, Frame("PONG", 0, 1))}
         [] f.op = "CLOSE" -> {At(x, TRUE) : x \in SendClose(w, s)}
         [] OTHER -> {At(w, FALSE)}

\* Mutant of OnFrame: answering a ping ends the loop.
OnFrameReturnsAtPing(st, s, f) ==
    LET w == [st.w EXCEPT !.ws[s] = [@ EXCEPT !.waiting = FALSE, !.missed = 0, !.silent = 0]]
    IN IF st.done THEN {st} ELSE
       CASE f.op = "TEXT" -> {At(x, FALSE) : x \in Handler(w, s, f)}
         [] f.op = "PING" -> {At(r.w, TRUE) : r \in Send(w, s, Frame("PONG", 0, 1))}
         [] f.op = "CLOSE" -> {At(x, TRUE) : x \in SendClose(w, s)}
         [] OTHER -> {At(w, FALSE)}

\* One iteration of the loop: any frame shows that the peer is alive.
OnFrame(st, s, f) ==
    LET w == [st.w EXCEPT !.ws[s] = [@ EXCEPT !.waiting = FALSE, !.missed = 0, !.silent = 0]]
    IN IF st.done THEN {st} ELSE
       CASE f.op = "TEXT" -> {At(x, FALSE) : x \in Handler(w, s, f)}
         [] f.op = "PING" -> {At(r.w, FALSE) : r \in Send(w, s, Frame("PONG", 0, 1))}
         [] f.op = "CLOSE" -> {At(x, TRUE) : x \in SendClose(w, s)}
         [] OTHER -> {At(w, FALSE)}

\* How many frames of the stream lie completely in the first len chunks
WholeFrames(frames, len) ==
    Max({k \in 0 .. Len(frames) : Ends(frames)[k] <= len})

\* Mutant of Take: the last frame stays in the buffer.
TakeKeepsLast(w, s, k) ==
    [w EXCEPT !.io[s].len = @ - Ends(w.wire[s])[k - 1],
              !.wire[s] = SubSeq(@, k, Len(@))]
\* bb_websocket_read_frames, when it has k whole frames
Take(w, s, k) ==
    [w EXCEPT !.io[s].len = @ - Ends(w.wire[s])[k],
              !.wire[s] = SubSeq(@, k + 1, Len(@))]

\* The end of _websocket_read_step: what could not be written gets a write task.
AfterFrames(st, s) ==
    IF st.done \/ ~ st.w.io[s].open \/ st.w.io[s].out = 0 THEN {st.w}
    ELSE {[st.w EXCEPT !.io[s] = CreateWriteTask(@)]}
         \cup (IF AllocMayFail THEN {AsyncClose(st.w, s)} ELSE {})

\* The states of the loop after each of the k frames
LoopStates(w, s, k) ==
    LET after[i \in 0 .. k] ==
           IF i = 0 THEN {At(Take(w, s, k), FALSE)}
           ELSE UNION {OnFrame(st, s, w.wire[s][i]) : st \in after[i - 1]}
    IN after

\* _websocket_read_step
ReadStep(w, s) ==
    LET k == WholeFrames(w.wire[s], w.io[s].len)
    IN IF k = 0 THEN {w}
       ELSE (UNION {AfterFrames(st, s) : st \in LoopStates(w, s, k)[k]})
            \cup (IF AllocMayFail THEN {AsyncClose(w, s)} ELSE {})

\* _bb_ws_handshake_read_error
HandshakeReadError(w, s) ==
    [AsyncDestroy(w, s) EXCEPT !.ws[s].phase = "failed"]

\* _bb_ws_handshake_read_step: every answer that is a complete HTTP response ends
\* the handshake with success, whatever its status.  The buffer is emptied, with
\* whatever follows the answer in it.
HandshakeReadStep(w, s) ==
    LET k == WholeFrames(w.wire[s], w.io[s].len)
    IN IF w.io[s].len = 0 THEN {w}
       ELSE IF w.wire[s][1].op = "malformed" THEN {HandshakeReadError(w, s)}
       ELSE {[w EXCEPT !.io[s].len = 0, !.wire[s] = SubSeq(@, k + 1, Len(@)),
                       !.ws[s].phase = "open"]}

\* _bb_ws_handshake_write_failed
HandshakeWriteFailed(w, s) ==
    LET released == IF w.io[s].open THEN AsyncDestroy(w, s) ELSE w
    IN [released EXCEPT !.ws[s].phase = "failed"]

\* _websocket_read_error or _bb_ws_handshake_read_error
ReadError(w, s) ==
    IF w.ws[s].phase = "handshake" THEN HandshakeReadError(w, s) ELSE AsyncClose(w, s)

-----------------------------------------------------------------------------
(* Actions *)

\* The side is running and its state is defined.
Runs(s) == s \notin gone /\ io[s].async = "live" /\ ~ io[s].fault

\* The world becomes w.  A side that closes its socket sends the end of stream
\* after its data; what the socket still held for it is lost.
Becomes(w) ==
    /\ io' = [s \in Sides |->
                [w.io[s] EXCEPT !.peerClosed = @ \/ ~ w.io[Peer(s)].open,
                                !.inbox = IF w.io[s].open THEN @ ELSE 0]]
    /\ ws' = w.ws
    /\ wire' = w.wire
    /\ UNCHANGED gone

\* _bb_read_task of a session
ReadTask(s) ==
    /\ Runs(s)
    /\ io[s].watch["READ"] = "read"
    /\ Ready(io[s], "READ")
    /\ \E o \in ConnectionRead(io[s]) :
          LET w == [World EXCEPT !.io[s] = o.conn]
          IN CASE o.err = "closed" -> Becomes(HandleDisconnect(w, s))
               [] o.err = "error" -> Becomes(ReadError([w EXCEPT !.io[s] = CancelRead(@)], s))
               [] OTHER -> \E next \in IF ws[s].phase = "handshake"
                                       THEN HandshakeReadStep(w, s)
                                       ELSE ReadStep(w, s) : Becomes(next)

\* _websocket_write_error or _bb_ws_handshake_write_failed
WriteError(w, s) ==
    IF w.ws[s].phase = "request" THEN HandshakeWriteFailed(w, s) ELSE AsyncClose(w, s)

\* _websocket_after_write, which finds a read task, or _bb_ws_handshake_write_done
WriteDone(w, s) ==
    [w EXCEPT !.io[s] = CreateReadTask(@),
              !.ws[s].phase = IF @ = "request" THEN "handshake" ELSE @]

\* _bb_write_task.  The socket is writable.
WriteTask(s) ==
    /\ Runs(s)
    /\ io[s].watch["WRITE"] = "write"
    /\ io[Peer(s)].inbox < SockCap \/ io[s].peerClosed
    /\ \E x \in Written(World, s) :
          LET stopped == [x.w EXCEPT !.io[s] = CancelWrite(@, FALSE)]
          IN CASE x.err = "closed" -> Becomes(WriteError(HandleDisconnect(stopped, s), s))
               [] x.err = "error" -> Becomes(WriteError(stopped, s))
               [] OTHER -> Becomes(IF x.w.io[s].out > 0 THEN x.w ELSE WriteDone(stopped, s))

\* The server reads the request and writes its answer, or closes the connection
\* with another answer or none; with a 101, _server_after_write starts the
\* session and its heartbeat.
ServerAnswers ==
    /\ Runs("server")
    /\ ws["server"].phase = "http"
    /\ io["server"].inbox > 0
    /\ \E answer \in Answers :
          LET read == [io |-> [io EXCEPT !["server"].inbox = @ - 1,
                                         !["client"].inbox = IF answer = "none" THEN @ ELSE 1],
                       ws |-> ws,
                       wire |-> [wire EXCEPT
                                   !["server"] = Tail(@),
                                   !["client"] = IF answer = "none" THEN @
                                                 ELSE <<Frame(answer, 0, 1)>>]]
          IN IF answer # "101" THEN Becomes(AsyncDestroy(read, "server"))
             ELSE Becomes([read EXCEPT
                    !.io.server = CreateReadTask([@ EXCEPT !.hook = "websocket"]),
                    !.ws.server = [Session("open") EXCEPT !.heartbeat = MaxMissed > 0]])

\* missed_pongs at a tick
Missed(w) == IF w.waiting THEN w.missed + 1 ELSE w.missed

\* _bb_websocket_heartbeat_tick, every heartbeat_interval_ms
HeartbeatTick(s) ==
    /\ Runs(s)
    /\ ws[s].heartbeat
    /\ LET n == Missed(ws[s])
           w == [World EXCEPT !.ws[s] = [@ EXCEPT !.missed = n, !.waiting = TRUE,
                                                  !.silent = ws[s].silent + 1]]
       IN IF ws[s].waiting /\ n >= MaxMissed THEN Becomes(AsyncClose(World, s))
          ELSE \E r \in Send(w, s, Frame("PING", 0, 1)) : Becomes(r.w)

\* The program has the session: a client since its handshake, a server since
\* the first message; and its close callback has not been called.
Held(s) ==
    /\ Runs(s)
    /\ ws[s].phase = "open"
    /\ s = "server" => ws[s].got # <<>>
    /\ io[s].open
    /\ ~ io[s].disconnected

\* The program sends a message.
AppSends(s) ==
    /\ Held(s)
    /\ ws[s].sent < MaxMsgs[s]
    /\ \E n \in MsgLen : \E w \in SendMessage(World, s, n) : Becomes(w)

\* The program closes the session, outside of a callback.
AppCloses(s) ==
    /\ Held(s)
    /\ ws[s].closes = 0
    /\ \E w \in SendClose([World EXCEPT !.ws[s].closes = 1], s) : Becomes(w)

\* The peer's machine or its network is lost.
Vanishes(s) ==
    /\ gone = {}
    /\ gone' = {s}
    /\ UNCHANGED <<io, ws, wire>>

Next ==
    \/ \E s \in Sides : ReadTask(s)
    \/ \E s \in Sides : WriteTask(s)
    \/ ServerAnswers
    \/ \E s \in Sides : HeartbeatTick(s)
    \/ \E s \in Sides : AppSends(s)
    \/ \E s \in Sides : AppCloses(s)
    \/ \E s \in Sides : Vanishes(s)

\* The runtime gives every watcher and timer its turn (module Runtime).
Fairness ==
    /\ WF_vars(ServerAnswers)
    /\ \A s \in Sides : WF_vars(ReadTask(s)) /\ WF_vars(WriteTask(s)) /\ WF_vars(HeartbeatTick(s))

Spec == Init /\ [][Next]_vars
FairSpec == Spec /\ Fairness

-----------------------------------------------------------------------------
(* Properties *)

\* The handler gets the messages in the order in which they were sent, without
\* a gap and without a repetition ("Message callbacks are invoked whenever a
\* complete WebSocket message has been received", docs/web/websockets.md),
\* however reads and writes cut the stream.
MessagesInOrder ==
    \A s \in Sides :
        /\ Len(ws[s].got) <= ws[Peer(s)].sent
        /\ \A i \in DOMAIN ws[s].got : ws[s].got[i] = i

\* The heartbeat tears a session down only "after max_missed_pongs consecutive
\* intervals with no reply" (websocket.h): no frame was taken during that many
\* intervals.
KillsOnlySilent ==
    [][\A s \in Sides :
          HeartbeatTick(s) /\ io[s].open /\ ~ io'[s].open => ws[s].silent >= MaxMissed]_vars

\* With a heartbeat, a session whose peer has closed or vanished is torn down,
\* and on the server released ("the connection is treated as dead and torn down
\* exactly like a real disconnect", websocket.h).
LostPeerIsNoticed ==
    /\ ws["server"].mem = "live" /\ (~ io["client"].open \/ "client" \in gone)
          ~> io["server"].async = "freed" \/ "server" \in gone \/ io["server"].fault
    /\ ~ io["server"].open ~> io["client"].disconnected \/ "client" \in gone

\* With the server's heartbeat, every message that a side sends reaches the
\* other side's handler or the session ends, although bb_websocket_send_* leaves
\* the part of a write that the socket did not take to a later event.
MessagesArrive ==
    \A s \in Sides : \A i \in 1 .. MaxMsgs[s] :
        ws[s].sent >= i ~> \/ Len(ws[Peer(s)].got) >= i
                           \/ gone # {}
                           \/ \E e \in Sides : ~ io[e].open \/ io[e].disconnected \/ io[e].fault

====
