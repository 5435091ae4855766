--------------------------- MODULE AsyncConnection ---------------------------
(***************************************************************************)
(* One asynchronous connection (web/src/connection/async_connection.c over  *)
(* connection.c): a descriptor with at most one read task and one write     *)
(* task, each registered for one direction of readiness, and a disconnect   *)
(* callback of its owner.                                                   *)
(*                                                                          *)
(* The runtime runs one task at a time to its end, so that a handler is a   *)
(* map from the connection's state to its next state.  Each operator here   *)
(* is one function of the source; the owner's module composes them with its *)
(* callbacks.  Of the runtime they use what module Runtime shows: a watcher *)
(* for the same descriptor and mask is replaced and its task cancelled, and *)
(* cancelling calls the task's cleanup and removes its watcher.             *)
(***************************************************************************)
EXTENDS Naturals

CONSTANTS
    Tls,           \* connections are upgraded to TLS after accept
    BufLimit,      \* BB_CONNECTION_MAX_BUFFER_SIZE - 1, in chunks
    SockCap,       \* chunks that a socket holds for a peer that does not read
    MaxFlips,      \* bound: times TLS asks for the opposite direction
    AllocMayFail   \* malloc, realloc and bb_runtime_watch_fd_ex may fail

ASSUME ConnectionAssumption ==
    /\ Tls \in BOOLEAN
    /\ BufLimit \in Nat \ {0}
    /\ SockCap \in Nat \ {0}
    /\ MaxFlips \in Nat
    /\ AllocMayFail \in BOOLEAN

Event == {"READ", "WRITE"}
Memory == {"none", "live", "freed"}

AsyncConn == [
    async : Memory,                                  \* the bb_async_connection_t
    open : BOOLEAN,                                  \* connection # NULL
    state : {"HANDSHAKE", "READING", "WRITING", "CLOSED"},
    len : Nat,                                       \* buffer_length
    out : Nat,                                       \* chunks in write_data
    pending : BOOLEAN,                               \* write_pending
    readTask : BOOLEAN,                              \* read_task # NULL
    writeTask : BOOLEAN,                             \* write_task # NULL
    readOn : Event,                                  \* read_watch_events
    writeOn : Event,                                 \* write_watch_events
    watch : [Event -> {"none", "read", "write"}],    \* watchers of the descriptor
    disconnected : BOOLEAN,
    hook : {"none", "server", "websocket"},          \* disconnect
    inbox : Nat,                                     \* chunks in the socket
    outbox : Nat,                                    \* chunks the peer has not read
    record : BOOLEAN,                                \* a TLS message without data is
                                                     \* in the socket, ahead of inbox
    peerClosed : BOOLEAN,                            \* the peer closed its socket
    flips : Nat,                                     \* bound, see MaxFlips
    fault : BOOLEAN]                                 \* released memory was used

\* Before the peer connects.
NoConnection == [
    async |-> "none", open |-> FALSE, state |-> "READING", len |-> 0, out |-> 0,
    pending |-> FALSE, readTask |-> FALSE, writeTask |-> FALSE,
    readOn |-> "READ", writeOn |-> "WRITE",
    watch |-> [e \in Event |-> "none"], disconnected |-> FALSE, hook |-> "none",
    inbox |-> 0, outbox |-> 0, record |-> FALSE, peerClosed |-> FALSE,
    flips |-> MaxFlips, fault |-> FALSE]

\* bb_async_connection_accept and bb_async_connection_accept_tls
Accepted(c) ==
    [c EXCEPT !.async = "live", !.open = TRUE,
              !.state = IF Tls THEN "HANDSHAKE" ELSE "READING"]

-----------------------------------------------------------------------------
(* The tasks *)

\* _bb_read_task_cleanup
ReadCleanup(c) == [c EXCEPT !.readTask = FALSE]

\* Mutant of WriteCleanup: a direction flip ends the write.
WriteCleanupAlways(c, rewatching) ==
    [c EXCEPT !.writeTask = FALSE, !.pending = @ /\ ~ c.open]

\* _bb_write_task_cleanup: the write stays pending while its direction flips.
WriteCleanup(c, rewatching) ==
    [c EXCEPT !.writeTask = FALSE, !.pending = @ /\ (rewatching \/ ~ c.open)]

Unwatch(c, kind) ==
    [c EXCEPT !.watch = [e \in Event |-> IF c.watch[e] = kind THEN "none"
                                         ELSE c.watch[e]]]

\* bb_runtime_cancel_task of the read task and of the write task
CancelRead(c) == Unwatch(ReadCleanup(c), "read")
CancelWrite(c, rewatching) == Unwatch(WriteCleanup(c, rewatching), "write")

\* bb_runtime_watch_fd_ex: the task that was watched for e is cancelled.
Watch(c, kind, e) ==
    LET replaced == CASE c.watch[e] = "read" -> ReadCleanup(c)
                      [] c.watch[e] = "write" -> WriteCleanup(c, FALSE)
                      [] OTHER -> c
    IN [replaced EXCEPT !.watch[e] = kind]

\* bb_async_connection_create_read_task, when the connection is open
CreateReadTask(c) ==
    IF c.readTask THEN c
    ELSE [Watch(c, "read", "READ") EXCEPT !.readTask = TRUE, !.readOn = "READ"]

\* bb_async_connection_create_write_task, when the connection is open
CreateWriteTask(c) ==
    IF c.pending THEN c
    ELSE [Watch(c, "write", "WRITE") EXCEPT !.writeTask = TRUE,
                                            !.writeOn = "WRITE",
                                            !.pending = TRUE]

\* bb_async_connection_pause_read
PauseRead(c) == IF c.readTask THEN CancelRead(c) ELSE c

\* Mutants of RewatchRead and RewatchWrite: the new direction is not remembered.
RewatchReadForgetsEvent(c, e) ==
    [Watch(CancelRead(c), "read", e) EXCEPT !.readTask = TRUE]
RewatchWriteForgetsEvent(c, e) ==
    [Watch(CancelWrite(c, TRUE), "write", e) EXCEPT !.writeTask = TRUE]

\* _bb_async_connection_rewatch_read and _bb_async_connection_rewatch_write
RewatchRead(c, e) ==
    [Watch(CancelRead(c), "read", e) EXCEPT !.readTask = TRUE, !.readOn = e]
RewatchWrite(c, e) ==
    [Watch(CancelWrite(c, TRUE), "write", e) EXCEPT !.writeTask = TRUE, !.writeOn = e]

\* _bb_async_connection_handle_disconnect, up to the owner's callback
Disconnected(c) ==
    LET read == IF c.readTask THEN CancelRead(c) ELSE c
    IN [IF c.writeTask THEN CancelWrite(read, FALSE) ELSE read
           EXCEPT !.disconnected = TRUE]

\* bb_connection_destroy: the buffers are released with the connection.
ConnectionDestroy(c) ==
    [c EXCEPT !.open = FALSE, !.len = 0, !.out = 0, !.pending = FALSE]

-----------------------------------------------------------------------------
(* bb_connection_read and bb_connection_write: the connection, the outcome   *)
(* ("ok", "closed" or "error") and the direction to wait for.                *)

Outcome(c, err, wants) == [conn |-> c, err |-> err, wants |-> wants]
When(condition, outcome) == IF condition THEN {outcome} ELSE {}

\* The loop of bb_connection_read, after it has read n chunks.
ReadLoopEnds(c, n) ==
    LET d == [c EXCEPT !.len = @ + n, !.inbox = @ - n, !.record = FALSE]
        drained == n = c.inbox
    IN IF d.len = BufLimit
       THEN {Outcome([d EXCEPT !.state = "CLOSED"], "error", "READ")}
       ELSE When(drained /\ ~ c.peerClosed, Outcome(d, "ok", "READ"))
            \cup When(drained /\ c.peerClosed,
                      Outcome([d EXCEPT !.state = "CLOSED"], "ok", "READ"))
            \cup When(Tls /\ c.flips > 0,
                      Outcome([d EXCEPT !.flips = @ - 1], "ok", "WRITE"))
            \cup When(c.peerClosed \/ AllocMayFail, Outcome(d, "error", "READ"))

ReadLoop(c) ==
    UNION {ReadLoopEnds(c, n) :
              n \in {k \in 0 .. c.inbox : c.len + k <= BufLimit}}

\* The TLS handshake that bb_connection_read drives first.  A peer sends data
\* after its last handshake message.
Handshake(c) ==
    When(~ c.peerClosed /\ c.inbox = 0, Outcome([c EXCEPT !.record = FALSE], "ok", "READ"))
    \cup When(c.flips > 0, Outcome([c EXCEPT !.flips = @ - 1], "ok", "WRITE"))
    \cup When(c.peerClosed, Outcome([c EXCEPT !.state = "CLOSED"], "closed", "READ"))
    \cup {Outcome([c EXCEPT !.state = "CLOSED"], "error", "READ")}
    \cup ReadLoop([c EXCEPT !.state = "READING"])

ConnectionRead(c) ==
    CASE c.state = "CLOSED" -> {Outcome(c, "closed", c.readOn)}
      [] c.state = "HANDSHAKE" -> Handshake(c)
      [] OTHER -> ReadLoop(c)

\* After bb_connection_write has sent n chunks.  What is sent to a peer that
\* closed its socket is lost.
WriteLoopEnds(c, n) ==
    LET d == [c EXCEPT !.out = @ - n,
                       !.outbox = IF c.peerClosed THEN @ ELSE @ + n,
                       !.record = @ /\ c.writeOn = "WRITE"]
    IN IF d.out = 0 THEN {Outcome(d, "ok", "WRITE")}
       ELSE When(~ c.peerClosed /\ d.outbox = SockCap, Outcome(d, "ok", "WRITE"))
            \cup When(Tls /\ c.flips > 0,
                      Outcome([d EXCEPT !.flips = @ - 1, !.record = FALSE], "ok", "READ"))
            \cup When(c.peerClosed,
                      Outcome([d EXCEPT !.state = "CLOSED"], "closed", "WRITE"))
            \cup When(c.peerClosed, Outcome(d, "error", "WRITE"))

\* A TLS write that waits for a message of the peer goes on waiting when only
\* data has come.
ConnectionWrite(c) ==
    CASE c.state = "CLOSED" -> {Outcome(c, "closed", c.writeOn)}
      [] c.state # "CLOSED" /\ c.writeOn = "READ" /\ ~ c.record /\ ~ c.peerClosed ->
            {Outcome(c, "ok", "READ")}
      [] OTHER -> UNION {WriteLoopEnds(c, n) :
                            n \in {k \in 0 .. c.out : c.peerClosed \/ c.outbox + k <= SockCap}}

\* The poller reports e.  It is level-triggered, and a peer that closed its
\* socket wakes both directions: every backend adds the watched events to a
\* hang-up or an error.
Ready(c, e) ==
    \/ c.peerClosed
    \/ e = "READ" /\ (c.inbox > 0 \/ c.record)
    \/ e = "WRITE" /\ c.outbox < SockCap

====
