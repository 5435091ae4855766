------------------------ MODULE ServerConnectionProofs ------------------------
(***************************************************************************)
(* When no allocation fails, a connection of the server is in one of five   *)
(* phases, each with one owner, and every handler leads from one to another.*)
(***************************************************************************)
EXTENDS ServerConnection, TLAPS

Pairs == [io : AsyncConn, own : ServerConn]

\* Before accept.
Idle(p) ==
    /\ p.io.async = "none" /\ p.own.data = "none" /\ p.own.ws = "none"
    /\ p.io.hook = "none"
    /\ ~ p.own.listed /\ ~ p.own.wsListed /\ ~ p.own.closeCb
    /\ p.io.watch = [e \in Event |-> "none"]
    /\ ~ p.io.readTask /\ ~ p.io.writeTask /\ ~ p.io.pending
    /\ ~ p.io.disconnected
    /\ p.own.answer = "none"

Only(kind, on) == [e \in Event |-> IF e = on THEN kind ELSE "none"]

\* The server reads the request.
Reading(p) ==
    /\ p.io.async = "live" /\ p.own.data = "live" /\ p.own.ws = "none"
    /\ p.io.open
    /\ p.io.hook = "server"
    /\ p.own.listed /\ ~ p.own.wsListed /\ ~ p.own.closeCb
    /\ p.io.watch = Only("read", p.io.readOn)
    /\ p.io.readTask /\ ~ p.io.writeTask /\ ~ p.io.pending
    /\ ~ p.io.disconnected
    /\ p.own.answer = "none"

\* The server writes the response.
Writing(p) ==
    /\ p.io.async = "live" /\ p.own.data = "live"
    /\ p.io.open
    /\ \/ p.own.ws = "none" /\ p.io.hook = "none"
       \/ p.own.ws = "live" /\ p.io.hook = "websocket"
    /\ p.own.listed /\ ~ p.own.wsListed /\ ~ p.own.closeCb
    /\ p.io.watch = Only("write", p.io.writeOn)
    /\ ~ p.io.readTask /\ p.io.writeTask /\ p.io.pending
    /\ ~ p.io.disconnected
    /\ p.own.answer # "none"

\* A WebSocket session owns the connection.
Session(p) ==
    /\ p.io.async = "live" /\ p.own.data = "freed" /\ p.own.ws = "live"
    /\ p.io.hook = "websocket"
    /\ ~ p.own.listed /\ p.own.wsListed /\ p.own.closeCb
    /\ p.io.watch = Only("read", "READ") /\ p.io.readOn = "READ"
    /\ p.io.readTask /\ ~ p.io.writeTask /\ ~ p.io.pending
    /\ ~ p.io.disconnected

\* The connection has been released.
Gone(p) ==
    /\ p.io.async = "freed" /\ p.own.data = "freed" /\ p.own.ws \in {"none", "freed"}
    /\ p.io.hook # "server"
    /\ ~ p.own.listed /\ ~ p.own.wsListed

Good(p) ==
    /\ p \in Pairs
    /\ ~ p.io.fault
    /\ Idle(p) \/ Reading(p) \/ Writing(p) \/ Session(p) \/ Gone(p)

PhaseInv ==
    /\ io \in [Conns -> AsyncConn]
    /\ own \in [Conns -> ServerConn]
    /\ serverUp \in BOOLEAN
    /\ \A c \in Conns : Good(Pair(io[c], own[c]))
    /\ ~ serverUp => \A c \in Conns : io[c].async # "live"

-----------------------------------------------------------------------------
(* The operations of module AsyncConnection *)

\* What tasks and watchers do not touch.
SameLife(a, b) ==
    /\ b.async = a.async
    /\ b.open = a.open
    /\ b.hook = a.hook
    /\ b.fault = a.fault
    /\ b.disconnected = a.disconnected

\* What the response is counted by.
SameData(a, b) == b.out = a.out /\ b.state = a.state /\ b.peerClosed = a.peerClosed

\* Cancelling a task unregisters it and touches nothing else.
LEMMA CancelReadFacts ==
    ASSUME NEW a \in AsyncConn
    PROVE  /\ CancelRead(a) \in AsyncConn
           /\ SameLife(a, CancelRead(a)) /\ ~ CancelRead(a).readTask
           /\ SameData(a, CancelRead(a))
           /\ CancelRead(a).writeTask = a.writeTask
           /\ CancelRead(a).pending = a.pending
           /\ CancelRead(a).readOn = a.readOn
           /\ a.watch = Only("read", a.readOn) =>
                 CancelRead(a).watch = [e \in Event |-> "none"]
BY DEF CancelRead, Unwatch, ReadCleanup, AsyncConn, Event, Only, SameLife, SameData

LEMMA CancelWriteFacts ==
    ASSUME NEW a \in AsyncConn, NEW rewatching \in BOOLEAN
    PROVE  /\ CancelWrite(a, rewatching) \in AsyncConn
           /\ a.open /\ ~ rewatching => ~ CancelWrite(a, rewatching).pending
           /\ SameLife(a, CancelWrite(a, rewatching))
           /\ SameData(a, CancelWrite(a, rewatching))
           /\ ~ CancelWrite(a, rewatching).writeTask
           /\ CancelWrite(a, rewatching).readTask = a.readTask
           /\ CancelWrite(a, rewatching).writeOn = a.writeOn
           /\ a.watch = Only("write", a.writeOn) =>
                 CancelWrite(a, rewatching).watch = [e \in Event |-> "none"]
<1> DEFINE b == WriteCleanup(a, rewatching)
           d == CancelWrite(a, rewatching)
           w == [e \in Event |-> IF b.watch[e] = "write" THEN "none" ELSE b.watch[e]]
<1>1. /\ b \in AsyncConn /\ b.watch = a.watch
      /\ a.open /\ ~ rewatching => ~ b.pending
      /\ SameLife(a, b) /\ SameData(a, b) /\ ~ b.writeTask
      /\ b.readTask = a.readTask /\ b.writeOn = a.writeOn
  BY DEF WriteCleanup, AsyncConn, SameLife, SameData
<1>2. d = [b EXCEPT !.watch = w]
  BY DEF CancelWrite, Unwatch
<1>3. b.watch \in [Event -> {"none", "read", "write"}]
  BY <1>1 DEF AsyncConn
<1>4. w \in [Event -> {"none", "read", "write"}]
  BY <1>3
<1>5. a.watch = Only("write", a.writeOn) => w = [e \in Event |-> "none"]
  BY <1>1 DEF Only
<1> HIDE DEF b, w
<1>6. d \in AsyncConn
  BY <1>1, <1>2, <1>4 DEF AsyncConn
<1>7. /\ d.watch = w /\ d.pending = b.pending /\ SameLife(b, d) /\ SameData(b, d)
      /\ d.writeTask = b.writeTask /\ d.readTask = b.readTask /\ d.writeOn = b.writeOn
  BY <1>1, <1>2 DEF AsyncConn, SameLife, SameData
<1> QED
  BY <1>1, <1>5, <1>6, <1>7 DEF SameLife, SameData

\* A disconnect cancels tasks: what it leaves alone.
LEMMA DisconnectedFacts ==
    ASSUME NEW a \in AsyncConn
    PROVE  /\ Disconnected(a) \in AsyncConn
           /\ Disconnected(a).async = a.async
           /\ Disconnected(a).hook = a.hook
           /\ Disconnected(a).fault = a.fault
           /\ Disconnected(a).disconnected
<1> DEFINE r == IF a.readTask THEN CancelRead(a) ELSE a
<1> DEFINE w == IF a.writeTask THEN CancelWrite(r, FALSE) ELSE r
<1>1. r \in AsyncConn /\ r.async = a.async /\ r.hook = a.hook /\ r.fault = a.fault
  <2>1. CASE a.readTask
    <3>1. /\ CancelRead(a) \in AsyncConn
          /\ CancelRead(a).async = a.async /\ CancelRead(a).hook = a.hook
          /\ CancelRead(a).fault = a.fault
      BY CancelReadFacts DEF SameLife
    <3> QED BY <2>1, <3>1
  <2>2. CASE ~ a.readTask
    BY <2>2
  <2> QED BY <2>1, <2>2
<1>2. Disconnected(a) = [w EXCEPT !.disconnected = TRUE]
  BY DEF Disconnected
<1> HIDE DEF r
<1>3. w \in AsyncConn /\ w.async = a.async /\ w.hook = a.hook /\ w.fault = a.fault
  <2>1. CASE a.writeTask
    <3>1. /\ CancelWrite(r, FALSE) \in AsyncConn
          /\ CancelWrite(r, FALSE).async = r.async
          /\ CancelWrite(r, FALSE).hook = r.hook
          /\ CancelWrite(r, FALSE).fault = r.fault
      BY <1>1, CancelWriteFacts DEF SameLife
    <3> QED BY <1>1, <2>1, <3>1
  <2>2. CASE ~ a.writeTask
    BY <1>1, <2>2
  <2> QED BY <2>1, <2>2
<1> HIDE DEF w
<1> QED
  BY <1>2, <1>3 DEF AsyncConn

LEMMA ConnectionDestroyFacts ==
    ASSUME NEW a \in AsyncConn
    PROVE  /\ ConnectionDestroy(a) \in AsyncConn
           /\ ConnectionDestroy(a).async = a.async
           /\ ConnectionDestroy(a).hook = a.hook
           /\ ConnectionDestroy(a).fault = a.fault
           /\ ConnectionDestroy(a).disconnected = a.disconnected
BY DEF ConnectionDestroy, AsyncConn

-----------------------------------------------------------------------------
(* Releasing a connection *)

\* bb_async_connection_destroy is called with no callback that releases.
LEMMA AsyncDestroyFacts ==
    ASSUME NEW p \in Pairs, p.io.async = "live", ~ p.io.fault,
           \/ p.io.disconnected
           \/ p.io.hook # "server" /\ ~ (p.io.hook = "websocket" /\ p.own.closeCb)
    PROVE  /\ AsyncDestroy(p) \in Pairs
           /\ AsyncDestroy(p).own = p.own
           /\ AsyncDestroy(p).io.async = "freed"
           /\ AsyncDestroy(p).io.hook = p.io.hook
           /\ ~ AsyncDestroy(p).io.fault
<1> DEFINE a == ConnectionDestroy(p.io)
<1> DEFINE d == Disconnected(a)
<1>1. p.io \in AsyncConn
  BY DEF Pairs
<1>2. a \in AsyncConn /\ a.hook = p.io.hook /\ a.fault = p.io.fault
  BY <1>1, ConnectionDestroyFacts
<1>3. d \in AsyncConn /\ d.hook = p.io.hook /\ d.fault = p.io.fault
  BY <1>2, DisconnectedFacts
<1>4. AsyncDestroy(p) = [p EXCEPT !.io = [d EXCEPT !.async = "freed"]]
  BY DEF AsyncDestroy
<1> HIDE DEF d
<1>5. /\ [d EXCEPT !.async = "freed"] \in AsyncConn
      /\ [d EXCEPT !.async = "freed"].async = "freed"
      /\ [d EXCEPT !.async = "freed"].hook = d.hook
      /\ [d EXCEPT !.async = "freed"].fault = d.fault
  BY <1>3 DEF AsyncConn, Memory
<1> QED
  BY <1>3, <1>4, <1>5 DEF Pairs

LEMMA WebsocketDestroyFacts ==
    ASSUME NEW p \in Pairs, p.io.async = "live", p.own.ws = "live", ~ p.io.fault
    PROVE  /\ WebsocketDestroy(p) \in Pairs
           /\ WebsocketDestroy(p).own = [p.own EXCEPT !.ws = "freed"]
           /\ WebsocketDestroy(p).io.async = "freed"
           /\ WebsocketDestroy(p).io.hook = "none"
           /\ ~ WebsocketDestroy(p).io.fault
<1> DEFINE q == [p EXCEPT !.io.hook = "none"]
<1>1. /\ q \in Pairs
      /\ q.io.async = "live"
      /\ ~ q.io.fault
      /\ q.io.hook = "none"
      /\ q.own = p.own
  BY DEF Pairs, AsyncConn
<1> HIDE DEF q
<1>2. /\ AsyncDestroy(q) \in Pairs
      /\ AsyncDestroy(q).own = p.own
      /\ AsyncDestroy(q).io.async = "freed"
      /\ AsyncDestroy(q).io.hook = "none"
      /\ ~ AsyncDestroy(q).io.fault
  BY <1>1, AsyncDestroyFacts
<1>3. WebsocketDestroy(p) = [AsyncDestroy(q) EXCEPT !.own.ws = "freed"]
  BY DEF WebsocketDestroy, q
<1> QED
  BY <1>2, <1>3 DEF Pairs, ServerConn, Memory

Released(p) == p \in Pairs /\ ~ p.io.fault /\ Gone(p)

\* What _server_task_data_cleanup and _server_conn_cleanup share releases a
\* connection that the server owns, once the server's hook is removed.
LEMMA ReleaseFacts ==
    ASSUME NEW q \in Pairs, ~ q.io.fault, q.io.async = "live", q.io.hook # "server",
           ~ q.own.wsListed, ~ q.own.closeCb, q.own.ws \in {"none", "live"}
    PROVE  /\ ReleaseConnection(q) \in Pairs
           /\ ~ ReleaseConnection(q).io.fault
           /\ ReleaseConnection(q).io.async = "freed"
           /\ ReleaseConnection(q).io.hook # "server"
           /\ ReleaseConnection(q).own.data = "freed"
           /\ ReleaseConnection(q).own.ws \in {"none", "freed"}
           /\ ReleaseConnection(q).own.listed = q.own.listed
           /\ ReleaseConnection(q).own.sent = q.own.sent
           /\ ~ ReleaseConnection(q).own.wsListed
<1> DEFINE r == IF q.own.ws # "none" THEN WebsocketDestroy(q) ELSE AsyncDestroy(q)
<1>1. ReleaseConnection(q) = [r EXCEPT !.own.data = "freed"]
  BY DEF ReleaseConnection
<1>2. /\ r \in Pairs /\ ~ r.io.fault /\ r.io.async = "freed" /\ r.io.hook # "server"
      /\ r.own.ws \in {"none", "freed"} /\ r.own.listed = q.own.listed
      /\ r.own.sent = q.own.sent /\ ~ r.own.wsListed
  <2>1. CASE q.own.ws = "none"
    <3>1. r = AsyncDestroy(q)
      BY <2>1
    <3> HIDE DEF r
    <3> QED BY <2>1, <3>1, AsyncDestroyFacts
  <2>2. CASE q.own.ws = "live"
    <3>1. r = WebsocketDestroy(q)
      BY <2>2
    <3> HIDE DEF r
    <3>2. /\ r \in Pairs /\ ~ r.io.fault /\ r.io.async = "freed"
          /\ r.io.hook = "none" /\ r.own = [q.own EXCEPT !.ws = "freed"]
      BY <2>2, <3>1, WebsocketDestroyFacts
    <3> QED BY <3>2 DEF Pairs, ServerConn
  <2> QED BY <2>1, <2>2
<1> HIDE DEF r
<1> QED
  BY <1>1, <1>2 DEF Pairs, ServerConn, Memory

\* _server_task_data_cleanup of a connection that the server owns releases it,
\* also when it is called by the disconnect callback.
LEMMA CleanupReleases ==
    ASSUME NEW p \in Pairs, serverUp, ~ p.io.fault,
           p.io.async = "live", p.own.data = "live", ~ p.own.wsListed,
           ~ p.own.closeCb, p.own.ws \in {"none", "live"}
    PROVE  Released(TaskDataCleanup(p)) /\ TaskDataCleanup(p).own.sent = p.own.sent
<1> DEFINE q == [p EXCEPT !.io = ClearHook(@), !.own.listed = FALSE]
<1>1. /\ q \in Pairs
      /\ q.io.async = "live" /\ ~ q.io.fault /\ q.io.hook # "server"
      /\ q.own = [p.own EXCEPT !.listed = FALSE]
  BY DEF Pairs, AsyncConn, ServerConn, ClearHook
<1>2. TaskDataCleanup(p) = ReleaseConnection(q)
  BY DEF TaskDataCleanup
<1> HIDE DEF q
<1>3. /\ q.own.ws = p.own.ws /\ ~ q.own.listed /\ ~ q.own.wsListed /\ ~ q.own.closeCb
      /\ q.own.sent = p.own.sent
  BY <1>1 DEF Pairs, ServerConn
<1> QED
  BY <1>1, <1>2, <1>3, ReleaseFacts DEF Released, Gone

\* The disconnect of a connection that the server owns: in the read phase the
\* hook releases it, in the write phase it stays for the failure callback.
LEMMA DisconnectWhileReading ==
    ASSUME NEW p \in Pairs, serverUp, ~ p.io.fault, Reading(p)
    PROVE  Released(HandleDisconnect(p))
<1> DEFINE d == [p EXCEPT !.io = Disconnected(@)]
<1>1. p.io \in AsyncConn
  BY DEF Pairs
<1>2. HandleDisconnect(p) = TaskDataCleanup(d)
  BY DEF HandleDisconnect, Reading
<1>3. /\ d \in Pairs /\ ~ d.io.fault /\ d.io.async = "live" /\ d.own = p.own
  BY <1>1, DisconnectedFacts DEF Pairs, Reading
<1> HIDE DEF d
<1> QED
  BY <1>2, <1>3, CleanupReleases DEF Reading

LEMMA DisconnectWhileWriting ==
    ASSUME NEW p \in Pairs, serverUp, ~ p.io.fault, ~ p.io.disconnected,
           p.io.async = "live", p.own.data = "live", ~ p.own.wsListed,
           ~ p.own.closeCb, p.own.ws \in {"none", "live"}, p.io.hook # "server"
    PROVE  Released(TaskDataCleanup(HandleDisconnect(p)))
<1> DEFINE d == [p EXCEPT !.io = Disconnected(@)]
<1>1. p.io \in AsyncConn
  BY DEF Pairs
<1>2. HandleDisconnect(p) = d
  BY DEF HandleDisconnect
<1>3. /\ d \in Pairs /\ ~ d.io.fault /\ d.io.async = "live" /\ d.own = p.own
  BY <1>1, DisconnectedFacts DEF Pairs
<1> HIDE DEF d
<1> QED
  BY <1>2, <1>3, CleanupReleases

\* The session's end, and bb_websocket_destroy of a session.
LEMMA SessionReleases ==
    ASSUME NEW p \in Pairs, ~ p.io.fault, Session(p)
    PROVE  Released(AsyncClose(p))
<1> DEFINE a == ConnectionDestroy(p.io)
<1> DEFINE b == [p EXCEPT !.io = a]
<1> DEFINE q == [p EXCEPT !.io = Disconnected(a), !.own.wsListed = FALSE]
<1>1. a \in AsyncConn /\ a.async = "live" /\ a.hook = "websocket" /\ ~ a.fault
      /\ ~ a.disconnected
  BY ConnectionDestroyFacts DEF Pairs, Session
<1> HIDE DEF a
<1>2. AsyncClose(p) = WebsocketDestroy(q)
  <2>1. AsyncClose(p) = HandleDisconnect(b)
    BY DEF AsyncClose, a
  <2>2. b.io = a /\ b.own = p.own /\ b \in Pairs
    BY <1>1 DEF Pairs
  <2>3. [b EXCEPT !.io = Disconnected(@)] = [p EXCEPT !.io = Disconnected(a)]
    BY <2>2 DEF Pairs
  <2>4. HandleDisconnect(b) = ServerWsClosed([b EXCEPT !.io = Disconnected(@)])
    BY <1>1, <2>2 DEF HandleDisconnect, Session
  <2>5. ServerWsClosed([p EXCEPT !.io = Disconnected(a)]) = WebsocketDestroy(q)
    BY DEF ServerWsClosed, Pairs
  <2> QED BY <2>1, <2>3, <2>4, <2>5
<1>3. /\ q \in Pairs /\ q.io = Disconnected(a)
      /\ q.own = [p.own EXCEPT !.wsListed = FALSE]
  BY <1>1, DisconnectedFacts DEF Pairs, ServerConn
<1>4. q.io.async = "live" /\ ~ q.io.fault
  BY <1>1, <1>3, DisconnectedFacts
<1> HIDE DEF q
<1>5. /\ q.own.ws = "live" /\ q.own.data = "freed" /\ ~ q.own.listed
      /\ ~ q.own.wsListed /\ q.own \in ServerConn
  BY <1>3 DEF Session, Pairs, ServerConn
<1>6. /\ WebsocketDestroy(q) \in Pairs
      /\ WebsocketDestroy(q).own = [q.own EXCEPT !.ws = "freed"]
      /\ WebsocketDestroy(q).io.async = "freed"
      /\ WebsocketDestroy(q).io.hook = "none"
      /\ ~ WebsocketDestroy(q).io.fault
  BY <1>3, <1>4, <1>5, WebsocketDestroyFacts
<1> QED
  BY <1>2, <1>5, <1>6 DEF Released, Gone, ServerConn

-----------------------------------------------------------------------------
(* The read task *)

\* The control part of a connection: what bb_connection_read and
\* bb_connection_write leave alone.
SameControl(a, b) ==
    /\ SameLife(a, b)
    /\ b.readTask = a.readTask /\ b.writeTask = a.writeTask
    /\ b.readOn = a.readOn /\ b.writeOn = a.writeOn
    /\ b.watch = a.watch /\ b.pending = a.pending

LEMMA ReadLoopFacts ==
    ASSUME NEW a \in AsyncConn, NEW o \in ReadLoop(a)
    PROVE  /\ o.conn \in AsyncConn /\ SameControl(a, o.conn) /\ o.conn.out = a.out
           /\ o.err \in {"ok", "closed", "error"} /\ o.wants \in Event
<1>1. PICK n \in 0 .. a.inbox : o \in ReadLoopEnds(a, n)
  BY DEF ReadLoop
<1> DEFINE d == [a EXCEPT !.len = @ + n, !.inbox = @ - n, !.record = FALSE]
<1>2. d \in AsyncConn /\ SameControl(a, d) /\ d.flips = a.flips /\ d.out = a.out
  <2>1. a.inbox \in Nat /\ a.len \in Nat
    BY DEF AsyncConn
  <2>2. a.inbox - n \in Nat /\ a.len + n \in Nat
    BY <2>1
  <2> QED BY <2>2 DEF AsyncConn, SameControl, SameLife
<1>3. \/ o = Outcome([d EXCEPT !.state = "CLOSED"], "error", "READ")
      \/ o = Outcome(d, "ok", "READ")
      \/ o = Outcome([d EXCEPT !.state = "CLOSED"], "ok", "READ")
      \/ a.flips > 0 /\ o = Outcome([d EXCEPT !.flips = @ - 1], "ok", "WRITE")
      \/ o = Outcome(d, "error", "READ")
  BY <1>1 DEF ReadLoopEnds, When
<1> HIDE DEF d
<1>4. /\ [d EXCEPT !.state = "CLOSED"] \in AsyncConn
      /\ SameControl(a, [d EXCEPT !.state = "CLOSED"])
      /\ [d EXCEPT !.state = "CLOSED"].out = a.out
  BY <1>2 DEF AsyncConn, SameControl, SameLife
<1>5. ASSUME a.flips > 0
      PROVE  /\ [d EXCEPT !.flips = @ - 1] \in AsyncConn
             /\ SameControl(a, [d EXCEPT !.flips = @ - 1])
             /\ [d EXCEPT !.flips = @ - 1].out = a.out
  <2>1. d.flips - 1 \in Nat
    BY <1>2, <1>5 DEF AsyncConn
  <2> QED BY <1>2, <2>1 DEF AsyncConn, SameControl, SameLife
<1>6. o.err \in {"ok", "closed", "error"} /\ o.wants \in Event
  BY <1>3 DEF Outcome, Event
<1>7. CASE o.conn = d
  BY <1>2, <1>6, <1>7
<1>8. CASE o.conn = [d EXCEPT !.state = "CLOSED"]
  BY <1>4, <1>6, <1>8
<1>9. CASE a.flips > 0 /\ o.conn = [d EXCEPT !.flips = @ - 1]
  BY <1>5, <1>6, <1>9
<1> QED
  BY <1>3, <1>7, <1>8, <1>9 DEF Outcome

LEMMA ConnectionReadFacts ==
    ASSUME NEW a \in AsyncConn, NEW o \in ConnectionRead(a)
    PROVE  /\ o.conn \in AsyncConn /\ SameControl(a, o.conn) /\ o.conn.out = a.out
           /\ o.err \in {"ok", "closed", "error"} /\ o.wants \in Event
<1> DEFINE closed == [a EXCEPT !.state = "CLOSED"]
<1> DEFINE reading == [a EXCEPT !.state = "READING"]
<1> DEFINE flipped == [a EXCEPT !.flips = @ - 1]
<1> DEFINE drained == [a EXCEPT !.record = FALSE]
<1>1. /\ SameControl(a, a)
      /\ drained \in AsyncConn /\ SameControl(a, drained) /\ drained.out = a.out
      /\ closed \in AsyncConn /\ SameControl(a, closed) /\ closed.out = a.out
      /\ reading \in AsyncConn /\ SameControl(a, reading) /\ reading.out = a.out
      /\ a.flips > 0 =>
            flipped \in AsyncConn /\ SameControl(a, flipped) /\ flipped.out = a.out
  <2>1. SameControl(a, a)
    BY DEF SameControl, SameLife
  <2>2. drained \in AsyncConn /\ SameControl(a, drained) /\ drained.out = a.out
    BY DEF AsyncConn, SameControl, SameLife
  <2>3. closed \in AsyncConn /\ SameControl(a, closed) /\ closed.out = a.out
    BY DEF AsyncConn, SameControl, SameLife
  <2>4. reading \in AsyncConn /\ SameControl(a, reading) /\ reading.out = a.out
    BY DEF AsyncConn, SameControl, SameLife
  <2>5. a.flips > 0 =>
           flipped \in AsyncConn /\ SameControl(a, flipped) /\ flipped.out = a.out
    <3>1. a.flips > 0 => a.flips - 1 \in Nat
      BY DEF AsyncConn
    <3> QED BY <3>1 DEF AsyncConn, SameControl, SameLife
  <2> HIDE DEF drained, closed, reading, flipped
  <2> QED BY <2>1, <2>2, <2>3, <2>4, <2>5
<1>2. \/ o = Outcome(a, "closed", a.readOn)
      \/ o = Outcome(drained, "ok", "READ")
      \/ a.flips > 0 /\ o = Outcome(flipped, "ok", "WRITE")
      \/ o = Outcome(closed, "closed", "READ")
      \/ o = Outcome(closed, "error", "READ")
      \/ o \in ReadLoop(reading)
      \/ o \in ReadLoop(a)
  BY DEF ConnectionRead, Handshake, When
<1> HIDE DEF closed, reading, flipped, drained
<1>3. CASE o \in ReadLoop(reading)
  <2>1. o.conn \in AsyncConn /\ SameControl(reading, o.conn) /\ o.conn.out = reading.out
        /\ o.err \in {"ok", "closed", "error"} /\ o.wants \in Event
    BY <1>1, <1>3, ReadLoopFacts
  <2> QED BY <1>1, <2>1 DEF SameControl, SameLife
<1>4. CASE o \in ReadLoop(a)
  BY <1>4, ReadLoopFacts
<1>5. a.readOn \in Event
  BY DEF AsyncConn
<1> QED
  BY <1>1, <1>2, <1>3, <1>4, <1>5 DEF Outcome, Event

LEMMA ConnectionWriteFacts ==
    ASSUME NEW a \in AsyncConn, NEW o \in ConnectionWrite(a)
    PROVE  /\ o.conn \in AsyncConn /\ SameControl(a, o.conn)
           /\ a.out - o.conn.out \in Nat
           /\ o.err \in {"ok", "closed", "error"} /\ o.wants \in Event
<1>1. CASE o = Outcome(a, "closed", a.writeOn) \/ o = Outcome(a, "ok", "READ")
  <2>1. a.out \in Nat /\ a.writeOn \in Event
    BY DEF AsyncConn
  <2> QED BY <1>1, <2>1 DEF Outcome, Event, SameControl, SameLife
<1>2. ASSUME NEW n \in 0 .. a.out, o \in WriteLoopEnds(a, n)
      PROVE  /\ o.conn \in AsyncConn /\ SameControl(a, o.conn)
             /\ a.out - o.conn.out \in Nat
             /\ o.err \in {"ok", "closed", "error"} /\ o.wants \in Event
  <2> DEFINE d == [a EXCEPT !.out = @ - n,
                            !.outbox = IF a.peerClosed THEN @ ELSE @ + n,
                            !.record = @ /\ a.writeOn = "WRITE"]
             flipped == [d EXCEPT !.flips = @ - 1, !.record = FALSE]
  <2>1. d \in AsyncConn /\ SameControl(a, d) /\ d.flips = a.flips
        /\ d.out = a.out - n
    <3>1. a.out - n \in Nat /\ (IF a.peerClosed THEN a.outbox ELSE a.outbox + n) \in Nat
      BY DEF AsyncConn
    <3>2. (a.record /\ a.writeOn = "WRITE") \in BOOLEAN
      OBVIOUS
    <3> QED BY <3>1, <3>2 DEF AsyncConn, SameControl, SameLife
  <2>2. \/ o = Outcome(d, "ok", "WRITE")
        \/ a.flips > 0 /\ o = Outcome(flipped, "ok", "READ")
        \/ o = Outcome([d EXCEPT !.state = "CLOSED"], "closed", "WRITE")
        \/ o = Outcome(d, "error", "WRITE")
    BY <1>2 DEF WriteLoopEnds, When
  <2>3. a.out - (a.out - n) \in Nat
    BY DEF AsyncConn
  <2> HIDE DEF d
  <2>4. /\ [d EXCEPT !.state = "CLOSED"] \in AsyncConn
        /\ SameControl(a, [d EXCEPT !.state = "CLOSED"])
        /\ [d EXCEPT !.state = "CLOSED"].out = d.out
    BY <2>1 DEF AsyncConn, SameControl, SameLife
  <2>5. ASSUME a.flips > 0
        PROVE  /\ flipped \in AsyncConn
               /\ SameControl(a, flipped)
               /\ flipped.out = d.out
    <3>1. d.flips - 1 \in Nat
      BY <2>1, <2>5 DEF AsyncConn
    <3> QED BY <2>1, <3>1 DEF AsyncConn, SameControl, SameLife
  <2>6. o.conn \in AsyncConn /\ SameControl(a, o.conn) /\ o.conn.out = d.out
    <3>1. CASE o.conn = d
      BY <2>1, <3>1
    <3>2. CASE o.conn = [d EXCEPT !.state = "CLOSED"]
      BY <2>4, <3>2
    <3>3. CASE a.flips > 0 /\ o.conn = flipped
      BY <2>5, <3>3
    <3> QED BY <2>2, <3>1, <3>2, <3>3 DEF Outcome
  <2>7. o.err \in {"ok", "closed", "error"} /\ o.wants \in Event
    BY <2>2 DEF Outcome, Event
  <2> QED
    BY <2>1, <2>3, <2>6, <2>7
<1> QED
  BY <1>1, <1>2 DEF ConnectionWrite

-----------------------------------------------------------------------------
(* From one phase to the next *)

LEMMA AllocSucceeds == ASSUME ~ AllocMayFail PROVE AllocResult = {TRUE}
BY DEF AllocResult

LEMMA FirstWatcher ==
    ASSUME NEW a \in AsyncConn, a.watch = [x \in Event |-> "none"],
           NEW e \in Event, NEW kind \in {"read", "write"}
    PROVE  /\ Watch(a, kind, e) \in AsyncConn
           /\ Watch(a, kind, e) = [a EXCEPT !.watch = Only(kind, e)]
<1>1. a.watch[e] = "none"
  OBVIOUS
<1>2. Watch(a, kind, e) = [a EXCEPT !.watch[e] = kind]
  BY <1>1 DEF Watch
<1>3. [a.watch EXCEPT ![e] = kind] = Only(kind, e)
  BY DEF Only
<1>4. [a EXCEPT !.watch[e] = kind] = [a EXCEPT !.watch = Only(kind, e)]
  BY <1>3
<1>5. Only(kind, e) \in [Event -> {"none", "read", "write"}]
  BY DEF Only
<1>6. [a EXCEPT !.watch = Only(kind, e)] \in AsyncConn
  BY <1>5 DEF AsyncConn
<1> QED BY <1>2, <1>4, <1>6

\* A read task that waits for the other direction is still the only task.
LEMMA RewatchReadKeepsPhase ==
    ASSUME NEW p \in Pairs, ~ p.io.fault, Reading(p), NEW e \in Event
    PROVE  /\ [p EXCEPT !.io = RewatchRead(@, e)] \in Pairs
           /\ ~ [p EXCEPT !.io = RewatchRead(@, e)].io.fault
           /\ Reading([p EXCEPT !.io = RewatchRead(@, e)])
           /\ SameData(p.io, [p EXCEPT !.io = RewatchRead(@, e)].io)
           /\ [p EXCEPT !.io = RewatchRead(@, e)].own = p.own
<1> DEFINE a == CancelRead(p.io)
<1> DEFINE b == [a EXCEPT !.watch = Only("read", e)]
<1> DEFINE r == [b EXCEPT !.readTask = TRUE, !.readOn = e]
<1>1. p.io \in AsyncConn
  BY DEF Pairs
<1>2. /\ a \in AsyncConn /\ SameLife(p.io, a) /\ SameData(p.io, a)
      /\ a.watch = [x \in Event |-> "none"]
      /\ a.writeTask = p.io.writeTask /\ a.pending = p.io.pending
  BY <1>1, CancelReadFacts DEF Reading
<1>3. RewatchRead(p.io, e) = r /\ b \in AsyncConn
  BY <1>2, FirstWatcher DEF RewatchRead
<1> HIDE DEF a
<1>4. /\ r \in AsyncConn /\ SameLife(p.io, r) /\ SameData(p.io, r)
      /\ r.readTask /\ r.readOn = e
      /\ r.watch = Only("read", e)
      /\ r.writeTask = p.io.writeTask /\ r.pending = p.io.pending
  BY <1>2, <1>3 DEF AsyncConn, SameLife, SameData
<1> HIDE DEF r
<1> QED
  BY <1>3, <1>4 DEF Pairs, Reading, SameLife

LEMMA RewatchWriteKeepsPhase ==
    ASSUME NEW p \in Pairs, ~ p.io.fault, Writing(p), NEW e \in Event
    PROVE  /\ [p EXCEPT !.io = RewatchWrite(@, e)] \in Pairs
           /\ ~ [p EXCEPT !.io = RewatchWrite(@, e)].io.fault
           /\ Writing([p EXCEPT !.io = RewatchWrite(@, e)])
           /\ SameData(p.io, [p EXCEPT !.io = RewatchWrite(@, e)].io)
           /\ [p EXCEPT !.io = RewatchWrite(@, e)].own = p.own
<1> DEFINE a == CancelWrite(p.io, TRUE)
<1> DEFINE b == [a EXCEPT !.watch = Only("write", e)]
<1> DEFINE r == [b EXCEPT !.writeTask = TRUE, !.writeOn = e]
<1>1. p.io \in AsyncConn
  BY DEF Pairs
<1>2. /\ a \in AsyncConn /\ SameLife(p.io, a) /\ SameData(p.io, a)
      /\ a.watch = [x \in Event |-> "none"]
      /\ a.readTask = p.io.readTask
  BY <1>1, CancelWriteFacts DEF Writing
<1>3. a.pending = TRUE
  BY DEF CancelWrite, Unwatch, WriteCleanup, AsyncConn, Pairs, Writing
<1>4. RewatchWrite(p.io, e) = r /\ b \in AsyncConn
  BY <1>2, FirstWatcher DEF RewatchWrite
<1> HIDE DEF a
<1>5. /\ r \in AsyncConn /\ SameLife(p.io, r) /\ SameData(p.io, r)
      /\ r.writeTask = TRUE /\ r.writeOn = e
      /\ r.watch = Only("write", e)
      /\ r.readTask = p.io.readTask /\ r.pending = TRUE
  BY <1>2, <1>3, <1>4 DEF AsyncConn, SameLife, SameData
<1> HIDE DEF r
<1> QED
  BY <1>4, <1>5 DEF Pairs, Writing, SameLife

\* A response takes a connection from the read phase to the write phase.
LEMMA RespondStartsWriting ==
    ASSUME ServerAssumption, ~ AllocMayFail, serverUp,
           NEW p \in Pairs, ~ p.io.fault, Reading(p),
           NEW answer \in Answer, NEW q \in Respond(p, answer)
    PROVE  /\ q \in Pairs /\ ~ q.io.fault /\ Writing(q)
           /\ q.own.sent = p.own.sent /\ q.io.out = p.io.out + ResLen
           /\ q.io.state = "WRITING"
<1> DEFINE done == Pipeline(p, answer)
<1> DEFINE filled == [done.io EXCEPT !.out = @ + ResLen, !.state = "WRITING"]
<1> DEFINE a == PauseRead(filled)
<1> DEFINE b == ClearHook(a)
<1> DEFINE w == CreateWriteTask(b)
<1>1. /\ done \in Pairs /\ ~ done.io.fault
      /\ done.own.listed /\ done.own.data = "live"
      /\ ~ done.own.wsListed /\ ~ done.own.closeCb
      /\ \/ done.own.ws = "none" /\ done.io.hook = "server"
         \/ done.own.ws = "live" /\ done.io.hook = "websocket"
      /\ done.io.async = "live" /\ done.io.open /\ ~ done.io.disconnected
      /\ done.io.watch = Only("read", done.io.readOn)
      /\ done.io.readTask /\ ~ done.io.writeTask /\ ~ done.io.pending
      /\ done.io.out = p.io.out /\ done.own.sent = p.own.sent
  BY DEF Pipeline, Pairs, AsyncConn, ServerConn, Memory, Reading
<1>2. q = [done EXCEPT !.io = w, !.own.answer = answer]
  <2> DEFINE queued == [done EXCEPT !.io = a, !.own.answer = answer]
  <2>1. Respond(p, answer) = ServerCreateWriteTask(queued)
    <3>1. Respond(p, answer) =
             UNION {IF ok THEN ServerCreateWriteTask(queued)
                    ELSE {TaskDataCleanup(done)} : ok \in AllocResult}
      BY Zenon DEF Respond
    <3> HIDE DEF done, queued
    <3> QED BY <3>1, AllocSucceeds
  <2>2. ServerCreateWriteTask(queued) = {[queued EXCEPT !.io = w]}
    <3> DEFINE cleared == [queued EXCEPT !.io = ClearHook(@)]
    <3>1. cleared = [queued EXCEPT !.io = b]
      BY <1>1 DEF Pairs
    <3>2. [cleared EXCEPT !.io = CreateWriteTask(@)] = [queued EXCEPT !.io = w]
      BY <1>1, <3>1 DEF Pairs
    <3>3. ServerCreateWriteTask(queued) =
             {IF ok THEN [cleared EXCEPT !.io = CreateWriteTask(@)]
              ELSE TaskDataCleanup(cleared) : ok \in AllocResult}
      BY DEF ServerCreateWriteTask
    <3> HIDE DEF cleared
    <3> QED BY <3>2, <3>3, AllocSucceeds
  <2>3. [queued EXCEPT !.io = w] = [done EXCEPT !.io = w, !.own.answer = answer]
    BY <1>1 DEF Pairs
  <2> QED BY <2>1, <2>2, <2>3
<1> HIDE DEF done
<1>3. /\ filled \in AsyncConn /\ SameControl(done.io, filled)
      /\ filled.out = done.io.out + ResLen /\ filled.state = "WRITING"
  <2>1. done.io \in AsyncConn
    BY <1>1 DEF Pairs
  <2>2. done.io.out + ResLen \in Nat
    BY <2>1 DEF AsyncConn, ServerAssumption
  <2> QED BY <2>1, <2>2 DEF AsyncConn, SameControl, SameLife
<1>4. a = CancelRead(filled)
  BY <1>1, <1>3 DEF PauseRead, SameControl
<1> HIDE DEF filled, a, b, w
<1>5. /\ a \in AsyncConn /\ SameLife(done.io, a)
      /\ a.out = done.io.out + ResLen /\ a.state = "WRITING"
      /\ ~ a.readTask /\ ~ a.writeTask /\ ~ a.pending
      /\ a.watch = [e \in Event |-> "none"]
  <2>1. /\ a \in AsyncConn /\ SameLife(filled, a) /\ ~ a.readTask /\ SameData(filled, a)
        /\ a.writeTask = filled.writeTask /\ a.pending = filled.pending
        /\ filled.watch = Only("read", filled.readOn) =>
              a.watch = [e \in Event |-> "none"]
    BY <1>3, <1>4, CancelReadFacts
  <2>2. /\ SameLife(done.io, filled)
        /\ filled.writeTask = done.io.writeTask /\ filled.pending = done.io.pending
        /\ filled.watch = Only("read", filled.readOn)
    BY <1>1, <1>3 DEF SameControl
  <2> QED BY <1>1, <1>3, <2>1, <2>2 DEF SameLife, SameData
<1>6. /\ b \in AsyncConn /\ b.async = "live" /\ b.open /\ ~ b.fault /\ ~ b.disconnected
      /\ \/ done.own.ws = "none" /\ b.hook = "none"
         \/ done.own.ws = "live" /\ b.hook = "websocket"
      /\ ~ b.readTask /\ ~ b.writeTask /\ ~ b.pending
      /\ b.out = a.out /\ b.state = a.state
      /\ b.watch = [e \in Event |-> "none"]
  BY <1>1, <1>5 DEF ClearHook, AsyncConn, SameLife, b
<1> DEFINE watched == [b EXCEPT !.watch = Only("write", "WRITE")]
<1>7. /\ w = [watched EXCEPT !.writeTask = TRUE, !.writeOn = "WRITE", !.pending = TRUE]
      /\ watched \in AsyncConn
  BY <1>6, FirstWatcher DEF CreateWriteTask, Event, w
<1>8. /\ w \in AsyncConn /\ w.async = "live" /\ w.open = TRUE /\ ~ w.fault /\ ~ w.disconnected
      /\ w.hook = b.hook /\ w.out = b.out /\ w.state = b.state
      /\ ~ w.readTask /\ w.writeTask = TRUE /\ w.pending = TRUE
      /\ w.watch = Only("write", w.writeOn)
  BY <1>6, <1>7 DEF AsyncConn, Event
<1>9. q \in Pairs /\ ~ q.io.fault /\ Writing(q)
  BY <1>1, <1>2, <1>6, <1>8 DEF Pairs, ServerConn, Writing, Answer
<1>10. q.own.sent = done.own.sent /\ q.io = w
  BY <1>1, <1>2 DEF Pairs, ServerConn
<1> QED
  BY <1>1, <1>5, <1>6, <1>8, <1>9, <1>10

\* Every end of the read task leads from the read phase to the same phase, to the
\* write phase or to the release.
LEMMA AfterReadFacts ==
    ASSUME ServerAssumption, ~ AllocMayFail, serverUp,
           NEW p \in Pairs, ~ p.io.fault, Reading(p),
           NEW err \in {"ok", "closed", "error"}, NEW wants \in Event,
           NEW q \in AfterRead(p, err, wants)
    PROVE  Good(q)
<1>1. CASE err = "closed"
  <2>1. q = HandleDisconnect(p)
    BY <1>1 DEF AfterRead
  <2> QED BY <2>1, DisconnectWhileReading DEF Released, Good
<1>2. CASE err = "error"
  <2> DEFINE c == [p EXCEPT !.io = CancelRead(@)]
  <2>1. q = TaskDataCleanup(c)
    BY <1>2 DEF AfterRead
  <2>2. c \in Pairs /\ c.io = CancelRead(p.io) /\ c.own = p.own
    BY CancelReadFacts DEF Pairs
  <2>3. SameLife(p.io, c.io)
    BY <2>2, CancelReadFacts DEF Pairs
  <2> HIDE DEF c
  <2> QED BY <2>1, <2>2, <2>3, CleanupReleases DEF Released, Good, Reading, SameLife
<1>3. CASE err = "ok" /\ wants # p.io.readOn
  <2>1. q \in ServerRewatchRead(p, wants)
    BY <1>3 DEF AfterRead
  <2>2. q = [p EXCEPT !.io = RewatchRead(@, wants)]
    BY <2>1, AllocSucceeds DEF ServerRewatchRead
  <2> QED BY <2>2, RewatchReadKeepsPhase DEF Good
<1>4. CASE q = p
  BY <1>4 DEF Good
<1>5. CASE q = TaskDataCleanup(p)
  BY <1>5, CleanupReleases DEF Released, Good, Reading
<1>6. CASE \E answer \in Answer : q \in Respond(p, answer)
  BY <1>6, RespondStartsWriting DEF Good
<1> QED
  BY <1>1, <1>2, <1>3, <1>4, <1>5, <1>6 DEF AfterRead, ReadStep

\* The upgraded connection is handed over: a session owns it from then on.
LEMMA HandOverStartsSession ==
    ASSUME ~ AllocMayFail, NEW p \in Pairs, ~ p.io.fault,
           p.io.async = "live", p.io.hook = "websocket", ~ p.io.disconnected,
           ~ p.io.readTask, ~ p.io.writeTask, ~ p.io.pending,
           p.io.watch = [e \in Event |-> "none"],
           p.own.ws = "live",
           NEW q \in HandOver(p)
    PROVE  q \in Pairs /\ ~ q.io.fault /\ Session(q) /\ q.own.sent = p.own.sent
<1> DEFINE o == [p.own EXCEPT !.wsListed = TRUE, !.closeCb = TRUE]
<1> DEFINE f == [o EXCEPT !.listed = FALSE, !.data = "freed"]
<1> DEFINE watched == [p.io EXCEPT !.watch = Only("read", "READ")]
<1> DEFINE a == [watched EXCEPT !.readTask = TRUE, !.readOn = "READ"]
<1>1. p.io \in AsyncConn /\ p.own \in ServerConn /\ p = [io |-> p.io, own |-> p.own]
  BY DEF Pairs
<1>2. CreateReadTask(p.io) = a /\ watched \in AsyncConn
  BY <1>1, FirstWatcher DEF CreateReadTask, Event
<1> DEFINE session == [p EXCEPT !.own = o]
<1>3. q = FreeTaskData([session EXCEPT !.io = CreateReadTask(@)])
  BY DEF HandOver
<1>4. /\ o \in ServerConn /\ f \in ServerConn
      /\ f.wsListed = TRUE /\ f.closeCb = TRUE /\ f.listed = FALSE
      /\ f.data = "freed" /\ f.ws = "live" /\ f.sent = p.own.sent
  BY <1>1 DEF ServerConn, Memory
<1> HIDE DEF a, o
<1>5. [session EXCEPT !.io = CreateReadTask(@)] = [io |-> a, own |-> o]
  <2>1. session = [io |-> p.io, own |-> o]
    BY <1>1
  <2> HIDE DEF session
  <2>2. session.io = p.io
    BY <2>1
  <2> QED BY <1>2, <2>1, <2>2 DEF a
<1>6. q = [io |-> a, own |-> f]
  BY <1>3, <1>5 DEF FreeTaskData
<1>7. /\ a \in AsyncConn /\ SameLife(p.io, a) /\ a.readTask = TRUE
      /\ ~ a.writeTask /\ ~ a.pending /\ a.readOn = "READ"
      /\ a.watch = Only("read", "READ")
  BY <1>1, <1>2 DEF AsyncConn, SameLife, Event, a
<1> HIDE DEF f
<1> QED
  BY <1>4, <1>6, <1>7 DEF Pairs, Session, SameLife

\* Every end of the write task leads from the write phase to the same phase, to a
\* session or to the release.
LEMMA AfterConnectionWriteFacts ==
    ASSUME ~ AllocMayFail, serverUp,
           NEW p \in Pairs, ~ p.io.fault, Writing(p),
           NEW err \in {"ok", "closed", "error"}, NEW wants \in Event,
           NEW q \in AfterConnectionWrite(p, err, wants)
    PROVE  Good(q)
<1> DEFINE c == [p EXCEPT !.io = CancelWrite(@, FALSE)]
<1>1. c \in Pairs /\ c.io = CancelWrite(p.io, FALSE) /\ c.own = p.own
  BY CancelWriteFacts DEF Pairs
<1>2. /\ SameLife(p.io, c.io)
      /\ ~ c.io.readTask /\ ~ c.io.writeTask /\ ~ c.io.pending
      /\ c.io.watch = [e \in Event |-> "none"]
  BY <1>1, CancelWriteFacts DEF Pairs, Writing
<1>3. \/ err = "closed" /\ q = TaskDataCleanup(HandleDisconnect(c))
      \/ err = "error" /\ q = TaskDataCleanup(c)
      \/ err = "ok" /\ q \in ServerRewatchWrite(p, wants)
      \/ q = p
      \/ err = "ok" /\ q \in AfterWrite(c)
  BY DEF AfterConnectionWrite
<1> HIDE DEF c
<1>4. /\ c.io.async = "live" /\ ~ c.io.fault /\ ~ c.io.disconnected
      /\ c.own.data = "live" /\ ~ c.own.wsListed /\ ~ c.own.closeCb
      /\ \/ c.own.ws = "none" /\ c.io.hook = "none"
         \/ c.own.ws = "live" /\ c.io.hook = "websocket"
  BY <1>1, <1>2 DEF SameLife, Writing
<1>5. CASE q = TaskDataCleanup(HandleDisconnect(c))
  BY <1>1, <1>4, <1>5, DisconnectWhileWriting DEF Released, Good
<1>6. CASE q = TaskDataCleanup(c)
  BY <1>1, <1>4, <1>6, CleanupReleases DEF Released, Good
<1>7. CASE q \in ServerRewatchWrite(p, wants)
  <2>1. q = [p EXCEPT !.io = RewatchWrite(@, wants)]
    BY <1>7, AllocSucceeds DEF ServerRewatchWrite
  <2> QED BY <2>1, RewatchWriteKeepsPhase DEF Good
<1>8. CASE q = p
  BY <1>8 DEF Good
<1>9. CASE q \in AfterWrite(c)
  <2>1. CASE c.own.ws = "none"
    <3>1. q = TaskDataCleanup(c)
      BY <1>9, <2>1 DEF AfterWrite
    <3> QED BY <1>6, <3>1
  <2>2. CASE c.own.ws = "live"
    <3>1. q \in HandOver(c)
      BY <1>9, <2>2 DEF AfterWrite
    <3> QED BY <1>1, <1>2, <1>4, <2>2, <3>1, HandOverStartsSession DEF Good
  <2> QED BY <1>4, <2>1, <2>2
<1> QED
  BY <1>3, <1>5, <1>6, <1>7, <1>8, <1>9

\* An accepted connection is in the read phase.
LEMMA AcceptStartsReading ==
    ASSUME ConnectionAssumption, ~ AllocMayFail,
           NEW p \in Pairs, ~ p.io.fault, Idle(p),
           NEW q \in ServerCreateReadTask([p EXCEPT !.io = Accepted(@)])
    PROVE  /\ q \in Pairs /\ ~ q.io.fault /\ Reading(q)
           /\ q.own.sent = p.own.sent /\ q.io.out = p.io.out
<1> DEFINE b == Accepted(p.io)
<1> DEFINE h == [b EXCEPT !.hook = "server"]
<1> DEFINE watched == [h EXCEPT !.watch = Only("read", "READ")]
<1> DEFINE a == [watched EXCEPT !.readTask = TRUE, !.readOn = "READ"]
<1> DEFINE o == [p.own EXCEPT !.data = "live", !.listed = TRUE]
<1>1. p.io \in AsyncConn /\ p.own \in ServerConn /\ p = [io |-> p.io, own |-> p.own]
  BY DEF Pairs
<1>2. /\ h \in AsyncConn /\ h.async = "live" /\ h.open = TRUE
      /\ h.hook = "server" /\ ~ h.fault /\ ~ h.disconnected
      /\ ~ h.readTask /\ ~ h.writeTask /\ ~ h.pending
      /\ h.watch = [e \in Event |-> "none"] /\ h.out = p.io.out
  BY <1>1 DEF Accepted, AsyncConn, Memory, Idle
<1>3. o \in ServerConn /\ o.data = "live" /\ o.listed = TRUE
      /\ o.ws = "none" /\ ~ o.wsListed /\ ~ o.closeCb /\ o.answer = "none"
      /\ o.sent = p.own.sent
  BY <1>1 DEF ServerConn, Memory, Idle
<1>4. q = [io |-> CreateReadTask(h), own |-> o]
  <2> DEFINE accepted == [p EXCEPT !.io = Accepted(@)]
  <2> DEFINE installed == [accepted EXCEPT !.io.hook = "server", !.own.data = "live"]
  <2>1. accepted = [io |-> b, own |-> p.own]
    BY <1>1
  <2>2. installed = [io |-> h, own |-> [p.own EXCEPT !.data = "live"]]
    <3> HIDE DEF accepted, b
    <3>1. accepted.io = b /\ accepted.own = p.own
      BY <2>1
    <3> DEFINE hooked == [accepted EXCEPT !.io.hook = "server"]
    <3>2. hooked = [io |-> h, own |-> p.own]
      BY <2>1, <3>1
    <3>3. installed = [hooked EXCEPT !.own.data = "live"]
      OBVIOUS
    <3> HIDE DEF hooked, h
    <3>4. hooked.io = h /\ hooked.own = p.own
      BY <3>2
    <3>5. [hooked EXCEPT !.own.data = "live"]
             = [io |-> h, own |-> [p.own EXCEPT !.data = "live"]]
      BY <3>2, <3>4
    <3> QED BY <3>3, <3>5
  <2>3. q = [installed EXCEPT !.io = CreateReadTask(@), !.own.listed = TRUE]
    <3> DEFINE result(listed) == [installed EXCEPT !.io = CreateReadTask(@),
                                                   !.own.listed = listed]
    <3>1. \E listed \in AllocResult : q = result(listed)
      BY DEF ServerCreateReadTask
    <3> HIDE DEF result
    <3>2. q = result(TRUE)
      BY <3>1, AllocSucceeds
    <3> QED BY <3>2 DEF result
  <2> HIDE DEF installed, b, h
  <2>4. q = [io |-> CreateReadTask(h),
             own |-> [[p.own EXCEPT !.data = "live"] EXCEPT !.listed = TRUE]]
    BY <2>2, <2>3
  <2> QED BY <1>1, <2>4 DEF ServerConn
<1> HIDE DEF h, o
<1>5. CreateReadTask(h) = a /\ watched \in AsyncConn
  BY <1>2, FirstWatcher DEF CreateReadTask, Event
<1>6. /\ a \in AsyncConn /\ SameLife(h, a) /\ a.readTask = TRUE /\ a.out = h.out
      /\ ~ a.writeTask /\ ~ a.pending /\ a.readOn = "READ"
      /\ a.watch = Only("read", "READ")
  BY <1>2, <1>5 DEF AsyncConn, SameLife, Event
<1> HIDE DEF a
<1> QED
  BY <1>2, <1>3, <1>4, <1>5, <1>6 DEF Pairs, Reading, SameLife

\* bb_server_destroy leaves no connection of the server, in whatever phase.
LEMMA ShutdownReleases ==
    ASSUME NEW p \in Pairs, Good(p)
    PROVE  Good(Shutdown(p)) /\ Shutdown(p).io.async # "live"
<1>1. CASE Idle(p) \/ Gone(p)
  BY <1>1 DEF Shutdown, Good, Idle, Gone
<1>2. CASE Reading(p) \/ Writing(p)
  <2> DEFINE q == [p EXCEPT !.io = ClearHook(@)]
  <2> DEFINE r == ReleaseConnection(q)
  <2>1. Shutdown(p) = [r EXCEPT !.own.listed = FALSE]
    BY <1>2 DEF Shutdown, Reading, Writing
  <2>2. /\ q \in Pairs /\ q.own = p.own /\ q.io.async = "live"
        /\ ~ q.io.fault /\ q.io.hook # "server"
    BY <1>2 DEF ClearHook, Good, Reading, Writing, Pairs, AsyncConn
  <2> HIDE DEF q
  <2>3. /\ r \in Pairs /\ ~ r.io.fault /\ r.io.async = "freed"
        /\ r.io.hook # "server" /\ r.own.data = "freed"
        /\ r.own.ws \in {"none", "freed"} /\ ~ r.own.wsListed
    BY <1>2, <2>2, ReleaseFacts DEF Reading, Writing
  <2> HIDE DEF r
  <2>4. r.own \in ServerConn /\ r.io \in AsyncConn /\ r = [io |-> r.io, own |-> r.own]
    BY <2>3 DEF Pairs
  <2>5. Shutdown(p) = [io |-> r.io, own |-> [r.own EXCEPT !.listed = FALSE]]
    BY <2>1, <2>4
  <2> DEFINE o == [r.own EXCEPT !.listed = FALSE]
  <2>6. o \in ServerConn /\ o.data = "freed" /\ o.ws \in {"none", "freed"}
        /\ ~ o.listed /\ ~ o.wsListed
    BY <2>3, <2>4 DEF ServerConn
  <2> DEFINE s == Shutdown(p)
  <2>7. s \in Pairs /\ s.io = r.io /\ s.own = o
    BY <2>4, <2>5, <2>6 DEF Pairs
  <2> HIDE DEF o, s
  <2>8. Good(s) /\ s.io.async # "live"
    BY <2>3, <2>6, <2>7 DEF Good, Gone
  <2> QED BY <2>8 DEF s
<1>3. CASE Session(p)
  <2> DEFINE r == WebsocketDestroy(p)
  <2>1. Shutdown(p) = [r EXCEPT !.own.wsListed = FALSE]
    BY <1>3 DEF Shutdown, Session
  <2>2. /\ r \in Pairs /\ ~ r.io.fault /\ r.io.async = "freed"
        /\ r.io.hook = "none" /\ r.own = [p.own EXCEPT !.ws = "freed"]
    BY <1>3, WebsocketDestroyFacts DEF Session, Good
  <2>3. r.own.ws = "freed" /\ r.own.data = "freed" /\ ~ r.own.listed
    BY <1>3, <2>2 DEF Session, Pairs, ServerConn
  <2> HIDE DEF r
  <2>4. r.own \in ServerConn /\ r.io \in AsyncConn /\ r = [io |-> r.io, own |-> r.own]
    BY <2>2 DEF Pairs
  <2>5. Shutdown(p) = [io |-> r.io, own |-> [r.own EXCEPT !.wsListed = FALSE]]
    BY <2>1, <2>4
  <2> DEFINE o == [r.own EXCEPT !.wsListed = FALSE]
  <2>6. o \in ServerConn /\ o.data = "freed" /\ o.ws = "freed"
        /\ ~ o.listed /\ ~ o.wsListed
    BY <2>3, <2>4 DEF ServerConn
  <2> DEFINE s == Shutdown(p)
  <2>7. s \in Pairs /\ s.io = r.io /\ s.own = o
    BY <2>4, <2>5, <2>6 DEF Pairs
  <2> HIDE DEF o, s
  <2>8. Good(s) /\ s.io.async # "live"
    BY <2>2, <2>6, <2>7 DEF Good, Gone
  <2> QED BY <2>8 DEF s
<1> QED
  BY <1>1, <1>2, <1>3 DEF Good

-----------------------------------------------------------------------------
(* The phases are an inductive invariant *)

LEMMA InitPhase ==
    ASSUME ConnectionAssumption, ServerAssumption, Init
    PROVE  PhaseInv
<1>1. NoConnection \in AsyncConn
  BY DEF NoConnection, AsyncConn, Event, Memory, ConnectionAssumption
<1> DEFINE first == [data |-> "none", ws |-> "none", listed |-> FALSE,
                     wsListed |-> FALSE, closeCb |-> FALSE, answer |-> "none",
                     sent |-> 0, received |-> 0]
<1>2. first \in ServerConn
  BY DEF ServerConn, Memory, Answer
<1>3. Good([io |-> NoConnection, own |-> first])
  BY <1>1, <1>2 DEF Good, Idle, Pairs, NoConnection
<1> HIDE DEF first
<1>4. io = [c \in Conns |-> NoConnection] /\ own = [c \in Conns |-> first] /\ serverUp
  BY DEF Init, first
<1> QED
  BY <1>1, <1>2, <1>3, <1>4 DEF PhaseInv, Pair

\* A step of one connection preserves the invariant when it leads to a phase.
LEMMA BecomesKeepsPhase ==
    ASSUME PhaseInv, serverUp, NEW c \in Conns, NEW p, Good(p), Becomes(c, p)
    PROVE  PhaseInv'
<1>1. p.io \in AsyncConn /\ p.own \in ServerConn /\ p = [io |-> p.io, own |-> p.own]
  BY DEF Good, Pairs
<1>2. /\ io' = [io EXCEPT ![c] = p.io]
      /\ own' = [own EXCEPT ![c] = p.own]
      /\ serverUp' = serverUp
  BY DEF Becomes
<1>3. io' \in [Conns -> AsyncConn] /\ own' \in [Conns -> ServerConn]
  BY <1>1, <1>2 DEF PhaseInv
<1>4. ASSUME NEW d \in Conns PROVE Good([io |-> io'[d], own |-> own'[d]])
  <2>1. CASE d = c
    BY <1>1, <1>2, <2>1 DEF PhaseInv
  <2>2. CASE d # c
    BY <1>2, <2>2 DEF PhaseInv, Pair
  <2> QED BY <2>1, <2>2
<1> QED
  BY <1>2, <1>3, <1>4 DEF PhaseInv, Pair

\* The read task of a connection runs in the read phase, the write task in the
\* write phase, and so the handlers find the connection after the read or write.
LEMMA ReadTaskReads ==
    ASSUME PhaseInv, NEW c \in Conns, ReadTask(c), NEW o \in ConnectionRead(io[c])
    PROVE  /\ Reading(Pair(io[c], own[c]))
           /\ Pair(o.conn, own[c]) \in Pairs
           /\ Reading(Pair(o.conn, own[c])) /\ ~ Pair(o.conn, own[c]).io.fault
           /\ o.err \in {"ok", "closed", "error"} /\ o.wants \in Event
           /\ serverUp
<1> DEFINE p == Pair(io[c], own[c])
<1> DEFINE r == Pair(o.conn, own[c])
<1>1. /\ Good(p) /\ p.io = io[c] /\ p.own = own[c]
      /\ io[c] \in AsyncConn /\ own[c] \in ServerConn
  BY DEF PhaseInv, Pair
<1>2. /\ o.conn \in AsyncConn /\ SameControl(io[c], o.conn)
      /\ o.err \in {"ok", "closed", "error"} /\ o.wants \in Event
  BY <1>1, ConnectionReadFacts
<1>3. /\ p.io.async = "live" /\ p.own.data = "live"
      /\ p.io.watch[p.io.readOn] = "read" /\ p.io.readOn \in Event
  BY <1>1 DEF ReadTask, AsyncConn
<1>4. r \in Pairs /\ r.io = o.conn /\ r.own = own[c]
  BY <1>1, <1>2 DEF Pair, Pairs
<1> HIDE DEF p, r
<1>5. Reading(p) /\ ~ p.io.fault
  BY <1>1, <1>3 DEF Good, Idle, Writing, Session, Gone, Only
<1>6. Reading(r) /\ ~ r.io.fault
  BY <1>1, <1>2, <1>4, <1>5 DEF Reading, SameControl, SameLife
<1>7. serverUp
  BY DEF PhaseInv, ReadTask
<1> QED BY <1>2, <1>4, <1>5, <1>6, <1>7 DEF p, r

Written(c, o) ==
    Pair(o.conn, [own[c] EXCEPT !.sent = @ + (io[c].out - o.conn.out)])

LEMMA WriteTaskWrites ==
    ASSUME PhaseInv, NEW c \in Conns, WriteTask(c), NEW o \in ConnectionWrite(io[c])
    PROVE  /\ Writing(Pair(io[c], own[c]))
           /\ Written(c, o) \in Pairs
           /\ Writing(Written(c, o)) /\ ~ Written(c, o).io.fault
           /\ Written(c, o).io = o.conn
           /\ Written(c, o).own.sent = own[c].sent + (io[c].out - o.conn.out)
           /\ Written(c, o).own.answer = own[c].answer
           /\ o.err \in {"ok", "closed", "error"} /\ o.wants \in Event
           /\ serverUp
<1> DEFINE p == Pair(io[c], own[c])
<1> DEFINE written == [own[c] EXCEPT !.sent = @ + (io[c].out - o.conn.out)]
<1> DEFINE r == Pair(o.conn, written)
<1>1. /\ Good(p) /\ p.io = io[c] /\ p.own = own[c]
      /\ io[c] \in AsyncConn /\ own[c] \in ServerConn
  BY DEF PhaseInv, Pair
<1>2. /\ o.conn \in AsyncConn /\ SameControl(io[c], o.conn)
      /\ io[c].out - o.conn.out \in Nat
      /\ o.err \in {"ok", "closed", "error"} /\ o.wants \in Event
  BY <1>1, ConnectionWriteFacts
<1>3. /\ p.io.async = "live" /\ p.own.data = "live"
      /\ p.io.watch[p.io.writeOn] = "write" /\ p.io.writeOn \in Event
  BY <1>1 DEF WriteTask, AsyncConn
<1>4. /\ written \in ServerConn
      /\ written.data = own[c].data /\ written.ws = own[c].ws
      /\ written.listed = own[c].listed /\ written.wsListed = own[c].wsListed
      /\ written.closeCb = own[c].closeCb /\ written.answer = own[c].answer
      /\ written.sent = own[c].sent + (io[c].out - o.conn.out)
  <2>1. own[c].sent + (io[c].out - o.conn.out) \in Nat
    BY <1>1, <1>2 DEF ServerConn
  <2> QED BY <1>1, <2>1 DEF ServerConn
<1> HIDE DEF written
<1>5. r \in Pairs /\ r.io = o.conn /\ r.own = written
  BY <1>2, <1>4 DEF Pair, Pairs
<1> HIDE DEF p, r
<1>6. Writing(p) /\ ~ p.io.fault
  BY <1>1, <1>3 DEF Good, Idle, Reading, Session, Gone, Only
<1>7. Writing(r) /\ ~ r.io.fault
  <2>1. SameControl(p.io, r.io)
    BY <1>1, <1>2, <1>5
  <2>2. /\ r.own.data = p.own.data /\ r.own.ws = p.own.ws
        /\ r.own.listed = p.own.listed /\ r.own.wsListed = p.own.wsListed
        /\ r.own.closeCb = p.own.closeCb /\ r.own.answer = p.own.answer
    BY <1>1, <1>4, <1>5
  <2> QED BY <1>6, <2>1, <2>2 DEF Writing, SameControl, SameLife
<1>8. serverUp
  BY DEF PhaseInv, WriteTask
<1>9. r = Written(c, o)
  BY DEF r, written, Written
<1> QED BY <1>2, <1>4, <1>5, <1>6, <1>7, <1>8, <1>9 DEF p

LEMMA NextKeepsPhase ==
    ASSUME ConnectionAssumption, ServerAssumption, ~ AllocMayFail,
           PhaseInv, [Next]_vars
    PROVE  PhaseInv'
<1>0. \A c \in Conns :
         /\ Good(Pair(io[c], own[c]))
         /\ io[c] \in AsyncConn /\ own[c] \in ServerConn
         /\ Pair(io[c], own[c]).io = io[c] /\ Pair(io[c], own[c]).own = own[c]
         /\ Pair(io[c], own[c]) \in Pairs
  BY DEF PhaseInv, Pair, Pairs
<1>1. ASSUME NEW c \in Conns, Accept(c) PROVE PhaseInv'
  <2> DEFINE p == Pair(io[c], own[c])
  <2>1. PICK q \in ServerCreateReadTask(Pair(Accepted(io[c]), own[c])) : Becomes(c, q)
    BY <1>1 DEF Accept
  <2>2. Pair(Accepted(io[c]), own[c]) = [p EXCEPT !.io = Accepted(@)]
    BY <1>0 DEF Pair
  <2>3. Good(p) /\ p.io.async = "none"
    BY <1>0, <1>1 DEF Accept
  <2> HIDE DEF p
  <2>4. p \in Pairs /\ ~ p.io.fault /\ Idle(p)
    BY <2>3 DEF Good, Reading, Writing, Session, Gone
  <2>5. Good(q)
    BY <2>1, <2>2, <2>4, AcceptStartsReading DEF Good
  <2> QED BY <1>1, <2>1, <2>5, BecomesKeepsPhase DEF Accept
<1>2. ASSUME NEW c \in Conns, ReadTask(c) PROVE PhaseInv'
  <2>1. PICK o \in ConnectionRead(io[c]) :
           \E q \in AfterRead(Pair(o.conn, own[c]), o.err, o.wants) : Becomes(c, q)
    BY <1>2 DEF ReadTask
  <2>2. PICK q \in AfterRead(Pair(o.conn, own[c]), o.err, o.wants) : Becomes(c, q)
    BY <2>1
  <2>3. Good(q) /\ serverUp
    BY <1>2, <2>2, ReadTaskReads, AfterReadFacts
  <2> QED BY <2>2, <2>3, BecomesKeepsPhase
<1>3. ASSUME NEW c \in Conns, WriteTask(c) PROVE PhaseInv'
  <2>1. PICK o \in ConnectionWrite(io[c]) :
           \E q \in AfterConnectionWrite(Written(c, o), o.err, o.wants) : Becomes(c, q)
    BY <1>3 DEF WriteTask, Written
  <2>2. PICK q \in AfterConnectionWrite(Written(c, o), o.err, o.wants) : Becomes(c, q)
    BY <2>1
  <2>3. Good(q) /\ serverUp
    BY <1>3, <2>2, WriteTaskWrites, AfterConnectionWriteFacts
  <2> QED BY <2>2, <2>3, BecomesKeepsPhase
<1>4. ASSUME NEW c \in Conns, SessionEnds(c) PROVE PhaseInv'
  <2> DEFINE p == Pair(io[c], own[c])
  <2>1. Good(p) /\ p.own.wsListed
    BY <1>0, <1>4 DEF SessionEnds
  <2>2. Becomes(c, AsyncClose(p))
    BY <1>4 DEF SessionEnds
  <2> HIDE DEF p
  <2>3. Session(p) /\ ~ p.io.fault /\ p \in Pairs
    BY <2>1 DEF Good, Idle, Reading, Writing, Gone
  <2>4. Good(AsyncClose(p))
    BY <2>3, SessionReleases DEF Released, Good
  <2>5. serverUp
    BY <1>0, <2>3 DEF PhaseInv, Session, p
  <2> QED BY <2>2, <2>4, <2>5, BecomesKeepsPhase
<1>5. ASSUME NEW c \in Conns, PeerSends(c) PROVE PhaseInv'
  <2> DEFINE a == [io[c] EXCEPT !.inbox = @ + 1]
  <2> DEFINE o == [own[c] EXCEPT !.received = @ + 1]
  <2>1. a \in AsyncConn /\ SameControl(io[c], a)
    <3>1. io[c] \in AsyncConn /\ io[c].inbox + 1 \in Nat
      BY <1>0 DEF AsyncConn
    <3> QED BY <3>1 DEF AsyncConn, SameControl, SameLife
  <2>2. /\ o \in ServerConn
        /\ o.data = own[c].data /\ o.ws = own[c].ws
        /\ o.listed = own[c].listed /\ o.wsListed = own[c].wsListed
        /\ o.closeCb = own[c].closeCb /\ o.answer = own[c].answer
    <3>1. own[c] \in ServerConn /\ own[c].received + 1 \in Nat
      BY <1>0 DEF ServerConn
    <3> QED BY <3>1 DEF ServerConn
  <2>3. /\ io' = [io EXCEPT ![c] = a] /\ own' = [own EXCEPT ![c] = o]
        /\ serverUp' = serverUp
    BY <1>5 DEF PeerSends
  <2> HIDE DEF a, o
  <2>4. Good(Pair(a, o))
    <3> DEFINE p == Pair(io[c], own[c])
    <3> DEFINE q == Pair(a, o)
    <3>1. Good(p) /\ p.io = io[c] /\ p.own = own[c]
      BY <1>0
    <3>2. q \in Pairs /\ q.io = a /\ q.own = o
      BY <2>1, <2>2 DEF Pair, Pairs
    <3> HIDE DEF p, q
    <3> QED
      BY <2>1, <2>2, <3>1, <3>2
      DEF Good, Idle, Reading, Writing, Session, Gone, SameControl, SameLife, q
  <2> QED
    BY <2>1, <2>2, <2>3, <2>4 DEF PhaseInv, SameControl, SameLife
<1>6. ASSUME NEW c \in Conns, PeerReads(c) \/ PeerSendsRecord(c) \/ PeerCloses(c)
      PROVE  PhaseInv'
  <2>1. PICK a \in AsyncConn :
           /\ SameControl(io[c], a)
           /\ io' = [io EXCEPT ![c] = a] /\ own' = own /\ serverUp' = serverUp
    <3> DEFINE read == [io[c] EXCEPT !.outbox = @ - 1]
               record == [io[c] EXCEPT !.record = TRUE]
               closed == [io[c] EXCEPT !.peerClosed = TRUE]
    <3>1. /\ record \in AsyncConn /\ SameControl(io[c], record)
          /\ closed \in AsyncConn /\ SameControl(io[c], closed)
      <4>1. io[c] \in AsyncConn
        BY <1>0
      <4>2. record \in AsyncConn /\ SameControl(io[c], record)
        BY <4>1 DEF AsyncConn, SameControl, SameLife
      <4>3. closed \in AsyncConn /\ SameControl(io[c], closed)
        BY <4>1 DEF AsyncConn, SameControl, SameLife
      <4> QED BY <4>2, <4>3
    <3>2. ASSUME io[c].outbox > 0
          PROVE  read \in AsyncConn /\ SameControl(io[c], read)
      <4>1. io[c] \in AsyncConn /\ io[c].outbox - 1 \in Nat
        BY <1>0, <3>2 DEF AsyncConn
      <4> QED BY <4>1 DEF AsyncConn, SameControl, SameLife
    <3>3. /\ PeerReads(c) => io[c].outbox > 0 /\ io' = [io EXCEPT ![c] = read]
          /\ PeerSendsRecord(c) => io' = [io EXCEPT ![c] = record]
          /\ PeerCloses(c) => io' = [io EXCEPT ![c] = closed]
          /\ own' = own /\ serverUp' = serverUp
      BY <1>6 DEF PeerReads, PeerSendsRecord, PeerCloses
    <3> HIDE DEF read, record, closed
    <3> QED BY <1>6, <3>1, <3>2, <3>3
  <2>2. Good(Pair(a, own[c]))
    <3> DEFINE p == Pair(io[c], own[c])
    <3> DEFINE q == Pair(a, own[c])
    <3>1. Good(p) /\ p.io = io[c] /\ p.own = own[c]
      BY <1>0
    <3>2. q \in Pairs /\ q.io = a /\ q.own = own[c]
      BY <1>0, <2>1 DEF Pair, Pairs
    <3> HIDE DEF p, q
    <3> QED
      BY <2>1, <3>1, <3>2
      DEF Good, Idle, Reading, Writing, Session, Gone, SameControl, SameLife, q
  <2> QED
    BY <2>1, <2>2 DEF PhaseInv, SameControl, SameLife
<1>7. ASSUME ServerDestroy PROVE PhaseInv'
  <2>1. ASSUME NEW c \in Conns
        PROVE  /\ io'[c] = Shutdown(Pair(io[c], own[c])).io
               /\ own'[c] = Shutdown(Pair(io[c], own[c])).own
               /\ Good(Shutdown(Pair(io[c], own[c])))
               /\ io'[c].async # "live"
    BY <1>0, <1>7, ShutdownReleases DEF ServerDestroy
  <2>2. ASSUME NEW c \in Conns
        PROVE  /\ Pair(io'[c], own'[c]) = Shutdown(Pair(io[c], own[c]))
               /\ io'[c] \in AsyncConn /\ own'[c] \in ServerConn
    BY <2>1 DEF Good, Pairs, Pair
  <2>3. io' \in [Conns -> AsyncConn] /\ own' \in [Conns -> ServerConn]
    BY <1>7, <2>1, <2>2 DEF ServerDestroy
  <2> QED
    BY <1>7, <2>1, <2>2, <2>3 DEF PhaseInv, ServerDestroy
<1>8. CASE UNCHANGED vars
  BY <1>8 DEF vars, PhaseInv
<1> QED
  BY <1>1, <1>2, <1>3, <1>4, <1>5, <1>6, <1>7, <1>8 DEF Next, Terminated

\* Always, each connection is in one of its phases, when no allocation fails.
THEOREM PhasesAlways == ASSUME ~ AllocMayFail PROVE Spec => []PhaseInv
<1>1. Init => PhaseInv
  BY InitPhase, ConnectionAssumption, ServerAssumption
<1>2. PhaseInv /\ [Next]_vars => PhaseInv'
  BY NextKeepsPhase, ConnectionAssumption, ServerAssumption
<1> QED
  BY <1>1, <1>2, PTL DEF Spec

-----------------------------------------------------------------------------
(* What the phases imply *)

LEMMA PhaseSafe ==
    ASSUME PhaseInv
    PROVE  TypeOK /\ NoSecondCleanup /\ OneOwner /\ HookWhileReading
<1> SUFFICES ASSUME NEW c \in Conns
             PROVE  /\ ~ io[c].fault
                    /\ own[c].listed <=> own[c].data = "live"
                    /\ own[c].wsListed <=> own[c].ws = "live" /\ own[c].data # "live"
                    /\ io[c].async = "live" <=> own[c].listed \/ own[c].wsListed
                    /\ io[c].hook = "server" =>
                          own[c].data = "live" /\ ~ io[c].writeTask
                    /\ own[c].data = "live" /\ io[c].readTask => io[c].hook = "server"
  BY DEF TypeOK, NoSecondCleanup, OneOwner, HookWhileReading, PhaseInv
<1> DEFINE p == Pair(io[c], own[c])
<1>1. Good(p) /\ p.io = io[c] /\ p.own = own[c]
  BY DEF PhaseInv, Pair
<1> HIDE DEF p
<1> QED
  BY <1>1 DEF Good, Idle, Reading, Writing, Session, Gone

LEMMA PhaseTasks ==
    ASSUME PhaseInv
    PROVE  TasksMatchWatchers /\ AlwaysDriven
<1> SUFFICES ASSUME NEW c \in Conns
             PROVE  /\ io[c].async = "live" =>
                          /\ \A e \in Event :
                                /\ io[c].watch[e] = "read" <=>
                                      io[c].readTask /\ io[c].readOn = e
                                /\ io[c].watch[e] = "write" <=>
                                      io[c].writeTask /\ io[c].writeOn = e
                          /\ io[c].pending <=> io[c].writeTask
                    /\ own[c].data = "live" =>
                          /\ io[c].readTask # io[c].writeTask
                          /\ io[c].writeTask <=> own[c].answer # "none"
  BY DEF TasksMatchWatchers, AlwaysDriven
<1> DEFINE p == Pair(io[c], own[c])
<1>1. /\ Good(p) /\ p.io = io[c] /\ p.own = own[c]
      /\ p.io.readTask \in BOOLEAN /\ p.io.writeTask \in BOOLEAN
  BY DEF PhaseInv, Pair, AsyncConn
<1> HIDE DEF p
<1>2. CASE Reading(p) \/ Session(p)
  <2>1. /\ \A e \in Event : io[c].watch[e] = IF e = io[c].readOn THEN "read" ELSE "none"
        /\ io[c].readTask = TRUE /\ io[c].writeTask = FALSE /\ ~ io[c].pending
        /\ own[c].data = "live" => own[c].answer = "none"
    BY <1>1, <1>2 DEF Reading, Session, Only
  <2> QED BY <2>1
<1>3. CASE Writing(p)
  <2>1. /\ \A e \in Event : io[c].watch[e] = IF e = io[c].writeOn THEN "write" ELSE "none"
        /\ io[c].readTask = FALSE /\ io[c].writeTask = TRUE /\ io[c].pending
        /\ own[c].answer # "none"
    BY <1>1, <1>3 DEF Writing, Only
  <2> QED BY <2>1
<1>5. CASE Idle(p) \/ Gone(p)
  BY <1>1, <1>5 DEF Idle, Gone
<1> QED
  BY <1>1, <1>2, <1>3, <1>5 DEF Good

\* No object of a connection is used after its release, and the server's hook is
\* installed in the read phase only.
THEOREM ReleasedOnce ==
    ASSUME ~ AllocMayFail
    PROVE  Spec => [](TypeOK /\ NoSecondCleanup /\ HookWhileReading)
<1>1. PhaseInv => TypeOK /\ NoSecondCleanup /\ HookWhileReading
  BY PhaseSafe
<1> QED
  BY <1>1, PhasesAlways, PTL

\* Every connection that is open has one owner, and a closed one has none.
THEOREM OwnedByOne ==
    ASSUME ~ AllocMayFail
    PROVE  Spec => []OneOwner
<1>1. PhaseInv => OneOwner
  BY PhaseSafe
<1> QED
  BY <1>1, PhasesAlways, PTL

\* The task pointers say what is watched, and exactly one task drives each
\* connection of the server.
THEOREM DrivenByOneTask ==
    ASSUME ~ AllocMayFail
    PROVE  Spec => [](TasksMatchWatchers /\ AlwaysDriven)
<1>1. PhaseInv => TasksMatchWatchers /\ AlwaysDriven
  BY PhaseTasks
<1> QED
  BY <1>1, PhasesAlways, PTL

-----------------------------------------------------------------------------
(* What of a response is written *)

\* What is queued of a response and what is written of it make up the response,
\* and before there is one neither is anything.  While it is written only a peer
\* that hung up closes the connection.
Counted(p) ==
    /\ p.own.answer = "none" /\ p.own.data # "freed" => p.io.out = 0 /\ p.own.sent = 0
    /\ p.own.answer # "none" /\ p.own.data = "live" =>
          /\ p.io.out + p.own.sent = ResLen
          /\ p.io.state = "CLOSED" => p.io.peerClosed

CountInv == serverUp => \A c \in Conns : Counted(Pair(io[c], own[c]))

\* ResponseComplete, of one connection
Complete(c) ==
    /\ own[c].data = "live" /\ own'[c].data = "freed"
    /\ own[c].answer # "none"
    /\ ~ io[c].peerClosed
    /\ serverUp'
    => own'[c].sent = ResLen

\* A write fails, or closes the connection, only when the peer hung up.
LEMMA WriteOutcome ==
    ASSUME NEW a \in AsyncConn, a.state = "CLOSED" => a.peerClosed,
           NEW o \in ConnectionWrite(a)
    PROVE  /\ o.conn.peerClosed = a.peerClosed
           /\ o.err # "ok" => a.peerClosed
           /\ o.conn.state = "CLOSED" => a.peerClosed
<1>1. CASE \/ o = Outcome(a, "closed", a.writeOn) /\ a.state = "CLOSED"
           \/ o = Outcome(a, "ok", "READ")
  BY <1>1 DEF Outcome
<1>2. ASSUME NEW n \in 0 .. a.out, o \in WriteLoopEnds(a, n), a.state # "CLOSED"
      PROVE  /\ o.conn.peerClosed = a.peerClosed
             /\ o.err # "ok" => a.peerClosed
             /\ o.conn.state = "CLOSED" => a.peerClosed
  <2> DEFINE d == [a EXCEPT !.out = @ - n,
                            !.outbox = IF a.peerClosed THEN @ ELSE @ + n,
                            !.record = @ /\ a.writeOn = "WRITE"]
             e == [d EXCEPT !.flips = @ - 1, !.record = FALSE]
             f == [d EXCEPT !.state = "CLOSED"]
  <2>1. \/ o = Outcome(d, "ok", "WRITE")
        \/ o = Outcome(e, "ok", "READ")
        \/ o = Outcome(f, "closed", "WRITE") /\ a.peerClosed
        \/ o = Outcome(d, "error", "WRITE") /\ a.peerClosed
    BY <1>2 DEF WriteLoopEnds, When
  <2>2. /\ d.peerClosed = a.peerClosed /\ d.state = a.state
        /\ e.peerClosed = a.peerClosed /\ e.state = a.state
        /\ f.peerClosed = a.peerClosed
    BY DEF AsyncConn
  <2> HIDE DEF d, e, f
  <2> QED BY <1>2, <2>1, <2>2 DEF Outcome
<1> QED BY <1>1, <1>2 DEF ConnectionWrite

\* The read task queues at most one response, and all of it.
LEMMA AfterReadCounts ==
    ASSUME ServerAssumption, ~ AllocMayFail, serverUp,
           NEW p \in Pairs, ~ p.io.fault, Reading(p), Counted(p),
           NEW err \in {"ok", "closed", "error"}, NEW wants \in Event,
           NEW q \in AfterRead(p, err, wants)
    PROVE  Counted(q)
<1>1. CASE q.own.data = "freed"
  BY <1>1 DEF Counted
<1>2. CASE q = HandleDisconnect(p)
  BY <1>1, <1>2, DisconnectWhileReading DEF Released, Gone
<1>3. CASE err = "error"
  <2> DEFINE c == [p EXCEPT !.io = CancelRead(@)]
  <2>1. q = TaskDataCleanup(c)
    BY <1>3 DEF AfterRead
  <2>2. c \in Pairs /\ c.io = CancelRead(p.io) /\ c.own = p.own
    BY CancelReadFacts DEF Pairs
  <2>3. SameLife(p.io, c.io)
    BY <2>2, CancelReadFacts DEF Pairs
  <2> HIDE DEF c
  <2> QED BY <1>1, <2>1, <2>2, <2>3, CleanupReleases DEF Released, Gone, Reading, SameLife
<1>4. CASE q \in ServerRewatchRead(p, wants)
  <2>1. q = [p EXCEPT !.io = RewatchRead(@, wants)]
    BY <1>4, AllocSucceeds DEF ServerRewatchRead
  <2>2. SameData(p.io, q.io) /\ q.own = p.own
    BY <2>1, RewatchReadKeepsPhase
  <2> QED BY <2>2 DEF Counted, SameData
<1>5. CASE q = p
  BY <1>5
<1>6. CASE q = TaskDataCleanup(p)
  BY <1>1, <1>6, CleanupReleases DEF Released, Gone, Reading
<1>7. CASE \E answer \in Answer : q \in Respond(p, answer)
  <2>1. /\ Writing(q) /\ q.own.sent = p.own.sent /\ q.io.out = p.io.out + ResLen
        /\ q.io.state = "WRITING"
    BY <1>7, RespondStartsWriting
  <2>2. p.io.out = 0 /\ p.own.sent = 0
    BY DEF Counted, Reading
  <2> QED BY <2>1, <2>2 DEF Counted, Writing, ServerAssumption
<1> QED
  BY <1>2, <1>3, <1>4, <1>5, <1>6, <1>7 DEF AfterRead, ReadStep

\* The write task keeps the connection, or releases it or hands it over: without
\* a failure only when nothing is left to write.
LEMMA AfterWriteCounts ==
    ASSUME ~ AllocMayFail, serverUp,
           NEW p \in Pairs, ~ p.io.fault, Writing(p),
           NEW err \in {"ok", "closed", "error"}, NEW wants \in Event,
           NEW q \in AfterConnectionWrite(p, err, wants)
    PROVE  \/ q.own = p.own /\ SameData(p.io, q.io)
           \/ /\ q.own.data = "freed"
              /\ err = "ok" => p.io.out = 0 /\ q.own.sent = p.own.sent
<1> DEFINE c == [p EXCEPT !.io = CancelWrite(@, FALSE)]
<1>1. c \in Pairs /\ c.io = CancelWrite(p.io, FALSE) /\ c.own = p.own
  BY CancelWriteFacts DEF Pairs
<1>2. /\ SameLife(p.io, c.io)
      /\ ~ c.io.readTask /\ ~ c.io.writeTask /\ ~ c.io.pending
      /\ c.io.watch = [e \in Event |-> "none"]
  BY <1>1, CancelWriteFacts DEF Pairs, Writing
<1>3. \/ err = "closed" /\ q = TaskDataCleanup(HandleDisconnect(c))
      \/ err = "error" /\ q = TaskDataCleanup(c)
      \/ q \in ServerRewatchWrite(p, wants)
      \/ q = p
      \/ ~ (p.io.out > 0) /\ q \in AfterWrite(c)
  BY DEF AfterConnectionWrite
<1> HIDE DEF c
<1>4. /\ c.io.async = "live" /\ ~ c.io.fault /\ ~ c.io.disconnected
      /\ c.own.data = "live" /\ ~ c.own.wsListed /\ ~ c.own.closeCb
      /\ \/ c.own.ws = "none" /\ c.io.hook = "none"
         \/ c.own.ws = "live" /\ c.io.hook = "websocket"
  BY <1>1, <1>2 DEF SameLife, Writing
<1>5. CASE err = "closed" /\ q = TaskDataCleanup(HandleDisconnect(c))
  BY <1>1, <1>4, <1>5, DisconnectWhileWriting DEF Released, Gone
<1>6. TaskDataCleanup(c).own.data = "freed" /\ TaskDataCleanup(c).own.sent = p.own.sent
  BY <1>1, <1>4, CleanupReleases DEF Released, Gone
<1>7. CASE q \in ServerRewatchWrite(p, wants)
  <2>1. q = [p EXCEPT !.io = RewatchWrite(@, wants)]
    BY <1>7, AllocSucceeds DEF ServerRewatchWrite
  <2> QED BY <2>1, RewatchWriteKeepsPhase
<1>8. CASE q = p
  BY <1>8 DEF SameData
<1>9. CASE ~ (p.io.out > 0) /\ q \in AfterWrite(c)
  <2>1. p.io.out = 0
    BY <1>9 DEF Pairs, AsyncConn
  <2>2. CASE c.own.ws = "none"
    <3>1. q = TaskDataCleanup(c)
      BY <1>9, <2>2 DEF AfterWrite
    <3> QED BY <1>6, <2>1, <3>1
  <2>3. CASE c.own.ws = "live"
    <3>1. q \in HandOver(c)
      BY <1>9, <2>3 DEF AfterWrite
    <3>2. Session(q) /\ q.own.sent = c.own.sent
      BY <1>1, <1>2, <1>4, <2>3, <3>1, HandOverStartsSession
    <3> QED BY <1>1, <2>1, <3>2 DEF Session
  <2> QED BY <1>4, <2>2, <2>3
<1> QED
  BY <1>3, <1>5, <1>6, <1>7, <1>8, <1>9

LEMMA BecomesCounts ==
    ASSUME PhaseInv, CountInv, serverUp, NEW c \in Conns, NEW p, Counted(p),
           Becomes(c, p),
           own[c].data = "live" /\ p.own.data = "freed" /\ own[c].answer # "none"
              /\ ~ io[c].peerClosed => p.own.sent = ResLen
    PROVE  CountInv' /\ \A d \in Conns : Complete(d)
<1>1. io'[c] = p.io /\ own'[c] = p.own
  BY DEF Becomes, PhaseInv
<1>2. ASSUME NEW d \in Conns, d # c PROVE io'[d] = io[d] /\ own'[d] = own[d]
  BY <1>2 DEF Becomes, PhaseInv
<1>3. ASSUME NEW d \in Conns PROVE Counted(Pair(io'[d], own'[d]))
  <2>1. CASE d = c
    BY <1>1, <2>1 DEF Counted, Pair
  <2>2. CASE d # c
    BY <1>2, <2>2 DEF CountInv
  <2> QED BY <2>1, <2>2
<1>4. ASSUME NEW d \in Conns PROVE Complete(d)
  <2>1. CASE d = c
    BY <1>1, <2>1 DEF Complete
  <2>2. CASE d # c
    BY <1>2, <2>2 DEF Complete
  <2> QED BY <2>1, <2>2
<1> QED BY <1>3, <1>4 DEF CountInv

LEMMA NextCounts ==
    ASSUME ~ AllocMayFail, PhaseInv, CountInv, [Next]_vars
    PROVE  CountInv' /\ \A d \in Conns : Complete(d)
<1>0. \A c \in Conns :
         /\ Good(Pair(io[c], own[c]))
         /\ io[c] \in AsyncConn /\ own[c] \in ServerConn
         /\ Pair(io[c], own[c]).io = io[c] /\ Pair(io[c], own[c]).own = own[c]
         /\ Pair(io[c], own[c]) \in Pairs
  BY DEF PhaseInv, Pair, Pairs
<1>1. ASSUME NEW c \in Conns, Accept(c) PROVE CountInv' /\ \A d \in Conns : Complete(d)
  <2> DEFINE p == Pair(io[c], own[c])
  <2>1. PICK q \in ServerCreateReadTask(Pair(Accepted(io[c]), own[c])) : Becomes(c, q)
    BY <1>1 DEF Accept
  <2>2. Pair(Accepted(io[c]), own[c]) = [p EXCEPT !.io = Accepted(@)]
    BY <1>0 DEF Pair
  <2>3. /\ Good(p) /\ p.io.async = "none" /\ p.io = io[c] /\ p.own = own[c]
        /\ serverUp /\ Counted(p)
    BY <1>0, <1>1 DEF Accept, CountInv
  <2> HIDE DEF p
  <2>4. p \in Pairs /\ ~ p.io.fault /\ Idle(p)
    BY <2>3 DEF Good, Reading, Writing, Session, Gone
  <2>5. Reading(q) /\ q.own.sent = p.own.sent /\ q.io.out = p.io.out
    BY <2>1, <2>2, <2>4, AcceptStartsReading, ConnectionAssumption
  <2>6. Counted(q)
    BY <2>3, <2>4, <2>5 DEF Counted, Idle, Reading
  <2>7. own[c].data # "live"
    BY <2>3, <2>4 DEF Idle
  <2> QED BY <2>1, <2>3, <2>6, <2>7, BecomesCounts
<1>2. ASSUME NEW c \in Conns, ReadTask(c) PROVE CountInv' /\ \A d \in Conns : Complete(d)
  <2> DEFINE p == Pair(io[c], own[c])
  <2>1. PICK o \in ConnectionRead(io[c]) :
           \E q \in AfterRead(Pair(o.conn, own[c]), o.err, o.wants) : Becomes(c, q)
    BY <1>2 DEF ReadTask
  <2>2. PICK q \in AfterRead(Pair(o.conn, own[c]), o.err, o.wants) : Becomes(c, q)
    BY <2>1
  <2> DEFINE r == Pair(o.conn, own[c])
  <2>3. /\ Reading(p) /\ r \in Pairs /\ Reading(r) /\ ~ r.io.fault
        /\ o.err \in {"ok", "closed", "error"} /\ o.wants \in Event /\ serverUp
    BY <1>2, ReadTaskReads
  <2>4. o.conn.out = io[c].out
    BY <1>0, ConnectionReadFacts
  <2>5. r.io = o.conn /\ r.own = own[c] /\ p.io = io[c] /\ p.own = own[c] /\ Counted(p)
    BY <2>3 DEF Pair, CountInv
  <2>6. q \in AfterRead(r, o.err, o.wants)
    BY <2>2
  <2> HIDE DEF p, r
  <2>7. Counted(r) /\ own[c].answer = "none"
    BY <2>3, <2>4, <2>5 DEF Counted, Reading
  <2>8. Counted(q)
    BY <2>3, <2>6, <2>7, AfterReadCounts, ServerAssumption
  <2> QED BY <2>2, <2>3, <2>7, <2>8, BecomesCounts
<1>3. ASSUME NEW c \in Conns, WriteTask(c) PROVE CountInv' /\ \A d \in Conns : Complete(d)
  <2> DEFINE p == Pair(io[c], own[c])
  <2>1. PICK o \in ConnectionWrite(io[c]) :
           \E q \in AfterConnectionWrite(Written(c, o), o.err, o.wants) : Becomes(c, q)
    BY <1>3 DEF WriteTask, Written
  <2>2. PICK q \in AfterConnectionWrite(Written(c, o), o.err, o.wants) : Becomes(c, q)
    BY <2>1
  <2> DEFINE r == Written(c, o)
  <2>3. /\ Writing(p) /\ r \in Pairs /\ Writing(r) /\ ~ r.io.fault /\ r.io = o.conn
        /\ r.own.sent = own[c].sent + (io[c].out - o.conn.out)
        /\ o.err \in {"ok", "closed", "error"} /\ o.wants \in Event /\ serverUp
    BY <1>3, WriteTaskWrites
  <2>4. p.io = io[c] /\ p.own = own[c] /\ Counted(p)
    BY <2>3 DEF Pair, CountInv
  <2>5. q \in AfterConnectionWrite(r, o.err, o.wants)
    BY <2>2
  <2> HIDE DEF p, r
  <2>6. /\ io[c].out + own[c].sent = ResLen
        /\ io[c].state = "CLOSED" => io[c].peerClosed
    BY <2>3, <2>4 DEF Counted, Writing
  <2>7. /\ o.conn.peerClosed = io[c].peerClosed
        /\ o.err # "ok" => io[c].peerClosed
        /\ o.conn.state = "CLOSED" => io[c].peerClosed
    BY <1>0, <2>6, WriteOutcome
  <2>8. r.io.out + r.own.sent = ResLen /\ r.io.out \in Nat /\ r.own.sent \in Nat
    <3>1. /\ io[c].out \in Nat /\ own[c].sent \in Nat /\ r.io.out \in Nat
          /\ r.own.sent \in Nat
      BY <1>0, <2>3 DEF Pairs, AsyncConn, ServerConn
    <3> QED BY <2>3, <2>6, <3>1
  <2>9. CASE q.own = r.own /\ SameData(r.io, q.io)
    <3>1. Counted(q)
      BY <2>3, <2>7, <2>8, <2>9 DEF Counted, SameData, Writing
    <3>2. q.own.data # "freed"
      BY <2>3, <2>9 DEF Writing
    <3> QED BY <2>2, <2>3, <3>1, <3>2, BecomesCounts
  <2>10. CASE q.own.data = "freed" /\ (o.err = "ok" => r.io.out = 0 /\ q.own.sent = r.own.sent)
    <3>1. Counted(q)
      BY <2>10 DEF Counted
    <3>2. ~ io[c].peerClosed => q.own.sent = ResLen
      BY <2>7, <2>8, <2>10
    <3> QED BY <2>2, <2>3, <3>1, <3>2, BecomesCounts
  <2> QED BY <2>3, <2>5, <2>9, <2>10, AfterWriteCounts
<1>4. ASSUME NEW c \in Conns, SessionEnds(c) PROVE CountInv' /\ \A d \in Conns : Complete(d)
  <2> DEFINE p == Pair(io[c], own[c])
  <2>1. Good(p) /\ p.own.wsListed /\ p.own = own[c]
    BY <1>0, <1>4 DEF SessionEnds
  <2>2. Becomes(c, AsyncClose(p))
    BY <1>4 DEF SessionEnds
  <2>3. p.io = io[c]
    BY <1>0
  <2> HIDE DEF p
  <2>4. Session(p) /\ ~ p.io.fault /\ p \in Pairs
    BY <2>1 DEF Good, Idle, Reading, Writing, Gone
  <2>5. Counted(AsyncClose(p))
    BY <2>4, SessionReleases DEF Released, Gone, Counted
  <2>6. serverUp /\ own[c].data # "live"
    BY <2>1, <2>3, <2>4 DEF PhaseInv, Session
  <2> QED BY <2>2, <2>5, <2>6, BecomesCounts
<1>5. ASSUME NEW c \in Conns,
             PeerSends(c) \/ PeerReads(c) \/ PeerSendsRecord(c) \/ PeerCloses(c)
      PROVE  CountInv' /\ \A d \in Conns : Complete(d)
  <2>1. /\ serverUp' = serverUp
        /\ \A d \in Conns :
              /\ own'[d].data = own[d].data /\ own'[d].answer = own[d].answer
              /\ own'[d].sent = own[d].sent
              /\ io'[d].out = io[d].out /\ io'[d].state = io[d].state
              /\ io[d].peerClosed => io'[d].peerClosed
    <3>1. CASE PeerSends(c)
      <4> DEFINE a == [io[c] EXCEPT !.inbox = @ + 1]
                 o == [own[c] EXCEPT !.received = @ + 1]
      <4>1. /\ o.data = own[c].data /\ o.answer = own[c].answer /\ o.sent = own[c].sent
            /\ a.out = io[c].out /\ a.state = io[c].state
            /\ a.peerClosed = io[c].peerClosed
        BY <1>0 DEF AsyncConn, ServerConn
      <4>2. /\ io' = [io EXCEPT ![c] = a] /\ own' = [own EXCEPT ![c] = o]
            /\ serverUp' = serverUp
        BY <3>1 DEF PeerSends
      <4> HIDE DEF a, o
      <4> QED BY <4>1, <4>2 DEF PhaseInv
    <3>2. CASE PeerReads(c) \/ PeerSendsRecord(c) \/ PeerCloses(c)
      <4> DEFINE read == [io[c] EXCEPT !.outbox = @ - 1]
                 record == [io[c] EXCEPT !.record = TRUE]
                 closed == [io[c] EXCEPT !.peerClosed = TRUE]
      <4>1. \A a \in {read, record, closed} :
               /\ a.out = io[c].out /\ a.state = io[c].state
               /\ io[c].peerClosed => a.peerClosed
        BY <1>0 DEF AsyncConn
      <4>2. /\ io' = [io EXCEPT ![c] = read] \/ io' = [io EXCEPT ![c] = record]
               \/ io' = [io EXCEPT ![c] = closed]
            /\ own' = own /\ serverUp' = serverUp
        BY <3>2 DEF PeerReads, PeerSendsRecord, PeerCloses
      <4>3. PICK a \in {read, record, closed} : io' = [io EXCEPT ![c] = a]
        BY <4>2
      <4> HIDE DEF read, record, closed
      <4> QED BY <4>1, <4>2, <4>3 DEF PhaseInv
    <3> QED BY <1>5, <3>1, <3>2
  <2>2. ASSUME NEW d \in Conns, serverUp PROVE Counted(Pair(io'[d], own'[d]))
    <3>1. Counted(Pair(io[d], own[d]))
      BY <2>2 DEF CountInv
    <3> QED BY <2>1, <3>1 DEF Counted, Pair
  <2> QED BY <2>1, <2>2 DEF CountInv, Complete
<1>6. CASE ServerDestroy
  BY <1>6 DEF ServerDestroy, CountInv, Complete
<1>7. CASE UNCHANGED vars
  BY <1>7 DEF vars, CountInv, Counted, Complete, Pair
<1> QED
  BY <1>1, <1>2, <1>3, <1>4, <1>5, <1>6, <1>7 DEF Next, Terminated

\* No response is cut short: the server releases a connection, or hands it over,
\* with all of its response written, unless the peer hung up or the server was
\* shut down (_server_after_write, _bb_write_task).
THEOREM ResponseCompleteAlways ==
    ASSUME ~ AllocMayFail
    PROVE  Spec => ResponseComplete
<1>1. Init => CountInv
  BY DEF Init, CountInv, Counted, Pair, NoConnection
<1>2. PhaseInv /\ CountInv /\ [Next]_vars => CountInv'
  BY NextCounts
<1>3. PhaseInv /\ CountInv /\ [Next]_vars =>
         [\A c \in Conns :
             /\ own[c].data = "live" /\ own'[c].data = "freed"
             /\ own[c].answer # "none"
             /\ ~ io[c].peerClosed
             /\ serverUp'
             => own'[c].sent = ResLen]_vars
  BY NextCounts DEF Complete
<1> QED
  BY <1>1, <1>2, <1>3, PhasesAlways, PTL DEF Spec, ResponseComplete

====
