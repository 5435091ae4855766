------------------------ MODULE WebSocketSessionProofs ------------------------
(***************************************************************************)
(* What holds of a WebSocket session in every state, for sockets, buffers   *)
(* and messages of any size, also when allocations fail: the handlers get   *)
(* the messages in order, and the heartbeat ends only silent sessions.      *)
(*                                                                          *)
(* A handler maps worlds to worlds.  The invariant is a predicate of worlds *)
(* (Good, Flow, Sound), each function of the source is shown to keep it or  *)
(* to make up for what it lacks, and an action is a composition of them.    *)
(***************************************************************************)
EXTENDS WebSocketSession, SequenceTheorems, FiniteSetTheorems, WellFoundedInduction, TLAPS

FrameType ==
    [op : {"GET", "101", "404", "malformed", "TEXT", "PING", "PONG", "CLOSE"}, id : Nat, len : Nat]

SessionType == [
    mem : Memory,
    phase : {"request", "handshake", "http", "open", "failed"},
    heartbeat : BOOLEAN, waiting : BOOLEAN,
    missed : Nat, sent : Nat, closes : Nat, got : Seq(Nat), silent : Nat]

WorldType ==
    [io : [Sides -> AsyncConn], ws : [Sides -> SessionType], wire : [Sides -> Seq(FrameType)]]

IsText(f) == f.op = "TEXT"

\* After the first k frames of a stream come the messages g + 1 to n, in order,
\* and none of them after a close frame.
InOrder(g, n, frames, k) ==
    LET rest == k + 1 .. Len(frames) IN
    /\ \A j \in rest : IsText(frames[j]) => g < frames[j].id /\ frames[j].id <= n
    /\ \A i, j \in rest :
          i < j /\ IsText(frames[i]) /\ IsText(frames[j]) => frames[i].id < frames[j].id
    /\ \A m \in g + 1 .. n : \E j \in rest : IsText(frames[j]) /\ frames[j].id = m
    /\ \A i, j \in rest : i < j /\ frames[i].op = "CLOSE" => ~ IsText(frames[j])

\* The descriptor's watchers and its tasks
Watches(c) ==
    /\ c.watch["READ"] \in {"none", "read"} /\ c.watch["WRITE"] \in {"none", "write"}
    /\ c.watch["READ"] = "read" => c.readTask
    /\ c.watch["WRITE"] = "write" => c.writeTask

Tasks(c) == Watches(c) /\ (c.readTask \/ c.writeTask => c.open /\ ~ c.disconnected)

\* A connection in the state CLOSED has a peer that hung up.
Honest(c) == c.open /\ c.state = "CLOSED" => c.peerClosed

\* Intervals without a frame are at least the ones without a pong.
Silent(x) == IF x.waiting THEN x.missed < x.silent ELSE x.missed <= x.silent

Lives(w, s) ==
    /\ Tasks(w.io[s])
    /\ w.io[s].open => /\ w.io[s].async = "live"
                       /\ w.ws[s].phase = "http" \/ w.ws[s].mem = "live"
    /\ w.io[s].peerClosed => ~ w.io[Peer(s)].open
    /\ w.ws[s].sent > 0 => w.ws[s].phase = "open"
    /\ Silent(w.ws[s])

Received(w, s) ==
    /\ Len(w.ws[s].got) <= w.ws[Peer(s)].sent
    /\ \A i \in DOMAIN w.ws[s].got : w.ws[s].got[i] = i

\* The server is silent until it has answered the request.
Unanswered(w) ==
    /\ ~ w.io["server"].readTask /\ ~ w.io["server"].writeTask
    /\ w.ws["server"].got = <<>> /\ ~ w.ws["server"].heartbeat
    /\ w.io["server"].async = "live" =>
          /\ w.io["server"].open /\ ~ w.io["server"].disconnected
          /\ w.wire["server"] # <<>> /\ ~ IsText(w.wire["server"][1])

Roles(w) ==
    /\ w.ws["client"].phase \in {"request", "handshake", "open", "failed"}
    /\ w.ws["server"].phase \in {"http", "open"}
    /\ w.ws["client"].phase = "failed" => ~ w.io["client"].open
    /\ w.io["client"].readTask => w.ws["client"].phase \in {"handshake", "open"}
    /\ w.ws["server"].sent > 0 => w.ws["server"].got # <<>>
    /\ w.ws["server"].phase = "http" => Unanswered(w)

Good(w) ==
    /\ w \in WorldType
    /\ Roles(w)
    /\ \A s \in Sides : Lives(w, s) /\ Received(w, s)

\* The side is past the point where the server waits for the request.
Acts(w, s) == Good(w) /\ w.ws[s].phase # "http"

\* The stream towards a side that still reads
Flow(w, s) ==
    w.io[s].open => InOrder(Len(w.ws[s].got), w.ws[Peer(s)].sent, w.wire[s], 0)

\* A side that is open has not sent a close frame to one that is open.
Sound(w, s) ==
    /\ Honest(w.io[s])
    /\ w.io[s].open /\ w.io[Peer(s)].open =>
          \A i \in DOMAIN w.wire[Peer(s)] : w.wire[Peer(s)][i].op # "CLOSE"

Whole(w) == Good(w) /\ \A s \in Sides : Flow(w, s) /\ Sound(w, s)

SessionInv == Whole(World)

-----------------------------------------------------------------------------
(* Sides and worlds *)

\* Induction in the form of a least counterexample: every set of natural numbers
\* that is not empty has a least member.
LEMMA LeastNumber ==
    ASSUME NEW X \in SUBSET Nat, X # {}
    PROVE  \E n \in X : \A m \in X : n <= m
<1> DEFINE Smaller == {ss \in Nat \X Nat : ss[1] < ss[2]}
<1>1. IsWellFoundedOn(Smaller, Nat)
  BY NatLessThanWellFounded DEF OpToRel
<1>2. \A m, n \in Nat : <<m, n>> \notin Smaller => n <= m
  OBVIOUS
<1> HIDE DEF Smaller
<1>3. PICK n \in X : \A m \in X : <<m, n>> \notin Smaller
  BY <1>1, WFMin
<1> QED BY <1>2, <1>3

\* A finite set of natural numbers that is not empty has a greatest member.
LEMMA GreatestNumber ==
    ASSUME NEW X \in SUBSET Nat, X # {}, IsFiniteSet(X)
    PROVE  \E n \in X : \A m \in X : m <= n
<1> DEFINE Above(n) == X \ (0 .. n)
           T == {Above(n) : n \in X}
           Smaller == StrictSubsetOrdering(X)
<1>1. IsWellFoundedOn(Smaller, FiniteSubsetsOf(X))
    BY FS_StrictSubsetOrderingWellFounded
<1>2. \A n \in X : Above(n) \in FiniteSubsetsOf(X)
    BY FS_Difference DEF FiniteSubsetsOf
<1>3. T \subseteq FiniteSubsetsOf(X) /\ T # {}
    BY <1>2
<1>4. \A m, n \in X : m < n => <<Above(n), Above(m)>> \in Smaller
    <2> SUFFICES ASSUME NEW m \in X, NEW n \in X, m < n
                 PROVE  <<Above(n), Above(m)>> \in Smaller
        OBVIOUS
    <2>1. Above(n) \subseteq Above(m) /\ n \in Above(m) /\ n \notin Above(n)
        OBVIOUS
    <2>2. Above(m) \in SUBSET X /\ Above(n) \in SUBSET X
        OBVIOUS
    <2> HIDE DEF Above
    <2> QED
        BY <2>1, <2>2 DEF StrictSubsetOrdering
<1> HIDE DEF Smaller, Above
<1>5. PICK x \in T : \A y \in T : ~ (<<y, x>> \in Smaller)
    BY <1>1, <1>3, WFMin
<1>6. PICK n \in X : x = Above(n)
    BY <1>5
<1>7. \A m \in X : ~ (n < m)
    BY <1>4, <1>5, <1>6
<1> QED
    BY <1>6, <1>7

LEMMA PeerFacts ==
    \A s \in Sides : Peer(s) \in Sides /\ Peer(s) # s /\ Peer(Peer(s)) = s
                     /\ \A e \in Sides : e = s \/ e = Peer(s)
BY DEF Sides, Peer

\* The parts of a world
LEMMA WorldFacts ==
    ASSUME NEW w \in WorldType, NEW s \in Sides
    PROVE  /\ w = [io |-> w.io, ws |-> w.ws, wire |-> w.wire]
           /\ w.io \in [Sides -> AsyncConn] /\ w.io[s] \in AsyncConn
           /\ w.ws \in [Sides -> SessionType] /\ w.ws[s] \in SessionType
           /\ w.wire \in [Sides -> Seq(FrameType)] /\ w.wire[s] \in Seq(FrameType)
BY DEF WorldType

\* Another connection for a side
LEMMA SetConn ==
    ASSUME NEW w \in WorldType, NEW s \in Sides, NEW b \in AsyncConn
    PROVE  LET v == [w EXCEPT !.io[s] = b]
           IN /\ v \in WorldType /\ v.ws = w.ws /\ v.wire = w.wire
              /\ v.io[s] = b /\ v.io[Peer(s)] = w.io[Peer(s)]
BY PeerFacts DEF WorldType

\* Another session for a side
LEMMA SetSession ==
    ASSUME NEW w \in WorldType, NEW s \in Sides, NEW y \in SessionType
    PROVE  LET v == [w EXCEPT !.ws[s] = y]
           IN /\ v \in WorldType /\ v.io = w.io /\ v.wire = w.wire
              /\ v.ws[s] = y /\ v.ws[Peer(s)] = w.ws[Peer(s)]
BY PeerFacts DEF WorldType

-----------------------------------------------------------------------------
(* The operations of module AsyncConnection *)

\* What cancelling tasks and closing leave as it is
Less(a, b) ==
    /\ b \in AsyncConn /\ Tasks(b)
    /\ b.open => a.open /\ b.async = a.async
    /\ b.async = "live" => a.async = "live"
    /\ b.peerClosed = a.peerClosed
    /\ b.readTask => a.readTask
    /\ b.writeTask => a.writeTask

LEMMA CancelReadFacts ==
    ASSUME NEW a \in AsyncConn, Watches(a)
    PROVE  LET b == CancelRead(a)
           IN /\ b \in AsyncConn /\ Watches(b)
              /\ ~ b.readTask /\ b.writeTask = a.writeTask /\ b.open = a.open
              /\ b.disconnected = a.disconnected /\ b.async = a.async /\ b.state = a.state
              /\ b.peerClosed = a.peerClosed /\ b.hook = a.hook /\ b.fault = a.fault
BY DEF CancelRead, Unwatch, ReadCleanup, AsyncConn, Event, Watches

LEMMA CancelWriteFacts ==
    ASSUME NEW a \in AsyncConn, Watches(a)
    PROVE  LET b == CancelWrite(a, FALSE)
           IN /\ b \in AsyncConn /\ Watches(b)
              /\ b.readTask = a.readTask /\ ~ b.writeTask /\ b.open = a.open
              /\ b.disconnected = a.disconnected /\ b.async = a.async /\ b.state = a.state
              /\ b.peerClosed = a.peerClosed /\ b.hook = a.hook /\ b.fault = a.fault
              /\ b.out = a.out
<1> DEFINE x == WriteCleanup(a, FALSE)
           d == CancelWrite(a, FALSE)
           w == [e \in Event |-> IF x.watch[e] = "write" THEN "none" ELSE x.watch[e]]
<1>1. /\ x \in AsyncConn /\ x.watch = a.watch
      /\ x.readTask = a.readTask /\ ~ x.writeTask /\ x.open = a.open
      /\ x.disconnected = a.disconnected /\ x.async = a.async /\ x.state = a.state
      /\ x.peerClosed = a.peerClosed /\ x.hook = a.hook /\ x.fault = a.fault
      /\ x.out = a.out
  BY DEF WriteCleanup, AsyncConn
<1>2. d = [x EXCEPT !.watch = w]
  BY DEF CancelWrite, Unwatch
<1>3. x.watch \in [Event -> {"none", "read", "write"}]
  BY <1>1 DEF AsyncConn
<1>4. w \in [Event -> {"none", "read", "write"}]
  BY <1>3
<1>5. /\ w["READ"] \in {"none", "read"} /\ w["WRITE"] = "none"
      /\ w["READ"] = "read" => a.readTask
  BY <1>1 DEF Watches, Event
<1> HIDE DEF x, w
<1>6. d \in AsyncConn
  BY <1>1, <1>2, <1>4 DEF AsyncConn
<1>7. /\ d.watch = w
      /\ d.readTask = x.readTask /\ d.writeTask = x.writeTask /\ d.open = x.open
      /\ d.disconnected = x.disconnected /\ d.async = x.async /\ d.state = x.state
      /\ d.peerClosed = x.peerClosed /\ d.hook = x.hook /\ d.fault = x.fault
      /\ d.out = x.out
  BY <1>1, <1>2 DEF AsyncConn
<1>8. Watches(d)
  BY <1>1, <1>5, <1>7 DEF Watches
<1> HIDE DEF d
<1> QED
  BY <1>1, <1>6, <1>7, <1>8 DEF d

LEMMA DisconnectedFacts ==
    ASSUME NEW a \in AsyncConn, Watches(a)
    PROVE  LET b == Disconnected(a)
           IN /\ b \in AsyncConn /\ Tasks(b)
              /\ ~ b.readTask /\ ~ b.writeTask /\ b.open = a.open /\ b.async = a.async
              /\ b.state = a.state /\ b.peerClosed = a.peerClosed /\ b.hook = a.hook
<1> DEFINE r == IF a.readTask THEN CancelRead(a) ELSE a
           c == IF a.writeTask THEN CancelWrite(r, FALSE) ELSE r
<1>1. /\ r \in AsyncConn /\ Watches(r) /\ ~ r.readTask /\ r.writeTask = a.writeTask
      /\ r.open = a.open /\ r.async = a.async /\ r.state = a.state
      /\ r.peerClosed = a.peerClosed /\ r.hook = a.hook
  <2>1. CASE a.readTask
    BY <2>1, CancelReadFacts
  <2>2. CASE ~ a.readTask
    BY <2>2
  <2> QED BY <2>1, <2>2
<1>2. Disconnected(a) = [c EXCEPT !.disconnected = TRUE]
  BY DEF Disconnected
<1> HIDE DEF r
<1>3. /\ c \in AsyncConn /\ Watches(c) /\ ~ c.readTask /\ ~ c.writeTask
      /\ c.open = a.open /\ c.async = a.async /\ c.state = a.state
      /\ c.peerClosed = a.peerClosed /\ c.hook = a.hook
  <2>1. CASE a.writeTask
    BY <1>1, <2>1, CancelWriteFacts
  <2>2. CASE ~ a.writeTask
    BY <1>1, <2>2
  <2> QED BY <2>1, <2>2
<1> HIDE DEF c
<1> DEFINE d == [c EXCEPT !.disconnected = TRUE]
<1>4. /\ d \in AsyncConn /\ d.watch = c.watch
      /\ d.readTask = c.readTask /\ d.writeTask = c.writeTask
      /\ d.open = c.open /\ d.async = c.async /\ d.state = c.state
      /\ d.peerClosed = c.peerClosed /\ d.hook = c.hook
  BY <1>3 DEF AsyncConn
<1> HIDE DEF d
<1>5. Tasks(d)
  BY <1>3, <1>4 DEF Tasks, Watches
<1>6. Disconnected(a) = d
  BY <1>2 DEF d
<1> QED BY <1>3, <1>4, <1>5, <1>6

LEMMA DestroyedFacts ==
    ASSUME NEW a \in AsyncConn, Watches(a)
    PROVE  LET b == ConnectionDestroy(a)
           IN /\ b \in AsyncConn /\ Watches(b)
              /\ ~ b.open /\ b.async = a.async /\ b.peerClosed = a.peerClosed
              /\ b.readTask = a.readTask /\ b.writeTask = a.writeTask /\ b.hook = a.hook
              /\ b.disconnected = a.disconnected
BY DEF ConnectionDestroy, AsyncConn, Watches

LEMMA CreateReadTaskFacts ==
    ASSUME NEW a \in AsyncConn, Tasks(a), a.open, ~ a.disconnected
    PROVE  LET b == CreateReadTask(a)
           IN /\ b \in AsyncConn /\ Tasks(b)
              /\ b.readTask /\ b.writeTask = a.writeTask /\ b.open = a.open
              /\ b.disconnected = a.disconnected /\ b.async = a.async /\ b.state = a.state
              /\ b.peerClosed = a.peerClosed /\ b.hook = a.hook /\ b.fault = a.fault
<1>1. CASE a.readTask
  BY <1>1 DEF CreateReadTask
<1>2. CASE ~ a.readTask
  <2>1. a.watch["READ"] = "none"
    BY <1>2 DEF Tasks, Watches
  <2> DEFINE b == [a EXCEPT !.watch["READ"] = "read", !.readTask = TRUE, !.readOn = "READ"]
  <2>2. CreateReadTask(a) = b
    BY <1>2, <2>1 DEF CreateReadTask, Watch, AsyncConn
  <2>3. /\ b \in AsyncConn /\ b.watch = [a.watch EXCEPT !["READ"] = "read"]
        /\ b.readTask /\ b.writeTask = a.writeTask /\ b.open = a.open
        /\ b.disconnected = a.disconnected /\ b.async = a.async /\ b.state = a.state
        /\ b.peerClosed = a.peerClosed /\ b.hook = a.hook /\ b.fault = a.fault
    BY DEF AsyncConn, Event
  <2>4. a.watch \in [Event -> {"none", "read", "write"}]
    BY DEF AsyncConn
  <2> HIDE DEF b
  <2>5. Tasks(b)
    BY <2>3, <2>4 DEF Tasks, Watches, Event
  <2> QED BY <2>2, <2>3, <2>5
<1> QED BY <1>1, <1>2

LEMMA CreateWriteTaskFacts ==
    ASSUME NEW a \in AsyncConn, Tasks(a), a.open, ~ a.disconnected
    PROVE  LET b == CreateWriteTask(a)
           IN /\ b \in AsyncConn /\ Tasks(b)
              /\ b.readTask = a.readTask /\ b.open = a.open
              /\ b.disconnected = a.disconnected /\ b.async = a.async /\ b.state = a.state
              /\ b.peerClosed = a.peerClosed /\ b.hook = a.hook /\ b.fault = a.fault
<1>1. CASE a.pending
  BY <1>1 DEF CreateWriteTask
<1>2. CASE ~ a.pending
  <2> DEFINE b == [a EXCEPT !.watch["WRITE"] = "write", !.writeTask = TRUE,
                            !.writeOn = "WRITE", !.pending = TRUE]
  <2>1. a.watch["WRITE"] \in {"none", "write"}
    BY DEF Tasks, Watches
  <2>2. CreateWriteTask(a) = b
    BY <1>2, <2>1 DEF CreateWriteTask, Watch, WriteCleanup, AsyncConn
  <2>3. /\ b \in AsyncConn /\ b.watch = [a.watch EXCEPT !["WRITE"] = "write"]
        /\ b.readTask = a.readTask /\ b.writeTask /\ b.open = a.open
        /\ b.disconnected = a.disconnected /\ b.async = a.async /\ b.state = a.state
        /\ b.peerClosed = a.peerClosed /\ b.hook = a.hook /\ b.fault = a.fault
    BY DEF AsyncConn, Event
  <2>4. a.watch \in [Event -> {"none", "read", "write"}]
    BY DEF AsyncConn
  <2> HIDE DEF b
  <2>5. Tasks(b)
    BY <2>3, <2>4 DEF Tasks, Watches, Event
  <2> QED BY <2>2, <2>3, <2>5
<1> QED BY <1>1, <1>2

-----------------------------------------------------------------------------
(* bb_connection_read and bb_connection_write *)

\* What reading and writing leave as it is
Same(a, b) ==
    /\ b \in AsyncConn
    /\ b.async = a.async /\ b.open = a.open /\ b.watch = a.watch
    /\ b.readTask = a.readTask /\ b.writeTask = a.writeTask
    /\ b.disconnected = a.disconnected /\ b.hook = a.hook /\ b.fault = a.fault
    /\ b.peerClosed = a.peerClosed

\* The ends of the read loop: CLOSED is the end of the stream or a failure.
LEMMA ReadLoopFacts ==
    ASSUME NEW a \in AsyncConn, NEW o \in ReadLoop(a), a.state # "CLOSED"
    PROVE  Same(a, o.conn) /\ (o.err # "error" => Honest(o.conn))
<1>1. PICK n \in 0 .. a.inbox : o \in ReadLoopEnds(a, n)
  BY DEF ReadLoop
<1> DEFINE d == [a EXCEPT !.len = @ + n, !.inbox = @ - n, !.record = FALSE]
           closed == [d EXCEPT !.state = "CLOSED"]
           flipped == [d EXCEPT !.flips = @ - 1]
<1>2. Same(a, d) /\ d.flips = a.flips /\ d.state = a.state
  <2>1. a.inbox \in Nat /\ a.len \in Nat
    BY DEF AsyncConn
  <2>2. a.inbox - n \in Nat /\ a.len + n \in Nat
    BY <2>1
  <2> QED BY <2>2 DEF AsyncConn, Same
<1>3. \/ o = Outcome(closed, "error", "READ")
      \/ o = Outcome(d, "ok", "READ")
      \/ a.peerClosed /\ o = Outcome(closed, "ok", "READ")
      \/ a.flips > 0 /\ o = Outcome(flipped, "ok", "WRITE")
      \/ o = Outcome(d, "error", "READ")
  BY <1>1 DEF ReadLoopEnds, When
<1> HIDE DEF d
<1>4. Same(a, closed) /\ closed.state = "CLOSED"
  BY <1>2 DEF AsyncConn, Same
<1>5. a.flips > 0 => Same(a, flipped) /\ flipped.state = a.state
  <2> SUFFICES ASSUME a.flips > 0 PROVE Same(a, flipped) /\ flipped.state = a.state
    OBVIOUS
  <2>1. d.flips - 1 \in Nat
    BY <1>2 DEF AsyncConn, Same
  <2> QED BY <1>2, <2>1 DEF AsyncConn, Same
<1> HIDE DEF closed, flipped
<1>6. o.conn \in {d, closed, flipped} /\ Same(a, o.conn)
  BY <1>2, <1>3, <1>4, <1>5 DEF Outcome
<1>7. o.err # "error" => o.conn.state # "CLOSED" \/ a.peerClosed
  BY <1>2, <1>3, <1>4, <1>5 DEF Outcome
<1> QED BY <1>6, <1>7 DEF Honest, Same

LEMMA ConnectionReadFacts ==
    ASSUME NEW a \in AsyncConn, Honest(a), a.open, NEW o \in ConnectionRead(a)
    PROVE  Same(a, o.conn) /\ (o.err # "error" => Honest(o.conn))
<1> DEFINE closed == [a EXCEPT !.state = "CLOSED"]
           reading == [a EXCEPT !.state = "READING"]
           flipped == [a EXCEPT !.flips = @ - 1]
           drained == [a EXCEPT !.record = FALSE]
<1>1. /\ Same(a, a)
      /\ Same(a, drained) /\ drained.state = a.state
      /\ Same(a, closed)
      /\ Same(a, reading) /\ reading.state = "READING"
  BY DEF AsyncConn, Same
<1>6. a.flips > 0 => Same(a, flipped) /\ flipped.state = a.state
  <2> SUFFICES ASSUME a.flips > 0 PROVE Same(a, flipped) /\ flipped.state = a.state
    OBVIOUS
  <2>1. a.flips - 1 \in Nat
    BY DEF AsyncConn
  <2> QED BY <2>1 DEF AsyncConn, Same
<1>2. \/ o = Outcome(a, "closed", a.readOn)
      \/ o = Outcome(drained, "ok", "READ")
      \/ a.flips > 0 /\ o = Outcome(flipped, "ok", "WRITE")
      \/ a.peerClosed /\ o = Outcome(closed, "closed", "READ")
      \/ o = Outcome(closed, "error", "READ")
      \/ o \in ReadLoop(reading)
      \/ a.state # "CLOSED" /\ o \in ReadLoop(a)
  BY DEF ConnectionRead, Handshake, When
<1> HIDE DEF closed, reading, flipped, drained
<1>3. CASE o \in ReadLoop(reading)
  <2>1. Same(reading, o.conn) /\ (o.err # "error" => Honest(o.conn))
    <3>1. reading \in AsyncConn /\ reading.state # "CLOSED"
      BY <1>1 DEF Same
    <3> QED BY <1>3, <3>1, ReadLoopFacts
  <2> QED BY <1>1, <2>1 DEF Same
<1>4. CASE a.state # "CLOSED" /\ o \in ReadLoop(a)
  BY <1>4, ReadLoopFacts
<1>5. CASE o \notin ReadLoop(reading) /\ ~ (a.state # "CLOSED" /\ o \in ReadLoop(a))
  <2>1. o.conn \in {a, drained, flipped, closed} /\ Same(a, o.conn)
    BY <1>1, <1>2, <1>5, <1>6 DEF Outcome
  <2>3. (Honest(flipped) \/ ~ (a.flips > 0)) /\ Honest(drained)
    BY <1>1, <1>6 DEF Honest, Same
  <2>4. a.peerClosed => Honest(closed)
    BY <1>1 DEF Honest, Same
  <2>5. \/ o.conn = a
        \/ o.conn = drained
        \/ a.flips > 0 /\ o.conn = flipped
        \/ a.peerClosed /\ o.conn = closed
        \/ o.err = "error"
    BY <1>2, <1>5 DEF Outcome
  <2>2. o.err # "error" => Honest(o.conn)
    BY <2>3, <2>4, <2>5
  <2> QED BY <2>1, <2>2
<1> QED BY <1>3, <1>4, <1>5

LEMMA ConnectionWriteFacts ==
    ASSUME NEW a \in AsyncConn, Honest(a), a.open, NEW o \in ConnectionWrite(a)
    PROVE  /\ Same(a, o.conn) /\ Honest(o.conn)
           /\ a.out - o.conn.out \in Nat
           /\ o.err # "ok" => a.peerClosed
<1>1. CASE \/ a.state = "CLOSED" /\ o = Outcome(a, "closed", a.writeOn)
           \/ o = Outcome(a, "ok", "READ")
  <2>1. a.out - a.out \in Nat
    BY DEF AsyncConn
  <2>2. o.conn = a /\ (o.err # "ok" => a.peerClosed) /\ Same(a, a)
    BY <1>1 DEF Outcome, Same, Honest
  <2> QED BY <2>1, <2>2
<1>2. ASSUME a.state # "CLOSED", NEW n \in 0 .. a.out, o \in WriteLoopEnds(a, n)
      PROVE  /\ Same(a, o.conn) /\ Honest(o.conn)
             /\ a.out - o.conn.out \in Nat
             /\ o.err # "ok" => a.peerClosed
  <2> DEFINE d == [a EXCEPT !.out = @ - n,
                            !.outbox = IF a.peerClosed THEN @ ELSE @ + n,
                            !.record = @ /\ a.writeOn = "WRITE"]
             closed == [d EXCEPT !.state = "CLOSED"]
             flipped == [d EXCEPT !.flips = @ - 1, !.record = FALSE]
  <2>1. Same(a, d) /\ d.flips = a.flips /\ d.state = a.state /\ d.out = a.out - n
    <3>1. a.out - n \in Nat /\ (IF a.peerClosed THEN a.outbox ELSE a.outbox + n) \in Nat
      BY DEF AsyncConn
    <3>2. (a.record /\ a.writeOn = "WRITE") \in BOOLEAN
      OBVIOUS
    <3> QED BY <3>1, <3>2 DEF AsyncConn, Same
  <2>2. \/ o = Outcome(d, "ok", "WRITE")
        \/ a.flips > 0 /\ o = Outcome(flipped, "ok", "READ")
        \/ a.peerClosed /\ o = Outcome(closed, "closed", "WRITE")
        \/ a.peerClosed /\ o = Outcome(d, "error", "WRITE")
    BY <1>2 DEF WriteLoopEnds, When
  <2>3. a.out - (a.out - n) \in Nat
    BY DEF AsyncConn
  <2> HIDE DEF d
  <2>4. Same(a, closed) /\ closed.out = d.out
    BY <2>1 DEF AsyncConn, Same
  <2>5. a.flips > 0 => Same(a, flipped) /\ flipped.out = d.out /\ flipped.state = a.state
    <3> SUFFICES ASSUME a.flips > 0
                 PROVE  Same(a, flipped) /\ flipped.out = d.out /\ flipped.state = a.state
      OBVIOUS
    <3>1. d.flips - 1 \in Nat
      BY <2>1 DEF AsyncConn, Same
    <3> QED BY <2>1, <3>1 DEF AsyncConn, Same
  <2> HIDE DEF closed, flipped
  <2>6. Same(a, o.conn) /\ o.conn.out = d.out
    BY <2>1, <2>2, <2>4, <2>5 DEF Outcome
  <2>7. (o.conn.state # "CLOSED" \/ a.peerClosed) /\ (o.err # "ok" => a.peerClosed)
    BY <1>2, <2>1, <2>2, <2>5 DEF Outcome
  <2> QED BY <2>1, <2>3, <2>6, <2>7 DEF Same, Honest
<1> QED BY <1>1, <1>2 DEF ConnectionWrite

-----------------------------------------------------------------------------
(* What a side does on its own: no frame is sent or taken *)

\* The session of a side keeps its messages; only a client's handshake fails.
Keeps(x, y) ==
    /\ y \in SessionType
    /\ y.sent = x.sent /\ y.got = x.got
    /\ Silent(x) => Silent(y)
    /\ y.phase # x.phase => x.phase \in {"request", "handshake"} /\ y.phase = "failed"

Turns(w, v, s) ==
    /\ v \in WorldType /\ v.wire = w.wire
    /\ v.ws[Peer(s)] = w.ws[Peer(s)]
    /\ Same(w.io[Peer(s)], v.io[Peer(s)])
    /\ v.io[Peer(s)].state = w.io[Peer(s)].state
    /\ Less(w.io[s], v.io[s])
    /\ Keeps(w.ws[s], v.ws[s])
    /\ v.io[s].open => v.ws[s].mem = w.ws[s].mem /\ v.ws[s].phase = w.ws[s].phase
    /\ v.ws[s].phase # w.ws[s].phase => ~ v.io[s].readTask

LEMMA TurnsTwice ==
    ASSUME NEW w, NEW u, NEW v, NEW s \in Sides, Turns(w, u, s), Turns(u, v, s)
    PROVE  Turns(w, v, s)
<1>1. Same(w.io[Peer(s)], v.io[Peer(s)])
  BY DEF Turns, Same
<1>2. Less(w.io[s], v.io[s])
  BY DEF Turns, Less
<1>3. Keeps(w.ws[s], v.ws[s])
  BY DEF Turns, Keeps
<1> QED BY <1>1, <1>2, <1>3 DEF Turns, Less, Keeps

\* It leaves the world good, both streams as they are and the peer sound; it is
\* sound itself when its connection is honest.
LEMMA TurnsGood ==
    ASSUME NEW w, NEW v, NEW s \in Sides, Acts(w, s), Turns(w, v, s)
    PROVE  /\ Acts(v, s)
           /\ \A e \in Sides : Flow(w, e) => Flow(v, e)
           /\ Sound(w, Peer(s)) => Sound(v, Peer(s))
           /\ Sound(w, s) /\ Honest(v.io[s]) => Sound(v, s)
<1>1. \A e \in Sides : /\ v.ws[e].sent = w.ws[e].sent /\ v.ws[e].got = w.ws[e].got
                       /\ v.io[e].open => w.io[e].open
                       /\ Tasks(v.io[e])
                       /\ v.io[e].readTask => w.io[e].readTask
                       /\ v.io[e].writeTask => w.io[e].writeTask
                       /\ v.io[e].async = "live" => w.io[e].async = "live"
                       /\ v.io[e].open => v.io[e].async = w.io[e].async
                       /\ v.io[e].peerClosed = w.io[e].peerClosed
  <2>1. Tasks(w.io[Peer(s)])
    BY PeerFacts DEF Acts, Good, Lives
  <2>2. Tasks(v.io[Peer(s)])
    BY <2>1 DEF Turns, Same, Tasks, Watches
  <2> QED BY <2>2, PeerFacts DEF Turns, Same, Less, Keeps
<1>2. ASSUME NEW e \in Sides PROVE Lives(v, e) /\ Received(v, e)
  <2>1. Lives(w, e) /\ Received(w, e) /\ Peer(e) \in Sides
    BY PeerFacts DEF Acts, Good
  <2>2. Received(v, e)
    BY <1>1, <2>1 DEF Received
  <2>3. v.io[e].open => /\ v.io[e].async = "live"
                        /\ v.ws[e].phase = "http" \/ v.ws[e].mem = "live"
    BY <1>1, <2>1, PeerFacts DEF Lives, Turns
  <2>4. v.ws[e].sent > 0 => v.ws[e].phase = "open"
    BY <1>1, <2>1, PeerFacts DEF Lives, Turns, Keeps
  <2>5. Silent(v.ws[e])
    BY <2>1, PeerFacts DEF Lives, Turns, Keeps
  <2> QED BY <1>1, <2>1, <2>2, <2>3, <2>4, <2>5 DEF Lives
<1>3. Roles(v)
  <2>1. "client" \in Sides /\ "server" \in Sides
    BY DEF Sides
  <2>2. \A e \in Sides : /\ v.ws[e].phase # w.ws[e].phase =>
                              /\ w.ws[e].phase \in {"request", "handshake"}
                              /\ v.ws[e].phase = "failed"
                              /\ ~ v.io[e].readTask /\ ~ v.io[e].open
    BY PeerFacts DEF Turns, Keeps
  <2>3. Roles(w) /\ v.wire = w.wire
    BY DEF Acts, Good, Turns
  <2>4. ASSUME v.ws["server"].phase = "http"
        PROVE  /\ v.ws["server"] = w.ws["server"]
               /\ Same(w.io["server"], v.io["server"])
    <3>1. s # "server"
      BY <2>1, <2>2, <2>4 DEF Acts
    <3>2. Peer(s) = "server"
      BY <2>1, <3>1, PeerFacts
    <3> QED BY <3>2 DEF Turns
  <2> QED BY <1>1, <2>1, <2>2, <2>3, <2>4 DEF Roles, Unanswered, Same
<1>4. v \in WorldType /\ v.wire = w.wire
  BY DEF Turns
<1>5. ASSUME NEW e \in Sides, Flow(w, e) PROVE Flow(v, e)
  BY <1>1, <1>4, <1>5, PeerFacts DEF Flow
<1>6. Sound(w, Peer(s)) => Sound(v, Peer(s))
  BY <1>1, <1>4, PeerFacts DEF Sound, Honest, Turns, Same
<1>7. Sound(w, s) /\ Honest(v.io[s]) => Sound(v, s)
  BY <1>1, <1>4, PeerFacts DEF Sound
<1>8. Good(v) /\ v.ws[s].phase # "http"
  BY <1>2, <1>3, <1>4 DEF Acts, Good, Turns, Keeps
<1> QED BY <1>5, <1>6, <1>7, <1>8 DEF Acts

\* Another connection, with less to do, or another session that keeps its messages
LEMMA ConnTurns ==
    ASSUME NEW w, NEW s \in Sides, Acts(w, s), NEW b, Less(w.io[s], b)
    PROVE  Turns(w, [w EXCEPT !.io[s] = b], s)
<1> DEFINE v == [w EXCEPT !.io[s] = b]
<1>1. w \in WorldType /\ b \in AsyncConn
  BY DEF Acts, Good, Less
<1>2. /\ v \in WorldType /\ v.ws = w.ws /\ v.wire = w.wire
      /\ v.io[s] = b /\ v.io[Peer(s)] = w.io[Peer(s)]
  BY <1>1, SetConn
<1>3. w.io[Peer(s)] \in AsyncConn /\ w.ws[s] \in SessionType
  BY <1>1, PeerFacts, WorldFacts
<1> HIDE DEF v
<1>4. Turns(w, v, s)
  BY <1>2, <1>3 DEF Turns, Same, Keeps
<1> QED BY <1>4 DEF v

LEMMA SessionTurns ==
    ASSUME NEW w, NEW s \in Sides, Acts(w, s), NEW y, Keeps(w.ws[s], y),
           w.io[s].open => y.mem = w.ws[s].mem /\ y.phase = w.ws[s].phase
    PROVE  LET v == [w EXCEPT !.ws[s] = y]
           IN Turns(w, v, s) /\ v.io = w.io /\ v.ws[s] = y
<1> DEFINE v == [w EXCEPT !.ws[s] = y]
<1>1. w \in WorldType /\ y \in SessionType
  BY DEF Acts, Good, Keeps
<1>2. /\ v \in WorldType /\ v.io = w.io /\ v.wire = w.wire
      /\ v.ws[s] = y /\ v.ws[Peer(s)] = w.ws[Peer(s)]
  BY <1>1, SetSession
<1>3. w.io[Peer(s)] \in AsyncConn /\ w.io[s] \in AsyncConn /\ Tasks(w.io[s])
  BY <1>1, PeerFacts, WorldFacts DEF Acts, Good, Lives
<1> HIDE DEF v
<1>4. Less(w.io[s], w.io[s]) /\ Same(w.io[Peer(s)], w.io[Peer(s)])
  BY <1>3 DEF Less, Same
<1>5. Turns(w, v, s)
  BY <1>2, <1>3, <1>4 DEF Turns, Tasks
<1> QED BY <1>2, <1>5 DEF v

LEMMA FaultTurns ==
    ASSUME NEW w, NEW s \in Sides, Acts(w, s)
    PROVE  LET v == Fault(w, s)
           IN /\ Turns(w, v, s) /\ v.ws = w.ws
              /\ v.io[s].open = w.io[s].open /\ v.io[s].readTask = w.io[s].readTask
              /\ v.io[s].state = w.io[s].state
              /\ v.io[s].disconnected = w.io[s].disconnected
<1> DEFINE b == [w.io[s] EXCEPT !.fault = TRUE]
<1>1. w \in WorldType /\ w.io[s] \in AsyncConn /\ Tasks(w.io[s])
  BY WorldFacts DEF Acts, Good, Lives
<1>2. /\ b \in AsyncConn /\ b.watch = w.io[s].watch /\ b.readTask = w.io[s].readTask
      /\ b.writeTask = w.io[s].writeTask /\ b.open = w.io[s].open
      /\ b.async = w.io[s].async /\ b.peerClosed = w.io[s].peerClosed
      /\ b.disconnected = w.io[s].disconnected /\ b.state = w.io[s].state
  BY <1>1 DEF AsyncConn
<1>3. Fault(w, s) = [w EXCEPT !.io[s] = b]
  BY DEF Fault
<1> HIDE DEF b
<1>4. Less(w.io[s], b)
  BY <1>1, <1>2 DEF Less, Tasks, Watches
<1>5. Turns(w, Fault(w, s), s)
  BY <1>3, <1>4, ConnTurns
<1>6. Fault(w, s).ws = w.ws /\ Fault(w, s).io[s] = b
  BY <1>1, <1>2, <1>3, SetConn
<1> QED BY <1>2, <1>5, <1>6

\* bb_async_connection_destroy closes.
LEMMA AsyncDestroyTurns ==
    ASSUME NEW w, NEW s \in Sides, Acts(w, s)
    PROVE  LET v == AsyncDestroy(w, s)
           IN /\ Turns(w, v, s) /\ v.ws = w.ws /\ ~ v.io[s].open /\ ~ v.io[s].readTask
<1> DEFINE a == w.io[s]
           c == Disconnected(ConnectionDestroy(a))
           b == [c EXCEPT !.async = "freed"]
<1>1. w \in WorldType /\ a \in AsyncConn /\ Tasks(a)
  BY WorldFacts DEF Acts, Good, Lives
<1>2. CASE a.async # "live"
  <2>1. ~ a.open /\ AsyncDestroy(w, s) = Fault(w, s)
    BY <1>2 DEF Acts, Good, Lives, AsyncDestroy
  <2>2. ~ a.readTask
    BY <1>1, <2>1 DEF Tasks
  <2> QED BY <2>1, <2>2, FaultTurns
<1>3. CASE a.async = "live"
  <2>1. /\ c \in AsyncConn /\ Tasks(c) /\ ~ c.readTask /\ ~ c.writeTask /\ ~ c.open
        /\ c.peerClosed = a.peerClosed
    BY <1>1, DestroyedFacts, DisconnectedFacts DEF Tasks
  <2>2. AsyncDestroy(w, s) = [w EXCEPT !.io[s] = b]
    BY <1>3 DEF AsyncDestroy
  <2> HIDE DEF c
  <2>3. /\ b \in AsyncConn /\ b.watch = c.watch /\ ~ b.readTask /\ ~ b.writeTask /\ ~ b.open
        /\ b.async = "freed" /\ b.peerClosed = a.peerClosed
    BY <2>1 DEF AsyncConn, Memory
  <2> HIDE DEF b
  <2>4. Less(a, b)
    BY <2>1, <2>3 DEF Less, Tasks, Watches
  <2>5. Turns(w, AsyncDestroy(w, s), s)
    BY <2>2, <2>4, ConnTurns
  <2>6. AsyncDestroy(w, s).ws = w.ws /\ AsyncDestroy(w, s).io[s] = b
    BY <1>1, <2>2, <2>3, SetConn
  <2> QED BY <2>3, <2>5, <2>6
<1> QED BY <1>2, <1>3

\* bb_websocket_destroy closes the session it is called for.
LEMMA WebsocketDestroyTurns ==
    ASSUME NEW w, NEW s \in Sides, Acts(w, s)
    PROVE  LET v == WebsocketDestroy(w, s)
           IN Turns(w, v, s) /\ ~ v.io[s].open /\ ~ v.io[s].readTask
<1> DEFINE a == w.io[s]
           x == w.ws[s]
           quiet == [w EXCEPT !.io[s].hook = "none", !.ws[s].heartbeat = FALSE]
           b == [a EXCEPT !.hook = "none"]
           y == [x EXCEPT !.heartbeat = FALSE]
           closed == AsyncDestroy(quiet, s)
           z == [closed.ws[s] EXCEPT !.mem = "freed"]
<1>1. /\ w \in WorldType /\ a \in AsyncConn /\ Tasks(a) /\ x \in SessionType
  BY WorldFacts DEF Acts, Good, Lives
<1>2. CASE x.mem # "live"
  <2>1. ~ a.open /\ WebsocketDestroy(w, s) = Fault(w, s)
    BY <1>2 DEF Acts, Good, Lives, WebsocketDestroy
  <2>2. ~ a.readTask
    BY <1>1, <2>1 DEF Tasks
  <2> QED BY <2>1, <2>2, FaultTurns
<1>3. CASE x.mem = "live"
  <2> DEFINE u == [w EXCEPT !.io[s] = b]
  <2>1. /\ b \in AsyncConn /\ b.watch = a.watch /\ b.readTask = a.readTask
        /\ b.writeTask = a.writeTask /\ b.open = a.open /\ b.async = a.async
        /\ b.peerClosed = a.peerClosed /\ b.disconnected = a.disconnected
    BY <1>1 DEF AsyncConn
  <2>2. Keeps(x, y) /\ y.mem = x.mem /\ y.phase = x.phase
    BY <1>1 DEF Keeps, SessionType, Silent
  <2>3. WebsocketDestroy(w, s) = [closed EXCEPT !.ws[s] = z]
    BY <1>3 DEF WebsocketDestroy
  <2>4. quiet = [u EXCEPT !.ws[s] = y]
    BY <1>1 DEF WorldType
  <2> HIDE DEF b, y
  <2>5. Turns(w, u, s)
    <3>1. Less(a, b)
      BY <1>1, <2>1 DEF Less, Tasks, Watches
    <3> QED BY <3>1, ConnTurns
  <2>6. Acts(u, s)
    BY <2>5, TurnsGood
  <2>7. u.ws[s] = x
    BY <1>1, <2>1, SetConn
  <2> HIDE DEF u
  <2>8. Turns(u, quiet, s) /\ Acts(quiet, s)
    <3>1. Turns(u, quiet, s)
      BY <2>2, <2>4, <2>6, <2>7, SessionTurns
    <3> QED BY <2>6, <3>1, TurnsGood
  <2> HIDE DEF quiet
  <2>9. Turns(quiet, closed, s) /\ ~ closed.io[s].open /\ ~ closed.io[s].readTask
    BY <2>8, AsyncDestroyTurns
  <2>10. Acts(closed, s)
    BY <2>8, <2>9, TurnsGood
  <2> HIDE DEF closed
  <2>11. Keeps(closed.ws[s], z)
    <3>1. closed.ws[s] \in SessionType
      BY <2>10, WorldFacts DEF Acts, Good
    <3> QED BY <3>1 DEF Keeps, SessionType, Silent, Memory
  <2> HIDE DEF z
  <2>12. Turns(closed, WebsocketDestroy(w, s), s) /\ WebsocketDestroy(w, s).io = closed.io
    <3> DEFINE v == [closed EXCEPT !.ws[s] = z]
    <3>1. Turns(closed, v, s) /\ v.io = closed.io
      BY <2>9, <2>10, <2>11, SessionTurns
    <3> QED BY <2>3, <3>1
  <2>13. Turns(w, closed, s)
    BY <2>5, <2>8, <2>9, TurnsTwice
  <2> QED BY <2>9, <2>12, <2>13, TurnsTwice
<1> QED BY <1>2, <1>3

\* A connection that may still have the tasks which a disconnect cancels
Loose(a, c) ==
    /\ c \in AsyncConn /\ Watches(c)
    /\ c.disconnected => Tasks(c)
    /\ c.open => a.open /\ c.async = a.async
    /\ c.async = "live" => a.async = "live"
    /\ c.peerClosed = a.peerClosed
    /\ c.readTask => a.readTask
    /\ c.writeTask => a.writeTask

LEMMA HandleDisconnectTurns ==
    ASSUME NEW w, NEW s \in Sides, Acts(w, s), NEW c, Loose(w.io[s], c)
    PROVE  LET v == HandleDisconnect([w EXCEPT !.io[s] = c], s)
           IN /\ Turns(w, v, s)
              /\ v.io[s].open => c.open /\ v.io[s].state = c.state
              /\ ~ v.io[s].readTask /\ ~ v.io[s].writeTask
<1> DEFINE a == w.io[s]
           u == [w EXCEPT !.io[s] = c]
           b == Disconnected(c)
           d == [u EXCEPT !.io[s] = b]
           v == HandleDisconnect(u, s)
<1>1. w \in WorldType /\ c \in AsyncConn /\ a \in AsyncConn
  BY WorldFacts DEF Acts, Good, Loose
<1>2. u \in WorldType /\ u.io[s] = c /\ u.ws = w.ws
  BY <1>1, SetConn
<1>3. d = [w EXCEPT !.io[s] = b]
  BY <1>1 DEF WorldType
<1>4. v = IF c.disconnected THEN u
          ELSE IF s = "server" /\ c.hook = "websocket" THEN WebsocketDestroy(d, s) ELSE d
  <2>1. d = [u EXCEPT !.io[s] = Disconnected(u.io[s])]
    BY <1>2
  <2>2. u.io[s] = c
    BY <1>2
  <2> HIDE DEF u, d, b
  <2> QED BY <2>1, <2>2 DEF HandleDisconnect
<1>5. CASE c.disconnected
  <2>1. Tasks(c) /\ ~ c.readTask /\ ~ c.writeTask
    BY <1>5 DEF Loose, Tasks
  <2>2. Less(a, c)
    BY <2>1 DEF Loose, Less
  <2>3. Turns(w, u, s)
    BY <2>2, ConnTurns
  <2> HIDE DEF u, v
  <2> QED BY <1>2, <1>4, <1>5, <2>1, <2>3 DEF v, u
<1>6. CASE ~ c.disconnected
  <2>1. /\ b \in AsyncConn /\ Tasks(b) /\ ~ b.readTask /\ ~ b.writeTask
        /\ b.open = c.open /\ b.async = c.async /\ b.state = c.state
        /\ b.peerClosed = c.peerClosed
    BY DisconnectedFacts DEF Loose
  <2> HIDE DEF b
  <2>2. Less(a, b)
    BY <2>1 DEF Loose, Less
  <2>3. Turns(w, d, s)
    BY <1>3, <2>2, ConnTurns
  <2> HIDE DEF u, d, v
  <2>7. Acts(d, s)
    BY <2>3, TurnsGood
  <2>4. Acts(d, s) /\ d.io[s] = b /\ d.ws = w.ws
    BY <1>1, <1>3, <2>1, <2>7, SetConn
  <2>5. CASE ~ (s = "server" /\ c.hook = "websocket")
    <3>1. v = d
      BY <1>4, <1>6, <2>5
    <3> QED BY <2>1, <2>3, <2>4, <3>1 DEF v, u
  <2>6. CASE s = "server" /\ c.hook = "websocket"
    <3>1. v = WebsocketDestroy(d, s)
      BY <1>4, <1>6, <2>6
    <3>3. Turns(d, v, s) /\ ~ v.io[s].open /\ ~ v.io[s].readTask
      BY <2>4, <3>1, WebsocketDestroyTurns
    <3>4. Turns(w, v, s)
      BY <2>3, <3>3, TurnsTwice
    <3>5. ~ v.io[s].writeTask
      BY <2>1, <2>4, <3>3 DEF Turns, Less
    <3> QED BY <3>3, <3>4, <3>5 DEF v, u
  <2> QED BY <2>5, <2>6
<1> QED BY <1>5, <1>6

\* bb_async_connection_close closes a connection that has a session.
LEMMA AsyncCloseTurns ==
    ASSUME NEW w, NEW s \in Sides, Acts(w, s)
    PROVE  LET v == AsyncClose(w, s)
           IN Turns(w, v, s) /\ ~ v.io[s].open
<1> DEFINE a == w.io[s]
           c == ConnectionDestroy(a)
<1>1. w \in WorldType /\ a \in AsyncConn /\ Tasks(a)
  BY WorldFacts DEF Acts, Good, Lives
<1>2. CASE a.async # "live" \/ w.ws[s].mem # "live"
  <2>1. AsyncClose(w, s) = Fault(w, s)
    BY <1>2 DEF AsyncClose
  <2>2. ~ a.open
    BY <1>2 DEF Acts, Good, Lives
  <2> QED BY <2>1, <2>2, FaultTurns
<1>3. CASE ~ (a.async # "live" \/ w.ws[s].mem # "live")
  <2>1. AsyncClose(w, s) = HandleDisconnect([w EXCEPT !.io[s] = c], s)
    BY <1>3 DEF AsyncClose
  <2>2. /\ c \in AsyncConn /\ Watches(c)
        /\ ~ c.open /\ c.async = a.async /\ c.peerClosed = a.peerClosed
        /\ c.readTask = a.readTask /\ c.writeTask = a.writeTask
        /\ c.disconnected = a.disconnected
    BY <1>1, DestroyedFacts DEF Tasks
  <2> HIDE DEF c
  <2>3. Loose(a, c)
    BY <1>1, <2>2 DEF Loose, Tasks
  <2> QED BY <2>1, <2>2, <2>3, HandleDisconnectTurns
<1> QED BY <1>2, <1>3

\* The ends of the client's handshake
LEMMA FailedTurns ==
    ASSUME NEW w, NEW s \in Sides, Acts(w, s), w.ws[s].phase \in {"request", "handshake"},
           ~ w.io[s].open
    PROVE  LET v == [w EXCEPT !.ws[s].phase = "failed"]
           IN Turns(w, v, s) /\ ~ v.io[s].open
<1> DEFINE x == w.ws[s]
           y == [x EXCEPT !.phase = "failed"]
           v == [w EXCEPT !.ws[s] = y]
<1>1. w \in WorldType /\ x \in SessionType /\ w.io[s] \in AsyncConn /\ Tasks(w.io[s])
  BY WorldFacts DEF Acts, Good, Lives
<1>2. Keeps(x, y)
  BY <1>1 DEF Keeps, SessionType, Silent
<1>3. [w EXCEPT !.ws[s].phase = "failed"] = v
  OBVIOUS
<1> HIDE DEF y
<1>4. v \in WorldType /\ v.io = w.io /\ v.wire = w.wire
      /\ v.ws[s] = y /\ v.ws[Peer(s)] = w.ws[Peer(s)]
  BY <1>1, <1>2, SetSession DEF Keeps
<1>5. Less(w.io[s], w.io[s]) /\ Same(w.io[Peer(s)], w.io[Peer(s)])
  BY <1>1, PeerFacts, WorldFacts DEF Less, Same
<1>6. ~ w.io[s].readTask
  BY <1>1 DEF Tasks
<1> HIDE DEF v
<1>7. Turns(w, v, s)
  BY <1>2, <1>4, <1>5, <1>6 DEF Turns
<1> QED BY <1>3, <1>4, <1>7

LEMMA HandshakeReadErrorTurns ==
    ASSUME NEW w, NEW s \in Sides, Acts(w, s), w.ws[s].phase = "handshake"
    PROVE  LET v == HandshakeReadError(w, s)
           IN Turns(w, v, s) /\ ~ v.io[s].open
<1> DEFINE u == AsyncDestroy(w, s)
<1>1. Turns(w, u, s) /\ u.ws = w.ws /\ ~ u.io[s].open
  BY AsyncDestroyTurns
<1>2. Acts(u, s)
  BY <1>1, TurnsGood
<1>3. HandshakeReadError(w, s) = [u EXCEPT !.ws[s].phase = "failed"]
  BY DEF HandshakeReadError
<1> HIDE DEF u
<1>4. /\ Turns(u, HandshakeReadError(w, s), s)
      /\ ~ HandshakeReadError(w, s).io[s].open
  BY <1>1, <1>2, <1>3, FailedTurns
<1> QED BY <1>1, <1>4, TurnsTwice

LEMMA ReadErrorTurns ==
    ASSUME NEW w, NEW s \in Sides, Acts(w, s)
    PROVE  LET v == ReadError(w, s)
           IN Turns(w, v, s) /\ ~ v.io[s].open
BY HandshakeReadErrorTurns, AsyncCloseTurns DEF ReadError

LEMMA WriteErrorTurns ==
    ASSUME NEW w, NEW s \in Sides, Acts(w, s)
    PROVE  LET v == WriteError(w, s)
           IN Turns(w, v, s) /\ ~ v.io[s].open
<1>1. CASE w.ws[s].phase = "request"
  <2> DEFINE u == IF w.io[s].open THEN AsyncDestroy(w, s) ELSE w
  <2>1. Turns(w, u, s) /\ u.ws = w.ws /\ ~ u.io[s].open
    <3>1. Turns(w, w, s)
      BY WorldFacts, PeerFacts DEF Acts, Good, Lives, Turns, Same, Less, Keeps
    <3> QED BY <3>1, AsyncDestroyTurns
  <2>2. Acts(u, s)
    BY <2>1, TurnsGood
  <2>3. WriteError(w, s) = [u EXCEPT !.ws[s].phase = "failed"]
    BY <1>1 DEF WriteError, HandshakeWriteFailed
  <2> HIDE DEF u
  <2>4. Turns(u, WriteError(w, s), s) /\ ~ WriteError(w, s).io[s].open
    BY <1>1, <2>1, <2>2, <2>3, FailedTurns
  <2> QED BY <2>1, <2>4, TurnsTwice
<1>2. CASE w.ws[s].phase # "request"
  BY <1>2, AsyncCloseTurns DEF WriteError
<1> QED BY <1>1, <1>2

-----------------------------------------------------------------------------
(* Sending *)

\* What a side hears is not changed by what it does itself.
Hears(w, v, s) ==
    /\ v.wire[s] = w.wire[s]
    /\ v.ws[s].got = w.ws[s].got
    /\ v.ws[Peer(s)] = w.ws[Peer(s)]
    /\ v.io[s].open => w.io[s].open

\* A session goes on: only its counter of messages may change.
Stays(w, v, s) ==
    /\ Hears(w, v, s)
    /\ v.ws[s] = [w.ws[s] EXCEPT !.sent = v.ws[s].sent]
    /\ v.io[s].open = w.io[s].open /\ v.io[s].readTask = w.io[s].readTask
    /\ v.io[s].disconnected = w.io[s].disconnected

\* The world is whole, but for the stream that the side is taking.
Healthy(w, s) ==
    /\ Acts(w, s)
    /\ Flow(w, Peer(s))
    /\ Sound(w, s) /\ Sound(w, Peer(s))

LEMMA HearsFlow ==
    ASSUME NEW w, NEW v, NEW s \in Sides, Hears(w, v, s), Flow(w, s)
    PROVE  Flow(v, s)
BY DEF Hears, Flow

LEMMA HealthyTurns ==
    ASSUME NEW w, NEW v, NEW s \in Sides, Healthy(w, s), Turns(w, v, s), Honest(v.io[s])
    PROVE  Healthy(v, s) /\ Hears(w, v, s)
<1>1. Healthy(v, s)
  BY TurnsGood, PeerFacts DEF Healthy
<1> QED BY <1>1 DEF Hears, Turns, Less, Keeps

\* bb_connection_write
LEMMA WrittenFacts ==
    ASSUME NEW w, NEW s \in Sides, Acts(w, s), w.io[s].open, Honest(w.io[s]),
           NEW x \in Written(w, s)
    PROVE  /\ Turns(w, x.w, s) /\ x.w.ws = w.ws
           /\ Same(w.io[s], x.w.io[s]) /\ Honest(x.w.io[s])
           /\ x.err # "ok" => w.io[s].peerClosed
<1> DEFINE c == w.io[s]
           p == w.io[Peer(s)]
           e == [c EXCEPT !.outbox = p.inbox]
<1>1. /\ w \in WorldType /\ c \in AsyncConn /\ p \in AsyncConn /\ Tasks(c)
      /\ Peer(s) \in Sides /\ Peer(s) # s
  BY WorldFacts, PeerFacts DEF Acts, Good, Lives
<1>2. /\ e \in AsyncConn /\ Honest(e) /\ e.open /\ Same(c, e)
      /\ e.out = c.out /\ e.peerClosed = c.peerClosed
  BY <1>1 DEF AsyncConn, Honest, Same
<1> HIDE DEF e
<1>3. ASSUME NEW o \in ConnectionWrite(e), NEW n \in Nat,
             x.w = [w EXCEPT !.io[s] = [o.conn EXCEPT !.outbox = 0],
                             !.io[Peer(s)].inbox = @ + n],
             x.err = o.err
      PROVE  /\ Turns(w, x.w, s) /\ x.w.ws = w.ws
             /\ Same(c, x.w.io[s]) /\ Honest(x.w.io[s])
             /\ x.err # "ok" => c.peerClosed
  <2> DEFINE d == [o.conn EXCEPT !.outbox = 0]
             q == [p EXCEPT !.inbox = @ + n]
             u == [w EXCEPT !.io[s] = d]
  <2>1. Same(c, d) /\ Honest(d) /\ (o.err # "ok" => c.peerClosed)
    <3>1. Same(e, o.conn) /\ Honest(o.conn) /\ (o.err # "ok" => e.peerClosed)
      BY <1>2, ConnectionWriteFacts
    <3>2. Same(c, o.conn)
      BY <1>2, <3>1 DEF Same
    <3> QED BY <1>2, <3>1, <3>2 DEF AsyncConn, Same, Honest
  <2>2. q \in AsyncConn /\ Same(p, q) /\ q.state = p.state
    <3>1. p.inbox + n \in Nat
      BY <1>1 DEF AsyncConn
    <3> QED BY <1>1, <3>1 DEF AsyncConn, Same
  <2>3. d \in AsyncConn
    BY <2>1 DEF Same
  <2>4. /\ u \in WorldType /\ u.ws = w.ws /\ u.wire = w.wire
        /\ u.io[s] = d /\ u.io[Peer(s)] = p
    BY <1>1, <2>3, SetConn
  <2>5. x.w = [u EXCEPT !.io[Peer(s)] = q]
    BY <1>1, <1>3 DEF WorldType
  <2> HIDE DEF u, q, d
  <2>6. /\ x.w \in WorldType /\ x.w.ws = w.ws /\ x.w.wire = w.wire
        /\ x.w.io[s] = d /\ x.w.io[Peer(s)] = q
    BY <1>1, <2>2, <2>4, <2>5, SetConn, PeerFacts
  <2>7. Less(c, d)
    BY <1>1, <2>1 DEF Less, Same, Tasks, Watches, d
  <2>8. Keeps(w.ws[s], x.w.ws[s])
    BY <1>1, <2>6, WorldFacts DEF Keeps
  <2>9. Turns(w, x.w, s)
    BY <2>2, <2>6, <2>7, <2>8 DEF Turns
  <2> QED BY <1>3, <2>1, <2>6, <2>9
<1>4. ASSUME NEW o \in ConnectionWrite(e)
      PROVE  (IF p.open THEN c.out - o.conn.out ELSE 0) \in Nat
  <2>1. e.out - o.conn.out \in Nat
    BY <1>2, ConnectionWriteFacts
  <2> QED BY <1>2, <2>1
<1>5. \E o \in ConnectionWrite(e), n \in Nat :
         /\ x.w = [w EXCEPT !.io[s] = [o.conn EXCEPT !.outbox = 0],
                            !.io[Peer(s)].inbox = @ + n]
         /\ x.err = o.err
  <2> DEFINE Result(o) ==
          [w |-> [w EXCEPT !.io[s] = [o.conn EXCEPT !.outbox = 0],
                           !.io[Peer(s)].inbox = @ + (IF p.open THEN c.out - o.conn.out ELSE 0)],
           err |-> o.err, wants |-> o.wants]
  <2>1. PICK o \in ConnectionWrite(e) : x = Result(o)
    <3> DEFINE room == IF p.open THEN SockCap - p.inbox ELSE c.out
               Fits(o) == c.out - o.conn.out = IF o.err = "ok" THEN Min({c.out, room}) ELSE 0
    <3>1. Written(w, s) = {Result(o) : o \in {o \in ConnectionWrite(e) : Fits(o)}}
      BY DEF Written, e
    <3> HIDE DEF Result, Fits
    <3> QED BY <3>1
  <2> DEFINE n == IF p.open THEN c.out - o.conn.out ELSE 0
  <2>2. n \in Nat
    BY <1>4
  <2>3. /\ x.w = [w EXCEPT !.io[s] = [o.conn EXCEPT !.outbox = 0],
                          !.io[Peer(s)].inbox = @ + n]
        /\ x.err = o.err
    BY <2>1
  <2> HIDE DEF n
  <2> QED BY <2>2, <2>3
<1> QED BY <1>3, <1>5

\* A frame at the end of a stream
LEMMA InOrderAppend ==
    ASSUME NEW F \in Seq(FrameType), NEW f \in FrameType, NEW g \in Nat, NEW n \in Nat,
           g <= n, InOrder(g, n, F, 0),
           IsText(f) => f.id = n + 1 /\ \A i \in DOMAIN F : F[i].op # "CLOSE"
    PROVE  InOrder(g, IF IsText(f) THEN n + 1 ELSE n, Append(F, f), 0)
<1> DEFINE G == Append(F, f)
           m == IF IsText(f) THEN n + 1 ELSE n
           L == Len(F)
<1>1. L \in Nat /\ Len(G) = L + 1 /\ G[L + 1] = f
      /\ \A i \in 1 .. L : G[i] = F[i] /\ F[i].id \in Nat
  <2>1. \A i \in 1 .. L : F[i] \in FrameType
    BY ElementOfSeq
  <2>2. \A i \in 1 .. L : F[i].id \in Nat
    BY <2>1 DEF FrameType
  <2> QED BY <2>2, AppendProperties, LenProperties
<1>2. 0 + 1 .. Len(G) = (1 .. L) \cup {L + 1} /\ 0 + 1 .. Len(F) = 1 .. L /\ DOMAIN F = 1 .. L
  BY <1>1, LenProperties
<1> HIDE DEF G, L
<1>3. \A j \in 0 + 1 .. Len(G) : IsText(G[j]) => g < G[j].id /\ G[j].id <= m
  BY <1>1, <1>2 DEF InOrder
<1>4. \A i, j \in 0 + 1 .. Len(G) :
         i < j /\ IsText(G[i]) /\ IsText(G[j]) => G[i].id < G[j].id
  BY <1>1, <1>2 DEF InOrder
<1>5. \A k \in g + 1 .. m : \E j \in 0 + 1 .. Len(G) : IsText(G[j]) /\ G[j].id = k
  <2> SUFFICES ASSUME NEW k \in g + 1 .. m
               PROVE  \E j \in 0 + 1 .. Len(G) : IsText(G[j]) /\ G[j].id = k
    OBVIOUS
  <2>1. CASE k <= n
    <3>2. k \in g + 1 .. n
      BY <2>1
    <3>1. PICK j \in 1 .. L : IsText(F[j]) /\ F[j].id = k
      BY <1>2, <3>2 DEF InOrder
    <3> QED BY <1>1, <1>2, <3>1
  <2>2. CASE ~ (k <= n)
    <3>1. IsText(f) /\ k = n + 1
      BY <2>2
    <3> QED BY <1>1, <1>2, <3>1
  <2> QED BY <2>1, <2>2
<1>6. \A i, j \in 0 + 1 .. Len(G) : i < j /\ G[i].op = "CLOSE" => ~ IsText(G[j])
  BY <1>1, <1>2 DEF InOrder
<1>7. InOrder(g, m, G, 0)
  BY <1>3, <1>4, <1>5, <1>6 DEF InOrder
<1> QED BY <1>7 DEF G

\* What may be queued: the next message of an open session, or another frame
MayQueue(w, s, f) ==
    /\ f \in FrameType
    /\ IsText(f) => /\ f.id = w.ws[s].sent + 1
                    /\ w.ws[s].phase = "open"
                    /\ s = "server" => w.ws[s].got # <<>>

LEMMA QueueFrameFacts ==
    ASSUME NEW w, NEW s \in Sides, Healthy(w, s), w.io[s].open, NEW f, MayQueue(w, s, f)
    PROVE  LET v == QueueFrame(w, s, f)
           IN /\ Acts(v, s) /\ Flow(v, Peer(s)) /\ Sound(v, Peer(s)) /\ Stays(w, v, s)
              /\ v.io[Peer(s)] = w.io[Peer(s)] /\ v.io[s].peerClosed = w.io[s].peerClosed
              /\ Honest(v.io[s])
              /\ f.op # "CLOSE" => Sound(v, s)
<1> DEFINE p == Peer(s)
           a == w.io[s]
           x == w.ws[s]
           F == w.wire[p]
           b == [a EXCEPT !.out = @ + f.len]
           n == IF f.op = "TEXT" THEN f.id ELSE x.sent
           y == [x EXCEPT !.sent = n]
           v == QueueFrame(w, s, f)
<1>1. /\ w \in WorldType /\ a \in AsyncConn /\ x \in SessionType /\ F \in Seq(FrameType)
      /\ f \in FrameType /\ p \in Sides /\ p # s /\ Peer(p) = s
  BY WorldFacts, PeerFacts DEF Healthy, Acts, Good, MayQueue
<1>2. /\ b \in AsyncConn /\ Same(a, b) /\ b.state = a.state
  <2>1. a.out + f.len \in Nat
    BY <1>1 DEF AsyncConn, FrameType
  <2> QED BY <1>1, <2>1 DEF AsyncConn, Same
<1>3. /\ y \in SessionType /\ y.got = x.got /\ y.phase = x.phase /\ y.mem = x.mem
      /\ y.heartbeat = x.heartbeat
      /\ y.sent = n /\ y.waiting = x.waiting /\ y.missed = x.missed /\ y.silent = x.silent
  BY <1>1 DEF SessionType, FrameType
<1>4. v = [w EXCEPT !.io[s] = b, !.wire[p] = Append(F, f), !.ws[s] = y]
  BY <1>1 DEF QueueFrame, WorldType
<1> HIDE DEF b, y, v
<1>5. Append(F, f) \in Seq(FrameType)
  BY <1>1, AppendProperties
<1>6. /\ v \in WorldType
      /\ v.io[s] = b /\ v.io[p] = w.io[p] /\ v.ws[s] = y /\ v.ws[p] = w.ws[p]
      /\ v.wire[p] = Append(F, f) /\ v.wire[s] = w.wire[s]
  BY <1>1, <1>2, <1>3, <1>4, <1>5 DEF WorldType
<1>7. /\ x.sent \in Nat /\ n = IF IsText(f) THEN x.sent + 1 ELSE x.sent
      /\ w.ws[p].got \in Seq(Nat) /\ Len(w.ws[p].got) \in Nat /\ Len(w.ws[p].got) <= x.sent
  BY <1>1, WorldFacts, LenProperties
  DEF SessionType, MayQueue, IsText, Healthy, Acts, Good, Received
<1>8. \A e \in Sides : e = s \/ e = p
  BY PeerFacts
<1>9. \A e \in Sides : /\ Tasks(v.io[e]) /\ v.io[e].open = w.io[e].open
                       /\ v.io[e].readTask = w.io[e].readTask
                       /\ v.io[e].writeTask = w.io[e].writeTask
                       /\ v.io[e].async = w.io[e].async
                       /\ v.io[e].peerClosed = w.io[e].peerClosed
                       /\ v.io[e].state = w.io[e].state
                       /\ v.io[e].disconnected = w.io[e].disconnected
                       /\ v.ws[e].heartbeat = w.ws[e].heartbeat
                       /\ v.ws[e].got = w.ws[e].got /\ v.ws[e].phase = w.ws[e].phase
                       /\ v.ws[e].mem = w.ws[e].mem
                       /\ Silent(v.ws[e])
  <2>1. \A e \in Sides : Tasks(w.io[e]) /\ Silent(w.ws[e])
    BY DEF Healthy, Acts, Good, Lives
  <2>2. Tasks(b)
    BY <1>1, <1>2, <2>1 DEF Same, Tasks, Watches
  <2>3. Silent(y)
    BY <1>1, <1>3, <2>1 DEF Silent
  <2> QED BY <1>1, <1>2, <1>3, <1>6, <1>8, <2>1, <2>2, <2>3 DEF Same
<1>10. ASSUME NEW e \in Sides PROVE Lives(v, e) /\ Received(v, e)
  <2>1. Lives(w, e) /\ Received(w, e) /\ Peer(e) \in Sides
    BY PeerFacts DEF Healthy, Acts, Good
  <2>2. Received(v, e)
    <3>1. CASE e = s
      BY <1>1, <1>3, <1>6, <2>1, <3>1 DEF Received
    <3>2. CASE e = p
      <4>1. x.sent <= n
        BY <1>7
      <4>2. Len(w.ws[p].got) <= n /\ v.ws[s].sent = n /\ n \in Nat
        BY <1>3, <1>6, <1>7, <4>1
      <4> QED BY <1>1, <1>6, <2>1, <3>2, <4>2 DEF Received
    <3> QED BY <1>8, <3>1, <3>2
  <2>3. v.ws[e].sent > 0 => v.ws[e].phase = "open"
    BY <1>1, <1>3, <1>6, <1>7, <1>8, <1>9, <2>1 DEF Lives, MayQueue
  <2> QED BY <1>9, <2>1, <2>2, <2>3 DEF Lives
<1>11. Roles(v)
  <2>1. "client" \in Sides /\ "server" \in Sides
    BY DEF Sides
  <2>2. v.ws["server"].sent > 0 => v.ws["server"].got # <<>>
    <3>1. CASE s = "server"
      BY <1>3, <1>6, <1>7, <3>1 DEF MayQueue, Healthy, Acts, Good, Roles
    <3>2. CASE s # "server"
      BY <1>6, <1>8, <2>1, <3>2 DEF Healthy, Acts, Good, Roles
    <3> QED BY <3>1, <3>2
  <2>3. ASSUME w.wire["server"] # <<>>
        PROVE  v.wire["server"] # <<>> /\ v.wire["server"][1] = w.wire["server"][1]
    <3>1. CASE s = "server"
      BY <1>6, <2>3, <3>1
    <3>2. CASE s # "server"
      <4>1. p = "server"
        BY <1>8, <2>1, <3>2
      <4>2. F # <<>> /\ Len(F) \in Nat /\ Len(F) # 0
        BY <1>1, <2>3, <4>1, EmptySeq, LenProperties
      <4>3. Append(F, f) # <<>> /\ Append(F, f)[1] = F[1]
        BY <1>1, <4>2, AppendProperties
      <4> QED BY <1>6, <4>1, <4>3
    <3> QED BY <3>1, <3>2
  <2> QED BY <1>9, <2>1, <2>2, <2>3 DEF Healthy, Acts, Good, Roles, Unanswered
<1>12. Acts(v, s)
  BY <1>6, <1>9, <1>10, <1>11 DEF Healthy, Acts, Good
<1>13. Flow(v, p)
  <2>1. ASSUME w.io[p].open PROVE InOrder(Len(w.ws[p].got), n, Append(F, f), 0)
    <3>1. InOrder(Len(w.ws[p].got), x.sent, F, 0)
      BY <1>1, <2>1 DEF Healthy, Flow
    <3>2. \A i \in DOMAIN F : F[i].op # "CLOSE"
      BY <2>1 DEF Healthy, Sound
    <3>3. InOrder(Len(w.ws[p].got), IF IsText(f) THEN x.sent + 1 ELSE x.sent, Append(F, f), 0)
      BY <1>1, <1>7, <3>1, <3>2, InOrderAppend DEF MayQueue
    <3> QED BY <1>7, <3>3
  <2> QED BY <1>1, <1>3, <1>6, <1>9, <2>1 DEF Flow
<1>14. Sound(v, p)
  BY <1>1, <1>6, <1>9 DEF Healthy, Sound, Honest
<1>15. Honest(v.io[s])
  BY <1>9 DEF Healthy, Sound, Honest
<1>16. ASSUME f.op # "CLOSE" PROVE Sound(v, s)
  <2>1. ASSUME \A i \in DOMAIN F : F[i].op # "CLOSE", NEW i \in DOMAIN Append(F, f)
        PROVE  Append(F, f)[i].op # "CLOSE"
    BY <1>1, <1>16, <2>1, AppendProperties, LenProperties
  <2> QED BY <1>1, <1>6, <1>9, <1>15, <2>1 DEF Healthy, Sound
<1>17. Stays(w, v, s)
  <2>1. y = [x EXCEPT !.sent = y.sent]
    <3>1. y = [x EXCEPT !.sent = n]
      BY DEF y
    <3> QED BY <1>3, <3>1
  <2> QED BY <1>2, <1>3, <1>6, <2>1 DEF Stays, Hears, Same
<1>18. v.io[p] = w.io[p] /\ v.io[s].peerClosed = w.io[s].peerClosed
  BY <1>6, <1>9
<1> QED BY <1>12, <1>13, <1>14, <1>15, <1>16, <1>17, <1>18 DEF v

LEMMA StaysSelf ==
    ASSUME NEW w, NEW s \in Sides, Acts(w, s)
    PROVE  Stays(w, w, s)
<1>1. w.ws[s] \in SessionType
  BY WorldFacts DEF Acts, Good
<1>2. w.ws[s] = [w.ws[s] EXCEPT !.sent = w.ws[s].sent]
  BY <1>1 DEF SessionType
<1> QED BY <1>2 DEF Stays, Hears

\* bb_websocket_send_*: only after a close frame that was sent to an open peer is
\* the side not sound.
LEMMA SendFacts ==
    ASSUME NEW w, NEW s \in Sides, Healthy(w, s), NEW f, MayQueue(w, s, f),
           NEW r \in Send(w, s, f)
    PROVE  /\ Acts(r.w, s) /\ Flow(r.w, Peer(s)) /\ Sound(r.w, Peer(s)) /\ Stays(w, r.w, s)
           /\ Honest(r.w.io[s])
           /\ f.op # "CLOSE" \/ ~ r.ok => Sound(r.w, s)
<1>1. CASE r.w = w
  <2>1. Stays(w, w, s)
    BY StaysSelf DEF Healthy
  <2> QED BY <1>1, <2>1 DEF Healthy, Sound
<1>2. CASE r.w = Fault(w, s)
  <2> DEFINE v == Fault(w, s)
  <2>1. /\ Turns(w, v, s) /\ v.ws = w.ws /\ v.io[s].open = w.io[s].open
        /\ v.io[s].readTask = w.io[s].readTask /\ v.io[s].state = w.io[s].state
        /\ v.io[s].disconnected = w.io[s].disconnected
    BY FaultTurns DEF Healthy
  <2> HIDE DEF v
  <2>2. Honest(v.io[s])
    BY <2>1 DEF Healthy, Sound, Honest, Turns, Less
  <2>3. Healthy(v, s) /\ Hears(w, v, s)
    BY <2>1, <2>2, HealthyTurns
  <2>4. Stays(w, v, s)
    BY <2>1, <2>3, StaysSelf DEF Healthy, Stays
  <2> QED BY <1>2, <2>2, <2>3, <2>4 DEF Healthy, v
<1>3. ASSUME w.io[s].open, NEW x \in Written(QueueFrame(w, s, f), s),
             r = [w |-> x.w, ok |-> x.err = "ok"]
      PROVE  /\ Acts(r.w, s) /\ Flow(r.w, Peer(s)) /\ Sound(r.w, Peer(s)) /\ Stays(w, r.w, s)
             /\ Honest(r.w.io[s])
             /\ f.op # "CLOSE" \/ ~ r.ok => Sound(r.w, s)
  <2> DEFINE u == QueueFrame(w, s, f)
             v == x.w
  <2>1. /\ Acts(u, s) /\ Flow(u, Peer(s)) /\ Sound(u, Peer(s)) /\ Stays(w, u, s)
        /\ Honest(u.io[s])
        /\ f.op # "CLOSE" => Sound(u, s)
    BY <1>3, QueueFrameFacts
  <2>2. u.io[s].open
    BY <1>3, <2>1 DEF Stays
  <2> HIDE DEF u
  <2>3. /\ Turns(u, v, s) /\ v.ws = u.ws /\ Same(u.io[s], v.io[s]) /\ Honest(v.io[s])
        /\ x.err # "ok" => u.io[s].peerClosed
    BY <1>3, <2>1, <2>2, WrittenFacts DEF u
  <2>4. /\ Acts(v, s) /\ Flow(v, Peer(s)) /\ Sound(v, Peer(s))
        /\ f.op # "CLOSE" => Sound(v, s)
    BY <2>1, <2>3, TurnsGood, PeerFacts
  <2>5. Stays(w, v, s)
    BY <2>1, <2>3 DEF Stays, Hears, Turns, Same
  <2>6. ASSUME x.err # "ok" PROVE Sound(v, s)
    <3>1. v.io[s].peerClosed
      BY <2>3, <2>6 DEF Same
    <3>2. ~ v.io[Peer(s)].open
      BY <2>4, <3>1 DEF Acts, Good, Lives
    <3> QED BY <2>3, <3>2 DEF Sound
  <2>7. r.w = v /\ (~ r.ok => x.err # "ok")
    BY <1>3
  <2> QED BY <2>3, <2>4, <2>5, <2>6, <2>7
<1>4. \/ r.w = w \/ r.w = Fault(w, s)
      \/ w.io[s].open /\ \E x \in Written(QueueFrame(w, s, f), s) :
                            r = [w |-> x.w, ok |-> x.err = "ok"]
  BY DEF Send
<1> QED BY <1>1, <1>2, <1>3, <1>4

\* bb_websocket_send_text and bb_websocket_send_binary
LEMMA SendMessageFacts ==
    ASSUME NEW w, NEW s \in Sides, Healthy(w, s), w.ws[s].phase = "open",
           s = "server" => w.ws[s].got # <<>>,
           NEW n \in MsgLen, NEW v \in SendMessage(w, s, n)
    PROVE  Healthy(v, s) /\ Stays(w, v, s)
<1> DEFINE f == Frame("TEXT", w.ws[s].sent + 1, n)
<1>1. MayQueue(w, s, f)
  <2>1. w.ws[s].sent \in Nat
    BY WorldFacts DEF Healthy, Acts, Good, SessionType
  <2>2. n \in Nat
    BY SessionAssumption
  <2> QED BY <2>1, <2>2 DEF MayQueue, Frame, FrameType
<1>2. f.op # "CLOSE"
  BY DEF Frame
<1>3. PICK r \in Send(w, s, f) : v = r.w
  BY DEF SendMessage
<1> HIDE DEF f
<1> QED BY <1>1, <1>2, <1>3, SendFacts DEF Healthy

\* bb_websocket_send_ping and the pong for a ping
LEMMA SendControlFacts ==
    ASSUME NEW w, NEW s \in Sides, Healthy(w, s), NEW op \in {"PING", "PONG"},
           NEW r \in Send(w, s, Frame(op, 0, 1))
    PROVE  Healthy(r.w, s) /\ Stays(w, r.w, s)
<1> DEFINE f == Frame(op, 0, 1)
<1>1. MayQueue(w, s, f) /\ f.op # "CLOSE"
  BY DEF MayQueue, Frame, FrameType, IsText
<1> HIDE DEF f
<1> QED BY <1>1, SendFacts DEF Healthy, f

\* bb_websocket_send_close: what is sent is the last, for the side closes.
LEMMA SendCloseFacts ==
    ASSUME NEW w, NEW s \in Sides, Healthy(w, s), w.ws[s].phase = "open",
           NEW v \in SendClose(w, s)
    PROVE  Healthy(v, s) /\ Hears(w, v, s) /\ v.ws[s].phase = "open"
<1> DEFINE f == Frame("CLOSE", 0, 1)
<1>1. MayQueue(w, s, f)
  BY DEF MayQueue, Frame, FrameType, IsText
<1>2. PICK r \in Send(w, s, f) : v = IF r.ok THEN AsyncClose(r.w, s) ELSE r.w
  BY DEF SendClose
<1> HIDE DEF f
<1> DEFINE u == r.w
<1>3. /\ Acts(u, s) /\ Flow(u, Peer(s)) /\ Sound(u, Peer(s)) /\ Stays(w, u, s)
      /\ Honest(u.io[s])
      /\ ~ r.ok => Sound(u, s)
  BY <1>1, <1>2, SendFacts
<1> HIDE DEF u
<1>4. u.ws[s].phase = "open" /\ Hears(w, u, s)
  <2>1. w.ws[s] \in SessionType
    BY WorldFacts DEF Healthy, Acts, Good
  <2>2. [w.ws[s] EXCEPT !.sent = u.ws[s].sent].phase = w.ws[s].phase
    BY <2>1 DEF SessionType
  <2> QED BY <1>3, <2>2 DEF Stays
<1>5. CASE ~ r.ok
  BY <1>2, <1>3, <1>4, <1>5 DEF Healthy, u
<1>6. CASE r.ok
  <2>1. v = AsyncClose(u, s)
    BY <1>2, <1>6 DEF u
  <2>2. Turns(u, v, s) /\ ~ v.io[s].open
    BY <1>3, <1>4, <2>1, AsyncCloseTurns
  <2>3. Acts(v, s) /\ Flow(v, Peer(s)) /\ Sound(v, Peer(s))
    BY <1>3, <2>2, TurnsGood, PeerFacts
  <2>4. Sound(v, s)
    BY <2>2 DEF Sound, Honest
  <2>5. Hears(w, v, s) /\ v.ws[s].phase = "open"
    BY <1>4, <2>2 DEF Hears, Turns, Keeps
  <2> QED BY <2>3, <2>4, <2>5 DEF Healthy
<1> QED BY <1>5, <1>6

-----------------------------------------------------------------------------
(* Receiving *)

\* A frame of a stream that is no message, the next message, a close frame, and
\* what is left when the first k frames have been taken
LEMMA InOrderSkip ==
    ASSUME NEW F \in Seq(FrameType), NEW g \in Nat, NEW n \in Nat, NEW i \in 1 .. Len(F),
           InOrder(g, n, F, i - 1), ~ IsText(F[i])
    PROVE  InOrder(g, n, F, i)
<1>1. Len(F) \in Nat
  BY LenProperties
<1>2. i - 1 + 1 .. Len(F) = {i} \cup (i + 1 .. Len(F))
  BY <1>1
<1> QED BY <1>2 DEF InOrder

LEMMA InOrderTake ==
    ASSUME NEW F \in Seq(FrameType), NEW g \in Nat, NEW n \in Nat, NEW i \in 1 .. Len(F),
           InOrder(g, n, F, i - 1), IsText(F[i])
    PROVE  F[i].id = g + 1 /\ g + 1 <= n /\ InOrder(g + 1, n, F, i)
<1>1. Len(F) \in Nat /\ \A j \in 1 .. Len(F) : F[j].id \in Nat
  <2>1. \A j \in 1 .. Len(F) : F[j] \in FrameType
    BY ElementOfSeq
  <2> QED BY <2>1, LenProperties DEF FrameType
<1>2. i - 1 + 1 .. Len(F) = {i} \cup (i + 1 .. Len(F))
  BY <1>1
<1>3. g < F[i].id /\ F[i].id <= n /\ g + 1 \in g + 1 .. n
  BY <1>1, <1>2 DEF InOrder
<1>4. PICK j \in {i} \cup (i + 1 .. Len(F)) : IsText(F[j]) /\ F[j].id = g + 1
  BY <1>2, <1>3 DEF InOrder
<1>5. \A l \in i + 1 .. Len(F) : IsText(F[l]) => F[i].id < F[l].id
  BY <1>1, <1>2 DEF InOrder
<1>6. F[i].id = g + 1
  BY <1>1, <1>3, <1>4, <1>5
<1>7. \A l \in i + 1 .. Len(F) : IsText(F[l]) => g + 1 < F[l].id /\ F[l].id <= n
  BY <1>1, <1>2, <1>5, <1>6 DEF InOrder
<1>8. \A m \in g + 1 + 1 .. n : \E l \in i + 1 .. Len(F) : IsText(F[l]) /\ F[l].id = m
  <2> SUFFICES ASSUME NEW m \in g + 1 + 1 .. n
               PROVE  \E l \in i + 1 .. Len(F) : IsText(F[l]) /\ F[l].id = m
    OBVIOUS
  <2>1. m \in g + 1 .. n /\ m # g + 1
    OBVIOUS
  <2>2. PICK l \in {i} \cup (i + 1 .. Len(F)) : IsText(F[l]) /\ F[l].id = m
    BY <1>2, <2>1 DEF InOrder
  <2> QED BY <1>6, <2>1, <2>2
<1> QED BY <1>2, <1>3, <1>6, <1>7, <1>8 DEF InOrder

LEMMA InOrderClose ==
    ASSUME NEW F \in Seq(FrameType), NEW g \in Nat, NEW n \in Nat, NEW i \in 1 .. Len(F),
           NEW k \in i .. Len(F), InOrder(g, n, F, i - 1), F[i].op = "CLOSE"
    PROVE  InOrder(g, n, F, k)
<1>1. Len(F) \in Nat
  BY LenProperties
<1>2. /\ k + 1 .. Len(F) \subseteq i + 1 .. Len(F)
      /\ i - 1 + 1 .. Len(F) = {i} \cup (i + 1 .. Len(F))
  BY <1>1
<1>3. \A j \in i + 1 .. Len(F) : ~ IsText(F[j])
  BY <1>1, <1>2 DEF InOrder
<1>4. ~ IsText(F[i])
  BY DEF IsText
<1>5. \A m \in g + 1 .. n : FALSE
  BY <1>2, <1>3, <1>4 DEF InOrder
<1> QED BY <1>2, <1>3, <1>5 DEF InOrder

LEMMA InOrderRest ==
    ASSUME NEW F \in Seq(FrameType), NEW g, NEW n, NEW k \in 0 .. Len(F),
           InOrder(g, n, F, k)
    PROVE  InOrder(g, n, SubSeq(F, k + 1, Len(F)), 0)
<1> DEFINE G == SubSeq(F, k + 1, Len(F))
           L == Len(F)
<1>1. L \in Nat
  BY LenProperties
<1>2. Len(G) = L - k /\ \A j \in 1 .. L - k : G[j] = F[j + k]
  <2>1. k + 1 \in 1 .. L + 1 /\ L \in k .. L
    BY <1>1
  <2> QED BY <1>1, <2>1, SubSeqProperties
<1> HIDE DEF G, L
<1>3. \A j \in 0 + 1 .. Len(G) : j + k \in k + 1 .. L /\ G[j] = F[j + k]
  BY <1>1, <1>2
<1>4. \A j \in k + 1 .. L : j - k \in 0 + 1 .. Len(G) /\ G[j - k] = F[j]
  <2> SUFFICES ASSUME NEW j \in k + 1 .. L
               PROVE  j - k \in 0 + 1 .. Len(G) /\ G[j - k] = F[j]
    OBVIOUS
  <2>1. j - k \in 1 .. L - k /\ j - k + k = j
    BY <1>1
  <2> QED BY <1>2, <2>1
<1>5. \A j \in 0 + 1 .. Len(G) : IsText(G[j]) => g < G[j].id /\ G[j].id <= n
  BY <1>3 DEF InOrder, L
<1>6. \A i, j \in 0 + 1 .. Len(G) :
         /\ i < j /\ IsText(G[i]) /\ IsText(G[j]) => G[i].id < G[j].id
         /\ i < j /\ G[i].op = "CLOSE" => ~ IsText(G[j])
  <2> SUFFICES ASSUME NEW i \in 0 + 1 .. Len(G), NEW j \in 0 + 1 .. Len(G), i < j
               PROVE  /\ IsText(G[i]) /\ IsText(G[j]) => G[i].id < G[j].id
                      /\ G[i].op = "CLOSE" => ~ IsText(G[j])
    OBVIOUS
  <2>1. i + k < j + k
    BY <1>1, <1>2
  <2>2. /\ i + k \in k + 1 .. Len(F) /\ G[i] = F[i + k]
        /\ j + k \in k + 1 .. Len(F) /\ G[j] = F[j + k]
    BY <1>3 DEF L
  <2>3. \A l, m \in k + 1 .. Len(F) :
           l < m => /\ IsText(F[l]) /\ IsText(F[m]) => F[l].id < F[m].id
                    /\ F[l].op = "CLOSE" => ~ IsText(F[m])
    BY DEF InOrder
  <2>4. /\ IsText(F[i + k]) /\ IsText(F[j + k]) => F[i + k].id < F[j + k].id
        /\ F[i + k].op = "CLOSE" => ~ IsText(F[j + k])
    BY <2>1, <2>2, <2>3
  <2> QED BY <2>2, <2>4
<1>7. \A m \in g + 1 .. n : \E j \in 0 + 1 .. Len(G) : IsText(G[j]) /\ G[j].id = m
  BY <1>4 DEF InOrder, L
<1>8. InOrder(g, n, G, 0)
  BY <1>5, <1>6, <1>7 DEF InOrder
<1> QED BY <1>8 DEF G

\* The handler gets the next message.
Taken(w, s, f) == [w EXCEPT !.ws[s].got = Append(@, f.id)]

LEMMA TakenFacts ==
    ASSUME NEW w, NEW s \in Sides, Healthy(w, s), w.ws[s].phase = "open", NEW f,
           f.id = Len(w.ws[s].got) + 1, f.id <= w.ws[Peer(s)].sent
    PROVE  /\ Healthy(Taken(w, s, f), s)
           /\ Taken(w, s, f).io = w.io /\ Taken(w, s, f).wire = w.wire
           /\ Taken(w, s, f).ws[Peer(s)] = w.ws[Peer(s)]
           /\ Taken(w, s, f).ws[s].got # <<>>
           /\ Len(Taken(w, s, f).ws[s].got) = Len(w.ws[s].got) + 1
           /\ Taken(w, s, f).ws[s].phase = "open" /\ Taken(w, s, f).ws[s].sent = w.ws[s].sent
<1> DEFINE x == w.ws[s]
           y == [x EXCEPT !.got = Append(@, f.id)]
           v == [w EXCEPT !.ws[s] = y]
<1>1. w \in WorldType /\ x \in SessionType /\ x.got \in Seq(Nat) /\ Len(x.got) \in Nat
  BY WorldFacts, LenProperties DEF Healthy, Acts, Good, SessionType
<1>2. /\ Append(x.got, f.id) \in Seq(Nat)
      /\ Len(Append(x.got, f.id)) = Len(x.got) + 1
      /\ Append(x.got, f.id)[Len(x.got) + 1] = f.id
      /\ \A i \in 1 .. Len(x.got) : Append(x.got, f.id)[i] = x.got[i]
  <2>1. f.id \in Nat
    BY <1>1
  <2> QED BY <1>1, <2>1, AppendProperties
<1>3. /\ y \in SessionType /\ y.got = Append(x.got, f.id) /\ y.sent = x.sent
      /\ y.phase = x.phase /\ y.mem = x.mem /\ y.heartbeat = x.heartbeat
      /\ y.waiting = x.waiting /\ y.missed = x.missed /\ y.silent = x.silent
  BY <1>1, <1>2 DEF SessionType
<1> HIDE DEF y
<1>4. /\ v \in WorldType /\ v.io = w.io /\ v.wire = w.wire
      /\ v.ws[s] = y /\ v.ws[Peer(s)] = w.ws[Peer(s)]
  BY <1>1, <1>3, SetSession
<1>5. v = Taken(w, s, f)
  BY <1>1 DEF WorldType, y, Taken
<1> HIDE DEF v
<1>6. y.got # <<>> /\ Len(y.got) = Len(x.got) + 1
  <2>1. Len(Append(x.got, f.id)) # 0
    BY <1>1, <1>2
  <2> QED BY <1>2, <1>3, <2>1, EmptySeq
<1>7. Received(v, s)
  <2>1. DOMAIN y.got = 1 .. Len(x.got) + 1 /\ DOMAIN x.got = 1 .. Len(x.got)
    BY <1>1, <1>2, <1>3, LenProperties
  <2>2. \A i \in DOMAIN x.got : x.got[i] = i
    BY DEF Healthy, Acts, Good, Received
  <2>3. \A i \in DOMAIN y.got : y.got[i] = i
    BY <1>1, <1>2, <1>3, <2>1, <2>2
  <2> QED BY <1>4, <1>6, <2>3 DEF Received
<1>8. ASSUME NEW e \in Sides PROVE Lives(v, e) /\ Received(v, e)
  <2>1. Lives(w, e) /\ Received(w, e)
    BY DEF Healthy, Acts, Good
  <2>2. Lives(v, e)
    BY <1>3, <1>4, <2>1, PeerFacts DEF Lives, Silent
  <2>3. CASE e = Peer(s)
    BY <1>3, <1>4, <2>1, <2>2, <2>3, PeerFacts DEF Received
  <2> QED BY <1>7, <2>2, <2>3, PeerFacts
<1>9. Roles(v)
  <2>1. \A e \in Sides : v.ws[e].phase = w.ws[e].phase /\ v.ws[e].sent = w.ws[e].sent
                         /\ v.ws[e].heartbeat = w.ws[e].heartbeat
                         /\ (e = s \/ v.ws[e].got = w.ws[e].got)
    BY <1>3, <1>4, PeerFacts
  <2>2. "client" \in Sides /\ "server" \in Sides /\ Roles(w)
    BY DEF Sides, Healthy, Acts, Good
  <2> QED BY <1>3, <1>4, <1>6, <2>1, <2>2 DEF Roles, Unanswered
<1>10. Acts(v, s)
  BY <1>3, <1>4, <1>8, <1>9 DEF Acts, Good
<1>11. Flow(v, Peer(s)) /\ Sound(v, s) /\ Sound(v, Peer(s))
  BY <1>3, <1>4, PeerFacts DEF Healthy, Flow, Sound
<1> QED BY <1>3, <1>4, <1>5, <1>6, <1>10, <1>11 DEF Healthy

\* Any frame shows that the peer is alive.
LEMMA AliveFacts ==
    ASSUME NEW w, NEW s \in Sides, Healthy(w, s)
    PROVE  LET v == [w EXCEPT !.ws[s] = [@ EXCEPT !.waiting = FALSE, !.missed = 0,
                                                  !.silent = 0]]
           IN Healthy(v, s) /\ Hears(w, v, s) /\ v.io = w.io /\ v.ws[s].phase = w.ws[s].phase
<1> DEFINE x == w.ws[s]
           y == [x EXCEPT !.waiting = FALSE, !.missed = 0, !.silent = 0]
           v == [w EXCEPT !.ws[s] = y]
<1>1. x \in SessionType
  BY WorldFacts DEF Healthy, Acts, Good
<1>2. /\ y \in SessionType /\ y.sent = x.sent /\ y.got = x.got
      /\ y.mem = x.mem /\ y.phase = x.phase
      /\ y.waiting = FALSE /\ y.missed = 0 /\ y.silent = 0
  BY <1>1 DEF SessionType
<1> HIDE DEF y
<1>5. Keeps(x, y)
  BY <1>2 DEF Keeps, Silent
<1>3. Turns(w, v, s) /\ v.io = w.io /\ v.ws[s] = y
  BY <1>2, <1>5, SessionTurns DEF Healthy
<1> HIDE DEF v
<1>4. Healthy(v, s) /\ Hears(w, v, s)
  BY <1>3, HealthyTurns DEF Healthy, Sound
<1> QED BY <1>2, <1>3, <1>4 DEF v, y

\* The loop of the read step has seen i of the k frames that it took from the
\* stream F.  It returns early only when the side has closed or after a close frame.
LoopInv(st, s, F, i, k) ==
    /\ Healthy(st.w, s)
    /\ st.w.ws[s].phase = "open"
    /\ st.done \in BOOLEAN
    /\ ~ st.done => st.w.io[s].open /\ st.w.io[s].readTask
    /\ st.w.wire[s] = SubSeq(F, k + 1, Len(F))
    /\ st.w.io[s].open => InOrder(Len(st.w.ws[s].got), st.w.ws[Peer(s)].sent, F,
                                  IF st.done THEN k ELSE i)

\* A step of the loop that goes on
LEMMA LoopStays ==
    ASSUME NEW w, NEW v, NEW s \in Sides, NEW F, NEW i, NEW k,
           LoopInv(At(w, FALSE), s, F, i, k), Healthy(v, s), Stays(w, v, s)
    PROVE  LoopInv(At(v, FALSE), s, F, i, k)
<1>1. w.ws[s] \in SessionType
  BY WorldFacts DEF LoopInv, At, Healthy, Acts, Good
<1>2. v.ws[s].phase = w.ws[s].phase /\ v.ws[s].got = w.ws[s].got
  <2>1. /\ [w.ws[s] EXCEPT !.sent = v.ws[s].sent].phase = w.ws[s].phase
        /\ [w.ws[s] EXCEPT !.sent = v.ws[s].sent].got = w.ws[s].got
    BY <1>1 DEF SessionType
  <2> QED BY <2>1 DEF Stays
<1>3. /\ v.wire[s] = w.wire[s] /\ v.ws[Peer(s)] = w.ws[Peer(s)]
      /\ v.io[s].open = w.io[s].open /\ v.io[s].readTask = w.io[s].readTask
  BY DEF Stays, Hears
<1> QED BY <1>2, <1>3 DEF LoopInv, At

LEMMA OnFrameFacts ==
    ASSUME NEW F \in Seq(FrameType), NEW k \in 0 .. Len(F), NEW i \in 1 .. k, NEW s \in Sides,
           NEW st, LoopInv(st, s, F, i - 1, k), NEW next \in OnFrame(st, s, F[i])
    PROVE  LoopInv(next, s, F, i, k)
<1> DEFINE f == F[i]
           u == st.w
           w == [u EXCEPT !.ws[s] = [@ EXCEPT !.waiting = FALSE, !.missed = 0, !.silent = 0]]
           g == Len(w.ws[s].got)
           n == w.ws[Peer(s)].sent
<1>1. CASE st.done
  BY <1>1 DEF OnFrame, LoopInv
<1>2. CASE ~ st.done
  <2>1. Healthy(w, s) /\ Hears(u, w, s) /\ w.io = u.io /\ w.ws[s].phase = "open"
    BY AliveFacts DEF LoopInv
  <2>2. next \in CASE f.op = "TEXT" -> {At(x, FALSE) : x \in Handler(w, s, f)}
                   [] f.op = "PING" -> {At(r.w, FALSE) : r \in Send(w, s, Frame("PONG", 0, 1))}
                   [] f.op = "CLOSE" -> {At(x, TRUE) : x \in SendClose(w, s)}
                   [] OTHER -> {At(w, FALSE)}
    BY <1>2 DEF OnFrame
  <2> HIDE DEF w
  <2>3. /\ w.io[s].open /\ w.io[s].readTask
        /\ w.wire[s] = SubSeq(F, k + 1, Len(F))
        /\ InOrder(g, n, F, i - 1)
    BY <1>2, <2>1 DEF LoopInv, Hears
  <2>4. i \in 1 .. Len(F) /\ k \in i .. Len(F) /\ f \in FrameType
    BY LenProperties, ElementOfSeq
  <2>5. g \in Nat /\ n \in Nat
    <3>1. w \in WorldType /\ Peer(s) \in Sides
      BY <2>1, PeerFacts DEF Healthy, Acts, Good
    <3> QED BY <3>1, WorldFacts, LenProperties DEF SessionType
  <2> HIDE DEF f, u
  <2>6. ASSUME f.op # "TEXT", f.op # "CLOSE" PROVE LoopInv(At(w, FALSE), s, F, i, k)
    <3>1. InOrder(g, n, F, i)
      BY <2>3, <2>4, <2>5, <2>6, InOrderSkip DEF IsText, f
    <3> QED BY <2>1, <2>3, <3>1 DEF LoopInv, At
  <2>7. CASE f.op = "TEXT"
    <3> DEFINE taken == Taken(w, s, f)
    <3>1. f.id = g + 1 /\ g + 1 <= n /\ InOrder(g + 1, n, F, i)
      BY <2>3, <2>4, <2>5, <2>7, InOrderTake DEF IsText, f
    <3>2. /\ Healthy(taken, s) /\ taken.io = w.io /\ taken.wire = w.wire
          /\ taken.ws[Peer(s)] = w.ws[Peer(s)]
          /\ taken.ws[s].got # <<>> /\ Len(taken.ws[s].got) = g + 1
          /\ taken.ws[s].phase = "open" /\ taken.ws[s].sent = w.ws[s].sent
      <4>1. f.id = Len(w.ws[s].got) + 1 /\ f.id <= w.ws[Peer(s)].sent
        BY <3>1
      <4> HIDE DEF g, n
      <4>2. /\ Healthy(taken, s) /\ taken.io = w.io /\ taken.wire = w.wire
            /\ taken.ws[Peer(s)] = w.ws[Peer(s)]
            /\ taken.ws[s].got # <<>> /\ Len(taken.ws[s].got) = Len(w.ws[s].got) + 1
            /\ taken.ws[s].phase = "open" /\ taken.ws[s].sent = w.ws[s].sent
        BY <2>1, <4>1, TakenFacts
      <4> HIDE DEF taken
      <4> QED BY <4>2 DEF g
    <3>3. PICK x \in Handler(w, s, f) : next = At(x, FALSE)
      BY <2>2, <2>7
    <3>4. x = taken \/ \E m \in MsgLen : x \in SendMessage(taken, s, m)
      BY <3>3 DEF Handler, Taken
    <3> HIDE DEF taken
    <3>5. LoopInv(At(taken, FALSE), s, F, i, k)
      BY <2>3, <3>1, <3>2 DEF LoopInv, At
    <3>6. ASSUME NEW m \in MsgLen, x \in SendMessage(taken, s, m)
          PROVE  LoopInv(At(x, FALSE), s, F, i, k)
      <4>1. Healthy(x, s) /\ Stays(taken, x, s)
        BY <3>2, <3>6, SendMessageFacts
      <4> QED BY <3>5, <4>1, LoopStays
    <3> QED BY <3>3, <3>4, <3>5, <3>6
  <2>8. CASE f.op = "PING"
    <3>1. PICK r \in Send(w, s, Frame("PONG", 0, 1)) : next = At(r.w, FALSE)
      BY <2>2, <2>8
    <3>2. Healthy(r.w, s) /\ Stays(w, r.w, s)
      BY <2>1, SendControlFacts
    <3>3. LoopInv(At(w, FALSE), s, F, i, k)
      BY <2>6, <2>8
    <3> QED BY <3>1, <3>2, <3>3, LoopStays
  <2>9. CASE f.op = "CLOSE"
    <3>1. PICK x \in SendClose(w, s) : next = At(x, TRUE)
      BY <2>2, <2>9
    <3>2. Healthy(x, s) /\ Hears(w, x, s) /\ x.ws[s].phase = "open"
      BY <2>1, SendCloseFacts
    <3>3. InOrder(g, n, F, k)
      BY <2>3, <2>4, <2>5, <2>9, InOrderClose DEF f
    <3> QED BY <2>3, <3>1, <3>2, <3>3 DEF LoopInv, At, Hears
  <2>10. CASE f.op \notin {"TEXT", "PING", "CLOSE"}
    BY <2>2, <2>6, <2>10
  <2> QED BY <2>7, <2>8, <2>9, <2>10
<1> QED BY <1>1, <1>2

\* The recursive functions exist: if one did not, there would be a least bound up
\* to which none exists.
LEMMA EndsFacts ==
    ASSUME NEW F \in Seq(FrameType)
    PROVE  Ends(F)[0] = 0 /\ \A k \in 0 .. Len(F) : Ends(F)[k] \in Nat
<1> DEFINE Step(e, k) == IF k = 0 THEN 0 ELSE e[k - 1] + F[k].len
           Is(e, m) == e = [k \in 0 .. m |-> Step(e, k)]
           L == Len(F)
<1>1. L \in Nat /\ \A k \in 1 .. L : F[k].len \in Nat
  <2>1. \A k \in 1 .. L : F[k] \in FrameType
    BY ElementOfSeq
  <2> QED BY <2>1, LenProperties DEF FrameType
<1> HIDE DEF L
<1>2. \A m \in 0 .. L : \E e : Is(e, m)
  <2> DEFINE X == {m \in 0 .. L : ~ \E e : Is(e, m)}
  <2> SUFFICES ASSUME X # {} PROVE FALSE
    OBVIOUS
  <2>1. PICK m \in X : \A n \in X : m <= n
    <3>1. X \in SUBSET Nat
      BY <1>1
    <3> QED BY <3>1, LeastNumber
  <2>2. CASE m = 0
    <3>1. Is([k \in 0 .. 0 |-> 0], 0)
      OBVIOUS
    <3> QED BY <2>1, <2>2, <3>1
  <2>3. CASE m # 0
    <3>1. m \in Nat /\ m - 1 \in 0 .. L /\ ~ (m <= m - 1)
      BY <1>1, <2>3
    <3>2. PICK f : Is(f, m - 1)
      BY <2>1, <3>1
    <3> DEFINE e == [k \in 0 .. m |-> IF k = m THEN f[m - 1] + F[m].len ELSE f[k]]
    <3>3. ASSUME NEW k \in 0 .. m PROVE e[k] = Step(e, k)
      <4>1. CASE k = 0
        BY <2>3, <3>1, <3>2, <4>1
      <4>2. CASE k = m
        <5>1. e[m - 1] = f[m - 1]
          BY <2>3, <3>1
        <5> QED BY <2>3, <4>2, <5>1
      <4>3. CASE k # 0 /\ k # m
        <5>1. k - 1 \in 0 .. m /\ k - 1 # m /\ k \in 0 .. m - 1
          BY <3>1, <4>3
        <5>2. e[k - 1] = f[k - 1] /\ e[k] = f[k]
          BY <4>3, <5>1
        <5>3. f[k] = f[k - 1] + F[k].len
          BY <3>2, <4>3, <5>1
        <5> QED BY <4>3, <5>2, <5>3
      <4> QED BY <4>1, <4>2, <4>3
    <3>4. e = [k \in 0 .. m |-> e[k]]
      OBVIOUS
    <3> HIDE DEF e
    <3>5. Is(e, m)
      BY <3>3, <3>4
    <3> QED BY <2>1, <3>5
  <2> QED BY <2>2, <2>3
<1>3. Is(Ends(F), L)
  <2>1. L \in 0 .. L
    BY <1>1
  <2>2. \E e : Is(e, L)
    BY <1>2, <2>1
  <2>3. Ends(F) = CHOOSE e : Is(e, L)
    BY DEF Ends, L
  <2> HIDE DEF Is
  <2> QED BY <2>2, <2>3
<1> DEFINE e == Ends(F)
<1>4. \A k \in 0 .. L : e[k] = Step(e, k)
  <2> DEFINE g == [k \in 0 .. L |-> Step(e, k)]
  <2>1. e = g
    BY <1>3
  <2>2. \A k \in 0 .. L : g[k] = Step(e, k)
    OBVIOUS
  <2> HIDE DEF g, e, Step
  <2> QED BY <2>1, <2>2
<1> HIDE DEF e
<1>5. \A k \in 0 .. L : e[k] \in Nat
  <2> DEFINE X == {k \in 0 .. L : e[k] \notin Nat}
  <2> SUFFICES ASSUME X # {} PROVE FALSE
    OBVIOUS
  <2>1. PICK m \in X : \A n \in X : m <= n
    <3>1. X \in SUBSET Nat
      BY <1>1
    <3> QED BY <3>1, LeastNumber
  <2>2. m # 0
    BY <1>1, <1>4, <2>1
  <2>3. m \in 1 .. L /\ m - 1 \in 0 .. L /\ ~ (m <= m - 1)
    BY <1>1, <2>2
  <2>4. e[m - 1] \in Nat
    BY <2>1, <2>3
  <2>5. e[m] = e[m - 1] + F[m].len
    BY <1>4, <2>2, <2>3
  <2> QED BY <1>1, <2>1, <2>3, <2>4, <2>5
<1>6. e[0] = 0
  BY <1>1, <1>4
<1> QED BY <1>5, <1>6 DEF e, L

LEMMA WholeFramesFacts ==
    ASSUME NEW F \in Seq(FrameType), NEW len \in Nat
    PROVE  LET k == WholeFrames(F, len)
           IN k \in 0 .. Len(F) /\ len - Ends(F)[k] \in Nat
<1> DEFINE X == {k \in 0 .. Len(F) : Ends(F)[k] <= len}
           k == WholeFrames(F, len)
<1>1. Len(F) \in Nat /\ Ends(F)[0] = 0 /\ \A n \in 0 .. Len(F) : Ends(F)[n] \in Nat
  BY LenProperties, EndsFacts
<1>2. X \in SUBSET Nat /\ IsFiniteSet(X) /\ 0 \in X
  <2>1. IsFiniteSet(0 .. Len(F))
    BY <1>1, FS_Interval
  <2>2. X \subseteq 0 .. Len(F)
    OBVIOUS
  <2>3. 0 \in X /\ X \in SUBSET Nat
    BY <1>1
  <2> QED BY <2>1, <2>2, <2>3, FS_Subset
<1>3. k = Max(X)
  BY DEF WholeFrames
<1>4. k \in X
  <2> HIDE DEF X, k
  <2>1. \E n \in X : \A m \in X : m <= n
    BY <1>2, GreatestNumber
  <2>2. \E n \in X : \A m \in X : n >= m
    BY <1>2, <2>1
  <2> QED BY <1>3, <2>2 DEF Max
<1> HIDE DEF k
<1> QED BY <1>1, <1>4 DEF k

\* Every state of the loop keeps its invariant.
LEMMA LoopStatesFacts ==
    ASSUME NEW F \in Seq(FrameType), NEW k \in 0 .. Len(F), NEW s \in Sides, NEW w,
           F = w.wire[s], LoopInv(At(Take(w, s, k), FALSE), s, F, 0, k)
    PROVE  \A st \in LoopStates(w, s, k)[k] : LoopInv(st, s, F, k, k)
<1> DEFINE First == {At(Take(w, s, k), FALSE)}
           More(b, i) == UNION {OnFrame(st, s, w.wire[s][i]) : st \in b}
           Step(a, i) == IF i = 0 THEN First ELSE More(a[i - 1], i)
           Is(a, m) == a = [i \in 0 .. m |-> Step(a, i)]
<1>1. k \in Nat
  BY LenProperties
<1> HIDE DEF First, More
<1>2. \A m \in 0 .. k : \E a : Is(a, m)
  <2> DEFINE X == {m \in 0 .. k : ~ \E a : Is(a, m)}
  <2> SUFFICES ASSUME X # {} PROVE FALSE
    OBVIOUS
  <2>1. PICK m \in X : \A n \in X : m <= n
    <3>1. X \in SUBSET Nat
      BY <1>1
    <3> QED BY <3>1, LeastNumber
  <2>2. CASE m = 0
    <3>1. Is([i \in 0 .. 0 |-> First], 0)
      OBVIOUS
    <3> QED BY <2>1, <2>2, <3>1
  <2>3. CASE m # 0
    <3>1. m \in Nat /\ m - 1 \in 0 .. k /\ ~ (m <= m - 1)
      BY <1>1, <2>3
    <3>2. PICK f : Is(f, m - 1)
      BY <2>1, <3>1
    <3> DEFINE a == [i \in 0 .. m |-> IF i = m THEN More(f[m - 1], m) ELSE f[i]]
    <3>3. ASSUME NEW i \in 0 .. m PROVE a[i] = Step(a, i)
      <4>1. CASE i = 0
        BY <2>3, <3>1, <3>2, <4>1
      <4>2. CASE i = m
        <5>1. a[m - 1] = f[m - 1]
          BY <2>3, <3>1
        <5> QED BY <2>3, <4>2, <5>1
      <4>3. CASE i # 0 /\ i # m
        <5>1. i - 1 \in 0 .. m /\ i - 1 # m /\ i \in 0 .. m - 1
          BY <3>1, <4>3
        <5>2. a[i - 1] = f[i - 1] /\ a[i] = f[i]
          BY <4>3, <5>1
        <5>3. f[i] = More(f[i - 1], i)
          BY <3>2, <4>3, <5>1
        <5> QED BY <4>3, <5>2, <5>3
      <4> QED BY <4>1, <4>2, <4>3
    <3>4. a = [i \in 0 .. m |-> a[i]]
      OBVIOUS
    <3> HIDE DEF a
    <3>5. Is(a, m)
      BY <3>3, <3>4
    <3> QED BY <2>1, <3>5
  <2> QED BY <2>2, <2>3
<1> DEFINE a == LoopStates(w, s, k)
<1>3. Is(a, k)
  <2>1. k \in 0 .. k
    BY <1>1
  <2>2. \E b : Is(b, k)
    BY <1>2, <2>1
  <2>3. a = CHOOSE b : Is(b, k)
    BY DEF LoopStates, First, More
  <2> HIDE DEF Is, a
  <2> QED BY <2>2, <2>3
<1>4. \A i \in 0 .. k : a[i] = Step(a, i)
  <2> DEFINE g == [i \in 0 .. k |-> Step(a, i)]
  <2>1. a = g
    BY <1>3
  <2>2. \A i \in 0 .. k : g[i] = Step(a, i)
    OBVIOUS
  <2> HIDE DEF g, a, Step
  <2> QED BY <2>1, <2>2
<1> HIDE DEF a
<1> DEFINE X == {i \in 0 .. k : ~ \A st \in a[i] : LoopInv(st, s, F, i, k)}
<1>5. X = {}
  <2> SUFFICES ASSUME X # {} PROVE FALSE
    OBVIOUS
  <2>1. PICK i \in X : \A n \in X : i <= n
    <3>1. X \in SUBSET Nat
      BY <1>1
    <3> QED BY <3>1, LeastNumber
  <2>2. CASE i = 0
    <3>1. a[0] = First
      BY <1>1, <1>4
    <3> QED BY <2>1, <2>2, <3>1 DEF First
  <2>3. CASE i # 0
    <3>1. i \in 1 .. k /\ i - 1 \in 0 .. k /\ ~ (i <= i - 1)
      BY <1>1, <2>3
    <3>2. \A st \in a[i - 1] : LoopInv(st, s, F, i - 1, k)
      BY <2>1, <3>1
    <3>3. a[i] = More(a[i - 1], i)
      BY <1>4, <2>3, <3>1
    <3>4. ASSUME NEW next \in a[i] PROVE LoopInv(next, s, F, i, k)
      <4>1. PICK st \in a[i - 1] : next \in OnFrame(st, s, F[i])
        BY <3>3 DEF More
      <4>2. LoopInv(st, s, F, i - 1, k)
        BY <3>2
      <4> QED BY <3>1, <4>1, <4>2, OnFrameFacts
    <3> QED BY <2>1, <3>4
  <2> QED BY <2>2, <2>3
<1>6. k \in 0 .. k
  BY <1>1
<1> QED BY <1>5, <1>6 DEF a

\* Frames are taken from the stream and leave the buffer.
LEMMA TakeFacts ==
    ASSUME NEW w, NEW s \in Sides, Healthy(w, s), NEW k \in 0 .. Len(w.wire[s]), NEW l \in Nat
    PROVE  LET v == [w EXCEPT !.io[s].len = l, !.wire[s] = SubSeq(@, k + 1, Len(@))]
           IN /\ Healthy(v, s) /\ v.ws = w.ws /\ Same(w.io[s], v.io[s])
              /\ v.wire[s] = SubSeq(w.wire[s], k + 1, Len(w.wire[s]))
<1> DEFINE F == w.wire[s]
           G == SubSeq(F, k + 1, Len(F))
           b == [w.io[s] EXCEPT !.len = l]
           u == [w EXCEPT !.io[s] = b]
           v == [u EXCEPT !.wire[s] = G]
<1>1. /\ w \in WorldType /\ w.io[s] \in AsyncConn /\ Tasks(w.io[s])
      /\ F \in Seq(FrameType) /\ Len(F) \in Nat /\ Peer(s) \in Sides /\ Peer(s) # s
  BY WorldFacts, PeerFacts, LenProperties DEF Healthy, Acts, Good, Lives
<1>2. [w EXCEPT !.io[s].len = l, !.wire[s] = SubSeq(@, k + 1, Len(@))] = v
  BY <1>1 DEF WorldType
<1>3. b \in AsyncConn /\ Same(w.io[s], b) /\ b.state = w.io[s].state
  BY <1>1 DEF AsyncConn, Same
<1>4. /\ G \in Seq(FrameType)
      /\ \A i \in DOMAIN G : \E j \in DOMAIN F : G[i] = F[j]
  <2>1. k + 1 \in Int /\ Len(F) \in Int
    BY <1>1
  <2>2. \A i \in k + 1 .. Len(F) : F[i] \in FrameType
    BY <1>1, ElementOfSeq
  <2>3. /\ G \in Seq(FrameType)
        /\ Len(G) = IF k + 1 <= Len(F) THEN Len(F) - (k + 1) + 1 ELSE 0
        /\ \A i \in 1 .. Len(F) - (k + 1) + 1 : G[i] = F[k + 1 + i - 1]
    BY <2>1, <2>2, SubSeqProperties
  <2> HIDE DEF G
  <2>4. DOMAIN F = 1 .. Len(F) /\ DOMAIN G = 1 .. Len(G)
    BY <1>1, <2>3, LenProperties
  <2>5. ASSUME NEW i \in 1 .. Len(G) PROVE \E j \in 1 .. Len(F) : G[i] = F[j]
    <3>1. i \in 1 .. Len(F) - (k + 1) + 1 /\ k + 1 + i - 1 \in 1 .. Len(F)
      BY <1>1, <2>3
    <3> QED BY <2>3, <3>1
  <2> QED BY <2>3, <2>4, <2>5
<1> HIDE DEF b, G
<1>5. Healthy(u, s) /\ u.io[s] = b /\ u.ws = w.ws /\ u.wire = w.wire
  <2>1. Less(w.io[s], b)
    BY <1>1, <1>3 DEF Less, Same, Tasks, Watches
  <2>2. Turns(w, u, s)
    BY <2>1, ConnTurns DEF Healthy
  <2>3. u.io[s] = b /\ u.ws = w.ws /\ u.wire = w.wire
    BY <1>1, <1>3, SetConn
  <2>4. Honest(b)
    BY <1>3 DEF Healthy, Sound, Honest, Same
  <2> HIDE DEF u
  <2> QED BY <2>2, <2>3, <2>4, HealthyTurns
<1> HIDE DEF u
<1>6. /\ v \in WorldType /\ v.io = u.io /\ v.ws = u.ws
      /\ v.wire[s] = G /\ v.wire[Peer(s)] = u.wire[Peer(s)]
  <2>1. u \in WorldType
    BY <1>5 DEF Healthy, Acts, Good
  <2> QED BY <1>1, <1>4, <2>1 DEF WorldType
<1> HIDE DEF v
<1>7. Acts(v, s)
  <2>1. \A e \in Sides : Lives(v, e) /\ Received(v, e)
    BY <1>5, <1>6 DEF Healthy, Acts, Good, Lives, Received
  <2>2. Roles(v)
    <3>1. "server" \in Sides /\ Roles(u) /\ u.ws[s].phase # "http"
      BY <1>5 DEF Healthy, Acts, Good, Sides
    <3>2. v.ws["server"].phase = "http" => v.wire["server"] = u.wire["server"]
      BY <1>6, <3>1, PeerFacts
    <3> QED BY <1>6, <3>1, <3>2 DEF Roles, Unanswered
  <2> QED BY <1>5, <1>6, <2>1, <2>2 DEF Healthy, Acts, Good
<1>8. Flow(v, Peer(s)) /\ Sound(v, s)
  BY <1>1, <1>5, <1>6 DEF Healthy, Flow, Sound
<1>9. Sound(v, Peer(s))
  <2>1. Sound(u, Peer(s)) /\ Peer(Peer(s)) = s
    BY <1>5, PeerFacts DEF Healthy
  <2> QED BY <1>4, <1>5, <1>6, <2>1 DEF Sound
<1> QED BY <1>2, <1>3, <1>5, <1>6, <1>7, <1>8, <1>9 DEF Healthy, G

\* A whole world seen by a side, and a step of the side that gives a whole world
LEMMA WholeHealthy ==
    ASSUME NEW w, NEW s \in Sides, Whole(w), w.ws[s].phase # "http"
    PROVE  Healthy(w, s) /\ Flow(w, s)
BY PeerFacts DEF Whole, Healthy, Acts

LEMMA HealthyWhole ==
    ASSUME NEW w, NEW s \in Sides, Healthy(w, s), Flow(w, s)
    PROVE  Whole(w)
BY PeerFacts DEF Whole, Healthy, Acts

LEMMA TurnsWhole ==
    ASSUME NEW w, NEW v, NEW s \in Sides, Whole(w), w.ws[s].phase # "http", Turns(w, v, s),
           Honest(v.io[s])
    PROVE  Whole(v)
<1>1. Healthy(v, s) /\ Hears(w, v, s) /\ Flow(w, s)
  BY WholeHealthy, HealthyTurns
<1> QED BY <1>1, HearsFlow, HealthyWhole

\* A side that has closed is honest.
LEMMA ClosedWhole ==
    ASSUME NEW w, NEW v, NEW s \in Sides, Whole(w), w.ws[s].phase # "http", Turns(w, v, s),
           ~ v.io[s].open
    PROVE  Whole(v)
BY TurnsWhole DEF Honest

\* The connection of a session gets a task, or reads.
LEMMA BusyWhole ==
    ASSUME NEW w, NEW s \in Sides, Whole(w), w.ws[s].phase # "http",
           NEW b \in AsyncConn, Tasks(b), Honest(b),
           b.open = w.io[s].open, b.async = w.io[s].async,
           b.peerClosed = w.io[s].peerClosed,
           b.readTask => w.ws[s].phase \in {"handshake", "open"}
    PROVE  Whole([w EXCEPT !.io[s] = b])
<1> DEFINE v == [w EXCEPT !.io[s] = b]
<1>1. /\ v \in WorldType /\ v.ws = w.ws /\ v.wire = w.wire
      /\ v.io[s] = b /\ v.io[Peer(s)] = w.io[Peer(s)] /\ w \in WorldType
  BY SetConn DEF Whole, Good
<1> HIDE DEF v
<1>2. \A e \in Sides : /\ Tasks(v.io[e]) /\ v.io[e].open = w.io[e].open
                       /\ v.io[e].async = w.io[e].async
                       /\ v.io[e].peerClosed = w.io[e].peerClosed
                       /\ Honest(v.io[e]) /\ (e = s \/ v.io[e] = w.io[e])
  BY <1>1, PeerFacts DEF Whole, Good, Lives, Sound
<1>3. \A e \in Sides : Lives(v, e) /\ Received(v, e)
  BY <1>1, <1>2, PeerFacts DEF Whole, Good, Lives, Received
<1>4. Roles(v)
  <2>1. "client" \in Sides /\ "server" \in Sides /\ Roles(w)
    BY DEF Sides, Whole, Good
  <2> QED BY <1>1, <1>2, <2>1 DEF Roles, Unanswered
<1>5. \A e \in Sides : Flow(v, e) /\ Sound(v, e)
  BY <1>1, <1>2, PeerFacts DEF Whole, Flow, Sound
<1> QED BY <1>1, <1>3, <1>4, <1>5 DEF Whole, Good, v

\* The client's handshake proceeds.
LEMMA PhaseWhole ==
    ASSUME NEW w, NEW s \in Sides, Whole(w), w.ws[s].phase \in {"request", "handshake"},
           NEW q \in {"handshake", "open"}
    PROVE  LET v == [w EXCEPT !.ws[s].phase = q]
           IN /\ Whole(v) /\ v.io = w.io /\ v.ws[s].phase = q
<1> DEFINE x == w.ws[s]
           y == [x EXCEPT !.phase = q]
           v == [w EXCEPT !.ws[s] = y]
<1>1. w \in WorldType /\ x \in SessionType
  BY WorldFacts DEF Whole, Good
<1>2. /\ y \in SessionType /\ y.phase = q /\ y.mem = x.mem
      /\ y.sent = x.sent /\ y.got = x.got
      /\ y.waiting = x.waiting /\ y.missed = x.missed /\ y.silent = x.silent
  BY <1>1 DEF SessionType
<1>3. v = [w EXCEPT !.ws[s].phase = q]
  OBVIOUS
<1> HIDE DEF y
<1>4. /\ v \in WorldType /\ v.io = w.io /\ v.wire = w.wire
      /\ v.ws[s] = y /\ v.ws[Peer(s)] = w.ws[Peer(s)]
  BY <1>1, <1>2, SetSession
<1> HIDE DEF v
<1>5. s = "client" /\ "server" \in Sides /\ Peer(s) = "server"
  BY DEF Whole, Good, Roles, Sides, Peer
<1>6. x.sent = 0
  <2>1. x.sent \in Nat /\ ~ (x.sent > 0)
    BY <1>1 DEF SessionType, Whole, Good, Lives
  <2> QED BY <2>1
<1>7. \A e \in Sides : Lives(v, e) /\ Received(v, e)
  BY <1>2, <1>4, <1>6, PeerFacts DEF Whole, Good, Lives, Received, Silent
<1>8. Roles(v)
  BY <1>2, <1>4, <1>5 DEF Whole, Good, Roles, Unanswered
<1>9. \A e \in Sides : Flow(v, e) /\ Sound(v, e)
  BY <1>2, <1>4, PeerFacts DEF Whole, Flow, Sound
<1> QED BY <1>2, <1>3, <1>4, <1>7, <1>8, <1>9 DEF Whole, Good

\* The end of _websocket_read_step
LEMMA AfterFramesFacts ==
    ASSUME NEW s \in Sides, NEW st, Whole(st.w), st.w.ws[s].phase = "open",
           ~ st.done => st.w.io[s].open /\ st.w.io[s].readTask,
           NEW v \in AfterFrames(st, s)
    PROVE  Whole(v)
<1> DEFINE w == st.w
<1>1. CASE v = w
  BY <1>1
<1>2. CASE v = AsyncClose(w, s)
  <2>1. Turns(w, v, s) /\ ~ v.io[s].open
    BY <1>2, AsyncCloseTurns, WholeHealthy DEF Healthy
  <2> QED BY <2>1, ClosedWhole
<1>3. CASE ~ st.done /\ v = [w EXCEPT !.io[s] = CreateWriteTask(@)]
  <2> DEFINE b == CreateWriteTask(w.io[s])
  <2>1. w.io[s] \in AsyncConn /\ Tasks(w.io[s]) /\ w.io[s].open /\ ~ w.io[s].disconnected
    BY <1>3, WorldFacts DEF Whole, Good, Lives, Tasks
  <2>2. /\ b \in AsyncConn /\ Tasks(b) /\ b.open = w.io[s].open
        /\ b.async = w.io[s].async /\ b.state = w.io[s].state
        /\ b.peerClosed = w.io[s].peerClosed
    BY <2>1, CreateWriteTaskFacts
  <2> HIDE DEF b
  <2>3. Honest(b)
    BY <2>2 DEF Whole, Sound, Honest
  <2>4. v = [w EXCEPT !.io[s] = b]
    BY <1>3 DEF b
  <2> HIDE DEF w
  <2> QED BY <2>2, <2>3, <2>4, BusyWhole DEF w
<1> QED BY <1>1, <1>2, <1>3 DEF AfterFrames

LEMMA ReadStepFacts ==
    ASSUME NEW w, NEW s \in Sides, Whole(w), w.ws[s].phase = "open",
           w.io[s].open, w.io[s].readTask, NEW v \in ReadStep(w, s)
    PROVE  Whole(v)
<1> DEFINE F == w.wire[s]
           k == WholeFrames(F, w.io[s].len)
           l == w.io[s].len - Ends(F)[k]
           u == Take(w, s, k)
<1>1. F \in Seq(FrameType) /\ w.io[s].len \in Nat
  BY WorldFacts DEF Whole, Good, AsyncConn
<1>2. k \in 0 .. Len(F) /\ l \in Nat
  BY <1>1, WholeFramesFacts
<1>3. u = [w EXCEPT !.io[s].len = l, !.wire[s] = SubSeq(@, k + 1, Len(@))]
  BY DEF Take
<1>4. v = w \/ v = AsyncClose(w, s) \/ \E st \in LoopStates(w, s, k)[k] : v \in AfterFrames(st, s)
  BY DEF ReadStep
<1>5. Healthy(w, s) /\ Flow(w, s)
  BY WholeHealthy
<1> HIDE DEF k, l, u
<1>6. /\ Healthy(u, s) /\ u.ws = w.ws /\ Same(w.io[s], u.io[s])
      /\ u.wire[s] = SubSeq(F, k + 1, Len(F))
  <2> DEFINE x == [w EXCEPT !.io[s].len = l, !.wire[s] = SubSeq(@, k + 1, Len(@))]
  <2>1. /\ Healthy(x, s) /\ x.ws = w.ws /\ Same(w.io[s], x.io[s])
        /\ x.wire[s] = SubSeq(F, k + 1, Len(F))
    BY ONLY <1>2, <1>5, s \in Sides, TakeFacts
  <2> HIDE DEF x
  <2>2. u = x
    BY <1>3 DEF x
  <2> QED BY <2>1, <2>2
<1>7. LoopInv(At(u, FALSE), s, F, 0, k)
  BY <1>5, <1>6 DEF LoopInv, At, Same, Flow
<1>8. CASE v = AsyncClose(w, s)
  <2>1. Turns(w, v, s) /\ ~ v.io[s].open
    BY <1>5, <1>8, AsyncCloseTurns DEF Healthy
  <2> QED BY <2>1, ClosedWhole
<1>9. CASE \E st \in LoopStates(w, s, k)[k] : v \in AfterFrames(st, s)
  <2>1. PICK st \in LoopStates(w, s, k)[k] : v \in AfterFrames(st, s)
    BY <1>9
  <2>2. LoopInv(st, s, F, k, k)
    BY <1>1, <1>2, <1>7, LoopStatesFacts DEF u
  <2>3. Flow(st.w, s)
    <3>1. st.w.io[s].open => InOrder(Len(st.w.ws[s].got), st.w.ws[Peer(s)].sent, F, k)
      BY <2>2 DEF LoopInv
    <3> QED BY <1>1, <1>2, <2>2, <3>1, InOrderRest DEF LoopInv, Flow
  <2>4. Whole(st.w)
    BY <2>2, <2>3, HealthyWhole DEF LoopInv
  <2> QED BY <2>1, <2>2, <2>4, AfterFramesFacts DEF LoopInv
<1> QED BY <1>4, <1>8, <1>9

\* The client drops what came with the answer: it holds no message, for the server
\* sends the first one only in reply to one of the client's.
LEMMA HandshakeReadStepFacts ==
    ASSUME NEW w, NEW s \in Sides, Whole(w), w.ws[s].phase = "handshake",
           w.io[s].open, NEW v \in HandshakeReadStep(w, s)
    PROVE  Whole(v)
<1> DEFINE F == w.wire[s]
           k == WholeFrames(F, w.io[s].len)
           x == [w EXCEPT !.io[s].len = 0, !.wire[s] = SubSeq(@, k + 1, Len(@))]
<1>1. /\ F \in Seq(FrameType) /\ w.io[s].len \in Nat /\ Len(F) \in Nat
      /\ w.ws[s] \in SessionType
  BY WorldFacts, LenProperties DEF Whole, Good, AsyncConn
<1>2. k \in 0 .. Len(F) /\ 0 \in Nat
  BY <1>1, WholeFramesFacts
<1>3. \/ v = w
      \/ v = HandshakeReadError(w, s)
      \/ v = [x EXCEPT !.ws[s].phase = "open"]
  BY DEF HandshakeReadStep
<1>4. Healthy(w, s) /\ Flow(w, s)
  BY WholeHealthy
<1> HIDE DEF k
<1>5. /\ Healthy(x, s) /\ x.ws = w.ws /\ Same(w.io[s], x.io[s])
      /\ x.wire[s] = SubSeq(F, k + 1, Len(F))
  BY ONLY <1>2, <1>4, s \in Sides, TakeFacts
<1> HIDE DEF x
<1>6. Len(w.ws[s].got) = 0 /\ w.ws[Peer(s)].sent = 0
  <2>1. s = "client" /\ Peer(s) = "server" /\ "server" \in Sides /\ "client" \in Sides
        /\ Peer("server") = "client"
    BY DEF Whole, Good, Roles, Sides, Peer
  <2>2. /\ w.ws["client"].sent \in Nat /\ w.ws["server"].sent \in Nat
        /\ w.ws["server"].got \in Seq(Nat) /\ w.ws["client"].got \in Seq(Nat)
        /\ Len(w.ws["server"].got) \in Nat /\ Len(w.ws["client"].got) \in Nat
    BY <2>1, WorldFacts, LenProperties DEF Whole, Good, SessionType
  <2>3. w.ws["client"].sent = 0
    BY <2>1, <2>2 DEF Whole, Good, Lives
  <2>4. Len(w.ws["server"].got) = 0
    BY <2>1, <2>2, <2>3 DEF Whole, Good, Received
  <2>5. w.ws["server"].got = <<>>
    BY <2>2, <2>4, EmptySeq
  <2>6. w.ws["server"].sent = 0
    BY <2>2, <2>5 DEF Whole, Good, Roles
  <2>7. Len(w.ws["client"].got) = 0
    BY <2>1, <2>2, <2>6 DEF Whole, Good, Received
  <2> QED BY <2>1, <2>6, <2>7
<1>7. InOrder(0, 0, F, 0)
  BY <1>4, <1>6 DEF Flow
<1>8. InOrder(0, 0, F, k)
  <2>1. \A j \in 0 + 1 .. Len(F) : ~ IsText(F[j])
    <3>1. \A j \in 0 + 1 .. Len(F) : IsText(F[j]) => 0 < F[j].id /\ F[j].id <= 0
      BY <1>7 DEF InOrder
    <3>2. \A j \in 1 .. Len(F) : F[j] \in FrameType
      BY <1>1, ElementOfSeq
    <3>3. \A j \in 0 + 1 .. Len(F) : F[j].id \in Nat
      BY <3>2 DEF FrameType
    <3> QED BY <3>1, <3>3
  <2>2. k + 1 .. Len(F) \subseteq 0 + 1 .. Len(F)
    BY <1>1, <1>2
  <2>3. 0 + 1 .. 0 = {}
    OBVIOUS
  <2> QED BY <2>1, <2>2, <2>3 DEF InOrder
<1>9. Whole(x)
  <2>1. Flow(x, s)
    BY <1>1, <1>2, <1>5, <1>6, <1>8, InOrderRest DEF Flow
  <2> QED BY <1>5, <2>1, HealthyWhole
<1>10. CASE v = HandshakeReadError(w, s)
  <2>1. Turns(w, v, s) /\ ~ v.io[s].open
    BY <1>4, <1>10, HandshakeReadErrorTurns DEF Healthy
  <2> QED BY <2>1, ClosedWhole
<1>11. CASE v = [x EXCEPT !.ws[s].phase = "open"]
  <2>1. x.ws[s].phase \in {"request", "handshake"}
    BY <1>5
  <2>2. Whole([x EXCEPT !.ws[s].phase = "open"])
    BY ONLY <1>9, <2>1, s \in Sides, PhaseWhole
  <2> QED BY <1>11, <2>2
<1> QED BY <1>3, <1>10, <1>11

-----------------------------------------------------------------------------
(* The actions *)

LEMMA BecomesWhole ==
    ASSUME NEW w, Whole(w), Becomes(w)
    PROVE  SessionInv'
<1> DEFINE v == [io |-> io', ws |-> ws', wire |-> wire']
           B(e) == [w.io[e] EXCEPT !.peerClosed = @ \/ ~ w.io[Peer(e)].open,
                                   !.inbox = IF w.io[e].open THEN @ ELSE 0]
<1>1. /\ w \in WorldType
      /\ \A e \in Sides : w.io[e] \in AsyncConn /\ Tasks(w.io[e]) /\ Honest(w.io[e])
  BY WorldFacts DEF Whole, Good, Lives, Sound
<1>2. v.ws = w.ws /\ v.wire = w.wire /\ v.io = [e \in Sides |-> B(e)]
  BY DEF Becomes
<1>3. ASSUME NEW e \in Sides
      PROVE  /\ B(e) \in AsyncConn /\ Tasks(B(e)) /\ Honest(B(e))
             /\ B(e).open = w.io[e].open /\ B(e).async = w.io[e].async
             /\ B(e).readTask = w.io[e].readTask /\ B(e).writeTask = w.io[e].writeTask
             /\ B(e).disconnected = w.io[e].disconnected
             /\ B(e).peerClosed = (w.io[e].peerClosed \/ ~ w.io[Peer(e)].open)
  <2>1. Peer(e) \in Sides /\ w.io[Peer(e)] \in AsyncConn
    BY <1>1, PeerFacts
  <2>2. /\ B(e) \in AsyncConn /\ B(e).watch = w.io[e].watch /\ B(e).state = w.io[e].state
        /\ B(e).open = w.io[e].open /\ B(e).async = w.io[e].async
        /\ B(e).readTask = w.io[e].readTask /\ B(e).writeTask = w.io[e].writeTask
        /\ B(e).disconnected = w.io[e].disconnected
        /\ B(e).peerClosed = (w.io[e].peerClosed \/ ~ w.io[Peer(e)].open)
    <3> DEFINE a == w.io[e]
               n == IF a.open THEN a.inbox ELSE 0
               p == a.peerClosed \/ ~ w.io[Peer(e)].open
    <3>1. B(e) = [a EXCEPT !.peerClosed = p, !.inbox = n]
      OBVIOUS
    <3>2. a \in AsyncConn /\ n \in Nat /\ p \in BOOLEAN
      BY <1>1, <2>1 DEF AsyncConn
    <3>3. p = (w.io[e].peerClosed \/ ~ w.io[Peer(e)].open)
      OBVIOUS
    <3> HIDE DEF B, a, n, p
    <3>4. B(e) \in AsyncConn
      BY <3>1, <3>2 DEF AsyncConn
    <3>5. /\ B(e).watch = a.watch /\ B(e).state = a.state
          /\ B(e).open = a.open /\ B(e).async = a.async
          /\ B(e).readTask = a.readTask /\ B(e).writeTask = a.writeTask
          /\ B(e).disconnected = a.disconnected /\ B(e).peerClosed = p
      BY <3>1, <3>2 DEF AsyncConn
    <3> QED BY <3>3, <3>4, <3>5 DEF a
  <2> HIDE DEF B
  <2> QED BY <1>1, <2>2 DEF Tasks, Watches, Honest
<1> HIDE DEF B
<1>4. \A e \in Sides : v.io[e] = B(e)
  BY <1>2
<1>5. v \in WorldType
  <2>1. v.io \in [Sides -> AsyncConn]
    BY <1>2, <1>3
  <2> QED BY <1>1, <1>2, <2>1 DEF WorldType
<1> HIDE DEF v
<1>6. ASSUME NEW e \in Sides PROVE Lives(v, e) /\ Received(v, e)
  <2>1. Lives(w, e) /\ Received(w, e) /\ Peer(e) \in Sides
    BY PeerFacts DEF Whole, Good
  <2>2. Received(v, e)
    BY <1>2, <2>1 DEF Received
  <2>3. v.io[e].peerClosed => ~ v.io[Peer(e)].open
    BY <1>3, <1>4, <2>1 DEF Lives
  <2> QED BY <1>2, <1>3, <1>4, <2>1, <2>2, <2>3 DEF Lives
<1>7. Roles(v)
  <2>1. "client" \in Sides /\ "server" \in Sides /\ Roles(w)
    BY DEF Sides, Whole, Good
  <2> QED BY <1>2, <1>3, <1>4, <2>1 DEF Roles, Unanswered
<1>8. \A e \in Sides : Flow(v, e) /\ Sound(v, e)
  BY <1>2, <1>3, <1>4, PeerFacts DEF Whole, Flow, Sound
<1>9. Whole(v)
  BY <1>5, <1>6, <1>7, <1>8 DEF Whole, Good
<1>10. World' = v
  BY DEF World, v
<1> QED BY <1>9, <1>10 DEF SessionInv, Whole, Good, Roles, Unanswered, Lives, Received, Flow, Sound

LEMMA WorldIs == World.io = io /\ World.ws = ws /\ World.wire = wire
BY DEF World

\* A side that has a task is past the handshake of the server.
LEMMA WatchFacts ==
    ASSUME SessionInv, NEW s \in Sides
    PROVE  /\ io[s] \in AsyncConn /\ Tasks(io[s]) /\ Honest(io[s])
           /\ io[s].watch["READ"] = "read" =>
                 /\ io[s].readTask /\ io[s].open /\ ws[s].phase \in {"handshake", "open"}
           /\ io[s].watch["WRITE"] = "write" =>
                 /\ io[s].open /\ ~ io[s].disconnected
                 /\ ws[s].phase \in {"request", "handshake", "open"}
<1>1. Lives(World, s) /\ Sound(World, s) /\ Roles(World) /\ World \in WorldType
  BY DEF SessionInv, Whole, Good
<1>2. io[s] \in AsyncConn /\ Tasks(io[s]) /\ Honest(io[s])
  BY <1>1, WorldIs, WorldFacts DEF Lives, Sound
<1>3. s = "client" \/ s = "server"
  BY DEF Sides
<1> QED BY <1>1, <1>2, <1>3, WorldIs DEF Tasks, Watches, Roles, Unanswered

LEMMA ReadTaskInv ==
    ASSUME SessionInv, NEW s \in Sides, ReadTask(s)
    PROVE  SessionInv'
<1>1. /\ io[s] \in AsyncConn /\ Tasks(io[s]) /\ Honest(io[s])
      /\ io[s].readTask /\ io[s].open /\ ws[s].phase \in {"handshake", "open"}
  BY WatchFacts DEF ReadTask
<1>2. PICK o \in ConnectionRead(io[s]) :
         LET w == [World EXCEPT !.io[s] = o.conn]
         IN CASE o.err = "closed" -> Becomes(HandleDisconnect(w, s))
              [] o.err = "error" -> Becomes(ReadError([w EXCEPT !.io[s] = CancelRead(@)], s))
              [] OTHER -> \E next \in IF ws[s].phase = "handshake"
                                      THEN HandshakeReadStep(w, s)
                                      ELSE ReadStep(w, s) : Becomes(next)
  BY DEF ReadTask
<1> DEFINE c == o.conn
           w == [World EXCEPT !.io[s] = c]
<1>3. Same(io[s], c) /\ (o.err # "error" => Honest(c))
  BY <1>1, ConnectionReadFacts
<1>4. /\ c \in AsyncConn /\ Tasks(c)
      /\ Whole(World) /\ Healthy(World, s) /\ World \in WorldType
      /\ World.ws[s].phase # "http" /\ World.io[s] = io[s]
  <2>1. Whole(World) /\ World.ws[s].phase # "http" /\ World.io[s] = io[s]
    BY <1>1, WorldIs DEF SessionInv
  <2>2. Healthy(World, s) /\ World \in WorldType
    BY <2>1, WholeHealthy DEF Whole, Good
  <2> QED BY <1>1, <1>3, <2>1, <2>2 DEF Same, Tasks, Watches
<1>5. CASE o.err = "closed"
  <2> DEFINE v == HandleDisconnect(w, s)
  <2>1. Loose(World.io[s], c)
    BY <1>3, <1>4 DEF Loose, Same, Tasks
  <2>2. /\ Turns(World, v, s)
        /\ v.io[s].open => c.open /\ v.io[s].state = c.state
    BY <1>4, <2>1, HandleDisconnectTurns DEF Healthy
  <2>3. Becomes(v)
    BY <1>2, <1>5
  <2> HIDE DEF v
  <2>4. Honest(v.io[s])
    BY <1>3, <1>4, <1>5, <2>2 DEF Honest, Same, Turns, Less
  <2> QED BY <1>4, <2>2, <2>3, <2>4, TurnsWhole, BecomesWhole
<1>6. CASE o.err = "error"
  <2> DEFINE b == CancelRead(c)
             u == [World EXCEPT !.io[s] = b]
             v == ReadError(u, s)
  <2>1. /\ b \in AsyncConn /\ Watches(b)
        /\ ~ b.readTask /\ b.writeTask = c.writeTask /\ b.open = c.open
        /\ b.disconnected = c.disconnected /\ b.async = c.async
        /\ b.peerClosed = c.peerClosed
    BY <1>4, CancelReadFacts DEF Tasks
  <2>2. Becomes(ReadError([w EXCEPT !.io[s] = CancelRead(@)], s))
    BY <1>2, <1>6
  <2>3. [w EXCEPT !.io[s] = CancelRead(@)] = u
    BY <1>4 DEF WorldType
  <2> HIDE DEF b, w
  <2>4. Less(World.io[s], b)
    BY <1>3, <1>4, <2>1 DEF Less, Same, Tasks
  <2>5. Turns(World, u, s)
    BY <1>4, <2>4, ConnTurns DEF Healthy
  <2>6. Acts(u, s)
    BY <1>4, <2>5, TurnsGood DEF Healthy
  <2> HIDE DEF u
  <2>7. Turns(u, v, s) /\ ~ v.io[s].open
    BY <2>6, ReadErrorTurns
  <2>8. Turns(World, v, s)
    BY <2>5, <2>7, TurnsTwice
  <2>9. Becomes(v)
    BY <2>2, <2>3
  <2> HIDE DEF v
  <2> QED BY <1>4, <2>7, <2>8, <2>9, ClosedWhole, BecomesWhole
<1>7. CASE o.err # "closed" /\ o.err # "error"
  <2>1. Whole(w)
    <3>1. /\ c.open = World.io[s].open /\ c.async = World.io[s].async
          /\ c.peerClosed = World.io[s].peerClosed
          /\ World.ws[s].phase \in {"handshake", "open"} /\ Honest(c)
      BY <1>1, <1>3, <1>4, <1>7, WorldIs DEF Same
    <3> HIDE DEF c
    <3> QED BY <1>4, <3>1, BusyWhole DEF c
  <2>2. w.io[s] = c /\ w.ws = ws
    BY <1>4, SetConn, WorldIs
  <2>3. PICK next \in IF ws[s].phase = "handshake" THEN HandshakeReadStep(w, s)
                      ELSE ReadStep(w, s) : Becomes(next)
    BY <1>2, <1>7
  <2>4. c.open /\ c.readTask
    BY <1>1, <1>3 DEF Same
  <2> HIDE DEF w, c
  <2>5. Whole(next)
    <3>1. CASE ws[s].phase = "handshake"
      BY <2>1, <2>2, <2>3, <2>4, <3>1, HandshakeReadStepFacts
    <3>2. CASE ws[s].phase # "handshake"
      BY <1>1, <2>1, <2>2, <2>3, <2>4, <3>2, ReadStepFacts
    <3> QED BY <3>1, <3>2
  <2> QED BY <2>3, <2>5, BecomesWhole
<1> QED BY <1>5, <1>6, <1>7

\* _websocket_after_write or _bb_ws_handshake_write_done
LEMMA WriteDoneFacts ==
    ASSUME NEW w, NEW s \in Sides, Whole(w), w.io[s].open, ~ w.io[s].disconnected,
           w.ws[s].phase \in {"request", "handshake", "open"}
    PROVE  Whole(WriteDone(w, s))
<1> DEFINE x == w.ws[s]
           q == IF x.phase = "request" THEN "handshake" ELSE x.phase
           u == [w EXCEPT !.ws[s].phase = q]
           b == CreateReadTask(u.io[s])
           v == [u EXCEPT !.io[s] = b]
<1>1. w \in WorldType /\ x \in SessionType /\ w.io[s] \in AsyncConn /\ Tasks(w.io[s])
  BY WorldFacts DEF Whole, Good, Lives
<1>2. Whole(u) /\ u.io = w.io /\ u.ws[s].phase = q
  <2>1. CASE x.phase = "open"
    <3>1. u = w
      <4>1. q = x.phase
        BY <2>1
      <4> HIDE DEF q
      <4> QED BY <1>1, <4>1 DEF WorldType, SessionType
    <3> QED BY <2>1, <3>1
  <2>2. CASE x.phase # "open"
    <3> DEFINE y == [w EXCEPT !.ws[s].phase = "handshake"]
    <3>1. w.ws[s].phase \in {"request", "handshake"} /\ q = "handshake"
      BY <2>2
    <3>2. Whole(y) /\ y.io = w.io /\ y.ws[s].phase = "handshake"
      BY ONLY Whole(w), s \in Sides, <3>1, PhaseWhole
    <3> HIDE DEF q
    <3>3. u = y
      BY <3>1
    <3> HIDE DEF u, y
    <3> QED BY <3>1, <3>2, <3>3
  <2> QED BY <2>1, <2>2
<1>3. WriteDone(w, s) = v
  <2>1. u.io = w.io
    BY <1>2
  <2> QED BY <1>1, <2>1 DEF WriteDone, WorldType
<1> HIDE DEF u
<1>4. /\ b \in AsyncConn /\ Tasks(b) /\ b.open = u.io[s].open
      /\ b.async = u.io[s].async /\ b.state = u.io[s].state
      /\ b.peerClosed = u.io[s].peerClosed
  BY <1>1, <1>2, CreateReadTaskFacts
<1>5. q \in {"handshake", "open"}
  OBVIOUS
<1> HIDE DEF b, q
<1>6. Honest(b)
  BY <1>2, <1>4 DEF Whole, Sound, Honest
<1>7. Whole(v)
  BY <1>2, <1>4, <1>5, <1>6, BusyWhole
<1> QED BY <1>3, <1>7

LEMMA WriteTaskInv ==
    ASSUME SessionInv, NEW s \in Sides, WriteTask(s)
    PROVE  SessionInv'
<1>1. /\ io[s] \in AsyncConn /\ Tasks(io[s]) /\ Honest(io[s])
      /\ io[s].open /\ ~ io[s].disconnected /\ ws[s].phase \in {"request", "handshake", "open"}
  BY WatchFacts DEF WriteTask
<1>2. PICK x \in Written(World, s) :
         LET stopped == [x.w EXCEPT !.io[s] = CancelWrite(@, FALSE)]
         IN CASE x.err = "closed" -> Becomes(WriteError(HandleDisconnect(stopped, s), s))
              [] x.err = "error" -> Becomes(WriteError(stopped, s))
              [] OTHER -> Becomes(IF x.w.io[s].out > 0 THEN x.w ELSE WriteDone(stopped, s))
  BY DEF WriteTask
<1> DEFINE w == x.w
           c == CancelWrite(w.io[s], FALSE)
           stopped == [w EXCEPT !.io[s] = c]
<1>3. /\ Whole(World) /\ World.ws[s].phase \in {"request", "handshake", "open"}
      /\ World.ws[s].phase # "http" /\ World.io[s] = io[s]
  BY <1>1, WorldIs DEF SessionInv
<1>4. Healthy(World, s)
  BY <1>3, WholeHealthy
<1>5. /\ Turns(World, w, s) /\ w.ws = ws
      /\ Same(io[s], w.io[s]) /\ Honest(w.io[s])
  BY <1>1, <1>3, <1>4, WrittenFacts, WorldIs DEF Healthy, Acts
<1> HIDE DEF w
<1>6. Whole(w) /\ Acts(w, s)
  <2>1. Whole(w)
    BY <1>3, <1>5, TurnsWhole
  <2> QED BY <1>1, <1>5, <2>1, WholeHealthy DEF Healthy
<1>7. w.io[s] \in AsyncConn /\ Tasks(w.io[s])
  BY <1>6, WorldFacts DEF Whole, Good, Lives
<1>8. /\ c \in AsyncConn /\ Watches(c)
      /\ c.readTask = w.io[s].readTask /\ ~ c.writeTask /\ c.open = w.io[s].open
      /\ c.disconnected = w.io[s].disconnected /\ c.async = w.io[s].async
      /\ c.state = w.io[s].state /\ c.peerClosed = w.io[s].peerClosed
  BY <1>7, CancelWriteFacts DEF Tasks
<1>9. CASE x.err = "closed"
  <2>1. Becomes(WriteError(HandleDisconnect([x.w EXCEPT !.io[s] = CancelWrite(@, FALSE)], s), s))
    BY <1>2, <1>9
  <2>2. [x.w EXCEPT !.io[s] = CancelWrite(@, FALSE)] = stopped
    BY DEF w
  <2> HIDE DEF c
  <2>3. Loose(w.io[s], c)
    BY <1>7, <1>8 DEF Loose, Tasks
  <2> DEFINE u == HandleDisconnect(stopped, s)
             v == WriteError(u, s)
  <2>4. Turns(w, u, s)
    BY <1>6, <2>3, HandleDisconnectTurns
  <2>5. Becomes(v)
    BY <2>1, <2>2
  <2> HIDE DEF u
  <2>6. Acts(u, s)
    BY <1>6, <2>4, TurnsGood
  <2>7. Turns(u, v, s) /\ ~ v.io[s].open
    BY <2>6, WriteErrorTurns
  <2>8. Turns(w, v, s)
    BY <2>4, <2>7, TurnsTwice
  <2> HIDE DEF v
  <2> QED BY <1>6, <2>5, <2>7, <2>8, ClosedWhole, BecomesWhole DEF Acts
<1>10. Whole(stopped) /\ Turns(w, stopped, s) /\ stopped.io[s] = c /\ stopped.ws = ws
  <2> HIDE DEF c
  <2>1. Less(w.io[s], c)
    BY <1>7, <1>8 DEF Less, Tasks
  <2>2. Turns(w, stopped, s)
    BY <1>6, <2>1, ConnTurns
  <2>3. stopped.io[s] = c /\ stopped.ws = ws
    BY <1>5, <1>6, <1>8, SetConn DEF Acts, Good
  <2>4. Honest(c)
    BY <1>5, <1>8 DEF Honest
  <2> QED BY <1>6, <2>2, <2>3, <2>4, TurnsWhole DEF Acts
<1>11. [x.w EXCEPT !.io[s] = CancelWrite(@, FALSE)] = stopped
  BY DEF w
<1>12. stopped.io[s].open /\ ~ stopped.io[s].disconnected
       /\ stopped.ws[s].phase \in {"request", "handshake", "open"}
  BY <1>1, <1>5, <1>8, <1>10 DEF Same
<1> HIDE DEF stopped, c
<1>13. CASE x.err = "error"
  <2> DEFINE v == WriteError(stopped, s)
  <2>1. Becomes(v)
    BY <1>2, <1>11, <1>13
  <2>2. Acts(stopped, s)
    BY <1>10, <1>12 DEF Whole, Acts
  <2>3. Turns(stopped, v, s) /\ ~ v.io[s].open
    BY <2>2, WriteErrorTurns
  <2> HIDE DEF v
  <2> QED BY <1>10, <2>1, <2>2, <2>3, ClosedWhole, BecomesWhole DEF Acts
<1>14. CASE x.err # "closed" /\ x.err # "error"
  <2> DEFINE v == IF x.w.io[s].out > 0 THEN x.w ELSE WriteDone(stopped, s)
  <2>1. Becomes(v)
    BY <1>2, <1>11, <1>14
  <2>2. Whole(v)
    BY <1>6, <1>10, <1>12, WriteDoneFacts DEF w
  <2> HIDE DEF v
  <2> QED BY <2>1, <2>2, BecomesWhole
<1> QED BY <1>9, <1>13, <1>14

\* A side sends: the world is whole again.
LEMMA StaysWhole ==
    ASSUME NEW w, NEW v, NEW s \in Sides, Whole(w), Healthy(v, s), Hears(w, v, s)
    PROVE  Whole(v)
BY HearsFlow, HealthyWhole DEF Whole

\* A tick counts one interval more, without a frame and maybe without a pong.
LEMMA TickFacts ==
    ASSUME SessionInv, NEW s \in Sides, ws[s].heartbeat
    PROVE  LET v == [World EXCEPT !.ws[s] = [@ EXCEPT !.missed = Missed(ws[s]), !.waiting = TRUE,
                                                      !.silent = ws[s].silent + 1]]
           IN /\ Healthy(World, s) /\ ws[s] \in SessionType /\ Silent(ws[s])
              /\ Whole(v) /\ Healthy(v, s) /\ v.io = io
<1> DEFINE x == ws[s]
           y == [x EXCEPT !.missed = Missed(x), !.waiting = TRUE, !.silent = x.silent + 1]
           v == [World EXCEPT !.ws[s] = y]
<1>1. /\ World \in WorldType /\ Whole(World) /\ x \in SessionType /\ Silent(x)
  BY WorldIs, WorldFacts DEF SessionInv, Whole, Good, Lives
<1>2. World.ws[s].phase # "http" /\ World.ws[s] = x
  <2>1. s = "client" \/ s = "server"
    BY DEF Sides
  <2> QED BY <2>1, WorldIs DEF SessionInv, Whole, Good, Roles, Unanswered
<1>3. Healthy(World, s)
  BY <1>1, <1>2, WholeHealthy
<1>4. /\ y \in SessionType /\ y.sent = x.sent /\ y.got = x.got
      /\ y.mem = x.mem /\ y.phase = x.phase
      /\ y.waiting = TRUE /\ y.missed = Missed(x) /\ y.silent = x.silent + 1
  <2>1. Missed(x) \in Nat /\ x.silent + 1 \in Nat
    BY <1>1 DEF SessionType, Missed
  <2> QED BY <1>1, <2>1 DEF SessionType
<1>5. Keeps(x, y)
  <2>1. x.missed \in Nat /\ x.silent \in Nat /\ x.waiting \in BOOLEAN
    BY <1>1 DEF SessionType
  <2>2. Missed(x) < x.silent + 1
    BY <1>1, <2>1 DEF Silent, Missed
  <2> HIDE DEF y
  <2> QED BY <1>4, <2>2 DEF Keeps, Silent
<1> HIDE DEF y
<1>6. Turns(World, v, s) /\ v.io = World.io
  BY <1>2, <1>3, <1>4, <1>5, SessionTurns DEF Healthy
<1> HIDE DEF v
<1>7. Whole(v)
  BY <1>1, <1>2, <1>3, <1>6, TurnsWhole DEF Healthy, Sound
<1>8. Healthy(v, s)
  BY <1>3, <1>6, HealthyTurns DEF Healthy, Sound
<1>9. [World EXCEPT !.ws[s] = [@ EXCEPT !.missed = Missed(ws[s]), !.waiting = TRUE,
                                        !.silent = ws[s].silent + 1]] = v
  BY WorldIs DEF v, y
<1> QED BY <1>1, <1>3, <1>6, <1>7, <1>8, <1>9, WorldIs

LEMMA HeartbeatTickInv ==
    ASSUME SessionInv, NEW s \in Sides, HeartbeatTick(s)
    PROVE  /\ SessionInv'
           /\ io[s].open /\ ~ io'[s].open => ws[s].silent >= MaxMissed
<1> DEFINE n == Missed(ws[s])
           w == [World EXCEPT !.ws[s] = [@ EXCEPT !.missed = n, !.waiting = TRUE,
                                                  !.silent = ws[s].silent + 1]]
<1>1. /\ Healthy(World, s) /\ ws[s] \in SessionType /\ Silent(ws[s])
      /\ Whole(w) /\ Healthy(w, s) /\ w.io = io
  BY TickFacts DEF HeartbeatTick
<1>2. IF ws[s].waiting /\ n >= MaxMissed THEN Becomes(AsyncClose(World, s))
      ELSE \E r \in Send(w, s, Frame("PING", 0, 1)) : Becomes(r.w)
  BY DEF HeartbeatTick
<1>3. CASE ws[s].waiting /\ n >= MaxMissed
  <2> DEFINE v == AsyncClose(World, s)
  <2>1. Turns(World, v, s) /\ ~ v.io[s].open
    BY <1>1, AsyncCloseTurns DEF Healthy
  <2>2. Becomes(v)
    BY <1>2, <1>3
  <2> HIDE DEF v
  <2>3. SessionInv'
    BY <1>1, <2>1, <2>2, ClosedWhole, BecomesWhole DEF SessionInv, Healthy, Acts
  <2>4. ws[s].silent >= MaxMissed
    <3>1. ws[s].missed \in Nat /\ ws[s].silent \in Nat /\ MaxMissed \in Nat
      BY <1>1, SessionAssumption DEF SessionType
    <3>2. ws[s].missed < ws[s].silent /\ ws[s].missed + 1 >= MaxMissed
      BY <1>1, <1>3 DEF Silent, Missed
    <3> QED BY <3>1, <3>2
  <2> QED BY <2>3, <2>4
<1>4. CASE ~ (ws[s].waiting /\ n >= MaxMissed)
  <2>1. PICK r \in Send(w, s, Frame("PING", 0, 1)) : Becomes(r.w)
    BY <1>2, <1>4
  <2> HIDE DEF w
  <2>2. Healthy(r.w, s) /\ Stays(w, r.w, s)
    BY <1>1, SendControlFacts
  <2>3. SessionInv'
    BY <1>1, <2>1, <2>2, StaysWhole, BecomesWhole DEF Stays
  <2>4. io'[s].open = io[s].open
    <3>1. r.w.io[s].open = io[s].open /\ r.w.io[s] \in AsyncConn
      BY <1>1, <2>2, WorldFacts DEF Stays, Healthy, Acts, Good
    <3>2. io'[s] = [r.w.io[s] EXCEPT !.peerClosed = @ \/ ~ r.w.io[Peer(s)].open,
                                     !.inbox = IF r.w.io[s].open THEN @ ELSE 0]
      BY <2>1 DEF Becomes
    <3> QED BY <3>1, <3>2 DEF AsyncConn
  <2> QED BY <2>3, <2>4
<1> QED BY <1>3, <1>4

LEMMA AppSendsInv ==
    ASSUME SessionInv, NEW s \in Sides, AppSends(s)
    PROVE  SessionInv'
<1>1. Whole(World) /\ World.ws[s].phase = "open" /\ (s = "server" => World.ws[s].got # <<>>)
  BY WorldIs DEF SessionInv, AppSends, Held
<1>5. PICK n \in MsgLen : \E w \in SendMessage(World, s, n) : Becomes(w)
  BY DEF AppSends
<1>2. PICK w \in SendMessage(World, s, n) : Becomes(w)
  BY <1>5
<1>3. Healthy(World, s)
  BY <1>1, WholeHealthy
<1>4. Healthy(w, s) /\ Stays(World, w, s)
  BY <1>1, <1>2, <1>3, SendMessageFacts
<1> QED BY <1>1, <1>2, <1>4, StaysWhole, BecomesWhole DEF Stays

LEMMA AppClosesInv ==
    ASSUME SessionInv, NEW s \in Sides, AppCloses(s)
    PROVE  SessionInv'
<1> DEFINE x == ws[s]
           y == [x EXCEPT !.closes = 1]
           u == [World EXCEPT !.ws[s] = y]
<1>1. /\ Whole(World) /\ World.ws[s].phase = "open" /\ World.ws[s] = x
      /\ World \in WorldType /\ x \in SessionType
  BY WorldIs, WorldFacts DEF SessionInv, AppCloses, Held, Whole, Good
<1>2. PICK w \in SendClose([World EXCEPT !.ws[s].closes = 1], s) : Becomes(w)
  BY DEF AppCloses
<1>3. [World EXCEPT !.ws[s].closes = 1] = u
  BY <1>1 DEF WorldType
<1>4. Keeps(x, y) /\ y.mem = x.mem /\ y.phase = x.phase
  BY <1>1 DEF Keeps, SessionType, Silent
<1> HIDE DEF y
<1>5. Healthy(World, s)
  BY <1>1, WholeHealthy
<1>6. Turns(World, u, s) /\ u.io = World.io /\ u.ws[s].phase = "open"
  BY <1>1, <1>4, <1>5, SessionTurns DEF Healthy
<1> HIDE DEF u
<1>7. Healthy(u, s) /\ Hears(World, u, s) /\ Whole(u)
  BY <1>1, <1>5, <1>6, HealthyTurns, TurnsWhole DEF Healthy, Sound
<1>8. Healthy(w, s) /\ Hears(u, w, s)
  BY <1>2, <1>3, <1>6, <1>7, SendCloseFacts
<1> QED BY <1>2, <1>7, <1>8, StaysWhole, BecomesWhole

\* The server has taken the request: it has closed, or the session begins.
LEMMA AnsweredWhole ==
    ASSUME SessionInv, ws["server"].phase = "http", io["server"].async = "live",
           NEW v \in WorldType,
           v.wire["server"] = Tail(wire["server"]),
           \/ v.wire["client"] = wire["client"]
           \/ \E a \in {"101", "404", "malformed"} : v.wire["client"] = <<Frame(a, 0, 1)>>,
           v.ws["client"] = ws["client"],
           Same(io["client"], v.io["client"]), v.io["client"].state = io["client"].state,
           Tasks(v.io["server"]), Honest(v.io["server"]),
           v.io["server"].open => v.io["server"].async = "live" /\ v.ws["server"].mem = "live",
           v.io["server"].peerClosed = io["server"].peerClosed,
           v.ws["server"].sent = 0, v.ws["server"].got = <<>>, Silent(v.ws["server"]),
           v.ws["server"].phase = "open" \/ /\ v.ws["server"] = ws["server"]
                                            /\ ~ v.io["server"].open
                                            /\ v.io["server"].async # "live"
    PROVE  Whole(v)
<1> DEFINE F == wire["server"]
           G == wire["client"]
           W == v.wire["client"]
           n == ws["client"].sent
<1>1. /\ "client" \in Sides /\ "server" \in Sides /\ Sides = {"client", "server"}
      /\ Peer("client") = "server" /\ Peer("server") = "client"
  BY DEF Sides, Peer
<1>2. /\ Roles(World) /\ World \in WorldType /\ Unanswered(World)
      /\ \A e \in Sides : Lives(World, e) /\ Received(World, e) /\ Flow(World, e) /\ Sound(World, e)
  BY WorldIs DEF SessionInv, Whole, Good, Roles
<1>3. /\ F \in Seq(FrameType) /\ F # <<>> /\ ~ IsText(F[1]) /\ Len(F) \in Nat /\ Len(F) # 0
      /\ io["server"].open /\ n \in Nat
      /\ ws["client"].got \in Seq(Nat) /\ Len(ws["client"].got) \in Nat
      /\ ws["server"].sent \in Nat /\ G \in Seq(FrameType)
  BY <1>1, <1>2, WorldIs, WorldFacts, LenProperties, EmptySeq DEF Unanswered, SessionType
<1>4. ws["server"].sent = 0 /\ Len(ws["client"].got) = 0 /\ ws["server"].got = <<>>
  BY <1>1, <1>2, <1>3, WorldIs DEF Lives, Received, Unanswered
<1>5. /\ Tail(F) = SubSeq(F, 1 + 1, Len(F))
      /\ \A i \in DOMAIN Tail(F) : \E j \in DOMAIN F : Tail(F)[i] = F[j]
  <2>1. /\ Tail(F) \in Seq(FrameType) /\ Len(Tail(F)) = Len(F) - 1
        /\ \A i \in 1 .. Len(Tail(F)) : Tail(F)[i] = F[i + 1]
    BY <1>3, HeadTailProperties
  <2>6. Tail(F) = SubSeq(F, 2, Len(F))
    BY <1>3, TailIsSubSeq
  <2>7. DOMAIN Tail(F) = 1 .. Len(F) - 1 /\ DOMAIN F = 1 .. Len(F)
    BY <1>3, <2>1, LenProperties
  <2>8. ASSUME NEW i \in DOMAIN Tail(F) PROVE \E j \in DOMAIN F : Tail(F)[i] = F[j]
    <3>1. i \in 1 .. Len(Tail(F)) /\ i + 1 \in DOMAIN F
      BY <1>3, <2>1, <2>7
    <3>2. Tail(F)[i] = F[i + 1]
      BY <2>1, <3>1
    <3> QED BY <3>1, <3>2
  <2> QED BY <2>6, <2>8
<1>6. Flow(v, "server")
  <2>1. InOrder(0, n, F, 0)
    BY <1>1, <1>2, <1>3, <1>4, WorldIs, EmptySeq DEF Flow
  <2>2. 1 \in 1 .. Len(F) /\ 1 \in 0 .. Len(F) /\ 1 - 1 = 0
    BY <1>3
  <2>3. InOrder(0, n, F, 1)
    BY <1>3, <2>1, <2>2, InOrderSkip
  <2>4. InOrder(0, n, Tail(F), 0)
    BY <1>3, <1>5, <2>2, <2>3, InOrderRest
  <2> QED BY <1>1, <2>4, EmptySeq DEF Flow
<1>7. \/ W = G
      \/ Len(W) = 1 /\ DOMAIN W = {1} /\ ~ IsText(W[1]) /\ W[1].op # "CLOSE"
  <2> SUFFICES ASSUME NEW a \in {"101", "404", "malformed"}, W = <<Frame(a, 0, 1)>>
               PROVE  Len(W) = 1 /\ DOMAIN W = {1} /\ ~ IsText(W[1]) /\ W[1].op # "CLOSE"
    OBVIOUS
  <2>1. Frame(a, 0, 1).op = a /\ a # "TEXT" /\ a # "CLOSE"
    BY DEF Frame
  <2> DEFINE f == Frame(a, 0, 1)
  <2>2. W = <<f>>
    OBVIOUS
  <2> HIDE DEF f, W
  <2>3. Len(W) = 1 /\ DOMAIN W = {1} /\ W[1] = f
    BY <2>2
  <2> QED BY <2>1, <2>3 DEF IsText, f
<1>8. Flow(v, "client")
  <2>1. io["client"].open => InOrder(0, 0, G, 0)
    BY <1>1, <1>2, <1>4, WorldIs DEF Flow
  <2>2. io["client"].open => InOrder(0, 0, W, 0)
    BY <1>7, <2>1 DEF InOrder
  <2> QED BY <1>1, <1>4, <2>2 DEF Flow, Same
<1>9. Lives(v, "client") /\ Lives(v, "server") /\ Received(v, "client") /\ Received(v, "server")
  <2>1. Tasks(io["client"])
    BY <1>1, <1>2, WorldIs DEF Lives
  <2>2. Tasks(v.io["client"])
    BY <2>1 DEF Same, Tasks, Watches
  <2>3. v.io["client"].peerClosed => ~ v.io["server"].open
    BY <1>1, <1>2, <1>3, WorldIs DEF Lives, Same
  <2>4. v.io["server"].peerClosed => ~ v.io["client"].open
    BY <1>1, <1>2, WorldIs DEF Lives, Same
  <2>5. Lives(v, "client")
    BY <1>1, <1>2, <2>2, <2>3, WorldIs DEF Lives, Same
  <2>6. Lives(v, "server")
    BY <1>1, <2>4 DEF Lives
  <2>7. Received(v, "client")
    BY <1>1, <1>2, <1>4, WorldIs DEF Received
  <2>8. Received(v, "server")
    BY <1>1, <1>3, EmptySeq DEF Received
  <2> QED BY <2>5, <2>6, <2>7, <2>8
<1>10. Roles(v)
  BY <1>2, WorldIs DEF Roles, Unanswered, Tasks, Same
<1>11. Sound(v, "server") /\ Sound(v, "client")
  <2>1. io["client"].open => \A i \in DOMAIN G : G[i].op # "CLOSE"
    BY <1>1, <1>2, <1>3, WorldIs DEF Sound
  <2>2. io["client"].open => \A i \in DOMAIN F : F[i].op # "CLOSE"
    BY <1>1, <1>2, <1>3, WorldIs DEF Sound
  <2>3. Honest(v.io["client"])
    BY <1>1, <1>2, WorldIs DEF Sound, Honest, Same
  <2>4. Sound(v, "server")
    BY <1>1, <1>7, <2>1 DEF Sound, Same
  <2>5. Sound(v, "client")
    <3>1. io["client"].open => \A i \in DOMAIN Tail(F) : Tail(F)[i].op # "CLOSE"
      BY <1>5, <2>2
    <3> QED BY <1>1, <2>3, <3>1 DEF Sound, Same
  <2> QED BY <2>4, <2>5
<1> QED BY <1>1, <1>6, <1>8, <1>9, <1>10, <1>11 DEF Whole, Good

LEMMA ServerAnswersInv ==
    ASSUME SessionInv, ServerAnswers
    PROVE  SessionInv'
<1> DEFINE a == io["server"]
           c == io["client"]
           x == ws["server"]
           F == wire["server"]
<1>1. PICK answer \in Answers :
         LET read == [io |-> [io EXCEPT !["server"].inbox = @ - 1,
                                        !["client"].inbox = IF answer = "none" THEN @ ELSE 1],
                      ws |-> ws,
                      wire |-> [wire EXCEPT
                                  !["server"] = Tail(@),
                                  !["client"] = IF answer = "none" THEN @
                                                ELSE <<Frame(answer, 0, 1)>>]]
         IN IF answer # "101" THEN Becomes(AsyncDestroy(read, "server"))
            ELSE Becomes([read EXCEPT
                   !.io.server = CreateReadTask([@ EXCEPT !.hook = "websocket"]),
                   !.ws.server = [Session("open") EXCEPT !.heartbeat = MaxMissed > 0]])
  BY DEF ServerAnswers
<1>2. /\ "client" \in Sides /\ "server" \in Sides /\ Sides = {"client", "server"}
      /\ Peer("client") = "server" /\ Peer("server") = "client"
  BY DEF Sides, Peer
<1>3. /\ x.phase = "http" /\ a.async = "live" /\ a.inbox > 0
      /\ Whole(World) /\ Unanswered(World)
  BY WorldIs DEF ServerAnswers, Runs, SessionInv, Whole, Good, Roles
<1>4. /\ a \in AsyncConn /\ c \in AsyncConn /\ Tasks(a) /\ Tasks(c) /\ Honest(a)
      /\ x \in SessionType /\ Silent(x) /\ x.sent = 0 /\ x.got = <<>>
      /\ F \in Seq(FrameType) /\ F # <<>> /\ a.open /\ ~ a.disconnected
      /\ ~ a.readTask /\ ~ a.writeTask
      /\ io \in [Sides -> AsyncConn] /\ ws \in [Sides -> SessionType]
      /\ wire \in [Sides -> Seq(FrameType)]
  <2>1. World \in WorldType /\ Lives(World, "server") /\ Lives(World, "client")
        /\ Sound(World, "server")
    BY <1>2, <1>3 DEF Whole, Good
  <2>2. x \in SessionType /\ x.sent \in Nat
    BY <1>2, <2>1, WorldIs, WorldFacts DEF SessionType
  <2>3. x.sent = 0
    BY <1>3, <2>1, <2>2, WorldIs DEF Lives
  <2> QED BY <1>2, <1>3, <2>1, <2>2, <2>3, WorldIs, WorldFacts DEF Lives, Sound, Unanswered
<1> DEFINE d == [a EXCEPT !.inbox = @ - 1]
           e == [c EXCEPT !.inbox = IF answer = "none" THEN @ ELSE 1]
           W == IF answer = "none" THEN wire["client"] ELSE <<Frame(answer, 0, 1)>>
           read == [io |-> [io EXCEPT !["server"] = d, !["client"] = e], ws |-> ws,
                    wire |-> [wire EXCEPT !["server"] = Tail(F), !["client"] = W]]
<1>5. /\ d \in AsyncConn /\ Same(a, d) /\ d.state = a.state
      /\ e \in AsyncConn /\ Same(c, e) /\ e.state = c.state
  <2>1. a.inbox - 1 \in Nat /\ (IF answer = "none" THEN c.inbox ELSE 1) \in Nat
    BY <1>3, <1>4 DEF AsyncConn
  <2>2. d \in AsyncConn /\ Same(a, d) /\ d.state = a.state
    BY <1>4, <2>1 DEF AsyncConn, Same
  <2>3. e \in AsyncConn /\ Same(c, e) /\ e.state = c.state
    BY <1>4, <2>1 DEF AsyncConn, Same
  <2> QED BY <2>2, <2>3
<1>6. /\ W \in Seq(FrameType)
      /\ answer # "none" => W = <<Frame(answer, 0, 1)>> /\ answer \in {"101", "404", "malformed"}
      /\ answer = "none" => W = wire["client"]
      /\ Tail(F) \in Seq(FrameType)
  <2>1. answer \in {"101", "404", "malformed", "none"}
    BY SessionAssumption
  <2>2. answer # "none" => Frame(answer, 0, 1) \in FrameType
    BY <2>1 DEF Frame, FrameType
  <2>3. answer # "none" => <<Frame(answer, 0, 1)>> \in Seq(FrameType)
    BY <2>2
  <2> QED BY <1>2, <1>4, <2>1, <2>3, HeadTailProperties
<1>7. read = [io |-> [io EXCEPT !["server"].inbox = @ - 1,
                                !["client"].inbox = IF answer = "none" THEN @ ELSE 1],
              ws |-> ws,
              wire |-> [wire EXCEPT
                          !["server"] = Tail(@),
                          !["client"] = IF answer = "none" THEN @
                                        ELSE <<Frame(answer, 0, 1)>>]]
  <2>1. [io EXCEPT !["server"].inbox = @ - 1,
                   !["client"].inbox = IF answer = "none" THEN @ ELSE 1]
        = [io EXCEPT !["server"] = d, !["client"] = e]
    BY <1>2, <1>4
  <2>2. [wire EXCEPT !["server"] = Tail(@),
                     !["client"] = IF answer = "none" THEN @ ELSE <<Frame(answer, 0, 1)>>]
        = [wire EXCEPT !["server"] = Tail(F), !["client"] = W]
    BY <1>2, <1>4
  <2> QED BY <2>1, <2>2
<1> HIDE DEF d, e, W
<1>8. /\ read \in WorldType /\ read.io \in [Sides -> AsyncConn]
      /\ read.io["server"] = d /\ read.io["client"] = e
      /\ read.ws = ws /\ read.wire["server"] = Tail(F) /\ read.wire["client"] = W
  BY <1>2, <1>4, <1>5, <1>6 DEF WorldType
<1> HIDE DEF read
<1>9. Tasks(d) /\ Honest(d) /\ d.async = "live" /\ d.open /\ ~ d.disconnected
      /\ ~ d.readTask /\ ~ d.writeTask /\ d.peerClosed = a.peerClosed
  BY <1>3, <1>4, <1>5 DEF Same, Tasks, Watches, Honest
<1>10. \/ W = wire["client"]
       \/ \E op \in {"101", "404", "malformed"} : W = <<Frame(op, 0, 1)>>
  BY <1>6
<1>11. CASE answer # "101"
  <2> DEFINE g == Disconnected(ConnectionDestroy(d))
             b == [g EXCEPT !.async = "freed"]
             v == [read EXCEPT !.io["server"] = b]
  <2>1. /\ g \in AsyncConn /\ Tasks(g) /\ ~ g.readTask /\ ~ g.writeTask /\ ~ g.open
        /\ g.peerClosed = a.peerClosed
    BY <1>5, <1>9, DestroyedFacts, DisconnectedFacts DEF Tasks
  <2>2. AsyncDestroy(read, "server") = v
    BY <1>8, <1>9 DEF AsyncDestroy
  <2> HIDE DEF g
  <2>3. /\ b \in AsyncConn /\ b.watch = g.watch /\ ~ b.readTask /\ ~ b.writeTask /\ ~ b.open
        /\ b.async = "freed" /\ b.peerClosed = a.peerClosed
    BY <2>1 DEF AsyncConn, Memory
  <2> HIDE DEF b
  <2>4. Tasks(b) /\ Honest(b)
    BY <2>1, <2>3 DEF Tasks, Watches, Honest
  <2>5. /\ v \in WorldType /\ v.ws = ws /\ v.wire = read.wire
        /\ v.io["server"] = b /\ v.io["client"] = e
    BY <1>2, <1>8, <2>3, SetConn
  <2>6. Becomes(v)
    BY <1>1, <1>7, <1>11, <2>2
  <2> HIDE DEF v
  <2>7. Whole(v)
    BY <1>3, <1>4, <1>5, <1>8, <1>10, <2>3, <2>4, <2>5, AnsweredWhole
  <2> QED BY <2>6, <2>7, BecomesWhole
<1>12. CASE answer = "101"
  <2> DEFINE g == [d EXCEPT !.hook = "websocket"]
             b == CreateReadTask(g)
             y == [Session("open") EXCEPT !.heartbeat = MaxMissed > 0]
             u == [read EXCEPT !.io["server"] = b]
             v == [u EXCEPT !.ws["server"] = y]
  <2>1. /\ g \in AsyncConn /\ g.watch = d.watch /\ g.readTask = d.readTask
        /\ g.writeTask = d.writeTask /\ g.open = d.open /\ g.disconnected = d.disconnected
        /\ g.state = d.state /\ g.peerClosed = d.peerClosed /\ g.async = d.async
    BY <1>5 DEF AsyncConn
  <2>2. Becomes([read EXCEPT !.io.server = CreateReadTask([@ EXCEPT !.hook = "websocket"]),
                             !.ws.server = y])
    BY <1>1, <1>7, <1>12
  <2>3. [read EXCEPT !.io.server = CreateReadTask([@ EXCEPT !.hook = "websocket"]),
                     !.ws.server = y] = v
    BY <1>8 DEF WorldType
  <2> HIDE DEF g
  <2>4. Tasks(g) /\ g.open /\ ~ g.disconnected
    BY <1>9, <2>1 DEF Tasks, Watches
  <2>5. /\ b \in AsyncConn /\ Tasks(b) /\ b.open = g.open
        /\ b.async = g.async /\ b.state = g.state /\ b.peerClosed = g.peerClosed
    BY <2>1, <2>4, CreateReadTaskFacts
  <2> HIDE DEF b
  <2>6. Honest(b) /\ b.async = "live" /\ b.peerClosed = a.peerClosed
    BY <1>9, <2>1, <2>5 DEF Honest
  <2>7. /\ y \in SessionType /\ y.phase = "open" /\ y.mem = "live"
        /\ y.sent = 0 /\ y.got = <<>> /\ Silent(y)
    <3> DEFINE z == Session("open")
               h == MaxMissed > 0
               t == [z EXCEPT !.heartbeat = h]
    <3>1. /\ z \in SessionType /\ z.phase = "open" /\ z.mem = "live"
          /\ z.sent = 0 /\ z.got = <<>>
          /\ z.waiting = FALSE /\ z.missed = 0 /\ z.silent = 0
      BY DEF Session, SessionType, Memory
    <3>2. h \in BOOLEAN
      OBVIOUS
    <3>3. y = t
      OBVIOUS
    <3> HIDE DEF z, h, y
    <3>4. /\ t \in SessionType /\ t.phase = "open" /\ t.mem = "live"
          /\ t.sent = 0 /\ t.got = <<>>
          /\ t.waiting = FALSE /\ t.missed = 0 /\ t.silent = 0
      BY <3>1, <3>2 DEF SessionType
    <3> HIDE DEF t
    <3>5. Silent(t)
      BY <3>4 DEF Silent
    <3> QED BY <3>3, <3>4, <3>5
  <2> HIDE DEF y
  <2>8. /\ u \in WorldType /\ u.ws = ws /\ u.wire = read.wire
        /\ u.io["server"] = b /\ u.io["client"] = e
    BY <1>2, <1>8, <2>5, SetConn
  <2> HIDE DEF u
  <2>9. /\ v \in WorldType /\ v.io = u.io /\ v.wire = u.wire
        /\ v.ws["server"] = y /\ v.ws["client"] = ws["client"]
    BY <1>2, <2>7, <2>8, SetSession
  <2>10. Becomes(v)
    BY <2>2, <2>3
  <2> HIDE DEF v
  <2>11. Whole(v)
    BY <1>3, <1>4, <1>5, <1>8, <1>10, <2>5, <2>6, <2>7, <2>8, <2>9, AnsweredWhole
  <2> QED BY <2>10, <2>11, BecomesWhole
<1> QED BY <1>11, <1>12

LEMMA VanishesInv ==
    ASSUME SessionInv, UNCHANGED <<io, ws, wire>>
    PROVE  SessionInv'
<1>1. World' = World
  BY DEF World
<1> QED BY <1>1 DEF SessionInv, Whole, Good, Roles, Unanswered, Lives, Received, Flow, Sound

-----------------------------------------------------------------------------
(* Theorems *)

LEMMA SessionInit == Init => SessionInv
<1> SUFFICES ASSUME Init PROVE SessionInv
  OBVIOUS
<1> DEFINE a == Accepted(NoConnection)
           q == [a EXCEPT !.hook = "websocket", !.out = 1]
           c == CreateWriteTask(q)
           f == Frame("GET", 0, 1)
<1>1. /\ io = [client |-> c, server |-> a]
      /\ ws = [client |-> Session("request"), server |-> Session("http")]
      /\ wire = [client |-> <<>>, server |-> <<f>>]
  BY DEF Init
<1>2. /\ "client" \in Sides /\ "server" \in Sides /\ Sides = {"client", "server"}
      /\ Peer("client") = "server" /\ Peer("server") = "client"
  BY DEF Sides, Peer
<1>3. /\ a \in AsyncConn /\ Tasks(a) /\ a.open /\ a.async = "live" /\ ~ a.disconnected
      /\ ~ a.readTask /\ ~ a.writeTask /\ ~ a.peerClosed /\ a.state # "CLOSED"
  <2>1. a = [NoConnection EXCEPT !.async = "live", !.open = TRUE,
                                 !.state = IF Tls THEN "HANDSHAKE" ELSE "READING"]
    BY DEF Accepted
  <2>2. /\ NoConnection \in AsyncConn
        /\ NoConnection.watch["READ"] = "none" /\ NoConnection.watch["WRITE"] = "none"
        /\ ~ NoConnection.readTask /\ ~ NoConnection.writeTask
        /\ ~ NoConnection.disconnected /\ ~ NoConnection.peerClosed
    BY ConnectionAssumption DEF NoConnection, AsyncConn, Event, Memory
  <2>3. /\ a \in AsyncConn /\ a.open /\ a.async = "live"
        /\ a.state # "CLOSED" /\ a.watch = NoConnection.watch
        /\ a.readTask = NoConnection.readTask /\ a.writeTask = NoConnection.writeTask
        /\ a.disconnected = NoConnection.disconnected
        /\ a.peerClosed = NoConnection.peerClosed
    BY <2>1, <2>2 DEF AsyncConn, Memory
  <2> HIDE DEF a
  <2> QED BY <2>2, <2>3 DEF Tasks, Watches
<1> HIDE DEF a
<1>4. /\ q \in AsyncConn /\ q.watch = a.watch /\ q.open = a.open
      /\ q.disconnected = a.disconnected /\ q.async = a.async
      /\ q.readTask = a.readTask /\ q.writeTask = a.writeTask
      /\ q.peerClosed = a.peerClosed /\ q.state = a.state
  BY <1>3 DEF AsyncConn
<1> HIDE DEF q
<1>5. Tasks(q)
  BY <1>3, <1>4 DEF Tasks, Watches
<1>6. /\ c \in AsyncConn /\ Tasks(c) /\ ~ c.readTask /\ c.open /\ ~ c.disconnected
      /\ c.async = "live" /\ c.state # "CLOSED" /\ ~ c.peerClosed
  BY <1>3, <1>4, <1>5, CreateWriteTaskFacts
<1> HIDE DEF c
<1>7. f \in FrameType /\ ~ IsText(f) /\ f.op # "CLOSE"
  BY DEF Frame, FrameType, IsText
<1> HIDE DEF f
<1>8. /\ Session("request") \in SessionType /\ Session("request").mem = "live"
      /\ Session("request").phase = "request" /\ Session("request").sent = 0
      /\ Session("request").got = <<>> /\ Silent(Session("request"))
      /\ Session("http") \in SessionType
      /\ Session("http").phase = "http" /\ Session("http").sent = 0
      /\ ~ Session("http").heartbeat
      /\ Session("http").got = <<>> /\ Silent(Session("http"))
  BY DEF Session, SessionType, Memory, Silent
<1>9. /\ <<>> \in Seq(FrameType) /\ <<f>> \in Seq(FrameType) /\ <<f>> # <<>>
      /\ <<f>>[1] = f /\ Len(<<f>>) = 1 /\ DOMAIN <<f>> = {1}
      /\ Len(<<>>) = 0 /\ DOMAIN <<>> = {}
  BY <1>7, EmptySeq
<1>10. /\ io["client"] = c /\ io["server"] = a
       /\ ws["client"] = Session("request") /\ ws["server"] = Session("http")
       /\ wire["client"] = <<>> /\ wire["server"] = <<f>>
       /\ io \in [Sides -> AsyncConn] /\ ws \in [Sides -> SessionType]
       /\ wire \in [Sides -> Seq(FrameType)]
  <2>1. /\ io["client"] = c /\ io["server"] = a
        /\ ws["client"] = Session("request") /\ ws["server"] = Session("http")
        /\ wire["client"] = <<>> /\ wire["server"] = <<f>>
    BY <1>1
  <2>2. io \in [Sides -> AsyncConn]
    BY <1>1, <1>2, <1>3, <1>6
  <2>3. ws \in [Sides -> SessionType]
    BY <1>1, <1>2, <1>8
  <2>4. wire \in [Sides -> Seq(FrameType)]
    <3> DEFINE W == <<f>>
               N == <<>>
               S == Seq(FrameType)
    <3>1. W \in S /\ N \in S /\ wire = [client |-> N, server |-> W]
      BY <1>1, <1>9
    <3> HIDE DEF W, N, S
    <3>2. wire \in [Sides -> S]
      BY <1>2, <3>1
    <3> QED BY <3>2 DEF S
  <2> QED BY <2>1, <2>2, <2>3, <2>4
<1>11. World \in WorldType
  BY <1>10 DEF World, WorldType
<1>12. Lives(World, "client") /\ Lives(World, "server")
  BY <1>2, <1>3, <1>6, <1>8, <1>10, WorldIs DEF Lives
<1>13. Received(World, "client") /\ Received(World, "server")
  BY <1>2, <1>8, <1>9, <1>10, WorldIs DEF Received
<1>14. Roles(World)
  <2>1. wire["server"] # <<>> /\ ~ IsText(wire["server"][1])
    <3>1. wire["server"][1] = f
      BY <1>9, <1>10
    <3> QED BY <1>7, <1>9, <1>10, <3>1
  <2>2. ~ a.readTask /\ ~ a.writeTask /\ a.open /\ ~ a.disconnected
    BY <1>3
  <2>3. ws["server"].got = <<>> /\ ~ ws["server"].heartbeat
    BY <1>8, <1>10
  <2>4. Unanswered(World)
    BY <1>10, <2>1, <2>2, <2>3, WorldIs DEF Unanswered
  <2> QED BY <1>6, <1>8, <1>10, <2>4, WorldIs DEF Roles
<1>15. InOrder(0, 0, <<>>, 0) /\ InOrder(0, 0, <<f>>, 0)
  BY <1>7, <1>9 DEF InOrder
<1>16. Flow(World, "client") /\ Flow(World, "server")
  BY <1>2, <1>8, <1>9, <1>10, <1>15, WorldIs DEF Flow
<1>17. Sound(World, "client") /\ Sound(World, "server")
  BY <1>2, <1>3, <1>6, <1>7, <1>9, <1>10, WorldIs DEF Sound, Honest
<1> QED BY <1>2, <1>11, <1>12, <1>13, <1>14, <1>16, <1>17 DEF SessionInv, Whole, Good

LEMMA SessionNext ==
    ASSUME SessionInv, [Next]_vars
    PROVE  /\ SessionInv'
           /\ \A s \in Sides : HeartbeatTick(s) /\ io[s].open /\ ~ io'[s].open =>
                 ws[s].silent >= MaxMissed
<1>1. CASE UNCHANGED vars
  BY <1>1, VanishesInv, HeartbeatTickInv DEF vars
<1>2. CASE Next
  <2>1. ASSUME NEW s \in Sides, Vanishes(s) PROVE SessionInv'
    BY <2>1, VanishesInv DEF Vanishes
  <2> QED BY <1>2, <2>1, ReadTaskInv, WriteTaskInv, ServerAnswersInv, HeartbeatTickInv,
             AppSendsInv, AppClosesInv DEF Next
<1> QED BY <1>1, <1>2

\* The invariant: each side's descriptor, session and stream are consistent, and
\* the stream towards an open side continues what its handler has got.
THEOREM SessionInvariant == Spec => []SessionInv
<1>1. SessionInv /\ [Next]_vars => SessionInv'
  BY SessionNext
<1> QED BY SessionInit, <1>1, PTL DEF Spec

\* The handlers get the messages in the order in which they were sent, without a
\* gap and without a repetition, however reads and writes cut the stream
\* (_websocket_read_step, bb_websocket_read_frames).
THEOREM MessagesInOrderAlways == Spec => []MessagesInOrder
<1>1. SessionInv => MessagesInOrder
  BY WorldIs DEF SessionInv, Whole, Good, Received, MessagesInOrder
<1> QED BY SessionInvariant, <1>1, PTL

\* The heartbeat tears down only a session that took no frame during
\* max_missed_pongs intervals (_bb_websocket_heartbeat_tick).
THEOREM KillsOnlySilentAlways == Spec => KillsOnlySilent
<1>1. SessionInv /\ [Next]_vars =>
         [\A s \in Sides :
             HeartbeatTick(s) /\ io[s].open /\ ~ io'[s].open => ws[s].silent >= MaxMissed]_vars
  BY SessionNext
<1> QED BY SessionInvariant, <1>1, PTL DEF Spec, KillsOnlySilent

====
