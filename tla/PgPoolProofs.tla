---------------------------- MODULE PgPoolProofs ----------------------------
(* Proofs about module PgPool, for any number of threads and connections. *)
EXTENDS PgPool, TLAPS

\* A thread that is about to look for its table has one to look for.
TableKnown == \A t \in Threads : at[t] \in {"ensure", "create"} => table[t] \in Tables

\* The inductive invariant.  CreationSerialised needs nothing of the slots;
\* the rest hangs together: a slot is marked exactly while one thread has it,
\* so the connection under a statement is changed by that thread alone.
PoolInv == TypeOK /\ ExclusiveSlots /\ UsesConnection /\ CreationSerialised /\ TableKnown

\* None is neither a slot nor a table.
LEMMA NoneIsNone == None \notin Slots /\ None \notin Tables /\ None \notin Threads
BY PoolAssumption DEF Slots

LEMMA InitPool == Init => PoolInv
<1> SUFFICES ASSUME Init PROVE PoolInv
    OBVIOUS
<1>1. calls \in [Threads -> 0 .. MaxCalls]
    BY PoolAssumption DEF Init
<1>2. TypeOK
    BY <1>1, NoneIsNone DEF Init, TypeOK, Place
<1>3. ExclusiveSlots
    BY NoneIsNone DEF Init, ExclusiveSlots
<1>4. UsesConnection /\ TableKnown
    BY DEF Init, UsesConnection, TableKnown
<1>5. CreationSerialised
    BY NoneIsNone DEF Init, CreationSerialised
<1> QED
    BY <1>2, <1>3, <1>4, <1>5 DEF PoolInv

\* A step in which t only goes to another place, between two at which it has
\* the same relation to the pool and to the table lock.
LEMMA OnlyMoves ==
    ASSUME PoolInv, NEW t \in Threads, NEW place \in Place, GoTo(t, place),
           UNCHANGED <<poolVars, calls, table, tableVars>>,
           slot[t] = None <=> place \in {"idle", "acquire", "wait"},
           place \in {"ensure", "create", "execute"} => conn[slot[t]] # "null",
           at[t] # "create", place # "create",
           place = "ensure" => table[t] \in Tables
    PROVE  PoolInv'
<1> USE DEF PoolInv, poolVars, tableVars
<1>1. at' = [at EXCEPT ![t] = place] /\ at \in [Threads -> Place]
    BY DEF GoTo, TypeOK
<1>2. TypeOK'
    BY <1>1 DEF TypeOK
<1>3. ExclusiveSlots' /\ UsesConnection' /\ TableKnown'
    BY <1>1 DEF ExclusiveSlots, UsesConnection, TableKnown
<1>4. CreationSerialised'
    BY <1>1 DEF CreationSerialised
<1> QED
    BY <1>2, <1>3, <1>4

LEMMA CallPool ==
    ASSUME PoolInv, NEW t \in Threads, NEW name \in Tables \cup {None}, Call(t, name)
    PROVE  PoolInv'
<1> USE DEF PoolInv, poolVars, tableVars
<1>1. calls' \in [Threads -> 0 .. MaxCalls]
    BY PoolAssumption DEF Call, TypeOK
<1>2. at' = [at EXCEPT ![t] = "acquire"] /\ at[t] = "idle" /\ slot[t] = None
    BY DEF Call, GoTo, TypeOK
<1>3. TypeOK'
    BY <1>1, <1>2 DEF Call, TypeOK, Place
<1>4. ExclusiveSlots' /\ UsesConnection' /\ TableKnown'
    BY <1>2 DEF Call, ExclusiveSlots, UsesConnection, TableKnown, TypeOK
<1>5. CreationSerialised'
    BY <1>2 DEF Call, CreationSerialised, TypeOK
<1> QED
    BY <1>3, <1>4, <1>5

LEMMA AcquirePool ==
    ASSUME PoolInv, NEW t \in Threads, Acquire(t)
    PROVE  PoolInv'
<1> USE DEF PoolInv, tableVars
<1>1. ASSUME NEW s \in Slots, ~ inUse[s],
             inUse' = [inUse EXCEPT ![s] = TRUE],
             slot' = [slot EXCEPT ![t] = s],
             GoTo(t, IF conn[s] = "null" THEN "connect" ELSE "check")
      PROVE  PoolInv'
    <2>0. UNCHANGED <<conn, table, calls, tableVars>> /\ at[t] = "acquire" /\ slot[t] = None
        BY DEF Acquire, TypeOK
    <2>1. PICK place \in {"connect", "check"} : at' = [at EXCEPT ![t] = place]
        BY <1>1 DEF GoTo
    <2>2. TypeOK'
        BY <1>1, <2>0, <2>1, NoneIsNone DEF TypeOK, Place
    <2>3. \A u \in Threads : slot[u] # s
        BY <1>1 DEF ExclusiveSlots
    <2>4. ExclusiveSlots'
        <3>1. \A u, v \in Threads : slot'[u] # None /\ slot'[u] = slot'[v] => u = v
            BY <1>1, <2>3 DEF ExclusiveSlots, TypeOK
        <3>2. \A r \in Slots : inUse'[r] <=> \E u \in Threads : slot'[u] = r
            <4> SUFFICES ASSUME NEW r \in Slots
                         PROVE  inUse'[r] <=> \E u \in Threads : slot'[u] = r
                OBVIOUS
            <4>1. CASE r = s
                BY <1>1, <4>1 DEF TypeOK
            <4>2. CASE r # s
                <5>1. inUse'[r] = inUse[r]
                    BY <1>1, <4>2 DEF TypeOK
                <5>2. (\E u \in Threads : slot'[u] = r) <=> \E u \in Threads : slot[u] = r
                    BY <1>1, <2>0, <4>2, NoneIsNone DEF TypeOK
                <5> QED BY <5>1, <5>2 DEF ExclusiveSlots
            <4> QED BY <4>1, <4>2
        <3> QED BY <3>1, <3>2 DEF ExclusiveSlots
    <2>5. UsesConnection' /\ TableKnown'
        BY <1>1, <2>0, <2>1 DEF UsesConnection, TableKnown, TypeOK
    <2>6. CreationSerialised'
        BY <2>0, <2>1 DEF CreationSerialised, TypeOK
    <2> QED
        BY <2>2, <2>4, <2>5, <2>6
<1>2. CASE GoTo(t, "wait") /\ UNCHANGED <<inUse, slot>>
    <2>1. at[t] = "acquire" /\ slot[t] = None
        BY DEF Acquire, TypeOK
    <2> QED
        BY <1>2, <2>1, OnlyMoves DEF Acquire, poolVars, Place
<1> QED
    BY <1>1, <1>2 DEF Acquire, Candidates, Idle

\* The connection of a borrowed slot becomes usable.
LEMMA Connected ==
    ASSUME PoolInv, NEW t \in Threads, at[t] \in {"connect", "check"},
           conn' = [conn EXCEPT ![slot[t]] = "ok"], Borrowed(t),
           UNCHANGED <<inUse, slot, table, calls, tableVars>>
    PROVE  PoolInv'
<1> USE DEF PoolInv, tableVars
<1>1. slot[t] \in Slots
    BY DEF TypeOK
<1>2. PICK place \in {"ensure", "execute"} :
          at' = [at EXCEPT ![t] = place] /\ (place = "ensure" => table[t] # None)
    BY DEF Borrowed, GoTo
<1>3. TypeOK'
    BY <1>1, <1>2, NoneIsNone DEF TypeOK, Place
<1>4. ExclusiveSlots'
    BY DEF ExclusiveSlots
<1>5. UsesConnection'
    BY <1>1, <1>2 DEF UsesConnection, TypeOK
<1>6. TableKnown'
    BY <1>2 DEF TableKnown, TypeOK
<1>7. CreationSerialised'
    BY <1>2 DEF CreationSerialised, TypeOK
<1> QED
    BY <1>3, <1>4, <1>5, <1>6, <1>7

LEMMA ConnectPool ==
    ASSUME PoolInv, NEW t \in Threads, Connect(t) \/ Check(t)
    PROVE  PoolInv'
<1> USE DEF PoolInv, poolVars
<1>0. /\ at[t] \in {"connect", "check"} /\ slot[t] # None /\ slot[t] \in Slots
      /\ UNCHANGED <<inUse, slot, table, calls, tableVars>>
    BY DEF Connect, Check, TypeOK
<1>1. CASE conn' = [conn EXCEPT ![slot[t]] = "ok"] /\ Borrowed(t)
    BY <1>0, <1>1, Connected
<1>2. CASE UNCHANGED conn /\ GoTo(t, "release")
    BY <1>0, <1>2, OnlyMoves DEF Place
<1>3. CASE conn[slot[t]] = "ok" /\ Borrowed(t) /\ UNCHANGED conn
    <2>1. PICK place \in {"ensure", "execute"} :
              GoTo(t, place) /\ (place = "ensure" => table[t] \in Tables)
        BY <1>3 DEF Borrowed, TypeOK
    <2> QED
        BY <1>0, <1>3, <2>1, OnlyMoves DEF Place
<1> QED
    BY <1>1, <1>2, <1>3 DEF Connect, Check

LEMMA TablesPool ==
    ASSUME PoolInv, NEW t \in Threads, EnsureTable(t) \/ CreateTable(t) \/ Execute(t)
    PROVE  PoolInv'
<1> USE DEF PoolInv, poolVars, tableVars
<1>0. at[t] \in {"ensure", "create", "execute"} /\ slot[t] # None /\ slot[t] \in Slots
      /\ UNCHANGED <<poolVars, table, calls>> /\ conn[slot[t]] # "null"
    BY DEF EnsureTable, CreateTable, Execute, TypeOK, UsesConnection
<1>1. CASE EnsureTable(t)
    <2>1. CASE GoTo(t, "execute") /\ UNCHANGED tablesLock
        BY <1>0, <1>1, <2>1, OnlyMoves DEF EnsureTable, Place
    <2>2. CASE GoTo(t, "create") /\ tablesLock' = t
        <3>1. at' = [at EXCEPT ![t] = "create"] /\ table[t] \in Tables /\ tablesLock = None
            BY <1>1, <2>2 DEF EnsureTable, GoTo, TableKnown
        <3>2. TypeOK'
            BY <1>0, <1>1, <2>2, <3>1 DEF EnsureTable, TypeOK, Place
        <3>3. ExclusiveSlots' /\ UsesConnection' /\ TableKnown'
            BY <1>0, <3>1 DEF ExclusiveSlots, UsesConnection, TableKnown, TypeOK
        <3>4. CreationSerialised'
            BY <1>1, <2>2, <3>1, NoneIsNone DEF EnsureTable, CreationSerialised, TypeOK
        <3> QED BY <3>2, <3>3, <3>4
    <2> QED
        BY <1>1, <2>1, <2>2 DEF EnsureTable
<1>2. CASE CreateTable(t)
    <2>1. PICK place \in {"execute", "release"} : at' = [at EXCEPT ![t] = place]
        BY <1>2 DEF CreateTable, GoTo
    <2>2. table[t] \in Tables /\ tablesLock = t /\ tablesLock' = None
        BY <1>2 DEF CreateTable, TableKnown, CreationSerialised
    <2>3. /\ created' \in SUBSET Tables /\ remembered' \in SUBSET Tables
          /\ remembered' \subseteq created'
        BY <1>2, <2>2 DEF CreateTable, TypeOK, CreationSerialised
    <2>4. TypeOK'
        BY <1>0, <2>1, <2>2, <2>3 DEF TypeOK, Place
    <2>5. ExclusiveSlots' /\ UsesConnection' /\ TableKnown'
        BY <1>0, <2>1 DEF ExclusiveSlots, UsesConnection, TableKnown, TypeOK
    <2>6. \A u \in Threads : at'[u] = "create" <=> tablesLock' = u
        <3> SUFFICES ASSUME NEW u \in Threads PROVE at'[u] # "create" /\ tablesLock' # u
            OBVIOUS
        <3>1. u # t => at[u] # "create"
            BY <2>2 DEF CreationSerialised
        <3> QED
            BY <2>1, <2>2, <3>1, NoneIsNone DEF TypeOK
    <2> QED
        BY <2>3, <2>4, <2>5, <2>6 DEF CreationSerialised
<1>3. CASE Execute(t)
    BY <1>0, <1>3, OnlyMoves DEF Execute, Place
<1> QED
    BY <1>1, <1>2, <1>3

LEMMA ReleasePool ==
    ASSUME PoolInv, NEW t \in Threads, Release(t)
    PROVE  PoolInv'
<1> USE DEF PoolInv, tableVars
<1>0. /\ at[t] = "release" /\ slot[t] # None /\ slot[t] \in Slots
      /\ inUse' = [inUse EXCEPT ![slot[t]] = FALSE] /\ slot' = [slot EXCEPT ![t] = None]
      /\ table' = [table EXCEPT ![t] = None] /\ UNCHANGED <<conn, calls, tableVars>>
    BY DEF Release, TypeOK
<1>1. PICK woken \in Threads :
          at' = [at EXCEPT ![t] = "idle"] \/
          (at[woken] = "wait" /\ at' = [at EXCEPT ![t] = "idle", ![woken] = "acquire"])
    BY DEF Release, GoTo, Waiting
<1>2. \A u \in Threads : /\ u # t => at'[u] = at[u] \/ (at[u] = "wait" /\ at'[u] = "acquire")
                         /\ at'[t] = "idle"
                         /\ at'[u] \in Place
    BY <1>0, <1>1 DEF TypeOK, Place
<1>3. at' \in [Threads -> Place]
    BY <1>1, <1>2 DEF TypeOK
<1>4. \A u \in Threads : slot'[u] = None <=> at'[u] \in {"idle", "acquire", "wait"}
    BY <1>0, <1>2 DEF TypeOK
<1>5. TypeOK'
    BY <1>0, <1>3, <1>4 DEF TypeOK
<1>6. ExclusiveSlots'
    <2>1. \A u, v \in Threads : slot'[u] # None /\ slot'[u] = slot'[v] => u = v
        BY <1>0 DEF ExclusiveSlots, TypeOK
    <2>2. \A r \in Slots : inUse'[r] <=> \E u \in Threads : slot'[u] = r
        <3> SUFFICES ASSUME NEW r \in Slots
                     PROVE  inUse'[r] <=> \E u \in Threads : slot'[u] = r
            OBVIOUS
        <3>1. CASE r = slot[t]
            <4>1. ~ inUse'[r]
                BY <1>0, <3>1 DEF TypeOK
            <4>2. \A u \in Threads : slot'[u] # r
                BY <1>0, <3>1 DEF ExclusiveSlots, TypeOK
            <4> QED BY <4>1, <4>2
        <3>2. CASE r # slot[t]
            <4>1. inUse'[r] = inUse[r]
                BY <1>0, <3>2 DEF TypeOK
            <4>2. (\E u \in Threads : slot'[u] = r) <=> \E u \in Threads : slot[u] = r
                BY <1>0, <3>2, NoneIsNone DEF TypeOK
            <4> QED BY <4>1, <4>2 DEF ExclusiveSlots
        <3> QED BY <3>1, <3>2
    <2> QED BY <2>1, <2>2 DEF ExclusiveSlots
<1>7. UsesConnection' /\ TableKnown'
    BY <1>0, <1>2 DEF UsesConnection, TableKnown, TypeOK
<1>8. CreationSerialised'
    BY <1>0, <1>2 DEF CreationSerialised
<1> QED
    BY <1>5, <1>6, <1>7, <1>8

\* The server's doing leaves the ownership of the slots alone.
LEMMA ServerPool ==
    ASSUME PoolInv, NEW s \in Slots, ServerDrops(s)
    PROVE  PoolInv'
<1> USE DEF PoolInv, tableVars
<1>1. TypeOK'
    BY DEF ServerDrops, TypeOK
<1>2. UsesConnection'
    BY DEF ServerDrops, UsesConnection, TypeOK
<1> QED
    BY <1>1, <1>2 DEF ServerDrops, ExclusiveSlots, CreationSerialised, TableKnown

LEMMA NextPool == PoolInv /\ [Next]_vars => PoolInv'
<1> SUFFICES ASSUME PoolInv, [Next]_vars PROVE PoolInv'
    OBVIOUS
<1>1. CASE UNCHANGED vars
    BY <1>1 DEF vars, PoolInv, TypeOK, ExclusiveSlots, UsesConnection, CreationSerialised,
                TableKnown
<1>2. ASSUME NEW t \in Threads, SpuriousWakeup(t) PROVE PoolInv'
    <2>1. at[t] = "wait" /\ slot[t] = None
        BY <1>2 DEF SpuriousWakeup, PoolInv, TypeOK
    <2> QED
        BY <1>2, <2>1, OnlyMoves DEF SpuriousWakeup, Place
<1>3. ASSUME NEW t \in Threads, Work(t) PROVE PoolInv'
    BY <1>3, AcquirePool, ConnectPool, TablesPool, ReleasePool DEF Work
<1> QED
    BY <1>1, <1>2, <1>3, CallPool, ServerPool DEF Next, Done

\* Whatever the number of threads and of connections, and whatever the server
\* does, no connection is borrowed by two threads and no slot is lost to the
\* pool (pool_acquire, pool_release).
THEOREM ExclusiveSlotsAlways == Spec => []ExclusiveSlots
<1>1. Init => PoolInv
    BY InitPool
<1>2. PoolInv /\ [Next]_vars => PoolInv'
    BY NextPool
<1>3. PoolInv => ExclusiveSlots
    BY DEF PoolInv
<1> QED
    BY <1>1, <1>2, <1>3, PTL DEF Spec

\* Statements run on connections that exist, and tables are created one at a
\* time and remembered only when they exist (ensure_table).
THEOREM PoolSafe == Spec => [](UsesConnection /\ CreationSerialised)
<1>1. Init => PoolInv
    BY InitPool
<1>2. PoolInv /\ [Next]_vars => PoolInv'
    BY NextPool
<1>3. PoolInv => UsesConnection /\ CreationSerialised
    BY DEF PoolInv
<1> QED
    BY <1>1, <1>2, <1>3, PTL DEF Spec

====
