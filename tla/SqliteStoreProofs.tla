-------------------------- MODULE SqliteStoreProofs --------------------------
(* Proofs about module SqliteStore, for any number of threads, connections  *)
(* and keys: connections are exclusive, and the handle is a table.          *)
EXTENDS SqliteStore, TLAPS

\* A pool in front of a private in-memory database has one connection.
OneDatabase == private => opened = 1

\* How far a call has come says what is known of it.
Progress ==
    \A t \in Threads :
        /\ op[t] = None <=> at[t] = "idle"
        /\ result[t] # None <=> at[t] \in {"release", "return"}

\* The inductive invariant.  A connection has one user, so sqlite3_changes
\* still speaks of the statement of that user; the pool of a private database
\* never grows, so that every connection sees the table which the caller means.
StoreInv == TypeOK /\ ExclusiveConnections /\ OneDatabase /\ Progress

USE DEF StoreInv

\* None is no connection, no call and no answer.
LEMMA NoneIsNone ==
    None \notin Conns /\ None \notin Values /\ None \notin Store!Ops /\ None \notin Store!Answers
BY StoreAssumption, NoneAssumption DEF Conns

LEMMA AnswersAreAnswers ==
    /\ Failed \in Store!Answers
    /\ Succeeded \in Store!Answers
    /\ \A table \in Store!Tables, keys \in SUBSET Keys :
          keys \subseteq Store!Present(table) => Store!Found(table, keys) \in Store!Answers
<1>1. Failed \in Store!Answers /\ Succeeded \in Store!Answers
    BY DEF Failed, Succeeded, Store!Answers
<1>2. ASSUME NEW table \in Store!Tables, NEW keys \in SUBSET Keys, keys \subseteq Store!Present(table)
      PROVE  Store!Found(table, keys) \in Store!Answers
    <2>1. {<<k, table[k]>> : k \in keys} \in SUBSET (Keys \X Values)
        BY <1>2 DEF Store!Tables, Store!Present
    <2> QED
        BY <2>1 DEF Store!Found, Store!Answers
<1> QED
    BY <1>1, <1>2

\* Every borrowed connection sees the table of the caller.
LEMMA SameTable ==
    ASSUME StoreInv, NEW t \in Threads, conn[t] # None
    PROVE  conn[t] \in Conns /\ Db(conn[t]) = 1 /\ Seen(t) = Table
<1>1. conn[t] \in Conns /\ inUse[conn[t]] /\ conn[t] <= opened
    BY DEF TypeOK, ExclusiveConnections
<1>2. private => conn[t] = 1
    BY <1>1 DEF OneDatabase, Conns
<1> QED
    BY <1>1, <1>2 DEF Db, Seen, Table

LEMMA InitStore == Init => StoreInv
<1> SUFFICES ASSUME Init PROVE StoreInv
    OBVIOUS
<1>1. 1 \in 1 .. MaxConns /\ 0 \in 0 .. MaxCalls
    BY StoreAssumption
<1>2. TypeOK
    BY <1>1, NoneIsNone DEF Init, TypeOK, Place, Store!Tables
<1>3. ExclusiveConnections
    BY NoneIsNone DEF Init, ExclusiveConnections
<1>4. OneDatabase /\ Progress
    BY DEF Init, OneDatabase, Progress
<1> QED
    BY <1>2, <1>3, <1>4

\* A step in which t does something to the database or settles its answer, and
\* keeps its connection.
LEMMA Proceeds ==
    ASSUME StoreInv, NEW t \in Threads, NEW place \in Place, NEW answer \in Store!Answers \cup {None},
           at[t] \in {"ensure", "statement", "changes"},
           place \in {"statement", "changes", "release"},
           answer = None <=> place # "release",
           GoTo(t, place),
           result' = [result EXCEPT ![t] = answer],
           changed' \in [Conns -> {0, 1}], tables' \in [Conns -> Store!Tables], created' \in SUBSET Conns,
           UNCHANGED <<poolVars, op, conn, calls>>
    PROVE  StoreInv'
<1> USE DEF poolVars
<1>1. at' = [at EXCEPT ![t] = place] /\ at \in [Threads -> Place] /\ result \in [Threads -> Store!Answers \cup {None}]
    BY DEF GoTo, TypeOK
<1>2. TypeOK'
    BY <1>1 DEF TypeOK
<1>3. ExclusiveConnections' /\ OneDatabase'
    BY DEF ExclusiveConnections, OneDatabase
<1>4. Progress'
    BY <1>1 DEF Progress
<1> QED
    BY <1>2, <1>3, <1>4

LEMMA FinishStore ==
    ASSUME StoreInv, NEW t \in Threads, NEW answer \in Store!Answers,
           at[t] \in {"ensure", "statement", "changes"},
           Finish(t, answer),
           changed' \in [Conns -> {0, 1}], tables' \in [Conns -> Store!Tables], created' \in SUBSET Conns,
           UNCHANGED <<poolVars, op, conn, calls>>
    PROVE  StoreInv'
<1>1. answer # None
    BY NoneIsNone
<1> QED
    BY <1>1, Proceeds DEF Finish, Place

LEMMA CallStore ==
    ASSUME StoreInv, NEW t \in Threads, NEW o \in Store!Ops, Call(t, o)
    PROVE  StoreInv'
<1> USE DEF poolVars, dbVars
<1>1. calls' \in [Threads -> 0 .. MaxCalls]
    BY StoreAssumption DEF Call, TypeOK
<1>2. at' = [at EXCEPT ![t] = "acquire"] /\ at[t] = "idle" /\ conn[t] = None /\ result[t] = None
    BY DEF Call, GoTo, TypeOK, Progress
<1>3. op' = [op EXCEPT ![t] = o] /\ o # None
    BY NoneIsNone DEF Call
<1>4. UNCHANGED <<poolVars, dbVars, conn, result>>
    BY DEF Call
<1>5. TypeOK'
    BY <1>1, <1>2, <1>3, <1>4 DEF TypeOK, Place
<1>6. ExclusiveConnections' /\ OneDatabase'
    BY <1>4 DEF ExclusiveConnections, OneDatabase
<1>7. Progress'
    BY <1>2, <1>3, <1>4 DEF Progress, TypeOK
<1> QED
    BY <1>5, <1>6, <1>7

\* A connection that nobody uses goes to t.
LEMMA BorrowStore ==
    ASSUME StoreInv, NEW t \in Threads, NEW c \in Conns, ~ inUse[c], at[t] = "acquire",
           inUse' = [inUse EXCEPT ![c] = TRUE], Borrowed(t, c),
           opened' \in opened .. MaxConns, c <= opened', private => opened' = 1,
           UNCHANGED <<private, isOpen, dbVars, op, result, calls>>
    PROVE  StoreInv'
<1> USE DEF dbVars
<1>1. PICK place \in {"statement", "ensure"} : at' = [at EXCEPT ![t] = place]
    BY DEF Borrowed, GoTo
<1>2. conn' = [conn EXCEPT ![t] = c] /\ conn[t] = None /\ result[t] = None /\ op[t] # None
    BY DEF Borrowed, TypeOK, Progress
<1>3. opened' \in 1 .. MaxConns /\ opened <= opened'
    BY StoreAssumption DEF TypeOK
<1>4. TypeOK'
    BY <1>1, <1>2, <1>3, NoneIsNone DEF TypeOK, Place
<1>5. \A u \in Threads : conn[u] # c
    BY DEF ExclusiveConnections
<1>6. \A u, v \in Threads : conn'[u] # None /\ conn'[u] = conn'[v] => u = v
    BY <1>2, <1>5 DEF ExclusiveConnections, TypeOK
<1>7. \A d \in Conns : inUse'[d] <=> \E u \in Threads : conn'[u] = d
    <2> SUFFICES ASSUME NEW d \in Conns
                 PROVE  inUse'[d] <=> \E u \in Threads : conn'[u] = d
        OBVIOUS
    <2>1. CASE d = c
        BY <1>2, <2>1 DEF TypeOK
    <2>2. CASE d # c
        <3>1. inUse'[d] = inUse[d]
            BY <2>2 DEF TypeOK
        <3>2. (\E u \in Threads : conn'[u] = d) <=> \E u \in Threads : conn[u] = d
            BY <1>2, <2>2, NoneIsNone DEF TypeOK
        <3> QED
            BY <3>1, <3>2 DEF ExclusiveConnections
    <2> QED
        BY <2>1, <2>2
<1>8. \A d \in Conns : inUse'[d] => d <= opened'
    <2> SUFFICES ASSUME NEW d \in Conns, inUse'[d] PROVE d <= opened'
        OBVIOUS
    <2>1. d = c \/ inUse[d]
        BY DEF TypeOK
    <2>2. inUse[d] => d <= opened
        BY DEF ExclusiveConnections
    <2>3. d \in Nat /\ opened \in Nat /\ opened' \in Nat
        BY <1>3, StoreAssumption DEF Conns, TypeOK
    <2> QED
        BY <1>3, <2>1, <2>2, <2>3
<1>9. OneDatabase' /\ Progress'
    BY <1>1, <1>2 DEF OneDatabase, Progress, TypeOK
<1> QED
    BY <1>4, <1>6, <1>7, <1>8, <1>9 DEF ExclusiveConnections

LEMMA AcquireIdleStore ==
    ASSUME StoreInv, NEW t \in Threads, AcquireIdle(t)
    PROVE  StoreInv'
<1> USE DEF AcquireIdle
<1>1. PICK c \in Idle : inUse' = [inUse EXCEPT ![c] = TRUE] /\ Borrowed(t, c)
    OBVIOUS
<1>2. c \in Conns /\ ~ inUse[c] /\ c <= opened
    BY <1>1, StoreAssumption DEF Idle, Conns, TypeOK
<1>3. opened' \in opened .. MaxConns /\ opened' = opened
    BY StoreAssumption DEF TypeOK
<1> QED
    BY <1>1, <1>2, <1>3, BorrowStore DEF OneDatabase

LEMMA AcquireNewStore ==
    ASSUME StoreInv, NEW t \in Threads, AcquireNew(t)
    PROVE  StoreInv'
<1> USE DEF AcquireNew
<1>0. opened \in Nat /\ MaxConns \in Nat /\ opened < MaxConns /\ (private => FALSE) /\ opened >= 1
    BY StoreAssumption DEF TypeOK, Capacity
<1>1. CASE /\ opened' = opened + 1
           /\ inUse' = [inUse EXCEPT ![opened + 1] = TRUE]
           /\ Borrowed(t, opened + 1)
           /\ UNCHANGED result
    <2> DEFINE c == opened + 1
    <2>1. c \in Conns /\ opened' \in opened .. MaxConns /\ c <= opened'
        BY <1>0, <1>1 DEF Conns
    <2>2. ~ inUse[c]
        BY <1>0, <2>1 DEF ExclusiveConnections
    <2> HIDE DEF c
    <2>3. inUse' = [inUse EXCEPT ![c] = TRUE] /\ Borrowed(t, c)
        BY <1>1 DEF c
    <2> QED
        BY <1>0, <1>1, <2>1, <2>2, <2>3, BorrowStore
<1>2. CASE /\ result' = [result EXCEPT ![t] = Failed]
           /\ GoTo(t, "return")
           /\ UNCHANGED <<opened, inUse, conn>>
    <2>1. Failed \in Store!Answers /\ Failed # None
        BY AnswersAreAnswers, NoneIsNone
    <2>2. at' = [at EXCEPT ![t] = "return"] /\ at[t] = "acquire" /\ op[t] # None /\ conn[t] = None
        BY <1>2 DEF GoTo, Progress, TypeOK
    <2>3. TypeOK'
        BY <1>2, <2>1, <2>2 DEF TypeOK, Place, dbVars
    <2>4. ExclusiveConnections' /\ OneDatabase'
        BY <1>2 DEF ExclusiveConnections, OneDatabase
    <2>5. Progress'
        BY <1>2, <2>1, <2>2 DEF Progress, TypeOK
    <2> QED
        BY <2>3, <2>4, <2>5
<1> QED
    BY <1>1, <1>2

LEMMA EnsureTableStore ==
    ASSUME StoreInv, NEW t \in Threads, EnsureTable(t)
    PROVE  StoreInv'
<1> USE DEF EnsureTable
<1>0. conn[t] # None /\ at[t] = "ensure" /\ result[t] = None
    BY DEF TypeOK, Progress
<1>1. /\ changed' \in [Conns -> {0, 1}] /\ tables' \in [Conns -> Store!Tables]
      /\ Db(conn[t]) = 1 /\ 1 \in Conns
    BY <1>0, SameTable, StoreAssumption DEF TypeOK, Conns
<1>2. CASE created' = created \cup {Db(conn[t])} /\ GoTo(t, "statement") /\ UNCHANGED result
    <2>1. created' \in SUBSET Conns /\ result' = [result EXCEPT ![t] = None]
        BY <1>0, <1>1, <1>2 DEF TypeOK
    <2> QED
        BY <1>0, <1>1, <1>2, <2>1, Proceeds DEF Place
<1>3. CASE Finish(t, Failed) /\ UNCHANGED created
    BY <1>0, <1>1, <1>3, AnswersAreAnswers, FinishStore DEF TypeOK
<1> QED
    BY <1>2, <1>3

LEMMA SetRowTables ==
    ASSUME StoreInv, NEW t \in Threads, NEW id \in Keys, NEW value \in Values \cup {None},
           conn[t] # None, SetRow(t, id, value)
    PROVE  tables' \in [Conns -> Store!Tables] /\ Table' = [Table EXCEPT ![id] = value]
<1>1. Db(conn[t]) = 1 /\ 1 \in Conns
    BY SameTable, StoreAssumption DEF Conns
<1> QED
    BY <1>1 DEF SetRow, TypeOK, Store!Tables, Table

\* The call of a thread that runs a statement of a kind
LEMMA RunsKind ==
    ASSUME StoreInv, NEW t \in Threads, NEW kinds, Runs(t, kinds)
    PROVE  /\ at[t] = "statement" /\ conn[t] # None /\ conn[t] \in Conns /\ result[t] = None
           /\ op[t] \in Store!Ops /\ op[t].kind \in kinds
           /\ Seen(t) = Table /\ Table \in Store!Tables
<1>1. at[t] = "statement" /\ op[t].kind \in kinds
    BY DEF Runs
<1>2. conn[t] # None /\ result[t] = None /\ op[t] \in Store!Ops
    BY <1>1 DEF TypeOK, Progress
<1>3. conn[t] \in Conns /\ Seen(t) = Table
    BY <1>2, SameTable
<1>4. Table \in Store!Tables
    BY StoreAssumption DEF Table, TypeOK, Conns
<1> QED
    BY <1>1, <1>2, <1>3, <1>4

LEMMA StatementFailsStore ==
    ASSUME StoreInv, NEW t \in Threads, StatementFails(t)
    PROVE  StoreInv'
BY AnswersAreAnswers, FinishStore DEF StatementFails, TypeOK, dbVars

LEMMA InsertStore ==
    ASSUME StoreInv, NEW t \in Threads, Insert(t)
    PROVE  StoreInv'
<1>1. /\ at[t] = "statement" /\ conn[t] # None /\ conn[t] \in Conns
      /\ op[t] \in Store!Ops /\ op[t].kind = "insert"
    BY RunsKind DEF Insert
<1>2. op[t].id \in Keys /\ op[t].value \in Values
    BY <1>1 DEF Store!Ops
<1>3. created' \in SUBSET Conns /\ UNCHANGED <<poolVars, op, conn, calls>>
    BY DEF Insert, TypeOK
<1>4. CASE Seen(t)[op[t].id] = None
    <2>1. tables' \in [Conns -> Store!Tables]
        BY <1>1, <1>2, <1>4, SetRowTables DEF Insert
    <2>2. changed' \in [Conns -> {0, 1}]
        BY <1>4 DEF Insert, TypeOK
    <2>3. Finish(t, Succeeded)
        BY <1>4 DEF Insert
    <2> QED
        BY <1>1, <1>3, <2>1, <2>2, <2>3, AnswersAreAnswers, FinishStore
<1>5. CASE Seen(t)[op[t].id] # None
    <2>1. tables' \in [Conns -> Store!Tables] /\ changed' \in [Conns -> {0, 1}] /\ Finish(t, Failed)
        BY <1>5 DEF Insert, TypeOK
    <2> QED
        BY <1>1, <1>3, <2>1, AnswersAreAnswers, FinishStore
<1> QED
    BY <1>4, <1>5

LEMMA ChangeRowStore ==
    ASSUME StoreInv, NEW t \in Threads, NEW kind \in {"update", "remove"},
           NEW value \in Values \cup {None}, ChangeRow(t, kind, value)
    PROVE  StoreInv'
<1>1. /\ at[t] = "statement" /\ conn[t] # None /\ conn[t] \in Conns /\ result[t] = None
      /\ op[t] \in Store!Ops /\ op[t].kind = kind
    BY RunsKind DEF ChangeRow
<1>2. op[t].id \in Keys
    BY <1>1 DEF Store!Ops
<1>3. tables' \in [Conns -> Store!Tables]
    BY <1>1, <1>2, SetRowTables DEF ChangeRow, TypeOK
<1>4. changed' \in [Conns -> {0, 1}]
    BY DEF ChangeRow, TypeOK
<1>5. created' \in SUBSET Conns /\ result' = [result EXCEPT ![t] = None] /\ GoTo(t, "changes")
    BY <1>1 DEF ChangeRow, TypeOK
<1> QED
    BY <1>1, <1>3, <1>4, <1>5, Proceeds DEF ChangeRow, Place

LEMMA ChangesStore ==
    ASSUME StoreInv, NEW t \in Threads, Changes(t)
    PROVE  StoreInv'
BY AnswersAreAnswers, FinishStore DEF Changes, Outcome, TypeOK, dbVars

\* What a read answers is an answer.
LEMMA WantedPresent ==
    ASSUME NEW table \in Store!Tables, NEW o \in Store!Ops,
           o.kind \in {"find_by_pk", "find_all", "find_first_by_field", "query"}
    PROVE  Store!Wanted(table, o) \subseteq Store!Present(table) /\ Store!Present(table) \subseteq Keys
<1>1. o.kind \in {"find_first_by_field", "query"} => o.value \in Values
    BY DEF Store!Ops
<1> QED
    BY <1>1, NoneIsNone DEF Store!Wanted, Store!Present

LEMMA ReadStore ==
    ASSUME StoreInv, NEW t \in Threads, FindOne(t) \/ FindMany(t)
    PROVE  StoreInv'
<1>1. /\ at[t] = "statement" /\ Seen(t) \in Store!Tables /\ op[t] \in Store!Ops
      /\ op[t].kind \in {"find_by_pk", "find_all", "find_first_by_field", "query"}
    BY RunsKind DEF FindOne, FindMany
<1>2. PICK answer : Finish(t, answer) /\
          (answer = Failed \/ \E keys \in SUBSET Store!Wanted(Seen(t), op[t]) :
                                  answer = Store!Found(Seen(t), keys))
    BY DEF FindOne, FindMany
<1>3. answer \in Store!Answers
    BY <1>1, <1>2, WantedPresent, AnswersAreAnswers
<1> QED
    BY <1>1, <1>2, <1>3, FinishStore DEF FindOne, FindMany, TypeOK, dbVars

\* The call of t returns and its connection, if it has one, goes back.
LEMMA ReleaseStore ==
    ASSUME StoreInv, NEW t \in Threads, Release(t)
    PROVE  StoreInv'
<1> USE DEF Release, Back, dbVars
<1>1. at' = [at EXCEPT ![t] = "idle"] /\ op' = [op EXCEPT ![t] = None] /\ result' = [result EXCEPT ![t] = None]
    BY DEF GoTo
<1>2. conn[t] # None /\ conn[t] \in Conns
    BY DEF TypeOK
<1>3. TypeOK'
    BY <1>1, <1>2 DEF TypeOK, Place
<1>4. \A u, v \in Threads : conn'[u] # None /\ conn'[u] = conn'[v] => u = v
    BY DEF ExclusiveConnections, TypeOK
<1>5. \A d \in Conns : inUse'[d] <=> \E u \in Threads : conn'[u] = d
    <2> SUFFICES ASSUME NEW d \in Conns
                 PROVE  inUse'[d] <=> \E u \in Threads : conn'[u] = d
        OBVIOUS
    <2>1. CASE d = conn[t]
        <3>1. ~ inUse'[d]
            BY <1>2, <2>1 DEF TypeOK
        <3>2. \A u \in Threads : conn'[u] # d
            BY <1>2, <2>1, NoneIsNone DEF ExclusiveConnections, TypeOK
        <3> QED
            BY <3>1, <3>2
    <2>2. CASE d # conn[t]
        <3>1. inUse'[d] = inUse[d]
            BY <1>2, <2>2 DEF TypeOK
        <3>2. (\E u \in Threads : conn'[u] = d) <=> \E u \in Threads : conn[u] = d
            BY <2>2, NoneIsNone DEF TypeOK
        <3> QED
            BY <3>1, <3>2 DEF ExclusiveConnections
    <2> QED
        BY <2>1, <2>2
<1>6. \A d \in Conns : inUse'[d] => d <= opened'
    BY <1>2 DEF ExclusiveConnections, TypeOK
<1>7. OneDatabase' /\ Progress'
    BY <1>1 DEF OneDatabase, Progress, TypeOK
<1> QED
    BY <1>3, <1>4, <1>5, <1>6, <1>7 DEF ExclusiveConnections

LEMMA ReturnFailureStore ==
    ASSUME StoreInv, NEW t \in Threads, ReturnFailure(t)
    PROVE  StoreInv'
<1> USE DEF ReturnFailure, Back, dbVars, poolVars
<1>1. at' = [at EXCEPT ![t] = "idle"] /\ op' = [op EXCEPT ![t] = None] /\ result' = [result EXCEPT ![t] = None]
    BY DEF GoTo
<1>2. conn[t] = None
    BY DEF TypeOK
<1>3. TypeOK'
    BY <1>1, <1>2 DEF TypeOK, Place
<1>4. ExclusiveConnections' /\ OneDatabase'
    BY DEF ExclusiveConnections, OneDatabase
<1>5. Progress'
    BY <1>1 DEF Progress, TypeOK
<1> QED
    BY <1>3, <1>4, <1>5

LEMMA NextStore == StoreInv /\ [Next]_vars => StoreInv'
<1> SUFFICES ASSUME StoreInv, [Next]_vars PROVE StoreInv'
    OBVIOUS
<1>1. ASSUME NEW t \in Threads, NEW o \in Store!Ops, Call(t, o) PROVE StoreInv'
    BY <1>1, CallStore
<1>2. ASSUME NEW t \in Threads, Work(t) PROVE StoreInv'
    <2>1. CASE AcquireIdle(t) BY <2>1, AcquireIdleStore
    <2>2. CASE AcquireNew(t) BY <2>2, AcquireNewStore
    <2>3. CASE EnsureTable(t) BY <2>3, EnsureTableStore
    <2>4. CASE StatementFails(t) BY <2>4, StatementFailsStore
    <2>5. CASE Insert(t) BY <2>5, InsertStore
    <2>6. CASE Update(t)
        <3>1. op[t].kind = "update" /\ op[t] \in Store!Ops
            BY <2>6, RunsKind DEF Update, ChangeRow
        <3>2. op[t].value \in Values
            BY <3>1 DEF Store!Ops
        <3> QED BY <2>6, <3>2, ChangeRowStore DEF Update
    <2>7. CASE Remove(t) BY <2>7, ChangeRowStore DEF Remove
    <2>8. CASE Changes(t) BY <2>8, ChangesStore
    <2>9. CASE FindOne(t) \/ FindMany(t) BY <2>9, ReadStore
    <2>10. CASE Release(t) BY <2>10, ReleaseStore
    <2>11. CASE ReturnFailure(t) BY <2>11, ReturnFailureStore
    <2> QED
        BY <1>2, <2>1, <2>2, <2>3, <2>4, <2>5, <2>6, <2>7, <2>8, <2>9, <2>10, <2>11 DEF Work
<1>3. CASE Close \/ UNCHANGED vars
    <2>1. UNCHANGED <<private, opened, inUse, dbVars, at, op, conn, result, calls>> /\ isOpen' \in BOOLEAN
        BY <1>3 DEF Close, vars, dbVars, TypeOK
    <2>2. TypeOK'
        BY <2>1 DEF TypeOK, dbVars
    <2>3. ExclusiveConnections' /\ OneDatabase' /\ Progress'
        BY <2>1 DEF ExclusiveConnections, OneDatabase, Progress
    <2> QED
        BY <2>2, <2>3
<1> QED
    BY <1>1, <1>2, <1>3 DEF Next, Closed

\* The pool never hands one connection to two threads at once, and no path of
\* any operation loses one (pool_acquire and pool_release of model_sqlite.c).
THEOREM ConnectionsExclusive == Spec => []ExclusiveConnections
<1>1. Spec => []StoreInv
    BY InitStore, NextStore, PTL DEF Spec
<1> QED
    BY <1>1, PTL

-----------------------------------------------------------------------------
(* The refinement: each step is a step of the abstract table or none. *)

\* An answer of t is settled, and that of no other thread changes, as long as
\* no other connection is touched.
LEMMA SettledOf ==
    ASSUME StoreInv, NEW t \in Threads,
           \A u \in Threads \ {t} :
               /\ at'[u] = at[u] /\ result'[u] = result[u] /\ conn'[u] = conn[u]
               /\ conn[u] # None => changed'[conn[u]] = changed[conn[u]]
    PROVE  Settled' = [Settled EXCEPT ![t] = Settled'[t]]
<1>1. \A u \in Threads \ {t} : Settled'[u] = Settled[u]
    BY DEF Settled, Outcome, TypeOK
<1> QED
    BY <1>1 DEF Settled

\* What the answer is that is settled, by the place
LEMMA SettledAt ==
    ASSUME StoreInv, NEW t \in Threads
    PROVE  /\ at[t] \notin {"changes", "release", "return"} => Settled[t] = None
           /\ at[t] \in {"changes", "release", "return"} => Settled[t] # None
           /\ at[t] # "changes" => Settled[t] = result[t]
<1>1. Failed # None /\ Succeeded # None
    BY AnswersAreAnswers, NoneIsNone
<1> QED
    BY <1>1 DEF Settled, Outcome, Progress

\* The moment of a call: its statement
LEMMA Performs ==
    ASSUME StoreInv, NEW t \in Threads, at[t] = "statement", UNCHANGED op,
           NEW e \in Store!Effects(Table, op[t]),
           Table' = e.rows, Settled' = [Settled EXCEPT ![t] = e.answer]
    PROVE  Store!Perform(t)
<1>1. op[t] # None /\ Settled[t] = None
    BY SettledAt DEF Progress
<1> QED
    BY <1>1 DEF Store!Perform

\* A step that settles that the call of t fails
LEMMA Fails ==
    ASSUME StoreInv, NEW t \in Threads, at[t] \in {"acquire", "ensure", "statement"},
           UNCHANGED <<op, tables>>, Settled' = [Settled EXCEPT ![t] = Failed]
    PROVE  Store!Fail(t)
<1>1. op[t] # None /\ Settled[t] = None
    BY SettledAt DEF Progress
<1> QED
    BY <1>1 DEF Store!Fail, Store!Failed, Failed, Table

\* What a step that finishes a call settles
LEMMA FinishSettles ==
    ASSUME StoreInv, NEW t \in Threads, NEW answer, Finish(t, answer), UNCHANGED conn,
           \A u \in Threads \ {t} : conn[u] # None => changed'[conn[u]] = changed[conn[u]]
    PROVE  Settled' = [Settled EXCEPT ![t] = answer]
<1>1. at' = [at EXCEPT ![t] = "release"] /\ result' = [result EXCEPT ![t] = answer]
    BY DEF Finish, GoTo
<1>2. Settled' = [Settled EXCEPT ![t] = Settled'[t]]
    BY <1>1, SettledOf DEF TypeOK
<1>3. Settled'[t] = answer
    BY <1>1 DEF Settled, TypeOK
<1> QED
    BY <1>2, <1>3

\* No other thread has the connection of t.
LEMMA Alone ==
    ASSUME StoreInv, NEW t \in Threads, NEW u \in Threads \ {t}, conn[u] # None
    PROVE  conn[u] # conn[t]
BY DEF ExclusiveConnections

LEMMA CallRefines ==
    ASSUME StoreInv, NEW t \in Threads, NEW o \in Store!Ops, Call(t, o)
    PROVE  Store!Invoke(t, o)
<1>1. at[t] = "idle" /\ at' = [at EXCEPT ![t] = "acquire"] /\ UNCHANGED <<changed, tables, conn, result>>
    BY DEF Call, GoTo, dbVars
<1>2. Settled' = Settled
    BY <1>1 DEF Settled, Outcome, TypeOK
<1>3. op[t] = None
    BY <1>1 DEF Progress
<1> QED
    BY <1>1, <1>2, <1>3 DEF Call, Store!Invoke, Table

\* Steps before the statement leave everything as it is, or fail.
LEMMA BeforeStatement ==
    ASSUME StoreInv, NEW t \in Threads,
           at[t] \in {"acquire", "ensure"},
           GoTo(t, "ensure") \/ GoTo(t, "statement"),
           UNCHANGED <<op, tables, changed, result>>,
           \A u \in Threads \ {t} : conn'[u] = conn[u]
    PROVE  UNCHANGED Store!vars
<1>1. PICK place \in {"ensure", "statement"} : at' = [at EXCEPT ![t] = place]
    BY DEF GoTo
<1>2. \A u \in Threads : Settled'[u] = Settled[u]
    BY <1>1 DEF Settled, Outcome, TypeOK
<1>3. Settled' = Settled
    BY <1>2 DEF Settled
<1> QED
    BY <1>3 DEF Store!vars, Table

LEMMA AcquireRefines ==
    ASSUME StoreInv, NEW t \in Threads, AcquireIdle(t) \/ AcquireNew(t)
    PROVE  Store!Fail(t) \/ UNCHANGED Store!vars
<1>1. at[t] = "acquire" /\ UNCHANGED <<op, changed, tables, created>>
    BY DEF AcquireIdle, AcquireNew, dbVars
<1>2. ASSUME NEW c, Borrowed(t, c), UNCHANGED result
      PROVE  UNCHANGED Store!vars
    <2>1. (GoTo(t, "ensure") \/ GoTo(t, "statement")) /\ conn' = [conn EXCEPT ![t] = c]
        BY <1>2 DEF Borrowed
    <2>2. \A u \in Threads \ {t} : conn'[u] = conn[u]
        BY <2>1 DEF TypeOK
    <2> QED
        BY <1>1, <1>2, <2>1, <2>2, BeforeStatement
<1>3. ASSUME result' = [result EXCEPT ![t] = Failed], GoTo(t, "return"), UNCHANGED conn
      PROVE  Store!Fail(t)
    <2>1. at' = [at EXCEPT ![t] = "return"]
        BY <1>3 DEF GoTo
    <2>2. Settled' = [Settled EXCEPT ![t] = Settled'[t]]
        BY <1>1, <1>3, <2>1, SettledOf DEF TypeOK
    <2>3. Settled'[t] = Failed
        BY <1>3, <2>1 DEF Settled, TypeOK
    <2> QED
        BY <1>1, <2>2, <2>3, Fails
<1> QED
    BY <1>2, <1>3 DEF AcquireIdle, AcquireNew

LEMMA FailureRefines ==
    ASSUME StoreInv, NEW t \in Threads, EnsureTable(t) \/ StatementFails(t)
    PROVE  Store!Fail(t) \/ UNCHANGED Store!vars
<1>1. at[t] \in {"ensure", "statement"} /\ UNCHANGED <<op, changed, tables, conn>>
    BY DEF EnsureTable, StatementFails, dbVars
<1>2. CASE at[t] = "ensure" /\ GoTo(t, "statement") /\ UNCHANGED result
    BY <1>1, <1>2, BeforeStatement
<1>3. CASE Finish(t, Failed)
    BY <1>1, <1>3, FinishSettles, Fails
<1> QED
    BY <1>2, <1>3 DEF EnsureTable, StatementFails

LEMMA InsertRefines ==
    ASSUME StoreInv, NEW t \in Threads, Insert(t)
    PROVE  Store!Perform(t)
<1>1. /\ at[t] = "statement" /\ conn[t] # None /\ conn[t] \in Conns
      /\ op[t] \in Store!Ops /\ op[t].kind = "insert"
      /\ Seen(t) = Table /\ UNCHANGED <<op, conn>>
    BY RunsKind DEF Insert
<1>2. op[t].id \in Keys /\ op[t].value \in Values
    BY <1>1 DEF Store!Ops
<1>3. \A u \in Threads \ {t} : conn[u] # None => changed'[conn[u]] = changed[conn[u]]
    BY <1>1, Alone DEF Insert, TypeOK
<1>4. CASE Seen(t)[op[t].id] = None
    <2> DEFINE e == [rows |-> [Table EXCEPT ![op[t].id] = op[t].value], answer |-> Succeeded]
    <2>1. e \in Store!Effects(Table, op[t])
        BY <1>1, <1>4 DEF Store!Effects, Store!Succeeded, Succeeded
    <2>2. Table' = e.rows
        BY <1>1, <1>2, <1>4, SetRowTables DEF Insert
    <2>3. Settled' = [Settled EXCEPT ![t] = e.answer]
        BY <1>1, <1>3, <1>4, FinishSettles DEF Insert
    <2> QED
        BY <1>1, <2>1, <2>2, <2>3, Performs
<1>5. CASE Seen(t)[op[t].id] # None
    <2> DEFINE e == [rows |-> Table, answer |-> Failed]
    <2>1. e \in Store!Effects(Table, op[t])
        BY <1>1, <1>5 DEF Store!Effects, Store!Failed, Failed
    <2>2. Table' = e.rows
        BY <1>5 DEF Insert, Table
    <2>3. Settled' = [Settled EXCEPT ![t] = e.answer]
        BY <1>1, <1>3, <1>5, FinishSettles DEF Insert
    <2> QED
        BY <1>1, <2>1, <2>2, <2>3, Performs
<1> QED
    BY <1>4, <1>5

LEMMA ChangeRowRefines ==
    ASSUME StoreInv, NEW t \in Threads, NEW kind, NEW value \in Values \cup {None},
           ChangeRow(t, kind, value),
           \/ kind = "update" /\ value = op[t].value
           \/ kind = "remove" /\ value = None
    PROVE  Store!Perform(t)
<1>1. /\ at[t] = "statement" /\ conn[t] # None /\ conn[t] \in Conns
      /\ op[t] \in Store!Ops /\ op[t].kind = kind
      /\ Seen(t) = Table /\ UNCHANGED <<op, conn, result>>
    BY RunsKind DEF ChangeRow
<1>2. op[t].id \in Keys
    BY <1>1 DEF Store!Ops
<1>3. at' = [at EXCEPT ![t] = "changes"]
    BY DEF ChangeRow, GoTo
<1>4. \A u \in Threads \ {t} : conn[u] # None => changed'[conn[u]] = changed[conn[u]]
    BY <1>1, Alone DEF ChangeRow, TypeOK
<1>5. Settled' = [Settled EXCEPT ![t] = Settled'[t]]
    BY <1>1, <1>3, <1>4, SettledOf DEF TypeOK
<1>6. Settled'[t] = IF changed'[conn[t]] > 0 THEN Succeeded ELSE Failed
    BY <1>1, <1>3 DEF Settled, Outcome, TypeOK
<1>7. CASE Seen(t)[op[t].id] = None
    <2> DEFINE e == [rows |-> Table, answer |-> Failed]
    <2>1. e \in Store!Effects(Table, op[t])
        BY <1>1, <1>7 DEF Store!Effects, Store!Failed, Failed
    <2>2. Table' = e.rows
        BY <1>7 DEF ChangeRow, Table
    <2>3. Settled'[t] = e.answer
        BY <1>1, <1>6, <1>7 DEF ChangeRow, TypeOK
    <2> QED
        BY <1>1, <1>5, <2>1, <2>2, <2>3, Performs
<1>8. CASE Seen(t)[op[t].id] # None
    <2> DEFINE e == [rows |-> [Table EXCEPT ![op[t].id] = value], answer |-> Succeeded]
    <2>1. e \in Store!Effects(Table, op[t])
        BY <1>1, <1>8 DEF Store!Effects, Store!Succeeded, Succeeded
    <2>2. Table' = e.rows
        BY <1>1, <1>2, <1>8, SetRowTables DEF ChangeRow
    <2>3. Settled'[t] = e.answer
        BY <1>1, <1>6, <1>8 DEF ChangeRow, TypeOK
    <2> QED
        BY <1>1, <1>5, <2>1, <2>2, <2>3, Performs
<1> QED
    BY <1>7, <1>8

\* sqlite3_changes speaks of the statement that t has run: nothing new.
LEMMA ChangesRefines ==
    ASSUME StoreInv, NEW t \in Threads, Changes(t)
    PROVE  UNCHANGED Store!vars
<1>1. at[t] = "changes" /\ Finish(t, Outcome(conn[t])) /\ UNCHANGED <<op, tables, changed, conn>>
    BY DEF Changes, dbVars
<1>2. Settled' = [Settled EXCEPT ![t] = Outcome(conn[t])]
    BY <1>1, FinishSettles
<1>3. Settled[t] = Outcome(conn[t])
    BY <1>1 DEF Settled
<1>4. Settled' = Settled
    BY <1>2, <1>3 DEF Settled
<1> QED
    BY <1>1, <1>4 DEF Store!vars, Table

LEMMA FindOneRefines ==
    ASSUME StoreInv, NEW t \in Threads, FindOne(t)
    PROVE  Store!Perform(t)
<1>1. /\ at[t] = "statement" /\ op[t].kind \in {"find_by_pk", "find_first_by_field"}
      /\ Seen(t) = Table /\ UNCHANGED <<op, conn, changed, tables>>
    BY RunsKind DEF FindOne, dbVars
<1>2. PICK answer : /\ Finish(t, answer)
                    /\ \/ \E k \in Store!Wanted(Table, op[t]) : answer = Store!Found(Table, {k})
                       \/ Store!Wanted(Table, op[t]) = {} /\ answer = Failed
    BY <1>1 DEF FindOne
<1> DEFINE e == [rows |-> Table, answer |-> answer]
<1>3. e \in Store!Effects(Table, op[t])
    <2>1. CASE Store!Wanted(Table, op[t]) = {}
        BY <1>1, <1>2, <2>1 DEF Store!Effects, Store!Failed, Failed
    <2>2. CASE Store!Wanted(Table, op[t]) # {}
        <3>1. Store!Effects(Table, op[t]) =
                  {[rows |-> Table, answer |-> Store!Found(Table, {k})] : k \in Store!Wanted(Table, op[t])}
            BY <1>1, <2>2 DEF Store!Effects
        <3> QED
            BY <1>2, <2>2, <3>1
    <2> QED
        BY <2>1, <2>2
<1>4. Table' = e.rows /\ Settled' = [Settled EXCEPT ![t] = e.answer]
    BY <1>1, <1>2, FinishSettles DEF Table
<1> QED
    BY <1>1, <1>3, <1>4, Performs

LEMMA FindManyRefines ==
    ASSUME StoreInv, NEW t \in Threads, FindMany(t)
    PROVE  Store!Perform(t)
<1>1. /\ at[t] = "statement" /\ op[t].kind \in {"find_all", "query"}
      /\ Seen(t) = Table /\ UNCHANGED <<op, conn, changed, tables>>
    BY RunsKind DEF FindMany, dbVars
<1>2. PICK keys \in SUBSET Store!Wanted(Table, op[t]) : Finish(t, Store!Found(Table, keys))
    BY <1>1 DEF FindMany
<1> DEFINE e == [rows |-> Table, answer |-> Store!Found(Table, keys)]
<1>3. Store!Effects(Table, op[t]) =
          {[rows |-> Table, answer |-> Store!Found(Table, ks)] : ks \in SUBSET Store!Wanted(Table, op[t])}
    BY <1>1 DEF Store!Effects
<1>4. e \in Store!Effects(Table, op[t])
    BY <1>3
<1>5. Table' = e.rows /\ Settled' = [Settled EXCEPT ![t] = e.answer]
    BY <1>1, <1>2, FinishSettles DEF Table
<1> QED
    BY <1>1, <1>4, <1>5, Performs

LEMMA ReturnRefines ==
    ASSUME StoreInv, NEW t \in Threads, Release(t) \/ ReturnFailure(t)
    PROVE  Store!Return(t)
<1>1. /\ at[t] \in {"release", "return"} /\ at' = [at EXCEPT ![t] = "idle"]
      /\ op' = [op EXCEPT ![t] = None] /\ result' = [result EXCEPT ![t] = None]
      /\ UNCHANGED <<tables, changed>> /\ (\A u \in Threads \ {t} : conn'[u] = conn[u])
    BY DEF Release, ReturnFailure, Back, GoTo, dbVars, TypeOK
<1>2. Settled' = [Settled EXCEPT ![t] = Settled'[t]]
    BY <1>1, SettledOf DEF TypeOK
<1>3. Settled'[t] = None
    BY <1>1 DEF Settled, TypeOK
<1>4. Settled[t] # None
    BY <1>1, SettledAt
<1> QED
    BY <1>1, <1>2, <1>3, <1>4 DEF Store!Return, Table

LEMMA NextRefines == StoreInv /\ [Next]_vars => [Store!Next]_(Store!vars)
<1> SUFFICES ASSUME StoreInv, [Next]_vars PROVE Store!Next \/ UNCHANGED Store!vars
    OBVIOUS
<1>1. ASSUME NEW t \in Threads, NEW o \in Store!Ops, Call(t, o)
      PROVE  Store!Next
    BY <1>1, CallRefines DEF Store!Next
<1>2. ASSUME NEW t \in Threads, Work(t)
      PROVE  Store!Next \/ UNCHANGED Store!vars
    <2>1. CASE AcquireIdle(t) \/ AcquireNew(t)
        BY <2>1, AcquireRefines DEF Store!Next
    <2>2. CASE EnsureTable(t) \/ StatementFails(t)
        BY <2>2, FailureRefines DEF Store!Next
    <2>3. CASE Insert(t)
        BY <2>3, InsertRefines DEF Store!Next
    <2>4. CASE Update(t)
        <3>1. op[t].kind = "update" /\ op[t] \in Store!Ops
            BY <2>4, RunsKind DEF Update, ChangeRow
        <3>2. op[t].value \in Values
            BY <3>1 DEF Store!Ops
        <3> QED
            BY <2>4, <3>2, ChangeRowRefines DEF Update, Store!Next
    <2>5. CASE Remove(t)
        BY <2>5, ChangeRowRefines DEF Remove, Store!Next
    <2>6. CASE Changes(t)
        BY <2>6, ChangesRefines
    <2>7. CASE FindOne(t)
        BY <2>7, FindOneRefines DEF Store!Next
    <2>8. CASE FindMany(t)
        BY <2>8, FindManyRefines DEF Store!Next
    <2>9. CASE Release(t) \/ ReturnFailure(t)
        BY <2>9, ReturnRefines DEF Store!Next
    <2> QED
        BY <1>2, <2>1, <2>2, <2>3, <2>4, <2>5, <2>6, <2>7, <2>8, <2>9 DEF Work
<1>3. CASE Close \/ UNCHANGED vars
    <2>1. UNCHANGED <<tables, changed, at, op, conn, result>>
        BY <1>3 DEF Close, vars, dbVars
    <2> QED
        BY <2>1 DEF Store!vars, Table, Settled, Outcome
<1> QED
    BY <1>1, <1>2, <1>3 DEF Next, Closed

LEMMA InitRefines == Init => Store!Init
<1> SUFFICES ASSUME Init PROVE Store!Init
    OBVIOUS
<1>1. Table = [k \in Keys |-> None]
    BY StoreAssumption DEF Init, Table, Conns
<1>2. Settled = [t \in Threads |-> None]
    BY DEF Init, Settled
<1> QED
    BY <1>1, <1>2 DEF Init, Store!Init

\* Threads that share a handle of the SQLite backend see one table with atomic
\* operations, whatever the interleaving of their statements.
THEOREM StoreImplements == Spec => ImplementsStore
<1>1. Spec => []StoreInv
    BY InitStore, NextStore, PTL DEF Spec
<1> QED
    BY <1>1, InitRefines, NextRefines, PTL DEF Spec, ImplementsStore, Store!Spec

====
