----------------------------- MODULE SqliteStore -----------------------------
(***************************************************************************)
(* The SQLite backend of models (model_sqlite.c): threads share a handle,   *)
(* each call borrows a connection from the handle's pool, makes sure that   *)
(* the table exists, runs one statement and gives the connection back.      *)
(*                                                                          *)
(* Sections under h->lock are one step; a statement is one step of the      *)
(* database (SQLite isolates statements of different connections), but what *)
(* sqlite3_changes says of it is read from the connection afterwards.       *)
(***************************************************************************)
EXTENDS Naturals

CONSTANTS
    Threads,     \* threads that share the handle
    Keys,        \* primary keys
    Values,      \* values of the one other field
    MaxConns,    \* BB_SQLITE_POOL_MAX_CONNS
    MaxCalls,    \* bound: calls that each thread makes
    None         \* no row, no call, no connection

ASSUME StoreAssumption ==
    /\ MaxConns \in Nat \ {0}
    /\ MaxCalls \in Nat
    /\ None \notin Nat

Conns == 1 .. MaxConns
Place == {"idle", "acquire", "ensure", "statement", "changes", "release", "return"}

VARIABLES
    private,  \* h->is_private_memory
    isOpen,   \* the handle has been opened and not closed
    opened,   \* h->opened
    inUse,    \* [Conns -> BOOLEAN]: conns[i].in_use
    changed,  \* [Conns -> Nat]: sqlite3_changes of each connection
    tables,   \* [Conns -> Tables]: the table in each database
    created,  \* the databases in which the table has been created
    at,       \* [Threads -> Place]: what each thread is about to do
    op,       \* [Threads -> Ops \cup {None}]: its call
    conn,     \* [Threads -> Conns \cup {None}]: the connection it has borrowed
    result,   \* [Threads -> Answers \cup {None}]: what its call will return
    calls     \* [Threads -> Nat]: the calls that it has made

vars == <<private, isOpen, opened, inUse, changed, tables, created, at, op, conn,
          result, calls>>
poolVars == <<private, isOpen, opened, inUse>>
dbVars == <<changed, tables, created>>

\* The database that a connection sees: each connection to a private in-memory
\* URI has one of its own, connections to a file share it.
Db(c) == IF private THEN c ELSE 1

\* The table that a caller of the handle means
Table == tables[1]

Failed == [rc |-> 1, rows |-> {}]
Succeeded == [rc |-> 0, rows |-> {}]

\* What sqlite3_changes says of the statement that a connection has run
Outcome(c) == IF changed[c] > 0 THEN Succeeded ELSE Failed

\* The answers that are settled: that of an update or a removal from the moment
\* of its statement.
Settled == [t \in Threads |-> IF at[t] = "changes" THEN Outcome(conn[t]) ELSE result[t]]

Store == INSTANCE EntityStore WITH rows <- Table, answer <- Settled

ASSUME NoneAssumption ==
    /\ None \notin Values
    /\ None \notin Store!Ops
    /\ None \notin Store!Answers

\* uri_is_private_memory decides on the capacity of the pool.
Capacity == IF private THEN 1 ELSE MaxConns

\* sqlite_open: the first connection is opened at once.
Init ==
    /\ private \in BOOLEAN
    /\ isOpen = TRUE
    /\ opened = 1
    /\ inUse = [c \in Conns |-> FALSE]
    /\ changed = [c \in Conns |-> 0]
    /\ tables = [c \in Conns |-> [k \in Keys |-> None]]
    /\ created = {}
    /\ at = [t \in Threads |-> "idle"]
    /\ op = [t \in Threads |-> None]
    /\ conn = [t \in Threads |-> None]
    /\ result = [t \in Threads |-> None]
    /\ calls = [t \in Threads |-> 0]

GoTo(t, place) == at' = [at EXCEPT ![t] = place]

\* The result of the call is settled; the connection goes back.
Finish(t, answer) ==
    /\ result' = [result EXCEPT ![t] = answer]
    /\ GoTo(t, "release")

Call(t, o) ==
    /\ isOpen
    /\ at[t] = "idle"
    /\ calls[t] < MaxCalls
    /\ calls' = [calls EXCEPT ![t] = @ + 1]
    /\ op' = [op EXCEPT ![t] = o]
    /\ GoTo(t, "acquire")
    /\ UNCHANGED <<poolVars, dbVars, conn, result>>

\* find_first_by_field does not create the table.
Borrowed(t, c) ==
    /\ conn' = [conn EXCEPT ![t] = c]
    /\ GoTo(t, IF op[t].kind = "find_first_by_field" THEN "statement" ELSE "ensure")

Idle == {c \in 1 .. opened : ~ inUse[c]}

\* pool_acquire: an open connection that nobody uses ...
AcquireIdle(t) ==
    /\ at[t] = "acquire"
    /\ \E c \in Idle :
          /\ \A other \in Idle : c <= other
          /\ inUse' = [inUse EXCEPT ![c] = TRUE]
          /\ Borrowed(t, c)
    /\ UNCHANGED <<private, isOpen, opened, dbVars, op, result, calls>>

\* ... else a new one, which may fail to open; at capacity the thread spins.
AcquireNew(t) ==
    /\ at[t] = "acquire"
    /\ Idle = {}
    /\ opened < Capacity
    /\ \/ /\ opened' = opened + 1
          /\ inUse' = [inUse EXCEPT ![opened + 1] = TRUE]
          /\ Borrowed(t, opened + 1)
          /\ UNCHANGED result
       \/ /\ result' = [result EXCEPT ![t] = Failed]
          /\ GoTo(t, "return")
          /\ UNCHANGED <<opened, inUse, conn>>
    /\ UNCHANGED <<private, isOpen, dbVars, op, calls>>

\* Mutant of EnsureTable: the error path returns without pool_release.
EnsureTableLeaks(t) ==
    /\ at[t] = "ensure"
    /\ result' = [result EXCEPT ![t] = Failed]
    /\ GoTo(t, "return")
    /\ conn' = [conn EXCEPT ![t] = None]
    /\ UNCHANGED <<poolVars, dbVars, op, calls>>

\* ensure_table: CREATE TABLE IF NOT EXISTS, on every call
EnsureTable(t) ==
    /\ at[t] = "ensure"
    /\ \/ created' = created \cup {Db(conn[t])} /\ GoTo(t, "statement") /\ UNCHANGED result
       \/ Finish(t, Failed) /\ UNCHANGED created
    /\ UNCHANGED <<poolVars, changed, tables, op, conn, calls>>

\* A statement is run on a table that exists and may fail all the same (memory,
\* a lock that is not given in time, the disk).
Runs(t, kinds) ==
    /\ at[t] = "statement"
    /\ op[t].kind \in kinds
    /\ Db(conn[t]) \in created

\* The table that the statement of a thread sees, and its new contents
Seen(t) == tables[Db(conn[t])]
SetRow(t, id, value) == tables' = [tables EXCEPT ![Db(conn[t])][id] = value]

StatementFails(t) ==
    /\ at[t] = "statement"
    /\ Finish(t, Failed)
    /\ UNCHANGED <<poolVars, dbVars, op, conn, calls>>

\* sqlite_insert: the primary key is unique.
Insert(t) ==
    /\ Runs(t, {"insert"})
    /\ IF Seen(t)[op[t].id] = None
       THEN /\ SetRow(t, op[t].id, op[t].value)
            /\ changed' = [changed EXCEPT ![conn[t]] = 1]
            /\ Finish(t, Succeeded)
       ELSE Finish(t, Failed) /\ UNCHANGED <<tables, changed>>
    /\ UNCHANGED <<poolVars, created, op, conn, calls>>

\* Mutant of ChangeRow: the connection goes back before sqlite3_changes is asked.
ChangeRowReleasesFirst(t, kind, value) ==
    /\ Runs(t, {kind})
    /\ IF Seen(t)[op[t].id] = None
       THEN changed' = [changed EXCEPT ![conn[t]] = 0] /\ UNCHANGED tables
       ELSE changed' = [changed EXCEPT ![conn[t]] = 1] /\ SetRow(t, op[t].id, value)
    /\ inUse' = [inUse EXCEPT ![conn[t]] = FALSE]
    /\ GoTo(t, "changes")
    /\ UNCHANGED <<private, isOpen, opened, created, op, conn, result, calls>>

\* UPDATE or DELETE of the row of a key: the statement succeeds also when there
\* is none, and the connection knows how many rows it changed.
ChangeRow(t, kind, value) ==
    /\ Runs(t, {kind})
    /\ IF Seen(t)[op[t].id] = None
       THEN changed' = [changed EXCEPT ![conn[t]] = 0] /\ UNCHANGED tables
       ELSE changed' = [changed EXCEPT ![conn[t]] = 1] /\ SetRow(t, op[t].id, value)
    /\ GoTo(t, "changes")
    /\ UNCHANGED <<poolVars, created, op, conn, result, calls>>

Update(t) == ChangeRow(t, "update", op[t].value)
Remove(t) == ChangeRow(t, "remove", None)

\* sqlite3_changes, before the connection goes back
Changes(t) ==
    /\ at[t] = "changes"
    /\ Finish(t, Outcome(conn[t]))
    /\ UNCHANGED <<poolVars, dbVars, op, conn, calls>>

\* sqlite_find_by_pk and sqlite_find_first_by_field: the first row, if any
FindOne(t) ==
    /\ Runs(t, {"find_by_pk", "find_first_by_field"})
    /\ \/ \E k \in Store!Wanted(Seen(t), op[t]) : Finish(t, Store!Found(Seen(t), {k}))
       \/ Store!Wanted(Seen(t), op[t]) = {} /\ Finish(t, Failed)
    /\ UNCHANGED <<poolVars, dbVars, op, conn, calls>>

\* sqlite_find_all and sqlite_query: rows until sqlite3_step returns something
\* else, an error included
FindMany(t) ==
    /\ Runs(t, {"find_all", "query"})
    /\ \E keys \in SUBSET Store!Wanted(Seen(t), op[t]) : Finish(t, Store!Found(Seen(t), keys))
    /\ UNCHANGED <<poolVars, dbVars, op, conn, calls>>

\* The call has returned.
Back(t) ==
    /\ GoTo(t, "idle")
    /\ op' = [op EXCEPT ![t] = None]
    /\ result' = [result EXCEPT ![t] = None]

\* pool_release
Release(t) ==
    /\ at[t] = "release"
    /\ inUse' = [inUse EXCEPT ![conn[t]] = FALSE]
    /\ conn' = [conn EXCEPT ![t] = None]
    /\ Back(t)
    /\ UNCHANGED <<private, isOpen, opened, dbVars, calls>>

\* pool_acquire had no connection to give.
ReturnFailure(t) ==
    /\ at[t] = "return"
    /\ Back(t)
    /\ UNCHANGED <<poolVars, dbVars, conn, calls>>

\* sqlite_close: "the caller must have stopped using this handle".
Close ==
    /\ isOpen
    /\ \A t \in Threads : at[t] = "idle"
    /\ isOpen' = FALSE
    /\ UNCHANGED <<private, opened, inUse, dbVars, at, op, conn, result, calls>>

Closed == ~ isOpen /\ UNCHANGED vars

Work(t) ==
    \/ AcquireIdle(t) \/ AcquireNew(t) \/ EnsureTable(t) \/ StatementFails(t)
    \/ Insert(t) \/ Update(t) \/ Remove(t) \/ Changes(t) \/ FindOne(t) \/ FindMany(t)
    \/ Release(t) \/ ReturnFailure(t)

Next ==
    \/ \E t \in Threads : (\E o \in Store!Ops : Call(t, o)) \/ Work(t)
    \/ Close
    \/ Closed

Spec == Init /\ [][Next]_vars

-----------------------------------------------------------------------------
(* Properties *)

\* Type invariant; a thread has a connection exactly between pool_acquire and
\* pool_release.
TypeOK ==
    /\ private \in BOOLEAN
    /\ isOpen \in BOOLEAN
    /\ opened \in 1 .. MaxConns
    /\ inUse \in [Conns -> BOOLEAN]
    /\ changed \in [Conns -> {0, 1}]
    /\ tables \in [Conns -> Store!Tables]
    /\ created \in SUBSET Conns
    /\ at \in [Threads -> Place]
    /\ op \in [Threads -> Store!Ops \cup {None}]
    /\ conn \in [Threads -> Conns \cup {None}]
    /\ result \in [Threads -> Store!Answers \cup {None}]
    /\ calls \in [Threads -> 0 .. MaxCalls]
    /\ \A t \in Threads : conn[t] = None <=> at[t] \in {"idle", "acquire", "return"}

\* "the pool never hands the same connection to two threads at once"
\* (model_sqlite.c, where the connections are opened without SQLite's own
\* mutex): a connection that is used has exactly one user, and every error path
\* of every operation gives it back, so that none is lost to the pool.
ExclusiveConnections ==
    /\ \A t, u \in Threads : conn[t] # None /\ conn[t] = conn[u] => t = u
    /\ \A c \in Conns : inUse[c] <=> \E t \in Threads : conn[t] = c
    /\ \A c \in Conns : inUse[c] => c <= opened

\* Concurrent calls on one handle are those of a table with atomic operations,
\* for a file that all connections share and for a private in-memory database
\* ("pooling it normally would make every other borrowed connection see a blank
\* database").  What an update or a removal returns is its own effect, though
\* sqlite3_changes is asked after the statement.
ImplementsStore == Store!Spec

====
