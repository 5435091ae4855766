------------------------------- MODULE PgPool -------------------------------
(***************************************************************************)
(* The connection pool of the PostgreSQL backend (model_postgres.c): the    *)
(* threads of the program share one handle, every call borrows a connection *)
(* and gives it back.                                                       *)
(*                                                                          *)
(* A section of code under h->lock does not block (but in                   *)
(* pthread_cond_wait) and is one step.  Connecting, resetting, CREATE TABLE *)
(* and the statement itself are calls to the server outside h->lock; the    *)
(* server may drop a connection, refuse one or fail a statement at any time.*)
(***************************************************************************)
EXTENDS Naturals, FiniteSets

CONSTANTS
    Threads,   \* threads that use the handle
    PoolSize,  \* BB_PG_POOL_MAX_CONNS
    Tables,    \* names of schemas
    MaxCalls,  \* bound: calls that each thread makes
    None       \* no thread, no slot, no table

ASSUME PoolAssumption ==
    /\ IsFiniteSet(Threads)
    /\ PoolSize \in Nat \ {0}
    /\ MaxCalls \in Nat
    /\ None \notin Threads
    /\ None \notin Tables
    /\ None \notin Nat

Slots == 1 .. PoolSize
Place == {"idle", "acquire", "wait", "connect", "check", "ensure", "create",
          "execute", "release"}

VARIABLES
    conn,        \* [Slots -> {"null", "ok", "bad"}]: slots[i].conn and its status
    inUse,       \* [Slots -> BOOLEAN]: slots[i].in_use
    at,          \* [Threads -> Place]: what each thread is about to do
    slot,        \* [Threads -> Slots \cup {None}]: the slot it has borrowed
    table,       \* [Threads -> Tables \cup {None}]: the schema of its call
    calls,       \* [Threads -> Nat]: the calls that it has made
    tablesLock,  \* the thread that holds h->tables_lock, or None
    remembered,  \* h->tables
    created      \* the tables that exist on the server

vars == <<conn, inUse, at, slot, table, calls, tablesLock, remembered, created>>
poolVars == <<conn, inUse, slot>>
tableVars == <<tablesLock, remembered, created>>

\* pg_open: the first slot is connected at once.
Init ==
    /\ conn = [s \in Slots |-> IF s = 1 THEN "ok" ELSE "null"]
    /\ inUse = [s \in Slots |-> FALSE]
    /\ at = [t \in Threads |-> "idle"]
    /\ slot = [t \in Threads |-> None]
    /\ table = [t \in Threads |-> None]
    /\ calls = [t \in Threads |-> 0]
    /\ tablesLock = None
    /\ remembered = {}
    /\ created \in SUBSET Tables

GoTo(t, place) == at' = [at EXCEPT ![t] = place]

\* pg_insert, pg_find_by_pk, pg_update, pg_remove, pg_find_all, pg_query and
\* pg_find_first_by_field begin with pool_acquire.  The last one does not look
\* at the tables: its table is None.
Call(t, name) ==
    /\ at[t] = "idle"
    /\ calls[t] < MaxCalls
    /\ calls' = [calls EXCEPT ![t] = @ + 1]
    /\ table' = [table EXCEPT ![t] = name]
    /\ GoTo(t, "acquire")
    /\ UNCHANGED <<poolVars, tableVars>>

\* Mutant of Idle: a slot that is still being connected is taken again.
IdleOrUnconnected == {s \in Slots : ~ inUse[s] \/ conn[s] = "null"}

\* The slots that pool_acquire would take: a connected idle one, else an empty
\* one.
Idle == {s \in Slots : ~ inUse[s]}
Candidates ==
    IF \E s \in Idle : conn[s] # "null" THEN {s \in Idle : conn[s] # "null"} ELSE Idle

\* pool_acquire under the lock, first entry and after each wait
Acquire(t) ==
    /\ at[t] = "acquire"
    /\ \/ \E s \in Candidates :
            /\ \A other \in Candidates : s <= other
            /\ inUse' = [inUse EXCEPT ![s] = TRUE]
            /\ slot' = [slot EXCEPT ![t] = s]
            /\ GoTo(t, IF conn[s] = "null" THEN "connect" ELSE "check")
       \/ /\ Candidates = {}
          /\ GoTo(t, "wait")
          /\ UNCHANGED <<inUse, slot>>
    /\ UNCHANGED <<conn, table, calls, tableVars>>

\* pthread_cond_wait may return without a signal.
SpuriousWakeup(t) ==
    /\ at[t] = "wait"
    /\ GoTo(t, "acquire")
    /\ UNCHANGED <<poolVars, table, calls, tableVars>>

\* The thread goes on with its slot: ensure_table, or the statement at once.
Borrowed(t) == GoTo(t, IF table[t] = None THEN "execute" ELSE "ensure")

\* connect_one, outside the lock
Connect(t) ==
    /\ at[t] = "connect"
    /\ \/ conn' = [conn EXCEPT ![slot[t]] = "ok"] /\ Borrowed(t)
       \/ UNCHANGED conn /\ GoTo(t, "release")
    /\ UNCHANGED <<inUse, slot, table, calls, tableVars>>

\* PQstatus and PQreset of a connection that was idle
Check(t) ==
    /\ at[t] = "check"
    /\ \/ conn[slot[t]] = "ok" /\ Borrowed(t) /\ UNCHANGED conn
       \/ /\ conn[slot[t]] = "bad"
          /\ \/ conn' = [conn EXCEPT ![slot[t]] = "ok"] /\ Borrowed(t)
             \/ UNCHANGED conn /\ GoTo(t, "release")
    /\ UNCHANGED <<inUse, slot, table, calls, tableVars>>

\* ensure_table: take the lock and look for the table.
EnsureTable(t) ==
    /\ at[t] = "ensure"
    /\ tablesLock = None
    /\ IF table[t] \in remembered
       THEN GoTo(t, "execute") /\ UNCHANGED tablesLock
       ELSE GoTo(t, "create") /\ tablesLock' = t
    /\ UNCHANGED <<poolVars, table, calls, remembered, created>>

\* create_table and tables_remember, which may fail for want of memory; then
\* the lock is given back.
CreateTable(t) ==
    /\ at[t] = "create"
    /\ \/ /\ conn[slot[t]] = "ok"
          /\ created' = created \cup {table[t]}
          /\ remembered' \in {remembered, remembered \cup {table[t]}}
          /\ GoTo(t, "execute")
       \/ /\ GoTo(t, "release")
          /\ UNCHANGED <<remembered, created>>
    /\ tablesLock' = None
    /\ UNCHANGED <<poolVars, table, calls>>

\* The statement of the call, whatever its outcome
Execute(t) ==
    /\ at[t] = "execute"
    /\ GoTo(t, "release")
    /\ UNCHANGED <<poolVars, table, calls, tableVars>>

Waiting == {t \in Threads : at[t] = "wait"}

\* Mutant of Release: nobody is woken.
ReleaseSilently(t) ==
    /\ at[t] = "release"
    /\ inUse' = [inUse EXCEPT ![slot[t]] = FALSE]
    /\ slot' = [slot EXCEPT ![t] = None]
    /\ table' = [table EXCEPT ![t] = None]
    /\ GoTo(t, "idle")
    /\ UNCHANGED <<conn, calls, tableVars>>

\* pool_release: the slot is free again and one waiter is woken.  The call
\* returns.
Release(t) ==
    /\ at[t] = "release"
    /\ inUse' = [inUse EXCEPT ![slot[t]] = FALSE]
    /\ slot' = [slot EXCEPT ![t] = None]
    /\ table' = [table EXCEPT ![t] = None]
    /\ \/ Waiting = {} /\ GoTo(t, "idle")
       \/ \E woken \in Waiting : at' = [at EXCEPT ![t] = "idle", ![woken] = "acquire"]
    /\ UNCHANGED <<conn, calls, tableVars>>

\* The server closes a connection, idle or not.
ServerDrops(s) ==
    /\ conn[s] = "ok"
    /\ conn' = [conn EXCEPT ![s] = "bad"]
    /\ UNCHANGED <<inUse, at, slot, table, calls, tableVars>>

Work(t) ==
    \/ Acquire(t)
    \/ Connect(t)
    \/ Check(t)
    \/ EnsureTable(t)
    \/ CreateTable(t)
    \/ Execute(t)
    \/ Release(t)

\* Every thread has made its calls.
Done == (\A t \in Threads : at[t] = "idle" /\ calls[t] = MaxCalls) /\ UNCHANGED vars

Next ==
    \/ \E t \in Threads : (\E name \in Tables \cup {None} : Call(t, name))
                             \/ SpuriousWakeup(t) \/ Work(t)
    \/ \E s \in Slots : ServerDrops(s)
    \/ Done

Spec == Init /\ [][Next]_vars

\* Threads are scheduled and the server answers, with success or failure.
\* Nobody need make a call.
FairSpec == Spec /\ \A t \in Threads : WF_vars(Work(t))

-----------------------------------------------------------------------------
(* Properties *)

\* Type invariant; a thread has a slot exactly between pool_acquire and
\* pool_release.
TypeOK ==
    /\ conn \in [Slots -> {"null", "ok", "bad"}]
    /\ inUse \in [Slots -> BOOLEAN]
    /\ at \in [Threads -> Place]
    /\ slot \in [Threads -> Slots \cup {None}]
    /\ table \in [Threads -> Tables \cup {None}]
    /\ calls \in [Threads -> 0 .. MaxCalls]
    /\ tablesLock \in Threads \cup {None}
    /\ remembered \in SUBSET Tables
    /\ created \in SUBSET Tables
    /\ \A t \in Threads : slot[t] = None <=> at[t] \in {"idle", "acquire", "wait"}

\* "A PGconn itself must never be used by two threads at once, and the pool
\* guarantees it isn't" (model_postgres.c): no slot is borrowed twice, and a
\* slot is marked as used exactly while a thread has it, so that none is lost
\* to the pool on an error path.
ExclusiveSlots ==
    /\ \A t, u \in Threads : slot[t] # None /\ slot[t] = slot[u] => t = u
    /\ \A s \in Slots : inUse[s] <=> \E t \in Threads : slot[t] = s

\* Statements are sent on a connection that exists: a slot whose connection
\* could not be made is given back and never used.
UsesConnection ==
    \A t \in Threads :
        at[t] \in {"ensure", "create", "execute"} => conn[slot[t]] # "null"

\* Tables are created one at a time on a handle and remembered only when they
\* exist ("Creation is serialised", model_postgres.c).
CreationSerialised ==
    /\ \A t \in Threads : at[t] = "create" <=> tablesLock = t
    /\ remembered \subseteq created

\* Every call returns: nobody waits for a connection or for the table lock
\* forever, also when the server refuses connections.
EveryCallReturns == \A t \in Threads : at[t] # "idle" ~> at[t] = "idle"

====
