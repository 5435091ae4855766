----------------------------- MODULE EntityStore -----------------------------
(***************************************************************************)
(* What a backend of models promises to the threads that share its handle   *)
(* (bb_model_api_t): a call takes effect at one moment between the moment   *)
(* it is made and the moment it returns, and its result is the one that the *)
(* table gives at that moment.  A call may fail instead, without effect.    *)
(*                                                                          *)
(* Answers are as weak as the SQLite backend makes them: a read of several  *)
(* rows that meets an error on the way returns 0 and the rows it has got so *)
(* far (the loops "while (sqlite3_step(stmt) == SQLITE_ROW)").              *)
(***************************************************************************)
EXTENDS Naturals

CONSTANTS
    Threads,  \* threads that share the handle
    Keys,     \* primary keys
    Values,   \* values of the one other field
    None      \* no row, no call, no answer

VARIABLES
    rows,    \* [Keys -> Values \cup {None}]: the table
    op,      \* [Threads -> Ops \cup {None}]: the call that each thread makes
    answer   \* [Threads -> Answers \cup {None}]: its result, once it is settled

vars == <<rows, op, answer>>

Ops ==
    [kind : {"insert", "update"}, id : Keys, value : Values]
        \cup [kind : {"find_by_pk", "remove"}, id : Keys]
        \cup [kind : {"find_all"}]
        \cup [kind : {"find_first_by_field", "query"}, value : Values]

Tables == [Keys -> Values \cup {None}]
Present(table) == {k \in Keys : table[k] # None}
Found(table, keys) == [rc |-> 0, rows |-> {<<k, table[k]>> : k \in keys}]
Succeeded == [rc |-> 0, rows |-> {}]
Failed == [rc |-> 1, rows |-> {}]
Answers == [rc : {0, 1}, rows : SUBSET (Keys \X Values)]

\* The keys of the rows that a read is about
Wanted(table, o) ==
    CASE o.kind = "find_by_pk" -> {o.id} \cap Present(table)
      [] o.kind = "find_all" -> Present(table)
      [] OTHER -> {k \in Keys : table[k] = o.value}

\* What a call may do to a table and answer
Effects(table, o) ==
    CASE o.kind = "insert" ->
             IF table[o.id] = None
             THEN {[rows |-> [table EXCEPT ![o.id] = o.value], answer |-> Succeeded]}
             ELSE {[rows |-> table, answer |-> Failed]}
      [] o.kind = "update" ->
             IF table[o.id] = None
             THEN {[rows |-> table, answer |-> Failed]}
             ELSE {[rows |-> [table EXCEPT ![o.id] = o.value], answer |-> Succeeded]}
      [] o.kind = "remove" ->
             IF table[o.id] = None
             THEN {[rows |-> table, answer |-> Failed]}
             ELSE {[rows |-> [table EXCEPT ![o.id] = None], answer |-> Succeeded]}
      [] o.kind \in {"find_by_pk", "find_first_by_field"} ->
             IF Wanted(table, o) = {}
             THEN {[rows |-> table, answer |-> Failed]}
             ELSE {[rows |-> table, answer |-> Found(table, {k})] : k \in Wanted(table, o)}
      [] OTHER ->
             {[rows |-> table, answer |-> Found(table, keys)] :
                 keys \in SUBSET Wanted(table, o)}

Init ==
    /\ rows = [k \in Keys |-> None]
    /\ op = [t \in Threads |-> None]
    /\ answer = [t \in Threads |-> None]

Invoke(t, o) ==
    /\ op[t] = None
    /\ op' = [op EXCEPT ![t] = o]
    /\ UNCHANGED <<rows, answer>>

\* The moment of the call
Perform(t) ==
    /\ op[t] # None
    /\ answer[t] = None
    /\ \E e \in Effects(rows, op[t]) :
          /\ rows' = e.rows
          /\ answer' = [answer EXCEPT ![t] = e.answer]
    /\ UNCHANGED op

Fail(t) ==
    /\ op[t] # None
    /\ answer[t] = None
    /\ answer' = [answer EXCEPT ![t] = Failed]
    /\ UNCHANGED <<rows, op>>

Return(t) ==
    /\ answer[t] # None
    /\ op' = [op EXCEPT ![t] = None]
    /\ answer' = [answer EXCEPT ![t] = None]
    /\ UNCHANGED rows

Next ==
    \E t \in Threads :
        (\E o \in Ops : Invoke(t, o)) \/ Perform(t) \/ Fail(t) \/ Return(t)

Spec == Init /\ [][Next]_vars

====
