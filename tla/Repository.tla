------------------------------ MODULE Repository ------------------------------
(***************************************************************************)
(* Repositories of one schema over three backends, which a program fills    *)
(* and asks in the same way (repo.c): a SQL database, for the statements of *)
(* model_postgres.c and model_sqlite.c, and the file of model_json.c.       *)
(*                                                                          *)
(* One thread calls and no call fails for want of memory, space or          *)
(* connection: concurrency and failure are the subject of the modules of    *)
(* the two pools, and the JSON backend locks nothing.                       *)
(***************************************************************************)
EXTENDS Query, FiniteSets

CONSTANTS
    Entities,    \* the entities that the program saves
    Conditions,  \* the conditions with which queries are built
    Orders,      \* the sort keys with which queries are built
    Pages,       \* their limits and offsets
    MaxClauses   \* bound: conditions and sort keys of a query

\* The structs of the schema; a condition LIKE on a text has a text.
EntityType == [id : Int, name : Seq(Nat), data : Int]

ASSUME EntitiesAssumption == \A entity \in Entities : entity \in EntityType
ASSUME QueriesAssumption ==
    /\ \A c \in Conditions : c.cmp = "like" /\ c.field = "name" => c.value \in Seq(Nat)
    /\ \A p \in Pages : p.limit \in Int /\ p.offset \in Int

VARIABLES
    table,  \* set of rows: the table of the database
    file,   \* sequence of objects: the array in the JSON file
    query,  \* the query that the program builds
    agreed  \* the last call returned the same through both backends

vars == <<table, file, query, agreed>>

Ids == {e.id : e \in Entities}
Names == {e.name : e \in Entities}

-----------------------------------------------------------------------------
(* Statements of the SQL backends: the new table and whether the call returns 0 *)

WithId(rows, id) == {r \in rows : r.id = id}

\* pg_insert_conn: the primary key is unique.
PgInsert(rows, entity) ==
    IF WithId(rows, entity.id) = {}
    THEN [ok |-> TRUE, rows |-> rows \cup {entity}]
    ELSE [ok |-> FALSE, rows |-> rows]

\* pg_update_conn: every other field of the row, if there is one
PgUpdate(rows, entity) ==
    IF WithId(rows, entity.id) # {}
    THEN [ok |-> TRUE, rows |-> (rows \ WithId(rows, entity.id)) \cup {entity}]
    ELSE [ok |-> FALSE, rows |-> rows]

\* pg_remove_conn
PgRemove(rows, id) ==
    [ok |-> WithId(rows, id) # {}, rows |-> rows \ WithId(rows, id)]

\* pg_find_by_pk_conn, pg_find_all_conn and pg_find_first_by_field_conn: the
\* rows, one of which is the answer of the first and the last; a BLOB cannot
\* be searched for.
PgFindByPk(rows, id) == WithId(rows, id)
PgFindAll(rows) == rows
PgFindFirst(rows, field, value) ==
    IF FieldType[field] = "blob" THEN {} ELSE {r \in rows : r[field] = value}

-----------------------------------------------------------------------------
(* The JSON backend: the whole file is read, changed and written. *)

\* bb_entity_to_json leaves BLOB fields out, bb_json_to_entity zeroes them.
ToJson(entity) == [field \in {g \in Fields : FieldType[g] # "blob"} |-> entity[field]]
FromJson(object) ==
    [field \in Fields |-> IF field \in DOMAIN object THEN object[field] ELSE 0]

IndexOf(objects, id) == {i \in DOMAIN objects : objects[i].id = id}
DropAt(objects, i) == SubSeq(objects, 1, i - 1) \o SubSeq(objects, i + 1, Len(objects))

\* Mutant of JsonInsert: the check for a duplicate is lost.
JsonInsertUnchecked(objects, entity) ==
    [ok |-> TRUE, file |-> Append(objects, ToJson(entity))]

\* json_insert
JsonInsert(objects, entity) ==
    IF IndexOf(objects, entity.id) = {}
    THEN [ok |-> TRUE, file |-> Append(objects, ToJson(entity))]
    ELSE [ok |-> FALSE, file |-> objects]

\* json_update: the old object is removed and the new one put at the end.
JsonUpdate(objects, entity) ==
    IF IndexOf(objects, entity.id) = {} THEN [ok |-> FALSE, file |-> objects]
    ELSE LET i == CHOOSE i \in IndexOf(objects, entity.id) : TRUE
         IN  [ok |-> TRUE, file |-> Append(DropAt(objects, i), ToJson(entity))]

\* json_remove
JsonRemove(objects, id) ==
    IF IndexOf(objects, id) = {} THEN [ok |-> FALSE, file |-> objects]
    ELSE [ok |-> TRUE,
          file |-> DropAt(objects, CHOOSE i \in IndexOf(objects, id) : TRUE)]

\* json_find_by_pk, json_find_all and json_find_first_by_field: sequences of
\* entities, the first of which is the answer of the first and the last.
JsonFindAll(objects) == [i \in DOMAIN objects |-> FromJson(objects[i])]
JsonFindByPk(objects, id) == JsonFindAll(Those(objects, IndexOf(objects, id)))
JsonFindFirst(objects, field, value) ==
    LET all == JsonFindAll(objects)
    IN  IF FieldType[field] = "blob" THEN <<>>
        ELSE Those(all, {i \in DOMAIN all : all[i][field] = value})

-----------------------------------------------------------------------------
(* The repository *)

\* bb_repo_find: the query of the backend, else find_all and bb_query_apply
RepoFind(backend, q) ==
    CASE backend = "sqlite" -> SqliteQuery(q, table)
      [] backend = "postgres" -> PgQuery(q, table)
      [] backend = "json" -> Apply(q, JsonFindAll(file))

Init ==
    /\ table = {}
    /\ file = <<>>
    /\ query = NoQuery
    /\ agreed = TRUE

\* A call that changes entities, through the repository of each backend
Change(sql, json) ==
    /\ query = NoQuery
    /\ table' = sql.rows
    /\ file' = json.file
    /\ agreed' = (sql.ok = json.ok)
    /\ UNCHANGED query

RepoInsert(entity) == Change(PgInsert(table, entity), JsonInsert(file, entity))
RepoUpdate(entity) == Change(PgUpdate(table, entity), JsonUpdate(file, entity))
RepoRemove(id) == Change(PgRemove(table, id), JsonRemove(file, id))

\* The program builds a query and asks it; then it begins with a new one.
Build(q) ==
    /\ Len(query.conditions) + Len(query.sorts) < MaxClauses
    /\ query' = q
    /\ UNCHANGED <<table, file, agreed>>

AddCondition(c) == Build(Where(query, c.field, c.cmp, c.value))
AddOrder(o) == Build(OrderBy(query, o.field, o.direction))

\* bb_query_limit and bb_query_offset
SetPage(p) ==
    /\ query' = [query EXCEPT !.limit = p.limit, !.offset = p.offset]
    /\ UNCHANGED <<table, file, agreed>>

InitQuery ==
    /\ query' = NoQuery
    /\ UNCHANGED <<table, file, agreed>>

Next ==
    \/ \E entity \in Entities : RepoInsert(entity) \/ RepoUpdate(entity)
    \/ \E id \in Ids : RepoRemove(id)
    \/ \E c \in Conditions : AddCondition(c)
    \/ \E o \in Orders : AddOrder(o)
    \/ \E p \in Pages : SetPage(p)
    \/ InitQuery

Spec == Init /\ [][Next]_vars

-----------------------------------------------------------------------------
(* Properties *)

WithoutBlob(entity) == [entity EXCEPT !.data = 0]
SetWithoutBlobs(rows) == {WithoutBlob(r) : r \in rows}

\* "Application code does not change when you switch backends" (docs/persist/
\* postgres.md): after any series of calls the backends return the same codes,
\* hold the same entities, each once, and find the same ones - but for BLOB
\* fields, which the JSON backend does not support.
BackendsAgree ==
    /\ agreed
    /\ Len(file) = Cardinality(table)
    /\ ToSet(JsonFindAll(file)) = SetWithoutBlobs(PgFindAll(table))
    /\ \A id \in Ids : ToSet(JsonFindByPk(file, id)) = SetWithoutBlobs(PgFindByPk(table, id))
    /\ \A name \in Names :
          ToSet(JsonFindFirst(file, "name", name))
              = SetWithoutBlobs(PgFindFirst(table, "name", name))

\* "bb_query_apply() (the in-memory reference every backend must agree with)"
\* (model_sqlite.c; docs/persist/query.md says the same): whatever query has been
\* built, a backend that translates it returns rows that the reference could
\* return, in an order that the sort keys allow - for limits and offsets that
\* fit an int, since the SQLite backend binds them as such.
QueriesAgree ==
    2 * query.limit < IntRange /\ 2 * query.offset < IntRange =>
        \A backend \in {"sqlite", "postgres"} :
            /\ RepoFind(backend, query) # {}
            /\ RepoFind(backend, query) \subseteq Reference(query, table)

====
