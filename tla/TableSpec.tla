----------------------------- MODULE TableSpec -----------------------------
(***************************************************************************)
(* Tables as bb-migrate sees them (tools/migrate/src/table_spec.c) and the  *)
(* SQL that it derives from the difference between what a manifest expects  *)
(* and what the existing migrations produce (generate.c).                   *)
(*                                                                          *)
(* A table is the sequence of its columns, <<>> when it does not exist.     *)
(* SQL is a sequence of statements; what they do is SQLite's part.          *)
(***************************************************************************)
EXTENDS Integers, SequencesExt, FiniteSets

CONSTANT PlainNames    \* the names that is_plain_identifier accepts

Column(name, type, pk) == [name |-> name, type |-> type, pk |-> pk]

Named(cols, name) == {i \in DOMAIN cols : cols[i].name = name}
Has(cols, name) == Named(cols, name) # {}
FindColumn(cols, name) ==
    cols[CHOOSE i \in Named(cols, name) : \A j \in Named(cols, name) : i <= j]

-----------------------------------------------------------------------------
(* SQLite *)

Create(table, cols) == [op |-> "create", table |-> table, cols |-> cols]
AddColumn(table, name, type) ==
    [op |-> "add", table |-> table, column |-> name, type |-> type]
RenameColumn(table, from, to) ==
    [op |-> "rename", table |-> table, from |-> from, to |-> to]
Broken == [op |-> "broken"]    \* a statement that SQLite rejects

\* Well-formed statements
IsColumn(c) == c = Column(c.name, c.type, c.pk) /\ c.pk \in BOOLEAN
IsSql(sql) ==
    /\ sql \in Seq(Range(sql))
    /\ \A s \in Range(sql) : s.op = "create" =>
          s.cols \in Seq(Range(s.cols)) /\ \A c \in Range(s.cols) : IsColumn(c)

Accepts(db, s) ==
    CASE s.op = "create" ->
            \/ db[s.table] # <<>>     \* IF NOT EXISTS
            \/ /\ \A i, j \in DOMAIN s.cols : i # j => s.cols[i].name # s.cols[j].name
               /\ Cardinality({i \in DOMAIN s.cols : s.cols[i].pk}) <= 1
      [] s.op = "add" -> db[s.table] # <<>> /\ ~Has(db[s.table], s.column)
      [] s.op = "rename" -> Has(db[s.table], s.from) /\ ~Has(db[s.table], s.to)
      [] OTHER -> FALSE

Effect(db, s) ==
    CASE s.op = "create" ->
            [db EXCEPT ![s.table] = IF @ = <<>> THEN s.cols ELSE @]
      [] s.op = "add" ->
            [db EXCEPT ![s.table] = Append(@, Column(s.column, s.type, FALSE))]
      [] s.op = "rename" ->
            [db EXCEPT ![s.table] = [i \in DOMAIN @ |->
                IF @[i].name = s.from THEN [@[i] EXCEPT !.name = s.to] ELSE @[i]]]

\* One statement, after those before it
Execute(run, s) ==
    IF run.ok /\ Accepts(run.db, s) THEN [run EXCEPT !.db = Effect(@, s)]
    ELSE [run EXCEPT !.ok = FALSE]

\* What sql makes of db: it stops at the first statement that fails.
RunSql(db, sql) ==
    LET run[k \in 0 .. Len(sql)] ==
            IF k = 0 THEN [ok |-> TRUE, db |-> db] ELSE Execute(run[k - 1], sql[k])
    IN run[Len(sql)]

-----------------------------------------------------------------------------
(* Manifests and differences *)

SqlTypeFor == [int |-> "INTEGER", string |-> "TEXT", uuid |-> "TEXT", blob |-> "BLOB"]

\* A manifest is a table and its fields; one that cannot be used has no columns.
SpecFromManifest(m) ==
    IF \E i \in DOMAIN m.fields : m.fields[i].type \notin DOMAIN SqlTypeFor THEN <<>>
    ELSE [i \in DOMAIN m.fields |->
            Column(m.fields[i].name, SqlTypeFor[m.fields[i].type], m.fields[i].pk)]

Diff(kind, column, pk) == [kind |-> kind, column |-> column, pk |-> pk]

SpecDiffOneWay(expected, actual) ==    \* mutant: the schema's columns only
    IF actual = <<>> THEN {Diff("table missing", "", FALSE)}
    ELSE {Diff("column missing", c.name, c.pk) :
            c \in {expected[i] : i \in {j \in DOMAIN expected : ~Has(actual, expected[j].name)}}}

SpecDiff(expected, actual) ==
    LET common == {i \in DOMAIN expected : Has(actual, expected[i].name)}
        found(i) == FindColumn(actual, expected[i].name)
        at(kind, S) == {Diff(kind, expected[i].name, expected[i].pk) : i \in S}
    IN IF actual = <<>> THEN {Diff("table missing", "", FALSE)}
       ELSE at("column missing", DOMAIN expected \ common)
            \cup at("type mismatch", {i \in common : expected[i].type # found(i).type})
            \cup at("pk missing", {i \in common : expected[i].pk /\ ~found(i).pk})
            \cup at("pk extra", {i \in common : ~expected[i].pk /\ found(i).pk})
            \cup {Diff("column extra", actual[i].name, actual[i].pk) :
                    i \in {j \in DOMAIN actual : ~Has(expected, actual[j].name)}}

-----------------------------------------------------------------------------
(* Generating a migration *)

\* The hints for this table, and those of them that hold.
Mine(table, renames) == {i \in DOMAIN renames : renames[i].table = table}

Valid(table, expected, actual, renames) ==
    {i \in Mine(table, renames) :
        LET r == renames[i] IN
        /\ {r.from, r.to} \subseteq PlainNames
        /\ Has(actual, r.from) /\ Has(expected, r.to)
        /\ ~Has(expected, r.from) /\ ~Has(actual, r.to)
        /\ LET old == FindColumn(actual, r.from)
               new == FindColumn(expected, r.to)
           IN old.type = new.type /\ old.pk = new.pk
        /\ \A j \in Mine(table, renames) :
              j < i => renames[j].from # r.from /\ renames[j].to # r.to}

\* A difference that only hand-written SQL may settle.
Refused(d, from, to) ==
    CASE d.kind = "table missing" -> FALSE
      [] d.kind = "column missing" -> d.column \notin to /\ d.pk
      [] d.kind = "column extra" -> d.column \notin from
      [] OTHER -> TRUE

EmitAlter(table, expected, actual, renames, valid) ==
    LET to == {renames[i].to : i \in valid}
        rename(i) == IF i \in valid
                     THEN <<RenameColumn(table, renames[i].from, renames[i].to)>> ELSE <<>>
        add(c) == IF ~Has(actual, c.name) /\ c.name \notin to
                  THEN <<AddColumn(table, c.name, c.type)>> ELSE <<>>
    IN FlattenSeq([i \in DOMAIN renames |-> rename(i)]
                  \o [i \in DOMAIN expected |-> add(expected[i])])

GenerateSql(table, expected, actual, renames) ==
    LET valid == Valid(table, expected, actual, renames)
        diffs == SpecDiff(expected, actual)
        from == {renames[i].from : i \in valid}
        to == {renames[i].to : i \in valid}
        names == {table} \cup {expected[i].name : i \in DOMAIN expected}
        refused == \/ ~(names \subseteq PlainNames)
                   \/ valid # Mine(table, renames)
                   \/ \E d \in diffs : Refused(d, from, to)
    IN [refused |-> refused,
        sql |-> IF refused \/ diffs = {} THEN <<>>
                ELSE IF actual = <<>> THEN <<Create(table, expected)>>
                ELSE EmitAlter(table, expected, actual, renames, valid)]

=============================================================================
