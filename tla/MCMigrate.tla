----------------------------- MODULE MCMigrate -----------------------------
(* Instances of Migrate for TLC. *)
EXTENDS Migrate, TLC

MCNames == {"t", "u", "a", "b", "c", "new", "ren"}

F1 == Path(1, "create", "migration")
F2 == Path(2, "add", "migration")
F3 == Path(3, "note", "migration")

CreateT == <<Create("t", <<Column("a", "INTEGER", TRUE)>>)>>
AddB == <<AddColumn("t", "b", "TEXT")>>
AddC == <<AddColumn("t", "c", "TEXT")>>

Field(name, type, pk) == [name |-> name, type |-> type, pk |-> pk]
Manifest(table, fields) == [table |-> table, fields |-> fields]

Id == Field("a", "int", TRUE)
Text(name) == Field(name, "string", FALSE)

Command(name, late, schemas, renames, dryRun, file) ==
    [name |-> name, late |-> late, schemas |-> schemas, renames |-> renames,
     dryRun |-> dryRun, file |-> file]

MCDisks ==
    {F1 :> Content(CreateT, "lf") @@ F2 :> Content(AddB, "lf"),
     F1 :> Content(CreateT, "lf") @@ F3 :> Content(AddC, "lf")
        @@ Path(2, "x", "not sql") :> Content(<<>>, "lf"),
     F1 :> Content(CreateT, "lf") @@ F2 :> Content(AddB, "lf") @@ F3 :> Content(<<Broken>>, "lf"),
     <<>>}
MCContents == {Content(CreateT, "crlf"), Content(AddC, "lf")}
MCNewPaths == {Path(2, "late", "migration"), Path(0, "old", "misnamed")}

\* What the program's manifests expect: a new column; a renamed one; two tables;
\* a primary key that SQLite cannot add; one table defined twice.
MCManifestLists ==
    {<<Manifest("t", <<Id, Text("b"), Text("c")>>)>>,
     <<Manifest("t", <<Id, Text("c")>>), Manifest("u", <<Id, Text("b")>>)>>,
     <<Manifest("t", <<Id, Text("b"), Field("c", "int", TRUE)>>)>>,
     <<Manifest("t", <<Id, Text("b"), Text("c")>>),
      Manifest("t", <<Id, Text("c"), Text("b")>>)>>}

BtoC == <<[table |-> "t", from |-> "b", to |-> "c"]>>

MCCommands ==
    {Command("up", FALSE, {}, <<>>, FALSE, ""),
     Command("up", TRUE, {}, <<>>, FALSE, ""),
     Command("status", FALSE, {}, <<>>, FALSE, ""),
     Command("verify", FALSE, {1}, <<>>, FALSE, ""),
     Command("generate", FALSE, {1, 2}, <<>>, FALSE, "new"),
     Command("generate", FALSE, {1, 2}, BtoC, FALSE, "ren"),
     Command("verify", TRUE, {1}, <<>>, FALSE, "")}    \* refused by parse_args

=============================================================================
