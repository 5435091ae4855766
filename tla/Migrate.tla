------------------------------ MODULE Migrate ------------------------------
(***************************************************************************)
(* bb-migrate (tools/migrate/src): processes that share a directory of      *)
(* migration files and a SQLite database.  Each process runs one command,   *)
(* status, up, verify or generate; it reads the directory file by file,     *)
(* plans against the ledger without a lock, and applies one migration per   *)
(* transaction.  Developers change the files meanwhile, and a process may   *)
(* die between any two steps.                                               *)
(*                                                                          *)
(* A file is named by its version, its name and its kind; its content is    *)
(* the SQL and the line endings.  The checksum of a file is its SQL.        *)
(***************************************************************************)
EXTENDS TableSpec

CONSTANTS
    Procs,       \* processes
    NoProc,      \* nobody holds the database's write lock
    Commands,    \* the command lines that processes are started with
    Disks,       \* initial contents of the directory
    Contents,    \* what developers may put into a file
    NewPaths,    \* the files that developers may add
    Tables,      \* the tables of the database
    ManifestLists, \* the persist.schema manifests that the program has, in order
    MaxStarts,   \* bound: commands started
    MaxEdits,    \* bound: changes of the directory by developers
    MaxCrashes   \* bound: processes that die

ASSUME MigrateAssumption ==
    /\ NoProc \notin Procs
    /\ MaxStarts \in Nat /\ MaxEdits \in Nat /\ MaxCrashes \in Nat

\* The version of a file is read from the digits of its name.
ASSUME FilesAssumption ==
    \A f \in NewPaths \cup UNION {DOMAIN d : d \in Disks} : f.version \in Nat

\* Files hold sequences of statements.
ASSUME ContentsAssumption ==
    \A c \in Contents \cup UNION {Range(d) : d \in Disks} : IsSql(c.sql)

ASSUME CommandsAssumption == \A c \in Commands : c.renames \in Seq(Range(c.renames))

ASSUME ManifestsAssumption ==
    \A list \in ManifestLists :
        /\ list \in Seq(Range(list))
        /\ \A m \in Range(list) : /\ m.table \in Tables
                                   /\ m.fields \in Seq(Range(m.fields))
                                   /\ \A field \in Range(m.fields) : field.pk \in BOOLEAN

VARIABLES
    disk,       \* the directory: path |-> content
    db,         \* the database: ledger rows and the migrations executed, in order
    lock,       \* who holds SQLite's write lock
    tx,         \* what the lock's holder has changed so far
    proc,       \* [Procs -> process]
    manifests,  \* the manifests in use
    starts, edits, crashes

vars == <<disk, db, lock, tx, proc, manifests, starts, edits, crashes>>
environment == <<manifests, starts, edits, crashes>>

Path(version, name, kind) == [version |-> version, name |-> name, kind |-> kind]
Content(sql, eol) == [sql |-> sql, eol |-> eol]
WithFile(f, c) == [g \in DOMAIN disk \cup {f} |-> IF g = f THEN c ELSE disk[g]]
Checksum(c) == c.sql    \* '\r' of each "\r\n" is left out

Least(S) == CHOOSE m \in S : \A n \in S : m.version <= n.version
Versions(S) == {m.version : m \in S}
Row(m) == [version |-> m.version, checksum |-> m.checksum]

Fresh == [pc |-> "exit", rc |-> 0, cmd |-> [name |-> "none"], names |-> {},
          src |-> {}, todo |-> {}, out |-> <<>>]

NewDatabase == [exists |-> FALSE, ledger |-> {}, log |-> <<>>]    \* exists: the ledger's table

Init ==
    /\ disk \in Disks
    /\ db = NewDatabase /\ lock = NoProc /\ tx = NewDatabase
    /\ proc = [p \in Procs |-> Fresh]
    /\ manifests \in ManifestLists
    /\ starts = 0 /\ edits = 0 /\ crashes = 0

At(p, pc) == proc[p].pc = pc
Goes(p, next) == proc' = [proc EXCEPT ![p] = next]
Exited(q, rc) == [q EXCEPT !.pc = "exit", !.rc = rc, !.names = {}, !.todo = {}]

\* The process ends, and SQLite drops its transaction and its lock.
Exit(p, rc) ==
    /\ Goes(p, Exited(proc[p], rc))
    /\ lock' = IF lock = p THEN NoProc ELSE lock
    /\ tx' = IF lock = p THEN NewDatabase ELSE tx

-----------------------------------------------------------------------------
(* The command line *)

OnScratch(c) == c.name \in {"verify", "generate"}

\* What parse_args and main let through.
ParseArgs(c) ==
    /\ OnScratch(c) => ~c.late /\ c.schemas # {}
    /\ c.schemas # {} => OnScratch(c)
    /\ c.dryRun \/ c.renames # <<>> \/ c.file # "" => c.name = "generate"
    /\ c.name = "generate" => c.file # ""

Start(p, c) ==
    /\ At(p, "exit") /\ starts < MaxStarts
    /\ Goes(p, [Fresh EXCEPT !.cmd = c,
                             !.pc = IF ParseArgs(c) THEN "list" ELSE "exit",
                             !.rc = IF ParseArgs(c) THEN 0 ELSE 2])
    /\ starts' = starts + 1
    /\ UNCHANGED <<disk, db, lock, tx, manifests, edits, crashes>>

-----------------------------------------------------------------------------
(* Loading the migrations *)

\* Version and name of a file are those of its path, unless it is misnamed.
ParseFilename(f) == f.kind # "misnamed"

\* All files have been read.
LoadFiles(q) ==
    IF \E m, n \in q.src : m # n /\ m.version = n.version THEN Exited(q, 1)
    ELSE [q EXCEPT !.pc = CASE q.cmd.name = "up" -> "ledger"
                            [] q.cmd.name = "status" -> "plan"
                            [] OTHER -> "scratch"]

\* One file is read; its content is that of this moment.
ReadFile(p) ==
    /\ At(p, "read")
    /\ LET f == Least(proc[p].names)
           m == [version |-> f.version, name |-> f.name, checksum |-> Checksum(disk[f])]
           q == [proc[p] EXCEPT !.names = @ \ {f}, !.src = @ \cup {m}]
       IN Goes(p, IF ~ParseFilename(f) \/ f \notin DOMAIN disk THEN Exited(proc[p], 1)
                  ELSE IF q.names = {} THEN LoadFiles(q) ELSE q)
    /\ UNCHANGED <<disk, db, lock, tx, environment>>

DirList == DOMAIN disk

CollectPaths(p) ==
    /\ At(p, "list")
    /\ LET names == {f \in DirList : f.kind \in {"migration", "misnamed"}}
           q == [proc[p] EXCEPT !.pc = "read", !.names = names]
           unusable == \/ \E f \in DirList : f.kind = "not sql"
                       \/ names = {} /\ q.cmd.name # "generate"
       IN Goes(p, IF unusable THEN Exited(q, 1)
                  ELSE IF names = {} THEN LoadFiles(q) ELSE q)
    /\ UNCHANGED <<disk, db, lock, tx, environment>>

-----------------------------------------------------------------------------
(* The plan *)

State(m, ledger, allow) ==
    IF m.version \in Versions(ledger)
    THEN IF Row(m) \in ledger THEN "applied" ELSE "MODIFIED"
    ELSE IF ~allow /\ \E row \in ledger : m.version < row.version
    THEN "OUT-OF-ORDER" ELSE "pending"

Pending(src, ledger, allow) == {m \in src : State(m, ledger, allow) = "pending"}

HasProblem(src, ledger, allow) ==
    \/ \E m \in src : State(m, ledger, allow) \in {"MODIFIED", "OUT-OF-ORDER"}
    \/ Versions(ledger) \ Versions(src) # {}    \* MISSING

\* Without a ledger, it is created; that takes the write lock for a moment.
EnsureLedger(p) ==
    /\ At(p, "ledger")
    /\ \/ /\ db.exists \/ lock = NoProc
          /\ db' = [db EXCEPT !.exists = TRUE]
          /\ Goes(p, [proc[p] EXCEPT !.pc = "plan"])
          /\ UNCHANGED <<lock, tx>>
       \/ /\ ~db.exists /\ lock # NoProc    \* the busy timeout ends
          /\ Exit(p, 1)
          /\ UNCHANGED db
    /\ UNCHANGED <<disk, environment>>

\* The rows of the ledger at this moment; a database without a ledger has none.
LoadApplied == db.ledger

Plan(p) ==
    /\ At(p, "plan")
    /\ LET q == proc[p]
           todo == Pending(q.src, LoadApplied, q.cmd.late)
       IN Goes(p, IF HasProblem(q.src, LoadApplied, q.cmd.late) THEN Exited(q, 1)
                  ELSE IF q.cmd.name = "status" \/ todo = {} THEN Exited(q, 0)
                  ELSE [q EXCEPT !.pc = "begin", !.todo = todo])
    /\ UNCHANGED <<disk, db, lock, tx, environment>>

-----------------------------------------------------------------------------
(* Applying the plan, a transaction for each migration *)

\* The tables after the migrations of a log.
Schema(log) ==
    LET after[k \in 0 .. Len(log)] ==
            IF k = 0 THEN [t \in Tables |-> <<>>] ELSE RunSql(after[k - 1], log[k].checksum).db
    IN after[Len(log)]

Begin(p) ==
    /\ At(p, "begin")
    /\ \/ /\ lock = NoProc
          /\ lock' = p /\ tx' = db
          /\ Goes(p, [proc[p] EXCEPT !.pc = "record"])
       \/ /\ lock # NoProc    \* the busy timeout ends
          /\ Exit(p, 1)
    /\ UNCHANGED <<disk, db, environment>>

RecordTwice(p) ==    \* mutant: a ledger without its primary key
    /\ At(p, "record")
    /\ tx' = [tx EXCEPT !.ledger = @ \cup {Row(Least(proc[p].todo))}]
    /\ Goes(p, [proc[p] EXCEPT !.pc = "exec"])
    /\ UNCHANGED <<disk, db, lock, environment>>

RecordSkips(p) ==    \* mutant: INSERT OR IGNORE, and on to the next migration
    /\ At(p, "record")
    /\ LET m == Least(proc[p].todo)
           left == proc[p].todo \ {m} IN
        IF m.version \in Versions(tx.ledger)
        THEN IF left = {} THEN Exit(p, 0)
             ELSE /\ lock' = NoProc /\ tx' = NewDatabase
                  /\ Goes(p, [proc[p] EXCEPT !.pc = "begin", !.todo = left])
        ELSE /\ tx' = [tx EXCEPT !.ledger = @ \cup {Row(m)}]
             /\ Goes(p, [proc[p] EXCEPT !.pc = "exec"])
             /\ UNCHANGED lock
    /\ UNCHANGED <<disk, db, environment>>

\* The ledger's primary key rejects a version that is already there.
Record(p) ==
    /\ At(p, "record")
    /\ LET m == Least(proc[p].todo) IN
        IF m.version \in Versions(tx.ledger) THEN Exit(p, 1)
        ELSE /\ tx' = [tx EXCEPT !.ledger = @ \cup {Row(m)}]
             /\ Goes(p, [proc[p] EXCEPT !.pc = "exec"])
             /\ UNCHANGED lock
    /\ UNCHANGED <<disk, db, environment>>

ExecContinues(p) ==    \* mutant: after a failure, on to the next migration
    /\ At(p, "exec")
    /\ LET m == Least(proc[p].todo)
           left == proc[p].todo \ {m} IN
        IF ~RunSql(Schema(tx.log), m.checksum).ok
        THEN IF left = {} THEN Exit(p, 1)
             ELSE /\ lock' = NoProc /\ tx' = NewDatabase
                  /\ Goes(p, [proc[p] EXCEPT !.pc = "begin", !.todo = left])
        ELSE /\ tx' = [tx EXCEPT !.log = Append(@, Row(m))]
             /\ Goes(p, [proc[p] EXCEPT !.pc = "commit"])
             /\ UNCHANGED lock
    /\ UNCHANGED <<disk, db, environment>>

Exec(p) ==
    /\ At(p, "exec")
    /\ LET m == Least(proc[p].todo) IN
        IF ~RunSql(Schema(tx.log), m.checksum).ok THEN Exit(p, 1)
        ELSE /\ tx' = [tx EXCEPT !.log = Append(@, Row(m))]
             /\ Goes(p, [proc[p] EXCEPT !.pc = "commit"])
             /\ UNCHANGED lock
    /\ UNCHANGED <<disk, db, environment>>

Commit(p) ==
    /\ At(p, "commit")
    /\ LET left == proc[p].todo \ {Least(proc[p].todo)} IN
        /\ db' = tx
        /\ lock' = NoProc /\ tx' = NewDatabase
        /\ Goes(p, IF left = {} THEN Exited(proc[p], 0)
                   ELSE [proc[p] EXCEPT !.pc = "begin", !.todo = left])
    /\ UNCHANGED <<disk, environment>>

\* The disk is full, or a reader keeps its lock for too long.
CommitFails(p) ==
    /\ At(p, "commit")
    /\ Exit(p, 1)
    /\ UNCHANGED <<disk, db, environment>>

-----------------------------------------------------------------------------
(* verify and generate, on a database of their own *)

\* The migration that has n others before it
Nth(src, n) == CHOOSE m \in src : Cardinality({o \in src : o.version < m.version}) = n
InOrder(src) == [k \in 1 .. Cardinality(src) |-> Nth(src, k - 1)]

\* What up makes of an empty database.
ApplyOne(run, m) == IF run.ok THEN RunSql(run.db, m.checksum) ELSE run

Replay(src) ==
    LET todo == InOrder(src)
        run[k \in 0 .. Len(todo)] ==
            IF k = 0 THEN [ok |-> TRUE, db |-> [t \in Tables |-> <<>>]]
            ELSE ApplyOne(run[k - 1], todo[k])
    IN run[Len(todo)]

Usable(m) == SpecFromManifest(m) # <<>>
DescribeTable(scratch, table) == scratch[table]
CheckTable(scratch, m) == SpecDiff(SpecFromManifest(m), DescribeTable(scratch, m.table)) = {}
Selected(c) == {manifests[i] : i \in c.schemas \cap DOMAIN manifests}

Verify(p) ==
    /\ At(p, "scratch") /\ proc[p].cmd.name = "verify"
    /\ LET replay == Replay(proc[p].src)
           match == \A m \in Selected(proc[p].cmd) : Usable(m) /\ CheckTable(replay.db, m)
       IN Goes(p, Exited(proc[p], IF replay.ok /\ match THEN 0 ELSE 1))
    /\ UNCHANGED <<disk, db, lock, tx, environment>>

NextVersion(src) == IF src = {} THEN 1 ELSE (CHOOSE v \in Versions(src) :
                                                \A w \in Versions(src) : w <= v) + 1

\* The name of the new file; one that is not usable fails before any work.
FormatFilename(src, name) == Path(NextVersion(src), name, "migration")
ValidName(name) == name \in PlainNames

\* The statements for all manifests, one table after the other.
Sections(c, scratch) ==
    LET gen(m) == GenerateSql(m.table, SpecFromManifest(m), DescribeTable(scratch, m.table),
                              c.renames)
    IN [refused |-> (\E m \in Selected(c) : gen(m).refused)
                    \/ \E i \in DOMAIN c.renames :
                          \A m \in Selected(c) : c.renames[i].table # m.table,
        sql |-> FlattenSeq([i \in DOMAIN manifests |->
                    IF i \in c.schemas THEN gen(manifests[i]).sql ELSE <<>>])]

Generate(p) ==
    /\ At(p, "scratch") /\ proc[p].cmd.name = "generate"
    /\ LET q == proc[p]
           replay == Replay(q.src)
           new == Sections(q.cmd, replay.db)
           checked == RunSql(replay.db, new.sql)
           path == FormatFilename(q.src, q.cmd.file)
           fails == \/ ~ValidName(q.cmd.file)
                    \/ ~replay.ok \/ \E m \in Selected(q.cmd) : ~Usable(m)
                    \/ new.refused
                    \/ new.sql # <<>> /\ \/ ~checked.ok
                                         \/ \E m \in Selected(q.cmd) : ~CheckTable(checked.db, m)
       IN Goes(p, IF fails THEN Exited(q, 1)
                  ELSE IF new.sql = <<>> \/ q.cmd.dryRun THEN Exited(q, 0)
                  ELSE [q EXCEPT !.pc = "exists",
                                 !.out = <<path, Content(new.sql, "lf")>>])
    /\ UNCHANGED <<disk, db, lock, tx, environment>>

FileExists(p) ==
    /\ At(p, "exists")
    /\ Goes(p, IF proc[p].out[1] \in DOMAIN disk THEN Exited(proc[p], 1)
               ELSE [proc[p] EXCEPT !.pc = "open"])
    /\ UNCHANGED <<disk, db, lock, tx, environment>>

\* fopen "wb": the file is there, and empty, until it is closed.
OpenNewFile(p) ==
    /\ At(p, "open")
    /\ disk' = WithFile(proc[p].out[1], Content(<<>>, "lf"))
    /\ Goes(p, [proc[p] EXCEPT !.pc = "write"])
    /\ UNCHANGED <<db, lock, tx, environment>>

WriteNewFile(p) ==
    /\ At(p, "write")
    /\ \/ /\ disk' = WithFile(proc[p].out[1], proc[p].out[2])
          /\ Goes(p, Exited(proc[p], 0))
       \/ /\ Goes(p, Exited(proc[p], 1))    \* the disk is full
          /\ UNCHANGED disk
    /\ UNCHANGED <<db, lock, tx, environment>>

-----------------------------------------------------------------------------
(* Developers and failures *)

Edit(f, c) ==
    /\ edits < MaxEdits
    /\ f \in DOMAIN disk \cup NewPaths
    /\ disk' = WithFile(f, c)
    /\ edits' = edits + 1
    /\ UNCHANGED <<db, lock, tx, proc, manifests, starts, crashes>>

Delete(f) ==
    /\ edits < MaxEdits
    /\ f \in DOMAIN disk
    /\ disk' = [g \in DOMAIN disk \ {f} |-> disk[g]]
    /\ edits' = edits + 1
    /\ UNCHANGED <<db, lock, tx, proc, manifests, starts, crashes>>

Crash(p) ==
    /\ ~At(p, "exit") /\ crashes < MaxCrashes
    /\ Exit(p, 137)
    /\ crashes' = crashes + 1
    /\ UNCHANGED <<disk, db, manifests, starts, edits>>

Step(p) ==
    \/ CollectPaths(p) \/ ReadFile(p)
    \/ EnsureLedger(p) \/ Plan(p)
    \/ Begin(p) \/ Record(p) \/ Exec(p) \/ Commit(p) \/ CommitFails(p)
    \/ Verify(p) \/ Generate(p) \/ FileExists(p) \/ OpenNewFile(p) \/ WriteNewFile(p)

Next ==
    \/ \E p \in Procs : Step(p) \/ Crash(p) \/ \E c \in Commands : Start(p, c)
    \/ \E f \in DOMAIN disk \cup NewPaths : Delete(f) \/ \E c \in Contents : Edit(f, c)

Spec == Init /\ [][Next]_vars

-----------------------------------------------------------------------------
(* Properties *)

Done(p, name) == At(p, "exit") /\ proc[p].cmd.name = name /\ proc[p].rc = 0

\* "Recorded" means "executed", once: the ledger has exactly the migrations whose
\* SQL is in the database, whoever crashed or raced between the two.
AppliedOnce ==
    /\ db.ledger = Range(db.log)
    /\ \A i, j \in DOMAIN db.log : i # j => db.log[i].version # db.log[j].version

\* An up that reports success leaves each of its files recorded, as it read them.
UpToDate ==
    \A p \in Procs : Done(p, "up") => {Row(m) : m \in proc[p].src} \subseteq db.ledger

\* A migration that up commits leaves none of the older files of its run behind:
\* the first failure ends the run.
NothingSkipped ==
    [][\A p \in Procs : Commit(p) =>
          \A m \in proc[p].src :
              m.version <= Least(proc[p].todo).version => Row(m) \in db'.ledger]_vars

\* A migration that generate has written settles every manifest it was given, on
\* top of the files that it read.
GeneratedReconciles ==
    \A p \in Procs :
        Done(p, "generate") /\ proc[p].out # <<>> =>
            LET new == [version |-> proc[p].out[1].version, name |-> proc[p].out[1].name,
                        checksum |-> Checksum(proc[p].out[2])]
                replay == Replay(proc[p].src \cup {new})
            IN /\ replay.ok
               /\ \A m \in Selected(proc[p].cmd) :
                     Range(replay.db[m.table]) = Range(SpecFromManifest(m))

=============================================================================
