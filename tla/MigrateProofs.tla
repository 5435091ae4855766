--------------------------- MODULE MigrateProofs ---------------------------
(***************************************************************************)
(* Proofs about Migrate: the ledger records what was executed, once and in  *)
(* order, a successful up leaves its files recorded, and what generate      *)
(* writes settles the manifests, for any number of processes, files, edits  *)
(* and crashes.                                                             *)
(***************************************************************************)
EXTENDS Migrate, SequenceTheorems, FiniteSetTheorems, WellFoundedInduction, TLAPS

\* The shapes of the records that the steps change
IsDatabase(d) ==
    /\ DOMAIN d = {"exists", "ledger", "log"}
    /\ d.log \in Seq(Range(d.log))
IsProcess(q) ==
    DOMAIN q = {"pc", "rc", "cmd", "names", "src", "todo", "out"}

Shapes ==
    /\ IsDatabase(db) /\ IsDatabase(tx)
    /\ DOMAIN proc = Procs
    /\ \A p \in Procs : IsProcess(proc[p])

\* Only the holder of the write lock is inside a transaction.
InTransaction(p) == proc[p].pc \in {"record", "exec", "commit"}
LockHeld == \A p \in Procs : InTransaction(p) => lock = p

\* How far the transaction has come
Running(p) == Least(proc[p].todo)
Halfway(p) ==
    /\ At(p, "record") => tx.ledger = db.ledger /\ tx.log = db.log
    /\ At(p, "exec") =>
          /\ Running(p).version \notin Versions(db.ledger)
          /\ tx.ledger = db.ledger \cup {Row(Running(p))} /\ tx.log = db.log
    /\ At(p, "commit") =>
          /\ Running(p).version \notin Versions(db.ledger)
          /\ tx.ledger = db.ledger \cup {Row(Running(p))}
          /\ tx.log = Append(db.log, Row(Running(p)))
Transactions == \A p \in Procs : Halfway(p)

IInv == Shapes /\ LockHeld /\ Transactions /\ AppliedOnce

\* What an up that applies its plan still has to do is in todo; when it has ended
\* well, there is nothing of that kind.
Faithful(q, ledger) ==
    /\ q.pc \in {"begin", "record", "exec", "commit"} =>
          \A m \in q.src : Row(m) \in ledger \/ m \in q.todo
    /\ q.pc = "exit" /\ q.rc = 0 /\ q.cmd.name = "up" =>
          \A m \in q.src : Row(m) \in ledger
    /\ q.pc \in {"exists", "open", "write"} => q.cmd.name = "generate"
PlanKept == \A p \in Procs : Faithful(proc[p], db.ledger)

\* Induction in the form of a least counterexample: every set of natural numbers
\* that is not empty has a least member.
LEMMA LeastNumber ==
    ASSUME NEW X \in SUBSET Nat, X # {}
    PROVE  \E n \in X : \A m \in X : n <= m
<1> DEFINE Smaller == {ss \in Nat \X Nat : ss[1] < ss[2]}
<1>1. IsWellFoundedOn(Smaller, Nat)
  BY NatLessThanWellFounded DEF OpToRel
<1>2. \A m, n \in Nat : <<m, n>> \notin Smaller => n <= m
  OBVIOUS
<1> HIDE DEF Smaller
<1>3. PICK n \in X : \A m \in X : <<m, n>> \notin Smaller
  BY <1>1, WFMin
<1> QED BY <1>2, <1>3

\* A finite set of natural numbers that is not empty has a greatest member.
LEMMA GreatestNumber ==
    ASSUME NEW X \in SUBSET Nat, X # {}, IsFiniteSet(X)
    PROVE  \E n \in X : \A m \in X : m <= n
<1> DEFINE Above(n) == X \ (0 .. n)
           T == {Above(n) : n \in X}
           Smaller == StrictSubsetOrdering(X)
<1>1. IsWellFoundedOn(Smaller, FiniteSubsetsOf(X))
    BY FS_StrictSubsetOrderingWellFounded
<1>2. \A n \in X : Above(n) \in FiniteSubsetsOf(X)
    BY FS_Difference DEF FiniteSubsetsOf
<1>3. T \subseteq FiniteSubsetsOf(X) /\ T # {}
    BY <1>2
<1>4. \A m, n \in X : m < n => <<Above(n), Above(m)>> \in Smaller
    <2> SUFFICES ASSUME NEW m \in X, NEW n \in X, m < n
                 PROVE  <<Above(n), Above(m)>> \in Smaller
        OBVIOUS
    <2>1. Above(n) \subseteq Above(m) /\ n \in Above(m) /\ n \notin Above(n)
        OBVIOUS
    <2>2. Above(m) \in SUBSET X /\ Above(n) \in SUBSET X
        OBVIOUS
    <2> HIDE DEF Above
    <2> QED
        BY <2>1, <2>2 DEF StrictSubsetOrdering
<1> HIDE DEF Smaller, Above
<1>5. PICK x \in T : \A y \in T : ~ (<<y, x>> \in Smaller)
    BY <1>1, <1>3, WFMin
<1>6. PICK n \in X : x = Above(n)
    BY <1>5
<1>7. \A m \in X : ~ (n < m)
    BY <1>4, <1>5, <1>6
<1> QED
    BY <1>6, <1>7

-----------------------------------------------------------------------------

\* Appending to a sequence adds one element to its range, at a new place.
LEMMA AppendRange ==
    ASSUME NEW s, s \in Seq(Range(s)), NEW x
    PROVE  /\ Append(s, x) \in Seq(Range(Append(s, x)))
           /\ Range(Append(s, x)) = Range(s) \cup {x}
           /\ \A i \in DOMAIN Append(s, x) :
                 \/ i \in DOMAIN s /\ Append(s, x)[i] = s[i]
                 \/ i \notin DOMAIN s /\ i = Len(s) + 1 /\ Append(s, x)[i] = x
<1> DEFINE t == Append(s, x)
<1>1. /\ Len(s) \in Nat /\ DOMAIN s = 1 .. Len(s)
      /\ t \in Seq(Range(s) \cup {x})
      /\ DOMAIN t = 1 .. (Len(s) + 1) /\ Len(t) = Len(s) + 1
      /\ \A i \in 1 .. Len(s) : t[i] = s[i]
      /\ t[Len(s) + 1] = x
  <2>1. s \in Seq(Range(s) \cup {x}) /\ x \in Range(s) \cup {x}
    OBVIOUS
  <2> QED BY <2>1
<1>2. Range(t) = Range(s) \cup {x}
  BY <1>1 DEF Range
<1>3. \A i \in DOMAIN t : \/ i \in DOMAIN s /\ t[i] = s[i]
                          \/ i \notin DOMAIN s /\ i = Len(s) + 1 /\ t[i] = x
  BY <1>1
<1> QED BY <1>1, <1>2, <1>3

\* The invariant holds initially.
LEMMA InitIInv == Init => IInv /\ PlanKept
<1> SUFFICES ASSUME Init PROVE IInv /\ PlanKept
  OBVIOUS
<1>1. IsDatabase(NewDatabase)
  BY DEF IsDatabase, NewDatabase, Range
<1>2. IsProcess(Fresh) /\ Fresh.pc = "exit" /\ Fresh.src = {}
  BY DEF IsProcess, Fresh
<1>3. Shapes
  BY <1>1, <1>2 DEF Init, Shapes
<1>4. \A p \in Procs : proc[p].pc = "exit" /\ proc[p].src = {}
  BY <1>2 DEF Init
<1>5. AppliedOnce
  BY DEF Init, AppliedOnce, NewDatabase, Range
<1> QED
  BY <1>3, <1>4, <1>5
  DEF IInv, LockHeld, InTransaction, Transactions, Halfway, At, PlanKept, Faithful

\* A step of a process outside any transaction that leaves the database alone.
LEMMA LocalStep ==
    ASSUME IInv, PlanKept, NEW p \in Procs, NEW q, IsProcess(q), Goes(p, q),
           q.pc \notin {"record", "exec", "commit"}, Faithful(q, db.ledger),
           UNCHANGED <<db, lock, tx>>
    PROVE  IInv' /\ PlanKept'
<1>1. Shapes'
  BY DEF IInv, Shapes, Goes, IsDatabase, IsProcess, Range
<1>2. \A r \in Procs : r # p => proc'[r] = proc[r]
  BY DEF IInv, Shapes, Goes
<1>3. proc'[p] = q
  BY DEF IInv, Shapes, Goes
<1>4. LockHeld'
  BY <1>2, <1>3 DEF IInv, LockHeld, InTransaction
<1>5. Transactions'
  BY <1>2, <1>3 DEF IInv, Transactions, Halfway, Running, At
<1>6. AppliedOnce'
  BY DEF IInv, AppliedOnce, Range
<1>7. PlanKept'
  BY <1>2, <1>3 DEF PlanKept
<1> QED BY <1>1, <1>4, <1>5, <1>6, <1>7 DEF IInv

\* The end of a process: its transaction is dropped, those of others go on.
LEMMA ExitStep ==
    ASSUME IInv, PlanKept, NEW p \in Procs, NEW rc, rc # 0, Exit(p, rc), UNCHANGED db
    PROVE  IInv' /\ PlanKept'
<1>1. \A r \in Procs : r # p => proc'[r] = proc[r]
  BY DEF IInv, Shapes, Exit, Goes
<1>2. proc'[p] = Exited(proc[p], rc)
  BY DEF IInv, Shapes, Exit, Goes
<1>3. IsProcess(proc'[p]) /\ proc'[p].pc = "exit" /\ proc'[p].rc = rc
  BY <1>2 DEF IInv, Shapes, Exited, IsProcess
<1>4. IsDatabase(NewDatabase)
  BY DEF IsDatabase, NewDatabase, Range
<1>5. Shapes'
  <2>1. DOMAIN proc' = Procs
    BY DEF IInv, Shapes, Exit, Goes
  <2>2. IsDatabase(db)' /\ IsDatabase(tx)'
    BY <1>4 DEF IInv, Shapes, Exit, IsDatabase, Range
  <2>3. ASSUME NEW r \in Procs PROVE IsProcess(proc'[r])
    BY <1>1, <1>3 DEF IInv, Shapes
  <2> QED BY <2>1, <2>2, <2>3 DEF Shapes, IsProcess
<1>6. LockHeld'
  BY <1>1, <1>3 DEF IInv, LockHeld, InTransaction, Exit
<1>7. Transactions'
  <2>1. ASSUME NEW r \in Procs PROVE Halfway(r)'
    <3>1. CASE r = p
      BY <1>3, <3>1 DEF Halfway, At
    <3>2. CASE r # p /\ ~InTransaction(r)
      BY <1>1, <3>2 DEF Halfway, At, InTransaction
    <3>3. CASE r # p /\ InTransaction(r)
      <4>1. lock = r /\ UNCHANGED tx
        BY <3>3 DEF IInv, LockHeld, Exit
      <4> QED BY <1>1, <3>3, <4>1 DEF IInv, Transactions, Halfway, At, Running
    <3> QED BY <3>1, <3>2, <3>3
  <2> QED BY <2>1 DEF Transactions
<1>8. AppliedOnce'
  BY DEF IInv, AppliedOnce, Range
<1>9. PlanKept'
  BY <1>1, <1>3 DEF PlanKept, Faithful
<1> QED BY <1>5, <1>6, <1>7, <1>8, <1>9 DEF IInv

\* Loading the last file leads to an exit or to the command's first step.
LEMMA LoadedProcess ==
    ASSUME NEW q, IsProcess(q)
    PROVE  /\ IsProcess(LoadFiles(q))
           /\ LoadFiles(q).pc \in {"exit", "ledger", "plan", "scratch"}
           /\ LoadFiles(q).src = q.src /\ LoadFiles(q).cmd = q.cmd
           /\ LoadFiles(q).pc = "exit" => LoadFiles(q).rc = 1
<1>1. CASE \E m, n \in q.src : m # n /\ m.version = n.version
  <2>1. LoadFiles(q) = Exited(q, 1)
    BY <1>1 DEF LoadFiles
  <2> QED BY <2>1 DEF Exited, IsProcess
<1>2. CASE ~\E m, n \in q.src : m # n /\ m.version = n.version
  <2>1. PICK pc \in {"ledger", "plan", "scratch"} : LoadFiles(q) = [q EXCEPT !.pc = pc]
    BY <1>2 DEF LoadFiles
  <2> QED BY <2>1 DEF IsProcess
<1> QED BY <1>1, <1>2

\* An exit with an error is faithful whatever the ledger holds.
LEMMA ErrorIsFaithful ==
    ASSUME NEW q, IsProcess(q), NEW rc, NEW ledger, rc # 0 \/ q.cmd.name # "up"
    PROVE  IsProcess(Exited(q, rc)) /\ Exited(q, rc).pc = "exit"
           /\ Faithful(Exited(q, rc), ledger)
<1> DEFINE e == Exited(q, rc)
<1>1. e = [q EXCEPT !.pc = "exit", !.rc = rc, !.names = {}, !.todo = {}]
  BY DEF Exited
<1>2. IsProcess(e)
  BY <1>1 DEF IsProcess
<1>3. e.pc = "exit" /\ e.rc = rc /\ e.cmd = q.cmd
  BY <1>1 DEF IsProcess
<1> QED BY <1>2, <1>3 DEF Faithful

LEMMA StartStep ==
    ASSUME IInv, PlanKept, NEW p \in Procs, NEW c \in Commands, Start(p, c)
    PROVE  IInv' /\ PlanKept'
<1> DEFINE q == [Fresh EXCEPT !.cmd = c,
                              !.pc = IF ParseArgs(c) THEN "list" ELSE "exit",
                              !.rc = IF ParseArgs(c) THEN 0 ELSE 2]
<1>1. Goes(p, q) /\ UNCHANGED <<db, lock, tx>>
  BY DEF Start
<1>2. IsProcess(q) /\ q.pc \in {"list", "exit"} /\ q.src = {}
  <2>1. IsProcess(Fresh) /\ Fresh.src = {}
    BY DEF Fresh, IsProcess
  <2>2. q.pc = (IF ParseArgs(c) THEN "list" ELSE "exit") /\ q.src = Fresh.src
    BY <2>1 DEF IsProcess
  <2> QED BY <2>1, <2>2 DEF IsProcess
<1>3. Faithful(q, db.ledger)
  BY <1>2 DEF Faithful
<1> HIDE DEF q
<1> QED BY <1>1, <1>2, <1>3, LocalStep

LEMMA CollectPathsStep ==
    ASSUME IInv, PlanKept, NEW p \in Procs, CollectPaths(p)
    PROVE  IInv' /\ PlanKept'
<1> DEFINE names == {f \in DOMAIN disk : f.kind \in {"migration", "misnamed"}}
           q == [proc[p] EXCEPT !.pc = "read", !.names = names]
           unusable == \/ \E f \in DOMAIN disk : f.kind = "not sql"
                       \/ names = {} /\ q.cmd.name # "generate"
           next == IF unusable THEN Exited(q, 1)
                   ELSE IF names = {} THEN LoadFiles(q) ELSE q
<1>1. Goes(p, next) /\ UNCHANGED <<db, lock, tx>>
  BY DEF CollectPaths, DirList
<1>2. IsProcess(q) /\ q.pc = "read"
  <2>1. IsProcess(proc[p])
    BY DEF IInv, Shapes
  <2> QED BY <2>1 DEF IsProcess
<1> HIDE DEF q, unusable, names
<1>3. CASE unusable
  <2>1. /\ IsProcess(Exited(q, 1)) /\ Exited(q, 1).pc = "exit"
        /\ Faithful(Exited(q, 1), db.ledger)
    BY <1>2, ErrorIsFaithful
  <2> QED BY <1>1, <1>3, <2>1, LocalStep
<1>4. CASE ~unusable /\ names = {}
  <2>1. Faithful(LoadFiles(q), db.ledger)
    BY <1>2, LoadedProcess DEF Faithful
  <2> QED BY <1>1, <1>2, <1>4, <2>1, LoadedProcess, LocalStep
<1>5. CASE ~unusable /\ names # {}
  <2>1. Faithful(q, db.ledger)
    BY <1>2 DEF Faithful
  <2> QED BY <1>1, <1>2, <1>5, <2>1, LocalStep
<1> QED BY <1>3, <1>4, <1>5

LEMMA ReadFileStep ==
    ASSUME IInv, PlanKept, NEW p \in Procs, ReadFile(p)
    PROVE  IInv' /\ PlanKept'
<1> DEFINE f == Least(proc[p].names)
           m == [version |-> f.version, name |-> f.name, checksum |-> Checksum(disk[f])]
           q == [proc[p] EXCEPT !.names = @ \ {f}, !.src = @ \cup {m}]
           bad == ~ParseFilename(f) \/ f \notin DOMAIN disk
           next == IF bad THEN Exited(proc[p], 1)
                   ELSE IF q.names = {} THEN LoadFiles(q) ELSE q
<1>1. Goes(p, next) /\ UNCHANGED <<db, lock, tx>>
  BY DEF ReadFile
<1>2. IsProcess(proc[p]) /\ IsProcess(q) /\ q.pc = "read"
  <2>1. IsProcess(proc[p])
    BY DEF IInv, Shapes
  <2>2. proc[p].pc = "read"
    BY DEF ReadFile, At
  <2> QED BY <2>1, <2>2 DEF IsProcess
<1> HIDE DEF q, bad
<1>3. CASE bad
  BY <1>1, <1>2, <1>3, ErrorIsFaithful, LocalStep
<1>4. CASE ~bad /\ q.names = {}
  <2>1. Faithful(LoadFiles(q), db.ledger)
    BY <1>2, LoadedProcess DEF Faithful
  <2> QED BY <1>1, <1>2, <1>4, <2>1, LoadedProcess, LocalStep
<1>5. CASE ~bad /\ q.names # {}
  <2>1. Faithful(q, db.ledger)
    BY <1>2 DEF Faithful
  <2> QED BY <1>1, <1>2, <1>5, <2>1, LocalStep
<1> QED BY <1>3, <1>4, <1>5

\* The ledger's table is created: no row changes.
LEMMA EnsureLedgerStep ==
    ASSUME IInv, PlanKept, NEW p \in Procs, EnsureLedger(p)
    PROVE  IInv' /\ PlanKept'
<1>1. CASE Exit(p, 1) /\ UNCHANGED db
  BY <1>1, ExitStep
<1>2. CASE ~(Exit(p, 1) /\ UNCHANGED db)
  <2> DEFINE q == [proc[p] EXCEPT !.pc = "plan"]
  <2>1. db' = [db EXCEPT !.exists = TRUE] /\ Goes(p, q) /\ UNCHANGED <<lock, tx>>
    BY <1>2 DEF EnsureLedger
  <2>2. IsProcess(q) /\ q.pc = "plan"
    BY DEF IInv, Shapes, IsProcess
  <2>3. db'.ledger = db.ledger /\ db'.log = db.log /\ IsDatabase(db')
    BY <2>1 DEF IInv, Shapes, IsDatabase
  <2> HIDE DEF q
  <2>4. proc'[p] = q /\ DOMAIN proc' = Procs /\ \A r \in Procs : r # p => proc'[r] = proc[r]
    BY <2>1 DEF Goes, IInv, Shapes
  <2>5. Shapes'
    BY <2>1, <2>2, <2>3, <2>4 DEF IInv, Shapes, IsProcess, IsDatabase, Range
  <2>6. LockHeld'
    BY <2>1, <2>2, <2>4 DEF IInv, LockHeld, InTransaction
  <2>7. Transactions'
    BY <2>1, <2>2, <2>3, <2>4 DEF IInv, Transactions, Halfway, Running, At
  <2>8. AppliedOnce'
    BY <2>3 DEF IInv, AppliedOnce, Range
  <2>9. PlanKept'
    BY <2>2, <2>3, <2>4 DEF PlanKept, Faithful
  <2> QED BY <2>5, <2>6, <2>7, <2>8, <2>9 DEF IInv
<1> QED BY <1>1, <1>2

\* What a plan without a problem does not apply is in the ledger.
LEMMA PlanStep ==
    ASSUME IInv, PlanKept, NEW p \in Procs, Plan(p)
    PROVE  IInv' /\ PlanKept'
<1> DEFINE q == proc[p]
           todo == Pending(q.src, db.ledger, q.cmd.late)
           problem == HasProblem(q.src, db.ledger, q.cmd.late)
           busy == [q EXCEPT !.pc = "begin", !.todo = todo]
           next == IF problem THEN Exited(q, 1)
                   ELSE IF q.cmd.name = "status" \/ todo = {} THEN Exited(q, 0)
                   ELSE busy
<1>1. Goes(p, next) /\ UNCHANGED <<db, lock, tx>>
  BY DEF Plan, LoadApplied
<1>2. IsProcess(q)
  BY DEF IInv, Shapes
<1>3. ASSUME ~problem, NEW m \in q.src PROVE Row(m) \in db.ledger \/ m \in todo
  BY <1>3 DEF HasProblem, Pending, State
<1>4. /\ IsProcess(busy) /\ busy.pc = "begin" /\ busy.src = q.src /\ busy.todo = todo
  BY <1>2 DEF IsProcess
<1>5. ASSUME NEW rc
      PROVE  /\ IsProcess(Exited(q, rc)) /\ Exited(q, rc).pc = "exit"
             /\ Exited(q, rc).rc = rc
             /\ Exited(q, rc).src = q.src /\ Exited(q, rc).cmd = q.cmd
  BY <1>2 DEF IsProcess, Exited
<1> HIDE DEF q, todo, problem, busy
<1>6. CASE problem
  <2>1. Faithful(Exited(q, 1), db.ledger)
    BY <1>2, ErrorIsFaithful
  <2> QED BY <1>1, <1>5, <1>6, <2>1, LocalStep
<1>7. CASE ~problem /\ (q.cmd.name = "status" \/ todo = {})
  <2>1. Faithful(Exited(q, 0), db.ledger)
    BY <1>3, <1>5, <1>7 DEF Faithful
  <2> QED BY <1>1, <1>5, <1>7, <2>1, LocalStep
<1>8. CASE ~problem /\ ~(q.cmd.name = "status" \/ todo = {})
  <2>1. Faithful(busy, db.ledger)
    BY <1>3, <1>4, <1>8 DEF Faithful
  <2> QED BY <1>1, <1>4, <1>8, <2>1, LocalStep
<1> QED BY <1>6, <1>7, <1>8

\* A step into or inside the transaction of p, which changes tx only.
LEMMA TransactionStep ==
    ASSUME IInv, PlanKept, NEW p \in Procs, NEW pc \in {"record", "exec", "commit"},
           lock' = p, lock = p \/ lock = NoProc, MigrateAssumption,
           Goes(p, [proc[p] EXCEPT !.pc = pc]), InTransaction(p) \/ At(p, "begin"),
           UNCHANGED db, IsDatabase(tx'), Halfway(p)'
    PROVE  IInv' /\ PlanKept'
<1>1. /\ proc'[p] = [proc[p] EXCEPT !.pc = pc] /\ DOMAIN proc' = Procs
      /\ \A r \in Procs : r # p => proc'[r] = proc[r]
  BY DEF Goes, IInv, Shapes
<1>2. /\ IsProcess(proc'[p]) /\ proc'[p].pc = pc /\ proc'[p].src = proc[p].src
      /\ proc'[p].todo = proc[p].todo
  BY <1>1 DEF IInv, Shapes, IsProcess
<1>3. Shapes'
  <2>1. \A r \in Procs : IsProcess(proc'[r])
    BY <1>1, <1>2 DEF IInv, Shapes
  <2>2. IsDatabase(db)' /\ IsDatabase(tx)'
    BY DEF IInv, Shapes, IsDatabase, Range
  <2> QED BY <1>1, <2>1, <2>2 DEF Shapes, IsProcess
<1>4. LockHeld'
  BY <1>1, <1>2 DEF IInv, LockHeld, InTransaction
<1>5. Transactions'
  <2>1. ASSUME NEW r \in Procs, r # p PROVE Halfway(r)'
    BY <1>1, <2>1 DEF IInv, LockHeld, InTransaction, Halfway, At
  <2> QED BY <2>1 DEF Transactions
<1>6. AppliedOnce'
  BY DEF IInv, AppliedOnce, Range
<1>7. PlanKept'
  <2>1. Faithful(proc'[p], db'.ledger)
    BY <1>2 DEF PlanKept, Faithful, InTransaction, At
  <2> QED BY <1>1, <2>1 DEF PlanKept
<1> QED BY <1>3, <1>4, <1>5, <1>6, <1>7 DEF IInv

LEMMA BeginStep ==
    ASSUME IInv, PlanKept, MigrateAssumption, NEW p \in Procs, Begin(p)
    PROVE  IInv' /\ PlanKept'
<1>1. CASE Exit(p, 1)
  BY <1>1, ExitStep DEF Begin
<1>2. CASE ~Exit(p, 1)
  <2>1. /\ At(p, "begin") /\ lock = NoProc /\ lock' = p /\ tx' = db
        /\ Goes(p, [proc[p] EXCEPT !.pc = "record"]) /\ UNCHANGED db
    BY <1>2 DEF Begin
  <2>2. IsDatabase(tx')
    BY <2>1 DEF IInv, Shapes
  <2>3. proc'[p].pc = "record"
    BY <2>1 DEF Goes, IInv, Shapes, IsProcess
  <2>4. Halfway(p)'
    BY <2>1, <2>3 DEF Halfway, At
  <2> QED BY <2>1, <2>2, <2>4, TransactionStep
<1> QED BY <1>1, <1>2

LEMMA RecordStep ==
    ASSUME IInv, PlanKept, MigrateAssumption, NEW p \in Procs, Record(p)
    PROVE  IInv' /\ PlanKept'
<1> DEFINE m == Least(proc[p].todo)
<1>1. CASE m.version \in Versions(tx.ledger)
  BY <1>1, ExitStep DEF Record
<1>2. CASE m.version \notin Versions(tx.ledger)
  <2>1. /\ At(p, "record") /\ tx' = [tx EXCEPT !.ledger = @ \cup {Row(m)}]
        /\ Goes(p, [proc[p] EXCEPT !.pc = "exec"]) /\ UNCHANGED <<db, lock>>
    BY <1>2 DEF Record
  <2>2. lock = p /\ tx.ledger = db.ledger /\ tx.log = db.log
    BY <2>1 DEF IInv, LockHeld, InTransaction, Transactions, Halfway, At
  <2>3. tx'.ledger = db.ledger \cup {Row(m)} /\ tx'.log = db.log /\ IsDatabase(tx')
    BY <2>1, <2>2 DEF IInv, Shapes, IsDatabase
  <2>4. proc'[p].pc = "exec" /\ proc'[p].todo = proc[p].todo
    BY <2>1 DEF Goes, IInv, Shapes, IsProcess
  <2>5. Halfway(p)'
    BY <1>2, <2>1, <2>2, <2>3, <2>4 DEF Halfway, At, Running
  <2>6. InTransaction(p) /\ lock' = p
    BY <2>1, <2>2 DEF InTransaction, At
  <2> QED BY <2>1, <2>2, <2>3, <2>5, <2>6, TransactionStep
<1> QED BY <1>1, <1>2

LEMMA ExecStep ==
    ASSUME IInv, PlanKept, MigrateAssumption, NEW p \in Procs, Exec(p)
    PROVE  IInv' /\ PlanKept'
<1> DEFINE m == Least(proc[p].todo)
<1>1. CASE ~RunSql(Schema(tx.log), m.checksum).ok
  BY <1>1, ExitStep DEF Exec
<1>2. CASE RunSql(Schema(tx.log), m.checksum).ok
  <2>1. /\ At(p, "exec") /\ tx' = [tx EXCEPT !.log = Append(@, Row(m))]
        /\ Goes(p, [proc[p] EXCEPT !.pc = "commit"]) /\ UNCHANGED <<db, lock>>
    BY <1>2 DEF Exec
  <2>2. /\ lock = p /\ m.version \notin Versions(db.ledger)
        /\ tx.ledger = db.ledger \cup {Row(m)} /\ tx.log = db.log
    BY <2>1 DEF IInv, LockHeld, InTransaction, Transactions, Halfway, At, Running
  <2>3. /\ tx'.ledger = db.ledger \cup {Row(m)} /\ tx'.log = Append(db.log, Row(m))
        /\ DOMAIN tx' = {"exists", "ledger", "log"}
    BY <2>1, <2>2 DEF IInv, Shapes, IsDatabase
  <2>4. IsDatabase(tx')
    BY <2>3, AppendRange DEF IInv, Shapes, IsDatabase
  <2>5. proc'[p].pc = "commit" /\ proc'[p].todo = proc[p].todo
    BY <2>1 DEF Goes, IInv, Shapes, IsProcess
  <2>6. Halfway(p)'
    BY <2>1, <2>2, <2>3, <2>5 DEF Halfway, At, Running
  <2>7. InTransaction(p) /\ lock' = p
    BY <2>1, <2>2 DEF InTransaction, At
  <2> QED BY <2>1, <2>2, <2>4, <2>6, <2>7, TransactionStep
<1> QED BY <1>1, <1>2

\* The ledger and the log grow by the same row, whose version is new.
LEMMA CommitStep ==
    ASSUME IInv, PlanKept, MigrateAssumption, NEW p \in Procs, Commit(p)
    PROVE  IInv' /\ PlanKept'
<1> DEFINE m == Least(proc[p].todo)
           left == proc[p].todo \ {m}
           busy == [proc[p] EXCEPT !.pc = "begin", !.todo = left]
           next == IF left = {} THEN Exited(proc[p], 0) ELSE busy
<1>1. /\ At(p, "commit") /\ db' = tx /\ lock' = NoProc /\ tx' = NewDatabase
      /\ Goes(p, next)
  BY DEF Commit
<1>2. /\ lock = p /\ m.version \notin Versions(db.ledger)
      /\ db'.ledger = db.ledger \cup {Row(m)} /\ db'.log = Append(db.log, Row(m))
  BY <1>1 DEF IInv, LockHeld, InTransaction, Transactions, Halfway, At, Running
<1>3. proc'[p] = next /\ DOMAIN proc' = Procs /\ \A r \in Procs : r # p => proc'[r] = proc[r]
  BY <1>1 DEF Goes, IInv, Shapes
<1>4. /\ IsProcess(next) /\ next.pc \in {"exit", "begin"} /\ next.src = proc[p].src
      /\ next.pc = "begin" => next.todo = left
      /\ next.pc = "exit" => left = {}
  <2>1. IsProcess(proc[p])
    BY DEF IInv, Shapes
  <2>2. CASE left = {}
    BY <2>1, <2>2 DEF Exited, IsProcess
  <2>3. CASE left # {}
    BY <2>1, <2>3 DEF IsProcess
  <2> QED BY <2>2, <2>3
<1> HIDE DEF next, left, busy
<1>5. Shapes'
  <2>1. \A r \in Procs : IsProcess(proc'[r])
    BY <1>3, <1>4 DEF IInv, Shapes
  <2>2. IsDatabase(db)' /\ IsDatabase(tx)'
    BY <1>1 DEF IInv, Shapes, IsDatabase, NewDatabase, Range
  <2> QED BY <1>3, <2>1, <2>2 DEF Shapes, IsProcess
<1>6. \A r \in Procs : r # p => ~InTransaction(r)
  BY <1>2 DEF IInv, LockHeld
<1>7. \A r \in Procs : proc'[r].pc \notin {"record", "exec", "commit"}
  BY <1>3, <1>4, <1>6 DEF InTransaction
<1>8. LockHeld' /\ Transactions'
  BY <1>7 DEF LockHeld, InTransaction, Transactions, Halfway, At
<1>9. AppliedOnce'
  <2>1. db'.ledger = Range(db'.log)
    BY <1>2, AppendRange DEF IInv, Shapes, IsDatabase, AppliedOnce
  <2>2. ASSUME NEW i \in DOMAIN db.log PROVE db.log[i].version # m.version
    BY <1>2 DEF IInv, AppliedOnce, Range, Versions, Row
  <2>3. Row(m).version = m.version
    BY DEF Row
  <2>4. \A i \in DOMAIN db'.log :
           \/ i \in DOMAIN db.log /\ db'.log[i] = db.log[i]
           \/ i \notin DOMAIN db.log /\ i = Len(db.log) + 1 /\ db'.log[i] = Row(m)
    BY <1>2, AppendRange DEF IInv, Shapes, IsDatabase
  <2>5. ASSUME NEW i \in DOMAIN db'.log, NEW j \in DOMAIN db'.log, i # j
        PROVE  db'.log[i].version # db'.log[j].version
    BY <2>2, <2>3, <2>4, <2>5 DEF IInv, AppliedOnce
  <2>6. \A i, j \in DOMAIN db'.log : i # j => db'.log[i].version # db'.log[j].version
    BY <2>5
  <2> QED BY <2>1, <2>6 DEF AppliedOnce, Range
<1>10. PlanKept'
  <2>1. \A x \in proc[p].src : Row(x) \in db.ledger \/ x \in proc[p].todo
    BY <1>1 DEF PlanKept, Faithful, At
  <2>2. ASSUME NEW x \in proc[p].src PROVE Row(x) \in db'.ledger \/ x \in left
    BY <1>2, <2>1 DEF left
  <2>3. Faithful(proc'[p], db'.ledger)
    BY <1>3, <1>4, <2>2 DEF Faithful
  <2>4. ASSUME NEW r \in Procs, r # p PROVE Faithful(proc'[r], db'.ledger)
    BY <1>2, <1>3, <2>4 DEF PlanKept, Faithful
  <2> QED BY <2>3, <2>4 DEF PlanKept
<1> QED BY <1>5, <1>8, <1>9, <1>10 DEF IInv

\* verify and generate work on a database of their own.
LEMMA ScratchStep ==
    ASSUME IInv, PlanKept, NEW p \in Procs,
           Verify(p) \/ Generate(p) \/ FileExists(p) \/ OpenNewFile(p) \/ WriteNewFile(p)
    PROVE  IInv' /\ PlanKept'
<1> DEFINE q == proc[p]
           onto(pc) == [q EXCEPT !.pc = pc]
<1>1. IsProcess(q) /\ UNCHANGED <<db, lock, tx>>
  BY DEF IInv, Shapes, Verify, Generate, FileExists, OpenNewFile, WriteNewFile
<1>2. q.cmd.name # "up"
  BY DEF PlanKept, Faithful, Verify, Generate, FileExists, OpenNewFile, WriteNewFile, At
<1>3. ASSUME NEW rc, Goes(p, Exited(q, rc)) PROVE IInv' /\ PlanKept'
  <2>1. /\ IsProcess(Exited(q, rc)) /\ Exited(q, rc).pc = "exit"
        /\ Faithful(Exited(q, rc), db.ledger)
    BY <1>1, <1>2, ErrorIsFaithful
  <2> QED BY <1>1, <1>3, <2>1, LocalStep
<1>4. ASSUME NEW next, Goes(p, next), IsProcess(next), next.cmd.name = "generate",
             next.pc \in {"exists", "open", "write"}
      PROVE  IInv' /\ PlanKept'
  <2>1. Faithful(next, db.ledger)
    BY <1>4 DEF Faithful
  <2> QED BY <1>1, <1>4, <2>1, LocalStep
<1>5. CASE Verify(p)
  BY <1>3, <1>5 DEF Verify
<1>6. CASE Generate(p)
  <2>1. q.cmd.name = "generate"
    BY <1>6 DEF Generate
  <2>2. ASSUME NEW out PROVE LET next == [q EXCEPT !.pc = "exists", !.out = out]
                             IN IsProcess(next) /\ next.cmd = q.cmd /\ next.pc = "exists"
    BY <1>1 DEF IsProcess
  <2>3. \/ \E rc : Goes(p, Exited(q, rc))
        \/ \E out : Goes(p, [q EXCEPT !.pc = "exists", !.out = out])
    BY <1>6 DEF Generate
  <2> QED BY <1>3, <1>4, <2>1, <2>2, <2>3
<1>7. CASE FileExists(p)
  <2>1. q.cmd.name = "generate"
    BY <1>7 DEF FileExists, At, PlanKept, Faithful
  <2>2. IsProcess(onto("open")) /\ onto("open").cmd = q.cmd /\ onto("open").pc = "open"
    BY <1>1 DEF IsProcess
  <2>3. Goes(p, Exited(q, 1)) \/ Goes(p, onto("open"))
    BY <1>7 DEF FileExists
  <2> QED BY <1>3, <1>4, <2>1, <2>2, <2>3
<1>8. CASE OpenNewFile(p)
  <2>1. q.cmd.name = "generate"
    BY <1>8 DEF OpenNewFile, At, PlanKept, Faithful
  <2>2. IsProcess(onto("write")) /\ onto("write").cmd = q.cmd /\ onto("write").pc = "write"
    BY <1>1 DEF IsProcess
  <2>3. Goes(p, onto("write"))
    BY <1>8 DEF OpenNewFile
  <2> QED BY <1>4, <2>1, <2>2, <2>3
<1>9. CASE WriteNewFile(p)
  BY <1>3, <1>9 DEF WriteNewFile
<1> QED BY <1>5, <1>6, <1>7, <1>8, <1>9

\* Every step keeps the invariant.
LEMMA NextIInv == IInv /\ PlanKept /\ [Next]_vars => IInv' /\ PlanKept'
<1> SUFFICES ASSUME IInv, PlanKept, [Next]_vars PROVE IInv' /\ PlanKept'
  OBVIOUS
<1> USE MigrateAssumption
<1>1. CASE UNCHANGED <<db, lock, tx, proc>>
  <2>1. Shapes'
    BY <1>1 DEF IInv, Shapes, IsDatabase, IsProcess, Range
  <2>2. LockHeld'
    BY <1>1 DEF IInv, LockHeld, InTransaction
  <2>3. Transactions'
    BY <1>1 DEF IInv, Transactions, Halfway, Running, At
  <2>4. AppliedOnce'
    BY <1>1 DEF IInv, AppliedOnce, Range
  <2>5. PlanKept'
    BY <1>1 DEF PlanKept
  <2> QED BY <2>1, <2>2, <2>3, <2>4, <2>5 DEF IInv
<1>2. CASE UNCHANGED vars
  BY <1>1, <1>2 DEF vars
<1>3. ASSUME NEW f, NEW c, Delete(f) \/ Edit(f, c) PROVE IInv' /\ PlanKept'
  BY <1>1, <1>3 DEF Delete, Edit
<1>4. ASSUME NEW p \in Procs, NEW c \in Commands, Start(p, c) PROVE IInv' /\ PlanKept'
  BY <1>4, StartStep
<1>5. ASSUME NEW p \in Procs, Crash(p) PROVE IInv' /\ PlanKept'
  BY <1>5, ExitStep DEF Crash
<1>6. ASSUME NEW p \in Procs, CommitFails(p) PROVE IInv' /\ PlanKept'
  BY <1>6, ExitStep DEF CommitFails
<1>7. ASSUME NEW p \in Procs, Step(p) PROVE IInv' /\ PlanKept'
  BY <1>6, <1>7, CollectPathsStep, ReadFileStep, EnsureLedgerStep, PlanStep, BeginStep,
     RecordStep, ExecStep, CommitStep, ScratchStep DEF Step
<1> QED BY <1>2, <1>3, <1>4, <1>5, <1>7 DEF Next

\* Whatever races or dies, a migration is recorded if and only if its SQL was
\* executed, and no version is executed twice.
THEOREM AppliedOnceAlways == Spec => []AppliedOnce
<1>1. IInv => AppliedOnce
  BY DEF IInv
<1> QED BY <1>1, InitIInv, NextIInv, PTL DEF Spec

\* After an up that reports success, every file that it read is recorded as it
\* was read.
THEOREM UpToDateAlways == Spec => []UpToDate
<1>1. PlanKept => UpToDate
  BY DEF PlanKept, Faithful, UpToDate, Done, At
<1> QED BY <1>1, InitIInv, NextIInv, PTL DEF Spec

-----------------------------------------------------------------------------
(* The order of the files *)

\* The versions of the files that a process has read, and its plan
Planned(q) ==
    /\ Versions(q.src) \in SUBSET Nat /\ IsFiniteSet(Versions(q.src))
    /\ q.pc \in {"ledger", "plan", "begin", "record", "exec", "commit"} =>
          \A m, n \in q.src : m.version = n.version => m = n
    /\ q.pc \in {"begin", "record", "exec", "commit"} =>
          q.todo # {} /\ q.todo \subseteq q.src
    /\ q.pc \in {"exists", "open", "write"} => q.out[1].version \in Nat

FilesInv ==
    /\ \A f \in DOMAIN disk : f.version \in Nat
    /\ \A p \in Procs : Planned(proc[p])

\* What Least chooses among the files of a plan.
LEMMA LeastProperties ==
    ASSUME NEW S, S # {}, Versions(S) \in SUBSET Nat
    PROVE  Least(S) \in S /\ \A n \in S : Least(S).version <= n.version
<1>1. Versions(S) # {}
  BY DEF Versions
<1>2. PICK v \in Versions(S) : \A w \in Versions(S) : v <= w
  BY <1>1, LeastNumber
<1>3. \E m \in S : \A n \in S : m.version <= n.version
  BY <1>2 DEF Versions
<1> QED BY <1>3 DEF Least

\* bb_migrate_next_version is after all versions, and a version itself.
LEMMA NextVersionType ==
    ASSUME NEW S, Versions(S) \in SUBSET Nat, IsFiniteSet(Versions(S))
    PROVE  NextVersion(S) \in Nat /\ \A v \in Versions(S) : v < NextVersion(S)
<1>1. CASE S = {}
  BY <1>1 DEF NextVersion, Versions
<1>2. CASE S # {}
  <2> DEFINE last == CHOOSE v \in Versions(S) : \A w \in Versions(S) : w <= v
  <2>1. Versions(S) # {}
    BY <1>2 DEF Versions
  <2>2. \E v \in Versions(S) : \A w \in Versions(S) : w <= v
    BY <2>1, GreatestNumber
  <2>3. last \in Versions(S) /\ \A w \in Versions(S) : w <= last
    BY <2>2
  <2>4. NextVersion(S) = last + 1
    BY <1>2 DEF NextVersion
  <2> HIDE DEF last
  <2>5. last \in Nat
    BY <2>3
  <2>6. \A v \in Versions(S) : v \in Nat
    OBVIOUS
  <2> QED BY <2>3, <2>4, <2>5, <2>6
<1> QED BY <1>1, <1>2

LEMMA InitFiles == Init => FilesInv
<1> SUFFICES ASSUME Init PROVE FilesInv
  OBVIOUS
<1>1. \A f \in DOMAIN disk : f.version \in Nat
  BY FilesAssumption DEF Init
<1>2. ASSUME NEW p \in Procs PROVE Planned(proc[p])
  <2>1. proc[p].src = {} /\ proc[p].pc = "exit"
    BY DEF Init, Fresh
  <2>2. Versions(proc[p].src) = {}
    BY <2>1 DEF Versions
  <2>3. IsFiniteSet({})
    BY FS_EmptySet
  <2> QED BY <2>1, <2>2, <2>3 DEF Planned
<1> QED BY <1>1, <1>2 DEF FilesInv

\* A step of one process.
LEMMA FilesStep ==
    ASSUME IInv, FilesInv, NEW p \in Procs, NEW q, Planned(q), Goes(p, q),
           \A f \in DOMAIN disk' : f.version \in Nat
    PROVE  FilesInv'
<1>1. \A r \in Procs : proc'[r] = IF r = p THEN q ELSE proc[r]
  BY DEF IInv, Shapes, Goes
<1> QED BY <1>1 DEF FilesInv, Planned

LEMMA ExitedPlanned ==
    ASSUME NEW q, IsProcess(q), Planned(q), NEW rc
    PROVE  Planned(Exited(q, rc))
<1>1. Exited(q, rc).pc = "exit" /\ Exited(q, rc).src = q.src
  BY DEF Exited, IsProcess
<1> QED BY <1>1 DEF Planned

\* On to another step with the same files and the same plan.
LEMMA GoesOnPlanned ==
    ASSUME NEW q, IsProcess(q), Planned(q),
           NEW pc \in {"read", "ledger", "plan", "record", "exec", "commit", "scratch",
                       "open", "write"},
           pc \in {"ledger", "plan"} =>
              \A m, n \in q.src : m.version = n.version => m = n,
           pc \in {"record", "exec", "commit"} => q.pc \in {"begin", "record", "exec"},
           pc \in {"open", "write"} => q.pc \in {"exists", "open"}
    PROVE  Planned([q EXCEPT !.pc = pc])
<1> DEFINE n == [q EXCEPT !.pc = pc]
<1>1. n.pc = pc /\ n.src = q.src /\ n.todo = q.todo /\ n.out = q.out
  BY DEF IsProcess
<1> HIDE DEF n
<1>2. Planned(n)
  BY <1>1 DEF Planned
<1> QED BY <1>2 DEF n

\* After the last file: versions are unique, or the process ends.
LEMMA LoadedPlanned ==
    ASSUME NEW q, IsProcess(q), Planned(q)
    PROVE  Planned(LoadFiles(q))
<1>1. CASE \E m, n \in q.src : m # n /\ m.version = n.version
  BY <1>1, ExitedPlanned DEF LoadFiles
<1>2. CASE ~\E m, n \in q.src : m # n /\ m.version = n.version
  <2>1. PICK pc \in {"ledger", "plan", "scratch"} : LoadFiles(q) = [q EXCEPT !.pc = pc]
    BY <1>2 DEF LoadFiles
  <2>2. \A m, n \in q.src : m.version = n.version => m = n
    BY <1>2
  <2>3. pc \notin {"record", "exec", "commit", "open", "write"}
    BY <2>1
  <2>4. pc \in {"read", "ledger", "plan", "record", "exec", "commit", "scratch", "open",
                "write"}
    BY <2>1
  <2>5. Planned([q EXCEPT !.pc = pc])
    BY <2>2, <2>3, <2>4, GoesOnPlanned
  <2> QED BY <2>1, <2>5
<1> QED BY <1>1, <1>2

LEMMA CollectPathsFiles ==
    ASSUME IInv, FilesInv, NEW p \in Procs, CollectPaths(p)
    PROVE  FilesInv'
<1> DEFINE names == {f \in DOMAIN disk : f.kind \in {"migration", "misnamed"}}
           q == [proc[p] EXCEPT !.pc = "read", !.names = names]
           unusable == \/ \E f \in DOMAIN disk : f.kind = "not sql"
                       \/ names = {} /\ q.cmd.name # "generate"
           next == IF unusable THEN Exited(q, 1)
                   ELSE IF names = {} THEN LoadFiles(q) ELSE q
<1>1. Goes(p, next) /\ UNCHANGED disk
  BY DEF CollectPaths, DirList
<1>2. IsProcess(q) /\ q.pc = "read" /\ q.src = proc[p].src
  BY DEF IInv, Shapes, IsProcess
<1> HIDE DEF q, unusable, names
<1>3. Planned(q)
  BY <1>2 DEF FilesInv, Planned
<1>4. Planned(next)
  BY <1>2, <1>3, ExitedPlanned, LoadedPlanned
<1> HIDE DEF next
<1> QED BY <1>1, <1>4, FilesStep DEF FilesInv

LEMMA ReadFileFiles ==
    ASSUME IInv, FilesInv, NEW p \in Procs, ReadFile(p)
    PROVE  FilesInv'
<1> DEFINE f == Least(proc[p].names)
           m == [version |-> f.version, name |-> f.name, checksum |-> Checksum(disk[f])]
           q == [proc[p] EXCEPT !.names = @ \ {f}, !.src = @ \cup {m}]
           bad == ~ParseFilename(f) \/ f \notin DOMAIN disk
           next == IF bad THEN Exited(proc[p], 1)
                   ELSE IF q.names = {} THEN LoadFiles(q) ELSE q
<1>1. Goes(p, next) /\ UNCHANGED disk
  BY DEF ReadFile
<1>2. IsProcess(proc[p]) /\ Planned(proc[p])
  BY DEF IInv, Shapes, FilesInv
<1>3. IsProcess(q) /\ q.pc = "read" /\ q.src = proc[p].src \cup {m}
  BY <1>2 DEF IsProcess, ReadFile, At
<1>4. m.version = f.version
  OBVIOUS
<1>5. ~bad => f.version \in Nat
  BY DEF FilesInv
<1> HIDE DEF q, bad, m, f
<1>6. CASE bad
  <2>1. Planned(next)
    BY <1>2, <1>6, ExitedPlanned
  <2> HIDE DEF next
  <2> QED BY <1>1, <2>1, FilesStep DEF FilesInv
<1>7. CASE ~bad
  <2>1. Versions(q.src) = Versions(proc[p].src) \cup {f.version}
    BY <1>3, <1>4 DEF Versions
  <2>2. Versions(q.src) \in SUBSET Nat /\ IsFiniteSet(Versions(q.src))
    BY <1>2, <1>5, <1>7, <2>1, FS_AddElement DEF Planned
  <2>3. Planned(q)
    BY <1>3, <2>2 DEF Planned
  <2>4. Planned(next)
    BY <1>3, <1>7, <2>3, LoadedPlanned
  <2> HIDE DEF next
  <2> QED BY <1>1, <2>4, FilesStep DEF FilesInv
<1> QED BY <1>6, <1>7

LEMMA PlanFiles ==
    ASSUME IInv, FilesInv, NEW p \in Procs, Plan(p)
    PROVE  FilesInv'
<1> DEFINE q == proc[p]
           todo == Pending(q.src, db.ledger, q.cmd.late)
           problem == HasProblem(q.src, db.ledger, q.cmd.late)
           busy == [q EXCEPT !.pc = "begin", !.todo = todo]
           next == IF problem THEN Exited(q, 1)
                   ELSE IF q.cmd.name = "status" \/ todo = {} THEN Exited(q, 0)
                   ELSE busy
<1>1. Goes(p, next) /\ UNCHANGED disk /\ q.pc = "plan"
  BY DEF Plan, LoadApplied, At
<1>2. IsProcess(q) /\ Planned(q)
  BY DEF IInv, Shapes, FilesInv
<1>3. todo \subseteq q.src
  BY DEF Pending
<1>4. /\ busy.pc = "begin" /\ busy.src = q.src /\ busy.todo = todo
  BY <1>2 DEF IsProcess
<1> HIDE DEF q, todo, problem, busy
<1>5. todo # {} => Planned(busy)
  BY <1>1, <1>2, <1>3, <1>4 DEF Planned
<1>6. Planned(next)
  BY <1>2, <1>5, ExitedPlanned
<1> HIDE DEF next
<1> QED BY <1>1, <1>6, FilesStep DEF FilesInv

LEMMA TransactionFiles ==
    ASSUME IInv, FilesInv, NEW p \in Procs,
           EnsureLedger(p) \/ Begin(p) \/ Record(p) \/ Exec(p) \/ Commit(p) \/ CommitFails(p)
    PROVE  FilesInv'
<1>1. IsProcess(proc[p]) /\ Planned(proc[p])
  BY DEF IInv, Shapes, FilesInv
<1>2. \A f \in DOMAIN disk' : f.version \in Nat
  BY DEF FilesInv, EnsureLedger, Begin, Record, Exec, Commit, CommitFails
<1>3. ASSUME NEW rc, Goes(p, Exited(proc[p], rc)) PROVE FilesInv'
  BY <1>1, <1>2, <1>3, ExitedPlanned, FilesStep
<1>4. ASSUME NEW pc, Goes(p, [proc[p] EXCEPT !.pc = pc]),
             \/ pc = "plan" /\ proc[p].pc = "ledger"
             \/ pc = "record" /\ proc[p].pc = "begin"
             \/ pc = "exec" /\ proc[p].pc = "record"
             \/ pc = "commit" /\ proc[p].pc = "exec"
      PROVE  FilesInv'
  <2>1. Planned([proc[p] EXCEPT !.pc = pc])
    BY <1>1, <1>4, GoesOnPlanned DEF Planned
  <2> QED BY <1>2, <1>4, <2>1, FilesStep
<1>5. CASE EnsureLedger(p)
  BY <1>3, <1>4, <1>5 DEF EnsureLedger, Exit, At
<1>6. CASE Begin(p)
  BY <1>3, <1>4, <1>6 DEF Begin, Exit, At
<1>7. CASE Record(p)
  BY <1>3, <1>4, <1>7 DEF Record, Exit, At
<1>8. CASE Exec(p)
  BY <1>3, <1>4, <1>8 DEF Exec, Exit, At
<1>9. CASE Commit(p)
  <2> DEFINE left == proc[p].todo \ {Least(proc[p].todo)}
             busy == [proc[p] EXCEPT !.pc = "begin", !.todo = left]
  <2>1. Goes(p, IF left = {} THEN Exited(proc[p], 0) ELSE busy) /\ proc[p].pc = "commit"
    BY <1>9 DEF Commit, At
  <2>2. busy.pc = "begin" /\ busy.src = proc[p].src /\ busy.todo = left
    BY <1>1 DEF IsProcess
  <2>3. left \subseteq proc[p].todo
    OBVIOUS
  <2> HIDE DEF left, busy
  <2>4. left # {} => Planned(busy)
    BY <1>1, <2>1, <2>2, <2>3 DEF Planned
  <2> QED BY <1>2, <1>3, <2>1, <2>4, FilesStep
<1>10. CASE CommitFails(p)
  BY <1>3, <1>10 DEF CommitFails, Exit
<1> QED BY <1>5, <1>6, <1>7, <1>8, <1>9, <1>10

LEMMA ScratchFiles ==
    ASSUME IInv, FilesInv, NEW p \in Procs,
           Verify(p) \/ Generate(p) \/ FileExists(p) \/ OpenNewFile(p) \/ WriteNewFile(p)
    PROVE  FilesInv'
<1> DEFINE q == proc[p]
<1>1. IsProcess(q) /\ Planned(q)
  BY DEF IInv, Shapes, FilesInv
<1>2. ASSUME NEW rc, Goes(p, Exited(q, rc)), \A f \in DOMAIN disk' : f.version \in Nat
      PROVE  FilesInv'
  BY <1>1, <1>2, ExitedPlanned, FilesStep
<1>3. ASSUME NEW c, q.pc \in {"exists", "open", "write"}, disk' = WithFile(q.out[1], c)
      PROVE  \A f \in DOMAIN disk' : f.version \in Nat
  BY <1>1, <1>3 DEF WithFile, Planned, FilesInv
<1>4. UNCHANGED disk => \A f \in DOMAIN disk' : f.version \in Nat
  BY DEF FilesInv
<1>5. CASE Verify(p)
  BY <1>2, <1>4, <1>5 DEF Verify
<1>6. CASE Generate(p)
  <2> DEFINE path == FormatFilename(q.src, q.cmd.file)
             busy(out) == [q EXCEPT !.pc = "exists", !.out = out]
  <2>1. path.version \in Nat
    BY <1>1, NextVersionType DEF FormatFilename, Path, Planned
  <2>2. UNCHANGED disk
    BY <1>6 DEF Generate
  <2>3. \/ \E rc : Goes(p, Exited(q, rc))
        \/ \E c : Goes(p, busy(<<path, c>>))
    BY <1>6 DEF Generate
  <2>4. ASSUME NEW c PROVE Planned(busy(<<path, c>>))
    <3>1. /\ busy(<<path, c>>).pc = "exists" /\ busy(<<path, c>>).src = q.src
          /\ busy(<<path, c>>).out = <<path, c>>
      BY <1>1 DEF IsProcess
    <3> HIDE DEF busy, path
    <3> QED BY <1>1, <2>1, <3>1 DEF Planned
  <2> HIDE DEF busy, path
  <2> QED BY <1>2, <1>4, <2>2, <2>3, <2>4, FilesStep
<1>7. CASE FileExists(p)
  <2>1. q.pc = "exists" /\ UNCHANGED disk
    BY <1>7 DEF FileExists, At
  <2>2. Planned([q EXCEPT !.pc = "open"])
    BY <1>1, <2>1, GoesOnPlanned
  <2>3. Goes(p, Exited(q, 1)) \/ Goes(p, [q EXCEPT !.pc = "open"])
    BY <1>7 DEF FileExists
  <2> QED BY <1>2, <1>4, <2>1, <2>2, <2>3, FilesStep
<1>8. CASE OpenNewFile(p)
  <2>1. q.pc = "open" /\ Goes(p, [q EXCEPT !.pc = "write"])
    BY <1>8 DEF OpenNewFile, At
  <2>2. Planned([q EXCEPT !.pc = "write"])
    BY <1>1, <2>1, GoesOnPlanned
  <2>3. \A f \in DOMAIN disk' : f.version \in Nat
    BY <1>3, <1>8, <2>1 DEF OpenNewFile
  <2> QED BY <2>1, <2>2, <2>3, FilesStep
<1>9. CASE WriteNewFile(p)
  <2>1. \A f \in DOMAIN disk' : f.version \in Nat
    BY <1>3, <1>4, <1>9 DEF WriteNewFile, At
  <2> QED BY <1>2, <1>9, <2>1 DEF WriteNewFile
<1> QED BY <1>5, <1>6, <1>7, <1>8, <1>9

LEMMA NextFiles == IInv /\ FilesInv /\ [Next]_vars => FilesInv'
<1> SUFFICES ASSUME IInv, FilesInv, [Next]_vars PROVE FilesInv'
  OBVIOUS
<1>1. CASE UNCHANGED vars
  BY <1>1 DEF vars, FilesInv, Planned
<1>2. ASSUME NEW f \in DOMAIN disk \cup NewPaths, NEW c, Delete(f) \/ Edit(f, c)
      PROVE  FilesInv'
  <2>1. f.version \in Nat
    BY FilesAssumption DEF FilesInv
  <2>2. DOMAIN disk' \subseteq DOMAIN disk \cup {f} /\ UNCHANGED proc
    BY <1>2 DEF Delete, Edit, WithFile
  <2> QED BY <2>1, <2>2 DEF FilesInv, Planned
<1>3. ASSUME NEW p \in Procs, NEW c \in Commands, Start(p, c) PROVE FilesInv'
  <2> DEFINE q == [Fresh EXCEPT !.cmd = c,
                                !.pc = IF ParseArgs(c) THEN "list" ELSE "exit",
                                !.rc = IF ParseArgs(c) THEN 0 ELSE 2]
  <2>1. Goes(p, q) /\ UNCHANGED disk
    BY <1>3 DEF Start
  <2>2. q.src = {} /\ q.pc \in {"list", "exit"}
    BY DEF Fresh
  <2> HIDE DEF q
  <2>3. Versions(q.src) = {} /\ IsFiniteSet({})
    BY <2>2, FS_EmptySet DEF Versions
  <2>4. Planned(q)
    BY <2>2, <2>3 DEF Planned
  <2> QED BY <2>1, <2>4, FilesStep DEF FilesInv
<1>4. ASSUME NEW p \in Procs, Crash(p) PROVE FilesInv'
  <2>1. Planned(Exited(proc[p], 137))
    BY ExitedPlanned DEF IInv, Shapes, FilesInv
  <2> QED BY <1>4, <2>1, FilesStep DEF Crash, Exit, FilesInv
<1>5. ASSUME NEW p \in Procs, Step(p) PROVE FilesInv'
  BY <1>5, CollectPathsFiles, ReadFileFiles, PlanFiles, TransactionFiles, ScratchFiles
  DEF Step
<1> QED BY <1>1, <1>2, <1>3, <1>4, <1>5 DEF Next

\* A migration that up commits leaves none of the older files of its run behind
\* (apply_one and the loop of bb_migrate_up).
THEOREM NothingSkippedAlways == Spec => NothingSkipped
<1>1. IInv /\ PlanKept /\ FilesInv /\ [Next]_vars =>
         [\A p \in Procs : Commit(p) =>
             \A m \in proc[p].src :
                 m.version <= Least(proc[p].todo).version => Row(m) \in db'.ledger]_vars
  <2> SUFFICES ASSUME IInv, PlanKept, FilesInv, NEW p \in Procs, Commit(p),
                      NEW m \in proc[p].src, m.version <= Least(proc[p].todo).version
               PROVE  Row(m) \in db'.ledger
    OBVIOUS
  <2> DEFINE next == Least(proc[p].todo)
  <2>1. At(p, "commit") /\ db' = tx
    BY DEF Commit
  <2>2. tx.ledger = db.ledger \cup {Row(next)}
    BY <2>1 DEF IInv, Transactions, Halfway, Running
  <2>3. Row(m) \in db.ledger \/ m \in proc[p].todo
    BY <2>1 DEF PlanKept, Faithful, At
  <2>4. CASE m \in proc[p].todo
    <3>1. /\ proc[p].todo # {} /\ proc[p].todo \subseteq proc[p].src
          /\ Versions(proc[p].src) \in SUBSET Nat
          /\ \A k, n \in proc[p].src : k.version = n.version => k = n
      BY <2>1 DEF FilesInv, Planned, At
    <3>2. Versions(proc[p].todo) \in SUBSET Nat
      BY <3>1 DEF Versions
    <3>3. next \in proc[p].todo /\ next.version <= m.version
      BY <2>4, <3>1, <3>2, LeastProperties
    <3>4. next.version \in Nat /\ m.version \in Nat
      BY <2>4, <3>2, <3>3 DEF Versions
    <3>5. next = m
      BY <2>4, <3>1, <3>3, <3>4
    <3> QED BY <2>1, <2>2, <3>5
  <2> QED BY <2>1, <2>2, <2>3, <2>4
<1> QED
  BY <1>1, InitIInv, NextIInv, InitFiles, NextFiles, PTL DEF Spec, NothingSkipped

-----------------------------------------------------------------------------
(* What SQL makes of a schema *)

\* f is the trace of the run of sql on d, statement by statement.
Trace(f, d, sql, n) ==
    /\ DOMAIN f = 0 .. n
    /\ f[0] = [ok |-> TRUE, db |-> d]
    /\ \A k \in 1 .. n : f[k] = Execute(f[k - 1], sql[k])

LEMMA TraceExists ==
    ASSUME NEW d, NEW sql, NEW n \in Nat
    PROVE  \E f : Trace(f, d, sql, n)
<1> DEFINE X == {m \in Nat : ~ \E f : Trace(f, d, sql, m)}
<1>1. ASSUME NEW m \in X, \A k \in X : m <= k
      PROVE  FALSE
  <2>1. CASE m = 0
    <3> DEFINE f == [k \in 0 .. 0 |-> [ok |-> TRUE, db |-> d]]
    <3>1. Trace(f, d, sql, 0)
      BY DEF Trace
    <3> QED BY <2>1, <3>1
  <2>2. CASE m # 0
    <3>1. m \in Nat /\ m - 1 \in Nat /\ ~ (m <= m - 1)
      BY <2>2
    <3>2. m - 1 \notin X
      BY <1>1, <3>1
    <3>3. PICK g : Trace(g, d, sql, m - 1)
      BY <3>1, <3>2
    <3> DEFINE f == [k \in 0 .. m |-> IF k < m THEN g[k] ELSE Execute(g[m - 1], sql[m])]
    <3>4. f[0] = g[0] /\ DOMAIN f = 0 .. m
      BY <3>1
    <3>5. ASSUME NEW k \in 1 .. m PROVE f[k] = Execute(f[k - 1], sql[k])
      <4>1. k - 1 \in 0 .. m /\ k - 1 < m /\ k \in 0 .. m
        BY <3>1
      <4>2. f[k - 1] = g[k - 1]
        BY <4>1
      <4>3. CASE k = m
        BY <4>1, <4>2, <4>3
      <4>4. CASE k # m
        <5>1. k < m /\ k \in 1 .. (m - 1)
          BY <4>1, <4>4, <3>1
        <5>2. f[k] = g[k]
          BY <4>1, <5>1
        <5> QED BY <3>3, <4>2, <5>1, <5>2 DEF Trace
      <4> QED BY <4>3, <4>4
    <3> HIDE DEF f
    <3>6. Trace(f, d, sql, m)
      BY <3>3, <3>4, <3>5 DEF Trace
    <3> QED BY <3>6
  <2> QED BY <2>1, <2>2
<1>2. X \in SUBSET Nat
  OBVIOUS
<1> HIDE DEF X
<1>3. X = {}
  BY <1>1, <1>2, LeastNumber
<1> QED BY <1>3 DEF X

\* What RunSql computes
LEMMA RunSqlTrace ==
    ASSUME NEW d, NEW sql, Len(sql) \in Nat
    PROVE  \E f : Trace(f, d, sql, Len(sql)) /\ RunSql(d, sql) = f[Len(sql)]
<1> DEFINE run[k \in 0 .. Len(sql)] ==
              IF k = 0 THEN [ok |-> TRUE, db |-> d] ELSE Execute(run[k - 1], sql[k])
<1>1. PICK g : Trace(g, d, sql, Len(sql))
  BY TraceExists
<1> DEFINE h == [k \in 0 .. Len(sql) |-> g[k]]
<1>2. h = [k \in 0 .. Len(sql) |->
              IF k = 0 THEN [ok |-> TRUE, db |-> d] ELSE Execute(h[k - 1], sql[k])]
  BY <1>1 DEF Trace
<1> HIDE DEF h
<1>3. run = [k \in 0 .. Len(sql) |->
                IF k = 0 THEN [ok |-> TRUE, db |-> d] ELSE Execute(run[k - 1], sql[k])]
  BY <1>2
<1>4. RunSql(d, sql) = run[Len(sql)]
  BY DEF RunSql
<1> HIDE DEF run
<1>5. Trace(run, d, sql, Len(sql))
  <2>1. DOMAIN run = 0 .. Len(sql)
    BY <1>3
  <2>2. \A k \in 0 .. Len(sql) :
           run[k] = IF k = 0 THEN [ok |-> TRUE, db |-> d] ELSE Execute(run[k - 1], sql[k])
    BY <1>3, Zenon
  <2>3. \A k \in 1 .. Len(sql) : k \in 0 .. Len(sql) /\ k # 0
    OBVIOUS
  <2> QED BY <2>1, <2>2, <2>3 DEF Trace
<1> QED BY <1>4, <1>5

\* A table: its columns are well-formed, and no two have a name in common.
IsTable(cols) ==
    /\ cols \in Seq(Range(cols))
    /\ \A i \in DOMAIN cols : IsColumn(cols[i])
    /\ \A i, j \in DOMAIN cols : cols[i].name = cols[j].name => i = j

IsSchema(d) ==
    /\ d = [t \in Tables |-> d[t]]
    /\ \A t \in Tables : IsTable(d[t])

IsRun(run) ==
    /\ run = [ok |-> run.ok, db |-> run.db]
    /\ run.ok \in BOOLEAN /\ IsSchema(run.db)

\* A statement that creates columns creates well-formed ones.
IsStatement(s) ==
    s.op = "create" => s.cols \in Seq(Range(s.cols)) /\ \A c \in Range(s.cols) : IsColumn(c)

\* Adding a column keeps a table a table.
LEMMA AddedColumn ==
    ASSUME NEW cols, IsTable(cols), NEW c, IsColumn(c), ~Has(cols, c.name)
    PROVE  IsTable(Append(cols, c))
<1> DEFINE new == Append(cols, c)
<1>1. /\ Len(cols) \in Nat /\ DOMAIN cols = 1 .. Len(cols)
      /\ new \in Seq(Range(cols) \cup {c})
      /\ DOMAIN new = 1 .. (Len(cols) + 1)
      /\ \A i \in 1 .. Len(cols) : new[i] = cols[i]
      /\ new[Len(cols) + 1] = c
  <2>1. cols \in Seq(Range(cols) \cup {c}) /\ c \in Range(cols) \cup {c}
    BY DEF IsTable
  <2> QED BY <2>1
<1> HIDE DEF new
<1>2. \A i \in DOMAIN new : \/ i \in DOMAIN cols /\ new[i] = cols[i]
                            \/ i \notin DOMAIN cols /\ i = Len(cols) + 1 /\ new[i] = c
  BY <1>1
<1>3. new \in Seq(Range(new))
  <2>1. Range(new) = Range(cols) \cup {c}
    BY <1>1 DEF Range
  <2> QED BY <1>1, <2>1
<1>4. \A i \in DOMAIN new : IsColumn(new[i])
  BY <1>2 DEF IsTable
<1>5. \A i \in DOMAIN cols : cols[i].name # c.name
  BY DEF Has, Named
<1>6. \A i, j \in DOMAIN new : new[i].name = new[j].name => i = j
  BY <1>2, <1>5 DEF IsTable
<1> QED BY <1>3, <1>4, <1>6 DEF IsTable, new

\* And so does renaming one.
LEMMA RenamedColumn ==
    ASSUME NEW cols, IsTable(cols), NEW from, NEW to, ~Has(cols, to)
    PROVE  IsTable([i \in DOMAIN cols |->
                IF cols[i].name = from THEN [cols[i] EXCEPT !.name = to] ELSE cols[i]])
<1> DEFINE new == [i \in DOMAIN cols |->
                IF cols[i].name = from THEN [cols[i] EXCEPT !.name = to] ELSE cols[i]]
<1>1. ASSUME NEW i \in DOMAIN cols, cols[i].name = from
      PROVE  new[i].name = to /\ IsColumn(new[i])
  <2>1. new[i] = [cols[i] EXCEPT !.name = to]
    BY <1>1
  <2>2. IsColumn(cols[i])
    BY DEF IsTable
  <2> HIDE DEF new
  <2> QED BY <2>1, <2>2 DEF IsColumn, Column
<1>2. \A i \in DOMAIN cols : cols[i].name # from => new[i] = cols[i]
  OBVIOUS
<1>3. DOMAIN new = DOMAIN cols
  OBVIOUS
<1>4. new \in Seq(Range(new))
  <2>1. DOMAIN cols = 1 .. Len(cols) /\ Len(cols) \in Nat
    BY DEF IsTable
  <2>2. new \in [1 .. Len(cols) -> Range(new)]
    BY <2>1 DEF Range
  <2> HIDE DEF new
  <2> QED BY <2>1, <2>2, SeqDef
<1> HIDE DEF new
<1>5. \A i \in DOMAIN cols : cols[i].name # to
  BY DEF Has, Named
<1>6. \A i, j \in DOMAIN new : new[i].name = new[j].name => i = j
  BY <1>1, <1>2, <1>3, <1>5 DEF IsTable
<1>7. \A i \in DOMAIN new : IsColumn(new[i])
  BY <1>1, <1>2, <1>3 DEF IsTable
<1> QED BY <1>4, <1>6, <1>7 DEF IsTable, new

\* SQLite keeps a schema a schema.
LEMMA EffectSchema ==
    ASSUME NEW d, IsSchema(d), NEW s, IsStatement(s), Accepts(d, s)
    PROVE  IsSchema(Effect(d, s))
<1> DEFINE Changed(cols) == [d EXCEPT ![s.table] = cols]
<1>1. ASSUME NEW cols, s.table \in Tables => IsTable(cols)
      PROVE  IsSchema(Changed(cols))
  <2>1. \A t \in Tables : Changed(cols)[t] = IF t = s.table THEN cols ELSE d[t]
    BY DEF IsSchema
  <2>2. Changed(cols) = [t \in Tables |-> Changed(cols)[t]]
    BY DEF IsSchema
  <2> HIDE DEF Changed
  <2>3. \A t \in Tables : IsTable(Changed(cols)[t])
    BY <1>1, <2>1 DEF IsSchema
  <2> QED BY <2>2, <2>3 DEF IsSchema
<1>2. CASE s.op = "create"
  <2> DEFINE cols == IF d[s.table] = <<>> THEN s.cols ELSE d[s.table]
  <2>1. Effect(d, s) = Changed(cols)
    BY <1>2 DEF Effect
  <2>2. ASSUME s.table \in Tables PROVE IsTable(cols)
    <3>1. CASE d[s.table] = <<>>
      <4>1. \A i, j \in DOMAIN s.cols : i # j => s.cols[i].name # s.cols[j].name
        BY <1>2, <3>1 DEF Accepts
      <4>2. \A i \in DOMAIN s.cols : IsColumn(s.cols[i])
        BY <1>2 DEF IsStatement, Range
      <4> QED BY <1>2, <3>1, <4>1, <4>2 DEF IsTable, IsStatement
    <3>2. CASE d[s.table] # <<>>
      BY <2>2, <3>2 DEF IsSchema
    <3> QED BY <3>1, <3>2
  <2> HIDE DEF cols, Changed
  <2> QED BY <1>1, <2>1, <2>2
<1>3. CASE s.op = "add"
  <2> DEFINE c == Column(s.column, s.type, FALSE)
  <2>1. Effect(d, s) = Changed(Append(d[s.table], c))
    BY <1>3 DEF Effect
  <2>2. c.name = s.column /\ IsColumn(c)
    BY DEF Column, IsColumn
  <2>3. ~Has(d[s.table], s.column)
    BY <1>3 DEF Accepts
  <2> HIDE DEF c, Changed
  <2>4. s.table \in Tables => IsTable(Append(d[s.table], c))
    BY <2>2, <2>3, AddedColumn DEF IsSchema
  <2> QED BY <1>1, <2>1, <2>4
<1>4. CASE s.op = "rename"
  <2> DEFINE cols == [i \in DOMAIN d[s.table] |->
                IF d[s.table][i].name = s.from THEN [d[s.table][i] EXCEPT !.name = s.to]
                ELSE d[s.table][i]]
  <2>1. Effect(d, s) = Changed(cols)
    BY <1>4 DEF Effect
  <2>2. ~Has(d[s.table], s.to)
    BY <1>4 DEF Accepts
  <2>3. s.table \in Tables => IsTable(cols)
    BY <2>2, RenamedColumn DEF IsSchema
  <2> HIDE DEF cols, Changed
  <2> QED BY <1>1, <2>1, <2>3
<1>5. CASE s.op \notin {"create", "add", "rename"}
  BY <1>5 DEF Accepts
<1> QED BY <1>2, <1>3, <1>4, <1>5

LEMMA ExecuteSchema ==
    ASSUME NEW run, IsRun(run), NEW s, IsStatement(s)
    PROVE  IsRun(Execute(run, s))
<1>1. CASE run.ok /\ Accepts(run.db, s)
  <2>1. Execute(run, s) = [ok |-> run.ok, db |-> Effect(run.db, s)]
    BY <1>1 DEF Execute, IsRun
  <2>2. IsSchema(Effect(run.db, s))
    BY <1>1, EffectSchema DEF IsRun
  <2> QED BY <2>1, <2>2 DEF IsRun
<1>2. CASE ~(run.ok /\ Accepts(run.db, s))
  <2>1. Execute(run, s) = [ok |-> FALSE, db |-> run.db]
    BY <1>2 DEF Execute, IsRun
  <2> QED BY <2>1 DEF IsRun
<1> QED BY <1>1, <1>2

LEMMA RunSqlSchema ==
    ASSUME NEW d, IsSchema(d), NEW sql, IsSql(sql)
    PROVE  IsRun(RunSql(d, sql))
<1> DEFINE n == Len(sql)
<1>1. n \in Nat /\ DOMAIN sql = 1 .. n
  BY DEF IsSql
<1>2. \A k \in 1 .. n : IsStatement(sql[k])
  BY <1>1 DEF IsSql, IsStatement, Range
<1> HIDE DEF n
<1>3. PICK f : Trace(f, d, sql, n) /\ RunSql(d, sql) = f[n]
  BY <1>1, RunSqlTrace DEF n
<1> DEFINE X == {k \in 0 .. n : ~IsRun(f[k])}
<1>4. ASSUME NEW k \in X, \A j \in X : k <= j PROVE FALSE
  <2>1. CASE k = 0
    <3>1. IsRun([ok |-> TRUE, db |-> d])
      BY DEF IsRun
    <3> QED BY <1>3, <2>1, <3>1 DEF Trace
  <2>2. CASE k # 0
    <3>1. k \in 1 .. n /\ k - 1 \in 0 .. n /\ ~(k <= k - 1)
      BY <1>1, <2>2
    <3>2. IsRun(f[k - 1])
      BY <1>4, <3>1
    <3>3. f[k] = Execute(f[k - 1], sql[k])
      BY <1>3, <3>1 DEF Trace
    <3>4. IsRun(f[k])
      BY <1>2, <3>1, <3>2, <3>3, ExecuteSchema
    <3> QED BY <3>4
  <2> QED BY <2>1, <2>2
<1>5. X \in SUBSET Nat /\ n \in 0 .. n
  BY <1>1
<1> HIDE DEF X
<1>6. X = {}
  BY <1>4, <1>5, LeastNumber
<1> QED BY <1>3, <1>5, <1>6 DEF X

-----------------------------------------------------------------------------

\* bb_migrate_spec_diff finds no difference only between tables with the same
\* columns.
LEMMA NoDifference ==
    ASSUME NEW expected, \A i \in DOMAIN expected : IsColumn(expected[i]),
           NEW actual, IsTable(actual), SpecDiff(expected, actual) = {}
    PROVE  Range(actual) = Range(expected)
<1> DEFINE common == {i \in DOMAIN expected : Has(actual, expected[i].name)}
           found(i) == FindColumn(actual, expected[i].name)
           at(kind, S) == {Diff(kind, expected[i].name, expected[i].pk) : i \in S}
<1>1. actual # <<>>
  BY DEF SpecDiff
<1>2. /\ at("column missing", DOMAIN expected \ common) = {}
      /\ at("type mismatch", {i \in common : expected[i].type # found(i).type}) = {}
      /\ at("pk missing", {i \in common : expected[i].pk /\ ~found(i).pk}) = {}
      /\ at("pk extra", {i \in common : ~expected[i].pk /\ found(i).pk}) = {}
      /\ {Diff("column extra", actual[i].name, actual[i].pk) :
            i \in {j \in DOMAIN actual : ~Has(expected, actual[j].name)}} = {}
  BY <1>1, Zenon DEF SpecDiff
<1>3. \A i \in DOMAIN expected : i \in common
  BY <1>2
<1>4. ASSUME NEW i \in DOMAIN expected
      PROVE  /\ found(i).type = expected[i].type
             /\ expected[i].pk <=> found(i).pk
  BY <1>2, <1>3
<1> HIDE DEF at
<1>5. ASSUME NEW i \in DOMAIN expected, NEW j \in DOMAIN actual,
             actual[j].name = expected[i].name
      PROVE  actual[j] = expected[i]
  <2>1. Named(actual, expected[i].name) = {j}
    BY <1>5 DEF Named, IsTable
  <2>2. j \in Nat
    BY DEF IsTable
  <2>3. found(i) = actual[j]
    <3> DEFINE first == CHOOSE k \in Named(actual, expected[i].name) :
                           \A l \in Named(actual, expected[i].name) : k <= l
    <3>1. first = j
      BY <2>1, <2>2
    <3> HIDE DEF first
    <3>2. found(i) = actual[first]
      BY DEF FindColumn, first
    <3> QED BY <3>1, <3>2
  <2>4. IsColumn(actual[j]) /\ IsColumn(expected[i])
    BY DEF IsTable
  <2>5. actual[j].pk = expected[i].pk
    BY <1>4, <2>3, <2>4 DEF IsColumn
  <2> HIDE DEF found
  <2> QED BY <1>4, <1>5, <2>3, <2>4, <2>5 DEF IsColumn, Column
<1>6. \A i \in DOMAIN expected : \E j \in DOMAIN actual : actual[j].name = expected[i].name
  BY <1>3 DEF Has, Named
<1>7. \A j \in DOMAIN actual : \E i \in DOMAIN expected : actual[j].name = expected[i].name
  BY <1>2 DEF Has, Named
<1> HIDE DEF found, common
<1> QED BY <1>5, <1>6, <1>7 DEF Range

\* f joins the first n of some sequences, one after the other.
Joins(f, seqs, n) ==
    /\ DOMAIN f = 0 .. n
    /\ f[0] = <<>>
    /\ \A k \in 1 .. n : f[k] = f[k - 1] \o seqs[k]

LEMMA JoinsExists ==
    ASSUME NEW seqs, NEW n \in Nat
    PROVE  \E f : Joins(f, seqs, n)
<1> DEFINE X == {m \in Nat : ~ \E f : Joins(f, seqs, m)}
<1>1. ASSUME NEW m \in X, \A k \in X : m <= k
      PROVE  FALSE
  <2>1. CASE m = 0
    <3> DEFINE f == [k \in 0 .. 0 |-> <<>>]
    <3>1. Joins(f, seqs, 0)
      BY DEF Joins
    <3> QED BY <2>1, <3>1
  <2>2. CASE m # 0
    <3>1. m \in Nat /\ m - 1 \in Nat /\ ~ (m <= m - 1)
      BY <2>2
    <3>2. m - 1 \notin X
      BY <1>1, <3>1
    <3>3. PICK g : Joins(g, seqs, m - 1)
      BY <3>1, <3>2
    <3> DEFINE last == g[m - 1] \o seqs[m]
    <3> HIDE DEF last
    <3> DEFINE f == [k \in 0 .. m |-> IF k < m THEN g[k] ELSE last]
    <3>4. f[0] = g[0] /\ DOMAIN f = 0 .. m
      BY <3>1
    <3>5. ASSUME NEW k \in 1 .. m PROVE f[k] = f[k - 1] \o seqs[k]
      <4>1. k - 1 \in 0 .. m /\ k - 1 < m /\ k \in 0 .. m
        BY <3>1
      <4>2. f[k - 1] = g[k - 1]
        BY <4>1
      <4>3. CASE k = m
        <5>1. f[k] = last
          BY <4>1, <4>3
        <5> QED BY <4>2, <4>3, <5>1, Zenon DEF last
      <4>4. CASE k # m
        <5>1. k < m /\ k \in 1 .. (m - 1)
          BY <4>1, <4>4, <3>1
        <5>2. f[k] = g[k]
          BY <4>1, <5>1
        <5>3. g[k] = g[k - 1] \o seqs[k]
          BY <3>3, <5>1, Zenon DEF Joins
        <5> QED BY <4>2, <5>2, <5>3, Zenon
      <4> QED BY <4>3, <4>4
    <3> HIDE DEF f
    <3>6. Joins(f, seqs, m)
      BY <3>3, <3>4, <3>5 DEF Joins
    <3> QED BY <3>6
  <2> QED BY <2>1, <2>2
<1>2. X \in SUBSET Nat
  OBVIOUS
<1> HIDE DEF X
<1>3. X = {}
  BY <1>1, <1>2, LeastNumber
<1> QED BY <1>3 DEF X

\* What FlattenSeq of the community modules computes, and its type
LEMMA FlattenJoins ==
    ASSUME NEW S, NEW seqs \in Seq(Seq(S))
    PROVE  \E f : /\ Joins(f, seqs, Len(seqs)) /\ FlattenSeq(seqs) = f[Len(seqs)]
                  /\ \A k \in 0 .. Len(seqs) : f[k] \in Seq(S)
<1> DEFINE n == Len(seqs)
<1>1. n \in Nat /\ \A k \in 1 .. n : seqs[k] \in Seq(S)
  OBVIOUS
<1> HIDE DEF n
<1>2. ASSUME NEW f, Joins(f, seqs, n) PROVE \A k \in 0 .. n : f[k] \in Seq(S)
  <2> DEFINE X == {k \in 0 .. n : f[k] \notin Seq(S)}
  <2>1. ASSUME NEW k \in X, \A j \in X : k <= j PROVE FALSE
    <3>1. CASE k = 0
      <4>1. f[k] = <<>> /\ <<>> \in Seq(S)
        BY <1>2, <3>1, EmptySeq, Zenon DEF Joins
      <4> QED BY <4>1
    <3>2. CASE k # 0
      <4>1. k \in 1 .. n /\ k - 1 \in 0 .. n /\ ~(k <= k - 1)
        BY <1>1, <3>2
      <4>2. f[k - 1] \in Seq(S) /\ seqs[k] \in Seq(S)
        BY <1>1, <2>1, <4>1
      <4>3. f[k] = f[k - 1] \o seqs[k]
        BY <1>2, <4>1 DEF Joins
      <4>4. f[k] \in Seq(S)
        BY <4>2, <4>3, ConcatProperties
      <4> QED BY <4>4
    <3> QED BY <3>1, <3>2
  <2>2. X \in SUBSET Nat
    BY <1>1
  <2> HIDE DEF X
  <2>3. X = {}
    BY <2>1, <2>2, LeastNumber
  <2> QED BY <2>3 DEF X
<1>3. PICK g : Joins(g, seqs, n)
  BY <1>1, JoinsExists
<1>4. CASE n = 0
  <2>1. FlattenSeq(seqs) = seqs /\ seqs = <<>>
    BY <1>4 DEF FlattenSeq, n
  <2> QED BY <1>2, <1>3, <1>4, <2>1 DEF Joins, n
<1>5. CASE n # 0
  <2> DEFINE flatten[i \in 1 .. Len(seqs)] ==
                IF i = 1 THEN seqs[i] ELSE flatten[i - 1] \o seqs[i]
             h == [i \in 1 .. Len(seqs) |-> g[i]]
  <2>1. h = [i \in 1 .. Len(seqs) |-> IF i = 1 THEN seqs[i] ELSE h[i - 1] \o seqs[i]]
    <3>1. g[1] = seqs[1]
      <4>1. 1 \in 1 .. n /\ 1 - 1 = 0
        BY <1>1, <1>5
      <4>2. g[1] = g[0] \o seqs[1] /\ g[0] = <<>>
        BY <1>3, <4>1, Zenon DEF Joins
      <4>3. <<>> \o seqs[1] = seqs[1]
        BY <1>1, <4>1, ConcatEmptySeq
      <4> QED BY <4>2, <4>3, Zenon
    <3>2. ASSUME NEW i \in 1 .. Len(seqs), i # 1 PROVE h[i] = h[i - 1] \o seqs[i]
      <4>1. i - 1 \in 1 .. Len(seqs)
        BY <3>2
      <4> QED BY <1>3, <4>1 DEF Joins, n
    <3> QED BY <3>1, <3>2
  <2> HIDE DEF h
  <2>2. flatten = [i \in 1 .. Len(seqs) |->
                      IF i = 1 THEN seqs[i] ELSE flatten[i - 1] \o seqs[i]]
    BY <2>1
  <2>3. FlattenSeq(seqs) = flatten[n]
    BY <1>5 DEF FlattenSeq, n
  <2> HIDE DEF flatten
  <2> DEFINE f == [k \in 0 .. n |-> IF k = 0 THEN <<>> ELSE flatten[k]]
  <2>4. f[0] = <<>> /\ DOMAIN f = 0 .. n
    BY <1>1
  <2>5. ASSUME NEW k \in 1 .. n PROVE f[k] = f[k - 1] \o seqs[k]
    <3>1. CASE k = 1
      <4>1. flatten[1] = seqs[1]
        BY <2>2, <3>1 DEF n
      <4>2. f[k] = seqs[k] /\ f[k - 1] = <<>> /\ seqs[k] \in Seq(S)
        BY <1>1, <3>1, <4>1
      <4> QED BY <4>2, ConcatEmptySeq
    <3>2. CASE k # 1
      <4>1. flatten[k] = flatten[k - 1] \o seqs[k]
        BY <2>2, <3>2 DEF n
      <4>2. k - 1 \in 1 .. n /\ k \in 0 .. n /\ k - 1 \in 0 .. n
        BY <1>1, <3>2
      <4>3. f[k] = flatten[k] /\ f[k - 1] = flatten[k - 1]
        BY <4>2
      <4> QED BY <4>1, <4>3
    <3> QED BY <3>1, <3>2
  <2>6. f[n] = flatten[n]
    BY <1>1, <1>5
  <2> HIDE DEF f
  <2>7. Joins(f, seqs, n)
    BY <2>4, <2>5 DEF Joins
  <2> QED BY <1>2, <2>3, <2>6, <2>7 DEF n
<1> QED BY <1>4, <1>5

LEMMA FlattenType ==
    ASSUME NEW S, NEW seqs \in Seq(Seq(S))
    PROVE  FlattenSeq(seqs) \in Seq(S)
BY FlattenJoins, LenProperties

-----------------------------------------------------------------------------
(* The SQL that generate writes *)

\* A function on an initial segment of the numbers is a sequence of its values.
LEMMA IsSequence ==
    ASSUME NEW n \in Nat, NEW f, DOMAIN f = 1 .. n, f = [i \in 1 .. n |-> f[i]]
    PROVE  f \in Seq(Range(f))
<1>1. f \in [1 .. n -> Range(f)]
  BY DEF Range
<1> QED BY <1>1, SeqDef

LEMMA SqlOfStatements ==
    ASSUME NEW S, \A s \in S : IsStatement(s), NEW sql \in Seq(S)
    PROVE  IsSql(sql)
<1>1. DOMAIN sql = 1 .. Len(sql) /\ Len(sql) \in Nat /\ sql = [i \in 1 .. Len(sql) |-> sql[i]]
      /\ \A i \in DOMAIN sql : sql[i] \in S
  OBVIOUS
<1>2. sql \in Seq(Range(sql))
  BY <1>1, IsSequence
<1>3. Range(sql) \subseteq S
  BY <1>1 DEF Range
<1> QED BY <1>2, <1>3 DEF IsSql, IsStatement

\* Joining SQL gives SQL.
LEMMA FlattenSql ==
    ASSUME NEW seqs, seqs \in Seq(Range(seqs)), \A sql \in Range(seqs) : IsSql(sql)
    PROVE  IsSql(FlattenSeq(seqs))
<1> DEFINE S == UNION {Range(sql) : sql \in Range(seqs)}
<1>1. ASSUME NEW sql \in Range(seqs) PROVE sql \in Seq(S)
  <2>1. /\ sql \in Seq(Range(sql)) /\ DOMAIN sql = 1 .. Len(sql) /\ Len(sql) \in Nat
        /\ sql = [i \in 1 .. Len(sql) |-> sql[i]]
    BY DEF IsSql
  <2>2. \A i \in 1 .. Len(sql) : sql[i] \in S
    BY <2>1 DEF Range
  <2>3. sql \in [1 .. Len(sql) -> S]
    BY <2>1, <2>2
  <2> HIDE DEF S
  <2> QED BY <2>1, <2>3, SeqDef
<1>2. \A s \in S : IsStatement(s)
  BY DEF IsSql, IsStatement
<1> HIDE DEF S
<1>3. seqs \in Seq(Seq(S))
  <2>1. /\ DOMAIN seqs = 1 .. Len(seqs) /\ Len(seqs) \in Nat
        /\ seqs = [i \in 1 .. Len(seqs) |-> seqs[i]]
    OBVIOUS
  <2>2. \A i \in 1 .. Len(seqs) : seqs[i] \in Seq(S)
    BY <1>1, <2>1 DEF Range
  <2>3. seqs \in [1 .. Len(seqs) -> Seq(S)]
    BY <2>1, <2>2
  <2> QED BY <2>1, <2>3, SeqDef
<1> QED BY <1>2, <1>3, FlattenType, SqlOfStatements

LEMMA ShortSql ==
    ASSUME NEW s, IsStatement(s)
    PROVE  IsSql(<<s>>)
<1>1. <<s>> \in Seq({s})
  OBVIOUS
<1> QED BY <1>1, SqlOfStatements

LEMMA NoSql == IsSql(<<>>)
<1>1. <<>> \in Seq({})
  OBVIOUS
<1> QED BY <1>1, SqlOfStatements

\* What generate.c writes is SQL.
LEMMA AlterSql ==
    ASSUME NEW table, NEW expected, expected \in Seq(Range(expected)), NEW actual,
           NEW renames, renames \in Seq(Range(renames)), NEW valid
    PROVE  IsSql(EmitAlter(table, expected, actual, renames, valid))
<1> DEFINE to == {renames[i].to : i \in valid}
           rename(i) == IF i \in valid
                        THEN <<RenameColumn(table, renames[i].from, renames[i].to)>> ELSE <<>>
           add(c) == IF ~Has(actual, c.name) /\ c.name \notin to
                     THEN <<AddColumn(table, c.name, c.type)>> ELSE <<>>
           first == [i \in DOMAIN renames |-> rename(i)]
           second == [i \in DOMAIN expected |-> add(expected[i])]
           T == Range(first) \cup Range(second)
<1>1. \A i : IsSql(rename(i))
  <2> SUFFICES ASSUME NEW i PROVE IsSql(rename(i))
    OBVIOUS
  <2>1. IsStatement(RenameColumn(table, renames[i].from, renames[i].to))
    BY DEF RenameColumn, IsStatement
  <2> QED BY <2>1, ShortSql, NoSql
<1>2. \A c : IsSql(add(c))
  <2> SUFFICES ASSUME NEW c PROVE IsSql(add(c))
    OBVIOUS
  <2>1. IsStatement(AddColumn(table, c.name, c.type))
    BY DEF AddColumn, IsStatement
  <2> HIDE DEF to
  <2> QED BY <2>1, ShortSql, NoSql
<1>3. EmitAlter(table, expected, actual, renames, valid) = FlattenSeq(first \o second)
  BY DEF EmitAlter
<1> HIDE DEF rename, add, to
<1>4. \A sql \in T : IsSql(sql)
  BY <1>1, <1>2 DEF Range
<1>5. first \in Seq(T) /\ second \in Seq(T)
  <2>1. /\ DOMAIN renames = 1 .. Len(renames) /\ Len(renames) \in Nat
        /\ DOMAIN expected = 1 .. Len(expected) /\ Len(expected) \in Nat
    OBVIOUS
  <2>2. first \in [1 .. Len(renames) -> T] /\ second \in [1 .. Len(expected) -> T]
    BY <2>1 DEF Range
  <2> HIDE DEF first, second, T
  <2> QED BY <2>1, <2>2, SeqDef
<1> HIDE DEF first, second, T
<1> DEFINE all == first \o second
<1>6. all \in Seq(T)
  BY <1>5, ConcatProperties
<1> HIDE DEF all
<1>7. /\ DOMAIN all = 1 .. Len(all) /\ Len(all) \in Nat /\ all = [i \in 1 .. Len(all) |-> all[i]]
      /\ \A i \in DOMAIN all : all[i] \in T
  BY <1>6
<1>8. all \in Seq(Range(all)) /\ Range(all) \subseteq T
  BY <1>7, IsSequence DEF Range
<1> QED BY <1>3, <1>4, <1>8, FlattenSql DEF all

LEMMA GeneratedSql ==
    ASSUME NEW table, NEW expected, expected \in Seq(Range(expected)),
           \A i \in DOMAIN expected : IsColumn(expected[i]), NEW actual,
           NEW renames, renames \in Seq(Range(renames))
    PROVE  IsSql(GenerateSql(table, expected, actual, renames).sql)
<1>1. IsSql(<<>>)
  BY NoSql
<1>2. IsSql(<<Create(table, expected)>>)
  BY ShortSql DEF IsStatement, Create, Range
<1>3. \/ GenerateSql(table, expected, actual, renames).sql = <<>>
      \/ GenerateSql(table, expected, actual, renames).sql = <<Create(table, expected)>>
      \/ \E valid : GenerateSql(table, expected, actual, renames).sql
                       = EmitAlter(table, expected, actual, renames, valid)
  BY Zenon DEF GenerateSql
<1> QED BY <1>1, <1>2, <1>3, AlterSql

\* The columns that a manifest asks for are well-formed.
IsManifest(m) ==
    /\ m.table \in Tables /\ m.fields \in Seq(Range(m.fields))
    /\ \A field \in Range(m.fields) : field.pk \in BOOLEAN

LEMMA ManifestSpec ==
    ASSUME NEW m, IsManifest(m)
    PROVE  /\ SpecFromManifest(m) \in Seq(Range(SpecFromManifest(m)))
           /\ \A i \in DOMAIN SpecFromManifest(m) : IsColumn(SpecFromManifest(m)[i])
<1> DEFINE f == [i \in DOMAIN m.fields |->
            Column(m.fields[i].name, SqlTypeFor[m.fields[i].type], m.fields[i].pk)]
<1>1. DOMAIN m.fields = 1 .. Len(m.fields) /\ Len(m.fields) \in Nat
  BY DEF IsManifest
<1>2. f \in Seq(Range(f))
  <2>1. f = [i \in 1 .. Len(m.fields) |-> f[i]] /\ DOMAIN f = 1 .. Len(m.fields)
    BY <1>1
  <2> HIDE DEF f
  <2> QED BY <1>1, <2>1, IsSequence
<1>3. \A i \in DOMAIN f : IsColumn(f[i])
  BY DEF IsManifest, IsColumn, Column, Range
<1>4. <<>> \in Seq(Range(<<>>)) /\ \A i \in DOMAIN <<>> : IsColumn(<<>>[i])
  OBVIOUS
<1>5. SpecFromManifest(m) = f \/ SpecFromManifest(m) = <<>>
  BY DEF SpecFromManifest
<1> HIDE DEF f
<1> QED BY <1>2, <1>3, <1>4, <1>5, Zenon

LEMMA SectionsSql ==
    ASSUME manifests \in ManifestLists, NEW c \in Commands, NEW scratch
    PROVE  IsSql(Sections(c, scratch).sql)
<1> DEFINE gen(m) == GenerateSql(m.table, SpecFromManifest(m), DescribeTable(scratch, m.table),
                                 c.renames)
           seqs == [i \in DOMAIN manifests |->
                      IF i \in c.schemas THEN gen(manifests[i]).sql ELSE <<>>]
<1>1. /\ manifests \in Seq(Range(manifests)) /\ \A m \in Range(manifests) : IsManifest(m)
      /\ c.renames \in Seq(Range(c.renames))
  BY ManifestsAssumption, CommandsAssumption DEF IsManifest
<1>2. \A m \in Range(manifests) : IsSql(gen(m).sql)
  BY <1>1, ManifestSpec, GeneratedSql
<1>3. Sections(c, scratch).sql = FlattenSeq(seqs)
  BY Zenon DEF Sections
<1> HIDE DEF gen
<1>4. IsSql(<<>>)
  BY NoSql
<1>5. \A sql \in Range(seqs) : IsSql(sql)
  BY <1>2, <1>4 DEF Range
<1>6. seqs \in Seq(Range(seqs))
  <2>1. DOMAIN manifests = 1 .. Len(manifests) /\ Len(manifests) \in Nat
    BY <1>1
  <2>2. seqs = [i \in 1 .. Len(manifests) |-> seqs[i]] /\ DOMAIN seqs = 1 .. Len(manifests)
    BY <2>1
  <2> HIDE DEF seqs
  <2> QED BY <2>1, <2>2, IsSequence
<1> HIDE DEF seqs
<1> QED BY <1>3, <1>5, <1>6, FlattenSql

-----------------------------------------------------------------------------
(* The order of the migrations *)

\* Files with distinct versions, of which there are finitely many
Distinct(S) ==
    /\ IsFiniteSet(S) /\ \A m \in S : m.version \in Nat
    /\ \A m, n \in S : m.version = n.version => m = n

Earlier(S, m) == {o \in S : o.version < m.version}

\* Each place in the order of the versions is taken by one file.
LEMMA OnePlace ==
    ASSUME NEW S, Distinct(S), NEW m \in S, NEW n \in S,
           Cardinality(Earlier(S, m)) = Cardinality(Earlier(S, n))
    PROVE  m = n
<1>1. ASSUME NEW a \in S, NEW b \in S, a.version < b.version
      PROVE  Cardinality(Earlier(S, a)) # Cardinality(Earlier(S, b))
  <2>1. IsFiniteSet(Earlier(S, a)) /\ IsFiniteSet(Earlier(S, b))
    BY FS_Subset DEF Distinct, Earlier
  <2>2. a \notin Earlier(S, a) /\ Earlier(S, a) \cup {a} \subseteq Earlier(S, b)
    BY <1>1 DEF Distinct, Earlier
  <2>3. Cardinality(Earlier(S, a) \cup {a}) = Cardinality(Earlier(S, a)) + 1
        /\ IsFiniteSet(Earlier(S, a) \cup {a})
    BY <2>1, <2>2, FS_AddElement
  <2>4. Cardinality(Earlier(S, a) \cup {a}) <= Cardinality(Earlier(S, b))
    BY <2>1, <2>2, FS_Subset
  <2>5. Cardinality(Earlier(S, a)) \in Nat /\ Cardinality(Earlier(S, b)) \in Nat
    BY <2>1, FS_CardinalityType
  <2> QED BY <2>3, <2>4, <2>5
<1>2. ~(m.version < n.version) /\ ~(n.version < m.version)
  BY <1>1
<1> QED BY <1>2 DEF Distinct

\* The last file has all the others before it.
LEMMA LastPlace ==
    ASSUME NEW S, Distinct(S), NEW g, g \notin S, g.version \in Nat,
           \A m \in S : m.version < g.version
    PROVE  /\ Distinct(S \cup {g})
           /\ Cardinality(S) \in Nat
           /\ Cardinality(S \cup {g}) = Cardinality(S) + 1
           /\ Earlier(S \cup {g}, g) = S
           /\ \A m \in S : Earlier(S \cup {g}, m) = Earlier(S, m)
<1>1. IsFiniteSet(S \cup {g}) /\ Cardinality(S \cup {g}) = Cardinality(S) + 1
      /\ Cardinality(S) \in Nat
  BY FS_AddElement, FS_CardinalityType DEF Distinct
<1>2. \A m \in S : ~(g.version < m.version) /\ m.version # g.version
  BY DEF Distinct
<1>3. Distinct(S \cup {g})
  BY <1>1, <1>2 DEF Distinct
<1>4. Earlier(S \cup {g}, g) = S
  BY DEF Earlier
<1>5. \A m \in S : Earlier(S \cup {g}, m) = Earlier(S, m)
  BY <1>2 DEF Earlier
<1> QED BY <1>1, <1>3, <1>4, <1>5

\* And each place is taken.
LEMMA EveryPlace ==
    ASSUME NEW S, Distinct(S), NEW k \in 0 .. (Cardinality(S) - 1)
    PROVE  \E m \in S : Cardinality(Earlier(S, m)) = k
<1> DEFINE Taken(R) == \A j \in 0 .. (Cardinality(R) - 1) :
                          \E m \in R : Cardinality(Earlier(R, m)) = j
           X == {n \in Nat : \E R : Distinct(R) /\ Cardinality(R) = n /\ ~Taken(R)}
<1>1. ASSUME NEW n \in X, \A i \in X : n <= i
      PROVE  FALSE
  <2>1. PICK R : Distinct(R) /\ Cardinality(R) = n /\ ~Taken(R)
    OBVIOUS
  <2>2. R # {}
    <3>1. Cardinality({}) = 0 /\ 0 .. (0 - 1) = {}
      BY FS_EmptySet
    <3> QED BY <2>1, <3>1
  <2> DEFINE V == {m.version : m \in R}
  <2>3. PICK g \in R : \A m \in R : m.version <= g.version
    <3>1. V \in SUBSET Nat /\ V # {} /\ IsFiniteSet(V)
      <4> DEFINE version == [m \in R |-> m.version]
      <4>1. version \in Surjection(R, V)
        BY DEF Surjection
      <4>2. V \in SUBSET Nat /\ V # {} /\ IsFiniteSet(R)
        BY <2>1, <2>2 DEF Distinct
      <4> HIDE DEF version, V
      <4> QED BY <4>1, <4>2, FS_Surjection
    <3>2. PICK v \in V : \A w \in V : w <= v
      BY <3>1, GreatestNumber
    <3> QED BY <3>2
  <2> DEFINE Q == R \ {g}
  <2>4. Distinct(Q)
    BY <2>1, FS_Subset DEF Distinct
  <2>5. g \notin Q /\ Q \cup {g} = R /\ g.version \in Nat /\ \A m \in Q : m.version < g.version
    BY <2>1, <2>3 DEF Distinct
  <2> HIDE DEF Q
  <2>6. /\ Cardinality(Q) \in Nat /\ Cardinality(R) = Cardinality(Q) + 1
        /\ Earlier(R, g) = Q /\ \A m \in Q : Earlier(R, m) = Earlier(Q, m)
    <3>1. Cardinality(Q) \in Nat /\ Cardinality(Q \cup {g}) = Cardinality(Q) + 1
      BY <2>4, <2>5, LastPlace
    <3>2. Earlier(Q \cup {g}, g) = Q /\ \A m \in Q : Earlier(Q \cup {g}, m) = Earlier(Q, m)
      BY <2>4, <2>5, LastPlace
    <3> QED BY <2>5, <3>1, <3>2
  <2>7. Taken(Q)
    <3>1. ~(n <= Cardinality(Q))
      BY <2>1, <2>6
    <3> QED BY <1>1, <2>4, <2>6, <3>1
  <2>8. ASSUME NEW j \in 0 .. (Cardinality(R) - 1)
        PROVE  \E m \in R : Cardinality(Earlier(R, m)) = j
    <3>1. CASE j = Cardinality(Q)
      BY <2>6, <3>1
    <3>2. CASE j # Cardinality(Q)
      <4>1. j \in 0 .. (Cardinality(Q) - 1)
        BY <2>6, <3>2
      <4>2. PICK m \in Q : Cardinality(Earlier(Q, m)) = j
        BY <2>7, <4>1
      <4> QED BY <2>5, <2>6, <4>2
    <3> QED BY <3>1, <3>2
  <2> QED BY <2>1, <2>8
<1>2. X \in SUBSET Nat
  OBVIOUS
<1> HIDE DEF X
<1>3. X = {}
  BY <1>1, <1>2, LeastNumber
<1>4. Cardinality(S) \in Nat
  BY FS_CardinalityType DEF Distinct
<1> QED BY <1>3, <1>4 DEF X

LEMMA NthProperties ==
    ASSUME NEW S, Distinct(S), NEW k \in 0 .. (Cardinality(S) - 1)
    PROVE  Nth(S, k) \in S /\ Cardinality(Earlier(S, Nth(S, k))) = k
<1> DEFINE Place(m) == m \in S /\ Cardinality(Earlier(S, m)) = k
<1>1. \E m : Place(m)
  BY EveryPlace
<1>2. Nth(S, k) = CHOOSE m : Place(m)
  BY Zenon DEF Nth, Earlier
<1>3. Place(CHOOSE m : Place(m))
  BY <1>1, Zenon
<1> QED BY <1>2, <1>3

\* The first n migrations are the same.
SameStart(S, T, n) == \A k \in 1 .. n : InOrder(T)[k] = InOrder(S)[k]

\* A file with a greater version than all others comes last.
LEMMA InOrderLast ==
    ASSUME NEW S, Distinct(S), NEW g, g \notin S, g.version \in Nat,
           \A m \in S : m.version < g.version
    PROVE  /\ Cardinality(S) \in Nat
           /\ Cardinality(S \cup {g}) = Cardinality(S) + 1
           /\ InOrder(S \cup {g})[Cardinality(S) + 1] = g
           /\ SameStart(S, S \cup {g}, Cardinality(S))
<1> DEFINE T == S \cup {g}
           n == Cardinality(S)
<1>1. /\ Distinct(T) /\ n \in Nat /\ Cardinality(T) = n + 1
      /\ Earlier(T, g) = S /\ \A m \in S : Earlier(T, m) = Earlier(S, m)
  <2>1. Distinct(T)
    BY LastPlace
  <2>2. n \in Nat /\ Cardinality(T) = n + 1
    BY LastPlace
  <2>3. Earlier(T, g) = S /\ \A m \in S : Earlier(T, m) = Earlier(S, m)
    BY LastPlace
  <2> QED BY <2>1, <2>2, <2>3
<1>2. g \in T /\ S \subseteq T
  OBVIOUS
<1> HIDE DEF T, n
<1>3. InOrder(T)[n + 1] = g
  <2>1. n + 1 \in 1 .. Cardinality(T) /\ n + 1 - 1 = n
    BY <1>1
  <2>2. InOrder(T)[n + 1] = Nth(T, n)
    <3>1. \A k \in 1 .. Cardinality(T) : InOrder(T)[k] = Nth(T, k - 1)
      BY DEF InOrder
    <3> DEFINE last == n + 1
    <3>2. last \in 1 .. Cardinality(T) /\ last - 1 = n
      BY <1>1
    <3> HIDE DEF last
    <3>3. InOrder(T)[last] = Nth(T, n)
      BY <3>1, <3>2, Zenon
    <3> QED BY <3>3 DEF last
  <2>3. Nth(T, n) \in T /\ Cardinality(Earlier(T, Nth(T, n))) = n
    BY <1>1, NthProperties
  <2>4. Cardinality(Earlier(T, g)) = n
    BY <1>1 DEF n
  <2> QED BY <1>1, <1>2, <2>2, <2>3, <2>4, OnePlace
<1>4. ASSUME NEW k \in 1 .. n PROVE InOrder(T)[k] = InOrder(S)[k]
  <2>1. k - 1 \in 0 .. (n - 1) /\ k - 1 \in 0 .. (Cardinality(T) - 1)
        /\ k \in 1 .. Cardinality(T)
    BY <1>1
  <2>2. InOrder(T)[k] = Nth(T, k - 1) /\ InOrder(S)[k] = Nth(S, k - 1)
    BY <2>1 DEF InOrder, n
  <2>3. Nth(T, k - 1) \in T /\ Cardinality(Earlier(T, Nth(T, k - 1))) = k - 1
    BY <1>1, <2>1, NthProperties
  <2>4. Nth(S, k - 1) \in S /\ Cardinality(Earlier(S, Nth(S, k - 1))) = k - 1
    BY <2>1, NthProperties DEF n
  <2>5. Nth(S, k - 1) \in T /\ Cardinality(Earlier(T, Nth(S, k - 1))) = k - 1
    BY <1>1, <1>2, <2>4
  <2>6. Nth(S, k - 1) = Nth(T, k - 1)
    BY <1>1, <2>3, <2>5, OnePlace
  <2> QED BY <2>2, <2>6
<1>5. SameStart(S, T, n)
  BY <1>4 DEF SameStart
<1> QED BY <1>1, <1>3, <1>5 DEF T, n

-----------------------------------------------------------------------------
(* Replaying migrations on an empty database *)

Nothing == [ok |-> TRUE, db |-> [t \in Tables |-> <<>>]]

Replays(f, todo, n) ==
    /\ DOMAIN f = 0 .. n
    /\ f[0] = Nothing
    /\ \A k \in 1 .. n : f[k] = ApplyOne(f[k - 1], todo[k])

LEMMA ReplaysExists ==
    ASSUME NEW todo, NEW n \in Nat
    PROVE  \E f : Replays(f, todo, n)
<1> DEFINE X == {m \in Nat : ~ \E f : Replays(f, todo, m)}
<1>1. ASSUME NEW m \in X, \A k \in X : m <= k
      PROVE  FALSE
  <2>1. CASE m = 0
    <3> DEFINE f == [k \in 0 .. 0 |-> Nothing]
    <3>1. Replays(f, todo, 0)
      BY DEF Replays
    <3> QED BY <2>1, <3>1
  <2>2. CASE m # 0
    <3>1. m \in Nat /\ m - 1 \in Nat /\ ~ (m <= m - 1)
      BY <2>2
    <3>2. m - 1 \notin X
      BY <1>1, <3>1
    <3>3. PICK g : Replays(g, todo, m - 1)
      BY <3>1, <3>2
    <3> DEFINE f == [k \in 0 .. m |-> IF k < m THEN g[k] ELSE ApplyOne(g[m - 1], todo[m])]
    <3>4. f[0] = g[0] /\ DOMAIN f = 0 .. m
      BY <3>1
    <3>5. ASSUME NEW k \in 1 .. m PROVE f[k] = ApplyOne(f[k - 1], todo[k])
      <4>1. k - 1 \in 0 .. m /\ k - 1 < m /\ k \in 0 .. m
        BY <3>1
      <4>2. f[k - 1] = g[k - 1]
        BY <4>1
      <4>3. CASE k = m
        BY <4>1, <4>2, <4>3
      <4>4. CASE k # m
        <5>1. k < m /\ k \in 1 .. (m - 1)
          BY <4>1, <4>4, <3>1
        <5>2. f[k] = g[k]
          BY <4>1, <5>1
        <5> QED BY <3>3, <4>2, <5>1, <5>2 DEF Replays
      <4> QED BY <4>3, <4>4
    <3> HIDE DEF f
    <3>6. Replays(f, todo, m)
      BY <3>3, <3>4, <3>5 DEF Replays
    <3> QED BY <3>6
  <2> QED BY <2>1, <2>2
<1>2. X \in SUBSET Nat
  OBVIOUS
<1> HIDE DEF X
<1>3. X = {}
  BY <1>1, <1>2, LeastNumber
<1> QED BY <1>3 DEF X

LEMMA ReplayTrace ==
    ASSUME NEW src, Cardinality(src) \in Nat
    PROVE  \E f : Replays(f, InOrder(src), Cardinality(src)) /\ Replay(src) = f[Cardinality(src)]
<1> DEFINE todo == InOrder(src)
           n == Cardinality(src)
           run[k \in 0 .. Len(todo)] ==
              IF k = 0 THEN [ok |-> TRUE, db |-> [t \in Tables |-> <<>>]]
              ELSE ApplyOne(run[k - 1], todo[k])
<1>1. Len(todo) = n /\ n \in Nat
  BY DEF InOrder
<1>2. PICK g : Replays(g, todo, n)
  BY <1>1, ReplaysExists
<1> DEFINE h == [k \in 0 .. Len(todo) |-> g[k]]
<1>3. h = [k \in 0 .. Len(todo) |->
              IF k = 0 THEN [ok |-> TRUE, db |-> [t \in Tables |-> <<>>]]
              ELSE ApplyOne(h[k - 1], todo[k])]
  <2> HIDE DEF todo, n
  <2> QED BY <1>1, <1>2 DEF Replays, Nothing
<1> HIDE DEF h
<1>4. run = [k \in 0 .. Len(todo) |->
                IF k = 0 THEN [ok |-> TRUE, db |-> [t \in Tables |-> <<>>]]
                ELSE ApplyOne(run[k - 1], todo[k])]
  BY <1>3
<1>5. Replay(src) = run[Len(todo)]
  BY Zenon DEF Replay
<1> HIDE DEF run, todo
<1>6. Replays(run, todo, n)
  <2>1. DOMAIN run = 0 .. n
    BY <1>1, <1>4
  <2>2. \A k \in 0 .. n :
           run[k] = IF k = 0 THEN [ok |-> TRUE, db |-> [t \in Tables |-> <<>>]]
                    ELSE ApplyOne(run[k - 1], todo[k])
    BY <1>1, <1>4, Zenon
  <2>3. (\A k \in 1 .. n : k \in 0 .. n /\ k # 0) /\ 0 \in 0 .. n
    BY <1>1
  <2> QED BY <2>1, <2>2, <2>3, Zenon DEF Replays, Nothing
<1> QED BY <1>1, <1>5, <1>6 DEF todo

\* Two replays of the same migrations agree.
LEMMA ReplaysAgree ==
    ASSUME NEW n \in Nat, NEW todo, NEW more, \A k \in 1 .. n : more[k] = todo[k],
           NEW f, Replays(f, todo, n), NEW N \in Nat, n <= N, NEW g, Replays(g, more, N)
    PROVE  g[n] = f[n]
<1> DEFINE X == {k \in 0 .. n : g[k] # f[k]}
<1>1. ASSUME NEW k \in X, \A j \in X : k <= j PROVE FALSE
  <2>1. CASE k = 0
    BY <2>1 DEF Replays
  <2>2. CASE k # 0
    <3>1. k \in 1 .. n /\ k - 1 \in 0 .. n /\ ~(k <= k - 1) /\ k \in 1 .. N
      BY <2>2
    <3>2. g[k - 1] = f[k - 1]
      BY <1>1, <3>1
    <3>3. f[k] = ApplyOne(f[k - 1], todo[k]) /\ g[k] = ApplyOne(g[k - 1], more[k])
      BY <3>1 DEF Replays
    <3>4. g[k] = f[k]
      BY <3>1, <3>2, <3>3
    <3> QED BY <3>4
  <2> QED BY <2>1, <2>2
<1>2. X \in SUBSET Nat /\ n \in 0 .. n
  OBVIOUS
<1> HIDE DEF X
<1>3. X = {}
  BY <1>1, <1>2, LeastNumber
<1> QED BY <1>2, <1>3 DEF X

\* Replaying one migration more is replaying the others and running that one.
LEMMA ReplayLast ==
    ASSUME NEW S, Distinct(S), NEW g, g \notin S, g.version \in Nat,
           \A m \in S : m.version < g.version
    PROVE  Replay(S \cup {g}) = ApplyOne(Replay(S), g)
<1> DEFINE T == S \cup {g}
           n == Cardinality(S)
<1>1. n \in Nat /\ Cardinality(T) = n + 1 /\ InOrder(T)[n + 1] = g
  BY InOrderLast
<1>0. SameStart(S, T, n)
  BY InOrderLast
<1> HIDE DEF T, n
<1>2. PICK f : Replays(f, InOrder(S), n) /\ Replay(S) = f[n]
  BY <1>1, ReplayTrace DEF n
<1>3. PICK h : Replays(h, InOrder(T), n + 1) /\ Replay(T) = h[n + 1]
  BY <1>1, ReplayTrace
<1>4. n + 1 \in Nat /\ n <= n + 1 /\ n + 1 \in 1 .. (n + 1) /\ n + 1 - 1 = n
  BY <1>1
<1>5. h[n] = f[n]
  <2> DEFINE todo == InOrder(S)
             more == InOrder(T)
             N == n + 1
  <2>1. \A k \in 1 .. n : more[k] = todo[k]
    BY <1>0 DEF SameStart
  <2>2. Replays(f, todo, n) /\ Replays(h, more, N) /\ N \in Nat /\ n <= N
    BY <1>1, <1>2, <1>3, <1>4
  <2> HIDE DEF todo, more, N
  <2> QED BY <1>1, <2>1, <2>2, ReplaysAgree
<1>6. h[n + 1] = ApplyOne(h[n], g)
  BY <1>1, <1>3, <1>4 DEF Replays
<1> QED BY <1>2, <1>3, <1>5, <1>6 DEF T

\* A replay leaves a schema.
LEMMA ReplaySchema ==
    ASSUME NEW S, Distinct(S), \A m \in S : IsSql(m.checksum)
    PROVE  IsRun(Replay(S))
<1> DEFINE n == Cardinality(S)
<1>1. n \in Nat
  BY FS_CardinalityType DEF Distinct
<1>2. \A k \in 1 .. n : InOrder(S)[k] \in S
  <2> SUFFICES ASSUME NEW k \in 1 .. n PROVE InOrder(S)[k] \in S
    OBVIOUS
  <2>1. k - 1 \in 0 .. (n - 1)
    BY <1>1
  <2> QED BY <2>1, NthProperties DEF InOrder
<1> HIDE DEF n
<1>3. PICK f : Replays(f, InOrder(S), n) /\ Replay(S) = f[n]
  BY <1>1, ReplayTrace DEF n
<1> DEFINE X == {k \in 0 .. n : ~IsRun(f[k])}
<1>4. ASSUME NEW k \in X, \A j \in X : k <= j PROVE FALSE
  <2>1. CASE k = 0
    <3>1. IsRun(Nothing)
      <4>1. IsTable(<<>>)
        BY DEF IsTable, Range
      <4> QED BY <4>1 DEF IsRun, IsSchema, Nothing
    <3> QED BY <1>3, <2>1, <3>1 DEF Replays
  <2>2. CASE k # 0
    <3>1. k \in 1 .. n /\ k - 1 \in 0 .. n /\ ~(k <= k - 1)
      BY <1>1, <2>2
    <3>2. IsRun(f[k - 1])
      BY <1>4, <3>1
    <3>3. f[k] = ApplyOne(f[k - 1], InOrder(S)[k])
      BY <1>3, <3>1 DEF Replays
    <3>4. IsSql(InOrder(S)[k].checksum)
      BY <1>2, <3>1
    <3>5. IsRun(RunSql(f[k - 1].db, InOrder(S)[k].checksum))
      BY <3>2, <3>4, RunSqlSchema DEF IsRun
    <3>6. IsRun(f[k])
      BY <3>2, <3>3, <3>5 DEF ApplyOne
    <3> QED BY <3>6
  <2> QED BY <2>1, <2>2
<1>5. X \in SUBSET Nat /\ n \in 0 .. n
  BY <1>1
<1> HIDE DEF X
<1>6. X = {}
  BY <1>4, <1>5, LeastNumber
<1> QED BY <1>3, <1>5, <1>6 DEF X

-----------------------------------------------------------------------------
(* What generate writes *)

\* Files as a command may read them
Files(S) == IsFiniteSet(S) /\ \A m \in S : m.version \in Nat /\ IsSql(m.checksum)

\* The migration in out settles the manifests on top of the files in src.
Chosen(c, list) == {list[i] : i \in c.schemas \cap DOMAIN list}
Settles(q, list) ==
    LET new == [version |-> q.out[1].version, name |-> q.out[1].name,
                checksum |-> Checksum(q.out[2])]
        replay == Replay(q.src \cup {new})
    IN /\ replay.ok
       /\ \A m \in Chosen(q.cmd, list) : Range(replay.db[m.table]) = Range(SpecFromManifest(m))

\* How far a command has come in generating one
Writing(q) == q.pc \in {"exists", "open", "write"}
Written(q) == q.pc = "exit" /\ q.rc = 0 /\ q.cmd.name = "generate" /\ q.out # <<>>
Prepared(q, list) ==
    /\ Files(q.src)
    /\ q.pc # "exit" => q.cmd \in Commands
    /\ q.pc = "scratch" => \A m, n \in q.src : m.version = n.version => m = n
    /\ q.pc # "exit" /\ ~Writing(q) => q.out = <<>>
    /\ Writing(q) => IsSql(q.out[2].sql)
    /\ Writing(q) \/ Written(q) => Settles(q, list)

SqlInv ==
    /\ manifests \in ManifestLists
    /\ \A f \in DOMAIN disk : f.version \in Nat /\ IsSql(disk[f].sql)
    /\ \A p \in Procs : Prepared(proc[p], manifests)

LEMMA InitSql == Init => SqlInv
<1> SUFFICES ASSUME Init PROVE SqlInv
  OBVIOUS
<1>1. \A f \in DOMAIN disk : f.version \in Nat /\ IsSql(disk[f].sql)
  BY FilesAssumption, ContentsAssumption DEF Init, Range
<1>2. Fresh.pc = "exit" /\ Fresh.src = {} /\ Fresh.out = <<>>
  BY DEF Fresh
<1>3. Prepared(Fresh, manifests)
  BY <1>2, FS_EmptySet DEF Prepared, Files, Writing, Written
<1>4. \A p \in Procs : proc[p] = Fresh
  BY DEF Init
<1> QED BY <1>1, <1>3, <1>4 DEF SqlInv, Init

\* A step of one process
LEMMA SqlStep ==
    ASSUME IInv, SqlInv, NEW p \in Procs, NEW q, Prepared(q, manifests), Goes(p, q),
           UNCHANGED manifests,
           \A f \in DOMAIN disk' : f.version \in Nat /\ IsSql(disk'[f].sql)
    PROVE  SqlInv'
<1>1. \A r \in Procs : proc'[r] = IF r = p THEN q ELSE proc[r]
  BY DEF IInv, Shapes, Goes
<1> QED BY <1>1 DEF SqlInv

\* A process that ends with a failure, or before it has generated anything.
LEMMA ExitedPrepared ==
    ASSUME NEW q, IsProcess(q), Prepared(q, manifests), NEW rc,
           rc = 0 => q.out = <<>> \/ Settles(q, manifests)
    PROVE  Prepared(Exited(q, rc), manifests)
<1> DEFINE e == Exited(q, rc)
<1>1. e.pc = "exit" /\ e.src = q.src /\ e.rc = rc /\ e.out = q.out /\ e.cmd = q.cmd
  BY DEF Exited, IsProcess
<1> HIDE DEF e
<1>2. rc = 0 /\ q.out # <<>> => Settles(e, manifests)
  BY <1>1 DEF Settles
<1>3. Prepared(e, manifests)
  BY <1>1, <1>2 DEF Prepared, Writing, Written
<1> QED BY <1>3 DEF e

\* On to another step before anything is generated.
LEMMA GoesOnPrepared ==
    ASSUME NEW q, IsProcess(q), Prepared(q, manifests), q.pc # "exit", ~Writing(q), NEW n,
           n.src = q.src, n.cmd = q.cmd, n.out = q.out, n.pc # "exit", ~Writing(n),
           n.pc = "scratch" => \A k, m \in q.src : k.version = m.version => k = m
    PROVE  Prepared(n, manifests)
BY DEF Prepared, Written

LEMMA LoadedPrepared ==
    ASSUME NEW q, IsProcess(q), Prepared(q, manifests), q.pc # "exit", ~Writing(q)
    PROVE  Prepared(LoadFiles(q), manifests)
<1>1. CASE \E m, n \in q.src : m # n /\ m.version = n.version
  BY <1>1, ExitedPrepared DEF LoadFiles
<1>2. CASE ~\E m, n \in q.src : m # n /\ m.version = n.version
  <2>1. PICK pc \in {"ledger", "plan", "scratch"} : LoadFiles(q) = [q EXCEPT !.pc = pc]
    BY <1>2 DEF LoadFiles
  <2> DEFINE n == [q EXCEPT !.pc = pc]
  <2>2. n.src = q.src /\ n.cmd = q.cmd /\ n.out = q.out /\ n.pc = pc
    BY DEF IsProcess
  <2> HIDE DEF n
  <2>3. n.pc # "exit" /\ ~Writing(n)
    BY <2>1, <2>2 DEF Writing
  <2>4. Prepared(n, manifests)
    BY <1>2, <2>2, <2>3, GoesOnPrepared
  <2> QED BY <2>1, <2>4 DEF n
<1> QED BY <1>1, <1>2

LEMMA CollectPathsSql ==
    ASSUME IInv, SqlInv, NEW p \in Procs, CollectPaths(p)
    PROVE  SqlInv'
<1> DEFINE names == {f \in DOMAIN disk : f.kind \in {"migration", "misnamed"}}
           q == [proc[p] EXCEPT !.pc = "read", !.names = names]
           unusable == \/ \E f \in DOMAIN disk : f.kind = "not sql"
                       \/ names = {} /\ q.cmd.name # "generate"
           next == IF unusable THEN Exited(q, 1)
                   ELSE IF names = {} THEN LoadFiles(q) ELSE q
<1>1. Goes(p, next) /\ UNCHANGED <<disk, manifests>> /\ proc[p].pc = "list"
  BY DEF CollectPaths, DirList, At, environment
<1>2. IsProcess(q) /\ q.pc = "read" /\ q.src = proc[p].src /\ q.cmd = proc[p].cmd
      /\ q.out = proc[p].out
  BY DEF IInv, Shapes, IsProcess
<1> HIDE DEF q, unusable, names
<1>3. Prepared(q, manifests) /\ ~Writing(q)
  BY <1>1, <1>2, GoesOnPrepared DEF SqlInv, Writing, IInv, Shapes
<1>4. Prepared(next, manifests)
  BY <1>2, <1>3, ExitedPrepared, LoadedPrepared
<1> HIDE DEF next
<1> QED BY <1>1, <1>4, SqlStep DEF SqlInv

LEMMA ReadFileSql ==
    ASSUME IInv, SqlInv, NEW p \in Procs, ReadFile(p)
    PROVE  SqlInv'
<1> DEFINE f == Least(proc[p].names)
           m == [version |-> f.version, name |-> f.name, checksum |-> Checksum(disk[f])]
           q == [proc[p] EXCEPT !.names = @ \ {f}, !.src = @ \cup {m}]
           bad == ~ParseFilename(f) \/ f \notin DOMAIN disk
           next == IF bad THEN Exited(proc[p], 1)
                   ELSE IF q.names = {} THEN LoadFiles(q) ELSE q
<1>1. Goes(p, next) /\ UNCHANGED <<disk, manifests>> /\ proc[p].pc = "read"
  BY DEF ReadFile, At, environment
<1>2. IsProcess(proc[p]) /\ Prepared(proc[p], manifests)
  BY DEF IInv, Shapes, SqlInv
<1>3. IsProcess(q) /\ q.pc = "read" /\ q.src = proc[p].src \cup {m} /\ q.cmd = proc[p].cmd
      /\ q.out = proc[p].out
  BY <1>1, <1>2 DEF IsProcess
<1>4. ~bad => m.version \in Nat /\ IsSql(m.checksum)
  BY DEF SqlInv, Checksum
<1> HIDE DEF q, bad, m, f
<1>5. CASE bad
  <2>1. Prepared(next, manifests)
    BY <1>2, <1>5, ExitedPrepared
  <2> HIDE DEF next
  <2> QED BY <1>1, <2>1, SqlStep DEF SqlInv
<1>6. CASE ~bad
  <2>1. Files(q.src)
    BY <1>2, <1>3, <1>4, <1>6, FS_AddElement DEF Prepared, Files
  <2>2. Prepared(q, manifests) /\ ~Writing(q)
    BY <1>1, <1>2, <1>3, <2>1 DEF Prepared, Writing, Written
  <2>3. Prepared(next, manifests)
    BY <1>3, <1>6, <2>2, LoadedPrepared
  <2> HIDE DEF next
  <2> QED BY <1>1, <2>3, SqlStep DEF SqlInv
<1> QED BY <1>5, <1>6

\* The steps of up, which generate nothing
LEMMA UpSql ==
    ASSUME IInv, SqlInv, NEW p \in Procs,
           \/ EnsureLedger(p) \/ Plan(p) \/ Begin(p) \/ Record(p) \/ Exec(p)
           \/ Commit(p) \/ CommitFails(p)
    PROVE  SqlInv'
<1> DEFINE q == proc[p]
           Busy(n) == /\ n.src = q.src /\ n.cmd = q.cmd /\ n.out = q.out
                      /\ n.pc \in {"plan", "begin", "record", "exec", "commit"}
<1>1. IsProcess(q) /\ Prepared(q, manifests)
  BY DEF IInv, Shapes, SqlInv
<1>2. UNCHANGED <<disk, manifests>>
  BY DEF EnsureLedger, Plan, Begin, Record, Exec, Commit, CommitFails, environment
<1>3. q.pc \in {"ledger", "plan", "begin", "record", "exec", "commit"}
  BY DEF EnsureLedger, Plan, Begin, Record, Exec, Commit, CommitFails, At
<1>4. \/ \E rc : Goes(p, Exited(q, rc))
      \/ \E pc \in {"plan", "record", "exec", "commit"} : Goes(p, [q EXCEPT !.pc = pc])
      \/ \E todo : Goes(p, [q EXCEPT !.pc = "begin", !.todo = todo])
  <2>1. CASE EnsureLedger(p) \/ Begin(p) \/ Record(p) \/ Exec(p) \/ CommitFails(p)
    BY <2>1 DEF EnsureLedger, Begin, Record, Exec, CommitFails, Exit
  <2>2. CASE Plan(p)
    BY <2>2 DEF Plan
  <2>3. CASE Commit(p)
    BY <2>3 DEF Commit
  <2> QED BY <2>1, <2>2, <2>3
<1>5. ASSUME NEW n, Goes(p, n), Busy(n) PROVE SqlInv'
  <2>1. n.pc # "exit" /\ n.pc # "scratch" /\ ~Writing(n) /\ ~Writing(q)
    BY <1>3, <1>5 DEF Writing
  <2>2. Prepared(n, manifests)
    BY <1>1, <1>3, <1>5, <2>1, GoesOnPrepared
  <2> QED BY <1>2, <1>5, <2>2, SqlStep DEF SqlInv
<1>6. ASSUME NEW rc, Goes(p, Exited(q, rc)) PROVE SqlInv'
  <2>1. q.out = <<>>
    BY <1>1, <1>3 DEF Prepared, Writing
  <2>2. Prepared(Exited(q, rc), manifests)
    BY <1>1, <2>1, ExitedPrepared
  <2> QED BY <1>2, <1>6, <2>2, SqlStep DEF SqlInv
<1>7. \A pc \in {"plan", "record", "exec", "commit"} : Busy([q EXCEPT !.pc = pc])
  BY <1>1 DEF IsProcess
<1>8. \A todo : Busy([q EXCEPT !.pc = "begin", !.todo = todo])
  BY <1>1 DEF IsProcess
<1> HIDE DEF Busy, q
<1> QED BY <1>4, <1>5, <1>6, <1>7, <1>8

\* A migration that passes generate's checks settles the manifests that it was
\* given: it comes after all the files, and no difference is left.
LEMMA GeneratedSettles ==
    ASSUME manifests \in ManifestLists, NEW src, Files(src),
           \A m, n \in src : m.version = n.version => m = n,
           NEW q, q.src = src, q.cmd \in Commands, NEW name,
           LET replay == Replay(src)
               new == Sections(q.cmd, replay.db)
               checked == RunSql(replay.db, new.sql)
           IN /\ replay.ok /\ checked.ok
              /\ \A m \in Selected(q.cmd) : CheckTable(checked.db, m)
              /\ q.out = <<FormatFilename(src, name), Content(new.sql, "lf")>>
    PROVE  Settles(q, manifests) /\ IsSql(q.out[2].sql)
<1> DEFINE replay == Replay(src)
           sql == Sections(q.cmd, replay.db).sql
           checked == RunSql(replay.db, sql)
           new == [version |-> q.out[1].version, name |-> q.out[1].name,
                   checksum |-> Checksum(q.out[2])]
<1>1. q.out[1] = FormatFilename(src, name) /\ q.out[2] = Content(sql, "lf")
  OBVIOUS
<1>2. IsSql(sql)
  BY SectionsSql
<1>3. new.version = NextVersion(src) /\ new.checksum = sql /\ q.out[2].sql = sql
  BY <1>1 DEF FormatFilename, Path, Checksum, Content
<1>4. replay.ok /\ checked.ok /\ \A m \in Selected(q.cmd) : CheckTable(checked.db, m)
  OBVIOUS
<1> HIDE DEF sql, new
<1>5. Distinct(src) /\ IsRun(replay)
  <2>1. Distinct(src)
    BY DEF Files, Distinct
  <2> QED BY <2>1, ReplaySchema DEF Files
<1>6. new.version \in Nat /\ \A m \in src : m.version < new.version
  <2> DEFINE number == [m \in src |-> m.version]
  <2>1. number \in Surjection(src, Versions(src)) /\ Versions(src) \in SUBSET Nat
    BY DEF Surjection, Versions, Files
  <2> HIDE DEF number
  <2>2. IsFiniteSet(Versions(src))
    BY <2>1, FS_Surjection DEF Files
  <2> QED BY <1>3, <2>1, <2>2, NextVersionType DEF Versions
<1>7. new \notin src
  <2>1. \A m \in src : m.version \in Nat
    BY DEF Files
  <2> QED BY <1>6, <2>1
<1>8. Replay(src \cup {new}) = checked
  <2>1. Replay(src \cup {new}) = ApplyOne(replay, new)
    BY <1>5, <1>6, <1>7, ReplayLast
  <2> HIDE DEF replay
  <2>2. ApplyOne(replay, new) = RunSql(replay.db, sql)
    BY <1>3, <1>4, Zenon DEF ApplyOne
  <2> QED BY <2>1, <2>2
<1>9. IsRun(checked)
  <2> HIDE DEF replay
  <2> QED BY <1>2, <1>5, RunSqlSchema DEF IsRun
<1> HIDE DEF checked, replay
<1>10. ASSUME NEW m \in Selected(q.cmd)
       PROVE  Range(checked.db[m.table]) = Range(SpecFromManifest(m))
  <2>1. IsManifest(m)
    <3>1. m \in Range(manifests)
      BY DEF Selected, Range
    <3> QED BY <3>1, ManifestsAssumption DEF IsManifest
  <2>2. SpecDiff(SpecFromManifest(m), checked.db[m.table]) = {}
    BY <1>4 DEF CheckTable, DescribeTable
  <2>3. IsTable(checked.db[m.table])
    BY <1>9, <2>1 DEF IsRun, IsSchema, IsManifest
  <2> QED BY <2>1, <2>2, <2>3, ManifestSpec, NoDifference
<1>11. Settles(q, manifests)
  BY <1>4, <1>8, <1>10, Zenon DEF Settles, new, Selected, Chosen
<1> QED BY <1>2, <1>3, <1>11

LEMMA GenerateSqlStep ==
    ASSUME IInv, SqlInv, NEW p \in Procs, Generate(p)
    PROVE  SqlInv'
<1> DEFINE q == proc[p]
           replay == Replay(q.src)
           new == Sections(q.cmd, replay.db)
           checked == RunSql(replay.db, new.sql)
           path == FormatFilename(q.src, q.cmd.file)
           good == /\ replay.ok /\ checked.ok
                   /\ \A m \in Selected(q.cmd) : CheckTable(checked.db, m)
           out == <<path, Content(new.sql, "lf")>>
           busy == [q EXCEPT !.pc = "exists", !.out = out]
<1>1. IsProcess(q) /\ Prepared(q, manifests) /\ q.pc = "scratch" /\ UNCHANGED <<disk, manifests>>
  BY DEF IInv, Shapes, SqlInv, Generate, At, environment
<1>2. (\E rc : Goes(p, Exited(q, rc))) \/ (good /\ Goes(p, busy))
  BY Zenon DEF Generate
<1>3. ASSUME NEW rc, Goes(p, Exited(q, rc)) PROVE SqlInv'
  <2>1. q.out = <<>>
    BY <1>1 DEF Prepared, Writing
  <2>2. Prepared(Exited(q, rc), manifests)
    BY <1>1, <2>1, ExitedPrepared
  <2> QED BY <1>1, <1>3, <2>2, SqlStep DEF SqlInv
<1>4. ASSUME good, Goes(p, busy) PROVE SqlInv'
  <2>1. busy.src = q.src /\ busy.cmd = q.cmd /\ busy.pc = "exists" /\ busy.out = out
    BY <1>1 DEF IsProcess
  <2>2. Settles(busy, manifests) /\ IsSql(busy.out[2].sql)
    <3>1. /\ manifests \in ManifestLists /\ Files(q.src) /\ q.cmd \in Commands
          /\ \A m, n \in q.src : m.version = n.version => m = n
      BY <1>1 DEF SqlInv, Prepared
    <3> HIDE DEF busy, q
    <3> QED BY <1>4, <2>1, <3>1, GeneratedSettles
  <2> HIDE DEF busy
  <2>3. Prepared(busy, manifests)
    BY <1>1, <2>1, <2>2 DEF Prepared, Writing, Written
  <2> QED BY <1>1, <1>4, <2>3, SqlStep DEF SqlInv
<1> QED BY <1>2, <1>3, <1>4

LEMMA WritingSql ==
    ASSUME IInv, SqlInv, NEW p \in Procs,
           Verify(p) \/ FileExists(p) \/ OpenNewFile(p) \/ WriteNewFile(p),
           \A r \in Procs : Writing(proc[r]) => proc[r].out[1].version \in Nat
    PROVE  SqlInv'
<1> DEFINE q == proc[p]
<1>1. IsProcess(q) /\ Prepared(q, manifests) /\ UNCHANGED manifests
  BY DEF IInv, Shapes, SqlInv, Verify, FileExists, OpenNewFile, WriteNewFile, environment
<1>2. ASSUME UNCHANGED disk
      PROVE  \A f \in DOMAIN disk' : f.version \in Nat /\ IsSql(disk'[f].sql)
  BY <1>2 DEF SqlInv
<1>3. ASSUME NEW c, IsSql(c.sql), Writing(q), disk' = WithFile(q.out[1], c)
      PROVE  \A f \in DOMAIN disk' : f.version \in Nat /\ IsSql(disk'[f].sql)
  BY <1>3 DEF WithFile, SqlInv
<1>4. ASSUME NEW pc \in {"open", "write"}, Writing(q)
      PROVE  Prepared([q EXCEPT !.pc = pc], manifests)
  <2> DEFINE n == [q EXCEPT !.pc = pc]
  <2>1. n.src = q.src /\ n.cmd = q.cmd /\ n.out = q.out /\ n.pc = pc
    BY <1>1 DEF IsProcess
  <2> HIDE DEF n
  <2>2. Settles(n, manifests)
    BY <1>1, <1>4, <2>1 DEF Prepared, Settles
  <2>3. Prepared(n, manifests)
    BY <1>1, <1>4, <2>1, <2>2 DEF Prepared, Writing, Written
  <2> QED BY <2>3 DEF n
<1>5. CASE Verify(p)
  <2>1. q.pc = "scratch" /\ UNCHANGED disk /\ \E rc : Goes(p, Exited(q, rc))
    BY <1>5 DEF Verify, At
  <2>2. q.out = <<>>
    BY <1>1, <2>1 DEF Prepared, Writing
  <2>3. \A rc : Prepared(Exited(q, rc), manifests)
    BY <1>1, <2>2, ExitedPrepared
  <2> QED BY <1>1, <1>2, <2>1, <2>3, SqlStep
<1>6. CASE FileExists(p)
  <2>1. Writing(q) /\ UNCHANGED disk
    BY <1>6 DEF FileExists, At, Writing
  <2>2. Goes(p, Exited(q, 1)) \/ Goes(p, [q EXCEPT !.pc = "open"])
    BY <1>6 DEF FileExists
  <2>3. Prepared(Exited(q, 1), manifests) /\ Prepared([q EXCEPT !.pc = "open"], manifests)
    BY <1>1, <1>4, <2>1, ExitedPrepared
  <2> QED BY <1>1, <1>2, <2>1, <2>2, <2>3, SqlStep
<1>7. CASE OpenNewFile(p)
  <2>1. Writing(q) /\ Goes(p, [q EXCEPT !.pc = "write"])
        /\ disk' = WithFile(q.out[1], Content(<<>>, "lf"))
    BY <1>7 DEF OpenNewFile, At, Writing
  <2>2. IsSql(Content(<<>>, "lf").sql)
    BY NoSql DEF Content
  <2>3. Prepared([q EXCEPT !.pc = "write"], manifests)
    BY <1>4, <2>1
  <2> QED BY <1>1, <1>3, <2>1, <2>2, <2>3, SqlStep
<1>8. CASE WriteNewFile(p)
  <2>1. Writing(q)
    BY <1>8 DEF WriteNewFile, At, Writing
  <2>2. IsSql(q.out[2].sql) /\ Settles(q, manifests)
    BY <1>1, <2>1 DEF Prepared
  <2>3. \A rc : Prepared(Exited(q, rc), manifests)
    BY <1>1, <2>2, ExitedPrepared
  <2>4. \/ Goes(p, Exited(q, 0)) /\ disk' = WithFile(q.out[1], q.out[2])
        \/ Goes(p, Exited(q, 1)) /\ UNCHANGED disk
    BY <1>8 DEF WriteNewFile
  <2> QED BY <1>1, <1>2, <1>3, <2>1, <2>2, <2>3, <2>4, SqlStep
<1> QED BY <1>5, <1>6, <1>7, <1>8

LEMMA NextSql == IInv /\ FilesInv /\ SqlInv /\ [Next]_vars => SqlInv'
<1> SUFFICES ASSUME IInv, FilesInv, SqlInv, [Next]_vars PROVE SqlInv'
  OBVIOUS
<1>1. CASE UNCHANGED <<disk, proc, manifests>>
  BY <1>1 DEF SqlInv
<1>2. ASSUME NEW f \in DOMAIN disk \cup NewPaths, NEW c \in Contents, Edit(f, c)
      PROVE  SqlInv'
  <2>1. f.version \in Nat /\ IsSql(c.sql)
    BY FilesAssumption, ContentsAssumption DEF SqlInv
  <2>2. /\ DOMAIN disk' = DOMAIN disk \cup {f}
        /\ \A g \in DOMAIN disk' : disk'[g] = IF g = f THEN c ELSE disk[g]
    BY <1>2 DEF Edit, WithFile
  <2>3. \A g \in DOMAIN disk' : g.version \in Nat /\ IsSql(disk'[g].sql)
    BY <2>1, <2>2 DEF SqlInv
  <2>4. UNCHANGED <<proc, manifests>>
    BY <1>2 DEF Edit
  <2> QED BY <2>3, <2>4 DEF SqlInv
<1>3. ASSUME NEW f, Delete(f) PROVE SqlInv'
  <2>1. \A g \in DOMAIN disk' : g \in DOMAIN disk /\ disk'[g] = disk[g]
    BY <1>3 DEF Delete
  <2>2. UNCHANGED <<proc, manifests>>
    BY <1>3 DEF Delete
  <2> QED BY <2>1, <2>2 DEF SqlInv
<1>4. ASSUME NEW p \in Procs, NEW c \in Commands, Start(p, c) PROVE SqlInv'
  <2> DEFINE q == [Fresh EXCEPT !.cmd = c,
                                !.pc = IF ParseArgs(c) THEN "list" ELSE "exit",
                                !.rc = IF ParseArgs(c) THEN 0 ELSE 2]
  <2>1. Goes(p, q) /\ UNCHANGED <<disk, manifests>>
    BY <1>4 DEF Start
  <2>2. q.src = {} /\ q.pc \in {"list", "exit"} /\ q.cmd = c /\ q.out = <<>>
    BY DEF Fresh
  <2> HIDE DEF q
  <2>3. Prepared(q, manifests)
    BY <2>2, FS_EmptySet DEF Prepared, Files, Writing, Written
  <2> QED BY <2>1, <2>3, SqlStep DEF SqlInv
<1>5. ASSUME NEW p \in Procs, Crash(p) PROVE SqlInv'
  <2>1. Goes(p, Exited(proc[p], 137)) /\ UNCHANGED <<disk, manifests>>
    BY <1>5 DEF Crash, Exit
  <2>2. Prepared(Exited(proc[p], 137), manifests)
    BY ExitedPrepared DEF IInv, Shapes, SqlInv
  <2> QED BY <2>1, <2>2, SqlStep DEF SqlInv
<1>6. ASSUME NEW p \in Procs, Step(p) PROVE SqlInv'
  <2>1. \A r \in Procs : Writing(proc[r]) => proc[r].out[1].version \in Nat
    BY DEF FilesInv, Planned, Writing
  <2> QED BY <1>6, <2>1, CollectPathsSql, ReadFileSql, UpSql, GenerateSqlStep, WritingSql
          DEF Step
<1>7. CASE UNCHANGED vars
  BY <1>1, <1>7 DEF vars
<1> QED BY <1>2, <1>3, <1>4, <1>5, <1>6, <1>7 DEF Next

\* A migration that generate has written settles every manifest it was given, on
\* top of the files that it read (generate.c checks it on a scratch database).
THEOREM GeneratedReconcilesAlways == Spec => []GeneratedReconciles
<1>1. SqlInv => GeneratedReconciles
  <2> SUFFICES ASSUME SqlInv, NEW p \in Procs, Done(p, "generate"), proc[p].out # <<>>
               PROVE  Settles(proc[p], manifests)
    BY Zenon DEF GeneratedReconciles, Settles, Selected, Chosen
  <2> QED BY DEF SqlInv, Prepared, Written, Done, At
<1> QED
  BY <1>1, InitIInv, NextIInv, InitFiles, NextFiles, InitSql, NextSql, PTL DEF Spec

====
