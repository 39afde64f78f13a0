------------------------------- MODULE Migrate -------------------------------
(***************************************************************************)
(* GeeORM's Engine.Migrate run inside Engine.Transaction (GeeORM/geeorm.go)*)
(* over Session.Raw, Exec and DB (session/raw.go), against a database     *)
(* whose statements can fail.                                              *)
(*                                                                         *)
(* The database holds the migrated table and the temporary table of the   *)
(* drop path, each a set of columns or NoTable; a transaction works on its *)
(* own copy, which Commit installs.  A statement is a record: ADD COLUMN,  *)
(* CREATE TABLE (of the struct's fields), CREATE TABLE tmp AS SELECT, DROP *)
(* TABLE and ALTER TABLE RENAME; any of them may fail (a busy or broken    *)
(* database), and an Exec of several runs them in order up to the first   *)
(* failure.  Column order and rows are left out.  Session.Begin, Commit,   *)
(* Rollback, HasTable and CreateTable are not in the repository; they are  *)
(* modelled by their effect on the database and may fail.                  *)
(***************************************************************************)
EXTENDS Integers, Sequences, FiniteSets

CONSTANTS
    Cols,           \* the column names
    Structs,        \* the field sets of the structs Migrate is called with
    InitTables,     \* the table's columns when the program starts
    NoTable,        \* a table that does not exist
    NoTx,           \* s.tx == nil
    MaxMigrates     \* bound on the calls of Migrate

VARIABLES
    db,             \* the committed database: [main, tmp]
    tx,             \* the transaction's view of it, or NoTx
    pc,             \* where Migrate is
    fields,         \* table.FieldNames of the struct being migrated
    addCols,        \* the columns still to be added
    delCols,        \* difference(columns, table.FieldNames)
    buf,            \* s.sql: the statements written by Raw, not yet run
    err,            \* the closure's err
    panicked,       \* the closure panicked
    res,            \* what the last Migrate returned: "none", "nil", "err", "panic"
    before,         \* history: db.main when the last Migrate began
    calls           \* the calls of Migrate so far

vars == <<db, tx, pc, fields, addCols, delCols, buf, err, panicked, res, before, calls>>

Tables == (SUBSET Cols) \cup {NoTable}

Stmt(op, cs) == [op |-> op, cols |-> cs]

\* Mutant: DB() ignores s.tx.
DBIsTxNever == FALSE

\* Session.DB, raw.go lines 33-38: the transaction if there is one.
DBIsTx == tx # NoTx

DB == IF DBIsTx THEN tx ELSE db

\* A write through DB().
Store(new) == IF DBIsTx THEN tx' = new /\ UNCHANGED db ELSE db' = new /\ UNCHANGED tx

\* The effect of one statement on a database state, and whether it is
\* legal there (SQLite refuses the others).
Legal(s, st) ==
    CASE s.op = "add"    -> st.main # NoTable /\ s.cols \cap st.main = {}
      [] s.op = "create" -> st.main = NoTable
      [] s.op = "tmp"    -> st.tmp = NoTable /\ st.main # NoTable /\ s.cols \subseteq st.main
      [] s.op = "drop"   -> st.main # NoTable
      [] s.op = "rename" -> st.tmp # NoTable /\ st.main = NoTable

Apply(s, st) ==
    CASE s.op = "add"    -> [st EXCEPT !.main = @ \cup s.cols]
      [] s.op = "create" -> [st EXCEPT !.main = s.cols]
      [] s.op = "tmp"    -> [st EXCEPT !.tmp = s.cols]
      [] s.op = "drop"   -> [st EXCEPT !.main = NoTable]
      [] s.op = "rename" -> [main |-> st.tmp, tmp |-> NoTable]

\* The statements ss run in order on st until one is illegal or, at
\* position failAt, fails: the state reached and whether all ran.
RECURSIVE Run(_, _, _)
Run(ss, st, failAt) ==
    IF ss = <<>> THEN [st |-> st, ok |-> TRUE]
    ELSE IF failAt = 1 \/ ~Legal(Head(ss), st) THEN [st |-> st, ok |-> FALSE]
    ELSE Run(Tail(ss), Apply(Head(ss), st), failAt - 1)

\* difference, geeorm.go lines 83-95: the names of a not in b.
difference(a, b) == a \ b

Init ==
    /\ db \in [main : InitTables, tmp : {NoTable}]
    /\ tx = NoTx
    /\ pc = "idle"
    /\ fields \in Structs
    /\ addCols = {}
    /\ delCols = {}
    /\ buf = <<>>
    /\ err = FALSE
    /\ panicked = FALSE
    /\ res = "none"
    /\ before = db.main
    /\ calls = 0

\* Mutant: Exec leaves s.sql as it is.
ExecNoClear(ss, failAt) ==
    LET r == Run(buf \o ss, DB, failAt) IN
    /\ Store(r.st)
    /\ buf' = buf \o ss
    /\ err' = ~r.ok

\* s.Raw(ss).Exec(), raw.go lines 53-68: Raw appends the statements to
\* s.sql, Exec runs s.sql through DB(), the deferred Clear empties it
\* whatever happened, and the error is returned.
Exec(ss, failAt) ==
    LET r == Run(buf \o ss, DB, failAt) IN
    /\ Store(r.st)
    /\ buf' = <<>>
    /\ err' = ~r.ok

\* Transaction, lines 59-63, and Begin: a session whose s.tx is a new
\* transaction, or Begin's error returned.
Begin(f, ok) ==
    /\ pc = "idle" /\ calls < MaxMigrates
    /\ calls' = calls + 1
    /\ fields' = f
    /\ before' = db.main
    /\ err' = FALSE
    /\ panicked' = FALSE
    /\ IF ok THEN /\ tx' = db
                  /\ pc' = "hastable"
                  /\ res' = "none"
             ELSE /\ res' = "err"
                  /\ UNCHANGED <<tx, pc>>
    /\ UNCHANGED <<db, addCols, delCols, buf>>

\* Migrate, lines 99-102: s.Model(value).HasTable(), false also when its
\* query fails; without the table, CreateTable is the closure's result.
HasTable(ok, failAt) ==
    /\ pc = "hastable"
    /\ IF ok /\ DB.main # NoTable
       THEN /\ pc' = "query"
            /\ UNCHANGED <<db, tx, buf, err>>
       ELSE /\ Exec(<<Stmt("create", fields)>>, failAt)
            /\ pc' = "end"
    /\ UNCHANGED <<fields, addCols, delCols, panicked, res, before, calls>>

\* Lines 103-108: SELECT * ... LIMIT 1 and rows.Columns().  Both errors
\* are dropped: when the query fails rows is nil and Columns panics.
Query(ok) ==
    /\ pc = "query"
    /\ IF ok
       THEN /\ addCols' = difference(fields, DB.main)
            /\ delCols' = difference(DB.main, fields)
            /\ pc' = "add"
            /\ UNCHANGED panicked
       ELSE /\ panicked' = TRUE
            /\ pc' = "end"
            /\ UNCHANGED <<addCols, delCols>>
    /\ UNCHANGED <<db, tx, fields, buf, err, res, before, calls>>

\* Lines 110-116: ALTER TABLE ADD COLUMN for one added column; an error
\* ends the closure.
AddColumn(c, failAt) ==
    /\ pc = "add" /\ c \in addCols
    /\ Exec(<<Stmt("add", {c})>>, failAt)
    /\ pc' = IF err' THEN "end" ELSE "add"
    /\ addCols' = addCols \ {c}
    /\ UNCHANGED <<fields, delCols, panicked, res, before, calls>>

\* Lines 118-127: with no column to delete the closure returns nil;
\* otherwise the copy, the drop and the rename are written with Raw and
\* run by one Exec.
DropColumns(failAt) ==
    /\ pc = "add" /\ addCols = {}
    /\ IF delCols = {}
       THEN /\ UNCHANGED <<db, tx, buf, err>>
       ELSE LET ss == <<Stmt("tmp", fields), Stmt("drop", {}), Stmt("rename", {})>> IN
            Exec(ss, failAt)
    /\ pc' = "end"
    /\ UNCHANGED <<fields, addCols, delCols, panicked, res, before, calls>>

\* Mutant: Commit's error is dropped.
TransactionEndIgnoresCommit(commitOk) ==
    /\ pc = "end"
    /\ tx' = NoTx
    /\ db' = IF ~panicked /\ ~err /\ commitOk THEN tx ELSE db
    /\ res' = IF panicked THEN "panic" ELSE IF err THEN "err" ELSE "nil"
    /\ pc' = "idle"
    /\ UNCHANGED <<fields, addCols, delCols, buf, err, panicked, before, calls>>

\* Mutant: a panic is passed on without the rollback.
TransactionEndNoRollbackOnPanic(commitOk) ==
    /\ pc = "end"
    /\ tx' = IF panicked THEN tx ELSE NoTx
    /\ db' = IF ~panicked /\ ~err /\ commitOk THEN tx ELSE db
    /\ res' = IF panicked THEN "panic" ELSE IF err \/ ~commitOk THEN "err" ELSE "nil"
    /\ pc' = "idle"
    /\ UNCHANGED <<fields, addCols, delCols, buf, err, panicked, before, calls>>

\* Transaction's deferred function, lines 64-78: a panic is rolled back
\* and passed on; an error is rolled back; otherwise Commit, rolled back
\* and returned if it fails.  The transaction ends on every path.
TransactionEnd(commitOk) ==
    /\ pc = "end"
    /\ tx' = NoTx
    /\ db' = IF ~panicked /\ ~err /\ commitOk THEN tx ELSE db
    /\ res' = IF panicked THEN "panic" ELSE IF err \/ ~commitOk THEN "err" ELSE "nil"
    /\ pc' = "idle"
    /\ UNCHANGED <<fields, addCols, delCols, buf, err, panicked, before, calls>>

\* failAt: the position of the statement the database fails, 0 for none.
Next ==
    \/ \E f \in Structs, ok \in BOOLEAN : Begin(f, ok)
    \/ \E ok \in BOOLEAN, k \in 0 .. 1 : HasTable(ok, k)
    \/ \E ok \in BOOLEAN : Query(ok)
    \/ \E c \in Cols, k \in 0 .. 1 : AddColumn(c, k)
    \/ \E k \in 0 .. 3 : DropColumns(k)
    \/ \E ok \in BOOLEAN : TransactionEnd(ok)

Spec == Init /\ [][Next]_vars

-----------------------------------------------------------------------------

TypeOK ==
    /\ db \in [main : Tables, tmp : Tables]
    /\ tx \in [main : Tables, tmp : Tables] \cup {NoTx}
    /\ pc \in {"idle", "hastable", "query", "add", "end"}
    /\ addCols \subseteq Cols /\ delCols \subseteq Cols
    /\ Len(buf) = 0
    /\ {err, panicked} \subseteq BOOLEAN
    /\ res \in {"none", "nil", "err", "panic"}
    /\ calls \in 0 .. MaxMigrates

\* Migrate is atomic: whatever statement fails, and whether the closure
\* returns an error or panics, the committed table changes only to the
\* fields of a migrated struct, never to a half-migrated set of columns.
SchemaAbstract == INSTANCE SchemaStore WITH table <- db.main
RefinesSchemaStore == SchemaAbstract!Spec

\* What Migrate returns tells what happened: nil only when the table now
\* has exactly the struct's fields, an error or a panic only when the
\* committed table is as it was before the call; no temporary table is
\* left behind.
MigrateOutcome ==
    pc = "idle" =>
        /\ db.tmp = NoTable
        /\ res = "nil" => db.main = fields
        /\ res \in {"err", "panic"} => db.main = before

\* Every transaction Transaction begins is committed or rolled back before
\* Migrate returns or panics, also when the closure panics.
TxEnds == pc = "idle" => tx = NoTx

====
