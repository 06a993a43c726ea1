------------------------------ MODULE Migrate ------------------------------
(***************************************************************************)
(* The start of serve (internal/cli/root.go): db.Open, and db.Migrate with *)
(* the migrations of internal/store; then transactions of the store.       *)
(*                                                                         *)
(* The database is one file.  While a transaction is written to it, its    *)
(* old contents are in a journal beside it (the driver does not know the   *)
(* _journal_mode of db.Open, so it is SQLite's rollback journal), and a    *)
(* process that finds a journal plays it back.                             *)
(***************************************************************************)
EXTENDS Naturals, Sequences

CONSTANTS
  MaxVersion,  \* bound: migrations of the newest program
  MaxRows,     \* bound: transactions the store commits
  MaxExits     \* bound: ends of the process by a crash or a failing statement

ASSUME MigrateAssumption ==
  /\ MaxVersion \in Nat \ {0}
  /\ MaxRows \in Nat
  /\ MaxExits \in Nat

VARIABLES
  db,       \* the file: [rows, cols, recs, torn]
  journal,  \* <<the file to go back to>>, or <<>>
  proc,     \* the process: [at, i, tx]
  image,    \* the number of migrations the program that is run has
  exits

migVars == <<db, journal, proc, image, exits>>

\* rows counts what the store has committed; cols and recs are the migrations
\* whose tables and columns, and whose records in _migrations, are there;
\* torn: it is half-written.
File == [rows : 0..MaxRows, cols : 0..MaxVersion, recs : 0..MaxVersion, torn : BOOLEAN]

Empty == [rows |-> 0, cols |-> 0, recs |-> 0, torn |-> FALSE]

Maybe(S) == {<<>>} \union {<<f>> : f \in S}

\* i is the variable of Migrate's loop, tx the file as the open transaction has it.
Process ==
  [at : {"down", "check", "applied", "recorded", "commit", "serving"},
   i : 0..MaxVersion, tx : File]

Down == [at |-> "down", i |-> 0, tx |-> Empty]

MigTypeOK ==
  /\ db \in File
  /\ journal \in Maybe(File)
  /\ proc \in Process
  /\ image \in 1..MaxVersion
  /\ exits \in 0..MaxExits

MigInit ==
  /\ db = Empty
  /\ journal = <<>>
  /\ proc = Down
  /\ image \in 1..MaxVersion
  /\ exits = 0

\* What a process finds that opens the file.
Contents == IF journal = <<>> THEN db ELSE journal[1]

-----------------------------------------------------------------------------
(* The process. *)

\* db.Open, CREATE TABLE IF NOT EXISTS _migrations and SELECT MAX(version).  No
\* claim is made of a process that opens a damaged file: here it does not start.
Open ==
  /\ proc.at = "down" /\ ~Contents.torn
  /\ db' = Contents
  /\ journal' = <<>>
  /\ proc' = [at |-> "check", i |-> Contents.recs, tx |-> Contents]
  /\ UNCHANGED <<image, exits>>

\* Migration v can be applied again (IF NOT EXISTS), or adds a column.
Repeatable(v) == v = 1

\* Slip: db.Exec for tx.Exec.
ApplyAtOnce ==
  /\ proc.at = "check" /\ proc.i < image
  /\ IF db.cols = proc.i \/ Repeatable(proc.i + 1)
       THEN /\ db' = [db EXCEPT !.cols = IF @ > proc.i THEN @ ELSE proc.i + 1]
            /\ proc' = [at |-> "applied", i |-> proc.i, tx |-> db']
       ELSE db' = db /\ proc' = Down
  /\ UNCHANGED <<journal, image, exits>>

\* Begin, and the statements of migration i + 1.  One that adds a column which
\* is there fails, and NewStore's error ends serve.
Apply ==
  /\ proc.at = "check" /\ proc.i < image
  /\ proc' = IF db.cols = proc.i \/ Repeatable(proc.i + 1)
               THEN [at |-> "applied", i |-> proc.i,
                     tx |-> [db EXCEPT !.cols = IF @ > proc.i THEN @ ELSE proc.i + 1]]
               ELSE Down
  /\ UNCHANGED <<db, journal, image, exits>>

\* INSERT INTO _migrations.
Record ==
  /\ proc.at = "applied"
  /\ proc' = [proc EXCEPT !.at = "recorded", !.tx.recs = proc.i + 1]
  /\ UNCHANGED <<db, journal, image, exits>>

\* A commit first saves what it overwrites, then writes, then drops the journal.
BeginCommit(tx) ==
  /\ proc' = [proc EXCEPT !.at = "commit", !.tx = tx]
  /\ journal' = <<db>>
  /\ db' = [tx EXCEPT !.torn = TRUE]

Commit ==
  /\ proc.at = "recorded"
  /\ BeginCommit(proc.tx)
  /\ UNCHANGED <<image, exits>>

EndCommit ==
  /\ proc.at = "commit"
  /\ journal' = <<>>
  /\ db' = proc.tx
  /\ proc' = IF proc.i < image THEN [proc EXCEPT !.at = "check", !.i = @ + 1]
                               ELSE [proc EXCEPT !.at = "serving"]
  /\ UNCHANGED <<image, exits>>

\* The loop is done.  (A program that has fewer migrations than the file starts, too.)
Ready ==
  /\ proc.at = "check" /\ proc.i >= image
  /\ proc' = [proc EXCEPT !.at = "serving"]
  /\ UNCHANGED <<db, journal, image, exits>>

\* A statement of the store that changes something.
Insert ==
  /\ proc.at = "serving" /\ db.rows < MaxRows
  /\ BeginCommit([db EXCEPT !.rows = @ + 1])
  /\ UNCHANGED <<image, exits>>

\* A crash at any point, or an error that Migrate returns: Rollback or not, the
\* transaction is gone with the process.
Exit ==
  /\ proc.at # "down" /\ exits < MaxExits
  /\ exits' = exits + 1
  /\ proc' = Down
  /\ UNCHANGED <<db, journal, image>>

StartStep == Open \/ Apply \/ Record \/ Commit \/ EndCommit \/ Ready

ProcStep == StartStep \/ Insert \/ Exit

-----------------------------------------------------------------------------
(* Properties. *)

\* Each migration is applied and recorded, or neither, whenever a process ends
\* and whichever program comes next: no column is added twice, and a program
\* that serves has the tables and columns it was written for.
SchemaMatches ==
  /\ ~Contents.torn => Contents.cols = Contents.recs
  /\ proc.at = "serving" => db.recs >= image
=============================================================================
