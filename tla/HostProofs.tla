----------------------------- MODULE HostProofs -----------------------------
(***************************************************************************)
(* Safety of Host and of the migrations under it, for any numbers of       *)
(* migrations, transactions, crashes and failing steps.                    *)
(*                                                                         *)
(* The invariant says where every copy of the file stands (FilesInv), what *)
(* the process has of it in its transaction (ProcInv), and how far a       *)
(* backup or a restore none of whose steps has failed has come.            *)
(***************************************************************************)
EXTENDS Host, TLAPS

\* A file that is whole has each migration applied and recorded, or neither.
Sound(f) == ~f.torn => f.cols = f.recs

FilesInv ==
  /\ Sound(db)
  /\ \A j \in {journal, tmpBackup, tmpRestore, saved} : j # <<>> => Sound(j[1])

\* Where the process is tells what is in the file, in the journal and in its transaction.
ProcInv ==
  /\ proc.at \in {"check", "applied", "recorded", "serving"} => journal = <<>> /\ ~db.torn
  /\ proc.at \in {"check", "applied"} => proc.i = db.recs
  /\ proc.at \in {"applied", "recorded"} =>
       /\ proc.i < image /\ ~proc.tx.torn
       /\ proc.tx.rows = db.rows /\ proc.tx.cols = proc.i + 1
  /\ proc.at = "recorded" => proc.tx.recs = proc.i + 1
  /\ proc.at = "commit" =>
       /\ journal # <<>> /\ ~journal[1].torn /\ journal[1].rows <= proc.tx.rows
       /\ ~proc.tx.torn /\ proc.tx.cols = proc.tx.recs
       /\ IF proc.i < image THEN proc.tx.recs = proc.i + 1 ELSE proc.tx.recs >= image
  /\ proc.at = "serving" => proc.i >= image /\ db.recs >= image

\* The service is stopped, and if no transaction was cut off, the file is all there is.
Quiet == container # "running" /\ (~cmd.cut => journal = <<>>)

\* j is a copy that a backup may end with.
HoldsAll(j) == j # <<>> /\ j[1].rows >= cmd.base /\ (j[1].torn => Contents.torn)

BackupInv ==
  cmd.name = "backup" /\ cmd.ok =>
    /\ Contents.rows >= cmd.base
    /\ cmd.pc = 2 => Quiet
    /\ cmd.pc >= 3 /\ ~cmd.cut => HoldsAll(tmpBackup)
    /\ cmd.pc >= 4 => container = "running"
    /\ cmd.pc = 5 /\ ~cmd.cut => HoldsAll(saved)

RestoreInv ==
  cmd.name = "restore" /\ cmd.ok =>
    /\ cmd.pc \in {2, 3} => saved # <<>> /\ tmpRestore = saved
    /\ cmd.pc >= 3 => Quiet
    /\ cmd.pc >= 4 /\ ~cmd.cut => saved = <<db>>

HostInv == TypeOK /\ FilesInv /\ ProcInv /\ BackupInv /\ RestoreInv

-----------------------------------------------------------------------------
(* Files. *)

LEMMA MaybeFile ==
  /\ <<>> \in Maybe(File)
  /\ \A f \in File : <<f>> \in Maybe(File) /\ <<f>> # <<>> /\ <<f>>[1] = f
  /\ \A j \in Maybe(File) : j # <<>> => j[1] \in File /\ j = <<j[1]>>
BY DEF Maybe

LEMMA EmptyFile == Empty \in File /\ Sound(Empty) /\ Down \in Process /\ Down.at = "down"
BY MigrateAssumption DEF Empty, File, Sound, Down, Process

\* A process that is up has opened a file that is whole.
LEMMA TornIsDown ==
  ASSUME TypeOK, ProcInv, Contents.torn
  PROVE  proc.at = "down"
<1>1. proc.at \in {"down", "check", "applied", "recorded", "commit", "serving"}
  BY DEF TypeOK, MigTypeOK, Process
<1> QED BY <1>1 DEF ProcInv, Contents

LEMMA ContentsFile ==
  ASSUME MigTypeOK
  PROVE  Contents \in File /\ db \in File
BY MaybeFile DEF MigTypeOK, Contents

-----------------------------------------------------------------------------
(* Steps of the process. *)

\* What a step of the process does: the parts of the invariant that are its own,
\* and that it takes no row away and does not change a damaged file.
ProcGood ==
  /\ MigTypeOK' /\ ProcInv' /\ Sound(db)' /\ (journal' # <<>> => Sound(journal[1])')
  /\ image' = image
  /\ Contents'.rows >= Contents.rows
  /\ Contents.torn => Contents'.torn

LEMMA OpenGood ==
  ASSUME TypeOK, FilesInv, ProcInv, Open
  PROVE  ProcGood
<1>1. Contents \in File /\ Sound(Contents)
  BY ContentsFile DEF TypeOK, FilesInv, Contents
<1>2. /\ db' = Contents /\ journal' = <<>> /\ image' = image /\ exits' = exits
      /\ proc'.at = "check" /\ proc'.i = Contents.recs /\ proc' \in Process /\ ~Contents.torn
  BY <1>1 DEF Open, Process, File
<1>3. Contents' = Contents
  BY <1>2 DEF Contents
<1>4. MigTypeOK' /\ ProcInv'
  BY <1>1, <1>2, MaybeFile DEF TypeOK, MigTypeOK, ProcInv
<1> QED BY <1>1, <1>2, <1>3, <1>4, MigrateAssumption DEF ProcGood, File

LEMMA ApplyGood ==
  ASSUME TypeOK, FilesInv, ProcInv, Apply
  PROVE  ProcGood
<1> DEFINE tx == [db EXCEPT !.cols = proc.i + 1]
<1>1. /\ db \in File /\ proc \in Process /\ journal = <<>> /\ ~db.torn /\ proc.i < image
      /\ db.cols = proc.i /\ db.recs = proc.i /\ image \in 1..MaxVersion
  BY DEF Apply, TypeOK, MigTypeOK, ProcInv, FilesInv, Sound
<1>2. proc.i \in Nat /\ proc.i + 1 \in 0..MaxVersion
  BY <1>1, MigrateAssumption DEF Process
<1>3. tx \in File /\ tx.rows = db.rows /\ tx.cols = proc.i + 1 /\ ~tx.torn
  BY <1>1, <1>2 DEF File
<1>4. [db EXCEPT !.cols = IF @ > proc.i THEN @ ELSE proc.i + 1] = tx
  BY <1>1, <1>2
<1>5. proc' = [at |-> "applied", i |-> proc.i, tx |-> tx] /\ UNCHANGED <<db, journal, image, exits>>
  BY <1>1, <1>4 DEF Apply
<1> HIDE DEF tx
<1>6. /\ proc' \in Process /\ proc'.at = "applied" /\ proc'.i = proc.i /\ proc'.tx = tx
  BY <1>1, <1>3, <1>5 DEF Process
<1>7. MigTypeOK' /\ ProcInv'
  BY <1>1, <1>3, <1>5, <1>6 DEF TypeOK, MigTypeOK, ProcInv
<1> QED BY <1>1, <1>5, <1>7, MigrateAssumption DEF ProcGood, FilesInv, Sound, Contents, File

LEMMA RecordGood ==
  ASSUME TypeOK, FilesInv, ProcInv, Record
  PROVE  ProcGood
<1>1. /\ db \in File /\ proc \in Process /\ journal = <<>> /\ ~db.torn /\ proc.i < image
      /\ ~proc.tx.torn /\ proc.tx.rows = db.rows /\ proc.tx.cols = proc.i + 1
      /\ image \in 1..MaxVersion /\ proc.tx \in File
  BY DEF Record, TypeOK, MigTypeOK, ProcInv, Process
<1>2. proc.i \in Nat /\ proc.i + 1 \in 0..MaxVersion
  BY <1>1, MigrateAssumption DEF Process
<1>3. /\ proc' = [proc EXCEPT !.at = "recorded", !.tx.recs = proc.i + 1]
      /\ UNCHANGED <<db, journal, image, exits>>
  BY DEF Record
<1>4. proc'.at = "recorded" /\ proc'.i = proc.i /\ proc'.tx = [proc.tx EXCEPT !.recs = proc.i + 1]
  BY <1>1, <1>3 DEF Process
<1>5. /\ proc'.tx \in File /\ ~proc'.tx.torn /\ proc'.tx.rows = db.rows
      /\ proc'.tx.cols = proc.i + 1 /\ proc'.tx.recs = proc.i + 1
  BY <1>1, <1>2, <1>4 DEF File
<1>6. proc' \in Process
  BY <1>1, <1>2, <1>3, <1>5 DEF Process, File
<1>7. MigTypeOK' /\ ProcInv'
  BY <1>1, <1>3, <1>4, <1>5, <1>6 DEF TypeOK, MigTypeOK, ProcInv
<1> QED BY <1>1, <1>3, <1>7, MigrateAssumption DEF ProcGood, FilesInv, Sound, Contents, File

\* A commit of tx begins: until it ends the journal has what was there.
LEMMA CommitGood ==
  ASSUME TypeOK, FilesInv, ProcInv, NEW tx \in File, BeginCommit(tx), UNCHANGED <<image, exits>>,
         journal = <<>>, ~db.torn, db.rows <= tx.rows, ~tx.torn, tx.cols = tx.recs,
         IF proc.i < image THEN tx.recs = proc.i + 1 ELSE tx.recs >= image
  PROVE  ProcGood
<1>1. db \in File /\ proc \in Process
  BY DEF TypeOK, MigTypeOK
<1>2. journal' = <<db>> /\ db' = [tx EXCEPT !.torn = TRUE]
  BY DEF BeginCommit
<1>3. db' \in File /\ db'.torn
  BY <1>2 DEF File
<1>4. /\ proc' = [proc EXCEPT !.at = "commit", !.tx = tx]
      /\ proc' \in Process /\ proc'.at = "commit" /\ proc'.i = proc.i /\ proc'.tx = tx
  BY <1>1 DEF BeginCommit, Process
<1>5. MigTypeOK' /\ ProcInv'
  BY <1>1, <1>2, <1>3, <1>4, MaybeFile DEF TypeOK, MigTypeOK, ProcInv
<1>6. Contents' = db /\ Contents = db
  BY <1>1, <1>2, MaybeFile DEF Contents
<1> QED BY <1>1, <1>2, <1>3, <1>5, <1>6, MigrateAssumption, MaybeFile DEF ProcGood, FilesInv, Sound, File

LEMMA EndCommitGood ==
  ASSUME TypeOK, FilesInv, ProcInv, EndCommit
  PROVE  ProcGood
<1>1. /\ proc \in Process /\ proc.tx \in File /\ journal # <<>> /\ ~journal[1].torn
      /\ journal[1].rows <= proc.tx.rows /\ ~proc.tx.torn /\ proc.tx.cols = proc.tx.recs
      /\ IF proc.i < image THEN proc.tx.recs = proc.i + 1 ELSE proc.tx.recs >= image
      /\ image \in 1..MaxVersion
  BY DEF EndCommit, TypeOK, MigTypeOK, ProcInv, Process
<1>2. journal' = <<>> /\ db' = proc.tx /\ image' = image /\ exits' = exits
  BY DEF EndCommit
<1>3. proc.i \in 0..MaxVersion /\ (proc.i < image => proc.i + 1 \in 0..MaxVersion)
  BY <1>1, MigrateAssumption DEF Process
<1>4. CASE proc.i < image
  <2>1. proc' = [proc EXCEPT !.at = "check", !.i = @ + 1]
    BY <1>4 DEF EndCommit
  <2>2. proc' \in Process /\ proc'.at = "check" /\ proc'.i = proc.i + 1
    BY <1>1, <1>3, <1>4, <2>1 DEF Process
  <2>3. MigTypeOK' /\ ProcInv'
    BY <1>1, <1>2, <1>4, <2>2, MaybeFile DEF TypeOK, MigTypeOK, ProcInv
  <2> QED BY <1>1, <1>2, <2>3 DEF ProcGood, Sound, Contents
<1>5. CASE ~(proc.i < image)
  <2>1. proc' = [proc EXCEPT !.at = "serving"]
    BY <1>5 DEF EndCommit
  <2>2. proc' \in Process /\ proc'.at = "serving" /\ proc'.i = proc.i /\ proc.i >= image
    BY <1>1, <1>3, <1>5, <2>1, MigrateAssumption DEF Process
  <2>3. MigTypeOK' /\ ProcInv'
    BY <1>1, <1>2, <1>5, <2>2, MaybeFile DEF TypeOK, MigTypeOK, ProcInv
  <2> QED BY <1>1, <1>2, <2>3 DEF ProcGood, Sound, Contents
<1> QED BY <1>4, <1>5

LEMMA ProcessGood ==
  ASSUME TypeOK, FilesInv, ProcInv, ProcStep
  PROVE  ProcGood
<1>0. /\ db \in File /\ proc \in Process /\ image \in 1..MaxVersion /\ Contents \in File
      /\ \A f \in File : f.rows \in Nat /\ f.cols \in Nat /\ f.recs \in Nat
  BY ContentsFile, MigrateAssumption DEF TypeOK, MigTypeOK, File
<1>1. CASE Open \/ Apply \/ Record \/ EndCommit
  BY <1>1, OpenGood, ApplyGood, RecordGood, EndCommitGood
<1>2. CASE Commit
  <2>1. proc.tx \in File /\ BeginCommit(proc.tx) /\ UNCHANGED <<image, exits>>
    BY <1>0, <1>2 DEF Commit, Process
  <2>2. /\ journal = <<>> /\ ~db.torn /\ db.rows <= proc.tx.rows /\ ~proc.tx.torn
        /\ proc.tx.cols = proc.tx.recs /\ proc.i < image /\ proc.tx.recs = proc.i + 1
    BY <1>0, <1>2 DEF Commit, ProcInv
  <2> DEFINE tx == proc.tx
  <2>3. PICK t \in File : t = proc.tx
    BY <2>1
  <2>4. BeginCommit(t)
    BY <2>1, <2>3
  <2> QED BY <2>1, <2>2, <2>3, <2>4, CommitGood
<1>3. CASE Insert
  <2> DEFINE tx == [db EXCEPT !.rows = @ + 1]
  <2>1. /\ journal = <<>> /\ ~db.torn /\ proc.i >= image /\ db.recs >= image
        /\ db.rows < MaxRows /\ BeginCommit(tx) /\ UNCHANGED <<image, exits>>
    BY <1>3 DEF Insert, ProcInv
  <2>2. /\ tx \in File /\ tx.rows = db.rows + 1 /\ ~tx.torn /\ tx.cols = db.cols /\ tx.recs = db.recs
    BY <1>0, <2>1, MigrateAssumption DEF File
  <2>3. PICK t \in File : t = tx
    BY <2>2
  <2> HIDE DEF tx
  <2>4. db.cols = db.recs /\ ~(proc.i < image)
    BY <1>0, <2>1, MigrateAssumption DEF FilesInv, Sound, Process
  <2>5. BeginCommit(t) /\ db.rows <= t.rows
    BY <1>0, <2>1, <2>2, <2>3
  <2> QED BY <2>1, <2>2, <2>3, <2>4, <2>5, CommitGood
<1>4. CASE Ready
  <2>1. /\ proc.i = db.recs /\ proc.i >= image /\ journal = <<>> /\ ~db.torn
        /\ proc' = [proc EXCEPT !.at = "serving"] /\ UNCHANGED <<db, journal, image, exits>>
    BY <1>4 DEF Ready, ProcInv
  <2>2. proc' \in Process /\ proc'.at = "serving" /\ proc'.i = proc.i
    BY <1>0, <2>1 DEF Process
  <2>3. MigTypeOK' /\ ProcInv'
    BY <2>1, <2>2 DEF TypeOK, MigTypeOK, ProcInv
  <2> QED BY <1>0, <2>1, <2>3 DEF ProcGood, FilesInv, Sound, Contents
<1>5. CASE Exit
  <2>1. proc' = Down /\ exits' = exits + 1 /\ exits < MaxExits /\ UNCHANGED <<db, journal, image>>
    BY <1>5 DEF Exit
  <2>2. MigTypeOK' /\ ProcInv'
    BY <2>1, EmptyFile, MigrateAssumption DEF TypeOK, MigTypeOK, ProcInv
  <2> QED BY <1>0, <2>1, <2>2 DEF ProcGood, FilesInv, Sound, Contents
<1> QED BY <1>1, <1>2, <1>3, <1>4, <1>5 DEF ProcStep, StartStep

LEMMA ServeKeeps ==
  ASSUME HostInv, Serve(ProcStep)
  PROVE  HostInv'
<1>1. ProcGood /\ UNCHANGED hostVars /\ container = "running"
  BY ProcessGood DEF HostInv, Serve
<1>2. TypeOK'
  BY <1>1 DEF HostInv, TypeOK, ProcGood, hostVars
<1>3. FilesInv'
  BY <1>1 DEF HostInv, FilesInv, ProcGood, hostVars
<1>4. BackupInv'
  <2> SUFFICES ASSUME cmd.name = "backup", cmd.ok PROVE BackupInv'
    BY <1>1 DEF BackupInv, hostVars
  <2>2. /\ Contents.rows \in Nat /\ Contents'.rows \in Nat /\ cmd.base \in Nat
        /\ tmpBackup \in Maybe(File) /\ saved \in Maybe(File)
    <3>1. Contents \in File /\ cmd \in Command /\ {tmpBackup, saved} \subseteq Maybe(File)
      BY ContentsFile DEF HostInv, TypeOK
    <3>2. Contents' \in File
      BY <1>1, MaybeFile DEF ProcGood, MigTypeOK, Contents
    <3> QED BY <3>1, <3>2, MigrateAssumption DEF File, Command
  <2>3. Contents'.rows >= cmd.base
    BY <1>1, <2>2 DEF HostInv, BackupInv, ProcGood
  <2>4. HoldsAll(tmpBackup) => HoldsAll(tmpBackup)'
    BY <1>1 DEF HoldsAll, ProcGood, hostVars
  <2>5. HoldsAll(saved) => HoldsAll(saved)'
    BY <1>1 DEF HoldsAll, ProcGood, hostVars
  <2> QED BY <1>1, <2>3, <2>4, <2>5 DEF HostInv, BackupInv, Quiet, hostVars
<1>5. RestoreInv'
  <2>1. cmd \in Command /\ cmd.pc \in 0..5
    BY DEF HostInv, TypeOK, Command
  <2>2. cmd.name = "restore" /\ cmd.ok => ~(cmd.pc >= 3)
    BY <1>1 DEF HostInv, RestoreInv, Quiet
  <2> QED BY <1>1, <2>1, <2>2 DEF HostInv, RestoreInv, hostVars
<1> QED BY <1>1, <1>2, <1>3, <1>4, <1>5 DEF HostInv, ProcGood

-----------------------------------------------------------------------------
(* Steps of a command. *)

LEMMA Scripts ==
  \A name \in DOMAIN Script :
    DOMAIN Script[name] = 1..Len(Script[name]) /\ Len(Script[name]) \in 1..5
<1>1. ASSUME NEW name \in {"start", "stop", "restart", "update", "backup", "restore", "domain"}
      PROVE  DOMAIN Script[name] = 1..Len(Script[name]) /\ Len(Script[name]) \in 1..5
  <2>1. CASE name \in {"start", "stop", "restart", "domain"}
    BY <2>1 DEF Script
  <2>2. CASE name = "update"
    BY <2>2 DEF Script
  <2>3. CASE name = "backup"
    BY <2>3 DEF Script
  <2>4. CASE name = "restore"
    BY <2>4 DEF Script
  <2> QED BY <1>1, <2>1, <2>2, <2>3, <2>4
<1> QED BY <1>1 DEF Script

\* Which step a command is at, for the two that the invariant follows.
LEMMA Steps ==
  ASSUME TypeOK, cmd.name # "none"
  PROVE  /\ cmd.name = "backup" =>
              <<cmd.pc, Step>> \in {<<1, "stop">>, <<2, "copyOut">>, <<3, "begin">>,
                                    <<4, "download">>, <<5, "removeBackup">>}
         /\ cmd.name = "restore" =>
              <<cmd.pc, Step>> \in {<<1, "upload">>, <<2, "stop">>, <<3, "copyIn">>,
                                    <<4, "removeRestore">>, <<5, "begin">>}
         /\ cmd.name \notin {"backup", "restore"} =>
              Step \in {"up", "down", "restart", "fetch", "build"}
         /\ Step = "fetch" => cmd.pc + 1 \in DOMAIN Script[cmd.name]
<1>1. cmd.name \in DOMAIN Script /\ cmd.pc \in DOMAIN Script[cmd.name]
  BY DEF TypeOK, Command
<1>2. CASE cmd.name = "backup"
  <2>1. Script[cmd.name] = <<"stop", "copyOut", "begin", "download", "removeBackup">>
    BY <1>2 DEF Script
  <2>2. cmd.pc \in 1..5
    BY <1>1, <2>1
  <2> QED BY <1>2, <2>1, <2>2 DEF Step
<1>3. CASE cmd.name = "restore"
  <2>1. Script[cmd.name] = <<"upload", "stop", "copyIn", "removeRestore", "begin">>
    BY <1>3 DEF Script
  <2>2. cmd.pc \in 1..5
    BY <1>1, <2>1
  <2> QED BY <1>3, <2>1, <2>2 DEF Step
<1>4. CASE cmd.name = "update"
  <2>1. Script[cmd.name] = <<"fetch", "down", "build">>
    BY <1>4 DEF Script
  <2>2. cmd.pc \in 1..3
    BY <1>1, <2>1
  <2> QED BY <1>4, <2>1, <2>2 DEF Step
<1>5. CASE cmd.name = "domain"
  <2>1. Script[cmd.name] = <<"down", "up">>
    BY <1>5 DEF Script
  <2>2. cmd.pc \in 1..2
    BY <1>1, <2>1
  <2> QED BY <1>5, <2>1, <2>2 DEF Step
<1>6. CASE cmd.name \in {"start", "stop", "restart"}
  <2>1. Script[cmd.name] \in {<<"up">>, <<"down">>, <<"restart">>}
    BY <1>6 DEF Script
  <2>2. cmd.pc \in 1..1
    BY <1>1, <2>1
  <2> QED BY <1>6, <2>1, <2>2 DEF Step
<1> QED BY <1>1, <1>2, <1>3, <1>4, <1>5, <1>6 DEF Script

\* What is left of the command after a step: none, or the next step of the same.
Went(cut) ==
  /\ cmd' \in Command /\ cmd'.base = cmd.base /\ (cmd'.ok => cmd.ok)
  /\ cmd'.name # "none" =>
       /\ cmd'.name = cmd.name /\ cmd'.pc = cmd.pc + 1 /\ cmd'.cut = cut
       /\ cmd'.pc \in DOMAIN Script[cmd'.name]

LEMMA AfterWent ==
  ASSUME TypeOK, cmd.name # "none", NEW works \in BOOLEAN, NEW cut \in BOOLEAN,
         cmd' = After(works, cut)
  PROVE  Went(cut) /\ (~works => ~cmd'.ok)
<1>1. /\ cmd \in Command /\ cmd.name \in DOMAIN Script /\ cmd.pc \in DOMAIN Script[cmd.name]
      /\ cmd.pc \in Nat
  BY DEF TypeOK, Command
<1>2. /\ Len(Script[cmd.name]) \in 1..5
      /\ DOMAIN Script[cmd.name] = 1..Len(Script[cmd.name])
  BY <1>1, Scripts
<1>3. CASE cmd' = [name |-> "none", pc |-> 0, ok |-> cmd.ok /\ works, base |-> cmd.base, cut |-> cmd.cut]
  BY <1>1, <1>3 DEF Went, Command
<1>4. CASE /\ cmd' = [cmd EXCEPT !.pc = @ + 1, !.ok = @ /\ works, !.cut = cut]
           /\ cmd.pc # Len(Script[cmd.name])
  <2>1. cmd.pc + 1 \in DOMAIN Script[cmd.name] /\ cmd.pc + 1 \in 0..5
    <3> DEFINE n == Len(Script[cmd.name])
    <3>1. n \in 1..5 /\ cmd.pc \in 1..n /\ cmd.pc # n /\ DOMAIN Script[cmd.name] = 1..n
      BY <1>1, <1>2, <1>4
    <3> HIDE DEF n
    <3> QED BY <3>1
  <2>2. /\ cmd'.name = cmd.name /\ cmd'.pc = cmd.pc + 1 /\ cmd'.ok = (cmd.ok /\ works)
        /\ cmd'.cut = cut /\ cmd'.base = cmd.base
    BY <1>1, <1>4 DEF Command
  <2>3. cmd' \in Command
    BY <1>1, <1>4, <2>1 DEF Command
  <2> QED BY <2>1, <2>2, <2>3 DEF Went
<1> QED BY <1>3, <1>4 DEF After

LEMMA ReportsWent ==
  ASSUME TypeOK, cmd.name # "none", NEW cut \in BOOLEAN, Reports(cut)
  PROVE  Went(cut) /\ faults' \in 0..MaxFaults
<1>1. faults' \in 0..MaxFaults
  <2>1. faults \in 0..MaxFaults /\ (faults' = faults \/ (faults < MaxFaults /\ faults' = faults + 1))
    BY DEF Reports, TypeOK
  <2> QED BY <2>1, HostAssumption
<1>2. Went(cut)
  BY AfterWent DEF Reports
<1> QED BY <1>1, <1>2

\* The parts of the invariant that are about the process and its file.
MigGood == MigTypeOK /\ ProcInv /\ Sound(db) /\ (journal # <<>> => Sound(journal[1]))

LEMMA MigSame ==
  ASSUME HostInv, UNCHANGED migVars
  PROVE  MigGood' /\ Contents' = Contents
BY DEF HostInv, TypeOK, MigGood, MigTypeOK, ProcInv, FilesInv, Sound, migVars, Contents

LEMMA MigDown ==
  ASSUME HostInv, proc' = Down, image' \in 1..MaxVersion, exits' = exits,
         db' \in File, journal' \in Maybe(File), Sound(db)', journal' # <<>> => Sound(journal[1])'
  PROVE  MigGood'
BY EmptyFile DEF HostInv, TypeOK, MigGood, MigTypeOK, ProcInv

\* A step that keeps its own part of everything keeps the invariant.
LEMMA StepKeeps ==
  ASSUME HostInv, MigGood', NEW cut \in BOOLEAN, Went(cut), faults' \in 0..MaxFaults,
         container' \in {"none", "stopped", "running"}, source' \in image'..MaxVersion,
         \A j \in {tmpBackup', tmpRestore', saved'} : j \in Maybe(File) /\ (j # <<>> => Sound(j[1])),
         proc'.at # "down" => container' = "running",
         BackupInv', RestoreInv'
  PROVE  HostInv'
<1>1. TypeOK'
  BY DEF TypeOK, MigGood, Went
<1>2. FilesInv'
  BY DEF FilesInv, MigGood, Sound
<1> QED BY <1>1, <1>2 DEF HostInv, MigGood

\* What is known before a step, besides.
LEMMA Before ==
  ASSUME HostInv
  PROVE  /\ TypeOK /\ db \in File /\ journal \in Maybe(File) /\ Contents \in File /\ Sound(db)
         /\ journal # <<>> => Sound(journal[1])
         /\ \A j \in {tmpBackup, tmpRestore, saved} : j \in Maybe(File) /\ (j # <<>> => Sound(j[1]))
         /\ container \in {"none", "stopped", "running"} /\ source \in image..MaxVersion
         /\ image \in 1..MaxVersion /\ source \in 1..MaxVersion /\ image \in Nat /\ source \in Nat
         /\ proc.at # "down" => container = "running"
         /\ cmd \in Command /\ cmd.pc \in 0..5
<1>1. TypeOK /\ image \in 1..MaxVersion /\ source \in image..MaxVersion
  BY DEF HostInv, TypeOK, MigTypeOK
<1>2. source \in 1..MaxVersion /\ image \in Nat /\ source \in Nat
  BY <1>1, MigrateAssumption
<1> QED BY <1>1, <1>2, ContentsFile DEF HostInv, TypeOK, MigTypeOK, FilesInv, Command

\* The commands that are neither a backup nor a restore.
LEMMA OtherKeeps ==
  ASSUME HostInv, Up \/ DownAll \/ Restart \/ Fetch \/ Build
  PROVE  HostInv'
<1>1. cmd.name # "none" /\ Works /\ Step \in {"up", "down", "restart", "fetch", "build"}
  BY DEF Up, DownAll, Restart, Fetch, Build, At
<1>2. PICK cut \in BOOLEAN : cut = cmd.cut
  BY Before DEF Command
<1>3. Went(cut) /\ faults' \in 0..MaxFaults
  BY <1>1, <1>2, Before, ReportsWent DEF Works
<1>4. BackupInv' /\ RestoreInv'
  BY <1>1, <1>3, Before, Steps DEF Went, BackupInv, RestoreInv
<1>5. UNCHANGED <<tmpBackup, tmpRestore, saved>>
  BY DEF Up, DownAll, Restart, Fetch, Build, migVars
<1>6. CASE Up
  <2>1. /\ UNCHANGED <<db, journal, proc, exits, source>> /\ container' = "running"
        /\ image' = image \/ (container = "none" /\ image' = source)
    BY <1>6 DEF Up
  <2>2. MigGood'
    <3>1. CASE image' = image
      BY <2>1, <3>1, MigSame DEF migVars
    <3>2. CASE container = "none" /\ image' = source
      <4>1. proc.at = "down"
        BY <3>2, Before
      <4> QED BY <2>1, <3>2, <4>1, Before DEF TypeOK, MigTypeOK, MigGood, ProcInv, Sound
    <3> QED BY <2>1, <3>1, <3>2
  <2>3. source' \in image'..MaxVersion
    BY <2>1, Before, MigrateAssumption
  <2> QED BY <1>3, <1>4, <1>5, <2>1, <2>2, <2>3, Before, StepKeeps
<1>7. CASE DownAll
  <2>1. /\ UNCHANGED <<db, journal, image, exits, source>> /\ container' = "none" /\ proc' = Down
    BY <1>7 DEF DownAll, Kept
  <2>2. MigGood' /\ proc'.at = "down"
    BY <2>1, Before, MigDown, EmptyFile DEF Sound
  <2> QED BY <1>3, <1>4, <1>5, <2>1, <2>2, Before, StepKeeps
<1>8. CASE Restart
  <2>1. /\ UNCHANGED <<db, journal, image, exits, source>> /\ container' = "running" /\ proc' = Down
    BY <1>8 DEF Restart
  <2>2. MigGood'
    BY <2>1, Before, MigDown DEF Sound
  <2> QED BY <1>3, <1>4, <1>5, <2>1, <2>2, Before, StepKeeps
<1>9. CASE Fetch
  <2>1. UNCHANGED <<migVars, container>> /\ source' \in source..MaxVersion
    BY <1>9 DEF Fetch
  <2>2. source' \in image'..MaxVersion /\ proc' = proc
    BY <2>1, Before, MigrateAssumption DEF migVars
  <2> QED BY <1>3, <1>4, <1>5, <2>1, <2>2, Before, MigSame, StepKeeps
<1>10. CASE Build
  <2>1. /\ UNCHANGED <<db, journal, exits, source>> /\ container' = "running" /\ image' = source
        /\ proc' = (IF image' = image /\ container = "running" THEN proc ELSE Down)
    BY <1>10 DEF Build
  <2>2. MigGood'
    <3>1. CASE image' = image /\ container = "running"
      BY <2>1, <3>1, MigSame DEF migVars
    <3>2. CASE proc' = Down
      BY <2>1, <3>2, Before, MigDown DEF Sound
    <3> QED BY <2>1, <3>1, <3>2
  <2>3. source' \in image'..MaxVersion
    BY <2>1, Before, MigrateAssumption
  <2> QED BY <1>3, <1>4, <1>5, <2>1, <2>2, <2>3, Before, StepKeeps
<1> QED BY <1>6, <1>7, <1>8, <1>9, <1>10

\* Without a file or process that moves, a copy that holds all still does.
LEMMA HoldsOn ==
  ASSUME Contents' = Contents, cmd'.base = cmd.base
  PROVE  /\ tmpBackup' = tmpBackup /\ HoldsAll(tmpBackup) => HoldsAll(tmpBackup)'
         /\ saved' = tmpBackup /\ HoldsAll(tmpBackup) => HoldsAll(saved)'
BY DEF HoldsAll

LEMMA StopKeeps ==
  ASSUME HostInv, StopOne
  PROVE  HostInv'
<1>1. PICK cut \in BOOLEAN : cut = (journal # <<>>)
  OBVIOUS
<1>2. Went(cut) /\ faults' \in 0..MaxFaults /\ Step = "stop" /\ cmd.name # "none"
  BY <1>1, Before, ReportsWent DEF StopOne, At
<1>3. /\ container' \in {"none", "stopped"} /\ proc' = Down
      /\ UNCHANGED <<db, journal, image, exits, source, tmpBackup, tmpRestore, saved>>
  BY Before DEF StopOne
<1>4. MigGood' /\ Contents' = Contents /\ proc'.at = "down"
  BY <1>3, Before, MigDown, EmptyFile DEF Sound, Contents
<1>5. cmd'.name # "none" => Quiet'
  BY <1>1, <1>2, <1>3 DEF Went, Quiet
<1>6. BackupInv'
  <2> SUFFICES ASSUME cmd'.name = "backup", cmd'.ok PROVE BackupInv'
    BY DEF BackupInv
  <2>1. cmd.name = "backup" /\ cmd.ok /\ cmd.pc = 1 /\ cmd'.pc = 2 /\ cmd'.base = cmd.base
    BY <1>2, Before, Steps DEF Went
  <2> QED BY <1>4, <1>5, <2>1 DEF HostInv, BackupInv
<1>7. RestoreInv'
  <2> SUFFICES ASSUME cmd'.name = "restore", cmd'.ok PROVE RestoreInv'
    BY DEF RestoreInv
  <2>1. cmd.name = "restore" /\ cmd.ok /\ cmd.pc = 2 /\ cmd'.pc = 3
    BY <1>2, Before, Steps DEF Went
  <2> QED BY <1>3, <1>5, <2>1 DEF HostInv, RestoreInv
<1> QED BY <1>2, <1>3, <1>4, <1>6, <1>7, Before, StepKeeps

\* The steps of a backup after its stop.
LEMMA BackupKeeps ==
  ASSUME HostInv, CopyOut \/ Download \/ RemoveBackup
  PROVE  HostInv'
<1>1. PICK cut \in BOOLEAN : cut = cmd.cut
  BY Before DEF Command
<1>2. /\ Went(cut) /\ faults' \in 0..MaxFaults /\ Step \in {"copyOut", "download", "removeBackup"}
      /\ cmd.name # "none"
  BY <1>1, Before, ReportsWent DEF CopyOut, Download, RemoveBackup, At, Works
<1>3. /\ UNCHANGED migVars /\ UNCHANGED <<container, source, tmpRestore>>
      /\ proc' = proc /\ image' = image
  BY DEF CopyOut, Download, RemoveBackup, migVars
<1>4. MigGood' /\ Contents' = Contents
  BY <1>3, MigSame
<1>5. \A j \in {tmpBackup', tmpRestore', saved'} : j \in Maybe(File) /\ (j # <<>> => Sound(j[1]))
  <2>1. CASE CopyOut
    BY <1>3, <2>1, Before, MaybeFile DEF CopyOut
  <2>2. CASE Download
    BY <1>3, <2>2, Before DEF Download
  <2>3. CASE RemoveBackup
    BY <1>3, <2>3, Before, MaybeFile DEF RemoveBackup
  <2> QED BY <2>1, <2>2, <2>3
<1>6. RestoreInv'
  BY <1>2, Before, Steps DEF Went, RestoreInv
<1>7. BackupInv'
  <2> SUFFICES ASSUME cmd'.name = "backup", cmd'.ok PROVE BackupInv'
    BY DEF BackupInv
  <2>1. /\ cmd.name = "backup" /\ cmd.ok /\ cmd'.pc = cmd.pc + 1 /\ cmd'.base = cmd.base
        /\ cmd'.cut = cmd.cut /\ cmd'.pc \in 0..5
        /\ <<cmd.pc, Step>> \in {<<2, "copyOut">>, <<4, "download">>, <<5, "removeBackup">>}
    BY <1>1, <1>2, Before, Steps DEF Went, Command
  <2>2. Contents'.rows >= cmd'.base
    BY <1>4, <2>1 DEF HostInv, BackupInv
  <2>3. CASE CopyOut
    <3>1. cmd'.pc = 3 /\ tmpBackup' = <<db>> /\ (~cmd.cut => journal = <<>>)
      BY <2>1, <2>3 DEF CopyOut, At, HostInv, BackupInv, Quiet
    <3>2. ~cmd.cut => HoldsAll(tmpBackup)'
      BY <1>4, <2>2, <3>1, Before, MaybeFile DEF HoldsAll, Contents
    <3> QED BY <2>1, <2>2, <3>1, <3>2 DEF BackupInv
  <2>4. CASE Download
    <3>1. /\ cmd.pc = 4 /\ cmd'.pc = 5 /\ saved' = tmpBackup /\ tmpBackup' = tmpBackup
          /\ container = "running" /\ (~cmd.cut => HoldsAll(tmpBackup))
      BY <2>1, <2>4 DEF Download, At, HostInv, BackupInv
    <3> QED BY <1>3, <1>4, <2>1, <2>2, <3>1, HoldsOn DEF BackupInv
  <2>5. CASE RemoveBackup
    BY <2>1, <2>5 DEF RemoveBackup, At
  <2> QED BY <2>3, <2>4, <2>5
<1> QED BY <1>2, <1>3, <1>4, <1>5, <1>6, <1>7, Before, StepKeeps

LEMMA StartKeeps ==
  ASSUME HostInv, StartOne
  PROVE  HostInv'
<1>1. PICK cut \in BOOLEAN : cut = cmd.cut
  BY Before DEF Command
<1>2. Went(cut) /\ faults' \in 0..MaxFaults /\ Step = "begin" /\ cmd.name # "none"
  BY <1>1, Before, ReportsWent DEF StartOne, At, Works
<1>3. /\ UNCHANGED migVars /\ UNCHANGED <<source, tmpBackup, tmpRestore, saved>>
      /\ container' = "running" /\ image' = image
  BY DEF StartOne, migVars
<1>4. MigGood' /\ Contents' = Contents
  BY <1>3, MigSame
<1>5. BackupInv'
  <2> SUFFICES ASSUME cmd'.name = "backup", cmd'.ok PROVE BackupInv'
    BY DEF BackupInv
  <2>1. /\ cmd.name = "backup" /\ cmd.ok /\ cmd.pc = 3 /\ cmd'.pc = 4 /\ cmd'.base = cmd.base
        /\ cmd'.cut = cmd.cut
    BY <1>1, <1>2, Before, Steps DEF Went
  <2> QED BY <1>3, <1>4, <2>1, HoldsOn DEF HostInv, BackupInv
<1>6. RestoreInv'
  <2> SUFFICES ASSUME cmd'.name = "restore", cmd'.ok PROVE FALSE
    BY DEF RestoreInv
  <2>1. cmd.pc = 5 /\ cmd'.pc = 6
    BY <1>2, Before, Steps DEF Went
  <2> QED BY <1>2, <2>1 DEF Went, Command
<1> QED BY <1>2, <1>3, <1>4, <1>5, <1>6, Before, StepKeeps

\* The steps of a restore before and after its stop.
LEMMA RestoreKeeps ==
  ASSUME HostInv, Upload \/ RemoveRestore
  PROVE  HostInv'
<1>1. PICK cut \in BOOLEAN : cut = cmd.cut
  BY Before DEF Command
<1>2. Went(cut) /\ faults' \in 0..MaxFaults /\ Step \in {"upload", "removeRestore"} /\ cmd.name # "none"
  BY <1>1, Before, ReportsWent DEF Upload, RemoveRestore, At, Works
<1>3. /\ UNCHANGED migVars /\ UNCHANGED <<container, source, tmpBackup, saved>>
      /\ proc' = proc /\ image' = image /\ db' = db /\ journal' = journal
  BY DEF Upload, RemoveRestore, migVars
<1>4. MigGood' /\ Contents' = Contents
  BY <1>3, MigSame
<1>5. \A j \in {tmpBackup', tmpRestore', saved'} : j \in Maybe(File) /\ (j # <<>> => Sound(j[1]))
  BY <1>3, Before, MaybeFile DEF Upload, RemoveRestore
<1>6. BackupInv'
  BY <1>2, Before, Steps DEF Went, BackupInv
<1>7. RestoreInv'
  <2> SUFFICES ASSUME cmd'.name = "restore", cmd'.ok PROVE RestoreInv'
    BY DEF RestoreInv
  <2>1. /\ cmd.name = "restore" /\ cmd.ok /\ cmd'.pc = cmd.pc + 1 /\ cmd'.cut = cmd.cut
        /\ <<cmd.pc, Step>> \in {<<1, "upload">>, <<4, "removeRestore">>}
    BY <1>1, <1>2, Before, Steps DEF Went
  <2>2. CASE Upload
    <3>1. cmd'.pc = 2 /\ saved' # <<>> /\ tmpRestore' = saved'
      BY <1>3, <2>1, <2>2 DEF Upload, At
    <3> QED BY <3>1 DEF RestoreInv
  <2>3. CASE RemoveRestore
    <3>1. cmd.pc = 4 /\ cmd'.pc = 5
      BY <2>1, <2>3 DEF RemoveRestore, At
    <3> QED BY <1>3, <2>1, <3>1 DEF HostInv, RestoreInv, Quiet
  <2> QED BY <2>2, <2>3
<1> QED BY <1>2, <1>3, <1>4, <1>5, <1>6, <1>7, Before, StepKeeps

LEMMA CopyInKeeps ==
  ASSUME HostInv, CopyIn
  PROVE  HostInv'
<1>1. PICK cut \in BOOLEAN : cut = cmd.cut
  BY Before DEF Command
<1>2. Went(cut) /\ faults' \in 0..MaxFaults /\ Step = "copyIn" /\ cmd.name # "none"
  BY <1>1, Before, ReportsWent DEF CopyIn, At, Works
<1>3. /\ UNCHANGED <<image, exits, container, source, tmpBackup, tmpRestore, saved>>
      /\ proc' = Down /\ tmpRestore # <<>>
  BY DEF CopyIn
<1> DEFINE f == tmpRestore[1]
           t == [f EXCEPT !.torn = TRUE]
<1>4. f \in File /\ Sound(f) /\ t \in File /\ t.torn
  BY <1>3, Before, MaybeFile DEF File
<1>5. /\ db' = f \/ (proc.at # "down" /\ db' = t)
      /\ journal' = IF journal = <<>> THEN <<>> ELSE <<t>>
  BY DEF CopyIn
<1> HIDE DEF t, f
<1>6. db' \in File /\ Sound(db)'
  BY <1>4, <1>5 DEF Sound
<1>7. journal' \in Maybe(File) /\ (journal' # <<>> => Sound(journal[1])')
  BY <1>4, <1>5, MaybeFile DEF Sound
<1>8. MigGood' /\ proc'.at = "down"
  BY <1>3, <1>6, <1>7, Before, MigDown, EmptyFile
<1>9. BackupInv'
  BY <1>2, Before, Steps DEF Went, BackupInv
<1>10. RestoreInv'
  <2> SUFFICES ASSUME cmd'.name = "restore", cmd'.ok PROVE RestoreInv'
    BY DEF RestoreInv
  <2>1. /\ cmd.name = "restore" /\ cmd.ok /\ cmd.pc = 3 /\ cmd'.pc = 4 /\ cmd'.cut = cmd.cut
    BY <1>1, <1>2, Before, Steps DEF Went
  <2>2. Quiet /\ saved # <<>> /\ tmpRestore = saved /\ proc.at = "down"
    BY <2>1, Before DEF HostInv, RestoreInv, Quiet
  <2>3. db' = f /\ saved = <<f>>
    BY <1>3, <1>5, <2>2, Before, MaybeFile DEF f
  <2>4. Quiet'
    BY <1>3, <1>5, <2>1, <2>2 DEF Quiet
  <2> QED BY <1>3, <2>1, <2>3, <2>4 DEF RestoreInv
<1> QED BY <1>2, <1>3, <1>8, <1>9, <1>10, Before, StepKeeps

LEMMA FailsKeeps ==
  ASSUME HostInv, Fails \/ PullFails
  PROVE  HostInv'
<1>1. PICK cut \in BOOLEAN : cut = cmd.cut
  BY Before DEF Command
<1>2. /\ cmd.name # "none" /\ UNCHANGED <<migVars, container, tmpBackup, tmpRestore, saved>>
      /\ source' = source \/ source' \in source..MaxVersion
  BY DEF Fails, PullFails, At
<1>3. faults' \in 0..MaxFaults
  <2>1. faults \in 0..MaxFaults /\ (faults' = faults \/ (faults < MaxFaults /\ faults' = faults + 1))
    BY DEF HostInv, TypeOK, Fails, PullFails
  <2> QED BY <2>1, HostAssumption
<1>4. Went(cut) /\ ~cmd'.ok
  <2>1. CASE Fails
    <3>1. cmd' = After(FALSE, cut)
      BY <1>1, <2>1 DEF Fails
    <3> QED BY <1>2, <3>1, Before, AfterWent
  <2>2. CASE PullFails
    <3>1. cmd' = [cmd EXCEPT !.pc = @ + 1, !.ok = FALSE] /\ Step = "fetch"
      BY <2>2 DEF PullFails, At
    <3>2. cmd.pc + 1 \in DOMAIN Script[cmd.name] /\ cmd.name \in DOMAIN Script
      BY <1>2, <3>1, Before, Steps DEF Command
    <3>3. cmd.pc + 1 \in 0..5
      BY <3>2, Scripts
    <3>4. /\ cmd'.name = cmd.name /\ cmd'.pc = cmd.pc + 1 /\ cmd'.ok = FALSE
          /\ cmd'.cut = cmd.cut /\ cmd'.base = cmd.base /\ cmd' \in Command
      BY <3>1, <3>3, Before DEF Command
    <3> QED BY <1>1, <3>2, <3>4 DEF Went
  <2> QED BY <2>1, <2>2
<1>5. BackupInv' /\ RestoreInv'
  BY <1>4 DEF BackupInv, RestoreInv
<1>6. MigGood' /\ proc' = proc /\ image' = image
  BY <1>2, MigSame DEF migVars
<1>7. source' \in image'..MaxVersion
  BY <1>2, <1>6, Before, MigrateAssumption
<1> QED BY <1>2, <1>3, <1>4, <1>5, <1>6, <1>7, Before, StepKeeps

-----------------------------------------------------------------------------
(* The invariant. *)

LEMMA BeginKeeps ==
  ASSUME HostInv, NEW name \in DOMAIN Script, Begin(name)
  PROVE  HostInv'
<1>1. /\ UNCHANGED <<migVars, container, source, tmpBackup, tmpRestore, saved, faults>>
      /\ cmd' = [name |-> name, pc |-> 1, ok |-> TRUE, base |-> Contents.rows, cut |-> FALSE]
  BY DEF Begin
<1>2. MigGood' /\ Contents' = Contents /\ proc' = proc /\ image' = image
  BY <1>1, MigSame DEF migVars
<1>3. Contents.rows \in 0..MaxRows
  BY Before DEF File
<1>4. cmd' \in Command /\ 1 \in DOMAIN Script[name]
  BY <1>1, <1>3, Scripts DEF Command
<1>5. TypeOK'
  BY <1>1, <1>2, <1>4 DEF HostInv, TypeOK, MigGood
<1>6. FilesInv'
  BY <1>1 DEF HostInv, FilesInv, Sound, migVars
<1>7. Contents'.rows >= Contents.rows
  BY <1>2, <1>3, MigrateAssumption
<1>8. BackupInv' /\ RestoreInv'
  BY <1>1, <1>7 DEF BackupInv, RestoreInv
<1> QED BY <1>2, <1>5, <1>6, <1>8 DEF HostInv, MigGood

LEMMA HostInductive == Spec => []HostInv
<1>1. Init => HostInv
  <2> SUFFICES ASSUME Init PROVE HostInv
    OBVIOUS
  <2>1. /\ db = Empty /\ journal = <<>> /\ proc = Down /\ image \in 1..MaxVersion /\ exits = 0
        /\ container = "running" /\ source = image /\ faults = 0
        /\ tmpBackup = <<>> /\ tmpRestore = <<>> /\ saved = <<>>
        /\ cmd = [name |-> "none", pc |-> 0, ok |-> FALSE, base |-> 0, cut |-> FALSE]
    BY DEF Init, MigInit
  <2>2. MigTypeOK
    BY <2>1, EmptyFile, MaybeFile, MigrateAssumption DEF MigTypeOK
  <2>3. cmd \in Command /\ source \in image..MaxVersion
    BY <2>1, MigrateAssumption DEF Command
  <2>4. TypeOK
    BY <2>1, <2>2, <2>3, EmptyFile, MaybeFile, HostAssumption DEF TypeOK
  <2> QED BY <2>1, <2>4, EmptyFile DEF HostInv, FilesInv, ProcInv, BackupInv, RestoreInv
<1>2. HostInv /\ [Next]_vars => HostInv'
  <2> SUFFICES ASSUME HostInv, [Next]_vars PROVE HostInv'
    OBVIOUS
  <2>1. CASE UNCHANGED vars
    <3>1. MigGood'
      BY <2>1, MigSame DEF vars
    <3>2. TypeOK'
      BY <2>1, <3>1 DEF HostInv, TypeOK, MigGood, vars, migVars, hostVars
    <3>3. FilesInv' /\ BackupInv' /\ RestoreInv'
      BY <2>1 DEF HostInv, FilesInv, Sound, BackupInv, RestoreInv, Quiet, HoldsAll, Contents,
                  vars, migVars, hostVars
    <3> QED BY <3>1, <3>2, <3>3 DEF HostInv, MigGood
  <2>2. CASE CommandStep
    BY <2>2, OtherKeeps, StopKeeps, StartKeeps, BackupKeeps, RestoreKeeps, CopyInKeeps, FailsKeeps
       DEF CommandStep
  <2> QED BY <2>1, <2>2, ServeKeeps, BeginKeeps DEF Next
<1> QED BY <1>1, <1>2, PTL DEF Spec

-----------------------------------------------------------------------------
(* The theorems. *)

\* Types: and that a process runs only in a container that does.
THEOREM HostTypes == Spec => []TypeOK
<1>1. HostInv => TypeOK
  BY DEF HostInv
<1> QED BY <1>1, HostInductive, PTL

\* Each migration is applied and recorded, or neither, whenever processes end.
THEOREM SchemaAlwaysMatches == Spec => []SchemaMatches
<1>1. HostInv => SchemaMatches
  BY DEF HostInv, FilesInv, ProcInv, SchemaMatches, Sound, Contents
<1> QED BY <1>1, HostInductive, PTL

\* Nothing but a restore takes a committed row away.
THEOREM DataSurvivesAlways == Spec => DataSurvives
<1>1. HostInv /\ [Next]_vars => [Contents'.rows < Contents.rows => cmd.name = "restore"]_vars
  <2> SUFFICES ASSUME HostInv, Next, cmd.name # "restore" PROVE ~(Contents'.rows < Contents.rows)
    OBVIOUS
  <2>1. Contents.rows \in Nat
    BY Before, MigrateAssumption DEF File
  <2>2. CASE Serve(ProcStep)
    <3>1. Contents' \in File /\ Contents'.rows >= Contents.rows
      BY <2>2, ProcessGood, MaybeFile DEF HostInv, Serve, ProcGood, MigTypeOK, Contents
    <3> QED BY <2>1, <3>1, MigrateAssumption DEF File
  <2>3. CASE UNCHANGED <<db, journal>>
    BY <2>1, <2>3 DEF Contents
  <2>4. ~CopyIn
    BY Before, Steps DEF CopyIn, At
  <2> QED BY <2>2, <2>3, <2>4
          DEF Next, Begin, CommandStep, Up, DownAll, Kept, StopOne, StartOne, Restart, Fetch, Build, CopyOut,
              Download, Upload, RemoveBackup, RemoveRestore, Fails, PullFails, migVars
<1> QED BY <1>1, HostInductive, PTL DEF Spec, DataSurvives

\* A command whose steps all worked ends with its last step, and not before.
LEMMA CompletesAt ==
  ASSUME HostInv, Next, NEW name \in DOMAIN Script, Completes(name)
  PROVE  /\ CommandStep /\ ~Fails /\ ~PullFails /\ cmd.name # "none"
         /\ cmd.ok /\ cmd.pc = Len(Script[name])
<1>1. cmd.name = name /\ name # "none" /\ cmd'.name = "none" /\ cmd'.ok /\ cmd \in Command
  BY Before DEF Completes, Script
<1>2. CommandStep
  BY <1>1 DEF Next, Serve, hostVars, Begin
<1>3. ASSUME NEW works \in BOOLEAN, NEW cut \in BOOLEAN, cmd' = After(works, cut)
      PROVE  works /\ cmd.ok /\ cmd.pc = Len(Script[name])
  <2>1. CASE cmd.pc = Len(Script[name]) \/ ~works
    BY <1>1, <1>3, <2>1 DEF After, Command
  <2>2. CASE cmd.pc # Len(Script[name]) /\ works
    <3>1. cmd' = [cmd EXCEPT !.pc = @ + 1, !.ok = @ /\ works, !.cut = cut]
      BY <1>1, <1>3, <2>2 DEF After
    <3> QED BY <1>1, <3>1 DEF Command
  <2> QED BY <2>1, <2>2
<1>4. PICK cut \in BOOLEAN : cut = cmd.cut
  BY <1>1 DEF Command
<1>5. PICK stopped \in BOOLEAN : stopped = (journal # <<>>)
  OBVIOUS
<1>6. ~Fails
  BY <1>3, <1>4 DEF Fails
<1>7. ~PullFails
  BY <1>1 DEF PullFails, Command
<1>8. Reports(cut) \/ Reports(stopped)
  BY <1>2, <1>4, <1>5, <1>6, <1>7
     DEF CommandStep, Works, Up, DownAll, StopOne, StartOne, Restart, Fetch, Build, CopyOut, CopyIn,
         Download, Upload, RemoveBackup, RemoveRestore
<1>9. \E works \in BOOLEAN, c \in BOOLEAN : cmd' = After(works, c)
  BY <1>8 DEF Reports
<1> QED BY <1>1, <1>2, <1>3, <1>6, <1>7, <1>9

\* Which step is the last.
LEMMA LastSteps ==
  ASSUME TypeOK, cmd.name # "none", cmd.pc = Len(Script[cmd.name])
  PROVE  /\ cmd.name = "backup" => cmd.pc = 5 /\ Step = "removeBackup"
         /\ cmd.name = "restore" => cmd.pc = 5 /\ Step = "begin"
         /\ cmd.name \notin {"backup", "restore", "stop"} => Step \in {"up", "restart", "build"}
<1>1. cmd.name \in DOMAIN Script
  BY DEF TypeOK, Command
<1>2. CASE cmd.name = "backup"
  BY <1>2 DEF Step, Script
<1>3. CASE cmd.name = "restore"
  BY <1>3 DEF Step, Script
<1>4. CASE cmd.name = "update"
  BY <1>4 DEF Step, Script
<1>5. CASE cmd.name = "domain"
  BY <1>5 DEF Step, Script
<1>6. CASE cmd.name \in {"start", "stop", "restart"}
  BY <1>6 DEF Step, Script
<1> QED BY <1>1, <1>2, <1>3, <1>4, <1>5, <1>6 DEF Script

\* A backup whose steps all worked has every row there was when it began.
THEOREM BackupHasAllAlways == Spec => BackupHasAll
<1>1. HostInv /\ [Next]_vars =>
        [Completes("backup") /\ ~cmd.cut =>
           saved[1].rows >= cmd.base /\ (saved[1].torn => Contents.torn)]_vars
  <2> SUFFICES ASSUME HostInv, Next, Completes("backup"), ~cmd.cut
               PROVE  saved[1].rows >= cmd.base /\ (saved[1].torn => Contents.torn)
    OBVIOUS
  <2>1. cmd.name = "backup" /\ "backup" \in DOMAIN Script
    BY DEF Completes, Script
  <2>2. cmd.ok /\ cmd.pc = 5
    BY <2>1, CompletesAt, LastSteps, Before
  <2> QED BY <2>1, <2>2 DEF HostInv, BackupInv, HoldsAll
<1> QED BY <1>1, HostInductive, PTL DEF Spec, BackupHasAll

\* A restore whose steps all worked leaves the file that was saved, and no
\* journal that would change it.
THEOREM RestoreIsExactAlways == Spec => RestoreIsExact
<1>1. HostInv /\ [Next]_vars => [Completes("restore") /\ ~cmd.cut => <<Contents'>> = saved]_vars
  <2> SUFFICES ASSUME HostInv, Next, Completes("restore"), ~cmd.cut PROVE <<Contents'>> = saved
    OBVIOUS
  <2>1. cmd.name = "restore" /\ "restore" \in DOMAIN Script
    BY DEF Completes, Script
  <2>2. cmd.ok /\ cmd.pc = 5 /\ Step = "begin" /\ CommandStep /\ ~Fails /\ ~PullFails
    BY <2>1, CompletesAt, LastSteps, Before
  <2>3. StartOne
    BY <2>2 DEF CommandStep, At, Up, DownAll, StopOne, Restart, Fetch, Build, CopyOut, CopyIn,
                Download, Upload, RemoveBackup, RemoveRestore
  <2>4. Contents' = Contents
    BY <2>3 DEF StartOne, migVars, Contents
  <2>5. saved = <<db>> /\ journal = <<>>
    BY <2>1, <2>2 DEF HostInv, RestoreInv, Quiet
  <2> QED BY <2>4, <2>5 DEF Contents
<1> QED BY <1>1, HostInductive, PTL DEF Spec, RestoreIsExact

\* A command whose steps all worked leaves the server running, but for "stop".
THEOREM ServiceBackAlways == Spec => ServiceBack
<1>1. HostInv /\ [Next]_vars =>
        [\A name \in DOMAIN Script \ {"stop"} : Completes(name) => container' = "running"]_vars
  <2> SUFFICES ASSUME HostInv, Next, NEW name \in DOMAIN Script \ {"stop"}, Completes(name)
               PROVE  container' = "running"
    OBVIOUS
  <2>1. cmd.name = name
    BY DEF Completes
  <2>2. /\ cmd.ok /\ CommandStep /\ ~Fails /\ ~PullFails /\ cmd.pc = Len(Script[cmd.name])
        /\ cmd.name # "none"
    BY <2>1, CompletesAt
  <2>3. CASE Step = "removeBackup" /\ container = "running"
    BY <2>2, <2>3 DEF CommandStep, At, Up, DownAll, StopOne, StartOne, Restart, Fetch, Build, CopyOut,
                      CopyIn, Download, Upload, RemoveBackup, RemoveRestore
  <2>4. CASE Step \in {"begin", "up", "restart", "build"}
    BY <2>2, <2>4 DEF CommandStep, At, Up, DownAll, StopOne, StartOne, Restart, Fetch, Build, CopyOut,
                      CopyIn, Download, Upload, RemoveBackup, RemoveRestore
  <2>5. cmd.name = "backup" => Step = "removeBackup" /\ container = "running"
    <3> SUFFICES ASSUME cmd.name = "backup" PROVE Step = "removeBackup" /\ container = "running"
      OBVIOUS
    <3>1. cmd.pc = 5 /\ Step = "removeBackup"
      BY <2>2, Before, LastSteps
    <3> QED BY <2>2, <3>1 DEF HostInv, BackupInv
  <2> QED BY <2>1, <2>2, <2>3, <2>4, <2>5, Before, LastSteps
<1> QED BY <1>1, HostInductive, PTL DEF Spec, ServiceBack

-----------------------------------------------------------------------------
(* Host implements Database.  TxInv is what HostInv does not say of a      *)
(* transaction: it is one step away from what a crash would go back to.    *)

\* g is one transaction away from the file f.
OneAhead(f, g) ==
  \/ g.rows = f.rows + 1 /\ g.cols = f.cols /\ g.recs = f.recs
  \/ g.rows = f.rows /\ g.cols = f.cols + 1 /\ g.recs = f.recs + 1

TxInv ==
  /\ proc.at = "recorded" => proc.i = db.recs
  /\ proc.at = "commit" => OneAhead(journal[1], proc.tx)

Copies == UNION {StateOf(f) : f \in Files}

\* A file is in one state or in none, and the state of a sound file that is
\* whole is what the file holds.
LEMMA StateOfFile ==
  ASSUME NEW f \in File
  PROVE  /\ StateOf(f) = {} \/ \E s : StateOf(f) = {s}
         /\ f.torn => StateOf(f) = {}
         /\ StateOf([f EXCEPT !.torn = TRUE]) = {}
         /\ ~f.torn /\ f.cols = f.recs => StateOf(f) = {[rows |-> f.rows, schema |-> f.recs]}
BY DEF StateOf, File

\* To finish a transaction is a step of Database.
LEMMA OneAheadTransacts ==
  ASSUME NEW f \in File, NEW g \in File, OneAhead(f, g), ~f.torn, ~g.torn, f.cols = f.recs
  PROVE  \E s \in StateOf(f) : \E t \in Data!Successors(s) : StateOf(g) = {t}
<1> DEFINE s == [rows |-> f.rows, schema |-> f.recs]
           t == [rows |-> g.rows, schema |-> g.recs]
<1>1. f.rows \in Nat /\ f.cols \in Nat /\ f.recs \in Nat
  BY MigrateAssumption DEF File
<1>2. g.cols = g.recs /\ t \in Data!Successors(s)
  BY <1>1 DEF OneAhead, Data!Successors
<1>3. StateOf(f) = {s} /\ StateOf(g) = {t}
  BY <1>2, StateOfFile
<1> QED BY <1>2, <1>3

LEMMA FilesCopied ==
  ASSUME NEW X, \A f \in Files' : StateOf(f) \subseteq Copies \union X
  PROVE  Copies' \subseteq Copies \union X
BY DEF Copies, StateOf

\* While the file and its journal stay, and files are made of those there are,
\* Database copies.
LEMMA CopyOnly ==
  ASSUME UNCHANGED <<db, journal>>, Files' \subseteq Files
  PROVE  Data!Copy
<1>1. StateOf(Contents)' = StateOf(Contents)
  BY DEF StateOf, Contents
<1>2. Copies' \subseteq Copies
  BY DEF Copies, StateOf
<1> QED BY <1>1, <1>2 DEF Data!Copy, Copies

-----------------------------------------------------------------------------
(* Steps of the process. *)

\* What the process does to the file is not seen in the other files.
LEMMA ServeCopies ==
  ASSUME UNCHANGED hostVars, NEW X, StateOf(db)' \subseteq Copies \union X
  PROVE  Copies' \subseteq Copies \union X
<1>1. \A f \in Files' : f = db' \/ f \in Files
  BY DEF Files, hostVars
<1>2. \A f \in Files : StateOf(f) \subseteq Copies
  BY DEF Copies
<1>3. StateOf(db)' = StateOf(db')
  BY DEF StateOf
<1> QED BY <1>1, <1>2, <1>3, FilesCopied

\* A step of the process that leaves what one finds who opens the file.
LEMMA ServeStutters ==
  ASSUME UNCHANGED hostVars, Contents' = Contents,
         StateOf(db)' \subseteq Copies \union StateOf(Contents)
  PROVE  Data!Copy
<1>1. StateOf(Contents)' = StateOf(Contents)
  BY DEF StateOf
<1>2. Copies' \subseteq Copies \union StateOf(Contents)
  BY ServeCopies
<1> QED BY <1>1, <1>2 DEF Data!Copy, Copies, hostVars

\* A commit is not seen before it ends.
LEMMA CommitBegins ==
  ASSUME HostInv, UNCHANGED hostVars, journal = <<>>, NEW tx \in File, BeginCommit(tx)
  PROVE  Data!Copy
<1>1. Contents' = Contents /\ db' = [tx EXCEPT !.torn = TRUE]
  BY DEF BeginCommit, Contents
<1>2. StateOf(db)' = {}
  BY <1>1, StateOfFile DEF StateOf
<1> QED BY <1>1, <1>2, ServeStutters

LEMMA ServeMaps ==
  ASSUME HostInv, TxInv, Serve(ProcStep)
  PROVE  TxInv' /\ (Data!Transact \/ Data!Copy)
<1>0. /\ UNCHANGED hostVars /\ db \in File /\ Contents \in File /\ proc \in Process /\ proc.tx \in File
      /\ proc.at \in {"down", "check", "applied", "recorded", "commit", "serving"}
      /\ journal \in Maybe(File)
  BY Before DEF Serve, HostInv, TypeOK, MigTypeOK, Process
<1>1. StateOf(db) \subseteq Copies
  BY DEF Copies, Files
<1>2. CASE Open
  <2>1. db' = Contents /\ Contents' = Contents /\ proc'.at = "check"
    BY <1>2 DEF Open, Contents
  <2>2. StateOf(db)' = StateOf(Contents)
    BY <2>1 DEF StateOf
  <2> QED BY <1>0, <2>1, <2>2, ServeStutters DEF TxInv
<1>3. CASE Apply \/ Ready \/ Exit \/ Record
  <2>0. Apply \/ Ready \/ Exit => proc'.at \in {"applied", "serving", "down"}
    <3>1. Apply => proc'.at \in {"applied", "down"}
      BY DEF Apply, Down
    <3>2. Ready => proc'.at = "serving"
      BY <1>0 DEF Ready, Process
    <3>3. Exit => proc'.at = "down"
      BY DEF Exit, Down
    <3> QED BY <3>1, <3>2, <3>3
  <2>1. UNCHANGED <<db, journal>> /\ Contents' = Contents /\ proc'.at # "commit"
    <3>1. UNCHANGED <<db, journal>>
      BY <1>3 DEF Apply, Ready, Exit, Record
    <3>2. Record => proc'.at = "recorded"
      BY <1>0 DEF Record, Process
    <3> QED BY <1>3, <2>0, <3>1, <3>2 DEF Contents
  <2>2. proc'.at = "recorded" => proc'.i = db'.recs
    <3>1. CASE Record
      <4>1. proc'.i = proc.i /\ proc.at = "applied"
        BY <1>0, <3>1 DEF Record, Process
      <4> QED BY <2>1, <4>1 DEF HostInv, ProcInv
    <3>2. CASE Apply \/ Ready \/ Exit
      BY <2>0, <3>2
    <3> QED BY <1>3, <3>1, <3>2
  <2>3. StateOf(db)' \subseteq Copies \union StateOf(Contents)
    BY <1>1, <2>1 DEF StateOf
  <2> QED BY <1>0, <2>1, <2>2, <2>3, ServeStutters DEF TxInv
<1>4. CASE Commit
  <2>1. proc.at = "recorded" /\ BeginCommit(proc.tx) /\ journal = <<>>
    BY <1>4 DEF Commit, HostInv, ProcInv
  <2>2. /\ proc.i = db.recs /\ db.cols = db.recs /\ proc.i \in Nat
        /\ proc.tx.rows = db.rows /\ proc.tx.cols = proc.i + 1 /\ proc.tx.recs = proc.i + 1
    BY <1>0, <2>1, MigrateAssumption DEF TxInv, HostInv, ProcInv, FilesInv, Sound, File
  <2>3. proc'.at = "commit" /\ journal'[1] = db /\ proc'.tx = proc.tx
    BY <1>0, <2>1 DEF BeginCommit, Process
  <2>4. OneAhead(db, proc.tx)
    BY <2>2 DEF OneAhead
  <2> QED BY <1>0, <2>1, <2>3, <2>4, CommitBegins DEF TxInv, OneAhead
<1>5. CASE Insert
  <2> DEFINE tx == [db EXCEPT !.rows = @ + 1]
  <2>1. proc.at = "serving" /\ db.rows < MaxRows /\ BeginCommit(tx) /\ journal = <<>>
    BY <1>5 DEF Insert, HostInv, ProcInv
  <2>2. tx \in File /\ OneAhead(db, tx)
    <3>1. db.rows \in Nat /\ db.rows + 1 \in 0..MaxRows
      BY <1>0, <2>1, MigrateAssumption DEF File
    <3>2. tx.rows = db.rows + 1 /\ tx.cols = db.cols /\ tx.recs = db.recs
      BY <1>0 DEF File
    <3> QED BY <1>0, <3>1, <3>2 DEF File, OneAhead
  <2> HIDE DEF tx
  <2>3. proc'.at = "commit" /\ journal'[1] = db /\ proc'.tx = tx
    BY <1>0, <2>1 DEF BeginCommit, Process
  <2> QED BY <1>0, <2>1, <2>2, <2>3, CommitBegins DEF TxInv, OneAhead
<1>6. CASE EndCommit
  <2>1. /\ proc.at = "commit" /\ journal # <<>> /\ ~journal[1].torn /\ ~proc.tx.torn
        /\ OneAhead(journal[1], proc.tx) /\ Contents = journal[1] /\ journal[1].cols = journal[1].recs
    BY <1>6 DEF EndCommit, HostInv, ProcInv, FilesInv, Sound, TxInv, Contents
  <2>2. db' = proc.tx /\ Contents' = proc.tx /\ proc'.at \in {"check", "serving"}
    BY <1>0, <1>6 DEF EndCommit, Contents, Process
  <2>3. StateOf(Contents)' = StateOf(proc.tx) /\ StateOf(db)' = StateOf(proc.tx)
    BY <2>2 DEF StateOf
  <2>4. \E s \in StateOf(Contents) : \E t \in Data!Successors(s) : StateOf(Contents)' = {t}
    BY <1>0, <2>1, <2>3, OneAheadTransacts
  <2>5. Copies' \subseteq Copies \union StateOf(Contents)'
    BY <1>0, <2>3, ServeCopies
  <2>6. Data!Transact
    BY <1>0, <2>4, <2>5 DEF Data!Transact, Copies, hostVars
  <2> QED BY <2>2, <2>6 DEF TxInv
<1> QED BY <1>2, <1>3, <1>4, <1>5, <1>6 DEF Serve, ProcStep, StartStep

-----------------------------------------------------------------------------
(* Steps of a command. *)

\* A restore takes the database to the state of a file, or to none.
LEMMA CopyInRestores ==
  ASSUME HostInv, CopyIn
  PROVE  Data!Restore
<1> DEFINE f == tmpRestore[1]
<1>1. f \in File /\ f \in Files /\ journal \in Maybe(File)
  BY Before, MaybeFile DEF CopyIn, Files
<1>2. /\ db' = f \/ db' = [f EXCEPT !.torn = TRUE]
      /\ journal' = IF journal = <<>> THEN <<>> ELSE <<[f EXCEPT !.torn = TRUE]>>
      /\ UNCHANGED <<tmpBackup, tmpRestore, saved>>
  BY DEF CopyIn
<1>3. StateOf(db') = {} \/ StateOf(db') = StateOf(f)
  BY <1>1, <1>2, StateOfFile
<1>4. StateOf(f) \subseteq Copies
  BY <1>1 DEF Copies
<1>5. StateOf(Contents)' \in {{}} \union {{s} : s \in Copies}
  <2>1. CASE journal = <<>>
    <3>1. StateOf(Contents)' = StateOf(db')
      BY <1>2, <2>1 DEF StateOf, Contents
    <3> QED BY <1>1, <1>3, <1>4, <3>1, StateOfFile
  <2>2. CASE journal # <<>>
    <3>1. StateOf(Contents)' = StateOf([f EXCEPT !.torn = TRUE])
      BY <1>2, <2>2 DEF StateOf, Contents
    <3> QED BY <1>1, <3>1, StateOfFile
  <2> QED BY <2>1, <2>2
<1>6. Copies' \subseteq Copies
  <2>1. \A g \in Files' : g = db' \/ g \in Files
    BY <1>2 DEF Files
  <2>2. \A g \in Files : StateOf(g) \subseteq Copies
    BY DEF Copies
  <2>3. \A g \in Files' : StateOf(g) \subseteq Copies \union {}
    BY <1>3, <1>4, <2>1, <2>2
  <2> QED BY <2>3, FilesCopied
<1>7. cmd.name = "restore" /\ cmd'.name = "restore"
  <2>1. cmd.name # "none" /\ Step = "copyIn" /\ Works
    BY DEF CopyIn, At
  <2>2. cmd.name = "restore" /\ cmd.pc = 3
    BY <2>1, Before, Steps
  <2>3. Len(Script[cmd.name]) = 5 /\ \A works \in BOOLEAN : ~(~works /\ <<cmd.name, Step>> \in Checked)
    BY <2>1, <2>2 DEF Script, Checked
  <2>4. \A works \in BOOLEAN : After(works, cmd.cut).name = "restore"
    BY <2>2, <2>3, Before DEF After, Command
  <2> QED BY <2>1, <2>2, <2>4 DEF Works, Reports
<1> QED BY <1>5, <1>6, <1>7 DEF Data!Restore, Copies

LEMMA CommandMaps ==
  ASSUME HostInv, TxInv, CommandStep
  PROVE  TxInv' /\ (Data!Copy \/ Data!Restore)
<1>1. TxInv'
  <2>1. UNCHANGED <<db, journal, proc>> \/ proc' = Down
    BY DEF CommandStep, Up, DownAll, StopOne, StartOne, Restart, Fetch, Build, CopyOut, CopyIn,
           Download, Upload, RemoveBackup, RemoveRestore, Fails, PullFails, migVars
  <2> QED BY <2>1 DEF TxInv, OneAhead, Down
<1>2. CASE CopyIn
  BY <1>1, <1>2, CopyInRestores
<1>3. CASE ~CopyIn
  <2>1. UNCHANGED <<db, journal>>
    BY <1>3 DEF CommandStep, Up, DownAll, Kept, StopOne, StartOne, Restart, Fetch, Build, CopyOut,
                Download, Upload, RemoveBackup, RemoveRestore, Fails, PullFails, migVars
  <2>2. /\ tmpBackup' \in {tmpBackup, <<>>, <<db>>}
        /\ tmpRestore' \in {tmpRestore, <<>>, saved}
        /\ saved' \in {saved, tmpBackup}
    BY <1>3 DEF CommandStep, Up, DownAll, StopOne, StartOne, Restart, Fetch, Build, CopyOut,
                Download, Upload, RemoveBackup, RemoveRestore, Fails, PullFails
  <2>3. Files' \subseteq Files
    BY <2>1, <2>2 DEF Files
  <2> QED BY <1>1, <2>1, <2>3, CopyOnly
<1> QED BY <1>2, <1>3

\* What is in the database goes from state to state by whole transactions,
\* through crashes at any point, migrations, updates and failing commands; only
\* a restore takes it back, to a state of some file, or leaves it damaged.
THEOREM ImplementsDatabase == Spec => RefinesDatabase
<1>1. Init => TxInv /\ Data!Init
  <2> SUFFICES ASSUME Init PROVE TxInv /\ Data!Init
    OBVIOUS
  <2>1. /\ db = Empty /\ journal = <<>> /\ proc.at = "down" /\ cmd.name = "none"
        /\ tmpBackup = <<>> /\ tmpRestore = <<>> /\ saved = <<>>
    BY DEF Init, MigInit, Down
  <2>2. Contents = Empty /\ Files = {Empty}
    BY <2>1 DEF Contents, Files
  <2>3. StateOf(Empty) = {[rows |-> 0, schema |-> 0]}
    BY DEF StateOf, Empty
  <2> QED BY <2>1, <2>2, <2>3 DEF TxInv, Data!Init, Data!New
<1>2. HostInv /\ TxInv /\ [Next]_vars => TxInv' /\ [Data!Next]_(Data!dataVars)
  <2> SUFFICES ASSUME HostInv, TxInv, [Next]_vars
               PROVE  TxInv' /\ [Data!Next]_(Data!dataVars)
    OBVIOUS
  <2>1. CASE Serve(ProcStep)
    BY <2>1, ServeMaps DEF Data!Next
  <2>2. CASE CommandStep
    BY <2>2, CommandMaps DEF Data!Next
  <2>3. CASE UNCHANGED vars \/ \E name \in DOMAIN Script : Begin(name)
    <3>1. UNCHANGED <<db, journal, proc, tmpBackup, tmpRestore, saved>>
      BY <2>3 DEF vars, migVars, hostVars, Begin
    <3>2. Files' \subseteq Files
      BY <3>1 DEF Files
    <3> QED BY <3>1, <3>2, CopyOnly DEF TxInv, OneAhead, Data!Next
  <2> QED BY <2>1, <2>2, <2>3 DEF Next
<1> QED BY <1>1, <1>2, HostInductive, PTL DEF Spec, RefinesDatabase, Data!Spec
=============================================================================
