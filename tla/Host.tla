-------------------------------- MODULE Host --------------------------------
(***************************************************************************)
(* A server and the commands of "mailr manage" (internal/cli/manage.go),   *)
(* which run one after the other over ssh and scp.  Any of them may fail,  *)
(* and most of their errors are ignored.  docker compose is modelled from  *)
(* how the commands and docker-compose.yml use it.                         *)
(***************************************************************************)
EXTENDS Migrate

CONSTANT MaxFaults   \* bound: steps that fail for no reason of their own

ASSUME HostAssumption == MaxFaults \in Nat

VARIABLES
  container,   \* "none", "stopped" or "running" (restart: unless-stopped)
  source,      \* migrations of the program in the remote directory
  tmpBackup,   \* /tmp/mailr-backup.db on the server, if it is there
  tmpRestore,  \* /tmp/mailr-restore.db on the server
  saved,       \* the operator's latest mailr-backup-<time>.db
  cmd,         \* the command that is run, see Command
  faults

hostVars == <<container, source, tmpBackup, tmpRestore, saved, cmd, faults>>
vars     == <<migVars, hostVars>>

\* Slips: the service is not stopped; it is not started again.
ScriptHot ==
  [start   |-> <<"up">>,
   stop    |-> <<"down">>,
   restart |-> <<"restart">>,
   update  |-> <<"fetch", "down", "build">>,
   backup  |-> <<"copyOut", "begin", "download", "removeBackup">>,
   restore |-> <<"upload", "copyIn", "removeRestore", "begin">>,
   domain  |-> <<"down", "up">>]
ScriptNoStart ==
  [start   |-> <<"up">>,
   stop    |-> <<"down">>,
   restart |-> <<"restart">>,
   update  |-> <<"fetch", "down", "build">>,
   backup  |-> <<"stop", "copyOut", "download", "removeBackup">>,
   restore |-> <<"upload", "stop", "copyIn", "removeRestore", "begin">>,
   domain  |-> <<"down", "up">>]

\* The steps of a command.  What "domain" edits in .env before is no state here,
\* and of "cleanup" see Up.
Script ==
  [start   |-> <<"up">>,
   stop    |-> <<"down">>,
   restart |-> <<"restart">>,
   update  |-> <<"fetch", "down", "build">>,
   backup  |-> <<"stop", "copyOut", "begin", "download", "removeBackup">>,
   restore |-> <<"upload", "stop", "copyIn", "removeRestore", "begin">>,
   domain  |-> <<"down", "up">>]

\* The steps whose error the command returns.
Checked ==
  {<<"start", "up">>, <<"stop", "down">>, <<"restart", "restart">>, <<"update", "fetch">>,
   <<"update", "build">>, <<"backup", "download">>, <<"restore", "upload">>}

\* pc: the step it is at; ok: no step has failed.  Observed: base, the rows
\* there were when it began, and cut, whether its stop cut off a transaction.
\* Without a command ok is that of the last one, which ran to its end.
Command ==
  [name : DOMAIN Script \union {"none"}, pc : 0..5, ok : BOOLEAN,
   base : 0..MaxRows, cut : BOOLEAN]

TypeOK ==
  /\ MigTypeOK
  /\ container \in {"none", "stopped", "running"}
  /\ source \in image..MaxVersion
  /\ {tmpBackup, tmpRestore, saved} \subseteq Maybe(File)
  /\ cmd \in Command
  /\ faults \in 0..MaxFaults
  /\ proc.at # "down" => container = "running"
  /\ cmd.name # "none" => cmd.pc \in DOMAIN Script[cmd.name]

Init ==
  /\ MigInit
  /\ container = "running"
  /\ source = image
  /\ tmpBackup = <<>> /\ tmpRestore = <<>> /\ saved = <<>>
  /\ cmd = [name |-> "none", pc |-> 0, ok |-> FALSE, base |-> 0, cut |-> FALSE]
  /\ faults = 0

-----------------------------------------------------------------------------
(* Commands. *)

Begin(name) ==
  /\ cmd.name = "none"
  /\ cmd' = [name |-> name, pc |-> 1, ok |-> TRUE, base |-> Contents.rows, cut |-> FALSE]
  /\ UNCHANGED <<migVars, container, source, tmpBackup, tmpRestore, saved, faults>>

Step == Script[cmd.name][cmd.pc]
At(step) == cmd.name # "none" /\ Step = step

\* Slip: one step too many.
AfterOneMore(works, cut) ==
  IF cmd.pc > Len(Script[cmd.name])
    THEN [name |-> "none", pc |-> 0, ok |-> cmd.ok /\ works, base |-> cmd.base, cut |-> cmd.cut]
    ELSE [cmd EXCEPT !.pc = @ + 1, !.ok = @ /\ works, !.cut = cut]

\* The command after its step worked, or failed; left is what "stop" left behind.
After(works, cut) ==
  LET last == cmd.pc = Len(Script[cmd.name])
      returns == ~works /\ <<cmd.name, Step>> \in Checked
  IN  IF last \/ returns
        THEN [name |-> "none", pc |-> 0, ok |-> cmd.ok /\ works, base |-> cmd.base, cut |-> cmd.cut]
        ELSE [cmd EXCEPT !.pc = @ + 1, !.ok = @ /\ works, !.cut = cut]

\* A step has its effect, and says so, or the connection breaks meanwhile.
Reports(cut) ==
  \/ cmd' = After(TRUE, cut) /\ UNCHANGED faults
  \/ faults < MaxFaults /\ faults' = faults + 1 /\ cmd' = After(FALSE, cut)

Works == Reports(cmd.cut)

\* A step fails without an effect: because of the connection, or as it cannot work as things are.
Fails ==
  /\ cmd.name # "none"
  /\ \/ faults < MaxFaults /\ faults' = faults + 1
     \/ /\ \/ Step \in {"restart", "begin", "copyOut", "copyIn"} /\ container = "none"
           \/ Step = "download" /\ tmpBackup = <<>>
           \/ Step = "upload" /\ saved = <<>>
        /\ UNCHANGED faults
  /\ cmd' = After(FALSE, cmd.cut)
  /\ UNCHANGED <<migVars, container, source, tmpBackup, tmpRestore, saved>>

\* An "update" of a git checkout ignores the error of its git pull, which may
\* have had its effect.
PullFails ==
  /\ At("fetch") /\ faults < MaxFaults
  /\ faults' = faults + 1
  /\ source' \in source..MaxVersion
  /\ cmd' = [cmd EXCEPT !.pc = @ + 1, !.ok = FALSE]
  /\ UNCHANGED <<migVars, container, tmpBackup, tmpRestore, saved>>

\* docker compose up -d: what runs is left alone.  Without a container "cleanup"
\* may have removed the image, and it is built anew.  (The volumes it prunes are
\* anonymous ones.)
Up ==
  /\ At("up")
  /\ container' = "running"
  /\ image' = image \/ (container = "none" /\ image' = source)
  /\ Works
  /\ UNCHANGED <<db, journal, proc, exits, source, tmpBackup, tmpRestore, saved>>

\* Slip: down -v, which removes the volume.
RemovedVolume == Empty

\* docker compose down keeps the volume with the database in it.
Kept == db

\* SIGTERM ends the process at once, whatever its goroutines are doing.
DownAll ==
  /\ At("down")
  /\ container' = "none"
  /\ proc' = Down
  /\ db' = Kept
  /\ Works
  /\ UNCHANGED <<journal, image, exits, source, tmpBackup, tmpRestore, saved>>

\* docker compose stop mailr.
StopOne ==
  /\ At("stop")
  /\ container' = IF container = "running" THEN "stopped" ELSE container
  /\ proc' = Down
  /\ Reports(journal # <<>>)
  /\ UNCHANGED <<db, journal, image, exits, source, tmpBackup, tmpRestore, saved>>

\* docker compose start mailr: it starts a container that is there.
StartOne ==
  /\ At("begin") /\ container # "none"
  /\ container' = "running"
  /\ Works
  /\ UNCHANGED <<migVars, source, tmpBackup, tmpRestore, saved>>

Restart ==
  /\ At("restart") /\ container # "none"
  /\ container' = "running"
  /\ proc' = Down
  /\ Works
  /\ UNCHANGED <<db, journal, image, exits, source, tmpBackup, tmpRestore, saved>>

\* git pull or rsync: another version of the program, or the same.
Fetch ==
  /\ At("fetch")
  /\ source' \in source..MaxVersion
  /\ Works
  /\ UNCHANGED <<migVars, container, tmpBackup, tmpRestore, saved>>

\* up -d --build: a container of the new image takes the place of an old one.
Build ==
  /\ At("build")
  /\ image' = source
  /\ container' = "running"
  /\ proc' = IF image' = image /\ container = "running" THEN proc ELSE Down
  /\ Works
  /\ UNCHANGED <<db, journal, exits, source, tmpBackup, tmpRestore, saved>>

\* docker compose cp of mailr.db, and of it alone, out of the container.
CopyOut ==
  /\ At("copyOut") /\ container # "none"
  /\ tmpBackup' = <<db>>
  /\ Works
  /\ UNCHANGED <<migVars, container, source, tmpRestore, saved>>

\* And into it.  A journal that is there belongs to another file now: to play
\* it back damages the one it finds.  A process that still has the old file
\* open (its "stop" failed) is as good as ended, and may damage the new one.
CopyIn ==
  /\ At("copyIn") /\ container # "none" /\ tmpRestore # <<>>
  /\ LET f == tmpRestore[1]
     IN  /\ db' = f \/ (proc.at # "down" /\ db' = [f EXCEPT !.torn = TRUE])
         /\ journal' = IF journal = <<>> THEN <<>> ELSE <<[f EXCEPT !.torn = TRUE]>>
  /\ proc' = Down
  /\ Works
  /\ UNCHANGED <<image, exits, container, source, tmpBackup, tmpRestore, saved>>

\* scp.
Download ==
  /\ At("download") /\ tmpBackup # <<>>
  /\ saved' = tmpBackup
  /\ Works
  /\ UNCHANGED <<migVars, container, source, tmpBackup, tmpRestore>>

Upload ==
  /\ At("upload") /\ saved # <<>>
  /\ tmpRestore' = saved
  /\ Works
  /\ UNCHANGED <<migVars, container, source, tmpBackup, saved>>

\* rm -f without sudo: root has made the file, so only root can remove it.
RemoveBackup ==
  /\ At("removeBackup")
  /\ tmpBackup' \in {tmpBackup, <<>>}
  /\ Works
  /\ UNCHANGED <<migVars, container, source, tmpRestore, saved>>

RemoveRestore ==
  /\ At("removeRestore")
  /\ tmpRestore' = <<>>
  /\ Works
  /\ UNCHANGED <<migVars, container, source, tmpBackup, saved>>

CommandStep ==
  \/ Up \/ DownAll \/ StopOne \/ StartOne \/ Restart \/ Fetch \/ Build \/ CopyOut \/ CopyIn
  \/ Download \/ Upload \/ RemoveBackup \/ RemoveRestore \/ Fails \/ PullFails

\* docker runs the process, again and again, in a container that is running.
Serve(step) == container = "running" /\ step /\ UNCHANGED hostVars

Next ==
  \/ Serve(ProcStep)
  \/ \E name \in DOMAIN Script : Begin(name)
  \/ CommandStep

Spec == Init /\ [][Next]_vars

FairSpec == Spec /\ WF_vars(Serve(StartStep))

-----------------------------------------------------------------------------
(* The database that all this implements. *)

\* The state a file is in: none, if it is half-written or if its tables and
\* columns are not those of the migrations it has a record of.
StateOf(f) ==
  IF f.torn \/ f.cols # f.recs THEN {} ELSE {[rows |-> f.rows, schema |-> f.recs]}

Files == {db} \union {j[1] : j \in {tmpBackup, tmpRestore, saved} \ {<<>>}}

Data == INSTANCE Database WITH
  data      <- StateOf(Contents),
  copies    <- UNION {StateOf(f) : f \in Files},
  restoring <- cmd.name = "restore"

-----------------------------------------------------------------------------
(* Properties. *)

\* Through crashes in the middle of a commit or of a migration, programs that
\* come and go, and commands that fail half-way, the database goes from state to
\* state by whole transactions, and only a restore takes it back, to a state it
\* was in before, or leaves it damaged.
RefinesDatabase == Data!Spec

\* The step ends the command, and none of its steps has failed.
Completes(name) == cmd.name = name /\ cmd'.name = "none" /\ cmd'.ok

\* What was committed stays, whatever processes, containers and images come and
\* go at any moment; only a restore takes it away.
DataSurvives ==
  [][Contents'.rows < Contents.rows => cmd.name = "restore"]_vars

\* A backup whose steps all worked has every row there was when it began, in a
\* file that is whole if the database is, unless the stop cut off a transaction
\* (whose journal is not copied).
BackupHasAll ==
  [][Completes("backup") /\ ~cmd.cut =>
         saved[1].rows >= cmd.base /\ (saved[1].torn => Contents.torn)]_vars

\* A restore whose steps all worked leaves the file that was saved, and nothing
\* that will change it, unless the stop cut off a transaction (whose journal is
\* still there).
RestoreIsExact ==
  [][Completes("restore") /\ ~cmd.cut => <<Contents'>> = saved]_vars

\* A command whose steps all worked leaves the server running, but for "stop".
ServiceBack ==
  [][\A name \in DOMAIN Script \ {"stop"} : Completes(name) => container' = "running"]_vars

\* If the operator leaves it alone, a container that is running comes to serve,
\* after crashes, updates and restores of older files, unless the file is damaged.
ComesUp ==
  <>[](container = "running" /\ cmd.name = "none") =>
    []<>(proc.at = "serving" \/ Contents.torn)
=============================================================================
