------------------------------- MODULE Backend -------------------------------
(***************************************************************************)
(* BackendDeployer (aidenops_backend.py): deployments of the AidenOps      *)
(* wheel, one after another, with the database, the service that migrates  *)
(* it at every start, and the dumps and wheels kept for a rollback.        *)
(*                                                                         *)
(* pc names the handler of the stage that runs next; one action is that    *)
(* whole handler.  Of the ways a remote command goes wrong only            *)
(* CommandFailed becomes a BackendError (_run); an SSHError (timeout, lost *)
(* connection) escapes, and so does the death of the tool.  A command that *)
(* went wrong has taken effect not at all, in part, or in full.  The       *)
(* service's own steps (Alembic) go on between any two of the tool's.      *)
(***************************************************************************)
EXTENDS Integers, FiniteSets, Sequences, Functions

CONSTANTS
  Wheels,          \* the releases' wheels
  LastRevision,    \* the last revision of a wheel's linear migration history
  Pins,            \* a release's pinned dependencies; None: no requirements file
  Destructive,     \* the revisions that drop something
  KeepDumps,       \* aidenops_keep_dumps
  MaxDeploys, MaxStagings, \* bounds
  None, Mixed      \* no value; dependencies installed in part

ASSUME BackendConstants ==
  /\ LastRevision \in [Wheels -> Nat \ {0}]
  /\ DOMAIN Pins = Wheels
  /\ Destructive \subseteq Nat \ {0}
  /\ KeepDumps \in Int
  /\ {MaxDeploys, MaxStagings} \subseteq Nat
  /\ None \notin Wheels /\ None # Mixed

VARIABLES
  \* the server: the unit's process, the venv, alembic_version, <backup>/db and
  \* <backup>/wheels newest first, the wheels in the staging directory
  proc, installed, pins, schema, dumps, wheels, staging,
  \* the deployment in flight, or the last one: what deploy() was called with,
  \* what it found out, and what it answered
  pc, wheel, confirmed, plan, install, dump, previous, outcome, runbook,
  started, stagings,   \* how often
  \* history: what ran when /health last answered, the dumps begun since, and
  \* whether the deployment found it so
  healthy, attempts, fromHealthy

server  == <<proc, installed, pins, schema>>
backups == <<dumps, wheels, staging>>
findings == <<plan, install, dump, previous>>
request == <<wheel, confirmed, started, stagings, fromHealthy>>
seen    == <<healthy, attempts>>
vars == <<server, backups, pc, findings, outcome, runbook, request, seen>>

PinSets  == {Pins[w] : w \in Wheels} \ {None}
Revision == UNION {0 .. LastRevision[w] : w \in Wheels}
Dump     == [schema : Revision, whole : BOOLEAN, of : 1 .. MaxDeploys]
Stages   == {"preflight", "migrations", "dependencies", "prune", "dump", "backup", "stop",
             "install_dependencies", "install_wheel", "start", "health", "cleanup"}

(* No file is no dump. *)
ASSUME NoneIsNoDump == None \notin Dump

Init ==
  /\ installed \in Wheels
  /\ proc \in {"up", "down"}
  /\ schema = LastRevision[installed]
  /\ pins \in PinSets /\ Pins[installed] \in {pins, None}
  /\ dumps = <<>> /\ wheels = <<>> /\ staging = {}
  /\ pc = "idle" /\ wheel = None /\ confirmed = FALSE
  /\ plan = {} /\ install = FALSE /\ dump = None /\ previous = None
  /\ outcome = "none" /\ runbook = "none"
  /\ started = 0 /\ stagings = 0
  /\ healthy = [wheel |-> installed, schema |-> schema, pins |-> pins]
  /\ attempts = 0 /\ fromHealthy = FALSE

-----------------------------------------------------------------------------
Go(next) == pc' = next /\ UNCHANGED <<outcome, runbook>>

(* A BackendError without a runbook, an exception that is none, or a crash. *)
Fail == pc' = "idle" /\ outcome' \in {"failed", "crashed"} /\ UNCHANGED runbook

(* A BackendError past the line: runbook() offers the dump when there is one. *)
HandOver == /\ pc' = "idle" /\ outcome' = "failed"
            /\ runbook' = IF dump # None THEN "restore" ELSE "reinstall"

(* ReleaseStager.stage for a release verified meanwhile. *)
Stage(w) ==
  /\ pc = "idle" /\ stagings < MaxStagings
  /\ staging' = staging \cup {w} /\ stagings' = stagings + 1
  /\ UNCHANGED <<server, dumps, wheels, pc, findings, outcome, runbook, wheel, confirmed,
                 started, fromHealthy, seen>>

(* POST /api/aidenops/deploy with target "backend". *)
Deploy(w, yes) ==
  /\ pc = "idle" /\ started < MaxDeploys
  /\ pc' = "preflight" /\ wheel' = w /\ confirmed' = yes /\ started' = started + 1
  /\ plan' = {} /\ install' = FALSE /\ dump' = None /\ previous' = None
  /\ outcome' = "none" /\ runbook' = "none"
  /\ fromHealthy' = (proc = "up" /\ <<installed, schema>> = <<healthy.wheel, healthy.schema>>)
  /\ UNCHANGED <<server, backups, stagings, seen>>

(* _preflight: directories and free space; it may refuse. *)
Preflight ==
  /\ pc = "preflight"
  /\ Go("migrations") \/ Fail
  /\ UNCHANGED <<server, backups, findings, request, seen>>

(* Fault: a current revision that cannot be read means nothing is pending. *)
MigrationsUnreadIsNone ==
  /\ pc = "migrations"
  /\ \/ \E revision \in {schema, LastRevision[wheel]} :
          /\ revision <= LastRevision[wheel]
          /\ plan' = revision + 1 .. LastRevision[wheel] /\ Go("dependencies")
     \/ UNCHANGED plan /\ Fail
  /\ UNCHANGED <<server, backups, install, dump, previous, request, seen>>

(* _migrations: psql is unchecked, and when it says nothing every migration *)
(* of the wheel is pending (_current_revision); a database ahead of the     *)
(* wheel is a MigrationError (pending).                                     *)
Migrations ==
  /\ pc = "migrations"
  /\ \/ \E revision \in {schema, 0} :
          /\ revision <= LastRevision[wheel]
          /\ plan' = revision + 1 .. LastRevision[wheel] /\ Go("dependencies")
     \/ UNCHANGED plan /\ Fail
  /\ UNCHANGED <<server, backups, install, dump, previous, request, seen>>

(* Fault: a confirmed deployment takes no dump. *)
DecideWithoutDump(needsInstall) ==
  IF ~confirmed /\ (needsInstall \/ plan \cap Destructive # {})
  THEN pc' = "idle" /\ outcome' = "needs_confirmation" /\ UNCHANGED runbook
  ELSE Go(IF plan # {} /\ ~confirmed THEN "prune" ELSE "backup")

(* The decision point of deploy() that follows _dependencies. *)
Decide(needsInstall) ==
  IF ~confirmed /\ (needsInstall \/ plan \cap Destructive # {})
  THEN pc' = "idle" /\ outcome' = "needs_confirmation" /\ UNCHANGED runbook
  ELSE Go(IF plan # {} THEN "prune" ELSE "backup")

(* _dependencies: pip freeze against the staged requirements, and a dry-run *)
(* resolve when they differ.  Without a requirements file nothing is read.  *)
Dependencies ==
  /\ pc = "dependencies"
  /\ \/ Pins[wheel] = None /\ install' = FALSE /\ Decide(FALSE)
     \/ /\ Pins[wheel] # None /\ wheel \in staging
        /\ install' = (pins # Pins[wheel]) /\ Decide(install')
     \/ UNCHANGED install /\ Fail
  /\ UNCHANGED <<server, backups, plan, dump, previous, request, seen>>

(* _prune: what follows the first `keep` goes, newest first, all or some. *)
Keeping(keep, files) ==
  {files} \cup {SubSeq(files, 1, keep) \o SubSeq(files, last + 1, Len(files)) :
                  last \in keep + 1 .. Len(files)}
AtLeastOne(n) == IF n < 1 THEN 1 ELSE n

(* Fault: one dump too few is kept. *)
PruneOneTooMany ==
  /\ pc = "prune"
  /\ attempts' = attempts + 1
  /\ dumps' \in Keeping(IF KeepDumps < 2 THEN 0 ELSE KeepDumps - 2, dumps)
  /\ Go("dump") \/ Fail
  /\ UNCHANGED <<server, wheels, staging, findings, request, healthy>>

(* _dump before pg_dump runs: the old dumps are pruned first, unchecked. *)
Prune ==
  /\ pc = "prune"
  /\ attempts' = attempts + 1
  /\ dumps' \in Keeping(AtLeastOne(KeepDumps) - 1, dumps)
  /\ Go("dump") \/ Fail
  /\ UNCHANGED <<server, wheels, staging, findings, request, healthy>>

Dumped(whole) == [schema |-> schema, whole |-> whole, of |-> started]

(* Fault: a dump is taken for complete when gzip could write it. *)
DumpUnverified ==
  /\ pc = "dump"
  /\ \E whole \in BOOLEAN :
       /\ dumps' = <<Dumped(whole)>> \o dumps
       /\ \/ dump' = Dumped(whole) /\ Go("backup")
          \/ UNCHANGED dump /\ Fail
  /\ UNCHANGED <<server, wheels, staging, plan, install, previous, request, seen>>

(* _require_dump_space, pg_dump | gzip, _verify_dump: the file is absent,  *)
(* truncated or whole, and only a whole one that was verified is accepted. *)
TakeDump ==
  /\ pc = "dump"
  /\ \/ dumps' = <<Dumped(TRUE)>> \o dumps /\ dump' = Dumped(TRUE) /\ Go("backup")
     \/ /\ dumps' \in {dumps} \cup {<<Dumped(whole)>> \o dumps : whole \in BOOLEAN}
        /\ UNCHANGED dump /\ Fail
  /\ UNCHANGED <<server, wheels, staging, plan, install, previous, request, seen>>

(* The archive without the wheel, and with it as the newest; a name occurs once. *)
OtherWheels ==
  IF \E i \in 1 .. Len(wheels) : wheels[i] = wheel
  THEN LET i == CHOOSE n \in 1 .. Len(wheels) : wheels[n] = wheel
       IN  SubSeq(wheels, 1, i - 1) \o SubSeq(wheels, i + 1, Len(wheels))
  ELSE wheels
ArchivedWheels == <<wheel>> \o OtherWheels

(* Fault: the version recorded is the one about to be installed. *)
BackupNamesIncoming ==
  /\ pc = "backup"
  /\ \/ /\ wheel \in staging
        /\ previous' \in {wheel, None}
        /\ wheels' \in Keeping(AtLeastOne(KeepDumps), ArchivedWheels)
        /\ Go("stop") \/ Fail
     \/ UNCHANGED <<previous, wheels>> /\ Fail
  /\ UNCHANGED <<server, dumps, staging, plan, install, dump, request, seen>>

(* _backup: pip show, unchecked, then the incoming wheel is archived. *)
Backup ==
  /\ pc = "backup"
  /\ \/ /\ wheel \in staging
        /\ previous' \in {installed, None}
        /\ wheels' \in Keeping(AtLeastOne(KeepDumps), ArchivedWheels)
        /\ Go("stop") \/ Fail
     \/ UNCHANGED <<previous, wheels>> /\ Fail
  /\ UNCHANGED <<server, dumps, staging, plan, install, dump, request, seen>>

Stop ==
  /\ pc = "stop"
  /\ \/ proc' = "down" /\ Go(IF install THEN "install_dependencies" ELSE "install_wheel")
     \/ proc' \in {proc, "down"} /\ Fail
  /\ UNCHANGED <<installed, pins, schema, backups, findings, request, seen>>

InstallDependencies ==
  /\ pc = "install_dependencies"
  /\ \/ pins' = Pins[wheel] /\ Go("install_wheel")
     \/ pins' \in {pins, Mixed, Pins[wheel]} /\ Fail
  /\ UNCHANGED <<proc, installed, schema, backups, findings, request, seen>>

(* pip uninstalls before it installs. *)
InstallWheel ==
  /\ pc = "install_wheel"
  /\ \/ installed' = wheel /\ Go("start")
     \/ installed' \in {installed, None, wheel} /\ Fail
  /\ UNCHANGED <<proc, pins, schema, backups, findings, request, seen>>

(* _start: only a BackendError gets the runbook, an SSHError does not. *)
Start ==
  /\ pc = "start"
  /\ \/ proc' = "starting" /\ Go("health")
     \/ proc' \in {proc, "starting"} /\ (HandOver \/ Fail)
  /\ UNCHANGED <<installed, pins, schema, backups, findings, request, seen>>

(* _health polls to its deadline; its curl goes round _run, so that an *)
(* SSHError escapes without the runbook.                               *)
Health ==
  /\ pc = "health"
  /\ \/ /\ proc = "up" /\ Go("cleanup")
        /\ healthy' = [wheel |-> installed, schema |-> schema, pins |-> pins]
        /\ attempts' = 0
     \/ (HandOver \/ Fail) /\ UNCHANGED seen
  /\ UNCHANGED <<server, backups, findings, request>>

(* _cleanup, unchecked: everything in staging goes. *)
Cleanup ==
  /\ pc = "cleanup"
  /\ staging' \in {staging, {}}
  /\ \/ pc' = "idle" /\ outcome' = "ok" /\ UNCHANGED runbook
     \/ Fail
  /\ UNCHANGED <<server, dumps, wheels, findings, request, seen>>

(* The service comes up: Alembic applies one revision after another; it may *)
(* give up at any point, and must when the database is ahead of the wheel.  *)
Boot ==
  /\ proc = "starting"
  /\ \/ installed # None /\ schema < LastRevision[installed] /\ schema' = schema + 1
        /\ UNCHANGED proc
     \/ installed # None /\ schema = LastRevision[installed] /\ proc' = "up" /\ UNCHANGED schema
     \/ proc' = "down" /\ UNCHANGED schema
  /\ UNCHANGED <<installed, pins, backups, pc, findings, outcome, runbook, request, seen>>

Next ==
  \/ \E w \in Wheels : Stage(w)
  \/ \E w \in Wheels, yes \in BOOLEAN : Deploy(w, yes)
  \/ Preflight \/ Migrations \/ Dependencies \/ Prune \/ TakeDump \/ Backup
  \/ Stop \/ InstallDependencies \/ InstallWheel \/ Start \/ Health \/ Cleanup
  \/ Boot

Spec == Init /\ [][Next]_vars

-----------------------------------------------------------------------------
TypeOK ==
  /\ proc \in {"up", "starting", "down"} /\ installed \in Wheels \cup {None}
  /\ pins \in PinSets \cup {Mixed} /\ schema \in Revision
  /\ dumps \in Seq(Dump) /\ wheels \in Seq(Wheels) /\ staging \subseteq Wheels
  /\ pc \in Stages \cup {"idle"} /\ wheel \in Wheels \cup {None}
  /\ confirmed \in BOOLEAN /\ install \in BOOLEAN
  /\ plan \subseteq Revision /\ dump \in Dump \cup {None} /\ previous \in Wheels \cup {None}
  /\ outcome \in {"none", "ok", "failed", "crashed", "needs_confirmation"}
  /\ runbook \in {"none", "restore", "reinstall"}
  /\ started \in 0 .. MaxDeploys /\ stagings \in 0 .. MaxStagings
  /\ healthy \in [wheel : Wheels, schema : Revision, pins : PinSets \cup {Mixed}]
  /\ attempts \in 0 .. MaxDeploys /\ fromHealthy \in BOOLEAN
  /\ pc \in {"backup", "stop", "install_dependencies", "install_wheel", "start", "health"}
       => (plan # {} <=> dump # None)

(* "It never starts without a verified rollback point when migrations are   *)
(* pending" (AIDENOPS.md:215): whatever earlier attempts left half migrated,*)
(* and whatever Alembic did since the plan was read, a start that has       *)
(* revisions to apply has a whole dump of its own in the backup directory.  *)
StartProtected ==
  [][(pc = "start" /\ proc' = "starting" /\ schema < LastRevision[wheel])
       => dump # None /\ dump.whole /\ dump \in Range(dumps)]_vars

(* The operator is asked before a destructive migration runs, also when the *)
(* current revision could not be read (_migrations, the decision point).    *)
DestructionConfirmed ==
  [][(pc = "start" /\ proc' = "starting" /\ Destructive \cap (schema + 1 .. LastRevision[wheel]) # {})
       => confirmed]_vars

(* _dump prunes before it writes.  Still, the dump that leads back to what   *)
(* last answered /health outlives aidenops_keep_dumps attempts to dump, the  *)
(* failed ones included.                                                     *)
RollbackPointKept ==
  (schema # healthy.schema /\ attempts <= AtLeastOne(KeepDumps)) =>
    \E d \in Range(dumps) : d.whole /\ d.schema = healthy.schema

(* runbook(): a deployment that found the service healthy and hands over    *)
(* names the wheel that ran, and either a whole dump of its schema or, when *)
(* it offers none, a database that is still at that schema.                 *)
RunbookRestoresHealthy ==
  (runbook # "none" /\ fromHealthy) =>
    /\ previous \in {healthy.wheel, None}
    /\ runbook = "restore" => dump \in Range(dumps) /\ dump.whole
                              /\ dump.schema = healthy.schema
    /\ runbook = "reinstall" => schema = healthy.schema

(* "No dump was taken: this release had no pending migrations, so           *)
(* reinstalling the previous wheel is a complete rollback" (runbook(), and  *)
(* AIDENOPS.md:198): the database is as it was when /health last answered.  *)
RunbookIsComplete == runbook = "reinstall" => schema = healthy.schema

(* "Fail above the line and nothing has changed. Fail below it and the page *)
(* shows a runbook" (AIDENOPS.md:164): a deployment that failed after it        *)
(* stopped a service that ran has shown a runbook.                          *)
FailureHandsOver ==
  (outcome = "failed" /\ fromHealthy /\ proc # "up") => runbook # "none"
=============================================================================
