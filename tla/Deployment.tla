----------------------------- MODULE Deployment -----------------------------
(***************************************************************************)
(* The JAR deployment of DeploymentService (deployment_service.py): the    *)
(* eleven-stage pipeline of one live deployment, the port-conflict         *)
(* follow-up (kill_process, restart_after_kill), a manual download through *)
(* the REST API, a crash of the tool, and the files and services on the    *)
(* application server they all act on.                                     *)
(*                                                                         *)
(* The tool is one asyncio loop.  A handler runs without interruption from *)
(* one await that really suspends (an SSH command, an SFTP transfer, the   *)
(* hub download, a sleep) to the next, so an action is one such segment:   *)
(* the result of the await that pc names, and everything the code does up  *)
(* to the next one.                                                        *)
(***************************************************************************)
EXTENDS Naturals, FiniteSets

CONSTANTS
  Services,            \* the keys of config.SERVICES
  Builds,              \* builds of a JAR; a build's checksum is named by the build
  SizeOf,              \* the size in bytes of each build
  NumDays,             \* the number of names a dated folder can have (`%b%d`)
  VerifyJarChecksum,   \* settings.verify_jar_checksum
  KeepTempFiles,       \* settings.keep_temp_files
  Overwrites,          \* the values the page sends as overwrite_backup
  MaxDeployments, MaxRestarts, MaxKills, MaxDownloads, MaxCrashes, \* bounds
  None,                \* no file, no value
  Broken               \* a truncated or unreadable file

ASSUME ConstantsOK ==
  /\ SizeOf \in [Builds -> Nat]
  /\ NumDays \in Nat \ {0}
  /\ VerifyJarChecksum \in BOOLEAN
  /\ KeepTempFiles \in BOOLEAN
  /\ Overwrites \subseteq BOOLEAN
  /\ {MaxDeployments, MaxRestarts, MaxKills, MaxDownloads, MaxCrashes} \subseteq Nat
  /\ None \notin Builds /\ Broken \notin Builds /\ None # Broken
  /\ None \notin Services

Days == 0 .. NumDays - 1

(* STAGES, each with its place in the list. *)
Order == [validate |-> 1, download |-> 2, connect |-> 3,
          upload_to_copydata |-> 4, backup |-> 5, update_checksum |-> 6,
          daemon_reload |-> 7, copy_to_binaries |-> 8, restart |-> 9,
          health_check |-> 10, live_logs |-> 11]
STAGES == DOMAIN Order

VARIABLES
  \* the current DeploymentState
  depId, svc, checksum, uploaded, backupDir,
  status, stages, currentStage, errorStage, conflict,
  \* the rest of DeploymentService, and what it keeps on the VDI's disk
  localJar,      \* _local_jar: whose temp file the next upload sends
  temp,          \* the downloaded file of each service
  record,        \* last_deployment_file
  \* handlers in flight
  pc, req, pday, \* deploy(): the pending await, its arguments, the date it computed
  rpc, rsvc,     \* restart_after_kill(): the pending await, its service
  killing,       \* kill_process(): the service whose port holder got SIGTERM
  \* the application server; up: the services that run, squatted: those whose
  \* port another process holds
  bin, unit, loaded, copydata, bakDirs, bakJar, bakUnit, up, squatted, day,
  \* how often the bounded operations happened
  started, restarts, kills, downloads, crashes,
  \* history: what the last pipeline found on the server, and the last build
  \* of each service that was seen to run
  before, good

identity == <<depId, svc, checksum>>
progress == <<status, stages, currentStage, errorStage, record>>
locals   == <<localJar, temp>>
counts   == <<restarts, kills, downloads, crashes>>
others   == <<rpc, rsvc, killing, counts>>
backups  == <<bakDirs, bakJar, bakUnit>>
installed == <<bin, unit, loaded>>
running  == <<up, squatted, good>>
vars == <<depId, svc, checksum, uploaded, backupDir, status, stages, currentStage,
          errorStage, conflict, localJar, temp, record, pc, req, pday, rpc, rsvc,
          killing, bin, unit, loaded, copydata, bakDirs, bakJar, bakUnit, up,
          squatted, day, started, restarts, kills, downloads, crashes, before, good>>

(* The await that pc names belongs to this stage. *)
StageOf == [download |-> "download", connect |-> "connect",
            upload |-> "upload_to_copydata", backup_dir |-> "backup",
            backup_jar |-> "backup", backup_unit |-> "backup",
            update_read |-> "update_checksum", update_write |-> "update_checksum",
            update_verify |-> "update_checksum", daemon_reload |-> "daemon_reload",
            copy |-> "copy_to_binaries", copy_stat |-> "copy_to_binaries",
            restart |-> "restart", restart_diag |-> "restart",
            health_check |-> "health_check", health_diag |-> "health_check",
            live_logs |-> "live_logs"]
Awaits == DOMAIN StageOf

NoRequest == [svc |-> None, checksum |-> None, overwrite |-> FALSE]
NoRecord  == [id |-> 0, status |-> "none", stage |-> ""]
Waiting   == [s \in STAGES |-> "waiting"]
File      == Builds \cup {None, Broken}

Init ==
  /\ depId = 0 /\ svc = None /\ checksum = None /\ uploaded = 0 /\ backupDir = None
  /\ status = "idle" /\ stages = Waiting /\ currentStage = "" /\ errorStage = ""
  /\ conflict = FALSE
  /\ localJar = None /\ temp = [s \in Services |-> None] /\ record = NoRecord
  /\ pc = "idle" /\ req = NoRequest /\ pday = 0
  /\ rpc = "idle" /\ rsvc = None /\ killing = None
  /\ bin \in [Services -> Builds \cup {None}]
  /\ unit \in [Services -> File] /\ loaded = unit
  /\ copydata = [k \in Days \X Services |-> None]
  /\ bakDirs = {}
  /\ bakJar = [k \in Days \X Services |-> None]
  /\ bakUnit = [k \in Days \X Services |-> None]
  /\ up = {s \in Services : bin[s] \in Builds /\ bin[s] = loaded[s]}
  /\ squatted \in SUBSET (Services \ up)
  /\ day = 0
  /\ started = 0 /\ restarts = 0 /\ kills = 0 /\ downloads = 0 /\ crashes = 0
  /\ before = [svc |-> None, jar |-> None, unit |-> None]
  /\ good = [s \in Services |-> IF s \in up THEN bin[s] ELSE None]

-----------------------------------------------------------------------------
(* How a stage ends. *)

(* Fault: what was still waiting is not skipped. *)
FailWithoutSkipping(at) ==
  /\ status' = "failed"
  /\ errorStage' = at
  /\ stages' = [stages EXCEPT ![at] = "failed"]
  /\ record' = [id |-> depId, status |-> "failed", stage |-> at]
  /\ UNCHANGED currentStage

(* _fail: the stage is marked, what was still waiting is skipped, the run is *)
(* recorded and `complete` is published. It writes to whatever deployment    *)
(* self.state is by then.                                                    *)
Fail(at) ==
  /\ status' = "failed"
  /\ errorStage' = at
  /\ stages' = [s \in STAGES |->
                  IF s = at THEN "failed"
                  ELSE IF Order[s] > Order[at] /\ stages[s] = "waiting" THEN "skipped"
                  ELSE stages[s]]
  /\ record' = [id |-> depId, status |-> "failed", stage |-> at]
  /\ UNCHANGED currentStage

(* deploy() returns; its locals go with it. *)
Return == pc' = "idle" /\ req' = NoRequest /\ pday' = 0

(* _deploy's handlers: a DeploymentError names its stage, any other          *)
(* exception is charged to state.current_stage.                              *)
Stop ==
  /\ Return
  /\ \E at \in {StageOf[pc], currentStage} : Fail(at)
  /\ UNCHANGED <<started, identity, uploaded, backupDir>>

(* The same where only the stage's own DeploymentError can be raised. *)
StopHere ==
  /\ Return
  /\ Fail(StageOf[pc])
  /\ UNCHANGED <<started, identity, uploaded, backupDir>>

(* On to the next await of the same stage. *)
Proceed(next) ==
  /\ pc' = next
  /\ pday' = day
  /\ UNCHANGED <<req, started, identity, progress>>

(* The stage is completed and the next one begins. *)
Complete(next) ==
  /\ pc' = next
  /\ pday' = day
  /\ stages' = [stages EXCEPT ![StageOf[pc]] = "completed", ![StageOf[next]] = "running"]
  /\ currentStage' = StageOf[next]
  /\ UNCHANGED <<req, started, identity, status, errorStage, record>>

-----------------------------------------------------------------------------
(* A command that failed, timed out or was cut off by a crash has happened   *)
(* not at all, in part, or in full. One operator per file it was writing.    *)

(* _put, _promote: the old file, none (remove-and-rename), or the new one. *)
CutUpload ==
  \E f \in {copydata[<<pday, svc>>], None}
           \cup (IF localJar = None THEN {} ELSE {temp[localJar]}) :
    copydata' = [copydata EXCEPT ![<<pday, svc>>] = f]

(* Fault: an existing backup is replaced without being asked. *)
MayAlwaysWrite(kept) == TRUE

(* _guard_existing. *)
MayWrite(kept) == req.overwrite \/ kept = None

(* backup_jar's cp: there is a JAR, the folder exists, the guard agrees. *)
MayBackupJar == /\ bin[svc] # None
                /\ pday \in bakDirs
                /\ MayWrite(bakJar[<<pday, svc>>])

(* backup_unit_file's cp: the same for the unit file. *)
MayBackupUnit == /\ unit[svc] # None
                 /\ pday \in bakDirs
                 /\ MayWrite(bakUnit[<<pday, svc>>])

CutBackupJar ==
  \/ UNCHANGED bakJar
  \/ /\ MayBackupJar
     /\ \E f \in {Broken, bin[svc]} : bakJar' = [bakJar EXCEPT ![<<pday, svc>>] = f]

CutBackupUnit ==
  \/ UNCHANGED bakUnit
  \/ /\ MayBackupUnit
     /\ \E f \in {Broken, unit[svc]} : bakUnit' = [bakUnit EXCEPT ![<<pday, svc>>] = f]

(* write_remote_file pipes into `tee`, which truncates first. *)
CutWrite == \E u \in {unit[svc], Broken, checksum} : unit' = [unit EXCEPT ![svc] = u]

CutReload == loaded' \in {loaded, unit}

CutCopy ==
  LET source == copydata[<<pday, svc>>]
  IN  \/ UNCHANGED bin
      \/ source # None /\ \E f \in {Broken, source} : bin' = [bin EXCEPT ![svc] = f]

(* A service runs only if its JAR is the one APP_CHECKSUM names (its own     *)
(* startup check) and its port is free.                                      *)
CanRun(s) == bin[s] \in Builds /\ bin[s] = loaded[s] /\ s \notin squatted

(* What `systemctl restart` makes of the services S: each runs or does not;  *)
(* when the command failed or was cut off (not issued) one that was up may   *)
(* also have been left alone.                                                *)
Restarted(S, issued) ==
  \E ran \in SUBSET {s \in S : CanRun(s)},
     kept \in SUBSET {s \in S \cap up : ~issued} :
    /\ up' = (up \ S) \cup ran \cup kept
    /\ good' = [s \in Services |-> IF s \in ran THEN bin[s] ELSE good[s]]
    /\ UNCHANGED squatted

-----------------------------------------------------------------------------
(* The pipeline, in the order of _deploy. *)

(* The deploy route and deploy(): refused while a deployment runs. The       *)
(* request has passed validate(). deploy() then waits for the old log        *)
(* streams to stop, with the old state still in place.                       *)
StartDeploy ==
  /\ pc = "idle"
  /\ started < MaxDeployments /\ started' = started + 1
  /\ \E s \in Services, b \in Builds, o \in Overwrites :
       req' = [svc |-> s, checksum |-> b, overwrite |-> o]
  /\ pc' = "stop_streams"
  /\ UNCHANGED <<identity, uploaded, backupDir, progress, conflict, locals, pday, others,
                 installed, copydata, backups, running, day, before>>

(* A new DeploymentState; the validate stage passes without suspending, and  *)
(* the download begins.                                                      *)
Begin ==
  /\ pc = "stop_streams"
  /\ depId' = started /\ svc' = req.svc /\ checksum' = req.checksum
  /\ uploaded' = 0 /\ backupDir' = None
  /\ status' = "running" /\ errorStage' = "" /\ conflict' = FALSE
  /\ stages' = [Waiting EXCEPT !["validate"] = "completed", !["download"] = "running"]
  /\ currentStage' = "download"
  /\ pc' = "download" /\ pday' = day
  /\ before' = [svc |-> req.svc, jar |-> bin[req.svc], unit |-> unit[req.svc]]
  /\ UNCHANGED <<record, req, started, locals, others, installed, copydata, backups, running, day>>

(* The hub serves some build; its digest is compared with the pasted one. *)
Download ==
  /\ pc = "download"
  /\ \/ \E b \in Builds :
          /\ temp' = [temp EXCEPT ![svc] = b]
          /\ localJar' = svc
          /\ IF b # checksum /\ VerifyJarChecksum
             THEN StopHere
             ELSE Complete("connect") /\ UNCHANGED <<uploaded, backupDir>>
     \/ Stop /\ UNCHANGED locals
  /\ UNCHANGED <<conflict, others, installed, copydata, backups, running, day, before>>

Connect ==
  /\ pc = "connect"
  /\ \/ Complete("upload") /\ UNCHANGED <<uploaded, backupDir>>
     \/ Stop
  /\ UNCHANGED <<conflict, locals, others, installed, copydata, backups, running, day,
                 before>>

(* Fault: the backup stage is left out. *)
UploadThenUpdate ==
  /\ pc = "upload"
  /\ \/ /\ localJar # None /\ temp[localJar] # None
        /\ copydata' = [copydata EXCEPT ![<<pday, svc>>] = temp[localJar]]
        /\ uploaded' = SizeOf[temp[localJar]]
        /\ backupDir' = day
        /\ Complete("update_read")
     \/ Stop /\ CutUpload
  /\ UNCHANGED <<conflict, locals, others, installed, backups, running, day, before>>

(* upload_to_copydata sends the file _local_jar names, under the name of     *)
(* this deployment's JAR, and compares sizes.                                *)
Upload ==
  /\ pc = "upload"
  /\ \/ /\ localJar # None /\ temp[localJar] # None
        /\ copydata' = [copydata EXCEPT ![<<pday, svc>>] = temp[localJar]]
        /\ uploaded' = SizeOf[temp[localJar]]
        /\ backupDir' = day
        /\ Complete("backup_dir")
     \/ Stop /\ CutUpload
  /\ UNCHANGED <<conflict, locals, others, installed, backups, running, day, before>>

(* create_backup_dir: mkdir -p of today's folder. *)
BackupDir ==
  /\ pc = "backup_dir"
  /\ \/ /\ bakDirs' = bakDirs \cup {pday}
        /\ Proceed("backup_jar")
        /\ UNCHANGED <<uploaded, backupDir>>
     \/ Stop /\ UNCHANGED bakDirs
  /\ UNCHANGED <<conflict, locals, others, installed, copydata, bakJar, bakUnit, running,
                 day, before>>

(* backup_jar: nothing to do on a first deployment. The folder is that of    *)
(* the day this step starts, whether or not it is the one just created.      *)
BackupJar ==
  /\ pc = "backup_jar"
  /\ \/ /\ \/ bin[svc] = None /\ UNCHANGED bakJar
           \/ MayBackupJar /\ bakJar' = [bakJar EXCEPT ![<<pday, svc>>] = bin[svc]]
        /\ Proceed("backup_unit")
        /\ UNCHANGED <<uploaded, backupDir>>
     \/ Stop /\ CutBackupJar
  /\ UNCHANGED <<conflict, locals, others, installed, copydata, bakDirs, bakUnit, running,
                 day, before>>

(* backup_unit_file: the unit file has to exist. *)
BackupUnit ==
  /\ pc = "backup_unit"
  /\ \/ /\ MayBackupUnit
        /\ bakUnit' = [bakUnit EXCEPT ![<<pday, svc>>] = unit[svc]]
        /\ Complete("update_read")
        /\ UNCHANGED <<uploaded, backupDir>>
     \/ Stop /\ CutBackupUnit
  /\ UNCHANGED <<conflict, locals, others, installed, copydata, bakDirs, bakJar, running,
                 day, before>>

(* Fault: systemd is not told of a checksum that was there already.          *)
UpdateReadSkipsReload ==
  /\ pc = "update_read"
  /\ \/ /\ unit[svc] \in Builds
        /\ IF unit[svc] = checksum THEN Complete("copy") ELSE Proceed("update_write")
        /\ UNCHANGED <<uploaded, backupDir>>
     \/ Stop
  /\ UNCHANGED <<conflict, locals, others, installed, copydata, backups, running, day,
                 before>>

(* update_checksum: read the unit, refuse one without exactly one            *)
(* APP_CHECKSUM line, leave it alone if the value is already there.          *)
UpdateRead ==
  /\ pc = "update_read"
  /\ \/ /\ unit[svc] \in Builds
        /\ IF unit[svc] = checksum THEN Complete("daemon_reload")
                                   ELSE Proceed("update_write")
        /\ UNCHANGED <<uploaded, backupDir>>
     \/ Stop
  /\ UNCHANGED <<conflict, locals, others, installed, copydata, backups, running, day,
                 before>>

(* write_remote_file: `sudo tee`, not atomic. *)
UpdateWrite ==
  /\ pc = "update_write"
  /\ \/ /\ unit' = [unit EXCEPT ![svc] = checksum]
        /\ Proceed("update_verify")
        /\ UNCHANGED <<uploaded, backupDir>>
     \/ Stop /\ CutWrite
  /\ UNCHANGED <<conflict, locals, others, bin, loaded, copydata, backups, running, day,
                 before>>

(* The unit is read again and its checksum compared. *)
UpdateVerify ==
  /\ pc = "update_verify"
  /\ \/ /\ unit[svc] = checksum
        /\ Complete("daemon_reload")
        /\ UNCHANGED <<uploaded, backupDir>>
     \/ Stop
  /\ UNCHANGED <<conflict, locals, others, installed, copydata, backups, running, day,
                 before>>

(* systemd re-reads every unit file. *)
DaemonReload ==
  /\ pc = "daemon_reload"
  /\ \/ /\ loaded' = unit
        /\ Complete("copy")
        /\ UNCHANGED <<uploaded, backupDir>>
     \/ StopHere /\ CutReload
  /\ UNCHANGED <<conflict, locals, others, bin, unit, copydata, backups, running, day,
                 before>>

(* copy_to_binaries: the source is in the CopyData folder of the day the     *)
(* copy starts, not the folder the upload went to.                           *)
Copy ==
  /\ pc = "copy"
  /\ \/ /\ copydata[<<pday, svc>>] # None
        /\ bin' = [bin EXCEPT ![svc] = copydata[<<pday, svc>>]]
        /\ Proceed("copy_stat")
        /\ UNCHANGED <<uploaded, backupDir>>
     \/ StopHere /\ CutCopy
  /\ UNCHANGED <<conflict, locals, others, unit, loaded, copydata, backups, running, day,
                 before>>

(* The size in the binaries directory must be the uploaded one. *)
CopyStat ==
  /\ pc = "copy_stat"
  /\ \/ /\ bin[svc] \in Builds
        /\ uploaded # 0 => SizeOf[bin[svc]] = uploaded
        /\ Complete("restart")
        /\ UNCHANGED <<uploaded, backupDir>>
     \/ Stop
  /\ UNCHANGED <<conflict, locals, others, installed, copydata, backups, running, day,
                 before>>

Restart ==
  /\ pc = "restart"
  /\ \/ /\ Restarted({svc}, TRUE)
        /\ Complete("health_check")
     \/ /\ Restarted({svc}, FALSE)
        /\ Proceed("restart_diag")
  /\ UNCHANGED <<uploaded, backupDir, conflict, locals, others, installed, copydata,
                 backups, day, before>>

(* _diagnose_port_conflict with the state's own port: lsof may fail. The     *)
(* status it sets, awaiting_confirmation, is overwritten by _fail before the *)
(* handler suspends again.                                                   *)
Diagnose ==
  conflict' \in {conflict} \cup (IF svc \in squatted THEN {TRUE} ELSE {})

RestartDiag ==
  /\ pc = "restart_diag"
  /\ Diagnose
  /\ StopHere
  /\ UNCHANGED <<locals, others, installed, copydata, backups, running, day, before>>

(* Fault: the outcome of the probe is not looked at. *)
HealthCheckIgnored ==
  /\ pc = "health_check"
  /\ \/ Complete("live_logs") /\ UNCHANGED <<uploaded, backupDir>>
     \/ Stop
  /\ UNCHANGED <<conflict, locals, others, installed, copydata, backups, running, day,
                 before>>

(* Fault: the probe is repeated until the service is active. *)
HealthCheckWaits ==
  /\ pc = "health_check" /\ svc \in up
  /\ Complete("live_logs")
  /\ UNCHANGED <<uploaded, backupDir, conflict, locals, others, installed, copydata,
                 backups, running, day, before>>

(* get_service_status after health_check_delay. A probe that cannot be made  *)
(* ends the deployment without a diagnosis.                                  *)
HealthCheck ==
  /\ pc = "health_check"
  /\ \/ /\ IF svc \in up THEN Complete("live_logs") ELSE Proceed("health_diag")
        /\ UNCHANGED <<uploaded, backupDir>>
     \/ Stop
  /\ UNCHANGED <<conflict, locals, others, installed, copydata, backups, running, day,
                 before>>

(* Fault: with a port conflict the deployment waits for the confirmation     *)
(* instead of failing.                                                       *)
HealthDiagAwaits ==
  /\ pc = "health_diag"
  /\ Diagnose
  /\ Return
  /\ status' = IF conflict' THEN "awaiting_confirmation" ELSE "failed"
  /\ UNCHANGED <<stages, currentStage, errorStage, record, started, identity, uploaded,
                 backupDir, locals, others, installed, copydata, backups, running, day,
                 before>>

(* The log tails that go with a failed start can fail themselves. *)
HealthDiag ==
  /\ pc = "health_diag"
  /\ \/ Diagnose /\ StopHere
     \/ UNCHANGED conflict /\ Stop
  /\ UNCHANGED <<locals, others, installed, copydata, backups, running, day, before>>

(* Fault: a success is not recorded. *)
LiveLogsUnrecorded ==
  /\ pc = "live_logs"
  /\ \/ /\ Return
        /\ status' = "success"
        /\ stages' = [stages EXCEPT !["live_logs"] = "completed"]
        /\ UNCHANGED <<record, started, identity, uploaded, backupDir, currentStage,
                       errorStage, locals>>
     \/ Stop /\ UNCHANGED locals
  /\ UNCHANGED <<conflict, others, installed, copydata, backups, running, day, before>>

(* streamer.start returns and the deployment is a success: the temporary JAR *)
(* is removed, the run recorded and `complete` published.                    *)
LiveLogs ==
  /\ pc = "live_logs"
  /\ \/ /\ Return
        /\ status' = "success"
        /\ stages' = [stages EXCEPT !["live_logs"] = "completed"]
        /\ record' = [id |-> depId, status |-> "success", stage |-> errorStage]
        /\ localJar' = None
        /\ temp' = IF localJar = None \/ KeepTempFiles THEN temp
                   ELSE [temp EXCEPT ![localJar] = None]
        /\ UNCHANGED <<started, identity, uploaded, backupDir, currentStage, errorStage>>
     \/ Stop /\ UNCHANGED locals
  /\ UNCHANGED <<conflict, others, installed, copydata, backups, running, day, before>>

Pipeline ==
  \/ Begin \/ Download \/ Connect \/ Upload \/ BackupDir \/ BackupJar \/ BackupUnit
  \/ UpdateRead \/ UpdateWrite \/ UpdateVerify \/ DaemonReload \/ Copy \/ CopyStat
  \/ Restart \/ RestartDiag \/ HealthCheck \/ HealthDiag \/ LiveLogs

-----------------------------------------------------------------------------
(* restart_after_kill: takes no lock, checks no state, and writes to         *)
(* whatever deployment self.state is at each of its steps.                   *)
pipeline == <<pc, req, pday, started, identity, uploaded, backupDir, locals, before>>

(* _set_stage on the shared stage table. *)
SetStages(done, next) ==
  /\ stages' = [st \in STAGES |-> IF st = next THEN "running"
                                 ELSE IF st \in done THEN "completed" ELSE stages[st]]
  /\ currentStage' = next
  /\ UNCHANGED <<status, errorStage, record>>

RestartAfterKill(s) ==
  /\ rpc = "idle" /\ restarts < MaxRestarts
  /\ restarts' = restarts + 1
  /\ rpc' = "restart" /\ rsvc' = s
  /\ SetStages({}, "restart")
  /\ UNCHANGED <<pipeline, conflict, killing, kills, downloads, crashes, installed, copydata,
                 backups, running, day>>

RKProceed(next) == rpc' = next /\ UNCHANGED rsvc

RKReturn == rpc' = "idle" /\ rsvc' = None

RKRestart ==
  /\ rpc = "restart"
  /\ \/ /\ Restarted({rsvc}, TRUE)
        /\ RKProceed("health_check") /\ SetStages({"restart"}, "health_check")
     \/ /\ Restarted({rsvc}, FALSE)
        /\ RKReturn /\ Fail("restart")
  /\ UNCHANGED <<pipeline, conflict, killing, counts, installed, copydata, backups, day>>

(* Only a DeploymentError is caught: a probe that cannot be made leaves the  *)
(* handler with everything as it is.                                         *)
RKHealth ==
  /\ rpc = "health_check"
  /\ \/ /\ rsvc \in up
        /\ RKProceed("live_logs") /\ SetStages({"health_check"}, "live_logs")
     \/ rsvc \notin up /\ RKProceed("health_diag") /\ UNCHANGED progress
     \/ RKReturn /\ UNCHANGED progress
  /\ UNCHANGED <<pipeline, conflict, killing, counts, installed, copydata, backups,
                 running, day>>

RKDiag ==
  /\ rpc = "health_diag"
  /\ RKReturn
  /\ \/ Diagnose /\ Fail("health_check")
     \/ UNCHANGED <<conflict, progress>>
  /\ UNCHANGED <<pipeline, killing, counts, installed, copydata, backups, running, day>>

(* The deployment becomes a success; the record on disk is not rewritten. *)
RKDone ==
  /\ rpc = "live_logs"
  /\ RKReturn
  /\ \/ /\ stages' = [stages EXCEPT !["live_logs"] = "completed"]
        /\ status' = "success" /\ errorStage' = ""
        /\ UNCHANGED <<currentStage, record>>
     \/ UNCHANGED progress
  /\ UNCHANGED <<pipeline, conflict, killing, counts, installed, copydata, backups, running,
                 day>>

(* kill_process: SIGTERM to the process that holds the port; it may not exit. *)
Kill(s) ==
  /\ killing = None /\ s \in squatted /\ kills < MaxKills
  /\ kills' = kills + 1 /\ killing' = s
  /\ squatted' \in {squatted, squatted \ {s}}
  /\ UNCHANGED <<pipeline, progress, conflict, rpc, rsvc, restarts, downloads, crashes,
                 installed, copydata, backups, up, good, day>>

(* Two seconds later: if it has gone, the conflict is cleared, and a status  *)
(* of awaiting_confirmation would become running again.                      *)
KillDone ==
  /\ killing # None
  /\ killing' = None
  /\ IF killing \in squatted THEN UNCHANGED <<conflict, status>>
     ELSE /\ conflict' = FALSE
          /\ status' = IF status = "awaiting_confirmation" THEN "running" ELSE status
  /\ UNCHANGED <<stages, currentStage, errorStage, record>>
  /\ UNCHANGED <<pipeline, rpc, rsvc, counts, installed, copydata, backups, running, day>>

(* POST /deployment/download: no lock, and no comparison with a checksum. *)
ManualDownload ==
  /\ downloads < MaxDownloads /\ downloads' = downloads + 1
  /\ \E s \in Services, b \in Builds :
       temp' = [temp EXCEPT ![s] = b] /\ localJar' = s
  /\ UNCHANGED <<pc, req, pday, started, identity, uploaded, backupDir, before, progress,
                 conflict, rpc, rsvc, killing, restarts, kills, crashes, installed, copydata,
                 backups, running, day>>

RestartsUnderWay == {s \in Services : \/ pc = "restart" /\ s = svc
                                      \/ rpc = "restart" /\ s = rsvc}

(* The tool dies and is started again. What was in memory is gone, the       *)
(* record on disk stays, and the server keeps whatever the command that was  *)
(* under way made of it.                                                     *)
Crash ==
  /\ crashes < MaxCrashes /\ crashes' = crashes + 1
  /\ Return /\ RKReturn /\ killing' = None
  /\ depId' = 0 /\ svc' = None /\ checksum' = None /\ uploaded' = 0 /\ backupDir' = None
  /\ status' = "idle" /\ stages' = Waiting /\ currentStage' = "" /\ errorStage' = ""
  /\ conflict' = FALSE /\ localJar' = None
  /\ IF pc = "upload"        THEN CutUpload     ELSE UNCHANGED copydata
  /\ IF pc = "backup_dir"    THEN bakDirs' \in {bakDirs, bakDirs \cup {pday}}
                             ELSE UNCHANGED bakDirs
  /\ IF pc = "backup_jar"    THEN CutBackupJar  ELSE UNCHANGED bakJar
  /\ IF pc = "backup_unit"   THEN CutBackupUnit ELSE UNCHANGED bakUnit
  /\ IF pc = "update_write"  THEN CutWrite      ELSE UNCHANGED unit
  /\ IF pc = "daemon_reload" THEN CutReload     ELSE UNCHANGED loaded
  /\ IF pc = "copy"          THEN CutCopy       ELSE UNCHANGED bin
  /\ Restarted(RestartsUnderWay, FALSE)
  /\ UNCHANGED <<started, temp, record, restarts, kills, downloads, before, day>>

(* The date the server paths are built from changes; the names recur. *)
Midnight ==
  /\ day' = (day + 1) % NumDays
  /\ UNCHANGED <<pipeline, progress, conflict, rpc, rsvc, killing, counts, installed, copydata,
                 backups, running>>

FollowUp == RKRestart \/ RKHealth \/ RKDiag \/ RKDone

Next ==
  \/ StartDeploy \/ Pipeline
  \/ \E s \in Services : RestartAfterKill(s)
  \/ FollowUp
  \/ \E s \in Services : Kill(s)
  \/ KillDone \/ ManualDownload \/ Crash \/ Midnight

(* Every await of a running handler returns: SSH commands and downloads have *)
(* timeouts and the loop runs every ready task.                              *)
Spec == Init /\ [][Next]_vars /\ WF_vars(Pipeline) /\ WF_vars(FollowUp)

-----------------------------------------------------------------------------
(* The outcome so far, and the record of it. *)
ProgressType ==
  /\ status \in {"idle", "running", "success", "failed"}
  /\ stages \in [STAGES -> {"waiting", "running", "completed", "failed", "skipped"}]
  /\ currentStage \in STAGES \cup {""} /\ errorStage \in STAGES \cup {""}
  /\ record \in [id : Nat, status : {"none", "success", "failed"}, stage : STAGES \cup {""}]

(* The rest of the DeploymentState. *)
StateType ==
  /\ depId \in Nat /\ uploaded \in Nat
  /\ svc \in Services \cup {None} /\ checksum \in Builds \cup {None}
  /\ backupDir \in Days \cup {None}
  /\ conflict \in BOOLEAN

(* The handlers in flight. *)
HandlerType ==
  /\ pc \in Awaits \cup {"idle", "stop_streams"} /\ pday \in Days
  /\ req \in [svc : Services, checksum : Builds, overwrite : BOOLEAN] \cup {NoRequest}
  /\ rpc \in {"idle", "restart", "health_check", "health_diag", "live_logs"}
  /\ rsvc \in Services \cup {None} /\ killing \in Services \cup {None}
  /\ started \in Nat /\ restarts \in Nat /\ kills \in Nat
  /\ downloads \in Nat /\ crashes \in Nat

(* The files on the VDI and the application server, and the services. *)
ServerType ==
  /\ localJar \in Services \cup {None}
  /\ temp \in [Services -> Builds \cup {None}]
  /\ bin \in [Services -> File] /\ unit \in [Services -> File]
  /\ loaded \in [Services -> File]
  /\ copydata \in [Days \X Services -> Builds \cup {None}]
  /\ bakDirs \subseteq Days
  /\ bakJar \in [Days \X Services -> File] /\ bakUnit \in [Days \X Services -> File]
  /\ up \subseteq Services /\ squatted \subseteq Services
  /\ day \in Days
  /\ before \in [svc : Services \cup {None}, jar : File, unit : File]
  /\ good \in [Services -> Builds \cup {None}]

(* The status is never awaiting_confirmation between two steps: the code     *)
(* sets it, but has set failed before it suspends again.                     *)
TypeOK == ProgressType /\ StateType /\ HandlerType /\ ServerType

(* The last pipeline's service has the JAR and the unit it had before. *)
Untouched == bin[before.svc] = before.jar /\ unit[before.svc] = before.unit

(* Both of these are in a dated backup folder (the JAR if there was one). *)
BackedUp ==
  /\ before.jar # None => \E d \in Days : bakJar[<<d, before.svc>>] = before.jar
  /\ \E d \in Days : bakUnit[<<d, before.svc>>] = before.unit

(* Whatever stage a deployment is in, fails in or dies in, the server still  *)
(* has the JAR and unit file it found, or copies of both: the backup stage   *)
(* comes before the first modification.                                      *)
RollbackReady == before.svc # None => Untouched \/ BackedUp

(* A deployment reported as failed at validate, download, connect, upload or *)
(* backup has not changed the JAR or the unit, even if a restart_after_kill  *)
(* moved current_stage while it ran.                                         *)
EarlyStages == {"validate", "download", "connect", "upload_to_copydata", "backup"}
EarlyFailureUntouched == status = "failed" /\ errorStage \in EarlyStages => Untouched

(* What the backup folders hold of each service, and the record as an outcome *)
(* of Rollout's: a failure at an early stage is a deployment that aborted.   *)
Jars  == [s \in Services |-> {bakJar[<<d, s>>] : d \in Days}]
Units == [s \in Services |-> {bakUnit[<<d, s>>] : d \in Days}]
Outcome == [of |-> record.id,
            is |-> IF record.status = "failed" /\ record.stage \in EarlyStages
                   THEN "aborted" ELSE record.status]

Promise == INSTANCE Rollout WITH jar <- bin, jars <- Jars, units <- Units, found <- before,
                                 goal <- checksum, turn <- depId, outcome <- Outcome

(* deploy() is a Rollout, with whatever restart, kill, download, crash or    *)
(* midnight comes between its steps: nothing is replaced before it is saved, *)
(* no JAR before systemd has the new checksum, no other service at all, and  *)
(* what is recorded as failed before update_checksum has changed nothing.    *)
KeepsRollout == Promise!Spec

(* The record on disk turns to success only when the installed JAR, the unit *)
(* file and the unit systemd has loaded all are the build that was asked     *)
(* for, whatever was downloaded or staged meanwhile.                         *)
RecordedSuccessIsInstalled ==
  [][record' # record /\ record'.status = "success"
       => {bin[svc], unit[svc], loaded[svc]} = {checksum}]_vars

(* The last build of a service that ran can be put back: its JAR and its     *)
(* unit file are installed or in a backup folder, through any series of      *)
(* failed deployments on any days. (The overwrite option gives this up.)     *)
LastGoodRecoverable ==
  \A s \in Services : good[s] # None =>
    /\ bin[s] = good[s] \/ \E d \in Days : bakJar[<<d, s>>] = good[s]
    /\ unit[s] = good[s] \/ \E d \in Days : bakUnit[<<d, s>>] = good[s]

(* README "Any failure stops the deployment": what came before the failed    *)
(* stage is completed, what comes after is skipped.                          *)
StageTableSettled ==
  status = "failed" =>
    /\ errorStage \in STAGES
    /\ \A s \in STAGES : stages[s] = IF s = errorStage THEN "failed"
                                     ELSE IF Order[s] < Order[errorStage] THEN "completed"
                                     ELSE "skipped"

(* _record_last_deployment is "written on success and on failure": once a    *)
(* deployment has an outcome, the record on disk is that outcome.            *)
RecordMatchesState ==
  depId > 0 /\ status \in {"success", "failed"} =>
    record = [id |-> depId, status |-> status, stage |-> errorStage]

(* No stage is still shown as running once every handler has returned.       *)
NothingLeftRunning ==
  depId > 0 /\ pc = "idle" /\ rpc = "idle" => \A s \in STAGES : stages[s] # "running"

(* A deployment that was started ends with its outcome on disk, unless the   *)
(* tool dies first.                                                          *)
DeploymentEnds == pc # "idle" ~> record.id = started \/ crashes > 0
=============================================================================
