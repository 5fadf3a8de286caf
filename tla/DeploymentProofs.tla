-------------------------- MODULE DeploymentProofs --------------------------
(***************************************************************************)
(* Proofs about Deployment for every value of its constants: type          *)
(* correctness, that a rollback is possible at every step, that an early   *)
(* failure changed nothing, that a recorded success is installed, that the *)
(* stage table and the record agree with the outcome, that what ran last   *)
(* can be put back after any number of deployments, and that a deployment  *)
(* is a Rollout.                                                           *)
(*                                                                         *)
(* Each invariant is proved inductive in a strengthened form: TypeInv adds *)
(* which handlers have their arguments, RollbackInv says how far the       *)
(* backup has come at each await, SuccessInv how far the installation has, *)
(* TableInv where the table stands, RecoverInv what is still as the        *)
(* deployment found it and where the files of the loaded unit are, and     *)
(* TurnInv whose record is on disk.                                        *)
(***************************************************************************)
EXTENDS Deployment, TLAPS

(* A handler that waits has its arguments, and its deployment is the last   *)
(* one that began.                                                           *)
InFlight ==
  /\ pc \in Awaits => svc \in Services /\ checksum \in Builds /\ before.svc = svc
                  /\ currentStage \in STAGES
  /\ pc = "stop_streams" => req.svc \in Services /\ req.checksum \in Builds
  /\ rpc # "idle" => rsvc \in Services

TypeInv == TypeOK /\ InFlight

(* The names of the stages and of the awaits, listed. *)
LEMMA StageNames ==
  /\ STAGES = {"validate", "download", "connect", "upload_to_copydata", "backup",
               "update_checksum", "daemon_reload", "copy_to_binaries", "restart",
               "health_check", "live_logs"}
  /\ Awaits = {"download", "connect", "upload", "backup_dir", "backup_jar", "backup_unit",
               "update_read", "update_write", "update_verify", "daemon_reload", "copy",
               "copy_stat", "restart", "restart_diag", "health_check", "health_diag",
               "live_logs"}
  BY DEF STAGES, Order, Awaits, StageOf

(* Every await belongs to a stage. *)
LEMMA StageOfType == StageOf \in [Awaits -> STAGES]
  BY DEF StageOf, Awaits, STAGES, Order

(* There is at least one day. *)
LEMMA DaysFacts == 0 \in Days /\ Days \subseteq Nat
  BY ConstantsOK DEF Days

(* The tool starts in a state its types allow. *)
LEMMA TypeInit == Init => TypeInv
<1> SUFFICES ASSUME Init PROVE TypeInv
  OBVIOUS
<1>1. ProgressType
  BY StageNames DEF Init, ProgressType, Waiting, NoRecord
<1>2. StateType
  BY DEF Init, StateType
<1>3. HandlerType
  BY DaysFacts DEF Init, HandlerType
<1>4. ServerType
  BY DaysFacts DEF Init, ServerType, File
<1>5. InFlight
  BY StageNames DEF Init, InFlight
<1> QED
  BY <1>1, <1>2, <1>3, <1>4, <1>5 DEF TypeInv, TypeOK

(* _fail keeps the types of what it writes. *)
LEMMA FailType ==
  ASSUME ProgressType, depId \in Nat, NEW at \in STAGES, Fail(at)
  PROVE  ProgressType'
<1>1. status' = "failed" /\ errorStage' \in STAGES /\ UNCHANGED currentStage
  BY DEF Fail
<1>2. stages' \in [STAGES -> {"waiting", "running", "completed", "failed", "skipped"}]
  BY DEF Fail, ProgressType
<1>3. record' \in [id : Nat, status : {"none", "success", "failed"}, stage : STAGES \cup {""}]
  BY DEF Fail
<1> QED
  BY <1>1, <1>2, <1>3 DEF ProgressType

(* So does _set_stage. *)
LEMMA SetStagesType ==
  ASSUME ProgressType, NEW done, NEW next \in STAGES, SetStages(done, next)
  PROVE  ProgressType'
<1>1. stages' \in [STAGES -> {"waiting", "running", "completed", "failed", "skipped"}]
  BY DEF SetStages, ProgressType
<1>2. currentStage' \in STAGES \cup {""} /\ UNCHANGED <<status, errorStage, record>>
  BY DEF SetStages
<1> QED
  BY <1>1, <1>2 DEF ProgressType

(* An await of the pipeline that ends the deployment or goes on to another. *)
Move == Stop \/ StopHere \/ \E next \in Awaits : Proceed(next) \/ Complete(next)

(* A move keeps the types of the outcome, and the deployment it is about. *)
LEMMA MoveProgress ==
  ASSUME TypeInv, pc \in Awaits, Move
  PROVE  ProgressType' /\ UNCHANGED <<identity, started>>
<1> USE DEF TypeInv, TypeOK
<1>0. StageOf[pc] \in STAGES
  BY StageOfType
<1>1. CASE Stop \/ StopHere
  <2>1. PICK at \in STAGES : Fail(at) /\ UNCHANGED <<identity, started>>
    BY <1>0, <1>1 DEF Stop, StopHere, InFlight, identity
  <2> QED
    BY <2>1, FailType DEF StateType
<1>2. ASSUME NEW next \in Awaits, Proceed(next) PROVE ProgressType' /\ UNCHANGED <<identity, started>>
  BY <1>2 DEF Proceed, ProgressType, progress, identity
<1>3. ASSUME NEW next \in Awaits, Complete(next) PROVE ProgressType' /\ UNCHANGED <<identity, started>>
  <2>1. StageOf[next] \in STAGES
    BY StageOfType
  <2> QED
    BY <1>0, <1>3, <2>1 DEF Complete, ProgressType, identity
<1> QED
  BY <1>1, <1>2, <1>3 DEF Move

(* A move leaves the handlers with their arguments. *)
LEMMA MoveHandlers ==
  ASSUME TypeInv, pc \in Awaits, Move, UNCHANGED <<others, before, day>>
  PROVE  HandlerType' /\ InFlight'
<1> USE DEF TypeInv, TypeOK
<1>1. /\ pc' \in Awaits \cup {"idle"} /\ pday' \in Days
      /\ req' \in [svc : Services, checksum : Builds, overwrite : BOOLEAN] \cup {NoRequest}
  BY DaysFacts DEF Move, Stop, StopHere, Return, Proceed, Complete, HandlerType, ServerType
<1>2. UNCHANGED <<identity, started>>
  BY MoveProgress
<1>3. HandlerType'
  BY <1>1, <1>2 DEF HandlerType, others, counts
<1>4. pc' \in Awaits => currentStage' \in STAGES
  <2>1. StageOf \in [Awaits -> STAGES]
    BY StageOfType
  <2> QED
    BY <2>1, StageNames DEF Move, Stop, StopHere, Return, Proceed, Complete, InFlight,
       progress
<1>5. InFlight'
  BY <1>1, <1>2, <1>4, StageNames DEF InFlight, others, identity
<1> QED
  BY <1>3, <1>5
(* Every step keeps the types. *)
LEMMA TypeStep == TypeInv /\ [Next]_vars => TypeInv'
<1> SUFFICES ASSUME TypeInv, [Next]_vars PROVE TypeInv'
  OBVIOUS
<1> USE DEF TypeInv, TypeOK
<1>1. CASE Download
  <2>1. pc \in Awaits /\ Move /\ UNCHANGED <<others, before, day>>
    BY <1>1, StageNames DEF Download, Move
  <2>2. StateType'
    BY <1>1, <2>1, MoveProgress, ConstantsOK DEF Download, Stop, StopHere, StateType,
       ServerType, identity
  <2>3. ServerType'
    BY <1>1, <2>1 DEF Download, InFlight, HandlerType, ServerType, File, locals,
       installed, backups, running
  <2> QED
    BY <2>1, <2>2, <2>3, MoveProgress, MoveHandlers
<1>2. CASE Connect
  <2>1. pc \in Awaits /\ Move /\ UNCHANGED <<others, before, day>>
    BY <1>2, StageNames DEF Connect, Move
  <2>2. StateType'
    BY <1>2, <2>1, MoveProgress, ConstantsOK DEF Connect, Stop, StopHere, StateType,
       ServerType, identity
  <2>3. ServerType'
    BY <1>2, <2>1 DEF Connect, InFlight, HandlerType, ServerType, File, locals, installed,
       backups, running
  <2> QED
    BY <2>1, <2>2, <2>3, MoveProgress, MoveHandlers
<1>3. CASE Upload
  <2>1. pc \in Awaits /\ Move /\ UNCHANGED <<others, before, day>>
    BY <1>3, StageNames DEF Upload, Move
  <2>2. StateType'
    BY <1>3, <2>1, MoveProgress, ConstantsOK DEF Upload, Stop, StopHere, StateType,
       ServerType, identity
  <2>3. ServerType'
    BY <1>3, <2>1 DEF Upload, InFlight, HandlerType, ServerType, File, CutUpload, locals,
       installed, backups, running
  <2> QED
    BY <2>1, <2>2, <2>3, MoveProgress, MoveHandlers
<1>4. CASE BackupDir
  <2>1. pc \in Awaits /\ Move /\ UNCHANGED <<others, before, day>>
    BY <1>4, StageNames DEF BackupDir, Move
  <2>2. StateType'
    BY <1>4, <2>1, MoveProgress, ConstantsOK DEF BackupDir, Stop, StopHere, StateType,
       ServerType, identity
  <2>3. ServerType'
    BY <1>4, <2>1 DEF BackupDir, InFlight, HandlerType, ServerType, File, locals,
       installed, running
  <2> QED
    BY <2>1, <2>2, <2>3, MoveProgress, MoveHandlers
<1>5. CASE BackupJar
  <2>1. pc \in Awaits /\ Move /\ UNCHANGED <<others, before, day>>
    BY <1>5, StageNames DEF BackupJar, Move
  <2>2. StateType'
    BY <1>5, <2>1, MoveProgress, ConstantsOK DEF BackupJar, Stop, StopHere, StateType,
       ServerType, identity
  <2>3. ServerType'
    BY <1>5, <2>1 DEF BackupJar, InFlight, HandlerType, ServerType, File, MayBackupJar,
       CutBackupJar, locals, installed, running
  <2> QED
    BY <2>1, <2>2, <2>3, MoveProgress, MoveHandlers
<1>6. CASE BackupUnit
  <2>1. pc \in Awaits /\ Move /\ UNCHANGED <<others, before, day>>
    BY <1>6, StageNames DEF BackupUnit, Move
  <2>2. StateType'
    BY <1>6, <2>1, MoveProgress, ConstantsOK DEF BackupUnit, Stop, StopHere, StateType,
       ServerType, identity
  <2>3. ServerType'
    BY <1>6, <2>1 DEF BackupUnit, InFlight, HandlerType, ServerType, File, MayBackupUnit,
       CutBackupUnit, locals, installed, running
  <2> QED
    BY <2>1, <2>2, <2>3, MoveProgress, MoveHandlers
<1>7. CASE UpdateRead
  <2>1. pc \in Awaits /\ Move /\ UNCHANGED <<others, before, day>>
    BY <1>7, StageNames DEF UpdateRead, Move
  <2>2. StateType'
    BY <1>7, <2>1, MoveProgress, ConstantsOK DEF UpdateRead, Stop, StopHere, StateType,
       ServerType, identity
  <2>3. ServerType'
    BY <1>7, <2>1 DEF UpdateRead, InFlight, HandlerType, ServerType, File, locals,
       installed, backups, running
  <2> QED
    BY <2>1, <2>2, <2>3, MoveProgress, MoveHandlers
<1>8. CASE UpdateWrite
  <2>1. pc \in Awaits /\ Move /\ UNCHANGED <<others, before, day>>
    BY <1>8, StageNames DEF UpdateWrite, Move
  <2>2. StateType'
    BY <1>8, <2>1, MoveProgress, ConstantsOK DEF UpdateWrite, Stop, StopHere, StateType,
       ServerType, identity
  <2>3. ServerType'
    BY <1>8, <2>1 DEF UpdateWrite, InFlight, HandlerType, ServerType, File, CutWrite,
       locals, backups, running
  <2> QED
    BY <2>1, <2>2, <2>3, MoveProgress, MoveHandlers
<1>9. CASE UpdateVerify
  <2>1. pc \in Awaits /\ Move /\ UNCHANGED <<others, before, day>>
    BY <1>9, StageNames DEF UpdateVerify, Move
  <2>2. StateType'
    BY <1>9, <2>1, MoveProgress, ConstantsOK DEF UpdateVerify, Stop, StopHere, StateType,
       ServerType, identity
  <2>3. ServerType'
    BY <1>9, <2>1 DEF UpdateVerify, InFlight, HandlerType, ServerType, File, locals,
       installed, backups, running
  <2> QED
    BY <2>1, <2>2, <2>3, MoveProgress, MoveHandlers
<1>10. CASE DaemonReload
  <2>1. pc \in Awaits /\ Move /\ UNCHANGED <<others, before, day>>
    BY <1>10, StageNames DEF DaemonReload, Move
  <2>2. StateType'
    BY <1>10, <2>1, MoveProgress, ConstantsOK DEF DaemonReload, Stop, StopHere, StateType,
       ServerType, identity
  <2>3. ServerType'
    BY <1>10, <2>1 DEF DaemonReload, InFlight, HandlerType, ServerType, File, CutReload,
       locals, backups, running
  <2> QED
    BY <2>1, <2>2, <2>3, MoveProgress, MoveHandlers
<1>11. CASE Copy
  <2>1. pc \in Awaits /\ Move /\ UNCHANGED <<others, before, day>>
    BY <1>11, StageNames DEF Copy, Move
  <2>2. StateType'
    BY <1>11, <2>1, MoveProgress, ConstantsOK DEF Copy, Stop, StopHere, StateType,
       ServerType, identity
  <2>3. ServerType'
    BY <1>11, <2>1 DEF Copy, InFlight, HandlerType, ServerType, File, CutCopy, locals,
       backups, running
  <2> QED
    BY <2>1, <2>2, <2>3, MoveProgress, MoveHandlers
<1>12. CASE CopyStat
  <2>1. pc \in Awaits /\ Move /\ UNCHANGED <<others, before, day>>
    BY <1>12, StageNames DEF CopyStat, Move
  <2>2. StateType'
    BY <1>12, <2>1, MoveProgress, ConstantsOK DEF CopyStat, Stop, StopHere, StateType,
       ServerType, identity
  <2>3. ServerType'
    BY <1>12, <2>1 DEF CopyStat, InFlight, HandlerType, ServerType, File, locals,
       installed, backups, running
  <2> QED
    BY <2>1, <2>2, <2>3, MoveProgress, MoveHandlers
<1>13. CASE Restart
  <2>1. pc \in Awaits /\ Move /\ UNCHANGED <<others, before, day>>
    BY <1>13, StageNames DEF Restart, Move
  <2>2. StateType'
    BY <1>13, <2>1, MoveProgress, ConstantsOK DEF Restart, Stop, StopHere, StateType,
       ServerType, identity
  <2>3. ServerType'
    BY <1>13, <2>1 DEF Restart, InFlight, HandlerType, ServerType, File, Restarted,
       CanRun, locals, installed, backups
  <2> QED
    BY <2>1, <2>2, <2>3, MoveProgress, MoveHandlers
<1>14. CASE RestartDiag
  <2>1. pc \in Awaits /\ Move /\ UNCHANGED <<others, before, day>>
    BY <1>14, StageNames DEF RestartDiag, Move
  <2>2. StateType'
    BY <1>14, <2>1, MoveProgress, ConstantsOK DEF RestartDiag, Stop, StopHere, StateType,
       ServerType, identity, Diagnose
  <2>3. ServerType'
    BY <1>14, <2>1 DEF RestartDiag, InFlight, HandlerType, ServerType, File, locals,
       installed, backups, running
  <2> QED
    BY <2>1, <2>2, <2>3, MoveProgress, MoveHandlers
<1>15. CASE HealthCheck
  <2>1. pc \in Awaits /\ Move /\ UNCHANGED <<others, before, day>>
    BY <1>15, StageNames DEF HealthCheck, Move
  <2>2. StateType'
    BY <1>15, <2>1, MoveProgress, ConstantsOK DEF HealthCheck, Stop, StopHere, StateType,
       ServerType, identity
  <2>3. ServerType'
    BY <1>15, <2>1 DEF HealthCheck, InFlight, HandlerType, ServerType, File, locals,
       installed, backups, running
  <2> QED
    BY <2>1, <2>2, <2>3, MoveProgress, MoveHandlers
<1>16. CASE HealthDiag
  <2>1. pc \in Awaits /\ Move /\ UNCHANGED <<others, before, day>>
    BY <1>16, StageNames DEF HealthDiag, Move
  <2>2. StateType'
    BY <1>16, <2>1, MoveProgress, ConstantsOK DEF HealthDiag, Stop, StopHere, StateType,
       ServerType, identity, Diagnose
  <2>3. ServerType'
    BY <1>16, <2>1 DEF HealthDiag, InFlight, HandlerType, ServerType, File, locals,
       installed, backups, running
  <2> QED
    BY <2>1, <2>2, <2>3, MoveProgress, MoveHandlers
<1>17. CASE StartDeploy
  <2>1. ProgressType' /\ StateType'
    BY <1>17 DEF StartDeploy, ProgressType, StateType, progress, identity
  <2>2. HandlerType' /\ InFlight'
    BY <1>17, StageNames, ConstantsOK DEF StartDeploy, HandlerType, InFlight, ServerType,
       others, counts, identity, progress, NoRequest
  <2>3. ServerType'
    BY <1>17 DEF StartDeploy, ServerType, locals, installed, backups, running
  <2> QED
    BY <2>1, <2>2, <2>3
<1>18. CASE Begin
  <2>1. ProgressType' /\ StateType'
    BY <1>18, StageNames DEF Begin, Waiting, ProgressType, StateType, HandlerType, InFlight
  <2>2. HandlerType' /\ InFlight'
    BY <1>18, StageNames DEF Begin, HandlerType, InFlight, ServerType, others, counts
  <2>3. ServerType'
    BY <1>18 DEF Begin, InFlight, ServerType, File, locals, installed, backups, running
  <2> QED
    BY <2>1, <2>2, <2>3
<1>19. CASE LiveLogs
  <2>1. ProgressType' /\ StateType'
    <3>1. CASE Stop
      BY <1>19, <3>1, StageNames, MoveProgress DEF LiveLogs, Move, Stop, StateType, identity
    <3>2. CASE ~Stop
      <4>1. /\ status' = "success"
            /\ stages' = [stages EXCEPT !["live_logs"] = "completed"]
            /\ record' = [id |-> depId, status |-> "success", stage |-> errorStage]
            /\ UNCHANGED <<identity, uploaded, backupDir, currentStage, errorStage, conflict>>
        BY <1>19, <3>2 DEF LiveLogs
      <4> QED
        BY <4>1, StageNames DEF ProgressType, StateType, identity
    <3> QED
      BY <3>1, <3>2
  <2>2. HandlerType' /\ InFlight'
    BY <1>19, StageNames, MoveHandlers, DaysFacts DEF LiveLogs, Move, Return, HandlerType,
       InFlight, NoRequest, others, counts
  <2>3. ServerType'
    BY <1>19, ConstantsOK DEF LiveLogs, ServerType, locals, installed, backups, running
  <2> QED
    BY <2>1, <2>2, <2>3
<1>20. ASSUME NEW s \in Services, RestartAfterKill(s) PROVE TypeInv'
  <2>1. ProgressType' /\ StateType'
    BY <1>20, StageNames DEF RestartAfterKill, SetStages, ProgressType, StateType,
       pipeline, identity
  <2>2. HandlerType' /\ InFlight'
    BY <1>20, StageNames DEF RestartAfterKill, SetStages, HandlerType, InFlight, pipeline,
       identity
  <2>3. ServerType'
    BY <1>20 DEF RestartAfterKill, ServerType, pipeline, locals, installed, backups, running
  <2> QED
    BY <2>1, <2>2, <2>3
<1>21. CASE RKRestart
  <2>1. ProgressType'
    <3>1. SetStages({"restart"}, "health_check") \/ Fail("restart")
      BY <1>21 DEF RKRestart
    <3>2. ProgressType /\ depId \in Nat
      BY DEF StateType
    <3>3. "health_check" \in STAGES /\ "restart" \in STAGES
      BY StageNames
    <3> QED
      BY <3>1, <3>2, <3>3, FailType, SetStagesType
  <2>2. StateType'
    BY <1>21 DEF RKRestart, StateType, pipeline, identity
  <2>3. HandlerType' /\ InFlight'
    BY <1>21, StageNames DEF RKRestart, SetStages, Fail, RKProceed, RKReturn, HandlerType,
       InFlight, pipeline, identity, counts, progress
  <2>4. ServerType'
    BY <1>21 DEF RKRestart, ServerType, pipeline, locals, installed, backups, running,
       Restarted, CanRun, InFlight
  <2> QED
    BY <2>1, <2>2, <2>3, <2>4
<1>22. CASE RKHealth
  <2>1. ProgressType'
    <3>1. SetStages({"health_check"}, "live_logs") \/ UNCHANGED progress
      BY <1>22 DEF RKHealth
    <3>2. ProgressType /\ "live_logs" \in STAGES
      BY StageNames
    <3>3. CASE UNCHANGED progress
      BY <3>2, <3>3 DEF ProgressType, progress
    <3> QED
      BY <3>1, <3>2, <3>3, SetStagesType
  <2>2. StateType'
    BY <1>22 DEF RKHealth, StateType, pipeline, identity
  <2>3. HandlerType' /\ InFlight'
    BY <1>22, StageNames DEF RKHealth, SetStages, Fail, RKProceed, RKReturn, HandlerType,
       InFlight, pipeline, identity, counts, progress
  <2>4. ServerType'
    BY <1>22 DEF RKHealth, ServerType, pipeline, locals, installed, backups, running
  <2> QED
    BY <2>1, <2>2, <2>3, <2>4
<1>23. CASE RKDiag
  <2>1. ProgressType'
    BY <1>23, StageNames, FailType DEF RKDiag, SetStages, ProgressType, StateType, progress
  <2>2. StateType'
    BY <1>23 DEF RKDiag, StateType, pipeline, identity, Diagnose
  <2>3. HandlerType' /\ InFlight'
    BY <1>23, StageNames DEF RKDiag, SetStages, Fail, RKProceed, RKReturn, HandlerType,
       InFlight, pipeline, identity, counts, progress
  <2>4. ServerType'
    BY <1>23 DEF RKDiag, ServerType, pipeline, locals, installed, backups, running, Diagnose
  <2> QED
    BY <2>1, <2>2, <2>3, <2>4
<1>24. CASE RKDone
  <2>1. ProgressType'
    BY <1>24, StageNames, FailType DEF RKDone, SetStages, ProgressType, StateType, progress
  <2>2. StateType'
    BY <1>24 DEF RKDone, StateType, pipeline, identity
  <2>3. HandlerType' /\ InFlight'
    BY <1>24, StageNames DEF RKDone, SetStages, Fail, RKProceed, RKReturn, HandlerType,
       InFlight, pipeline, identity, counts, progress
  <2>4. ServerType'
    BY <1>24 DEF RKDone, ServerType, pipeline, locals, installed, backups, running
  <2> QED
    BY <2>1, <2>2, <2>3, <2>4
<1>25. ASSUME NEW s \in Services, Kill(s) PROVE TypeInv'
  <2>1. ProgressType' /\ StateType'
    BY <1>25 DEF Kill, ProgressType, StateType, progress, pipeline, identity
  <2>2. HandlerType' /\ InFlight'
    BY <1>25 DEF Kill, HandlerType, InFlight, pipeline, identity, progress
  <2>3. ServerType'
    BY <1>25 DEF Kill, ServerType, pipeline, locals, installed, backups
  <2> QED
    BY <2>1, <2>2, <2>3
<1>26. CASE KillDone
  <2>1. ProgressType' /\ StateType'
    BY <1>26 DEF KillDone, ProgressType, StateType, pipeline, identity
  <2>2. HandlerType' /\ InFlight'
    BY <1>26 DEF KillDone, HandlerType, InFlight, pipeline, identity, counts
  <2>3. ServerType'
    BY <1>26 DEF KillDone, ServerType, pipeline, locals, installed, backups, running
  <2> QED
    BY <2>1, <2>2, <2>3
<1>27. CASE ManualDownload
  <2>1. ProgressType' /\ StateType'
    BY <1>27 DEF ManualDownload, ProgressType, StateType, progress, identity
  <2>2. HandlerType' /\ InFlight'
    BY <1>27 DEF ManualDownload, HandlerType, InFlight, identity, progress
  <2>3. ServerType'
    BY <1>27 DEF ManualDownload, ServerType, installed, backups, running
  <2> QED
    BY <2>1, <2>2, <2>3
<1>28. CASE Crash
  <2>1. ProgressType' /\ StateType'
    BY <1>28, StageNames DEF Crash, Waiting, ProgressType, StateType
  <2>2. HandlerType' /\ InFlight'
    <3>1. /\ pc' = "idle" /\ req' = NoRequest /\ pday' = 0
          /\ rpc' = "idle" /\ rsvc' = None /\ killing' = None
          /\ crashes' = crashes + 1 /\ UNCHANGED <<started, restarts, kills, downloads>>
      BY <1>28 DEF Crash, Return, RKReturn
    <3> QED
      BY <3>1, StageNames, DaysFacts DEF HandlerType, InFlight
  <2>3. bin' \in [Services -> File] /\ unit' \in [Services -> File] /\ loaded' \in [Services -> File]
    <3>1. \/ UNCHANGED bin
          \/ svc \in Services /\ \E f \in File : bin' = [bin EXCEPT ![svc] = f]
      BY <1>28, StageNames DEF Crash, CutCopy, InFlight, HandlerType, ServerType, File
    <3>2. \/ UNCHANGED unit
          \/ svc \in Services /\ \E f \in File : unit' = [unit EXCEPT ![svc] = f]
      BY <1>28, StageNames DEF Crash, CutWrite, InFlight, ServerType, File
    <3>3. loaded' \in {loaded, unit}
      BY <1>28 DEF Crash, CutReload
    <3> QED
      BY <3>1, <3>2, <3>3 DEF ServerType
  <2>4. copydata' \in [Days \X Services -> Builds \cup {None}]
    BY <1>28 DEF Crash, CutUpload, ServerType, StateType
  <2>5. bakDirs' \subseteq Days /\ bakJar' \in [Days \X Services -> File] /\ bakUnit' \in [Days \X Services -> File]
    <3>1. bakDirs' \subseteq Days
      BY <1>28 DEF Crash, HandlerType, ServerType
    <3>2. bakJar' \in [Days \X Services -> File]
      BY <1>28, StageNames DEF Crash, CutBackupJar, InFlight, HandlerType, ServerType, File
    <3>3. bakUnit' \in [Days \X Services -> File]
      BY <1>28, StageNames DEF Crash, CutBackupUnit, InFlight, HandlerType, ServerType, File
    <3> QED
      BY <3>1, <3>2, <3>3
  <2>6. up' \subseteq Services /\ squatted' \subseteq Services /\ good' \in [Services -> Builds \cup {None}]
    BY <1>28 DEF Crash, Restarted, CanRun, RestartsUnderWay, ServerType
  <2>7. ServerType'
    BY <1>28, <2>3, <2>4, <2>5, <2>6 DEF Crash, ServerType
  <2> QED
    BY <2>1, <2>2, <2>3, <2>4, <2>5, <2>6, <2>7
<1>29. CASE Midnight
  <2>1. ProgressType' /\ StateType'
    BY <1>29 DEF Midnight, ProgressType, StateType, progress, pipeline, identity
  <2>2. HandlerType' /\ InFlight'
    BY <1>29 DEF Midnight, HandlerType, InFlight, pipeline, identity, progress, counts
  <2>3. day' \in Days
    BY <1>29, ConstantsOK DEF Midnight, ServerType, Days
  <2>4. ServerType'
    BY <1>29, <2>3 DEF Midnight, ServerType, pipeline, locals, installed, backups, running
  <2> QED
    BY <2>1, <2>2, <2>3, <2>4
<1>30. CASE UNCHANGED vars
  <2>1. ProgressType' /\ StateType'
    BY <1>30 DEF vars, ProgressType, StateType
  <2>2. HandlerType'
    BY <1>30 DEF vars, HandlerType
  <2>3. InFlight'
    BY <1>30 DEF vars, InFlight
  <2>4. ServerType'
    BY <1>30 DEF vars, ServerType
  <2> QED
    BY <2>1, <2>2, <2>3, <2>4
<1> QED
  BY <1>1, <1>2, <1>3, <1>4, <1>5, <1>6, <1>7, <1>8, <1>9, <1>10, <1>11, <1>12, <1>13,
     <1>14, <1>15, <1>16, <1>17, <1>18, <1>19, <1>20, <1>21, <1>22, <1>23, <1>24, <1>25,
     <1>26, <1>27, <1>28, <1>29, <1>30 DEF Next, Pipeline, FollowUp

(* The tool is always in a state its types allow; in particular the status   *)
(* awaiting_confirmation is never there for another handler to see.          *)
THEOREM TypeCorrect == Spec => []TypeOK
<1>1. Spec => []TypeInv
  BY TypeInit, TypeStep, PTL DEF Spec
<1> QED
  BY <1>1, PTL DEF TypeInv

-----------------------------------------------------------------------------
(* The awaits before the backup is complete, but for the one that completes  *)
(* it, and the awaits after it.                                              *)
EarlyAwaits == {"download", "connect", "upload", "backup_dir", "backup_jar"}
LateAwaits == Awaits \ (EarlyAwaits \cup {"backup_unit"})

(* Half of BackedUp: what backup_jar leaves behind. *)
JarBackedUp == before.jar # None => \E d \in Days : bakJar[<<d, before.svc>>] = before.jar

(* Until the backup is complete nothing has been touched; after it there is  *)
(* a backup, and no failure can be charged to an early stage.                *)
RollbackInv ==
  /\ pc \in EarlyAwaits \cup {"backup_unit"} => Untouched
  /\ pc = "backup_unit" => JarBackedUp
  /\ pc \in LateAwaits => BackedUp /\ currentStage \notin EarlyStages
  /\ pc \in Awaits /\ status = "failed" => errorStage \notin EarlyStages
  /\ RollbackReady
  /\ EarlyFailureUntouched

(* The stages of late awaits are late. *)
LEMMA LateStages ==
  /\ \A p \in LateAwaits : StageOf[p] \notin EarlyStages
  /\ {"restart", "health_check", "live_logs"} \cap EarlyStages = {}
<1>1. /\ StageOf["update_read"] = "update_checksum" /\ StageOf["update_write"] = "update_checksum"
      /\ StageOf["update_verify"] = "update_checksum" /\ StageOf["daemon_reload"] = "daemon_reload"
      /\ StageOf["copy"] = "copy_to_binaries" /\ StageOf["copy_stat"] = "copy_to_binaries"
      /\ StageOf["restart"] = "restart" /\ StageOf["restart_diag"] = "restart"
      /\ StageOf["health_check"] = "health_check" /\ StageOf["health_diag"] = "health_check"
      /\ StageOf["live_logs"] = "live_logs"
  BY DEF StageOf
<1> QED
  BY <1>1, StageNames DEF LateAwaits, EarlyAwaits, EarlyStages

(* What the rollback depends on is in these files alone. *)
LEMMA FilesKept ==
  ASSUME UNCHANGED <<bin, unit, bakJar, bakUnit, before>>
  PROVE  Untouched' = Untouched /\ BackedUp' = BackedUp /\ JarBackedUp' = JarBackedUp
  BY DEF Untouched, BackedUp, JarBackedUp

(* ... and the backups in fewer. *)
LEMMA BackupsKept ==
  ASSUME UNCHANGED <<bakJar, bakUnit, before>>
  PROVE  BackedUp' = BackedUp
  BY DEF BackedUp

(* What a move that ends the deployment leads to. *)
LEMMA StopEffect ==
  ASSUME TypeInv, pc \in Awaits, Stop \/ StopHere
  PROVE  /\ pc' = "idle" /\ status' = "failed"
         /\ errorStage' \in {StageOf[pc], currentStage}
  BY DEF Stop, StopHere, Return, Fail

(* Every step keeps RollbackInv. *)
LEMMA RollbackStep == TypeInv /\ TypeInv' /\ RollbackInv /\ [Next]_vars => RollbackInv'
<1> SUFFICES ASSUME TypeInv, TypeInv', RollbackInv, [Next]_vars PROVE RollbackInv'
  OBVIOUS
<1> USE StageNames
<1>1. CASE StartDeploy
  BY <1>1, FilesKept DEF StartDeploy, RollbackInv, RollbackReady, EarlyFailureUntouched,
     EarlyAwaits, LateAwaits, progress, installed, backups
<1>2. CASE Begin
  <2>1. Untouched'
    BY <1>2 DEF Begin, Untouched, installed
  <2> QED
    BY <1>2, <2>1 DEF Begin, RollbackInv, RollbackReady, EarlyFailureUntouched,
       EarlyAwaits, LateAwaits
<1>3. CASE Download \/ Connect \/ Upload \/ BackupDir
  <2> USE DEF Download, Connect, Upload, BackupDir
  <2>1. Untouched'
    BY <1>3, FilesKept DEF RollbackInv, EarlyAwaits, installed, backups
  <2>2. pc' \in EarlyAwaits \cup {"idle"} /\ pc \in EarlyAwaits /\ UNCHANGED before
    BY <1>3 DEF Stop, StopHere, Return, Proceed, Complete, EarlyAwaits
  <2>3. pc' \in Awaits => status' = status /\ errorStage' = errorStage
    BY <1>3 DEF Stop, StopHere, Return, Proceed, Complete, progress
  <2> HIDE DEF Download, Connect, Upload, BackupDir
  <2> QED
    BY <2>1, <2>2, <2>3
    DEF RollbackInv, RollbackReady, EarlyFailureUntouched, EarlyAwaits, LateAwaits
<1>7. CASE BackupJar
  <2>1. Untouched'
    BY <1>7 DEF BackupJar, RollbackInv, Untouched, EarlyAwaits, installed
  <2>2. CASE Stop
    BY <1>7, <2>1, <2>2 DEF BackupJar, Stop, Return, RollbackInv, RollbackReady,
       EarlyFailureUntouched, EarlyAwaits, LateAwaits
  <2>3. CASE ~Stop
    <3>1. JarBackedUp'
      <4>1. /\ pc = "backup_jar" /\ UNCHANGED before
            /\ bin[svc] = None \/ bakJar' = [bakJar EXCEPT ![<<pday, svc>>] = bin[svc]]
        BY <1>7, <2>3 DEF BackupJar
      <4>2. /\ svc \in Services /\ before.svc = svc /\ bin[svc] = before.jar
            /\ pday \in Days /\ bakJar \in [Days \X Services -> File]
        BY <4>1 DEF RollbackInv, Untouched, EarlyAwaits, TypeInv, InFlight, TypeOK,
           HandlerType, ServerType
      <4> QED
        BY <4>1, <4>2 DEF JarBackedUp
    <3>2. pc' = "backup_unit" /\ UNCHANGED <<status, errorStage>>
      BY <1>7, <2>3 DEF BackupJar, Proceed, progress
    <3> QED
      BY <1>7, <2>1, <3>1, <3>2 DEF BackupJar, RollbackInv, RollbackReady,
         EarlyFailureUntouched, EarlyAwaits, LateAwaits
  <2> QED
    BY <2>2, <2>3
<1>8. CASE BackupUnit
  <2>1. Untouched'
    BY <1>8 DEF BackupUnit, RollbackInv, Untouched, installed
  <2>2. CASE Stop
    BY <1>8, <2>1, <2>2 DEF BackupUnit, Stop, Return, RollbackInv, RollbackReady,
       EarlyFailureUntouched, EarlyAwaits, LateAwaits
  <2>3. CASE ~Stop
    <3>1. BackedUp'
      <4>1. /\ pc = "backup_unit" /\ UNCHANGED <<before, bakJar>>
            /\ bakUnit' = [bakUnit EXCEPT ![<<pday, svc>>] = unit[svc]]
        BY <1>8, <2>3 DEF BackupUnit
      <4>2. /\ svc \in Services /\ before.svc = svc /\ unit[svc] = before.unit
            /\ pday \in Days /\ bakUnit \in [Days \X Services -> File] /\ JarBackedUp
        BY <4>1 DEF RollbackInv, Untouched, TypeInv, InFlight, TypeOK, HandlerType,
           ServerType
      <4> QED
        BY <4>1, <4>2 DEF BackedUp, JarBackedUp
    <3>2. /\ pc' = "update_read" /\ currentStage' = "update_checksum"
          /\ UNCHANGED <<status, errorStage>>
      BY <1>8, <2>3 DEF BackupUnit, Complete, StageOf
    <3> QED
      BY <1>8, <2>1, <3>1, <3>2 DEF BackupUnit, RollbackInv, RollbackReady,
         EarlyFailureUntouched, EarlyAwaits, LateAwaits, EarlyStages
  <2> QED
    BY <2>2, <2>3
<1>9. CASE \/ UpdateRead \/ UpdateWrite \/ UpdateVerify \/ DaemonReload \/ Copy \/ CopyStat
           \/ Restart \/ HealthCheck \/ RestartDiag \/ HealthDiag \/ LiveLogs
  <2> USE DEF UpdateRead, UpdateWrite, UpdateVerify, DaemonReload, Copy, CopyStat, Restart,
              HealthCheck, RestartDiag, HealthDiag, LiveLogs
  <2>1. pc \in LateAwaits /\ BackedUp'
    BY <1>9, BackupsKept DEF RollbackInv, EarlyAwaits, LateAwaits, backups
  <2>2. \/ pc' = "idle" /\ (status' = "failed" => errorStage' \notin EarlyStages)
        \/ pc' \in LateAwaits /\ currentStage' \notin EarlyStages
           /\ UNCHANGED <<status, errorStage>>
    BY <1>9, <2>1, LateStages, StopEffect
    DEF RollbackInv, Return, Proceed, Complete, EarlyAwaits, LateAwaits, progress
  <2> HIDE DEF UpdateRead, UpdateWrite, UpdateVerify, DaemonReload, Copy, CopyStat, Restart,
               HealthCheck, RestartDiag, HealthDiag, LiveLogs
  <2> QED
    BY <2>1, <2>2 DEF RollbackInv, RollbackReady, EarlyFailureUntouched, EarlyAwaits, LateAwaits
<1>20. ASSUME NEW s \in Services, RestartAfterKill(s) PROVE RollbackInv'
  BY <1>20, FilesKept, LateStages DEF RestartAfterKill, SetStages, RollbackInv,
     RollbackReady, EarlyFailureUntouched, pipeline, installed, backups
<1>21. CASE FollowUp
  <2>1. UNCHANGED <<pc, bin, unit, bakJar, bakUnit, before>>
    BY <1>21 DEF FollowUp, RKRestart, RKHealth, RKDiag, RKDone, pipeline, installed, backups
  <2>2. /\ currentStage' = currentStage \/ currentStage' \notin EarlyStages
        /\ status' = "failed" => errorStage' \notin EarlyStages \/ UNCHANGED <<status, errorStage>>
    BY <1>21, LateStages
    DEF FollowUp, RKRestart, RKHealth, RKDiag, RKDone, SetStages, Fail, progress
  <2> QED
    BY <2>1, <2>2, FilesKept DEF RollbackInv, RollbackReady, EarlyFailureUntouched
<1>25. ASSUME NEW s \in Services, Kill(s) PROVE RollbackInv'
  BY <1>25, FilesKept DEF Kill, RollbackInv, RollbackReady, EarlyFailureUntouched,
     pipeline, progress, installed, backups
<1>26. CASE KillDone
  BY <1>26, FilesKept DEF KillDone, RollbackInv, RollbackReady, EarlyFailureUntouched,
     pipeline, installed, backups, TypeInv, TypeOK, ProgressType
<1>27. CASE ManualDownload
  BY <1>27, FilesKept DEF ManualDownload, RollbackInv, RollbackReady,
     EarlyFailureUntouched, progress, installed, backups
<1>28. CASE Crash
  <2>1. pc' = "idle" /\ status' = "idle" /\ UNCHANGED before
    BY <1>28 DEF Crash, Return
  <2>2. CASE pc \in LateAwaits
    <3>1. BackedUp'
      BY <1>28, <2>2, BackupsKept DEF Crash, RollbackInv, EarlyAwaits, LateAwaits
    <3> QED
      BY <2>1, <3>1 DEF RollbackInv, RollbackReady, EarlyFailureUntouched, EarlyAwaits,
         LateAwaits
  <2>3. CASE pc \in EarlyAwaits \cup {"backup_unit"}
    <3>1. Untouched'
      BY <1>28, <2>1, <2>3 DEF Crash, RollbackInv, Untouched, EarlyAwaits
    <3> QED
      BY <2>1, <3>1 DEF RollbackInv, RollbackReady, EarlyFailureUntouched, EarlyAwaits,
         LateAwaits
  <2>4. CASE pc \notin Awaits
    <3>1. UNCHANGED <<bin, unit, bakJar, bakUnit>>
      BY <1>28, <2>4 DEF Crash
    <3> QED
      BY <2>1, <3>1, FilesKept DEF RollbackInv, RollbackReady, EarlyFailureUntouched,
         EarlyAwaits, LateAwaits
  <2> QED
    BY <2>2, <2>3, <2>4 DEF LateAwaits
<1>29. CASE Midnight
  BY <1>29, FilesKept DEF Midnight, RollbackInv, RollbackReady, EarlyFailureUntouched,
     pipeline, progress, installed, backups
<1>30. CASE UNCHANGED vars
  BY <1>30, FilesKept DEF vars, RollbackInv, RollbackReady, EarlyFailureUntouched
<1> QED
  BY <1>1, <1>2, <1>3, <1>7, <1>8, <1>9, <1>20, <1>21, <1>25,
     <1>26, <1>27, <1>28, <1>29, <1>30 DEF Next, Pipeline, FollowUp

(* Nothing has been deployed at first. *)
LEMMA RollbackInit == Init => RollbackInv
<1> SUFFICES ASSUME Init PROVE RollbackInv
  OBVIOUS
<1>1. pc = "idle" /\ status = "idle" /\ before.svc = None
  BY DEF Init
<1> QED
  BY <1>1, StageNames DEF RollbackInv, RollbackReady, EarlyFailureUntouched, EarlyAwaits,
     LateAwaits

(* RollbackInv holds throughout. *)
LEMMA RollbackInvariant == Spec => []RollbackInv
<1>1. Spec => []TypeInv
  BY TypeInit, TypeStep, PTL DEF Spec
<1> QED
  BY <1>1, RollbackInit, RollbackStep, PTL DEF Spec

(* Whatever step the tool is at, or died at, the JAR and unit file that the  *)
(* last deployment found are on the server, in place or in a backup: the     *)
(* order of the stages in _deploy is right on every interleaving.            *)
THEOREM RollbackReadyCorrect == Spec => []RollbackReady
<1>1. RollbackInv => RollbackReady
  BY DEF RollbackInv
<1> QED
  BY <1>1, RollbackInvariant, PTL

(* A deployment that is reported as failed at a stage up to the backup has   *)
(* changed neither the JAR nor the unit, whatever a restart_after_kill did   *)
(* to the shared current_stage meanwhile.                                    *)
THEOREM EarlyFailureCorrect == Spec => []EarlyFailureUntouched
<1>1. RollbackInv => EarlyFailureUntouched
  BY DEF RollbackInv
<1> QED
  BY <1>1, RollbackInvariant, PTL

-----------------------------------------------------------------------------
(* The awaits after daemon_reload, and after update_checksum. *)
UnitLoaded == {"copy", "copy_stat", "restart", "restart_diag", "health_check", "health_diag",
               "live_logs"}
UnitWritten == UnitLoaded \cup {"daemon_reload"}

(* How far the installation has come at each await. *)
SuccessInv ==
  /\ pc \in UnitWritten => unit[svc] = checksum
  /\ pc \in UnitLoaded => loaded[svc] = checksum
  /\ pc = "health_check" /\ svc \in up => bin[svc] = loaded[svc]
  /\ pc = "live_logs" => bin[svc] = loaded[svc]

(* No deployment is under way at first. *)
LEMMA SuccessInit == Init => SuccessInv
<1> SUFFICES ASSUME Init PROVE SuccessInv
  OBVIOUS
<1>1. pc = "idle"
  BY DEF Init
<1> QED
  BY <1>1 DEF SuccessInv, UnitLoaded, UnitWritten

(* A service that systemd restarts runs only with the loaded checksum's JAR. *)
LEMMA RestartedRuns ==
  ASSUME NEW S, NEW issued \in BOOLEAN, Restarted(S, issued), NEW s, s \in up',
         issued => s \in S
  PROVE  (s \in up /\ ~issued) \/ bin[s] = loaded[s]
  BY DEF Restarted, CanRun

(* Every step keeps SuccessInv. *)
LEMMA SuccessStep == TypeInv /\ SuccessInv /\ [Next]_vars => SuccessInv'
<1> SUFFICES ASSUME TypeInv, SuccessInv, [Next]_vars PROVE SuccessInv'
  OBVIOUS
<1>a. ASSUME pc' \notin UnitWritten PROVE SuccessInv'
  BY <1>a DEF SuccessInv, UnitWritten, UnitLoaded
<1>b. ASSUME UNCHANGED <<pc, svc, checksum, bin, unit, loaded, up>> PROVE SuccessInv'
  BY <1>b DEF SuccessInv
<1>1. CASE \/ StartDeploy \/ Begin \/ Download \/ Connect \/ Upload \/ BackupDir \/ BackupJar
           \/ BackupUnit \/ UpdateWrite \/ RestartDiag \/ HealthDiag \/ LiveLogs
  BY <1>1, <1>a
  DEF StartDeploy, Begin, Download, Connect, Upload, BackupDir, BackupJar, BackupUnit,
      UpdateWrite, RestartDiag, HealthDiag, LiveLogs, Stop, StopHere, Return, Proceed, Complete,
      UnitWritten, UnitLoaded
<1>13. CASE UpdateRead \/ UpdateVerify
  <2>1. pc' = "daemon_reload" => unit[svc] = checksum
    BY <1>13 DEF UpdateRead, UpdateVerify, Stop, Return, Proceed
  <2>2. pc' \in UnitWritten => pc' = "daemon_reload"
    BY <1>13
    DEF UpdateRead, UpdateVerify, Stop, Return, Proceed, Complete, UnitWritten, UnitLoaded
  <2>3. UNCHANGED <<svc, checksum, unit>>
    BY <1>13 DEF UpdateRead, UpdateVerify, Stop, Proceed, Complete, identity, installed
  <2> QED
    BY <2>1, <2>2, <2>3 DEF SuccessInv, UnitLoaded, UnitWritten
<1>15. CASE DaemonReload
  <2>1. CASE pc' = "copy"
    BY <1>15, <2>1 DEF DaemonReload, StopHere, Return, Complete, SuccessInv, UnitWritten,
       UnitLoaded, identity
  <2>2. CASE pc' # "copy"
    BY <1>15, <1>a, <2>2 DEF DaemonReload, StopHere, Return, Complete, UnitWritten,
       UnitLoaded
  <2> QED
    BY <2>1, <2>2
<1>16. CASE Copy
  <2>1. CASE pc' = "copy_stat"
    <3>1. pc \in UnitLoaded /\ UNCHANGED <<svc, checksum, unit, loaded>>
      BY <1>16, <2>1 DEF Copy, Stop, StopHere, Proceed, Complete, UnitLoaded, identity
    <3> QED
      BY <2>1, <3>1 DEF SuccessInv, UnitWritten
  <2>2. CASE pc' # "copy_stat"
    BY <1>16, <1>a, <2>2 DEF Copy, Stop, StopHere, Return, Proceed, Complete, UnitWritten,
       UnitLoaded
  <2> QED
    BY <2>1, <2>2
<1>17. CASE CopyStat
  <2>1. CASE pc' = "restart"
    <3>1. pc \in UnitLoaded /\ UNCHANGED <<svc, checksum, unit, loaded>>
      BY <1>17, <2>1 DEF CopyStat, Stop, StopHere, Proceed, Complete, UnitLoaded,
         identity, installed
    <3> QED
      BY <2>1, <3>1 DEF SuccessInv, UnitWritten
  <2>2. CASE pc' # "restart"
    BY <1>17, <1>a, <2>2 DEF CopyStat, Stop, StopHere, Return, Proceed, Complete,
       UnitWritten, UnitLoaded
  <2> QED
    BY <2>1, <2>2
<1>18. CASE Restart
  <2>1. pc = "restart" /\ UNCHANGED <<svc, checksum, bin, unit, loaded>>
    BY <1>18 DEF Restart, Proceed, Complete, identity, installed
  <2>2. CASE pc' = "health_check"
    <3>1. Restarted({svc}, TRUE)
      BY <1>18, <2>2 DEF Restart, Proceed
    <3> QED
      BY <2>1, <2>2, <3>1, RestartedRuns DEF SuccessInv, UnitWritten, UnitLoaded
  <2>3. CASE pc' # "health_check"
    <3>1. pc' = "restart_diag"
      BY <1>18, <2>3 DEF Restart, Proceed, Complete
    <3> QED
      BY <2>1, <3>1 DEF SuccessInv, UnitWritten, UnitLoaded
  <2> QED
    BY <2>2, <2>3
<1>19. CASE HealthCheck
  <2>1. pc = "health_check" /\ UNCHANGED <<svc, checksum, bin, unit, loaded, up>>
    BY <1>19 DEF HealthCheck, Stop, Proceed, Complete, identity, installed, running
  <2>2. (pc' = "live_logs" /\ svc \in up) \/ pc' \in {"health_diag", "idle"}
    BY <1>19 DEF HealthCheck, Stop, Return, Proceed, Complete
  <2> QED
    BY <2>1, <2>2 DEF SuccessInv, UnitWritten, UnitLoaded
<1>20. ASSUME NEW s \in Services, RestartAfterKill(s) PROVE SuccessInv'
  BY <1>20, <1>b DEF RestartAfterKill, pipeline, identity, installed, running
<1>21. CASE RKRestart
  <2>1. UNCHANGED <<pc, svc, checksum, bin, unit, loaded>>
    BY <1>21 DEF RKRestart, pipeline, identity, installed
  <2>2. svc \in up' => svc \in up \/ bin[svc] = loaded[svc]
    BY <1>21 DEF RKRestart, Restarted, CanRun
  <2> QED
    BY <2>1, <2>2 DEF SuccessInv
<1>22. CASE RKHealth \/ RKDiag \/ RKDone \/ KillDone \/ ManualDownload \/ Midnight
  BY <1>22, <1>b DEF RKHealth, RKDiag, RKDone, KillDone, ManualDownload, Midnight, pipeline,
                     identity, installed, running
<1>28. ASSUME NEW s \in Services, Kill(s) PROVE SuccessInv'
  BY <1>28, <1>b DEF Kill, pipeline, identity, installed
<1>29. CASE Crash
  BY <1>29, <1>a DEF Crash, Return, UnitWritten, UnitLoaded
<1>30. CASE UNCHANGED vars
  BY <1>30, <1>b DEF vars
<1> QED
  BY <1>1, <1>13,
     <1>15, <1>16, <1>17, <1>18, <1>19, <1>20, <1>21, <1>22, <1>28, <1>29, <1>30 DEF Next, Pipeline, FollowUp

(* Only LiveLogs writes a record of success. *)
LEMMA RecordStep ==
  ASSUME TypeInv, [Next]_vars, record' # record, record'.status = "success"
  PROVE  LiveLogs /\ UNCHANGED <<svc, checksum, bin, unit, loaded>>
<1>1. \A at : ~Fail(at)
  BY DEF Fail
<1>2. ~Stop /\ ~StopHere
  BY <1>1 DEF Stop, StopHere
<1>3. \A next : ~Proceed(next) /\ ~Complete(next)
  BY DEF Proceed, Complete, progress
<1>4. ~StartDeploy /\ (Pipeline => LiveLogs)
  BY <1>1, <1>2, <1>3
  DEF StartDeploy, Pipeline, Begin, Download, Connect, Upload, BackupDir, BackupJar, BackupUnit,
      UpdateRead, UpdateWrite, UpdateVerify, DaemonReload, Copy, CopyStat, Restart, RestartDiag,
      HealthCheck, HealthDiag, progress
<1>22. ~FollowUp /\ ~KillDone /\ ~ManualDownload /\ ~Crash /\ ~Midnight
  BY <1>1 DEF FollowUp, RKRestart, RKHealth, RKDiag, RKDone, KillDone, ManualDownload, Crash,
              Midnight, SetStages, progress
<1>30. \A s \in Services : ~RestartAfterKill(s) /\ ~Kill(s)
  BY DEF RestartAfterKill, Kill, SetStages, progress
<1>31. ~UNCHANGED vars
  BY DEF vars
<1>32. LiveLogs
  BY <1>4, <1>22, <1>30, <1>31 DEF Next, Pipeline, FollowUp
<1> QED
  BY <1>32, <1>2 DEF LiveLogs, identity, installed

(* A success is recorded only when the JAR, the unit file and the unit that  *)
(* systemd has loaded all are the build the user asked for, whatever was     *)
(* downloaded, staged, restarted or killed beside the deployment.            *)
THEOREM SuccessCorrect == Spec => RecordedSuccessIsInstalled
<1>1. Spec => []TypeInv
  BY TypeInit, TypeStep, PTL DEF Spec
<1>2. Spec => []SuccessInv
  BY <1>1, SuccessInit, SuccessStep, PTL DEF Spec
<1>3. TypeInv /\ SuccessInv /\ [Next]_vars
        => [record' # record /\ record'.status = "success"
              => {bin[svc], unit[svc], loaded[svc]} = {checksum}]_vars
  <2> SUFFICES ASSUME TypeInv, SuccessInv, [Next]_vars, record' # record,
                      record'.status = "success"
               PROVE  {bin[svc], unit[svc], loaded[svc]} = {checksum}
    OBVIOUS
  <2>1. LiveLogs
    BY RecordStep
  <2> QED
    BY <2>1 DEF LiveLogs, SuccessInv, UnitWritten, UnitLoaded
<1> QED
  BY <1>1, <1>2, <1>3, PTL DEF Spec, RecordedSuccessIsInstalled

-----------------------------------------------------------------------------
(* The outcome and its record, when no restart_after_kill comes between.     *)

(* The stage table while the pipeline waits in a stage. *)
StageTable ==
  [s \in STAGES |-> IF Order[s] < Order[StageOf[pc]] THEN "completed"
                    ELSE IF s = StageOf[pc] THEN "running" ELSE "waiting"]

(* While the pipeline waits, the table and current_stage say where it is;    *)
(* when it has ended, they and the record say how.                           *)
TableInv ==
  /\ restarts = 0 /\ rpc = "idle"
  /\ pc \in Awaits => status = "running" /\ currentStage = StageOf[pc] /\ stages = StageTable
  /\ StageTableSettled
  /\ RecordMatchesState

(* Every stage has a place of its own. *)
LEMMA OrderFacts ==
  /\ Order \in [STAGES -> Nat]
  /\ \A s, t \in STAGES : Order[s] = Order[t] => s = t
<1>1. /\ Order["validate"] = 1 /\ Order["download"] = 2 /\ Order["connect"] = 3
      /\ Order["upload_to_copydata"] = 4 /\ Order["backup"] = 5
      /\ Order["update_checksum"] = 6 /\ Order["daemon_reload"] = 7
      /\ Order["copy_to_binaries"] = 8 /\ Order["restart"] = 9
      /\ Order["health_check"] = 10 /\ Order["live_logs"] = 11
  BY DEF Order
<1>2. Order \in [STAGES -> Nat]
  BY DEF Order, STAGES
<1> QED
  BY <1>1, <1>2, StageNames

(* The awaits of the pipeline follow the order of the stages. *)
LEMMA AwaitOrder ==
  /\ Order[StageOf["download"]] = 2 /\ Order[StageOf["connect"]] = 3
  /\ Order[StageOf["upload"]] = 4
  /\ Order[StageOf["backup_dir"]] = 5 /\ Order[StageOf["backup_jar"]] = 5
  /\ Order[StageOf["backup_unit"]] = 5
  /\ Order[StageOf["update_read"]] = 6 /\ Order[StageOf["update_write"]] = 6
  /\ Order[StageOf["update_verify"]] = 6
  /\ Order[StageOf["daemon_reload"]] = 7
  /\ Order[StageOf["copy"]] = 8 /\ Order[StageOf["copy_stat"]] = 8
  /\ Order[StageOf["restart"]] = 9 /\ Order[StageOf["restart_diag"]] = 9
  /\ Order[StageOf["health_check"]] = 10 /\ Order[StageOf["health_diag"]] = 10
  /\ Order[StageOf["live_logs"]] = 11
  BY DEF StageOf, Order

(* A pipeline that fails where current_stage says it is leaves a settled     *)
(* table and a record of it.                                                 *)
LEMMA StopSettles ==
  ASSUME TypeInv, TableInv, pc \in Awaits, Stop \/ StopHere, UNCHANGED <<restarts, rpc>>
  PROVE  TableInv'
<1>1. Fail(StageOf[pc]) /\ pc' = "idle" /\ UNCHANGED depId
  BY DEF Stop, StopHere, Return, TableInv, identity
<1>2. StageOf[pc] \in STAGES
  BY StageOfType
<1>3. StageTableSettled'
  BY <1>1, <1>2, OrderFacts DEF Fail, TableInv, StageTable, StageTableSettled
<1>4. RecordMatchesState'
  BY <1>1 DEF Fail, RecordMatchesState
<1> QED
  BY <1>1, <1>3, <1>4, StageNames DEF TableInv

(* ... one that goes on to the next stage keeps the table true. *)
LEMMA CompleteAdvances ==
  ASSUME TypeInv, TableInv, pc \in Awaits, NEW next \in Awaits, Complete(next),
         Order[StageOf[next]] = Order[StageOf[pc]] + 1, UNCHANGED <<restarts, rpc>>
  PROVE  TableInv'
<1>1. StageOf[pc] \in STAGES /\ StageOf[next] \in STAGES
  BY StageOfType
<1>2. /\ pc' = next /\ status' = "running" /\ currentStage' = StageOf[next]
      /\ stages' = [stages EXCEPT ![StageOf[pc]] = "completed", ![StageOf[next]] = "running"]
  BY DEF Complete, TableInv
<1>3. stages' = StageTable'
  <2>1. StageTable' = [s \in STAGES |-> IF Order[s] < Order[StageOf[next]] THEN "completed"
                                        ELSE IF s = StageOf[next] THEN "running" ELSE "waiting"]
    BY <1>2 DEF StageTable
  <2>2. stages = StageTable /\ stages' = [s \in STAGES |-> stages'[s]]
    BY <1>2 DEF TableInv, StageTable
  <2>3. ASSUME NEW s \in STAGES PROVE stages'[s] = StageTable'[s]
    <3>1. /\ Order[s] \in Nat /\ Order[StageOf[pc]] \in Nat
          /\ Order[s] = Order[StageOf[pc]] => s = StageOf[pc]
          /\ Order[s] = Order[StageOf[next]] => s = StageOf[next]
          /\ StageOf[next] # StageOf[pc]
      BY <1>1, OrderFacts
    <3> QED
      BY <1>1, <1>2, <2>1, <2>2, <3>1 DEF StageTable
  <2> QED
    BY <2>1, <2>2, <2>3
<1> QED
  BY <1>2, <1>3 DEF TableInv, StageTableSettled, RecordMatchesState

(* ... and one that stays in its stage changes nothing of it. *)
LEMMA ProceedStays ==
  ASSUME TableInv, pc \in Awaits, NEW next, Proceed(next), StageOf[next] = StageOf[pc],
         UNCHANGED <<restarts, rpc>>
  PROVE  TableInv'
  BY DEF Proceed, progress, identity, TableInv, StageTable, StageTableSettled,
         RecordMatchesState

(* What TableInv reads. *)
tableVars == <<depId, status, stages, currentStage, errorStage, record, pc, rpc, restarts>>

LEMMA TableKept == ASSUME TableInv, UNCHANGED tableVars PROVE TableInv'
  BY DEF tableVars, TableInv, StageTable, StageTableSettled, RecordMatchesState

(* Nothing has been deployed at first. *)
LEMMA TableInit == Init => TableInv
<1> SUFFICES ASSUME Init PROVE TableInv
  OBVIOUS
<1>1. pc = "idle" /\ rpc = "idle" /\ restarts = 0 /\ status = "idle"
  BY DEF Init
<1> QED
  BY <1>1, StageNames DEF TableInv, StageTableSettled, RecordMatchesState

(* Every step keeps TableInv. *)
LEMMA TableStep ==
  ASSUME MaxRestarts = 0, TypeInv, TableInv, [Next]_vars
  PROVE  TableInv'
<1>a. ASSUME pc \in Awaits, Stop \/ StopHere, UNCHANGED others PROVE TableInv'
  BY <1>a, StopSettles DEF others, counts
<1>b. ASSUME pc \in Awaits, NEW next \in Awaits, Complete(next), UNCHANGED others,
             Order[StageOf[next]] = Order[StageOf[pc]] + 1
      PROVE  TableInv'
  BY <1>b, CompleteAdvances DEF others, counts
<1>c. ASSUME pc \in Awaits, NEW next \in Awaits, Proceed(next), UNCHANGED others,
             Order[StageOf[next]] = Order[StageOf[pc]]
      PROVE  TableInv'
  <2>1. StageOf[next] = StageOf[pc]
    BY <1>c, StageOfType, OrderFacts
  <2> QED
    BY <1>c, <2>1, ProceedStays DEF others, counts
<1> USE StageNames, AwaitOrder
<1>1. CASE StartDeploy
  <2>1. pc' = "stop_streams"
    BY <1>1 DEF StartDeploy
  <2>2. UNCHANGED <<depId, status, stages, currentStage, errorStage, record, rpc, restarts>>
    BY <1>1 DEF StartDeploy, identity, progress, others, counts
  <2> QED
    BY <2>1, <2>2 DEF TableInv, StageTableSettled, RecordMatchesState
<1>2. CASE Begin
  <2>1. pc' = "download" /\ status' = "running" /\ currentStage' = "download"
        /\ stages' = [Waiting EXCEPT !["validate"] = "completed", !["download"] = "running"]
        /\ UNCHANGED <<rpc, restarts>>
    BY <1>2 DEF Begin, others, counts
  <2>2. StageOf["download"] = "download" /\ Order["validate"] = 1
    BY DEF StageOf, Order
  <2>3. stages' = StageTable'
    <3>1. StageTable' = [s \in STAGES |-> IF Order[s] < 2 THEN "completed"
                                          ELSE IF s = "download" THEN "running" ELSE "waiting"]
      BY <2>1, <2>2 DEF StageTable
    <3>2. ASSUME NEW s \in STAGES PROVE Order[s] \in Nat /\ (Order[s] < 2 => s = "validate")
      BY DEF Order
    <3>3. stages' = [s \in STAGES |-> stages'[s]]
      BY <2>1 DEF Waiting
    <3>4. ASSUME NEW s \in STAGES PROVE stages'[s] = StageTable'[s]
      <4>1. s # "download" => ~(s = "validate") \/ Order[s] < 2
        BY <2>2
      <4> QED
        BY <2>1, <2>2, <3>1, <3>2, <4>1 DEF Waiting
    <3> QED
      BY <3>1, <3>3, <3>4
  <2> QED
    BY <2>1, <2>2, <2>3 DEF TableInv, StageTableSettled, RecordMatchesState
<1>3. CASE Download
  BY <1>3, <1>a, <1>b DEF Download
<1>4. CASE Connect
  BY <1>4, <1>a, <1>b DEF Connect
<1>5. CASE Upload
  BY <1>5, <1>a, <1>b DEF Upload
<1>6. CASE BackupDir
  BY <1>6, <1>a, <1>c DEF BackupDir
<1>7. CASE BackupJar
  BY <1>7, <1>a, <1>c DEF BackupJar
<1>8. CASE BackupUnit
  BY <1>8, <1>a, <1>b DEF BackupUnit
<1>9. CASE UpdateRead
  BY <1>9, <1>a, <1>b, <1>c DEF UpdateRead
<1>10. CASE UpdateWrite
  BY <1>10, <1>a, <1>c DEF UpdateWrite
<1>11. CASE UpdateVerify
  BY <1>11, <1>a, <1>b DEF UpdateVerify
<1>12. CASE DaemonReload
  BY <1>12, <1>a, <1>b DEF DaemonReload
<1>13. CASE Copy
  BY <1>13, <1>a, <1>c DEF Copy
<1>14. CASE CopyStat
  BY <1>14, <1>a, <1>b DEF CopyStat
<1>15. CASE Restart
  <2>1. Complete("health_check") \/ Proceed("restart_diag")
    BY <1>15 DEF Restart
  <2>2. pc = "restart" /\ UNCHANGED others
    BY <1>15 DEF Restart
  <2> QED
    BY <2>1, <2>2, <1>b, <1>c
<1>16. CASE RestartDiag
  BY <1>16, <1>a DEF RestartDiag
<1>17. CASE HealthCheck
  BY <1>17, <1>a, <1>b, <1>c DEF HealthCheck
<1>18. CASE HealthDiag
  BY <1>18, <1>a DEF HealthDiag
<1>19. CASE LiveLogs
  <2>1. CASE Stop
    BY <1>19, <1>a, <2>1 DEF LiveLogs
  <2>2. CASE ~Stop
    <3>1. /\ pc' = "idle" /\ status' = "success"
          /\ record' = [id |-> depId, status |-> "success", stage |-> errorStage]
          /\ UNCHANGED <<depId, errorStage, rpc, restarts>>
      BY <1>19, <2>2 DEF LiveLogs, Return, identity, others, counts
    <3> QED
      BY <3>1 DEF TableInv, StageTableSettled, RecordMatchesState
  <2> QED
    BY <2>1, <2>2
<1>20. ASSUME NEW s \in Services PROVE ~RestartAfterKill(s)
  BY DEF RestartAfterKill, TypeInv, TypeOK, HandlerType
<1>21. ~FollowUp
  BY DEF FollowUp, RKRestart, RKHealth, RKDiag, RKDone, TableInv
<1>22. ASSUME NEW s \in Services, Kill(s) PROVE TableInv'
  BY <1>22, TableKept DEF Kill, pipeline, identity, progress, tableVars
<1>23. CASE KillDone
  <2>1. UNCHANGED status
    BY <1>23 DEF KillDone, TypeInv, TypeOK, ProgressType
  <2> QED
    BY <1>23, <2>1, TableKept DEF KillDone, pipeline, identity, counts, tableVars
<1>24. CASE ManualDownload
  BY <1>24, TableKept DEF ManualDownload, identity, progress, tableVars
<1>25. CASE Crash
  <2>1. pc' = "idle" /\ rpc' = "idle" /\ status' = "idle" /\ UNCHANGED restarts
    BY <1>25 DEF Crash, Return, RKReturn
  <2> QED
    BY <2>1 DEF TableInv, StageTableSettled, RecordMatchesState
<1>26. CASE Midnight
  BY <1>26, TableKept DEF Midnight, pipeline, identity, progress, counts, tableVars
<1>27. CASE UNCHANGED vars
  BY <1>27, TableKept DEF vars, tableVars
<1> QED
  BY <1>1, <1>2, <1>3, <1>4, <1>5, <1>6, <1>7, <1>8, <1>9, <1>10, <1>11, <1>12, <1>13,
     <1>14, <1>15, <1>16, <1>17, <1>18, <1>19, <1>20, <1>21, <1>22, <1>23, <1>24, <1>25,
     <1>26, <1>27 DEF Next, Pipeline

(* As long as nobody restarts by hand, a deployment that failed shows every  *)
(* stage before the failed one as completed and every later one as skipped,  *)
(* wherever it failed and whatever exception ended it.                       *)
THEOREM StageTableCorrect ==
  ASSUME MaxRestarts = 0
  PROVE  Spec => []StageTableSettled
<1>1. Spec => []TypeInv
  BY TypeInit, TypeStep, PTL DEF Spec
<1>2. TypeInv /\ TableInv /\ [Next]_vars => TableInv'
  BY TableStep
<1>3. TableInv => StageTableSettled
  BY DEF TableInv
<1> QED
  BY <1>1, <1>2, <1>3, TableInit, PTL DEF Spec

(* ... and the record on disk is the outcome that the page shows. *)
THEOREM RecordCorrect ==
  ASSUME MaxRestarts = 0
  PROVE  Spec => []RecordMatchesState
<1>1. Spec => []TypeInv
  BY TypeInit, TypeStep, PTL DEF Spec
<1>2. TypeInv /\ TableInv /\ [Next]_vars => TableInv'
  BY TableStep
<1>3. TableInv => RecordMatchesState
  BY DEF TableInv
<1> QED
  BY <1>1, <1>2, <1>3, TableInit, PTL DEF Spec

-----------------------------------------------------------------------------
(* The last good build, when no backup is ever overwritten.                  *)

(* The awaits that have the unit file, and the JAR, still as it was. *)
UnitAsBefore == {"update_read", "update_write"}
JarAsBefore == UnitAsBefore \cup {"update_verify", "daemon_reload", "copy"}

JarKept(s, b)  == bin[s] = b \/ \E d \in Days : bakJar[<<d, s>>] = b
UnitKept(s, b) == unit[s] = b \/ \E d \in Days : bakUnit[<<d, s>>] = b

(* A service may be restarted at any time with the unit that systemd has     *)
(* loaded, so the file of that unit must be on the server as well.           *)
RecoverInv ==
  /\ ~req.overwrite
  /\ pc \in UnitAsBefore => unit[svc] = before.unit
  /\ pc \in JarAsBefore => bin[svc] = before.jar
  /\ \A s \in Services : loaded[s] \in Builds => UnitKept(s, loaded[s])
  /\ \A s \in Services : good[s] \in Builds => JarKept(s, good[s]) /\ UnitKept(s, good[s])

(* The invariant is what LastGoodRecoverable asks for. *)
LEMMA RecoverEnough == TypeInv /\ RecoverInv => LastGoodRecoverable
  BY DEF TypeInv, TypeOK, ServerType, RecoverInv, JarKept, UnitKept, LastGoodRecoverable

(* No service has run but with the unit it has. *)
LEMMA RecoverInit == Init => RecoverInv
<1> SUFFICES ASSUME Init PROVE RecoverInv
  OBVIOUS
<1>1. pc = "idle" /\ ~req.overwrite /\ loaded = unit
  BY DEF Init, NoRequest
<1>2. ASSUME NEW s \in Services, good[s] \in Builds PROVE bin[s] = good[s] /\ unit[s] = good[s]
  BY <1>2, ConstantsOK DEF Init
<1> QED
  BY <1>1, <1>2 DEF RecoverInv, JarKept, UnitKept, UnitAsBefore, JarAsBefore

(* A backup that is there is never written to. *)
BackupsStay ==
  /\ \A k \in Days \X Services : bakJar[k] # None => bakJar'[k] = bakJar[k]
  /\ \A k \in Days \X Services : bakUnit[k] # None => bakUnit'[k] = bakUnit[k]

LEMMA BackupsOnlyAdded ==
  ASSUME TypeInv, RecoverInv, [Next]_vars
  PROVE  BackupsStay
<1>1. CASE BackupJar
  <2>1. UNCHANGED bakUnit
    BY <1>1 DEF BackupJar
  <2>2. \/ UNCHANGED bakJar
        \/ MayBackupJar /\ \E f : bakJar' = [bakJar EXCEPT ![<<pday, svc>>] = f]
    BY <1>1 DEF BackupJar, CutBackupJar
  <2> QED
    BY <2>1, <2>2 DEF BackupsStay, MayBackupJar, MayWrite, RecoverInv, TypeInv, TypeOK,
       ServerType
<1>2. CASE BackupUnit
  <2>1. UNCHANGED bakJar
    BY <1>2 DEF BackupUnit
  <2>2. \/ UNCHANGED bakUnit
        \/ MayBackupUnit /\ \E f : bakUnit' = [bakUnit EXCEPT ![<<pday, svc>>] = f]
    BY <1>2 DEF BackupUnit, CutBackupUnit
  <2> QED
    BY <2>1, <2>2 DEF BackupsStay, MayBackupUnit, MayWrite, RecoverInv, TypeInv, TypeOK,
       ServerType
<1>3. CASE Crash
  <2>1. \/ UNCHANGED bakJar
        \/ MayBackupJar /\ \E f : bakJar' = [bakJar EXCEPT ![<<pday, svc>>] = f]
    BY <1>3 DEF Crash, CutBackupJar
  <2>2. \/ UNCHANGED bakUnit
        \/ MayBackupUnit /\ \E f : bakUnit' = [bakUnit EXCEPT ![<<pday, svc>>] = f]
    BY <1>3 DEF Crash, CutBackupUnit
  <2> QED
    BY <2>1, <2>2 DEF BackupsStay, MayBackupJar, MayBackupUnit, MayWrite, RecoverInv,
       TypeInv, TypeOK, ServerType
<1>4. CASE ~BackupJar /\ ~BackupUnit /\ ~Crash
  <2>1. UNCHANGED <<bakJar, bakUnit>>
    <3>1. CASE StartDeploy \/ KillDone \/ ManualDownload \/ Midnight \/ UNCHANGED vars
      BY <3>1 DEF StartDeploy, KillDone, ManualDownload, Midnight, vars, backups
    <3>2. CASE FollowUp
      BY <3>2 DEF FollowUp, RKRestart, RKHealth, RKDiag, RKDone, backups
    <3>3. ASSUME NEW s \in Services, RestartAfterKill(s) \/ Kill(s)
          PROVE  UNCHANGED <<bakJar, bakUnit>>
      BY <3>3 DEF RestartAfterKill, Kill, backups
    <3>4. CASE Pipeline
      BY <1>4, <3>4 DEF Pipeline, Begin, Download, Connect, Upload, BackupDir, UpdateRead,
         UpdateWrite, UpdateVerify, DaemonReload, Copy, CopyStat, Restart, RestartDiag,
         HealthCheck, HealthDiag, LiveLogs, backups
    <3> QED
      BY <1>4, <3>1, <3>2, <3>3, <3>4 DEF Next
  <2> QED
    BY <2>1 DEF BackupsStay
<1> QED
  BY <1>1, <1>2, <1>3, <1>4

(* What is on the server stays there when its file does not change, or was   *)
(* already backed up.                                                        *)
LEMMA JarStays ==
  ASSUME BackupsStay, NEW s \in Services, NEW b \in Builds, JarKept(s, b),
         bin'[s] = bin[s] \/ \E d \in Days : bakJar[<<d, s>>] = b
  PROVE  bin'[s] = b \/ \E d \in Days : bakJar'[<<d, s>>] = b
  BY ConstantsOK DEF BackupsStay, JarKept

LEMMA UnitStays ==
  ASSUME BackupsStay, NEW s \in Services, NEW b \in Builds, UnitKept(s, b),
         unit'[s] = unit[s] \/ \E d \in Days : bakUnit[<<d, s>>] = b
  PROVE  unit'[s] = b \/ \E d \in Days : bakUnit'[<<d, s>>] = b
  BY ConstantsOK DEF BackupsStay, UnitKept

(* The JAR is replaced, and the unit file rewritten, only with a copy of     *)
(* what was there in a backup folder.                                        *)
LEMMA ReplacedIsBackedUp ==
  ASSUME TypeInv, RollbackInv, RecoverInv, [Next]_vars, NEW s \in Services
  PROVE  /\ bin[s] \in Builds =>
              bin'[s] = bin[s] \/ \E d \in Days : bakJar[<<d, s>>] = bin[s]
         /\ unit[s] \in Builds =>
              unit'[s] = unit[s] \/ \E d \in Days : bakUnit[<<d, s>>] = unit[s]
<1> USE StageNames
<1>1. CASE bin' = bin /\ unit' = unit
  BY <1>1
<1>2. CASE pc = "copy" /\ UNCHANGED unit /\ \E f : bin' = [bin EXCEPT ![svc] = f]
  <2>1. bin[svc] = before.jar /\ BackedUp /\ before.svc = svc
    BY <1>2 DEF RecoverInv, JarAsBefore, RollbackInv, LateAwaits, EarlyAwaits, TypeInv, InFlight
  <2>2. CASE s = svc
    BY <1>2, <2>1, <2>2, ConstantsOK DEF BackedUp
  <2>3. CASE s # svc
    BY <1>2, <2>3 DEF TypeInv, TypeOK, ServerType
  <2> QED
    BY <1>2, <2>2, <2>3
<1>3. CASE pc = "update_write" /\ UNCHANGED bin /\ \E u : unit' = [unit EXCEPT ![svc] = u]
  <2>1. unit[svc] = before.unit /\ BackedUp /\ before.svc = svc
    BY <1>3 DEF RecoverInv, UnitAsBefore, RollbackInv, LateAwaits, EarlyAwaits, TypeInv, InFlight
  <2> QED
    BY <1>3, <2>1 DEF BackedUp, TypeInv, TypeOK, ServerType
<1>4. CASE Copy
  BY <1>1, <1>2, <1>4 DEF Copy, CutCopy
<1>5. CASE UpdateWrite
  BY <1>1, <1>3, <1>5 DEF UpdateWrite, CutWrite
<1>6. CASE Crash
  BY <1>1, <1>2, <1>3, <1>6 DEF Crash, CutCopy, CutWrite
<1>7. CASE ~Copy /\ ~UpdateWrite /\ ~Crash
  <2>1. CASE StartDeploy \/ KillDone \/ ManualDownload \/ Midnight \/ UNCHANGED vars
    BY <2>1, <1>1 DEF StartDeploy, KillDone, ManualDownload, Midnight, vars, installed
  <2>2. CASE FollowUp
    BY <2>2, <1>1 DEF FollowUp, RKRestart, RKHealth, RKDiag, RKDone, installed
  <2>3. ASSUME NEW t \in Services, RestartAfterKill(t) \/ Kill(t) PROVE bin' = bin /\ unit' = unit
    BY <2>3 DEF RestartAfterKill, Kill, installed
  <2>4. CASE Pipeline
    BY <1>7, <1>1, <2>4 DEF Pipeline, Begin, Download, Connect, Upload, BackupDir, BackupJar,
       BackupUnit, UpdateRead, UpdateVerify, DaemonReload, CopyStat, Restart, RestartDiag,
       HealthCheck, HealthDiag, LiveLogs, installed
  <2> QED
    BY <1>7, <1>1, <2>1, <2>2, <2>3, <2>4 DEF Next
<1> QED
  BY <1>4, <1>5, <1>6, <1>7

(* A unit comes to be loaded only from its file, and a build to be good only *)
(* by running as the unit that is loaded.                                    *)
LEMMA LoadedAndGood ==
  ASSUME TypeInv, [Next]_vars, NEW s \in Services
  PROVE  /\ loaded'[s] = loaded[s] \/ loaded'[s] = unit[s]
         /\ good'[s] = good[s] \/ (good'[s] = bin[s] /\ bin[s] = loaded[s] /\ bin[s] \in Builds)
<1>1. ASSUME NEW S, NEW issued, Restarted(S, issued)
      PROVE  good'[s] = good[s] \/ (good'[s] = bin[s] /\ bin[s] = loaded[s] /\ bin[s] \in Builds)
  BY <1>1 DEF Restarted, CanRun
<1>2. CASE StartDeploy \/ KillDone \/ ManualDownload \/ Midnight \/ UNCHANGED vars
  BY <1>2 DEF StartDeploy, KillDone, ManualDownload, Midnight, vars, installed, running
<1>3. CASE RKRestart
  <2>1. UNCHANGED loaded /\ \E issued : Restarted({rsvc}, issued)
    BY <1>3 DEF RKRestart, installed
  <2> QED
    BY <1>1, <2>1
<1>4. CASE RKHealth \/ RKDiag \/ RKDone
  BY <1>4 DEF RKHealth, RKDiag, RKDone, installed, running
<1>5. ASSUME NEW t \in Services, RestartAfterKill(t) \/ Kill(t)
      PROVE  UNCHANGED <<loaded, good>>
  BY <1>5 DEF RestartAfterKill, Kill, installed, running
<1>6. CASE Restart
  <2>1. UNCHANGED loaded /\ \E issued : Restarted({svc}, issued)
    BY <1>6 DEF Restart, installed
  <2> QED
    BY <1>1, <2>1
<1>7. CASE DaemonReload
  BY <1>7 DEF DaemonReload, CutReload, running
<1>8. CASE Crash
  <2>1. loaded' \in {loaded, unit} /\ \E S, issued : Restarted(S, issued)
    BY <1>8 DEF Crash, CutReload
  <2> QED
    BY <1>1, <2>1
<1>9. CASE Pipeline /\ ~Restart /\ ~DaemonReload
  BY <1>9 DEF Pipeline, Begin, Download, Connect, Upload, BackupDir, BackupJar,
     BackupUnit, UpdateRead, UpdateWrite, UpdateVerify, Copy, CopyStat, RestartDiag,
     HealthCheck, HealthDiag, LiveLogs, installed, running
<1> QED
  BY <1>2, <1>3, <1>4, <1>5, <1>6, <1>7, <1>8, <1>9 DEF Next, FollowUp

(* Until it is replaced, the file is the one the deployment found. *)
LEMMA AsBeforeStep ==
  ASSUME TypeInv, RollbackInv, RecoverInv, [Next]_vars
  PROVE  /\ pc' \in UnitAsBefore => unit'[svc'] = before'.unit
         /\ pc' \in JarAsBefore => bin'[svc'] = before'.jar
<1> DEFINE Goal == /\ pc' \in UnitAsBefore => unit'[svc'] = before'.unit
                   /\ pc' \in JarAsBefore => bin'[svc'] = before'.jar
<1> SUFFICES Goal
  OBVIOUS
<1>1. ASSUME pc' \notin JarAsBefore PROVE Goal
  BY <1>1 DEF JarAsBefore
<1>2. ASSUME UNCHANGED <<pc, svc, before, bin, unit>> PROVE Goal
  BY <1>2 DEF RecoverInv
<1> HIDE DEF Goal
<1>3. CASE StartDeploy \/ Crash
  BY <1>1, <1>3 DEF StartDeploy, Crash, Return, JarAsBefore, UnitAsBefore
<1>4. CASE \/ Begin \/ Download \/ Connect \/ Upload \/ BackupDir \/ BackupJar \/ Copy
           \/ CopyStat \/ Restart \/ RestartDiag \/ HealthCheck \/ HealthDiag \/ LiveLogs
  BY <1>1, <1>4
  DEF Begin, Download, Connect, Upload, BackupDir, BackupJar, Copy, CopyStat, Restart,
      RestartDiag, HealthCheck, HealthDiag, LiveLogs, Stop, StopHere, Return, Proceed, Complete,
      JarAsBefore, UnitAsBefore
<1>5. CASE BackupUnit
  <2>1. pc = "backup_unit" /\ UNCHANGED <<svc, before, bin, unit>>
    BY <1>5 DEF BackupUnit, Stop, Complete, identity, installed
  <2>2. Untouched /\ before.svc = svc
    BY <2>1, StageNames DEF RollbackInv, TypeInv, InFlight
  <2> QED
    BY <2>1, <2>2 DEF Goal, Untouched
<1>6. CASE UpdateRead \/ UpdateVerify
  <2>1. UNCHANGED <<svc, before, bin, unit>>
    BY <1>6 DEF UpdateRead, UpdateVerify, Stop, Proceed, Complete, identity, installed
  <2>2. pc \in JarAsBefore /\ (pc' \in UnitAsBefore => pc \in UnitAsBefore)
    BY <1>6 DEF UpdateRead, UpdateVerify, Stop, Return, Proceed, Complete, JarAsBefore, UnitAsBefore
  <2> QED
    BY <2>1, <2>2 DEF Goal, RecoverInv
<1>7. CASE UpdateWrite
  <2>1. UNCHANGED <<svc, before, bin>> /\ pc \in JarAsBefore /\ pc' \notin UnitAsBefore
    BY <1>7 DEF UpdateWrite, Stop, Return, Proceed, identity, JarAsBefore, UnitAsBefore
  <2> QED
    BY <2>1 DEF Goal, RecoverInv
<1>8. CASE DaemonReload
  <2>1. UNCHANGED <<svc, before, bin>> /\ pc \in JarAsBefore /\ pc' \notin UnitAsBefore
    BY <1>8 DEF DaemonReload, StopHere, Return, Complete, identity, JarAsBefore, UnitAsBefore
  <2> QED
    BY <2>1 DEF Goal, RecoverInv
<1>9. CASE FollowUp \/ KillDone \/ ManualDownload \/ Midnight
  BY <1>2, <1>9 DEF FollowUp, RKRestart, RKHealth, RKDiag, RKDone, KillDone, ManualDownload,
                    Midnight, pipeline, identity, installed
<1>10. ASSUME NEW s \in Services, RestartAfterKill(s) \/ Kill(s) PROVE Goal
  BY <1>2, <1>10 DEF RestartAfterKill, Kill, pipeline, identity, installed
<1>11. CASE UNCHANGED vars
  BY <1>2, <1>11 DEF vars
<1> QED
  BY <1>3, <1>4, <1>5, <1>6, <1>7, <1>8, <1>9, <1>10, <1>11 DEF Next, Pipeline

(* No request overwrites a backup. *)
LEMMA NoOverwrite ==
  ASSUME Overwrites \subseteq {FALSE}, ~req.overwrite, [Next]_vars
  PROVE  ~req'.overwrite
<1>1. CASE StartDeploy
  <2>1. PICK s \in Services, b \in Builds, o \in Overwrites :
          req' = [svc |-> s, checksum |-> b, overwrite |-> o]
    BY <1>1 DEF StartDeploy
  <2>2. req'.overwrite = FALSE
    BY <2>1
  <2> QED
    BY <2>2
<1>2. CASE UNCHANGED req \/ Return
  BY <1>2 DEF Return, NoRequest
<1>3. CASE Pipeline
  BY <1>2, <1>3
  DEF Pipeline, Begin, Download, Connect, Upload, BackupDir, BackupJar, BackupUnit, UpdateRead,
      UpdateWrite, UpdateVerify, DaemonReload, Copy, CopyStat, Restart, RestartDiag, HealthCheck,
      HealthDiag, LiveLogs, Stop, StopHere, Proceed, Complete
<1>4. CASE FollowUp \/ KillDone \/ ManualDownload \/ Midnight \/ Crash \/ UNCHANGED vars
  BY <1>2, <1>4 DEF FollowUp, RKRestart, RKHealth, RKDiag, RKDone, KillDone, ManualDownload,
                    Midnight, Crash, vars, pipeline
<1>5. ASSUME NEW s \in Services, RestartAfterKill(s) \/ Kill(s) PROVE ~req'.overwrite
  BY <1>2, <1>5 DEF RestartAfterKill, Kill, pipeline
<1> QED
  BY <1>1, <1>3, <1>4, <1>5 DEF Next

(* Every step keeps RecoverInv. *)
LEMMA RecoverStep ==
  ASSUME Overwrites \subseteq {FALSE}, TypeInv, RollbackInv, RecoverInv, [Next]_vars
  PROVE  RecoverInv'
<1>1. BackupsStay
  BY BackupsOnlyAdded
<1>2. ASSUME NEW s \in Services, loaded'[s] \in Builds PROVE UnitKept(s, loaded[s])'
  <2>1. CASE loaded'[s] = loaded[s]
    <3>1. UnitKept(s, loaded[s]) /\ loaded[s] \in Builds
      BY <1>2, <2>1 DEF RecoverInv
    <3>2. unit'[s] = unit[s] \/ \E d \in Days : bakUnit[<<d, s>>] = loaded[s]
      BY <3>1, ReplacedIsBackedUp DEF UnitKept
    <3> QED
      BY <1>1, <2>1, <3>1, <3>2, UnitStays DEF UnitKept
  <2>2. CASE loaded'[s] = unit[s]
    <3>1. unit'[s] = unit[s] \/ \E d \in Days : bakUnit[<<d, s>>] = unit[s]
      BY <1>2, <2>2, ReplacedIsBackedUp
    <3>2. UnitKept(s, unit[s])
      BY DEF UnitKept
    <3> QED
      BY <1>1, <1>2, <2>2, <3>1, <3>2, UnitStays DEF UnitKept
  <2> QED
    BY <2>1, <2>2, LoadedAndGood
<1>3. ASSUME NEW s \in Services, good'[s] \in Builds
      PROVE  JarKept(s, good[s])' /\ UnitKept(s, good[s])'
  <2>1. good'[s] \in Builds /\ JarKept(s, good'[s]) /\ UnitKept(s, good'[s])
    BY <1>3, LoadedAndGood DEF RecoverInv, JarKept
  <2>2. bin'[s] = bin[s] \/ \E d \in Days : bakJar[<<d, s>>] = good'[s]
    BY <2>1, ReplacedIsBackedUp DEF JarKept
  <2>3. unit'[s] = unit[s] \/ \E d \in Days : bakUnit[<<d, s>>] = good'[s]
    BY <2>1, ReplacedIsBackedUp DEF UnitKept
  <2> QED
    BY <1>1, <2>1, <2>2, <2>3, JarStays, UnitStays DEF JarKept, UnitKept
<1>4. ~req'.overwrite
  BY NoOverwrite DEF RecoverInv
<1> QED
  BY <1>2, <1>3, <1>4, AsBeforeStep DEF RecoverInv

(* As long as no request overwrites a backup, the JAR and the unit file of   *)
(* the last build of a service that was seen to run are on the server,       *)
(* installed or backed up, through any number of failed deployments,         *)
(* restarts by hand, crashes and midnights.                                  *)
THEOREM LastGoodCorrect ==
  ASSUME Overwrites \subseteq {FALSE}
  PROVE  Spec => []LastGoodRecoverable
<1>1. Spec => []TypeInv
  BY TypeInit, TypeStep, PTL DEF Spec
<1>2. TypeInv /\ RollbackInv /\ RecoverInv /\ [Next]_vars => RecoverInv'
  BY RecoverStep
<1>3. Spec => []RecoverInv
  BY <1>1, <1>2, RollbackInvariant, RecoverInit, PTL DEF Spec
<1> QED
  BY <1>1, <1>3, RecoverEnough, PTL
-----------------------------------------------------------------------------
(* deploy() is a Rollout.  The record is of an earlier deployment until the  *)
(* one under way is over, unless a restart_after_kill has failed beside it.  *)
TurnInv ==
  /\ depId <= started /\ record.id <= started
  /\ pc = "stop_streams" => depId < started /\ record.id < started
  /\ pc \in Awaits => depId = started
  /\ pc \in Awaits /\ record.id = depId => Outcome.is = "failed"

LEMMA TurnInit == Init => TurnInv
<1> SUFFICES ASSUME Init PROVE TurnInv
  OBVIOUS
<1>1. pc = "idle" /\ depId = 0 /\ started = 0 /\ record.id = 0
  BY DEF Init, NoRecord
<1> QED
  BY <1>1, StageNames DEF TurnInv

(* A failure charged to a late stage. *)
LEMMA LateFailure ==
  ASSUME NEW at \in STAGES \ EarlyStages, Fail(at)
  PROVE  record'.id = depId /\ Outcome' = [of |-> depId, is |-> "failed"]
<1>1. record' = [id |-> depId, status |-> "failed", stage |-> at]
  BY DEF Fail
<1> QED
  BY <1>1 DEF Outcome

(* Every step keeps TurnInv. *)
LEMMA TurnStep == TypeInv /\ TypeInv' /\ TurnInv /\ [Next]_vars => TurnInv'
<1> SUFFICES ASSUME TypeInv, TypeInv', TurnInv, [Next]_vars PROVE TurnInv'
  OBVIOUS
<1> USE StageNames
<1>0. depId \in Nat /\ started \in Nat /\ record.id \in Nat
  BY DEF TypeInv, TypeOK, ProgressType, StateType, HandlerType
<1>a. ASSUME UNCHANGED <<depId, started, record, pc>> PROVE TurnInv'
  BY <1>a DEF TurnInv, Outcome
<1>b. ASSUME pc \in Awaits, pc' = "idle", UNCHANGED <<depId, started>>,
             UNCHANGED record \/ record'.id = depId
      PROVE  TurnInv'
  BY <1>0, <1>b DEF TurnInv
<1>c. ASSUME pc \in Awaits, pc' \in Awaits, UNCHANGED <<depId, started, record>> PROVE TurnInv'
  BY <1>c DEF TurnInv, Outcome
<1>d. ASSUME pc \in Awaits, Move PROVE TurnInv'
  <2>1. CASE Stop \/ StopHere
    BY <1>b, <1>d, <2>1 DEF Stop, StopHere, Return, Fail, identity
  <2>2. CASE \E next \in Awaits : Proceed(next) \/ Complete(next)
    BY <1>c, <1>d, <2>2 DEF Proceed, Complete, identity, progress
  <2> QED
    BY <1>d, <2>1, <2>2 DEF Move
<1>1. CASE StartDeploy
  BY <1>0, <1>1 DEF StartDeploy, TurnInv, identity, progress
<1>2. CASE Begin
  <2>1. depId' = started /\ UNCHANGED <<record, started>> /\ pc = "stop_streams"
        /\ pc' = "download"
    BY <1>2 DEF Begin
  <2> QED
    BY <1>0, <2>1 DEF TurnInv
<1>3. CASE \/ Download \/ Connect \/ Upload \/ BackupDir \/ BackupJar \/ BackupUnit
           \/ UpdateRead \/ UpdateWrite \/ UpdateVerify \/ DaemonReload \/ Copy \/ CopyStat
           \/ Restart \/ RestartDiag \/ HealthCheck \/ HealthDiag
  <2>1. pc \in Awaits /\ Move
    BY <1>3 DEF Download, Connect, Upload, BackupDir, BackupJar, BackupUnit, UpdateRead,
       UpdateWrite, UpdateVerify, DaemonReload, Copy, CopyStat, Restart, RestartDiag,
       HealthCheck, HealthDiag, Move
  <2> QED
    BY <1>d, <2>1
<1>18. CASE LiveLogs
  <2>1. CASE Stop
    BY <1>18, <1>d, <2>1 DEF LiveLogs, Move
  <2>2. CASE ~Stop
    BY <1>18, <1>b, <2>2 DEF LiveLogs, Return, identity
  <2> QED
    BY <2>1, <2>2
<1>20. ASSUME NEW s \in Services, RestartAfterKill(s) PROVE TurnInv'
  BY <1>20, <1>a DEF RestartAfterKill, SetStages, pipeline, identity
<1>21. CASE FollowUp
  <2>1. UNCHANGED <<depId, started, pc>>
    BY <1>21 DEF FollowUp, RKRestart, RKHealth, RKDiag, RKDone, pipeline, identity
  <2>2. UNCHANGED record \/ (record'.id = depId /\ Outcome'.is = "failed")
    <3>1. ASSUME NEW at \in {"restart", "health_check"}, Fail(at)
          PROVE  record'.id = depId /\ Outcome'.is = "failed"
      BY <3>1, LateStages, LateFailure
    <3> QED
      BY <1>21, <3>1 DEF FollowUp, RKRestart, RKHealth, RKDiag, RKDone, SetStages, progress
  <2>3. CASE UNCHANGED record
    BY <1>a, <2>1, <2>3
  <2>4. CASE ~UNCHANGED record
    BY <1>0, <2>1, <2>2, <2>4 DEF TurnInv
  <2> QED
    BY <2>3, <2>4
<1>25. ASSUME NEW s \in Services, Kill(s) PROVE TurnInv'
  BY <1>25, <1>a DEF Kill, pipeline, progress, identity
<1>26. CASE KillDone \/ ManualDownload \/ Midnight
  BY <1>26, <1>a DEF KillDone, ManualDownload, Midnight, pipeline, progress, identity
<1>28. CASE Crash
  <2>1. pc' = "idle" /\ depId' = 0 /\ UNCHANGED <<started, record>>
    BY <1>28 DEF Crash, Return
  <2> QED
    BY <1>0, <2>1 DEF TurnInv
<1>30. CASE UNCHANGED vars
  BY <1>30, <1>a DEF vars
<1> QED
  BY <1>1, <1>2, <1>3, <1>18, <1>20, <1>21, <1>25, <1>26, <1>28, <1>30 DEF Next, Pipeline

(* What the steps of the refinement rest on. *)
RolloutInv == TypeInv /\ RollbackInv /\ SuccessInv /\ TurnInv

LEMMA RolloutInvariant == Spec => []RolloutInv
<1>1. Spec => []TypeInv
  BY TypeInit, TypeStep, PTL DEF Spec
<1>2. Spec => []SuccessInv
  BY <1>1, SuccessInit, SuccessStep, PTL DEF Spec
<1>3. Spec => []TurnInv
  BY <1>1, TurnInit, TurnStep, PTL DEF Spec
<1> QED
  BY <1>1, <1>2, <1>3, RollbackInvariant, PTL DEF RolloutInv

LEMMA RolloutInit == Init => Promise!Init
<1> SUFFICES ASSUME Init PROVE Promise!Init
  OBVIOUS
<1>1. /\ bin \in [Services -> Promise!File] /\ unit \in [Services -> Promise!File]
      /\ loaded = unit
  BY DEF Init, File, Promise!File
<1>2. ASSUME NEW s \in Services
      PROVE  /\ {bakJar[<<d, s>>] : d \in Days} = {None}
             /\ {bakUnit[<<d, s>>] : d \in Days} = {None}
  <2>1. \A d \in Days : bakJar[<<d, s>>] = None /\ bakUnit[<<d, s>>] = None
    BY DEF Init
  <2> QED
    BY <2>1, DaysFacts
<1>3. Jars = [s \in Services |-> {None}] /\ Units = [s \in Services |-> {None}]
  BY <1>2 DEF Jars, Units
<1>4. before.svc = None /\ checksum = None /\ depId = 0
  BY DEF Init
<1>5. Outcome = [of |-> 0, is |-> "none"]
  BY DEF Init, NoRecord, Outcome
<1> QED
  BY <1>1, <1>3, <1>4, <1>5 DEF Promise!Init

(* A backup that is written is the only one that changes. *)
LEMMA OneBackup ==
  ASSUME NEW b \in [Days \X Services -> File], NEW d \in Days, NEW s \in Services, NEW f,
         NEW c, c = [b EXCEPT ![<<d, s>>] = f]
  PROVE  /\ \A t \in Services \ {s} : {c[<<e, t>>] : e \in Days} = {b[<<e, t>>] : e \in Days}
         /\ {c[<<e, s>>] : e \in Days} \subseteq {b[<<e, s>>] : e \in Days} \cup {f}
<1>1. \A e \in Days, t \in Services : c[<<e, t>>] = IF e = d /\ t = s THEN f ELSE b[<<e, t>>]
  OBVIOUS
<1> QED
  BY <1>1

(* While a handler waits, its deployment works; its backups are complete     *)
(* when it waits late.                                                       *)
LEMMA WorkingFacts ==
  ASSUME RolloutInv, pc \in Awaits
  PROVE  /\ Promise!Working /\ before.svc = svc /\ svc \in Services /\ checksum \in Builds
         /\ pc \in LateAwaits => Promise!Secured
         /\ pc \notin LateAwaits => Untouched
<1>1. before.svc = svc /\ svc \in Services /\ checksum \in Builds
  BY DEF RolloutInv, TypeInv, InFlight
<1>2. Outcome.of = depId => Outcome.is = "failed"
  BY DEF RolloutInv, TurnInv, Outcome
<1>3. checksum # None
  BY <1>1, ConstantsOK
<1>4. /\ Outcome # [of |-> depId, is |-> "aborted"] /\ Outcome # [of |-> depId, is |-> "success"]
  BY <1>2
<1>5. ASSUME pc \in LateAwaits PROVE Promise!Secured
  <2>1. BackedUp
    BY <1>5 DEF RolloutInv, RollbackInv
  <2>2. /\ before.jar # None => before.jar \in {bakJar[<<d, svc>>] : d \in Days}
        /\ before.unit \in {bakUnit[<<d, svc>>] : d \in Days}
    BY <1>1, <2>1 DEF BackedUp
  <2>3. Jars[svc] = {bakJar[<<d, svc>>] : d \in Days} /\ Units[svc] = {bakUnit[<<d, svc>>] : d \in Days}
    BY <1>1 DEF Jars, Units
  <2> QED
    BY <1>1, <2>2, <2>3 DEF Promise!Secured
<1>6. pc \notin LateAwaits => Untouched
  BY DEF RolloutInv, RollbackInv, LateAwaits
<1> QED
  BY <1>1, <1>3, <1>4, <1>5, <1>6 DEF Promise!Working, Promise!Aborted

(* A move reports an outcome or none, and calls a deployment aborted only    *)
(* when it has changed nothing.                                              *)
LEMMA MoveReports ==
  ASSUME RolloutInv, pc \in Awaits, Move, UNCHANGED before, pc \in LateAwaits \/ Untouched'
  PROVE  Promise!Report \/ UNCHANGED Promise!deployment
<1>1. UNCHANGED <<depId, checksum>>
  BY DEF Move, Stop, StopHere, Proceed, Complete, identity
<1>2. CASE Stop \/ StopHere
  <2>0. StageOf[pc] \in STAGES
    BY StageOfType
  <2>1. PICK at \in {StageOf[pc], currentStage} : Fail(at)
    BY <1>2 DEF Stop, StopHere
  <2>2. record' = [id |-> depId, status |-> "failed", stage |-> at]
    BY <2>1 DEF Fail
  <2>3. CASE at \in EarlyStages
    <3>1. pc \notin LateAwaits
      BY <2>1, <2>3, LateStages DEF RolloutInv, RollbackInv
    <3>2. Outcome' = [of |-> depId, is |-> "aborted"]
      BY <2>2, <2>3 DEF Outcome
    <3> QED
      BY <1>1, <3>1, <3>2 DEF Promise!Report, Promise!Untouched, Untouched
  <2>4. CASE at \notin EarlyStages
    <3>1. Outcome' = [of |-> depId, is |-> "failed"]
      BY <2>2, <2>4 DEF Outcome
    <3> QED
      BY <1>1, <3>1 DEF Promise!Report
  <2> QED
    BY <2>3, <2>4
<1>3. CASE \E next \in Awaits : Proceed(next) \/ Complete(next)
  <2>1. UNCHANGED record
    BY <1>3 DEF Proceed, Complete, progress
  <2> QED
    BY <1>1, <2>1 DEF Promise!deployment, Outcome
<1> QED
  BY <1>2, <1>3 DEF Move

LEMMA ServerKept ==
  ASSUME UNCHANGED <<bin, unit, loaded, bakJar, bakUnit>>
  PROVE  UNCHANGED Promise!server
  BY DEF Promise!server, Jars, Units

LEMMA DeploymentKept ==
  ASSUME UNCHANGED <<before, checksum, depId, record>>
  PROVE  UNCHANGED Promise!deployment
  BY DEF Promise!deployment, Outcome

(* The steps that write a backup save, also when they are cut off. *)
LEMMA SaveJar ==
  ASSUME RolloutInv, pc = "backup_jar", UNCHANGED <<bin, unit, loaded, bakUnit>>,
         NEW f \in {bin[svc], Broken}, bakJar' = [bakJar EXCEPT ![<<pday, svc>>] = f],
         UNCHANGED before
  PROVE  Promise!Save
<1>0. pc \in Awaits /\ pc \notin LateAwaits
  BY StageNames DEF LateAwaits, EarlyAwaits
<1>1. Promise!Working /\ before.svc = svc /\ svc \in Services /\ Untouched
  BY <1>0, WorkingFacts
<1>2. bakJar \in [Days \X Services -> File] /\ pday \in Days
  BY DEF RolloutInv, TypeInv, TypeOK, ServerType, HandlerType
<1>3. bin[svc] = before.jar
  BY <1>1 DEF Untouched
<1>4. /\ \A s \in Services \ {svc} : Jars'[s] = Jars[s]
      /\ Jars'[svc] \subseteq Jars[svc] \cup {f}
  BY <1>1, <1>2, OneBackup DEF Jars
<1>5. UNCHANGED Units
  BY DEF Units
<1> QED
  BY <1>1, <1>3, <1>4, <1>5 DEF Promise!Save, Promise!Untouched, Promise!Others, Untouched

LEMMA SaveUnit ==
  ASSUME RolloutInv, pc = "backup_unit", UNCHANGED <<bin, unit, loaded, bakJar>>,
         NEW f \in {unit[svc], Broken}, bakUnit' = [bakUnit EXCEPT ![<<pday, svc>>] = f],
         UNCHANGED before
  PROVE  Promise!Save
<1>0. pc \in Awaits /\ pc \notin LateAwaits
  BY StageNames DEF LateAwaits, EarlyAwaits
<1>1. Promise!Working /\ before.svc = svc /\ svc \in Services /\ Untouched
  BY <1>0, WorkingFacts
<1>2. bakUnit \in [Days \X Services -> File] /\ pday \in Days
  BY DEF RolloutInv, TypeInv, TypeOK, ServerType, HandlerType
<1>3. unit[svc] = before.unit
  BY <1>1 DEF Untouched
<1>4. /\ \A s \in Services \ {svc} : Units'[s] = Units[s]
      /\ Units'[svc] \subseteq Units[svc] \cup {f}
  BY <1>1, <1>2, OneBackup DEF Units
<1>5. UNCHANGED Jars
  BY DEF Jars
<1> QED
  BY <1>1, <1>3, <1>4, <1>5 DEF Promise!Save, Promise!Untouched, Promise!Others, Untouched

(* Those that write the unit, tell systemd or copy the JAR replace.          *)
LEMMA ReplaceUnit ==
  ASSUME RolloutInv, pc = "update_write", UNCHANGED <<bin, loaded, bakJar, bakUnit>>,
         NEW u \in {unit[svc], Broken, checksum}, unit' = [unit EXCEPT ![svc] = u]
  PROVE  Promise!Replace
<1>0. pc \in LateAwaits /\ pc \in Awaits
  BY StageNames DEF LateAwaits, EarlyAwaits
<1>1. Promise!Working /\ Promise!Secured /\ before.svc = svc /\ svc \in Services
  BY <1>0, WorkingFacts
<1>2. unit \in [Services -> File]
  BY DEF RolloutInv, TypeInv, TypeOK, ServerType
<1>3. unit'[svc] = u /\ \A s \in Services \ {svc} : unit'[s] = unit[s]
  BY <1>1, <1>2
<1>4. UNCHANGED <<Jars, Units>>
  BY DEF Jars, Units
<1> QED
  BY <1>1, <1>3, <1>4 DEF Promise!Replace, Promise!Others

LEMMA ReplaceLoaded ==
  ASSUME RolloutInv, pc = "daemon_reload", UNCHANGED <<bin, unit, bakJar, bakUnit>>,
         loaded' \in {loaded, unit}
  PROVE  Promise!Replace
<1>0. pc \in LateAwaits /\ pc \in Awaits
  BY StageNames DEF LateAwaits, EarlyAwaits
<1>1. Promise!Working /\ Promise!Secured /\ before.svc = svc /\ svc \in Services
  BY <1>0, WorkingFacts
<1>2. unit[svc] = checksum
  BY DEF RolloutInv, SuccessInv, UnitWritten
<1>3. UNCHANGED <<Jars, Units>>
  BY DEF Jars, Units
<1> QED
  BY <1>1, <1>2, <1>3 DEF Promise!Replace, Promise!Others

LEMMA ReplaceJar ==
  ASSUME RolloutInv, pc = "copy", UNCHANGED <<unit, loaded, bakJar, bakUnit>>,
         NEW f, bin' = [bin EXCEPT ![svc] = f]
  PROVE  Promise!Replace
<1>0. pc \in LateAwaits /\ pc \in Awaits
  BY StageNames DEF LateAwaits, EarlyAwaits
<1>1. Promise!Working /\ Promise!Secured /\ before.svc = svc /\ svc \in Services
  BY <1>0, WorkingFacts
<1>2. unit[svc] = checksum /\ loaded[svc] = checksum
  BY DEF RolloutInv, SuccessInv, UnitWritten, UnitLoaded
<1>3. bin \in [Services -> File]
  BY DEF RolloutInv, TypeInv, TypeOK, ServerType
<1>4. \A s \in Services \ {svc} : bin'[s] = bin[s]
  BY <1>3
<1>5. UNCHANGED <<Jars, Units>>
  BY DEF Jars, Units
<1> QED
  BY <1>1, <1>2, <1>4, <1>5 DEF Promise!Replace, Promise!Others

(* Every step is one of Rollout's, or stutters. *)
LEMMA RolloutStep == RolloutInv /\ [Next]_vars => [Promise!Next]_Promise!vars
<1> SUFFICES ASSUME RolloutInv, [Next]_vars
             PROVE  Promise!Next \/ (UNCHANGED Promise!server /\ UNCHANGED Promise!deployment)
  BY DEF Promise!vars
<1> USE StageNames
<1>a. ASSUME UNCHANGED <<bin, unit, loaded, bakJar, bakUnit>>,
             UNCHANGED <<before, checksum, depId, record>>
      PROVE  UNCHANGED Promise!server /\ UNCHANGED Promise!deployment
  BY <1>a, ServerKept, DeploymentKept
<1>b. ASSUME pc \in Awaits, Move, UNCHANGED before, pc \in LateAwaits \/ UNCHANGED <<bin, unit>>
      PROVE  Promise!Report \/ UNCHANGED Promise!deployment
  <2>1. pc \in LateAwaits \/ Untouched'
    BY <1>b, WorkingFacts DEF Untouched
  <2> QED
    BY <1>b, <2>1, MoveReports
<1>c. ASSUME pc \in Awaits, Move, UNCHANGED <<before, bin, unit, loaded, bakJar, bakUnit>>
      PROVE  Promise!Next \/ (UNCHANGED Promise!server /\ UNCHANGED Promise!deployment)
  BY <1>b, <1>c, ServerKept DEF Promise!Next
<1>1. CASE StartDeploy
  BY <1>1, <1>a DEF StartDeploy, identity, progress, installed, backups
<1>2. CASE Begin
  <2>1. /\ pc = "stop_streams" /\ depId' = started /\ checksum' = req.checksum
        /\ before' = [svc |-> req.svc, jar |-> bin[req.svc], unit |-> unit[req.svc]]
        /\ UNCHANGED <<record, bin, unit, loaded, bakJar, bakUnit>>
    BY <1>2 DEF Begin, installed, backups
  <2>2. req.svc \in Services /\ req.checksum \in Builds
    BY <2>1 DEF RolloutInv, TypeInv, InFlight
  <2>3. started \in Nat /\ started > depId /\ started > record.id
    BY <2>1 DEF RolloutInv, TurnInv, TypeInv, TypeOK, HandlerType, StateType, ProgressType
  <2>4. UNCHANGED Promise!server /\ UNCHANGED Outcome
    BY <2>1, ServerKept DEF Outcome
  <2> QED
    BY <2>1, <2>2, <2>3, <2>4 DEF Promise!Next, Promise!Begin, Outcome
<1>3. CASE \/ Download \/ Connect \/ Upload \/ BackupDir \/ UpdateRead \/ UpdateVerify
           \/ CopyStat \/ Restart \/ RestartDiag \/ HealthCheck \/ HealthDiag
  BY <1>3, <1>c DEF Download, Connect, Upload, BackupDir, UpdateRead, UpdateVerify, CopyStat,
     Restart, RestartDiag, HealthCheck, HealthDiag, Move, installed, backups
<1>7. CASE BackupJar
  <2>1. pc \in Awaits /\ Move /\ UNCHANGED <<before, bin, unit, loaded, bakUnit>>
    BY <1>7 DEF BackupJar, Move, installed
  <2>2. CASE UNCHANGED bakJar
    BY <1>c, <2>1, <2>2
  <2>3. CASE \E f \in {bin[svc], Broken} : bakJar' = [bakJar EXCEPT ![<<pday, svc>>] = f]
    BY <1>7, <1>b, <2>1, <2>3, SaveJar DEF BackupJar, Promise!Next
  <2> QED
    BY <1>7, <2>2, <2>3 DEF BackupJar, CutBackupJar
<1>8. CASE BackupUnit
  <2>1. pc \in Awaits /\ Move /\ UNCHANGED <<before, bin, unit, loaded, bakJar>>
    BY <1>8 DEF BackupUnit, Move, installed
  <2>2. CASE UNCHANGED bakUnit
    BY <1>c, <2>1, <2>2
  <2>3. CASE \E f \in {unit[svc], Broken} : bakUnit' = [bakUnit EXCEPT ![<<pday, svc>>] = f]
    BY <1>8, <1>b, <2>1, <2>3, SaveUnit DEF BackupUnit, Promise!Next
  <2> QED
    BY <1>8, <2>2, <2>3 DEF BackupUnit, CutBackupUnit
<1>9. CASE UpdateWrite
  <2>1. /\ pc = "update_write" /\ pc \in LateAwaits
        /\ Move /\ UNCHANGED <<before, bin, loaded, bakJar, bakUnit>>
        /\ \E u \in {unit[svc], Broken, checksum} : unit' = [unit EXCEPT ![svc] = u]
    BY <1>9 DEF UpdateWrite, CutWrite, Move, LateAwaits, EarlyAwaits, backups
  <2>2. Promise!Replace
    BY <2>1, ReplaceUnit
  <2> QED
    BY <1>b, <2>1, <2>2 DEF Promise!Next, LateAwaits
<1>10. CASE DaemonReload
  <2>1. /\ pc = "daemon_reload" /\ pc \in LateAwaits
        /\ Move /\ UNCHANGED <<before, bin, unit, bakJar, bakUnit>> /\ loaded' \in {loaded, unit}
    BY <1>10 DEF DaemonReload, CutReload, Move, LateAwaits, EarlyAwaits, backups
  <2>2. Promise!Replace
    BY <2>1, ReplaceLoaded
  <2> QED
    BY <1>b, <2>1, <2>2 DEF Promise!Next, LateAwaits
<1>11. CASE Copy
  <2>1. /\ pc = "copy" /\ pc \in LateAwaits
        /\ Move /\ UNCHANGED <<before, unit, loaded, bakJar, bakUnit>>
    BY <1>11 DEF Copy, Move, LateAwaits, EarlyAwaits, backups
  <2>2. CASE UNCHANGED bin
    BY <1>b, <2>1, <2>2, ServerKept DEF Promise!Next, LateAwaits
  <2>3. CASE \E f : bin' = [bin EXCEPT ![svc] = f]
    <3>1. Promise!Replace
      BY <2>1, <2>3, ReplaceJar
    <3> QED
      BY <1>b, <2>1, <3>1 DEF Promise!Next, LateAwaits
  <2> QED
    BY <1>11, <2>2, <2>3 DEF Copy, CutCopy
<1>18. CASE LiveLogs
  <2>1. pc = "live_logs" /\ UNCHANGED <<before, bin, unit, loaded, bakJar, bakUnit>>
    BY <1>18 DEF LiveLogs, installed, backups
  <2>2. CASE Stop
    BY <1>c, <2>1, <2>2 DEF Move
  <2>3. CASE ~Stop
    <3>1. /\ UNCHANGED <<depId, checksum>>
          /\ record' = [id |-> depId, status |-> "success", stage |-> errorStage]
      BY <1>18, <2>3 DEF LiveLogs, identity
    <3>2. Outcome' = [of |-> depId, is |-> "success"]
      BY <3>1 DEF Outcome
    <3>3. {bin[svc], unit[svc], loaded[svc]} = {checksum} /\ before.svc = svc
      BY <2>1, WorkingFacts DEF RolloutInv, SuccessInv, UnitWritten, UnitLoaded
    <3>4. Promise!Report
      BY <2>1, <3>1, <3>2, <3>3, ServerKept DEF Promise!Report, Promise!Installed
    <3> QED
      BY <2>1, <3>4, ServerKept DEF Promise!Next
  <2> QED
    BY <2>2, <2>3
<1>20. ASSUME NEW s \in Services, RestartAfterKill(s) \/ Kill(s)
       PROVE  UNCHANGED Promise!server /\ UNCHANGED Promise!deployment
  BY <1>20, <1>a DEF RestartAfterKill, Kill, SetStages, pipeline, progress, identity, installed,
     backups
<1>21. CASE FollowUp
  <2>1. UNCHANGED <<before, checksum, depId, bin, unit, loaded, bakJar, bakUnit>>
    BY <1>21 DEF FollowUp, RKRestart, RKHealth, RKDiag, RKDone, pipeline, identity, installed,
       backups
  <2>2. UNCHANGED record \/ Outcome' = [of |-> depId, is |-> "failed"]
    <3>1. ASSUME NEW at \in {"restart", "health_check"}, Fail(at)
          PROVE  Outcome' = [of |-> depId, is |-> "failed"]
      BY <3>1, LateStages, LateFailure
    <3> QED
      BY <1>21, <3>1 DEF FollowUp, RKRestart, RKHealth, RKDiag, RKDone, SetStages, progress
  <2> QED
    BY <1>a, <2>1, <2>2, ServerKept DEF Promise!Next, Promise!Report
<1>26. CASE KillDone \/ ManualDownload \/ Midnight
  BY <1>26, <1>a DEF KillDone, ManualDownload, Midnight, pipeline, progress, identity, installed,
     backups
<1>28. CASE Crash
  <2>1. /\ UNCHANGED <<before, record>> /\ checksum' = None /\ depId' = 0
    BY <1>28 DEF Crash
  <2>2. Promise!Forget
    BY <2>1 DEF Promise!Forget, Outcome
  <2>3. SUFFICES Promise!Save \/ Promise!Replace \/ UNCHANGED Promise!server
    BY <2>2 DEF Promise!Next
  <2>4. CASE pc = "backup_jar"
    BY <1>28, <2>1, <2>4, SaveJar, ServerKept DEF Crash, CutBackupJar
  <2>5. CASE pc = "backup_unit"
    BY <1>28, <2>1, <2>5, SaveUnit, ServerKept DEF Crash, CutBackupUnit
  <2>6. CASE pc = "update_write"
    BY <1>28, <2>6, ReplaceUnit DEF Crash, CutWrite
  <2>7. CASE pc = "daemon_reload"
    BY <1>28, <2>7, ReplaceLoaded DEF Crash, CutReload
  <2>8. CASE pc = "copy"
    <3>1. UNCHANGED <<unit, loaded, bakJar, bakUnit>> /\ CutCopy
      BY <1>28, <2>8 DEF Crash
    <3> QED
      BY <2>8, <3>1, ReplaceJar, ServerKept DEF CutCopy
  <2>9. CASE pc \notin {"backup_jar", "backup_unit", "update_write", "daemon_reload", "copy"}
    BY <1>28, <2>9, ServerKept DEF Crash
  <2> QED
    BY <2>4, <2>5, <2>6, <2>7, <2>8, <2>9
<1>30. CASE UNCHANGED vars
  BY <1>30, <1>a DEF vars
<1> QED
  BY <1>1, <1>2, <1>3, <1>7, <1>8, <1>9, <1>10, <1>11, <1>18, <1>20, <1>21, <1>26, <1>28, <1>30
  DEF Next, Pipeline

(* The JAR deployment keeps what Rollout promises, for any services, builds, *)
(* restarts, kills, downloads, crashes and midnights.                        *)
THEOREM KeepsRolloutCorrect == Spec => KeepsRollout
<1>1. Spec => Promise!Init
  BY RolloutInit, PTL DEF Spec
<1> QED
  BY <1>1, RolloutStep, RolloutInvariant, PTL DEF Spec, KeepsRollout, Promise!Spec

(* What that is worth: whoever keeps Rollout's promise can go back, whatever *)
(* has failed or died, and has changed nothing when it has aborted.          *)
THEOREM RolloutCanGoBack ==
  Promise!Spec => [](Promise!CanGoBack /\ Promise!AbortedIsUntouched)
<1> DEFINE GoBack == Promise!CanGoBack /\ Promise!AbortedIsUntouched
<1>1. Promise!Init => GoBack
  BY DEF Promise!Init, Promise!CanGoBack, Promise!AbortedIsUntouched
<1>2. GoBack /\ [Promise!Next]_Promise!vars => GoBack'
  <2> SUFFICES ASSUME GoBack, [Promise!Next]_Promise!vars PROVE GoBack'
    OBVIOUS
  <2>1. CASE Promise!Begin
    <3>1. Promise!Untouched'
      BY <2>1 DEF Promise!Begin, Promise!Untouched, Promise!server
    <3> QED
      BY <3>1 DEF Promise!CanGoBack, Promise!AbortedIsUntouched
  <2>2. CASE Promise!Report \/ Promise!Forget \/ UNCHANGED Promise!deployment
    <3>1. UNCHANGED before
      BY <2>2 DEF Promise!Report, Promise!Forget, Promise!deployment
    <3>2. \/ Promise!Untouched'
          \/ Outcome' = [of |-> depId', is |-> "failed"] \/ Outcome' = [of |-> depId', is |-> "success"]
          \/ depId' = 0
          \/ UNCHANGED <<depId, Outcome>>
      BY <2>2 DEF Promise!Report, Promise!Forget, Promise!deployment
    <3>3. CASE Promise!Save
      <4>1. Promise!Untouched'
        BY <3>1, <3>3 DEF Promise!Save, Promise!Untouched
      <4> QED
        BY <4>1 DEF Promise!CanGoBack, Promise!AbortedIsUntouched
    <3>4. CASE Promise!Replace
      <4>1. Promise!Secured'
        BY <3>1, <3>4 DEF Promise!Replace, Promise!Secured
      <4>2. ~Promise!Aborted
        BY <3>4 DEF Promise!Replace, Promise!Working
      <4> QED
        BY <3>2, <4>1, <4>2 DEF Promise!CanGoBack, Promise!AbortedIsUntouched, Promise!Aborted
    <3>5. CASE UNCHANGED Promise!server
      <4>1. Promise!Untouched' = Promise!Untouched /\ Promise!Secured' = Promise!Secured
        BY <3>1, <3>5 DEF Promise!server, Promise!Untouched, Promise!Secured
      <4> QED
        BY <3>1, <3>2, <4>1 DEF Promise!CanGoBack, Promise!AbortedIsUntouched, Promise!Aborted
    <3> QED
      BY <2>1, <2>2, <3>3, <3>4, <3>5 DEF Promise!Next, Promise!vars, Promise!server
  <2> QED
    BY <2>1, <2>2 DEF Promise!Next, Promise!vars, Promise!deployment
<1> QED
  BY <1>1, <1>2, PTL DEF Promise!Spec
=============================================================================
