---------------------------- MODULE BackendProofs ----------------------------
(***************************************************************************)
(* Proofs about Backend for every value of its constants: type             *)
(* correctness, that a start with revisions to apply is protected by a     *)
(* dump and confirmed, that the dump of the last healthy schema outlives   *)
(* the attempts it should, and that a runbook leads back.                  *)
(*                                                                         *)
(* PlanInv says what the findings of a deployment are worth at each stage  *)
(* although Alembic goes on meanwhile, PointInv how deep in the backup     *)
(* directory the rollback point may be, RunbookInv what is still as the    *)
(* deployment found it.  At the end, pending() (module Migrations): what   *)
(* the walk over a wheel's history lists, and that on the histories of     *)
(* Backend this is the plan of a deployment.                               *)
(***************************************************************************)
EXTENDS Backend, Migrations, SequenceTheorems, FiniteSetTheorems, WellFoundedInduction, TLAPS

(* The stages after the dump was decided on and taken, after the decision,   *)
(* after the current revision was read; those with the service stopped; and  *)
(* those before it is started.                                               *)
Secured  == {"backup", "stop", "install_dependencies", "install_wheel", "start", "health"}
Decided  == Secured \cup {"prune", "dump"}
PastRead == Decided \cup {"dependencies"}
Stopped  == {"install_dependencies", "install_wheel", "start"}
BeforeStart == (PastRead \ {"health"}) \cup {"preflight", "migrations"}

(* A deployment in flight is of a wheel, has not used up its attempt before  *)
(* it prunes, and prunes only to take a dump that it has not taken yet.      *)
FlightInv ==
  /\ pc # "idle" => wheel \in Wheels /\ started >= 1
  /\ attempts <= started
  /\ pc \in {"preflight", "migrations", "dependencies", "prune"} => attempts < started
  /\ pc \in {"preflight", "migrations", "dependencies", "prune", "dump"} => dump = None
  /\ pc \in {"prune", "dump"} => plan # {}
  /\ install => Pins[wheel] # None
  /\ pc = "install_dependencies" => install
  /\ pc \in {"start", "health"} => installed = wheel
  /\ pc \in Stopped => proc = "down"

TypeInv == TypeOK /\ FlightInv

-----------------------------------------------------------------------------
(* Pruning leaves what comes first where it is. *)
LEMMA KeepingFacts ==
  ASSUME NEW S, NEW files \in Seq(S), NEW keep \in Nat, NEW result \in Keeping(keep, files)
  PROVE  /\ result \in Seq(S)
         /\ \A i \in 1 .. Len(files) : i <= keep => i \in 1 .. Len(result) /\ result[i] = files[i]
<1>1. CASE result = files
  BY <1>1
<1>2. ASSUME NEW last \in keep + 1 .. Len(files),
             result = SubSeq(files, 1, keep) \o SubSeq(files, last + 1, Len(files))
      PROVE  /\ result \in Seq(S)
             /\ \A i \in 1 .. Len(files) : i <= keep => i \in 1 .. Len(result) /\ result[i] = files[i]
  <2> DEFINE front == SubSeq(files, 1, keep)
             back  == SubSeq(files, last + 1, Len(files))
  <2>1. Len(files) \in Nat /\ last \in Int /\ keep < last /\ last <= Len(files)
        /\ \A i \in 1 .. Len(files) : files[i] \in S
    BY <1>2
  <2>2. /\ front \in Seq(S) /\ Len(front) = keep
        /\ \A i \in 1 .. keep : front[i] = files[i]
    <3>1. \A i \in 1 .. keep : files[i] \in S
      BY <2>1
    <3>2. /\ front \in Seq(S) /\ Len(front) = IF 1 <= keep THEN keep - 1 + 1 ELSE 0
          /\ \A i \in 1 .. keep - 1 + 1 : front[i] = files[1 + i - 1]
      BY <3>1, SubSeqProperties
    <3> HIDE DEF front
    <3>3. \A i \in 1 .. keep : i \in 1 .. keep - 1 + 1 /\ 1 + i - 1 = i
      OBVIOUS
    <3> QED
      BY <3>2, <3>3
  <2>3. back \in Seq(S) /\ Len(back) \in Nat
    <3>1. \A i \in last + 1 .. Len(files) : files[i] \in S
      BY <2>1
    <3>2. back \in Seq(S)
      BY <2>1, <3>1, SubSeqProperties
    <3> QED
      BY <3>2
  <2> HIDE DEF front, back
  <2>4. result = front \o back
    BY <1>2 DEF front, back
  <2>5. /\ result \in Seq(S) /\ Len(result) = Len(front) + Len(back)
        /\ \A i \in 1 .. Len(front) + Len(back) :
             result[i] = IF i <= Len(front) THEN front[i] ELSE back[i - Len(front)]
    BY <2>2, <2>3, <2>4, ConcatProperties
  <2>6. ASSUME NEW i \in 1 .. Len(files), i <= keep PROVE i \in 1 .. Len(result) /\ result[i] = files[i]
    <3>1. i \in 1 .. keep /\ i \in 1 .. Len(front) + Len(back) /\ i <= Len(front)
      BY <2>1, <2>2, <2>3, <2>6
    <3> QED
      BY <2>2, <2>5, <3>1
  <2> QED
    BY <2>5, <2>6
<1> QED
  BY <1>1, <1>2 DEF Keeping

(* A file that is written becomes the first one. *)
LEMMA PushFacts ==
  ASSUME NEW S, NEW s \in Seq(S), NEW e \in S
  PROVE  LET pushed == <<e>> \o s
         IN  /\ pushed \in Seq(S) /\ pushed # <<>> /\ Len(pushed) = Len(s) + 1 /\ pushed[1] = e
             /\ \A i \in 1 .. Len(s) : i + 1 \in 1 .. Len(pushed) /\ pushed[i + 1] = s[i]
<1> DEFINE pushed == <<e>> \o s
<1>1. <<e>> \in Seq(S) /\ Len(<<e>>) = 1 /\ <<e>>[1] = e /\ Len(s) \in Nat
  OBVIOUS
<1>2. /\ pushed \in Seq(S) /\ Len(pushed) = 1 + Len(s)
      /\ \A i \in 1 .. 1 + Len(s) : pushed[i] = IF i <= 1 THEN <<e>>[i] ELSE s[i - 1]
  BY <1>1, ConcatProperties
<1> HIDE DEF pushed
<1>3. 1 \in 1 .. 1 + Len(s) /\ pushed[1] = e
  BY <1>1, <1>2
<1>4. ASSUME NEW i \in 1 .. Len(s) PROVE i + 1 \in 1 .. Len(pushed) /\ pushed[i + 1] = s[i]
  <2>1. i + 1 \in 1 .. 1 + Len(s) /\ ~(i + 1 <= 1) /\ i + 1 - 1 = i
    BY <1>1
  <2> QED
    BY <1>2, <2>1
<1>5. pushed # <<>>
  BY <1>1, <1>2
<1>6. Len(pushed) = Len(s) + 1
  BY <1>1, <1>2
<1> QED
  BY <1>2, <1>3, <1>4, <1>5, <1>6 DEF pushed

(* At least one dump is kept. *)
LEMMA AtLeastOneFacts ==
  /\ AtLeastOne(KeepDumps) \in Nat /\ AtLeastOne(KeepDumps) >= 1
  /\ AtLeastOne(KeepDumps) - 1 \in Nat
  BY BackendConstants DEF AtLeastOne

(* The archive with the wheel in front holds wheels. *)
LEMMA ArchivedType ==
  ASSUME wheels \in Seq(Wheels), wheel \in Wheels
  PROVE  ArchivedWheels \in Seq(Wheels)
<1>1. OtherWheels \in Seq(Wheels)
  <2>1. CASE \E i \in 1 .. Len(wheels) : wheels[i] = wheel
    <3>1. PICK i \in 1 .. Len(wheels) :
            OtherWheels = SubSeq(wheels, 1, i - 1) \o SubSeq(wheels, i + 1, Len(wheels))
      <4> DEFINE i == CHOOSE n \in 1 .. Len(wheels) : wheels[n] = wheel
      <4>1. i \in 1 .. Len(wheels)
        BY <2>1
      <4>2. OtherWheels = SubSeq(wheels, 1, i - 1) \o SubSeq(wheels, i + 1, Len(wheels))
        BY <2>1 DEF OtherWheels
      <4> QED
        BY <4>1, <4>2
    <3>2. Len(wheels) \in Nat /\ \A j \in 1 .. Len(wheels) : wheels[j] \in Wheels
      OBVIOUS
    <3>3. SubSeq(wheels, 1, i - 1) \in Seq(Wheels)
      <4>1. \A j \in 1 .. i - 1 : wheels[j] \in Wheels
        BY <3>2
      <4> QED
        BY <4>1, SubSeqProperties
    <3>4. SubSeq(wheels, i + 1, Len(wheels)) \in Seq(Wheels)
      <4>1. \A j \in i + 1 .. Len(wheels) : wheels[j] \in Wheels
        BY <3>2
      <4> QED
        BY <3>2, <4>1, SubSeqProperties
    <3> QED
      BY <3>1, <3>3, <3>4, ConcatProperties
  <2>2. CASE ~ \E i \in 1 .. Len(wheels) : wheels[i] = wheel
    BY <2>2 DEF OtherWheels
  <2> QED
    BY <2>1, <2>2
<1> QED
  BY <1>1, PushFacts DEF ArchivedWheels

(* The revisions of a wheel are revisions. *)
LEMMA RevisionFacts ==
  /\ Revision \subseteq Nat
  /\ \A w \in Wheels : LastRevision[w] \in Nat /\ 0 .. LastRevision[w] \subseteq Revision
  BY BackendConstants DEF Revision

(* What a dump is. *)
LEMMA DumpedFacts ==
  ASSUME TypeInv, pc # "idle", NEW whole \in BOOLEAN
  PROVE  /\ Dumped(whole) \in Dump /\ Dumped(whole).schema = schema
         /\ Dumped(whole).whole = whole /\ Dumped(whole) # None
<1>1. started \in 1 .. MaxDeploys /\ schema \in Revision
  BY BackendConstants DEF TypeInv, TypeOK, FlightInv
<1>2. Dumped(whole) \in Dump /\ Dumped(whole).schema = schema /\ Dumped(whole).whole = whole
  BY <1>1 DEF Dumped, Dump
<1> QED
  BY <1>2, NoneIsNoDump

-----------------------------------------------------------------------------
(* The parts of the type. *)
ServerType ==
  /\ proc \in {"up", "starting", "down"} /\ installed \in Wheels \cup {None}
  /\ pins \in PinSets \cup {Mixed} /\ schema \in Revision
  /\ staging \subseteq Wheels
FilesType == dumps \in Seq(Dump) /\ wheels \in Seq(Wheels)
FindingsType ==
  /\ plan \subseteq Revision /\ install \in BOOLEAN
  /\ dump \in Dump \cup {None} /\ previous \in Wheels \cup {None}
  /\ pc \in Secured => (plan # {} <=> dump # None)
RequestType ==
  /\ pc \in Stages \cup {"idle"} /\ wheel \in Wheels \cup {None} /\ confirmed \in BOOLEAN
  /\ outcome \in {"none", "ok", "failed", "crashed", "needs_confirmation"}
  /\ runbook \in {"none", "restore", "reinstall"}
  /\ started \in 0 .. MaxDeploys /\ stagings \in 0 .. MaxStagings
  /\ fromHealthy \in BOOLEAN
SeenType ==
  /\ healthy \in [wheel : Wheels, schema : Revision, pins : PinSets \cup {Mixed}]
  /\ attempts \in 0 .. MaxDeploys

LEMMA TypeParts ==
  /\ TypeOK => ServerType /\ FilesType /\ FindingsType /\ RequestType /\ SeenType
  /\ ServerType' /\ FilesType' /\ FindingsType' /\ RequestType' /\ SeenType' => TypeOK'
  BY DEF TypeOK, ServerType, FilesType, FindingsType, RequestType, SeenType, Secured

(* The handler of a stage ends the deployment or goes on to another stage. *)
LEMMA Ends ==
  ASSUME RequestType, \/ Fail \/ HandOver \/ \E next \in Stages : Go(next),
         UNCHANGED request
  PROVE  RequestType'
  BY DEF RequestType, Fail, HandOver, Go, request

(* The first release is the one that runs. *)
LEMMA TypeInit == Init => TypeInv
<1> SUFFICES ASSUME Init PROVE TypeInv
  OBVIOUS
<1>1. installed \in Wheels /\ schema = LastRevision[installed] /\ schema \in Nat
      /\ schema \in Revision
  BY RevisionFacts DEF Init
<1>2. ServerType
  BY <1>1 DEF Init, ServerType
<1>3. FilesType
  BY DEF Init, FilesType
<1>4. FindingsType
  BY DEF Init, FindingsType, Secured
<1>5. RequestType
  <2>1. 0 \in 0 .. MaxDeploys /\ 0 \in 0 .. MaxStagings
    BY BackendConstants
  <2> QED
    BY <2>1 DEF Init, RequestType
<1>6. SeenType
  BY <1>1, BackendConstants DEF Init, SeenType
<1>7. FlightInv
  BY DEF Init, FlightInv, Stopped
<1> QED
  BY <1>2, <1>3, <1>4, <1>5, <1>6, <1>7
  DEF TypeInv, TypeOK, ServerType, FilesType, FindingsType, RequestType, SeenType, Secured

(* Every step keeps the types. *)
LEMMA TypeStep == TypeInv /\ [Next]_vars => TypeInv'
<1> SUFFICES ASSUME TypeInv, [Next]_vars PROVE TypeInv'
  OBVIOUS
<1>0. ServerType /\ FilesType /\ FindingsType /\ RequestType /\ SeenType /\ FlightInv
  BY TypeParts DEF TypeInv
<1>a. ASSUME ServerType', FilesType', FindingsType', RequestType', SeenType', FlightInv'
      PROVE  TypeInv'
  BY <1>a, TypeParts DEF TypeInv
<1> USE DEF Secured, Stopped, Stages
<1>1. ASSUME NEW w \in Wheels, Stage(w) PROVE TypeInv'
  <2>1. /\ UNCHANGED <<server, dumps, wheels, pc, findings, outcome, runbook, wheel, confirmed,
                       started, fromHealthy, seen>>
        /\ staging' = staging \cup {w} /\ stagings' = stagings + 1 /\ stagings < MaxStagings
    BY <1>1 DEF Stage
  <2>2. stagings' \in 0 .. MaxStagings
    BY <1>0, <2>1, BackendConstants DEF RequestType
  <2>3. ServerType' /\ FilesType' /\ FindingsType' /\ SeenType' /\ FlightInv'
    BY <1>0, <2>1 DEF server, findings, seen, ServerType, FilesType, FindingsType, SeenType,
       FlightInv
  <2>4. RequestType'
    BY <1>0, <2>1, <2>2 DEF RequestType
  <2> QED
    BY <1>a, <2>3, <2>4
<1>2. ASSUME NEW w \in Wheels, NEW yes \in BOOLEAN, Deploy(w, yes) PROVE TypeInv'
  <2>1. /\ pc' = "preflight" /\ wheel' = w /\ confirmed' = yes /\ started' = started + 1
        /\ plan' = {} /\ install' = FALSE /\ dump' = None /\ previous' = None
        /\ outcome' = "none" /\ runbook' = "none" /\ started < MaxDeploys
        /\ fromHealthy' \in BOOLEAN
        /\ UNCHANGED <<server, backups, stagings, seen>>
    BY <1>2 DEF Deploy
  <2>2. started' \in 0 .. MaxDeploys /\ attempts' < started' /\ started' >= 1
    BY <1>0, <2>1, BackendConstants DEF RequestType, SeenType, FlightInv, seen
  <2>3. ServerType' /\ FilesType' /\ SeenType'
    BY <1>0, <2>1 DEF server, backups, seen, ServerType, FilesType, SeenType
  <2>4. FindingsType' /\ RequestType'
    BY <1>0, <2>1, <2>2 DEF FindingsType, RequestType
  <2>5. FlightInv'
    BY <1>0, <2>1, <2>2, BackendConstants DEF FlightInv, RequestType, SeenType, seen
  <2> QED
    BY <1>a, <2>3, <2>4, <2>5
<1>3. CASE Preflight
  <2>1. RequestType' /\ pc = "preflight"
    BY <1>0, <1>3, Ends DEF Preflight
  <2>2. UNCHANGED <<server, backups, findings, request, seen>> /\ pc' \in {"migrations", "idle"}
    BY <1>3 DEF Preflight, Go, Fail
  <2>3. ServerType' /\ FilesType' /\ FindingsType' /\ SeenType' /\ FlightInv'
    BY <1>0, <2>1, <2>2 DEF server, backups, findings, request, seen, ServerType, FilesType,
       FindingsType, SeenType, FlightInv
  <2> QED
    BY <1>a, <2>1, <2>3
<1>4. CASE Migrations
  <2>1. RequestType' /\ pc = "migrations"
    BY <1>0, <1>4, Ends DEF Migrations
  <2>2. UNCHANGED <<server, backups, install, dump, previous, request, seen>>
        /\ pc' \in {"dependencies", "idle"}
    BY <1>4 DEF Migrations, Go, Fail
  <2>3. plan' \subseteq Revision
    <3>1. CASE UNCHANGED plan
      BY <1>0, <3>1 DEF FindingsType
    <3>2. ASSUME NEW revision \in {schema, 0}, plan' = revision + 1 .. LastRevision[wheel]
          PROVE  plan' \subseteq Revision
      <4>1. revision \in Nat /\ wheel \in Wheels
        BY <1>0, <2>1, RevisionFacts DEF ServerType, FlightInv
      <4>2. plan' \subseteq 0 .. LastRevision[wheel]
        BY <3>2, <4>1, RevisionFacts
      <4> QED
        BY <4>1, <4>2, RevisionFacts
    <3> QED
      BY <1>4, <3>1, <3>2 DEF Migrations
  <2>4. ServerType' /\ FilesType' /\ FindingsType' /\ SeenType' /\ FlightInv'
    BY <1>0, <2>1, <2>2, <2>3 DEF server, backups, request, seen, ServerType, FilesType,
       FindingsType, SeenType, FlightInv
  <2> QED
    BY <1>a, <2>1, <2>4
<1>5. CASE Dependencies
  <2>a. UNCHANGED <<server, backups, plan, dump, previous, request, seen>> /\ pc = "dependencies"
    BY <1>5 DEF Dependencies
  <2>b. install' \in BOOLEAN /\ (install' => Pins[wheel] # None)
    <3>1. CASE install' = FALSE
      BY <3>1
    <3>2. CASE Pins[wheel] # None /\ install' = (pins # Pins[wheel])
      BY <3>2
    <3>3. CASE UNCHANGED install
      BY <1>0, <2>a, <3>3 DEF FindingsType, FlightInv, request
    <3> QED
      BY <1>5, <3>1, <3>2, <3>3 DEF Dependencies
  <2>1. /\ UNCHANGED <<server, backups, plan, dump, previous, request, seen>>
        /\ pc = "dependencies" /\ install' \in BOOLEAN
        /\ install' => Pins[wheel] # None
    BY <2>a, <2>b
  <2>2. /\ pc' \in {"prune", "backup", "idle"} /\ UNCHANGED runbook
        /\ outcome' \in {"none", "ok", "failed", "crashed", "needs_confirmation"}
        /\ pc' = "backup" => plan = {}
        /\ pc' = "prune" => plan # {}
    BY <1>0, <1>5 DEF Dependencies, Decide, Go, Fail, RequestType
  <2>3. ServerType' /\ FilesType' /\ RequestType' /\ SeenType' /\ FindingsType' /\ FlightInv'
    BY <1>0, <2>1, <2>2 DEF server, backups, request, seen, ServerType, FilesType, RequestType,
       FindingsType, SeenType, FlightInv
  <2> QED
    BY <1>a, <2>3
<1>6. CASE Prune
  <2>1. RequestType' /\ pc = "prune"
    BY <1>0, <1>6, Ends DEF Prune
  <2>2. /\ UNCHANGED <<server, wheels, staging, findings, request, healthy>>
        /\ pc' \in {"dump", "idle"} /\ attempts' = attempts + 1
    BY <1>6 DEF Prune, Go, Fail
  <2>3. dumps' \in Seq(Dump)
    <3>1. dumps \in Seq(Dump) /\ dumps' \in Keeping(AtLeastOne(KeepDumps) - 1, dumps)
      BY <1>0, <1>6 DEF Prune, FilesType
    <3> QED
      BY <3>1, KeepingFacts, AtLeastOneFacts
  <2>4. attempts' \in 0 .. MaxDeploys /\ attempts' <= started
    BY <1>0, <2>1, <2>2, BackendConstants DEF FlightInv, SeenType, RequestType
  <2>5. ServerType' /\ FilesType' /\ FindingsType' /\ SeenType'
    BY <1>0, <2>1, <2>2, <2>3, <2>4 DEF server, findings, ServerType, FilesType,
       FindingsType, SeenType
  <2>6. FlightInv'
    BY <1>0, <2>1, <2>2, <2>4 DEF server, findings, request, FlightInv
  <2> QED
    BY <1>a, <2>1, <2>5, <2>6
<1>7. CASE TakeDump
  <2>1. RequestType' /\ pc = "dump"
    BY <1>0, <1>7, Ends DEF TakeDump
  <2>2. /\ UNCHANGED <<server, wheels, staging, plan, install, previous, request, seen>>
        /\ \/ pc' = "idle" /\ UNCHANGED dump
           \/ pc' = "backup" /\ dump' = Dumped(TRUE)
    BY <1>7 DEF TakeDump, Go, Fail
  <2>3. dumps' = dumps \/ \E whole \in BOOLEAN : dumps' = <<Dumped(whole)>> \o dumps
    BY <1>7 DEF TakeDump
  <2>4. \A whole \in BOOLEAN : Dumped(whole) \in Dump /\ Dumped(whole) # None
    BY <2>1, DumpedFacts
  <2>5. dumps' \in Seq(Dump)
    <3>1. dumps \in Seq(Dump)
      BY <1>0 DEF FilesType
    <3>2. ASSUME NEW whole \in BOOLEAN PROVE <<Dumped(whole)>> \o dumps \in Seq(Dump)
      <4>1. Dumped(whole) \in Dump
        BY <2>4
      <4> QED
        BY <3>1, <4>1, PushFacts
    <3> QED
      BY <2>3, <3>1, <3>2
  <2>6. ServerType' /\ FilesType' /\ FindingsType' /\ SeenType'
    BY <1>0, <2>1, <2>2, <2>4, <2>5 DEF server, seen, ServerType, FilesType, FindingsType,
       SeenType, FlightInv
  <2>7. FlightInv'
    BY <1>0, <2>1, <2>2 DEF server, request, seen, FlightInv
  <2> QED
    BY <1>a, <2>1, <2>6, <2>7
<1>8. CASE Backup
  <2>1. RequestType' /\ pc = "backup" /\ wheel \in Wheels
    BY <1>0, <1>8, Ends DEF Backup, FlightInv
  <2>2. /\ UNCHANGED <<server, dumps, staging, plan, install, dump, request, seen>>
        /\ pc' \in {"stop", "idle"} /\ previous' \in {installed, None, previous}
    BY <1>8 DEF Backup, Go, Fail
  <2>3. wheels' \in Seq(Wheels)
    <3>1. wheels \in Seq(Wheels) /\ ArchivedWheels \in Seq(Wheels)
      BY <1>0, <2>1, ArchivedType DEF FilesType
    <3>2. wheels' = wheels \/ wheels' \in Keeping(AtLeastOne(KeepDumps), ArchivedWheels)
      BY <1>8 DEF Backup
    <3> QED
      BY <3>1, <3>2, KeepingFacts, AtLeastOneFacts
  <2>4. ServerType' /\ FilesType' /\ FindingsType' /\ SeenType' /\ FlightInv'
    BY <1>0, <2>1, <2>2, <2>3 DEF server, request, seen, ServerType, FilesType, FindingsType,
       SeenType, FlightInv
  <2> QED
    BY <1>a, <2>1, <2>4
<1>9. CASE Stop
  <2>1. RequestType' /\ pc = "stop"
    <3>1. \/ Fail \/ \E next \in Stages : Go(next)
      BY <1>9 DEF Stop
    <3> QED
      BY <1>0, <1>9, <3>1, Ends DEF Stop
  <2>2. /\ UNCHANGED <<installed, pins, schema, backups, findings, request, seen>>
        /\ proc' \in {proc, "down"} /\ pc' \in {"install_dependencies", "install_wheel", "idle"}
        /\ pc' # "idle" => proc' = "down"
        /\ pc' = "install_dependencies" => install
    BY <1>9 DEF Stop, Go, Fail
  <2>3. ServerType' /\ FilesType' /\ FindingsType' /\ SeenType' /\ FlightInv'
    BY <1>0, <2>1, <2>2 DEF backups, findings, request, seen, ServerType, FilesType,
       FindingsType, SeenType, FlightInv
  <2> QED
    BY <1>a, <2>1, <2>3
<1>10. CASE InstallDependencies
  <2>1. RequestType' /\ pc = "install_dependencies"
    BY <1>0, <1>10, Ends DEF InstallDependencies
  <2>2. /\ UNCHANGED <<proc, installed, schema, backups, findings, request, seen>>
        /\ pc' \in {"install_wheel", "idle"} /\ pins' \in {pins, Mixed, Pins[wheel]}
    BY <1>10 DEF InstallDependencies, Go, Fail
  <2>3. Pins[wheel] \in PinSets
    BY <1>0, <2>1 DEF FlightInv, PinSets
  <2>4. ServerType' /\ FilesType' /\ FindingsType' /\ SeenType' /\ FlightInv'
    BY <1>0, <2>1, <2>2, <2>3 DEF backups, findings, request, seen, ServerType, FilesType,
       FindingsType, SeenType, FlightInv
  <2> QED
    BY <1>a, <2>1, <2>4
<1>11. CASE InstallWheel
  <2>1. RequestType' /\ pc = "install_wheel" /\ wheel \in Wheels
    BY <1>0, <1>11, Ends DEF InstallWheel, FlightInv
  <2>2. /\ UNCHANGED <<proc, pins, schema, backups, findings, request, seen>>
        /\ pc' \in {"start", "idle"} /\ installed' \in {installed, None, wheel}
        /\ pc' = "start" => installed' = wheel
    BY <1>11 DEF InstallWheel, Go, Fail
  <2>3. ServerType' /\ FilesType' /\ FindingsType' /\ SeenType' /\ FlightInv'
    BY <1>0, <2>1, <2>2 DEF backups, findings, request, seen, ServerType, FilesType,
       FindingsType, SeenType, FlightInv
  <2> QED
    BY <1>a, <2>1, <2>3
<1>12. CASE Start
  <2>1. RequestType' /\ pc = "start"
    BY <1>0, <1>12, Ends DEF Start
  <2>2. /\ UNCHANGED <<installed, pins, schema, backups, findings, request, seen>>
        /\ pc' \in {"health", "idle"} /\ proc' \in {proc, "starting"}
    BY <1>12 DEF Start, Go, Fail, HandOver
  <2>3. ServerType' /\ FilesType' /\ FindingsType' /\ SeenType' /\ FlightInv'
    BY <1>0, <2>1, <2>2 DEF backups, findings, request, seen, ServerType, FilesType,
       FindingsType, SeenType, FlightInv
  <2> QED
    BY <1>a, <2>1, <2>3
<1>13. CASE Health
  <2>1. RequestType' /\ pc = "health"
    BY <1>0, <1>13, Ends DEF Health
  <2>2. /\ UNCHANGED <<server, backups, findings, request>> /\ pc' \in {"cleanup", "idle"}
        /\ \/ UNCHANGED seen
           \/ attempts' = 0 /\ healthy' = [wheel |-> installed, schema |-> schema, pins |-> pins]
    BY <1>13 DEF Health, Go, Fail, HandOver
  <2>3. SeenType' /\ attempts' <= started
    <3>1. installed \in Wheels /\ 0 \in 0 .. MaxDeploys /\ 0 <= started
      BY <1>0, <2>1, BackendConstants DEF FlightInv, RequestType
    <3> QED
      BY <1>0, <2>2, <3>1 DEF SeenType, ServerType, FlightInv, seen
  <2>4. ServerType' /\ FilesType' /\ FindingsType' /\ FlightInv'
    BY <1>0, <2>1, <2>2, <2>3 DEF server, backups, findings, request, ServerType, FilesType,
       FindingsType, FlightInv
  <2> QED
    BY <1>a, <2>1, <2>3, <2>4
<1>14. CASE Cleanup
  <2>1. /\ UNCHANGED <<server, dumps, wheels, findings, request, seen>> /\ pc = "cleanup"
        /\ pc' = "idle" /\ staging' \in {staging, {}} /\ UNCHANGED runbook
        /\ outcome' \in {"ok", "failed", "crashed"}
    BY <1>14 DEF Cleanup, Fail
  <2>2. ServerType' /\ FilesType' /\ FindingsType' /\ RequestType' /\ SeenType' /\ FlightInv'
    BY <1>0, <2>1 DEF server, findings, request, seen, ServerType, FilesType, FindingsType,
       RequestType, SeenType, FlightInv
  <2> QED
    BY <1>a, <2>2
<1>15. CASE Boot
  <2>1. /\ proc = "starting" /\ proc' \in {"up", "starting", "down"}
        /\ UNCHANGED <<installed, pins, backups, pc, findings, outcome, runbook, request, seen>>
    BY <1>15 DEF Boot
  <2>2. schema' \in Revision
    <3>1. CASE UNCHANGED schema
      BY <1>0, <3>1 DEF ServerType
    <3>2. CASE installed # None /\ schema < LastRevision[installed] /\ schema' = schema + 1
      <4>1. installed \in Wheels /\ schema \in Nat
        BY <1>0, <3>2, RevisionFacts DEF ServerType
      <4>2. schema + 1 \in 0 .. LastRevision[installed]
        BY <3>2, <4>1, RevisionFacts
      <4> QED
        BY <3>2, <4>1, <4>2, RevisionFacts
    <3> QED
      BY <1>15, <3>1, <3>2 DEF Boot
  <2>3. ServerType' /\ FilesType' /\ FindingsType' /\ RequestType' /\ SeenType' /\ FlightInv'
    BY <1>0, <2>1, <2>2 DEF backups, findings, request, seen, ServerType, FilesType,
       FindingsType, RequestType, SeenType, FlightInv
  <2> QED
    BY <1>a, <2>3
<1>16. CASE UNCHANGED vars
  BY <1>0, <1>a, <1>16 DEF vars, server, backups, findings, request, seen, ServerType, FilesType,
     FindingsType, RequestType, SeenType, FlightInv
<1> QED
  BY <1>1, <1>2, <1>3, <1>4, <1>5, <1>6, <1>7, <1>8, <1>9, <1>10, <1>11, <1>12, <1>13,
     <1>14, <1>15, <1>16 DEF Next

(* Every file, finding and answer has its type; in particular a deployment   *)
(* past the dump has one exactly when its plan has migrations.               *)
THEOREM BackendTypeCorrect == Spec => []TypeOK
<1>1. TypeInv => TypeOK
  BY DEF TypeInv
<1> QED
  BY <1>1, TypeInit, TypeStep, PTL DEF Spec

-----------------------------------------------------------------------------
(* The plan has every revision still to apply, whatever could not be read    *)
(* and whatever Alembic applied since; past the decision it is confirmed or  *)
(* drops nothing; past the dump, the dump is whole, the newest file, and of  *)
(* a schema between the last healthy one and the present one.                *)
DumpIsNewest ==
  pc \in Secured /\ dump # None =>
    /\ dumps # <<>> /\ dump = dumps[1] /\ dump.whole
    /\ healthy.schema <= dump.schema /\ dump.schema <= schema
    /\ attempts >= 1
PlanInv ==
  /\ healthy.schema <= schema
  /\ pc \in PastRead => schema + 1 .. LastRevision[wheel] \subseteq plan
  /\ pc \in Decided => confirmed \/ plan \cap Destructive = {}
  /\ pc = "dump" => attempts >= 1
  /\ DumpIsNewest

(* Schemas and attempts are numbers. *)
LEMMA Numbers ==
  ASSUME TypeInv
  PROVE  /\ schema \in Nat /\ healthy.schema \in Nat /\ attempts \in Nat
         /\ dump # None => dump.schema \in Nat
         /\ pc # "idle" => LastRevision[wheel] \in Nat
<1>1. schema \in Revision /\ attempts \in Nat
  BY DEF TypeInv, TypeOK
<1>2. healthy.schema \in Revision
  BY DEF TypeInv, TypeOK
<1>3. dump # None => dump.schema \in Revision
  BY DEF TypeInv, TypeOK, Dump
<1>4. pc # "idle" => LastRevision[wheel] \in Nat
  BY BackendConstants DEF TypeInv, FlightInv
<1> QED
  BY <1>1, <1>2, <1>3, <1>4, RevisionFacts

(* A step that leaves the plan, the dumps and the schemas alone, and reads,  *)
(* decides and dumps nothing.                                                *)
Quiet ==
  /\ UNCHANGED <<schema, dumps, plan, dump, wheel, confirmed, healthy, attempts>>
  /\ pc' \in PastRead => pc \in PastRead
  /\ pc' \in Decided => pc \in Decided
  /\ pc' \in Secured => pc \in Secured
  /\ pc' # "dump"

LEMMA QuietKeepsPlan ==
  ASSUME PlanInv, Quiet
  PROVE  PlanInv'
<1>1. DumpIsNewest'
  BY DEF PlanInv, DumpIsNewest, Quiet
<1>2. healthy'.schema <= schema'
  BY DEF PlanInv, Quiet
<1> QED
  BY <1>1, <1>2 DEF PlanInv, Quiet

(* A release starts with the schema of its wheel. *)
LEMMA PlanInit == Init => PlanInv
<1> SUFFICES ASSUME Init PROVE PlanInv
  OBVIOUS
<1>1. schema \in Nat /\ healthy.schema = schema /\ pc = "idle"
  BY RevisionFacts DEF Init
<1> QED
  BY <1>1 DEF PlanInv, DumpIsNewest, PastRead, Decided, Secured

(* Every step keeps what the plan and the dump are worth. *)
LEMMA PlanStep == TypeInv /\ TypeInv' /\ PlanInv /\ [Next]_vars => PlanInv'
<1> SUFFICES ASSUME TypeInv, TypeInv', PlanInv, [Next]_vars PROVE PlanInv'
  OBVIOUS
<1>0. /\ schema \in Nat /\ healthy.schema \in Nat /\ attempts \in Nat
      /\ dump # None => dump.schema \in Nat
      /\ pc # "idle" => LastRevision[wheel] \in Nat
  BY Numbers
<1>a. FlightInv
  BY DEF TypeInv
<1> USE DEF PastRead, Decided, Secured
<1>1. ASSUME NEW w \in Wheels, Stage(w) PROVE PlanInv'
  BY <1>1, QuietKeepsPlan DEF Stage, Quiet, server, findings, seen
<1>2. ASSUME NEW w \in Wheels, NEW yes \in BOOLEAN, Deploy(w, yes) PROVE PlanInv'
  BY <1>2 DEF Deploy, PlanInv, DumpIsNewest, server, seen
<1>3. CASE Preflight
  BY <1>3, QuietKeepsPlan DEF Preflight, Quiet, Go, Fail, server, backups, findings, request, seen
<1>4. CASE Migrations
  <2>1. /\ UNCHANGED <<server, backups, install, dump, previous, request, seen>>
        /\ pc = "migrations" /\ pc' \in {"dependencies", "idle"}
    BY <1>4 DEF Migrations, Go, Fail
  <2>2. pc' = "dependencies" => schema + 1 .. LastRevision[wheel] \subseteq plan'
    <3>1. SUFFICES ASSUME pc' = "dependencies"
                   PROVE  schema + 1 .. LastRevision[wheel] \subseteq plan'
      OBVIOUS
    <3>2. PICK revision \in {schema, 0} : plan' = revision + 1 .. LastRevision[wheel]
      BY <1>4, <3>1 DEF Migrations, Go, Fail
    <3> QED
      BY <1>0, <2>1, <3>2
  <2>3. UNCHANGED <<schema, wheel, healthy>>
    BY <2>1 DEF server, request, seen
  <2> QED
    BY <2>1, <2>2, <2>3 DEF PlanInv, DumpIsNewest
<1>5. CASE Dependencies
  <2>1. /\ UNCHANGED <<schema, dumps, plan, dump, wheel, confirmed, healthy, attempts>>
        /\ pc = "dependencies" /\ pc' \in {"prune", "backup", "idle"}
    BY <1>5 DEF Dependencies, Decide, Go, Fail, server, backups, request, seen
  <2>2. pc' # "idle" => confirmed \/ plan \cap Destructive = {}
    BY <1>5 DEF Dependencies, Decide, Go, Fail
  <2>3. dump = None
    BY <1>a, <2>1 DEF FlightInv
  <2> QED
    BY <2>1, <2>2, <2>3 DEF PlanInv, DumpIsNewest
<1>6. CASE Prune
  <2>1. /\ UNCHANGED <<schema, plan, dump, wheel, confirmed, healthy>>
        /\ pc = "prune" /\ pc' \in {"dump", "idle"} /\ attempts' = attempts + 1
    BY <1>6 DEF Prune, Go, Fail, server, findings, request
  <2>2. attempts' >= 1
    BY <1>0, <2>1
  <2> QED
    BY <2>1, <2>2 DEF PlanInv, DumpIsNewest
<1>7. CASE TakeDump
  <2>1. /\ UNCHANGED <<schema, plan, wheel, confirmed, healthy, attempts>>
        /\ pc = "dump" /\ pc' \in {"backup", "idle"}
    BY <1>7 DEF TakeDump, Go, Fail, server, request, seen
  <2>2. ASSUME pc' = "backup" PROVE DumpIsNewest'
    <3>1. dump' = Dumped(TRUE) /\ dumps' = <<Dumped(TRUE)>> \o dumps
      BY <1>7, <2>2 DEF TakeDump, Go, Fail
    <3>2. /\ Dumped(TRUE) \in Dump /\ Dumped(TRUE).schema = schema
          /\ Dumped(TRUE).whole = TRUE
      BY <2>1, DumpedFacts
    <3>3. dumps \in Seq(Dump)
      BY DEF TypeInv, TypeOK
    <3>4. dumps' # <<>> /\ dumps'[1] = Dumped(TRUE)
      BY <3>1, <3>2, <3>3, PushFacts
    <3>5. healthy.schema <= schema /\ schema <= schema /\ attempts >= 1
      BY <1>0, <2>1 DEF PlanInv
    <3>6. /\ dump'.whole /\ healthy'.schema <= dump'.schema /\ dump'.schema <= schema'
          /\ attempts' >= 1
      BY <2>1, <3>1, <3>2, <3>5
    <3> QED
      BY <3>1, <3>4, <3>6 DEF DumpIsNewest
  <2> QED
    BY <2>1, <2>2 DEF PlanInv, DumpIsNewest
<1>8. CASE Backup
  BY <1>8, QuietKeepsPlan DEF Backup, Quiet, Go, Fail, server, request, seen
<1>9. CASE Stop
  BY <1>9, QuietKeepsPlan DEF Stop, Quiet, Go, Fail, backups, findings, request, seen
<1>10. CASE InstallDependencies
  BY <1>10, QuietKeepsPlan
  DEF InstallDependencies, Quiet, Go, Fail, backups, findings, request, seen
<1>11. CASE InstallWheel
  BY <1>11, QuietKeepsPlan DEF InstallWheel, Quiet, Go, Fail, backups, findings, request, seen
<1>12. CASE Start
  BY <1>12, QuietKeepsPlan
  DEF Start, Quiet, Go, Fail, HandOver, backups, findings, request, seen
<1>13. CASE Health
  <2>1. pc' \in {"cleanup", "idle"} /\ UNCHANGED schema
    BY <1>13 DEF Health, Go, Fail, HandOver, server
  <2>2. healthy'.schema <= schema'
    <3>1. UNCHANGED healthy \/ healthy' = [wheel |-> installed, schema |-> schema, pins |-> pins]
      BY <1>13 DEF Health, seen
    <3> QED
      BY <1>0, <2>1, <3>1 DEF PlanInv
  <2> QED
    BY <2>1, <2>2 DEF PlanInv, DumpIsNewest
<1>14. CASE Cleanup
  BY <1>14, QuietKeepsPlan DEF Cleanup, Quiet, Fail, server, findings, request, seen
<1>15. CASE Boot
  <2>1. /\ UNCHANGED <<dumps, plan, dump, wheel, confirmed, healthy, attempts, pc>>
        /\ schema' \in {schema, schema + 1}
    BY <1>15 DEF Boot, backups, findings, request, seen
  <2>2. schema' \in Nat /\ schema <= schema'
    BY <1>0, <2>1
  <2>3. healthy'.schema <= schema'
    BY <1>0, <2>1, <2>2 DEF PlanInv
  <2>4. pc' \in PastRead => schema' + 1 .. LastRevision[wheel'] \subseteq plan'
    BY <1>0, <2>1, <2>2 DEF PlanInv
  <2>5. DumpIsNewest'
    BY <1>0, <2>1, <2>2 DEF PlanInv, DumpIsNewest
  <2> QED
    BY <2>1, <2>3, <2>4, <2>5 DEF PlanInv
<1>16. CASE UNCHANGED vars
  BY <1>16 DEF vars, server, backups, findings, request, seen, PlanInv, DumpIsNewest
<1> QED
  BY <1>1, <1>2, <1>3, <1>4, <1>5, <1>6, <1>7, <1>8, <1>9, <1>10, <1>11, <1>12, <1>13,
     <1>14, <1>15, <1>16 DEF Next

(* The plan of a start that has revisions to apply has them, so that a dump  *)
(* was taken.                                                                *)
LEMMA ProtectedStart ==
  ASSUME TypeInv, PlanInv, pc = "start", schema < LastRevision[wheel]
  PROVE  dump # None /\ dump.whole /\ dump = dumps[1] /\ dumps # <<>> /\ dump \in Range(dumps)
<1>1. schema \in Nat /\ LastRevision[wheel] \in Nat
  BY Numbers
<1>2. schema + 1 \in plan
  BY <1>1 DEF PlanInv, PastRead, Decided, Secured
<1>3. dump # None
  BY <1>2 DEF TypeInv, TypeOK
<1>4. dump.whole /\ dump = dumps[1] /\ dumps # <<>>
  BY <1>3 DEF PlanInv, DumpIsNewest, Secured
<1>5. dumps \in Seq(Dump)
  BY DEF TypeInv, TypeOK
<1>6. 1 \in DOMAIN dumps
  BY <1>4, <1>5
<1> QED
  BY <1>3, <1>4, <1>6 DEF Range

(* A start that has revisions to apply has a whole dump of its own in the    *)
(* backup directory, whatever earlier attempts left half migrated.           *)
THEOREM StartProtectedCorrect == Spec => StartProtected
<1>1. TypeInv /\ PlanInv /\ [Next]_vars =>
        [(pc = "start" /\ proc' = "starting" /\ schema < LastRevision[wheel])
           => dump # None /\ dump.whole /\ dump \in Range(dumps)]_vars
  BY ProtectedStart
<1> QED
  BY <1>1, TypeInit, TypeStep, PlanInit, PlanStep, PTL DEF Spec, StartProtected

(* No destructive revision is started unless it was confirmed, also when the *)
(* current revision could not be read.                                       *)
THEOREM DestructionConfirmedCorrect == Spec => DestructionConfirmed
<1>1. TypeInv /\ PlanInv /\ [Next]_vars =>
        [(pc = "start" /\ proc' = "starting"
            /\ Destructive \cap (schema + 1 .. LastRevision[wheel]) # {}) => confirmed]_vars
  BY DEF PlanInv, PastRead, Decided, Secured
<1> QED
  BY <1>1, TypeInit, TypeStep, PlanInit, PlanStep, PTL DEF Spec, DestructionConfirmed

-----------------------------------------------------------------------------
(* The attempts that may have written a file, and a service that is about to *)
(* apply a revision.                                                         *)
Begun == IF pc = "dump" THEN attempts - 1 ELSE attempts
Migrating == proc = "starting" /\ installed # None /\ schema < LastRevision[installed]

(* While the database is not, or may soon not be, at the last healthy schema,*)
(* a whole dump of that schema is among the first files of the directory, as *)
(* many as attempts were begun since.                                        *)
PointInv ==
  (schema # healthy.schema \/ Migrating) /\ attempts <= AtLeastOne(KeepDumps) =>
    \E i \in 1 .. Len(dumps) : i <= Begun /\ dumps[i].whole /\ dumps[i].schema = healthy.schema

(* A step that leaves the dumps and the schemas alone, and starts nothing.   *)
LEMMA PointStays ==
  ASSUME PointInv, UNCHANGED <<schema, dumps, healthy, attempts>>,
         Migrating' => Migrating, pc = "dump" <=> pc' = "dump"
  PROVE  PointInv'
  BY DEF PointInv, Begun

(* A service that is not starting applies nothing. *)
LEMMA NotMigrating ==
  ASSUME proc # "starting" PROVE ~Migrating
  BY DEF Migrating

(* Every step keeps the rollback point where it is found. *)
LEMMA PointStep ==
  TypeInv /\ TypeInv' /\ PlanInv /\ PointInv /\ [Next]_vars => PointInv'
<1> SUFFICES ASSUME TypeInv, TypeInv', PlanInv, PointInv, [Next]_vars PROVE PointInv'
  OBVIOUS
<1>0. /\ schema \in Nat /\ healthy.schema \in Nat /\ attempts \in Nat
      /\ dump # None => dump.schema \in Nat
      /\ pc # "idle" => LastRevision[wheel] \in Nat
  BY Numbers
<1>a. FlightInv /\ dumps \in Seq(Dump) /\ Len(dumps) \in Nat
  BY DEF TypeInv, TypeOK
<1>1. ASSUME NEW w \in Wheels, Stage(w) PROVE PointInv'
  BY <1>1, PointStays DEF Stage, Migrating, server, seen
<1>2. ASSUME NEW w \in Wheels, NEW yes \in BOOLEAN, Deploy(w, yes) PROVE PointInv'
  BY <1>2, PointStays DEF Deploy, Migrating, server, backups, seen
<1>3. CASE Preflight
  BY <1>3, PointStays DEF Preflight, Go, Fail, Migrating, server, backups, seen
<1>4. CASE Migrations
  BY <1>4, PointStays DEF Migrations, Go, Fail, Migrating, server, backups, seen
<1>5. CASE Dependencies
  <2>1. UNCHANGED <<server, backups, seen>> /\ pc = "dependencies" /\ pc' # "dump"
    BY <1>5 DEF Dependencies, Decide, Go, Fail
  <2> QED
    BY <2>1, PointStays DEF Migrating, server, backups, seen
<1>6. CASE Prune
  <2>1. /\ UNCHANGED <<schema, proc, installed, healthy>>
        /\ pc = "prune" /\ pc' \in {"dump", "idle"} /\ attempts' = attempts + 1
        /\ dumps' \in Keeping(AtLeastOne(KeepDumps) - 1, dumps)
    BY <1>6 DEF Prune, Go, Fail, server
  <2>2. SUFFICES ASSUME schema # healthy.schema \/ Migrating,
                        attempts' <= AtLeastOne(KeepDumps)
                 PROVE  PointInv'
    BY <2>1 DEF PointInv, Migrating
  <2>3. attempts <= AtLeastOne(KeepDumps) /\ attempts <= AtLeastOne(KeepDumps) - 1
    BY <1>0, <2>1, <2>2, AtLeastOneFacts
  <2>4. PICK i \in 1 .. Len(dumps) : i <= attempts /\ dumps[i].whole /\ dumps[i].schema = healthy.schema
    BY <2>1, <2>2, <2>3 DEF PointInv, Begun
  <2>5. i <= AtLeastOne(KeepDumps) - 1
    BY <1>0, <1>a, <2>3, <2>4, AtLeastOneFacts
  <2>6. i \in 1 .. Len(dumps') /\ dumps'[i] = dumps[i]
    BY <1>a, <2>1, <2>5, KeepingFacts, AtLeastOneFacts
  <2>7. i <= Begun'
    BY <1>0, <1>a, <2>1, <2>4 DEF Begun
  <2> QED
    BY <2>1, <2>4, <2>6, <2>7 DEF PointInv
<1>7. CASE TakeDump
  <2>1. /\ UNCHANGED <<schema, proc, installed, healthy, attempts>>
        /\ pc = "dump" /\ pc' # "dump"
    BY <1>7 DEF TakeDump, Go, Fail, server, seen
  <2>2. SUFFICES ASSUME schema # healthy.schema \/ Migrating, attempts <= AtLeastOne(KeepDumps)
                 PROVE  PointInv'
    BY <2>1 DEF PointInv, Migrating
  <2>3. PICK i \in 1 .. Len(dumps) :
          i <= attempts - 1 /\ dumps[i].whole /\ dumps[i].schema = healthy.schema
    BY <2>1, <2>2 DEF PointInv, Begun
  <2>4. Begun' = attempts
    BY <2>1 DEF Begun
  <2>5. CASE dumps' = dumps
    <3>1. i <= Begun'
      BY <1>0, <1>a, <2>3, <2>4
    <3> QED
      BY <2>1, <2>3, <2>5, <3>1 DEF PointInv
  <2>6. ASSUME NEW whole \in BOOLEAN, dumps' = <<Dumped(whole)>> \o dumps PROVE PointInv'
    <3>1. Dumped(whole) \in Dump
      BY <2>1, DumpedFacts
    <3>2. i + 1 \in 1 .. Len(dumps') /\ dumps'[i + 1] = dumps[i]
      BY <1>a, <2>6, <3>1, PushFacts
    <3>3. i + 1 <= Begun'
      BY <1>0, <1>a, <2>3, <2>4
    <3> QED
      BY <2>1, <2>3, <3>2, <3>3 DEF PointInv
  <2> QED
    BY <1>7, <2>5, <2>6 DEF TakeDump
<1>8. CASE Backup
  BY <1>8, PointStays DEF Backup, Go, Fail, Migrating, server, seen
<1>9. CASE Stop
  BY <1>9, PointStays DEF Stop, Go, Fail, Migrating, backups, seen
<1>10. CASE InstallDependencies
  BY <1>10, PointStays DEF InstallDependencies, Go, Fail, Migrating, backups, seen
<1>11. CASE InstallWheel
  <2>1. /\ UNCHANGED <<schema, dumps, healthy, attempts, proc>>
        /\ pc = "install_wheel" /\ pc' # "dump"
    BY <1>11 DEF InstallWheel, Go, Fail, backups, seen
  <2>2. ~Migrating'
    BY <1>a, <2>1 DEF FlightInv, Stopped, Migrating
  <2> QED
    BY <2>1, <2>2, PointStays
<1>12. CASE Start
  <2>1. /\ UNCHANGED <<schema, dumps, healthy, attempts, installed, wheel>>
        /\ pc = "start" /\ pc' # "dump" /\ installed = wheel
    BY <1>a, <1>12 DEF Start, Go, Fail, HandOver, FlightInv, backups, request, seen
  <2>2. CASE schema # healthy.schema
    BY <2>1, <2>2 DEF PointInv, Begun
  <2>3. CASE schema = healthy.schema /\ Migrating'
    <3>1. schema < LastRevision[wheel]
      BY <2>1, <2>3 DEF Migrating
    <3>2. dump # None /\ dump = dumps[1] /\ dumps # <<>> /\ dump.whole
      BY <2>1, <3>1, ProtectedStart
    <3>3. /\ healthy.schema <= dump.schema /\ dump.schema <= schema /\ attempts >= 1
      BY <2>1, <3>2 DEF PlanInv, DumpIsNewest, Secured
    <3>4. dump.schema = healthy.schema
      BY <1>0, <2>3, <3>2, <3>3
    <3>5. 1 \in 1 .. Len(dumps)
      BY <1>a, <3>2
    <3>6. 1 <= Begun'
      BY <2>1, <3>3 DEF Begun
    <3> QED
      BY <2>1, <3>2, <3>4, <3>5, <3>6 DEF PointInv
  <2>4. CASE schema = healthy.schema /\ ~Migrating'
    BY <2>1, <2>4 DEF PointInv
  <2> QED
    BY <2>2, <2>3, <2>4
<1>13. CASE Health
  <2>1. UNCHANGED <<schema, proc, installed, dumps>> /\ pc = "health" /\ pc' # "dump"
    BY <1>13 DEF Health, Go, Fail, HandOver, server, backups
  <2>2. CASE UNCHANGED seen
    BY <2>1, <2>2, PointStays DEF Migrating, seen
  <2>3. CASE proc = "up" /\ healthy' = [wheel |-> installed, schema |-> schema, pins |-> pins]
    BY <2>1, <2>3 DEF PointInv, Migrating
  <2> QED
    BY <1>13, <2>2, <2>3 DEF Health
<1>14. CASE Cleanup
  BY <1>14, PointStays DEF Cleanup, Fail, Migrating, server, seen
<1>15. CASE Boot
  <2>1. UNCHANGED <<dumps, healthy, attempts, pc, installed>> /\ proc = "starting"
    BY <1>15 DEF Boot, backups, request, seen
  <2>2. CASE installed # None /\ schema < LastRevision[installed] /\ schema' = schema + 1
    <3>1. Migrating
      BY <2>1, <2>2 DEF Migrating
    <3> QED
      BY <2>1, <3>1 DEF PointInv, Begun
  <2>3. CASE proc' # "starting" /\ UNCHANGED schema
    BY <2>1, <2>3 DEF PointInv, Begun, Migrating
  <2> QED
    BY <1>15, <2>2, <2>3 DEF Boot
<1>16. CASE UNCHANGED vars
  BY <1>16, PointStays DEF vars, server, backups, seen, Migrating
<1> QED
  BY <1>1, <1>2, <1>3, <1>4, <1>5, <1>6, <1>7, <1>8, <1>9, <1>10, <1>11, <1>12, <1>13,
     <1>14, <1>15, <1>16 DEF Next

(* A release that runs has applied all of its revisions. *)
LEMMA PointInit == Init => PointInv
<1> SUFFICES ASSUME Init PROVE PointInv
  OBVIOUS
<1>1. schema = healthy.schema /\ proc # "starting"
  BY DEF Init
<1> QED
  BY <1>1, NotMigrating DEF PointInv

(* The dump of the last healthy schema outlives aidenops_keep_dumps attempts *)
(* to dump, the failed ones included, although each prunes before it writes. *)
THEOREM RollbackPointCorrect == Spec => []RollbackPointKept
<1>1. TypeInv /\ PointInv => RollbackPointKept
  <2> SUFFICES ASSUME TypeInv, PointInv, schema # healthy.schema,
                      attempts <= AtLeastOne(KeepDumps)
               PROVE  \E d \in Range(dumps) : d.whole /\ d.schema = healthy.schema
    BY DEF RollbackPointKept
  <2>1. PICK i \in 1 .. Len(dumps) : dumps[i].whole /\ dumps[i].schema = healthy.schema
    BY DEF PointInv
  <2>2. dumps \in Seq(Dump)
    BY DEF TypeInv, TypeOK
  <2>3. dumps[i] \in Range(dumps)
    BY <2>1, <2>2 DEF Range
  <2> QED
    BY <2>1, <2>3
<1> QED
  BY <1>1, TypeInit, TypeStep, PlanInit, PlanStep, PointInit, PointStep, PTL DEF Spec

-----------------------------------------------------------------------------
(* What a deployment that found the service healthy may rely on: no runbook  *)
(* before its end, the service as it was until it is started, the version    *)
(* recorded and the schema dumped the healthy ones; without a dump, nothing  *)
(* to apply and, after a runbook that offers none, nothing being applied.    *)
DumpIsHealthy == fromHealthy /\ pc \in Secured /\ dump # None => dump.schema = healthy.schema
RunbookInv ==
  /\ pc # "idle" => runbook = "none"
  /\ fromHealthy /\ pc \in BeforeStart => proc # "starting" /\ schema = healthy.schema
  /\ fromHealthy /\ pc \in BeforeStart \ {"start"} => installed = healthy.wheel
  /\ fromHealthy /\ pc \in Secured \ {"backup"} => previous \in {healthy.wheel, None}
  /\ DumpIsHealthy
  /\ fromHealthy /\ pc = "health" /\ dump = None
       => schema = healthy.schema /\ ~(schema < LastRevision[wheel])
  /\ runbook = "reinstall" /\ fromHealthy => ~Migrating
  /\ RunbookRestoresHealthy

(* A step from one stage before the start to another, or to the end without  *)
(* a runbook, that leaves the server and the findings alone.                 *)
LEMMA RunbookStays ==
  ASSUME RunbookInv, pc \in BeforeStart \ {"start"}, pc' \in (BeforeStart \ {"start"}) \cup {"idle"},
         UNCHANGED <<proc, installed, schema, dump, healthy, fromHealthy, runbook>>,
         pc' \in Secured \ {"backup"} => \/ UNCHANGED previous /\ pc \in Secured \ {"backup"}
                                         \/ previous' \in {installed, None},
         pc' \in Secured => pc \in Secured \/ dump = None
  PROVE  RunbookInv'
<1> USE DEF BeforeStart, PastRead, Decided, Secured
<1>1. runbook = "none" /\ runbook' = "none"
  BY DEF RunbookInv
<1>2. RunbookRestoresHealthy'
  BY <1>1 DEF RunbookRestoresHealthy
<1>3. DumpIsHealthy'
  BY DEF RunbookInv, DumpIsHealthy
<1>4. fromHealthy' /\ pc' \in Secured \ {"backup"} => previous' \in {healthy'.wheel, None}
  BY DEF RunbookInv
<1> QED
  BY <1>1, <1>2, <1>3, <1>4 DEF RunbookInv

(* A deployment that is handed over from past the start leads back. *)
LEMMA HandsBack ==
  ASSUME TypeInv, PlanInv, HandOver, runbook = "none", pc \in {"start", "health"},
         UNCHANGED <<schema, dumps, dump, previous, healthy, fromHealthy>>,
         fromHealthy => previous \in {healthy.wheel, None},
         DumpIsHealthy, fromHealthy /\ dump = None => schema = healthy.schema
  PROVE  RunbookRestoresHealthy'
<1>1. runbook' = IF dump # None THEN "restore" ELSE "reinstall"
  BY DEF HandOver
<1>2. CASE dump = None
  BY <1>1, <1>2 DEF RunbookRestoresHealthy
<1>3. CASE dump # None
  <2>1. dumps # <<>> /\ dump = dumps[1] /\ dump.whole
    BY <1>3 DEF PlanInv, DumpIsNewest, Secured
  <2>2. dumps \in Seq(Dump)
    BY DEF TypeInv, TypeOK
  <2>3. 1 \in DOMAIN dumps
    BY <2>1, <2>2
  <2>4. dump \in Range(dumps)
    BY <2>1, <2>3 DEF Range
  <2>5. fromHealthy => dump.schema = healthy.schema
    BY <1>3 DEF DumpIsHealthy, Secured
  <2> QED
    BY <1>1, <1>3, <2>1, <2>4, <2>5 DEF RunbookRestoresHealthy
<1> QED
  BY <1>2, <1>3

(* No deployment, no runbook. *)
LEMMA RunbookInit == Init => RunbookInv
  BY DEF Init, RunbookInv, DumpIsHealthy, RunbookRestoresHealthy

(* Every step keeps what a deployment relies on. *)
LEMMA RunbookStep ==
  TypeInv /\ PlanInv /\ RunbookInv /\ [Next]_vars => RunbookInv'
<1> SUFFICES ASSUME TypeInv, PlanInv, RunbookInv, [Next]_vars PROVE RunbookInv'
  OBVIOUS
<1>0. /\ schema \in Nat /\ healthy.schema \in Nat
      /\ pc # "idle" => LastRevision[wheel] \in Nat
  BY Numbers
<1>a. FlightInv
  BY DEF TypeInv
<1> USE DEF BeforeStart, PastRead, Decided, Secured
<1>1. ASSUME NEW w \in Wheels, Stage(w) PROVE RunbookInv'
  <2>1. pc = "idle" /\ UNCHANGED <<proc, installed, schema, dumps, pc, dump, previous, healthy,
                                   runbook, fromHealthy>>
    BY <1>1 DEF Stage, server, findings, seen
  <2> QED
    BY <2>1 DEF RunbookInv, DumpIsHealthy, RunbookRestoresHealthy, Migrating
<1>2. ASSUME NEW w \in Wheels, NEW yes \in BOOLEAN, Deploy(w, yes) PROVE RunbookInv'
  <2>1. pc' = "preflight" /\ runbook' = "none" /\ UNCHANGED <<proc, installed, schema, healthy>>
    BY <1>2 DEF Deploy, server, seen
  <2>2. fromHealthy' => proc = "up" /\ installed = healthy.wheel /\ schema = healthy.schema
    BY <1>2 DEF Deploy
  <2> QED
    BY <2>1, <2>2 DEF RunbookInv, DumpIsHealthy, RunbookRestoresHealthy
<1>3. CASE Preflight
  <2>1. /\ pc = "preflight" /\ pc' \in {"migrations", "idle"}
        /\ UNCHANGED <<proc, installed, schema, dump, healthy, fromHealthy, runbook>>
    BY <1>3 DEF Preflight, Go, Fail, server, findings, request, seen
  <2> QED
    BY <2>1, RunbookStays
<1>4. CASE Migrations
  <2>1. /\ pc = "migrations" /\ pc' \in {"dependencies", "idle"}
        /\ UNCHANGED <<proc, installed, schema, dump, healthy, fromHealthy, runbook>>
    BY <1>4 DEF Migrations, Go, Fail, server, request, seen
  <2> QED
    BY <2>1, RunbookStays
<1>5. CASE Dependencies
  <2>1. /\ pc = "dependencies" /\ pc' \in {"prune", "backup", "idle"}
        /\ UNCHANGED <<proc, installed, schema, dump, healthy, fromHealthy, runbook>>
    BY <1>5 DEF Dependencies, Decide, Go, Fail, server, request, seen
  <2>2. dump = None
    BY <1>a, <2>1 DEF FlightInv
  <2> QED
    BY <2>1, <2>2, RunbookStays
<1>6. CASE Prune
  <2>1. /\ pc = "prune" /\ pc' \in {"dump", "idle"}
        /\ UNCHANGED <<proc, installed, schema, dump, healthy, fromHealthy, runbook>>
    BY <1>6 DEF Prune, Go, Fail, server, findings, request
  <2> QED
    BY <2>1, RunbookStays
<1>7. CASE TakeDump
  <2>1. /\ pc = "dump" /\ pc' \in {"backup", "idle"} /\ runbook' = "none"
        /\ UNCHANGED <<proc, installed, schema, healthy, fromHealthy, runbook>>
    BY <1>7 DEF TakeDump, Go, Fail, server, request, seen, RunbookInv
  <2>2. pc' = "backup" => dump'.schema = schema
    <3>1. Dumped(TRUE).schema = schema
      BY DEF Dumped
    <3> QED
      BY <1>7, <3>1 DEF TakeDump, Go, Fail
  <2>3. DumpIsHealthy'
    BY <2>1, <2>2 DEF DumpIsHealthy, RunbookInv
  <2> QED
    BY <2>1, <2>3 DEF RunbookInv, RunbookRestoresHealthy
<1>8. CASE Backup
  <2>1. /\ pc = "backup" /\ pc' \in {"stop", "idle"}
        /\ pc' = "stop" => previous' \in {installed, None}
        /\ UNCHANGED <<proc, installed, schema, dump, healthy, fromHealthy, runbook>>
    BY <1>8 DEF Backup, Go, Fail, server, request, seen
  <2> QED
    BY <2>1, RunbookStays
<1>9. CASE Stop
  <2>1. /\ pc = "stop" /\ pc' \in {"install_dependencies", "install_wheel", "idle"}
        /\ proc' \in {proc, "down"}
        /\ UNCHANGED <<installed, schema, dump, previous, healthy, fromHealthy, runbook>>
    BY <1>9 DEF Stop, Go, Fail, findings, request, seen
  <2>2. runbook' = "none" /\ DumpIsHealthy'
    BY <2>1 DEF RunbookInv, DumpIsHealthy
  <2> QED
    BY <2>1, <2>2 DEF RunbookInv, RunbookRestoresHealthy
<1>10. CASE InstallDependencies
  <2>1. /\ pc = "install_dependencies" /\ pc' \in {"install_wheel", "idle"}
        /\ UNCHANGED <<proc, installed, schema, dump, previous, healthy, fromHealthy, runbook>>
    BY <1>10 DEF InstallDependencies, Go, Fail, findings, request, seen
  <2> QED
    BY <2>1, RunbookStays
<1>11. CASE InstallWheel
  <2>1. /\ pc = "install_wheel" /\ pc' \in {"start", "idle"}
        /\ UNCHANGED <<proc, schema, dump, previous, healthy, fromHealthy, runbook>>
    BY <1>11 DEF InstallWheel, Go, Fail, findings, request, seen
  <2>2. runbook' = "none" /\ DumpIsHealthy'
    BY <2>1 DEF RunbookInv, DumpIsHealthy
  <2> QED
    BY <2>1, <2>2 DEF RunbookInv, RunbookRestoresHealthy
<1>12. CASE Start
  <2>1. /\ pc = "start" /\ pc' \in {"health", "idle"} /\ runbook = "none" /\ installed = wheel
        /\ UNCHANGED <<installed, schema, dumps, dump, wheel, previous, healthy, fromHealthy>>
    BY <1>12, <1>a DEF Start, Go, Fail, HandOver, backups, findings, request, seen, RunbookInv,
       FlightInv
  <2>2. DumpIsHealthy' /\ (fromHealthy => schema = healthy.schema
                                          /\ previous \in {healthy.wheel, None})
    BY <2>1 DEF RunbookInv, DumpIsHealthy
  <2>3. dump = None => ~(schema < LastRevision[wheel])
    BY <2>1, ProtectedStart
  <2>4. RunbookRestoresHealthy'
    <3>1. CASE HandOver
      BY <2>1, <2>2, <3>1, HandsBack DEF RunbookInv
    <3>2. CASE runbook' = runbook
      BY <2>1, <3>2 DEF RunbookRestoresHealthy
    <3> QED
      BY <1>12, <3>1, <3>2 DEF Start, Go, Fail
  <2>5. runbook' = "reinstall" => dump = None
    BY <1>12, <2>1 DEF Start, Go, Fail, HandOver
  <2>6. pc' # "idle" => runbook' = "none"
    BY <1>12, <2>1 DEF Start, Go, Fail, HandOver
  <2> QED
    BY <2>1, <2>2, <2>3, <2>4, <2>5, <2>6 DEF RunbookInv, Migrating
<1>13. CASE Health
  <2>1. /\ pc = "health" /\ pc' \in {"cleanup", "idle"} /\ runbook = "none" /\ installed = wheel
        /\ UNCHANGED <<proc, installed, schema, dumps, dump, wheel, previous, fromHealthy>>
    BY <1>13, <1>a DEF Health, Go, Fail, HandOver, server, backups, findings, request, RunbookInv,
       FlightInv
  <2>2. CASE Go("cleanup")
    <3>1. pc' = "cleanup" /\ runbook' = "none"
      BY <2>1, <2>2 DEF Go
    <3> QED
      BY <3>1 DEF RunbookInv, DumpIsHealthy, RunbookRestoresHealthy
  <2>3. CASE (HandOver \/ Fail) /\ UNCHANGED seen
    <3>1. pc' = "idle" /\ UNCHANGED healthy
      BY <2>3 DEF HandOver, Fail, seen
    <3>2. CASE HandOver
      <4>1. RunbookRestoresHealthy'
        BY <2>1, <3>1, <3>2, HandsBack DEF RunbookInv
      <4>2. runbook' = "reinstall" => dump = None
        BY <3>2 DEF HandOver
      <4> QED
        BY <2>1, <3>1, <4>1, <4>2 DEF RunbookInv, DumpIsHealthy, Migrating
    <3>3. CASE Fail
      <4>1. runbook' = "none"
        BY <2>1, <3>3 DEF Fail
      <4> QED
        BY <3>1, <4>1 DEF RunbookInv, DumpIsHealthy, RunbookRestoresHealthy
    <3> QED
      BY <2>3, <3>2, <3>3
  <2> QED
    BY <1>13, <2>2, <2>3 DEF Health
<1>14. CASE Cleanup
  <2>1. pc' = "idle" /\ runbook' = "none"
    BY <1>14 DEF Cleanup, Fail, RunbookInv
  <2> QED
    BY <2>1 DEF RunbookInv, DumpIsHealthy, RunbookRestoresHealthy
<1>15. CASE Boot
  <2>1. /\ proc = "starting"
        /\ UNCHANGED <<installed, dumps, pc, wheel, dump, previous, runbook, healthy, fromHealthy>>
    BY <1>15 DEF Boot, backups, findings, request, seen
  <2>2. schema' # schema => Migrating
    BY <1>15 DEF Boot, Migrating
  <2>3. Migrating' => Migrating
    BY <1>15, <2>1 DEF Boot, Migrating
  <2>4. fromHealthy => pc \notin BeforeStart
    BY <2>1 DEF RunbookInv
  <2>5. fromHealthy /\ pc = "health" /\ dump = None => schema' = schema
    <3>1. SUFFICES ASSUME fromHealthy, pc = "health", dump = None PROVE ~Migrating
      BY <2>2
    <3> QED
      BY <1>a, <3>1 DEF RunbookInv, Migrating, FlightInv
  <2>6. RunbookRestoresHealthy'
    BY <2>1, <2>2 DEF RunbookInv, RunbookRestoresHealthy
  <2>7. DumpIsHealthy'
    BY <2>1 DEF RunbookInv, DumpIsHealthy
  <2> QED
    BY <2>1, <2>3, <2>4, <2>5, <2>6, <2>7 DEF RunbookInv
<1>16. CASE UNCHANGED vars
  BY <1>16 DEF vars, server, backups, findings, request, seen, RunbookInv, DumpIsHealthy,
     RunbookRestoresHealthy, Migrating
<1> QED
  BY <1>1, <1>2, <1>3, <1>4, <1>5, <1>6, <1>7, <1>8, <1>9, <1>10, <1>11, <1>12, <1>13,
     <1>14, <1>15, <1>16 DEF Next

(* A deployment that found the service healthy and hands over names the      *)
(* wheel that ran and a whole dump of its schema, or the schema is still it. *)
THEOREM RunbookCorrect == Spec => []RunbookRestoresHealthy
<1>1. RunbookInv => RunbookRestoresHealthy
  BY DEF RunbookInv
<1> QED
  BY <1>1, TypeInit, TypeStep, PlanInit, PlanStep, RunbookInit, RunbookStep, PTL DEF Spec

-----------------------------------------------------------------------------
(* pending() over any history, of which Backend uses the linear ones.        *)

(* Every set of numbers has a least one. *)
Below == {ss \in Nat \X Nat : ss[1] < ss[2]}

LEMMA LeastNumber ==
  ASSUME NEW T \in SUBSET Nat, T # {}
  PROVE  \E m \in T : \A k \in T : m <= k
<1>1. IsWellFoundedOn(Below, Nat)
  BY NatLessThanWellFounded DEF OpToRel, Below
<1>2. PICK m \in T : \A k \in T : ~(<<k, m>> \in Below)
  BY <1>1, WFMin, Zenon
<1>3. ASSUME NEW k \in Nat, NEW l \in Nat, k < l PROVE <<k, l>> \in Below
  BY <1>3 DEF Below
<1>4. ASSUME NEW k \in T PROVE m <= k
  <2>1. m \in Nat /\ k \in Nat /\ ~(<<k, m>> \in Below)
    BY <1>2
  <2>2. ~(k < m)
    BY <1>3, <2>1, Zenon
  <2> QED
    BY <2>1, <2>2
<1> QED
  BY <1>4

(* The one parent that is read, and the one child the walk follows. *)
LEMMA ParentRead ==
  ASSUME WalkTypeOK, NEW r \in Revisions
  PROVE  /\ DownRevision(r) \in Revisions \cup {Root}
         /\ \A p \in Revisions : DownRevision(r) = p <=> parents[r] = {p}
         /\ parents[r] = {} => DownRevision(r) = Root
<1> DEFINE d == DownRevision(r)
<1>1. parents[r] \subseteq Revisions /\ Root \notin Revisions
  BY RevisionsAssumption DEF WalkTypeOK
<1>2. CASE \E p \in parents[r] : parents[r] = {p}
  <2>1. PICK p \in parents[r] : parents[r] = {p}
    BY <1>2
  <2>2. d = p
    BY <1>2, <2>1 DEF DownRevision
  <2> QED
    BY <1>1, <2>1, <2>2
<1>3. CASE ~ \E p \in parents[r] : parents[r] = {p}
  <2>1. d = Root
    BY <1>3 DEF DownRevision
  <2> QED
    BY <1>1, <1>3, <2>1
<1> QED
  BY <1>2, <1>3

LEMMA ChildFollowed ==
  ASSUME NEW d, Children(d) # {}
  PROVE  ByDown(d) \in Revisions /\ DownRevision(ByDown(d)) = d
<1>1. Children(d) \in SUBSET Nat
  BY RevisionsAssumption DEF Children
<1>2. \E r \in Children(d) : \A s \in Children(d) : r <= s
  BY <1>1, LeastNumber
<1>3. ByDown(d) \in Children(d)
  BY <1>2 DEF ByDown
<1> QED
  BY <1>3 DEF Children

(* Until it is refused, the walk is a chain of children from the database's  *)
(* revision to the cursor, and a revision that is not of the wheel begins    *)
(* none.                                                                     *)
WalkInv ==
  /\ verdict = "checking" => ordered = <<>>
  /\ verdict \in {"walking", "done", "cycle"} => current \in Revisions \cup {Root}
  /\ verdict = "ahead" => ordered = <<>>
  /\ cursor = IF ordered = <<>> THEN current ELSE ordered[Len(ordered)]
  /\ \A i \in 1 .. Len(ordered) :
       DownRevision(ordered[i]) = IF i = 1 THEN current ELSE ordered[i - 1]
  /\ verdict = "done" => Children(cursor) = {}
  /\ verdict = "cycle" => \E i \in 1 .. Len(ordered) : DownRevision(ordered[i]) = cursor

WalkType == WalkTypeOK /\ WalkInv

(* A walk that is longer by one. *)
LEMMA WalkLonger ==
  ASSUME NEW S, NEW s \in Seq(S), NEW e \in S
  PROVE  /\ Append(s, e) \in Seq(S) /\ Len(Append(s, e)) = Len(s) + 1 /\ Append(s, e) # <<>>
         /\ Len(s) \in Nat /\ Append(s, e)[Len(s) + 1] = e
         /\ \A i \in 1 .. Len(s) : Append(s, e)[i] = s[i]
<1>1. /\ Append(s, e) \in Seq(S) /\ Len(Append(s, e)) = Len(s) + 1 /\ Len(s) \in Nat
      /\ \A i \in 1 .. Len(s) + 1 : Append(s, e)[i] = IF i <= Len(s) THEN s[i] ELSE e
  BY AppendProperties
<1>2. Append(s, e) # <<>>
  BY <1>1, EmptySeq
<1> QED
  BY <1>1, <1>2

LEMMA SeenFacts ==
  ASSUME WalkTypeOK
  PROVE  /\ Len(ordered) \in Nat /\ \A i \in 1 .. Len(ordered) : ordered[i] \in Revisions
         /\ Seen = {ordered[i] : i \in 1 .. Len(ordered)}
         /\ \A i, j \in 1 .. Len(ordered) : ordered[i] = ordered[j] => i = j
         /\ ordered # <<>> <=> 1 \in 1 .. Len(ordered)
         /\ DOMAIN ordered = 1 .. Len(ordered)
<1>1. ordered \in Seq(Revisions)
  BY DEF WalkTypeOK
<1>2. /\ Len(ordered) \in Nat /\ \A i \in 1 .. Len(ordered) : ordered[i] \in Revisions
      /\ DOMAIN ordered = 1 .. Len(ordered)
  BY <1>1
<1>3. ordered # <<>> <=> Len(ordered) # 0
  BY <1>1, EmptySeq
<1>4. \A i, j \in 1 .. Len(ordered) : ordered[i] = ordered[j] => i = j
  BY <1>2 DEF WalkTypeOK, IsInjective
<1>5. Seen = {ordered[i] : i \in 1 .. Len(ordered)}
  BY <1>2 DEF Seen, ToSet
<1> QED
  BY <1>2, <1>3, <1>4, <1>5

LEMMA WalkTypeInit == WalkInit => WalkType
<1> SUFFICES ASSUME WalkInit PROVE WalkType
  OBVIOUS
<1>1. ordered = <<>> /\ verdict = "checking" /\ cursor = current
  BY DEF WalkInit
<1>2. parents \in [Revisions -> SUBSET Revisions]
  BY DEF WalkInit
<1>3. IsInjective(<<>>)
  BY DEF IsInjective
<1>4. WalkTypeOK
  BY <1>1, <1>2, <1>3 DEF WalkInit, WalkTypeOK
<1>5. Len(ordered) = 0
  BY <1>1
<1> QED
  BY <1>1, <1>4, <1>5 DEF WalkType, WalkInv

LEMMA WalkTypeStep ==
  WalkType /\ [WalkNext]_walkVars => WalkType'
<1> SUFFICES ASSUME WalkType, [WalkNext]_walkVars PROVE WalkType'
  OBVIOUS
<1> USE DEF WalkType
<1> DEFINE n == Len(ordered)
           next == ByDown(cursor)
<1>1. ASSUME UNCHANGED <<parents, current, cursor, ordered>>
      PROVE  /\ \A r \in Revisions : DownRevision(r)' = DownRevision(r)
             /\ Children(cursor)' = Children(cursor)
             /\ verdict' \in {"checking", "walking", "done", "ahead", "cycle"} => WalkTypeOK'
  <2>1. \A r \in Revisions : DownRevision(r)' = DownRevision(r)
    BY <1>1 DEF DownRevision
  <2>2. Children(cursor)' = Children(cursor)
    BY <1>1, <2>1 DEF Children
  <2> QED
    BY <1>1, <2>1, <2>2 DEF WalkTypeOK
<1>2. /\ n \in Nat /\ \A i \in 1 .. n : ordered[i] \in Revisions
      /\ Seen = {ordered[i] : i \in 1 .. n}
  BY SeenFacts
<1>3. CASE Check
  <2>1. /\ UNCHANGED <<parents, current, cursor, ordered>>
        /\ verdict = "checking"
        /\ verdict' = IF current \in Revisions \cup {Root} THEN "walking" ELSE "ahead"
    BY <1>3 DEF Check
  <2> QED
    BY <1>1, <1>2, <2>1 DEF WalkInv
<1>4. CASE Walk
  <2>1. /\ verdict = "walking" /\ Children(cursor) # {} /\ next \notin Seen
        /\ ordered' = Append(ordered, next) /\ cursor' = next
        /\ UNCHANGED <<parents, current, verdict>>
    BY <1>4 DEF Walk
  <2>2. next \in Revisions /\ DownRevision(next) = cursor
    BY <2>1, ChildFollowed
  <2>3. ordered \in Seq(Revisions)
    BY DEF WalkTypeOK
  <2>4. /\ ordered' \in Seq(Revisions) /\ Len(ordered') = n + 1 /\ ordered' # <<>>
        /\ ordered'[n + 1] = next /\ \A i \in 1 .. n : ordered'[i] = ordered[i]
    BY <2>1, <2>2, <2>3, WalkLonger
  <2>5. \A r \in Revisions : DownRevision(r)' = DownRevision(r)
    BY <2>1 DEF DownRevision
  <2> HIDE DEF n, next
  <2>6. WalkTypeOK'
    <3>1. DOMAIN ordered' = 1 .. n + 1
      BY <2>4
    <3>2. ASSUME NEW i \in 1 .. n + 1, NEW j \in 1 .. n + 1, ordered'[i] = ordered'[j]
          PROVE  i = j
      <4>1. \A k \in 1 .. n : ordered'[k] = ordered[k] /\ ordered'[k] # next
        BY <1>2, <2>1, <2>4
      <4>2. CASE i = n + 1 \/ j = n + 1
        BY <1>2, <2>4, <3>2, <4>1, <4>2
      <4>3. CASE i \in 1 .. n /\ j \in 1 .. n
        <5>1. ordered[i] = ordered[j]
          BY <3>2, <4>1, <4>3
        <5> QED
          BY <4>3, <5>1, SeenFacts DEF n
      <4> QED
        BY <1>2, <4>2, <4>3
    <3>3. IsInjective(ordered')
      BY <3>1, <3>2 DEF IsInjective
    <3> QED
      BY <2>1, <2>2, <2>4, <3>3 DEF WalkTypeOK
  <2>7. cursor = IF ordered = <<>> THEN current ELSE ordered[n]
    BY DEF WalkInv, n
  <2>8. ordered = <<>> <=> n = 0
    BY <2>3, EmptySeq DEF n
  <2>9. ASSUME NEW i \in 1 .. n + 1
        PROVE  DownRevision(ordered[i])' = IF i = 1 THEN current ELSE ordered'[i - 1]
    <3>1. CASE i = n + 1
      <4>1. DownRevision(ordered[i])' = cursor
        BY <2>2, <2>4, <2>5, <3>1
      <4>2. CASE n = 0
        BY <2>7, <2>8, <3>1, <4>1, <4>2
      <4>3. CASE n # 0
        <5>1. i # 1 /\ i - 1 = n /\ n \in 1 .. n
          BY <1>2, <3>1, <4>3
        <5> QED
          BY <2>4, <2>7, <2>8, <4>1, <4>3, <5>1
      <4> QED
        BY <4>2, <4>3
    <3>2. CASE i # n + 1
      <4>1. i \in 1 .. n /\ (i # 1 => i - 1 \in 1 .. n)
        BY <1>2, <3>2
      <4>2. DownRevision(ordered[i]) = IF i = 1 THEN current ELSE ordered[i - 1]
        BY <4>1 DEF WalkInv, n
      <4> QED
        BY <1>2, <2>4, <2>5, <4>1, <4>2
    <3> QED
      BY <3>1, <3>2
  <2> QED
    BY <2>1, <2>4, <2>6, <2>9 DEF WalkInv
<1>5. CASE Cycle
  <2>1. /\ UNCHANGED <<parents, current, cursor, ordered>>
        /\ verdict = "walking" /\ verdict' = "cycle"
        /\ Children(cursor) # {} /\ next \in Seen
    BY <1>5 DEF Cycle
  <2>2. DownRevision(next) = cursor
    BY <2>1, ChildFollowed
  <2>3. PICK i \in 1 .. n : ordered[i] = next
    BY <1>2, <2>1
  <2> HIDE DEF next
  <2> QED
    BY <1>1, <1>2, <2>1, <2>2, <2>3 DEF WalkInv
<1>6. CASE Return
  <2>1. /\ UNCHANGED <<parents, current, cursor, ordered>>
        /\ verdict = "walking" /\ verdict' = "done" /\ Children(cursor) = {}
    BY <1>6 DEF Return
  <2> QED
    BY <1>1, <1>2, <2>1 DEF WalkInv
<1>7. CASE UNCHANGED walkVars
  <2>1. UNCHANGED <<parents, current, cursor, ordered, verdict>>
    BY <1>7 DEF walkVars
  <2>2. verdict' \in {"checking", "walking", "done", "ahead", "cycle"}
    BY <2>1 DEF WalkTypeOK
  <2> QED
    BY <1>1, <1>2, <2>1, <2>2 DEF WalkInv
<1> QED
  BY <1>3, <1>4, <1>5, <1>6, <1>7 DEF WalkNext

-----------------------------------------------------------------------------
(* The ancestors of a revision: itself, and what its parents have.           *)
LEMMA AncestorsFacts ==
  ASSUME WalkTypeOK, NEW r \in Revisions
  PROVE  /\ r \in Ancestors(r) /\ Ancestors(r) \subseteq Revisions
         /\ \A x \in Ancestors(r) : Ancestors(x) \subseteq Ancestors(r)
         /\ \A x \in Ancestors(r) : parents[x] \subseteq Ancestors(r)
<1>1. \A x \in Revisions : parents[x] \subseteq Revisions
  BY DEF WalkTypeOK
<1>2. r \in Ancestors(r) /\ Ancestors(r) \subseteq Revisions
  BY DEF Ancestors
<1>3. ASSUME NEW x \in Ancestors(r) PROVE Ancestors(x) \subseteq Ancestors(r)
  BY <1>2, <1>3 DEF Ancestors
<1>4. ASSUME NEW x \in Ancestors(r), NEW y \in parents[x] PROVE y \in Ancestors(r)
  <2>1. y \in Revisions
    BY <1>1, <1>2, <1>4
  <2>2. ASSUME NEW S \in SUBSET Revisions, r \in S, ClosedUnder(S) PROVE y \in S
    <3>1. x \in S
      BY <1>4, <2>2 DEF Ancestors
    <3> QED
      BY <1>4, <2>2, <3>1 DEF ClosedUnder
  <2> QED
    BY <2>1, <2>2 DEF Ancestors
<1> QED
  BY <1>2, <1>3, <1>4

(* Another ancestor of r is one of a parent of r ... *)
LEMMA AncestorOfParent ==
  ASSUME WalkTypeOK, NEW r \in Revisions, NEW a \in Ancestors(r), a # r
  PROVE  \E p \in parents[r] : p \in Revisions /\ a \in Ancestors(p)
<1>1. SUFFICES ASSUME \A p \in parents[r] : a \notin Ancestors(p) PROVE FALSE
  BY DEF WalkTypeOK
<1> DEFINE S == {r} \cup {x \in Revisions : a \notin Ancestors(x)}
<1>2. S \in SUBSET Revisions /\ r \in S
  OBVIOUS
<1>3. ASSUME NEW x \in S, NEW p \in parents[x] PROVE p \in S
  <2>1. x \in Revisions /\ p \in Revisions
    BY <1>2, <1>3 DEF WalkTypeOK
  <2>2. CASE x = r
    BY <1>1, <1>3, <2>1, <2>2
  <2>3. CASE a \notin Ancestors(x)
    <3>1. x \in Ancestors(x)
      BY <2>1, AncestorsFacts
    <3>2. p \in Ancestors(x)
      BY <1>3, <2>1, <3>1, AncestorsFacts
    <3>3. Ancestors(p) \subseteq Ancestors(x)
      BY <2>1, <3>2, AncestorsFacts
    <3> QED
      BY <2>1, <2>3, <3>3
  <2> QED
    BY <1>3, <2>2, <2>3
<1>4. ClosedUnder(S)
  BY <1>3 DEF ClosedUnder
<1>5. a \in S
  BY <1>2, <1>4 DEF Ancestors
<1>6. a \in Revisions /\ a \in Ancestors(a)
  BY AncestorsFacts
<1> QED
  BY <1>5, <1>6

(* ... and the parent of one. *)
LEMMA AncestorIsParent ==
  ASSUME WalkTypeOK, NEW r \in Revisions, NEW a \in Ancestors(r), a # r
  PROVE  \E c \in Ancestors(r) : a \in parents[c]
<1>1. SUFFICES ASSUME \A c \in Ancestors(r) : a \notin parents[c] PROVE FALSE
  OBVIOUS
<1> DEFINE S == Ancestors(r) \ {a}
<1>2. r \in Ancestors(r) /\ Ancestors(r) \subseteq Revisions
  BY AncestorsFacts
<1>3. \A x \in S : parents[x] \subseteq S
  BY <1>1, AncestorsFacts
<1>4. S \in SUBSET Revisions /\ r \in S /\ ClosedUnder(S)
  BY <1>2, <1>3 DEF ClosedUnder
<1>5. a \in S
  BY <1>4 DEF Ancestors
<1> QED
  BY <1>5

(* Each revision that the walk has found is the child of the one before.     *)
LEMMA WalkParents ==
  ASSUME WalkType
  PROVE  /\ \A i \in 1 .. Len(ordered) : i # 1 => parents[ordered[i]] = {ordered[i - 1]}
         /\ ordered # <<>> /\ current \in Revisions => parents[ordered[1]] = {current}
<1> USE DEF WalkType
<1>1. ASSUME NEW i \in 1 .. Len(ordered), i # 1 PROVE parents[ordered[i]] = {ordered[i - 1]}
  <2>1. i - 1 \in 1 .. Len(ordered)
    BY <1>1, SeenFacts
  <2>2. ordered[i] \in Revisions /\ ordered[i - 1] \in Revisions
    BY <2>1, SeenFacts
  <2>3. DownRevision(ordered[i]) = ordered[i - 1]
    BY <1>1 DEF WalkInv
  <2> QED
    BY <2>2, <2>3, ParentRead
<1>2. ASSUME ordered # <<>>, current \in Revisions PROVE parents[ordered[1]] = {current}
  <2>1. 1 \in 1 .. Len(ordered) /\ ordered[1] \in Revisions
    BY <1>2, SeenFacts
  <2>2. DownRevision(ordered[1]) = current
    BY <2>1 DEF WalkInv
  <2> QED
    BY <1>2, <2>1, <2>2, ParentRead
<1> QED
  BY <1>1, <1>2

(* A walk that closes a cycle has found one. *)
LEMMA CycleFound ==
  ASSUME WalkType, verdict = "cycle"
  PROVE  ~Acyclic
<1> USE DEF WalkType
<1> DEFINE n == Len(ordered)
<1>1. PICK k \in 1 .. n : DownRevision(ordered[k]) = cursor
  BY DEF WalkInv
<1>2. n \in Nat /\ k \in Nat /\ 1 <= k /\ k <= n /\ \A i \in 1 .. n : ordered[i] \in Revisions
  BY SeenFacts
<1>3. ordered # <<>> /\ cursor = ordered[n] /\ n \in 1 .. n
  <2>1. 1 \in 1 .. n
    BY <1>2
  <2>2. ordered # <<>>
    BY <2>1, SeenFacts
  <2> QED
    BY <1>2, <2>2 DEF WalkInv
<1> HIDE DEF n
<1> DEFINE S == {ordered[i] : i \in k .. n}
<1>4. k .. n \subseteq 1 .. n
  BY <1>2
<1>5. ordered[n] \in S
  <2>1. n \in k .. n
    BY <1>2
  <2> QED
    BY <2>1
<1>6. ASSUME NEW i \in k .. n PROVE parents[ordered[i]] \cap S # {}
  <2>0. i \in 1 .. n
    BY <1>4
  <2>1. CASE i = k
    <3>1. ordered[k] \in Revisions /\ ordered[n] \in Revisions
      BY <1>2, <1>3
    <3>2. parents[ordered[k]] = {ordered[n]}
      BY <1>1, <1>3, <3>1, ParentRead
    <3> QED
      BY <1>5, <2>1, <3>2
  <2>2. CASE i # k
    <3>1. i # 1 /\ i - 1 \in k .. n
      BY <1>2, <2>2
    <3>2. parents[ordered[i]] = {ordered[i - 1]}
      BY <2>0, <3>1, WalkParents DEF n
    <3> QED
      BY <3>1, <3>2
  <2> QED
    BY <2>1, <2>2
<1>7. \A r \in S : parents[r] \cap S # {}
  BY <1>6
<1>8. ASSUME NEW r \in S PROVE r \in Revisions
  <2>1. PICK i \in k .. n : r = ordered[i]
    BY <1>8
  <2> QED
    BY <1>2, <1>4, <2>1
<1> HIDE DEF S
<1>9. S \in (SUBSET Revisions) \ {{}}
  BY <1>5, <1>8
<1> QED
  BY <1>7, <1>9 DEF Acyclic

(* Without a cycle, nothing that is applied is found. *)
LEMMA FoundUnapplied ==
  ASSUME WalkType, Acyclic
  PROVE  Seen \subseteq Unapplied
<1> USE DEF WalkType
<1>1. /\ Len(ordered) \in Nat /\ \A i \in 1 .. Len(ordered) : ordered[i] \in Revisions
      /\ Seen = {ordered[i] : i \in 1 .. Len(ordered)}
  BY SeenFacts
<1>2. CASE current \in Revisions
  <2> DEFINE A == Ancestors(current)
  <2>1. SUFFICES ASSUME NEW n \in 1 .. Len(ordered), ordered[n] \in A PROVE FALSE
    <3>1. Unapplied = Revisions \ A
      BY <1>2, RevisionsAssumption DEF Unapplied
    <3> QED
      BY <1>1, <2>1, <3>1
  <2> DEFINE a == ordered[n]
             S == {ordered[i] : i \in 1 .. n} \cup {x \in A : a \in Ancestors(x)}
  <2>2. A \subseteq Revisions /\ current \in A /\ current \in S
    BY <1>2, <2>1, AncestorsFacts
  <2>3. n \in Nat /\ 1 <= n /\ 1 .. n \subseteq 1 .. Len(ordered)
    BY <1>1
  <2>4. ASSUME NEW r \in S PROVE r \in Revisions
    <3>1. CASE r \in A
      BY <2>2, <3>1
    <3>2. CASE r \notin A
      <4>1. PICK i \in 1 .. n : r = ordered[i]
        BY <2>4, <3>2
      <4> QED
        BY <1>1, <2>3, <4>1
    <3> QED
      BY <3>1, <3>2
  <2>5. ASSUME NEW i \in 1 .. n PROVE parents[ordered[i]] \cap S # {}
    <3>1. CASE i = 1
      <4>1. 1 \in 1 .. Len(ordered)
        BY <2>3
      <4>2. ordered # <<>>
        BY <4>1, SeenFacts
      <4>3. parents[ordered[1]] = {current}
        BY <1>2, <4>2, WalkParents
      <4> QED
        BY <2>2, <3>1, <4>3
    <3>2. CASE i # 1
      <4>1. i - 1 \in 1 .. n /\ i \in 1 .. Len(ordered)
        BY <2>3, <3>2
      <4>2. parents[ordered[i]] = {ordered[i - 1]}
        BY <3>2, <4>1, WalkParents
      <4> QED
        BY <4>1, <4>2
    <3> QED
      BY <3>1, <3>2
  <2>6. ASSUME NEW x \in A, a \in Ancestors(x) PROVE parents[x] \cap S # {}
    <3>1. CASE x = a
      <4>1. n \in 1 .. n
        BY <2>3
      <4> QED
        BY <2>5, <3>1, <4>1
    <3>2. CASE x # a
      <4>1. x \in Revisions
        BY <2>2
      <4>2. PICK p \in parents[x] : a \in Ancestors(p)
        BY <2>6, <3>2, <4>1, AncestorOfParent
      <4>3. p \in A
        BY <1>2, AncestorsFacts
      <4> QED
        BY <4>2, <4>3
    <3> QED
      BY <3>1, <3>2
  <2>7. \A r \in S : parents[r] \cap S # {}
    BY <2>5, <2>6
  <2> HIDE DEF S
  <2>8. S \in (SUBSET Revisions) \ {{}}
    BY <2>2, <2>4
  <2> QED
    BY <2>7, <2>8 DEF Acyclic
<1>3. CASE current \notin Revisions
  <2>1. CASE current = Root
    BY <1>1, <2>1 DEF Unapplied
  <2>2. CASE current # Root
    <3>1. ordered = <<>>
      BY <1>3, <2>2 DEF WalkInv, WalkTypeOK
    <3>2. ~ (1 \in 1 .. Len(ordered))
      BY <3>1, SeenFacts
    <3>3. Seen = {}
      BY <1>1, <3>2
    <3> QED
      BY <3>3
  <2> QED
    BY <2>1, <2>2
<1> QED
  BY <1>2, <1>3

(* The revision the walk began from, and a revision of its children.         *)
LEMMA FirstFound ==
  ASSUME WalkType, ordered # <<>>
  PROVE  /\ 1 \in 1 .. Len(ordered) /\ ordered[1] \in Revisions
         /\ DownRevision(ordered[1]) = current
         /\ ordered[Len(ordered)] = cursor
<1> USE DEF WalkType
<1>1. 1 \in 1 .. Len(ordered) /\ ordered[1] \in Revisions
  BY SeenFacts
<1> QED
  BY <1>1 DEF WalkInv

(* A revision has no parent or one, and is no child of the cursor once the   *)
(* walk has ended.                                                           *)
LEMMA LinearParents ==
  ASSUME WalkType, Linear, NEW r \in Revisions
  PROVE  /\ parents[r] = {} \/ \E p \in Revisions : parents[r] = {p}
         /\ verdict = "done" => cursor # DownRevision(r)
         /\ \A s \in Revisions : parents[r] = parents[s] => r = s
<1> USE DEF WalkType
<1>1. parents[r] \subseteq Revisions
  BY DEF WalkTypeOK
<1>2. \A p, q \in parents[r] : p = q
  BY DEF Linear
<1>3. parents[r] = {} \/ \E p \in Revisions : parents[r] = {p}
  BY <1>1, <1>2
<1>4. ASSUME verdict = "done" PROVE cursor # DownRevision(r)
  <2>1. Children(cursor) = {}
    BY <1>4 DEF WalkInv
  <2> QED
    BY <2>1 DEF Children
<1>5. \A s \in Revisions : parents[r] = parents[s] => r = s
  BY DEF Linear
<1> QED
  BY <1>3, <1>4, <1>5

(* In a linear history each revision is found after its parent ...           *)
LEMMA FoundInOrder ==
  ASSUME WalkType, Linear,
         NEW i \in 1 .. Len(ordered), NEW j \in 1 .. Len(ordered),
         ordered[i] \in parents[ordered[j]]
  PROVE  i < j
<1> USE DEF WalkType
<1>1. /\ Len(ordered) \in Nat /\ ordered[i] \in Revisions /\ ordered[j] \in Revisions
      /\ ordered # <<>>
  <2>1. Len(ordered) \in Nat
    BY SeenFacts
  <2>2. 1 \in 1 .. Len(ordered)
    BY <2>1
  <2> QED
    BY <2>1, <2>2, SeenFacts
<1>2. CASE j # 1
  <2>1. j - 1 \in 1 .. Len(ordered) /\ parents[ordered[j]] = {ordered[j - 1]}
    BY <1>1, <1>2, WalkParents
  <2>2. ordered[i] = ordered[j - 1]
    BY <2>1
  <2>3. i = j - 1
    BY <2>1, <2>2, SeenFacts
  <2> QED
    BY <1>1, <2>3
<1>3. CASE j = 1
  <2>1. CASE current \in Revisions
    <3>1. ordered[i] = current
      BY <1>1, <1>3, <2>1, WalkParents
    <3>2. ordered[i] \in Seen
      BY SeenFacts
    <3>3. Seen \subseteq Unapplied
      BY FoundUnapplied DEF Linear
    <3>4. Unapplied = Revisions \ Ancestors(current)
      BY <2>1, RevisionsAssumption DEF Unapplied
    <3> QED
      BY <2>1, <3>1, <3>2, <3>3, <3>4, AncestorsFacts
  <2>2. CASE current \notin Revisions
    <3>1. DownRevision(ordered[1]) \notin Revisions
      BY <1>1, <2>2, FirstFound
    <3>2. PICK p \in Revisions : parents[ordered[1]] = {p}
      BY <1>1, <1>3, LinearParents
    <3>3. DownRevision(ordered[1]) = p
      BY <1>1, <1>3, <3>2, ParentRead
    <3> QED
      BY <3>1, <3>3
  <2> QED
    BY <2>1, <2>2
<1> QED
  BY <1>2, <1>3

(* ... and when the walk has ended, the child of what was found is found ... *)
LEMMA ChildFound ==
  ASSUME WalkType, Linear, verdict = "done",
         NEW r \in Revisions, NEW p \in Seen, parents[r] = {p}
  PROVE  r \in Seen
<1> USE DEF WalkType
<1>1. PICK k \in 1 .. Len(ordered) : p = ordered[k]
  BY SeenFacts
<1>2. p \in Revisions /\ Len(ordered) \in Nat
  BY <1>1, SeenFacts
<1>3. CASE k = Len(ordered)
  <2>1. ordered # <<>>
    <3>1. 1 \in 1 .. Len(ordered)
      BY <1>1, <1>2
    <3> QED
      BY <3>1, SeenFacts
  <2>2. cursor = p
    BY <1>1, <1>3, <2>1, FirstFound
  <2>3. DownRevision(r) = p
    BY <1>2, ParentRead
  <2> QED
    BY <2>2, <2>3, LinearParents
<1>4. CASE k # Len(ordered)
  <2>1. k + 1 \in 1 .. Len(ordered) /\ k + 1 # 1 /\ (k + 1) - 1 = k
    BY <1>1, <1>2, <1>4
  <2>2. parents[ordered[k + 1]] = {ordered[(k + 1) - 1]}
    BY <2>1, WalkParents
  <2>3. parents[ordered[k + 1]] = parents[r] /\ ordered[k + 1] \in Revisions
    BY <1>1, <2>1, <2>2, SeenFacts
  <2>4. r = ordered[k + 1]
    BY <2>3, LinearParents
  <2> QED
    BY <2>1, <2>4, SeenFacts
<1> QED
  BY <1>3, <1>4

(* ... the child of what is applied is found or applied too ...              *)
LEMMA ChildOfApplied ==
  ASSUME WalkType, Linear, verdict = "done",
         current \in Revisions,
         NEW r \in Revisions, NEW p \in Ancestors(current), parents[r] = {p}
  PROVE  r \in Seen \cup Ancestors(current)
<1> USE DEF WalkType
<1>1. p \in Revisions
  BY AncestorsFacts
<1>2. CASE p = current
  <2>1. DownRevision(r) = current
    BY <1>1, <1>2, ParentRead
  <2>2. ordered # <<>>
    <3>1. SUFFICES ASSUME ordered = <<>> PROVE FALSE
      OBVIOUS
    <3>2. cursor = current
      BY <3>1 DEF WalkInv
    <3> QED
      BY <2>1, <3>2, LinearParents
  <2>3. parents[ordered[1]] = parents[r] /\ ordered[1] \in Revisions
    BY <1>2, <2>2, WalkParents, FirstFound
  <2>4. r = ordered[1]
    BY <2>3, LinearParents
  <2> QED
    BY <2>2, <2>4, FirstFound, SeenFacts
<1>3. CASE p # current
  <2>1. PICK q \in Ancestors(current) : p \in parents[q]
    BY <1>3, AncestorIsParent
  <2>2. q \in Revisions
    BY <2>1, AncestorsFacts
  <2>3. parents[q] = {p}
    BY <2>1, <2>2, LinearParents
  <2>4. r = q
    BY <2>2, <2>3, LinearParents
  <2> QED
    BY <2>1, <2>4
<1> QED
  BY <1>2, <1>3

(* ... and so is the one revision without a parent.                          *)
LEMMA RootFound ==
  ASSUME WalkType, Linear, verdict = "done",
         NEW r \in Revisions, parents[r] = {}
  PROVE  IF current \in Revisions THEN r \in Ancestors(current)
         ELSE r \in Seen
<1> USE DEF WalkType
<1>1. CASE current \in Revisions
  <2> DEFINE A == Ancestors(current)
  <2>1. A \subseteq Revisions /\ current \in A
    BY <1>1, AncestorsFacts
  <2>2. A \in (SUBSET Revisions) \ {{}}
    BY <2>1
  <2>3. PICK a \in A : parents[a] \cap A = {}
    BY <2>2 DEF Linear, Acyclic
  <2>4. parents[a] \subseteq A
    BY <1>1, AncestorsFacts
  <2>5. parents[a] = parents[r] /\ a \in Revisions
    BY <2>1, <2>3, <2>4
  <2>6. r = a
    BY <2>5, LinearParents
  <2> QED
    BY <1>1, <2>3, <2>6
<1>2. CASE current \notin Revisions
  <2>1. current = Root
    BY <1>2 DEF WalkInv
  <2>2. DownRevision(r) = current
    BY <2>1, ParentRead
  <2>3. ordered # <<>>
    <3>1. SUFFICES ASSUME ordered = <<>> PROVE FALSE
      OBVIOUS
    <3>2. cursor = current
      BY <3>1 DEF WalkInv
    <3> QED
      BY <2>2, <3>2, LinearParents
  <2>4. ordered[1] \in Revisions /\ DownRevision(ordered[1]) = Root
    BY <2>1, <2>3, FirstFound
  <2>5. parents[ordered[1]] = {}
    <3>1. SUFFICES ASSUME NEW p \in Revisions, parents[ordered[1]] = {p} PROVE FALSE
      BY <2>4, LinearParents
    <3>2. DownRevision(ordered[1]) = p
      BY <2>4, <3>1, ParentRead
    <3> QED
      BY <2>4, <3>2, RevisionsAssumption
  <2>6. r = ordered[1]
    BY <2>4, <2>5, LinearParents
  <2> QED
    BY <1>2, <2>3, <2>6, FirstFound, SeenFacts
<1> QED
  BY <1>1, <1>2

LEMMA UnappliedFound ==
  ASSUME WalkType, Linear, verdict = "done"
  PROVE  Seen = Unapplied
<1> USE DEF WalkType
<1>1. Seen \subseteq Unapplied
  BY FoundUnapplied DEF Linear
<1> DEFINE U == Unapplied \ Seen
<1>2. SUFFICES ASSUME U # {} PROVE FALSE
  BY <1>1
<1>3. current \in Revisions \cup {Root} /\ Root \notin Revisions
  BY RevisionsAssumption DEF WalkInv
<1>4. U \in (SUBSET Revisions) \ {{}}
  BY <1>2 DEF Unapplied
<1>5. PICK r \in U : parents[r] \cap U = {}
  BY <1>4 DEF Linear, Acyclic
<1>6. r \in Revisions /\ r \in Unapplied /\ r \notin Seen
  BY <1>4, <1>5
<1>7. CASE parents[r] = {}
  <2>1. current \in Revisions /\ r \in Ancestors(current)
    BY <1>6, <1>7, RootFound
  <2> QED
    BY <1>3, <1>6, <2>1 DEF Unapplied
<1>8. ASSUME NEW p \in Revisions, parents[r] = {p} PROVE FALSE
  <2>1. p \notin U
    BY <1>5, <1>8
  <2>2. p \notin Seen
    BY <1>6, <1>8, ChildFound
  <2>3. p \notin Unapplied
    BY <2>1, <2>2
  <2>4. current \in Revisions /\ p \in Ancestors(current)
    BY <1>3, <1>8, <2>3 DEF Unapplied
  <2>5. r \in Ancestors(current)
    BY <1>6, <1>8, <2>4, ChildOfApplied
  <2> QED
    BY <1>3, <1>6, <2>4, <2>5 DEF Unapplied
<1> QED
  BY <1>6, <1>7, <1>8, LinearParents

-----------------------------------------------------------------------------
LEMMA WalkCorrect == WalkSpec => []WalkType
<1>1. WalkInit => WalkType
  BY WalkTypeInit
<1>2. WalkType /\ [WalkNext]_walkVars => WalkType'
  BY WalkTypeStep
<1> QED
  BY <1>1, <1>2, PTL DEF WalkSpec

(* pending(): the walk lists revisions of the wheel, none of them twice, and *)
(* its cursor is one, or what alembic_version says.                          *)
THEOREM PendingTypeCorrect == WalkSpec => []WalkTypeOK
<1>1. WalkType => WalkTypeOK
  BY DEF WalkType
<1> QED
  BY <1>1, WalkCorrect, PTL

(* pending() on any history: without a cycle it raises no alarm and lists    *)
(* nothing that is applied; on a linear one it lists all that is not, each   *)
(* revision after its parent.                                                *)
THEOREM PendingCorrect == WalkSpec => []PendingIsUnapplied
<1>1. WalkType => PendingIsUnapplied
  <2> SUFFICES ASSUME WalkType PROVE PendingIsUnapplied
    OBVIOUS
  <2>1. Acyclic => verdict # "cycle" /\ Seen \subseteq Unapplied
    BY CycleFound, FoundUnapplied
  <2>2. DOMAIN ordered = 1 .. Len(ordered)
    BY SeenFacts DEF WalkType
  <2>3. ASSUME Linear, verdict = "done"
        PROVE  /\ Seen = Unapplied
               /\ \A i, j \in DOMAIN ordered : ordered[i] \in parents[ordered[j]] => i < j
    BY <2>2, <2>3, UnappliedFound, FoundInOrder
  <2> QED
    BY <2>1, <2>3 DEF PendingIsUnapplied
<1> QED
  BY <1>1, WalkCorrect, PTL

(* "A malformed wheel should stop the deployment rather than spin": whatever *)
(* the files say, pending() takes no more turns than there are revisions.    *)
THEOREM WalkBounded == WalkSpec => [](Len(ordered) <= Cardinality(Revisions))
<1>1. WalkType => Len(ordered) <= Cardinality(Revisions)
  <2> SUFFICES ASSUME WalkType PROVE Len(ordered) <= Cardinality(Revisions)
    OBVIOUS
  <2> DEFINE n == Len(ordered)
  <2>1. /\ n \in Nat /\ \A i \in 1 .. n : ordered[i] \in Revisions
        /\ \A i, j \in 1 .. n : ordered[i] = ordered[j] => i = j
    BY SeenFacts DEF WalkType
  <2>2. ordered \in [1 .. n -> Revisions]
    BY DEF WalkType, WalkTypeOK
  <2>3. ordered \in Injection(1 .. n, Revisions)
    BY <2>1, <2>2 DEF Injection, IsInjective
  <2>4. IsFiniteSet(Revisions)
    BY RevisionsAssumption
  <2>5. Cardinality(1 .. n) <= Cardinality(Revisions)
    BY <2>3, <2>4, FS_Injection
  <2>6. Cardinality(1 .. n) = IF 1 > n THEN 0 ELSE n - 1 + 1
    BY <2>1, FS_Interval
  <2>7. Cardinality(1 .. n) = n
    BY <2>1, <2>6
  <2> QED
    BY <2>5, <2>7
<1> QED
  BY <1>1, WalkCorrect, PTL

(* The history that Backend gives a wheel: each revision after the one       *)
(* before it.                                                                *)
Chain(n) == [r \in 1 .. n |-> IF r = 1 THEN {} ELSE {r - 1}]

LEMMA ChainIsLinear ==
  ASSUME NEW n \in Nat, Revisions = 1 .. n, parents = Chain(n)
  PROVE  Linear
<1>1. \A r \in Revisions : parents[r] = IF r = 1 THEN {} ELSE {r - 1}
  BY DEF Chain
<1>2. ASSUME NEW S \in (SUBSET Revisions) \ {{}} PROVE \E r \in S : parents[r] \cap S = {}
  <2>1. S \in SUBSET Nat /\ S # {}
    OBVIOUS
  <2>2. PICK m \in S : \A k \in S : m <= k
    BY <2>1, LeastNumber, Zenon
  <2>3. m \in Revisions /\ m - 1 \notin S
    BY <2>1, <2>2
  <2>4. parents[m] = {} \/ parents[m] = {m - 1}
    BY <1>1, <2>3
  <2>5. parents[m] \cap S = {}
    BY <2>3, <2>4
  <2> QED
    BY <2>5
<1>3. Acyclic
  BY <1>2 DEF Acyclic
<1>4. ASSUME NEW r \in Revisions, NEW s \in Revisions, parents[r] = parents[s] PROVE r = s
  <2>1. CASE r = 1 \/ s = 1
    BY <1>1, <1>4, <2>1
  <2>2. CASE r # 1 /\ s # 1
    <3>1. {r - 1} = {s - 1}
      BY <1>1, <1>4, <2>2
    <3>2. r - 1 = s - 1
      BY <3>1
    <3> QED
      BY <3>2
  <2> QED
    BY <2>1, <2>2
<1>5. \A r \in Revisions : \A p, q \in parents[r] : p = q
  BY <1>1
<1> QED
  BY <1>3, <1>4, <1>5 DEF Linear

(* In it, what is applied are the numbers up to the current one.             *)
LEMMA ChainApplied ==
  ASSUME NEW n \in Nat, Revisions = 1 .. n, parents = Chain(n),
         NEW c \in 1 .. n
  PROVE  Ancestors(c) = 1 .. c
<1>1. \A r \in Revisions : parents[r] = IF r = 1 THEN {} ELSE {r - 1}
  BY DEF Chain
<1>2. ASSUME NEW a \in Ancestors(c) PROVE a \in 1 .. c
  <2>1. 1 .. c \in SUBSET Revisions /\ c \in 1 .. c
    OBVIOUS
  <2>2. ASSUME NEW r \in 1 .. c PROVE parents[r] \subseteq 1 .. c
    <3>1. r \in Revisions
      BY <2>2
    <3>2. parents[r] = IF r = 1 THEN {} ELSE {r - 1}
      BY <1>1, <3>1
    <3>3. r # 1 => r - 1 \in 1 .. c
      BY <2>2
    <3> QED
      BY <3>2, <3>3
  <2>3. ClosedUnder(1 .. c)
    BY <2>2 DEF ClosedUnder
  <2> QED
    BY <2>1, <2>3 DEF Ancestors
<1>3. ASSUME NEW a \in 1 .. c, NEW S \in SUBSET Revisions, c \in S, ClosedUnder(S)
      PROVE  a \in S
  <2> DEFINE T == {k \in 0 .. c - 1 : c - k \notin S}
  <2>1. SUFFICES ASSUME T # {} PROVE FALSE
    <3>1. c - a \in 0 .. c - 1 /\ c - (c - a) = a
      OBVIOUS
    <3> QED
      BY <2>1, <3>1
  <2>2. T \in SUBSET Nat
    OBVIOUS
  <2>3. PICK m \in T : \A k \in T : m <= k
    BY <2>1, <2>2, LeastNumber, Zenon
  <2>4. m \in 0 .. c - 1 /\ c - m \notin S
    BY <2>3
  <2>5. m # 0
    BY <1>3, <2>4
  <2>6. m - 1 \in 0 .. c - 1 /\ m - 1 \notin T
    BY <2>3, <2>4, <2>5
  <2>7. c - (m - 1) \in S
    BY <2>6
  <2>8. c - (m - 1) \in Revisions /\ c - (m - 1) # 1 /\ c - (m - 1) - 1 = c - m
    BY <2>4, <2>6
  <2>9. parents[c - (m - 1)] = {c - m}
    BY <1>1, <2>8
  <2>10. parents[c - (m - 1)] \subseteq S
    BY <1>3, <2>7 DEF ClosedUnder
  <2> QED
    BY <2>4, <2>9, <2>10
<1>4. ASSUME NEW a \in 1 .. c PROVE a \in Ancestors(c)
  <2>1. a \in Revisions
    OBVIOUS
  <2> QED
    BY <1>3, <2>1 DEF Ancestors
<1> QED
  BY <1>2, <1>4

(* And the walk counts. *)
LEMMA ChainCounted ==
  ASSUME WalkType, Root = 0,
         NEW n \in Nat, Revisions = 1 .. n, parents = Chain(n),
         NEW i \in 1 .. Len(ordered)
  PROVE  ordered[i] = current + i
<1>1. \A r \in Revisions : parents[r] = IF r = 1 THEN {} ELSE {r - 1}
  BY DEF Chain
<1>2. WalkTypeOK /\ WalkInv
  BY DEF WalkType
<1>3. Len(ordered) \in Nat /\ \A k \in 1 .. Len(ordered) : ordered[k] \in 1 .. n
  BY <1>2, SeenFacts
<1>4. ASSUME NEW r \in 1 .. n PROVE DownRevision(r) = r - 1
  <2>1. r \in Revisions /\ parents[r] = IF r = 1 THEN {} ELSE {r - 1}
    BY <1>1, <1>4
  <2>2. CASE r = 1
    <3>1. DownRevision(r) = Root
      BY <1>2, <2>1, <2>2, ParentRead
    <3> QED
      BY <2>2, <3>1
  <2>3. CASE r # 1
    <3>1. r - 1 \in Revisions
      BY <2>1, <2>3
    <3>2. parents[r] = {r - 1}
      BY <2>1, <2>3
    <3> QED
      BY <1>2, <2>1, <3>1, <3>2, ParentRead
  <2> QED
    BY <2>2, <2>3
<1> DEFINE T == {k \in 1 .. Len(ordered) : ordered[k] # current + k}
<1>5. SUFFICES ASSUME T # {} PROVE FALSE
  OBVIOUS
<1>6. T \in SUBSET Nat
  OBVIOUS
<1>7. PICK m \in T : \A k \in T : m <= k
  BY <1>5, <1>6, LeastNumber, Zenon
<1>8. m \in 1 .. Len(ordered) /\ ordered[m] # current + m /\ ordered[m] \in 1 .. n
  BY <1>3, <1>7
<1>9. ordered[m] - 1 = IF m = 1 THEN current ELSE ordered[m - 1]
  BY <1>2, <1>4, <1>8 DEF WalkInv
<1>10. CASE m = 1
  BY <1>8, <1>9, <1>10
<1>11. CASE m # 1
  <2>1. m - 1 \in 1 .. Len(ordered) /\ m - 1 \notin T
    BY <1>3, <1>7, <1>8, <1>11
  <2>2. ordered[m - 1] = current + (m - 1)
    BY <2>1
  <2>3. ordered[m] - 1 = current + (m - 1)
    BY <1>9, <1>11, <2>2
  <2>4. current \in Int
    <3>1. ordered # <<>>
      BY <1>2, <1>8, SeenFacts, <1>3
    <3>2. current = ordered[1] - 1 /\ ordered[1] \in 1 .. n
      BY <1>2, <1>4, <3>1, SeenFacts DEF WalkInv
    <3> QED
      BY <3>2
  <2> QED
    BY <1>8, <2>3, <2>4
<1> QED
  BY <1>10, <1>11

(* The plan of Backend's Migrations is what pending() answers for the        *)
(* wheel's history: never a cycle, "ahead" for a revision that the wheel     *)
(* lacks, and otherwise the revisions after the current one, counting up.    *)
THEOREM PlanIsPending ==
  ASSUME Root = 0, NEW w \in Wheels, Revisions = 1 .. LastRevision[w]
  PROVE  WalkSpec =>
           [](parents = Chain(LastRevision[w]) =>
                /\ verdict # "cycle"
                /\ verdict \in {"walking", "done"} => current \in 0 .. LastRevision[w]
                /\ \A i \in 1 .. Len(ordered) : ordered[i] = current + i
                /\ verdict = "done" => Seen = current + 1 .. LastRevision[w])
<1> DEFINE n == LastRevision[w]
<1>1. n \in Nat
  BY BackendConstants
<1> HIDE DEF n
<1>2. ASSUME WalkType, parents = Chain(n)
      PROVE  /\ verdict # "cycle"
             /\ verdict \in {"walking", "done"} => current \in 0 .. n
             /\ \A i \in 1 .. Len(ordered) : ordered[i] = current + i
             /\ verdict = "done" => Seen = current + 1 .. n
  <2>1. Revisions = 1 .. n
    BY DEF n
  <2>2. Linear
    BY <1>1, <1>2, <2>1, ChainIsLinear
  <2>3. verdict # "cycle"
    BY <1>2, <2>2, CycleFound DEF Linear
  <2>4. verdict \in {"walking", "done"} => current \in 0 .. n
    <3>1. verdict \in {"walking", "done"} => current \in Revisions \cup {Root}
      BY <1>2 DEF WalkType, WalkInv
    <3>2. CASE current = Root
      BY <1>1, <3>2
    <3>3. CASE current \in Revisions
      <4>1. current \in 1 .. n
        BY <2>1, <3>3, Zenon
      <4> QED
        BY <1>1, <4>1
    <3> QED
      BY <3>1, <3>2, <3>3
  <2>5. \A i \in 1 .. Len(ordered) : ordered[i] = current + i
    BY <1>1, <1>2, <2>1, ChainCounted
  <2>6. ASSUME verdict = "done" PROVE Seen = current + 1 .. n
    <3>1. Seen = Unapplied
      BY <1>2, <2>2, <2>6, UnappliedFound
    <3>2. CASE current = 0
      BY <1>1, <2>1, <3>1, <3>2 DEF Unapplied
    <3>3. CASE current \in 1 .. n
      <4>1. Ancestors(current) = 1 .. current
        BY <1>1, <1>2, <2>1, <3>3, ChainApplied
      <4>2. Unapplied = (1 .. n) \ (1 .. current)
        <5>1. current # Root
          BY <3>3
        <5> QED
          BY <2>1, <4>1, <5>1 DEF Unapplied
      <4> QED
        BY <1>1, <3>1, <3>3, <4>2
    <3> QED
      BY <1>1, <2>4, <2>6, <3>2, <3>3
  <2> QED
    BY <2>3, <2>4, <2>5, <2>6
<1>3. WalkType => (parents = Chain(n) =>
                /\ verdict # "cycle"
                /\ verdict \in {"walking", "done"} => current \in 0 .. n
                /\ \A i \in 1 .. Len(ordered) : ordered[i] = current + i
                /\ verdict = "done" => Seen = current + 1 .. n)
  BY <1>2
<1> QED
  BY <1>3, WalkCorrect, PTL DEF n

=============================================================================
