------------------------------- MODULE Rollout -------------------------------
(***************************************************************************)
(* What the pipeline of deployment_service.py promises whoever has to put  *)
(* things right afterwards: one service at a time is replaced, nothing of  *)
(* it before what was found is saved, its JAR only when systemd knows the  *)
(* new checksum, and the record on disk says which of this happened.       *)
(*                                                                         *)
(* A step of a deployment may change the server, its outcome, or both: a   *)
(* command that fails half way does both, and so does a crash.             *)
(***************************************************************************)
EXTENDS Naturals

CONSTANTS Services, Builds,
          None,    \* no file, no value
          Broken   \* a truncated or unreadable file

VARIABLES
  jar, unit, loaded,  \* of each service: its files, and the unit that systemd uses
  jars, units,        \* of each service: what the backup folders hold
  found,              \* the service last deployed, its JAR and unit file before that
  goal, turn,         \* what is deployed and for whom; None and 0 after a restart
  outcome             \* the last outcome on record, and whose it is

server == <<jar, unit, loaded, jars, units>>
deployment == <<found, goal, turn, outcome>>
vars == <<server, deployment>>

File == Builds \cup {None, Broken}

Init ==
  /\ jar \in [Services -> File] /\ unit \in [Services -> File] /\ loaded = unit
  /\ jars = [s \in Services |-> {None}] /\ units = [s \in Services |-> {None}]
  /\ found.svc = None /\ goal = None /\ turn = 0
  /\ outcome = [of |-> 0, is |-> "none"]

Untouched == jar[found.svc] = found.jar /\ unit[found.svc] = found.unit

(* What there was is in a backup. *)
Secured ==
  /\ found.jar # None => found.jar \in jars[found.svc]
  /\ found.unit # None => found.unit \in units[found.svc]

Installed == {jar[found.svc], unit[found.svc], loaded[found.svc]} = {goal}

(* A deployment that aborted or succeeded is over. (One that failed may only *)
(* have been called so by a restart beside it.)                              *)
Aborted == outcome = [of |-> turn, is |-> "aborted"]
Working == goal # None /\ ~Aborted /\ outcome # [of |-> turn, is |-> "success"]

Others == Services \ {found.svc}

Begin ==
  /\ \E s \in Services : found' = [svc |-> s, jar |-> jar[s], unit |-> unit[s]]
  /\ goal' \in Builds
  /\ turn' \in Nat /\ turn' > turn /\ turn' > outcome.of
  /\ UNCHANGED <<server, outcome>>

(* The backups may change as long as nothing else has. They come to hold     *)
(* what was found, or a broken copy.                                         *)
Save ==
  /\ Working /\ Untouched
  /\ \A s \in Others : jars'[s] = jars[s] /\ units'[s] = units[s]
  /\ jars'[found.svc] \subseteq jars[found.svc] \cup {found.jar, Broken}
  /\ units'[found.svc] \subseteq units[found.svc] \cup {found.unit, Broken}
  /\ UNCHANGED <<jar, unit, loaded>>

Replace ==
  /\ Working /\ Secured
  /\ \A s \in Others : jar'[s] = jar[s] /\ unit'[s] = unit[s]
  /\ unit'[found.svc] \in {unit[found.svc], goal, Broken}
  /\ loaded' \in {loaded, unit} /\ (loaded' # loaded => unit[found.svc] = goal)
  /\ jar'[found.svc] # jar[found.svc] => unit[found.svc] = goal /\ loaded[found.svc] = goal
  /\ UNCHANGED <<jars, units>>

(* The record that _fail or a success writes. *)
Report ==
  /\ \/ outcome' = [of |-> turn, is |-> "aborted"] /\ Untouched'
     \/ outcome' = [of |-> turn, is |-> "failed"]
     \/ outcome' = [of |-> turn, is |-> "success"] /\ Installed /\ UNCHANGED server
  /\ UNCHANGED <<found, goal, turn>>

(* The tool dies. *)
Forget == goal' = None /\ turn' = 0 /\ UNCHANGED <<found, outcome>>

Next ==
  \/ Begin
  \/ /\ Save \/ Replace \/ UNCHANGED server
     /\ Report \/ Forget \/ UNCHANGED deployment

Spec == Init /\ [][Next]_vars

(* Whatever has happened, what was found can be put back; and an aborted     *)
(* deployment has changed nothing.                                           *)
CanGoBack == found.svc # None => Untouched \/ Secured
AbortedIsUntouched == Aborted /\ turn # 0 => Untouched
=============================================================================
