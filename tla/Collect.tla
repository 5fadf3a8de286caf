------------------------------ MODULE Collect ------------------------------
(***************************************************************************)
(* The collector (collect_jars.py): copies the backups of the server into  *)
(* a local mirror, and with --delete removes from the server what it has   *)
(* verified.  A deployment may write its backups while the script runs,    *)
(* and the script may die anywhere and be run again.                       *)
(*                                                                         *)
(* A file is its build, and a build is its SHA-256; all have one size.     *)
(***************************************************************************)
EXTENDS Naturals

CONSTANTS
  Paths,
  LIVE,            \* those in LIVE_DIR itself: what systemd runs
  Builds,
  Cut,             \* an incomplete local file
  None,
  MaxWrites, MaxRuns   \* bounds

ASSUME CollectConstantsOK ==
  /\ LIVE \subseteq Paths /\ Builds \cap {Cut, None} = {} /\ Cut # None
  /\ {MaxWrites, MaxRuns} \subseteq Nat

VARIABLES
  server, local,      \* what each path holds on the server and in the mirror
  phase,              \* idle, measure, fetch, remove
  delete,             \* --delete --yes
  jars,               \* run.jars
  remoteHash, localHash, status,
  todo,               \* what the loop of the phase has still to do
  latest,             \* history variable: what was last written to each path
  touched,            \* history variable: paths written since they were hashed
  raced,              \* history variable: removed although touched
  writes, runs

vars == <<server, local, phase, delete, jars, remoteHash, localHash, status, todo, latest,
          touched, raced, writes, runs>>
report == <<jars, remoteHash, localHash, status>>

Init ==
  /\ server \in [Paths -> Builds \cup {None}] /\ latest = server
  /\ local = [p \in Paths |-> None]
  /\ phase = "idle" /\ delete = FALSE /\ jars = {} /\ todo = {}
  /\ remoteHash = [p \in Paths |-> None] /\ localHash = remoteHash
  /\ status = [p \in Paths |-> "found"]
  /\ touched = {} /\ raced = {} /\ writes = 0 /\ runs = 0

(* A deployment writes a JAR: a backup, a staged copy or the live one.       *)
Write(p, b) ==
  /\ writes < MaxWrites /\ writes' = writes + 1
  /\ server' = [server EXCEPT ![p] = b] /\ latest' = [latest EXCEPT ![p] = b]
  /\ touched' = touched \cup {p} /\ raced' = raced \ {p}
  /\ UNCHANGED <<local, phase, delete, report, todo, runs>>

-----------------------------------------------------------------------------
(* Fault: the live JARs are collected too. *)
ExcludedNone == {}

(* excluded(): the live JARs.  /tmp is in none of the roots.                 *)
Excluded == LIVE

(* discover(): a fresh Run.  Without a JAR the script is done at once.       *)
Discover ==
  /\ phase = "idle" /\ runs < MaxRuns /\ runs' = runs + 1
  /\ jars' = {p \in Paths \ Excluded : server[p] # None} /\ jars' # {}
  /\ delete' \in BOOLEAN
  /\ remoteHash' = [p \in Paths |-> None] /\ localHash' = remoteHash'
  /\ status' = [p \in Paths |-> "found"]
  /\ phase' = "measure"
  /\ UNCHANGED <<server, local, todo, latest, touched, raced, writes>>

(* measure(): a file that has gone, or cannot be hashed, is unreadable and   *)
(* not fetched.                                                              *)
Measure ==
  /\ phase = "measure"
  /\ \E unhashed \in SUBSET jars :
       /\ remoteHash' = [p \in Paths |-> IF p \in jars \ unhashed THEN server[p] ELSE None]
       /\ todo' = {p \in jars : remoteHash'[p] # None}
       /\ status' = [p \in Paths |-> IF p \in jars \ todo' THEN "unreadable" ELSE status[p]]
  /\ touched' = touched \ jars
  /\ phase' = "fetch"
  /\ UNCHANGED <<server, local, delete, jars, localHash, latest, raced, writes, runs>>

Complete(file) == file \in Builds      \* of the size the server's file has

(* Fault: a file of the right size is taken for the right one. *)
FetchSized(p) ==
  /\ phase = "fetch" /\ p \in todo /\ todo' = todo \ {p}
  /\ IF Complete(local[p])
     THEN /\ localHash' = [localHash EXCEPT ![p] = remoteHash[p]]
          /\ status' = [status EXCEPT ![p] = "copied"] /\ UNCHANGED local
     ELSE /\ server[p] # None
          /\ local' = [local EXCEPT ![p] = server[p]]
          /\ localHash' = [localHash EXCEPT ![p] = server[p]]
          /\ status' = [status EXCEPT ![p] = IF server[p] = remoteHash[p] THEN "copied"
                                             ELSE "MISMATCH"]
  /\ UNCHANGED <<server, phase, delete, jars, remoteHash, latest, touched, raced, writes, runs>>

(* fetch(): what is there already and has the server's hash is kept;         *)
(* anything else is fetched -- directly or staged by sudo -- and hashed.     *)
Fetch(p) ==
  /\ phase = "fetch" /\ p \in todo /\ todo' = todo \ {p}
  /\ \/ /\ Complete(local[p]) /\ local[p] = remoteHash[p]
        /\ UNCHANGED local
     \/ /\ local[p] # remoteHash[p] /\ server[p] # None
        /\ local' = [local EXCEPT ![p] = server[p]]
  /\ localHash' = [localHash EXCEPT ![p] = local'[p]]
  /\ status' = [status EXCEPT ![p] = IF local'[p] = remoteHash[p] THEN "copied" ELSE "MISMATCH"]
  /\ UNCHANGED <<server, phase, delete, jars, remoteHash, latest, touched, raced, writes, runs>>

(* The transfer fails, after it has opened and emptied the local file or     *)
(* before; the hash on record is that of the file that was there.            *)
FetchFails(p) ==
  /\ phase = "fetch" /\ p \in todo /\ todo' = todo \ {p}
  /\ local[p] # remoteHash[p]
  /\ \/ local' = [local EXCEPT ![p] = Cut]
     \/ UNCHANGED local
  /\ localHash' = [localHash EXCEPT ![p] = IF Complete(local[p]) THEN local[p] ELSE None]
  /\ status' = [status EXCEPT ![p] = "copy failed"]
  /\ UNCHANGED <<server, phase, delete, jars, remoteHash, latest, touched, raced, writes, runs>>

Verified(p) == remoteHash[p] # None /\ remoteHash[p] = localHash[p]

(* Everything has been fetched that can be. *)
Copied ==
  /\ phase = "fetch" /\ todo = {}
  /\ IF delete THEN phase' = "remove" /\ todo' = {p \in jars : Verified(p)}
     ELSE phase' = "idle" /\ UNCHANGED todo
  /\ UNCHANGED <<server, local, delete, report, latest, touched, raced, writes, runs>>

(* remove(): `rm -f`, which does not look at what it removes. *)
Remove(p) ==
  /\ phase = "remove" /\ p \in todo /\ todo' = todo \ {p}
  /\ \/ /\ Verified(p) /\ p \notin Excluded
        /\ server' = [server EXCEPT ![p] = None]
        /\ status' = [status EXCEPT ![p] = "deleted"]
        /\ raced' = IF p \in touched /\ server[p] # None THEN raced \cup {p} ELSE raced
     \/ /\ status' = [status EXCEPT ![p] = "delete failed"]
        /\ UNCHANGED <<server, raced>>
  /\ UNCHANGED <<local, phase, delete, jars, remoteHash, localHash, latest, touched, writes, runs>>

Removed ==
  /\ phase = "remove" /\ todo = {} /\ phase' = "idle"
  /\ UNCHANGED <<server, local, delete, report, todo, latest, touched, raced, writes, runs>>

(* The script dies, or an SSHError ends it. *)
Die ==
  /\ phase # "idle" /\ phase' = "idle" /\ todo' = {}
  /\ UNCHANGED <<server, local, delete, report, latest, touched, raced, writes, runs>>

Next ==
  \/ \E p \in Paths, b \in Builds : Write(p, b)
  \/ Discover \/ Measure \/ Copied \/ Removed \/ Die
  \/ \E p \in Paths : Fetch(p) \/ FetchFails(p) \/ Remove(p)

Spec == Init /\ [][Next]_vars

-----------------------------------------------------------------------------
TypeOK ==
  /\ server \in [Paths -> Builds \cup {None}] /\ latest \in [Paths -> Builds \cup {None}]
  /\ local \in [Paths -> Builds \cup {Cut, None}]
  /\ phase \in {"idle", "measure", "fetch", "remove"} /\ delete \in BOOLEAN
  /\ jars \subseteq Paths \ LIVE /\ todo \subseteq jars
  /\ remoteHash \in [Paths -> Builds \cup {None}] /\ localHash \in [Paths -> Builds \cup {None}]
  /\ status \in [Paths -> {"found", "unreadable", "copied", "MISMATCH", "copy failed",
                           "deleted", "delete failed"}]
  /\ touched \subseteq Paths /\ raced \subseteq Paths
  /\ writes \in 0 .. MaxWrites /\ runs \in 0 .. MaxRuns

(* "Nothing is deleted unless its local copy exists and its SHA-256 matches  *)
(* the server's": what a deployment last wrote is on the server or in the    *)
(* mirror, through runs that fail half way and paths that are used again --  *)
(* unless it was written between measure() and remove() of one run.          *)
NothingLost ==
  \A p \in Paths : latest[p] \in {server[p], local[p]} \/ p \in raced
=============================================================================
