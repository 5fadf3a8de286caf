----------------------------- MODULE Transfer -----------------------------
(***************************************************************************)
(* What an upload promises to those who call it (SFTPService, sftp_service *)
(* .py): "a dropped connection can never leave something that looks like a *)
(* finished artifact".  Whatever happens to the session, a path holds what *)
(* it held before, or all of a new file, or -- on a server that cannot     *)
(* replace a file in one step -- nothing; and it holds the new file when   *)
(* the upload says so.  Uploads to one path at one time are promised       *)
(* nothing.                                                                *)
(***************************************************************************)
EXTENDS Naturals, FiniteSets

CONSTANTS Uploaders, Paths, Old, None,
          Anything   \* all that a path may hold, whole or not

VARIABLES
  target,      \* the path each upload is for
  atomic,      \* whether the server replaces a file in one step
  store,       \* what each path holds; an uploader stands for its file
  result,      \* idle, running, ok or failed
  contended    \* the paths two uploads have been running for at one time

tvars == <<target, atomic, store, result, contended>>

Init ==
  /\ target \in [Uploaders -> Paths] /\ atomic \in BOOLEAN
  /\ store \in [Paths -> {Old, None}]
  /\ result = [u \in Uploaders |-> "idle"] /\ contended = {}

Rivals(u) == {v \in Uploaders \ {u} : result[v] = "running" /\ target[v] = target[u]}

Begin(u) ==
  /\ result[u] = "idle" /\ result' = [result EXCEPT ![u] = "running"]
  /\ contended' = IF Rivals(u) = {} THEN contended ELSE contended \cup {target[u]}
  /\ UNCHANGED <<target, atomic, store>>

(* The path comes to hold the file, nothing, or whatever rivals make of it.  *)
Change(u) ==
  /\ result[u] = "running"
  /\ \E held \in Anything :
       /\ store' = [store EXCEPT ![target[u]] = held]
       /\ held = u \/ (held = None /\ ~atomic) \/ target[u] \in contended
  /\ UNCHANGED <<target, atomic, result, contended>>

Succeed(u) ==
  /\ result[u] = "running" /\ result' = [result EXCEPT ![u] = "ok"]
  /\ store[target[u]] = u \/ target[u] \in contended
  /\ UNCHANGED <<target, atomic, store, contended>>

Fail(u) ==
  /\ result[u] = "running" /\ result' = [result EXCEPT ![u] = "failed"]
  /\ UNCHANGED <<target, atomic, store, contended>>

Next == \E u \in Uploaders : Begin(u) \/ Change(u) \/ Succeed(u) \/ Fail(u)

Spec == Init /\ [][Next]_tvars
=============================================================================
