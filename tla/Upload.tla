------------------------------ MODULE Upload ------------------------------
(***************************************************************************)
(* Uploads (SFTPService, sftp_service.py) over the one SSH session of the  *)
(* tool (SSHService, ssh_service.py) while the session fails, and while    *)
(* the uploads close it and dial it under each other.                      *)
(*                                                                         *)
(* An action is what an await waited for and what the handler does up to   *)
(* the next await.  stage[u] is the call upload_...() is in; step[u] is    *)
(* where in it: the steps of ensure_sftp() first, then the operation.      *)
(***************************************************************************)
EXTENDS Naturals

CONSTANTS
  Uploaders,       \* uploads, each of a file of its own; all of one size
  Paths,
  Targets,         \* which path each upload is for: the choices, as functions
  Existing,        \* the paths that hold a file at first
  Chunks,          \* how many writes a file takes
  UPLOAD_RETRIES,
  Old, None

ASSUME UploadConstantsOK ==
  /\ Chunks \in Nat \ {0} /\ UPLOAD_RETRIES \in Nat
  /\ Old # None /\ Uploaders \cap {Old, None} = {}
  /\ Targets \subseteq [Uploaders -> Paths] /\ Existing \subseteq Paths

VARIABLES
  client,      \* `_client`: none, up, or down (its transport is not active)
  sftp,        \* `_sftp`: none, live, dead, or stray: live on another client than `_client`
  stage, step,
  chan,        \* the channel an upload has in its hands: `_sftp`, or one that was
               \* `_sftp`: kept (and live), stray, or dead
  attempt,
  result,      \* idle, running, ok, failed
  target,      \* the path it is for
  part, remote,   \* what is under <path>.part and under <path>
  handle,      \* where the file is that an upload has open for writing
  wrote,       \* how many chunks it has written
  atomic,      \* whether the server has posix_rename
  disturbed,   \* history variable: uploads that saw a failure or another upload
  contended    \* history variable: paths two uploads were running for at one time

session == <<client, sftp>>
files   == <<part, remote, handle, wrote>>
fixed   == <<target, atomic>>
vars    == <<session, files, fixed, stage, step, chan, attempt, result, disturbed, contended>>

(* What a file holds: whose chunk at each position. *)
Positions == 1 .. Chunks
Contents == [Positions -> Uploaders \cup {Old, None}]
Of(w) == [n \in Positions |-> w]
ASSUME NoneIsNoFile == None \notin Contents \cup {"part", "remote", "gone"}
Whole(file) == file # None /\ file[Chunks] # None      \* what the size tells

Running == {u \in Uploaders : result[u] = "running"}

Init ==
  /\ client \in {"none", "up", "down"} /\ sftp \in {"none", "live", "dead"}
  /\ (client = "none" => sftp = "none") /\ (sftp = "live" => client = "up")
  /\ stage = [u \in Uploaders |-> "begin"] /\ step = [u \in Uploaders |-> "none"]
  /\ chan = [u \in Uploaders |-> "none"] /\ attempt = [u \in Uploaders |-> 0]
  /\ result = [u \in Uploaders |-> "idle"]
  /\ target \in Targets /\ atomic \in BOOLEAN
  /\ part = [p \in Paths |-> None]
  /\ remote = [p \in Paths |-> IF p \in Existing THEN Of(Old) ELSE None]
  /\ handle = [u \in Uploaders |-> None] /\ wrote = [u \in Uploaders |-> 0]
  /\ disturbed = {} /\ contended = {}

-----------------------------------------------------------------------------
(* ensure_sftp: the cached session is never assumed to be alive.             *)

(* What becomes of the channels in hand when `_sftp` becomes another.        *)
Kept == CASE sftp = "live" -> "kept" [] sftp = "stray" -> "stray" [] OTHER -> "dead"
Hold(u, new, old) == [v \in Uploaders |-> IF v = u THEN new
                                         ELSE IF chan[v] = "sftp" THEN old ELSE chan[v]]

(* Fault: the cached channel is not probed. *)
CachedTrusted(up) == IF ~up THEN "closing" ELSE IF sftp = "none" THEN "opening" ELSE "operation"

(* The call, and where it first suspends.  Given is whether there is a       *)
(* connection by then.                                                       *)
Cached(up) == IF ~up THEN "closing" ELSE IF sftp = "none" THEN "opening" ELSE "probing"
InHand(up) == IF up /\ sftp # "none" THEN "sftp" ELSE "none"

Ensure(u, call, up) ==
  /\ stage' = [stage EXCEPT ![u] = call]
  /\ step' = [step EXCEPT ![u] = Cached(up)]
  /\ chan' = [chan EXCEPT ![u] = InHand(up)]

(* open_sftp() of the client of the moment. *)
Opening == IF client = "up" THEN "opening" ELSE "failing"

End(u, outcome) ==
  /\ stage' = [stage EXCEPT ![u] = "end"] /\ step' = [step EXCEPT ![u] = "none"]
  /\ chan' = [chan EXCEPT ![u] = "none"]
  /\ result' = [result EXCEPT ![u] = outcome]

(* Fault: one more try than there is. *)
RetryOnceMore(u) ==
  IF attempt[u] > UPLOAD_RETRIES + 1 THEN End(u, "failed")
  ELSE /\ stage' = [stage EXCEPT ![u] = "reset"] /\ step' = [step EXCEPT ![u] = "closing"]
       /\ chan' = [chan EXCEPT ![u] = "none"] /\ UNCHANGED result

(* The end of `except CONNECTION_ERRORS`: reset_connection, or no more tries. *)
Retry(u) ==
  IF attempt[u] > UPLOAD_RETRIES THEN End(u, "failed")
  ELSE /\ stage' = [stage EXCEPT ![u] = "reset"] /\ step' = [step EXCEPT ![u] = "closing"]
       /\ chan' = [chan EXCEPT ![u] = "none"] /\ UNCHANGED result

(* A connection error.  _discard_partial swallows its own; one of            *)
(* reset_connection is final.                                                *)
Broken(u) ==
  CASE stage[u] = "reset"   -> End(u, "failed")
    [] stage[u] = "discard" -> Retry(u)
    [] OTHER -> Ensure(u, "discard", client = "up") /\ UNCHANGED result

(* close(), in ensure_sftp and in reset_connection: the channel and the      *)
(* client, whoever is using them.                                            *)
Close(u) ==
  /\ step[u] = "closing"
  /\ client' = "none" /\ sftp' = "none"
  /\ step' = [v \in Uploaders |-> IF v = u THEN "dialing"
                                  ELSE IF step[v] = "opening" THEN "failing" ELSE step[v]]
  /\ chan' = [v \in Uploaders |-> IF chan[v] \in {"sftp", "kept"} THEN "dead" ELSE chan[v]]
  /\ UNCHANGED <<files, fixed, stage, attempt, result, disturbed, contended>>

(* Fault: a retry is not counted. *)
DialedUncounted(u) ==
  /\ step[u] = "dialing" /\ client' = "up"
  /\ step' = [step EXCEPT ![u] = Cached(TRUE)] /\ chan' = [chan EXCEPT ![u] = InHand(TRUE)]
  /\ stage' = [stage EXCEPT ![u] = IF @ = "reset" THEN "mkdir" ELSE @]
  /\ UNCHANGED <<sftp, attempt, files, fixed, result, disturbed, contended>>

(* connect(): the new client replaces the one that is there, which may be up *)
(* when somebody else has dialed as well.                                    *)
Dialed(u) ==
  /\ step[u] = "dialing"
  /\ client' = "up"
  /\ sftp' = IF client = "up" /\ sftp = "live" THEN "stray" ELSE sftp
  /\ step' = [v \in Uploaders |->
                IF v = u THEN Cached(TRUE)
                ELSE IF client = "up" /\ step[v] = "opening" THEN "straying" ELSE step[v]]
  /\ chan' = [v \in Uploaders |->
                IF v = u THEN InHand(TRUE)
                ELSE IF client = "up" /\ chan[v] = "kept" THEN "stray" ELSE chan[v]]
  /\ IF stage[u] = "reset"
     THEN stage' = [stage EXCEPT ![u] = "mkdir"] /\ attempt' = [attempt EXCEPT ![u] = @ + 1]
     ELSE UNCHANGED <<stage, attempt>>
  /\ UNCHANGED <<files, fixed, result, disturbed, contended>>

(* The server does not answer, or refuses another channel. *)
Refused(u) ==
  /\ step[u] \in {"dialing", "opening", "straying"}
  /\ disturbed' = disturbed \cup {u}
  /\ Broken(u)
  /\ UNCHANGED <<session, files, fixed, attempt, contended>>

Works(u) == \/ chan[u] = "sftp" /\ sftp \in {"live", "stray"}
            \/ chan[u] \in {"kept", "stray"}

(* _sftp_usable looked at the channel it was given; what is returned, or     *)
(* discarded, is `_sftp` as it is by then.                                   *)
Probed(u) ==
  /\ step[u] = "probing"
  /\ step' = [step EXCEPT ![u] = IF ~Works(u) THEN "dropping"
                                 ELSE IF sftp = "none" THEN Opening ELSE "operation"]
  /\ chan' = [chan EXCEPT ![u] = IF Works(u) THEN InHand(TRUE) ELSE "none"]
  /\ UNCHANGED <<session, files, fixed, stage, attempt, result, disturbed, contended>>

Dropped(u) ==
  /\ step[u] = "dropping"
  /\ sftp' = "none" /\ chan' = Hold(u, "none", "dead")
  /\ step' = [step EXCEPT ![u] = Opening]
  /\ UNCHANGED <<client, files, fixed, stage, attempt, result, disturbed, contended>>

(* The channel becomes `_sftp`.  One that another has opened stays open.     *)
Opened(u) ==
  /\ step[u] \in {"opening", "straying"}
  /\ sftp' = IF step[u] = "opening" THEN "live" ELSE "stray"
  /\ chan' = Hold(u, "sftp", Kept)
  /\ step' = [step EXCEPT ![u] = "operation"]
  /\ UNCHANGED <<client, files, fixed, stage, attempt, result, disturbed, contended>>

(* The client was closed under open_sftp, or there is none. *)
NotOpened(u) ==
  /\ step[u] = "failing" /\ Broken(u)
  /\ UNCHANGED <<session, files, fixed, attempt, disturbed, contended>>

EnsureSftp(u) == Close(u) \/ Dialed(u) \/ Refused(u) \/ Probed(u) \/ Dropped(u) \/ Opened(u)
                 \/ NotOpened(u)

-----------------------------------------------------------------------------
(* upload_to_copydata, upload_release.                                       *)
Begin(u) ==
  /\ result[u] = "idle" /\ result' = [result EXCEPT ![u] = "running"]
  /\ attempt' = [attempt EXCEPT ![u] = 1]
  /\ Ensure(u, "mkdir", client = "up")
  /\ disturbed' = IF Running = {} THEN disturbed ELSE disturbed \cup Running \cup {u}
  /\ contended' = contended \cup {target[v] : v \in {w \in Running : target[w] = target[u]}}
  /\ UNCHANGED <<session, files, fixed>>

(* An operation on the channel that the upload has in its hands, which may   *)
(* have been closed since.                                                   *)
Operates(u, call) ==
  /\ stage[u] = call /\ step[u] = "operation"
  /\ UNCHANGED <<fixed, attempt, disturbed, contended>>

GoOn(u, call) == Ensure(u, call, client = "up") /\ UNCHANGED result

(* ensure_user_dir.  A mkdir that fails is an UploadError, which is not      *)
(* retried.                                                                  *)
MakeDirs(u) ==
  /\ Operates(u, "mkdir")
  /\ IF Works(u) THEN GoOn(u, "put") ELSE Broken(u) \/ End(u, "failed")
  /\ UNCHANGED <<session, files>>

(* sftp.put: the .part file is opened and truncated, written chunk by chunk  *)
(* and its size confirmed.                                                   *)
OpenPart(u) ==
  /\ Operates(u, "put")
  /\ IF Works(u)
     THEN /\ part' = [part EXCEPT ![target[u]] = Of(None)]
          /\ handle' = [handle EXCEPT ![u] = "part"] /\ wrote' = [wrote EXCEPT ![u] = 0]
          /\ step' = [step EXCEPT ![u] = "writing"]
          /\ UNCHANGED <<remote, stage, chan, result>>
     ELSE Broken(u) /\ UNCHANGED files
  /\ UNCHANGED session

(* What is written goes where the open file is by now. *)
Write(u) ==
  /\ step[u] = "writing"
  /\ IF Works(u)
     THEN LET n == wrote[u] + 1
          IN  /\ wrote' = [wrote EXCEPT ![u] = n]
              /\ part' = IF handle[u] = "part" THEN [part EXCEPT ![target[u]][n] = u] ELSE part
              /\ remote' = IF handle[u] = "remote" THEN [remote EXCEPT ![target[u]][n] = u]
                           ELSE remote
              /\ handle' = [handle EXCEPT ![u] = IF n = Chunks THEN None ELSE @]
              /\ step' = [step EXCEPT ![u] = IF n = Chunks THEN "confirming" ELSE @]
              /\ UNCHANGED <<stage, chan, result>>
     ELSE /\ Broken(u) /\ handle' = [handle EXCEPT ![u] = None]
          /\ UNCHANGED <<part, remote, wrote>>
  /\ UNCHANGED <<session, fixed, attempt, disturbed, contended>>

(* put() finds the size wrong: an OSError, which counts as a dropped         *)
(* connection.                                                               *)
Confirm(u) ==
  /\ step[u] = "confirming"
  /\ IF Works(u) /\ Whole(part[target[u]]) THEN GoOn(u, "check") ELSE Broken(u)
  /\ UNCHANGED <<session, files, fixed, attempt, disturbed, contended>>

(* _verify_size: an UploadError when the size is wrong and when stat fails   *)
(* with an OSError; an EOFError is a connection error.                       *)
Check(u) ==
  /\ Operates(u, "check")
  /\ IF Works(u) THEN IF Whole(part[target[u]]) THEN GoOn(u, "promote") ELSE End(u, "failed")
     ELSE Broken(u) \/ End(u, "failed")
  /\ UNCHANGED <<session, files>>

(* The open files, when `from` of a path becomes `to`. *)
Moved(p, from, to) == [u \in Uploaders |-> IF target[u] # p THEN handle[u]
                                          ELSE IF handle[u] = from THEN to
                                          ELSE IF handle[u] = to THEN "gone" ELSE handle[u]]

Renamed(p) ==
  /\ remote' = [remote EXCEPT ![p] = part[p]] /\ part' = [part EXCEPT ![p] = None]
  /\ handle' = Moved(p, "part", "remote")

(* Fault: the target is removed before every rename. *)
PromoteRemoved(u) ==
  LET p == target[u]
  IN  /\ Operates(u, "promote")
      /\ IF ~Works(u) THEN Broken(u) /\ UNCHANGED files
         ELSE /\ remote' = [remote EXCEPT ![p] = None] /\ UNCHANGED part
              /\ handle' = Moved(p, "remote", "gone")
              /\ step' = [step EXCEPT ![u] = "removed"]
              /\ UNCHANGED <<wrote, stage, chan, result>>
      /\ UNCHANGED session

(* _promote: posix_rename replaces the target in one step.  Where it raises, *)
(* for whatever reason, the target is removed first.                         *)
Promote(u) ==
  LET p == target[u]
  IN  /\ Operates(u, "promote")
      /\ IF ~Works(u) THEN Broken(u) /\ UNCHANGED files
         ELSE /\ IF atomic /\ part[p] # None
                 THEN Renamed(p) /\ step' = [step EXCEPT ![u] = "renamed"]
                 ELSE /\ remote' = [remote EXCEPT ![p] = None] /\ UNCHANGED part
                      /\ handle' = Moved(p, "remote", "gone")
                      /\ step' = [step EXCEPT ![u] = "removed"]
              /\ UNCHANGED <<wrote, stage, chan, result>>
      /\ UNCHANGED session

(* A plain rename needs a source and does not replace a target.              *)
Rename(u) ==
  LET p == target[u]
  IN  /\ step[u] = "removed"
      /\ IF Works(u) /\ part[p] # None /\ remote[p] = None
         THEN /\ Renamed(p) /\ step' = [step EXCEPT ![u] = "renamed"]
              /\ UNCHANGED <<wrote, stage, chan, result>>
         ELSE Broken(u) /\ UNCHANGED files
      /\ UNCHANGED <<session, fixed, attempt, disturbed, contended>>

(* The answer comes, or the channel died first. *)
Promoted(u) ==
  /\ step[u] = "renamed"
  /\ IF Works(u) THEN GoOn(u, "recheck") ELSE Broken(u)
  /\ UNCHANGED <<session, files, fixed, attempt, disturbed, contended>>

Recheck(u) ==
  /\ Operates(u, "recheck")
  /\ IF ~Works(u) THEN Broken(u) \/ End(u, "failed")
     ELSE IF ~Whole(remote[target[u]]) THEN End(u, "failed")
     ELSE /\ step' = [step EXCEPT ![u] = "releasing"] /\ chan' = [chan EXCEPT ![u] = "none"]
          /\ UNCHANGED <<stage, result>>
  /\ UNCHANGED <<session, files>>

(* close_sftp() closes `_sftp`, whoever is using it. *)
Release(u) ==
  /\ step[u] = "releasing"
  /\ sftp' = "none" /\ chan' = Hold(u, "none", "dead")
  /\ stage' = [stage EXCEPT ![u] = "end"] /\ step' = [step EXCEPT ![u] = "none"]
  /\ result' = [result EXCEPT ![u] = "ok"]
  /\ UNCHANGED <<client, files, fixed, attempt, disturbed, contended>>

(* _discard_partial: best effort. *)
Discard(u) ==
  /\ Operates(u, "discard")
  /\ IF Works(u) THEN /\ part' = [part EXCEPT ![target[u]] = None]
                      /\ handle' = Moved(target[u], "part", "gone")
     ELSE UNCHANGED <<part, handle>>
  /\ Retry(u)
  /\ UNCHANGED <<session, remote, wrote>>

-----------------------------------------------------------------------------
(* The network fails: the transport dies, and with it every channel. *)
Drop ==
  /\ client = "up" /\ client' = "down"
  /\ sftp' = IF sftp = "none" THEN "none" ELSE "dead"
  /\ chan' = [u \in Uploaders |-> IF chan[u] \in {"kept", "stray"} THEN "dead" ELSE chan[u]]
  /\ step' = [u \in Uploaders |-> IF step[u] \in {"opening", "straying"} THEN "failing" ELSE step[u]]
  /\ disturbed' = disturbed \cup Running
  /\ UNCHANGED <<files, fixed, stage, attempt, result, contended>>

(* "An SFTP channel can die while the transport survives." *)
ChannelDies ==
  /\ sftp \in {"live", "stray"} /\ sftp' = "dead"
  /\ disturbed' = disturbed \cup Running
  /\ UNCHANGED <<client, files, fixed, stage, step, chan, attempt, result, contended>>

(* Another handler calls connect(), as every route does first. *)
OtherConnects ==
  /\ client # "up" /\ client' = "up"
  /\ UNCHANGED <<sftp, files, fixed, stage, step, chan, attempt, result, disturbed, contended>>

Step(u) ==
  \/ EnsureSftp(u) \/ MakeDirs(u) \/ OpenPart(u) \/ Write(u) \/ Confirm(u) \/ Check(u)
  \/ Promote(u) \/ Rename(u) \/ Promoted(u) \/ Recheck(u) \/ Release(u) \/ Discard(u)

Next == (\E u \in Uploaders : Begin(u) \/ Step(u)) \/ Drop \/ ChannelDies \/ OtherConnects

Spec == Init /\ [][Next]_vars

-----------------------------------------------------------------------------
(* The calls of an attempt and the steps of a call, in their order. *)
Stages == [begin |-> 0, mkdir |-> 1, put |-> 2, check |-> 3, promote |-> 4, recheck |-> 5,
           discard |-> 6, reset |-> 7, end |-> 8]
Steps == [closing |-> 0, dialing |-> 1, probing |-> 2, dropping |-> 3, opening |-> 4,
          straying |-> 5, failing |-> 6, operation |-> 7, writing |-> 8, confirming |-> 9,
          removed |-> 10, renamed |-> 11, releasing |-> 12, none |-> 13]

TypeOK ==
  /\ client \in {"none", "up", "down"} /\ sftp \in {"none", "live", "dead", "stray"}
  /\ stage \in [Uploaders -> DOMAIN Stages] /\ step \in [Uploaders -> DOMAIN Steps]
  /\ chan \in [Uploaders -> {"none", "sftp", "kept", "stray", "dead"}]
  /\ attempt \in [Uploaders -> 0 .. UPLOAD_RETRIES + 1]
  /\ result \in [Uploaders -> {"idle", "running", "ok", "failed"}]
  /\ target \in [Uploaders -> Paths] /\ atomic \in BOOLEAN
  /\ part \in [Paths -> Contents \cup {None}] /\ remote \in [Paths -> Contents \cup {None}]
  /\ handle \in [Uploaders -> {"part", "remote", "gone", None}]
  /\ wrote \in [Uploaders -> 0 .. Chunks]
  /\ disturbed \subseteq Uploaders /\ contended \subseteq Paths

(* What a path holds, to one who reads it. *)
Mixed == "mixed"
Holds(p) ==
  IF remote[p] = None THEN None
  ELSE IF \E w \in Uploaders \cup {Old} : remote[p] = Of(w) THEN remote[p][1] ELSE Mixed

Promise == INSTANCE Transfer
             WITH Anything <- Uploaders \cup {Old, None, Mixed}, store <- [p \in Paths |-> Holds(p)]

(* "A dropped connection can never leave something that looks like a         *)
(* finished artifact": uploads are as Transfer promises, however the session *)
(* fails and whoever closes it.                                              *)
KeepsPromise == Promise!Spec

(* ensure_sftp: "never assume a cached session is alive".  An upload that    *)
(* nothing disturbs succeeds at the first attempt, whatever session it finds.*)
UndisturbedSucceeds ==
  \A u \in Uploaders \ disturbed : attempt[u] <= 1 /\ result[u] # "failed"

(* How far an upload has got: the attempt, the call, the step, the chunk.    *)
Reached(u) ==
  ((attempt[u] * 10 + Stages[stage[u]]) * 20 + Steps[step[u]]) * (Chunks + 1) + wrote[u]

(* "One automatic retry after a dropped socket, then stop.  Never loop       *)
(* forever": an upload only ever moves on, whoever moves it and whatever the *)
(* network does, so that it ends though the connection may fail for ever.    *)
NeverRepeats ==
  [][\A u \in Uploaders :
       <<attempt[u], stage[u], step[u], wrote[u]>>' # <<attempt[u], stage[u], step[u], wrote[u]>>
         => Reached(u)' > Reached(u)]_vars
=============================================================================
