------------------------------- MODULE Release -------------------------------
(***************************************************************************)
(* How an AidenOps release gets from the incoming folder of the VDI to the *)
(* server: /fetch, /verify, /clear and /deploy (routes/aidenops.py),       *)
(* aidenops_release.py and archive_service.py.  The pipelines of /deploy   *)
(* themselves are the modules Frontend and Backend; here they install what *)
(* they find in the staging directory.                                     *)
(*                                                                         *)
(* A bundle is a version of the one zip file; it holds a tarball and a     *)
(* wheel, and Name[b] is the version in their file names.  The handlers of *)
(* several /deploy requests interleave at their remote commands: no lock   *)
(* is taken.                                                               *)
(***************************************************************************)
EXTENDS Naturals, Sequences

CONSTANTS
  Bundles,         \* what the hub or the operator may put in the incoming folder
  Published,       \* the bundles whose code the operator has
  Name,            \* the version in the file names of a bundle's members
  Requests,        \* the /deploy requests that can be in flight at once
  FetchWhileDeploying, \* the incoming file may change while one is
  MaxFetches, MaxVerifies, MaxDeploys, \* bounds
  None

ASSUME ReleaseConstants ==
  /\ Published \subseteq Bundles
  /\ DOMAIN Name = Bundles
  /\ FetchWhileDeploying \in BOOLEAN
  /\ {MaxFetches, MaxVerifies, MaxDeploys} \subseteq Nat
  /\ None \notin Bundles

VARIABLES
  incoming,   \* the file in the incoming folder
  releases,   \* the VerifiedRelease objects there have been: bundle, staged_path set
  current,    \* _current: the index of one of them, 0 for None
  \* the server: the file in today's CopyData folder, the zip in the staging
  \* directory and the unpacked members by name, and what is installed
  landing, zip, files, installed,
  \* each request: the await its handler is at, its target, the release it holds,
  \* and the bundle its migrations were read from
  pc, target, held, scanned,
  fetches, deploys,
  \* history: the bundles that passed verification, what the last installation
  \* installed for which release, and the requests in flight that overlapped
  \* with one for another release
  passed, last, mixed

server  == <<landing, zip, files, installed>>
handler == <<pc, target, held, scanned, mixed>>
vars == <<incoming, releases, current, server, handler, fetches, deploys, passed, last>>

Names == {Name[b] : b \in Bundles}
Targets == {"ui", "backend"}
NoInstall == [target |-> "none", asked |-> None, got |-> None, read |-> None,
              sole |-> TRUE]

Init ==
  /\ incoming \in Bundles \cup {None}
  /\ releases = <<>> /\ current = 0
  /\ landing = None /\ zip = None /\ files = [n \in Names |-> None]
  /\ installed = [t \in Targets |-> None]
  /\ pc = [r \in Requests |-> "idle"] /\ target = [r \in Requests |-> "ui"]
  /\ held = [r \in Requests |-> 0] /\ scanned = [r \in Requests |-> None]
  /\ fetches = 0 /\ deploys = 0
  /\ passed = {} /\ last = NoInstall /\ mixed = {}

-----------------------------------------------------------------------------
Idle == \A r \in Requests : pc[r] = "idle"

(* /fetch, or the operator copies the file there; download_bundle replaces *)
(* it in one step.                                                         *)
Fetch(b) ==
  /\ fetches < MaxFetches /\ fetches' = fetches + 1
  /\ FetchWhileDeploying \/ Idle
  /\ incoming' = b
  /\ UNCHANGED <<releases, current, server, handler, deploys, passed, last>>

(* Fault: verifying again updates the release that is there. *)
VerifyInPlace(code) ==
  /\ incoming # None /\ Len(releases) < MaxVerifies
  /\ IF incoming = code
     THEN /\ releases' = Append(releases, [bundle |-> code,
                                  staged |-> current > 0 /\ releases[current].staged])
          /\ current' = Len(releases) + 1
          /\ passed' = passed \cup {code}
     ELSE /\ current' = 0 /\ UNCHANGED <<releases, passed>>
  /\ UNCHANGED <<incoming, server, handler, fetches, deploys, last>>

(* /verify with a pasted code: a new release, or none at all.  inspect() runs *)
(* without suspending; an exception of it that is no ArchiveError leaves all  *)
(* as it was.                                                                 *)
Verify(code) ==
  /\ incoming # None /\ Len(releases) < MaxVerifies
  /\ IF incoming = code
     THEN /\ releases' = Append(releases, [bundle |-> code, staged |-> FALSE])
          /\ current' = Len(releases) + 1
          /\ passed' = passed \cup {code}
     ELSE /\ current' = 0 /\ UNCHANGED <<releases, passed>>
  /\ UNCHANGED <<incoming, server, handler, fetches, deploys, last>>

Clear ==
  /\ current' = 0
  /\ UNCHANGED <<incoming, releases, server, handler, fetches, deploys, passed, last>>

Asked(r) == releases[held[r]].bundle

At(r, next) == pc' = [pc EXCEPT ![r] = next] /\ UNCHANGED <<target, held, mixed>>

(* The handler ends; it gives its release back to nobody. *)
End(r) ==
  /\ pc' = [pc EXCEPT ![r] = "idle"]
  /\ held' = [held EXCEPT ![r] = 0]
  /\ mixed' = mixed \ {r}
  /\ UNCHANGED target

Raise(r) == End(r) /\ UNCHANGED scanned

(* The requests in flight for another release than this one. *)
Others(release) == {o \in Requests : pc[o] # "idle" /\ held[o] # release}

(* r comes in for `release`. *)
Join(r, release) ==
  mixed' = mixed \cup Others(release) \cup (IF Others(release) = {} THEN {} ELSE {r})

(* Fault: nobody looks whether there is a verified release. *)
DeployUnguarded(r, t) ==
  /\ pc[r] = "idle" /\ deploys < MaxDeploys
  /\ deploys' = deploys + 1
  /\ pc' = [pc EXCEPT ![r] = "connect"] /\ target' = [target EXCEPT ![r] = t]
  /\ held' = [held EXCEPT ![r] = current] /\ scanned' = [scanned EXCEPT ![r] = None]
  /\ Join(r, current)
  /\ UNCHANGED <<incoming, releases, current, server, fetches, passed, last>>

(* /deploy: 409 without a verified release; the handler keeps the release it *)
(* found, whatever is verified or cleared meanwhile.                         *)
Deploy(r, t) ==
  /\ pc[r] = "idle" /\ deploys < MaxDeploys
  /\ current > 0
  /\ deploys' = deploys + 1
  /\ pc' = [pc EXCEPT ![r] = "connect"] /\ target' = [target EXCEPT ![r] = t]
  /\ held' = [held EXCEPT ![r] = current] /\ scanned' = [scanned EXCEPT ![r] = None]
  /\ Join(r, current)
  /\ UNCHANGED <<incoming, releases, current, server, fetches, passed, last>>

(* On to the pipeline.  For the backend extract_member first takes the wheel *)
(* out of the file that now lies in the incoming folder; a KeyError if it    *)
(* has none of that name.                                                    *)
ToPipeline(r) ==
  IF target[r] = "ui" THEN At(r, "install") /\ UNCHANGED scanned
  ELSE IF Name[incoming] = Name[Asked(r)]
       THEN At(r, "install") /\ scanned' = [scanned EXCEPT ![r] = incoming]
       ELSE Raise(r)

(* connect() returns; a release that has a staged_path is not staged again. *)
Connected(r) ==
  /\ pc[r] = "connect"
  /\ \/ IF releases[held[r]].staged THEN ToPipeline(r)
                                    ELSE At(r, "upload") /\ UNCHANGED scanned
     \/ Raise(r)
  /\ UNCHANGED <<incoming, releases, current, server, fetches, deploys, passed, last>>

(* upload_release sends the file at local_path, which is the incoming one. *)
Upload(r) ==
  /\ pc[r] = "upload"
  /\ \/ landing' = incoming /\ At(r, "hash") /\ UNCHANGED scanned
     \/ landing' \in {landing, None, incoming} /\ Raise(r)
  /\ UNCHANGED <<incoming, releases, current, zip, files, installed, fetches, deploys,
                 passed, last>>

(* Fault: the hash of what landed is not compared. *)
HashIgnored(r) ==
  /\ pc[r] = "hash"
  /\ \/ At(r, "copy") /\ UNCHANGED scanned
     \/ Raise(r)
  /\ UNCHANGED <<incoming, releases, current, server, fetches, deploys, passed, last>>

(* _remote_sha256 of the landed file against the verified one. *)
Hash(r) ==
  /\ pc[r] = "hash"
  /\ \/ landing = Asked(r) /\ At(r, "copy") /\ UNCHANGED scanned
     \/ Raise(r)
  /\ UNCHANGED <<incoming, releases, current, server, fetches, deploys, passed, last>>

(* mkdir, cp: whatever lies in the CopyData folder by now. *)
Copy(r) ==
  /\ pc[r] = "copy"
  /\ \/ landing # None /\ zip' = landing /\ At(r, "unzip") /\ UNCHANGED scanned
     \/ zip' \in {zip, None, landing} /\ Raise(r)
  /\ UNCHANGED <<incoming, releases, current, landing, files, installed, fetches, deploys,
                 passed, last>>

(* None stands for a truncated file, too: tar and pip refuse it. *)
Unpacked(member) == [files EXCEPT ![Name[zip]] = member]

(* unzip -o replaces members of the same name and leaves the others; then *)
(* staged_path is set and the handler goes on to its pipeline.  It may be *)
(* cut off before, in the middle of a member, or after it.                *)
Unzip(r) ==
  /\ pc[r] = "unzip"
  /\ \/ /\ zip # None /\ files' = Unpacked(zip)
        /\ releases' = [releases EXCEPT ![held[r]].staged = TRUE]
        /\ ToPipeline(r)
     \/ /\ \/ UNCHANGED files
           \/ zip # None /\ \E member \in {None, zip} : files' = Unpacked(member)
        /\ Raise(r) /\ UNCHANGED releases
  /\ UNCHANGED <<incoming, current, landing, zip, installed, fetches, deploys, passed, last>>

(* The pipeline of the target, which names its member by the held release;  *)
(* it may fail before or after it installed.  A backend that came up healthy *)
(* empties the staging directory (_cleanup), and staged_path stays.          *)
Install(r) ==
  LET member == files[Name[Asked(r)]] IN
  /\ pc[r] = "install"
  /\ \/ Raise(r) /\ UNCHANGED <<files, zip, installed, last>>
     \/ /\ member # None
        /\ installed' = [installed EXCEPT ![target[r]] = member]
        /\ last' = [target |-> target[r], asked |-> Asked(r), got |-> member,
                    read |-> scanned[r], sole |-> r \notin mixed]
        /\ Raise(r)
        /\ \/ UNCHANGED <<files, zip>>
           \/ target[r] = "backend" /\ files' = [n \in Names |-> None] /\ zip' = None
  /\ UNCHANGED <<incoming, releases, current, landing, fetches, deploys, passed>>

Next ==
  \/ \E b \in Bundles : Fetch(b)
  \/ \E code \in Published : Verify(code)
  \/ Clear
  \/ \E r \in Requests :
       \/ \E t \in Targets : Deploy(r, t)
       \/ Connected(r) \/ Upload(r) \/ Hash(r) \/ Copy(r) \/ Unzip(r) \/ Install(r)

Spec == Init /\ [][Next]_vars

-----------------------------------------------------------------------------
TypeOK ==
  /\ {incoming, landing, zip} \subseteq Bundles \cup {None}
  /\ releases \in Seq([bundle : Bundles, staged : BOOLEAN])
  /\ current \in 0 .. Len(releases)
  /\ files \in [Names -> Bundles \cup {None}]
  /\ installed \in [Targets -> Bundles \cup {None}]
  /\ pc \in [Requests -> {"idle", "connect", "upload", "hash", "copy", "unzip", "install"}]
  /\ target \in [Requests -> Targets]
  /\ held \in [Requests -> 0 .. Len(releases)]
  /\ scanned \in [Requests -> Bundles \cup {None}]
  /\ fetches \in Nat /\ deploys \in Nat /\ passed \subseteq Bundles
  /\ mixed \subseteq Requests
  /\ last \in [target : Targets, asked : Bundles, got : Bundles, read : Bundles \cup {None},
               sole : BOOLEAN]
               \cup {NoInstall}
  /\ \A r \in Requests : pc[r] # "idle" => held[r] > 0 /\ incoming # None

(* "It never deploys an unverified archive" (AIDENOPS.md:213): between the   *)
(* two hash checks lie an upload, a copy and an unpacking, and two requests  *)
(* may stage at once.  It rests on the incoming file staying as it is while  *)
(* a deployment is in flight.                                                *)
InstalledIsVerified == \A t \in Targets : installed[t] \in passed \cup {None}

(* The build installed is the one of the release that was current when the  *)
(* operator pressed Deploy: a release of the same file names, verified      *)
(* later, staged earlier or left in the staging directory, does not take    *)
(* its place.  It rests on no request for another release being in flight   *)
(* at the same time, which nothing in the code prevents.                    *)
InstalledIsRequested == last.sole => last.got = last.asked

(* extract_member: "Safe to extract because the member was hashed against    *)
(* the archive's own SHA256SUMS.txt before this point".  The migrations are  *)
(* read from the wheel that is installed.                                    *)
ScannedIsInstalled == last.target = "backend" => last.read = last.got
=============================================================================
