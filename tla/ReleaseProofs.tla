---------------------------- MODULE ReleaseProofs ----------------------------
(***************************************************************************)
(* Proofs about Release, for any bundles, versions, requests and bounds:   *)
(* its types, and, as long as nobody replaces the incoming file while a    *)
(* deployment is in flight, that nothing unverified is installed, and that *)
(* a request which no request for another release overlaps installs what   *)
(* was asked for.                                                          *)
(*                                                                         *)
(* No lock keeps two requests apart.  What they have in common is the      *)
(* incoming file: whoever has passed the hash check holds a release of it, *)
(* and whatever they upload, copy and unpack from there on is that file    *)
(* (StagingInv).  What was staged earlier, of a release of the same file   *)
(* names, is replaced before it can be taken for another (StagedInv).      *)
(***************************************************************************)
EXTENDS Release, TLAPS

States == {"idle", "connect", "upload", "hash", "copy", "unzip", "install"}
ReleaseType == [bundle : Bundles, staged : BOOLEAN]

Latest == Len(releases)
LatestBundle == releases[Latest].bundle

(* What was verified once leaves a file in the incoming folder. *)
TypeInv == TypeOK /\ (Latest > 0 => incoming # None)

(* From the hash check to the unpacking, everything is the incoming file. *)
StagingInv ==
  \A r \in Requests :
    /\ pc[r] \in {"hash", "copy", "unzip"} => landing \in {None, incoming}
    /\ pc[r] \in {"copy", "unzip"} => Asked(r) = incoming
    /\ pc[r] = "unzip" => zip \in {None, incoming}

(* What has passed through the staging directory was verified. *)
VerifiedInv ==
  /\ \A i \in 1 .. Len(releases) : releases[i].bundle \in passed
  /\ zip \in passed \cup {None}
  /\ \A n \in Names : files[n] \in passed \cup {None}
  /\ InstalledIsVerified

(* A request that is not mixed is for the release of all others in flight;   *)
(* one that holds an old release is in flight since before the latest one.   *)
AloneInv ==
  /\ mixed \subseteq Requests
  /\ current \in {0, Latest}
  /\ \A r \in Requests : pc[r] # "idle" =>
       /\ held[r] # Latest => incoming = LatestBundle
       /\ r \notin mixed => \A o \in Requests : pc[o] # "idle" => held[o] = held[r]

(* The releases that a request may still install, and not be mixed. *)
Alive == {Latest} \cup {held[r] : r \in {q \in Requests : pc[q] # "idle" /\ q \notin mixed}}

(* A release that counts as staged has its member there, or none of its name. *)
StagedInv ==
  /\ \A i \in 1 .. Len(releases) : i \in Alive /\ releases[i].staged =>
       files[Name[releases[i].bundle]] \in {None, releases[i].bundle}
  /\ \A r \in Requests : pc[r] = "install" => releases[held[r]].staged
  /\ InstalledIsRequested

(* The steps of a request in flight. *)
Handle(r) == Connected(r) \/ Upload(r) \/ Hash(r) \/ Copy(r) \/ Unzip(r) \/ Install(r)

-----------------------------------------------------------------------------
(* A handler goes on to its next await, or ends. *)
LEMMA GoesOn ==
  ASSUME NEW r \in Requests, Handle(r)
  PROVE  /\ pc[r] # "idle"
         /\ \/ \E next \in States \ {"idle"} : At(r, next)
            \/ End(r)
<1>1. CASE Connected(r)
  BY <1>1 DEF Connected, ToPipeline, Raise, States
<1>2. CASE Upload(r)
  BY <1>2 DEF Upload, Raise, States
<1>3. CASE Hash(r)
  BY <1>3 DEF Hash, Raise, States
<1>4. CASE Copy(r)
  BY <1>4 DEF Copy, Raise, States
<1>5. CASE Unzip(r)
  BY <1>5 DEF Unzip, ToPipeline, Raise, States
<1>6. CASE Install(r)
  BY <1>6 DEF Install, Raise
<1> QED
  BY <1>1, <1>2, <1>3, <1>4, <1>5, <1>6 DEF Handle

(* What it leaves of the handlers: it is the only one that moves. *)
LEMMA Handlers ==
  ASSUME TypeOK, NEW r \in Requests, Handle(r)
  PROVE  /\ pc' \in [Requests -> States] /\ target' \in [Requests -> Targets]
         /\ held' \in [Requests -> 0 .. Latest] /\ mixed' \subseteq Requests
         /\ \A q \in Requests \ {r} : pc'[q] = pc[q] /\ held'[q] = held[q]
         /\ \A q \in Requests : pc'[q] # "idle" =>
              pc[q] # "idle" /\ held'[q] = held[q] /\ (q \in mixed' <=> q \in mixed)
<1> USE DEF TypeOK, States
<1>0. pc[r] # "idle" /\ Latest \in Nat
  BY GoesOn DEF Latest
<1>1. CASE End(r)
  BY <1>0, <1>1 DEF End, Latest
<1>2. ASSUME NEW next \in States \ {"idle"}, At(r, next)
      PROVE  /\ pc' = [pc EXCEPT ![r] = next] /\ UNCHANGED <<target, held, mixed>>
  BY <1>2 DEF At
<1>3. ASSUME NEW next \in States \ {"idle"}, At(r, next)
      PROVE  /\ pc' \in [Requests -> States]
             /\ \A q \in Requests \ {r} : pc'[q] = pc[q]
             /\ \A q \in Requests : pc'[q] # "idle" => pc[q] # "idle"
  BY <1>0, <1>2, <1>3
<1> QED
  BY GoesOn, <1>1, <1>2, <1>3 DEF Latest

(* And of everything that only the page's other buttons touch. *)
LEMMA Releases ==
  ASSUME TypeOK, NEW r \in Requests, Handle(r)
  PROVE  /\ UNCHANGED <<incoming, current, fetches, deploys, passed>>
         /\ releases' \in Seq(ReleaseType) /\ Latest' = Latest
         /\ \A i \in 1 .. Latest : /\ releases'[i].bundle = releases[i].bundle
                                   /\ releases[i].staged => releases'[i].staged
         /\ \A i \in 1 .. Latest : releases'[i].staged => releases[i].staged \/ i = held[r]
         /\ ~Unzip(r) => UNCHANGED releases
<1>0. pc[r] # "idle" /\ held[r] \in 1 .. Latest /\ releases \in Seq(ReleaseType)
  <2>1. pc[r] # "idle"
    BY GoesOn
  <2>2. held[r] \in 0 .. Latest /\ held[r] > 0 /\ releases \in Seq(ReleaseType)
    BY <2>1 DEF TypeOK, Latest, ReleaseType
  <2> QED
    BY <2>1, <2>2 DEF Latest
<1>1. UNCHANGED <<incoming, current, fetches, deploys, passed>>
  BY DEF Handle, Connected, Upload, Hash, Copy, Unzip, Install
<1>2. ~Unzip(r) => UNCHANGED releases
  BY DEF Handle, Connected, Upload, Hash, Copy, Install
<1>3. Unzip(r) => releases' \in {releases, [releases EXCEPT ![held[r]].staged = TRUE]}
  BY DEF Unzip
<1>4. ASSUME releases' = [releases EXCEPT ![held[r]].staged = TRUE]
      PROVE  /\ releases' \in Seq(ReleaseType) /\ Latest' = Latest
             /\ \A i \in 1 .. Latest : /\ releases'[i].bundle = releases[i].bundle
                                       /\ releases[i].staged => releases'[i].staged
             /\ \A i \in 1 .. Latest : releases'[i].staged => releases[i].staged \/ i = held[r]
  <2> DEFINE new == [releases[held[r]] EXCEPT !.staged = TRUE]
  <2>0. releases[held[r]] \in ReleaseType
    BY <1>0 DEF Latest
  <2>1. new \in ReleaseType /\ new.bundle = releases[held[r]].bundle /\ new.staged = TRUE
    BY <2>0 DEF ReleaseType
  <2>2. releases' = [releases EXCEPT ![held[r]] = new]
    BY <1>4
  <2> HIDE DEF new
  <2> QED
    BY <1>0, <2>1, <2>2 DEF Latest
<1> QED
  BY <1>0, <1>1, <1>2, <1>3, <1>4 DEF Latest

-----------------------------------------------------------------------------
LEMMA TypeInit == Init => TypeInv
<1> SUFFICES ASSUME Init PROVE TypeInv
  OBVIOUS
<1>1. TypeOK
  BY ReleaseConstants DEF Init, TypeOK, NoInstall, Targets
<1> QED
  BY <1>1 DEF Init, TypeInv, Latest

(* What lies where, and was installed. *)
ServerType ==
  /\ {landing, zip} \subseteq Bundles \cup {None}
  /\ files \in [Names -> Bundles \cup {None}]
  /\ installed \in [Targets -> Bundles \cup {None}]
  /\ scanned \in [Requests -> Bundles \cup {None}]
  /\ last \in [target : Targets, asked : Bundles, got : Bundles, read : Bundles \cup {None},
               sole : BOOLEAN]
               \cup {NoInstall}

LEMMA ServerStep ==
  ASSUME TypeOK, NEW r \in Requests, Handle(r)
  PROVE  ServerType'
<1> USE DEF ServerType
<1>0. /\ ServerType /\ incoming \in Bundles
      /\ held[r] \in 1 .. Len(releases) /\ Asked(r) \in Bundles /\ r \in DOMAIN scanned
  <2>1. pc[r] # "idle"
    BY GoesOn
  <2>2. held[r] \in 1 .. Len(releases) /\ releases \in Seq(ReleaseType)
    BY <2>1 DEF TypeOK, ReleaseType
  <2>3. releases[held[r]] \in ReleaseType
    BY <2>2
  <2> QED
    BY <2>1, <2>2, <2>3 DEF TypeOK, Asked, ReleaseType
<1>1. ASSUME ToPipeline(r) PROVE scanned' \in [Requests -> Bundles \cup {None}]
  BY <1>0, <1>1 DEF ToPipeline, Raise
<1>2. CASE Connected(r)
  BY <1>0, <1>1, <1>2 DEF Connected, Raise, server
<1>3. CASE Upload(r)
  BY <1>0, <1>3 DEF Upload, Raise
<1>4. CASE Hash(r)
  BY <1>0, <1>4 DEF Hash, Raise, server
<1>5. CASE Copy(r)
  BY <1>0, <1>5 DEF Copy, Raise
<1>6. CASE Unzip(r)
  <2>1. UNCHANGED files \/ (zip # None /\ \E m \in {None, zip} : files' = Unpacked(m))
    BY <1>6 DEF Unzip
  <2>2. files' \in [Names -> Bundles \cup {None}]
    BY <1>0, <2>1 DEF Unpacked
  <2>3. scanned' \in [Requests -> Bundles \cup {None}]
    BY <1>0, <1>1, <1>6 DEF Unzip, Raise
  <2> QED
    BY <1>0, <1>6, <2>2, <2>3 DEF Unzip
<1>7. CASE Install(r)
  <2> DEFINE member == files[Name[Asked(r)]]
  <2>1. UNCHANGED <<landing, scanned>> /\ zip' \in {zip, None}
    BY <1>7 DEF Install, Raise
  <2>2. files' \in [Names -> Bundles \cup {None}]
    BY <1>0, <1>7 DEF Install
  <2>3. Name[Asked(r)] \in Names
    BY <1>0 DEF Names
  <2>4. \/ UNCHANGED <<installed, last>>
        \/ /\ member \in Bundles /\ installed' = [installed EXCEPT ![target[r]] = member]
           /\ last' = [target |-> target[r], asked |-> Asked(r), got |-> member,
                       read |-> scanned[r], sole |-> r \notin mixed]
    BY <1>0, <1>7, <2>3 DEF Install
  <2>5. target[r] \in Targets /\ scanned[r] \in Bundles \cup {None}
    BY DEF TypeOK
  <2> HIDE DEF member
  <2>6. installed' \in [Targets -> Bundles \cup {None}]
    BY <1>0, <2>4, <2>5
  <2>7. last' \in [target : Targets, asked : Bundles, got : Bundles,
                  read : Bundles \cup {None}, sole : BOOLEAN] \cup {NoInstall}
    <3>1. (r \notin mixed) \in BOOLEAN
      OBVIOUS
    <3> DEFINE alone == r \notin mixed
    <3>2. \/ UNCHANGED last
          \/ /\ member \in Bundles
             /\ last' = [target |-> target[r], asked |-> Asked(r), got |-> member,
                         read |-> scanned[r], sole |-> alone]
      BY <2>4
    <3> HIDE DEF alone
    <3>3. alone \in BOOLEAN
      BY <3>1 DEF alone
    <3> QED
      BY <1>0, <2>5, <3>2, <3>3
  <2> QED
    BY <1>0, <2>1, <2>2, <2>6, <2>7
<1> QED
  BY <1>2, <1>3, <1>4, <1>5, <1>6, <1>7 DEF Handle

(* /verify appends a release or forgets the one there is. *)
LEMMA Verified ==
  ASSUME TypeOK, NEW code \in Published, Verify(code)
  PROVE  /\ UNCHANGED <<incoming, server, handler, fetches, deploys, last>>
         /\ passed' \subseteq Bundles
         /\ \/ UNCHANGED <<releases, passed>> /\ current' = 0
            \/ /\ Latest' = Latest + 1 /\ current' = Latest' /\ releases' \in Seq(ReleaseType)
               /\ \A i \in 1 .. Latest : releases'[i] = releases[i]
               /\ releases'[Latest'] = [bundle |-> code, staged |-> FALSE]
               /\ incoming = code /\ passed' = passed \cup {code}
<1>1. releases \in Seq(ReleaseType) /\ passed \subseteq Bundles /\ code \in Bundles
  BY ReleaseConstants DEF TypeOK, ReleaseType
<1> DEFINE new == [bundle |-> code, staged |-> FALSE]
<1>2. new \in ReleaseType
  BY <1>1 DEF ReleaseType
<1>3. /\ UNCHANGED <<incoming, server, handler, fetches, deploys, last>>
      /\ \/ UNCHANGED <<releases, passed>> /\ current' = 0
         \/ /\ incoming = code /\ releases' = Append(releases, new)
            /\ current' = Len(releases) + 1 /\ passed' = passed \cup {code}
  BY DEF Verify
<1> HIDE DEF new
<1>4. /\ Append(releases, new) \in Seq(ReleaseType)
      /\ Len(Append(releases, new)) = Len(releases) + 1 /\ Len(releases) \in Nat
      /\ \A i \in 1 .. Len(releases) : Append(releases, new)[i] = releases[i]
      /\ Append(releases, new)[Len(releases) + 1] = new
  BY <1>1, <1>2
<1> QED
  BY <1>1, <1>3, <1>4 DEF Latest, new

(* /deploy takes in the current release, and who is mixed with whom. *)
LEMMA Deployed ==
  ASSUME TypeOK, NEW r \in Requests, NEW t \in Targets, Deploy(r, t)
  PROVE  /\ pc[r] = "idle" /\ pc'[r] = "connect" /\ current > 0 /\ held'[r] = current
         /\ pc' \in [Requests -> States] /\ target' \in [Requests -> Targets]
         /\ held' \in [Requests -> 0 .. Latest] /\ scanned' \in [Requests -> Bundles \cup {None}]
         /\ \A q \in Requests \ {r} : pc'[q] = pc[q] /\ held'[q] = held[q]
         /\ mixed' \subseteq Requests
         /\ mixed' = mixed \cup Others(current) \cup (IF Others(current) = {} THEN {} ELSE {r})
         /\ UNCHANGED <<incoming, releases, current, server, fetches, passed, last>>
         /\ deploys' \in Nat
BY DEF Deploy, TypeOK, States, Join, Others, Latest

LEMMA TypeStep == TypeInv /\ [Next]_vars => TypeInv'
<1> SUFFICES ASSUME TypeInv, [Next]_vars PROVE TypeInv'
  OBVIOUS
<1>0. TypeOK /\ Latest \in Nat /\ None \notin Bundles /\ (current > 0 => incoming # None)
  BY ReleaseConstants DEF TypeInv, TypeOK, Latest
<1>1. ASSUME NEW b \in Bundles, Fetch(b) PROVE TypeInv'
  <2>1. b # None
    BY <1>0
  <2> QED
    BY <1>0, <1>1, <2>1 DEF Fetch, TypeInv, TypeOK, Latest, server, handler
<1>2. ASSUME NEW code \in Published, Verify(code) PROVE TypeInv'
  <2>1. /\ UNCHANGED <<incoming, server, handler, fetches, deploys, last>>
        /\ passed' \subseteq Bundles /\ incoming # None
        /\ releases' \in Seq(ReleaseType) /\ Latest' \in Nat /\ Latest <= Latest'
        /\ current' \in 0 .. Latest'
    <3>1. incoming # None /\ releases \in Seq(ReleaseType)
      BY <1>0, <1>2 DEF Verify, TypeOK, ReleaseType
    <3>2. UNCHANGED releases => UNCHANGED Latest
      BY DEF Latest
    <3>3. UNCHANGED <<incoming, server, handler, fetches, deploys, last>>
      BY <1>2 DEF Verify
    <3>4. passed' \subseteq Bundles
      BY <1>0, <1>2, Verified
    <3>5. \/ UNCHANGED releases /\ current' = 0
          \/ Latest' = Latest + 1 /\ current' = Latest' /\ releases' \in Seq(ReleaseType)
      BY <1>0, <1>2, Verified
    <3> QED
      BY <1>0, <3>1, <3>2, <3>3, <3>4, <3>5
  <2>2. held' \in [Requests -> 0 .. Len(releases')]
    BY <1>0, <2>1 DEF TypeOK, handler, Latest
  <2> QED
    BY <1>0, <2>1, <2>2 DEF TypeInv, TypeOK, Latest, server, handler, ReleaseType
<1>3. CASE Clear
  BY <1>0, <1>3 DEF Clear, TypeInv, TypeOK, Latest, server, handler
<1>4. ASSUME NEW r \in Requests, NEW t \in Targets, Deploy(r, t) PROVE TypeInv'
  <2>1. \A q \in Requests : pc'[q] # "idle" => held'[q] > 0 /\ incoming' # None
    BY <1>0, <1>4, Deployed DEF TypeOK
  <2> QED
    BY <1>0, <1>4, <2>1, Deployed DEF TypeInv, TypeOK, Latest, server, States
<1>5. ASSUME NEW r \in Requests, Handle(r) PROVE TypeInv'
  <2>1. \A q \in Requests : pc'[q] # "idle" => held'[q] > 0 /\ incoming' # None
    BY <1>0, <1>5, Handlers, Releases DEF TypeOK
  <2> QED
    BY <1>0, <1>5, <2>1, Handlers, Releases, ServerStep
       DEF TypeInv, TypeOK, ServerType, Latest, States, ReleaseType
<1>6. CASE UNCHANGED vars
  BY <1>0, <1>6 DEF vars, server, handler, TypeInv, TypeOK, Latest
<1> QED
  BY <1>1, <1>2, <1>3, <1>4, <1>5, <1>6 DEF Next, Handle

(* Every step keeps what is known of who is mixed with whom. *)
LEMMA AloneStep ==
  ASSUME ~FetchWhileDeploying
  PROVE  TypeInv /\ AloneInv /\ [Next]_vars => AloneInv'
<1> SUFFICES ASSUME TypeInv, AloneInv, [Next]_vars PROVE AloneInv'
  OBVIOUS
<1> USE DEF AloneInv
<1>0. TypeOK /\ Latest \in Nat
  BY DEF TypeInv, TypeOK, Latest
<1>1. ASSUME NEW b \in Bundles, Fetch(b) PROVE AloneInv'
  BY <1>0, <1>1 DEF Fetch, Idle, Latest, LatestBundle, handler
<1>2. ASSUME NEW code \in Published, Verify(code) PROVE AloneInv'
  <2>1. /\ current' \in {0, Latest'} /\ UNCHANGED <<incoming, mixed, pc, held>>
        /\ \/ UNCHANGED releases
           \/ releases'[Latest'].bundle = incoming'
    <3>1. UNCHANGED <<incoming, mixed, pc, held>>
      BY <1>2 DEF Verify, handler
    <3>2. \/ UNCHANGED releases /\ current' = 0
          \/ current' = Latest' /\ releases'[Latest'] = [bundle |-> code, staged |-> FALSE]
             /\ incoming = code
      BY <1>0, <1>2, Verified
    <3> QED
      BY <3>1, <3>2
  <2> QED
    BY <1>0, <2>1 DEF Latest, LatestBundle
<1>3. CASE Clear
  BY <1>0, <1>3 DEF Clear, Latest, LatestBundle, handler
<1>4. ASSUME NEW r \in Requests, NEW t \in Targets, Deploy(r, t) PROVE AloneInv'
  <2>1. \A q \in Requests : pc'[q] # "idle" => (q = r \/ (pc[q] # "idle" /\ held'[q] = held[q]))
    BY <1>0, <1>4, Deployed
  <2>2. held'[r] = Latest /\ UNCHANGED <<incoming, releases, current>>
    BY <1>0, <1>4, Deployed
  <2>3. ASSUME NEW q \in Requests, pc'[q] # "idle", q \notin mixed',
               NEW o \in Requests, pc'[o] # "idle"
        PROVE  held'[o] = held'[q]
    <3>1. mixed' = mixed \cup Others(current) \cup (IF Others(current) = {} THEN {} ELSE {r})
          /\ current = held'[r]
      BY <1>0, <1>4, Deployed
    <3>2. CASE q = r
      BY <2>1, <2>3, <3>1, <3>2 DEF Others
    <3>3. CASE q # r
      <4>1. pc[q] # "idle" /\ held'[q] = held[q] /\ held[q] = held'[r] /\ q \notin mixed
        BY <2>1, <2>3, <3>1, <3>3 DEF Others
      <4> QED
        BY <2>1, <2>3, <4>1
    <3> QED
      BY <3>2, <3>3
  <2>4. mixed' \subseteq Requests /\ (current' = 0 \/ current' = Latest')
    BY <1>0, <1>4, <2>2, Deployed DEF Latest
  <2> QED
    BY <2>1, <2>2, <2>3, <2>4 DEF Latest, LatestBundle
<1>5. ASSUME NEW r \in Requests, Handle(r) PROVE AloneInv'
  <2>1. LatestBundle' = LatestBundle \/ Latest = 0
    <3>1. Latest' = Latest /\ \A i \in 1 .. Latest : releases'[i].bundle = releases[i].bundle
      BY <1>0, <1>5, Releases
    <3>2. Latest # 0 => releases'[Latest].bundle = releases[Latest].bundle
      BY <1>0, <3>1
    <3> QED
      BY <3>1, <3>2 DEF LatestBundle
  <2>2. \A q \in Requests : pc[q] # "idle" => Latest > 0
    BY <1>0 DEF TypeOK, Latest
  <2> QED
    BY <1>0, <1>5, <2>1, <2>2, Handlers, Releases
<1>6. CASE UNCHANGED vars
  BY <1>6 DEF vars, handler, Latest, LatestBundle
<1> QED
  BY <1>1, <1>2, <1>3, <1>4, <1>5, <1>6 DEF Next, Handle

(* While a request is in flight its release and the incoming file stay. *)
LEMMA InFlight ==
  ASSUME ~FetchWhileDeploying, TypeInv, Next, NEW q \in Requests, pc'[q] # "idle"
  PROVE  \/ pc[q] = "idle" /\ pc'[q] = "connect"
         \/ /\ pc[q] # "idle" /\ held'[q] = held[q] /\ held[q] \in 1 .. Latest
            /\ Asked(q)' = Asked(q) /\ UNCHANGED incoming
<1> USE DEF Asked
<1>0. TypeOK /\ Latest \in Nat /\ (pc[q] # "idle" => held[q] \in 1 .. Latest)
  BY DEF TypeInv, TypeOK, Latest
<1>1. ASSUME NEW b \in Bundles, Fetch(b) PROVE FALSE
  BY <1>1 DEF Fetch, Idle, handler
<1>2. ASSUME NEW code \in Published, Verify(code)
      PROVE  /\ pc'[q] = pc[q] /\ held'[q] = held[q] /\ UNCHANGED incoming
             /\ pc[q] # "idle" => Asked(q)' = Asked(q)
  <2>1. UNCHANGED <<pc, held, incoming>>
    BY <1>2 DEF Verify, handler
  <2>2. UNCHANGED releases \/ \A i \in 1 .. Latest : releases'[i] = releases[i]
    BY <1>0, <1>2, Verified
  <2> QED
    BY <1>0, <2>1, <2>2
<1>3. CASE Clear
  BY <1>0, <1>3 DEF Clear, handler
<1>4. ASSUME NEW r \in Requests, NEW t \in Targets, Deploy(r, t)
      PROVE  \/ pc[q] = "idle" /\ pc'[q] = "connect"
             \/ pc[q] # "idle" /\ UNCHANGED <<incoming, releases>> /\ held'[q] = held[q]
  BY <1>0, <1>4, Deployed
<1>5. ASSUME NEW r \in Requests, Handle(r)
      PROVE  pc[q] # "idle" /\ UNCHANGED incoming /\ held'[q] = held[q] /\ Asked(q)' = Asked(q)
  <2>1. pc[q] # "idle" /\ UNCHANGED incoming /\ held'[q] = held[q]
    BY <1>0, <1>5, Handlers, Releases
  <2>2. \A i \in 1 .. Latest : releases'[i].bundle = releases[i].bundle
    BY <1>0, <1>5, Releases
  <2> QED
    BY <1>0, <2>1, <2>2
<1> QED
  BY <1>0, <1>1, <1>2, <1>3, <1>4, <1>5 DEF Next, Handle

(* Where each step of a handler leads. *)
LEMMA Stages ==
  ASSUME TypeOK, NEW r \in Requests, Handle(r)
  PROVE  /\ Connected(r) => pc'[r] \in {"upload", "install", "idle"}
         /\ Upload(r) => pc'[r] \in {"hash", "idle"}
         /\ Hash(r) => pc'[r] \in {"copy", "idle"}
         /\ Copy(r) => pc'[r] \in {"unzip", "idle"}
         /\ Unzip(r) => pc'[r] \in {"install", "idle"}
         /\ Install(r) => pc'[r] = "idle"
<1>1. \A next \in States : At(r, next) => pc'[r] = next
  BY DEF At, TypeOK
<1>2. End(r) => pc'[r] = "idle"
  BY DEF End, TypeOK
<1>3. ToPipeline(r) => pc'[r] \in {"install", "idle"}
  BY <1>1, <1>2 DEF ToPipeline, Raise, States
<1> QED
  BY <1>1, <1>2, <1>3 DEF Connected, Upload, Hash, Copy, Unzip, Install, Raise, States

(* What is staged stays the incoming file, whoever else stages beside it. *)
LEMMA StagingStep ==
  ASSUME ~FetchWhileDeploying
  PROVE  TypeInv /\ StagingInv /\ [Next]_vars => StagingInv'
<1> SUFFICES ASSUME TypeInv, StagingInv, Next PROVE StagingInv'
  BY DEF StagingInv, vars, handler, server, Asked
<1> SUFFICES ASSUME NEW q \in Requests, pc'[q] \in {"hash", "copy", "unzip"}
             PROVE  /\ landing' \in {None, incoming'}
                    /\ pc'[q] \in {"copy", "unzip"} => Asked(q)' = incoming'
                    /\ pc'[q] = "unzip" => zip' \in {None, incoming'}
  BY DEF StagingInv
<1>0. /\ TypeOK /\ pc[q] # "idle" /\ Asked(q)' = Asked(q) /\ incoming' = incoming
      /\ pc[q] \in {"hash", "copy", "unzip"} => landing \in {None, incoming}
      /\ pc[q] \in {"copy", "unzip"} => Asked(q) = incoming
      /\ pc[q] = "unzip" => zip \in {None, incoming}
  BY InFlight DEF TypeInv, StagingInv
<1> DEFINE Goal == /\ landing' \in {None, incoming'}
                   /\ pc'[q] \in {"copy", "unzip"} => Asked(q)' = incoming'
                   /\ pc'[q] = "unzip" => zip' \in {None, incoming'}
<1>1. ASSUME pc'[q] = pc[q], UNCHANGED <<landing, zip>> PROVE Goal
  BY <1>0, <1>1
<1>2. (\E b \in Bundles : Fetch(b)) \/ (\E code \in Published : Verify(code)) \/ Clear => Goal
  BY <1>1 DEF Fetch, Verify, Clear, handler, server
<1>3. ASSUME NEW r \in Requests, NEW t \in Targets, Deploy(r, t) PROVE Goal
  <2>1. pc'[q] = pc[q] /\ UNCHANGED server
    BY <1>0, <1>3, Deployed
  <2> QED
    BY <1>1, <2>1 DEF server
<1>4. ASSUME NEW r \in Requests, Handle(r) PROVE Goal
  <2>0. r # q => pc'[q] = pc[q]
    BY <1>0, <1>4, Handlers
  <2>1. CASE Connected(r)
    BY <1>0, <1>1, <1>4, <2>0, <2>1, Stages DEF Connected, server
  <2>2. CASE Upload(r)
    <3>1. /\ landing' \in {landing, None, incoming} /\ UNCHANGED zip
          /\ landing' = incoming \/ r # q
      BY <1>0, <2>2 DEF Upload, Raise, End, TypeOK
    <3> QED
      BY <1>0, <1>4, <2>0, <2>2, <3>1, Stages
  <2>3. CASE Hash(r)
    <3>1. /\ UNCHANGED <<landing, zip>> /\ pc[r] = "hash"
          /\ landing = Asked(r) \/ r # q
      BY <1>0, <2>3 DEF Hash, Raise, End, TypeOK, server
    <3>2. Asked(q) # None
      <4>1. releases \in Seq(ReleaseType) /\ held[q] \in 1 .. Len(releases)
        BY <1>0 DEF TypeOK, ReleaseType
      <4>2. releases[held[q]] \in ReleaseType
        BY <4>1
      <4> QED
        BY <4>2, ReleaseConstants DEF Asked, ReleaseType
    <3> QED
      BY <1>0, <1>4, <2>0, <2>3, <3>1, <3>2, Stages
  <2>4. CASE Copy(r)
    <3>1. /\ UNCHANGED landing /\ zip' \in {zip, None, landing} /\ pc[r] = "copy"
          /\ zip' = landing \/ r # q
      BY <1>0, <2>4 DEF Copy, Raise, End, TypeOK
    <3>2. landing \in {None, incoming}
      BY <3>1 DEF StagingInv
    <3> QED
      BY <1>0, <1>4, <2>0, <2>4, <3>1, <3>2, Stages
  <2>5. CASE Unzip(r)
    BY <1>0, <1>1, <1>4, <2>0, <2>5, Stages DEF Unzip
  <2>6. CASE Install(r)
    <3>1. UNCHANGED landing /\ zip' \in {zip, None}
      BY <2>6 DEF Install
    <3> QED
      BY <1>0, <1>4, <2>0, <2>6, <3>1, Stages
  <2> QED
    BY <1>4, <2>1, <2>2, <2>3, <2>4, <2>5, <2>6 DEF Handle
<1> QED
  BY <1>2, <1>3, <1>4 DEF Next, Handle

(* Only what was verified gets past the hash check. *)
LEMMA VerifiedStep == TypeInv /\ StagingInv /\ VerifiedInv /\ [Next]_vars => VerifiedInv'
<1> SUFFICES ASSUME TypeInv, StagingInv, VerifiedInv, [Next]_vars PROVE VerifiedInv'
  OBVIOUS
<1> USE DEF VerifiedInv, InstalledIsVerified
<1>0. TypeOK /\ Latest \in Nat /\ Latest = Len(releases)
  BY DEF TypeInv, TypeOK, Latest
<1>1. ASSUME NEW b \in Bundles, Fetch(b) PROVE VerifiedInv'
  BY <1>1 DEF Fetch, server
<1>2. ASSUME NEW code \in Published, Verify(code) PROVE VerifiedInv'
  <2>1. UNCHANGED <<zip, files, installed>> /\ passed \subseteq passed'
    BY <1>2 DEF Verify, server
  <2>2. ASSUME NEW i \in 1 .. Len(releases') PROVE releases'[i].bundle \in passed'
    <3>1. CASE UNCHANGED releases
      BY <2>1, <3>1
    <3>2. CASE /\ Latest' = Latest + 1
               /\ \A j \in 1 .. Latest : releases'[j] = releases[j]
               /\ releases'[Latest'] = [bundle |-> code, staged |-> FALSE]
               /\ passed' = passed \cup {code}
      <4>1. i \in 1 .. Latest \/ i = Latest'
        BY <1>0, <3>2 DEF Latest
      <4> QED
        BY <1>0, <2>1, <3>2, <4>1
    <3> QED
      BY <1>0, <1>2, <3>1, <3>2, Verified
  <2> QED
    BY <2>1, <2>2
<1>3. CASE Clear
  BY <1>3 DEF Clear, server
<1>4. ASSUME NEW r \in Requests, NEW t \in Targets, Deploy(r, t) PROVE VerifiedInv'
  <2>1. UNCHANGED <<releases, passed, server>>
    BY <1>0, <1>4, Deployed
  <2> QED
    BY <2>1 DEF server
<1>5. ASSUME NEW r \in Requests, Handle(r) PROVE VerifiedInv'
  <2>1. /\ UNCHANGED passed /\ Asked(r) \in passed
        /\ \A i \in 1 .. Len(releases') : releases'[i].bundle \in passed
    <3>1. /\ UNCHANGED passed /\ Latest' = Latest
          /\ \A i \in 1 .. Latest : releases'[i].bundle = releases[i].bundle
      BY <1>0, <1>5, Releases
    <3>2. pc[r] # "idle"
      BY <1>5, GoesOn
    <3>3. held[r] \in 1 .. Len(releases)
      BY <1>0, <3>2 DEF TypeOK
    <3> QED
      BY <1>0, <3>1, <3>3 DEF Asked, Latest
  <2>2. CASE Connected(r) \/ Upload(r) \/ Hash(r)
    BY <2>1, <2>2 DEF Connected, Upload, Hash, server
  <2>3. CASE Copy(r)
    <3>1. landing \in passed \cup {None}
      BY <2>1, <2>3 DEF Copy, StagingInv
    <3> QED
      BY <2>1, <2>3, <3>1 DEF Copy
  <2>4. CASE Unzip(r)
    <3>1. /\ UNCHANGED files \/ (zip # None /\ \E m \in {None, zip} : files' = Unpacked(m))
          /\ UNCHANGED <<zip, installed>>
      BY <2>4 DEF Unzip
    <3>2. \A n \in Names : files'[n] \in passed \cup {None}
      BY <1>0, <3>1 DEF Unpacked, TypeOK
    <3> QED
      BY <2>1, <3>1, <3>2
  <2>5. CASE Install(r)
    <3> DEFINE member == files[Name[Asked(r)]]
    <3>1. Name[Asked(r)] \in Names
      BY <1>0, <2>1 DEF TypeOK, Names
    <3>2. /\ zip' \in {zip, None}
          /\ UNCHANGED files \/ files' = [n \in Names |-> None]
          /\ UNCHANGED installed \/ installed' = [installed EXCEPT ![target[r]] = member]
      BY <2>5 DEF Install
    <3>3. member \in passed \cup {None}
      BY <3>1
    <3> HIDE DEF member
    <3>4. \A t \in Targets : installed'[t] \in passed \cup {None}
      BY <1>0, <3>2, <3>3 DEF TypeOK
    <3> QED
      BY <2>1, <3>2, <3>4
  <2> QED
    BY <1>5, <2>2, <2>3, <2>4, <2>5 DEF Handle
<1>6. CASE UNCHANGED vars
  BY <1>6 DEF vars, server
<1> QED
  BY <1>1, <1>2, <1>3, <1>4, <1>5, <1>6 DEF Next, Handle

(* Whatever is unpacked is of the release of every request that is not mixed. *)
LEMMA UnpackedForAll ==
  ASSUME TypeInv, AloneInv, StagingInv, NEW r \in Requests, pc[r] = "unzip", NEW i \in Alive,
         i \in 1 .. Latest
  PROVE  releases[i].bundle = incoming
<1>1. Asked(r) = incoming
  BY DEF StagingInv
<1>2. CASE i = Latest
  BY <1>1, <1>2 DEF AloneInv, LatestBundle, Asked
<1>3. CASE i # Latest
  BY <1>1, <1>3 DEF AloneInv, Alive, Asked
<1> QED
  BY <1>2, <1>3

(* What counts as staged is staged, for those who may install it. *)
LEMMA StagedStep ==
  ASSUME ~FetchWhileDeploying
  PROVE  TypeInv /\ AloneInv /\ StagingInv /\ StagedInv /\ [Next]_vars => StagedInv'
<1> SUFFICES ASSUME TypeInv, AloneInv, StagingInv, StagedInv, [Next]_vars PROVE StagedInv'
  OBVIOUS
<1>0. TypeOK /\ Latest \in Nat /\ Latest = Len(releases)
  BY DEF TypeInv, TypeOK, Latest
<1>1. ASSUME UNCHANGED <<files, releases, last>>,
             \A q \in Requests : pc'[q] # "idle" =>
               \/ pc'[q] # "install" /\ held'[q] = Latest
               \/ pc'[q] = pc[q] /\ held'[q] = held[q] /\ (q \notin mixed' => q \notin mixed)
      PROVE  StagedInv'
  <2>1. Alive' \subseteq Alive /\ Latest' = Latest
    BY <1>1 DEF Alive, Latest
  <2> QED
    BY <1>1, <2>1 DEF StagedInv, InstalledIsRequested
<1>2. ASSUME NEW b \in Bundles, Fetch(b) PROVE StagedInv'
  BY <1>1, <1>2 DEF Fetch, server, handler
<1>3. ASSUME NEW code \in Published, Verify(code) PROVE StagedInv'
  <2>1. UNCHANGED <<files, pc, held, mixed, last>>
    BY <1>3 DEF Verify, server, handler
  <2>2. CASE UNCHANGED releases
    BY <1>1, <2>1, <2>2
  <2>3. CASE /\ Latest' = Latest + 1
             /\ \A i \in 1 .. Latest : releases'[i] = releases[i]
             /\ releases'[Latest'] = [bundle |-> code, staged |-> FALSE]
    <3>1. \A i \in Alive' : i = Latest' \/ i \in Alive
      BY <2>1 DEF Alive
    <3>2. \A i \in 1 .. Len(releases') : i = Latest' \/ i \in 1 .. Latest
      BY <1>0, <2>3 DEF Latest
    <3>3. \A q \in Requests : pc[q] = "install" => held[q] \in 1 .. Latest
      BY <1>0 DEF TypeOK
    <3> QED
      BY <1>0, <2>1, <2>3, <3>1, <3>2, <3>3 DEF StagedInv, InstalledIsRequested
  <2> QED
    BY <1>0, <1>3, <2>2, <2>3, Verified
<1>4. CASE Clear
  BY <1>1, <1>4 DEF Clear, server, handler
<1>5. ASSUME NEW r \in Requests, NEW t \in Targets, Deploy(r, t) PROVE StagedInv'
  <2>1. /\ UNCHANGED <<releases, last, server>> /\ held'[r] = Latest /\ pc'[r] = "connect"
        /\ \A q \in Requests \ {r} : pc'[q] = pc[q] /\ held'[q] = held[q]
        /\ \A q \in Requests : q \notin mixed' => q \notin mixed
    BY <1>0, <1>5, Deployed DEF AloneInv
  <2> QED
    BY <1>1, <2>1 DEF server
<1>6. ASSUME NEW r \in Requests, Handle(r) PROVE StagedInv'
  <2>1. /\ \A q \in Requests : pc'[q] # "idle" =>
             pc[q] # "idle" /\ held'[q] = held[q] /\ (q \in mixed' <=> q \in mixed)
        /\ \A q \in Requests \ {r} : pc'[q] = pc[q]
    BY <1>0, <1>6, Handlers
  <2>2. /\ Latest' = Latest
        /\ \A i \in 1 .. Latest : releases'[i].bundle = releases[i].bundle
        /\ \A i \in 1 .. Latest : releases[i].staged => releases'[i].staged
        /\ ~Unzip(r) => UNCHANGED releases
    BY <1>0, <1>6, Releases
  <2>3. Alive' \subseteq Alive
    BY <2>1, <2>2 DEF Alive
  <2>4. pc[r] # "idle" /\ held[r] \in 1 .. Latest /\ Asked(r) \in Bundles
    <3>1. pc[r] # "idle"
      BY <1>6, GoesOn
    <3>2. held[r] \in 1 .. Len(releases) /\ releases \in Seq(ReleaseType)
      BY <1>0, <3>1 DEF TypeOK, ReleaseType
    <3>3. releases[held[r]] \in ReleaseType
      BY <3>2
    <3> QED
      BY <1>0, <3>1, <3>2, <3>3 DEF Asked, ReleaseType
  <2>5. ASSUME NEW i \in 1 .. Latest, i \in Alive', releases'[i].staged
        PROVE  files'[Name[releases'[i].bundle]] \in {None, releases'[i].bundle}
    <3>1. CASE Unzip(r) /\ zip # None /\ \E m \in {None, zip} : files' = Unpacked(m)
      <4>1. releases[i].bundle = incoming /\ zip = incoming /\ incoming \in Bundles
        BY <1>0, <2>3, <2>5, <3>1, UnpackedForAll DEF Unzip, StagingInv, TypeOK
      <4>2. Name[incoming] \in Names
        BY <4>1 DEF Names
      <4> QED
        BY <1>0, <2>2, <3>1, <4>1, <4>2 DEF Unpacked, TypeOK
    <3>2. CASE UNCHANGED <<files, releases>>
      BY <2>3, <2>5, <3>2 DEF StagedInv, Latest
    <3>3. CASE ~Unzip(r) /\ files' = [n \in Names |-> None]
      <4>0. releases \in Seq(ReleaseType)
        BY <1>0 DEF TypeOK, ReleaseType
      <4>1. releases[i] \in ReleaseType
        BY <1>0, <4>0
      <4>2. Name[releases[i].bundle] \in Names
        BY <4>1 DEF Names, ReleaseType
      <4> QED
        BY <2>2, <3>3, <4>2
    <3>4. Unzip(r) => \/ zip # None /\ \E m \in {None, zip} : files' = Unpacked(m)
                      \/ UNCHANGED <<files, releases>>
      BY DEF Unzip
    <3>5. ~Unzip(r) => UNCHANGED files \/ files' = [n \in Names |-> None]
      BY <1>6 DEF Handle, Connected, Upload, Hash, Copy, Install, server
    <3> QED
      BY <2>2, <3>1, <3>2, <3>3, <3>4, <3>5
  <2>6. ASSUME NEW q \in Requests, pc'[q] = "install" PROVE releases'[held'[q]].staged
    <3>1. CASE q # r
      <4>1. pc[q] = "install" /\ held'[q] = held[q] /\ releases[held[q]].staged
        BY <2>1, <2>6, <3>1 DEF StagedInv
      <4>2. held[q] \in 1 .. Latest
        BY <1>0, <4>1 DEF TypeOK
      <4> QED
        BY <2>2, <4>1, <4>2
    <3>2. CASE q = r
      <4>1. Connected(r) \/ Unzip(r)
        BY <1>0, <1>6, <2>6, <3>2, Stages DEF Handle
      <4>2. CASE Connected(r)
        <5>1. ~releases[held[r]].staged => pc'[r] \in {"upload", "idle"}
          BY <1>0, <4>2 DEF Connected, Raise, At, End, TypeOK
        <5> QED
          BY <2>1, <2>4, <2>6, <3>2, <4>2, <5>1 DEF Connected
      <4>3. CASE Unzip(r)
        <5>1. Raise(r) => pc'[r] = "idle"
          BY <1>0 DEF Raise, End, TypeOK
        <5>2. releases' = [releases EXCEPT ![held[r]].staged = TRUE]
          BY <2>6, <3>2, <4>3, <5>1 DEF Unzip
        <5>3. releases'[held[r]].staged = TRUE
          <6> DEFINE new == [releases[held[r]] EXCEPT !.staged = TRUE]
          <6>0. releases \in Seq(ReleaseType)
            BY <1>0 DEF TypeOK, ReleaseType
          <6>1. releases[held[r]] \in ReleaseType
            BY <1>0, <2>4, <6>0
          <6>2. new.staged = TRUE
            BY <6>1 DEF ReleaseType
          <6>3. releases' = [releases EXCEPT ![held[r]] = new]
            BY <5>2
          <6> HIDE DEF new
          <6> QED
            BY <1>0, <2>4, <6>0, <6>2, <6>3
        <5> QED
          BY <2>1, <2>6, <3>2, <5>3
      <4> QED
        BY <4>1, <4>2, <4>3
    <3> QED
      BY <3>1, <3>2
  <2>7. InstalledIsRequested'
    <3>1. UNCHANGED last => InstalledIsRequested'
      BY DEF InstalledIsRequested, StagedInv
    <3>2. ASSUME ~UNCHANGED last PROVE InstalledIsRequested'
      <4> DEFINE member == files[Name[Asked(r)]]
      <4>1. /\ pc[r] = "install" /\ member # None
            /\ last' = [target |-> target[r], asked |-> Asked(r), got |-> member,
                        read |-> scanned[r], sole |-> r \notin mixed]
        BY <1>6, <3>2 DEF Handle, Connected, Upload, Hash, Copy, Unzip, Install
      <4>2. r \notin mixed => member \in {None, Asked(r)}
        BY <1>0, <2>4, <4>1 DEF StagedInv, Alive, Asked
      <4> HIDE DEF member
      <4>3. last'.sole = (r \notin mixed) /\ last'.got = member /\ last'.asked = Asked(r)
        BY <4>1
      <4> QED
        BY <4>1, <4>2, <4>3 DEF InstalledIsRequested
    <3> QED
      BY <3>1, <3>2
  <2> QED
    BY <2>2, <2>5, <2>6, <2>7 DEF StagedInv, Latest
<1>7. CASE UNCHANGED vars
  BY <1>1, <1>7 DEF vars, server, handler
<1> QED
  BY <1>2, <1>3, <1>4, <1>5, <1>6, <1>7 DEF Next, Handle

-----------------------------------------------------------------------------
LEMMA ReleaseInit == Init => StagingInv /\ VerifiedInv /\ AloneInv /\ StagedInv
<1> SUFFICES ASSUME Init PROVE StagingInv /\ VerifiedInv /\ AloneInv /\ StagedInv
  OBVIOUS
<1>1. Len(releases) = 0 /\ Latest = 0
  BY DEF Init, Latest
<1>2. StagingInv /\ VerifiedInv
  BY <1>1 DEF Init, StagingInv, VerifiedInv, InstalledIsVerified
<1>3. AloneInv /\ StagedInv
  BY <1>1 DEF Init, AloneInv, StagedInv, InstalledIsRequested, NoInstall
<1> QED
  BY <1>2, <1>3

LEMMA TypesThroughout == Spec => []TypeInv
BY TypeInit, TypeStep, PTL DEF Spec

LEMMA StagingThroughout == ASSUME ~FetchWhileDeploying PROVE Spec => []StagingInv
<1>1. TypeInv /\ StagingInv /\ [Next]_vars => StagingInv'
  BY StagingStep
<1>2. Init => StagingInv
  BY ReleaseInit
<1> QED
  BY <1>1, <1>2, TypesThroughout, PTL DEF Spec

(* The releases, the server and the requests keep their types, and no        *)
(* request is in flight without a release or without an incoming file.       *)
THEOREM ReleaseTypeCorrect == Spec => []TypeOK
<1>1. TypeInv => TypeOK
  BY DEF TypeInv
<1> QED
  BY <1>1, TypesThroughout, PTL

(* Where the incoming file stays while a deployment is in flight, nothing is *)
(* installed whose code the operator has not pasted, though /deploy takes no *)
(* lock and every handler stages in the same directory.                      *)
THEOREM InstalledIsVerifiedCorrect ==
  ASSUME ~FetchWhileDeploying PROVE Spec => []InstalledIsVerified
<1>1. Init => VerifiedInv
  BY ReleaseInit
<1>2. VerifiedInv => InstalledIsVerified
  BY DEF VerifiedInv
<1>3. Spec => []StagingInv
  BY StagingThroughout
<1> QED
  BY <1>1, <1>2, <1>3, TypesThroughout, VerifiedStep, PTL DEF Spec

(* And a request that no request for another release overlaps installs the   *)
(* bundle of the release that was current when Deploy was pressed.           *)
THEOREM InstalledIsRequestedCorrect ==
  ASSUME ~FetchWhileDeploying PROVE Spec => []InstalledIsRequested
<1>1. Init => AloneInv /\ StagedInv
  BY ReleaseInit
<1>2. StagedInv => InstalledIsRequested
  BY DEF StagedInv
<1>3. Spec => []StagingInv
  BY StagingThroughout
<1>4. TypeInv /\ AloneInv /\ [Next]_vars => AloneInv'
  BY AloneStep
<1>5. TypeInv /\ AloneInv /\ StagingInv /\ StagedInv /\ [Next]_vars => StagedInv'
  BY StagedStep
<1> QED
  BY <1>1, <1>2, <1>3, <1>4, <1>5, TypesThroughout, PTL DEF Spec

=============================================================================
