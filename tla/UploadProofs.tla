---------------------------- MODULE UploadProofs ----------------------------
(***************************************************************************)
(* Proofs about Upload, for any uploads, paths, sizes and retries: that it *)
(* implements Transfer, whoever closes the session under whom; that an     *)
(* upload nothing disturbs succeeds at the first attempt; and that an      *)
(* upload only ever moves on.                                              *)
(*                                                                         *)
(* An upload that has its path to itself, because no other upload has run  *)
(* for the path beside one, or because no other runs at all, finds in the  *)
(* .part file what it wrote (FileInv); one that nothing disturbs, the      *)
(* session as it left it (SessionInv).                                     *)
(***************************************************************************)
EXTENDS Upload, TLAPS

(* How control stands in an upload. *)
RunOf(u) ==
  /\ result[u] = "running" <=> step[u] # "none"
  /\ result[u] = "running" <=> stage[u] \notin {"begin", "end"}
  /\ result[u] = "idle" <=> stage[u] = "begin"
  /\ handle[u] # None <=> step[u] = "writing"
  /\ step[u] \in {"writing", "confirming"} => stage[u] = "put"
  /\ step[u] \in {"removed", "renamed"} => stage[u] = "promote"
  /\ step[u] = "releasing" => stage[u] = "recheck"
  /\ step[u] = "writing" => wrote[u] < Chunks
  /\ stage[u] = "reset" => attempt[u] <= UPLOAD_RETRIES
  /\ result[u] = "idle" => attempt[u] = 0
RunInv == \A u \in Uploaders : RunOf(u)

(* An open file is there, or gone. *)
OpenInv ==
  \A u \in Uploaders : /\ handle[u] = "part" => part[target[u]] # None
                       /\ handle[u] = "remote" => remote[target[u]] # None

(* Two uploads of one path contend for it; two at once disturb each other. *)
RivalInv ==
  \A u, v \in Running : u # v => /\ target[u] = target[v] => target[u] \in contended
                                 /\ u \in disturbed

(* What an upload finds that has its path to itself. *)
Alone(u) == result[u] = "running" /\ (target[u] \notin contended \/ u \notin disturbed)
Begun(u) == [n \in Positions |-> IF n <= wrote[u] THEN u ELSE None]
FileOf(u) ==
  /\ step[u] = "writing" => handle[u] = "part" /\ part[target[u]] = Begun(u)
  /\ step[u] = "confirming" \/ stage[u] = "check" \/ (stage[u] = "promote" /\ step[u] # "renamed")
       => part[target[u]] = Of(u)
  /\ step[u] = "removed" => remote[target[u]] = None
  /\ step[u] = "renamed" \/ stage[u] = "recheck" => remote[target[u]] = Of(u)
FileInv == \A u \in Uploaders : Alone(u) => FileOf(u)

(* What an upload finds that nothing disturbs. *)
SessionOf(u) ==
  /\ attempt[u] = 1 /\ stage[u] \notin {"discard", "reset"}
  /\ step[u] \notin {"failing", "straying"}
  /\ step[u] \notin {"closing", "dialing"} => client = "up"
  /\ step[u] = "dialing" => sftp = "none"
  /\ step[u] = "probing" => chan[u] = "sftp"
  /\ step[u] \in {"operation", "writing", "confirming", "removed", "renamed"} =>
       chan[u] = "sftp" /\ sftp \in {"live", "stray"}
SessionInv == \A u \in Running \ disturbed : SessionOf(u)

-----------------------------------------------------------------------------
Calls == {"begin", "mkdir", "put", "check", "promote", "recheck", "discard", "reset", "end"}
Places == {"closing", "dialing", "probing", "dropping", "opening", "straying", "failing",
           "operation", "writing", "confirming", "removed", "renamed", "releasing", "none"}
Channels == {"none", "sftp", "kept", "stray", "dead"}
Results == {"idle", "running", "ok", "failed"}

LEMMA Tables == DOMAIN Stages = Calls /\ DOMAIN Steps = Places
BY DEF Stages, Steps, Calls, Places

(* The types, with the tables spelt out. *)
ControlType ==
  /\ client \in {"none", "up", "down"} /\ sftp \in {"none", "live", "dead", "stray"}
  /\ stage \in [Uploaders -> Calls] /\ step \in [Uploaders -> Places]
  /\ chan \in [Uploaders -> Channels] /\ attempt \in [Uploaders -> 0 .. UPLOAD_RETRIES + 1]
  /\ result \in [Uploaders -> Results]
  /\ disturbed \subseteq Uploaders /\ contended \subseteq Paths
FilesType ==
  /\ target \in [Uploaders -> Paths] /\ atomic \in BOOLEAN
  /\ part \in [Paths -> Contents \cup {None}] /\ remote \in [Paths -> Contents \cup {None}]
  /\ handle \in [Uploaders -> {"part", "remote", "gone", None}]
  /\ wrote \in [Uploaders -> 0 .. Chunks]

LEMMA Types ==
  /\ TypeOK <=> ControlType /\ FilesType
  /\ TypeOK' <=> ControlType' /\ FilesType'
BY Tables DEF TypeOK, ControlType, FilesType, Channels, Results

(* An await of u ends, and nobody else moves. *)
Only(u) == \A v \in Uploaders \ {u} : /\ stage'[v] = stage[v] /\ step'[v] = step[v]
                                      /\ chan'[v] = chan[v] /\ result'[v] = result[v]
MovesType == /\ stage' \in [Uploaders -> Calls] /\ step' \in [Uploaders -> Places]
             /\ chan' \in [Uploaders -> Channels] /\ result' \in [Uploaders -> Results]

(* ensure_sftp(), as far as it gets without suspending. *)
Entry == {"closing", "opening", "probing"}

LEMMA EnsureMoves ==
  ASSUME ControlType, NEW u \in Uploaders, NEW call \in Calls, NEW up \in BOOLEAN,
         Ensure(u, call, up), UNCHANGED result
  PROVE  /\ MovesType /\ Only(u) /\ stage'[u] = call /\ step'[u] \in Entry
         /\ result'[u] = result[u]
         /\ up <=> step'[u] # "closing"
         /\ step'[u] = "probing" => chan'[u] = "sftp"
<1>1. Cached(up) \in Entry /\ InHand(up) \in {"sftp", "none"} /\ (up <=> Cached(up) # "closing")
      /\ (Cached(up) = "probing" => InHand(up) = "sftp")
  BY DEF Cached, InHand, Entry
<1> QED
  BY <1>1 DEF ControlType, Ensure, MovesType, Only, Entry, Places, Channels

LEMMA EndMoves ==
  ASSUME ControlType, NEW u \in Uploaders, NEW outcome \in Results, End(u, outcome)
  PROVE  /\ MovesType /\ Only(u)
         /\ stage'[u] = "end" /\ step'[u] = "none" /\ result'[u] = outcome
BY DEF ControlType, End, MovesType, Only, Calls, Places, Channels

LEMMA RetryMoves ==
  ASSUME ControlType, NEW u \in Uploaders, Retry(u)
  PROVE  /\ MovesType /\ Only(u)
         /\ \/ /\ stage'[u] = "end" /\ step'[u] = "none" /\ result'[u] = "failed"
            \/ /\ stage'[u] = "reset" /\ step'[u] = "closing" /\ result'[u] = result[u]
               /\ attempt[u] <= UPLOAD_RETRIES
<1>1. CASE attempt[u] > UPLOAD_RETRIES
  BY <1>1, EndMoves DEF Retry, Results
<1>2. CASE ~(attempt[u] > UPLOAD_RETRIES)
  <2>1. attempt[u] \in Nat /\ UPLOAD_RETRIES \in Nat
    BY UploadConstantsOK DEF ControlType
  <2> QED
    BY <1>2, <2>1 DEF Retry, ControlType, MovesType, Only, Calls, Places, Channels
<1> QED
  BY <1>1, <1>2

LEMMA BrokenMoves ==
  ASSUME ControlType, NEW u \in Uploaders, Broken(u)
  PROVE  /\ MovesType /\ Only(u)
         /\ \/ /\ stage[u] \in {"reset", "discard"}
               /\ stage'[u] = "end" /\ step'[u] = "none" /\ result'[u] = "failed"
            \/ /\ stage[u] = "discard" /\ attempt[u] <= UPLOAD_RETRIES
               /\ stage'[u] = "reset" /\ step'[u] = "closing" /\ result'[u] = result[u]
            \/ /\ stage[u] \notin {"reset", "discard"}
               /\ stage'[u] = "discard" /\ step'[u] \in Entry /\ result'[u] = result[u]
<1>1. CASE stage[u] = "reset"
  BY <1>1, EndMoves DEF Broken, Results
<1>2. CASE stage[u] = "discard"
  BY <1>2, RetryMoves DEF Broken
<1>3. CASE stage[u] \notin {"reset", "discard"}
  <2>1. Ensure(u, "discard", client = "up") /\ UNCHANGED result
    BY <1>3 DEF Broken
  <2> QED
    BY <1>3, <2>1, EnsureMoves DEF Calls
<1> QED
  BY <1>1, <1>2, <1>3

LEMMA GoOnMoves ==
  ASSUME ControlType, NEW u \in Uploaders, NEW call \in Calls, GoOn(u, call)
  PROVE  /\ MovesType /\ Only(u) /\ stage'[u] = call /\ step'[u] \in Entry
         /\ result'[u] = result[u]
         /\ client = "up" <=> step'[u] # "closing"
         /\ step'[u] = "probing" => chan'[u] = "sftp"
BY EnsureMoves DEF GoOn

-----------------------------------------------------------------------------
(* Closing a client moves those who are opening a channel on it. *)
Pushed(v) ==
  \/ step'[v] = step[v]
  \/ step[v] = "opening" /\ step'[v] = "straying"
  \/ step[v] \in {"opening", "straying"} /\ step'[v] = "failing"

(* All that another upload, or the network, does to v's control. *)
Bystander(v) ==
  /\ stage'[v] = stage[v] /\ result'[v] = result[v] /\ attempt'[v] = attempt[v]
  /\ wrote'[v] = wrote[v] /\ (handle'[v] = None <=> handle[v] = None)
  /\ Pushed(v)

LEMMA BystanderRun == ASSUME NEW v \in Uploaders, RunOf(v), Bystander(v) PROVE RunOf(v)'
BY DEF RunOf, Bystander, Pushed

(* A rename or removal moves open files along, and closes none. *)
LEMMA MovedHandles ==
  ASSUME FilesType, NEW p, NEW from \in {"part", "remote"}, NEW to \in {"remote", "gone"}
  PROVE  /\ Moved(p, from, to) \in [Uploaders -> {"part", "remote", "gone", None}]
         /\ \A v \in Uploaders : /\ Moved(p, from, to)[v] = None <=> handle[v] = None
                                 /\ target[v] # p => Moved(p, from, to)[v] = handle[v]
BY NoneIsNoFile DEF FilesType, Moved

(* Begin and the network, as far as control goes. *)
LEMMA BeginMoves ==
  ASSUME ControlType, FilesType, NEW u \in Uploaders, Begin(u)
  PROVE  /\ result[u] = "idle" /\ result'[u] = "running" /\ stage'[u] = "mkdir"
         /\ step'[u] \in Entry /\ attempt'[u] = 1
         /\ client = "up" <=> step'[u] # "closing"
         /\ step'[u] = "probing" => chan'[u] = "sftp"
         /\ ControlType' /\ UNCHANGED <<session, files, fixed>>
         /\ \A v \in Uploaders \ {u} : Bystander(v) /\ chan'[v] = chan[v]
<1>1. /\ Cached(client = "up") \in Entry /\ InHand(client = "up") \in {"sftp", "none"}
      /\ client = "up" <=> Cached(client = "up") # "closing"
      /\ Cached(client = "up") = "probing" => InHand(client = "up") = "sftp"
  BY DEF Cached, InHand, Entry
<1>2. 1 \in 0 .. UPLOAD_RETRIES + 1
  BY UploadConstantsOK
<1>3. /\ stage' = [stage EXCEPT ![u] = "mkdir"] /\ step' = [step EXCEPT ![u] = Cached(client = "up")]
      /\ chan' = [chan EXCEPT ![u] = InHand(client = "up")]
      /\ result[u] = "idle" /\ result' = [result EXCEPT ![u] = "running"]
      /\ attempt' = [attempt EXCEPT ![u] = 1] /\ UNCHANGED <<session, files, fixed>>
  BY DEF Begin, Ensure
<1>4. disturbed' \subseteq Uploaders /\ contended' \subseteq Paths
  BY DEF Begin, ControlType, FilesType, Running
<1> HIDE DEF Begin
<1>5. \A v \in Uploaders \ {u} : Bystander(v) /\ chan'[v] = chan[v]
  BY <1>3 DEF ControlType, Bystander, Pushed, files
<1> QED
  BY <1>1, <1>2, <1>3, <1>4, <1>5 DEF ControlType, Entry, Calls, Places, Channels, Results, session

(* The order of the calls, and of the steps of one. *)
LEMMA StageOrder ==
  /\ Stages["begin"] = 0 /\ Stages["mkdir"] = 1 /\ Stages["put"] = 2 /\ Stages["check"] = 3
  /\ Stages["promote"] = 4 /\ Stages["recheck"] = 5 /\ Stages["discard"] = 6
  /\ Stages["reset"] = 7 /\ Stages["end"] = 8
BY DEF Stages

LEMMA StepOrder ==
  /\ Steps["closing"] = 0 /\ Steps["dialing"] = 1 /\ Steps["probing"] = 2
  /\ Steps["dropping"] = 3 /\ Steps["opening"] = 4 /\ Steps["straying"] = 5
  /\ Steps["failing"] = 6 /\ Steps["operation"] = 7 /\ Steps["writing"] = 8
  /\ Steps["confirming"] = 9 /\ Steps["removed"] = 10 /\ Steps["renamed"] = 11
  /\ Steps["releasing"] = 12 /\ Steps["none"] = 13
BY DEF Steps

(* An upload has got further: in attempts, in calls, in steps or in chunks. *)
Further(u) ==
  \/ attempt'[u] > attempt[u]
  \/ /\ attempt'[u] = attempt[u]
     /\ \/ Stages[stage'[u]] > Stages[stage[u]]
        \/ /\ stage'[u] = stage[u]
           /\ \/ Steps[step'[u]] > Steps[step[u]]
              \/ step'[u] = step[u] /\ wrote'[u] > wrote[u]

(* Where an upload may be inside ensure_sftp(). *)
Awaits == {"closing", "dialing", "probing", "dropping", "opening", "straying", "failing"}

(* A broken connection, as far as control goes. *)
LEMMA BrokenRuns ==
  ASSUME ControlType, FilesType, NEW u \in Uploaders, RunOf(u), step[u] # "none", Broken(u),
         UNCHANGED attempt, handle'[u] = None
  PROVE  /\ RunOf(u)' /\ Further(u)
         /\ step'[u] \in Awaits \cup {"none"} /\ stage'[u] \in {"discard", "reset", "end"}
         /\ result'[u] \in {"running", "failed"}
<1>1. /\ result[u] = "running" /\ stage[u] \in Calls \ {"begin", "end"}
      /\ attempt[u] \in 0 .. UPLOAD_RETRIES + 1 /\ UPLOAD_RETRIES \in Nat
  BY UploadConstantsOK DEF RunOf, ControlType
<1>2. RunOf(u)'
  BY <1>1, BrokenMoves DEF RunOf, Entry
<1>3. Further(u)
  BY <1>1, BrokenMoves, StageOrder DEF Further, Calls
<1> QED
  BY <1>1, <1>2, <1>3, BrokenMoves DEF Awaits, Entry

(* ensure_sftp(): the control of the upload moves on, and nothing else but   *)
(* the session.                                                              *)
LEMMA EnsureSftpMoves ==
  ASSUME ControlType, FilesType, NEW u \in Uploaders, RunOf(u), EnsureSftp(u)
  PROVE  /\ ControlType' /\ RunOf(u)' /\ Further(u)
         /\ step[u] \in Awaits /\ step'[u] \in Awaits \cup {"operation", "none"}
         /\ stage'[u] \in {stage[u], "mkdir", "discard", "reset", "end"}
         /\ result'[u] \in {"running", "failed"}
         /\ \A v \in Uploaders \ {u} : Bystander(v)
         /\ UNCHANGED <<files, fixed, contended>>
         /\ disturbed' \in {disturbed, disturbed \cup {u}}
<1> DEFINE Goal == /\ ControlType' /\ RunOf(u)' /\ Further(u)
                   /\ step[u] \in Awaits /\ step'[u] \in Awaits \cup {"operation", "none"}
                   /\ stage'[u] \in {stage[u], "mkdir", "discard", "reset", "end"}
                   /\ result'[u] \in {"running", "failed"}
                   /\ \A v \in Uploaders \ {u} : Bystander(v)
                   /\ UNCHANGED <<files, fixed, contended>>
                   /\ disturbed' \in {disturbed, disturbed \cup {u}}
<1>0. /\ UPLOAD_RETRIES \in Nat /\ attempt[u] \in 0 .. UPLOAD_RETRIES + 1
      /\ stage[u] \in Calls
  BY UploadConstantsOK DEF ControlType
<1>1. /\ Cached(TRUE) \in {"opening", "probing"} /\ InHand(TRUE) \in Channels
      /\ Opening \in {"opening", "failing"} /\ Kept \in Channels
  BY DEF Cached, InHand, Opening, Kept, Channels
<1>2. ASSUME step[u] \in Awaits, Broken(u), UNCHANGED <<files, fixed, session, attempt, contended>>,
             disturbed' \in {disturbed, disturbed \cup {u}}
      PROVE  Goal
  <2>1. handle'[u] = None /\ UNCHANGED attempt
    BY <1>2 DEF files, RunOf, Awaits
  <2>2. ControlType'
    BY <1>2, BrokenMoves DEF ControlType, MovesType, session
  <2>3. \A v \in Uploaders \ {u} : Bystander(v)
    BY <1>2, BrokenMoves DEF Only, Bystander, Pushed, files
  <2> QED
    BY <1>2, <2>1, <2>2, <2>3, BrokenRuns DEF Awaits
<1>3. CASE Close(u)
  <2>1. /\ step[u] = "closing" /\ client' = "none" /\ sftp' = "none"
        /\ step' = [v \in Uploaders |-> IF v = u THEN "dialing"
                                        ELSE IF step[v] = "opening" THEN "failing" ELSE step[v]]
        /\ chan' = [v \in Uploaders |-> IF chan[v] \in {"sftp", "kept"} THEN "dead" ELSE chan[v]]
        /\ UNCHANGED <<files, fixed, stage, attempt, result, disturbed, contended>>
    BY <1>3 DEF Close
  <2>2. ControlType'
    BY <2>1 DEF ControlType, Places, Channels
  <2>3. RunOf(u)' /\ result[u] = "running"
    BY <2>1 DEF RunOf, files
  <2>4. \A v \in Uploaders \ {u} : Bystander(v)
    BY <2>1 DEF Bystander, Pushed, files
  <2>5. Further(u)
    BY <2>1, StepOrder DEF Further
  <2> QED
    BY <2>1, <2>2, <2>3, <2>4, <2>5 DEF Awaits
<1>4. CASE Dialed(u)
  <2>1. /\ step[u] = "dialing" /\ client' = "up" /\ sftp' \in {sftp, "stray"}
        /\ step' = [v \in Uploaders |->
                IF v = u THEN Cached(TRUE)
                ELSE IF client = "up" /\ step[v] = "opening" THEN "straying" ELSE step[v]]
        /\ chan' = [v \in Uploaders |->
                IF v = u THEN InHand(TRUE)
                ELSE IF client = "up" /\ chan[v] = "kept" THEN "stray" ELSE chan[v]]
        /\ UNCHANGED <<files, fixed, result, disturbed, contended>>
    BY <1>4 DEF Dialed
  <2>2. \/ /\ stage[u] = "reset" /\ stage' = [stage EXCEPT ![u] = "mkdir"]
           /\ attempt' = [attempt EXCEPT ![u] = @ + 1]
        \/ stage[u] # "reset" /\ UNCHANGED <<stage, attempt>>
    BY <1>4 DEF Dialed
  <2>3. stage[u] = "reset" => attempt[u] + 1 \in 0 .. UPLOAD_RETRIES + 1
    BY <1>0 DEF RunOf
  <2>4. /\ stage' \in [Uploaders -> Calls] /\ attempt' \in [Uploaders -> 0 .. UPLOAD_RETRIES + 1]
        /\ stage'[u] \in {stage[u], "mkdir"} \ {"reset"}
        /\ \A v \in Uploaders \ {u} : stage'[v] = stage[v] /\ attempt'[v] = attempt[v]
        /\ \/ stage[u] = "reset" /\ stage'[u] = "mkdir" /\ attempt'[u] = attempt[u] + 1
           \/ stage'[u] = stage[u] /\ attempt'[u] = attempt[u]
    BY <2>2, <2>3 DEF ControlType, Calls
  <2>5. ControlType'
    BY <1>1, <2>1, <2>4 DEF ControlType, Places, Channels
  <2>6. step'[u] \in {"opening", "probing"}
    BY <1>1, <2>1
  <2>7. RunOf(u)' /\ result[u] = "running"
    BY <2>1, <2>4, <2>6 DEF RunOf, files
  <2>8. \A v \in Uploaders \ {u} : Bystander(v)
    BY <2>1, <2>4 DEF Bystander, Pushed, files
  <2>9. Further(u)
    <3>1. Steps[step'[u]] > Steps[step[u]]
      <4>1. step[u] = "dialing" /\ step'[u] \in {"opening", "probing"}
        BY <2>1, <2>6
      <4> QED
        BY <4>1, StepOrder
    <3> QED
      BY <1>0, <2>4, <3>1 DEF Further
  <2> QED
    BY <2>1, <2>4, <2>5, <2>6, <2>7, <2>8, <2>9 DEF Awaits
<1>5. CASE Refused(u)
  BY <1>2, <1>5 DEF Refused, Awaits
<1>6. ASSUME step[u] \in Awaits, UNCHANGED <<files, fixed, stage, attempt, result, disturbed, contended>>,
             client' = client, sftp' \in {"none", "live", "stray", sftp},
             step'[u] \in {"dropping", "opening", "failing", "operation"},
             Steps[step'[u]] > Steps[step[u]],
             step' = [step EXCEPT ![u] = step'[u]], chan' \in [Uploaders -> Channels]
      PROVE  Goal
  <2>1. ControlType'
    BY <1>6 DEF ControlType, Places
  <2>2. RunOf(u)' /\ result[u] = "running"
    BY <1>6 DEF RunOf, files, Awaits
  <2>3. \A v \in Uploaders \ {u} : Bystander(v)
    BY <1>6 DEF Bystander, Pushed, files, ControlType
  <2>4. Further(u)
    BY <1>6 DEF Further
  <2> QED
    BY <1>6, <2>1, <2>2, <2>3, <2>4 DEF Awaits
<1>7. CASE Probed(u)
  <2> DEFINE next == IF ~Works(u) THEN "dropping"
                     ELSE IF sftp = "none" THEN Opening ELSE "operation"
             hold == IF Works(u) THEN InHand(TRUE) ELSE "none"
  <2>1. /\ step[u] = "probing" /\ step' = [step EXCEPT ![u] = next]
        /\ chan' = [chan EXCEPT ![u] = hold]
        /\ UNCHANGED <<session, files, fixed, stage, attempt, result, disturbed, contended>>
    BY <1>7 DEF Probed
  <2>2. next \in {"dropping", "opening", "failing", "operation"} /\ hold \in Channels
    BY <1>1 DEF Channels
  <2> HIDE DEF next, hold
  <2>3. step'[u] = next /\ chan' \in [Uploaders -> Channels]
    BY <2>1, <2>2 DEF ControlType
  <2>4. Steps[step'[u]] > Steps[step[u]]
    BY <2>1, <2>2, <2>3, StepOrder
  <2>5. step' = [step EXCEPT ![u] = step'[u]] /\ step'[u] \in {"dropping", "opening", "failing", "operation"}
    BY <2>1, <2>2, <2>3
  <2> QED
    BY <1>6, <2>1, <2>3, <2>4, <2>5 DEF Awaits, session
<1>8. CASE Dropped(u)
  <2>1. step[u] = "dropping" /\ step' = [step EXCEPT ![u] = Opening] /\ sftp' = "none"
        /\ UNCHANGED <<client, files, fixed, stage, attempt, result, disturbed, contended>>
    BY <1>8 DEF Dropped
  <2>2. step'[u] = Opening /\ chan' \in [Uploaders -> Channels]
    BY <1>8, <2>1 DEF Dropped, Hold, ControlType, Channels
  <2>3. Steps[step'[u]] > Steps[step[u]]
    BY <1>1, <2>1, <2>2, StepOrder
  <2>4. step' = [step EXCEPT ![u] = step'[u]] /\ step'[u] \in {"dropping", "opening", "failing", "operation"}
    BY <1>1, <2>1, <2>2
  <2> QED
    BY <1>6, <2>1, <2>2, <2>3, <2>4 DEF Awaits
<1>9. CASE Opened(u)
  <2>1. /\ step[u] \in {"opening", "straying"} /\ step' = [step EXCEPT ![u] = "operation"]
        /\ sftp' \in {"live", "stray"}
        /\ UNCHANGED <<client, files, fixed, stage, attempt, result, disturbed, contended>>
    BY <1>9 DEF Opened
  <2>2. step'[u] = "operation" /\ chan' \in [Uploaders -> Channels]
    BY <1>1, <1>9, <2>1 DEF Opened, Hold, ControlType, Channels
  <2> QED
    BY <1>6, <2>1, <2>2, StepOrder DEF Awaits
<1>10. CASE NotOpened(u)
  BY <1>2, <1>10 DEF NotOpened, Awaits
<1> QED
  BY <1>3, <1>4, <1>5, <1>7, <1>8, <1>9, <1>10 DEF EnsureSftp

-----------------------------------------------------------------------------
(* What else an operation does: nothing outside of its path. *)
Elsewhere(u) ==
  /\ \A p \in Paths \ {target[u]} : part'[p] = part[p] /\ remote'[p] = remote[p]
  /\ \A v \in Uploaders : target[v] # target[u] => handle'[v] = handle[v]
  /\ UNCHANGED <<fixed, contended>> /\ disturbed \subseteq disturbed'

(* And what it does to the file its path is about. *)
Replaced(u) ==
  \/ UNCHANGED remote
  \/ \E file \in Contents \cup {None} :
       /\ remote' = [remote EXCEPT ![target[u]] = file]
       /\ target[u] \in contended \/ file = Of(u) \/ (file = None /\ ~atomic)

(* All that is said below of one operation. *)
Done(u) ==
  /\ ControlType' /\ FilesType' /\ OpenInv' /\ RunOf(u)' /\ Further(u)
  /\ \A v \in Uploaders \ {u} : Bystander(v)
  /\ Elsewhere(u)
  /\ FileOf(u) => FileOf(u)'
  /\ (target[u] \notin contended => FileOf(u)) => Replaced(u)
  /\ \/ UNCHANGED result
     \/ UNCHANGED remote /\ result'[u] = "failed"
     \/ UNCHANGED remote /\ result'[u] = "ok" /\ stage[u] = "recheck"

(* The connection is found broken: the files stay as they are. *)
LEMMA BrokenDone ==
  ASSUME ControlType, FilesType, OpenInv, NEW u \in Uploaders, RunOf(u), step[u] # "none", Broken(u),
         UNCHANGED <<session, part, remote, wrote, fixed, attempt, disturbed, contended>>,
         handle' = [handle EXCEPT ![u] = None]
  PROVE  Done(u)
<1>1. RunOf(u)' /\ Further(u) /\ stage'[u] \in {"discard", "reset", "end"}
      /\ step'[u] \in Awaits \cup {"none"}
  BY BrokenRuns DEF FilesType
<1>2. ControlType' /\ FilesType'
  BY BrokenMoves DEF ControlType, FilesType, MovesType, session, fixed
<1>3. \A v \in Uploaders \ {u} : Bystander(v) /\ handle'[v] = handle[v]
  BY BrokenMoves DEF Only, Bystander, Pushed, FilesType
<1>4. handle'[u] = None /\ (target[u] \in Paths)
  BY DEF FilesType
<1>5. OpenInv'
  BY <1>3, <1>4, NoneIsNoFile DEF OpenInv, fixed
<1>6. FileOf(u)'
  BY <1>1 DEF FileOf, Awaits
<1>7. Elsewhere(u)
  <2>1. \A v \in Uploaders : target[v] # target[u] => v # u
    OBVIOUS
  <2> QED
    BY <1>3, <2>1 DEF Elsewhere
<1>8. UNCHANGED result \/ result'[u] = "failed"
  <2>1. CASE result'[u] = result[u]
    BY <2>1, BrokenMoves DEF Only, MovesType, ControlType
  <2> QED
    BY <2>1, BrokenMoves
<1> QED
  BY <1>1, <1>2, <1>3, <1>5, <1>6, <1>7, <1>8 DEF Done, Replaced

(* So do they when the upload ends, or goes on to its next call. *)
LEMMA StillDone ==
  ASSUME ControlType, FilesType, OpenInv, NEW u \in Uploaders,
         UNCHANGED <<client, sftp, files, fixed, attempt, disturbed, contended>>,
         MovesType, Only(u), RunOf(u)', Further(u), FileOf(u) => FileOf(u)',
         UNCHANGED result \/ result'[u] = "failed"
  PROVE  Done(u)
<1>1. ControlType' /\ FilesType' /\ OpenInv'
  BY DEF ControlType, FilesType, OpenInv, MovesType, files, fixed
<1>2. \A v \in Uploaders \ {u} : Bystander(v)
  BY DEF Only, Bystander, Pushed, files
<1>3. Elsewhere(u) /\ Replaced(u)
  BY DEF Elsewhere, Replaced, files
<1> QED
  BY <1>1, <1>2, <1>3 DEF Done, files

LEMMA BrokenStill ==
  ASSUME ControlType, FilesType, OpenInv, NEW u \in Uploaders, RunOf(u),
         step[u] \notin {"none", "writing"}, Broken(u),
         UNCHANGED <<session, files, fixed, attempt, disturbed, contended>>
  PROVE  Done(u)
<1>1. handle[u] = None
  BY DEF RunOf
<1>2. handle' = [handle EXCEPT ![u] = None]
  BY <1>1 DEF files, FilesType
<1> QED
  BY <1>2, BrokenDone DEF files

LEMMA EndStill ==
  ASSUME ControlType, FilesType, OpenInv, NEW u \in Uploaders, RunOf(u),
         step[u] \notin {"none", "writing"}, End(u, "failed"),
         UNCHANGED <<session, files, fixed, attempt, disturbed, contended>>
  PROVE  Done(u)
<1>1. /\ MovesType /\ Only(u)
      /\ stage'[u] = "end" /\ step'[u] = "none" /\ result'[u] = "failed"
  BY EndMoves DEF Results
<1>2. RunOf(u)'
  BY <1>1 DEF RunOf, files
<1>3. Further(u)
  BY <1>1, StageOrder DEF Further, RunOf, ControlType, Calls
<1>4. FileOf(u)'
  BY <1>1 DEF FileOf
<1> QED
  BY <1>1, <1>2, <1>3, <1>4, StillDone DEF session

LEMMA GoOnStill ==
  ASSUME ControlType, FilesType, OpenInv, NEW u \in Uploaders, RunOf(u),
         step[u] \notin {"none", "writing"},
         NEW call \in {"put", "check", "promote", "recheck"}, GoOn(u, call),
         Stages[call] > Stages[stage[u]],
         UNCHANGED <<session, files, fixed, attempt, disturbed, contended>>,
         FileOf(u) /\ call \in {"check", "promote"} => part[target[u]] = Of(u),
         FileOf(u) /\ call = "recheck" => remote[target[u]] = Of(u)
  PROVE  Done(u)
<1>1. /\ MovesType /\ Only(u) /\ stage'[u] = call /\ step'[u] \in Entry
      /\ result'[u] = result[u] /\ UNCHANGED result
  BY GoOnMoves DEF GoOn, Calls
<1>2. result[u] = "running"
  BY DEF RunOf
<1>3. RunOf(u)'
  BY <1>1, <1>2 DEF RunOf, files, Entry
<1>4. Further(u)
  BY <1>1 DEF Further
<1>5. FileOf(u) => FileOf(u)'
  BY <1>1 DEF FileOf, files, fixed, Of, Entry
<1> QED
  BY <1>1, <1>3, <1>4, <1>5, StillDone DEF session

(* The operations, one by one. *)
LEMMA MakeDirsDone ==
  ASSUME ControlType, FilesType, OpenInv, NEW u \in Uploaders, RunOf(u), MakeDirs(u)
  PROVE  Done(u)
<1>1. /\ stage[u] = "mkdir" /\ step[u] = "operation"
      /\ UNCHANGED <<session, files, fixed, attempt, disturbed, contended>>
      /\ GoOn(u, "put") \/ Broken(u) \/ End(u, "failed")
  BY DEF MakeDirs, Operates
<1>2. Stages["put"] > Stages[stage[u]]
  BY <1>1, StageOrder
<1> QED
  BY <1>1, <1>2, GoOnStill, BrokenStill, EndStill

LEMMA ConfirmDone ==
  ASSUME ControlType, FilesType, OpenInv, NEW u \in Uploaders, RunOf(u), Confirm(u)
  PROVE  Done(u)
<1>1. /\ stage[u] = "put" /\ step[u] = "confirming"
      /\ UNCHANGED <<session, files, fixed, attempt, disturbed, contended>>
      /\ GoOn(u, "check") \/ Broken(u)
  BY DEF Confirm, RunOf
<1>2. Stages["check"] > Stages[stage[u]]
  BY <1>1, StageOrder
<1>3. FileOf(u) => part[target[u]] = Of(u)
  BY <1>1 DEF FileOf
<1> QED
  BY <1>1, <1>2, <1>3, GoOnStill, BrokenStill

LEMMA CheckDone ==
  ASSUME ControlType, FilesType, OpenInv, NEW u \in Uploaders, RunOf(u), Check(u)
  PROVE  Done(u)
<1>1. /\ stage[u] = "check" /\ step[u] = "operation"
      /\ UNCHANGED <<session, files, fixed, attempt, disturbed, contended>>
      /\ GoOn(u, "promote") \/ Broken(u) \/ End(u, "failed")
  BY DEF Check, Operates
<1>2. Stages["promote"] > Stages[stage[u]]
  BY <1>1, StageOrder
<1>3. FileOf(u) => part[target[u]] = Of(u)
  BY <1>1 DEF FileOf
<1> QED
  BY <1>1, <1>2, <1>3, GoOnStill, BrokenStill, EndStill

LEMMA PromotedDone ==
  ASSUME ControlType, FilesType, OpenInv, NEW u \in Uploaders, RunOf(u), Promoted(u)
  PROVE  Done(u)
<1>1. /\ stage[u] = "promote" /\ step[u] = "renamed"
      /\ UNCHANGED <<session, files, fixed, attempt, disturbed, contended>>
      /\ GoOn(u, "recheck") \/ Broken(u)
  BY DEF Promoted, RunOf
<1>2. Stages["recheck"] > Stages[stage[u]]
  BY <1>1, StageOrder
<1>3. FileOf(u) => remote[target[u]] = Of(u)
  BY <1>1 DEF FileOf
<1> QED
  BY <1>1, <1>2, <1>3, GoOnStill, BrokenStill

LEMMA RecheckDone ==
  ASSUME ControlType, FilesType, OpenInv, NEW u \in Uploaders, RunOf(u), Recheck(u)
  PROVE  Done(u)
<1>1. /\ stage[u] = "recheck" /\ step[u] = "operation"
      /\ UNCHANGED <<session, files, fixed, attempt, disturbed, contended>>
      /\ \/ /\ step' = [step EXCEPT ![u] = "releasing"] /\ chan' = [chan EXCEPT ![u] = "none"]
            /\ UNCHANGED <<stage, result>>
         \/ Broken(u) \/ End(u, "failed")
  BY DEF Recheck, Operates
<1>2. CASE /\ step' = [step EXCEPT ![u] = "releasing"] /\ chan' = [chan EXCEPT ![u] = "none"]
           /\ UNCHANGED <<stage, result>>
  <2>1. MovesType /\ Only(u) /\ step'[u] = "releasing"
    BY <1>2 DEF MovesType, Only, ControlType, Places, Channels
  <2>2. RunOf(u)'
    BY <1>1, <1>2, <2>1 DEF RunOf, files
  <2>3. Steps[step'[u]] > Steps[step[u]]
    BY <1>1, <2>1, StepOrder
  <2>4. Further(u)
    BY <1>1, <1>2, <2>3 DEF Further
  <2>5. FileOf(u) => FileOf(u)'
    BY <1>1, <1>2, <2>1 DEF FileOf, files, fixed, Of
  <2> QED
    BY <1>1, <1>2, <2>1, <2>2, <2>4, <2>5, StillDone DEF session
<1> QED
  BY <1>1, <1>2, BrokenStill, EndStill

LEMMA OpenPartDone ==
  ASSUME ControlType, FilesType, OpenInv, NEW u \in Uploaders, RunOf(u), OpenPart(u)
  PROVE  Done(u)
<1>1. /\ stage[u] = "put" /\ step[u] = "operation" /\ UNCHANGED <<session, fixed, attempt, disturbed, contended>>
      /\ target[u] \in Paths /\ result[u] = "running"
  BY DEF OpenPart, Operates, FilesType, RunOf
<1>2. CASE Broken(u) /\ UNCHANGED files
  BY <1>1, <1>2, BrokenStill
<1>3. CASE /\ part' = [part EXCEPT ![target[u]] = Of(None)]
           /\ handle' = [handle EXCEPT ![u] = "part"] /\ wrote' = [wrote EXCEPT ![u] = 0]
           /\ step' = [step EXCEPT ![u] = "writing"]
           /\ UNCHANGED <<remote, stage, chan, result>>
  <2>0. Of(None) \in Contents /\ Of(None) # None /\ Chunks \in Nat /\ Chunks > 0 /\ "part" # None
    BY NoneIsNoFile, UploadConstantsOK DEF Of, Contents
  <2>1. /\ ControlType'
        /\ FilesType'
    BY <1>1, <1>3, <2>0 DEF ControlType, FilesType, Places, session, fixed
  <2>2. /\ step'[u] = "writing" /\ stage'[u] = "put" /\ handle'[u] = "part" /\ wrote'[u] = 0
        /\ part'[target[u]] = Of(None) /\ result'[u] = "running" /\ target' = target
    BY <1>1, <1>3 DEF FilesType, ControlType, fixed
  <2>3. RunOf(u)'
    BY <1>1, <1>3, <2>0, <2>2 DEF RunOf
  <2>4. Steps[step'[u]] > Steps[step[u]]
    BY <1>1, <2>2, StepOrder
  <2>5. Further(u)
    BY <1>1, <1>3, <2>4 DEF Further
  <2>6. \A v \in Uploaders \ {u} : Bystander(v) /\ handle'[v] = handle[v]
    BY <1>1, <1>3 DEF Bystander, Pushed, FilesType, ControlType
  <2>7. Elsewhere(u)
    <3>1. \A v \in Uploaders : target[v] # target[u] => v # u
      OBVIOUS
    <3> QED
      BY <1>1, <1>3, <2>6, <3>1 DEF Elsewhere, FilesType
  <2>8. OpenInv'
    <3> SUFFICES ASSUME NEW v \in Uploaders
                 PROVE  /\ handle'[v] = "part" => part'[target[v]] # None
                        /\ handle'[v] = "remote" => remote'[target[v]] # None
      BY <2>2 DEF OpenInv
    <3>1. CASE v = u
      BY <2>0, <2>2, <3>1
    <3>2. CASE v # u
      <4>1. part'[target[v]] \in {part[target[v]], Of(None)}
        BY <1>3 DEF FilesType
      <4> QED
        BY <1>3, <2>0, <2>6, <3>2, <4>1 DEF OpenInv
    <3> QED
      BY <3>1, <3>2
  <2>9. FileOf(u)'
    <3>1. Of(None) = [n \in Positions |-> IF n <= 0 THEN u ELSE None]
      BY <2>0 DEF Of, Positions
    <3>2. part'[target'[u]] = [n \in Positions |-> IF n <= wrote'[u] THEN u ELSE None]
      BY <2>2, <3>1
    <3> QED
      BY <2>2, <3>2 DEF FileOf, Begun
  <2> QED
    BY <1>3, <2>1, <2>3, <2>5, <2>6, <2>7, <2>8, <2>9 DEF Done, Replaced
<1> QED
  BY <1>2, <1>3 DEF OpenPart

LEMMA WriteDone ==
  ASSUME ControlType, FilesType, OpenInv, NEW u \in Uploaders, RunOf(u), Write(u)
  PROVE  Done(u)
<1>1. /\ stage[u] = "put" /\ step[u] = "writing" /\ UNCHANGED <<session, fixed, attempt, disturbed, contended>>
      /\ target[u] \in Paths /\ result[u] = "running" /\ handle[u] \in {"part", "remote", "gone"}
      /\ wrote[u] \in Nat /\ wrote[u] < Chunks /\ Chunks \in Nat
  BY UploadConstantsOK DEF Write, FilesType, RunOf
<1>2. CASE ~Works(u)
  BY <1>1, <1>2, BrokenDone DEF Write
<1>3. CASE Works(u)
  <2> DEFINE n == wrote[u] + 1
             p == target[u]
  <2>1. /\ wrote' = [wrote EXCEPT ![u] = n]
        /\ part' = IF handle[u] = "part" THEN [part EXCEPT ![p] = [part[p] EXCEPT ![n] = u]] ELSE part
        /\ remote' = IF handle[u] = "remote" THEN [remote EXCEPT ![p] = [remote[p] EXCEPT ![n] = u]]
                     ELSE remote
        /\ handle' = [handle EXCEPT ![u] = IF n = Chunks THEN None ELSE handle[u]]
        /\ step' = [step EXCEPT ![u] = IF n = Chunks THEN "confirming" ELSE step[u]]
        /\ UNCHANGED <<stage, chan, result>>
    BY <1>3 DEF Write
  <2>2. n \in Positions /\ n \in 0 .. Chunks /\ n > wrote[u]
    BY <1>1 DEF Positions
  <2>3. /\ handle[u] = "part" => part[p] \in Contents /\ [part[p] EXCEPT ![n] = u] \in Contents
        /\ handle[u] = "remote" => remote[p] \in Contents /\ [remote[p] EXCEPT ![n] = u] \in Contents
    BY <1>1, <2>2 DEF OpenInv, FilesType, Contents
  <2> HIDE DEF n, p
  <2>4. FilesType'
    BY <1>1, <2>1, <2>2, <2>3 DEF FilesType, fixed, p
  <2>5. ControlType'
    BY <1>1, <2>1 DEF ControlType, Places, session
  <2>6. /\ wrote'[u] = n /\ target' = target /\ result'[u] = "running" /\ stage'[u] = "put"
        /\ \/ n = Chunks /\ handle'[u] = None /\ step'[u] = "confirming"
           \/ n # Chunks /\ handle'[u] = handle[u] /\ step'[u] = "writing"
    BY <1>1, <2>1 DEF FilesType, ControlType, fixed
  <2>7. RunOf(u)'
    BY <1>1, <2>1, <2>2, <2>6, NoneIsNoFile DEF RunOf
  <2>8. Further(u)
    <3>1. step'[u] = "confirming" => Steps[step'[u]] > Steps[step[u]]
      BY <1>1, StepOrder
    <3> QED
      BY <1>1, <2>1, <2>2, <2>6, <3>1 DEF Further
  <2>9. \A v \in Uploaders \ {u} : Bystander(v) /\ handle'[v] = handle[v]
    BY <1>1, <2>1 DEF Bystander, Pushed, FilesType, ControlType
  <2>10. /\ \A q \in Paths \ {p} : part'[q] = part[q] /\ remote'[q] = remote[q]
         /\ part'[p] = part[p] \/ part'[p] \in Contents
         /\ remote'[p] = remote[p] \/ remote'[p] \in Contents
    BY <1>1, <2>1, <2>3 DEF FilesType, p
  <2>11. Elsewhere(u)
    <3>1. \A v \in Uploaders : target[v] # target[u] => v # u
      OBVIOUS
    <3> QED
      BY <1>1, <2>9, <2>10, <3>1 DEF Elsewhere, p
  <2>12. OpenInv'
    <3> SUFFICES ASSUME NEW v \in Uploaders
                 PROVE  /\ handle'[v] = "part" => part'[target[v]] # None
                        /\ handle'[v] = "remote" => remote'[target[v]] # None
      BY <2>6 DEF OpenInv
    <3>1. handle'[v] # None => handle'[v] = handle[v]
      BY <2>6, <2>9
    <3>2. /\ part'[target[v]] = part[target[v]] \/ part'[target[v]] \in Contents
          /\ remote'[target[v]] = remote[target[v]] \/ remote'[target[v]] \in Contents
      BY <2>10 DEF FilesType
    <3> QED
      BY <3>1, <3>2, NoneIsNoFile DEF OpenInv
  <2>13. ASSUME FileOf(u) PROVE FileOf(u)'
    <3>1. handle[u] = "part" /\ part[p] = Begun(u)
      BY <1>1, <2>13 DEF FileOf, p
    <3>2. part'[p] = [Begun(u) EXCEPT ![n] = u]
      BY <1>1, <2>1, <3>1 DEF FilesType, p
    <3>3. part'[p] = [m \in Positions |-> IF m <= n THEN u ELSE None]
      <4>1. \A m \in Positions : m <= n <=> m = n \/ m <= wrote[u]
        BY <1>1 DEF Positions, n
      <4>2. part'[p] = [m \in Positions |-> IF m = n THEN u ELSE IF m <= wrote[u] THEN u ELSE None]
        BY <3>2 DEF Begun
      <4>3. \A m \in Positions : (IF m = n THEN u ELSE IF m <= wrote[u] THEN u ELSE None)
                                = (IF m <= n THEN u ELSE None)
        BY <4>1
      <4> QED
        BY <4>2, <4>3
    <3>4. n = Chunks => part'[p] = Of(u)
      BY <1>1, <3>3 DEF Of, Positions
    <3>5. Begun(u)' = part'[p]
      BY <2>6, <3>3 DEF Begun
    <3> QED
      BY <2>6, <3>1, <3>4, <3>5 DEF FileOf, Of, p
  <2>14. Replaced(u) \/ (target[u] \notin contended /\ ~FileOf(u))
    <3>1. CASE handle[u] # "remote"
      BY <2>1, <3>1 DEF Replaced
    <3>2. CASE handle[u] = "remote" /\ target[u] \in contended
      BY <2>1, <2>3, <3>2 DEF Replaced, p
    <3>3. FileOf(u) => handle[u] = "part"
      BY <1>1 DEF FileOf
    <3> QED
      BY <3>1, <3>2, <3>3
  <2> QED
    BY <2>1, <2>4, <2>5, <2>7, <2>8, <2>9, <2>11, <2>12, <2>13, <2>14 DEF Done
<1> QED
  BY <1>2, <1>3

(* A path's file is renamed, removed or discarded; who has it open keeps it. *)
LEMMA MovedFiles ==
  ASSUME FilesType, OpenInv, NEW u \in Uploaders, UNCHANGED <<fixed, wrote, disturbed, contended>>,
         \/ Renamed(target[u]) /\ part[target[u]] # None
         \/ /\ remote' = [remote EXCEPT ![target[u]] = None] /\ UNCHANGED part
            /\ handle' = Moved(target[u], "remote", "gone")
         \/ /\ part' = [part EXCEPT ![target[u]] = None] /\ UNCHANGED remote
            /\ handle' = Moved(target[u], "part", "gone")
         \/ UNCHANGED <<part, remote, handle>>
  PROVE  /\ FilesType' /\ OpenInv' /\ Elsewhere(u)
         /\ \A v \in Uploaders : handle'[v] = None <=> handle[v] = None
<1> DEFINE p == target[u]
<1>0. p \in Paths /\ target' = target /\ atomic' = atomic
  BY DEF FilesType, fixed
<1>1. CASE Renamed(p) /\ part[p] # None
  <2>1. /\ remote' = [remote EXCEPT ![p] = part[p]] /\ part' = [part EXCEPT ![p] = None]
        /\ handle' = Moved(p, "part", "remote")
    BY <1>1 DEF Renamed
  <2> HIDE DEF p
  <2>2. /\ handle' \in [Uploaders -> {"part", "remote", "gone", None}]
        /\ \A v \in Uploaders : /\ handle'[v] = None <=> handle[v] = None
                                /\ target[v] # p => handle'[v] = handle[v]
                                /\ target[v] = p => handle'[v] # "part"
    BY <2>1, MovedHandles, NoneIsNoFile DEF Moved, FilesType
  <2>3. FilesType'
    BY <1>0, <2>1, <2>2 DEF FilesType
  <2>4. OpenInv'
    BY <1>0, <1>1, <2>1, <2>2 DEF OpenInv, FilesType
  <2>5. Elsewhere(u)
    BY <1>0, <2>1, <2>2 DEF Elsewhere, FilesType, p
  <2> QED
    BY <2>2, <2>3, <2>4, <2>5
<1>2. CASE /\ remote' = [remote EXCEPT ![p] = None] /\ UNCHANGED part
           /\ handle' = Moved(p, "remote", "gone")
  <2> HIDE DEF p
  <2>2. /\ handle' \in [Uploaders -> {"part", "remote", "gone", None}]
        /\ \A v \in Uploaders : /\ handle'[v] = None <=> handle[v] = None
                                /\ target[v] # p => handle'[v] = handle[v]
                                /\ target[v] = p => handle'[v] # "remote"
                                /\ handle'[v] = "part" => handle[v] = "part"
    BY <1>2, MovedHandles, NoneIsNoFile DEF Moved, FilesType
  <2>3. FilesType'
    BY <1>0, <1>2, <2>2 DEF FilesType
  <2>4. OpenInv'
    BY <1>0, <1>2, <2>2 DEF OpenInv, FilesType
  <2>5. Elsewhere(u)
    BY <1>0, <1>2, <2>2 DEF Elsewhere, FilesType, p
  <2> QED
    BY <2>2, <2>3, <2>4, <2>5
<1>3. CASE /\ part' = [part EXCEPT ![p] = None] /\ UNCHANGED remote
           /\ handle' = Moved(p, "part", "gone")
  <2> HIDE DEF p
  <2>2. /\ handle' \in [Uploaders -> {"part", "remote", "gone", None}]
        /\ \A v \in Uploaders : /\ handle'[v] = None <=> handle[v] = None
                                /\ target[v] # p => handle'[v] = handle[v]
                                /\ target[v] = p => handle'[v] # "part"
                                /\ handle'[v] = "remote" => handle[v] = "remote"
    BY <1>3, MovedHandles, NoneIsNoFile DEF Moved, FilesType
  <2>3. FilesType'
    BY <1>0, <1>3, <2>2 DEF FilesType
  <2>4. OpenInv'
    BY <1>0, <1>3, <2>2 DEF OpenInv, FilesType
  <2>5. Elsewhere(u)
    BY <1>0, <1>3, <2>2 DEF Elsewhere, FilesType, p
  <2> QED
    BY <2>2, <2>3, <2>4, <2>5
<1>4. CASE UNCHANGED <<part, remote, handle>>
  BY <1>0, <1>4 DEF FilesType, OpenInv, Elsewhere
<1> QED
  BY <1>1, <1>2, <1>3, <1>4

(* A step of _promote, which works. *)
LEMMA PromotingDone ==
  ASSUME ControlType, FilesType, OpenInv, NEW u \in Uploaders, RunOf(u),
         stage[u] = "promote", step[u] \in {"operation", "removed"},
         UNCHANGED <<session, fixed, attempt, disturbed, contended, wrote, stage, chan, result>>,
         \/ /\ Renamed(target[u]) /\ part[target[u]] # None
            /\ step' = [step EXCEPT ![u] = "renamed"]
         \/ /\ ~(atomic /\ part[target[u]] # None) /\ step[u] = "operation"
            /\ remote' = [remote EXCEPT ![target[u]] = None] /\ UNCHANGED part
            /\ handle' = Moved(target[u], "remote", "gone")
            /\ step' = [step EXCEPT ![u] = "removed"]
  PROVE  Done(u)
<1>0. /\ target[u] \in Paths /\ target' = target /\ stage'[u] = "promote"
      /\ step'[u] \in {"renamed", "removed"} /\ result[u] = "running" /\ handle[u] = None
  BY DEF FilesType, ControlType, RunOf, fixed
<1>1. /\ FilesType' /\ OpenInv' /\ Elsewhere(u)
      /\ \A v \in Uploaders : handle'[v] = None <=> handle[v] = None
  BY MovedFiles
<1>2. ControlType'
  BY DEF ControlType, Places, session
<1>3. RunOf(u)'
  BY <1>0, <1>1 DEF RunOf
<1>4. Further(u)
  <2>1. Steps[step'[u]] > Steps[step[u]]
    <3>1. step[u] = "operation" \/ (step[u] = "removed" /\ step'[u] = "renamed")
      BY DEF ControlType
    <3> QED
      BY <1>0, <3>1, StepOrder
  <2> QED
    BY <2>1 DEF Further
<1>5. \A v \in Uploaders \ {u} : Bystander(v)
  BY <1>1 DEF Bystander, Pushed, ControlType
<1>6. /\ step'[u] = "renamed" => remote' = [remote EXCEPT ![target[u]] = part[target[u]]]
      /\ step'[u] = "removed" => /\ remote' = [remote EXCEPT ![target[u]] = None] /\ UNCHANGED part
                                 /\ ~(atomic /\ part[target[u]] # None)
  BY DEF Renamed, ControlType
<1>7. FileOf(u) => part[target[u]] = Of(u)
  BY DEF FileOf
<1>8. Of(u) # None
  BY NoneIsNoFile DEF Of, Contents
<1>9. FileOf(u) => FileOf(u)'
  BY <1>0, <1>6, <1>7 DEF FileOf, FilesType, Of
<1>10. (target[u] \notin contended => FileOf(u)) => Replaced(u)
  <2>1. part[target[u]] \in Contents \cup {None}
    BY <1>0 DEF FilesType
  <2>2. CASE step'[u] = "renamed"
    BY <1>6, <1>7, <2>1, <2>2 DEF Replaced
  <2>3. CASE step'[u] = "removed"
    BY <1>6, <1>7, <1>8, <2>1, <2>3 DEF Replaced
  <2> QED
    BY <1>0, <2>2, <2>3
<1> QED
  BY <1>1, <1>2, <1>3, <1>4, <1>5, <1>9, <1>10 DEF Done

LEMMA PromoteDone ==
  ASSUME ControlType, FilesType, OpenInv, NEW u \in Uploaders, RunOf(u), Promote(u)
  PROVE  Done(u)
<1>1. /\ stage[u] = "promote" /\ step[u] = "operation"
      /\ UNCHANGED <<session, fixed, attempt, disturbed, contended>>
  BY DEF Promote, Operates
<1>2. CASE ~Works(u)
  <2>1. Broken(u) /\ UNCHANGED files
    BY <1>2 DEF Promote
  <2> QED
    BY <1>1, <2>1, BrokenStill
<1>3. CASE Works(u)
  BY <1>1, <1>3, PromotingDone DEF Promote
<1> QED
  BY <1>2, <1>3

LEMMA RenameDone ==
  ASSUME ControlType, FilesType, OpenInv, NEW u \in Uploaders, RunOf(u), Rename(u)
  PROVE  Done(u)
<1>1. /\ stage[u] = "promote" /\ step[u] = "removed"
      /\ UNCHANGED <<session, fixed, attempt, disturbed, contended>>
  BY DEF Rename, RunOf
<1>2. CASE Broken(u) /\ UNCHANGED files
  BY <1>1, <1>2, BrokenStill
<1>3. CASE /\ part[target[u]] # None
           /\ Renamed(target[u]) /\ step' = [step EXCEPT ![u] = "renamed"]
           /\ UNCHANGED <<wrote, stage, chan, result>>
  BY <1>1, <1>3, PromotingDone
<1> QED
  BY <1>2, <1>3 DEF Rename

LEMMA DiscardDone ==
  ASSUME ControlType, FilesType, OpenInv, NEW u \in Uploaders, RunOf(u), Discard(u)
  PROVE  Done(u)
<1>1. /\ stage[u] = "discard" /\ step[u] = "operation" /\ Retry(u)
      /\ UNCHANGED <<session, fixed, attempt, disturbed, contended, remote, wrote>>
      /\ \/ /\ part' = [part EXCEPT ![target[u]] = None]
            /\ handle' = Moved(target[u], "part", "gone")
         \/ UNCHANGED <<part, handle>>
  BY DEF Discard, Operates
<1>2. /\ FilesType' /\ OpenInv' /\ Elsewhere(u)
      /\ \A v \in Uploaders : handle'[v] = None <=> handle[v] = None
  BY <1>1, MovedFiles
<1>3. /\ MovesType /\ Only(u) /\ stage'[u] \in {"reset", "end"}
      /\ \/ /\ stage'[u] = "end" /\ step'[u] = "none" /\ result'[u] = "failed"
         \/ /\ stage'[u] = "reset" /\ step'[u] = "closing" /\ result'[u] = result[u]
            /\ attempt[u] <= UPLOAD_RETRIES
  BY <1>1, RetryMoves
<1>4. ControlType'
  BY <1>1, <1>3 DEF ControlType, MovesType, session
<1>5. RunOf(u)'
  BY <1>1, <1>2, <1>3 DEF RunOf
<1>6. Further(u)
  <2>1. Stages[stage'[u]] > Stages[stage[u]]
    BY <1>1, <1>3, StageOrder
  <2> QED
    BY <1>1, <2>1 DEF Further
<1>7. \A v \in Uploaders \ {u} : Bystander(v)
  BY <1>1, <1>2, <1>3 DEF Bystander, Pushed, Only
<1>8. FileOf(u)'
  BY <1>3 DEF FileOf
<1>9. UNCHANGED result \/ result'[u] = "failed"
  BY <1>3 DEF Only, MovesType, ControlType
<1> QED
  BY <1>1, <1>2, <1>4, <1>5, <1>6, <1>7, <1>8, <1>9 DEF Done, Replaced

LEMMA ReleaseDone ==
  ASSUME ControlType, FilesType, OpenInv, NEW u \in Uploaders, RunOf(u), Release(u)
  PROVE  Done(u)
<1>1. /\ stage[u] = "recheck" /\ step[u] = "releasing" /\ result[u] = "running" /\ handle[u] = None
      /\ client' = client /\ sftp' = "none" /\ chan' = Hold(u, "none", "dead")
      /\ stage' = [stage EXCEPT ![u] = "end"] /\ step' = [step EXCEPT ![u] = "none"]
      /\ result' = [result EXCEPT ![u] = "ok"]
      /\ UNCHANGED <<files, fixed, attempt, disturbed, contended>>
  BY DEF Release, RunOf
<1>2. ControlType' /\ FilesType' /\ OpenInv'
  BY <1>1 DEF ControlType, FilesType, OpenInv, files, fixed, Hold, Calls, Places, Channels, Results
<1>3. stage'[u] = "end" /\ step'[u] = "none" /\ result'[u] = "ok"
  BY <1>1 DEF ControlType
<1>4. RunOf(u)'
  BY <1>1, <1>3 DEF RunOf, files
<1>5. Further(u)
  <2>1. Stages[stage'[u]] > Stages[stage[u]]
    BY <1>1, <1>3, StageOrder
  <2> QED
    BY <1>1, <2>1 DEF Further
<1>6. \A v \in Uploaders \ {u} : Bystander(v)
  BY <1>1 DEF Bystander, Pushed, ControlType, files
<1>7. FileOf(u)' /\ Elsewhere(u) /\ Replaced(u) /\ UNCHANGED remote
  BY <1>1, <1>3 DEF FileOf, Elsewhere, Replaced, files
<1> QED
  BY <1>1, <1>2, <1>3, <1>4, <1>5, <1>6, <1>7 DEF Done

LEMMA StepDone ==
  ASSUME ControlType, FilesType, OpenInv, NEW u \in Uploaders, RunOf(u), Step(u)
  PROVE  Done(u) /\ result[u] = "running"
<1>1. CASE EnsureSftp(u)
  <2>1. /\ ControlType' /\ RunOf(u)' /\ Further(u)
        /\ step[u] \in Awaits /\ step'[u] \in Awaits \cup {"operation", "none"}
        /\ stage'[u] \in {stage[u], "mkdir", "discard", "reset", "end"}
        /\ result'[u] \in {"running", "failed"}
        /\ \A v \in Uploaders \ {u} : Bystander(v)
        /\ UNCHANGED <<files, fixed, contended>>
        /\ disturbed \subseteq disturbed'
    BY <1>1, EnsureSftpMoves
  <2>2. FilesType' /\ OpenInv' /\ Elsewhere(u) /\ Replaced(u) /\ UNCHANGED remote
    BY <2>1 DEF FilesType, OpenInv, Elsewhere, Replaced, files, fixed
  <2>3. FileOf(u) => FileOf(u)'
    BY <2>1 DEF FileOf, files, fixed, Of, Awaits
  <2>4. result[u] = "running"
    BY <2>1 DEF RunOf, Awaits
  <2>5. UNCHANGED result \/ result'[u] = "failed"
    BY <2>1, <2>4 DEF Bystander, ControlType
  <2> QED
    BY <2>1, <2>2, <2>3, <2>4, <2>5 DEF Done
<1>2. CASE ~EnsureSftp(u)
  <2>1. Done(u)
    BY <1>2, MakeDirsDone, OpenPartDone, WriteDone, ConfirmDone, CheckDone, PromoteDone, RenameDone,
       PromotedDone, RecheckDone, ReleaseDone, DiscardDone DEF Step
  <2>2. step[u] # "none"
    BY <1>2 DEF Step, MakeDirs, OpenPart, Write, Confirm, Check, Promote, Rename, Promoted, Recheck,
                Release, Discard, Operates
  <2> QED
    BY <2>1, <2>2 DEF RunOf
<1> QED
  BY <1>1, <1>2

(* The network, and the other handlers that connect. *)
LEMMA NetworkMoves ==
  ASSUME ControlType, FilesType, Drop \/ ChannelDies \/ OtherConnects
  PROVE  /\ ControlType' /\ UNCHANGED <<files, fixed, contended, result>>
         /\ disturbed \subseteq disturbed'
         /\ \A v \in Uploaders : Bystander(v)
<1>1. UNCHANGED <<files, fixed, contended, result, stage, attempt>> /\ disturbed \subseteq disturbed'
  BY DEF Drop, ChannelDies, OtherConnects
<1>2. ControlType'
  BY DEF Drop, ChannelDies, OtherConnects, ControlType, Running, Places, Channels
<1>3. \A v \in Uploaders : Pushed(v)
  BY DEF Drop, ChannelDies, OtherConnects, Pushed
<1> QED
  BY <1>1, <1>2, <1>3 DEF Bystander, files

-----------------------------------------------------------------------------
UploadInv == TypeOK /\ RunInv /\ OpenInv /\ RivalInv /\ FileInv

LEMMA BystanderFile ==
  ASSUME NEW v \in Uploaders, FileOf(v), Bystander(v), target' = target, handle'[v] = handle[v],
         part'[target[v]] = part[target[v]], remote'[target[v]] = remote[target[v]]
  PROVE  FileOf(v)'
BY DEF FileOf, Bystander, Pushed, Begun, Of

LEMMA UploadInit == Init => UploadInv
<1> SUFFICES ASSUME Init PROVE UploadInv
  OBVIOUS
<1>1. Of(Old) \in Contents /\ 0 \in 0 .. Chunks /\ 0 \in 0 .. UPLOAD_RETRIES + 1
  BY UploadConstantsOK DEF Of, Contents
<1>2. ControlType
  BY <1>1 DEF Init, ControlType, Calls, Places, Channels, Results
<1>3. FilesType
  BY <1>1, UploadConstantsOK DEF Init, FilesType
<1>4. RunInv /\ OpenInv
  BY NoneIsNoFile DEF Init, RunInv, RunOf, OpenInv
<1>5. RivalInv /\ FileInv
  BY DEF Init, RivalInv, FileInv, Alone, Running
<1> QED
  BY <1>2, <1>3, <1>4, <1>5, Types DEF UploadInv

LEMMA UploadStep == UploadInv /\ [Next]_vars => UploadInv'
<1> SUFFICES ASSUME UploadInv, [Next]_vars PROVE UploadInv'
  OBVIOUS
<1>0. ControlType /\ FilesType /\ RunInv /\ OpenInv /\ RivalInv /\ FileInv
  BY Types DEF UploadInv
<1>1. ASSUME NEW u \in Uploaders, Begin(u) PROVE UploadInv'
  <2>1. /\ result[u] = "idle" /\ result'[u] = "running" /\ stage'[u] = "mkdir"
        /\ step'[u] \in Entry /\ attempt'[u] = 1
        /\ ControlType' /\ UNCHANGED <<session, files, fixed>>
        /\ \A v \in Uploaders \ {u} : Bystander(v)
    BY <1>0, <1>1, BeginMoves
  <2>2. FilesType' /\ OpenInv'
    BY <1>0, <2>1 DEF FilesType, OpenInv, files, fixed
  <2>3. RunInv'
    <3>1. RunOf(u)'
      BY <1>0, <2>1 DEF RunInv, RunOf, files, Entry
    <3> QED
      BY <1>0, <2>1, <3>1, BystanderRun DEF RunInv
  <2>4. /\ disturbed' = IF Running = {} THEN disturbed ELSE disturbed \cup Running \cup {u}
        /\ contended' = contended \cup {target[v] : v \in {w \in Running : target[w] = target[u]}}
    BY <1>1 DEF Begin
  <2>5. Running' = Running \cup {u} /\ target' = target
    BY <2>1 DEF Running, Bystander, fixed
  <2>6. RivalInv'
    <3> SUFFICES ASSUME NEW v \in Running', NEW w \in Running', v # w
                 PROVE  (target[v] = target[w] => target[v] \in contended') /\ v \in disturbed'
      BY <2>5 DEF RivalInv
    <3>1. CASE v \in Running /\ w \in Running
      BY <1>0, <2>4, <3>1 DEF RivalInv
    <3>2. CASE v = u /\ w \in Running
      BY <2>4, <3>2
    <3>3. CASE v \in Running /\ w = u
      BY <2>4, <3>3
    <3> QED
      BY <2>5, <3>1, <3>2, <3>3
  <2>7. FileInv'
    <3> SUFFICES ASSUME NEW v \in Uploaders, Alone(v)' PROVE FileOf(v)'
      BY DEF FileInv
    <3>1. CASE v = u
      BY <2>1, <3>1 DEF FileOf, Entry
    <3>2. CASE v # u
      <4>1. Alone(v)
        BY <2>1, <2>4, <2>5, <3>2 DEF Alone, Bystander
      <4> QED
        BY <1>0, <2>1, <2>5, <3>2, <4>1, BystanderFile DEF FileInv, files
    <3> QED
      BY <3>1, <3>2
  <2> QED
    BY <2>1, <2>2, <2>3, <2>6, <2>7, Types DEF UploadInv
<1>2. ASSUME NEW u \in Uploaders, Step(u) PROVE UploadInv'
  <2>1. Done(u) /\ result[u] = "running"
    BY <1>0, <1>2, StepDone DEF RunInv
  <2>2. RunInv'
    BY <1>0, <2>1, BystanderRun DEF RunInv, Done
  <2>3. /\ target' = target /\ contended' = contended /\ disturbed \subseteq disturbed'
        /\ \A v \in Uploaders \ {u} : Bystander(v)
    BY <2>1 DEF Done, Elsewhere, fixed
  <2>4. Running' \subseteq Running /\ u \in Running
    BY <2>1, <2>3 DEF Running, Bystander
  <2>5. RivalInv'
    BY <1>0, <2>3, <2>4 DEF RivalInv
  <2>6. FileInv'
    <3> SUFFICES ASSUME NEW v \in Uploaders, Alone(v)' PROVE FileOf(v)'
      BY DEF FileInv
    <3>1. Alone(v) /\ v \in Running
      BY <2>3, <2>4 DEF Alone, Running
    <3>2. FileOf(v)
      BY <1>0, <3>1 DEF FileInv
    <3>3. CASE v = u
      BY <2>1, <3>2, <3>3 DEF Done
    <3>4. CASE v # u
      <4>1. target[v] # target[u]
        BY <1>0, <2>4, <3>1, <3>4 DEF RivalInv, Alone
      <4>2. target[v] \in Paths
        BY <1>0 DEF FilesType
      <4> QED
        BY <2>1, <2>3, <3>2, <3>4, <4>1, <4>2, BystanderFile DEF Done, Elsewhere
    <3> QED
      BY <3>3, <3>4
  <2> QED
    BY <2>1, <2>2, <2>5, <2>6, Types DEF UploadInv, Done
<1>3. CASE Drop \/ ChannelDies \/ OtherConnects
  <2>1. /\ ControlType' /\ UNCHANGED <<files, fixed, contended, result>>
        /\ disturbed \subseteq disturbed'
        /\ \A v \in Uploaders : Bystander(v)
    BY <1>0, <1>3, NetworkMoves
  <2>2. FilesType' /\ OpenInv' /\ RunInv'
    BY <1>0, <2>1, BystanderRun DEF FilesType, OpenInv, RunInv, files, fixed
  <2>3. RivalInv'
    BY <1>0, <2>1 DEF RivalInv, Running, fixed
  <2>4. FileInv'
    <3> SUFFICES ASSUME NEW v \in Uploaders, Alone(v)' PROVE FileOf(v)'
      BY DEF FileInv
    <3>1. FileOf(v)
      BY <1>0, <2>1 DEF Alone, FileInv, fixed
    <3> QED
      BY <2>1, <3>1, BystanderFile DEF files, fixed
  <2> QED
    BY <2>1, <2>2, <2>3, <2>4, Types DEF UploadInv
<1>4. CASE UNCHANGED vars
  BY <1>4 DEF vars, session, files, fixed, UploadInv, TypeOK, RunInv, RunOf, OpenInv, RivalInv,
              Running, FileInv, FileOf, Alone, Begun, Of
<1> QED
  BY <1>1, <1>2, <1>3, <1>4 DEF Next

-----------------------------------------------------------------------------
(* How far an upload has got, as one number. *)
LEMMA Scale ==
  ASSUME NEW x \in Nat, NEW y \in Nat, NEW c \in Nat, NEW w \in 0 .. c, NEW z \in Nat,
         y > x \/ (y = x /\ z > w)
  PROVE  y * (c + 1) + z > x * (c + 1) + w
<1>1. CASE y = x /\ z > w
  <2>1. x * (c + 1) \in Nat
    OBVIOUS
  <2> QED
    BY <1>1, <2>1
<1>2. CASE y > x
  <2> DEFINE d == y - x - 1
  <2>1. d \in Nat /\ y = x + 1 + d
    BY <1>2
  <2> HIDE DEF d
  <2>2. y * (c + 1) = x * (c + 1) + (c + 1) + d * (c + 1)
    BY <2>1
  <2>3. d * (c + 1) >= 0 /\ d * (c + 1) \in Nat /\ x * (c + 1) \in Nat
    BY <2>1
  <2> QED
    BY <2>2, <2>3
<1> QED
  BY <1>1, <1>2

LEMMA PlaceOrder ==
  ASSUME NEW a \in Nat, NEW b \in Nat, NEW s \in 0 .. 8, NEW r \in 0 .. 8, NEW t \in 0 .. 13,
         NEW q \in 0 .. 13, b > a \/ (b = a /\ (r > s \/ (r = s /\ q > t)))
  PROVE  (b * 10 + r) * 20 + q > (a * 10 + s) * 20 + t
OBVIOUS

LEMMA FurtherReached ==
  ASSUME ControlType, FilesType, ControlType', FilesType', NEW u \in Uploaders, Further(u)
  PROVE  Reached(u)' > Reached(u)
<1> DEFINE Place(a, s, t) == (a * 10 + s) * 20 + t
           x == Place(attempt[u], Stages[stage[u]], Steps[step[u]])
           y == Place(attempt'[u], Stages[stage'[u]], Steps[step'[u]])
<1>1. /\ attempt[u] \in Nat /\ attempt'[u] \in Nat
      /\ wrote[u] \in 0 .. Chunks /\ wrote'[u] \in 0 .. Chunks /\ Chunks \in Nat
      /\ stage[u] \in Calls /\ stage'[u] \in Calls /\ step[u] \in Places /\ step'[u] \in Places
  BY UploadConstantsOK DEF ControlType, FilesType
<1>2. /\ \A c \in Calls : Stages[c] \in 0 .. 8
      /\ \A p \in Places : Steps[p] \in 0 .. 13
  BY StageOrder, StepOrder DEF Calls, Places
<1>3. /\ Stages[stage[u]] \in 0 .. 8 /\ Stages[stage'[u]] \in 0 .. 8
      /\ Steps[step[u]] \in 0 .. 13 /\ Steps[step'[u]] \in 0 .. 13
  BY <1>1, <1>2
<1>4. x \in Nat /\ y \in Nat /\ (y > x \/ (y = x /\ wrote'[u] > wrote[u]))
  <2>1. x \in Nat /\ y \in Nat
    BY <1>1, <1>3
  <2>2. CASE \/ attempt'[u] > attempt[u]
             \/ /\ attempt'[u] = attempt[u]
                /\ \/ Stages[stage'[u]] > Stages[stage[u]]
                   \/ stage'[u] = stage[u] /\ Steps[step'[u]] > Steps[step[u]]
    <3>1. y > x
      BY <1>1, <1>3, <2>2, PlaceOrder
    <3> QED
      BY <2>1, <3>1
  <2>3. CASE /\ attempt'[u] = attempt[u] /\ stage'[u] = stage[u] /\ step'[u] = step[u]
             /\ wrote'[u] > wrote[u]
    BY <2>1, <2>3
  <2> QED
    BY <2>2, <2>3 DEF Further
<1>5. /\ Reached(u) = x * (Chunks + 1) + wrote[u]
      /\ Reached(u)' = y * (Chunks + 1) + wrote'[u]
  BY DEF Reached
<1> HIDE DEF x, y
<1>6. y * (Chunks + 1) + wrote'[u] > x * (Chunks + 1) + wrote[u]
  BY <1>1, <1>4, Scale
<1> QED
  BY <1>5, <1>6

LEMMA BystanderFurther ==
  ASSUME NEW v \in Uploaders, Bystander(v)
  PROVE  \/ UNCHANGED <<attempt[v], stage[v], step[v], wrote[v]>>
         \/ Further(v)
<1>1. step'[v] # step[v] => Steps[step'[v]] > Steps[step[v]]
  BY StepOrder DEF Bystander, Pushed
<1> QED
  BY <1>1 DEF Bystander, Further

LEMMA MovesOn ==
  ASSUME UploadInv, UploadInv', [Next]_vars, NEW u \in Uploaders
  PROVE  <<attempt[u], stage[u], step[u], wrote[u]>>' # <<attempt[u], stage[u], step[u], wrote[u]>>
           => Reached(u)' > Reached(u)
<1>0. ControlType /\ FilesType /\ RunInv /\ OpenInv /\ ControlType' /\ FilesType'
  BY Types DEF UploadInv
<1>1. ASSUME Further(u) PROVE Reached(u)' > Reached(u)
  BY <1>0, <1>1, FurtherReached
<1>2. ASSUME NEW v \in Uploaders, Begin(v)
      PROVE  Further(u) \/ UNCHANGED <<attempt[u], stage[u], step[u], wrote[u]>>
  <2>1. CASE u = v
    BY <1>0, <1>2, <2>1, BeginMoves DEF RunInv, RunOf, Further
  <2>2. CASE u # v
    BY <1>0, <1>2, <2>2, BeginMoves, BystanderFurther
  <2> QED
    BY <2>1, <2>2
<1>3. ASSUME NEW v \in Uploaders, Step(v)
      PROVE  Further(u) \/ UNCHANGED <<attempt[u], stage[u], step[u], wrote[u]>>
  <2>1. Done(v)
    BY <1>0, <1>3, StepDone DEF RunInv
  <2> QED
    BY <2>1, BystanderFurther DEF Done
<1>4. CASE Drop \/ ChannelDies \/ OtherConnects
  BY <1>0, <1>1, <1>4, NetworkMoves, BystanderFurther
<1>5. CASE UNCHANGED vars
  BY <1>5 DEF vars, files
<1> QED
  BY <1>1, <1>2, <1>3, <1>4, <1>5 DEF Next

-----------------------------------------------------------------------------
(* The file of a path, as those who promise something see it. *)
LEMMA HoldsWhat ==
  ASSUME FilesType, NEW p \in Paths
  PROVE  /\ Holds(p) \in Uploaders \cup {Old, None, Mixed}
         /\ remote[p] = None => Holds(p) = None
         /\ \A u \in Uploaders \cup {Old} : remote[p] = Of(u) => Holds(p) = u
         /\ Holds(p)' \in Uploaders \cup {Old, None, Mixed}
         /\ remote'[p] = None => Holds(p)' = None
         /\ \A u \in Uploaders \cup {Old} : remote'[p] = Of(u) => Holds(p)' = u
<1>1. \A w \in Uploaders \cup {Old} : Of(w)[1] = w /\ Of(w) # None
  BY UploadConstantsOK, NoneIsNoFile DEF Of, Positions, Contents
<1> QED
  BY <1>1 DEF Holds, Of

LEMMA RefinesInit == Init => Promise!Init
<1> SUFFICES ASSUME Init PROVE Promise!Init
  OBVIOUS
<1>1. ControlType /\ FilesType
  BY UploadInit, Types DEF UploadInv
<1>2. \A p \in Paths : Holds(p) \in {Old, None}
  BY <1>1, HoldsWhat DEF Init
<1>3. [p \in Paths |-> Holds(p)] \in [Paths -> {Old, None}]
  BY <1>2
<1> QED
  BY <1>1, <1>3 DEF Init, Promise!Init, FilesType

LEMMA RefinesStep == UploadInv /\ UploadInv' /\ [Next]_vars => [Promise!Next]_(Promise!tvars)
<1> SUFFICES ASSUME UploadInv, UploadInv', [Next]_vars
             PROVE  Promise!Next \/ UNCHANGED Promise!tvars
  OBVIOUS
<1> DEFINE bar == [p \in Paths |-> Holds(p)]
<1>0. ControlType /\ FilesType /\ RunInv /\ OpenInv /\ RivalInv /\ FileInv /\ ControlType' /\ FilesType'
  BY Types DEF UploadInv
<1>1. UNCHANGED remote => bar' = bar
  BY DEF Holds, Of
<1>2. ASSUME UNCHANGED <<remote, fixed, result, contended>> PROVE UNCHANGED Promise!tvars
  BY <1>1, <1>2 DEF Promise!tvars, fixed
<1>3. ASSUME NEW u \in Uploaders, Begin(u) PROVE Promise!Begin(u)
  <2>1. /\ result[u] = "idle" /\ result' = [result EXCEPT ![u] = "running"]
        /\ contended' = contended \cup {target[v] : v \in {w \in Running : target[w] = target[u]}}
        /\ UNCHANGED <<files, fixed>>
    BY <1>3 DEF Begin
  <2>2. contended' = IF Promise!Rivals(u) = {} THEN contended ELSE contended \cup {target[u]}
    BY <2>1 DEF Promise!Rivals, Running
  <2> QED
    BY <1>1, <2>1, <2>2 DEF Promise!Begin, files, fixed
<1>4. ASSUME NEW u \in Uploaders, Step(u)
      PROVE  Promise!Change(u) \/ Promise!Fail(u) \/ Promise!Succeed(u) \/ UNCHANGED Promise!tvars
  <2>1. Done(u) /\ result[u] = "running" /\ target[u] \in Paths
    BY <1>0, <1>4, StepDone DEF RunInv, FilesType
  <2>2. target[u] \notin contended => FileOf(u)
    BY <1>0, <2>1 DEF FileInv, Alone
  <2>3. Replaced(u) /\ UNCHANGED <<fixed, contended>>
    BY <2>1, <2>2 DEF Done, Elsewhere
  <2>4. \A v \in Uploaders \ {u} : result'[v] = result[v]
    BY <2>1 DEF Done, Bystander
  <2>5. CASE UNCHANGED remote /\ UNCHANGED result
    BY <1>2, <2>3, <2>5
  <2>6. CASE UNCHANGED remote /\ result'[u] = "failed"
    <3>1. result' = [result EXCEPT ![u] = "failed"]
      BY <1>0, <2>4, <2>6 DEF ControlType
    <3> QED
      BY <1>1, <2>1, <2>3, <2>6, <3>1 DEF Promise!Fail, fixed
  <2>7. CASE UNCHANGED remote /\ result'[u] = "ok" /\ stage[u] = "recheck"
    <3>1. result' = [result EXCEPT ![u] = "ok"]
      BY <1>0, <2>4, <2>7 DEF ControlType
    <3>2. bar[target[u]] = u \/ target[u] \in contended
      BY <1>0, <2>1, <2>2, <2>7, HoldsWhat DEF FileOf
    <3> QED
      BY <1>1, <2>1, <2>3, <2>7, <3>1, <3>2 DEF Promise!Succeed, fixed
  <2>8. CASE ~UNCHANGED remote
    <3>1. UNCHANGED result
      BY <2>1, <2>8 DEF Done
    <3>2. PICK file \in Contents \cup {None} :
            /\ remote' = [remote EXCEPT ![target[u]] = file]
            /\ target[u] \in contended \/ file = Of(u) \/ (file = None /\ ~atomic)
      BY <2>3, <2>8 DEF Replaced
    <3>3. PICK p \in Paths : p = target[u]
      BY <2>1
    <3>4. /\ Holds(p)' \in Uploaders \cup {Old, None, Mixed}
          /\ file = None => Holds(p)' = None
          /\ file = Of(u) => Holds(p)' = u
      <4>1. remote'[p] = file
        BY <1>0, <3>2, <3>3 DEF FilesType
      <4>2. /\ Holds(p)' \in Uploaders \cup {Old, None, Mixed}
            /\ remote'[p] = None => Holds(p)' = None
            /\ remote'[p] = Of(u) => Holds(p)' = u
        BY <1>0, HoldsWhat
      <4> QED
        BY <4>1, <4>2
    <3>5. \A q \in Paths \ {p} : Holds(q)' = Holds(q)
      BY <1>0, <3>2, <3>3 DEF Holds, Of, FilesType
    <3>6. bar' = [bar EXCEPT ![p] = Holds(p)']
      BY <3>5
    <3> HIDE DEF bar
    <3>7. \E h \in Uploaders \cup {Old, None, Mixed} :
            /\ bar' = [bar EXCEPT ![target[u]] = h]
            /\ h = u \/ (h = None /\ ~atomic) \/ target[u] \in contended
      BY <3>2, <3>3, <3>4, <3>6
    <3> QED
      BY <2>1, <2>3, <3>1, <3>7 DEF Promise!Change, fixed, bar
  <2> QED
    BY <2>1, <2>5, <2>6, <2>7, <2>8 DEF Done
<1>5. CASE Drop \/ ChannelDies \/ OtherConnects
  BY <1>0, <1>2, <1>5, NetworkMoves DEF files
<1>6. CASE UNCHANGED vars
  BY <1>2, <1>6 DEF vars, files
<1> QED
  BY <1>3, <1>4, <1>5, <1>6 DEF Next, Promise!Next

-----------------------------------------------------------------------------
(* An upload that has its file whole, and the session as it left it, works. *)
LEMMA WholeOf == ASSUME NEW u \in Uploaders PROVE Whole(Of(u)) /\ Of(u) # None
BY UploadConstantsOK, NoneIsNoFile DEF Whole, Of, Positions, Contents

(* What an undisturbed step leads to. *)
Succeeding(u) ==
  /\ attempt'[u] = 1 /\ result'[u] \in {"running", "ok"}
  /\ result'[u] = "running" => SessionOf(u)'

LEMMA GoOnSucceeding ==
  ASSUME ControlType, NEW u \in Uploaders, SessionOf(u), result[u] = "running", client = "up",
         NEW call \in {"put", "check", "promote", "recheck"}, GoOn(u, call),
         UNCHANGED <<client, sftp, attempt>>
  PROVE  Succeeding(u)
<1>1. /\ stage'[u] = call /\ step'[u] \in Entry /\ result'[u] = "running"
      /\ step'[u] # "closing" /\ (step'[u] = "probing" => chan'[u] = "sftp")
  BY GoOnMoves DEF Calls
<1> QED
  BY <1>1 DEF Succeeding, SessionOf, Entry

LEMMA StepSucceeding ==
  ASSUME ControlType, FilesType, OpenInv, NEW u \in Uploaders, RunOf(u), SessionOf(u), FileOf(u),
         u \notin disturbed', Step(u)
  PROVE  Succeeding(u)
<1>0. result[u] = "running" /\ attempt[u] = 1 /\ stage[u] \notin {"discard", "reset"}
  BY StepDone DEF SessionOf
<1>1. step[u] \in {"operation", "writing", "confirming", "removed", "renamed"} => Works(u) /\ client = "up"
  BY DEF SessionOf, Works
<1>2. CASE Close(u)
  <2>1. step'[u] = "dialing" /\ sftp' = "none" /\ UNCHANGED <<stage, attempt, result>>
    BY <1>2 DEF Close
  <2> QED
    BY <1>0, <2>1 DEF Succeeding, SessionOf
<1>3. CASE Dialed(u)
  <2>1. sftp = "none" /\ Cached(TRUE) = "opening"
    BY <1>3 DEF Dialed, SessionOf, Cached
  <2>2. /\ step'[u] = "opening" /\ client' = "up" /\ UNCHANGED <<stage, attempt, result>>
    BY <1>0, <1>3, <2>1 DEF Dialed
  <2> QED
    BY <1>0, <2>2 DEF Succeeding, SessionOf
<1>4. CASE Refused(u)
  BY <1>4 DEF Refused
<1>5. CASE Probed(u)
  <2>1. chan[u] = "sftp" /\ client = "up" /\ (Works(u) <=> sftp \in {"live", "stray"})
    BY <1>5 DEF Probed, SessionOf, Works
  <2>2. UNCHANGED <<client, sftp, stage, attempt, result>>
    BY <1>5 DEF Probed, session
  <2>3. CASE Works(u)
    <3>1. step'[u] = "operation" /\ chan'[u] = "sftp"
      BY <1>5, <2>1, <2>3 DEF Probed, InHand, ControlType
    <3> QED
      BY <1>0, <2>1, <2>2, <2>3, <3>1 DEF Succeeding, SessionOf
  <2>4. CASE ~Works(u)
    <3>1. step'[u] = "dropping"
      BY <1>5, <2>4 DEF Probed, ControlType
    <3> QED
      BY <1>0, <2>1, <2>2, <3>1 DEF Succeeding, SessionOf
  <2> QED
    BY <2>3, <2>4
<1>6. CASE Dropped(u)
  <2>1. client = "up"
    BY <1>6 DEF Dropped, SessionOf
  <2>2. step'[u] = "opening" /\ UNCHANGED <<client, stage, attempt, result>>
    BY <1>6, <2>1 DEF Dropped, Opening, ControlType
  <2> QED
    BY <1>0, <2>1, <2>2 DEF Succeeding, SessionOf
<1>7. CASE Opened(u)
  <2>1. step[u] = "opening" /\ client = "up"
    BY <1>7 DEF Opened, SessionOf
  <2>2. /\ step'[u] = "operation" /\ sftp' = "live" /\ chan'[u] = "sftp"
        /\ UNCHANGED <<client, stage, attempt, result>>
    BY <1>7, <2>1 DEF Opened, Hold, ControlType
  <2> QED
    BY <1>0, <2>1, <2>2 DEF Succeeding, SessionOf
<1>8. CASE NotOpened(u)
  BY <1>8 DEF NotOpened, SessionOf
<1>9. CASE MakeDirs(u)
  <2>1. GoOn(u, "put") /\ client = "up" /\ UNCHANGED <<client, sftp, attempt>>
    BY <1>1, <1>9 DEF MakeDirs, Operates, session
  <2> QED
    BY <1>0, <2>1, GoOnSucceeding
<1>10. ASSUME UNCHANGED <<client, sftp, stage, attempt, result, chan>>,
              step[u] \in {"operation", "writing", "confirming", "removed", "renamed"},
              step'[u] \in {"operation", "writing", "confirming", "removed", "renamed"}
       PROVE  Succeeding(u)
  BY <1>0, <1>1, <1>10 DEF Succeeding, SessionOf
<1>11. CASE OpenPart(u)
  <2>1. /\ step' = [step EXCEPT ![u] = "writing"] /\ UNCHANGED <<stage, chan, result, client, sftp, attempt>>
        /\ step[u] = "operation"
    BY <1>1, <1>11 DEF OpenPart, Operates, session
  <2>2. step'[u] = "writing"
    BY <2>1 DEF ControlType
  <2> QED
    BY <1>10, <2>1, <2>2
<1>12. CASE Write(u)
  <2>1. /\ step'[u] \in {"writing", "confirming"} /\ UNCHANGED <<stage, chan, result, client, sftp, attempt>>
        /\ step[u] = "writing"
    BY <1>1, <1>12 DEF Write, session, ControlType
  <2> QED
    BY <1>10, <2>1
<1>13. CASE Confirm(u)
  <2>1. step[u] = "confirming" /\ part[target[u]] = Of(u) /\ Whole(part[target[u]])
    BY <1>13, WholeOf DEF Confirm, FileOf
  <2>2. GoOn(u, "check") /\ client = "up" /\ UNCHANGED <<client, sftp, attempt>>
    BY <1>1, <1>13, <2>1 DEF Confirm, session
  <2> QED
    BY <1>0, <2>2, GoOnSucceeding
<1>14. CASE Check(u)
  <2>1. step[u] = "operation" /\ part[target[u]] = Of(u) /\ Whole(part[target[u]])
    BY <1>14, WholeOf DEF Check, Operates, FileOf
  <2>2. GoOn(u, "promote") /\ client = "up" /\ UNCHANGED <<client, sftp, attempt>>
    BY <1>1, <1>14, <2>1 DEF Check, Operates, session
  <2> QED
    BY <1>0, <2>2, GoOnSucceeding
<1>15. CASE Promote(u)
  <2>1. step[u] = "operation" /\ Works(u)
    BY <1>1, <1>15 DEF Promote, Operates
  <2>2. step'[u] \in {"renamed", "removed"} /\ UNCHANGED <<stage, chan, result, client, sftp, attempt>>
    BY <1>15, <2>1 DEF Promote, Operates, session, ControlType
  <2> QED
    BY <1>10, <2>1, <2>2
<1>16. CASE Rename(u)
  <2>1. /\ step[u] = "removed" /\ Works(u)
        /\ part[target[u]] # None /\ remote[target[u]] = None
    BY <1>1, <1>16, WholeOf DEF Rename, FileOf, RunOf
  <2>2. step'[u] = "renamed" /\ UNCHANGED <<stage, chan, result, client, sftp, attempt>>
    BY <1>16, <2>1 DEF Rename, session, ControlType
  <2> QED
    BY <1>10, <2>1, <2>2
<1>17. CASE Promoted(u)
  <2>1. GoOn(u, "recheck") /\ client = "up" /\ UNCHANGED <<client, sftp, attempt>>
    BY <1>1, <1>17 DEF Promoted, session
  <2> QED
    BY <1>0, <2>1, GoOnSucceeding
<1>18. CASE Recheck(u)
  <2>1. step[u] = "operation" /\ remote[target[u]] = Of(u) /\ Whole(remote[target[u]])
    BY <1>18, WholeOf DEF Recheck, Operates, FileOf
  <2>2. step' = [step EXCEPT ![u] = "releasing"] /\ UNCHANGED <<client, sftp, stage, attempt, result>>
    BY <1>1, <1>18, <2>1 DEF Recheck, Operates, session
  <2>3. step'[u] = "releasing"
    BY <2>2 DEF ControlType
  <2> QED
    BY <1>0, <1>1, <2>1, <2>2, <2>3 DEF Succeeding, SessionOf
<1>19. CASE Release(u)
  BY <1>0, <1>19 DEF Release, Succeeding, ControlType
<1>20. CASE Discard(u)
  BY <1>0, <1>20 DEF Discard, Operates
<1> QED
  BY <1>2, <1>3, <1>4, <1>5, <1>6, <1>7, <1>8, <1>9, <1>11, <1>12, <1>13, <1>14, <1>15, <1>16,
     <1>17, <1>18, <1>19, <1>20 DEF Step, EnsureSftp

LEMMA SessionStep ==
  UploadInv /\ UploadInv' /\ SessionInv /\ UndisturbedSucceeds /\ [Next]_vars
    => SessionInv' /\ UndisturbedSucceeds'
<1> SUFFICES ASSUME UploadInv, UploadInv', SessionInv, UndisturbedSucceeds, [Next]_vars,
                    NEW u \in Uploaders, u \notin disturbed'
             PROVE  /\ attempt'[u] <= 1 /\ result'[u] # "failed"
                    /\ result'[u] = "running" => SessionOf(u)'
  BY DEF SessionInv, UndisturbedSucceeds, Running
<1>0. /\ ControlType /\ FilesType /\ RunInv /\ OpenInv /\ RivalInv /\ FileInv
      /\ u \notin disturbed => attempt[u] <= 1 /\ result[u] # "failed"
      /\ u \notin disturbed /\ u \in Running => SessionOf(u)
  BY Types DEF UploadInv, UndisturbedSucceeds, SessionInv, Running
<1>1. ASSUME u \notin Running, u \notin disturbed, Bystander(u)
      PROVE  /\ attempt'[u] <= 1 /\ result'[u] # "failed" /\ result'[u] # "running"
  BY <1>0, <1>1 DEF Bystander, Running
<1>2. ASSUME NEW v \in Uploaders, Begin(v)
      PROVE  /\ attempt'[u] <= 1 /\ result'[u] # "failed" /\ (result'[u] = "running" => SessionOf(u)')
  <2>1. disturbed' = IF Running = {} THEN disturbed ELSE disturbed \cup Running \cup {v}
    BY <1>2 DEF Begin
  <2>2. CASE u = v
    <3>1. /\ result'[u] = "running" /\ stage'[u] = "mkdir" /\ step'[u] \in Entry /\ attempt'[u] = 1
          /\ client' = client /\ (step'[u] # "closing" => client = "up")
          /\ step'[u] = "probing" => chan'[u] = "sftp"
      BY <1>0, <1>2, <2>2, BeginMoves DEF session
    <3> QED
      BY <3>1 DEF SessionOf, Entry
  <2>3. CASE u # v
    BY <1>0, <1>1, <1>2, <2>1, <2>3, BeginMoves
  <2> QED
    BY <2>2, <2>3
<1>3. ASSUME NEW v \in Uploaders, Step(v)
      PROVE  /\ attempt'[u] <= 1 /\ result'[u] # "failed" /\ (result'[u] = "running" => SessionOf(u)')
  <2>1. Done(v) /\ v \in Running
    BY <1>0, <1>3, StepDone DEF RunInv, Running
  <2>2. u \notin disturbed
    BY <2>1 DEF Done, Elsewhere
  <2>3. CASE u = v
    <3>1. SessionOf(u) /\ FileOf(u) /\ RunOf(u)
      BY <1>0, <2>1, <2>2, <2>3 DEF FileInv, Alone, RunInv, Running
    <3>2. Succeeding(u)
      BY <1>0, <1>3, <2>3, <3>1, StepSucceeding
    <3> QED
      BY <3>2 DEF Succeeding
  <2>4. CASE u # v
    <3>1. u \notin Running
      BY <1>0, <2>1, <2>2, <2>4 DEF RivalInv
    <3> QED
      BY <1>1, <2>1, <2>2, <2>4, <3>1 DEF Done
  <2> QED
    BY <2>3, <2>4
<1>4. CASE Drop \/ ChannelDies
  <2>1. u \notin Running /\ u \notin disturbed
    BY <1>4 DEF Drop, ChannelDies
  <2> QED
    BY <1>0, <1>1, <1>4, <2>1, NetworkMoves
<1>5. CASE OtherConnects
  BY <1>0, <1>5 DEF OtherConnects, SessionOf, Running
<1>6. CASE UNCHANGED vars
  BY <1>0, <1>6 DEF vars, session, SessionOf, Running
<1> QED
  BY <1>2, <1>3, <1>4, <1>5, <1>6 DEF Next

-----------------------------------------------------------------------------
LEMMA UploadInvariant == Spec => []UploadInv
BY UploadInit, UploadStep, PTL DEF Spec

(* The session, the uploads and the files keep their types. *)
THEOREM UploadTypeCorrect == Spec => []TypeOK
<1>1. UploadInv => TypeOK
  BY DEF UploadInv
<1> QED
  BY <1>1, UploadInvariant, PTL

(* Uploads are as Transfer promises: a path holds what it held before, or    *)
(* nothing where the server cannot replace a file, or all of the new file,   *)
(* and that when the upload says so; whoever closes the session under it.    *)
THEOREM KeepsPromiseCorrect == Spec => KeepsPromise
<1>1. UploadInv /\ UploadInv' /\ [Next]_vars => [Promise!Next]_(Promise!tvars)
  BY RefinesStep
<1> QED
  BY <1>1, RefinesInit, UploadInvariant, PTL DEF Spec, KeepsPromise, Promise!Spec

(* An upload that nothing disturbs succeeds at the first attempt. *)
THEOREM UndisturbedSucceedsCorrect == Spec => []UndisturbedSucceeds
<1>1. Init => SessionInv /\ UndisturbedSucceeds
  BY DEF Init, SessionInv, UndisturbedSucceeds, Running
<1> QED
  BY <1>1, SessionStep, UploadInvariant, PTL DEF Spec

(* No step, of whomever, takes an upload back: neither a retry nor another   *)
(* upload that closes its channel makes it repeat a call of one attempt.     *)
THEOREM NeverRepeatsCorrect == Spec => NeverRepeats
<1> DEFINE Advances == \A u \in Uploaders :
              <<attempt[u], stage[u], step[u], wrote[u]>>' # <<attempt[u], stage[u], step[u], wrote[u]>>
                => Reached(u)' > Reached(u)
<1>1. UploadInv /\ UploadInv' /\ [Next]_vars => Advances
  BY MovesOn
<1>2. UploadInv /\ UploadInv' /\ [Next]_vars => [Advances]_vars
  BY <1>1
<1> QED
  BY <1>2, UploadInvariant, PTL DEF Spec, NeverRepeats

=============================================================================
