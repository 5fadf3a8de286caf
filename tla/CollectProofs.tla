--------------------------- MODULE CollectProofs ---------------------------
(***************************************************************************)
(* Proofs about Collect, for any paths, builds, numbers of runs and of     *)
(* writes: its types, and that nothing is lost.  NothingLost alone is not  *)
(* inductive: what a loop has still to do must be known to be there, and   *)
(* the hashes that a run has taken to be those of the files.               *)
(***************************************************************************)
EXTENDS Collect, TLAPS

(* What is on the server is what was last written there. *)
ServerLatest == \A p \in Paths : server[p] \in {None, latest[p]}

(* What is still to be fetched or removed was hashed; whatever was hashed is *)
(* on the server until the first file is removed.                            *)
TodoThere ==
  /\ phase \notin {"fetch", "remove"} => todo = {}
  /\ \A p \in todo : server[p] # None /\ remoteHash[p] # None
  /\ phase = "fetch" => \A p \in jars : remoteHash[p] # None => server[p] # None

(* The server's hash is that of the last version, unless it was written since. *)
HashOfLatest ==
  phase \in {"fetch", "remove"} =>
    \A p \in jars : remoteHash[p] # None /\ p \notin touched => remoteHash[p] = latest[p]

(* The hash of a verified local file is that of the file that is there. *)
HashOfLocal ==
  /\ phase = "measure" => \A p \in jars : localHash[p] = None
  /\ phase \in {"fetch", "remove"} =>
       \A p \in jars : Verified(p) => local[p] = localHash[p]

(* What is to be fetched has not been verified, what is to be removed has. *)
TodoVerified ==
  \A p \in todo : IF phase = "remove" THEN Verified(p) ELSE localHash[p] = None

CollectInv ==
  /\ TypeOK /\ ServerLatest /\ TodoThere /\ HashOfLatest /\ HashOfLocal /\ TodoVerified
  /\ NothingLost

-----------------------------------------------------------------------------
(* A counter below its bound may be increased. *)
LEMMA Bounded ==
  ASSUME NEW max, max \in {MaxWrites, MaxRuns}, NEW n \in 0 .. max, n < max
  PROVE  n + 1 \in 0 .. max
<1>1. max \in Nat
  BY CollectConstantsOK
<1> QED
  BY <1>1

LEMMA CollectInit == Init => CollectInv
<1> SUFFICES ASSUME Init PROVE CollectInv
  OBVIOUS
<1>1. TypeOK
  <2>1. /\ writes \in 0 .. MaxWrites /\ runs \in 0 .. MaxRuns
    BY CollectConstantsOK DEF Init
  <2>2. server \in [Paths -> Builds \cup {None}] /\ latest \in [Paths -> Builds \cup {None}]
    BY DEF Init
  <2>3. /\ local \in [Paths -> Builds \cup {Cut, None}]
        /\ remoteHash \in [Paths -> Builds \cup {None}]
        /\ localHash \in [Paths -> Builds \cup {None}]
    BY DEF Init
  <2>4. delete \in BOOLEAN
    BY DEF Init
  <2>5. /\ jars \subseteq Paths \ LIVE /\ todo \subseteq jars
        /\ touched \subseteq Paths /\ raced \subseteq Paths
    BY DEF Init
  <2> QED
    BY <2>1, <2>2, <2>3, <2>4, <2>5 DEF Init, TypeOK
<1>2. ServerLatest /\ TodoThere /\ HashOfLatest /\ HashOfLocal /\ TodoVerified /\ NothingLost
  BY DEF Init, ServerLatest, TodoThere, HashOfLatest, HashOfLocal, TodoVerified, NothingLost
<1> QED
  BY <1>1, <1>2 DEF CollectInv

(* A written path is touched, and no longer raced. *)
LEMMA WriteStep ==
  ASSUME CollectInv, NEW p \in Paths, NEW b \in Builds, Write(p, b)
  PROVE  CollectInv'
<1> USE CollectConstantsOK DEF CollectInv, Write, report
<1>1. b # None
  OBVIOUS
<1>2. TypeOK'
  <2>1. writes' \in 0 .. MaxWrites /\ runs' \in 0 .. MaxRuns
    <3>1. writes \in 0 .. MaxWrites /\ runs \in 0 .. MaxRuns
      BY DEF TypeOK
    <3> QED
      BY <3>1, Bounded
  <2>2. /\ server' \in [Paths -> Builds \cup {None}] /\ latest' \in [Paths -> Builds \cup {None}]
        /\ touched' \subseteq Paths /\ raced' \subseteq Paths
    BY DEF TypeOK
  <2>3. UNCHANGED <<local, phase, delete, jars, remoteHash, localHash, status, todo>>
    OBVIOUS
  <2> QED
    BY <2>1, <2>2, <2>3 DEF TypeOK
<1>3. ServerLatest' /\ TodoThere'
  BY <1>1 DEF TypeOK, ServerLatest, TodoThere
<1>4. HashOfLatest'
  BY DEF TypeOK, HashOfLatest
<1>5. HashOfLocal' /\ TodoVerified'
  BY DEF TypeOK, HashOfLocal, TodoVerified, Verified
<1>6. NothingLost'
  BY DEF TypeOK, NothingLost
<1> QED
  BY <1>2, <1>3, <1>4, <1>5, <1>6

LEMMA DiscoverStep ==
  ASSUME CollectInv, Discover
  PROVE  CollectInv'
<1> USE CollectConstantsOK DEF CollectInv, Discover
<1>1. todo = {}
  BY DEF TodoThere
<1>2. TypeOK'
  <2>1. writes' \in 0 .. MaxWrites /\ runs' \in 0 .. MaxRuns
    <3>1. writes \in 0 .. MaxWrites /\ runs \in 0 .. MaxRuns
      BY DEF TypeOK
    <3> QED
      BY <3>1, Bounded
  <2>2. jars' \subseteq Paths \ LIVE /\ todo' = {}
    BY <1>1 DEF Excluded
  <2>3. /\ remoteHash' \in [Paths -> Builds \cup {None}]
        /\ localHash' \in [Paths -> Builds \cup {None}]
        /\ status' \in [Paths -> {"found", "unreadable", "copied", "MISMATCH", "copy failed",
                                   "deleted", "delete failed"}]
    OBVIOUS
  <2> QED
    BY <2>1, <2>2, <2>3 DEF TypeOK
<1>3. ServerLatest' /\ TodoThere' /\ HashOfLatest' /\ TodoVerified' /\ NothingLost'
  BY <1>1 DEF ServerLatest, TodoThere, HashOfLatest, TodoVerified, NothingLost
<1>4. HashOfLocal'
  BY DEF TypeOK, HashOfLocal
<1> QED
  BY <1>2, <1>3, <1>4

(* What has been hashed is on the server, and is what was last written. *)
LEMMA MeasureStep ==
  ASSUME CollectInv, Measure
  PROVE  CollectInv'
<1> USE CollectConstantsOK DEF CollectInv, Measure
<1>1. TypeOK'
  BY DEF TypeOK
<1>2. \A p \in jars : remoteHash'[p] \in {None, server[p]}
  BY DEF TypeOK
<1>3. ServerLatest' /\ NothingLost'
  BY DEF ServerLatest, NothingLost
<1>4. TodoThere'
  BY <1>2 DEF TypeOK, TodoThere
<1>5. HashOfLatest'
  BY <1>2 DEF TypeOK, HashOfLatest, ServerLatest
<1>6. HashOfLocal' /\ TodoVerified'
  BY DEF TypeOK, HashOfLocal, TodoVerified, Verified
<1> QED
  BY <1>1, <1>3, <1>4, <1>5, <1>6

(* The mirror's file is replaced only by what the server has. *)
LEMMA FetchStep ==
  ASSUME CollectInv, NEW p \in Paths, Fetch(p)
  PROVE  CollectInv'
<1> USE CollectConstantsOK DEF CollectInv, Fetch
<1>1. /\ \A q \in Paths \ {p} : local'[q] = local[q] /\ localHash'[q] = localHash[q]
      /\ localHash'[p] = local'[p] /\ local'[p] \in Builds
      /\ local'[p] \in {local[p], server[p]}
      /\ local' \in [Paths -> Builds \cup {Cut, None}]
  BY DEF TypeOK, Complete
<1>2. TypeOK'
  BY <1>1 DEF TypeOK
<1>3. ServerLatest' /\ TodoThere' /\ HashOfLatest'
  BY DEF ServerLatest, TodoThere, HashOfLatest
<1>4. HashOfLocal' /\ TodoVerified'
  BY <1>1 DEF TypeOK, HashOfLocal, TodoVerified, Verified
<1>5. NothingLost'
  BY <1>1 DEF TypeOK, ServerLatest, TodoThere, NothingLost
<1> QED
  BY <1>2, <1>3, <1>4, <1>5

(* A transfer that fails may empty the mirror's file, but the server has it. *)
LEMMA FetchFailsStep ==
  ASSUME CollectInv, NEW p \in Paths, FetchFails(p)
  PROVE  CollectInv'
<1> USE CollectConstantsOK DEF CollectInv, FetchFails
<1>1. /\ \A q \in Paths \ {p} : local'[q] = local[q] /\ localHash'[q] = localHash[q]
      /\ localHash'[p] # remoteHash[p] /\ localHash'[p] \in Builds \cup {None}
      /\ local' \in [Paths -> Builds \cup {Cut, None}]
  BY DEF TypeOK, TodoThere, Complete
<1>2. TypeOK'
  BY <1>1 DEF TypeOK
<1>3. ServerLatest' /\ TodoThere' /\ HashOfLatest'
  BY DEF ServerLatest, TodoThere, HashOfLatest
<1>4. HashOfLocal' /\ TodoVerified'
  BY <1>1 DEF TypeOK, HashOfLocal, TodoVerified, Verified
<1>5. NothingLost'
  BY <1>1 DEF TypeOK, ServerLatest, TodoThere, NothingLost
<1> QED
  BY <1>2, <1>3, <1>4, <1>5

LEMMA CopiedStep ==
  ASSUME CollectInv, Copied
  PROVE  CollectInv'
<1> USE DEF CollectInv, Copied, report
<1>1. TypeOK'
  BY DEF TypeOK, Verified
<1>2. ServerLatest' /\ HashOfLatest' /\ HashOfLocal' /\ NothingLost'
  BY DEF ServerLatest, HashOfLatest, HashOfLocal, Verified, NothingLost
<1>3. TodoThere' /\ TodoVerified'
  BY DEF TypeOK, TodoThere, TodoVerified, Verified
<1> QED
  BY <1>1, <1>2, <1>3

(* What is removed was verified: the mirror has what was hashed, and unless  *)
(* it was written since, that is the last version.                           *)
LEMMA RemoveStep ==
  ASSUME CollectInv, NEW p \in Paths, Remove(p)
  PROVE  CollectInv'
<1> USE CollectConstantsOK DEF CollectInv, Remove
<1>1. TypeOK'
  BY DEF TypeOK
<1>2. ServerLatest' /\ TodoThere'
  BY DEF TypeOK, ServerLatest, TodoThere
<1>3. HashOfLatest' /\ HashOfLocal' /\ TodoVerified'
  BY DEF TypeOK, HashOfLatest, HashOfLocal, TodoVerified, Verified
<1>4. NothingLost'
  <2>1. CASE UNCHANGED <<server, raced>>
    BY <2>1 DEF NothingLost
  <2>2. CASE ~UNCHANGED <<server, raced>>
    <3>1. /\ p \in jars /\ server[p] # None /\ local[p] = remoteHash[p] /\ remoteHash[p] # None
      BY DEF TypeOK, TodoThere, TodoVerified, HashOfLocal, Verified
    <3>2. latest[p] = local[p] \/ p \in touched
      BY <3>1 DEF HashOfLatest
    <3>3. /\ p \in touched => p \in raced'
          /\ raced \subseteq raced'
          /\ \A q \in Paths \ {p} : server'[q] = server[q]
      BY <2>2, <3>1 DEF TypeOK
    <3> QED
      BY <3>2, <3>3 DEF NothingLost
  <2> QED
    BY <2>1, <2>2
<1> QED
  BY <1>1, <1>2, <1>3, <1>4

(* The end of a run, or its death, forgets only what was still to do. *)
LEMMA EndStep ==
  ASSUME CollectInv, Removed \/ Die \/ UNCHANGED vars
  PROVE  CollectInv'
<1> USE DEF CollectInv, report
<1>1. CASE Removed \/ Die
  <2>1. /\ phase' = "idle" /\ todo' = {}
        /\ UNCHANGED <<server, local, delete, report, latest, touched, raced, writes, runs>>
    BY <1>1 DEF Removed, Die
  <2> QED
    BY <2>1 DEF TypeOK, ServerLatest, TodoThere, HashOfLatest, HashOfLocal, TodoVerified,
                NothingLost
<1>2. CASE UNCHANGED vars
  BY <1>2 DEF vars, TypeOK, ServerLatest, TodoThere, HashOfLatest, HashOfLocal, TodoVerified,
              Verified, NothingLost
<1> QED
  BY <1>1, <1>2

LEMMA CollectStep == CollectInv /\ [Next]_vars => CollectInv'
BY WriteStep, DiscoverStep, MeasureStep, FetchStep, FetchFailsStep, CopiedStep, RemoveStep, EndStep
DEF Next

-----------------------------------------------------------------------------
(* The collector's variables keep their types; in particular no live JAR is  *)
(* ever in the list of the files to collect.                                 *)
THEOREM CollectTypeCorrect == Spec => []TypeOK
<1>1. CollectInv => TypeOK
  BY DEF CollectInv
<1> QED
  BY <1>1, CollectInit, CollectStep, PTL DEF Spec

(* What a deployment last wrote to a path is on the server or in the mirror, *)
(* through any number of runs that die or fail half way, unless it was       *)
(* written between measure() and remove() of one run.                        *)
THEOREM NothingLostCorrect == Spec => []NothingLost
<1>1. CollectInv => NothingLost
  BY DEF CollectInv
<1> QED
  BY <1>1, CollectInit, CollectStep, PTL DEF Spec
=============================================================================
