--------------------------- MODULE FrontendProofs ---------------------------
(***************************************************************************)
(* Proofs about Frontend, for any builds, settings and number of           *)
(* deployments: its types, that the bundle served was prepared, that a     *)
(* success was verified and a revert restores, and that the bundle a       *)
(* deployment found, and the last one that was seen to work, are kept.     *)
(*                                                                         *)
(* None of the properties is inductive.  What the stages have done so far  *)
(* is in StartInv (what the deployment found and pushed aside), ReadyInv   *)
(* (how far a bundle is prepared), SuccessInv (what was archived and       *)
(* unpacked) and TimeInv (the mtimes by which _prune goes).                *)
(***************************************************************************)
EXTENDS Frontend, SequenceTheorems, FiniteSetTheorems, TLAPS

Before == {"archive", "extract", "own", "configure", "relabel", "swap"}
After  == {"verify", "revert", "retain"}

(* A deployment in flight has a build and a stamp. *)
TypeInv ==
  /\ TypeOK
  /\ pc # "idle" => started > 0 /\ build \in Builds /\ outcome = "none"

(* Until the swap dist is what the deployment found; then that is the one    *)
(* dist.bak of its stamp, and a revert will take it from there.              *)
StartInv ==
  /\ \A a \in baks : a.stamp <= started
  /\ pc \in Before => live = atStart /\ \A a \in baks : a.stamp < started
  /\ pc \in After => \A a \in baks : a.stamp = started => a.dir = atStart
  /\ RevertMeansRestored

(* A bundle is prepared when it is swapped in, and so are those pushed aside. *)
ReadyInv ==
  /\ LivePrepared
  /\ \A a \in baks : Prepared(a.dir)
  /\ pc = "configure" => fresh.owned
  /\ pc \in {"relabel", "swap"} => Prepared(fresh)

(* What has been archived and unpacked is the build that was asked for. *)
SuccessInv ==
  /\ pc \in (Before \ {"archive"}) \cup After =>
       Len(archives) > 0 /\ archives[1] = [build |-> build, whole |-> TRUE]
  /\ clean => /\ pc \in {"archive", "extract"} => fresh = None
              /\ pc \in {"own", "configure", "relabel", "swap"} => fresh.build = build
              /\ pc \in {"verify", "retain"} => live.build = build
  /\ pc = "retain" => live = verified
  /\ SuccessIsVerified

(* While the new bundle is not verified, the verified one is pushed aside. *)
KeptInv ==
  /\ pc \in {"verify", "revert"} /\ verified # None => verified \in {a.dir : a \in baks}
  /\ LastVerifiedKept

(* A bundle that is swapped in is newer than all that were before, so that   *)
(* the one it replaced is the newest of those pushed aside.                  *)
TimeInv ==
  /\ pc \in {"relabel", "swap"} => fresh.time = Now
  /\ pc \notin After /\ live # None =>
       /\ live.time <= Now /\ (pc # "idle" => live.time < Now)
       /\ \A a \in baks : a.dir.time < live.time
  /\ pc \in After =>
       /\ live.time = Now /\ atStart # None /\ atStart.time < Now
       /\ \A a \in baks : a.stamp = started \/ a.dir.time < atStart.time
  /\ PreviousInPlace

-----------------------------------------------------------------------------
(* A sequence without the elements between two of its places. *)
LEMMA CutOut ==
  ASSUME NEW S, NEW files \in Seq(S), NEW m \in 0 .. Len(files), NEW n \in 1 .. Len(files) + 1
  PROVE  /\ SubSeq(files, 1, m) \o SubSeq(files, n, Len(files)) \in Seq(S)
         /\ m > 0 => /\ Len(SubSeq(files, 1, m) \o SubSeq(files, n, Len(files))) > 0
                     /\ (SubSeq(files, 1, m) \o SubSeq(files, n, Len(files)))[1] = files[1]
<1> DEFINE front == SubSeq(files, 1, m)
           back  == SubSeq(files, n, Len(files))
<1>1. \A i \in 1 .. Len(files) : files[i] \in S
  OBVIOUS
<1>2. /\ front \in Seq(S) /\ Len(front) = m
      /\ m > 0 => front[1] = files[1]
  BY <1>1, SubSeqProperties
<1>3. back \in Seq(S)
  BY <1>1, SubSeqProperties
<1> HIDE DEF front, back
<1>4. /\ front \o back \in Seq(S) /\ Len(front \o back) = Len(front) + Len(back)
      /\ \A i \in 1 .. Len(front) + Len(back) :
           (front \o back)[i] = IF i <= Len(front) THEN front[i] ELSE back[i - Len(front)]
  BY <1>2, <1>3, ConcatProperties
<1>5. Len(back) \in Nat
  BY <1>3
<1>6. m > 0 => Len(front \o back) > 0 /\ (front \o back)[1] = files[1]
  BY <1>2, <1>4, <1>5
<1> QED
  BY <1>4, <1>6 DEF front, back

(* The archives without one of them, and with a new one, are archives. *)
LEMMA ArchivedType ==
  ASSUME NEW whole \in BOOLEAN, build \in Builds,
         archives \in Seq([build : Builds, whole : BOOLEAN])
  PROVE  /\ Archived(whole) \in Seq([build : Builds, whole : BOOLEAN])
         /\ Len(Archived(whole)) > 0
         /\ Archived(whole)[1] = [build |-> build, whole |-> whole]
<1> DEFINE Files == [build : Builds, whole : BOOLEAN]
<1>1. OtherArchives \in Seq(Files)
  <2>1. ASSUME \E i \in 1 .. Len(archives) : archives[i].build = build
        PROVE  OtherArchives \in Seq(Files)
    <3> DEFINE i == CHOOSE n \in 1 .. Len(archives) : archives[n].build = build
    <3>1. i \in 1 .. Len(archives)
      BY <2>1
    <3>2. OtherArchives = SubSeq(archives, 1, i - 1) \o SubSeq(archives, i + 1, Len(archives))
      BY <2>1 DEF OtherArchives
    <3> HIDE DEF i
    <3>3. i - 1 \in 0 .. Len(archives) /\ i + 1 \in 1 .. Len(archives) + 1
      BY <3>1
    <3> QED
      BY <3>2, <3>3, CutOut
  <2> QED
    BY <2>1 DEF OtherArchives
<1>2. [build |-> build, whole |-> whole] \in Files
  OBVIOUS
<1> HIDE DEF Files
<1>3. /\ <<[build |-> build, whole |-> whole]>> \o OtherArchives \in Seq(Files)
      /\ Len(<<[build |-> build, whole |-> whole]>> \o OtherArchives) = Len(OtherArchives) + 1
      /\ Len(OtherArchives) \in Nat
      /\ (<<[build |-> build, whole |-> whole]>> \o OtherArchives)[1] = [build |-> build, whole |-> whole]
  BY <1>1, <1>2
<1> QED
  BY <1>3 DEF Archived, Files

LEMMA KeepFacts == AtLeastOne(KeepArchives) \in Nat \ {0} /\ AtLeastOne(KeepDist) \in Nat \ {0}
BY FrontendConstants DEF AtLeastOne

(* What Retain leaves of the archives. *)
LEMMA RetainArchives ==
  ASSUME TypeInv, Retain
  PROVE  /\ archives' \in Seq([build : Builds, whole : BOOLEAN])
         /\ Len(archives) > 0 => Len(archives') > 0 /\ archives'[1] = archives[1]
<1>1. CASE UNCHANGED archives
  BY <1>1 DEF TypeInv, TypeOK
<1>2. CASE ~UNCHANGED archives
  <2> DEFINE keep == AtLeastOne(KeepArchives)
  <2>1. PICK last \in keep + 1 .. Len(archives) :
          archives' = SubSeq(archives, 1, keep) \o SubSeq(archives, last + 1, Len(archives))
    BY <1>2 DEF Retain
  <2>2. keep \in 1 .. Len(archives) /\ last + 1 \in 1 .. Len(archives) + 1
    BY KeepFacts
  <2> DEFINE Files == [build : Builds, whole : BOOLEAN]
  <2>3. archives \in Seq(Files) /\ keep > 0
    BY KeepFacts DEF TypeInv, TypeOK
  <2> HIDE DEF keep, Files
  <2>4. archives' \in Seq(Files) /\ Len(archives') > 0 /\ archives'[1] = archives[1]
    BY <2>1, <2>2, <2>3, CutOut
  <2> QED
    BY <2>4 DEF Files
<1> QED
  BY <1>1, <1>2

(* What MoveToFresh makes of the bundle in dist-new. *)
LEMMA FreshMoved ==
  ASSUME TypeInv, pc = "extract", MoveToFresh
  PROVE  fresh' \in Bundle /\ fresh' # None
<1>1. CASE fresh = None
  <2>1. build \in Builds /\ BuiltAt[build] \in 0 .. Epoch + MaxDeploys
    BY FrontendConstants DEF TypeInv
  <2>2. fresh' = [build |-> build, nested |-> FALSE, owned |-> FALSE, url |-> "empty",
                  time |-> BuiltAt[build]]
    BY <1>1 DEF MoveToFresh
  <2>3. fresh' \in Bundle
    BY <2>1, <2>2 DEF Bundle, Urls
  <2> QED
    BY <2>3, NoneIsNoBundle
<1>2. CASE fresh # None
  <2>1. fresh \in Bundle /\ Now \in 0 .. Epoch + MaxDeploys
    BY <1>2, FrontendConstants DEF TypeInv, TypeOK, Now
  <2>2. fresh' = [fresh EXCEPT !.nested = TRUE, !.owned = FALSE, !.time = Now]
    BY <1>2 DEF MoveToFresh
  <2>3. fresh' \in Bundle
    BY <2>1, <2>2 DEF Bundle
  <2> QED
    BY <2>3, NoneIsNoBundle
<1> QED
  BY <1>1, <1>2

(* What a swap, cut off or not, makes of the directories. *)
LEMMA MovedIn ==
  ASSUME TypeInv, pc = "swap", NEW steps \in 0 .. 2, MoveIn(steps), live # None \/ steps = 0
  PROVE  /\ {live', fresh'} \subseteq Bundle \cup {None} /\ baks' \subseteq Aside
         /\ steps > 0 => Previous \in Aside /\ baks' = baks \cup {Previous}
         /\ steps = 0 => UNCHANGED <<live, fresh, baks>>
         /\ steps = 1 => live' = None /\ UNCHANGED fresh
         /\ steps = 2 => live' = fresh /\ live' \in Bundle /\ live' # None /\ fresh' = None
<1>1. live # None => Previous \in Aside
  BY FrontendConstants DEF TypeInv, TypeOK, Previous, Aside
<1> QED
  BY <1>1, NoneIsNoBundle DEF TypeInv, TypeOK, MoveIn

(* What a revert, cut off or not, makes of the directories. *)
LEMMA MovedBack ==
  ASSUME TypeInv, StartInv, pc = "revert", NEW steps \in 0 .. 2, MoveBack(steps)
  PROVE  \E mine \in baks :
           /\ mine.stamp = started /\ mine.dir = atStart
           /\ live' \in {live, None, atStart} /\ (steps = 2 => live' = atStart)
           /\ baks' \subseteq baks
           /\ \/ baks' = baks /\ live' \in {live, None}
              \/ baks' = baks \ {mine} /\ live' = atStart
           /\ faileds' \subseteq Aside
<1> DEFINE mine == CHOOSE a \in baks : a.stamp = started
<1>1. mine \in baks /\ mine.stamp = started
  BY DEF TypeInv, TypeOK
<1>2. Previous \in Aside
  BY FrontendConstants DEF TypeInv, TypeOK, Previous, Aside
<1> HIDE DEF mine
<1>3. mine.dir = atStart
  BY <1>1 DEF StartInv, After
<1>4. /\ faileds' = IF steps > 0 THEN faileds \cup {Previous} ELSE faileds
      /\ live' = CASE steps = 0 -> live [] steps = 1 -> None [] OTHER -> mine.dir
      /\ baks' = IF steps = 2 THEN baks \ {mine} ELSE baks
  BY DEF MoveBack, mine
<1> QED
  BY <1>1, <1>2, <1>3, <1>4 DEF TypeInv, TypeOK

-----------------------------------------------------------------------------
LEMMA TypeInit == Init => TypeInv
<1> SUFFICES ASSUME Init PROVE TypeInv
  OBVIOUS
<1>1. live \in Bundle \cup {None}
  <2>1. ASSUME NEW b \in Builds, NEW u \in Accepted
        PROVE  [build |-> b, nested |-> FALSE, owned |-> TRUE, url |-> u,
                time |-> BuiltAt[b]] \in Bundle
    <3>1. BuiltAt[b] \in 0 .. Epoch + MaxDeploys
      BY FrontendConstants
    <3> QED
      BY <3>1 DEF Bundle, Urls, Accepted
  <2> QED
    BY <2>1 DEF Init
<1>2. archives \in Seq([build : Builds, whole : BOOLEAN]) /\ started \in 0 .. MaxDeploys
  BY FrontendConstants DEF Init
<1> QED
  BY <1>1, <1>2 DEF Init, TypeInv, TypeOK

(* Every step keeps the types. *)
LEMMA TypeStep == TypeInv /\ StartInv /\ [Next]_vars => TypeInv'
<1> SUFFICES ASSUME TypeInv, StartInv, [Next]_vars PROVE TypeInv'
  OBVIOUS
<1> USE DEF TypeInv, TypeOK
<1>1. ASSUME NEW b \in Builds, Deploy(b) PROVE TypeInv'
  <2>1. started' \in 0 .. MaxDeploys /\ started' > 0
    BY <1>1, FrontendConstants DEF Deploy
  <2> QED
    BY <1>1, <2>1 DEF Deploy, kept, Stages
<1>2. CASE Archive
  <2>1. archives' \in Seq([build : Builds, whole : BOOLEAN])
    BY <1>2, ArchivedType DEF Archive
  <2> QED
    BY <1>2, <2>1 DEF Archive, Go, GiveUp, request, Stages
<1>3. CASE Extract
  <2>1. fresh' \in Bundle \cup {None} /\ (pc' = "own" => fresh' # None)
    BY <1>3, FreshMoved DEF Extract, GiveUp
  <2> QED
    BY <1>3, <2>1 DEF Extract, Go, GiveUp, kept, request, Stages
<1>4. CASE Own
  <2>1. fresh' \in Bundle /\ fresh' # None
    <3>1. fresh \in Bundle
      BY <1>4 DEF Own
    <3>2. fresh' \in Bundle
      BY <1>4, <3>1 DEF Own, Bundle
    <3> QED
      BY <3>2, NoneIsNoBundle
  <2> QED
    BY <1>4, <2>1 DEF Own, Go, GiveUp, kept, request, Stages
<1>5. CASE Configure
  <2>1. fresh' \in Bundle /\ fresh' # None
    <3>1. fresh \in Bundle /\ Now \in 0 .. Epoch + MaxDeploys
      BY <1>5, FrontendConstants DEF Configure, Now
    <3>2. fresh' = fresh \/ \E url \in Urls : WriteConfig(url)
      BY <1>5 DEF Configure, Urls, Accepted
    <3>3. ASSUME NEW url \in Urls, WriteConfig(url) PROVE fresh' \in Bundle
      BY <3>1, <3>3 DEF WriteConfig, Bundle
    <3> QED
      BY <3>1, <3>2, <3>3, NoneIsNoBundle
  <2> QED
    BY <1>5, <2>1 DEF Configure, Go, GiveUp, kept, request, Stages
<1>6. CASE Relabel
  BY <1>6 DEF Relabel, Go, GiveUp, kept, request, Stages
<1>7. CASE Swap
  <2>1. PICK steps \in 0 .. 2 : /\ MoveIn(steps) /\ (live # None \/ steps = 0)
                                /\ (Go("verify") /\ steps = 2) \/ GiveUp
    BY <1>7 DEF Swap
  <2>2. pc = "swap" /\ UNCHANGED <<faileds, archives, request, verified>>
    BY <1>7 DEF Swap
  <2>3. {live', fresh'} \subseteq Bundle \cup {None} /\ baks' \subseteq Aside
    BY <2>1, <2>2, MovedIn
  <2>4. pc' = "verify" => live' # None /\ Previous \in baks'
    BY <2>1, <2>2, MovedIn DEF GiveUp
  <2> QED
    BY <2>1, <2>2, <2>3, <2>4 DEF Go, GiveUp, request, Stages, Previous
<1>8. CASE Verify
  BY <1>8 DEF Verify, Go, GiveUp, kept, request, Stages
<1>9. CASE Revert
  <2>1. PICK steps \in 0 .. 2 : MoveBack(steps) /\ (Reverted \/ GiveUp)
    BY <1>9 DEF Revert
  <2>2. pc = "revert" /\ UNCHANGED <<fresh, archives, request, verified>>
    BY <1>9 DEF Revert
  <2>3. live' \in Bundle \cup {None} /\ baks' \subseteq Aside /\ faileds' \subseteq Aside
    BY <2>1, <2>2, MovedBack
  <2> QED
    BY <2>1, <2>2, <2>3 DEF Reverted, GiveUp, request, Stages
<1>10. CASE Retain
  <2>1. archives' \in Seq([build : Builds, whole : BOOLEAN])
    BY <1>10, RetainArchives
  <2>2. baks' \subseteq Aside /\ faileds' \subseteq Aside
    BY <1>10 DEF Retain
  <2> QED
    BY <1>10, <2>1, <2>2 DEF Retain, GiveUp, request, Stages
<1>11. CASE UNCHANGED vars
  BY <1>11 DEF vars, kept
<1> QED
  BY <1>1, <1>2, <1>3, <1>4, <1>5, <1>6, <1>7, <1>8, <1>9, <1>10, <1>11 DEF Next

(* Every step keeps what is known of the bundle that the deployment found. *)
LEMMA StartStep == TypeInv /\ StartInv /\ [Next]_vars => StartInv'
<1> SUFFICES ASSUME TypeInv, StartInv, [Next]_vars PROVE StartInv'
  OBVIOUS
<1> USE DEF StartInv, Before, After, RevertMeansRestored
<1>1. ASSUME NEW b \in Builds, Deploy(b) PROVE StartInv'
  BY <1>1 DEF Deploy, kept, TypeInv, TypeOK, Aside
<1>2. CASE Archive \/ Extract \/ Own \/ Configure \/ Relabel \/ Verify
  <2>1. UNCHANGED <<baks, live, atStart, started>>
    BY <1>2 DEF Archive, Extract, Own, Configure, Relabel, Verify, kept, request
  <2>2. outcome' # "reverted"
    BY <1>2 DEF Archive, Extract, Own, Configure, Relabel, Verify, Go, GiveUp, TypeInv
  <2>3. /\ pc \in Before => pc' \in Before \cup {"idle"}
        /\ pc \in After => pc' \in After \cup {"idle"}
        /\ pc \in Before \cup After
    BY <1>2 DEF Archive, Extract, Own, Configure, Relabel, Verify, Go, GiveUp
  <2> QED
    BY <2>1, <2>2, <2>3
<1>3. CASE Swap
  <2>1. PICK steps \in 0 .. 2 : MoveIn(steps) /\ (live # None \/ steps = 0)
    BY <1>3 DEF Swap
  <2>2. /\ pc = "swap" /\ UNCHANGED <<atStart, started>> /\ pc' \in {"verify", "idle"}
        /\ outcome' # "reverted"
    BY <1>3 DEF Swap, Go, GiveUp, request, TypeInv
  <2>3. baks' = baks \/ baks' = baks \cup {Previous}
    BY <2>1, <2>2, MovedIn
  <2>4. Previous.stamp = started /\ Previous.dir = atStart
    BY <2>2 DEF Previous
  <2> QED
    BY <2>2, <2>3, <2>4 DEF TypeInv, TypeOK, Aside
<1>4. CASE Revert
  <2>1. PICK steps \in 0 .. 2 : MoveBack(steps) /\ ((Reverted /\ steps = 2) \/ GiveUp)
    BY <1>4 DEF Revert
  <2>2. pc = "revert" /\ UNCHANGED <<atStart, started>>
    BY <1>4 DEF Revert, request
  <2>3. baks' \subseteq baks /\ (steps = 2 => live' = atStart)
    BY <2>1, <2>2, MovedBack
  <2> QED
    BY <2>1, <2>2, <2>3 DEF Reverted, GiveUp
<1>5. CASE Retain
  BY <1>5 DEF Retain, GiveUp, request
<1>6. CASE UNCHANGED vars
  BY <1>6 DEF vars
<1> QED
  BY <1>1, <1>2, <1>3, <1>4, <1>5, <1>6 DEF Next

(* Every step keeps what is known of how far bundles are prepared. *)
LEMMA ReadyStep == TypeInv /\ StartInv /\ ReadyInv /\ [Next]_vars => ReadyInv'
<1> SUFFICES ASSUME TypeInv, StartInv, ReadyInv, [Next]_vars PROVE ReadyInv'
  OBVIOUS
<1> USE DEF ReadyInv, LivePrepared
<1>1. ASSUME NEW b \in Builds, Deploy(b) PROVE ReadyInv'
  BY <1>1 DEF Deploy, kept
<1>2. CASE Archive \/ Extract \/ Relabel \/ Verify
  <2>1. UNCHANGED <<live, baks>>
    BY <1>2 DEF Archive, Extract, Relabel, Verify, kept
  <2>2. pc' \notin {"configure", "relabel"} /\ (pc' = "swap" => pc = "relabel" /\ UNCHANGED fresh)
    BY <1>2 DEF Archive, Extract, Relabel, Verify, Go, GiveUp
  <2> QED
    BY <2>1, <2>2
<1>3. CASE Own
  <2>1. UNCHANGED <<live, baks>> /\ pc' \in {"configure", "idle"}
    BY <1>3 DEF Own, Go, GiveUp, kept
  <2>2. pc' = "configure" => fresh'.owned
    <3>1. fresh \in Bundle
      BY <1>3 DEF Own, TypeInv, TypeOK
    <3> QED
      BY <1>3, <3>1 DEF Own, GiveUp, Bundle
  <2> QED
    BY <2>1, <2>2
<1>4. CASE Configure
  <2>1. UNCHANGED <<live, baks>> /\ pc' \in {"relabel", "idle"}
    BY <1>4 DEF Configure, Go, GiveUp, kept
  <2>2. pc' = "relabel" => Prepared(fresh')
    <3>1. fresh \in Bundle /\ fresh.owned
      BY <1>4 DEF Configure, TypeInv, TypeOK
    <3>2. pc' = "relabel" => \E url \in Accepted : WriteConfig(url)
      BY <1>4 DEF Configure, GiveUp
    <3>3. ASSUME NEW url \in Accepted, WriteConfig(url) PROVE Prepared(fresh')
      BY <3>1, <3>3 DEF WriteConfig, Bundle, Prepared
    <3> QED
      BY <3>2, <3>3
  <2> QED
    BY <2>1, <2>2
<1>5. CASE Swap
  <2>1. PICK steps \in 0 .. 2 : MoveIn(steps) /\ (live # None \/ steps = 0)
    BY <1>5 DEF Swap
  <2>2. pc = "swap" /\ pc' \in {"verify", "idle"}
    BY <1>5 DEF Swap, Go, GiveUp
  <2>3. live' \in {live, None, fresh}
    BY <2>1, <2>2, MovedIn
  <2>4. baks' = baks \/ (live # None /\ baks' = baks \cup {Previous})
    BY <2>1, <2>2, MovedIn
  <2>5. live # None => Prepared(Previous.dir)
    BY DEF Previous
  <2> QED
    BY <2>2, <2>3, <2>4, <2>5
<1>6. CASE Revert
  <2>1. PICK steps \in 0 .. 2 : MoveBack(steps)
    BY <1>6 DEF Revert
  <2>2. pc = "revert" /\ pc' = "idle"
    BY <1>6 DEF Revert, Reverted, GiveUp
  <2>3. PICK mine \in baks : /\ mine.dir = atStart /\ live' \in {live, None, atStart}
                             /\ baks' \subseteq baks
    BY <2>1, <2>2, MovedBack
  <2> QED
    BY <2>2, <2>3
<1>7. CASE Retain
  BY <1>7 DEF Retain, GiveUp
<1>8. CASE UNCHANGED vars
  BY <1>8 DEF vars, kept
<1> QED
  BY <1>1, <1>2, <1>3, <1>4, <1>5, <1>6, <1>7, <1>8 DEF Next

(* Every step keeps the last verified bundle. *)
LEMMA KeptStep ==
  TypeInv /\ StartInv /\ KeptInv /\ (pc = "retain" => live = verified) /\ [Next]_vars => KeptInv'
<1> SUFFICES ASSUME TypeInv, StartInv, KeptInv, pc = "retain" => live = verified, [Next]_vars
             PROVE  KeptInv'
  OBVIOUS
<1> USE DEF KeptInv, LastVerifiedKept
<1>1. ASSUME NEW b \in Builds, Deploy(b) PROVE KeptInv'
  BY <1>1 DEF Deploy, kept
<1>2. CASE Archive \/ Extract \/ Own \/ Configure \/ Relabel
  <2>1. UNCHANGED <<live, baks, verified>> /\ pc' \notin {"verify", "revert"}
    BY <1>2 DEF Archive, Extract, Own, Configure, Relabel, Go, GiveUp, kept
  <2> QED
    BY <2>1
<1>3. CASE Swap
  <2>1. PICK steps \in 0 .. 2 : /\ MoveIn(steps) /\ (live # None \/ steps = 0)
                                /\ (Go("verify") /\ steps = 2) \/ GiveUp
    BY <1>3 DEF Swap
  <2>2. pc = "swap" /\ UNCHANGED verified
    BY <1>3 DEF Swap
  <2>3. /\ steps > 0 => baks' = baks \cup {Previous}
        /\ steps = 0 => UNCHANGED <<live, baks>>
    BY <2>1, <2>2, MovedIn
  <2>4. Previous.dir = live
    BY DEF Previous
  <2> QED
    BY <2>1, <2>2, <2>3, <2>4 DEF Go, GiveUp
<1>4. CASE Verify
  BY <1>4 DEF Verify, Go, GiveUp, kept
<1>5. CASE Revert
  <2>1. PICK steps \in 0 .. 2 : MoveBack(steps)
    BY <1>5 DEF Revert
  <2>2. pc = "revert" /\ pc' = "idle" /\ UNCHANGED verified
    BY <1>5 DEF Revert, Reverted, GiveUp
  <2>3. PICK mine \in baks : /\ mine.dir = atStart
                             /\ baks' = baks \/ (live' = atStart /\ baks' = baks \ {mine})
    BY <2>1, <2>2, MovedBack
  <2> QED
    BY <2>2, <2>3
<1>6. CASE Retain
  BY <1>6 DEF Retain, GiveUp
<1>7. CASE UNCHANGED vars
  BY <1>7 DEF vars, kept
<1> QED
  BY <1>1, <1>2, <1>3, <1>4, <1>5, <1>6, <1>7 DEF Next

(* Every step keeps what is known of what was archived and unpacked. *)
LEMMA SuccessStep == TypeInv /\ StartInv /\ SuccessInv /\ [Next]_vars => SuccessInv'
<1> SUFFICES ASSUME TypeInv, StartInv, SuccessInv, [Next]_vars PROVE SuccessInv'
  OBVIOUS
<1> DEFINE ArchivedFirst == Len(archives) > 0 /\ archives[1] = [build |-> build, whole |-> TRUE]
<1> USE DEF SuccessInv, SuccessIsVerified, Before, After
<1>1. ASSUME NEW b \in Builds, Deploy(b) PROVE SuccessInv'
  BY <1>1 DEF Deploy, kept
<1>2. CASE Archive
  <2>1. pc' = "extract" => ArchivedFirst'
    BY <1>2, ArchivedType DEF Archive, GiveUp, request, TypeInv, TypeOK
  <2>2. /\ pc = "archive" /\ pc' \in {"extract", "idle"} /\ outcome' # "ok"
        /\ UNCHANGED <<live, fresh, clean, verified>>
    BY <1>2 DEF Archive, Go, GiveUp, request, TypeInv
  <2> HIDE DEF ArchivedFirst
  <2> QED
    BY <2>1, <2>2 DEF ArchivedFirst
<1>3. CASE Extract
  <2>1. /\ pc = "extract" /\ pc' \in {"own", "idle"} /\ outcome' # "ok"
        /\ UNCHANGED <<live, archives, build, clean, verified>>
    BY <1>3 DEF Extract, Go, GiveUp, kept, request, TypeInv
  <2>2. pc' = "own" /\ clean => fresh'.build = build
    BY <1>3 DEF Extract, GiveUp, MoveToFresh
  <2> QED
    BY <2>1, <2>2
<1>4. CASE Own \/ Configure \/ Relabel
  <2>1. /\ pc \in {"own", "configure", "relabel"} /\ pc' \in {"configure", "relabel", "swap", "idle"}
        /\ outcome' # "ok" /\ UNCHANGED <<live, archives, build, clean, verified>>
    BY <1>4 DEF Own, Configure, Relabel, Go, GiveUp, kept, request, TypeInv
  <2>2. fresh'.build = fresh.build
    <3>1. fresh \in Bundle
      BY <1>4 DEF Own, Configure, Relabel, TypeInv, TypeOK
    <3> QED
      BY <1>4, <3>1 DEF Own, Configure, Relabel, WriteConfig, Bundle
  <2> QED
    BY <2>1, <2>2
<1>5. CASE Swap
  <2>1. /\ pc = "swap" /\ pc' \in {"verify", "idle"} /\ outcome' # "ok"
        /\ UNCHANGED <<archives, build, clean, verified>>
    BY <1>5 DEF Swap, Go, GiveUp, request, TypeInv
  <2>2. pc' = "verify" => live' = fresh
    BY <1>5 DEF Swap, GiveUp, MoveIn
  <2> QED
    BY <2>1, <2>2
<1>6. CASE Verify
  <2>1. /\ pc = "verify" /\ pc' \in {"retain", "revert", "idle"} /\ outcome' # "ok"
        /\ UNCHANGED <<live, archives, build, clean>>
        /\ pc' = "retain" => verified' = live
    BY <1>6 DEF Verify, Go, GiveUp, kept, request, TypeInv
  <2> QED
    BY <2>1
<1>7. CASE Revert
  BY <1>7 DEF Revert, Reverted, GiveUp
<1>8. CASE Retain
  <2>1. ArchivedFirst'
    <3>1. Len(archives) > 0 => Len(archives') > 0 /\ archives'[1] = archives[1]
      BY <1>8, RetainArchives
    <3> QED
      BY <1>8, <3>1 DEF Retain, request
  <2>2. \E i \in 1 .. Len(archives') : archives'[i] = [build |-> build', whole |-> TRUE]
    <3>1. 1 \in 1 .. Len(archives')
      BY <1>8, <2>1, RetainArchives
    <3> QED
      BY <2>1, <3>1
  <2>3. /\ pc = "retain" /\ pc' = "idle" /\ UNCHANGED <<live, build, clean, verified>>
    BY <1>8 DEF Retain, GiveUp, request
  <2> HIDE DEF ArchivedFirst
  <2> QED
    BY <2>2, <2>3
<1>9. CASE UNCHANGED vars
  BY <1>9 DEF vars, kept, request
<1> QED
  BY <1>1, <1>2, <1>3, <1>4, <1>5, <1>6, <1>7, <1>8, <1>9 DEF Next

(* The newest of the bundles pushed aside is not pruned. *)
LEMMA NewestKept ==
  ASSUME NEW asides, NEW a \in asides, \A b \in asides : ~Newer(b, a)
  PROVE  a \notin Excess(asides)
<1>1. {b \in asides : Newer(b, a)} = {}
  OBVIOUS
<1>2. Cardinality({b \in asides : Newer(b, a)}) = 0
  BY <1>1, FS_EmptySet
<1> QED
  BY <1>2, KeepFacts DEF Excess

(* Where write-ui-config renews the directory, every step keeps the order of *)
(* the mtimes, and with it the bundle that the deployment found.             *)
LEMMA TimeStep ==
  ASSUME TouchesDir
  PROVE  TypeInv /\ StartInv /\ TimeInv /\ [Next]_vars => TimeInv'
<1> SUFFICES ASSUME TypeInv, StartInv, TimeInv, [Next]_vars PROVE TimeInv'
  OBVIOUS
<1> USE DEF TimeInv, PreviousInPlace, Before, After
<1>0. /\ Epoch \in Nat /\ started \in Nat /\ Now \in Nat
      /\ live # None => live.time \in Nat
      /\ \A a \in baks : a.dir.time \in Nat /\ a.stamp \in Nat
      /\ pc # "idle" => started > 0
  BY FrontendConstants DEF TypeInv, TypeOK, Bundle, Aside, Now
<1>1. ASSUME NEW b \in Builds, Deploy(b) PROVE TimeInv'
  <2>1. Now' = Now + 1
    BY <1>0, <1>1 DEF Deploy, Now
  <2>2. /\ pc = "idle" /\ pc' = "archive" /\ atStart' = live /\ UNCHANGED <<live, baks>>
    BY <1>1 DEF Deploy, kept
  <2> QED
    BY <1>0, <2>1, <2>2
<1>2. CASE Archive \/ Extract \/ Own \/ Relabel
  <2>1. /\ UNCHANGED <<live, baks, atStart, started>> /\ pc \in Before /\ pc' \in Before \cup {"idle"}
        /\ pc' = "swap" => pc = "relabel" /\ UNCHANGED fresh
        /\ pc' # "relabel"
    BY <1>2 DEF Archive, Extract, Own, Relabel, Go, GiveUp, kept, request
  <2> QED
    BY <2>1 DEF Now
<1>3. CASE Configure
  <2>1. /\ UNCHANGED <<live, baks, atStart, started>> /\ pc = "configure"
        /\ pc' \in {"relabel", "idle"}
    BY <1>3 DEF Configure, Go, GiveUp, kept, request
  <2>2. pc' = "relabel" => fresh'.time = Now
    <3>1. fresh \in Bundle
      BY <1>3 DEF Configure, TypeInv, TypeOK
    <3> QED
      BY <1>3, <3>1 DEF Configure, GiveUp, WriteConfig, Bundle
  <2> QED
    BY <2>1, <2>2 DEF Now
<1>4. CASE Swap
  <2>1. PICK steps \in 0 .. 2 : /\ MoveIn(steps) /\ (live # None \/ steps = 0)
                                /\ (Go("verify") /\ steps = 2) \/ GiveUp
    BY <1>4 DEF Swap
  <2>2. /\ pc = "swap" /\ UNCHANGED <<atStart, started>> /\ pc' \in {"verify", "idle"}
        /\ live = atStart
    BY <1>4 DEF Swap, Go, GiveUp, request, StartInv
  <2>3. /\ steps > 0 => baks' = baks \cup {Previous} /\ live # None
        /\ steps = 0 => UNCHANGED <<live, fresh, baks>> /\ pc' = "idle"
        /\ steps = 1 => live' = None /\ pc' = "idle"
        /\ steps = 2 => live' = fresh
    BY <2>1, <2>2, MovedIn DEF GiveUp, Go
  <2>4. Previous.stamp = started /\ Previous.dir = live
    BY DEF Previous
  <2>5. steps = 2 => \A a \in baks' : a.dir.time < live'.time
    BY <1>0, <2>2, <2>3, <2>4
  <2> QED
    BY <1>0, <2>2, <2>3, <2>4, <2>5 DEF Now
<1>5. CASE Verify
  <2>1. /\ UNCHANGED <<live, baks, atStart, started>> /\ pc = "verify"
        /\ pc' \in {"retain", "revert", "idle"}
    BY <1>5 DEF Verify, Go, GiveUp, kept, request
  <2>2. \A a \in baks : a.dir.time < live.time
    BY <1>0, <2>1 DEF StartInv
  <2> QED
    BY <1>0, <2>1, <2>2 DEF Now
<1>6. CASE Revert
  <2>1. PICK steps \in 0 .. 2 : MoveBack(steps)
    BY <1>6 DEF Revert
  <2>2. pc = "revert" /\ pc' = "idle" /\ UNCHANGED <<atStart, started>>
    BY <1>6 DEF Revert, Reverted, GiveUp, request
  <2>3. PICK mine \in baks : /\ mine.stamp = started /\ mine.dir = atStart
                             /\ \/ baks' = baks /\ live' \in {live, None}
                                \/ baks' = baks \ {mine} /\ live' = atStart
    BY <2>1, <2>2, MovedBack
  <2>4. \A a \in baks : a.dir.time < live.time
    BY <1>0, <2>2 DEF StartInv
  <2>5. CASE baks' = baks /\ live' \in {live, None}
    <3>1. live # None /\ live.time = Now /\ Now' = Now
      BY <2>2 DEF TypeInv, TypeOK, Now
    <3> QED
      BY <1>0, <2>2, <2>3, <2>4, <2>5, <3>1
  <2>6. CASE baks' = baks \ {mine} /\ live' = atStart
    <3>1. \A a \in baks' : a.dir.time < live'.time
      <4> SUFFICES ASSUME NEW a \in baks' PROVE a.dir.time < live'.time
        OBVIOUS
      <4>1. a \in baks /\ a # mine /\ mine \in Aside /\ a \in Aside
        BY <2>3, <2>6 DEF TypeInv, TypeOK
      <4>2. a.stamp # started
        <5>1. a.stamp = started => a.dir = atStart
          BY <2>2, <4>1 DEF StartInv
        <5> QED
          BY <2>3, <4>1, <5>1 DEF Aside
      <4> QED
        BY <2>2, <2>6, <4>1, <4>2
    <3>2. /\ atStart # None /\ atStart.time \in Nat /\ atStart.time < Now /\ Now' = Now
      BY <1>0, <2>2, <2>3 DEF Now
    <3> QED
      BY <1>0, <2>2, <2>6, <3>1, <3>2
  <2> QED
    BY <2>3, <2>5, <2>6
<1>7. CASE Retain
  <2>1. /\ pc = "retain" /\ pc' = "idle" /\ UNCHANGED <<live, atStart, started>> /\ baks' \subseteq baks
    BY <1>7 DEF Retain, GiveUp, request
  <2>2. PICK a \in baks : a.stamp = started /\ a.dir = atStart
    BY <2>1 DEF TypeInv, TypeOK, StartInv
  <2>3. \A b \in baks : ~Newer(b, a)
    BY <1>0, <2>1, <2>2 DEF Newer, StartInv
  <2>4. a \in baks'
    BY <1>7, <2>3, NewestKept DEF Retain
  <2>5. \A b \in baks : b.dir.time < live.time
    BY <1>0, <2>1 DEF StartInv
  <2> QED
    BY <1>0, <2>1, <2>2, <2>4, <2>5 DEF Now
<1>8. CASE UNCHANGED vars
  BY <1>8 DEF vars, kept, request, Now
<1> QED
  BY <1>1, <1>2, <1>3, <1>4, <1>5, <1>6, <1>7, <1>8 DEF Next

-----------------------------------------------------------------------------
LEMMA StartInit == Init => StartInv /\ ReadyInv /\ SuccessInv /\ KeptInv
BY DEF Init, StartInv, ReadyInv, SuccessInv, KeptInv, Before, After, RevertMeansRestored,
       LivePrepared, Prepared, SuccessIsVerified, LastVerifiedKept

LEMMA TimeInit == Init => TimeInv
<1> SUFFICES ASSUME Init PROVE TimeInv
  OBVIOUS
<1>1. live # None => live.time <= Now
  <2>1. \A b \in Builds : BuiltAt[b] \in 0 .. Epoch
    BY FrontendConstants
  <2> QED
    BY <2>1, FrontendConstants DEF Init, Now
<1> QED
  BY <1>1 DEF Init, TimeInv, After, PreviousInPlace

(* The types, and what a deployment found, throughout. *)
LEMMA Basics == Spec => [](TypeInv /\ StartInv)
<1>1. Init => TypeInv /\ StartInv
  BY TypeInit, StartInit
<1>2. TypeInv /\ StartInv /\ [Next]_vars => TypeInv' /\ StartInv'
  BY TypeStep, StartStep
<1> QED
  BY <1>1, <1>2, PTL DEF Spec

LEMMA SuccessInvariant == Spec => []SuccessInv
<1>1. Init => SuccessInv
  BY StartInit
<1> QED
  BY <1>1, Basics, SuccessStep, PTL DEF Spec

(* The web root, the archives and the deployment keep their types, and a     *)
(* deployment past the swap has a bundle in dist and a dist.bak of its own.  *)
THEOREM FrontendTypeCorrect == Spec => []TypeOK
<1>1. TypeInv => TypeOK
  BY DEF TypeInv
<1> QED
  BY <1>1, Basics, PTL

(* The bundle in dist has its owner and no API_URL that _assert_api_url      *)
(* knows to be empty, through any number of failed, cut off and resumed      *)
(* deployments.                                                              *)
THEOREM LivePreparedCorrect == Spec => []LivePrepared
<1>1. Init => ReadyInv
  BY StartInit
<1>2. ReadyInv => LivePrepared
  BY DEF ReadyInv
<1> QED
  BY <1>1, <1>2, Basics, ReadyStep, PTL DEF Spec

(* When deploy() says that the previous bundle was restored, it was. *)
THEOREM RevertCorrect == Spec => []RevertMeansRestored
<1>1. StartInv => RevertMeansRestored
  BY DEF StartInv
<1> QED
  BY <1>1, Basics, PTL

(* A success serves what _verify saw, is archived, and is the build asked    *)
(* for when no earlier attempt left a dist-new behind.                       *)
THEOREM SuccessIsVerifiedCorrect == Spec => []SuccessIsVerified
<1>1. SuccessInv => SuccessIsVerified
  BY DEF SuccessInv
<1> QED
  BY <1>1, SuccessInvariant, PTL

(* A bundle that was seen to work stays on the server until another one is,  *)
(* whatever the mtimes by which _prune goes.                                 *)
THEOREM LastVerifiedKeptCorrect == Spec => []LastVerifiedKept
<1>1. Init => KeptInv
  BY StartInit
<1>2. SuccessInv => (pc = "retain" => live = verified)
  BY DEF SuccessInv
<1>3. KeptInv => LastVerifiedKept
  BY DEF KeptInv
<1> QED
  BY <1>1, <1>2, <1>3, Basics, SuccessInvariant, KeptStep, PTL DEF Spec

(* Where write-ui-config renews the directory's mtime, the bundle that a     *)
(* deployment found is in dist or in a dist.bak until the next one begins.   *)
THEOREM PreviousInPlaceCorrect == ASSUME TouchesDir PROVE Spec => []PreviousInPlace
<1>1. TypeInv /\ StartInv /\ TimeInv /\ [Next]_vars => TimeInv'
  BY TimeStep
<1>2. TimeInv => PreviousInPlace
  BY DEF TimeInv
<1> QED
  BY <1>1, <1>2, TimeInit, Basics, PTL DEF Spec

=============================================================================
