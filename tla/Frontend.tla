------------------------------ MODULE Frontend ------------------------------
(***************************************************************************)
(* FrontendDeployer (aidenops_frontend.py): deployments of the AidenOps UI *)
(* bundle, one after another, and the directories under the web root and   *)
(* the backup root that they move, extend and prune.                       *)
(*                                                                         *)
(* pc names the handler of the stage that runs next; one action is that    *)
(* whole handler.  A remote command may succeed, fail (CommandFailed, which *)
(* becomes a FrontendError), or be cut off: by an SSHError (timeout, lost  *)
(* connection), which is no FrontendError, or by the death of the tool.  A *)
(* command that failed or was cut off has taken effect not at all, up to   *)
(* some point, or in full.                                                 *)
(***************************************************************************)
EXTENDS Integers, FiniteSets, Sequences

CONSTANTS
  Builds,          \* UI builds; a build's tarball is named by the build
  BuiltAt,         \* the mtime of dist/ recorded in a build's tarball
  Epoch,           \* the time of the first deployment, after every build
  TouchesDir,      \* write-ui-config renews the mtime of the directory it writes in
  KeepDist, KeepArchives, \* aidenops_keep_previous_dist, aidenops_keep_archives
  MaxDeploys,      \* bound
  None

ASSUME FrontendConstants ==
  /\ Epoch \in Nat
  /\ BuiltAt \in [Builds -> 0 .. Epoch]
  /\ TouchesDir \in BOOLEAN
  /\ {KeepDist, KeepArchives} \subseteq Int
  /\ MaxDeploys \in Nat
  /\ None \notin Builds

VARIABLES
  \* <web>/dist, dist-new, dist.bak-*, dist.failed-*
  live, fresh, baks, faileds,
  archives,        \* <backup root>/ui/*.tar.gz, newest first
  \* the deployment in flight, or the last one: its tarball, its stamp, its answer
  pc, build, started, outcome,
  \* history: what it found in dist, whether dist-new was absent then, and the
  \* last bundle that passed _verify
  atStart, clean, verified

vars == <<live, fresh, baks, faileds, archives, pc, build, started, outcome,
          atStart, clean, verified>>
kept    == <<baks, faileds, archives>>
request == <<build, started, atStart, clean>>

(* The API_URL in a bundle's runtime-config.js.  "empty" is `API_URL: ""`, as *)
(* it is shipped; "disguised" is as empty, in a shape that _API_URL_VALUE     *)
(* does not know: a quoted key, null.                                        *)
Urls == {"set", "disguised", "empty", "missing"}

(* What _assert_api_url lets through. *)
Accepted == {"set", "disguised"}

(* An unpacked bundle.  nested: another dist/ was moved into it; owned: _own *)
(* has dealt with all of it.                                                 *)
Bundle == [build : Builds, nested : BOOLEAN, owned : BOOLEAN, url : Urls,
           time : 0 .. Epoch + MaxDeploys]
Prepared(bundle) == bundle.owned /\ bundle.url \in Accepted
ASSUME NoneIsNoBundle == None \notin Bundle

(* dist.bak-<stamp> and dist.failed-<stamp>. *)
Aside == [stamp : 1 .. MaxDeploys, dir : Bundle]
Stages == {"archive", "extract", "own", "configure", "relabel", "swap", "verify",
           "revert", "retain"}
Now == Epoch + started

Init ==
  /\ live \in {None} \cup {[build |-> b, nested |-> FALSE, owned |-> TRUE, url |-> u,
                            time |-> BuiltAt[b]] : b \in Builds, u \in Accepted}
  /\ fresh = None /\ baks = {} /\ faileds = {} /\ archives = <<>>
  /\ pc = "idle" /\ build = None /\ started = 0 /\ outcome = "none"
  /\ atStart = live /\ clean = TRUE /\ verified = live

-----------------------------------------------------------------------------
Go(next) == pc' = next /\ UNCHANGED outcome

(* deploy() raises without reverting, or the tool dies with it. *)
GiveUp == pc' = "idle" /\ outcome' \in {"failed", "crashed"}

(* POST /api/aidenops/deploy with target "ui", the release staged. *)
Deploy(b) ==
  /\ pc = "idle" /\ started < MaxDeploys
  /\ pc' = "archive" /\ build' = b /\ started' = started + 1 /\ outcome' = "none"
  /\ atStart' = live /\ clean' = (fresh = None)
  /\ UNCHANGED <<live, fresh, kept, verified>>

(* The archives whose name is not that of the build's; a name occurs once. *)
OtherArchives ==
  IF \E i \in 1 .. Len(archives) : archives[i].build = build
  THEN LET i == CHOOSE n \in 1 .. Len(archives) : archives[n].build = build
       IN  SubSeq(archives, 1, i - 1) \o SubSeq(archives, i + 1, Len(archives))
  ELSE archives

(* cp replaces an archive of the same name and makes it the newest. *)
Archived(whole) == <<[build |-> build, whole |-> whole]>> \o OtherArchives

(* Fault: nobody looks at what cp said. *)
ArchiveUnchecked ==
  /\ pc = "archive"
  /\ archives' \in {archives, Archived(FALSE), Archived(TRUE)}
  /\ Go("extract") \/ GiveUp
  /\ UNCHANGED <<live, fresh, baks, faileds, request, verified>>

(* _archive: a tarball cut off half way keeps its name until the next cp. *)
Archive ==
  /\ pc = "archive"
  /\ \/ archives' = Archived(TRUE) /\ Go("extract")
     \/ archives' \in {archives, Archived(FALSE), Archived(TRUE)} /\ GiveUp
  /\ UNCHANGED <<live, fresh, baks, faileds, request, verified>>

(* mv .stage/dist dist-new: a rename, unless dist-new is there already.  Then *)
(* the new bundle goes into the old one, and a second time mv refuses.  mv    *)
(* and tar keep the mtime of the build.                                       *)
MoveToFresh ==
  \/ /\ fresh = None
     /\ fresh' = [build |-> build, nested |-> FALSE, owned |-> FALSE, url |-> "empty",
                  time |-> BuiltAt[build]]
  \/ /\ fresh # None /\ ~fresh.nested
     /\ fresh' = [fresh EXCEPT !.nested = TRUE, !.owned = FALSE, !.time = Now]

(* Fault: nobody looks at what mv said. *)
ExtractUnchecked ==
  /\ pc = "extract"
  /\ \/ UNCHANGED fresh /\ (Go("own") \/ GiveUp)
     \/ MoveToFresh /\ (Go("own") \/ GiveUp)
  /\ UNCHANGED <<live, kept, request, verified>>

(* _extract: rm, mkdir and tar only touch .stage, which the next extraction *)
(* removes; rmdir refuses after the move when the tarball held more.        *)
Extract ==
  /\ pc = "extract"
  /\ \/ UNCHANGED fresh /\ GiveUp
     \/ MoveToFresh /\ (Go("own") \/ GiveUp)
  /\ UNCHANGED <<live, kept, request, verified>>

Own ==
  /\ pc = "own"
  /\ \/ UNCHANGED fresh /\ GiveUp
     \/ /\ fresh' = [fresh EXCEPT !.owned = TRUE]
        /\ Go("configure") \/ GiveUp
  /\ UNCHANGED <<live, kept, request, verified>>

(* aidenops-write-ui-config writes runtime-config.js; it may exit with 0 *)
(* whatever it wrote.                                                    *)
WriteConfig(url) ==
  fresh' = [fresh EXCEPT !.url = url, !.time = IF TouchesDir THEN Now ELSE @]

(* Fault: the file is written and never read back. *)
ConfigureUnasserted ==
  /\ pc = "configure"
  /\ \/ UNCHANGED fresh /\ GiveUp
     \/ \E url \in Urls : WriteConfig(url) /\ (Go("relabel") \/ GiveUp)
  /\ UNCHANGED <<live, kept, request, verified>>

(* _configure, with _assert_api_url: it fails only on what it can positively *)
(* identify as empty, and where there is no API_URL.                         *)
Configure ==
  /\ pc = "configure"
  /\ \/ UNCHANGED fresh /\ GiveUp
     \/ \E url \in Accepted : WriteConfig(url) /\ Go("relabel")
     \/ \E url \in Urls : WriteConfig(url) /\ GiveUp
  /\ UNCHANGED <<live, kept, request, verified>>

(* restorecon, unchecked.  A wrong label shows as an answer of _verify. *)
Relabel ==
  /\ pc = "relabel"
  /\ Go("swap") \/ GiveUp
  /\ UNCHANGED <<live, fresh, kept, request, verified>>

Previous == [stamp |-> started, dir |-> live]

(* mv dist dist.bak-<stamp> && mv dist-new dist, cut off before `steps` of them. *)
MoveIn(steps) ==
  /\ baks' = IF steps > 0 THEN baks \cup {Previous} ELSE baks
  /\ live' = CASE steps = 0 -> live [] steps = 1 -> None [] OTHER -> fresh
  /\ fresh' = IF steps = 2 THEN None ELSE fresh

(* Newest first by mtime, as `ls -t` lists them; ties are listed by name. *)
Newer(a, b) == \/ a.dir.time > b.dir.time
               \/ a.dir.time = b.dir.time /\ a.stamp < b.stamp
AtLeastOne(n) == IF n < 1 THEN 1 ELSE n

(* Fault: `tail -n +$2`. *)
ExcessOffByOne(asides) ==
  {a \in asides : Cardinality({b \in asides : Newer(b, a)}) >= AtLeastOne(KeepDist) - 1}

(* _prune: what follows the first `keep`. *)
Excess(asides) ==
  {a \in asides : Cardinality({b \in asides : Newer(b, a)}) >= AtLeastOne(KeepDist)}

(* Fault: the old bundles are pruned before the new one is verified. *)
SwapThenPrune ==
  /\ pc = "swap"
  /\ \/ /\ live # None /\ Go("verify")
        /\ baks' = (baks \cup {Previous}) \ Excess(baks \cup {Previous})
        /\ live' = fresh /\ fresh' = None
     \/ live # None /\ (\E steps \in 1 .. 2 : MoveIn(steps)) /\ GiveUp
     \/ MoveIn(0) /\ GiveUp
  /\ UNCHANGED <<faileds, archives, request, verified>>

(* _swap: without a dist the first mv fails, and && stops there. *)
Swap ==
  /\ pc = "swap"
  /\ \/ live # None /\ MoveIn(2) /\ Go("verify")
     \/ live # None /\ (\E steps \in 1 .. 2 : MoveIn(steps)) /\ GiveUp
     \/ MoveIn(0) /\ GiveUp
  /\ UNCHANGED <<faileds, archives, request, verified>>

(* _verify: the UI answers 200 and _assert_api_url accepts it once more; or  *)
(* a FrontendError, which deploy() turns into _revert; or an SSHError, which *)
(* it lets through.                                                          *)
Verify ==
  /\ pc = "verify"
  /\ \/ live.url \in Accepted /\ Go("retain") /\ verified' = live
     \/ Go("revert") /\ UNCHANGED verified
     \/ GiveUp /\ UNCHANGED verified
  /\ UNCHANGED <<live, fresh, kept, request>>

(* mv dist dist.failed-<stamp> && mv dist.bak-<stamp> dist. *)
MoveBack(steps) ==
  LET mine == CHOOSE a \in baks : a.stamp = started IN
  /\ faileds' = IF steps > 0 THEN faileds \cup {Previous} ELSE faileds
  /\ live' = CASE steps = 0 -> live [] steps = 1 -> None [] OTHER -> mine.dir
  /\ baks' = IF steps = 2 THEN baks \ {mine} ELSE baks

Reverted == pc' = "idle" /\ outcome' = "reverted"

(* Fault: the moves of the revert are not checked. *)
RevertUnchecked ==
  /\ pc = "revert"
  /\ \E steps \in 0 .. 2 : MoveBack(steps) /\ (Reverted \/ GiveUp)
  /\ UNCHANGED <<fresh, archives, request, verified>>

(* _revert: the second command, restorecon, is unchecked but can be cut off. *)
Revert ==
  /\ pc = "revert"
  /\ \/ MoveBack(2) /\ Reverted
     \/ \E steps \in 0 .. 2 : MoveBack(steps) /\ GiveUp
  /\ UNCHANGED <<fresh, archives, request, verified>>

(* _retain: three prunings, each unchecked, each deleting some or all of the *)
(* excess; the newest of the excess archives go first.                       *)
Retain ==
  LET keep == AtLeastOne(KeepArchives) IN
  /\ pc = "retain"
  /\ \E gone \in SUBSET Excess(baks) : baks' = baks \ gone
  /\ \E gone \in SUBSET Excess(faileds) : faileds' = faileds \ gone
  /\ \/ UNCHANGED archives
     \/ \E last \in keep + 1 .. Len(archives) :
          archives' = SubSeq(archives, 1, keep)
                        \o SubSeq(archives, last + 1, Len(archives))
  /\ \/ pc' = "idle" /\ outcome' = "ok"
     \/ GiveUp
  /\ UNCHANGED <<live, fresh, request, verified>>

Next ==
  \/ \E b \in Builds : Deploy(b)
  \/ Archive \/ Extract \/ Own \/ Configure \/ Relabel
  \/ Swap \/ Verify \/ Revert \/ Retain

Spec == Init /\ [][Next]_vars

-----------------------------------------------------------------------------
TypeOK ==
  /\ {live, fresh, atStart, verified} \subseteq Bundle \cup {None}
  /\ {baks, faileds} \subseteq SUBSET Aside
  /\ archives \in Seq([build : Builds, whole : BOOLEAN])
  /\ pc \in Stages \cup {"idle"}
  /\ build \in Builds \cup {None}
  /\ started \in 0 .. MaxDeploys
  /\ outcome \in {"none", "ok", "failed", "reverted", "crashed"}
  /\ clean \in BOOLEAN
  /\ pc \in {"own", "configure", "relabel", "swap"} => fresh # None
  /\ pc \in {"verify", "revert", "retain"} =>
       live # None /\ \E a \in baks : a.stamp = started

(* The docstring of _configure ("the live dist is never briefly serving an   *)
(* unconfigured bundle"), as far as the code can tell and over any number of *)
(* failed, cut off and resumed deployments: the bundle in dist has its owner *)
(* throughout and an API_URL that is not recognisably empty, also when it    *)
(* was put together from what an earlier attempt left in dist-new.  A        *)
(* disguised empty one may be live: the comment in _assert_api_url wants it  *)
(* let through.                                                              *)
LivePrepared == live # None => Prepared(live)

(* The bundle a deployment found in dist is in dist or in a dist.bak from    *)
(* then on, through every failure, revert and pruning, until the next        *)
(* deployment begins (_archive's docstring: "The immediately-previous dist   *)
(* stays in place as dist.bak-<stamp> for an instant revert").  It rests on  *)
(* TouchesDir: _prune goes by the mtime of the directory.                    *)
PreviousInPlace ==
  atStart # None => atStart \in {live} \cup {a.dir : a \in baks}

(* A bundle that was seen to work is on the server: deployments whose        *)
(* verification was cut off leave an unverified bundle live, and what they   *)
(* pushed aside is not pruned before some bundle has passed (_retain: "Runs  *)
(* only after verification passes").                                         *)
LastVerifiedKept ==
  verified # None => verified \in {live} \cup {a.dir : a \in baks}

(* A deployment that answers with success serves what _verify saw, has the   *)
(* whole tarball archived, and serves the requested build when no earlier    *)
(* attempt left a dist-new behind.                                           *)
SuccessIsVerified ==
  outcome = "ok" =>
    /\ live = verified
    /\ \E i \in 1 .. Len(archives) : archives[i] = [build |-> build, whole |-> TRUE]
    /\ clean => live.build = build

(* "The previous bundle has been restored" (deploy()) is true when said. *)
RevertMeansRestored == outcome = "reverted" => live = atStart

(* What deploy() answers, and AIDENOPS.md:149 ("Retry once you know why"):   *)
(* after a failed attempt, the retry that succeeds serves the new bundle.    *)
SuccessIsNewBundle == outcome = "ok" => live.build = build
=============================================================================
