# A TLA+ model of the MCK deployment tool

The tool (`src/`) is a FastAPI application that runs on an operator's VDI. It
deploys Java services (JAR files) and a second product, AidenOps (a UI bundle
and a Python wheel with a database behind it), to one application server over
one SSH session. This directory models what makes it difficult: long sequences
of remote commands each of which can fail half way, handlers that interleave at
every `await`, and files on the server that outlive the tool, the deployment and
the day they were written on.

Check everything here with

    tlc -workers 2 -config Deployment_single.cfg MCDeployment     # and so on, see "Runs";
                                    # Collect and Migrations have no MC module
    tlapm DeploymentProofs.tla      # and every other module named ...Proofs

## 1. The system

Everything runs on one asyncio loop. A handler runs without interruption from
one `await` that really suspends (a remote command, a transfer, an HTTP request,
a sleep) to the next; `Broadcaster.publish` is a coroutine but never suspends.
Log streams are the only threads. `SSHService._lock` is never taken, so whatever
is not excluded by a check in a handler may interleave.

| Component | State it keeps | Operations | Interacts with |
|---|---|---|---|
| JAR pipeline: `deployment_service.py`, `routes/deployment.py`, `backup_service.py`, `sftp_service.py`, `checksum_service.py` | one `DeploymentState` (replaced by every deployment), `_local_jar`, `_deploy_task`, the record file; on the server the JAR, the unit file, CopyData and backup folders by date | `deploy()` in eleven stages, `kill_process`, `restart_after_kill`, single-step REST endpoints | SSH session, event bus, streamer, download service |
| Event bus: `log_service.py` `Broadcaster`, `routes/websocket.py`, `app.js` | history, a queue per page | `publish`, `clear_history`, connect with replay, disconnect | every other component publishes |
| Log streamers: `LogStreamer`, `aidenops_logs.py` | threads, channels, one shared stop flag | `start`, `stop`, `_pump` | SSH session, event bus |
| UI deployment: `aidenops_frontend.py` | `dist`, `dist-new`, `dist.bak-*`, `dist.failed-*`, archives | archive, extract, own, configure, relabel, swap, verify, revert, retain | staging directory, SSH session |
| Backend deployment: `aidenops_backend.py`, `migration_service.py`, `requirements_service.py` | venv, database revision, dumps, archived wheels | preflight ... cleanup, runbook | staging directory; the service itself, which migrates at each start |
| Release intake: `aidenops_release.py`, `archive_service.py`, `routes/aidenops.py` | the incoming file, `_current`, `staged_path`, staging directory | `/fetch`, `/verify`, `/clear`, `/deploy` | UI and backend deployment, download and SFTP services |
| SFTP with retry, SSH session, downloads | cached client and SFTP channel, `.part` files | upload, promote, reset, connect, close | all of the above |
| JAR collector `collect_jars.py` | manifest, local copies | discover, fetch, verify, remove | a session of its own |
| Configuration, validators, pages, start-up, diagram generator | none that matters here | | |

What is hard in it, and what makes each part correct, is the list `hazards` of
`PROJECT.json`, each at its line with the properties that catch it. In short:

* JAR pipeline: whatever fails where, the server can be put back; what is
  reported and recorded is what happened; `restart_after_kill` and the manual
  download write to the state of a deployment that runs.
* Event bus: a page that connects in the middle misses nothing and ends on the
  last state, although it gets events twice and out of order.
* UI: what is served was prepared; the previous bundle survives; a message that
  it was restored is true; leftovers of a failed attempt do no harm.
* Backend: no migration without a whole dump and, if destructive, without
  confirmation; the way back outlives any number of retries; the runbook is right.
* Intake: what is installed was verified, and is what was asked for.
* Log streams: one per source, although the stop flag is shared by all of them;
  what a stop has ended publishes nothing more; what no list knows still stops.
* SFTP and SSH session: a path never holds half a file; a session that died is
  not trusted; one retry, then an end -- while handlers close and dial the one
  session under each other.
* Collector: nothing is deleted on the server that the mirror does not have.
* Migrations: what is announced to the operator is what Alembic will apply, and
  reading a malformed wheel ends.

## 2. Modules

| Module | Models | Composed with |
|---|---|---|
| `Rollout` | what a deployment promises whoever has to put things right: one service at a time, nothing replaced before it is saved, the JAR only when systemd has the new checksum, a record that says which of this happened | abstract |
| `Deployment` | the JAR pipeline with the server, the follow-up of a port conflict, the manual download, crashes and midnight | implements `Rollout` (`KeepsRollout`) |
| `Broadcaster` | event bus and WebSocket handlers | |
| `Frontend` | UI deployment | |
| `Backend` | backend deployment, with the service as a process of its own | |
| `Release` | intake and staging, several requests at once | stands above `Frontend` and `Backend`, whose pipelines appear as one `Install` |
| `Streamer` | both log streamers, their threads, channels and joins, and the lines they hand to the loop | the lines are what `Broadcaster!Publish` gets |
| `Transfer` | what an upload promises: the old file, the new one or, where the server cannot replace a file in one step, none | abstract |
| `Upload` | the SSH session and both upload functions, with `.part`, promotion, retry | implements `Transfer` (`KeepsPromise`); `Deployment` and `Release` use uploads as `Transfer` describes them |
| `Collect` | the collector, beside deployments that write | |
| `Migrations` | `pending()`, turn by turn, over any history | `Backend` uses it over a linear history, where its plan is what the walk lists (`PlanIsPending`) |
| `MC*` | constant values, symmetry and constraints for TLC | |
| `*Proofs` | the theorems about a module, see "Proofs" | each extends the module it is named after: `Deployment`, `Broadcaster`, `Streamer`, `Frontend`, `Backend`, `Release`, `Upload`, `Collect`. `BackendProofs` extends `Migrations` as well, whose own specification is therefore named `WalkSpec` |

### How the modules read the code

**An action is one segment of a handler**: the outcome of the await it was at,
and everything up to the next one. In `Deployment` the variable `pc` names the
await at which `deploy()` is (`StageOf` gives its stage), `rpc` that of
`restart_after_kill`, `killing` that of `kill_process`. `Complete(next)` is a
`_set_stage(COMPLETED)` and the next stage's `_set_stage(RUNNING)`, `Stop` is
`_deploy`'s exception handlers with `_fail`. Stages with several suspending
commands have several actions (`BackupDir`, `BackupJar`, `BackupUnit`;
`UpdateRead`, `UpdateWrite`, `UpdateVerify`; `Copy`, `CopyStat`); commands that
only read and that nothing can change in between are one action with the command
that follows. In `Frontend` and `Backend`, whose handlers run one after another
there, an action is a whole stage handler. `Release` has one action per remote
command of each request.

In `Streamer` an action is what the loop runs between two suspensions, or what a
thread does at once; `ready` is the loop's own queue, so that a line handed over
before a join has ended is published before the handler goes on. `joining[c]` is
the list that a `stop()` iterates, with the thread it joins at its head; while it
is still `_streams` itself (`own`), what another caller appends is joined too. In
`Upload` `stage` is the call of the upload that is being made and `step` where in
it, `ensure_sftp`'s own awaits included; `chan` is the channel object that the
upload holds, which may no longer be the session's. A close in a worker thread is
one step with the resumption of its handler. In `Collect` each phase of `main` is
a loop over the files, in any order. In `Migrations` a step is a turn of the loop.

**A command may fail half way.** It has an effect in full, in part or not at
all, and the caller sees an error. `Cut...` in `Deployment`, the disjuncts with
`GiveUp` in `Frontend`, with `Fail` in `Backend` and with `Raise` in `Release` are
that. The same operators
say what a crash leaves behind.

**Errors are kept apart where the code does.** `CommandFailed` becomes a
`FrontendError` or `BackendError`; an `SSHError` (timeout, lost connection) does
not, and skips the revert, the runbook or the diagnosis.

**Data.** A build stands for its bytes and its checksum; `Broken` is a truncated
file; a unit file is the checksum it names; a dated folder is a number below
`NumDays`, because `%b%d` names recur; an event is its position in the order of
publication; a page is the last event it rendered (each carries the whole
state); a bundle's `runtime-config.js` is what `_assert_api_url` can or cannot
tell of its URL; the members of an archive are one file, since no pipeline reads
those of the other target, and a truncated member is none; a migration history
is linear and a revision is a number; a release's pins are one value. A service
runs only if its JAR has the checksum that its loaded unit names (this check is
in the Java services, external here) and its port is free.

**History variables** (`before`, `good`, `seen`, `verified`, `healthy`,
`passed`, `last` and the like) only remember; no guard reads them. The counters
`started`, `restarts`, `kills`, `downloads`, `crashes`, `stagings`, `fetches`,
`clears`, `opens`, `calls`, `writes`, `runs` bound the state space through the constants `Max...`. The
definitions called "Fault" are plausible mistakes in the code; no specification
uses them, and each property is known to fail when one of them is put in its place
(`mutants` in `PROJECT.json`).

## 3. Runs

| Run | States | Shows |
|---|---|---|
| `Deployment_single` | 1.6 M | `LastGoodRecoverable`, `StageTableSettled`, `RecordMatchesState` over two deployments, a crash, any midnights; `DeploymentEnds` under fairness |
| `Deployment_races` | 4.0 M | `RollbackReady`, `KeepsRollout` (the refinement of `Rollout`), `RecordedSuccessIsInstalled` with a restart, a kill and a manual download beside two deployments, with and without overwriting backups and with the digest comparison switched off |
| `Broadcaster` | 1.7 M | `CaughtUp`, `NothingMissed`, `EventuallyCaughtUp` |
| `Streamer` | 0.8 M | `OneStreamPerSource`, `RunningMeansClear`, `NoOldLines`, `StopSilences`, for both classes, with two callers and four calls |
| `Upload` | 3.7 M | `KeepsPromise` (the refinement of `Transfer`), `UndisturbedSucceeds`, `NeverRepeats`, for two uploads to one path or two, a session in any state at first and a network that fails anywhere, any number of times |
| `Frontend` | 2.2 M | `LivePrepared`, `PreviousInPlace`, `LastVerifiedKept`, `SuccessIsVerified`, `RevertMeansRestored` over four deployments |
| `Frontend_nest` | violation | the retry that serves the old bundle and says success |
| `Backend` | 2.6 M | `StartProtected`, `DestructionConfirmed`, `RollbackPointKept`, `RunbookRestoresHealthy` over three deployments |
| `Backend_rollback` | violation | the runbook's "complete rollback" after a retry |
| `Release` | 1.1 M | `InstalledIsVerified`, `InstalledIsRequested` with two requests at once |
| `Collect` | 0.8 M | `NothingLost` over three runs and three writes |
| `Migrations` | 0.3 M | `PendingIsUnapplied`, `WalkEnds` for each of the 14 641 ways to give four revisions at most two parents, at each revision of the database |

Each also checks its module's `TypeOK` (`WalkTypeOK` in `Migrations`;
`Deployment_races` leaves that to `Deployment_single` and to the proof).
`Upload`'s type invariant bounds the attempts and `Streamer`'s says that a
caller in the middle of a call has something to join; the others are about
types.

### Bounds, and why they are enough

* One service: the pipeline of one service never reads another one's files. What
  services share (`_local_jar`, the state object, `daemon-reload`) is exercised by
  the restart and the manual download, which use the same service in the worst
  case. The theorems hold for any set of services.
* Two builds: enough for old against new; a third would be another old one.
  They have the same size, so that the size checks cannot help.
* Two days: today and another; the day wraps, which is the year that `%b%d`
  forgets. Two deployments: one and its retry on the same or another day.
* Queue and history of two events with four publications: both limits are passed,
  and a queue can fill, drain and fill again.
* UI: `KeepDist = KeepArchives = 1` is the tightest pruning (the code never
  keeps fewer), and four deployments are enough to fail, retry, roll back and prune.
* Backend: two dumps are kept (the code's minimum with pruning before writing
  that keeps an old one), three attempts exceed that; three releases: one that
  migrates and repins, one that drops and has no requirements file.
* Streamer: two callers, because a deployment and the buttons of a page, or two
  pages, are what overlaps; four calls are start, stop, start and one beside any
  of them; eight threads are all that four calls can attach (`Opened` lets a start
  open no more channels than there are threads left, which no run needs; the
  theorems hold for any set of threads). One line may wait in
  the loop when another is handed over; a join's end always finds room. The two
  nginx logs are one source, since "both halves" has two sources already.
* Upload: two uploads, because the page has one JAR pipeline and the AidenOps
  deployments beside it; two chunks, so that a file can be cut in the middle and
  two writers can mix; one path that holds a file and one that does not.
* Collect: a path that recurs, another, and the live one; a run that copies, one
  that fails, one that deletes, with two writes between them and one beside.
* Migrations: a file names at most two parents (`MaxParents`; the theorems hold for
  any number), and four revisions have every shape that matters to the walk: chains,
  two roots, a branch, a merge of two branches (the diamond), cycles reached and
  not reached. Their order in the wheel is fixed, as every labelling occurs.
* Release: four archives of which three have the same file names (builds of one
  commit, which carry one version), one of them never verified; two requests because the page has two deploy buttons.

TLC stops at these bounds, so runs other than those of `Deployment` disable the
deadlock check: there the program is just not asked for anything more, or, as in
`Migrations`, has returned.
`Deployment` always has a next midnight, so its check stays on and says nothing;
that a handler never gets stuck is `DeploymentEnds`.

### Fairness

`Deployment` assumes `WF(Pipeline)` and `WF(FollowUp)`: remote commands,
transfers and downloads have timeouts, and the loop runs every task that is
ready. `RestartAfterKill`, `Kill`, `ManualDownload`, `Crash` and `Midnight` are
the environment's and need not happen. `Broadcaster` assumes `WF(Handler(c))` for
each connection: a page reads what it is sent, or `send_json` fails. Publishing
and connecting are not fair. `Streamer` assumes `WF` of the loop (`Publish`,
`Resume`), of a join's end (it has a timeout of two seconds) and of each thread's
`Obey` (`_pump` looks at the flag at least every 0.2 seconds, and a closed channel
raises); no caller ever has to call, and no stream has to end by itself.
`Migrations` assumes `WF(WalkNext)`, a function that runs. `Upload` and `Collect`
assume nothing; that an upload ends is stated without fairness, as `NeverRepeats`:
its progress only increases, so an upload whose awaits return cannot go on for ever.

### Conditions the results rest on

* `LivePrepared` says what `_assert_api_url` can tell: the URL of the bundle in
  `dist` is neither missing nor empty as in `API_URL: ""`. The check fails "only on
  a value we can positively identify as empty" (`aidenops_frontend.py:231`), so an
  empty URL in another shape (`Urls`: "disguised") passes it in `_configure` and in
  `_verify`, and goes live. Only if `write-ui-config` never writes such a shape does
  every live bundle have its URL.
* `PreviousInPlace` needs `TouchesDir`: `_prune` sorts by directory mtime, and a
  bundle keeps the mtime of its build unless `write-ui-config` renews it. With
  `TouchesDir = FALSE` a rollback to an older build has its predecessor pruned at
  once.
* `InstalledIsVerified` needs `FetchWhileDeploying = FALSE`. With two requests
  and a `/fetch` between them, one request's upload may replace the landed file
  after the other's hash check.
* `InstalledIsRequested` needs that no request for another release is in flight
  at the same time (`last.sole`). Nothing prevents it: after /deploy has been
  called for one build, another build of the same file names can be verified and
  its deployment started, and its members replace the first one's before they are
  installed.
* `LastGoodRecoverable` needs `Overwrites = {FALSE}`: ticking "Overwrite existing
  backup" after a deployment that failed past `update_checksum` replaces the only
  copy. The backup error itself suggests that option.

* `OneStreamPerSource` and `NoOldLines` need that no start has ever overlapped
  with another call (`overlapped`; for `LogStreamer` a `stop` beside a start is
  one, for two stops nothing is lost). Nothing prevents it. Of two `start()`s of
  a service that wait for the same old threads, the second sets `_streams = []`
  over what the first attached: the first one's threads go on, unknown to every
  later `stop()` -- unless the flag reaches them, which `StopSilences` says it
  does if no start clears it. `AidenOpsLogStreamer.start` beside a `stop` takes
  threads that are ending for running ones, or attaches to the list that the
  `stop` is about to drop.
* `NothingLost` excepts files written between `measure()` and `remove()` of one
  run (`raced`): `rm -f` goes by name. `collect_jars.py:24-25` states the
  comparison of hashes as the guard.
* `PendingIsUnapplied` says all of it for linear histories only. With branches
  or merges the walk follows one child and reads a merge as a root, so that it
  announces less than Alembic applies -- in the worst case nothing, and then no
  dump is taken. For any history without a cycle it never announces what is
  applied already and never reports a cycle.
* `UndisturbedSucceeds` is for an upload that no failure and no other upload
  touches (`disturbed`). With another one beside it the single retry may be used
  up by the other's `reset_connection` or `close_sftp`, which close the channel
  that it is writing to.
* `Transfer` promises nothing for a path to which two uploads have run at once
  (`contended`): they share the `.part` file, so that the result may be a mixture
  of both, and the one that finds the `.part` gone removes the other's finished
  file.

### Disagreements found

The two violation runs are the `findings`. Met while modelling and not run:

* `restart_after_kill` turns a failed deployment into a success without writing
  the record (`deployment_service.py:800`), which `deployment_service.py:164` says
  is written on success. `RecordMatchesState` is false with `MaxRestarts = 1`.
* An empty API_URL whose shape the pattern does not know goes live as a success
  (`aidenops_frontend.py:231-235`), although the docstring at line 201 says that the
  live `dist` "is never briefly serving an unconfigured bundle" and
  `AIDENOPS.md:257` that the pipeline checks for a blank one. The comment says that
  such a shape is "logged"; it is only returned, in the answer's `checks`.
* A page whose queue was full once stays connected and gets nothing any more
  (`log_service.py:58`, against line 29): `Broadcaster!ConnectedIsSubscribed`.
* `extract_member` reads the migrations from whatever file lies in the incoming
  folder by then (`aidenops_release.py:131`, against line 122):
  `Release!ScannedIsInstalled`.
* "One automatic retry after a dropped socket" (`sftp_service.py:36`) does not
  cover a drop during a `mkdir` or a size check, whose `OSError` becomes an
  `UploadError` (`sftp_service.py:79`, 267), which no handler retries.
* Two `connect()`s at once both dial (`ssh_service.py:120`), and the client of the
  first is never closed; so is an SFTP channel when two `ensure_sftp()` open one.
* `_deploy` clears the history before it stops the old streams
  (`deployment_service.py:453`): their last lines are the first of the new history.
* Folders named `%b%d` recur, so a later run of the collector replaces the
  mirror's copy of a file that an earlier one deleted from the server; a failing
  `sftp.get` truncates it first.
* Two downloads of one name write one `.part` file (`download_service.py:88`),
  and each compares the digest of its own stream, not of the file.

* `restart_after_kill` catches only `DeploymentError`
  (`deployment_service.py:797`): after an `SSHError` of the probe a stage is
  shown as running for ever. `Deployment!NothingLeftRunning` is false.
* `AIDENOPS.md:164` promises a runbook for every failure past the line. A
  failure of stop or of an installation, and an `SSHError` at any later step,
  give none. `Backend!FailureHandsOver` is false.
* `README.md:48` shows BACKUP before UPLOAD and no copy to the binaries; the code
  uploads first, and that is what is modelled.

## 4. Proofs

Every theorem holds for all values of the constants, and so for any number of
services, builds, requests, uploads, pages, deployments, failures and crashes.
Each rests on an inductive invariant that TLC checked on the run's constants
before it was proved, has one lemma per property saying that every step keeps it,
and in that one step per action.

### What is assumed

* The named assumptions of the modules, which TLC evaluates in every run of the
  module: `ConstantsOK` (`Deployment`), `StreamerConstantsOK`,
  `CollectConstantsOK` and the like. They say that bounds are numbers,
  the sets of sources and of kept archives finite, and that Python's `None` is no
  file, no bundle and no dump (`NoneIsNoFile`, `NoneIsNoBundle`, `NoneIsNoDump`).
* `RevisionsAssumption` (`Migrations`): the revisions are finitely many numbers, none
  of them Python's `None` or the revision that the wheel lacks. `PlanIsPending` takes
  the numbers of `Backend`, 1 to the wheel's last revision with 0 for none; the
  history in which each follows the one before it is one of the walk's initial states.
* `StageTableCorrect` and `RecordCorrect`: `MaxRestarts = 0`, as in their run. With
  `restart_after_kill` both are false (section 3, "Disagreements found").
* `LastGoodCorrect`: `Overwrites \subseteq {FALSE}`. It is stronger than the run,
  which has no restart by hand, no kill and no manual download.
* `PreviousInPlaceCorrect`: `TouchesDir`. `InstalledIsVerifiedCorrect` and
  `InstalledIsRequestedCorrect`: `~FetchWhileDeploying`. Section 3 says what
  happens otherwise ("Conditions the results rest on").

### `DeploymentProofs`

| Theorem | States | Argument |
|---|---|---|
| `TypeCorrect` | `[]TypeOK` | `TypeInv` = `TypeOK` and `InFlight`: while `pc` is in the pipeline, `svc`, `checksum` and `req` are those of the request, so that what is written has its type. One lemma per action. |
| `RollbackReadyCorrect` | `[]RollbackReady` | `RollbackInv` says how far the copies have got: until `backup_jar` has returned the server is untouched; then the JAR, after `backup_unit` both, are in some folder. The order of the stages is all it uses; restarts, kills, downloads and midnights do not write those files. |
| `EarlyFailureCorrect` | `[]EarlyFailureUntouched`, of the page's state; no run checks it by itself, `KeepsRollout` says the same of the record | from `RollbackInv` and what `current_stage` can be: `restart_after_kill` moves it to late stages only. |
| `SuccessCorrect` | `RecordedSuccessIsInstalled` | `SuccessInv`: past `update_verify` the unit is the checksum, past `daemon_reload` the loaded unit is, and a service that is up has the JAR that its loaded unit names. Only `LiveLogs` records a success. |
| `StageTableCorrect`, `RecordCorrect` | `[]StageTableSettled`, `[]RecordMatchesState` | `TableInv`: while the pipeline waits, the stages before `StageOf[pc]` are completed, that one runs and the others wait, so that `_fail` fills in what the properties ask for. |
| `LastGoodCorrect` | `[]LastGoodRecoverable` | `RecoverInv`: a backup is never written to once it is there (`BackupsStay`), so what is overwritten was saved first. A restart by hand may bring up whatever unit systemd has loaded, so the file of that unit must be on the server as well, also before anybody saw it run. |
| `KeepsRolloutCorrect` | `KeepsRollout`, which is `Promise!Spec` | Refinement of `Rollout`, step by step (`RolloutStep`): the backup commands are its `Save` (`SaveJar`, `SaveUnit`), those that write the unit, tell systemd or copy the JAR its `Replace` (`ReplaceUnit`, `ReplaceLoaded`, `ReplaceJar`), each also when it is cut off, and in the same step the handler may report (`MoveReports`) or the tool die (`Forget`). It rests on `RolloutInv` = `TypeInv`, `RollbackInv`, `SuccessInv` and `TurnInv`: while a handler waits, the record on disk is of an earlier deployment or was called failed by a `restart_after_kill` beside it, so a deployment that still works is never one on record as aborted or done. |
| `RolloutCanGoBack` | `Promise!Spec => [](Promise!CanGoBack /\ Promise!AbortedIsUntouched)` | What the promise is worth, proved of `Rollout` alone: what was found is in place or in a backup, and an aborted deployment changed nothing. `CanGoBack /\ AbortedIsUntouched` is inductive there. |

### `FrontendProofs`

| Theorem | States | Argument |
|---|---|---|
| `FrontendTypeCorrect` | `[]TypeOK` | `TypeInv`: a deployment in flight has a build and a stamp. |
| `LivePreparedCorrect` | `[]LivePrepared` | `ReadyInv`: past `own` the bundle in `dist-new` has its owner, past `configure` a URL that was accepted as well; what lies in `dist.bak-*` was live once. |
| `RevertCorrect` | `[]RevertMeansRestored` | `StartInv`: past the swap the only `dist.bak` of this stamp is what the deployment found. |
| `SuccessIsVerifiedCorrect` | `[]SuccessIsVerified` | `SuccessInv`: past the archive stage the newest archive is the build's, and pruning leaves it first. |
| `LastVerifiedKeptCorrect` | `[]LastVerifiedKept` | `KeptInv`: while the new bundle is not verified, the verified one is pushed aside, and only a verified one prunes. |
| `PreviousInPlaceCorrect` | `[]PreviousInPlace` | `TimeInv`: what is swapped in is newer than all that were before, so that the bundle it replaced is the newest of those pushed aside, which `_prune` keeps. |

### `BackendProofs`

| Theorem | States | Argument |
|---|---|---|
| `BackendTypeCorrect` | `[]TypeOK` | `TypeInv` = `TypeOK` and `FlightInv`: what a deployment in flight has, stage by stage. |
| `StartProtectedCorrect` | `StartProtected` | `PlanInv`: whatever Alembic still applies for an earlier attempt, what is left to apply is in the plan, since the schema only grows; and the dump taken for the plan is the first of the directory until the start. |
| `DestructionConfirmedCorrect` | `DestructionConfirmed` | `PlanInv`: past the decision, a plan with a destructive revision was confirmed. |
| `RollbackPointCorrect` | `[]RollbackPointKept` | `PointInv`: the dump of the last healthy schema is among the first files of the directory, as many as attempts were begun since. It must hold as soon as a migration may start (`Migrating`), when `schema` is still the healthy one. |
| `RunbookCorrect` | `[]RunbookRestoresHealthy` | `RunbookInv`: a deployment that found the service healthy changes neither the service nor the schema before the start, and its own dump is of the healthy schema; without one there is nothing to apply. |
| `PendingTypeCorrect` | `[]WalkTypeOK` | `WalkInv`: what has been found is a chain of children from the database's revision to the cursor. |
| `PendingCorrect` | `[]PendingIsUnapplied` | A walk that closes a cycle names a set of revisions each of which has a parent in it (`CycleFound`), and so does one that reaches an applied revision (`FoundUnapplied`). On a linear history every revision is the child of one that is applied or found, or has none (`ChildFound`, `ChildOfApplied`, `RootFound`), and among those missing there would be one without a missing parent. |
| `WalkBounded` | `[](Len(ordered) <= Cardinality(Revisions))` | what is found is injective: the safety half of `WalkEnds`, for every malformed wheel too. |
| `PlanIsPending` | on the history of each of `Backend`'s wheels the walk counts up from the current revision, and ends with `current + 1 .. LastRevision[w]` | the chain is linear (`ChainIsLinear`), what is applied are the numbers up to the current one (`ChainApplied`). |

The induction over the walk and over a chain of revisions is on a least
counterexample: `LeastNumber`, that a set of numbers has a least one, follows from
the library's `WFMin`, which takes no operator.

### `ReleaseProofs`

| Theorem | States | Argument |
|---|---|---|
| `ReleaseTypeCorrect` | `[]TypeOK` | directly |
| `InstalledIsVerifiedCorrect` | `[]InstalledIsVerified` | `StagingInv`: no lock keeps two requests apart, but whoever has passed the hash check holds a release of the file in the incoming folder, so what any of them uploads, copies and unpacks is that file. `VerifiedInv` follows it through the staging directory. |
| `InstalledIsRequestedCorrect` | `[]InstalledIsRequested` | `AloneInv`: a request that is not mixed agrees with all others in flight. `StagedInv`: what counts as staged is there, or nothing of its name; staging another release of the same names unmarks it for whoever may still install it. |

### `UploadProofs`

| Theorem | States | Argument |
|---|---|---|
| `UploadTypeCorrect` | `[]TypeOK` | `RunInv` says which calls and steps go together; a reset is only reached with a retry left. |
| `KeepsPromiseCorrect` | `KeepsPromise`, which is `Promise!Spec` | Refinement of `Transfer`, step by step: a step of an upload is one of `Transfer`'s or a stutter. `FileInv`: an upload that no other has met at its path finds in `.part`, and after the promotion at the path, what it wrote, whoever closes the session or opens another channel under it. |
| `UndisturbedSucceedsCorrect` | `[]UndisturbedSucceeds` | `SessionInv`: an upload that nothing disturbs finds the session as it left it, at the first attempt. |
| `NeverRepeatsCorrect` | `NeverRepeats` | Each step increases attempt, call, step or chunk, in this order of weight (`Reached`). |

### `BroadcasterProofs`

| Theorem | States | Argument |
|---|---|---|
| `BroadcasterTypeCorrect` | `[]TypeOK` | a page whose queue is full is dropped before another event is put there, and the history is trimmed with each. |
| `CaughtUpCorrect` | `[]CaughtUp` | `LatestInv`: the last event a subscriber's page will get, be it in its queue, its replay or in the hand of its handler, is the last published. |
| `NothingMissedCorrect` | `[]NothingMissed` | `MissedInv`: once its handler has copied the history, all that the history has is seen, on its way or queued. |

### `StreamerProofs`

| Theorem | States | Argument |
|---|---|---|
| `StreamerTypeCorrect` | `[]TypeOK` | `CallInv`: a caller in the middle of a call has something to join, which the loop tells it at most once. Finiteness of the sources is used to number the new streams. |
| `RunningCorrect` | `[]RunningMeansClear` | `NameInv`, with it: an open channel has a live thread, a name of a half is of a thread on the list. No condition on overlapping calls. |
| `NoOldLinesCorrect` | `[]NoOldLines` | `JoinInv`: when the end of a join waits for the loop, the thread has outlived it or is dead with its last line before that in the loop's queue. `ListInv`: until calls overlap, what is not settled is on a list that some `stop()` still iterates. |
| `OneStreamCorrect` | `[]OneStreamPerSource` | `OpenInv`: until calls overlap, nothing is open while a call is under way, and what is open has a source of its own. |

### `CollectProofs`

| Theorem | States | Argument |
|---|---|---|
| `CollectTypeCorrect` | `[]TypeOK` | `CollectInv`; `todo` stays within `jars` only because it is empty whenever a new run begins. |
| `NothingLostCorrect` | `[]NothingLost` | `CollectInv`: the server has the last version or nothing (`ServerLatest`); what is to be fetched is on the server, so that a failing transfer may empty the mirror's copy (`TodoThere`); a remote hash is that of the last version unless the path was written since (`HashOfLatest`); a verified local hash is that of the file in the mirror (`HashOfLocal`); what is to be removed is verified (`TodoVerified`). One lemma per action. |

None of the properties is inductive by itself. `RollbackReady` does not say
that a pipeline that is about to write has its copies already, `NothingLost` not
that the hashes on record are those of the files, `NoOldLines` not where a line
is while its join is still under way.

### Only model-checked

* Liveness, out of the prover's reach: `DeploymentEnds`, `EventuallyCaughtUp`,
  `StopSilences`, `WalkEnds`.
* The two properties that the violation runs refute.

## 5. Not modelled

* Dry-run mode, and the single-step endpoints of `routes/deployment.py` other
  than download. They take no lock. No page of the tool calls them; by hand they
  may change what a running deployment has backed up.
* A remote command that goes on after its timeout, except for Alembic.
* A record file that cannot be written (logged and ignored by the code).
* In `Deployment` and `Release` a transfer is one step with the outcomes that
  `Upload` shows an upload can have; downloads deliver whole files.
* Of the SSH session: commands other than by their outcome, sudo, quoting, the
  classification of read-only commands, clients and channels that are leaked.
* Two pipelines of one target at once, the members of an archive, `diff()` of two
  sets of pins, databases with several heads.
* Repairs by hand. Validation of strings, rendering, start-up, the diagram.

## 6. Plan

The components whose failures cost a production system are modelled. Next:

1. Two UI or backend pipelines at once, over the same directories.
2. An abstract deployment like `Rollout` that `Frontend` and `Backend` implement.
3. `diff()`, `replace_checksum` and `inspect()` against reference definitions.
