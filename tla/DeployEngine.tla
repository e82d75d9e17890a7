---------------------------- MODULE DeployEngine ----------------------------
(***************************************************************************)
(* The deployment engine on one server, for one website: the Deployer of   *)
(* shared/deployer.mjs, and the site tasks of shared/tasks.mjs that drive   *)
(* it.  A tree has "files" (what the archive holds, with build-info.json)   *)
(* and "gen", the generated directories that are moved as a whole           *)
(* (swapDirs: node_modules and the build).                                  *)
(*                                                                          *)
(* The steps of the downtime window are actions of their own, because the   *)
(* agent may die between any two of them.  The app is a process of pm2 or   *)
(* a container, and outlives the agent.                                     *)
(***************************************************************************)
EXTENDS Naturals

CONSTANTS
  Release,   \* what can be deployed
  LockOf,    \* of each release: its package-lock.json
  None,      \* nothing there
  Mixed,     \* what an app serves that was started on a tree of two releases
  MaxJobs, MaxFaults  \* bounds for TLC

VARIABLES
  disk,      \* the app directory: [files, gen]
  staging,   \* .forthway/staging
  previous,  \* .forthway/previous, the snapshot: [there, files, gen]
  app,       \* the running app: [in, serves]; in = "none" when it is stopped
  lingers,   \* the app outlived a stop, unnoticed
  job,       \* the running task
  aborted,   \* abort() was called
  outcome,   \* how the last job ended
  torn,      \* history: the trees whose packages may be another release's, from a swap
             \* that the agent's death cut short
  jobs, faults   \* counters

trees == <<disk, staging, previous>>
counters == <<jobs, faults>>
vars == <<trees, app, lingers, job, aborted, outcome, torn, counters>>

Runtime == {"pm2", "docker"}
Nothing == [files |-> None, gen |-> None]
NoSnapshot == [there |-> FALSE, files |-> None, gen |-> None]
Stopped == [in |-> "none", serves |-> None]
Idle == [type |-> "none", step |-> "none", release |-> None, rt |-> "pm2",
         rollback |-> TRUE, was |-> Nothing, served |-> None, packed |-> None]

Whole(tree) == tree.gen # None /\ tree.gen.of = tree.files
At(type, step) == job.type = type /\ job.step = step
GoTo(step) == job' = [job EXCEPT !.step = step]
Inherits(to, from) == torn' = IF from \in torn THEN torn \cup {to} ELSE torn \ {to}

\* A command is not begun, or dies, once the job is cancelled (_spawn).  Docker's own
\* calls do not go through _spawn.
Spawns == ~aborted \/ job.rt = "docker"

-----------------------------------------------------------------------------
(* A job begins and ends.                                                   *)

\* execute: one task per website at a time (withSiteLock).
Begin(type, r, rt, auto) ==
  /\ job.type = "none" /\ jobs < MaxJobs
  /\ jobs' = jobs + 1
  /\ job' = [type |-> type, step |-> "begin", release |-> r, rt |-> rt, rollback |-> auto,
             was |-> disk, served |-> app.serves, packed |-> None]
  /\ aborted' = FALSE /\ outcome' = "none"
  /\ UNCHANGED <<trees, app, lingers, torn, faults>>

\* siteAction's finally: cleanup().
Ends(how) ==
  /\ job' = Idle
  /\ outcome' = how
  /\ staging' = Nothing

Fails == Ends(IF aborted THEN "cancelled" ELSE "failed")

\* The panel cancels the task: abort().
Abort ==
  /\ job.type # "none" /\ ~aborted
  /\ aborted' = TRUE
  /\ UNCHANGED <<trees, app, lingers, job, outcome, torn, counters>>

\* The agent's process dies.
Dies ==
  /\ faults < MaxFaults /\ job.type # "none"
  /\ faults' = faults + 1
  /\ job' = Idle /\ outcome' = "died" /\ aborted' = FALSE
  /\ torn' = IF job.step \in {"snapFiles", "swapGen", "swapFiles", "restoreFiles"} THEN torn \cup {"disk"} ELSE torn
  /\ UNCHANGED <<trees, app, lingers, jobs>>

-----------------------------------------------------------------------------
(* Before the downtime window.                                              *)

\* downloadRelease: from the panel, or the file itself on the main server.
Download ==
  /\ At("deploy", "begin")
  /\ \/ GoTo("unpack") /\ UNCHANGED <<staging, outcome>>
     \/ Fails
  /\ UNCHANGED <<disk, previous, app, lingers, aborted, torn, counters>>

\* A checksum that is wrong, an archive that cannot be read.
Unpack ==
  /\ At("deploy", "unpack")
  /\ \/ staging' = [files |-> job.release, gen |-> None] /\ GoTo("build") /\ UNCHANGED outcome
     \/ Fails
  /\ UNCHANGED <<disk, previous, app, lingers, aborted, torn, counters>>

\* The packages of the live app are linked when they were installed for the same
\* runtime, and kept as they are when the lockfile is the same too.
Seeded == disk.gen # None /\ disk.gen.rt = job.rt
Unchanged == Seeded /\ disk.files # None /\ LockOf[disk.files] = LockOf[job.release]
Installed == IF Unchanged THEN disk.gen.lock ELSE LockOf[job.release]

\* _buildStaging and packageBuild; every command of theirs may fail.
BuildStaging ==
  /\ At("deploy", "build")
  /\ \/ /\ ~aborted
        /\ staging' = [staging EXCEPT !.gen = [of |-> job.release, lock |-> Installed, rt |-> job.rt]]
        /\ IF Unchanged THEN Inherits("staging", "disk") ELSE torn' = torn \ {"staging"}
        /\ GoTo("package") /\ UNCHANGED outcome
     \/ Fails /\ UNCHANGED torn
  /\ UNCHANGED <<disk, previous, app, lingers, aborted, counters>>

\* packageBuild, into a file of its own, when the other servers are to have this build; if
\* it fails they build for themselves.
PackageBuild ==
  /\ At("deploy", "package")
  /\ \E file \in {staging.files, None} : job' = [job EXCEPT !.packed = file, !.step = "stop"]
  /\ UNCHANGED <<trees, app, lingers, aborted, outcome, torn, counters>>

-----------------------------------------------------------------------------
(* The app.                                                                 *)

\* stopApp: in docker mode also the pm2 process from before; in pm2 mode not the container.
\* A stop that fails is not noticed (allowFail).
StopsItsOwn == job.rt = app.in \* mutant: the pm2 process of before docker stays
StopReaches == job.rt = "docker" \/ app.in # "docker"
StopApp(next) ==
  /\ \/ /\ Spawns
        /\ \/ /\ app' = (IF StopReaches THEN Stopped ELSE app)
              /\ UNCHANGED <<lingers, faults>>
           \/ /\ faults < MaxFaults /\ app.in # "none"
              /\ faults' = faults + 1 /\ lingers' = TRUE /\ UNCHANGED app
        /\ GoTo(next) /\ UNCHANGED <<outcome, staging>>
     \/ ~Spawns /\ Fails /\ UNCHANGED <<app, lingers, faults>>
  /\ UNCHANGED <<disk, previous, aborted, torn, jobs>>

\* What the files on the disk make an app.
Serves == IF Whole(disk) THEN disk.files ELSE Mixed

\* startApp: first a leftover container goes (or, in docker mode, the old pm2 process and
\* the old container), so only a pm2 process that is still there may keep the port.
Started == [in |-> job.rt, serves |-> Serves]
Kept == IF app.in = "pm2" /\ job.rt = "pm2" THEN app ELSE Stopped
StartApp(next) ==
  /\ \/ /\ Spawns
        /\ \/ app' = Started /\ lingers' = FALSE
           \/ Kept # Stopped /\ UNCHANGED <<app, lingers>>
        /\ GoTo(next) /\ UNCHANGED <<outcome, staging>>
     \/ Fails /\ app' = Kept /\ UNCHANGED lingers
  /\ UNCHANGED <<disk, previous, aborted, torn, counters>>

-----------------------------------------------------------------------------
(* The downtime window: _snapshotPrevious, _swapIntoPlace.                  *)

Stop == At("deploy", "stop") /\ StopApp("snapDrop")

\* rmrf(previous), then the generated directories are moved into it.
SnapGen ==
  /\ At("deploy", "snapDrop")
  /\ previous' = [there |-> TRUE, files |-> None, gen |-> disk.gen]
  /\ disk' = [disk EXCEPT !.gen = None]
  /\ Inherits("previous", "disk")
  /\ GoTo("snapFiles")
  /\ UNCHANGED <<staging, app, lingers, aborted, outcome, counters>>

SnapFiles ==
  /\ At("deploy", "snapFiles")
  /\ previous' = [previous EXCEPT !.files = disk.files]
  /\ GoTo("swapGen")
  /\ UNCHANGED <<disk, staging, app, lingers, aborted, outcome, torn, counters>>

SwapGen ==
  /\ At("deploy", "swapGen")
  /\ disk' = [disk EXCEPT !.gen = staging.gen]
  /\ staging' = [staging EXCEPT !.gen = None]
  /\ GoTo("swapFiles")
  /\ UNCHANGED <<previous, app, lingers, aborted, outcome, torn, counters>>

SwapFiles ==
  /\ At("deploy", "swapFiles")
  /\ disk' = [disk EXCEPT !.files = staging.files]
  /\ Inherits("disk", "staging")
  /\ GoTo("migrate")
  /\ UNCHANGED <<staging, previous, app, lingers, aborted, outcome, counters>>

\* _runMigrations, on the new files: one that fails leaves them in place, and no app.
Migrate ==
  /\ At("deploy", "migrate")
  /\ \/ GoTo("start") /\ UNCHANGED <<staging, outcome>>
     \/ Fails
  /\ UNCHANGED <<disk, previous, app, lingers, aborted, torn, counters>>

Start == At("deploy", "start") /\ StartApp("check")

\* waitForHealthy and waitForVersion: an app of another release is noticed by its version,
\* and a build may just not come up.
ConfirmedByHealth == app.in # "none" \* mutant: no version check
Confirmed == app.serves = job.release
Check ==
  /\ At("deploy", "check")
  /\ \/ /\ Confirmed
        /\ IF job.packed # None THEN GoTo("deliver") /\ UNCHANGED <<staging, outcome>>
           ELSE Ends("deployed")
     \/ job.rollback /\ GoTo("undo") /\ UNCHANGED <<staging, outcome>>
     \/ ~job.rollback /\ Fails
  /\ UNCHANGED <<disk, previous, app, lingers, aborted, torn, counters>>

\* deliverPackage: to the panel, for the other servers, if the upload does not fail.
Deliver ==
  /\ At("deploy", "deliver")
  /\ Ends("deployed")
  /\ UNCHANGED <<disk, previous, app, lingers, aborted, torn, counters>>

-----------------------------------------------------------------------------
(* Back to the snapshot: the end of doDeploy, and doRollbackSnapshot.       *)

Undo == At("deploy", "undo") /\ StopApp("restoreGen")
RollbackStops == At("rollback", "begin") /\ StopApp("restoreGen")

RestoredNothing == disk.gen \* mutant: only the files are restored
RestoredGen == IF previous.gen = None THEN disk.gen ELSE previous.gen

\* _restorePrevious, which throws without a snapshot; what the snapshot does not hold
\* (any more) is left alone.
RestoreGen ==
  /\ job.step = "restoreGen"
  /\ IF previous.there
     THEN /\ disk' = [disk EXCEPT !.gen = RestoredGen]
          /\ previous' = [previous EXCEPT !.gen = None]
          /\ GoTo("restoreFiles") /\ UNCHANGED <<outcome, staging>>
     ELSE Fails /\ UNCHANGED <<disk, previous>>
  /\ UNCHANGED <<app, lingers, aborted, torn, counters>>

RestoreFiles ==
  /\ job.step = "restoreFiles"
  /\ disk' = [disk EXCEPT !.files = previous.files]
  /\ Inherits("disk", "previous")
  /\ GoTo("restart")
  /\ UNCHANGED <<staging, previous, app, lingers, aborted, outcome, counters>>

UndoStarts == At("deploy", "restart") /\ StartApp("undone")
Undone ==
  /\ At("deploy", "undone")
  /\ Ends("rolledBack")
  /\ UNCHANGED <<disk, previous, app, lingers, aborted, torn, counters>>

RollbackStarts == At("rollback", "restart") /\ StartApp("restored")
Restored ==
  /\ At("rollback", "restored")
  /\ Ends("restored")
  /\ UNCHANGED <<disk, previous, app, lingers, aborted, torn, counters>>

-----------------------------------------------------------------------------
(* doRestart, doStop, doStart, and site.remove with the files.              *)

RestartStops == At("restart", "begin") /\ StopApp("start")
RestartStarts == At("restart", "start") /\ StartApp("checkRestart")
\* The version on disk must be the one served.
CheckRestart ==
  /\ At("restart", "checkRestart")
  /\ \/ (disk.files # None => app.serves = disk.files) /\ Ends("restarted")
     \/ Fails
  /\ UNCHANGED <<disk, previous, app, lingers, aborted, torn, counters>>

StopOnly == At("stop", "begin") /\ StopApp("stopped")
StartOnly == At("start", "begin") /\ StartApp("started")
Done ==
  /\ At("stop", "stopped") \/ At("start", "started")
  /\ Ends(job.step)
  /\ UNCHANGED <<disk, previous, app, lingers, aborted, torn, counters>>

\* site.remove deletes the container and the pm2 process by name, then the files.
Remove ==
  /\ At("remove", "begin")
  /\ app' = Stopped /\ disk' = Nothing /\ previous' = NoSnapshot
  /\ torn' = {} /\ lingers' = FALSE
  /\ Ends("removed")
  /\ UNCHANGED <<aborted, counters>>

-----------------------------------------------------------------------------

Init ==
  /\ disk = Nothing /\ staging = Nothing /\ previous = NoSnapshot
  /\ app = Stopped /\ lingers = FALSE /\ job = Idle
  /\ aborted = FALSE /\ outcome = "none" /\ torn = {}
  /\ jobs = 0 /\ faults = 0

Order ==
  \/ \E r \in Release, rt \in Runtime, auto \in BOOLEAN : Begin("deploy", r, rt, auto)
  \/ \E type \in {"rollback", "restart", "stop", "start", "remove"}, rt \in Runtime : Begin(type, None, rt, TRUE)

Window == Stop \/ SnapGen \/ SnapFiles \/ SwapGen \/ SwapFiles \/ Migrate \/ Start \/ Check
Back == Undo \/ RollbackStops \/ RestoreGen \/ RestoreFiles \/ UndoStarts \/ Undone \/ RollbackStarts \/ Restored
Others == RestartStops \/ RestartStarts \/ CheckRestart \/ StopOnly \/ StartOnly \/ Done \/ Remove

Next == Order \/ Abort \/ Dies \/ Download \/ Unpack \/ BuildStaging \/ PackageBuild \/ Deliver \/ Window \/ Back \/ Others

Spec == Init /\ [][Next]_vars

-----------------------------------------------------------------------------

Gen == [of : Release, lock : {LockOf[r] : r \in Release}, rt : Runtime]
Tree == [files : Release \cup {None}, gen : Gen \cup {None}]
TypeOK ==
  /\ disk \in Tree /\ staging \in Tree
  /\ previous \in [there : BOOLEAN, files : Release \cup {None}, gen : Gen \cup {None}]
  /\ app \in [in : Runtime \cup {"none"}, serves : Release \cup {None, Mixed}]
  /\ job.release \in Release \cup {None} /\ job.packed \in Release \cup {None} /\ job.was \in Tree
  /\ lingers \in BOOLEAN /\ aborted \in BOOLEAN /\ torn \subseteq {"disk", "staging", "previous"}

\* A deploy that reports success (and may have sent its build to the other servers) has put
\* all of its release in place, with packages that were installed for its lockfile and its
\* runtime, and the app serves it: whatever the deploys before it left behind, and even when
\* the old process would not stop.  Only a tree that an agent's death tore may have lent it
\* the wrong packages, at once or through deploys and rollbacks that kept them.
DeployedMeansServedStep ==
  outcome' = "deployed" /\ outcome # "deployed" =>
    /\ job.packed \in {None, disk'.files}
    /\ Whole(disk') /\ disk'.files = job.release /\ app'.serves = job.release
    /\ disk'.gen.rt = job.rt
    /\ "disk" \notin torn => disk'.gen.lock = LockOf[job.release]
DeployedMeansServed == [][DeployedMeansServedStep]_vars

\* A deploy that says it was rolled back leaves the files, the packages and the build that
\* were there before it began, also when an earlier deploy was torn.
RolledBackMeansBeforeStep ==
  outcome' = "rolledBack" /\ outcome # "rolledBack" => disk' = [job.was EXCEPT !.gen = IF @ = None THEN disk.gen ELSE @]
RolledBackMeansBefore == [][RolledBackMeansBeforeStep]_vars

\* The files under a running app do not move, except where a stop went unnoticed, or the
\* app runs in the container of before a move back from docker.
NoSwapUnderTheAppStep ==
  disk' # disk /\ app.in # "none" /\ job.type # "remove" => lingers \/ (app.in = "docker" /\ job.rt = "pm2")
NoSwapUnderTheApp == [][NoSwapUnderTheAppStep]_vars
=============================================================================
