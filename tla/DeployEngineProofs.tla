------------------------- MODULE DeployEngineProofs -------------------------
(***************************************************************************)
(* Proofs about the deployment engine, for any releases, lockfiles, jobs   *)
(* and deaths of the agent.  The one hypothesis is that None is not a set  *)
(* of generated directories.                                               *)
(*                                                                         *)
(* The inductive invariant follows a job through its steps:                *)
(*                                                                         *)
(*   Types    the variables, and the fields of the running job.            *)
(*   Ready    what a deploy has staged, and then put in place, is its      *)
(*            release.                                                     *)
(*   Sound    outside a swap, the packages of a tree are those of its      *)
(*            lockfile, unless an agent's death tore it.                   *)
(*   Before   the snapshot of a deploy holds what was there before it.     *)
(*   Down     no app of this website runs while its files move, except one *)
(*            that outlived its stop, or a container pm2 mode knows not of.*)
(***************************************************************************)
EXTENDS DeployEngine, TLAPS

Step == {"none", "begin", "unpack", "build", "package", "stop", "snapDrop", "snapFiles", "swapGen",
         "swapFiles", "migrate", "start", "check", "deliver", "undo", "restoreGen", "restoreFiles",
         "restart", "undone", "restored", "checkRestart", "stopped", "started"}

Type == {"none", "deploy", "rollback", "restart", "stop", "start", "remove"}

Job == [type : Type, step : Step, release : Release \cup {None}, rt : Runtime, rollback : BOOLEAN,
        was : Tree, served : Release \cup {None, Mixed}, packed : Release \cup {None}]

Types == TypeOK /\ job \in Job /\ (job.type = "none" => job.step = "none")

Deploying(steps) == job.type = "deploy" /\ job.step \in steps

\* The generated directories are of this job's release, for its runtime.
OfRelease(gen) == gen # None /\ gen.of = job.release /\ gen.rt = job.rt

Ready ==
  /\ job.type = "deploy" => job.release \in Release /\ job.packed \in {None, job.release}
  /\ Deploying({"build", "package", "stop", "snapDrop", "snapFiles", "swapGen", "swapFiles"}) =>
       staging.files = job.release
  /\ Deploying({"package", "stop", "snapDrop", "snapFiles", "swapGen"}) =>
       /\ OfRelease(staging.gen)
       /\ "staging" \notin torn => staging.gen.lock = LockOf[job.release]
  /\ Deploying({"swapFiles", "migrate", "start", "check", "deliver"}) => OfRelease(disk.gen)
  /\ Deploying({"swapFiles"}) /\ "staging" \notin torn => disk.gen.lock = LockOf[job.release]
  /\ Deploying({"migrate", "start", "check", "deliver"}) =>
       /\ disk.files = job.release
       /\ "disk" \notin torn => disk.gen.lock = LockOf[job.release]
  /\ Deploying({"deliver"}) => app.serves = job.release

\* Packages for files: those of the lockfile among the files.
Fit(gen, files) == files # None => gen # None /\ gen.lock = LockOf[files]

InSwap == job.step \in {"snapFiles", "swapGen", "swapFiles", "restoreFiles"}

Sound ==
  /\ ~InSwap /\ "disk" \notin torn => Fit(disk.gen, disk.files)
  /\ job.step = "snapFiles" => /\ previous.files = None
                               /\ "previous" \notin torn => Fit(previous.gen, disk.files)
  /\ job.step = "swapGen" /\ "previous" \notin torn => Fit(previous.gen, previous.files)
  /\ job.step = "restoreFiles" => previous.gen = None
  /\ "previous" \notin torn => Fit(IF previous.gen = None THEN disk.gen ELSE previous.gen, previous.files)

Before ==
  /\ Deploying({"begin", "unpack", "build", "package", "stop", "snapDrop"}) => disk = job.was
  /\ Deploying({"snapFiles"}) => previous.gen = job.was.gen /\ disk.files = job.was.files
  /\ Deploying({"swapGen", "swapFiles", "migrate", "start", "check", "deliver", "undo", "restoreGen"}) =>
       previous.files = job.was.files /\ previous.gen = job.was.gen
  /\ Deploying({"restoreFiles"}) => previous.files = job.was.files
  /\ Deploying({"restart", "undone"}) => disk.files = job.was.files
  /\ Deploying({"restoreFiles", "restart", "undone"}) =>
       (job.was.gen # None => disk.gen = job.was.gen)

Moving == {"snapDrop", "snapFiles", "swapGen", "swapFiles", "restoreGen", "restoreFiles"}

Down ==
  /\ job.step \in Moving => app.in = "none" \/ lingers \/ (app.in = "docker" /\ job.rt = "pm2")

Inv == Types /\ Ready /\ Sound /\ Before /\ Down

-----------------------------------------------------------------------------
(* How a step leaves the running job.                                      *)

\* A step that goes on with the job.
Goes(step) == job' = [job EXCEPT !.step = step]

\* A step that ends the job: the working directory is empty.
Over == job' = Idle /\ staging' = Nothing

\* What goes on keeps every field of the job but its step.
LEMMA GoesOn ==
  ASSUME job \in Job, NEW s \in Step, Goes(s)
  PROVE  /\ job' \in Job /\ job'.step = s /\ job'.type = job.type /\ job'.release = job.release
         /\ job'.rt = job.rt /\ job'.rollback = job.rollback /\ job'.was = job.was
         /\ job'.packed = job.packed
BY DEF Goes, Job

\* A job that is over satisfies all that is said of running ones.
LEMMA IdleFits == Idle \in Job /\ Idle.type = "none" /\ Idle.step = "none"
BY DEF Idle, Job, Type, Step, Runtime, Nothing, Tree

\* The working directory is empty, and the job is over.
LEMMA EndsFits ==
  ASSUME NEW how, Ends(how)
  PROVE  /\ job' \in Job /\ staging' \in Tree /\ outcome' = how
         /\ job'.type = "none" /\ job'.step = "none" /\ job'.release = None /\ job'.packed = None
         /\ job'.was \in Tree
BY IdleFits DEF Ends, Nothing, Tree, Idle, Job

\* Types, from what a step makes of each variable.
LEMMA TypesFrom ==
  ASSUME job' \in Job, job'.type = "none" => job'.step = "none", disk' \in Tree, staging' \in Tree,
         previous' \in [there : BOOLEAN, files : Release \cup {None}, gen : Gen \cup {None}],
         app' \in [in : Runtime \cup {"none"}, serves : Release \cup {None, Mixed}],
         lingers' \in BOOLEAN, aborted' \in BOOLEAN, torn' \subseteq {"disk", "staging", "previous"}
  PROVE  Types'
BY DEF Types, TypeOK, Job

\* What the variables of a tree, of the snapshot and of the app are made of.
LEMMA TypeParts ==
  ASSUME Types
  PROVE  /\ job \in Job /\ (job.type = "none" => job.step = "none") /\ disk \in Tree /\ staging \in Tree
         /\ previous \in [there : BOOLEAN, files : Release \cup {None}, gen : Gen \cup {None}]
         /\ app \in [in : Runtime \cup {"none"}, serves : Release \cup {None, Mixed}]
         /\ lingers \in BOOLEAN /\ aborted \in BOOLEAN /\ torn \subseteq {"disk", "staging", "previous"}
         /\ disk.files \in Release \cup {None} /\ disk.gen \in Gen \cup {None}
         /\ staging.files \in Release \cup {None} /\ staging.gen \in Gen \cup {None}
         /\ previous.files \in Release \cup {None} /\ previous.gen \in Gen \cup {None}
         /\ app.serves \in Release \cup {None, Mixed} /\ app.in \in Runtime \cup {"none"}
BY DEF Types, TypeOK, Tree

\* Stopping and starting the app: what stays typed.
LEMMA StopTypes ==
  ASSUME Types, job.type # "none", NEW next \in Step, StopApp(next)
  PROVE  Types'
<1>1. /\ app' \in {app, Stopped} /\ lingers' \in {lingers, TRUE}
      /\ (Goes(next) /\ staging' = staging) \/ Fails
      /\ UNCHANGED <<disk, previous, aborted, torn>>
  BY DEF StopApp, GoTo, Goes
<1>2. job' \in Job /\ staging' \in Tree /\ (job'.type = "none" => job'.step = "none")
  BY <1>1, TypeParts, GoesOn, EndsFits DEF Fails
<1>3. Stopped \in [in : Runtime \cup {"none"}, serves : Release \cup {None, Mixed}]
  BY DEF Stopped
<1> QED  BY <1>1, <1>2, <1>3, TypeParts, TypesFrom

\* The same for a start.
LEMMA StartTypes ==
  ASSUME Types, job.type # "none", NEW next \in Step, StartApp(next)
  PROVE  Types'
<1>1. /\ app' \in {app, Stopped, Started} /\ lingers' \in {lingers, FALSE}
      /\ (Goes(next) /\ staging' = staging) \/ Fails
      /\ UNCHANGED <<disk, previous, aborted, torn>>
  BY DEF StartApp, GoTo, Goes, Kept
<1>2. job' \in Job /\ staging' \in Tree /\ (job'.type = "none" => job'.step = "none")
  BY <1>1, TypeParts, GoesOn, EndsFits DEF Fails
<1>3. Started \in [in : Runtime \cup {"none"}, serves : Release \cup {None, Mixed}]
      /\ Stopped \in [in : Runtime \cup {"none"}, serves : Release \cup {None, Mixed}]
  BY TypeParts DEF Started, Stopped, Serves, Job
<1> QED  BY <1>1, <1>2, <1>3, TypeParts, TypesFrom

\* Types are kept by every step.
LEMMA TypesKept == Types /\ Ready /\ [Next]_vars => Types'
<1> SUFFICES ASSUME Types, Ready, [Next]_vars PROVE Types'
  OBVIOUS
<1>1. CASE UNCHANGED vars
  BY <1>1, TypeParts, TypesFrom DEF vars, trees, counters
<1>2. ASSUME NEW type \in Type \ {"none"}, NEW r \in Release \cup {None}, NEW rt \in Runtime,
             NEW auto \in BOOLEAN, Begin(type, r, rt, auto)
      PROVE  Types'
  <2>1. job' \in Job /\ job'.type # "none"
    BY <1>2, TypeParts DEF Begin, Job, Step
  <2> QED  BY <1>2, <2>1, TypeParts, TypesFrom DEF Begin, trees
<1>3. CASE Abort
  BY <1>3, TypeParts, TypesFrom DEF Abort, trees
<1>4. CASE Dies
  <2>1. torn' \subseteq {"disk", "staging", "previous"} /\ job' = Idle /\ aborted' = FALSE
        /\ UNCHANGED <<disk, staging, previous, app, lingers>>
    BY <1>4, TypeParts DEF Dies, trees
  <2> QED  BY <2>1, IdleFits, TypeParts, TypesFrom
<1>5. CASE Download \/ PackageBuild \/ Deliver \/ Migrate \/ Check \/ Undone \/ Restored \/ CheckRestart \/ Done
  <2>1. job' \in Job /\ staging' \in Tree /\ (job'.type = "none" => job'.step = "none")
    <3>1. CASE Download \/ Migrate
      BY <3>1, TypeParts, GoesOn, EndsFits DEF Download, Migrate, GoTo, Goes, Fails, Step, At
    <3>2. CASE PackageBuild
      <4>1. /\ staging' = staging /\ job.type = "deploy"
            /\ \E file \in {staging.files, None} : job' = [job EXCEPT !.packed = file, !.step = "stop"]
        BY <3>2 DEF PackageBuild, trees, At
      <4> QED  BY <4>1, TypeParts DEF Job, Step
    <3>3. CASE Check
      BY <3>3, TypeParts, GoesOn, EndsFits DEF Check, GoTo, Goes, Fails, Step, At
    <3>4. CASE Deliver \/ Undone \/ Restored \/ CheckRestart \/ Done
      BY <3>4, EndsFits DEF Deliver, Undone, Restored, CheckRestart, Done, Fails
    <3> QED  BY <1>5, <3>1, <3>2, <3>3, <3>4
  <2>2. UNCHANGED <<disk, previous, app, lingers, aborted, torn>>
    BY <1>5 DEF Download, PackageBuild, Deliver, Migrate, Check, Undone, Restored, CheckRestart, Done, trees
  <2> QED  BY <2>1, <2>2, TypeParts, TypesFrom
<1>6. CASE Unpack
  <2>1. staging' \in Tree /\ job' \in Job /\ (job'.type = "none" => job'.step = "none")
    <3>1. CASE job.type = "deploy" /\ staging' = [files |-> job.release, gen |-> None] /\ GoTo("build")
      BY <3>1, TypeParts, GoesOn DEF GoTo, Goes, Step, Tree, Job
    <3> QED  BY <1>6, <3>1, EndsFits DEF Unpack, Fails, At
  <2> QED  BY <1>6, <2>1, TypeParts, TypesFrom DEF Unpack
<1>7. CASE BuildStaging
  <2>1. /\ staging' \in Tree /\ job' \in Job /\ (job'.type = "none" => job'.step = "none")
        /\ torn' \subseteq {"disk", "staging", "previous"}
    <3>1. CASE Fails /\ UNCHANGED torn
      BY <3>1, EndsFits, TypeParts DEF Fails
    <3>2. ASSUME staging' = [staging EXCEPT !.gen = [of |-> job.release, lock |-> Installed, rt |-> job.rt]],
                 IF Unchanged THEN Inherits("staging", "disk") ELSE torn' = torn \ {"staging"}, GoTo("package")
          PROVE  /\ staging' \in Tree /\ job' \in Job /\ (job'.type = "none" => job'.step = "none")
                 /\ torn' \subseteq {"disk", "staging", "previous"}
      <4>0. job.type = "deploy" /\ job.release \in Release
        BY <1>7 DEF BuildStaging, At, Ready
      <4>1. Installed \in {LockOf[r] : r \in Release}
        BY <4>0, TypeParts DEF Installed, Unchanged, Seeded, Gen
      <4>2. [of |-> job.release, lock |-> Installed, rt |-> job.rt] \in Gen
        BY <4>0, <4>1, TypeParts DEF Gen, Job
      <4>3. staging' \in Tree
        BY <3>2, <4>2, TypeParts DEF Tree
      <4>4. torn' \subseteq {"disk", "staging", "previous"}
        BY <3>2, TypeParts DEF Inherits
      <4> QED  BY <3>2, <4>0, <4>3, <4>4, TypeParts, GoesOn DEF GoTo, Goes, Step
    <3> QED  BY <1>7, <3>1, <3>2 DEF BuildStaging
  <2> QED  BY <1>7, <2>1, TypeParts, TypesFrom DEF BuildStaging
<1>8. CASE SnapGen \/ SnapFiles \/ SwapGen \/ SwapFiles
  <2>1. job' \in Job /\ job'.type # "none"
    BY <1>8, TypeParts, GoesOn DEF SnapGen, SnapFiles, SwapGen, SwapFiles, GoTo, Goes, Step, At
  <2>2. disk' \in Tree /\ staging' \in Tree
    BY <1>8, TypeParts DEF SnapGen, SnapFiles, SwapGen, SwapFiles, Tree
  <2>3. previous' \in [there : BOOLEAN, files : Release \cup {None}, gen : Gen \cup {None}]
    <3>1. CASE SnapGen
      <4>1. previous' = [there |-> TRUE, files |-> None, gen |-> disk.gen] /\ disk.gen \in Gen \cup {None}
        BY <3>1, TypeParts DEF SnapGen
      <4> QED  BY <4>1
    <3>2. CASE SnapFiles
      <4>1. previous' = [previous EXCEPT !.files = disk.files] /\ disk.files \in Release \cup {None}
        BY <3>2, TypeParts DEF SnapFiles
      <4> QED  BY <4>1, TypeParts
    <3>3. CASE SwapGen \/ SwapFiles
      BY <3>3, TypeParts DEF SwapGen, SwapFiles
    <3> QED  BY <1>8, <3>1, <3>2, <3>3
  <2>4. torn' \subseteq {"disk", "staging", "previous"} /\ UNCHANGED <<app, lingers, aborted>>
    BY <1>8, TypeParts DEF SnapGen, SnapFiles, SwapGen, SwapFiles, Inherits
  <2> QED  BY <2>1, <2>2, <2>3, <2>4, TypeParts, TypesFrom
<1>9. CASE RestoreGen \/ RestoreFiles
  <2>1. job.type # "none"
    BY <1>9, TypeParts DEF RestoreGen, RestoreFiles
  <2>2. job' \in Job /\ staging' \in Tree /\ (job'.type = "none" => job'.step = "none")
    BY <1>9, <2>1, TypeParts, GoesOn, EndsFits DEF RestoreGen, RestoreFiles, GoTo, Goes, Fails, Step
  <2>3. disk' \in Tree
    BY <1>9, TypeParts DEF RestoreGen, RestoreFiles, Tree, RestoredGen
  <2>4. previous' \in [there : BOOLEAN, files : Release \cup {None}, gen : Gen \cup {None}]
    BY <1>9, TypeParts DEF RestoreGen, RestoreFiles
  <2>5. torn' \subseteq {"disk", "staging", "previous"} /\ UNCHANGED <<app, lingers, aborted>>
    BY <1>9, TypeParts DEF RestoreGen, RestoreFiles, Inherits
  <2> QED  BY <2>2, <2>3, <2>4, <2>5, TypeParts, TypesFrom
<1>10. CASE Remove
  <2>1. /\ app' = Stopped /\ disk' = Nothing /\ previous' = NoSnapshot /\ torn' = {} /\ lingers' = FALSE
        /\ aborted' = aborted /\ Ends("removed")
    BY <1>10 DEF Remove
  <2>2. Nothing \in Tree /\ Stopped \in [in : Runtime \cup {"none"}, serves : Release \cup {None, Mixed}]
        /\ NoSnapshot \in [there : BOOLEAN, files : Release \cup {None}, gen : Gen \cup {None}]
    BY DEF Nothing, Tree, Stopped, NoSnapshot
  <2> QED  BY <2>1, <2>2, EndsFits, TypeParts, TypesFrom
<1>11. CASE Stop \/ Undo \/ RollbackStops \/ RestartStops \/ StopOnly
  BY <1>11, StopTypes DEF Stop, Undo, RollbackStops, RestartStops, StopOnly, At, Step
<1>12. CASE Start \/ UndoStarts \/ RollbackStarts \/ RestartStarts \/ StartOnly
  BY <1>12, StartTypes DEF Start, UndoStarts, RollbackStarts, RestartStarts, StartOnly, At, Step
<1>13. CASE Order
  BY <1>2, <1>13 DEF Order, Type
<1> QED
  BY <1>1, <1>3, <1>4, <1>5, <1>6, <1>7, <1>8, <1>9, <1>10, <1>11, <1>12, <1>13 DEF Next, Window, Back, Others

-----------------------------------------------------------------------------
(* What a deploy puts in place is its release.                             *)

\* A job of another type, or none, is not a deploy.
LEMMA ReadyOfOthers == ASSUME job'.type # "deploy" PROVE Ready' /\ Before'
BY DEF Ready, Before, Deploying

\* Where nothing of a release has to be ready.
LEMMA ReadyEarlyOrLate ==
  ASSUME Types, Ready, job.type = "deploy", Goes(job'.step),
         job'.step \in {"unpack", "undo", "restoreGen", "restoreFiles", "restart", "undone"}
  PROVE  Ready'
<1>1. /\ job'.type = "deploy" /\ job'.release = job.release /\ job'.packed = job.packed
  BY TypeParts, GoesOn DEF Step
<1> QED  BY <1>1 DEF Ready, Deploying

\* Every step keeps a deploy's release ready.
LEMMA ReadyKept == ASSUME None \notin Gen, Inv, Types', [Next]_vars PROVE Ready'
<1>0. Types /\ Ready /\ job \in Job
  BY TypeParts DEF Inv
<1>1. ASSUME UNCHANGED <<job, disk, staging, app, torn>>
      PROVE  Ready'
  BY <1>0, <1>1 DEF Ready, Deploying, OfRelease
<1>2. ASSUME NEW how, Ends(how)
      PROVE  Ready'
  BY <1>2, EndsFits, ReadyOfOthers
<1>3. CASE Order
  <2>1. CASE \E r \in Release, rt \in Runtime, auto \in BOOLEAN : Begin("deploy", r, rt, auto)
    BY <2>1 DEF Begin, Ready, Deploying
  <2>2. CASE \E type \in {"rollback", "restart", "stop", "start", "remove"}, rt \in Runtime : Begin(type, None, rt, TRUE)
    BY <2>2, ReadyOfOthers DEF Begin
  <2> QED  BY <1>3, <2>1, <2>2 DEF Order
<1>4. CASE Abort
  BY <1>1, <1>4 DEF Abort, trees
<1>5. CASE Dies
  BY <1>5, IdleFits, ReadyOfOthers DEF Dies
<1>6. CASE Download
  <2>1. CASE GoTo("unpack")
    BY <1>0, <1>6, <2>1, ReadyEarlyOrLate, GoesOn DEF Download, At, GoTo, Goes, Step
  <2> QED  BY <1>2, <1>6, <2>1 DEF Download, Fails
<1>7. CASE Unpack
  <2>1. CASE staging' = [files |-> job.release, gen |-> None] /\ GoTo("build")
    <3>1. job'.type = "deploy" /\ job'.step = "build" /\ job'.release = job.release /\ job'.packed = job.packed
      BY <1>0, <1>7, <2>1, GoesOn DEF Unpack, At, GoTo, Goes, Step
    <3> QED  BY <1>0, <1>7, <2>1, <3>1 DEF Unpack, At, Ready, Deploying
  <2> QED  BY <1>2, <1>7, <2>1 DEF Unpack, Fails
<1>8. CASE BuildStaging
  <2>1. ASSUME staging' = [staging EXCEPT !.gen = [of |-> job.release, lock |-> Installed, rt |-> job.rt]],
               IF Unchanged THEN Inherits("staging", "disk") ELSE torn' = torn \ {"staging"}, GoTo("package")
        PROVE  Ready'
    <3>1. /\ job'.type = "deploy" /\ job'.step = "package" /\ job'.release = job.release
          /\ job'.packed = job.packed /\ job'.rt = job.rt
      BY <1>0, <1>8, <2>1, GoesOn DEF BuildStaging, At, GoTo, Goes, Step
    <3>2. job.release \in Release /\ job.packed \in {None, job.release} /\ staging.files = job.release
      BY <1>0, <1>8 DEF BuildStaging, At, Ready, Deploying
    <3>3. /\ staging'.files = job.release /\ staging'.gen = [of |-> job.release, lock |-> Installed, rt |-> job.rt]
      BY <1>0, <2>1, <3>2, TypeParts DEF Tree
    <3>4. staging'.gen # None
      <4>1. Installed \in {LockOf[r] : r \in Release}
        BY <1>0, <3>2, TypeParts DEF Installed, Unchanged, Seeded, Gen
      <4>2. [of |-> job.release, lock |-> Installed, rt |-> job.rt] \in Gen
        BY <1>0, <3>2, <4>1 DEF Gen, Job
      <4> QED  BY <3>3, <4>2
    <3>5. "staging" \notin torn' => Installed = LockOf[job.release]
      <4>1. CASE Unchanged /\ "disk" \notin torn
        BY <1>0, <1>8, <4>1 DEF Unchanged, Seeded, Inv, Sound, Fit, InSwap, BuildStaging, At, Installed
      <4>2. CASE Unchanged /\ "disk" \in torn
        BY <2>1, <4>2 DEF Inherits
      <4>3. CASE ~Unchanged
        BY <4>3 DEF Installed
      <4> QED  BY <4>1, <4>2, <4>3
    <3> QED  BY <3>1, <3>2, <3>3, <3>4, <3>5 DEF Ready, Deploying, OfRelease
  <2> QED  BY <1>2, <1>8, <2>1 DEF BuildStaging, Fails
<1>9. CASE PackageBuild
  <2>1. PICK file \in {staging.files, None} : job' = [job EXCEPT !.packed = file, !.step = "stop"]
    BY <1>9 DEF PackageBuild
  <2>2. /\ job'.type = "deploy" /\ job'.step = "stop" /\ job'.release = job.release
        /\ job'.packed = file /\ job'.rt = job.rt /\ UNCHANGED <<disk, staging, torn, app>>
    BY <1>0, <1>9, <2>1 DEF PackageBuild, At, Job, trees
  <2>3. staging.files = job.release
    BY <1>0, <1>9 DEF PackageBuild, At, Ready, Deploying
  <2> QED  BY <1>0, <1>9, <2>2, <2>3 DEF PackageBuild, At, Ready, Deploying, OfRelease
<1>10. CASE Stop
  <2>1. CASE Goes("snapDrop") /\ UNCHANGED staging
    <3>1. /\ job'.type = "deploy" /\ job'.step = "snapDrop" /\ job'.release = job.release
          /\ job'.packed = job.packed /\ job'.rt = job.rt /\ UNCHANGED <<disk, staging, torn>>
      BY <1>0, <1>10, <2>1, GoesOn DEF Stop, StopApp, At, Step
    <3> QED  BY <1>0, <1>10, <3>1 DEF Stop, At, Ready, Deploying, OfRelease
  <2> QED  BY <1>2, <1>10, <2>1 DEF Stop, StopApp, Fails, GoTo, Goes
<1>11. CASE SnapGen \/ SnapFiles
  <2>1. /\ job'.type = "deploy" /\ job'.step \in {"snapFiles", "swapGen"} /\ job'.release = job.release
        /\ job'.packed = job.packed /\ job'.rt = job.rt /\ UNCHANGED staging
        /\ "staging" \in torn' <=> "staging" \in torn
    BY <1>0, <1>11, GoesOn DEF SnapGen, SnapFiles, At, Step, GoTo, Goes, Inherits
  <2>2. job.type = "deploy" /\ job.step \in {"snapDrop", "snapFiles"}
    BY <1>11 DEF SnapGen, SnapFiles, At
  <2> QED  BY <1>0, <2>1, <2>2 DEF Ready, Deploying, OfRelease
<1>12. CASE SwapGen
  <2>1. /\ job'.type = "deploy" /\ job'.step = "swapFiles" /\ job'.release = job.release
        /\ job'.packed = job.packed /\ job'.rt = job.rt /\ UNCHANGED torn
    BY <1>0, <1>12, GoesOn DEF SwapGen, At, Step, GoTo, Goes
  <2>2. disk'.gen = staging.gen /\ staging'.files = staging.files
    BY <1>0, <1>12, TypeParts DEF SwapGen, Tree
  <2> QED  BY <1>0, <1>12, <2>1, <2>2 DEF SwapGen, At, Ready, Deploying, OfRelease
<1>13. CASE SwapFiles
  <2>1. /\ job'.type = "deploy" /\ job'.step = "migrate" /\ job'.release = job.release
        /\ job'.packed = job.packed /\ job'.rt = job.rt
    BY <1>0, <1>13, GoesOn DEF SwapFiles, At, Step, GoTo, Goes
  <2>2. disk'.gen = disk.gen /\ disk'.files = staging.files /\ ("disk" \in torn' <=> "staging" \in torn)
    BY <1>0, <1>13, TypeParts DEF SwapFiles, Tree, Inherits
  <2> QED  BY <1>0, <1>13, <2>1, <2>2 DEF SwapFiles, At, Ready, Deploying, OfRelease
<1>14. CASE Migrate
  <2>1. CASE Goes("start")
    <3>1. /\ job'.type = "deploy" /\ job'.step = "start" /\ job'.release = job.release
          /\ job'.packed = job.packed /\ job'.rt = job.rt /\ UNCHANGED <<disk, torn>>
      BY <1>0, <1>14, <2>1, GoesOn DEF Migrate, At, Step
    <3> QED  BY <1>0, <1>14, <3>1 DEF Migrate, At, Ready, Deploying, OfRelease
  <2> QED  BY <1>2, <1>14, <2>1 DEF Migrate, Fails, GoTo, Goes
<1>15. CASE Start
  <2>1. CASE Goes("check")
    <3>1. /\ job'.type = "deploy" /\ job'.step = "check" /\ job'.release = job.release
          /\ job'.packed = job.packed /\ job'.rt = job.rt /\ UNCHANGED <<disk, torn>>
      BY <1>0, <1>15, <2>1, GoesOn DEF Start, StartApp, At, Step
    <3> QED  BY <1>0, <1>15, <3>1 DEF Start, At, Ready, Deploying, OfRelease
  <2> QED  BY <1>2, <1>15, <2>1 DEF Start, StartApp, Fails, GoTo, Goes
<1>16. CASE Check
  <2>1. CASE Confirmed /\ Goes("deliver")
    <3>1. /\ job'.type = "deploy" /\ job'.step = "deliver" /\ job'.release = job.release
          /\ job'.packed = job.packed /\ job'.rt = job.rt /\ UNCHANGED <<disk, app, torn>>
      BY <1>0, <1>16, <2>1, GoesOn DEF Check, At, Step
    <3> QED  BY <1>0, <1>16, <2>1, <3>1 DEF Check, At, Ready, Deploying, OfRelease, Confirmed
  <2>2. CASE Goes("undo")
    BY <1>0, <1>16, <2>2, ReadyEarlyOrLate, GoesOn DEF Check, At, Step
  <2> QED  BY <1>2, <1>16, <2>1, <2>2 DEF Check, Fails, GoTo, Goes
<1>17. CASE Deliver \/ Undone \/ Restored \/ CheckRestart \/ Done \/ Remove
  BY <1>2, <1>17 DEF Deliver, Undone, Restored, CheckRestart, Done, Remove, Fails
<1>18. CASE Undo
  BY <1>0, <1>2, <1>18, ReadyEarlyOrLate, GoesOn DEF Undo, StopApp, At, Step, GoTo, Goes, Fails
<1>19. CASE RestoreGen \/ RestoreFiles
  <2>1. (\E how : Ends(how)) \/ (\E next \in {"restoreFiles", "restart"} : Goes(next))
    BY <1>19 DEF RestoreGen, RestoreFiles, GoTo, Goes, Fails
  <2>2. ASSUME NEW next \in {"restoreFiles", "restart"}, Goes(next)
        PROVE  Ready'
    <3>1. job'.step = next /\ job'.type = job.type
      BY <1>0, <2>2, GoesOn DEF Step
    <3> QED  BY <1>0, <2>2, <3>1, ReadyEarlyOrLate, ReadyOfOthers
  <2> QED  BY <1>2, <2>1, <2>2
<1>20. CASE UndoStarts
  BY <1>0, <1>2, <1>20, ReadyEarlyOrLate, GoesOn DEF UndoStarts, StartApp, At, Step, GoTo, Goes, Fails
<1>21. CASE RollbackStops \/ RestartStops \/ StopOnly
  <2>1. (\E how : Ends(how)) \/ (\E next \in {"restoreGen", "start", "stopped"} : Goes(next))
    BY <1>21 DEF RollbackStops, RestartStops, StopOnly, StopApp, GoTo, Goes, Fails
  <2>2. job.type # "deploy"
    BY <1>21 DEF RollbackStops, RestartStops, StopOnly, At
  <2> QED  BY <1>0, <1>2, <2>1, <2>2, GoesOn, ReadyOfOthers DEF Step
<1>22. CASE RollbackStarts \/ RestartStarts \/ StartOnly
  <2>1. (\E how : Ends(how)) \/ (\E next \in {"restored", "checkRestart", "started"} : Goes(next))
    BY <1>22 DEF RollbackStarts, RestartStarts, StartOnly, StartApp, GoTo, Goes, Fails
  <2>2. job.type # "deploy"
    BY <1>22 DEF RollbackStarts, RestartStarts, StartOnly, At
  <2> QED  BY <1>0, <1>2, <2>1, <2>2, GoesOn, ReadyOfOthers DEF Step
<1>23. CASE UNCHANGED vars
  BY <1>1, <1>23 DEF vars, trees
<1> QED
  BY <1>3, <1>4, <1>5, <1>6, <1>7, <1>8, <1>9, <1>10, <1>11, <1>12, <1>13, <1>14, <1>15, <1>16, <1>17,
     <1>18, <1>19, <1>20, <1>21, <1>22, <1>23 DEF Next, Window, Back, Others

-----------------------------------------------------------------------------
(* The packages of a tree.                                                 *)

Swaps == {"snapFiles", "swapGen", "swapFiles", "restoreFiles"}

\* Outside a swap, a step that moves no tree and lends no packages keeps them sound.
LEMMA SoundQuietly ==
  ASSUME Sound, UNCHANGED <<disk, previous>>, job.step \notin Swaps, job'.step \notin Swaps,
         "disk" \in torn' <=> "disk" \in torn, "previous" \in torn' <=> "previous" \in torn
  PROVE  Sound'
BY DEF Sound, InSwap, Swaps, Fit

\* Every step keeps the packages those of the lockfile, or remembers that it did not.
LEMMA SoundKept == ASSUME Inv, Types', [Next]_vars PROVE Sound'
<1>0. Types /\ Ready /\ Sound /\ job \in Job
  BY TypeParts DEF Inv
<1>1. ASSUME UNCHANGED <<disk, previous, torn>>, job.step \notin Swaps,
             (\E how : Ends(how)) \/ (\E next \in Step \ Swaps : Goes(next))
      PROVE  Sound'
  <2>1. job'.step \notin Swaps
    BY <1>0, <1>1, EndsFits, GoesOn DEF Swaps
  <2> QED  BY <1>0, <1>1, <2>1, SoundQuietly
<1>2. CASE Order
  <2>1. /\ job.type = "none" /\ job'.step = "begin" /\ UNCHANGED <<disk, previous, torn>>
    BY <1>2 DEF Order, Begin, trees
  <2>2. job.step = "none"
    BY <1>0, <2>1 DEF Types
  <2> QED  BY <1>0, <2>1, <2>2, SoundQuietly DEF Swaps
<1>3. CASE Abort \/ UNCHANGED vars
  BY <1>0, <1>3 DEF Abort, vars, trees, Sound, InSwap, Fit
<1>4. CASE Dies
  <2>1. /\ UNCHANGED <<disk, previous>> /\ job'.step = "none"
        /\ "previous" \in torn' <=> "previous" \in torn
        /\ "disk" \notin torn' => job.step \notin Swaps /\ "disk" \notin torn
    BY <1>4, IdleFits DEF Dies, trees, Swaps
  <2> QED  BY <1>0, <2>1 DEF Sound, InSwap, Swaps, Fit
<1>5. CASE Download \/ Unpack \/ Deliver \/ Migrate \/ Check \/ Undone \/ Restored \/ CheckRestart \/ Done
  <2>1. UNCHANGED <<disk, previous, torn>> /\ job.step \notin Swaps
    BY <1>5 DEF Download, Unpack, Deliver, Migrate, Check, Undone, Restored, CheckRestart, Done, At, Swaps
  <2>2. (\E how : Ends(how)) \/ (\E next \in {"unpack", "build", "start", "deliver", "undo"} : Goes(next))
    BY <1>5 DEF Download, Unpack, Deliver, Migrate, Check, Undone, Restored, CheckRestart, Done, Fails, GoTo, Goes
  <2> QED  BY <1>1, <2>1, <2>2 DEF Step, Swaps
<1>6. CASE BuildStaging
  <2>1. /\ UNCHANGED <<disk, previous>> /\ job.step = "build"
        /\ "disk" \in torn' <=> "disk" \in torn
        /\ "previous" \in torn' <=> "previous" \in torn
        /\ (\E how : Ends(how)) \/ Goes("package")
    BY <1>6 DEF BuildStaging, At, Inherits, Fails, GoTo, Goes
  <2>2. job'.step \in {"none", "package"}
    BY <1>0, <2>1, EndsFits, GoesOn DEF Step
  <2> QED  BY <1>0, <2>1, <2>2, SoundQuietly DEF Swaps
<1>7. CASE PackageBuild
  <2>1. job.step = "package" /\ job'.step = "stop" /\ UNCHANGED <<disk, previous, torn>>
    BY <1>0, <1>7 DEF PackageBuild, At, trees, Job
  <2> QED  BY <1>0, <2>1, SoundQuietly DEF Swaps
<1>8. CASE Stop \/ Undo \/ RollbackStops \/ RestartStops \/ StopOnly
  <2>1. UNCHANGED <<disk, previous, torn>> /\ job.step \notin Swaps
    BY <1>8 DEF Stop, Undo, RollbackStops, RestartStops, StopOnly, StopApp, At, Swaps
  <2>2. (\E how : Ends(how)) \/ (\E next \in {"snapDrop", "restoreGen", "start", "stopped"} : Goes(next))
    BY <1>8 DEF Stop, Undo, RollbackStops, RestartStops, StopOnly, StopApp, Fails, GoTo, Goes
  <2> QED  BY <1>1, <2>1, <2>2 DEF Step, Swaps
<1>9. CASE Start \/ UndoStarts \/ RollbackStarts \/ RestartStarts \/ StartOnly
  <2>1. UNCHANGED <<disk, previous, torn>> /\ job.step \notin Swaps
    BY <1>9 DEF Start, UndoStarts, RollbackStarts, RestartStarts, StartOnly, StartApp, At, Swaps
  <2>2. (\E how : Ends(how)) \/ (\E next \in {"check", "undone", "restored", "checkRestart", "started"} : Goes(next))
    BY <1>9 DEF Start, UndoStarts, RollbackStarts, RestartStarts, StartOnly, StartApp, Fails, GoTo, Goes
  <2> QED  BY <1>1, <2>1, <2>2 DEF Step, Swaps
<1>10. CASE SnapGen
  <2>1. /\ job.step = "snapDrop" /\ job'.step = "snapFiles"
    BY <1>0, <1>10, GoesOn DEF SnapGen, At, GoTo, Goes, Step
  <2>2. /\ previous'.files = None /\ previous'.gen = disk.gen /\ disk'.files = disk.files
        /\ "previous" \in torn' <=> "disk" \in torn
    BY <1>0, <1>10, TypeParts DEF SnapGen, Inherits, Tree
  <2>3. "previous" \notin torn' => Fit(disk.gen, disk.files)
    BY <1>0, <2>1, <2>2 DEF Sound, InSwap
  <2> QED  BY <2>1, <2>2, <2>3 DEF Sound, InSwap, Fit
<1>11. CASE SnapFiles
  <2>1. /\ job.step = "snapFiles" /\ job'.step = "swapGen"
    BY <1>0, <1>11, GoesOn DEF SnapFiles, At, GoTo, Goes, Step
  <2>2. /\ previous'.files = disk.files /\ previous'.gen = previous.gen /\ UNCHANGED <<disk, torn>>
    BY <1>0, <1>11, TypeParts DEF SnapFiles
  <2>3. "previous" \notin torn' => Fit(previous'.gen, previous'.files)
    BY <1>0, <2>1, <2>2 DEF Sound
  <2> QED  BY <2>1, <2>3 DEF Sound, InSwap, Fit
<1>12. CASE SwapGen
  <2>1. /\ job.step = "swapGen" /\ job'.step = "swapFiles" /\ UNCHANGED <<previous, torn>>
    BY <1>0, <1>12, GoesOn DEF SwapGen, At, GoTo, Goes, Step
  <2>2. "previous" \notin torn => Fit(previous.gen, previous.files)
    BY <1>0, <2>1 DEF Sound
  <2> QED  BY <2>1, <2>2 DEF Sound, InSwap, Fit
<1>13. CASE SwapFiles
  <2>1. /\ job.type = "deploy" /\ job.step = "swapFiles" /\ job'.step = "migrate"
    BY <1>0, <1>13, GoesOn DEF SwapFiles, At, GoTo, Goes, Step
  <2>2. /\ disk'.files = staging.files /\ disk'.gen = disk.gen /\ UNCHANGED previous
        /\ "disk" \in torn' <=> "staging" \in torn
        /\ "previous" \in torn' <=> "previous" \in torn
    BY <1>0, <1>13, TypeParts DEF SwapFiles, Inherits, Tree
  <2>3. "disk" \notin torn' => Fit(disk'.gen, disk'.files)
    BY <1>0, <2>1, <2>2 DEF Ready, Deploying, OfRelease, Fit
  <2> QED  BY <1>0, <2>1, <2>2, <2>3 DEF Sound, InSwap, Fit
<1>14. CASE RestoreGen
  <2>1. CASE previous.there
    <3>1. job.step = "restoreGen" /\ job'.step = "restoreFiles" /\ UNCHANGED torn
      BY <1>0, <1>14, <2>1, GoesOn DEF RestoreGen, GoTo, Goes, Step
    <3>2. /\ disk'.gen = (IF previous.gen = None THEN disk.gen ELSE previous.gen)
          /\ previous'.gen = None /\ previous'.files = previous.files
      BY <1>0, <1>14, <2>1, TypeParts DEF RestoreGen, RestoredGen, Tree
    <3>3. "previous" \notin torn => Fit(disk'.gen, previous.files)
      BY <1>0, <3>2 DEF Sound
    <3> QED  BY <3>1, <3>2, <3>3 DEF Sound, InSwap, Fit
  <2>2. CASE ~previous.there
    BY <1>1, <1>14, <2>2 DEF RestoreGen, Fails, Swaps
  <2> QED  BY <2>1, <2>2
<1>15. CASE RestoreFiles
  <2>1. job.step = "restoreFiles" /\ job'.step = "restart"
    BY <1>0, <1>15, GoesOn DEF RestoreFiles, GoTo, Goes, Step
  <2>2. /\ disk'.files = previous.files /\ disk'.gen = disk.gen /\ UNCHANGED previous
        /\ "disk" \in torn' <=> "previous" \in torn
        /\ "previous" \in torn' <=> "previous" \in torn
    BY <1>0, <1>15, TypeParts DEF RestoreFiles, Inherits, Tree
  <2>3. previous.gen = None /\ ("previous" \notin torn => Fit(disk.gen, previous.files))
    BY <1>0, <2>1 DEF Sound
  <2> QED  BY <2>1, <2>2, <2>3 DEF Sound, InSwap, Fit
<1>16. CASE Remove
  <2>1. disk'.files = None /\ previous'.files = None /\ job'.step = "none"
    BY <1>16, EndsFits DEF Remove, Nothing, NoSnapshot
  <2> QED  BY <2>1 DEF Sound, InSwap, Fit
<1> QED
  BY <1>2, <1>3, <1>4, <1>5, <1>6, <1>7, <1>8, <1>9, <1>10, <1>11, <1>12, <1>13, <1>14, <1>15, <1>16
  DEF Next, Window, Back, Others

-----------------------------------------------------------------------------
(* What was there before a deploy.                                         *)

Early == {"begin", "unpack", "build", "package", "stop", "snapDrop"}
Late == {"swapGen", "swapFiles", "migrate", "start", "check", "deliver", "undo", "restoreGen"}

\* A step of a deploy that leaves the snapshot alone, and before the window the app directory.
LEMMA BeforeStays ==
  ASSUME Before, job.type = "deploy", UNCHANGED previous, job'.was = job.was,
         \/ job.step \in Early /\ job'.step \in Early /\ UNCHANGED disk
         \/ job.step \in Late /\ job'.step \in Late
  PROVE  Before'
BY DEF Before, Deploying, Early, Late

\* Every step keeps what was there before a deploy: on the disk, then in the snapshot.
LEMMA BeforeKept == ASSUME Inv, [Next]_vars PROVE Before'
<1>0. Types /\ Before /\ job \in Job
  BY TypeParts DEF Inv
<1>1. ASSUME job.type = "deploy", UNCHANGED previous,
             \/ job.step \in Early /\ UNCHANGED disk /\ \E s \in Early : Goes(s)
             \/ job.step \in Late /\ \E s \in Late : Goes(s)
      PROVE  Before'
  <2>1. /\ job'.was = job.was
        /\ \/ job.step \in Early /\ job'.step \in Early
           \/ job.step \in Late /\ job'.step \in Late
    BY <1>0, <1>1, GoesOn DEF Early, Late, Step
  <2>2. job.step \in Early => UNCHANGED disk
    BY <1>1 DEF Early, Late
  <2> QED  BY <1>0, <1>1, <2>1, <2>2, BeforeStays
<1>2. ASSUME NEW how, Ends(how)
      PROVE  Before'
  BY <1>2, EndsFits, ReadyOfOthers
<1>3. CASE Order
  BY <1>3 DEF Order, Begin, Before, Deploying, trees
<1>4. CASE Abort \/ UNCHANGED vars
  BY <1>0, <1>4 DEF Abort, vars, trees, Before, Deploying
<1>5. CASE Dies
  BY <1>5, IdleFits, ReadyOfOthers DEF Dies
<1>6. CASE Download \/ Unpack \/ BuildStaging \/ Migrate \/ Check
  <2>1. job.type = "deploy" /\ UNCHANGED <<disk, previous>>
    BY <1>6 DEF Download, Unpack, BuildStaging, Migrate, Check, At
  <2>2. \/ \E how : Ends(how)
        \/ job.step \in Early /\ \E s \in Early : Goes(s)
        \/ job.step \in Late /\ \E s \in Late : Goes(s)
    BY <1>6 DEF Download, Unpack, BuildStaging, Migrate, Check, At, Fails, GoTo, Goes, Early, Late
  <2> QED  BY <1>1, <1>2, <2>1, <2>2
<1>7. CASE PackageBuild
  <2>1. /\ job.type = "deploy" /\ job.step = "package" /\ job'.step = "stop" /\ job'.was = job.was
        /\ UNCHANGED <<disk, previous>>
    BY <1>0, <1>7 DEF PackageBuild, At, trees, Job
  <2> QED  BY <1>0, <2>1, BeforeStays DEF Early
<1>8. CASE Stop \/ Start \/ Undo
  <2>1. job.type = "deploy" /\ UNCHANGED <<disk, previous>>
    BY <1>8 DEF Stop, Start, Undo, StopApp, StartApp, At
  <2>2. \/ \E how : Ends(how)
        \/ job.step \in Early /\ \E s \in Early : Goes(s)
        \/ job.step \in Late /\ \E s \in Late : Goes(s)
    BY <1>8 DEF Stop, Start, Undo, StopApp, StartApp, At, Fails, GoTo, Goes, Early, Late
  <2> QED  BY <1>1, <1>2, <2>1, <2>2
<1>9. CASE SnapGen
  <2>1. /\ job.type = "deploy" /\ job.step = "snapDrop" /\ job'.step = "snapFiles" /\ job'.was = job.was
    BY <1>0, <1>9, GoesOn DEF SnapGen, At, GoTo, Goes, Step
  <2>2. previous'.gen = disk.gen /\ disk'.files = disk.files
    BY <1>0, <1>9, TypeParts DEF SnapGen, Tree
  <2> QED  BY <1>0, <2>1, <2>2 DEF Before, Deploying
<1>10. CASE SnapFiles
  <2>1. /\ job.type = "deploy" /\ job.step = "snapFiles" /\ job'.step = "swapGen" /\ job'.was = job.was
    BY <1>0, <1>10, GoesOn DEF SnapFiles, At, GoTo, Goes, Step
  <2>2. previous'.files = disk.files /\ previous'.gen = previous.gen
    BY <1>0, <1>10, TypeParts DEF SnapFiles
  <2> QED  BY <1>0, <2>1, <2>2 DEF Before, Deploying
<1>11. CASE SwapGen \/ SwapFiles
  <2>1. job.type = "deploy" /\ job.step \in Late /\ UNCHANGED previous /\ \E s \in Late : Goes(s)
    BY <1>11 DEF SwapGen, SwapFiles, At, GoTo, Goes, Late
  <2> QED  BY <1>1, <2>1
<1>12. CASE RestoreGen
  <2>1. CASE previous.there
    <3>1. /\ job'.type = job.type /\ job.step = "restoreGen" /\ job'.step = "restoreFiles" /\ job'.was = job.was
      BY <1>0, <1>12, <2>1, GoesOn DEF RestoreGen, GoTo, Goes, Step
    <3>2. /\ disk'.gen = (IF previous.gen = None THEN disk.gen ELSE previous.gen)
          /\ previous'.files = previous.files
      BY <1>0, <1>12, <2>1, TypeParts DEF RestoreGen, RestoredGen, Tree
    <3> QED  BY <1>0, <3>1, <3>2 DEF Before, Deploying
  <2> QED  BY <1>2, <1>12, <2>1 DEF RestoreGen, Fails
<1>13. CASE RestoreFiles
  <2>1. /\ job'.type = job.type /\ job.step = "restoreFiles" /\ job'.step = "restart" /\ job'.was = job.was
    BY <1>0, <1>13, GoesOn DEF RestoreFiles, GoTo, Goes, Step
  <2>2. disk'.files = previous.files /\ disk'.gen = disk.gen
    BY <1>0, <1>13, TypeParts DEF RestoreFiles, Tree
  <2> QED  BY <1>0, <2>1, <2>2 DEF Before, Deploying
<1>14. CASE UndoStarts
  <2>1. UNCHANGED disk /\ job.type = "deploy" /\ job.step = "restart" /\ ((\E how : Ends(how)) \/ Goes("undone"))
    BY <1>14 DEF UndoStarts, StartApp, At, Fails, GoTo, Goes
  <2>2. CASE Goes("undone")
    <3>1. job'.type = "deploy" /\ job'.step = "undone" /\ job'.was = job.was
      BY <1>0, <2>1, <2>2, GoesOn DEF Step
    <3> QED  BY <1>0, <2>1, <3>1 DEF Before, Deploying
  <2> QED  BY <1>2, <2>1, <2>2
<1>15. CASE Deliver \/ Undone \/ Restored \/ CheckRestart \/ Done \/ Remove
  BY <1>2, <1>15 DEF Deliver, Undone, Restored, CheckRestart, Done, Remove, Fails
<1>16. CASE RollbackStops \/ RestartStops \/ StopOnly \/ RollbackStarts \/ RestartStarts \/ StartOnly
  <2>1. job.type # "deploy"
    BY <1>16 DEF RollbackStops, RestartStops, StopOnly, RollbackStarts, RestartStarts, StartOnly, At
  <2>2. (\E how : Ends(how)) \/ \E s \in Step : Goes(s)
    BY <1>16 DEF RollbackStops, RestartStops, StopOnly, RollbackStarts, RestartStarts, StartOnly,
                 StopApp, StartApp, Fails, GoTo, Goes, Step
  <2> QED  BY <1>0, <1>2, <2>1, <2>2, GoesOn, ReadyOfOthers
<1> QED
  BY <1>3, <1>4, <1>5, <1>6, <1>7, <1>8, <1>9, <1>10, <1>11, <1>12, <1>13, <1>14, <1>15, <1>16
  DEF Next, Window, Back, Others

-----------------------------------------------------------------------------
(* The app is down while its files move.                                   *)

\* Stopping it: it is down, or the stop went unnoticed, or it is not pm2's.
LEMMA StopsDown ==
  ASSUME Types, Down, NEW next, StopApp(next)
  PROVE  app'.in = "none" \/ lingers' \/ (app'.in = "docker" /\ job.rt = "pm2") \/ (job' = Idle)
<1>1. job.rt \in Runtime
  BY TypeParts DEF Job
<1>2. app' = Stopped => app'.in = "none"
  BY DEF Stopped
<1> QED  BY <1>1, <1>2, TypeParts DEF StopApp, StopReaches, Fails, Ends, Runtime

\* Every step keeps the app down while files move.
LEMMA DownKept == ASSUME Inv, [Next]_vars PROVE Down'
<1>0. Types /\ Down /\ job \in Job
  BY TypeParts DEF Inv
<1>1. ASSUME job'.step \notin Moving
      PROVE  Down'
  BY <1>1 DEF Down
<1>2. ASSUME NEW how, Ends(how)
      PROVE  Down'
  BY <1>1, <1>2, EndsFits DEF Moving
<1>3. ASSUME NEW s \in Step \ Moving, Goes(s)
      PROVE  Down'
  BY <1>0, <1>1, <1>3, GoesOn
<1>4. CASE Order \/ Dies
  <2>1. job'.step \in {"begin", "none"}
    BY <1>4, IdleFits DEF Order, Begin, Dies
  <2> QED  BY <1>1, <2>1 DEF Moving
<1>5. CASE Abort \/ UNCHANGED vars
  BY <1>0, <1>5 DEF Abort, vars, trees, Down
<1>6. CASE Download \/ Unpack \/ BuildStaging \/ Migrate \/ Deliver \/ Undone \/ Restored \/ CheckRestart \/ Done \/ Remove
  <2>1. (\E how : Ends(how)) \/ (\E s \in {"unpack", "build", "package", "start"} : Goes(s))
    BY <1>6 DEF Download, Unpack, BuildStaging, Migrate, Deliver, Undone, Restored, CheckRestart, Done, Remove,
                Fails, GoTo, Goes
  <2> QED  BY <1>2, <1>3, <2>1 DEF Step, Moving
<1>7. CASE PackageBuild
  BY <1>0, <1>1, <1>7 DEF PackageBuild, Job, Moving
<1>8. CASE Check
  <2>1. (\E how : Ends(how)) \/ (\E s \in {"deliver", "undo"} : Goes(s))
    BY <1>8 DEF Check, Fails, GoTo, Goes
  <2> QED  BY <1>2, <1>3, <2>1 DEF Step, Moving
<1>9. ASSUME NEW next \in {"snapDrop", "restoreGen", "start", "stopped"}, StopApp(next)
      PROVE  Down'
  <2>1. (\E how : Ends(how)) \/ Goes(next)
    BY <1>9 DEF StopApp, Fails, GoTo, Goes
  <2>2. CASE Goes(next)
    <3>1. job'.rt = job.rt /\ job'.step # "none"
      BY <1>0, <1>9, <2>2, GoesOn DEF Step
    <3>2. job' # Idle
      BY <3>1, IdleFits
    <3> QED  BY <1>0, <1>9, <3>1, <3>2, StopsDown DEF Down
  <2> QED  BY <1>2, <2>1, <2>2
<1>10. CASE Stop \/ Undo \/ RollbackStops \/ RestartStops \/ StopOnly
  BY <1>9, <1>10 DEF Stop, Undo, RollbackStops, RestartStops, StopOnly
<1>11. CASE Start \/ UndoStarts \/ RollbackStarts \/ RestartStarts \/ StartOnly
  <2>1. (\E how : Ends(how)) \/ (\E s \in {"check", "undone", "restored", "checkRestart", "started"} : Goes(s))
    BY <1>11 DEF Start, UndoStarts, RollbackStarts, RestartStarts, StartOnly, StartApp, Fails, GoTo, Goes
  <2> QED  BY <1>2, <1>3, <2>1 DEF Step, Moving
<1>12. CASE SnapGen \/ SnapFiles \/ SwapGen \/ SwapFiles \/ RestoreGen \/ RestoreFiles
  <2>1. /\ job.step \in Moving /\ UNCHANGED <<app, lingers>>
        /\ (\E how : Ends(how)) \/ (\E s \in Moving \cup {"migrate", "restart"} : Goes(s))
    BY <1>12 DEF SnapGen, SnapFiles, SwapGen, SwapFiles, RestoreGen, RestoreFiles, At, Moving, Fails, GoTo, Goes
  <2>2. ASSUME NEW s \in Moving, Goes(s)
        PROVE  Down'
    <3>1. job'.rt = job.rt
      BY <1>0, <2>2, GoesOn DEF Moving, Step
    <3> QED  BY <1>0, <2>1, <3>1 DEF Down
  <2> QED  BY <1>2, <1>3, <2>1, <2>2 DEF Step, Moving
<1> QED
  BY <1>4, <1>5, <1>6, <1>7, <1>8, <1>10, <1>11, <1>12 DEF Next, Window, Back, Others

-----------------------------------------------------------------------------
(* The theorems.                                                           *)

\* At first there is nothing.
LEMMA InitInv == Init => Inv
<1> SUFFICES ASSUME Init PROVE Inv
  OBVIOUS
<1>1. Types
  <2>1. /\ disk \in Tree /\ staging \in Tree
        /\ previous \in [there : BOOLEAN, files : Release \cup {None}, gen : Gen \cup {None}]
        /\ app \in [in : Runtime \cup {"none"}, serves : Release \cup {None, Mixed}]
    BY DEF Init, Nothing, NoSnapshot, Stopped, Tree
  <2>2. job.release = None /\ job.packed = None /\ job.was \in Tree
    BY DEF Init, Idle, Nothing, Tree
  <2> QED  BY <2>1, <2>2, IdleFits DEF Init, Types, TypeOK
<1>2. job.type = "none" /\ job.step = "none"
  BY IdleFits DEF Init
<1>3. Sound
  BY <1>2 DEF Init, Sound, InSwap, Fit, Nothing, NoSnapshot
<1> QED  BY <1>1, <1>2, <1>3 DEF Inv, Ready, Before, Down, Deploying, Moving

\* The inductive invariant, for any releases, lockfiles, jobs and deaths of the agent.
THEOREM InvHolds == ASSUME None \notin Gen PROVE Spec => []Inv
<1>1. Inv /\ [Next]_vars => Inv'
  BY TypesKept, ReadyKept, SoundKept, BeforeKept, DownKept DEF Inv
<1> QED  BY <1>1, InitInv, PTL DEF Spec

\* Types are kept.
THEOREM TypeCorrect == ASSUME None \notin Gen PROVE Spec => []TypeOK
<1>1. Inv => TypeOK
  BY DEF Inv, Types
<1> QED  BY <1>1, InvHolds, PTL

\* A deploy that reports success has put its release in place, and the app serves it.
THEOREM DeployedIsServed == ASSUME None \notin Gen PROVE Spec => DeployedMeansServed
<1>1. ASSUME Inv, [Next]_vars PROVE DeployedMeansServedStep
  <2> SUFFICES ASSUME outcome' = "deployed", outcome # "deployed"
               PROVE  /\ job.packed \in {None, disk'.files}
                      /\ Whole(disk') /\ disk'.files = job.release /\ app'.serves = job.release
                      /\ disk'.gen.rt = job.rt
                      /\ "disk" \notin torn => disk'.gen.lock = LockOf[job.release]
    BY DEF DeployedMeansServedStep
  <2>1. \/ Check /\ Confirmed
        \/ Deliver
    <3>1. CASE Check
      BY <3>1 DEF Check, Fails, Ends
    <3>2. CASE Order \/ Abort \/ Dies \/ Download \/ Unpack \/ BuildStaging \/ PackageBuild \/ UNCHANGED vars
      BY <3>2 DEF Order, Begin, Abort, Dies, Download, Unpack, BuildStaging, PackageBuild, Fails, Ends, vars
    <3>3. CASE Stop \/ SnapGen \/ SnapFiles \/ SwapGen \/ SwapFiles \/ Migrate \/ Start
      BY <3>3 DEF Stop, SnapGen, SnapFiles, SwapGen, SwapFiles, Migrate, Start, StopApp, StartApp, Fails, Ends
    <3>4. CASE Back
      BY <3>4 DEF Back, Undo, RollbackStops, RestoreGen, RestoreFiles, UndoStarts, Undone, RollbackStarts, Restored,
                  StopApp, StartApp, Fails, Ends
    <3>5. CASE Others
      BY <3>5 DEF Others, RestartStops, RestartStarts, CheckRestart, StopOnly, StartOnly, Done, Remove,
                  StopApp, StartApp, Fails, Ends, At
    <3> QED  BY <1>1, <3>1, <3>2, <3>3, <3>4, <3>5 DEF Next, Window
  <2>2. /\ job.type = "deploy" /\ job.step \in {"check", "deliver"} /\ UNCHANGED <<disk, app, torn>>
        /\ app.serves = job.release
    BY <1>1, <2>1 DEF Check, Deliver, Confirmed, At, Inv, Ready, Deploying
  <2>3. /\ disk.files = job.release /\ OfRelease(disk.gen) /\ job.packed \in {None, job.release}
        /\ job.release \in Release
    BY <1>1, <2>2 DEF Inv, Ready, Deploying
  <2>4. "disk" \notin torn => disk.gen.lock = LockOf[job.release]
    BY <1>1, <2>2 DEF Inv, Ready, Deploying
  <2> QED  BY <2>2, <2>3, <2>4 DEF OfRelease, Whole
<1> QED  BY <1>1, InvHolds, PTL DEF Spec, DeployedMeansServed

\* A deploy that says it was rolled back leaves what was there before it.
THEOREM RolledBackIsBefore == ASSUME None \notin Gen PROVE Spec => RolledBackMeansBefore
<1>1. ASSUME Inv, [Next]_vars PROVE RolledBackMeansBeforeStep
  <2> SUFFICES ASSUME outcome' = "rolledBack", outcome # "rolledBack"
               PROVE  disk' = [job.was EXCEPT !.gen = IF @ = None THEN disk.gen ELSE @]
    BY DEF RolledBackMeansBeforeStep
  <2>1. Undone
    <3>1. CASE Order \/ Abort \/ Dies \/ Download \/ Unpack \/ BuildStaging \/ PackageBuild \/ Deliver \/ UNCHANGED vars
      BY <3>1 DEF Order, Begin, Abort, Dies, Download, Unpack, BuildStaging, PackageBuild, Deliver, Fails, Ends, vars
    <3>2. CASE Window
      BY <3>2 DEF Window, Stop, SnapGen, SnapFiles, SwapGen, SwapFiles, Migrate, Start, Check, StopApp, StartApp, Fails, Ends
    <3>3. CASE Back
      BY <3>3 DEF Back, Undo, RollbackStops, RestoreGen, RestoreFiles, UndoStarts, RollbackStarts, Restored,
                  StopApp, StartApp, Fails, Ends
    <3>4. CASE Others
      BY <3>4 DEF Others, RestartStops, RestartStarts, CheckRestart, StopOnly, StartOnly, Done, Remove,
                  StopApp, StartApp, Fails, Ends, At
    <3> QED  BY <1>1, <3>1, <3>2, <3>3, <3>4 DEF Next
  <2>2. /\ disk' = disk /\ disk.files = job.was.files /\ (job.was.gen # None => disk.gen = job.was.gen)
    BY <1>1, <2>1 DEF Undone, At, Inv, Before, Deploying
  <2>3. disk \in Tree /\ job.was \in Tree
    BY <1>1, TypeParts DEF Inv, Types, TypeOK
  <2> QED  BY <2>2, <2>3 DEF Tree
<1> QED  BY <1>1, InvHolds, PTL DEF Spec, RolledBackMeansBefore

\* The files under a running app do not move, except where a stop went unnoticed.
THEOREM NothingSwapsUnderTheApp == ASSUME None \notin Gen PROVE Spec => NoSwapUnderTheApp
<1>1. ASSUME Inv, [Next]_vars PROVE NoSwapUnderTheAppStep
  <2> SUFFICES ASSUME disk' # disk, job.type # "remove"
               PROVE  app.in = "none" \/ lingers \/ (app.in = "docker" /\ job.rt = "pm2")
    BY DEF NoSwapUnderTheAppStep
  <2>1. SnapGen \/ SwapGen \/ SwapFiles \/ RestoreGen \/ RestoreFiles
    <3>1. CASE Order \/ Abort \/ Dies \/ Download \/ Unpack \/ BuildStaging \/ PackageBuild \/ Deliver \/ UNCHANGED vars
      BY <3>1 DEF Order, Begin, Abort, Dies, Download, Unpack, BuildStaging, PackageBuild, Deliver, trees, vars
    <3>2. CASE Window
      BY <3>2 DEF Window, Stop, SnapFiles, Migrate, Start, Check, StopApp, StartApp
    <3>3. CASE Back
      BY <3>3 DEF Back, Undo, RollbackStops, UndoStarts, Undone, RollbackStarts, Restored, StopApp, StartApp
    <3>4. CASE Others
      BY <3>4 DEF Others, RestartStops, RestartStarts, CheckRestart, StopOnly, StartOnly, Done, Remove, StopApp, StartApp, At
    <3> QED  BY <1>1, <3>1, <3>2, <3>3, <3>4 DEF Next
  <2>2. job.step \in Moving
    BY <2>1 DEF SnapGen, SwapGen, SwapFiles, RestoreGen, RestoreFiles, At, Moving
  <2> QED  BY <1>1, <2>2 DEF Inv, Down
<1> QED  BY <1>1, InvHolds, PTL DEF Spec, NoSwapUnderTheApp
=============================================================================
