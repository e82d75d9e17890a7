------------------------------ MODULE SiteHost ------------------------------
(***************************************************************************)
(* What one server does for its websites: the tasks of shared/tasks.mjs     *)
(* (site.deploy, start, stop, restart, remove, script, status and the      *)
(* refresh of main's local vhosts).  Tasks that change a website take turns *)
(* per website (withSiteLock); those of two websites, and the checks of     *)
(* site.status, run side by side.  They share the one nginx of the server,  *)
(* and a website's tasks share its Deployer.                                *)
(*                                                                          *)
(* A "node" website runs in pm2 or in a container; "files" (static, php)    *)
(* are served by nginx from a file of conf.d.  Inside a deploy: see         *)
(* DeployEngine; here it is a build, followed by a start.                   *)
(***************************************************************************)
EXTENDS Naturals, SequencesExt, FiniteSetsExt

CONSTANTS
  Site, Task, None,
  Kind,      \* of each website: "node" or "files"
  Spec0,     \* what the panel may ask of a website: [rt, bad]
  MaxEdits, MaxFaults  \* bounds for TLC

VARIABLES
  spec,      \* the panel: what it sends now, for each website
  task,      \* the tasks: None, or [type, site, spec, step, prev]
  line,      \* siteLocks: per website the tasks that change it, the one at work first
  cancelled, \* tasks whose signal is aborted
  heard,     \* tasks that listen to their signal
  ended,     \* tasks that are over
  eng,       \* deployers: per website its Deployer's settings, or None
  built,     \* per website the runtime its packages were installed for
  pm2, box,  \* per website what its pm2 process, its container was started with
  oneOff,    \* one-off containers that run
  conf,      \* files of conf.d: per website its file, or None
  loaded,    \* what nginx serves
  off,       \* history: websites last stopped or removed, every command having worked
  edits, faults \* counters

tasks == <<task, line, cancelled, heard, ended>>
apps == <<built, pm2, box, oneOff>>
nginx == <<conf, loaded>>
bounds == <<edits, faults>>
vars == <<spec, tasks, eng, apps, nginx, off, bounds>>

Locked == {"deploy", "start", "stop", "restart", "remove", "script", "refresh"}
Starting == {"deploy", "start", "restart"}
At(t, step) == task[t] # None /\ task[t].step = step
Is(t, types) == task[t] # None /\ task[t].type \in types
OnNode(t) == Kind[task[t].site] = "node"
GoTo(t, step) == task' = [task EXCEPT ![t].step = step]

-----------------------------------------------------------------------------
(* The panel, and the lock.                                                 *)

\* PATCH of a website: what needs no job, and anything before its first deploy, is saved
\* whatever is going on.
Edit(s, sp) ==
  /\ edits < MaxEdits /\ sp # spec[s]
  /\ IF Kind[s] = "files" THEN sp.rt = "pm2" ELSE ~sp.bad
  /\ spec' = [spec EXCEPT ![s] = sp]
  /\ edits' = edits + 1
  /\ UNCHANGED <<tasks, eng, apps, nginx, off, faults>>

\* executeTask: a task whose signal is not aborted gets in line, or starts at once.
Ask(t, type, s) ==
  /\ task[t] = None /\ t \notin ended
  /\ type = "refresh" => Kind[s] = "files"
  /\ task' = [task EXCEPT ![t] = [type |-> type, site |-> s, spec |-> spec[s], prev |-> None,
                step |-> IF type \in Locked THEN "waits" ELSE "check"]]
  /\ line' = IF type \in Locked THEN [line EXCEPT ![s] = Append(@, t)] ELSE line
  /\ UNCHANGED <<spec, cancelled, heard, ended, eng, apps, nginx, off, bounds>>

\* A task ends, well or not; the next in line may begin.
Ends(t) ==
  LET s == task[t].site IN
  /\ task' = [task EXCEPT ![t] = None]
  /\ line' = [line EXCEPT ![s] = SelectSeq(@, LAMBDA u : u # t)]
  /\ ended' = ended \cup {t}
  /\ heard' = heard \ {t} /\ cancelled' = cancelled \ {t}

\* off: a stop or a removal that worked; it is over when a start begins.
StaysOff(t, worked) ==
  off' = IF Is(t, {"stop", "remove"}) /\ worked THEN off \cup {task[t].site} ELSE off

\* mutant: no lock
AnyTurn(t) == At(t, "waits")

\* withSiteLock: the first in line.
Turn(t) == At(t, "waits") /\ Head(line[task[t].site]) = t
FirstStep(t) ==
  IF Is(t, {"script"}) THEN "script"
  ELSE IF ~OnNode(t) THEN (IF Is(t, {"refresh"}) THEN "look" ELSE "write")
  ELSE IF Is(t, {"deploy"}) THEN "build"
  ELSE "act"
\* engineSettings: the Deployer of files supervises nothing.
Settings(s, sp) == [rt |-> IF Kind[s] = "files" THEN "none" ELSE sp.rt]
Given(t) == Settings(task[t].site, task[t].spec)

\* deployerFor hands the Deployer of the website this task's settings; from here on the task
\* listens to its signal, if that is not aborted by now.
Begins(t) ==
  /\ Turn(t)
  /\ GoTo(t, FirstStep(t))
  /\ eng' = IF Is(t, {"refresh"}) THEN eng ELSE [eng EXCEPT ![task[t].site] = Given(t)]
  /\ heard' = IF t \in cancelled \/ Is(t, {"refresh", "script"}) THEN heard ELSE heard \cup {t}
  /\ off' = IF Is(t, Starting) THEN off \ {task[t].site} ELSE off
  /\ UNCHANGED <<spec, line, cancelled, ended, apps, nginx, bounds>>

\* The signal is aborted.
Cancel(t) ==
  /\ task[t] # None /\ t \notin cancelled /\ ~Is(t, {"refresh"})
  /\ cancelled' = cancelled \cup {t}
  /\ UNCHANGED <<spec, task, line, heard, ended, eng, apps, nginx, off, bounds>>

\* What listens gives up (Deployer.abort, the script's onAbort).
Stops(t) == t \in cancelled /\ t \in heard

-----------------------------------------------------------------------------
(* site.status: not in line.  It, too, hands its settings to the Deployer.  *)

Checks(t) ==
  /\ At(t, "check")
  /\ eng' = [eng EXCEPT ![task[t].site] = Given(t)]
  /\ Ends(t)
  /\ UNCHANGED <<spec, apps, nginx, off, bounds>>

-----------------------------------------------------------------------------
(* Node websites.  The settings are those the Deployer has at the time.     *)

\* (A task keeps hold of a Deployer that was forgotten.)
Now(t) == IF eng[task[t].site] = None THEN Given(t) ELSE eng[task[t].site]

\* The packages and the build, for the runtime of the settings.
Builds(t) ==
  /\ At(t, "build")
  /\ \/ /\ ~Stops(t)
        /\ built' = [built EXCEPT ![task[t].site] = Now(t).rt]
        /\ GoTo(t, "act") /\ UNCHANGED <<line, cancelled, heard, ended>>
     \/ Ends(t) /\ UNCHANGED built
  /\ UNCHANGED <<spec, eng, pm2, box, oneOff, nginx, off, bounds>>

\* startApp: the pm2 process of before docker goes, and the container of before pm2.
StartApp(t) ==
  LET s == task[t].site IN
  IF Now(t).rt = "docker"
  THEN /\ pm2' = [pm2 EXCEPT ![s] = None] /\ box' = [box EXCEPT ![s] = Now(t)]
  ELSE /\ pm2' = [pm2 EXCEPT ![s] = Now(t)] /\ box' = [box EXCEPT ![s] = None]

\* stopApp: in docker mode both; in pm2 mode the container of before is left alone.
StopApp(t) ==
  LET s == task[t].site IN
  /\ pm2' = [pm2 EXCEPT ![s] = None]
  /\ box' = IF Now(t).rt = "docker" THEN [box EXCEPT ![s] = None] ELSE box

\* site.remove: both ways it may have run, whatever its runtime is.
RemoveApp(t) ==
  LET s == task[t].site IN
  /\ pm2' = [pm2 EXCEPT ![s] = None] /\ box' = [box EXCEPT ![s] = None]
  /\ built' = [built EXCEPT ![s] = None]

\* A command of pm2 is not begun once the job is cancelled; docker's calls are.
Commands(t) == Stops(t) => Now(t).rt = "docker"

\* A start fails before it did anything, or after it removed what ran before.
StartFails(t) ==
  LET s == task[t].site IN
  /\ box' \in {box, [box EXCEPT ![s] = None]}
  /\ pm2' \in {pm2, [pm2 EXCEPT ![s] = IF Now(t).rt = "docker" THEN None ELSE @]}

ActStart(t) ==
  /\ At(t, "act") /\ Is(t, Starting)
  /\ Ends(t)
  /\ \/ Commands(t) /\ StartApp(t)
     \/ StartFails(t)
  /\ UNCHANGED <<spec, eng, built, oneOff, nginx, off, bounds>>

\* A stop or a removal that fails is not noticed.
ActStop(t) ==
  /\ At(t, "act") /\ Is(t, {"stop"})
  /\ Ends(t)
  /\ \/ Commands(t) /\ StopApp(t) /\ StaysOff(t, box'[task[t].site] = None)
     \/ UNCHANGED <<pm2, box, off>>
  /\ UNCHANGED <<spec, eng, built, oneOff, nginx, bounds>>

ActRemove(t) ==
  /\ At(t, "act") /\ Is(t, {"remove"})
  /\ \/ RemoveApp(t) /\ StaysOff(t, TRUE)
     \/ UNCHANGED <<built, pm2, box, off>>
  /\ eng' = [eng EXCEPT ![task[t].site] = None]
  /\ Ends(t)
  /\ UNCHANGED <<spec, oneOff, nginx, bounds>>

-----------------------------------------------------------------------------
(* Scripts: an own process group, or a one-off container.                   *)

\* Only now does a script listen to its signal.
ScriptRuns(t) ==
  /\ At(t, "script")
  /\ \/ /\ GoTo(t, "run") /\ UNCHANGED <<line, cancelled, ended>>
        /\ heard' = IF t \in cancelled THEN heard ELSE heard \cup {t}
        /\ oneOff' = IF OnNode(t) /\ task[t].spec.rt = "docker" THEN oneOff \cup {t} ELSE oneOff
     \/ Ends(t) /\ UNCHANGED oneOff
  /\ UNCHANGED <<spec, eng, built, pm2, box, nginx, off, bounds>>

\* The command ends by itself, or is stopped by a cancel or after SCRIPT_TIMEOUT_MS; the
\* container is removed then.
ScriptEnds(t) ==
  /\ At(t, "run")
  /\ Ends(t)
  /\ oneOff' = oneOff \ {t}
  /\ UNCHANGED <<spec, eng, built, pm2, box, nginx, off, bounds>>

-----------------------------------------------------------------------------
(* Files: applyNginxFile, in three steps.  Other websites' tasks come       *)
(* between them.                                                            *)

\* refreshLocalVhosts: only a website that has a file.
Look(t) ==
  /\ At(t, "look")
  /\ IF conf[task[t].site] = None
     THEN Ends(t)
     ELSE GoTo(t, "write") /\ UNCHANGED <<line, cancelled, heard, ended>>
  /\ UNCHANGED <<spec, eng, apps, nginx, off, bounds>>

\* The part of the Deployer in a deploy (DeployEngine) failed, or was cancelled.
GivesUp(t) ==
  /\ At(t, "write") /\ Is(t, {"deploy"})
  /\ Ends(t)
  /\ UNCHANGED <<spec, eng, apps, nginx, off, bounds>>

\* renderSiteVhost: the file; nginx may reject it (its port is taken, say).
Rendered(sp) == [bad |-> sp.bad]
Wanted(t) == IF Is(t, {"stop", "remove"}) THEN None ELSE Rendered(task[t].spec)

\* Nothing to do when the file is as it should be, but for a restart.
Write(t) ==
  LET s == task[t].site IN
  /\ At(t, "write")
  /\ IF conf[s] = Wanted(t) /\ ~(Is(t, {"restart"}) /\ conf[s] # None)
     THEN Ends(t) /\ StaysOff(t, TRUE) /\ UNCHANGED conf
     ELSE /\ conf' = [conf EXCEPT ![s] = Wanted(t)]
          /\ task' = [task EXCEPT ![t].step = "test", ![t].prev = conf[s]]
          /\ UNCHANGED <<line, cancelled, heard, ended, off>>
  /\ eng' = IF Is(t, {"remove"}) /\ t \in ended' THEN [eng EXCEPT ![s] = None] ELSE eng
  /\ UNCHANGED <<spec, apps, loaded, bounds>>

\* nginx -t: of every file there is at this moment.
Accepts == \A s \in Site : conf[s] # None => ~conf[s].bad

\* mutant: a rejected file stays
LeftThere(t) == conf

\* The previous file is put back.
Restored(t) == [conf EXCEPT ![task[t].site] = task[t].prev]

Test(t) ==
  /\ At(t, "test")
  /\ IF Accepts
     THEN GoTo(t, "reload") /\ UNCHANGED <<conf, line, cancelled, heard, ended>>
     ELSE conf' = Restored(t) /\ Ends(t)
  /\ UNCHANGED <<spec, eng, apps, loaded, off, bounds>>

\* reloadNginx: nginx keeps what it serves when it rejects the files.  systemctl start then
\* finds it running, and nothing is noticed.
Reload(t) ==
  /\ At(t, "reload")
  /\ loaded' = IF Accepts THEN conf ELSE loaded
  /\ Ends(t) /\ StaysOff(t, TRUE)
  /\ eng' = IF Is(t, {"remove"}) THEN [eng EXCEPT ![task[t].site] = None] ELSE eng
  /\ UNCHANGED <<spec, apps, conf, bounds>>

-----------------------------------------------------------------------------

\* The agent's process ends: tasks, locks and Deployers are forgotten; what runs goes on.
Dies ==
  /\ faults < MaxFaults /\ \E t \in Task : task[t] # None
  /\ faults' = faults + 1
  /\ task' = [t \in Task |-> None] /\ line' = [s \in Site |-> <<>>]
  /\ ended' = ended \cup {t \in Task : task[t] # None}
  /\ heard' = {} /\ cancelled' = {} /\ eng' = [s \in Site |-> None]
  /\ UNCHANGED <<spec, apps, nginx, off, edits>>

Init ==
  /\ spec = [s \in Site |-> CHOOSE sp \in Spec0 : ~sp.bad /\ sp.rt = "pm2"]
  /\ task = [t \in Task |-> None] /\ line = [s \in Site |-> <<>>]
  /\ cancelled = {} /\ heard = {} /\ ended = {}
  /\ eng = [s \in Site |-> None] /\ built = [s \in Site |-> None]
  /\ pm2 = [s \in Site |-> None] /\ box = [s \in Site |-> None] /\ oneOff = {}
  /\ conf = [s \in Site |-> None] /\ loaded = [s \in Site |-> None]
  /\ off = {} /\ edits = 0 /\ faults = 0

Works(t) ==
  \/ Begins(t) \/ Cancel(t) \/ Checks(t) \/ Builds(t)
  \/ ActStart(t) \/ ActStop(t) \/ ActRemove(t) \/ ScriptRuns(t) \/ ScriptEnds(t)
  \/ Look(t) \/ GivesUp(t) \/ Write(t) \/ Test(t) \/ Reload(t)

Next ==
  \/ \E s \in Site, sp \in Spec0 : Edit(s, sp)
  \/ \E t \in Task, s \in Site, type \in Locked \cup {"status"} : Ask(t, type, s)
  \/ \E t \in Task : Works(t)
  \/ Dies

Spec == Init /\ [][Next]_vars

-----------------------------------------------------------------------------

TypeOK ==
  /\ spec \in [Site -> Spec0]
  /\ \A t \in Task : task[t] = None \/ (task[t].type \in Locked \cup {"status"} /\ task[t].site \in Site)
  /\ line \in [Site -> Seq(Task)] /\ cancelled \cup heard \cup ended \cup oneOff \subseteq Task
  /\ \A f \in {eng, pm2, box} : f \in [Site -> [rt : {"pm2", "docker", "none"}] \cup {None}]
  /\ {conf, loaded} \subseteq [Site -> [bad : BOOLEAN] \cup {None}]
  /\ off \subseteq Site

Quiet(s) == \A t \in Task : task[t] # None => task[t].site # s \/ task[t].step \in {"waits", "check"}

\* A website that was stopped or removed stays off until it is started again, whatever
\* came before and after in line: a deploy, a script, a refresh of main's vhosts
\* (tasks.mjs: "Never starts a stopped site").
StoppedStaysStopped ==
  \A s \in off : Quiet(s) => conf[s] = None /\ pm2[s] = None /\ box[s] = None

\* A configuration nginx rejects does not stay: when nobody is testing, nginx accepts what
\* is there, unless the agent died at work.
RejectedIsUndone ==
  faults = 0 /\ (\A t \in Task : ~At(t, "test") /\ ~At(t, "reload")) => Accepts

\* tasks.mjs: "One mutating task per site at a time; status/logs never wait behind a
\* deploy."  The settings a deploy works with are those it was given.
TaskKeepsItsSettings ==
  \A t \in Task : At(t, "build") \/ At(t, "act") => Now(t) = Given(t)

\* tasks.mjs: "Atomically install an nginx file, test the whole config, reload.  On a failed
\* test the previous file (or nothing) is put back".  At rest, nginx serves what is installed.
InstalledIsServed ==
  faults = 0 /\ (\A t \in Task : task[t] = None) => loaded = conf

=============================================================================
