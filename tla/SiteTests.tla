----------------------------- MODULE SiteTests ------------------------------
(***************************************************************************)
(* Commit tests (panel/lib/site-tests.mjs, shared/testenv.mjs): the runs the  *)
(* panel keeps, and on the test server, the throw-away environment each one   *)
(* is built in, torn down, or left for a later run's sweep.                   *)
(***************************************************************************)
EXTENDS Naturals, Sequences, FiniteSets

CONSTANTS
  Site,
  None,
  MaxRuns, MaxFaults  \* bounds for TLC

VARIABLES
  run,       \* the panel's records: [site, status, verdict, known], None: none or deleted
  job,       \* the job of a run: "none", "queued", "running"
  cancels,   \* runs whose task is to be cancelled on the server
  lines,     \* event lines of a run on their way to the panel
  result,    \* what the task answered, [how, verdict, complete], or None
  proc,      \* the server's runners: [at, named, dead, nets, serious, complete, said, error], None
  active,    \* testenv.mjs active
  cont, nets, rules, folder,  \* what exists of a run's environment; cont, nets: "none", "new", "old"
  earned,    \* history: runs whose tester ended with a readable report, nothing serious, and "ready"
  started,   \* runs started so far
  faults

panel == <<run, job, cancels>>
wire == <<lines, result>>
world == <<cont, nets, rules, folder>>
server == <<proc, active, world, earned>>
vars == <<panel, wire, server, started, faults>>

Id == 1..MaxRuns
Active == {"queued", "preparing", "testing", "reporting"}
Running(i) == run[i] # None /\ run[i].status \in Active
Fault == faults < MaxFaults /\ faults' = faults + 1

-----------------------------------------------------------------------------
(* The record of a run.                                                      *)

\* mutant: the tester's own verdict counts for nothing
DecidedHere(serious, complete, said) == IF ~serious /\ complete THEN "ready" ELSE "not_ready"
\* decideVerdict: the tester's verdict can only make it stricter.
Decided(serious, complete, said) ==
  IF ~serious /\ complete /\ said # "not_ready" THEN "ready" ELSE "not_ready"

\* finalizeRun
Gone == [how |-> "error", verdict |-> None, complete |-> FALSE]
Closed(r, how) == [r EXCEPT !.status = how, !.verdict = None]
Finalized(r, answer) ==
  IF answer.how # "done" THEN Closed(r, answer.how)
  ELSE [r EXCEPT !.status = "done",
                 !.verdict = IF @ # None THEN @ ELSE Decided(r.known, answer.complete, answer.verdict)]

\* applyEvent: nothing once the run has finished.
Applied(r, line) ==
  IF r = None \/ r.status \notin Active THEN r
  ELSE CASE line.t = "phase"   -> [r EXCEPT !.status = line.status]
         [] line.t = "finding" -> [r EXCEPT !.known = TRUE]
         [] line.t = "report"  -> [r EXCEPT !.status = "reporting",
                                            !.verdict = Decided(r.known, line.complete, line.verdict)]

\* POST /api/sites/:id/tests: one at a time for a website.
Start(s) ==
  /\ started < MaxRuns
  /\ ~\E i \in Id : Running(i) /\ run[i].site = s
  /\ started' = started + 1
  /\ run' = [run EXCEPT ![started'] = [site |-> s, status |-> "queued", verdict |-> None, known |-> FALSE]]
  /\ job' = [job EXCEPT ![started'] = "queued"]
  /\ UNCHANGED <<cancels, wire, server, faults>>
Emits(i, line) == lines' = [lines EXCEPT ![i] = Append(@, line)]

\* The job has its turn: the task names the runs that ended badly on that server.
Stale == {j \in Id : run[j] # None /\ run[j].status \in {"error", "cancelled"}}
JobRuns(i) ==
  /\ job[i] = "queued"
  /\ job' = [job EXCEPT ![i] = "running"]
  /\ run' = [run EXCEPT ![i].status = "preparing"]
  /\ proc' = [proc EXCEPT ![i] = [at |-> "containers", named |-> Stale, dead |-> {}, nets |-> {},
                                  serious |-> FALSE, complete |-> FALSE, said |-> None, error |-> FALSE]]
  /\ active' = active \cup {i}
  /\ UNCHANGED <<cancels, wire, world, earned, started, faults>>
Event(i) ==
  /\ lines[i] # <<>>
  /\ \/ run' = [run EXCEPT ![i] = IF job[i] = "running" THEN Applied(@, Head(lines[i])) ELSE @] /\ UNCHANGED faults
     \/ Fault /\ UNCHANGED run   \* the agent could not post it
  /\ lines' = [lines EXCEPT ![i] = Tail(@)]
  /\ UNCHANGED <<job, cancels, result, server, started>>
JobEnds(i) ==
  /\ result[i] # None /\ lines[i] = <<>>
  /\ IF job[i] = "running"
     THEN run' = [run EXCEPT ![i] = IF @ = None THEN None ELSE Finalized(@, result[i])]
     ELSE UNCHANGED run
  /\ job' = [job EXCEPT ![i] = "none"]
  /\ result' = [result EXCEPT ![i] = None]
  /\ cancels' = cancels \ {i}
  /\ UNCHANGED <<lines, server, started, faults>>
\* The task timed out for the panel, or its server is lost: the runner may go on.
JobLost(i) ==
  /\ job[i] = "running" /\ result[i] = None /\ Fault
  /\ run' = [run EXCEPT ![i] = IF @ = None THEN None ELSE Finalized(@, Gone)]
  /\ job' = [job EXCEPT ![i] = "none"]
  /\ UNCHANGED <<cancels, wire, server, started>>

\* POST /api/tests/:id/cancel: a waiting job is dropped, a running one is told.
CancelWaiting(i) ==
  /\ Running(i) /\ job[i] = "queued"
  /\ run' = [run EXCEPT ![i] = Closed(@, "cancelled")]
  /\ job' = [job EXCEPT ![i] = "none"]
  /\ UNCHANGED <<cancels, wire, server, started, faults>>
CancelRunning(i) ==
  /\ Running(i) /\ job[i] = "running"
  /\ cancels' = cancels \cup {i}
  /\ UNCHANGED <<run, job, wire, server, started, faults>>
\* DELETE /api/tests/:id
Delete(i) ==
  /\ run[i] # None /\ ~Running(i)
  /\ run' = [run EXCEPT ![i] = None]
  /\ UNCHANGED <<job, cancels, wire, server, started, faults>>
\* The panel restarts: start() closes what was in flight; an agent's runners go on.
Restart ==
  /\ Fault
  /\ run' = [i \in Id |-> IF Running(i) THEN Closed(run[i], "error") ELSE run[i]]
  /\ job' = [i \in Id |-> "none"] /\ cancels' = {}
  /\ UNCHANGED <<wire, server, started>>

-----------------------------------------------------------------------------
(* The runner on the server: realRun, step by step.                          *)

At(i, at) == proc[i] # None /\ proc[i].at = at
Goes(i, at) == proc' = [proc EXCEPT ![i].at = at]
Aborts(i) == proc' = [proc EXCEPT ![i].error = TRUE, ![i].at = "remove containers"]

\* mutant: the runs under way on this server are not looked at
DeadByName(i, j, age) == j \in proc[i].named \/ age = "old"
\* sweepTestLeftovers, isDead
IsDead(i, j, age) == j \notin active /\ (j \in proc[i].named \/ age = "old")
SweepContainers(i) ==
  /\ At(i, "containers")
  /\ LET dead == {j \in Id : cont[j] # "none" /\ IsDead(i, j, cont[j])} IN
       /\ cont' = [j \in Id |-> IF j \in dead THEN "none" ELSE cont[j]]
       /\ proc' = [proc EXCEPT ![i].at = "networks", ![i].dead = dead]
  /\ UNCHANGED <<panel, wire, active, earned, nets, rules, folder, started, faults>>
\* A network with a container on it is not removed, and nobody looks whether it was.
SweepNetworks(i) ==
  /\ At(i, "networks")
  /\ LET dead == {j \in Id : nets[j] # "none" /\ (j \in proc[i].dead \/ IsDead(i, j, nets[j]))} IN
       /\ nets' = [j \in Id |-> IF j \in dead /\ cont[j] = "none" THEN "none" ELSE nets[j]]
       /\ proc' = [proc EXCEPT ![i].at = "rules", ![i].dead = @ \cup dead,
                               ![i].nets = {j \in Id : nets[j] # "none"} \ dead]
  /\ UNCHANGED <<panel, wire, active, earned, cont, rules, folder, started, faults>>
SweepRules(i) ==
  /\ At(i, "rules")
  /\ rules' = rules \cap (active \cup proc[i].nets)
  /\ Goes(i, "folders")
  /\ UNCHANGED <<panel, wire, active, earned, cont, nets, folder, started, faults>>
SweepFolders(i) ==
  /\ At(i, "folders")
  /\ folder' = {j \in folder : j \in active \/ (j \notin proc[i].dead /\ ~IsDead(i, j, nets[j]))}
  /\ Goes(i, "prepare")
  /\ UNCHANGED <<panel, wire, active, earned, cont, nets, rules, started, faults>>

\* Folders, the two networks, then the rules: any of them may fail.
Prepare(i) ==
  /\ At(i, "prepare")
  /\ folder' = folder \cup {i}
  /\ Goes(i, "network")
  /\ UNCHANGED <<panel, wire, active, earned, cont, nets, rules, started, faults>>
Network(i) ==
  /\ At(i, "network")
  /\ nets' = [nets EXCEPT ![i] = "new"]
  /\ Goes(i, "firewall")
  /\ UNCHANGED <<panel, wire, active, earned, cont, rules, folder, started, faults>>
Firewall(i) ==
  /\ At(i, "firewall")
  /\ \/ rules' = rules \cup {i} /\ Goes(i, "databases") /\ UNCHANGED faults
     \/ Fault /\ Aborts(i) /\ UNCHANGED rules
  /\ UNCHANGED <<panel, wire, active, earned, cont, nets, folder, started>>
\* The databases and the mail catcher, then the release.
Databases(i) ==
  /\ At(i, "databases")
  /\ cont' = [cont EXCEPT ![i] = "new"]
  /\ \/ Goes(i, "build") /\ UNCHANGED faults
     \/ Fault /\ Aborts(i)
  /\ UNCHANGED <<panel, wire, active, earned, nets, rules, folder, started>>
\* finish: the verdict of the runner itself.
Finish(i, serious, complete, said) ==
  /\ proc' = [proc EXCEPT ![i].at = "remove containers", ![i].serious = serious, ![i].complete = complete,
                          ![i].said = Decided(serious, complete, said)]
  /\ LET report == [t |-> "report", verdict |-> Decided(serious, complete, said), complete |-> complete]
         found == IF serious /\ ~proc[i].serious THEN <<[t |-> "finding"]>> ELSE <<>>
     IN  lines' = [lines EXCEPT ![i] = @ \o Append(found, report)]
  /\ earned' = IF ~serious /\ complete /\ said = "ready" THEN earned \cup {i} ELSE earned
\* Install, prepare, schema, build. A failing schema step is a finding; a failing build ends the run.
Build(i) ==
  /\ At(i, "build")
  /\ \/ Goes(i, "start") /\ UNCHANGED <<lines, earned>>
     \/ proc' = [proc EXCEPT ![i].serious = TRUE, ![i].at = "start"] /\ Emits(i, [t |-> "finding"])
        /\ UNCHANGED earned
     \/ Finish(i, TRUE, TRUE, None)
  /\ UNCHANGED <<panel, result, active, world, started, faults>>
\* startSite, the tester, waitForSite
StartSite(i) ==
  /\ At(i, "start")
  /\ \/ Goes(i, "testing") /\ Emits(i, [t |-> "phase", status |-> "testing"]) /\ UNCHANGED earned
     \/ Finish(i, TRUE, TRUE, None)
  /\ UNCHANGED <<panel, result, active, world, started, faults>>
\* Claude reports as it goes, ends (or is stopped at its limits), and its report is read.
Finds(i) ==
  /\ At(i, "testing") /\ ~proc[i].serious
  /\ proc' = [proc EXCEPT ![i].serious = TRUE]
  /\ Emits(i, [t |-> "finding"])
  /\ UNCHANGED <<panel, result, active, world, earned, started, faults>>
Report(i) ==
  /\ At(i, "testing")
  /\ \E readable, serious \in BOOLEAN, said \in {"ready", "not_ready"} :
       Finish(i, proc[i].serious \/ (readable /\ serious), readable, IF readable THEN said ELSE None)
  /\ UNCHANGED <<panel, result, active, world, started, faults>>

\* The signal: every step up to the report throws, and the environment goes.
Aborted(i) ==
  /\ i \in cancels /\ proc[i] # None /\ proc[i].said = None /\ ~proc[i].error
  /\ proc[i].at \in {"prepare", "network", "firewall", "databases", "build", "start", "testing"}
  /\ Aborts(i)
  /\ UNCHANGED <<panel, wire, active, earned, world, started, faults>>

\* Teardown, in a fixed order: containers, networks, rules, folder.
RemoveContainers(i) ==
  /\ At(i, "remove containers")
  /\ cont' = [cont EXCEPT ![i] = "none"]
  /\ Goes(i, "remove networks")
  /\ UNCHANGED <<panel, wire, active, earned, nets, rules, folder, started, faults>>
RemoveNetworks(i) ==
  /\ At(i, "remove networks")
  /\ nets' = [nets EXCEPT ![i] = IF cont[i] = "none" THEN "none" ELSE @]
  /\ Goes(i, "remove rules")
  /\ UNCHANGED <<panel, wire, active, earned, cont, rules, folder, started, faults>>
RemoveRules(i) ==
  /\ At(i, "remove rules")
  /\ rules' = rules \ {i}
  /\ Goes(i, "remove folder")
  /\ UNCHANGED <<panel, wire, active, earned, cont, nets, folder, started, faults>>
Done(i) ==
  /\ At(i, "remove folder")
  /\ folder' = folder \ {i} /\ active' = active \ {i}
  /\ proc' = [proc EXCEPT ![i] = None]
  /\ result' = [result EXCEPT ![i] =
       IF proc[i].error THEN [Gone EXCEPT !.how = IF i \in cancels THEN "cancelled" ELSE @]
       ELSE [how |-> "done", verdict |-> proc[i].said, complete |-> proc[i].complete]]
  /\ UNCHANGED <<panel, lines, cont, nets, rules, earned, started, faults>>

\* The agent dies and comes back: environments stay, nobody remembers them.
AgentDies ==
  /\ Fault /\ active # {}
  /\ proc' = [i \in Id |-> None] /\ active' = {}
  /\ lines' = [i \in Id |-> <<>>]
  /\ result' = [i \in Id |-> IF proc[i] # None THEN Gone ELSE result[i]]
  /\ UNCHANGED <<panel, world, earned, started>>
\* Six hours pass for what was made first.
Ages(i) ==
  /\ i \notin active
  /\ \/ nets[i] = "new" /\ nets' = [nets EXCEPT ![i] = "old"] /\ UNCHANGED cont
     \/ nets[i] # "new" /\ cont[i] = "new" /\ cont' = [cont EXCEPT ![i] = "old"] /\ UNCHANGED nets
  /\ UNCHANGED <<panel, wire, earned, proc, active, rules, folder, started, faults>>

-----------------------------------------------------------------------------
Init ==
  /\ run = [i \in Id |-> None] /\ job = [i \in Id |-> "none"] /\ cancels = {}
  /\ lines = [i \in Id |-> <<>>] /\ result = [i \in Id |-> None]
  /\ proc = [i \in Id |-> None] /\ active = {}
  /\ cont = [i \in Id |-> "none"] /\ nets = cont /\ rules = {} /\ folder = {} /\ earned = {}
  /\ started = 0 /\ faults = 0

Runner(i) ==
  \/ SweepContainers(i) \/ SweepNetworks(i) \/ SweepRules(i) \/ SweepFolders(i)
  \/ Prepare(i) \/ Network(i) \/ Firewall(i) \/ Databases(i) \/ Build(i) \/ StartSite(i)
  \/ Finds(i) \/ Report(i) \/ Aborted(i)
  \/ RemoveContainers(i) \/ RemoveNetworks(i) \/ RemoveRules(i) \/ Done(i)
Next ==
  \/ \E s \in Site : Start(s)
  \/ \E i \in Id :
       \/ JobRuns(i) \/ Event(i) \/ JobEnds(i) \/ JobLost(i)
       \/ CancelWaiting(i) \/ CancelRunning(i) \/ Delete(i)
       \/ Runner(i) \/ Ages(i)
  \/ Restart \/ AgentDies
Spec == Init /\ [][Next]_vars

-----------------------------------------------------------------------------
TypeOK ==
  /\ \A i \in Id : run[i] # None => run[i].status \in Active \cup {"done", "error", "cancelled"}
  /\ job \in [Id -> {"none", "queued", "running"}] /\ cancels \subseteq Id /\ active \subseteq Id
  /\ cont \in [Id -> {"none", "new", "old"}] /\ nets \in [Id -> {"none", "new", "old"}]
  /\ rules \subseteq Id /\ folder \subseteq Id /\ earned \subseteq Id

\* A run is shown as ready for production only if its tester wrote a readable report
\* that says so and nothing serious was found, whichever event lines were lost on
\* the way, whoever cancelled, and whenever the panel or the agent restarted.
ReadyIsEarned == \A i \in Id : run[i] # None /\ run[i].verdict = "ready" => i \in earned

\* A sweep takes nothing from a run that is still under way on that server, also
\* when the panel has given up on it and names it to the next run.
SweepSparesTheLivingStep ==
  \A i \in active \cap active' :
    proc'[i] = proc[i]
    => /\ cont'[i] = cont[i] /\ nets'[i] = nets[i]
       /\ (i \in rules) = (i \in rules') /\ (i \in folder) = (i \in folder')
SweepSparesTheLiving == [][SweepSparesTheLivingStep]_vars
=============================================================================
