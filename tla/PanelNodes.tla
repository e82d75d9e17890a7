----------------------------- MODULE PanelNodes -----------------------------
(***************************************************************************)
(* Making a server a panel node and removing the panel from it again:       *)
(* the jobs of the active panel (panel/lib/cluster.mjs) and the two tasks   *)
(* of the server's agent (panelInstall and panelRemove of shared/edge.mjs). *)
(* The panel may give up on a task that goes on; the agent and the panel    *)
(* may restart.                                                             *)
(***************************************************************************)
EXTENDS Naturals, Sequences

CONSTANTS
  Server,      \* agent servers
  Port, None,
  MaxJobs, MaxFaults   \* bounds for TLC

VARIABLES
  panel,     \* servers[].panel.directUrl of the panel nodes, None of the others
  haOn,      \* config.ha.enabled
  job,       \* the job under way (their lock is "panel-node"), or Idle
  \* the servers
  tasks,     \* those of each server, in line for its panel: the first is at work
  at,        \* the step the task at work has come to
  code,      \* /opt/fcc: none, whole or mixed
  haLocal,   \* the address in /var/lib/fcc/ha-local.json, or None
  unit,      \* the port in fcc.service, or None
  running,   \* what the panel that runs says its address is, or None
  opened,    \* the ports the firewall opens for the other servers
  gone,      \* history: the panel was removed, and not asked for since
  jobs, faults

records == <<panel, haOn>>
machine == <<code, haLocal, unit, running, opened>>
vars == <<records, job, tasks, at, machine, gone, jobs, faults>>

Idle == [kind |-> "none"]
Fault == faults < MaxFaults /\ faults' = faults + 1

-----------------------------------------------------------------------------
(* The jobs of the panel.                                                   *)

\* guard of POST /api/servers/:id/panel, and panelBlocker: agents that are away are left out.
MayEnable(s) == job = Idle /\ jobs < MaxJobs
MayDisable(s) == job = Idle /\ jobs < MaxJobs /\ panel[s] # None

\* enablePanelNode: the records first, so that the standby can join as soon as it starts.
Enable(s, port) ==
  /\ MayEnable(s)
  /\ jobs' = jobs + 1
  /\ panel' = [panel EXCEPT ![s] = port]
  /\ haOn' = TRUE
  /\ job' = [kind |-> "enable", server |-> s, was |-> panel[s], wasHa |-> haOn, wants |-> jobs']
  /\ tasks' = [tasks EXCEPT ![s] = Append(@, [kind |-> "install", port |-> port, id |-> jobs'])]
  /\ gone' = [gone EXCEPT ![s] = FALSE]
  /\ UNCHANGED <<at, machine, faults>>

\* mutant: failover stays on without a panel node
StillOn(p) == TRUE

\* The last one turns failover off.
OnWith(p) == \E s \in Server : p[s] # None

\* disablePanelNode
Disable(s) ==
  /\ MayDisable(s)
  /\ jobs' = jobs + 1
  /\ panel' = [panel EXCEPT ![s] = None]
  /\ haOn' = (haOn /\ OnWith(panel'))
  /\ job' = [kind |-> "disable", server |-> s, was |-> panel[s], wasHa |-> haOn, wants |-> jobs']
  /\ tasks' = [tasks EXCEPT ![s] = Append(@, [kind |-> "remove", port |-> 0, id |-> jobs'])]
  /\ UNCHANGED <<at, machine, gone, faults>>

\* The catch of enablePanelNode: s is the record as it was just updated.
PutBack ==
  LET s == job.server
  IN  /\ panel' = [panel EXCEPT ![s] = IF job.was = None THEN None ELSE @]
      /\ haOn' = (haOn /\ (job.wasHa \/ OnWith(panel')))

\* The job hears of its task, or has waited too long for it or was cancelled.
Hears(ok) ==
  IF ok THEN UNCHANGED records /\ gone' = [gone EXCEPT ![job.server] = (job.kind = "disable")]
  ELSE /\ IF job.kind = "enable" THEN PutBack ELSE UNCHANGED records
       /\ UNCHANGED gone

GivesUp ==
  /\ Fault
  /\ job # Idle
  /\ Hears(FALSE)
  /\ job' = Idle
  /\ UNCHANGED <<tasks, at, machine, jobs>>

\* recordPanelUrls: what a panel node says its address is replaces the one in the records.
RecordUrl(s) ==
  /\ haOn /\ panel[s] # None /\ running[s] \notin {None, panel[s]}
  /\ panel' = [panel EXCEPT ![s] = running[s]]
  /\ UNCHANGED <<haOn, job, tasks, at, machine, gone, jobs, faults>>

-----------------------------------------------------------------------------
(* The tasks of the agent, one at a time on a server.                       *)

\* mutant: they do not wait for each other
AnyTurn(s, i) == i \in DOMAIN tasks[s]

\* withSiteLock("cluster:panel")
Turn(s, i) == i = 1 /\ tasks[s] # <<>>

Is(s, i, kind, step) == Turn(s, i) /\ tasks[s][i].kind = kind /\ at[s] = step
Goes(s, step) == at' = [at EXCEPT ![s] = step]
Rest(s, i) == [tasks EXCEPT ![s] = SubSeq(@, 1, i - 1) \o SubSeq(@, i + 1, Len(@))]

\* The task ends; a job that waits for it hears of it.
Ends(s, i, ok) ==
  /\ tasks' = Rest(s, i)
  /\ Goes(s, "start")
  /\ IF job # Idle /\ job.wants = tasks[s][i].id
     THEN Hears(ok) /\ job' = Idle ELSE UNCHANGED <<records, gone, job>>
  /\ UNCHANGED <<jobs, faults>>
Works == UNCHANGED <<records, job, gone, tasks, jobs, faults>>

\* checkPanelPayload, downloadPanelCode, the archive and node --check: nothing is changed yet.
Stage(s, i) ==
  /\ Is(s, i, "install", "start")
  /\ Goes(s, "swap") /\ Works
  /\ UNCHANGED machine

\* swapPanelCode: items are exchanged one by one; on an error they are put back.
Swaps(s, i) ==
  /\ Is(s, i, "install", "swap")
  /\ code' = [code EXCEPT ![s] = "mixed"]
  /\ Goes(s, "swapping") /\ Works
  /\ UNCHANGED <<haLocal, unit, running, opened>>
Swapped(s, i) ==
  /\ Is(s, i, "install", "swapping")
  /\ code' = [code EXCEPT ![s] = "whole"]
  /\ Goes(s, "local") /\ Works
  /\ UNCHANGED <<haLocal, unit, running, opened>>

\* ha-local.json: which server this is, its token and address.
WriteLocal(s, i) ==
  /\ Is(s, i, "install", "local")
  /\ haLocal' = [haLocal EXCEPT ![s] = tasks[s][i].port]
  /\ Goes(s, "unit") /\ Works
  /\ UNCHANGED <<code, unit, running, opened>>

\* renderPanelUnit
WriteUnit(s, i) ==
  /\ Is(s, i, "install", "unit")
  /\ unit' = [unit EXCEPT ![s] = tasks[s][i].port]
  /\ Goes(s, "restart") /\ Works
  /\ UNCHANGED <<code, haLocal, running, opened>>

Restart(s, i) ==
  /\ Is(s, i, "install", "restart")
  /\ running' = [running EXCEPT ![s] = haLocal[s]]
  /\ Goes(s, "firewall") /\ Works
  /\ UNCHANGED <<code, haLocal, unit, opened>>

\* syncUfwRules: what goes wrong here is only logged.
Firewall(s, i) ==
  /\ Is(s, i, "install", "firewall")
  /\ opened' = [opened EXCEPT ![s] = {tasks[s][i].port}]
  /\ Ends(s, i, TRUE)
  /\ UNCHANGED <<code, haLocal, unit, running>>

\* A step fails, or finds the task cancelled.
InstallFails(s, i) ==
  /\ Fault
  /\ Turn(s, i) /\ tasks[s][i].kind = "install" /\ at[s] \in {"start", "swap", "local", "unit", "restart"}
  /\ running' = [running EXCEPT ![s] = IF at[s] = "restart" THEN None ELSE @]
  /\ tasks' = Rest(s, i) /\ Goes(s, "start")
  /\ IF job # Idle /\ job.wants = tasks[s][i].id
     THEN Hears(FALSE) /\ job' = Idle ELSE UNCHANGED <<records, gone, job>>
  /\ UNCHANGED <<code, haLocal, unit, opened, jobs>>

\* panelRemove
StopPanel(s, i) ==
  /\ Is(s, i, "remove", "start")
  /\ running' = [running EXCEPT ![s] = None] /\ unit' = [unit EXCEPT ![s] = None]
  /\ Goes(s, "remove") /\ Works
  /\ UNCHANGED <<code, haLocal, opened>>
RemovePanel(s, i) ==
  /\ Is(s, i, "remove", "remove")
  /\ code' = [code EXCEPT ![s] = "none"] /\ haLocal' = [haLocal EXCEPT ![s] = None]
  /\ opened' = [opened EXCEPT ![s] = {}]
  /\ Ends(s, i, TRUE)
  /\ UNCHANGED <<unit, running>>

-----------------------------------------------------------------------------

\* The agent's process ends, with the tasks it has; nobody puts anything back.
AgentDies(s) ==
  /\ Fault
  /\ tasks[s] # <<>>
  /\ tasks' = [tasks EXCEPT ![s] = <<>>]
  /\ Goes(s, "start")
  /\ IF job # Idle /\ job.server = s THEN Hears(FALSE) /\ job' = Idle ELSE UNCHANGED <<records, gone, job>>
  /\ UNCHANGED <<machine, jobs>>

\* The active panel restarts, or another takes over: the job is forgotten.
PanelDies ==
  /\ Fault
  /\ job # Idle
  /\ job' = Idle
  /\ UNCHANGED <<records, gone, tasks, at, machine, jobs>>

\* fcc.service: Restart=always
StandbyRestarts(s) ==
  /\ unit[s] # None /\ running[s] = None /\ code[s] = "whole"
  /\ running' = [running EXCEPT ![s] = haLocal[s]]
  /\ UNCHANGED <<records, job, gone, tasks, at, code, haLocal, unit, opened, jobs, faults>>

Init ==
  /\ panel = [s \in Server |-> None] /\ haOn = FALSE
  /\ job = Idle
  /\ tasks = [s \in Server |-> <<>>] /\ at = [s \in Server |-> "start"]
  /\ code = [s \in Server |-> "none"] /\ haLocal = [s \in Server |-> None]
  /\ unit = [s \in Server |-> None] /\ running = [s \in Server |-> None]
  /\ opened = [s \in Server |-> {}]
  /\ gone = [s \in Server |-> FALSE]
  /\ jobs = 0 /\ faults = 0

Next ==
  \/ \E s \in Server :
       \/ \E port \in Port : Enable(s, port)
       \/ Disable(s) \/ RecordUrl(s) \/ AgentDies(s) \/ StandbyRestarts(s)
       \/ \E i \in DOMAIN tasks[s] :
            \/ Stage(s, i) \/ Swaps(s, i) \/ Swapped(s, i) \/ WriteLocal(s, i) \/ WriteUnit(s, i)
            \/ Restart(s, i) \/ Firewall(s, i) \/ InstallFails(s, i)
            \/ StopPanel(s, i) \/ RemovePanel(s, i)
  \/ GivesUp \/ PanelDies

Spec == Init /\ [][Next]_vars

-----------------------------------------------------------------------------

\* While no job is at work, failover is on exactly while there is a panel node beside main,
\* whatever job failed, was given up or died with the panel.
FailoverMeansNodes == job = Idle => (haOn <=> OnWith(panel))

\* Once "The panel was removed" was reported nothing brings it back, not even an installation
\* the panel had given up on: "one panel change at a time".
RemovedStaysGone ==
  \A s \in Server : gone[s] => code[s] = "none" /\ unit[s] = None /\ running[s] = None

=============================================================================
