----------------------------- MODULE MainSwitch -----------------------------
(***************************************************************************)
(* Changing the main server (panel/lib/main-switch.mjs, main-handoff.mjs):    *)
(* "main" is a name in the records, and the job gives it to the machine that  *)
(* already runs the active panel, after it has moved or fetched what the old  *)
(* machine has.  Machines are told apart from the names the records use.      *)
(***************************************************************************)
EXTENDS Naturals, FiniteSets

CONSTANTS
  None,
  MaxFaults, MaxChanges  \* bounds for TLC

Old == "old"      \* the machine that is the main server at first
New == "new"      \* the machine whose panel is to become it
Third == "third"  \* another server
Machine == {Old, New, Third}
Name == {"main", "x", "y", "retired"}

VARIABLES
  machine,  \* which machine a name of servers[] stands for, None: the name is not in use
  mysqlHa,  \* config.mysqlHa: [enabled, primary, replica], as names
  data,     \* the machine that has the databases, None: there are none
  site,     \* sites[].serverIds of the one website, as names
  files,    \* the machines that website is deployed on
  archive,  \* machines that have the local backup archive
  certs,    \* machines that have the Let's Encrypt certificates
  edge,     \* New still serves what it served as an edge node
  mark,     \* main-switch.json of New: its edgeCleanup, or None
  haOn,     \* config.ha.enabled
  local,    \* ha-local.json of New: the name it goes by
  panel,    \* New's panel process: "active", "starting", "stuck"
  oldPanel, \* Old's: "standby", "retiring" (it stops in 20 s), "off"
  reach,    \* Old's agent is connected
  url,      \* config.agentPanelUrl is set
  pc,       \* the step server.main.change is at, None: no such job
  plan,     \* what its preflight found: [db, online], or None
  halfway,  \* history: New's panel died between saving the records and its own name
  touched,  \* history: a website or a database came to Old while the job ran
  changes, faults  \* counters

records == <<machine, mysqlHa, site, haOn, url>>
disks == <<data, files, archive, certs, edge, mark>>
history == <<halfway, touched>>
counters == <<changes, faults>>
after == <<edge, mark>>
vars == <<records, disks, local, panel, oldPanel, reach, pc, plan, history, counters>>

Nothing == [db |-> None, online |-> FALSE]

-----------------------------------------------------------------------------
(* preflight: what blocks the switch, and the plan for the databases.        *)

OnOld(ids) == "main" \in ids

DbPlan ==
  IF ~mysqlHa.enabled THEN "none"
  ELSE IF mysqlHa.primary = "main"
       THEN IF mysqlHa.replica = "x" THEN "switchover" ELSE "blocked"
       ELSE IF mysqlHa.replica = "main" THEN "disable" ELSE "none"
\* mutant: without replication, databases block the switch wherever they are
BlockedByAny == DbPlan = "blocked" \/ (~mysqlHa.enabled /\ data # None)
DbBlocked ==
  \/ DbPlan = "blocked"
  \/ ~mysqlHa.enabled /\ mysqlHa.primary = "main" /\ data # None

Ready == ~DbBlocked /\ ~OnOld(site) /\ panel = "active" /\ local = "x"

Start ==
  /\ pc = None /\ Ready
  /\ pc' = "db" /\ plan' = [db |-> DbPlan, online |-> reach /\ oldPanel = "standby"]
  /\ UNCHANGED <<records, disks, local, panel, oldPanel, reach, history, counters>>

-----------------------------------------------------------------------------
(* The job.                                                                  *)

Goto(step) == pc' = step
Fail == pc' = None /\ plan' = Nothing

\* ctx.mysqlHa.switchover, waited for: both servers take part, or it fails.
Switchover ==
  /\ pc = "db" /\ plan.db = "switchover"
  /\ IF reach /\ mysqlHa.enabled /\ mysqlHa.primary = "main" /\ mysqlHa.replica = "x"
     THEN /\ mysqlHa' = [mysqlHa EXCEPT !.primary = "x", !.replica = "main"]
          /\ data' = IF data = None THEN None ELSE New
          /\ Goto("disable") /\ UNCHANGED plan
     ELSE Fail /\ UNCHANGED <<mysqlHa, data>>
  /\ UNCHANGED <<machine, site, haOn, url, files, archive, certs, after, local, panel, oldPanel, reach, history, counters>>

\* ctx.mysqlHa.disable: the primary keeps every database.
DisableReplication ==
  /\ pc = "disable" \/ (pc = "db" /\ plan.db = "disable")
  /\ IF mysqlHa.enabled
     THEN mysqlHa' = [mysqlHa EXCEPT !.enabled = FALSE, !.replica = None] /\ Goto("transfer") /\ UNCHANGED plan
     ELSE Fail /\ UNCHANGED mysqlHa
  /\ UNCHANGED <<machine, site, haOn, url, disks, local, panel, oldPanel, reach, history, counters>>
NoDatabases ==
  /\ pc = "db" /\ plan.db = "none"
  /\ Goto("transfer")
  /\ UNCHANGED <<records, disks, local, panel, oldPanel, reach, plan, history, counters>>

\* mainHandoff: main's embedded agent sends a file, if it can and still has it.
Sends(what) == plan.online /\ reach /\ Old \in what

\* missingBackups: an archive that this machine has is not asked for; one that fails stays.
Transfer ==
  /\ pc = "transfer"
  /\ archive' = IF New \notin archive /\ Sends(archive) THEN archive \cup {New} ELSE archive
  /\ Goto("certs")
  /\ UNCHANGED <<records, data, files, certs, after, local, panel, oldPanel, reach, plan, history, counters>>
\* installLetsEncrypt: beside what this machine has, never over it.
Certificates ==
  /\ pc = "certs"
  /\ certs' = IF Sends(certs) THEN certs \cup {New} ELSE certs
  /\ Goto("retire")
  /\ UNCHANGED <<records, data, files, archive, after, local, panel, oldPanel, reach, plan, history, counters>>
\* Cancelled, up to here.
Cancel ==
  /\ pc \in {"db", "disable", "transfer", "certs"} /\ faults < MaxFaults /\ faults' = faults + 1
  /\ Fail
  /\ UNCHANGED <<records, disks, local, panel, oldPanel, reach, history, changes>>

\* main.retire: the old panel stops a moment later; if it does not answer the job goes on.
Retire ==
  /\ pc = "retire"
  /\ oldPanel' = IF plan.online /\ reach /\ oldPanel = "standby" THEN "retiring" ELSE oldPanel
  /\ Goto("agents")
  /\ UNCHANGED <<records, disks, local, panel, reach, plan, history, counters>>
OldStops ==
  /\ oldPanel = "retiring"
  /\ oldPanel' = "off" /\ reach' = FALSE
  /\ UNCHANGED <<records, disks, local, panel, pc, plan, history, counters>>
\* The agents' new address, and half a minute for them to hear it.
TellAgents ==
  /\ pc = "agents"
  /\ url' = TRUE /\ Goto("rewrite")
  /\ UNCHANGED <<machine, mysqlHa, site, haOn, disks, local, panel, oldPanel, reach, plan, history, counters>>

\* remapIdentity: what the old name and the new main's stood for.
\* mutant: the primary keeps the name it had
KeepsName(name) == name
NewName(name) == CASE name = "main" -> "retired" [] name = "x" -> "main" [] OTHER -> name
Remapped(ids) == {NewName(id) : id \in ids \ {"main"}}

\* rewriteIdentity: the records and config.json, saved at once; then ha-local.json.
Rewrite ==
  /\ pc = "rewrite"
  /\ machine' = [machine EXCEPT !["main"] = New, !["x"] = None, !["retired"] = Old]
  /\ mysqlHa' = [mysqlHa EXCEPT !.primary = NewName(@),
                                !.replica = CASE @ = "main" -> None [] @ = "x" -> "main" [] OTHER -> @]
  /\ site' = Remapped(site)
  /\ haOn' = FALSE
  /\ Goto("name")
  /\ UNCHANGED <<url, disks, local, panel, oldPanel, reach, plan, history, counters>>
SetLocalServerId ==
  /\ pc = "name"
  /\ local' = "main" /\ panel' = "starting" /\ mark' = "pending"
  /\ Fail
  /\ UNCHANGED <<records, data, files, archive, certs, edge, oldPanel, reach, history, counters>>

\* start, on the new main server: what this machine served as an edge node is taken down
\* once (retireEdge); an error is noted, and nobody tries again.
CleanUp ==
  /\ panel = "active" /\ local = "main" /\ mark = "pending"
  /\ \/ mark' = "done" /\ edge' = FALSE /\ UNCHANGED counters
     \/ /\ faults < MaxFaults /\ faults' = faults + 1 /\ UNCHANGED changes
        /\ mark' = "failed" /\ UNCHANGED edge
  /\ UNCHANGED <<records, data, files, archive, certs, local, panel, oldPanel, reach, pc, plan, history>>

-----------------------------------------------------------------------------
(* What else happens.                                                        *)

\* New's panel dies; the job is marked failed at the next start.
Crash ==
  /\ panel = "active" /\ faults < MaxFaults /\ faults' = faults + 1
  /\ panel' = "starting" /\ Fail
  /\ halfway' = (halfway \/ pc = "name")
  /\ UNCHANGED <<records, disks, local, oldPanel, reach, touched, changes>>
\* A standby that the records do not know never stands for election (candidacyBlocker).
Boot ==
  /\ panel = "starting"
  /\ panel' = IF local = "main" \/ machine[local] # None THEN "active" ELSE "stuck"
  /\ UNCHANGED <<records, disks, local, oldPanel, reach, pc, plan, history, counters>>

\* Old's agent is lost, and connects again while its panel is there.
Lose ==
  /\ reach /\ faults < MaxFaults /\ faults' = faults + 1
  /\ reach' = FALSE
  /\ UNCHANGED <<records, disks, local, panel, oldPanel, pc, plan, history, changes>>
Reconnect ==
  /\ ~reach /\ oldPanel # "off" /\ machine["main"] = Old
  /\ reach' = TRUE
  /\ UNCHANGED <<records, disks, local, panel, oldPanel, pc, plan, history, counters>>

\* A failover of the databases.
Promote ==
  /\ mysqlHa.enabled /\ mysqlHa.replica # None /\ machine[mysqlHa.primary] = Old /\ ~reach
  /\ mysqlHa' = [mysqlHa EXCEPT !.primary = mysqlHa.replica, !.replica = None]
  /\ data' = IF data = None THEN None ELSE machine[mysqlHa.replica]
  /\ UNCHANGED <<machine, site, haOn, url, files, archive, certs, after, local, panel, oldPanel, reach, pc, plan, history, counters>>

\* The website is moved to another server (a deployment, then its old files go).
Move ==
  /\ panel = "active" /\ changes < MaxChanges /\ changes' = changes + 1
  /\ \E name \in {"main", "x", "y"} :
       /\ machine[name] # None
       /\ machine[name] = Old => reach
       /\ site' = {name} /\ files' = {machine[name]}
       /\ touched' = (touched \/ (pc # None /\ machine[name] = Old))
  /\ UNCHANGED <<machine, mysqlHa, haOn, url, data, archive, certs, after, local, panel, oldPanel, reach, pc, plan, halfway, faults>>
\* The first database is created, on the primary.
CreateDatabase ==
  /\ panel = "active" /\ data = None /\ changes < MaxChanges /\ changes' = changes + 1
  /\ machine[mysqlHa.primary] = Old => reach
  /\ data' = machine[mysqlHa.primary]
  /\ touched' = (touched \/ (pc # None /\ data' = Old))
  /\ UNCHANGED <<records, files, archive, certs, after, local, panel, oldPanel, reach, pc, plan, halfway, faults>>

Init ==
  /\ machine = [n \in Name |-> CASE n = "main" -> Old [] n = "x" -> New [] n = "y" -> Third [] OTHER -> None]
  /\ mysqlHa \in [enabled : {TRUE}, primary : {"main", "x", "y"}, replica : {"main", "x", "y"}]
                 \cup [enabled : {FALSE}, primary : {"main", "x", "y"}, replica : {None}]
  /\ mysqlHa.primary # mysqlHa.replica
  /\ data \in {None, machine[mysqlHa.primary]}
  /\ site \in {{"main"}, {"x"}, {"main", "y"}} /\ files = {machine[id] : id \in site}
  /\ archive \in {{Old}, {Old, New}} /\ certs = {Old} /\ edge = TRUE /\ mark = None
  /\ haOn = TRUE /\ local = "x" /\ panel = "active" /\ oldPanel = "standby" /\ reach = TRUE /\ url = FALSE
  /\ pc = None /\ plan = Nothing /\ halfway = FALSE /\ touched = FALSE /\ changes = 0 /\ faults = 0

Next ==
  \/ Start \/ Switchover \/ DisableReplication \/ NoDatabases \/ Transfer \/ Certificates \/ Cancel \/ Retire \/ OldStops
  \/ TellAgents \/ Rewrite \/ SetLocalServerId \/ CleanUp
  \/ Crash \/ Boot \/ Lose \/ Reconnect \/ Promote \/ Move \/ CreateDatabase
Job == Switchover \/ DisableReplication \/ NoDatabases \/ Transfer \/ Certificates \/ Retire \/ TellAgents \/ Rewrite \/ SetLocalServerId
\* The administrator tries again; processes start again; an agent that was lost connects again.
Fairness == SF_vars(Start) /\ WF_vars(Job) /\ WF_vars(Boot) /\ WF_vars(OldStops) /\ WF_vars(CleanUp) /\ WF_vars(Reconnect)
Spec == Init /\ [][Next]_vars /\ Fairness

-----------------------------------------------------------------------------
(* Properties.                                                               *)

\* Through every step and failure of the switch a name in the records stands for the
\* machine that has the thing: the databases' primary has the databases, a website's
\* servers have its files (remapIdentity, and the order of the job's steps).  What came to
\* the old server while the job ran is left out; see NothingStaysBehind.
RecordsFindTheirData ==
  ~touched => /\ data # None => machine[mysqlHa.primary] = data
              /\ files = {machine[name] : name \in site}

\* A switch that can be started is finished in the end, whatever step a crash, a lost
\* agent or a cancellation fell on: each attempt takes up what the earlier one left (a
\* switchover that is already done, an old server that is already gone).  Not if the
\* panel died between saving the new records and the new name of its own machine.  And
\* what the machine served as an edge node is gone then, unless taking it down failed.
Held == OnOld(site) \/ (data = Old /\ ~mysqlHa.enabled)  \* the administrator has to move it first
Underway == pc # None
Finished == local = "main" /\ panel = "active" /\ (edge => mark = "failed")
Settled == Finished \/ Held \/ halfway
SwitchEnds == Underway ~> Settled

\* docs/STANDALONE.md: "no websites left on the old main, databases not only on the old
\* main".  They come there while the job copies archives: the checks are not repeated.
NothingStaysBehind ==
  local = "main" => (Old \in files => Cardinality(files) > 1) /\ data # Old
=============================================================================
