# Verification of the Forthway Command Center

TLA+ models of the parts of the Forthway Command Center that decide who is in
charge, what survives a failure and what may run at the same time; the TLC
configurations that check them on small instances; and TLAPS proofs of what
matters most for instances of any size. Every definition is read off the
code, and `PROJECT.json` ("map") gives its lines; a definition that only
abbreviates another, or is a step of one whose lines it shares, is covered by
the entry of that one. Where the code and what it
says of itself differ, the models follow the code, and the difference is
listed under *What the checks found*.

Contents: [The system](#the-system) · [Modules and code](#modules-and-code) ·
[Runs](#runs) · [Fairness](#fairness) · [Proofs](#proofs) ·
[What the checks found](#what-the-checks-found) ·
[Assumptions](#assumptions-of-the-models) · [Not modelled](#not-modelled) · [Plan](#plan)

To repeat a run: `tlc -config MCWork.cfg MCWork`; where a run has no MC module
the configuration belongs to the component's own (`tlc -config MCHaLease.cfg HaLease`).
To check proofs: `tlapm HaLeaseProofs.tla`, and so on.

## The system

One panel (`src/panel`) administers a set of servers. Each of them runs an
agent (`src/node`) that only dials out to the panel. Some servers are *panel
nodes*: they run the panel too, as standbys. Every enabled server's agent is
also a *voter*. Exactly one panel node should be active; it is elected by the
voters, copies its files to the standbys, and gives way if it loses its votes.

```
            votes (leases)                 tasks, results
  voters <----------------> active panel <----------------> agents
 (shared/ha-voter)          panel/lib/ha   panel/lib/cluster  (node/node-agent,
                               |   ^        ^                  shared/tasks)
             files, versions   |   | acks   | runTask
                               v   |        |
                            standbys      job queue (panel/lib/jobs)
```

How they meet: `ha.mjs` starts and stops every other module of the panel
(promotion, fence). `store.mjs` holds the database that handover freezes, that
replication copies and that the job queue keeps its records in. A job runs
tasks on agents through `cluster.runTask`; on the main server tasks run in the
panel's process. The agents' long polls notice a new leader by the votes and
say hello to it. Websites, databases, backups, certificates, tunnels and
updates are jobs; what they do on a server is a task.

### Panel failover

| part | state | what is hard | what makes it correct |
|---|---|---|---|
| **Timing** `shared/ha-timing.mjs` | `failoverSeconds` in config.json | seventeen durations from one number, rounded and clamped; the setting changes under a running leader | renewals fit into a lease, polls into the silence window, ticks and fence hooks into the margin |
| **Voter** `shared/ha-voter.mjs` | `vote.json` (term, votedFor, leaseMs, knownCommitted); the lease itself in memory | lost, delayed and repeated messages; a restart forgets the lease; agents of several versions | a vote that is counted is held |
| **Election** `panel/lib/ha.mjs` | role, term, maxTermSeen, grants by voter; `ha-local.json` | no clocks are compared; promotion takes seconds; the panel that turns failover on leads before it has a vote | at most one panel in office, on live leases |
| **Replication** `panel/lib/ha.mjs` | `tracker` (version, hashes, seqs), committed; at a standby `local.version` and the files | crashes between files; late answers; lost acks; two leaders of one term | equal versions mean equal files; nobody goes back; committed data survives |
| **Handover** `ha.mjs startHandover`, `store.mjs` | `tracker.frozen`, `db.readOnly`, `config.ha.handover` | API calls, the delayed save, scans and fences go on between its awaits | the target has all that was saved; every freeze ends |
| **Membership** `cluster.mjs`, `ha.mjs` | `servers` in each panel's own database | each panel counts a majority of its own list | still at most one panel in office |
| **Updates** `updates.mjs`, `ha.mjs` | code on disk and in the process, the rollout's record, the restart window | servers crash at any step; a standby follows the target or the active panel | one server at a time, the active one last; a release that does not start is taken back |
| **Panel nodes**, **agent link** `cluster.mjs`, `edge.mjs`, `node-agent.mjs` | records, files of the agent, addresses | tasks that go on after the job gave up; panels that move | a node that was removed stays gone; agents find the active panel |

### Work

| part | state | what is hard | what makes it correct |
|---|---|---|---|
| **Job queue** `panel/lib/jobs.mjs` | records, `waiting`, `lockOwner`, `slots`, `live` | locks and slots together; jobs inside jobs; functions that outlive their record; restarts | one owner for each lock, slots within the limit, nobody forgotten, passed over or starved |
| **Tasks on other servers** `cluster.mjs`, `node-agent.mjs`, `tasks.mjs` | `queues`, `tasks`, `parked`; at the agent `running`, `siteLocks` | answers to polls nobody reads any more; results posted twice; restarts; updates | a task takes effect at most once; callers are told the truth; one task per website |
| **Deployment engine** `deployer.mjs`, `tasks.mjs` | the app directory, staging, the snapshot, the app's process | the agent dies between two steps of a swap; stops that do not take; cancels | "deployed" means that the release is in place and served |
| **Websites** `sites.mjs`, `env.mjs`, `staging.mjs`, `site-tests.mjs`, `tasks.mjs` | releases, builds, placement, variables; runs and copies | uploads, deletions and changes beside jobs; several servers | a deploy that ends well is on every server; nothing that is needed is deleted |
| **Databases** `mysql.mjs`, both `mysql-ha.mjs` | records, MySQL's databases and accounts; configuration and operation of the replication | every script is awaited; crashes and takeovers half way; a primary that is cut off | no write that was reported is lost; former primaries are fenced |
| **Backups** `backups.mjs` | records, files, shares, the schedule's state | retention, removal and restore beside each other; another server takes over | a restore saves first; the newest good ones are kept |
| **Front door, edges, tunnels** `loadbalancer.mjs`, `edge.mjs`, `cloudflare.mjs` | nginx files, certificates, what each edge has, what Cloudflare has | chains of writes with tests and reloads; lost pushes; other people's entries | what was synced is served; what others made stays |
| **Main switch** `main-switch.mjs` | names in the records, files on two machines | it crosses every other component, and may break off anywhere | the records name the machine that has the thing |
| **Sign-in** `login.mjs`, `auth.mjs`, `passkeys.mjs` | admins, sessions, passkeys, challenges | handlers wait for GitHub and for hashes | an owner is left; nobody gets in twice |
| **Figures, events, alerts** `monitor.mjs`, `cluster-alerts.mjs`, `analytics.mjs`, `usage.mjs`, `server.mjs` | state files, counters, ring buffers | crashes, takeovers, rotation, late posts | nothing counted or told twice |

## Modules and code

| module | what it models |
|---|---|
| `HaTiming` | the table of durations as exact integer arithmetic for all settings; the setting in force and the one behind the grants the leader counts |
| `PanelLeadership` | the promise: office is held by one panel, and passes through a vacancy |
| `HaLease`, `HaLeaseProofs` | voters and panel nodes with requests and grants on their way; leases as countdowns, `Tick` as the only passing of time; the proofs about `HaTiming`, whose durations the election rests on |
| `HaMembership` | votes counted by each panel's own list of servers, while the list changes and is replicated; its proofs |
| `HaReplication`, `HaReplicationProofs` | versions, differences, full copies, acks, torn applies, the voters' refusal of stale candidates |
| `HaHandover` | the leader's process during `startHandover`, and everything it interleaves with; its proofs |
| `CallOnce` | the promise to the callers of `runTask` |
| `AgentTasks`, `AgentTasksProofs` | dispatch, polls, cancels, timeouts, results, site locks, restarts, updates |
| `JobQueue`, `JobQueueProofs` | every method of `Jobs` that changes state |
| `Rollout`, `PanelUpdate` | updates of all panel servers, and of one |
| `PanelNodes`, `AgentLink`, `MainSwitch` | servers become panel nodes and stop being ones; agents follow the active panel; another machine becomes "main" |
| `DeployEngine`, `DeployEngineProofs` | one website on one server, step by step through the downtime window |
| `SiteDeploy`, `SiteDeployProofs`, `SiteHost`, `Staging`, `SiteTests`, `EnvFile`, `CopyEnv` | a website as the panel sees it; the tasks of its server; its copies, tests and variables |
| `Databases`, `DbServer`, `DbFailover` | administration; one server's MySQL; replication and failover between two |
| `Backups`, `Archives` | backups of a database, and of a server |
| `FrontDoor`, `EdgeSync`, `Tunnels`, `Connectors`, `PhpMyAdmin`, `Software` | what the panel installs and serves |
| `SignIn` | administrators, sessions and passkeys |
| `Monitor`, `Alerts`, `Traffic`, `Usage`, `Events` | what is watched, counted and told |
| `MCWork`, `MCPanel`, `MCLive` | many components in one run each (below) |

State and actions keep the names of the code. In `HaLease`, `leaseLeft[v]` is
`leaseUntil - now()` of a voter, and `grants[n][v]` the entry of
`grants.get(voterId)` with its age instead of its time. One `tick()` of ha.mjs
is `TickEvaluate`; an `evaluate()` is also part of every action that ends in
one. `Tick` lets a unit of time pass everywhere and is not enabled when a
serving panel would go longer than `EvalEvery` without an evaluation. In
`JobQueue` a call of `_pump` is part of every action whose method calls it, and its
loop over the queue is the recursive function `Turns`, a turn at a time. In
`AgentTasks` the answer to a poll is on its way in `reply`; a poll the agent
gave up stays `parked` until the panel notices, and an answer to it is gone.
In `HaHandover` each call of `startHandover` has its own program counter for
the stretches between its awaits. In `DeployEngine` a job's `step` is the point
of `doDeploy` or `doRollbackSnapshot` it has reached; `gen` is what is moved as
a whole (node_modules and the build), with the release it was built of, the
lockfile its packages were installed for, and the runtime; `torn` remembers
which trees an agent's death may have given packages of another release.

Each model keeps definitions marked *mutant*. They are not used by the
specification. Each is a plausible mistake in the definition after it (a guard
or a reset left out), and `PROJECT.json` names the property that finds it: no
property is listed that no mistake could break.

## Runs

`MCWork`, `MCPanel` and `MCLive` hold many components that share nothing. The first
state chooses a part, only that part takes steps, and the parts use one pool of
variables in turn; so each run is the sum, not the product, of the state
spaces of its parts, and a property `part = "deploy" => ...` says exactly what the
component's own module says. The instance of every component, with its bounds
(`MaxJobs`, `MaxFaults`, ...), stands in the `INSTANCE` at the head of the module.
Two components are not instances but extended: `SiteDeploy` by `MCWork` and `JobQueue` by `MCPanel`,
with variables of their own that stand still while another part moves. Their
constants are in the configurations and the runs list their properties
(`KeptForRollback`, `DeploysArrive`, `JobsAreSound`) as the theorems state them.

| run | instance | distinct states | what it shows |
|---|---|---|---|
| `lease` | 2 panel nodes, 3 voters, lease 3, margin 1, terms to 2, one message in flight per pair; failover is turned on at the start | 0.8 M | at most one panel in office, on live leases; no panel serves without votes; the protocol implements `PanelLeadership` |
| `membership` | 4 servers, 2 of them panel nodes, one change at a time | 1.8 M | one leader while the set of voters changes |
| `handover` | 2 calls, 2 standbys, 2 changes | 1.0 M | the target has what is saved, and freezes end |
| `replication` | 3 panel nodes, 3 voters, two files, a change of leader | 1.1 M | equal versions are equal files, nobody rolls back, what all voters know survives |
| `agent_tasks` | 2 tasks of one website, two or none, batches of 2, 2 restarts or updates | 0.5 M | callers are told the truth, a task takes effect at most once, one task per website, no work lies beside a waiting poll |
| `work` | deploy engine (3 jobs, 1 death or failed stop), websites, their host, tests, staging, variables, copies | 2.1 M | deploys and releases are whole, tests and copies stay apart from the live website |
| `panel` | jobs that start jobs (3 jobs, a website and two servers, functions that stop when told to, 1 order), sign-in, front door, tunnels, connectors, databases, their server, phpMyAdmin (installed before or not), panel nodes, archives | 1.8 M | what the panel does outside itself is what was asked, also when a step fails |
| `records` | (module `MCPanel`) job queue (3 jobs, the grace period of a cancel, 1 order, saves and crashes), monitor, alerts, traffic, usage, events, updates, software, timing | 2.3 M | records agree, nothing is counted or told twice, the durations fit for every setting |
| `live` | job queue, database failover, rollout, backups, edges, main switch, agents | 0.15 M | what must happen in the end, and what may not be lost on the way |
| `term_led_twice` | three nodes, a term in which two lead | | *violated*: see below |
| `events_after_failover` | two panels, one page | | *violated*: see below |

Why the bounds are enough. Two nodes and three voters are the smallest cluster
in which majorities can disagree; the proofs make this independent of the
numbers. Two terms suffice for one election against a leader in office, and one
message in flight of each kind for a message that is overtaken by a newer
term. In `replication` a second file makes a difference distinct from a full
copy, and an apply that can be torn. In `agent_tasks` two tasks of one website
give a line at the agent, and two restarts one on each side. In the sums each part has
the two or three actors that can get in each other's way, and one or two
failures. For the deployment engine two of three releases share a lockfile,
which is what makes packages stay; the proofs lift its bounds.
Symmetry is used only for sets whose members no constant tells
apart, and never in a run with a liveness property. `CHECK_DEADLOCK FALSE` is given
where a bound on writes, terms, calls or orders lets the model come to rest.

## Fairness

Safety runs use `Init /\ [][Next]_vars`. Two runs have liveness properties:

- `handover` (`FairSpec`): weak fairness of the delayed save, the scan, the polling
  loop of `startHandover` and the exit, which are timers of a live process. Polls
  and acks of standbys have none: a target may never answer.
- `live`: weak fairness of the steps of a running process, its timers and loops
  (`Turn1` to `Turn15`), and strong fairness of what is repeated for ever against
  something that may fail each time (`Again1` to `Again5`: the monitor that
  promotes and fences, the automatic rebuild, the start of the switch). The part never changes, so
  fairness of an action of every part together is fairness of each. Nobody has to
  order anything, and faults end because they are bounded.

## Proofs

TLAPS checks the following for every value of the constants that the named
assumptions allow. Six components have a module of proofs. Those of `HaMembership` and
`HaHandover` are in these modules, and those about `HaTiming` in `HaLeaseProofs`, which instantiates it.

**Timing** (`HaLeaseProofs`, where `Timing` is `HaTiming`). No assumption: any set of settings, whatever is read from
config.json, absent or out of range included. `TimingsHold`: a lease leaves room to miss a round of
renewals, a long poll ends inside the silence window, and the budgets are met. `VotesEndFirst`: a
node stops counting a vote before the voter's lease ends, whatever lease the voter
echoes and however the setting was changed since the request. `FenceEndsFirst`: the fence
hooks end before anybody else can be elected, while the setting stays. The
inductive invariant only says that the stored settings are among those that can
be; the work is in the lemmas about the rounding and clamping of each duration. `TimingsSuitTheProtocol`
joins the two modules: the leases and margins that any settings give are as the protocol's proofs assume
(`LeasesAndMargins`), a margin depends on its lease alone, and the tick at which votes are counted fits in it.

**The vote protocol** (`HaLeaseProofs`). Assumed: `NodesAndVoters` (finitely
many voters) and `LeasesAndMargins` (lengths are natural numbers, and a panel
evaluates its votes at least once per margin, whatever the length of the lease:
`TickMs` of 250 ms against margins of at least 1 s). Any number of nodes and
voters, any set of lease lengths that change from request to request, any set
of old voters with a fixed lease, any delays and restarts.
`TypeCorrect`, `OneLeader`, `VotesAreHeld`, `OfficeIsLive`,
`ProtocolImplementsPanel`, that the protocol implements `PanelLeadership`, and,
with the hypothesis that every promotion finds the failover armed
(`ConfigArmed \subseteq {TRUE}`), `ServesBacked`: a panel that serves is backed.
None of these is inductive alone: a state with one leader and a
grant on its way that its voter no longer honours is one step from two leaders.
`IInv` follows a vote through its life: `MessagesCovered` (time
left on a grant on its way is time left at its voter, for that node),
`GrantsCovered` (the same when a node holds it, and its margin is at least the
evaluation interval), `SavedLengthBounds` (the length saved with a vote bounds
the lease, so a voter that restarts and holds its vote for that long cannot
shorten it), and `OfficeBacked` (a panel in office had a majority of counted
grants at its last evaluation). With the margin longer than the time since
then, those leases are all live; two majorities share a voter; and a voter has
one lease to give.

**Changes of the voters** (`HaMembership`). Assumed: `ServersAndPanels`,
and for the second theorem `OneAtATime`: each change reaches all panel nodes
before the next is made. `TypeCorrect`, and `OneLeaderOneChange`: at most one
leader. The votes a panel holds are given to it (`HeldAreGiven`), they are a majority
of the list the leader last counted (`LeadersAreBacked`), and any two lists in use
differ in at most one server (`DatabasesAreNear`, `BasisIsNear`); majorities of two
such lists still meet.

**Replication** (`HaReplicationProofs`). Assumed: `PanelsAndVoters`. Without
more: `TypeCorrect`; `CommittedIsCopied`; `NothingRollsBack`, that no step takes a
node's version back; and `OfficePasses`, that every step, seen by who is in office, is a step of
`PanelLeadership`. Their invariants are `Versions` (a version is of a term its node
has heard of, an answer is of its sender's term, an ack of something written) and
`Votes` (office has a majority of backers, a term that was led was heard of by a
majority, so terms of office only rise). With the hypothesis `TermsLedOnce`:
`SyncedIsEqual` and `ToldSurvives`. The invariant `History` says that everything
standbys have or will get follows one history of published versions (`Origins`,
`Copies`: a file that did not change since a standby's version is what the standby
has; `Differs`, `Grows`); `Survival` adds that acks and commits are in that history
(`AcksFit`, `ToldIsKept`) and that fewer than a majority of any candidate's voters can have
heard of a commit it lacks (`FewAreStale`). `term_led_twice` shows what happens without the hypothesis.

**A planned switch** (`HaHandover`). Assumed: `NobodyIsNoStandby`, and for
the theorems `OneAtATime`: no call of `startHandover` comes while another waits
for its ack. `TypeCorrect`, and that
`TargetHasWhatIsSaved`, `TargetFindsItsMark` and `NoMarkIsLeftBehind` hold. What
is on disk at the target says nothing of the calls that are still to time out;
the invariant (`FreezeIsOwned`) therefore says who owns the freeze: at most one
call is under way (`OneCall`), the panel is frozen only for such a call
(`FreezeHasACall`), while it is, the store is closed and the version on disk is
the one the call waits for and carries its mark (`WaitingIsFrozen`,
`HandedIsFrozen`), and a standby's number of a version stands for the files of
that version (`CopiesAreTracked`). Hence an ack of the number is an ack of the files.

**Tasks on other servers** (`AgentTasksProofs`). Assumed: `BatchesAndBounds`,
`NoneIsNothing`. Any tasks, websites, batches and restarts. `NobodyWaits`, `LostIsGone`,
`OneTaskAtATime`, and `PromiseKept`: dispatch implements `CallOnce`. The invariant
says that the queue is a sequence of the queued tasks, none twice; that a task on its
way was handed over once and is either in the one answer the agent may hear, in its
hands, or gone (`TasksFit`, `Polls`); and that the lines of two websites at the agent
are disjoint, with a task that works at the head of its own (`InLine`).

**The job queue** (`JobQueueProofs`). Assumed: `KindsAreJobs`, which the runs `panel` and `records`
evaluate too. Any jobs, servers, locks, limits and restarts, and functions that heed a cancel or do
not. `QueueIsRight`: types are kept; records, queue, locks and slots agree (`RecordsAgree`); whoever
waits has a reason (`NobodyWaitsForNothing`); no step takes more slots than there are
(`SlotsAreRespected`), and none lets a job pass one that waits for the same thing (`NobodyOvertakes`).
`JobsStaySound` adds `NobodyTramples` and with it is the property of both runs, `JobsAreSound`.
The argument has three layers. `_pump` is a loop, and `TurnOK` its invariant: after k
turns, what was admitted, left, reserved and taken is what the first k of the queue make of it, and
each job that was left has its reason among what is held or ahead of it. Turns are a recursive function over the
numbers, and the induction is by the least number of turns after which `TurnOK` would fail
(`NatMin`, from the well-foundedness of finite sets under inclusion). Every operation then shows that what it
hands to `_pump` agrees with the records (`Agrees`), and the loop's invariant gives the rest:
`QInv`. Third, `Nested`: what is held around a job, a running job has around which it was
started; so two running jobs that name one lock are both inside its owner. Its hypothesis `InnerJobsEnd`
says that functions wait for the jobs they start, and that either none outlasts the
30 s grace period of a cancel or no job starts others. It is needed: see 13 below. The switch of the main server,
which starts jobs inside its own, waits for each (main-switch.mjs:382); that a job ends within 30 s is not
something the queue can enforce.

**The deployment engine** (`DeployEngineProofs`). Assumed: `None` is not itself a
set of generated directories. Any releases, lockfiles, jobs and deaths of the agent. `TypeCorrect`;
`DeployedIsServed`, a deploy that reports success has put all of its release in place,
built of it, for its runtime, with its packages unless the tree is `torn`, and the
app serves it; `RolledBackIsBefore`, a deploy that says it was rolled back left files,
packages and build as they were; `NothingSwapsUnderTheApp`. None of them is about
one step: what "deployed" needs was staged, checked, moved twice and perhaps lent by
the live app many jobs ago. The invariant follows the job: `Ready` (what is staged,
then in place, is the release), `Sound` (outside a swap the packages of the
app directory and of the snapshot are those of their lockfile, unless torn; inside
it, each half is what the next step needs), `Before` (disk, then snapshot, then disk
again hold what the deploy found) and `Down` (the app is down while files
move, but for a stop that went unnoticed and for a container that pm2 mode knows not of).

**A website's releases and deploys** (`SiteDeployProofs`). Assumed: `PlacementsAndBuilds` (finitely
many servers, placements are lists of them, at least one release is kept: the setting is
clamped), which the run `work` evaluates too. Any servers, placements, variables, numbers of releases,
orders and restarts. `TypeCorrect`; `ReleasesStay` (`KeptForRollback`); `DoneEverywhere`, a deploy that
ends well has its release on every server and behind the front door nothing else; `OneBuild`, once a
build was shipped the servers have that very build; `StoredFits`, a stored build that is
handed out was made with the website's variables unless they were changed while it was made;
`DeploysEndWell`, the last three as the property `DeploysArrive` of the run `work`.
All but the second are about the last step of a job that took many, with uploads, deletions, prunings
and changes between them. The invariant follows the job: `JobFits` (which phases a job of each kind goes
through, and what it holds in each), `Progress` (what is not left to do is done: those servers
have the release, and the shipped build; while nothing was packaged, everything is left),
`ReleasesKept` (also what the job is about to make current is there, or was deleted on purpose)
and `BuildsFit` (a stored build is of its release and fits its fingerprint, and so will
the one that is being made). `Progress` is given up only while `placed`: the placement of a first
deploy may be changed under it.

*Only model-checked.* Liveness (`FreezeEnds`, the run `live`): fairness and ENABLED are
out of the prover's reach. `EnvFile` parses with a fold, and what a fold
computes for every text needs an induction over an operator that the installed provers cannot instantiate
(for `JobQueue` the loop was written as a recursive function, and the induction made by hand). The remaining components of the sums have no theorems yet
(see *Plan*). Theorems about an instance in a sum are about its
own module, whose properties the sum's properties only put together.

## What the checks found

Most of what the code says of itself holds. The following does not. The first
two are runs of their own. The others are states or steps that TLC found with the
property named, which stands in the module with the words it was taken from,
and which no run lists because it does not hold.

1. **A term led twice** (`term_led_twice`, `SyncedMeansEqual`). A
   candidacy lasts at least 10 s, a lease of a short `failoverSeconds` less, and
   a voter refuses only terms below its own. Two candidates of one term can win it
   one after the other, and both number their changes from `<<term, 1>>`. A standby
   of the first is answered "nothing new" by the second and keeps other files.
2. **A page that says it is live** (`events_after_failover`, `LiveShowsEverything`).
   The ids of events start at the boot of the process. After a failover to a server
   that was booted earlier than the old leader the page takes every new event for an old one.

Panel failover:

3. *Two handovers at once* (`TargetHasWhatIsSaved` without `OneAtATime`; ha.mjs:1926).
   The mark that turns a second call away is set only after the ack. The call
   that times out thaws the panel the other is handing over.
4. *Two changes of the voters* (`AtMostOneLeader` without `OneAtATime`; ha.mjs:463).
   A change counts at once on the active panel, before a standby has it. After
   two, a standby with the old list and the active panel can each have a
   majority, without a voter in common.
5. *A raise of `failoverSeconds`* (`HaTiming`, `FenceHooksNeverOutliveLease`; ha.mjs:740).
   The fence hooks get the budget of the new setting, while the votes just lost were given under
   the old and shorter one: until the first renewal the hooks may outlive the lease.
6. *Not armed* (`NeverServesUnbacked` with `ConfigArmed = BOOLEAN`). If a standby takes over with a
   config.json that does not say `armed`, and the votes that elected it lapse while
   its modules start, it goes on without votes and nothing fences it.
7. *What a majority knows* (`HaReplication`, `WhatAMajorityKnowsSurvives`). A voter that
   votes first and hears of the commit afterwards has been told, and has elected a
   stale panel all the same. What *every* voter knows survives.
8. *A torn state* (`HaReplication`, `VersionIsHonest`). Between two files of one
   `applyState` a standby has some of each. Its saved version stays behind what
   is on disk, except after a full state of a new leader.
9. *A late ack* (`HaReplication`, `Forgotten`; ha.mjs:1122). An ack is matched by its version
   alone, so one of an earlier office of the same term would count. The poll that carries
   it times out first (ha.mjs:1829), which the model takes over as a guard of the promotion.
10. *The freeze accepts changes, and a fence may save* (`HaHandover`). API calls
    change the database in memory while it is read-only; after a handover they are gone. If
    the wait for the ack is ended by a fence, the panel saves while it shuts down.
11. *An update may go back* (`Rollout`, `NeverMovedBack`; docs/HA.md:699), and *a restore
    may lose its backup* (`PanelUpdate`, `RestoreFindsItsBackup`; updates.mjs:1063 against
    docs/STANDALONE.md:646): the safety backup's retention may remove the one that is
    restored. A failed check may read "Up to date" (`FailedIsNotUpToDate`).

Work:

12. *Packages that stay* (`DeployEngine`, `torn`; deployer.mjs, `_buildStaging`). If the agent dies between
    the move of the generated directories and the copy of the files, the app directory
    has files of one release and packages of another. A later deploy whose lockfile
    equals the one on disk takes these packages over and skips the install, however
    many deploys later, and a rollback brings the files back onto them. A proof attempt of `DeployedMeansServed` for one torn tree
    failed on it; the property now excepts the trees that inherited such packages.
13. *Jumping* (`JobQueue`, `NeverJumps`). A job that waits for
    its *lock* does not reserve its servers, and is passed on them, against the header of
    jobs.mjs. `NobodyOvertakes` states the weaker rule, which holds. *Beside an ended job*
    (`JobQueue`, `NobodyTramples` with `Grace` and jobs inside jobs; jobs.mjs:589). A job that does not stop within
    30 s of a cancel is marked as ended and its lock is free, while its function goes on: it may start
    another job on the website, under a lock it no longer has, beside the next owner's.
14. *Dropped, but it ran* (`JobQueue`, `DroppedNeverRan`). Records are saved with a
    delay, so after a crash a job that was begun may be reported as one that "never ran".
15. *Cancelled, but it begins; updates break off work* (`AgentTasks`, `CancelledNeverBegins`,
    `UpdatesWhenIdle`). A task that is told to stop while it waits for its website
    begins when its turn comes; an agent that says hello updates whatever it is running.
16. *Rollback* (`SiteDeploy`, `RollbackBringsPrevious`; docs/STANDALONE.md:480): the
    snapshot on a server need not be the previous release. *Deletion*
    (`SiteDeploy`, `DeletionIsUnderway`; `Staging`, `CopyHasItsParent`,
    `DroppedIsUnlinked`): a website may stay marked as being deleted with no job at
    it, a parent may go before its copy, a database may go while it is linked.
17. *Host* (`SiteHost`, `TaskKeepsItsSettings`, `InstalledIsServed`): a status check changes the
    settings of the Deployer a deploy works with; a failed reload leaves nginx on
    the old file. *Connectors* (`OneProcess`): two processes of one connector. *phpMyAdmin*
    (`AnswersWhereLinked`): links to a port it does not answer on.
18. *A build under another fingerprint* (`SiteDeploy`, `OtherBuildIsNotReused`; sites.mjs:1105). The
    fingerprint is taken when the deploy begins (sites.mjs:1369). The variables are read from the record, which is the
    live one, after the awaits of the first server's task (Docker made ready, linked databases asked; sites.mjs:1211).
    If they are changed in between, a build made with the new ones is stored
    under the old fingerprint, and is reused when they are changed back. The proof of `StoredFits` needs
    the exception (`touched`) for this; four orders on two servers show it.
19. *Variables* (`EnvFile`, `PanelsValueWins`; `CopyEnv`, `NeverALiveAccount`):
    a line by hand after the block wins; a test copy may keep PayPal credentials with PAYPAL_LIVE=true.
20. *Databases* (`Databases`, `UndoTakesOnlyItsOwn`; `DbFailover`, `SwitchoverLosesNothing`):
    an undo may drop what another request made; a switchover may promote a replica that lacks a write.
21. *Backups* (`Backups`, `RestoreFindsItsFile`, `LockMeansJob`), *main switch*
    (`NothingStaysBehind`), *monitor* (`RecoveryIsTold`), *sign-in* (`ResetEndsAll`):
    each in the words of its comment, where it is defined.

Seen while reading, without a model: `maxConcurrent` (node-agent.mjs:13 and :76)
is read and never used; while a cancel is pending every poll is answered at
once, so the agent polls as fast as it can; `mysql.mjs` sends `site.env` and
`site.restart` without the job lock of the website, so the lock in `tasks.mjs`
is the only one between them and a deploy.

## Assumptions of the models

- The event loop of a panel stalls for less than a margin; the code claims no more.
- A write of `vote.json` or `ha-local.json` that the code awaits is on disk afterwards.
  An unreadable `vote.json` is not in the models.
- A poll that an agent gave up is not delivered to the panel more than 15 s later,
  when `reconcile` could take its old list of tasks for the present one.
- Node.js runs a synchronous stretch of code without interruption: an action is
  what happens between two awaits. The swaps of the deployment engine are actions
  of their own although they are synchronous, because the process may die in between.
- A counter in a guard (`jobs < MaxJobs`, `faults < MaxFaults`, terms, writes, orders)
  is a bound for TLC and nothing of the code; the theorems hold for every bound.

## Not modelled

`PROJECT.json` lists every component with what its model leaves out. Left aside for good: HTTP,
archives' formats, GitHub, icons and pages of the user interface, installer and release
scripts (input, output and formats). Modelled only as far as others need them: the
store (`HaHandover`, `JobQueue`) and the boot of the panel process (`HaLease`,
`HaHandover`). Left out of modelled components: when a standby decides to stand, the
split of votes and the random back-off, reclaim by main; releases and
the code follow in replication (they are in `Rollout`); the notice to the target of a handover;
logs of jobs; tasks that run in the panel's own process.

## Plan

The state machines are written. What is left is proof, of what the sums only check:

1. `Rollout`: `LeaderIsLast` and `OneAtATime`, with the invariant that
   a restart window names the one server that may be down.
2. `SiteHost` (`StoppedStaysStopped`) on top of `OneTaskPerSite`, and `SignIn` (`AlwaysAnOwner`).
3. `DbFailover`: `OnlyEnableOverwrites`, the safety half of a failover.

They are small enough for one module that instantiates the components with
variables of its own; the runs stay as they are.
