------------------------------- MODULE Usage -------------------------------
(***************************************************************************)
(* What a website's processes use (panel/lib/usage.mjs, the sites.usage task *)
(* of shared/tasks.mjs).  Every minute the panel asks a server for the       *)
(* figures of its websites; the server reads its process table, waits for    *)
(* pm2, docker or systemd to say which processes are whose, and compares     *)
(* their CPU time with the last reading.  The panel stops waiting before the *)
(* task ends, so two may run at once; apps are restarted, websites deleted,  *)
(* and panel and agent restarted.  One server: servers share nothing.  An    *)
(* app is one process; a restarted one may get the same pid.  A tick of the  *)
(* clock is the most CPU time a process can use in it.                       *)
(***************************************************************************)
EXTENDS Naturals, FiniteSets

CONSTANTS
  Site, None,
  MaxNow, MaxStarts, MaxFaults  \* bounds for TLC

VARIABLES
  now,
  started,      \* per website: starts of its process so far
  used,         \* per website, start and moment: CPU time used by then
  procTicks,    \* the agent's: per website and start, the last reading, or None
  tasks,        \* sites.usage tasks on the server
  sites,        \* websites that exist
  sampling, dirty,
  latest,       \* per website: [at, cpu] or None
  points,       \* per website: samples of the charts, [at, cpu]
  file,         \* usage.json: [latest, points]
  faults

apps == <<started, used>>
agent == <<procTicks, tasks>>
panel == <<sites, sampling, dirty, latest, points, file>>
vars == <<now, apps, agent, panel, faults>>

Fresh == 2     \* FRESH_MS, in ticks of the clock
Keep == 2     \* KEEP_MINUTES_MS
Start == 1..MaxStarts
Waiting == {t \in tasks : t.wanted}
Fault == faults < MaxFaults /\ faults' = faults + 1
NoPoints == [latest |-> [s \in Site |-> None], points |-> [s \in Site |-> {}]]

-----------------------------------------------------------------------------
(* The apps.                                                                 *)

Pass(busy) ==
  /\ now < MaxNow /\ now' = now + 1
  /\ used' = [s \in Site |-> [n \in Start |-> [used[s][n] EXCEPT ![now + 1] =
       used[s][n][now] + IF s \in busy /\ n = started[s] THEN 1 ELSE 0]]]
  /\ UNCHANGED <<started, agent, panel, faults>>
AppRestarts(s) ==
  /\ started[s] < MaxStarts
  /\ started' = [started EXCEPT ![s] = @ + 1]
  /\ UNCHANGED <<now, used, agent, panel, faults>>

-----------------------------------------------------------------------------
(* The task on the server.                                                   *)

\* pid -> ticks and start time.
readProcTable == [s \in Site |-> [start |-> started[s], ticks |-> used[s][started[s]][now]]]
NewTask == [specs |-> sites, procs |-> readProcTable, at |-> now, wanted |-> TRUE]

\* mutant: the reading is stamped when pm2 has answered
StampedAtTheEnd(t) == now
\* The moment the process table was read, not the moment pm2 answered.
Stamp(t) == t.at

\* mutant: a process is known by its pid
SamePid(s, n) == {k \in Start : procTicks[s][k] # None}
\* The same process: its pid and its start time.
Same(s, n) == {k \in {n} : procTicks[s][k] # None}

\* % of a core since the last reading, unknown at the first.
Cpu(t, s) ==
  LET p == t.procs[s]
      prev == {k \in Same(s, p.start) : procTicks[s][k].at < Stamp(t)} IN
  IF prev = {} THEN None
  ELSE LET q == procTicks[s][CHOOSE k \in prev : \A j \in prev : j <= k] IN
       [start |-> p.start, from |-> q.at, to |-> Stamp(t),
        ticks |-> IF p.ticks < q.ticks THEN 0 ELSE p.ticks - q.ticks]

\* The websites of which pm2, docker, systemd or the port they listen on still
\* tells a process that is in the table: any, for an app may just have gone.
Found(t) == SUBSET t.specs
sitesUsage(t, found) ==
  [s \in t.specs |-> [cpu |-> IF s \in found THEN Cpu(t, s) ELSE None, procs |-> s \in found]]
\* Every process seen is noted, all others are forgotten.
Noted(t, found) == [s \in Site |-> [n \in Start |->
  IF s \in found /\ n = t.procs[s].start THEN [ticks |-> t.procs[s].ticks, at |-> Stamp(t)] ELSE None]]

-----------------------------------------------------------------------------
(* The panel.                                                                *)

Pruned(ps, at) == {p \in ps : p.at + Keep >= at}
\* One point per minute: a later one of the same minute takes its place.
record(s, cpu, known, at) ==
  /\ latest' = [x \in Site |-> IF x \in s THEN [at |-> at, cpu |-> cpu[x]] ELSE latest[x]]
  /\ points' = [x \in Site |-> IF x \in s \cap known
       THEN Pruned({p \in points[x] : p.at # at} \cup {[at |-> at, cpu |-> cpu[x]]}, at)
       ELSE points[x]]
  /\ dirty' = TRUE

Sample ==
  /\ ~sampling /\ sites # {} /\ Cardinality(tasks) < 2
  /\ sampling' = TRUE
  /\ tasks' = tasks \cup {NewTask}
  /\ UNCHANGED <<now, apps, procTicks, sites, dirty, latest, points, file, faults>>
Answers(t, found) ==
  LET r == sitesUsage(t, found) IN
  /\ found \subseteq t.specs
  /\ tasks' = tasks \ {t}
  /\ procTicks' = Noted(t, found)
  /\ IF t.wanted
     THEN record(t.specs, [s \in t.specs |-> r[s].cpu], {s \in t.specs : r[s].procs}, t.at) /\ sampling' = FALSE
     ELSE UNCHANGED <<latest, points, dirty, sampling>>
  /\ UNCHANGED <<now, apps, sites, file, faults>>
\* 50 s; the task itself goes on.
recordError(t) ==
  /\ t.wanted /\ t.at < now /\ Fault
  /\ tasks' = (tasks \ {t}) \cup {[t EXCEPT !.wanted = FALSE]}
  /\ record(t.specs, [s \in t.specs |-> None], {}, t.at) /\ sampling' = FALSE
  /\ UNCHANGED <<now, apps, procTicks, sites, file>>
DeleteSite(s) ==
  /\ s \in sites /\ sites' = sites \ {s}
  /\ latest' = [latest EXCEPT ![s] = None] /\ points' = [points EXCEPT ![s] = {}] /\ dirty' = TRUE
  /\ UNCHANGED <<now, apps, agent, sampling, file, faults>>

Live(m, none) == [s \in Site |-> IF s \in sites THEN m[s] ELSE none]
Saved == [latest |-> Live(latest, None), points |-> Live(points, {})]
\* Every 5 minutes; a write that fails is not tried again before something changes.
save ==
  /\ dirty /\ dirty' = FALSE
  /\ \/ file' = Saved /\ UNCHANGED faults
     \/ UNCHANGED file /\ Fault
  /\ UNCHANGED <<now, apps, agent, sites, sampling, latest, points>>
\* stop() saves, a crash does not; load() leaves out what is too old.
PanelRestarts(stopped) ==
  LET f == IF stopped /\ dirty THEN Saved ELSE file IN
  /\ Fault /\ file' = f
  /\ latest' = f.latest /\ points' = [s \in Site |-> Pruned(f.points[s], now)]
  /\ sampling' = FALSE /\ dirty' = FALSE
  /\ tasks' = {[t EXCEPT !.wanted = FALSE] : t \in tasks}
  /\ UNCHANGED <<now, apps, procTicks, sites>>
AgentRestarts ==
  /\ Fault /\ tasks' = {} /\ procTicks' = [s \in Site |-> [n \in Start |-> None]]
  /\ IF Waiting = {} THEN UNCHANGED <<latest, points, dirty, sampling>>
     ELSE LET t == CHOOSE t \in Waiting : TRUE IN
          record(t.specs, [s \in t.specs |-> None], {}, t.at) /\ sampling' = FALSE
  /\ UNCHANGED <<now, apps, sites, file>>

\* What a request for the charts gets: 404 without the website; only a fresh figure is "current".
view(s) ==
  IF s \notin sites THEN {}
  ELSE {p \in points[s] : p.cpu # None}
       \cup {l \in {latest[s]} \ {None} : l.cpu # None /\ now < l.at + Fresh}

Init ==
  /\ now = 0 /\ started = [s \in Site |-> 1]
  /\ used = [s \in Site |-> [n \in Start |-> [t \in 0..MaxNow |-> 0]]]
  /\ procTicks = [s \in Site |-> [n \in Start |-> None]] /\ tasks = {}
  /\ sites = Site /\ sampling = FALSE /\ dirty = FALSE
  /\ latest = NoPoints.latest /\ points = NoPoints.points /\ file = NoPoints
  /\ faults = 0

Next ==
  \/ \E busy \in SUBSET Site : Pass(busy)
  \/ \E s \in Site : AppRestarts(s) \/ DeleteSite(s)
  \/ Sample
  \/ \E t \in tasks : recordError(t) \/ \E found \in Found(t) : Answers(t, found)
  \/ save
  \/ \E stopped \in BOOLEAN : PanelRestarts(stopped)
  \/ AgentRestarts

Spec == Init /\ [][Next]_vars

-----------------------------------------------------------------------------
(* Properties                                                                *)

\* Every figure shown is the CPU time one process really used between two
\* moments: sampling, tasks that overlap, apps restarted under the same pid and
\* restarts of panel and agent never make one up (usage.mjs: "% of one core
\* (100 = one full core), averaged over the minute").
FiguresAreTrue == \A s \in Site : \A p \in view(s) :
  /\ p.cpu.from < p.cpu.to
  /\ p.cpu.ticks = used[s][p.cpu.start][p.cpu.to] - used[s][p.cpu.start][p.cpu.from]
============================================================================
