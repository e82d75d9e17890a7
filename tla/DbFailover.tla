----------------------------- MODULE DbFailover -----------------------------
(***************************************************************************)
(* Database replication: one MySQL or MariaDB primary and one replica, and *)
(* the panel that prepares, seeds, fences and promotes them.               *)
(* panel/lib/mysql-ha.mjs is the panel's side (configuration, operations,  *)
(* the monitor and the fast detection), shared/mysql-ha.mjs the tasks that *)
(* run on the servers.                                                     *)
(*                                                                         *)
(* A transaction is a number.  A server that is "cut" goes on working for  *)
(* the websites on it, and nobody else reaches it.  The panel's server is  *)
(* any of them; it changes when another panel takes over.                  *)
(***************************************************************************)
EXTENDS Integers, FiniteSets

CONSTANTS
  Server,    \* the servers with a database
  Main,      \* the main server, the first primary
  None,      \* no server
  MaxWrites, MaxFaults, MaxOps  \* bounds for TLC

MainIsAServer == \* an assumption
  Main \in Server /\ None \notin Server

VARIABLES
  net,       \* of each server: ok, cut, down
  mysql,     \* of each server: its database
  dumped,    \* the transactions in safety dumps
  alias,     \* of each server: the host that its websites know as the primary
  config,    \* config.mysqlHa of the active panel
  saved,     \* config.switching as saved in config.json
  leader,    \* the server of the active panel
  op,        \* the running operation: runOp
  sent,      \* a task on its way that no operation waits for
  writes, faults, ops   \* counters

servers == <<net, mysql, dumped, alias>>
counters == <<writes, faults, ops>>
vars == <<servers, config, saved, leader, op, sent, counters>>

Task(to, what, from) == [to |-> to, what |-> what, from |-> from]
NoTask == Task(None, "none", None)
Idle == [kind |-> "none", step |-> "none", id |-> None, want |-> {}, task |-> NoTask]

Reaches(s, t) == s = t \/ (net[s] = "ok" /\ net[t] = "ok")
\* runTask, seen from the panel: the server is up and answers.
Online(s) == net[s] # "down" /\ Reaches(leader, s)

\* The IO thread runs: replication is configured and the source answers.
IoRuns(s) == mysql[s].source # None /\ net[s] # "down" /\ net[mysql[s].source] # "down" /\ Reaches(s, mysql[s].source)
SqlErrored(s) == mysql[s].source # None /\ mysql[s].broken

Smallest(S) == CHOOSE n \in S : \A m \in S : n <= m

-----------------------------------------------------------------------------
(* Websites, and replication itself.                                       *)

\* A website on server w writes to the host that its alias names.
Write(w) ==
  /\ writes < MaxWrites
  /\ net[w] # "down" /\ net[alias[w]] # "down" /\ Reaches(w, alias[w])
  /\ ~mysql[alias[w]].readOnly
  /\ writes' = writes + 1
  /\ mysql' = [mysql EXCEPT ![alias[w]].executed = @ \cup {writes + 1}]
  /\ UNCHANGED <<net, dumped, alias, config, saved, leader, op, sent, faults, ops>>

\* The IO thread of a replica gets the next transaction of its source.
Receive(s) ==
  /\ IoRuns(s)
  /\ LET new == mysql[mysql[s].source].executed \ (mysql[s].executed \cup mysql[s].relay)
     IN /\ new # {}
        /\ mysql' = [mysql EXCEPT ![s].relay = @ \cup {Smallest(new)}]
  /\ UNCHANGED <<net, dumped, alias, config, saved, leader, op, sent, counters>>

\* The SQL thread applies the next one it has.
Apply(s) ==
  /\ net[s] # "down" /\ mysql[s].source # None /\ ~mysql[s].broken /\ mysql[s].relay # {}
  /\ LET next == Smallest(mysql[s].relay)
     IN mysql' = [mysql EXCEPT ![s].relay = @ \ {next}, ![s].executed = @ \cup {next}]
  /\ UNCHANGED <<net, dumped, alias, config, saved, leader, op, sent, counters>>

-----------------------------------------------------------------------------
(* What goes wrong.                                                        *)

Fault == faults < MaxFaults /\ faults' = faults + 1

\* A server goes down or is cut off, or is back.
Net(s, n) ==
  /\ Fault
  /\ net[s] # n
  /\ net' = [net EXCEPT ![s] = n]
  /\ UNCHANGED <<mysql, dumped, alias, config, saved, leader, op, sent, writes, ops>>

\* The SQL thread stops with an error.
SqlFails(s) ==
  /\ Fault
  /\ mysql[s].source # None /\ ~mysql[s].broken
  /\ mysql' = [mysql EXCEPT ![s].broken = TRUE]
  /\ UNCHANGED <<net, dumped, alias, config, saved, leader, op, sent, writes, ops>>

\* onFence: the panel is leaving, and its server's database stops taking writes.
FenceHook ==
  IF config.enabled /\ config.primary = leader /\ net[leader] # "down"
  THEN mysql' = [mysql EXCEPT ![leader].readOnly = TRUE]
  ELSE UNCHANGED mysql

\* Another panel takes over: by the hook, after a handover or a crash without it.  What
\* the operation had in memory is gone, and config.switching is what was last saved.
PanelMoves(l) ==
  /\ Fault
  /\ l # leader /\ net[l] = "ok"
  /\ FenceHook \/ UNCHANGED mysql
  /\ leader' = l
  /\ op' = Idle
  /\ config' = [config EXCEPT !.switching = saved]
  /\ sent' \in {sent, op.task}  \* what an agent has begun, it ends
  /\ UNCHANGED <<net, dumped, alias, saved, writes, ops>>

\* Another part of the panel saves config.json.
SaveConfig ==
  /\ saved # config.switching
  /\ saved' = config.switching
  /\ UNCHANGED <<servers, config, leader, op, sent, counters>>

\* fenceAtBoot, whenever a panel starts on the main server.
FenceAtBoot ==
  /\ net[Main] # "down" /\ config.primary # Main /\ (config.enabled \/ config.aliasKept)
  /\ ~mysql[Main].readOnly
  /\ mysql' = [mysql EXCEPT ![Main].readOnly = TRUE]
  /\ UNCHANGED <<net, dumped, alias, config, saved, leader, op, sent, counters>>

-----------------------------------------------------------------------------
(* The hosts alias.                                                        *)

\* hostsChanged: every server that answers gets the alias at once.
Pushed(primary) == [s \in Server |-> IF Online(s) THEN primary ELSE alias[s]]

\* The others get it with their next cluster.sync.
Sync(s) ==
  /\ config.enabled \/ config.aliasKept
  /\ Online(s) /\ alias[s] # config.primary
  /\ alias' = [alias EXCEPT ![s] = config.primary]
  /\ UNCHANGED <<net, mysql, dumped, config, saved, leader, op, sent, counters>>

-----------------------------------------------------------------------------
(* Tasks on the servers.                                                   *)

Empty(source) == [executed |-> {}, relay |-> {}, source |-> source, broken |-> FALSE, readOnly |-> TRUE]

\* mysql.replica.promote: what was received is applied, unless the SQL thread is stopped or
\* too slow; then replication is removed, then writes are turned on.
Promotions(m) ==
  [executed : {m.executed} \cup IF m.broken THEN {} ELSE {m.executed \cup m.relay},
   relay : {{}}, source : {None}, broken : {FALSE}, readOnly : {FALSE}]

\* mysql.replica.setup: all databases of the primary are copied over what is here, or,
\* seed: false, only the source is changed.
Seeded(m, p) == [Empty(p) EXCEPT !.executed = mysql[p].executed]
Repointed(m, p) == [m EXCEPT !.relay = {}, !.source = p, !.broken = FALSE, !.readOnly = TRUE]

\* mysql.readonly
Fenced(m, on) == [m EXCEPT !.readOnly = on]

\* What a task may make of a database, if it runs to its end ...
Results(t) ==
  LET m == mysql[t.to]
  IN CASE t.what = "on"      -> {Fenced(m, TRUE)}
       [] t.what = "off"     -> {Fenced(m, FALSE)}
       [] t.what = "promote" -> Promotions(m)
       [] t.what = "repoint" -> {Repointed(m, t.from)}
       [] t.what \in {"seed", "rebuild"} -> {Seeded(m, t.from)}

\* ... and if it fails on its way.
Remains(t) ==
  LET m == mysql[t.to]
  IN CASE t.what \in {"on", "off"} -> {m}
       [] t.what = "promote" -> {m} \cup {[r EXCEPT !.readOnly = m.readOnly] : r \in Promotions(m)}
       [] t.what = "repoint" -> {Fenced(m, TRUE), Repointed(m, None)}
       [] t.what \in {"seed", "rebuild"} -> {Fenced(m, TRUE), Empty(None)}

\* Mutant: it drops without a dump.
DumpedNever(t, new) == dumped

\* mysql.rebuild saves a dump before it drops anything.
Dumped(t, new) == dumped \cup IF t.what = "rebuild" /\ new.executed # mysql[t.to].executed THEN mysql[t.to].executed ELSE {}

Effect(t, outcomes) ==
  \E new \in outcomes : mysql' = [mysql EXCEPT ![t.to] = new] /\ dumped' = Dumped(t, new)

Possible(t) == Online(t.to) /\ (t.from # None => net[t.from] # "down" /\ Reaches(t.to, t.from))

\* runTask of the running operation: it succeeds, or fails with or without an effect.
\* A mysql.readonly that was sent before takes effect first.
InTurn(t) == sent.to # t.to \/ sent.what \notin {"on", "off"}

Succeeds(next) ==
  /\ net[leader] = "ok" /\ InTurn(op.task)
  /\ Possible(op.task) /\ Effect(op.task, Results(op.task))
  /\ op' = next

Fails(next) ==
  /\ net[leader] = "ok" /\ InTurn(op.task)
  /\ \/ ~Possible(op.task) /\ UNCHANGED <<mysql, dumped, faults>>
     \/ Fault /\ Online(op.task.to) /\ Effect(op.task, Remains(op.task) \cup Results(op.task))
  /\ op' = next

-----------------------------------------------------------------------------
(* Operations: one at a time, each a job of several tasks.                 *)

\* runOp
Begin(kind, step, id, task) ==
  /\ op = Idle /\ net[leader] = "ok"
  /\ op' = [kind |-> kind, step |-> step, id |-> id, want |-> {}, task |-> task]

ByAdmin == ops < MaxOps /\ ops' = ops + 1

At(kind, step) == op.kind = kind /\ op.step = step
Step(step, task) == [op EXCEPT !.step = step, !.task = task]
Save(c) == config' = c /\ saved' = c.switching

\* enable: the replica is seeded, over whatever it has; then it gets the users.
EnableBegins(r, auto) ==
  /\ ByAdmin
  /\ ~config.enabled /\ r # config.primary /\ Online(r) /\ Online(config.primary)
  /\ Begin("enable", "seed", r, Task(r, "seed", config.primary))
  /\ Save([config EXCEPT !.auto = auto, !.replica = None, !.roles = @ \cup {r, config.primary, Main}])
  /\ UNCHANGED <<servers, leader, sent, writes, faults>>

EnableSeeds ==
  /\ At("enable", "seed")
  /\ Succeeds(Step("record", NoTask))
  /\ UNCHANGED <<net, alias, config, saved, leader, sent, counters>>

EnableEnds ==
  /\ At("enable", "record") /\ net[leader] = "ok" /\ Online(op.id)
  /\ Save([config EXCEPT !.enabled = TRUE, !.aliasKept = FALSE, !.replica = op.id,
                         !.needsRebuild = @ \ {op.id, config.primary}])
  /\ alias' = Pushed(config.primary)
  /\ op' = Idle
  /\ UNCHANGED <<net, mysql, dumped, leader, sent, counters>>

EnableFails ==
  /\ op.kind = "enable"
  /\ \/ op.step = "seed" /\ Fails(Idle)
     \/ op.step = "record" /\ ~Online(op.id) /\ op' = Idle /\ UNCHANGED <<mysql, dumped, faults>>
  /\ Save([config EXCEPT !.enabled = FALSE, !.replica = None])
  /\ UNCHANGED <<net, alias, leader, sent, writes, ops>>

\* conditions: the primary is silent, refuses connections, and the replica agrees.
PrimaryDown == ~Online(config.primary)
ReplicaConfirms == Online(config.replica) /\ ~IoRuns(config.replica)

MayPromote(how) ==
  /\ Online(config.replica)
  /\ how = "failover" => PrimaryDown /\ ReplicaConfirms
  /\ how = "promote" => PrimaryDown
  /\ how # "force" => ~SqlErrored(config.replica)

\* fastOnce in auto mode, or an admin who promotes, perhaps by force.
PromoteBegins(how) ==
  /\ config.enabled /\ config.replica # None
  /\ IF how = "failover" THEN config.auto /\ MayPromote(how) /\ UNCHANGED ops ELSE ByAdmin
  /\ Begin(how, "check", config.replica, NoTask)
  /\ UNCHANGED <<servers, config, saved, leader, sent, writes, faults>>

\* promoteNow: the conditions once more, and a primary that answers is fenced first.
PromoteChecks ==
  /\ op.step = "check" /\ net[leader] = "ok"
  /\ op' = IF ~MayPromote(op.kind) THEN Idle
           ELSE IF PrimaryDown THEN Step("promote", Task(op.id, "promote", None))
           ELSE Step("fence old", Task(config.primary, "on", None))
  /\ UNCHANGED <<servers, config, saved, leader, sent, counters>>

PromoteFences ==
  /\ op.step = "fence old"
  /\ LET next == Step("promote", Task(op.id, "promote", None))
     IN (Succeeds(next) /\ UNCHANGED faults) \/ Fails(next)
  /\ UNCHANGED <<net, alias, config, saved, leader, sent, writes, ops>>

Promotes ==
  /\ op.step = "promote"
  /\ \/ Succeeds(Step("record", NoTask)) /\ UNCHANGED faults
     \/ Fails(Idle)
  /\ UNCHANGED <<net, alias, config, saved, leader, sent, writes, ops>>

Replaced(new) ==
  [config EXCEPT !.primary = new, !.replica = None,
                 !.needsRebuild = (@ \ {new}) \cup {config.primary}]

PromoteEnds ==
  /\ op.kind \in {"failover", "promote", "force"} /\ op.step = "record" /\ net[leader] = "ok"
  /\ Save(Replaced(op.id))
  /\ alias' = Pushed(op.id)
  /\ op' = Idle
  /\ UNCHANGED <<net, mysql, dumped, leader, sent, counters>>

\* switchover: the primary is fenced, the replica catches up and is promoted, and the
\* old primary becomes the replica.
Healthy(s) == IoRuns(s) /\ ~mysql[s].broken /\ mysql[s].relay = {}

SwitchBegins ==
  /\ ByAdmin
  /\ config.enabled /\ config.replica # None
  /\ Online(config.primary) /\ Online(config.replica) /\ Healthy(config.replica)
  /\ Begin("switchover", "fence", config.replica, Task(config.primary, "on", None))
  /\ config' = [config EXCEPT !.switching = TRUE]
  /\ UNCHANGED <<servers, saved, leader, sent, writes, faults>>

SwitchFences ==
  /\ At("switchover", "fence")
  /\ Succeeds(Step("read", NoTask))
  /\ UNCHANGED <<net, alias, config, saved, leader, sent, counters>>

\* What the primary has executed by now, if it says so in time.
SwitchReads ==
  /\ At("switchover", "read") /\ net[leader] = "ok"
  /\ \E want \in {{}} \cup {mysql[s].executed : s \in {config.primary} \cap {r \in Server : Online(r)}} :
       op' = [op EXCEPT !.step = "wait", !.want = want]
  /\ UNCHANGED <<servers, config, saved, leader, sent, counters>>

\* Seconds_Behind_Source is null, and Number(null) is 0, if the IO thread does not run.
CaughtUp(s) == ~mysql[s].broken /\ (mysql[s].relay = {} \/ mysql[s].executed = op.want)

SwitchWaits ==
  /\ At("switchover", "wait") /\ net[leader] = "ok"
  /\ Online(op.id) /\ mysql[op.id].source # None /\ CaughtUp(op.id)
  /\ op' = Step("promote new", Task(op.id, "promote", None))
  /\ UNCHANGED <<servers, config, saved, leader, sent, counters>>

SwitchPromotes ==
  /\ At("switchover", "promote new")
  /\ Succeeds(Step("record", NoTask))
  /\ UNCHANGED <<net, alias, config, saved, leader, sent, counters>>

SwitchRecords ==
  /\ At("switchover", "record") /\ net[leader] = "ok"
  /\ Save(Replaced(op.id))
  /\ alias' = Pushed(op.id)
  /\ op' = Step("repoint", Task(config.primary, "repoint", op.id))
  /\ UNCHANGED <<net, mysql, dumped, leader, sent, counters>>

Swapped == [config EXCEPT !.replica = op.task.to, !.needsRebuild = @ \ {op.task.to}, !.switching = FALSE]

SwitchRepoints ==
  /\ At("switchover", "repoint")
  /\ Succeeds(Idle) /\ Save(Swapped)
  /\ UNCHANGED <<net, alias, leader, sent, counters>>

\* The catch and the finally of it: before the promotion the old primary is made writable again.
SwitchGivesUp ==
  /\ op.kind = "switchover"
  /\ LET undo == Step("undo", Task(config.primary, "off", None))
     IN \/ op.step \in {"fence", "promote new"} /\ Fails(undo)
        \/ op.step = "wait" /\ net[leader] = "ok" /\ op' = undo /\ UNCHANGED <<mysql, dumped, faults>>
        \/ op.step = "undo" /\ Succeeds(Idle) /\ UNCHANGED faults
        \/ op.step = "undo" /\ Fails(Idle)
        \/ op.step = "repoint" /\ Fails(Idle)
  /\ IF op' = Idle THEN Save([config EXCEPT !.switching = FALSE]) ELSE UNCHANGED <<config, saved>>
  /\ UNCHANGED <<net, alias, leader, sent, writes, ops>>

\* rebuild: a dump of what is here, and a new copy of the primary.
RebuildBegins(s) ==
  /\ config.enabled /\ s # config.primary /\ config.replica \in {None, s}
  /\ Online(s) /\ Online(config.primary)
  /\ Begin("rebuild", "rebuild", s, Task(s, "rebuild", config.primary))
  /\ Save([config EXCEPT !.replica = None, !.needsRebuild = @ \cup ({s} \cap {config.replica})])
  /\ UNCHANGED <<servers, leader, sent, writes, faults>>

\* By an admin, or the monitor in auto mode.
AutoRebuild == config.auto /\ \E s \in config.needsRebuild : config.replica = None /\ RebuildBegins(s) /\ UNCHANGED ops
Rebuild(s) == ByAdmin /\ RebuildBegins(s)

RebuildEnds ==
  /\ At("rebuild", "rebuild")
  /\ Succeeds(Idle)
  /\ Save([config EXCEPT !.replica = op.id, !.needsRebuild = @ \ {op.id}])
  /\ alias' = Pushed(config.primary)
  /\ UNCHANGED <<net, leader, sent, counters>>

RebuildFails ==
  /\ At("rebuild", "rebuild")
  /\ Fails(Idle)
  /\ Save(config)
  /\ UNCHANGED <<net, alias, leader, sent, writes, ops>>

\* disable: the replica is stopped by a promotion, and fenced again.
DisableBegins ==
  /\ ByAdmin
  /\ config.enabled
  /\ IF config.replica # None /\ Online(config.replica)
     THEN Begin("disable", "stop", config.replica, Task(config.replica, "promote", None))
     ELSE Begin("disable", "record", None, NoTask)
  /\ UNCHANGED <<servers, config, saved, leader, sent, writes, faults>>

DisableStops ==
  /\ op.kind = "disable"
  /\ LET record == Step("record", NoTask)
     IN \/ op.step = "stop" /\ Succeeds(Step("fence it", Task(op.id, "on", None))) /\ UNCHANGED faults
        \/ op.step = "fence it" /\ Succeeds(record) /\ UNCHANGED faults
        \/ op.step \in {"stop", "fence it"} /\ Fails(record)
  /\ UNCHANGED <<net, alias, config, saved, leader, sent, writes, ops>>

DisableEnds ==
  /\ At("disable", "record") /\ net[leader] = "ok"
  /\ Save([config EXCEPT !.enabled = FALSE, !.aliasKept = TRUE, !.replica = None])
  /\ alias' = Pushed(config.primary)
  /\ op' = Idle
  /\ UNCHANGED <<net, mysql, dumped, leader, sent, counters>>

-----------------------------------------------------------------------------
(* The monitor: tickOnce, which may have begun before an operation did.    *)

\* fenceIfWritable: no server with a role but the primary may be writable.
NotPrimary == (config.needsRebuild \cup config.roles \cup ({config.replica} \ {None})) \ {config.primary}

Order(s, what) ==
  /\ config.enabled /\ net[leader] = "ok" /\ op = Idle /\ Online(s)
  /\ sent = NoTask
  /\ sent' = Task(s, what, None)
  /\ UNCHANGED <<servers, config, saved, leader, op, counters>>

\* Mutant: only servers that wait for a rebuild are fenced.
FenceWaiting(s) == s \in config.needsRebuild /\ ~mysql[s].readOnly /\ Order(s, "on")

FenceIfWritable(s) == s \in NotPrimary /\ ~mysql[s].readOnly /\ Order(s, "on")

\* Mutant: only while it has a replica.
UnfenceWithReplica == config.replica # None /\ mysql[config.primary].readOnly /\ Order(config.primary, "off")

UnfencePrimary == mysql[config.primary].readOnly /\ ~config.switching /\ Order(config.primary, "off")

\* What was sent arrives, or is dropped with the queue of a server that does not answer.
Deliver ==
  /\ sent # NoTask
  /\ \/ Possible(sent) /\ Effect(sent, Results(sent))
     \/ ~Possible(sent) /\ UNCHANGED <<mysql, dumped>>
  /\ sent' = NoTask
  /\ UNCHANGED <<net, alias, config, saved, leader, op, counters>>

-----------------------------------------------------------------------------
Init ==
  /\ net = [s \in Server |-> "ok"]
  /\ mysql = [s \in Server |-> [Empty(None) EXCEPT !.readOnly = FALSE]]
  /\ dumped = {}
  /\ alias = [s \in Server |-> Main]
  /\ config = [enabled |-> FALSE, aliasKept |-> FALSE, auto |-> FALSE, primary |-> Main, replica |-> None,
               needsRebuild |-> {}, roles |-> {}, switching |-> FALSE]
  /\ saved = FALSE
  /\ leader = Main
  /\ op = Idle
  /\ sent = NoTask
  /\ writes = 0 /\ faults = 0 /\ ops = 0

Enable == EnableSeeds \/ EnableEnds \/ EnableFails
Promote == PromoteChecks \/ PromoteFences \/ Promotes \/ PromoteEnds
Switchover == SwitchFences \/ SwitchReads \/ SwitchWaits \/ SwitchPromotes \/ SwitchRecords \/ SwitchRepoints \/ SwitchGivesUp
Rebuilding == RebuildEnds \/ RebuildFails
Disable == DisableStops \/ DisableEnds

Operate == Enable \/ Promote \/ Switchover \/ Rebuilding \/ Disable
Order1 == SwitchBegins \/ DisableBegins \/ PromoteBegins("promote") \/ PromoteBegins("force")
Replicate(s) == Receive(s) \/ Apply(s)

Next ==
  \/ \E s \in Server : Write(s) \/ Replicate(s) \/ SqlFails(s) \/ Sync(s) \/ PanelMoves(s)
  \/ \E s \in Server, n \in {"ok", "cut", "down"} : Net(s, n)
  \/ FenceAtBoot \/ SaveConfig
  \/ \E s \in Server, auto \in BOOLEAN : EnableBegins(s, auto)
  \/ \E s \in Server : Rebuild(s) \/ FenceIfWritable(s)
  \/ Order1 \/ PromoteBegins("failover") \/ AutoRebuild \/ Operate \/ UnfencePrimary \/ Deliver

Spec == Init /\ [][Next]_vars

\* Jobs go on, and the timers of the monitor come again and again.  Nobody has to repair
\* anything or to order an operation.
Fairness ==
  /\ WF_vars(Operate) /\ WF_vars(Deliver)
  /\ SF_vars(PromoteBegins("failover")) /\ SF_vars(AutoRebuild)
  /\ SF_vars(UnfencePrimary) /\ \A s \in Server : SF_vars(FenceIfWritable(s))

FairSpec == Spec /\ Fairness

-----------------------------------------------------------------------------
(* Properties.                                                             *)

Database ==
  [executed : SUBSET (1..MaxWrites), relay : SUBSET (1..MaxWrites), source : Server \cup {None},
   broken : BOOLEAN, readOnly : BOOLEAN]

TypeOK ==
  /\ net \in [Server -> {"ok", "cut", "down"}]
  /\ mysql \in [Server -> Database]
  /\ dumped \subseteq 1..MaxWrites
  /\ alias \in [Server -> Server]
  /\ config.primary \in Server /\ config.replica \in (Server \cup {None}) \ {config.primary}
  /\ config.needsRebuild \subseteq Server \ {config.primary, config.replica}
  /\ saved \in BOOLEAN /\ leader \in Server
  /\ writes \in 0..MaxWrites /\ faults \in 0..MaxFaults /\ ops \in 0..MaxOps

Lost == (1..writes) \ (dumped \cup UNION {mysql[s].executed : s \in Server})

\* What websites were told is written stays in some server's database or in a safety dump,
\* through failovers, switchovers, rebuilds and crashes: only turning replication on copies
\* over a server without a dump of what it has.
OnlyEnableOverwritesStep ==
  Lost' \subseteq Lost \/ op.task.what = "seed" \/ sent.what = "seed"
OnlyEnableOverwrites == [][OnlyEnableOverwritesStep]_vars

\* Whoever was the primary before, and went on taking the writes of the websites beside it
\* while nobody else reached it, ends read-only, if it can be reached and replication is on.
StalePrimariesAreFenced ==
  config.enabled => \A s \in NotPrimary : Online(s) /\ net[leader] = "ok" => mysql[s].readOnly
StalePrimariesEndFenced == <>[]StalePrimariesAreFenced

\* A primary that was fenced, by a panel that left or an operation that failed, takes writes
\* again, unless a switchover is on record.
PrimaryIsWritable ==
  config.enabled /\ ~config.switching /\ Online(config.primary) /\ net[leader] = "ok" => ~mysql[config.primary].readOnly
PrimaryEndsWritable == <>[]PrimaryIsWritable

\* "planned, no data loss": no switchover promotes a replica that lacks a write of the primary.
SwitchoverLosesNothing ==
  At("switchover", "record") /\ net[config.primary] # "down" /\ mysql[config.primary].readOnly
    => mysql[config.primary].executed \subseteq mysql[op.id].executed

=============================================================================
