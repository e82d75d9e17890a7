------------------------------- MODULE MCLive -------------------------------
(***************************************************************************)
(* What must happen in the end, checked in one run: Init chooses a part,   *)
(* and only that part takes steps, with the fairness of its module.  The   *)
(* parts take turns with one pool of variables.                            *)
(***************************************************************************)
EXTENDS Naturals

CONSTANTS None, Parts

VARIABLES part, v1, v2, v3, v4, v5, v6, v7, v8, v9, v10, v11, v12, v13, v14, v15, v16, v17, v18,
    v19, v20, v21, v22


\* A deploy and a light job of one website, and a build on the server of the deploy.
Contended == {[lock |-> "site", servers |-> {"s"}], [lock |-> "site", servers |-> {}], [lock |-> None, servers |-> {"s"}]}

NoKinds == [l \in {"site", None} |-> {}]

JobQueue == INSTANCE JobQueue WITH Job <- {"j", "k", "l"}, Server <- {"s"}, Lock <- {"site"},
    Kinds <- Contended, SubKinds <- NoKinds, ParentsWait <- TRUE, MaxPerServer <- 1,
    Grace <- FALSE, MaxOrders <- 0, Saving <- FALSE, status <- v1, job <- v2, waiting <- v3,
    lockOwner <- v4, slots <- v5, forced <- v6, aborted <- v7, executing <- v8, limit <- v9,
    saved <- v10, called <- v11, orders <- v12
DbFailover == INSTANCE DbFailover WITH Server <- {"main", "other"}, Main <- "main",
    MaxWrites <- 2, MaxFaults <- 2, MaxOps <- 2, net <- v1, mysql <- v2, dumped <- v3,
    alias <- v4, config <- v5, saved <- v6, leader <- v7, op <- v8, sent <- v9, writes <- v10,
    faults <- v11, ops <- v12
Rollout == INSTANCE Rollout WITH Node <- {"p", "q", "r"}, Code <- {"old", "new"},
    Installed <- "old", MaxBoots <- 1, MaxRollouts <- 1, MaxFaults <- 1, disk <- v1, up <- v2,
    ran <- v3, bad <- v4, pending <- v5, failed <- v6, lead <- v7, window <- v8, rollout <- v9,
    proven <- v10, rollouts <- v11, faults <- v12
Backups == INSTANCE Backups WITH Node <- {"p", "q"}, Keep <- 2, KeepFailed <- 1,
    MaxBackups <- 3, MaxSlot <- 1, MaxWrites <- 1, MaxFaults <- 1, MaxOrders <- 2, data <- v1,
    holds <- v2, recs <- v3, made <- v4, disk <- v5, share <- v6, busy <- v7, job <- v8,
    importing <- v9, leaving <- v10, fetching <- v11, lead <- v12, slot <- v13, lastSlot <- v14,
    ticking <- v15, fired <- v16, whole <- v17, byAdmin <- v18, faults <- v19, orders <- v20
EdgeSync == INSTANCE EdgeSync WITH Agent <- {"a"}, MaxChanges <- 2, MaxFaults <- 1, role <- v1,
    rev <- v2, db <- v3, synced <- v4, reported <- v5, forced <- v6, timer <- v7, push <- v8,
    queued <- v9, up <- v10, task <- v11, saved <- v12, disk <- v13, tls <- v14, conn <- v15,
    alias <- v16, accepts <- v17, torn <- v18, changes <- v19, faults <- v20
MainSwitch == INSTANCE MainSwitch WITH MaxFaults <- 1, MaxChanges <- 2, machine <- v1,
    mysqlHa <- v2, data <- v3, site <- v4, files <- v5, archive <- v6, certs <- v7, edge <- v8,
    mark <- v9, haOn <- v10, local <- v11, panel <- v12, oldPanel <- v13, reach <- v14,
    url <- v15, pc <- v16, plan <- v17, halfway <- v18, touched <- v19, changes <- v20,
    faults <- v21
AgentLink == INSTANCE AgentLink WITH Order <- <<"p", "q">>, MaxChanges <- 2, leader <- v1,
    up <- v2, proxyUrl <- v3, haOn <- v4, nodes <- v5, moved <- v6, tokenHash <- v7, seen <- v8,
    embedded <- v9, runs <- v10, token <- v11, panelUrl <- v12, ha <- v13, panels <- v14,
    current <- v15, failed <- v16, needHello <- v17, lastLeader <- v18, voted <- v19,
    asks <- v20, left <- v21, changes <- v22

ASSUME JobQueue!KindsAreJobs /\ DbFailover!MainIsAServer

\* The variables of the pool after the k-th, which a part with k variables leaves alone.
Off21 == v22 = None
Off20 == v21 = None /\ Off21
Off19 == v20 = None /\ Off20
Off18 == v19 = None /\ Off19
Off17 == v18 = None /\ Off18
Off16 == v17 = None /\ Off17
Off15 == v16 = None /\ Off16
Off14 == v15 = None /\ Off15
Off13 == v14 = None /\ Off14
Off12 == v13 = None /\ Off13
Rest21 == <<v22>>
Rest20 == <<v21, Rest21>>
Rest19 == <<v20, Rest20>>
Rest18 == <<v19, Rest19>>
Rest17 == <<v18, Rest18>>
Rest16 == <<v17, Rest17>>
Rest15 == <<v16, Rest16>>
Rest14 == <<v15, Rest15>>
Rest13 == <<v14, Rest14>>
Rest12 == <<v13, Rest13>>
vars == <<part, v1, v2, v3, v4, v5, v6, v7, v8, v9, v10, v11, v12, v13, v14, v15, v16, v17,
    v18, v19, v20, v21, v22>>

Init ==
  /\ part \in Parts
  /\ part = "queue" => JobQueue!Init /\ Off12
  /\ part = "database" => DbFailover!Init /\ Off12
  /\ part = "rollout" => Rollout!Init /\ Off12
  /\ part = "backups" => Backups!Init /\ Off20
  /\ part = "edges" => EdgeSync!Init /\ Off20
  /\ part = "main switch" => MainSwitch!Init /\ Off21
  /\ part = "agent link" => AgentLink!Init

Next ==
  \/ part = "queue" /\ JobQueue!Next /\ UNCHANGED <<part, Rest12>>
  \/ part = "database" /\ DbFailover!Next /\ UNCHANGED <<part, Rest12>>
  \/ part = "rollout" /\ Rollout!Next /\ UNCHANGED <<part, Rest12>>
  \/ part = "backups" /\ Backups!Next /\ UNCHANGED <<part, Rest20>>
  \/ part = "edges" /\ EdgeSync!Next /\ UNCHANGED <<part, Rest20>>
  \/ part = "main switch" /\ MainSwitch!Next /\ UNCHANGED <<part, Rest21>>
  \/ part = "agent link" /\ AgentLink!Next /\ UNCHANGED part

\* A step of a part.
QueueDoes(A) == part = "queue" /\ A /\ UNCHANGED <<part, Rest12>>
DatabaseDoes(A) == part = "database" /\ A /\ UNCHANGED <<part, Rest12>>
RolloutDoes(A) == part = "rollout" /\ A /\ UNCHANGED <<part, Rest12>>
BackupsDoes(A) == part = "backups" /\ A /\ UNCHANGED <<part, Rest20>>
EdgesDoes(A) == part = "edges" /\ A /\ UNCHANGED <<part, Rest20>>
MainSwitchDoes(A) == part = "main switch" /\ A /\ UNCHANGED <<part, Rest21>>
AgentLinkDoes(A) == part = "agent link" /\ A /\ UNCHANGED part

\* The part never changes, so that fairness of actions of several parts together is fairness
\* of each: one condition does for one action of every part.
Turn1 ==
  \/ QueueDoes(JobQueue!Return("j"))
  \/ DatabaseDoes(DbFailover!Operate)
  \/ RolloutDoes(Rollout!WindowEnds)
  \/ BackupsDoes(Backups!Goes)
  \/ EdgesDoes(EdgeSync!Round)
  \/ MainSwitchDoes(MainSwitch!Job)
  \/ AgentLinkDoes(AgentLink!Agent)
Turn2 ==
  \/ QueueDoes(JobQueue!Return("k"))
  \/ DatabaseDoes(DbFailover!Deliver)
  \/ RolloutDoes(Rollout!Withdraw)
  \/ BackupsDoes(Backups!Removed(1))
  \/ EdgesDoes(EdgeSync!Reconcile)
  \/ MainSwitchDoes(MainSwitch!Boot)
  \/ AgentLinkDoes(AgentLink!CoolsDown)
Turn3 ==
  \/ QueueDoes(JobQueue!Return("l"))
  \/ RolloutDoes(\E n \in {"p", "q", "r"} : Rollout!Elect(n))
  \/ BackupsDoes(Backups!Removed(2))
  \/ EdgesDoes(EdgeSync!StartPush("a"))
  \/ MainSwitchDoes(MainSwitch!OldStops)
  \/ AgentLinkDoes(AgentLink!Votes)
Turn4 ==
  \/ RolloutDoes(Rollout!Boot("p"))
  \/ BackupsDoes(Backups!Removed(3))
  \/ EdgesDoes(EdgeSync!LosePush("a"))
  \/ MainSwitchDoes(MainSwitch!CleanUp)
  \/ AgentLinkDoes(AgentLink!Embeds)
Turn5 ==
  \/ RolloutDoes(Rollout!Boot("q"))
  \/ BackupsDoes(\E n \in {"p", "q"} : Backups!Boot(n))
  \/ EdgesDoes(EdgeSync!Take("a"))
  \/ MainSwitchDoes(MainSwitch!Reconnect)
  \/ AgentLinkDoes(AgentLink!Follows("p"))
Turn6 ==
  \/ RolloutDoes(Rollout!Boot("r"))
  \/ EdgesDoes(EdgeSync!Report("a"))
  \/ AgentLinkDoes(AgentLink!Follows("q"))
Turn7 ==
  \/ RolloutDoes(Rollout!Confirm("p"))
  \/ EdgesDoes(EdgeSync!Hello("a"))
Turn8 ==
  \/ RolloutDoes(Rollout!Confirm("q"))
  \/ EdgesDoes(EdgeSync!Mend("a"))
Turn9 ==
  \/ RolloutDoes(Rollout!Confirm("r"))
  \/ EdgesDoes(EdgeSync!ApplyDb("a") \/ EdgeSync!ApplyFiles("a") \/ EdgeSync!Connect("a") \/ EdgeSync!Stop("a") \/ EdgeSync!Remove("a") \/ EdgeSync!Save("a"))
Turn10 ==
  \/ RolloutDoes(Rollout!FollowCode("p"))
Turn11 ==
  \/ RolloutDoes(Rollout!FollowCode("q"))
Turn12 ==
  \/ RolloutDoes(Rollout!FollowCode("r"))
Turn13 ==
  \/ RolloutDoes(Rollout!FollowTarget("p"))
Turn14 ==
  \/ RolloutDoes(Rollout!FollowTarget("q"))
Turn15 ==
  \/ RolloutDoes(Rollout!FollowTarget("r"))
Again1 ==
  \/ DatabaseDoes(DbFailover!PromoteBegins("failover"))
  \/ MainSwitchDoes(MainSwitch!Start)
Again2 ==
  \/ DatabaseDoes(DbFailover!AutoRebuild)
Again3 ==
  \/ DatabaseDoes(DbFailover!UnfencePrimary)
Again4 ==
  \/ DatabaseDoes(DbFailover!FenceIfWritable("main"))
Again5 ==
  \/ DatabaseDoes(DbFailover!FenceIfWritable("other"))

\* The fairness of each part.
Fairness ==
  /\ WF_vars(Turn1) /\ WF_vars(Turn2) /\ WF_vars(Turn3) /\ WF_vars(Turn4) /\ WF_vars(Turn5)
  /\ WF_vars(Turn6) /\ WF_vars(Turn7) /\ WF_vars(Turn8) /\ WF_vars(Turn9) /\ WF_vars(Turn10)
  /\ WF_vars(Turn11) /\ WF_vars(Turn12) /\ WF_vars(Turn13) /\ WF_vars(Turn14) /\ WF_vars(Turn15)
  /\ SF_vars(Again1) /\ SF_vars(Again2) /\ SF_vars(Again3) /\ SF_vars(Again4) /\ SF_vars(Again5)

Spec == Init /\ [][Next]_vars /\ Fairness

-----------------------------------------------------------------------------
(* Properties.  Each is about one part; see the module of that part.            *)

\* Once nobody changes anything and nothing fails any more: former primaries are read-only
\* and the primary writable; all servers run the code of the active panel; every edge has
\* what the panel wants of it; and no backup says "running".
SettlesInTheEnd ==
  <>[](/\ part = "database" => DbFailover!StalePrimariesAreFenced /\ DbFailover!PrimaryIsWritable
       /\ part = "rollout" => Rollout!OneCode
       /\ part = "edges" => EdgeSync!InStep("a")
       /\ part = "backups" => \A i \in Backups!Backup : ~Backups!SaysRunning(i))

\* No job waits for ever while jobs end, whatever else is started meanwhile; a release that
\* does not start is taken back; and a switch of the main server is finished.
Begun ==
  \/ part = "queue" /\ JobQueue!Waits("j")
  \/ part = "rollout" /\ Rollout!TriesBadCode("p")
  \/ part = "main switch" /\ MainSwitch!Underway
Done ==
  /\ part = "queue" => ~JobQueue!Waits("j")
  /\ part = "rollout" => Rollout!IsRidOfIt("p")
  /\ part = "main switch" => MainSwitch!Settled
WhatBeginsEnds == Begun ~> Done

\* While the active panel stays within reach of an agent, the agent finds it.
FindsTheActivePanel ==
  <>[](part = "agent link" => AgentLink!WithinReach) => <>[](part = "agent link" => AgentLink!InTouch)

\* On the way there: no write that websites were told of is overwritten but when replication
\* is turned on; the active panel takes a release last and the standbys one at a time; a
\* restore drops nothing before it saved it, a slot of the schedule runs once and the newest
\* good backups are kept; connectors run only where the front door is; and the records name
\* the machine that has the thing.
NothingIsLostOnTheWay ==
  /\ [](/\ part = "backups" => Backups!SlotRunsOnce
        /\ part = "edges" => EdgeSync!ConnectorsHaveAFrontDoor
        /\ part = "main switch" => MainSwitch!RecordsFindTheirData)
  /\ [][/\ part = "database" => DbFailover!OnlyEnableOverwritesStep
        /\ part = "rollout" => Rollout!LeaderIsLastStep /\ Rollout!OneAtATimeStep
        /\ part = "backups" => Backups!SafetyFirstStep /\ Backups!NewestAreKeptStep]_vars
=============================================================================
