------------------------------ MODULE MCPanel -------------------------------
(***************************************************************************)
(* The parts of the panel that share no state, checked in one run: the     *)
(* first state chooses a part, and only that part takes steps.  JobQueue,  *)
(* whose constants the configurations give and whose property is checked   *)
(* by its own name, has its own variables; the others take turns with one  *)
(* pool, so that a state is hardly larger than a part's own.               *)
(***************************************************************************)
EXTENDS JobQueue, TLC

CONSTANTS Parts, a1, a2, g1, g2, k1, k2, b1, b2, j1, j2, j3, j4

VARIABLES part, v1, v2, v3, v4, v5, v6, v7, v8, v9, v10, v11, v12, v13, v14, v15, v16, v17


\* Settings of the failover: around every clamp of the durations, and a spread of others.
Seconds == (9..90) \cup {100, 101, 102, 120, 180, 200, 250, 299, 300, 301}

\* The jobs of a website, which loads the servers it is on, and of a server.
Deploy(lock, servers) == [lock |-> lock, servers |-> servers]

\* A deploy, a build for two servers and one for the other, and a light job of the website.
SiteJobs == {Deploy("site", {"s"}), Deploy("site", {}), Deploy(None, {"s", "t"}), Deploy(None, {"t"})}

\* A deploy and a light job of one website, and a build on the server of the deploy.
Contended == {Deploy("site", {"s"}), Deploy("site", {}), Deploy(None, {"s"})}

\* A deploy starts another job on its website.
SameSite == [l \in Lock \cup {None} |-> IF l = None THEN {} ELSE {Deploy(l, {"s"})}]
NoKinds == [l \in Lock \cup {None} |-> {}]

SignIn == INSTANCE SignIn WITH Admin <- {a1, a2}, Account <- {g1, g2}, Key <- {k1, k2},
    Browser <- {b1, b2}, MaxVersion <- 1, MaxFaults <- 1, MaxOrders <- 2, role <- v1,
    github <- v2, password <- v3, version <- v4, keys <- v5, gone <- v6, githubOnly <- v7,
    cookie <- v8, asked <- v9, flight <- v10, recovery <- v11, faults <- v12, orders <- v13
FrontDoor == INSTANCE FrontDoor WITH Site <- {a1, a2}, RealIp <- "realip", Server <- {g1, g2},
    Job <- {k1, k2}, FailsToDown <- 2, OksToUp <- 2, RealIpAccepted <- FALSE, MaxOrders <- 3,
    site <- v1, health <- v2, realIpError <- v3, cert <- v4, disk <- v5, loaded <- v6,
    broken <- v7, chain <- v8, op <- v9, done <- v10, job <- v11, lost <- v12, crossed <- v13,
    orders <- v14
Monitor == INSTANCE Monitor WITH Recipient <- {"phone"}, FailThreshold <- 2,
    RecoverThreshold <- 1, Gap <- 2, Repeat <- 2, MaxTime <- 2, MaxIncidents <- 2,
    MaxFaults <- 1, probe <- v1, rt <- v2, paused <- v3, incidents <- v4, loops <- v5,
    rate <- v6, saved <- v7, now <- v8, alerted <- v9, lost <- v10, faults <- v11
Alerts == INSTANCE Alerts WITH Node <- {a1, a2}, Phone <- {"phone"}, Hook <- {"hook"},
    Replica <- "replica", PerHour <- 2, MaxRetries <- 0, MaxEvents <- 3, up <- v1, leader <- v2,
    last <- v3, mark <- v4, online <- v5, pending <- v6, fresh <- v7, texts <- v8, posts <- v9,
    texting <- v10, rate <- v11, hour <- v12, repl <- v13, broken <- v14, started <- v15,
    lost <- v16, events <- v17
Tunnels == INSTANCE Tunnels WITH Site <- {"site"}, Service <- {"panel"}, Host <- {"host"},
    Tunnel <- {a1, a2}, MaxChanges <- 4, MaxFaults <- 1, cfg <- v1, ssl <- v2, alive <- v3,
    connected <- v4, ledger <- v5, rules <- v6, dns <- v7, ids <- v8, draft <- v9, queue <- v10,
    run <- v11, changes <- v12, faults <- v13
Connectors == INSTANCE Connectors WITH Calls <- {a1, a2}, Boot <- "boot", MaxPids <- 4,
    MaxCalls <- 3, MaxFaults <- 2, entry <- v1, conn <- v2, calls <- v3, procs <- v4,
    mine <- v5, pidFile <- v6, up <- v7, counts <- v8
Databases == INSTANCE Databases WITH Req <- {a1, a2}, Name <- {"n", "m"}, Foreign <- {"m"},
    Site <- {"site"}, Server <- {"web"}, MaxIds <- 2, MaxPasswords <- 3, MaxChanges <- 4,
    MaxFaults <- 1, schema <- v1, acct <- v2, recs <- v3, linked <- v4, env <- v5, failed <- v6,
    job <- v7, op <- v8, sync <- v9, servers <- v10, via <- v11, bind <- v12, ids <- v13,
    passwords <- v14, changes <- v15, faults <- v16
DbServer == INSTANCE DbServer WITH Db <- {"x", "y", "z"}, Theirs <- {"x", "y"}, MaxTasks <- 4,
    MaxFaults <- 1, server <- v1, repo <- v2, up <- v3, data <- v4, aside <- v5, dumped <- v6,
    ro <- v7, cnf <- v8, repl <- v9, seeding <- v10, task <- v11, tasks <- v12, faults <- v13
PhpMyAdmin == INSTANCE PhpMyAdmin WITH Version <- {1, 2}, Port <- {1, 2, 3}, Put <- {a1, a2},
    Link <- {"link"}, MaxJobs <- 2, MaxFaults <- 1, installed <- v1, port <- v2, secret <- v3,
    app <- v4, old <- v5, pool <- v6, vhost <- v7, fcc <- v8, lastCheck <- v9, job <- v10,
    put <- v11, tokens <- v12, opened <- v13, jobs <- v14, faults <- v15
Traffic == INSTANCE Traffic WITH Server <- {"main"}, Main <- "main", Panel <- {"p", "q"},
    PanelMain <- "p", Visitor <- {"v"}, Bot <- "bot", MaxLines <- 2, MaxDays <- 1,
    MaxFaults <- 1, MaxInodes <- 2, written <- v1, log <- v2, tail <- v3, ship <- v4,
    post <- v5, active <- v6, mem <- v7, salts <- v8, disk <- v9, today <- v10, grace <- v11,
    newSalt <- v12, double <- v13, cut <- v14, before <- v15, moved <- v16, faults <- v17
Usage == INSTANCE Usage WITH Site <- {"site"}, MaxNow <- 2, MaxStarts <- 2, MaxFaults <- 1,
    now <- v1, started <- v2, used <- v3, procTicks <- v4, tasks <- v5, sites <- v6,
    sampling <- v7, dirty <- v8, latest <- v9, points <- v10, file <- v11, faults <- v12
Events == INSTANCE Events WITH Servers <- {"a", "b"}, Buffer <- 1, MaxEvents <- 2,
    MaxFaults <- 2, panel <- v1, stream <- v2, poll <- v3, page <- v4, counts <- v5
PanelNodes == INSTANCE PanelNodes WITH Server <- {a1, a2}, Port <- {1, 2}, MaxJobs <- 4,
    MaxFaults <- 1, panel <- v1, haOn <- v2, job <- v3, tasks <- v4, at <- v5, code <- v6,
    haLocal <- v7, unit <- v8, running <- v9, opened <- v10, gone <- v11, jobs <- v12,
    faults <- v13
PanelUpdate == INSTANCE PanelUpdate WITH Item <- {"panel", "shared"}, VersionOf <- <<1, 1, 2>>,
    Keep <- 2, MaxOrders <- 3, MaxChecks <- 1, MaxFaults <- 1, head <- v1, code <- v2,
    stamp <- v3, running <- v4, mode <- v5, backups <- v6, job <- v7, check <- v8, last <- v9,
    saved <- v10, limited <- v11, restart <- v12, torn <- v13, orders <- v14, checks <- v15,
    faults <- v16
Software == INSTANCE Software WITH Main <- "main", Server <- {"main", "edge"},
    By <- "main" :> "panel" @@ "edge" :> "deb", MaxVersion <- 2, MaxActs <- 4, newest <- v1,
    lists <- v2, inst <- v3, runs <- v4, known <- v5, shown <- v6, check <- v7, read <- v8,
    upgrading <- v9, job <- v10, acts <- v11
HaTiming == INSTANCE HaTiming WITH Settings <- Seconds \cup {None}, Unset <- None, stored <- v1,
    issuedUnder <- v2
Archives == INSTANCE Archives WITH Backup <- {a1, a2}, Share <- {g1, g2, "bucket"},
    Smb <- {g1, g2}, MaxTries <- 2, MaxFaults <- 3, recs <- v1, stage <- v2, file <- v3,
    inbox <- v4, part <- v5, late <- v6, tries <- v7, share <- v8, dest <- v9, restoring <- v10,
    extracted <- v11, faults <- v12

ASSUME KindsAreJobs

\* The variables of the pool after the k-th, which a part with k variables leaves alone.
Off16 == v17 = None
Off15 == v16 = None /\ Off16
Off14 == v15 = None /\ Off15
Off13 == v14 = None /\ Off14
Off12 == v13 = None /\ Off13
Off11 == v12 = None /\ Off12
Off10 == v11 = None /\ Off11
Off9 == v10 = None /\ Off10
Off8 == v9 = None /\ Off9
Off7 == v8 = None /\ Off8
Off6 == v7 = None /\ Off7
Off5 == v6 = None /\ Off6
Off4 == v5 = None /\ Off5
Off3 == v4 = None /\ Off4
Off2 == v3 = None /\ Off3
Rest16 == <<v17>>
Rest15 == <<v16, Rest16>>
Rest14 == <<v15, Rest15>>
Rest13 == <<v14, Rest14>>
Rest12 == <<v13, Rest13>>
Rest11 == <<v12, Rest12>>
Rest10 == <<v11, Rest11>>
Rest9 == <<v10, Rest10>>
Rest8 == <<v9, Rest9>>
Rest7 == <<v8, Rest8>>
Rest6 == <<v7, Rest7>>
Rest5 == <<v6, Rest6>>
Rest4 == <<v5, Rest5>>
Rest3 == <<v4, Rest4>>
Rest2 == <<v3, Rest3>>
sumVars == <<part, v1, v2, v3, v4, v5, v6, v7, v8, v9, v10, v11, v12, v13, v14, v15, v16, v17, vars>>

\* The variables of the pool, while the part that has its own takes steps.
Off0 == v1 = None /\ v2 = None /\ Off2
Rest0 == <<v1, v2, Rest2>>

SumInit ==
  /\ part \in Parts
  /\ Init
  /\ IF part = "queue" THEN Off0 ELSE TRUE
  /\ part = "sign-in" => SignIn!Init /\ Off13
  /\ part = "front door" => FrontDoor!Init /\ Off14
  /\ part = "monitor" => Monitor!Init /\ Off11
  /\ part = "alerts" => Alerts!Init
  /\ part = "tunnels" => Tunnels!Init /\ Off13
  /\ part = "connectors" => Connectors!Init /\ Off8
  /\ part = "databases" => Databases!Init /\ Off16
  /\ part = "database server" => DbServer!Init /\ Off13
  /\ part = "phpMyAdmin" => PhpMyAdmin!Init /\ Off15
  /\ part = "traffic" => Traffic!Init
  /\ part = "usage" => Usage!Init /\ Off12
  /\ part = "events" => Events!Init /\ Off5
  /\ part = "panel nodes" => PanelNodes!Init /\ Off13
  /\ part = "update" => PanelUpdate!Init /\ Off16
  /\ part = "software" => Software!Init /\ Off11
  /\ part = "timing" => HaTiming!Init /\ Off2
  /\ part = "archives" => Archives!Init /\ Off12

SumNext ==
  \/ part = "queue" /\ Next /\ UNCHANGED <<part, Rest0>>
  \/ part = "sign-in" /\ SignIn!Next /\ UNCHANGED <<part, Rest13, vars>>
  \/ part = "front door" /\ FrontDoor!Next /\ UNCHANGED <<part, Rest14, vars>>
  \/ part = "monitor" /\ Monitor!Next /\ UNCHANGED <<part, Rest11, vars>>
  \/ part = "alerts" /\ Alerts!Next /\ UNCHANGED <<part, vars>>
  \/ part = "tunnels" /\ Tunnels!Next /\ UNCHANGED <<part, Rest13, vars>>
  \/ part = "connectors" /\ Connectors!Next /\ UNCHANGED <<part, Rest8, vars>>
  \/ part = "databases" /\ Databases!Next /\ UNCHANGED <<part, Rest16, vars>>
  \/ part = "database server" /\ DbServer!Next /\ UNCHANGED <<part, Rest13, vars>>
  \/ part = "phpMyAdmin" /\ PhpMyAdmin!Next /\ UNCHANGED <<part, Rest15, vars>>
  \/ part = "traffic" /\ Traffic!Next /\ UNCHANGED <<part, vars>>
  \/ part = "usage" /\ Usage!Next /\ UNCHANGED <<part, Rest12, vars>>
  \/ part = "events" /\ Events!Next /\ UNCHANGED <<part, Rest5, vars>>
  \/ part = "panel nodes" /\ PanelNodes!Next /\ UNCHANGED <<part, Rest13, vars>>
  \/ part = "update" /\ PanelUpdate!Next /\ UNCHANGED <<part, Rest16, vars>>
  \/ part = "software" /\ Software!Next /\ UNCHANGED <<part, Rest11, vars>>
  \/ part = "timing" /\ HaTiming!Next /\ UNCHANGED <<part, Rest2, vars>>
  \/ part = "archives" /\ Archives!Next /\ UNCHANGED <<part, Rest12, vars>>

SumSpec == SumInit /\ [][SumNext]_sumVars

\* What is called a, g, k or b is alike in every part that has it.
Alike == Permutations({a1, a2}) \cup Permutations({g1, g2}) \cup Permutations({k1, k2}) \cup Permutations({b1, b2})

\* The jobs are, too.
JobsAlike == Permutations(Job)

-----------------------------------------------------------------------------
(* Properties.  Each is about one part; see the module of that part.            *)

\* Nobody is locked out and nobody gets in twice: an owner is left whatever requests wait,
\* a "full" sign-in still has the passkey it was made with, and setup makes one owner.
SignInIsSafe ==
  /\ [](part = "sign-in" => SignIn!AlwaysAnOwner /\ SignIn!FullHasItsPasskey)
  /\ [][part = "sign-in" => SignIn!OneSetupStep]_sumVars

\* When a website's sync ends well nginx serves what it asked for or something newer, and
\* no file that nginx may load names a certificate that is gone.
FrontDoorIsInStep ==
  /\ [](part = "front door" => FrontDoor!CertificateOutlivesItsFile)
  /\ [][part = "front door" => FrontDoor!SyncedMeansLoadedStep]_sumVars

\* Alerts come neither too often nor for nobody: one text per recipient, website and gap;
\* an open incident is one of a website that is watched; no more texts per hour than
\* allowed; and "recovered" follows exactly one "lost".
AlertsAreMeasured ==
  /\ [](part = "monitor" => Monitor!OpenIncidentIsWatched)
  /\ [](part = "alerts" => Alerts!TypeOK /\ Alerts!TextsPerHour)
  /\ [][/\ part = "monitor" => Monitor!NeverTooOftenStep
        /\ part = "alerts" => Alerts!RecoveryIsToldOnceStep]_sumVars

\* Nothing happens towards Cloudflare that nobody asked for: what the panel did not make
\* there stays there, and a connector's process starts only while somebody wants it.
NothingUnasked ==
  /\ [](part = "connectors" => Connectors!TypeOK)
  /\ [][/\ part = "tunnels" => Tunnels!NeverTakenAwayStep
        /\ part = "connectors" => Connectors!NothingStartsUnaskedStep]_sumVars

\* A database that was there before the panel is not dropped, and a new password comes to
\* the websites that use it.
DatabasesAreSpared ==
  part = "databases" => Databases!TypeOK /\ Databases!ForeignStays /\ Databases!PasswordComes

\* A replica that replicates has all of the primary's data, and what a server had of its
\* own is dropped only after it was dumped.
ReplicasAreSound ==
  /\ [](part = "database server" => DbServer!TypeOK /\ DbServer!ReplicaIsWhole)
  /\ [][part = "database server" => DbServer!OwnDataIsKeptStep]_sumVars

\* An installation that fails leaves the one that was there.
FailedLeavesAsItWas == [][part = "phpMyAdmin" => PhpMyAdmin!FailedLeavesAsItWasStep]_sumVars

\* No request and no visitor is counted twice, and what is shown of a website's processor
\* time is what it used.
FiguresAreTrue ==
  /\ part = "traffic" => Traffic!CountedOnce /\ Traffic!VisitorOnce
  /\ part = "usage" => Usage!FiguresAreTrue

\* A page shows an event once, whatever it missed and asked for again.
EachEventOnce == part = "events" => Events!TypeOK /\ Events!EachEventOnce

\* Failover is on only while there is a second panel node, and a node that was removed does
\* not come back.
PanelNodesStay == part = "panel nodes" => PanelNodes!FailoverMeansNodes /\ PanelNodes!RemovedStaysGone

\* The code that runs is one release, and what the panel says of updates is about it;
\* "upgrading" is shown of a server's software only while a job works on it, and connectors
\* run what is installed.
UpgradesAreWhole ==
  /\ part = "update" => PanelUpdate!CodeIsWhole /\ PanelUpdate!ToldOfThisCode
  /\ part = "software" => Software!UpgradingMeansJob /\ Software!ConnectorsFollow

\* The durations derived from any setting keep the relations that the election relies on,
\* also while the setting changes under a leader.
DurationsFit ==
  part = "timing" =>
    /\ HaTiming!TypeOK /\ HaTiming!RenewalRoom /\ HaTiming!PollInsideSilence
    /\ HaTiming!TickInsideMargin /\ HaTiming!BudgetMet /\ HaTiming!FenceHooksInsideLease

\* A backup is "ok" only with its whole archive, and a restore extracts what was saved.
ArchivesAreWhole ==
  /\ [](part = "archives" => Archives!TypeOK /\ Archives!RestoresWhatWasSaved)
  /\ [][part = "archives" => Archives!OkMeansWholeStep]_sumVars
=============================================================================
