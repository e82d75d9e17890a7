------------------------------- MODULE MCWork -------------------------------
(***************************************************************************)
(* What is done for a website, checked in one run: the first state chooses *)
(* a part, and only that part takes steps.  SiteDeploy, whose constants    *)
(* the configuration gives and whose properties are checked by their own   *)
(* names, has its own variables; the other parts take turns with one pool. *)
(***************************************************************************)
EXTENDS SiteDeploy, TLC

CONSTANTS Parts, START, END, a1, a2, g1, g2, k1, k2

VARIABLES part, v1, v2, v3, v4, v5, v6, v7, v8, v9, v10, v11, v12, v13, v14, v15, v16


\* What the panel may ask of a website's host.
Specs == [rt : {"pm2", "docker"}, bad : {FALSE}] \cup {[rt |-> "pm2", bad |-> TRUE]}

\* Values, typed texts and lines written by hand, of the characters that quoting is about.
Character == {"a", "\\", "\"", "$", "\n"}
Values == UNION {[1..n -> Character] : n \in 0..2}
          \cup {<<"\\", "\\", "\"">>, <<"\"", "\\", "\"">>, <<"a", "\\", "n">>, <<"$", "\\", "$">>}
Line == {<<"A=", "a">>, <<"A=", "\"", "a">>, <<"B=", "a", "\"">>, <<"n", "\"", " ">>}
Texts == UNION {[1..n -> Line] : n \in 1..2}
Hands == {<<"A=", "n">>, <<"#", "a">>, <<>>}

\* Names of variables, and what websites usually have in them.
UsualValues ==
  [n \in {"DB_PASSWORD", "SENDGRID_API_KEY", "TWILIO_AUTH_TOKEN", "STRIPE_LIVE_SECRET", "PAYPAL_CLIENT_SECRET", "SMTP_PASS"} |-> {"secret"}]
  @@ [n \in {"DB_HOST", "SMTP_HOST"} |-> {"prod"}]
  @@ "DATABASE_URL" :> {"mysql", "postgres"} @@ "EMAIL_SERVER" :> {"smtp"}
  @@ "STRIPE_SECRET_KEY" :> {"sk_live", "plain"} @@ "STRIPE_WEBHOOK_SECRET" :> {"whsec"}
  @@ "PAYPAL_MODE" :> {"live", "sandbox"} @@ "PAYPAL_LIVE" :> {"true", "live"}
  @@ "OTHER" :> {"own", "webhook", "mysql", "plain"}
Names == DOMAIN UsualValues

\* The servers a website may be on.
OneOrTwo == {<<"a">>, <<"b">>, <<"a", "b">>}

DeployEngine == INSTANCE DeployEngine WITH Release <- {"r1", "r2", "r3"},
    LockOf <- "r1" :> "lock" @@ "r2" :> "lock" @@ "r3" :> "other", Mixed <- "mixed",
    MaxJobs <- 3, MaxFaults <- 1, disk <- v1, staging <- v2, previous <- v3, app <- v4,
    lingers <- v5, job <- v6, aborted <- v7, outcome <- v8, torn <- v9, jobs <- v10,
    faults <- v11
SiteHost == INSTANCE SiteHost WITH Site <- {"n", "f"}, Task <- {k1, k2},
    Kind <- "n" :> "node" @@ "f" :> "files", Spec0 <- Specs, MaxEdits <- 2, MaxFaults <- 1,
    spec <- v1, task <- v2, line <- v3, cancelled <- v4, heard <- v5, ended <- v6, eng <- v7,
    built <- v8, pm2 <- v9, box <- v10, oneOff <- v11, conf <- v12, loaded <- v13, off <- v14,
    edits <- v15, faults <- v16
SiteTests == INSTANCE SiteTests WITH Site <- {"site"}, MaxRuns <- 2, MaxFaults <- 1, run <- v1,
    job <- v2, cancels <- v3, lines <- v4, result <- v5, proc <- v6, active <- v7, cont <- v8,
    nets <- v9, rules <- v10, folder <- v11, earned <- v12, started <- v13, faults <- v14
Staging == INSTANCE Staging WITH Request <- {a1, a2}, Copy <- {g1, g2}, Db <- {k1, k2},
    MaxHand <- 2, parent <- v1, pointer <- v2, site <- v3, domain <- v4, links <- v5, db <- v6,
    tag <- v7, req <- v8, removal <- v9, job <- v10, hand <- v11
EnvFile == INSTANCE EnvFile WITH Key <- {"A=", "B="}, Value <- Values, Text <- Texts,
    Hand <- Hands, MaxSaves <- 2, MaxEdits <- 1, saved <- v1, file <- v2, saves <- v3,
    edits <- v4
CopyEnv == INSTANCE CopyEnv WITH Name <- Names, Usual <- UsualValues, MaxVariables <- 3,
    kind <- v1, was <- v2, linked <- v3, env <- v4, todo <- v5, hasDb <- v6, live <- v7,
    step <- v8

ASSUME PlacementsAndBuilds

\* CopyEnv!Init, found without trying every function.
FewValues == UNION {[s -> UNION {UsualValues[n] : n \in Names}] : s \in {t \in SUBSET Names : Cardinality(t) <= 3}}
FewVariables ==
  /\ v1 \in {"test", "staging"}
  /\ \E e \in {w \in FewValues : \A k \in DOMAIN w : w[k] \in UsualValues[k]} :
       v2 = [k \in Names |-> IF k \in DOMAIN e THEN e[k] ELSE None]
  /\ v3 \in SUBSET {k \in CopyEnv!DbKey \cup {"DATABASE_URL"} : v2[k] # None}
  /\ v4 = v2 /\ v5 = {}
  /\ v6 \in IF v1 = "test" THEN {CopyEnv!Planned} ELSE {CopyEnv!Planned, FALSE}
  /\ v7 = FALSE /\ v8 = "linked"

\* The variables of the pool after the k-th, which a part with k variables leaves alone.
Off15 == v16 = None
Off14 == v15 = None /\ Off15
Off13 == v14 = None /\ Off14
Off12 == v13 = None /\ Off13
Off11 == v12 = None /\ Off12
Off10 == v11 = None /\ Off11
Off9 == v10 = None /\ Off10
Off8 == v9 = None /\ Off9
Off7 == v8 = None /\ Off8
Off6 == v7 = None /\ Off7
Off5 == v6 = None /\ Off6
Off4 == v5 = None /\ Off5
Rest15 == <<v16>>
Rest14 == <<v15, Rest15>>
Rest13 == <<v14, Rest14>>
Rest12 == <<v13, Rest13>>
Rest11 == <<v12, Rest12>>
Rest10 == <<v11, Rest11>>
Rest9 == <<v10, Rest10>>
Rest8 == <<v9, Rest9>>
Rest7 == <<v8, Rest8>>
Rest6 == <<v7, Rest7>>
Rest5 == <<v6, Rest6>>
Rest4 == <<v5, Rest5>>
sumVars == <<part, v1, v2, v3, v4, v5, v6, v7, v8, v9, v10, v11, v12, v13, v14, v15, v16, vars>>

\* The variables of the pool, while the part that has its own takes steps.
Off0 == v1 = None /\ v2 = None /\ v3 = None /\ v4 = None /\ Off4
Rest0 == <<v1, v2, v3, v4, Rest4>>

SumInit ==
  /\ part \in Parts
  /\ Init
  /\ IF part = "website" THEN Off0 ELSE site.servers = <<"a">>
  /\ part = "deploy" => DeployEngine!Init /\ Off11
  /\ part = "host" => SiteHost!Init
  /\ part = "tests" => SiteTests!Init /\ Off14
  /\ part = "staging" => Staging!Init /\ Off11
  /\ part = "variables" => EnvFile!Init /\ Off4
  /\ part = "copies" => FewVariables /\ Off8

SumNext ==
  \/ part = "website" /\ Next /\ UNCHANGED <<part, Rest0>>
  \/ part = "deploy" /\ DeployEngine!Next /\ UNCHANGED <<part, Rest11, vars>>
  \/ part = "host" /\ SiteHost!Next /\ UNCHANGED <<part, vars>>
  \/ part = "tests" /\ SiteTests!Next /\ UNCHANGED <<part, Rest14, vars>>
  \/ part = "staging" /\ Staging!Next /\ UNCHANGED <<part, Rest11, vars>>
  \/ part = "variables" /\ EnvFile!Next /\ UNCHANGED <<part, Rest4, vars>>
  \/ part = "copies" /\ CopyEnv!Next /\ UNCHANGED <<part, Rest8, vars>>

SumSpec == SumInit /\ [][SumNext]_sumVars

-----------------------------------------------------------------------------
(* Properties.  Each is about one part; see the module of that part.            *)

\* A deploy that says "deployed" has all of its release in place, with packages made for it,
\* and the app serves it; one that says "rolled back" left what was there before; and no
\* files move under a running app.
DeploysAreWhole ==
  /\ [](part = "deploy" => DeployEngine!TypeOK)
  /\ [][part = "deploy" => DeployEngine!DeployedMeansServedStep /\ DeployEngine!RolledBackMeansBeforeStep
                           /\ DeployEngine!NoSwapUnderTheAppStep]_sumVars

\* A website that was stopped stays stopped until it is started, and a configuration that
\* nginx rejects does not stay, whatever tasks run beside.
HostObeys == part = "host" => SiteHost!TypeOK /\ SiteHost!StoppedStaysStopped /\ SiteHost!RejectedIsUndone

\* A test run is "ready" only if it passed, and what cleans up after dead runs takes
\* nothing from one that lives.
TestRunsAreApart ==
  /\ [](part = "tests" => SiteTests!TypeOK /\ SiteTests!ReadyIsEarned)
  /\ [][part = "tests" => SiteTests!SweepSparesTheLivingStep]_sumVars

\* A staging site's database is dropped only while nobody else is linked to it.
RemovalSparesTheLinked == [][part = "staging" => Staging!RemovalSparesTheLinkedStep]_sumVars

\* An app reads the values that were saved, and lines written by hand stay; and a copy of a
\* website has no variable that leads to the live website's services.
VariablesAreRight ==
  /\ [](part = "copies" => CopyEnv!CopyReachesNothingLive)
  /\ [][part = "variables" => EnvFile!AppReadsWhatWasSavedStep]_sumVars
=============================================================================
