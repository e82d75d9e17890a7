----------------------------- MODULE SiteDeploy -----------------------------
(***************************************************************************)
(* One website as the panel sees it: its releases, the servers it is        *)
(* placed on, and the jobs that deploy it, roll it back, move it and        *)
(* delete it (panel/lib/sites.mjs).  What a server does with a deploy is     *)
(* DeployEngine; here it ends in one of four ways.                          *)
(*                                                                          *)
(* Releases are numbered in the order they were made.  A build is           *)
(* [release, env, on]: the variables it was made with and the server.       *)
(* Jobs that lock the website exclude each other (busy); uploads, deletions *)
(* of releases, changed variables and changed placements do not wait.       *)
(***************************************************************************)
EXTENDS Naturals, FiniteSets, SequencesExt

CONSTANTS
  Server, None,
  Placements,  \* the serverIds a website may have; more than one is load balanced
  Envs,        \* the variables it may have; FirstEnv at first
  FirstEnv,
  Keep,        \* settings.keepReleases
  MaxReleases, MaxOps, MaxFaults  \* bounds for TLC

Releases == 1 .. MaxReleases
Builds == [release : Releases, env : Envs, on : Server]

\* An assumption: placements are lists of servers, at least one release is kept (the
\* setting is clamped), and nothing is not a build.
PlacementsAndBuilds ==
  /\ IsFiniteSet(Server) /\ Placements \subseteq Seq(Server) /\ FirstEnv \in Envs
  /\ Keep \in Nat \ {0} /\ MaxReleases \in Nat
  /\ None \notin Envs \cup Builds \cup [build : Builds, fp : Envs, touched : BOOLEAN]

VARIABLES
  site,    \* the record: [there, servers, current, previous, env, deleting]
  rel,     \* of each release: [there, pinned, built]
  made,    \* how many there have been
  state,   \* site.state: the release recorded for each server
  disk,    \* of each server: the build in place
  snap,    \* of each server: the build in its snapshot
  front,   \* the servers in nginx's upstream
  job,     \* the job that holds the website
  last,    \* how the last job ended: [kind, release, shipped]
  placed,  \* history: the placement changed during the running job
  touched, \* history: the variables changed during the deploy; kept with the build it stores
  lost,    \* history: the releases deleted while they were being deployed
  ops, faults  \* counters

tree == <<disk, snap>>
history == <<placed, touched, lost>>
counters == <<ops, faults>>
vars == <<site, rel, made, state, tree, front, job, last, history, counters>>

NotMade == [there |-> FALSE, pinned |-> FALSE, built |-> None]
NoEnd == [kind |-> "none", release |-> 0, shipped |-> None]
Idle == [kind |-> "none", phase |-> "none", release |-> 0, todo |-> <<>>, ship |-> None, package |-> FALSE,
         fp |-> None, spec |-> None, added |-> <<>>, removed |-> {}]
Job(kind, phase, r) == [Idle EXCEPT !.kind = kind, !.phase = phase, !.release = r]

Targets == ToSet(site.servers)
Deployed == site.current # 0 \/ \E s \in Server : state[s] # 0
Busy == job.kind # "none"
Operable == site.there /\ ~site.deleting   \* mustSite
Op == ops < MaxOps /\ ops' = ops + 1
Ask(j) == ~Busy /\ job' = j /\ last' = NoEnd /\ placed' = FALSE  \* siteJob: assertIdle, busy.set
Ends(how) == job' = Idle /\ last' = how
Fails == Ends(NoEnd)

-----------------------------------------------------------------------------
(* Releases.                                                                *)

Newer(r) == {n \in Releases : n > r /\ rel[n].there}
\* pruneReleases: the newest, the pinned, what is current, previous or recorded for a server.
LiveNow == {site.current} \cup {state[s] : s \in Server} \* mutant: the previous release is not kept
Live == {site.current, site.previous} \cup {state[s] : s \in Server}
Pruned(rs, live) ==
  [r \in Releases |-> IF rs[r].there /\ Cardinality({n \in Releases : n > r /\ rs[n].there}) >= Keep
                         /\ ~rs[r].pinned /\ r \notin live
                      THEN NotMade ELSE rs[r]]
Underway == IF Busy THEN {job.release} ELSE {}
Lose(rs) == lost' = lost \cup {r \in Underway : r # 0 /\ ~rs[r].there}

\* finalizeRelease: an upload, or a pull from GitHub that does not deploy.
Upload ==
  /\ Operable /\ made < MaxReleases
  /\ made' = made + 1
  /\ rel' = Pruned([rel EXCEPT ![made + 1] = [NotMade EXCEPT !.there = TRUE]], Live)
  /\ Lose(rel')
  /\ UNCHANGED <<site, state, tree, front, job, last, placed, touched, counters>>

Pin(r) ==
  /\ Op /\ site.there /\ rel[r].there
  /\ rel' = Pruned([rel EXCEPT ![r].pinned = ~@], Live)
  /\ Lose(rel')
  /\ UNCHANGED <<site, made, state, tree, front, job, last, placed, touched, faults>>

DeleteRelease(r) ==
  /\ Op /\ site.there /\ rel[r].there
  /\ site.current # r /\ \A s \in Targets : state[s] # r
  /\ rel' = [rel EXCEPT ![r] = NotMade]
  /\ Lose(rel')
  /\ site' = [site EXCEPT !.previous = IF @ = r THEN 0 ELSE @]
  /\ UNCHANGED <<made, state, tree, front, job, last, placed, touched, faults>>

-----------------------------------------------------------------------------
(* Deploying: deployRelease and deployTo.                                   *)

\* buildsOnce, usableBuilt: a stored build counts while its fingerprint is the site's.
BuildsOnce == Len(site.servers) > 1
AnyBuilt(r) == IF rel[r].built # None THEN rel[r].built.build ELSE None \* mutant: whatever it was built with
Usable(r) == IF rel[r].built # None /\ rel[r].built.fp = site.env THEN rel[r].built.build ELSE None

OrderDeploy(r) ==
  /\ Op /\ Operable /\ rel[r].there
  /\ Ask(Job("deploy", "queued", r))
  /\ UNCHANGED <<site, rel, made, state, tree, front, touched, lost, faults>>

\* POST releases/github with deploy: the job pulls, makes the release and deploys it.
OrderPull ==
  /\ Op /\ Operable /\ made < MaxReleases
  /\ Ask(Job("deploy", "pull", 0))
  /\ UNCHANGED <<site, rel, made, state, tree, front, touched, lost, faults>>

PullEnds ==
  /\ job.phase = "pull"
  /\ \/ /\ made < MaxReleases
        /\ made' = made + 1
        /\ rel' = Pruned([rel EXCEPT ![made + 1] = [NotMade EXCEPT !.there = TRUE]], Live)
        /\ job' = [job EXCEPT !.phase = "queued", !.release = made + 1]
        /\ UNCHANGED last
     \/ Fails /\ UNCHANGED <<rel, made>>
  /\ UNCHANGED <<site, state, tree, front, history, counters>>

\* What deployRelease decides before the first server: reuse a build, or make one on the
\* first server.  A stored build of other settings is forgotten.
Planned(j, r) ==
  [j EXCEPT !.phase = "deploy", !.release = r, !.todo = site.servers, !.fp = site.env,
            !.ship = IF BuildsOnce THEN Usable(r) ELSE None,
            !.package = BuildsOnce /\ Usable(r) = None]
Forgotten(r) == IF BuildsOnce /\ Usable(r) = None THEN [rel EXCEPT ![r].built = None] ELSE rel

DeployBegins ==
  /\ job.phase = "queued"
  /\ IF rel[job.release].there
     THEN job' = Planned(job, job.release) /\ rel' = Forgotten(job.release) /\ UNCHANGED last
     ELSE Fails /\ UNCHANGED rel
  /\ touched' = FALSE
  /\ UNCHANGED <<site, made, state, tree, front, placed, lost, counters>>

\* The next server gets its task: its settings are read now, and it downloads the archive.
ServerBegins ==
  /\ job.phase = "deploy" /\ job.todo # <<>>
  /\ IF rel[job.release].there
     THEN job' = [job EXCEPT !.phase = "sent", !.spec = site.env] /\ UNCHANGED last
     ELSE Fails
  /\ UNCHANGED <<site, rel, made, state, tree, front, history, counters>>

Sent == job.phase = "sent"
BuiltThere(s) == [release |-> job.release, env |-> job.spec, on |-> s] \* mutant: the package is not used
Build(s) == IF job.ship # None THEN job.ship ELSE [release |-> job.release, env |-> job.spec, on |-> s]
Put(s) == disk' = [disk EXCEPT ![s] = Build(s)] /\ snap' = [snap EXCEPT ![s] = disk[s]]

\* registerBuilt: the first server's package becomes what the others get.  Packaging may
\* fail, and then they build for themselves.
Registered(s) ==
  \/ /\ rel[job.release].there
     /\ rel' = [rel EXCEPT ![job.release].built = [build |-> Build(s), fp |-> job.fp, touched |-> touched]]
     /\ job' = [job EXCEPT !.phase = "deploy", !.todo = Tail(@), !.ship = Build(s), !.package = FALSE]
  \/ /\ UNCHANGED rel
     /\ job' = [job EXCEPT !.phase = "deploy", !.todo = Tail(@), !.package = FALSE]

ServerDeployed ==
  /\ Sent
  /\ LET s == Head(job.todo)
     IN /\ Put(s)
        /\ state' = [state EXCEPT ![s] = job.release]
        /\ IF job.package THEN Registered(s)
           ELSE job' = [job EXCEPT !.phase = "deploy", !.todo = Tail(@)] /\ UNCHANGED rel
  /\ UNCHANGED <<site, made, front, last, history, counters>>

\* mutant: the failed server is passed over
PassedOver ==
  /\ Sent
  /\ job' = [job EXCEPT !.phase = "deploy", !.todo = Tail(@)]
  /\ UNCHANGED <<site, rel, made, state, tree, front, last, history, counters>>

\* It fails before the swap, after it (the new build stays), or it is rolled back, and then
\* its snapshot is the build in place.  The deploy ends here.
ServerFails ==
  /\ Sent
  /\ LET s == Head(job.todo)
     IN \/ UNCHANGED tree
        \/ Put(s)
        \/ snap' = [snap EXCEPT ![s] = disk[s]] /\ UNCHANGED disk
  /\ Fails
  /\ UNCHANGED <<site, rel, made, state, front, history, counters>>

\* Cancelled, or the after-deploy scripts of the first server failed.
Stops ==
  /\ job.phase = "deploy"
  /\ Fails
  /\ UNCHANGED <<site, rel, made, state, tree, front, history, counters>>

\* markCurrent, also for a release that is already current.
Marked(r) == IF site.current = r THEN site
             ELSE [site EXCEPT !.current = r, !.previous = IF site.current # 0 THEN site.current ELSE @]
Redeploys == job.kind = "deploy" \/ job.fp # None  \* deployRelease, and not deployTo for added servers
Mark ==
  /\ job.phase = "deploy" /\ job.todo = <<>>
  /\ site' = IF Redeploys THEN Marked(job.release) ELSE site
  /\ job' = [job EXCEPT !.phase = "front"]
  /\ UNCHANGED <<rel, made, state, tree, front, last, history, counters>>

\* syncLb, which may fail, and pruneReleases.
FrontDoor ==
  /\ job.phase = "front"
  /\ \/ /\ front' = Targets
        /\ rel' = IF Redeploys THEN Pruned(rel, Live) ELSE rel
        /\ IF job.kind = "place"
           THEN job' = [job EXCEPT !.phase = "clear"] /\ UNCHANGED last
           ELSE Ends([kind |-> job.kind, release |-> job.release, shipped |-> job.ship])
     \/ Fails /\ UNCHANGED <<front, rel>>
  /\ UNCHANGED <<site, made, state, tree, history, counters>>

-----------------------------------------------------------------------------
(* Rolling back to the previous release.                                    *)

OrderRollback ==
  /\ Op /\ Operable /\ site.previous # 0
  /\ Ask(Job("rollback", "decide", site.previous))
  /\ UNCHANGED <<site, rel, made, state, tree, front, touched, lost, faults>>

\* A website that builds once redeploys it; any other restores the servers' snapshots.
RollbackBegins ==
  /\ job.phase = "decide"
  /\ IF BuildsOnce /\ rel[job.release].there
     THEN /\ job' = Planned([job EXCEPT !.kind = "deploy"], job.release)
          /\ rel' = Forgotten(job.release)
     ELSE /\ job' = [job EXCEPT !.phase = "snap", !.todo = site.servers]
          /\ UNCHANGED rel
  /\ touched' = FALSE
  /\ UNCHANGED <<site, made, state, tree, front, last, placed, lost, counters>>

\* site.rollback on one server: without a snapshot, or when the task fails, the release is
\* deployed there instead.
SnapshotBack ==
  /\ job.phase = "snap" /\ job.todo # <<>>
  /\ LET s == Head(job.todo)
         next == job' = [job EXCEPT !.todo = Tail(@)] /\ state' = [state EXCEPT ![s] = job.release] /\ UNCHANGED last
     IN \/ snap[s] # None /\ disk' = [disk EXCEPT ![s] = snap[s]] /\ next /\ UNCHANGED snap
        \/ /\ rel[job.release].there
           /\ disk' = [disk EXCEPT ![s] = [release |-> job.release, env |-> site.env, on |-> s]]
           /\ snap' = [snap EXCEPT ![s] = disk[s]]
           /\ next
        \/ Fails /\ UNCHANGED <<tree, state>>
  /\ UNCHANGED <<site, rel, made, front, history, counters>>

RolledBack ==
  /\ job.phase = "snap" /\ job.todo = <<>>
  /\ site' = [site EXCEPT !.current = job.release, !.previous = site.current]
  /\ job' = [job EXCEPT !.phase = "front"]
  /\ UNCHANGED <<rel, made, state, tree, front, last, history, counters>>

-----------------------------------------------------------------------------
(* Changes of the website: PATCH, PUT env.                                  *)

\* The servers that are new in p, in the order of p.
Before(p, s, t) == \E m, n \in DOMAIN p : m < n /\ p[m] = s /\ p[n] = t
Added(p) == {a \in SetToSeqs(ToSet(p) \ Targets) : \A m, n \in DOMAIN a : m < n => Before(p, a[m], a[n])}

\* A deployed website needs a job for it, and is refused while it is busy; one that was
\* never deployed is changed at once, even during its first deploy.
Place(p) ==
  /\ Op /\ Operable /\ ToSet(p) # Targets
  /\ site' = [site EXCEPT !.servers = p]
  /\ IF Deployed
     THEN \E added \in Added(p) :
            Ask([Job("place", "plan", 0) EXCEPT !.added = added, !.removed = Targets \ ToSet(p)])
     ELSE placed' = Busy /\ UNCHANGED <<job, last>>
  /\ UNCHANGED <<rel, made, state, tree, front, touched, lost, faults>>

\* The added servers get the current release: its stored build, or, when there is none that
\* fits, every server gets a new one.
PlaceBegins ==
  /\ job.phase = "plan"
  /\ LET r == site.current
     IN IF job.added = <<>>
        THEN job' = [job EXCEPT !.phase = "front"] /\ UNCHANGED <<rel, last>>
        ELSE IF r = 0 \/ ~rel[IF r = 0 THEN 1 ELSE r].there THEN Fails /\ UNCHANGED rel
        ELSE IF BuildsOnce /\ Usable(r) = None
        THEN job' = Planned(job, r) /\ rel' = Forgotten(r) /\ UNCHANGED last
        ELSE /\ job' = [job EXCEPT !.phase = "deploy", !.release = r, !.todo = job.added,
                                   !.ship = IF BuildsOnce THEN Usable(r) ELSE None]
             /\ UNCHANGED <<rel, last>>
  /\ touched' = FALSE
  /\ UNCHANGED <<site, made, state, tree, front, placed, lost, counters>>

\* site.remove on the servers it left; one that cannot be reached is only warned about.
PlaceClears ==
  /\ job.phase = "clear"
  /\ \E gone \in SUBSET job.removed :
       /\ disk' = [s \in Server |-> IF s \in gone THEN None ELSE disk[s]]
       /\ snap' = [s \in Server |-> IF s \in gone THEN None ELSE snap[s]]
  /\ state' = [s \in Server |-> IF s \in job.removed THEN 0 ELSE state[s]]
  /\ Ends([kind |-> "place", release |-> job.release, shipped |-> job.ship])
  /\ UNCHANGED <<site, rel, made, front, history, counters>>

\* PUT env saves first; then its job is refused on a busy website.
SaveEnv(e) ==
  /\ Op /\ Operable /\ site.env # e
  /\ site' = [site EXCEPT !.env = e]
  /\ touched' = (touched \/ job.phase \in {"deploy", "sent"})
  /\ IF Deployed /\ ~Busy THEN Ask(Job("env", "env", 0)) ELSE UNCHANGED <<job, last, placed>>
  /\ UNCHANGED <<rel, made, state, tree, front, lost, faults>>

\* It writes .env and restarts the app: the build stays what it was.
EnvEnds ==
  /\ job.phase = "env"
  /\ Fails
  /\ UNCHANGED <<site, rel, made, state, tree, front, history, counters>>

-----------------------------------------------------------------------------
(* Deleting the website.                                                    *)

OrderRemoval ==
  /\ Op /\ Operable
  /\ Ask(Job("remove", "remove", 0))
  /\ site' = [site EXCEPT !.deleting = TRUE]
  /\ UNCHANGED <<rel, made, state, tree, front, touched, lost, faults>>

\* Every server it is or was on, as far as they answer; then the rest goes in any case.
RemoveSite ==
  /\ job.phase = "remove"
  /\ \E gone \in SUBSET Server :
       /\ disk' = [s \in Server |-> IF s \in gone THEN None ELSE disk[s]]
       /\ snap' = [s \in Server |-> IF s \in gone THEN None ELSE snap[s]]
  /\ front' = {} /\ rel' = [r \in Releases |-> NotMade] /\ state' = [s \in Server |-> 0]
  /\ site' = [site EXCEPT !.there = FALSE, !.deleting = FALSE, !.current = 0, !.previous = 0]
  /\ Ends([kind |-> "remove", release |-> 0, shipped |-> None])
  /\ UNCHANGED <<made, history, counters>>

-----------------------------------------------------------------------------
(* The rest of the world.                                                   *)

\* The front door is written again, for other reasons (applyAll, a health check).
FrontSync ==
  /\ site.there /\ front # Targets
  /\ front' = Targets
  /\ UNCHANGED <<site, rel, made, state, tree, job, last, history, counters>>

\* The panel restarts: its jobs are gone, and a server's task may have ended well or not.
PanelRestarts ==
  /\ faults < MaxFaults /\ Busy
  /\ faults' = faults + 1
  /\ IF Sent THEN Put(Head(job.todo)) \/ UNCHANGED tree ELSE UNCHANGED tree
  /\ Fails
  /\ UNCHANGED <<site, rel, made, state, front, history, ops>>

Init ==
  /\ \E p \in Placements :
       site = [there |-> TRUE, servers |-> p, current |-> 0, previous |-> 0, env |-> FirstEnv, deleting |-> FALSE]
  /\ rel = [r \in Releases |-> NotMade] /\ made = 0
  /\ state = [s \in Server |-> 0]
  /\ disk = [s \in Server |-> None] /\ snap = [s \in Server |-> None]
  /\ front = {} /\ job = Idle /\ last = NoEnd
  /\ placed = FALSE /\ touched = FALSE /\ lost = {}
  /\ ops = 0 /\ faults = 0

Admin ==
  \/ Upload \/ OrderPull \/ OrderRollback \/ OrderRemoval
  \/ \E r \in Releases : Pin(r) \/ DeleteRelease(r) \/ OrderDeploy(r)
  \/ \E p \in Placements : Place(p)
  \/ \E e \in Envs : SaveEnv(e)
Deploying == PullEnds \/ DeployBegins \/ ServerBegins \/ ServerDeployed \/ ServerFails \/ Stops \/ Mark \/ FrontDoor
RollingBack == RollbackBegins \/ SnapshotBack \/ RolledBack
Changing == PlaceBegins \/ PlaceClears \/ EnvEnds \/ RemoveSite

Next == Admin \/ Deploying \/ RollingBack \/ Changing \/ FrontSync \/ PanelRestarts
Spec == Init /\ [][Next]_vars

-----------------------------------------------------------------------------

On(build, r) == build # None /\ build.release = r
Deploy == last' # last /\ last'.kind = "deploy"

\* "Done: it is on this release everywhere", when a deploy ends well: on every server the
\* website has, and behind the front door nothing else.  Only the placement of a first
\* deploy may be changed under it.
DoneIsEverywhereStep ==
  Deploy => placed \/ (front' = ToSet(site'.servers) /\ \A s \in front' : On(disk'[s], last'.release))
DoneIsEverywhere == [][DoneIsEverywhereStep]_vars

\* Once a build was shipped, every server has that one, whichever servers had it before.
OneBuildEverywhereStep ==
  last' # last /\ last'.kind \in {"deploy", "place"} /\ last'.shipped # None
    => placed \/ \A s \in ToSet(site'.servers) :
                   s \in ToSet(job.added) \/ last'.kind = "deploy" => disk'[s] = last'.shipped
OneBuildEverywhere == [][OneBuildEverywhereStep]_vars

\* A stored build is handed out, before a server of the deploy has its task.
HandsOut == job.phase # "deploy" /\ job'.phase = "deploy" /\ job'.ship # None /\ job.ship = None /\ ~Sent

\* A stored build that is handed out was made with the variables the website has when the
\* deploy begins, unless they were changed while it was being made.
ShippedFitsStep == HandsOut => rel[job'.release].built.touched \/ job'.ship.env = site.env
ShippedFits == [][ShippedFitsStep]_vars

\* Deploys arrive as they were made: what ends well is everywhere, is one build, and fits
\* the variables of the website.
DeploysArrive == DoneIsEverywhere /\ OneBuildEverywhere /\ ShippedFits

\* "A stored build made under different ones is not reused" (panel/lib/sites.mjs:1105).
\* Violated: the fingerprint is taken when the deploy begins, the variables are read from
\* the record after the awaits of the first server's task.
OtherBuildIsNotReused == [][HandsOut => job'.ship.env = site.env]_vars

\* What is current, and what a rollback would bring, is kept, unless it was deleted while
\* it was being deployed.
KeptForRollback == \A r \in {site.current, site.previous} : r # 0 => rel[r].there \/ r \in lost

\* A rollback that ends well brings the previous release (docs/STANDALONE.md:481).
RollbackBringsPrevious ==
  [][last' # last /\ last'.kind = "rollback" => \A s \in ToSet(site'.servers) : On(disk'[s], last'.release)]_vars

\* A website that is being deleted has a job that deletes it (panel/lib/staging.mjs:332).
DeletionIsUnderway == site.deleting => job.kind = "remove"
=============================================================================
