----------------------------- MODULE PhpMyAdmin -----------------------------
(***************************************************************************)
(* phpMyAdmin on the main server: panel/lib/phpmyadmin.mjs.  A job          *)
(* installs, updates or removes it: a pool of php-fpm, the release in app/, *)
(* a file of nginx.  Its port can be changed by a request of its own, and   *)
(* links for signing in can be handed out, while nothing else is going on.  *)
(* The panel may die between two steps of a job.                            *)
(***************************************************************************)
EXTENDS Naturals, FiniteSets

CONSTANTS
  Version, Port, Put, Link, None,
  MaxJobs, MaxFaults  \* bounds for TLC

VARIABLES
  installed, port, secret,  \* the settings: c.installed, c.port, c.secretEnc
  app, old,      \* the release in app/, the one moved out of the way
  pool,          \* the pool of php-fpm
  vhost,         \* the port nginx listens on for phpMyAdmin, or None
  fcc,           \* fcc.php holds the secret of the settings
  lastCheck,     \* what the page answered: None, "answers" or "fails"
  job,           \* the job that runs: [kind, version, step, undo, was]
  put,           \* changes of the port under way: None, or [to, prev]
  tokens,        \* links handed out and not used: to the databases they open
  opened,        \* how often each link opened a database
  jobs, faults   \* counters

settings == <<installed, port, secret>>
files == <<app, old, pool, vhost, fcc>>
links == <<tokens, opened>>
counters == <<jobs, faults>>
vars == <<settings, files, lastCheck, job, put, links, counters>>

Idle == [kind |-> "none", version |-> None, step |-> "none", undo |-> {}, was |-> <<>>]
At(step) == job.step = step
GoTo(step) == job' = [job EXCEPT !.step = step]
Served == <<app, pool, vhost>>

\* isInstalled: both the settings and the files say so.
IsInstalled == installed # None /\ app # None
Busy == job.kind # "none"

-----------------------------------------------------------------------------
(* Installing and updating.                                                 *)

StartJob(kind, v) ==
  /\ ~Busy /\ jobs < MaxJobs
  /\ kind = "update" => IsInstalled
  /\ kind = "uninstall" => installed # None
  /\ jobs' = jobs + 1
  /\ job' = [kind |-> kind, version |-> v, undo |-> {}, was |-> Served,
             step |-> IF kind = "uninstall" THEN "unserve" ELSE "packages"]
  /\ UNCHANGED <<settings, files, put, links, faults>>

\* checkPort: nobody listens on the port of the settings but a phpMyAdmin that is installed.
PortIsFree == vhost = port => installed # None

\* ensurePackages: PHP stays whatever comes of the job.
Packages ==
  /\ At("packages") /\ PortIsFree
  /\ GoTo("download")
  /\ UNCHANGED <<settings, files, put, links, counters>>

\* httpsDownload and downloadVerified, into a folder of its own.
Download ==
  /\ At("download")
  /\ GoTo("stage")
  /\ UNCHANGED <<settings, files, put, links, counters>>

\* writeGenerated into what was unpacked; only fcc.php is in its place at once.
Stage ==
  /\ At("stage")
  /\ secret' = TRUE /\ fcc' = TRUE
  /\ GoTo("pool")
  /\ UNCHANGED <<installed, port, app, old, pool, vhost, put, links, counters>>

\* mutant: the pool of an update is taken back, too
UndoesPool == {"pool"}

\* applyPool; a pool php-fpm rejects is taken back at once.  That of a first install is
\* taken back when the job fails later.
UndoPool == IF installed # None THEN {} ELSE {"pool"}
ApplyPool ==
  /\ At("pool")
  /\ pool' = TRUE
  /\ job' = [job EXCEPT !.step = "out", !.undo = @ \cup UndoPool]
  /\ UNCHANGED <<settings, app, old, vhost, fcc, put, links, counters>>

\* The two renames of the swap.
SwapOut ==
  /\ At("out")
  /\ IF app # None THEN app' = None /\ old' = app ELSE UNCHANGED <<app, old>>
  /\ job' = [job EXCEPT !.step = "in", !.undo = @ \cup {IF app # None THEN "old" ELSE "app"}]
  /\ UNCHANGED <<settings, pool, vhost, fcc, put, links, counters>>

SwapIn ==
  /\ At("in")
  /\ app' = job.version
  /\ GoTo("vhost")
  /\ UNCHANGED <<settings, old, pool, vhost, fcc, put, links, counters>>

\* renderNginx: the port is that of the settings when the file is written.
NginxFile == port

\* applyVhost: from here on it is live.
ApplyVhost ==
  /\ At("vhost")
  /\ vhost' = NginxFile
  /\ old' = None
  /\ job' = [job EXCEPT !.step = "save", !.undo = {}]
  /\ UNCHANGED <<settings, app, pool, fcc, put, links, counters>>

Installs ==
  /\ At("save")
  /\ installed' = job.version
  /\ GoTo("smoke")
  /\ UNCHANGED <<port, secret, files, put, links, counters>>

\* smokeTest: what it says changes nothing any more.
Answers == vhost # None /\ pool /\ app # None
SmokeTest ==
  /\ At("smoke")
  /\ lastCheck' = IF Answers THEN "answers" ELSE "fails"
  /\ job' = Idle
  /\ UNCHANGED <<settings, files, put, links, counters>>

\* A step fails, or the job is cancelled: what was pushed onto rollback is done, last first.
Undone ==
  /\ app' = IF "old" \in job.undo THEN old ELSE IF "app" \in job.undo THEN None ELSE app
  /\ old' = IF "old" \in job.undo THEN None ELSE old
  /\ pool' = (pool /\ "pool" \notin job.undo)

Fails ==
  /\ job.kind \in {"install", "update"} /\ job.step \in {"packages", "download", "stage", "pool", "out", "vhost"}
  /\ Undone
  /\ job' = Idle
  /\ UNCHANGED <<settings, vhost, fcc, put, links, counters>>

-----------------------------------------------------------------------------
(* Removing.                                                                *)

\* First it is no longer served; nginx may reject that, and nothing has changed.
Unserve ==
  /\ At("unserve")
  /\ \/ vhost' = None /\ GoTo("remove")
     \/ job' = Idle /\ UNCHANGED vhost
  /\ UNCHANGED <<settings, app, old, pool, fcc, put, links, counters>>

\* The pool, the folder and the system user.
RemoveFiles ==
  /\ At("remove")
  /\ pool' = FALSE /\ app' = None /\ old' = None /\ fcc' = FALSE
  /\ GoTo("forget")
  /\ UNCHANGED <<settings, vhost, put, links, counters>>

Forget ==
  /\ At("forget")
  /\ installed' = None /\ secret' = FALSE /\ lastCheck' = None
  /\ tokens' = [l \in Link |-> None]
  /\ job' = Idle
  /\ UNCHANGED <<port, files, put, opened, counters>>

-----------------------------------------------------------------------------
(* The port.                                                                *)

\* updateSettings: the new port is in the settings before nginx is asked.
PutPort(r, p) ==
  /\ put[r] = None /\ p # port /\ ~Busy
  /\ \A q \in Put : put[q] # None => put[q].to # p
  /\ port' = p
  /\ put' = IF IsInstalled THEN [put EXCEPT ![r] = [to |-> p, prev |-> port]] ELSE put
  /\ UNCHANGED <<installed, secret, files, job, links, counters>>

\* nginx takes the file, or rejects it and keeps the one before.
PutTaken(r) ==
  /\ put[r] # None
  /\ vhost' = put[r].to
  /\ put' = [put EXCEPT ![r] = None]
  /\ UNCHANGED <<settings, app, old, pool, fcc, job, links, counters>>

PutRejected(r) ==
  /\ put[r] # None
  /\ port' = put[r].prev
  /\ put' = [put EXCEPT ![r] = None]
  /\ UNCHANGED <<installed, secret, files, job, links, counters>>

-----------------------------------------------------------------------------
(* Links.                                                                   *)

IssueToken(l, db) ==
  /\ IsInstalled /\ ~Busy /\ secret
  /\ tokens[l] = None /\ opened[l] = 0
  /\ tokens' = [tokens EXCEPT ![l] = db]
  /\ UNCHANGED <<settings, files, job, put, opened, counters>>

\* fcc-signon.php shows the panel the secret of fcc.php, and the panel answers only that.
SignOn == Answers /\ fcc /\ secret

\* redeem: a link is used up, whatever comes of it.
Redeem(l) ==
  /\ tokens[l] # None /\ SignOn /\ IsInstalled
  /\ tokens' = [tokens EXCEPT ![l] = None]
  /\ opened' = [opened EXCEPT ![l] = @ + 1]
  /\ UNCHANGED <<settings, files, job, put, counters>>

\* pruneTokens: it has expired.
Expire(l) ==
  /\ tokens[l] # None
  /\ tokens' = [tokens EXCEPT ![l] = None]
  /\ opened' = [opened EXCEPT ![l] = @ + 1]
  /\ UNCHANGED <<settings, files, job, put, counters>>

-----------------------------------------------------------------------------

\* The panel dies: jobs, requests and links are gone.
Dies ==
  /\ faults < MaxFaults
  /\ faults' = faults + 1
  /\ job' = Idle /\ put' = [r \in Put |-> None] /\ tokens' = [l \in Link |-> None]
  /\ lastCheck' = None
  /\ UNCHANGED <<settings, files, opened, jobs>>

\* _refresh, once after a start: nginx listens on the port of the settings again.
Refresh ==
  /\ faults > 0 /\ IsInstalled /\ ~Busy /\ vhost # port /\ \A r \in Put : put[r] = None
  /\ vhost' = NginxFile
  /\ UNCHANGED <<settings, app, old, pool, fcc, job, put, links, counters>>

\* The panel starts beside a phpMyAdmin that a panel before it installed, or with none.
Init ==
  /\ installed \in Version \cup {None} /\ port \in Port
  /\ app = installed /\ old = None
  /\ LET there == installed # None
     IN  /\ secret = there /\ pool = there /\ fcc = there
         /\ vhost = IF there THEN port ELSE None
  /\ lastCheck = None
  /\ job = Idle /\ put = [r \in Put |-> None]
  /\ tokens = [l \in Link |-> None] /\ opened = [l \in Link |-> 0]
  /\ jobs = 0 /\ faults = 0

Unchecked ==
  \/ \E kind \in {"install", "update", "uninstall"}, v \in Version : StartJob(kind, v)
  \/ Packages \/ Download \/ Stage \/ ApplyPool \/ SwapOut \/ SwapIn \/ ApplyVhost \/ Installs
  \/ Fails \/ Unserve \/ RemoveFiles
  \/ \E r \in Put : PutTaken(r) \/ PutRejected(r) \/ \E p \in Port : PutPort(r, p)
  \/ \E l \in Link : Redeem(l) \/ Expire(l) \/ IssueToken(l, "db")
  \/ Refresh

Next == (Unchecked /\ UNCHANGED lastCheck) \/ SmokeTest \/ Forget \/ Dies

Spec == Init /\ [][Next]_vars

-----------------------------------------------------------------------------

\* An install or an update that fails, wherever it fails, leaves the release it found, and with
\* a phpMyAdmin that was there and worked also its pool ("Rolled back to the previous state.").
FailedLeavesAsItWasStep ==
  job.kind \in {"install", "update"} /\ ~Busy' /\ faults' = faults /\ job.step \notin {"save", "smoke"}
  => /\ app' = job.was[1]
     /\ (installed # None /\ job.was[1] # None => pool' = job.was[2])
FailedLeavesAsItWas == [][FailedLeavesAsItWasStep]_vars

\* At rest, with no panel that died, phpMyAdmin answers where the panel's links point to.
AnswersWhereLinked ==
  faults = 0 /\ ~Busy /\ IsInstalled /\ (\A r \in Put : put[r] = None) => vhost = port

=============================================================================
