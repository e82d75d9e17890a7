------------------------------ MODULE DbServer ------------------------------
(***************************************************************************)
(* One server's MySQL and what the agent's tasks do to it                    *)
(* (shared/mysql-ha.mjs): finding and installing a version that can          *)
(* replicate, the replication settings, the copy of the primary's databases, *)
(* a rebuild with its safety copy, promotion and fencing.  A task may be     *)
(* cancelled, fail or die with the agent between any two steps, and the      *)
(* server may restart.  The primary is outside; DbFailover has both servers. *)
(***************************************************************************)
EXTENDS Naturals, FiniteSets

CONSTANTS
  Db,        \* names of databases
  Theirs,    \* those on the primary
  None,
  MaxTasks, MaxFaults  \* bounds for TLC

VARIABLES
  server,    \* the installed server: "none", "old" (too old for the primary), "new"
  repo,      \* the vendor's APT repository is set up
  up,        \* mysqld runs
  data,      \* the data directory: of each database "none", "own", "partial", "copy"
  aside,     \* own databases in data directories that were moved away
  dumped,    \* safety dumps: what they have of which database, and nothing newer is here
  ro,        \* read_only at run time
  cnf,       \* the managed file: the replication settings, read_only
  repl,      \* replication: "none", configured but "stopped", "on"
  seeding,   \* mysql-ha.json: databases of a copy that has not finished
  task,      \* the task that holds "cluster:mysql": [kind, step, plan, dbs], or None
  tasks, faults

machine == <<server, repo, up, data, aside, dumped>>
settings == <<ro, cnf, repl>>
vars == <<machine, settings, seeding, task, tasks, faults>>

NoSettings == [repl |-> FALSE, ro |-> FALSE]
Present == {d \in Db : data[d] # "none"}
At(step) == task # None /\ task.step = step
Goes(step) == task' = [task EXCEPT !.step = step]
Fault == faults < MaxFaults /\ faults' = faults + 1
\* The task throws, is cancelled, or is done: the lock is free.
Over == task' = None

-----------------------------------------------------------------------------
(* Which server: decided before anything changes.                            *)

\* mutant: every database the primary also has counts as a leftover
DisposableByName == Present \cap Theirs
\* Partial copies that an unfinished seed noted.
Disposable == Present \cap seeding

\* resolveSource: the distribution's package, the vendor's, or neither fits.
Sources == {"distro", "vendor"}
Plan(action, source) == [action |-> action, source |-> source]
Plans(rebuild) ==
  IF server = "new" THEN {Plan("keep", "distro")}
  ELSE IF server = "none" THEN {Plan("install", s) : s \in Sources}
  ELSE IF Present \ Disposable # {} /\ ~rebuild THEN {}
  ELSE {Plan("replace", s) : s \in Sources}

New(kind, step) ==
  /\ task = None /\ tasks < MaxTasks
  /\ tasks' = tasks + 1
  /\ task' = [kind |-> kind, step |-> step, plan |-> Plan("keep", "distro"), dbs |-> {}]
  /\ UNCHANGED <<server, repo, up, aside, dumped, settings, seeding, faults>>
\* mysql.primary.prepare, mysql.replica.setup with and without a copy, mysql.rebuild,
\* mysql.replica.promote.  The copy is left out only for an old primary that the new
\* one has caught up with (a switchover).
Prepare == server # "none" /\ repl = "none" /\ New("prepare", "settings") /\ UNCHANGED data
Setup == New("setup", "plan") /\ UNCHANGED data
Repoint ==
  /\ server = "new" /\ up /\ ro /\ repl = "none" /\ \A d \in Db : d \in Theirs <=> data[d] \in {"own", "copy"}
  /\ New("repoint", "plan")
  /\ data' = [d \in Db |-> IF data[d] = "own" THEN "copy" ELSE data[d]]
Rebuild == server # "none" /\ New("rebuild", "plan") /\ UNCHANGED data
Promote == repl = "on" /\ up /\ New("promote", "drain") /\ UNCHANGED data

\* The primary does not say its version: nothing here has changed.
Unanswered ==
  /\ At("plan") /\ Over
  /\ UNCHANGED <<machine, settings, seeding, tasks, faults>>
\* A server that is down is started.  No plan, no change.
Planned ==
  /\ At("plan")
  /\ \/ \E p \in Plans(task.kind = "rebuild") :
          task' = [task EXCEPT !.plan = p, !.step = IF task.kind = "rebuild" THEN "list" ELSE "apply"]
     \/ Plans(task.kind = "rebuild") = {} /\ Over
  /\ up' = (up \/ server # "none")
  /\ UNCHANGED <<server, repo, data, aside, dumped, settings, seeding, tasks, faults>>

-----------------------------------------------------------------------------
(* mysql.rebuild: list and fence, dump, drop; then exactly a setup.          *)

\* mutant: the server takes writes while it is dumped and dropped
Unfenced == ro
Fenced == TRUE
Listed ==
  /\ At("list")
  /\ ro' = Fenced
  /\ task' = [task EXCEPT !.dbs = Present, !.step = IF Present = {} THEN "plan" ELSE "dump",
                          !.kind = IF Present = {} THEN "setup" ELSE @]
  /\ UNCHANGED <<machine, cnf, repl, seeding, tasks, faults>>
\* The file gets its name only when it is complete.
Dump ==
  /\ At("dump")
  /\ \/ dumped' = dumped \cup {<<d, data[d]>> : d \in task.dbs} /\ Goes("drop") /\ UNCHANGED faults
     \/ Fault /\ Over /\ UNCHANGED dumped
  /\ UNCHANGED <<server, repo, up, data, aside, settings, seeding, tasks>>
\* Replication is stopped, its settings stay.
Drop ==
  /\ At("drop")
  /\ data' = [d \in Db |-> IF d \in task.dbs THEN "none" ELSE data[d]]
  /\ repl' = IF repl = "none" THEN "none" ELSE "stopped"
  /\ task' = [task EXCEPT !.kind = "setup", !.step = "plan"]
  /\ UNCHANGED <<server, repo, up, aside, dumped, ro, cnf, seeding, tasks, faults>>

-----------------------------------------------------------------------------
(* applyServerPlan, and the checks after it.                                 *)

\* The vendor's repository is removed again when it does not deliver.
AddRepo ==
  /\ At("apply") /\ task.plan.action # "keep" /\ task.plan.source = "vendor" /\ ~repo
  /\ \/ repo' = TRUE /\ UNCHANGED <<task, faults>>
     \/ Fault /\ Over /\ UNCHANGED repo
  /\ UNCHANGED <<server, up, data, aside, dumped, settings, seeding, tasks>>
\* Stopped; the vendor's packages get an empty data directory, and the old one is kept.
Replace ==
  /\ At("apply") /\ task.plan.action = "replace" /\ (task.plan.source = "vendor" => repo)
  /\ up' = FALSE /\ cnf' = NoSettings
  /\ IF task.plan.source = "vendor"
     THEN /\ aside' = aside \cup {d \in Db : data[d] = "own"}
          /\ data' = [d \in Db |-> "none"] /\ repl' = "none"
     ELSE UNCHANGED <<aside, data, repl>>
  /\ Goes("install")
  /\ UNCHANGED <<server, repo, dumped, ro, seeding, tasks, faults>>
Install ==
  /\ \/ At("install")
     \/ At("apply") /\ task.plan.action = "install" /\ (task.plan.source = "vendor" => repo)
  /\ \/ server' = "new" /\ up' = TRUE /\ ro' = cnf.ro /\ Goes("settings") /\ UNCHANGED faults
     \/ Fault /\ Over /\ UNCHANGED <<server, up, ro>>
  /\ UNCHANGED <<repo, data, aside, dumped, cnf, repl, seeding, tasks>>
Keep ==
  /\ At("apply") /\ task.plan.action = "keep"
  /\ Goes("settings")
  /\ UNCHANGED <<machine, settings, seeding, tasks, faults>>

\* applyCnf: restarts unless only read_only differs; when MySQL does not come back,
\* the previous file does.  Preparing a primary keeps read_only as it is.
Wanted == [repl |-> TRUE, ro |-> task.kind = "prepare" => ro]
Settings ==
  /\ At("settings") /\ up
  /\ \/ /\ cnf' = Wanted /\ ro' = Wanted.ro
        /\ IF task.kind = "prepare" THEN Over ELSE Goes("primary")
        /\ UNCHANGED faults
     \/ /\ ~cnf.repl
        /\ Fault /\ Over
        /\ UNCHANGED cnf /\ ro' = cnf.ro
  /\ UNCHANGED <<machine, repl, seeding, tasks>>
\* The primary answers, has its settings, and is not newer.
Primary ==
  /\ At("primary")
  /\ \/ Goes("accounts") /\ UNCHANGED faults
     \/ Fault /\ Over
  /\ UNCHANGED <<machine, settings, seeding, tasks>>
\* Those for the panel and for the other servers, and the firewall.
Accounts ==
  /\ At("accounts")
  /\ \/ Goes("reset") /\ UNCHANGED faults
     \/ Fault /\ Over
  /\ UNCHANGED <<machine, settings, seeding, tasks>>

-----------------------------------------------------------------------------
(* The copy, and replication.                                                *)

\* mutant: replication is stopped, what was configured stays
OnlyStopped == IF repl = "none" THEN "none" ELSE "stopped"
\* STOP REPLICA, RESET REPLICA ALL, and for a copy no GTIDs of its own.
ReplAfterReset == "none"
Reset ==
  /\ At("reset") /\ up
  /\ repl' = ReplAfterReset
  /\ Goes(IF task.kind = "repoint" \/ Theirs = {} THEN "start" ELSE "note")
  /\ UNCHANGED <<machine, ro, cnf, seeding, tasks, faults>>
Note ==
  /\ At("note")
  /\ seeding' = Theirs
  /\ task' = [task EXCEPT !.dbs = Theirs, !.step = "copy"]
  /\ UNCHANGED <<machine, settings, tasks, faults>>
\* mysqldump drops and creates each database, one after the other.
Copies(d) ==
  /\ At("copy") /\ up /\ d \in task.dbs
  /\ IF data[d] = "partial"
     THEN data' = [data EXCEPT ![d] = "copy"] /\ task' = [task EXCEPT !.dbs = @ \ {d}]
     ELSE data' = [data EXCEPT ![d] = "partial"] /\ UNCHANGED task
  /\ \A e \in task.dbs \ {d} : data[e] # "partial" \/ data[d] = "partial"
  /\ UNCHANGED <<server, repo, up, aside, dumped, settings, seeding, tasks, faults>>
\* The pipe: both ends must have ended well.
CopyEnds ==
  /\ At("copy") /\ task.dbs = {}
  /\ Goes("start")
  /\ UNCHANGED <<machine, settings, seeding, tasks, faults>>
Start ==
  /\ At("start") /\ up
  /\ repl' = "on" /\ Goes("wait")
  /\ UNCHANGED <<machine, ro, cnf, seeding, tasks, faults>>
\* waitReplicating; only then is the copy no longer "seeding".
Ends ==
  /\ At("wait")
  /\ \/ seeding' = {} /\ UNCHANGED faults
     \/ Fault /\ UNCHANGED seeding
  /\ Over
  /\ UNCHANGED <<machine, settings, tasks>>

\* replicaPromote: what failed before the reset leaves a replica, after it a server
\* that is still read-only.
Drained ==
  /\ At("drain")
  /\ \/ repl' = "none" /\ Goes("writable") /\ UNCHANGED faults
     \/ Fault /\ Over /\ UNCHANGED repl
  /\ UNCHANGED <<machine, ro, cnf, seeding, tasks>>
\* From here its databases are its own.
Writable ==
  /\ At("writable")
  /\ \/ /\ ro' = FALSE
        /\ data' = [d \in Db |-> IF data[d] = "copy" THEN "own" ELSE data[d]]
        /\ Goes("promoted") /\ UNCHANGED faults
     \/ Fault /\ Over /\ UNCHANGED <<ro, data>>
  /\ UNCHANGED <<server, repo, up, aside, dumped, cnf, repl, seeding, tasks>>
CnfReadOnly(on) == [cnf EXCEPT !.ro = on]
Promoted ==
  /\ At("promoted")
  /\ cnf' \in {cnf, CnfReadOnly(FALSE)} /\ Over
  /\ UNCHANGED <<machine, ro, repl, seeding, tasks, faults>>

\* mysql.readonly waits for no other task.  The panel opens only a primary.
ReadOnly(on) ==
  /\ up /\ (~on => repl = "none" /\ task = None /\ \A d \in Db : data[d] # "partial")
  /\ ro' = on /\ cnf' = CnfReadOnly(on)
  /\ data' = IF on THEN data ELSE [d \in Db |-> IF data[d] = "copy" THEN "own" ELSE data[d]]
  /\ UNCHANGED <<server, repo, up, aside, dumped, repl, seeding, task, tasks, faults>>

-----------------------------------------------------------------------------
(* Cancelled, or the agent dies; the server restarts; somebody uses it.      *)

\* checkAbort between the steps; a promotion that was cancelled is undone or said.
Cancelled ==
  /\ task # None /\ Fault /\ Over
  /\ UNCHANGED <<machine, settings, seeding, tasks>>
Restarts ==
  /\ Fault /\ task' = None
  /\ up' = (server # "none") /\ ro' = cnf.ro
  /\ repl' = IF repl = "stopped" THEN "on" ELSE repl
  /\ UNCHANGED <<server, repo, data, aside, dumped, cnf, seeding, tasks>>
\* A database is made or written here, on a server that takes writes: a dump of it
\* no longer has everything.
Written(d) ==
  /\ up /\ ~ro /\ repl = "none"
  /\ data[d] # "own" => task = None
  /\ data' = [data EXCEPT ![d] = "own"]
  /\ dumped' = dumped \ {<<d, "own">>}
  /\ UNCHANGED <<server, repo, up, aside, settings, seeding, task, tasks, faults>>

-----------------------------------------------------------------------------
Init ==
  /\ server \in {"none", "old", "new"} /\ up = (server # "none") /\ repo = FALSE
  /\ data = [d \in Db |-> "none"] /\ aside = {} /\ dumped = {}
  /\ ro = FALSE /\ cnf = NoSettings /\ repl = "none" /\ seeding = {}
  /\ task = None /\ tasks = 0 /\ faults = 0

Next ==
  \/ Prepare \/ Setup \/ Repoint \/ Rebuild \/ Promote
  \/ Unanswered \/ Planned \/ Listed \/ Dump \/ Drop
  \/ AddRepo \/ Replace \/ Install \/ Keep \/ Settings \/ Primary \/ Accounts
  \/ Reset \/ Note \/ (\E d \in Db : Copies(d)) \/ CopyEnds \/ Start \/ Ends
  \/ Drained \/ Writable \/ Promoted \/ (\E on \in BOOLEAN : ReadOnly(on))
  \/ Cancelled \/ Restarts \/ (\E d \in Db : Written(d))

Spec == Init /\ [][Next]_vars

-----------------------------------------------------------------------------
TypeOK ==
  /\ server \in {"none", "old", "new"} /\ {repo, up, ro} \subseteq BOOLEAN
  /\ data \in [Db -> {"none", "own", "partial", "copy"}]
  /\ repl \in {"none", "stopped", "on"} /\ aside \subseteq Db /\ seeding \subseteq Theirs
  /\ cnf \in [repl : BOOLEAN, ro : BOOLEAN]

\* A database of the server's own never disappears without a copy of it being
\* kept, in a safety dump or in the old data directory; only a plain setup, which
\* an admin ordered for a server that is new enough, may put the primary's
\* database in the place of one of the same name; and at a switchover the new
\* primary has all that is here.
OwnDataIsKeptStep ==
  \A d \in Db : data[d] = "own" /\ data'[d] # "own" =>
    \/ <<d, "own">> \in dumped' \/ d \in aside'
    \/ d \in Theirs /\ At("copy") /\ d \in task.dbs
    \/ task = None /\ task' # None /\ task'.kind = "repoint"
OwnDataIsKept == [][OwnDataIsKeptStep]_vars

\* Whoever cancels, fails or restarts in the middle of a copy: where replication
\* runs, no writes of others are taken and the primary's databases are whole, or,
\* after a rebuild was cut off, gone to the safety dump; never half copied.
ReplicaIsWhole ==
  repl = "on" =>
    /\ up => ro
    /\ \A d \in Theirs : data[d] = "copy" \/ (data[d] = "none" /\ <<d, "copy">> \in dumped)
=============================================================================
