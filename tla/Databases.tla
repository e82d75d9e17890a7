----------------------------- MODULE Databases ------------------------------
(***************************************************************************)
(* Databases for the websites (panel/lib/mysql.mjs): requests of the admins   *)
(* against one MySQL server, the records the panel keeps of them, the account *)
(* hosts that follow the servers, and the websites' database settings.  Every *)
(* script for MySQL is awaited, so requests interleave between its steps.     *)
(***************************************************************************)
EXTENDS Naturals, FiniteSets

CONSTANTS
  Req,         \* requests at a time
  Name,        \* database names; a database's user has its name
  Foreign,     \* names of databases that were in MySQL before the panel
  Site, Server,
  None,
  MaxIds, MaxPasswords, MaxChanges, MaxFaults  \* bounds for TLC

VARIABLES
  schema,      \* MySQL: the databases that exist
  acct,        \* MySQL: the password of user n at a host, 0: no such account
  recs,        \* db.json databases, by id: [name, remote, pw] or None
  linked,      \* db.json sites: the database a website is linked to, or None
  env,         \* what the website runs with: [id, pw, host], None: no database
  failed,      \* websites whose last env job failed
  job,         \* env jobs: [waiting, has], has: the env the job is writing
  op,          \* the requests at work
  sync,        \* syncRemoteHosts: [timer, todo, plan]
  servers,     \* the cluster's servers
  via, bind,   \* mainSitesVia, and what MySQL listens on
  ids, passwords, changes, faults

mysql == <<schema, acct>>
sites == <<linked, env, failed, job>>
address == <<servers, via, bind>>
bounds == <<ids, passwords, changes, faults>>
vars == <<mysql, recs, sites, op, sync, address, bounds>>

Local == "localhost"
Main == "main"   \* this server's own address, where websites on it come from
Host == {Local, Main} \cup Server
Ids == 1..MaxIds
Idle == [at |-> "idle"]
Step(r, at) == op' = [op EXCEPT ![r].at = at]
End(r) == op' = [op EXCEPT ![r] = Idle]
Change == changes < MaxChanges /\ changes' = changes + 1

\* desiredHosts
Desired(remote) == {Local} \cup (IF via = "panel" THEN {Main} ELSE {}) \cup (IF remote THEN servers ELSE {})
Accounts(n) == {h \in Host : acct[n][h] # 0}
Granted(n, hosts, pw) == [acct EXCEPT ![n] = [h \in Host |-> IF h \in hosts /\ @[h] = 0 THEN pw ELSE @[h]]]
Dropped(n, hosts) == [acct EXCEPT ![n] = [h \in Host |-> IF h \in hosts THEN 0 ELSE @[h]]]

\* mainSitesHost
SiteHost == IF via = "panel" /\ bind = "network" THEN Main ELSE Local
EnvOf(s) == IF linked[s] = None THEN None
            ELSE [id |-> linked[s], pw |-> recs[linked[s]].pw, host |-> SiteHost]
\* linkedSites and pushEnv: one job per website, run one after the other.
LinkedTo(id) == {s \in Site : linked[s] = id}
Push(which) == job' = [s \in Site |-> IF s \in which THEN [job[s] EXCEPT !.waiting = TRUE] ELSE job[s]]

-----------------------------------------------------------------------------
(* POST /api/projects/:projectId/databases: createDatabase.                  *)

CreateStart(r, n, remote) ==
  /\ op[r] = Idle /\ Change /\ ids < MaxIds /\ passwords < MaxPasswords
  /\ ~\E id \in Ids : recs[id] # None /\ recs[id].name = n
  /\ ids' = ids + 1 /\ passwords' = passwords + 1
  /\ op' = [op EXCEPT ![r] = [at |-> "count", name |-> n, remote |-> remote, id |-> ids + 1,
                              pw |-> passwords + 1, hosts |-> {}]]
  /\ UNCHANGED <<mysql, recs, sites, sync, address, faults>>
\* mutant: only the panel's own records are asked
Overlooked(n) == FALSE
Taken(n) == n \in schema \/ Accounts(n) # {}
CreateCounts(r) ==
  /\ op[r].at = "count"
  /\ IF Taken(op[r].name) THEN End(r) ELSE Step(r, "hosts")
  /\ UNCHANGED <<mysql, recs, sites, sync, address, bounds>>
CreateHosts(r) ==
  /\ op[r].at = "hosts"
  /\ op' = [op EXCEPT ![r].hosts = Desired(op[r].remote), ![r].at = "script"]
  /\ UNCHANGED <<mysql, recs, sites, sync, address, bounds>>
CreateRuns(r) ==
  /\ op[r].at = "script" /\ op[r].name \notin schema
  /\ schema' = schema \cup {op[r].name}
  /\ \/ acct' = Granted(op[r].name, op[r].hosts, op[r].pw) /\ Step(r, "made") /\ UNCHANGED faults
     \/ /\ faults < MaxFaults /\ faults' = faults + 1
        /\ \E some \in SUBSET op[r].hosts : acct' = Granted(op[r].name, some, op[r].pw)
        /\ Step(r, "undo")
  /\ UNCHANGED <<recs, sites, sync, address, ids, passwords, changes>>
CreateRefused(r) ==
  /\ op[r].at = "script" /\ op[r].name \in schema
  /\ Step(r, "undo")
  /\ UNCHANGED <<mysql, recs, sites, sync, address, bounds>>
\* "We checked neither existed, so everything named here is ours to undo."
Undo(r) ==
  /\ op[r].at = "undo"
  /\ \/ /\ acct' = Dropped(op[r].name, op[r].hosts)
        /\ schema' = schema \ {op[r].name}
        /\ UNCHANGED faults
     \/ faults < MaxFaults /\ faults' = faults + 1 /\ UNCHANGED mysql
  /\ End(r)
  /\ UNCHANGED <<recs, sites, sync, address, ids, passwords, changes>>
Insert(r) ==
  /\ op[r].at = "made"
  /\ recs' = [recs EXCEPT ![op[r].id] = [name |-> op[r].name, remote |-> op[r].remote, pw |-> op[r].pw]]
  /\ End(r)
  /\ UNCHANGED <<mysql, sites, sync, address, bounds>>

(* POST /api/databases/:id/password: rotatePassword.                         *)
RotateStart(r, id) ==
  /\ op[r] = Idle /\ recs[id] # None /\ Change /\ passwords < MaxPasswords
  /\ passwords' = passwords + 1
  /\ op' = [op EXCEPT ![r] = [at |-> "accounts", name |-> recs[id].name, id |-> id,
                              pw |-> passwords + 1, hosts |-> {}, told |-> LinkedTo(id)]]
  /\ UNCHANGED <<mysql, recs, sites, sync, address, ids, faults>>
RotateReads(r) ==
  /\ op[r].at = "accounts"
  /\ op' = [op EXCEPT ![r].hosts = Accounts(op[r].name), ![r].at = "alter"]
  /\ UNCHANGED <<mysql, recs, sites, sync, address, bounds>>
\* ALTER USER by host; it stops at an account that is gone.
Alter(r) ==
  /\ op[r].at = "alter"
  /\ LET n == op[r].name  gone == op[r].hosts \ Accounts(n)  IN
     \E done \in SUBSET op[r].hosts :
       /\ done \cap gone = {}
       /\ gone = {} => done = op[r].hosts
       /\ acct' = [acct EXCEPT ![n] = [h \in Host |-> IF h \in done THEN op[r].pw ELSE @[h]]]
       /\ IF gone = {} THEN Step(r, "altered") ELSE End(r)
  /\ UNCHANGED <<schema, recs, sites, sync, address, bounds>>
\* mutant: the websites that were linked when the request came
ToldThen(r) == op[r].told
Told(r) == LinkedTo(op[r].id)
Altered(r) ==
  /\ op[r].at = "altered"
  /\ recs' = [recs EXCEPT ![op[r].id] = IF @ = None THEN None ELSE [@ EXCEPT !.pw = op[r].pw]]
  /\ Push(Told(r))
  /\ End(r)
  /\ UNCHANGED <<mysql, linked, env, failed, sync, address, bounds>>

(* DELETE /api/databases/:id: dropDatabase, then unlinkDatabase.             *)
DropStart(r, id, force) ==
  /\ op[r] = Idle /\ recs[id] # None /\ Change
  /\ force \/ LinkedTo(id) = {}
  /\ op' = [op EXCEPT ![r] = [at |-> "users", name |-> recs[id].name, id |-> id, hosts |-> {}]]
  /\ UNCHANGED <<mysql, recs, sites, sync, address, ids, passwords, faults>>
DropReads(r) ==
  /\ op[r].at = "users"
  /\ op' = [op EXCEPT ![r].hosts = Accounts(op[r].name), ![r].at = "drop"]
  /\ UNCHANGED <<mysql, recs, sites, sync, address, bounds>>
DropRuns(r) ==
  /\ op[r].at = "drop"
  /\ acct' = Dropped(op[r].name, op[r].hosts)
  /\ schema' = schema \ {op[r].name}
  /\ Step(r, "dropped")
  /\ UNCHANGED <<recs, sites, sync, address, bounds>>
DropEnds(r) ==
  /\ op[r].at = "dropped"
  /\ recs' = [recs EXCEPT ![op[r].id] = None]
  /\ linked' = [s \in Site |-> IF linked[s] = op[r].id THEN None ELSE linked[s]]
  /\ End(r)
  /\ UNCHANGED <<mysql, env, failed, job, sync, address, bounds>>

\* PATCH /api/databases/:id: setRemoteAccess.
SetRemote(id) ==
  /\ recs[id] # None /\ Change
  /\ recs' = [recs EXCEPT ![id].remote = ~@]
  /\ sync' = [sync EXCEPT !.timer = TRUE]
  /\ UNCHANGED <<mysql, sites, op, address, ids, passwords, faults>>

-----------------------------------------------------------------------------
(* syncRemoteHosts: the accounts follow the servers, one record at a time;   *)
(* runs are chained, and asked for 2 s after the servers changed.            *)

SyncStart ==
  /\ sync.timer /\ sync.todo = {} /\ sync.plan = None
  /\ sync' = [timer |-> FALSE, todo |-> {id \in Ids : recs[id] # None}, plan |-> None]
  /\ UNCHANGED <<mysql, recs, sites, op, address, bounds>>
\* recs[id] may be gone by now: the run goes on with the record it listed.
SyncReads(id) ==
  /\ id \in sync.todo /\ sync.plan = None
  /\ sync' = [sync EXCEPT !.todo = @ \ {id},
                !.plan = IF recs[id] = None THEN None
                         ELSE LET n == recs[id].name  want == Desired(recs[id].remote) IN
                              [name |-> n, pw |-> recs[id].pw, add |-> want \ Accounts(n), drop |-> Accounts(n) \ want]]
  /\ UNCHANGED <<mysql, recs, sites, op, address, bounds>>
SyncWrites ==
  /\ sync.plan # None
  /\ \/ acct' = [acct EXCEPT ![sync.plan.name] =
                   [h \in Host |-> IF h \in sync.plan.drop THEN 0
                                   ELSE IF h \in sync.plan.add /\ @[h] = 0 THEN sync.plan.pw ELSE @[h]]]
        /\ UNCHANGED faults
     \/ faults < MaxFaults /\ faults' = faults + 1 /\ UNCHANGED acct
  /\ sync' = [sync EXCEPT !.plan = None]
  /\ UNCHANGED <<schema, recs, sites, op, address, ids, passwords, changes>>
ServersChange(w) ==
  /\ Change
  /\ servers' = IF w \in servers THEN servers \ {w} ELSE servers \cup {w}
  /\ sync' = [sync EXCEPT !.timer = TRUE]
  /\ UNCHANGED <<mysql, recs, sites, op, via, bind, ids, passwords, faults>>

-----------------------------------------------------------------------------
(* The address websites get: PUT /api/mysql/settings and POST /api/mysql/bind *)
(* take a snapshot of it, change it, wait for the accounts, and push the     *)
(* environment of the websites whose address is another one now.             *)

SetVia(r) ==
  /\ op[r] = Idle /\ Change
  /\ via' = IF via = "panel" THEN "localhost" ELSE "panel"
  /\ sync' = [sync EXCEPT !.timer = TRUE]
  /\ op' = [op EXCEPT ![r] = [at |-> "synced", name |-> None, before |-> SiteHost]]
  /\ UNCHANGED <<mysql, recs, sites, servers, bind, ids, passwords, faults>>
\* The bind job has the lock "mysql.server".
BindStart(r) ==
  /\ op[r] = Idle /\ Change
  /\ ~\E q \in Req : op[q].at = "restart"
  /\ op' = [op EXCEPT ![r] = [at |-> "restart", name |-> None, before |-> SiteHost]]
  /\ UNCHANGED <<mysql, recs, sites, sync, address, ids, passwords, faults>>
\* Another listen address and a restart of MySQL, or the previous file put back.
Rebind(r) ==
  /\ op[r].at = "restart"
  /\ \/ /\ bind' = IF bind = "network" THEN "local" ELSE "network"
        /\ sync' = [sync EXCEPT !.timer = TRUE]
        /\ Step(r, "synced") /\ UNCHANGED faults
     \/ /\ faults < MaxFaults /\ faults' = faults + 1
        /\ End(r) /\ UNCHANGED <<bind, sync>>
  /\ UNCHANGED <<mysql, recs, sites, servers, via, ids, passwords, changes>>
\* changedSites and pushEnvTo
Moved(r) ==
  /\ op[r].at = "synced" /\ ~sync.timer /\ sync.todo = {} /\ sync.plan = None
  /\ Push(IF op[r].before = SiteHost THEN {} ELSE {s \in Site : linked[s] # None})
  /\ End(r)
  /\ UNCHANGED <<mysql, recs, linked, env, failed, sync, address, bounds>>

-----------------------------------------------------------------------------
(* Websites: links, and the jobs that write their environment.               *)

Settled(s) == ~job[s].waiting /\ job[s].has = None
\* PATCH /api/sites/:id with linkedDatabaseIds, of an idle website
Link(s, id) ==
  /\ Change /\ Settled(s)
  /\ id # None => recs[id] # None
  /\ linked[s] # id
  /\ linked' = [linked EXCEPT ![s] = id]
  /\ Push({s})
  /\ UNCHANGED <<mysql, recs, env, failed, op, sync, address, ids, passwords, faults>>
\* startEnvJob: the task carries the environment as it is when the job gets to the server.
EnvRead(s) ==
  /\ job[s].waiting /\ job[s].has = None
  /\ job' = [job EXCEPT ![s] = [waiting |-> FALSE, has |-> [is |-> EnvOf(s)]]]
  /\ UNCHANGED <<mysql, recs, linked, env, failed, op, sync, address, bounds>>
EnvWritten(s) ==
  /\ job[s].has # None
  /\ \/ /\ env' = [env EXCEPT ![s] = job[s].has.is]
        /\ failed' = failed \ {s} /\ UNCHANGED faults
     \/ /\ faults < MaxFaults /\ faults' = faults + 1
        /\ failed' = failed \cup {s} /\ UNCHANGED env
  /\ job' = [job EXCEPT ![s].has = None]
  /\ UNCHANGED <<mysql, recs, linked, op, sync, address, ids, passwords, changes>>

\* The panel restarts: requests are gone, jobs end as failed, a sync comes after 15 s.
Restart ==
  /\ faults < MaxFaults /\ faults' = faults + 1
  /\ op' = [r \in Req |-> Idle]
  /\ sync' = [timer |-> TRUE, todo |-> {}, plan |-> None]
  /\ failed' = failed \cup {s \in Site : ~Settled(s)}
  /\ job' = [s \in Site |-> [waiting |-> FALSE, has |-> None]]
  /\ UNCHANGED <<mysql, recs, linked, env, address, ids, passwords, changes>>

-----------------------------------------------------------------------------
Init ==
  /\ schema = Foreign
  /\ acct = [n \in Name |-> [h \in Host |-> 0]]
  /\ recs = [id \in Ids |-> None]
  /\ linked = [s \in Site |-> None] /\ env = linked /\ failed = {}
  /\ job = [s \in Site |-> [waiting |-> FALSE, has |-> None]]
  /\ op = [r \in Req |-> Idle]
  /\ sync = [timer |-> FALSE, todo |-> {}, plan |-> None]
  /\ servers = {} /\ via = "panel" /\ bind = "network"
  /\ ids = 0 /\ passwords = 0 /\ changes = 0 /\ faults = 0

Request(r) ==
  \/ \E n \in Name, remote \in BOOLEAN : CreateStart(r, n, remote)
  \/ CreateCounts(r) \/ CreateHosts(r) \/ CreateRuns(r) \/ CreateRefused(r) \/ Undo(r) \/ Insert(r)
  \/ \E id \in Ids : RotateStart(r, id) \/ (\E force \in BOOLEAN : DropStart(r, id, force))
  \/ RotateReads(r) \/ Alter(r) \/ Altered(r)
  \/ DropReads(r) \/ DropRuns(r) \/ DropEnds(r)
  \/ SetVia(r) \/ BindStart(r) \/ Rebind(r) \/ Moved(r)
Next ==
  \/ \E r \in Req : Request(r)
  \/ \E id \in Ids : SetRemote(id) \/ SyncReads(id)
  \/ SyncStart \/ SyncWrites \/ Restart
  \/ \E w \in Server : ServersChange(w)
  \/ \E s \in Site : EnvRead(s) \/ EnvWritten(s) \/ (\E id \in Ids \cup {None} : Link(s, id))
Spec == Init /\ [][Next]_vars

-----------------------------------------------------------------------------
TypeOK ==
  /\ schema \subseteq Name /\ acct \in [Name -> [Host -> 0..MaxPasswords]]
  /\ linked \in [Site -> Ids \cup {None}] /\ failed \subseteq Site
  /\ servers \subseteq Server /\ via \in {"panel", "localhost"} /\ bind \in {"network", "local"}

\* A database that was in MySQL before the panel is never dropped by it, whatever
\* request fails and takes back what it did.
ForeignStays == Foreign \subseteq schema

\* A website that runs with another password than its database's record has an
\* env job on its way, or had one that failed: no rotation passes it by, whenever
\* it was linked.
PasswordComes ==
  \A s \in Site :
    \/ linked[s] = None \/ s \in failed \/ ~Settled(s)
    \/ env[s] # None /\ env[s].id = linked[s] /\ env[s].pw = recs[linked[s]].pw

\* "We checked neither existed, so everything named here is ours to undo"
\* (mysql.mjs): a database the panel has a record of is in MySQL, unless a
\* request to delete it is at work.
UndoTakesOnlyItsOwn ==
  \A id \in Ids :
    \/ recs[id] = None \/ recs[id].name \in schema
    \/ \E r \in Req : op[r].at \in {"drop", "dropped"} /\ op[r].id = id
=============================================================================
