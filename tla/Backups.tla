------------------------------ MODULE Backups ------------------------------
(***************************************************************************)
(* The backups of one website database (panel/lib/backups.mjs): backing up, *)
(* the off-site copy, retention, removal, fetching, restoring behind a      *)
(* safety backup, and the schedule.  Records are in the replicated store;    *)
(* files and schedule-state.json are on the disk of the panel server that    *)
(* wrote them.                                                              *)
(***************************************************************************)
EXTENDS Integers, FiniteSetsExt

CONSTANTS
  Node, None,
  Keep,         \* database.keep
  KeepFailed,   \* 5 failed attempts are kept as a trail
  MaxBackups, MaxSlot, MaxWrites, MaxFaults, MaxOrders  \* bounds for TLC

VARIABLES
  data,     \* what the database holds: a version, or Empty
  holds,    \* of each archive: the version in it
  recs,     \* the records: [status, pinned, remote], or None
  made,     \* records made so far; a record is named by its age
  disk,     \* of each panel server: the archives on its disk
  share,    \* the archives on the SMB share
  busy,     \* the key db:<id> of `active`
  job,      \* the job that backs up or restores, or None
  importing,  \* another job has the lock database:<id> of the job queue
  leaving,  \* removals that wait for the share
  fetching, \* downloads an administrator asked for
  lead,     \* the server with the active panel, or None
  slot,     \* the latest scheduled instant
  lastSlot, \* of each server: state.database.lastSlot
  ticking,  \* `running` of the scheduler
  fired,    \* history: how often each server ran each slot
  whole,    \* history: the backups that were complete once
  byAdmin,  \* history: those an administrator removed
  faults, orders  \* counters

archives == <<holds, recs, made, disk, share>>
work == <<busy, job, importing, leaving, fetching>>
clock == <<slot, lastSlot, ticking, fired>>
history == <<whole, byAdmin>>
counters == <<faults, orders>>
vars == <<data, archives, work, lead, clock, history, counters>>

Backup == 1..MaxBackups
Empty == 0
Ok(i) == recs[i] # None /\ recs[i].status = "ok"
Here == disk[lead]
CanFetch(i) == Ok(i) /\ recs[i].remote
Order == orders < MaxOrders /\ orders' = orders + 1 /\ UNCHANGED faults

\* finally: the key is released, and what waited for the job goes on (waitJob).
Ends == job' = None /\ busy' = FALSE /\ ticking' = (ticking /\ ~job.scheduled)

-----------------------------------------------------------------------------
(* Asking for a backup or a restore.                                        *)

\* lock, jobs.start; `from` is the archive to restore, or None.
NewJob(from, scheduled) ==
  [at |-> "queued", from |-> from, scheduled |-> scheduled, cancelled |-> FALSE,
   rec |-> None, victims |-> {}, awaits |-> None, saw |-> None]
StartJob(from, scheduled) == ~busy /\ busy' = TRUE /\ job' = NewJob(from, scheduled)

\* POST backups, POST restore.
Ask(from) ==
  /\ lead # None /\ Order
  /\ from # None => Ok(from)
  /\ StartJob(from, FALSE)
  /\ UNCHANGED <<data, archives, importing, leaving, fetching, lead, clock, history>>

\* Behind an import the job waits; cancelled there, its function never runs, and neither
\* backupDatabase nor restoreDatabase passes an onDropped.
Drop ==
  /\ job # None /\ job.at = "queued" /\ Order
  /\ job' = None /\ ticking' = (ticking /\ ~job.scheduled)
  /\ UNCHANGED <<data, archives, busy, importing, leaving, fetching, lead, slot, lastSlot, fired, history>>

Cancel ==
  /\ job # None /\ job.at # "queued" /\ ~job.cancelled /\ Order
  /\ job' = [job EXCEPT !.cancelled = TRUE]
  /\ UNCHANGED <<data, archives, busy, importing, leaving, fetching, lead, clock, history>>

Import ==
  /\ lead # None /\ job # None => job.at = "queued"
  /\ importing \/ Order
  /\ importing => UNCHANGED counters
  /\ importing' = ~importing
  /\ UNCHANGED <<data, archives, busy, job, leaving, fetching, lead, clock, history>>

-----------------------------------------------------------------------------
(* runDatabaseBackup.                                                       *)

\* The new record, and the dump begins; a restore remembers nothing but its archive.
Dumps ==
  /\ made < MaxBackups /\ made' = made + 1
  /\ recs' = [recs EXCEPT ![made'] = [status |-> "running", pinned |-> FALSE, remote |-> FALSE]]
  /\ job' = [job EXCEPT !.at = "dump", !.rec = made', !.saw = data]

Begin ==
  /\ job # None /\ job.at = "queued" /\ ~importing
  /\ IF job.from = None THEN Dumps
     ELSE job' = [job EXCEPT !.at = "verify"] /\ UNCHANGED <<recs, made>>
  /\ UNCHANGED <<data, holds, disk, share, busy, importing, leaving, fetching, lead, clock, history, counters>>

\* mysqldump ends, finalize: the record is ok.
DumpDone ==
  /\ job # None /\ job.at = "dump" /\ ~job.cancelled
  /\ holds' = [holds EXCEPT ![job.rec] = data]
  /\ disk' = [disk EXCEPT ![lead] = @ \cup {job.rec}]
  /\ recs' = [recs EXCEPT ![job.rec].status = "ok"]
  /\ whole' = whole \cup {job.rec}
  /\ job' = [job EXCEPT !.at = "upload"]
  /\ UNCHANGED <<data, made, share, busy, importing, leaving, fetching, lead, clock, byAdmin, counters>>

\* mutant: a restore goes on without its safety backup
DumpFailsAndGoesOn ==
  /\ job # None /\ job.at = "dump"
  /\ recs' = [recs EXCEPT ![job.rec].status = "failed"]
  /\ IF job.from = None THEN Ends ELSE job' = [job EXCEPT !.at = "swap"] /\ UNCHANGED <<busy, ticking>>
  /\ UNCHANGED <<data, holds, made, disk, share, importing, leaving, fetching, lead, slot, lastSlot, fired, history, counters>>

\* mysqldump fails or is stopped: failRecord, and the job ends.
DumpFails ==
  /\ job # None /\ job.at = "dump"
  /\ recs' = [recs EXCEPT ![job.rec].status = "failed"]
  /\ Ends
  /\ UNCHANGED <<data, holds, made, disk, share, importing, leaving, fetching, lead, slot, lastSlot, fired, history, counters>>

-----------------------------------------------------------------------------
(* finalize: the off-site copy, then retention.                             *)

Oldest(s, spared) == {i \in s : Cardinality({k \in s : k > i}) >= spared}

\* mutant: failed attempts take the places of good backups
VictimsOfAll == {i \in Oldest({k \in Backup : recs[k] # None /\ ~recs[k].pinned}, Keep) : Ok(i)}

\* retentionVictims: beyond the newest `keep` that are ok and not pinned.
Victims == IF Keep = 0 THEN {} ELSE Oldest({i \in Backup : Ok(i) /\ ~recs[i].pinned}, Keep)

\* The copy arrives, whether or not the record is still there, or the upload fails.  Without
\* its record the job goes on to retention, and fails after it.
Upload ==
  /\ job # None /\ job.at = "upload"
  /\ \/ /\ job.rec \in Here
        /\ share' = share \cup {job.rec}
        /\ recs' = [recs EXCEPT ![job.rec] = IF @ = None THEN None ELSE [@ EXCEPT !.remote = TRUE]]
     \/ UNCHANGED <<share, recs>>
  /\ job' = [job EXCEPT !.at = "retain", !.victims = Victims, !.cancelled = @ \/ recs[job.rec] = None]
  /\ UNCHANGED <<data, holds, made, disk, busy, importing, leaving, fetching, lead, clock, history, counters>>

\* removeBackup: the file, the off-site copy, and the record when that has answered.
Remove(i) ==
  /\ disk' = [disk EXCEPT ![lead] = @ \ {i}]
  /\ IF recs[i].remote THEN leaving' = leaving \cup {i} /\ UNCHANGED recs
     ELSE recs' = [recs EXCEPT ![i] = None] /\ UNCHANGED leaving

Removed(i) ==
  /\ i \in leaving
  /\ leaving' = leaving \ {i}
  /\ share' \in {share, share \ {i}}
  /\ recs' = [recs EXCEPT ![i] = None]
  /\ UNCHANGED <<data, holds, made, disk, busy, job, importing, fetching, lead, clock, history, counters>>

\* The loop of applyRetention, one removal after the other.
Retain ==
  /\ job # None /\ job.at = "retain" /\ job.awaits \notin leaving /\ job.victims # {}
  /\ LET v == Max(job.victims)
     IN  /\ job' = [job EXCEPT !.victims = @ \ {v}, !.awaits = v]
         /\ IF recs[v] = None THEN UNCHANGED <<disk, leaving, recs>> ELSE Remove(v)
  /\ UNCHANGED <<data, holds, made, share, busy, importing, fetching, lead, clock, history, counters>>

\* The oldest failed attempts go too.  A backup is done, and a cancelled restore ends here.
Retained ==
  /\ job # None /\ job.at = "retain" /\ job.awaits \notin leaving /\ job.victims = {}
  /\ LET trail == Oldest({i \in Backup : recs[i] # None /\ recs[i].status = "failed"}, KeepFailed)
     IN  recs' = [i \in Backup |-> IF i \in trail THEN None ELSE recs[i]]
  /\ IF job.from = None \/ job.cancelled THEN Ends
     ELSE job' = [job EXCEPT !.at = "swap"] /\ UNCHANGED <<busy, ticking>>
  /\ UNCHANGED <<data, holds, made, disk, share, importing, leaving, fetching, lead, slot, lastSlot, fired, history, counters>>

-----------------------------------------------------------------------------
(* restoreDatabase, verifyFile and fetchRemote.                             *)

\* The archive is there and its checksum is right; or it is downloaded first.
Verify ==
  /\ job # None /\ job.at = "verify" /\ job.from \in Here
  /\ Dumps
  /\ UNCHANGED <<data, holds, disk, share, busy, importing, leaving, fetching, lead, clock, history, counters>>

Arrives(i) == i \in share /\ disk' = [disk EXCEPT ![lead] = @ \cup {i}]

VerifyFetches ==
  /\ job # None /\ job.at = "verify" /\ job.from \notin Here
  /\ CanFetch(job.from) /\ job.from \notin fetching
  /\ Arrives(job.from)
  /\ UNCHANGED <<data, holds, recs, made, share, work, lead, clock, history, counters>>

VerifyFails ==
  /\ job # None /\ job.at = "verify" /\ (job.from \notin Here \/ job.cancelled)
  /\ Ends
  /\ UNCHANGED <<data, archives, importing, leaving, fetching, lead, slot, lastSlot, fired, history, counters>>

\* recreate: DROP DATABASE, CREATE DATABASE.
Recreate ==
  /\ job # None /\ job.at = "swap"
  /\ data' = Empty
  /\ job' = [job EXCEPT !.at = "load"]
  /\ UNCHANGED <<archives, busy, importing, leaving, fetching, lead, clock, history, counters>>

\* mysql.restore reads the archive, if it is (still) there.
Load ==
  /\ job # None /\ job.at = "load"
  /\ data' \in IF job.from \in Here /\ ~job.cancelled THEN {holds[job.from]} ELSE {Empty}
  /\ Ends
  /\ UNCHANGED <<archives, importing, leaving, fetching, lead, slot, lastSlot, fired, history, counters>>

-----------------------------------------------------------------------------
(* Other requests on the records, and what the website writes.              *)

Pin(i) ==
  /\ lead # None /\ recs[i] # None /\ Order
  /\ recs' = [recs EXCEPT ![i].pinned = ~@]
  /\ UNCHANGED <<data, holds, made, disk, share, work, lead, clock, history>>

Delete(i) ==
  /\ lead # None /\ recs[i] # None /\ recs[i].status # "running" /\ Order
  /\ Remove(i)
  /\ byAdmin' = byAdmin \cup {i}
  /\ UNCHANGED <<data, holds, made, share, busy, job, importing, fetching, lead, clock, whole>>

Fetch(i) ==
  /\ lead # None /\ CanFetch(i) /\ i \notin Here \cup fetching /\ Order
  /\ fetching' = fetching \cup {i}
  /\ UNCHANGED <<data, archives, busy, job, importing, leaving, lead, clock, history>>

Fetched(i) ==
  /\ i \in fetching
  /\ fetching' = fetching \ {i}
  /\ Arrives(i) \/ UNCHANGED disk
  /\ UNCHANGED <<data, holds, recs, made, share, busy, job, importing, leaving, lead, clock, history, counters>>

Write ==
  /\ data # Empty /\ data < MaxWrites
  /\ data' = data + 1
  /\ UNCHANGED <<archives, work, lead, clock, history, counters>>

-----------------------------------------------------------------------------
(* The schedule.                                                            *)

SlotPasses ==
  /\ slot < MaxSlot
  /\ slot' = slot + 1
  /\ UNCHANGED <<data, archives, work, lead, lastSlot, ticking, fired, history, counters>>

\* dueCheck: the first tick only takes note of the slot.
Due == lastSlot[lead] # None /\ slot > lastSlot[lead]

\* mutant: the slot is written down when its backup is complete
NotesWhenDone ==
  /\ fired' = [fired EXCEPT ![lead][slot] = @ + 1]
  /\ IF busy THEN lastSlot' = [lastSlot EXCEPT ![lead] = slot] ELSE UNCHANGED lastSlot

\* The slot is written down, and runKind asks for the backup at once.
NotesSlot ==
  /\ fired' = [fired EXCEPT ![lead][slot] = @ + 1]
  /\ lastSlot' = [lastSlot EXCEPT ![lead] = slot]

Tick ==
  /\ lead # None
  /\ \/ /\ lastSlot[lead] = None
        /\ lastSlot' = [lastSlot EXCEPT ![lead] = slot]
        /\ UNCHANGED <<busy, job, ticking, fired>>
     \/ /\ Due /\ ~ticking
        /\ NotesSlot
        /\ IF busy THEN UNCHANGED <<busy, job, ticking>>  \* 409: skipped
           ELSE StartJob(None, TRUE) /\ ticking' = TRUE
  /\ UNCHANGED <<data, archives, importing, leaving, fetching, lead, slot, history, counters>>

-----------------------------------------------------------------------------
(* The panel stops, and starts on this or another server.                   *)

Crash ==
  /\ lead # None /\ faults < MaxFaults
  /\ faults' = faults + 1
  /\ lead' = None
  /\ job' = None /\ busy' = FALSE /\ importing' = FALSE /\ leaving' = {} /\ fetching' = {} /\ ticking' = FALSE
  /\ UNCHANGED <<data, archives, slot, lastSlot, fired, history, orders>>

\* mutant: interrupted backups stay as they were
LeavesRunning == recs

\* start: what was running is "Interrupted by a panel restart".
Interrupted == [i \in Backup |-> IF recs[i] # None /\ recs[i].status = "running"
                                 THEN [recs[i] EXCEPT !.status = "failed"] ELSE recs[i]]

Boot(n) ==
  /\ lead = None
  /\ lead' = n
  /\ recs' = Interrupted
  /\ UNCHANGED <<data, holds, made, disk, share, work, clock, history, counters>>

Init ==
  /\ data = 1 /\ holds = [i \in Backup |-> Empty]
  /\ recs = [i \in Backup |-> None] /\ made = 0
  /\ disk = [n \in Node |-> {}] /\ share = {}
  /\ busy = FALSE /\ job = None /\ importing = FALSE /\ leaving = {} /\ fetching = {}
  /\ lead \in Node
  /\ slot = 0 /\ lastSlot = [n \in Node |-> None] /\ ticking = FALSE
  /\ fired = [n \in Node |-> [s \in 0..MaxSlot |-> 0]]
  /\ whole = {} /\ byAdmin = {}
  /\ faults = 0 /\ orders = 0

\* What goes on by itself once it was begun.
Goes == Begin \/ DumpDone \/ DumpFails \/ Upload \/ Retain \/ Retained
        \/ Verify \/ VerifyFetches \/ VerifyFails \/ Recreate \/ Load
Admin == Drop \/ Cancel \/ Import \/ (\E i \in Backup \cup {None} : Ask(i))
         \/ \E i \in Backup : Pin(i) \/ Delete(i) \/ Fetch(i)
Next == Goes \/ Admin \/ Write \/ SlotPasses \/ Tick \/ Crash
        \/ (\E i \in Backup : Removed(i) \/ Fetched(i)) \/ (\E n \in Node : Boot(n))

\* Commands and transfers end (they have time limits), and a panel is started again.
Fairness == WF_vars(Goes) /\ (\A i \in Backup : WF_vars(Removed(i))) /\ WF_vars(\E n \in Node : Boot(n))
Spec == Init /\ [][Next]_vars /\ Fairness

-----------------------------------------------------------------------------

\* A restore never drops the database before a complete backup of it exists, made since
\* the restore began, on this server's disk (unless an administrator removed that one).
SafetyFirstStep ==
  data # Empty /\ data' = Empty =>
    \/ job.rec \in byAdmin
    \/ Ok(job.rec) /\ job.rec \in Here /\ holds[job.rec] >= job.saw
SafetyFirst == [][SafetyFirstStep]_vars

\* "Record the slot before starting, so a crash/restart can't run it twice"
\* (backups.mjs, tick): no server runs one slot of the schedule twice.
SlotRunsOnce == \A n \in Node : \A s \in 0..MaxSlot : fired[n][s] <= 1

\* Retention removes a backup only when `keep` newer ones were complete, whatever failed
\* or was pinned in between.
NewestAreKeptStep ==
  \A i \in Backup :
    job # None /\ job.at = "retain" /\ i \in job.victims /\ job' # None /\ i \notin job'.victims
      => Cardinality({k \in whole : k > i}) >= Keep
NewestAreKept == [][NewestAreKeptStep]_vars

\* No record says "running" for ever, whatever stops the job or the panel: until it does
\* not, it can be neither removed nor restored.
SaysRunning(i) == recs[i] # None /\ recs[i].status = "running"
EveryRunEnds == \A i \in Backup : SaysRunning(i) ~> ~SaysRunning(i)

\* "checksum check -> safety backup -> drop/recreate schema -> load" (docs/STANDALONE.md:591):
\* the archive that was checked is there when the schema is dropped.
RestoreFindsItsFile ==
  [][data # Empty /\ data' = Empty /\ byAdmin = {} => job.from \in Here]_vars

\* A key of `active` is held by a job that runs or waits ("A backup or restore of ... is
\* already running").
LockMeansJob == busy => job # None
=============================================================================
