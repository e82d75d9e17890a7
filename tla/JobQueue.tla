------------------------------ MODULE JobQueue ------------------------------
(***************************************************************************)
(* The background jobs of the active panel (panel/lib/jobs.mjs): the queue *)
(* of heavy jobs with its slots per server, the locks, jobs started inside *)
(* jobs, cancelling, and what a restart makes of the records.              *)
(*                                                                         *)
(* Every method of Jobs runs to its end at once, so each is one action.    *)
(* The function of a job runs on its own: it returns at some time, may     *)
(* start further jobs until then, and may ignore that it was cancelled.    *)
(***************************************************************************)
EXTENDS Integers, SequencesExt, FiniteSetsExt

CONSTANTS
  Job,           \* identities of jobs; one is used again once its record is pruned
  Server,        \* the servers heavy jobs load
  Lock,          \* the things jobs work on: site:..., database:...
  None,          \* no lock, no job
  Kinds,         \* the jobs that are started: a lock or None, and the servers of a heavy job
  MaxPerServer,  \* QUEUE_MAX_PER_SERVER
  SubKinds,      \* the jobs that a job with a given lock starts while it runs
  ParentsWait,   \* TRUE: the function of a job waits for the jobs it started
  Grace,         \* TRUE: functions may take longer than the grace period to stop
  Saving,        \* FALSE: db.json is never written, a bound for TLC
  MaxOrders      \* bound on what admins do to the queue, for TLC

KindsAreJobs == \* an assumption
  /\ None \notin Lock \cup Job
  /\ Kinds \subseteq [lock : Lock \cup {None}, servers : SUBSET Server]
  /\ SubKinds \in [Lock \cup {None} -> SUBSET [lock : Lock \cup {None}, servers : SUBSET Server]]
  /\ MaxPerServer \in Nat \ {0}
  /\ ParentsWait \in BOOLEAN /\ Grace \in BOOLEAN /\ Saving \in BOOLEAN

VARIABLES
  status,     \* record.status, or none
  job,        \* what was fixed when the job was started
  waiting,    \* this.waiting
  lockOwner,  \* this.lockOwner
  slots,      \* this.slots: the heavy jobs that hold slots
  forced,     \* those that were force-started
  aborted,    \* the jobs that were told to stop
  executing,  \* the jobs whose function has been called and has not returned
  limit,      \* config.queue.perServer
  saved,      \* the statuses in db.json, or in the copy a standby has of it
  called,     \* the jobs whose function was ever called (for the properties)
  orders      \* moves, forced starts and changes of the limit so far

queue == <<waiting, lockOwner, slots, forced>>
vars == <<status, job, queue, aborted, executing, limit, saved, called, orders>>

Statuses == {"none", "queued", "running", "ended", "cancelled", "failed", "dropped"}

\* What a job is: its lock and servers, whether it takes the lock and slots itself, what
\* is held around it, the heavy job under whose slots it runs, and who started it.
Records == [lock : Lock \cup {None}, servers : SUBSET Server, owner : BOOLEAN, claims : BOOLEAN,
            held : SUBSET Lock, root : Job \cup {None}, parent : Job \cup {None}]

Active == {j \in Job : status[j] \in {"queued", "running"}}
Running == {j \in Job : status[j] = "running"}

-----------------------------------------------------------------------------
(* Admission.                                                              *)

Used(claimed, rec, s) == Cardinality({j \in claimed : s \in rec[j].servers})

LockFree(acc, b) == ~b.owner \/ (acc.owner[b.lock] = None /\ b.lock \notin acc.locks)
SlotsFree(acc, rec, b, lim) ==
  ~b.claims \/ \A s \in b.servers : s \notin acc.servers /\ Used(acc.slots, rec, s) < lim

\* A job that may begin takes its lock and its slots.
Begun(acc, b, j) ==
  [acc EXCEPT !.owner = IF b.owner THEN [@ EXCEPT ![b.lock] = j] ELSE @,
              !.slots = IF b.claims THEN @ \cup {j} ELSE @]

\* Mutant: a job short of slots does not reserve its servers.
AdmitWithoutReserving(acc, rec, j, lim) ==
  LET b == rec[j]
  IN  IF LockFree(acc, b) /\ SlotsFree(acc, rec, b, lim) THEN Begun(acc, b, j)
      ELSE [acc EXCEPT !.left = Append(@, j),
                       !.locks = IF b.owner THEN @ \cup {b.lock} ELSE @]

\* Mutant: a job that stays does not reserve its lock.
AdmitWithoutLocking(acc, rec, j, lim) ==
  LET b == rec[j]
  IN  IF LockFree(acc, b) /\ SlotsFree(acc, rec, b, lim) THEN Begun(acc, b, j)
      ELSE [acc EXCEPT !.left = Append(@, j),
                       !.servers = IF b.claims /\ ~SlotsFree(acc, rec, b, lim)
                                   THEN @ \cup b.servers ELSE @]

\* Mutant: the slots are counted before the jobs that begin now.
AdmitByOldCount(acc, rec, j, lim) ==
  LET b == rec[j]
      free == ~b.claims \/ \A s \in b.servers :
                s \notin acc.servers /\ Used(slots, rec, s) < lim
  IN  IF LockFree(acc, b) /\ free THEN Begun(acc, b, j)
      ELSE [acc EXCEPT !.left = Append(@, j),
                       !.locks = IF b.owner THEN @ \cup {b.lock} ELSE @,
                       !.servers = IF b.claims /\ ~free THEN @ \cup b.servers ELSE @]

\* One turn of the loop of _pump: a job that stays reserves its lock, and its servers
\* when it is short of slots.
Admit(acc, rec, j, lim) ==
  LET b == rec[j]
  IN  IF LockFree(acc, b) /\ SlotsFree(acc, rec, b, lim) THEN Begun(acc, b, j)
      ELSE [acc EXCEPT !.left = Append(@, j),
                       !.locks = IF b.owner THEN @ \cup {b.lock} ELSE @,
                       !.servers = IF b.claims /\ ~SlotsFree(acc, rec, b, lim)
                                   THEN @ \cup b.servers ELSE @]

\* The loop of _pump over the queue `wq`: what its first k turns make of the locks and the
\* slots, the jobs they leave, and what those reserve.
Turns(rec, wq, lo, sl, lim) ==
  LET turn[k \in 0 .. Len(wq)] ==
        IF k = 0 THEN [owner |-> lo, slots |-> sl, left |-> <<>>, locks |-> {}, servers |-> {}]
        ELSE Admit(turn[k - 1], rec, wq[k], lim)
  IN  turn

\* _pump, at the end of every operation on the queue: `wq`, `lo`, `sl`, `st` and `ex`
\* are what the operation made of waiting, lockOwner, slots, status and executing.
Pump(rec, wq, lo, sl, lim, st, ex) ==
  LET end == Turns(rec, wq, lo, sl, lim)[Len(wq)]
      begun == ToSet(wq) \ ToSet(end.left)
  IN  /\ waiting' = end.left
      /\ lockOwner' = end.owner
      /\ slots' = end.slots
      /\ status' = [j \in Job |-> IF j \in begun THEN "running" ELSE st[j]]
      /\ executing' = ex \cup begun
      /\ called' = called \cup ex \cup begun

-----------------------------------------------------------------------------
(* Starting and ending jobs.                                               *)

\* Nothing is held outside a job: als.getStore() is undefined.
Outside == [locks |-> {}, heavy |-> None, parent |-> None]

\* What the function of j runs with (the store of _run).
Inside(j) ==
  [locks |-> job[j].held \cup ({job[j].lock} \ {None}),
   heavy |-> IF job[j].claims THEN j ELSE job[j].root,
   parent |-> j]

\* start: a lock that is held already is not taken again, and a heavy job inside a heavy
\* job runs under its slots.
Record(kind, held) ==
  [lock |-> kind.lock, servers |-> kind.servers,
   owner |-> kind.lock # None /\ kind.lock \notin held.locks,
   claims |-> kind.servers # {} /\ held.heavy = None,
   held |-> held.locks, root |-> held.heavy, parent |-> held.parent]

NoJob == Record([lock |-> None, servers |-> {}], Outside)

StartIn(j, kind, held) ==
  /\ status[j] = "none"
  /\ job' = [job EXCEPT ![j] = Record(kind, held)]
  /\ Pump(job', Append(waiting, j), lockOwner, slots, limit, [status EXCEPT ![j] = "queued"], executing)
  /\ UNCHANGED <<forced, aborted, limit, saved, orders>>

Start(j) == \E kind \in Kinds : StartIn(j, kind, Outside)

\* A function starts a job, as long as it runs.
StartSub(p, j) == p \in executing /\ \E kind \in SubKinds[job[p].lock] : StartIn(j, kind, Inside(p))

\* Mutant: whoever ends on a website frees it.
FreedByName(j) == IF job[j].lock # None THEN [lockOwner EXCEPT ![job[j].lock] = None] ELSE lockOwner

\* _finish: only the job that took the lock gives it back.
Freed(j) == IF \E l \in Lock : lockOwner[l] = j THEN [lockOwner EXCEPT ![job[j].lock] = None] ELSE lockOwner

\* Mutant: the slots of a cancelled job are not given back.
FinishWithoutSlots(j, outcome, ex) ==
  /\ Pump(job, waiting, Freed(j), IF outcome = "cancelled" THEN slots ELSE slots \ {j},
          limit, [status EXCEPT ![j] = outcome], ex)
  /\ UNCHANGED <<job, forced, aborted, limit, saved, orders>>

\* Mutant: nobody looks at the queue when a job has ended.
FinishWithoutPump(j, outcome, ex) ==
  /\ lockOwner' = Freed(j)
  /\ slots' = slots \ {j}
  /\ status' = [status EXCEPT ![j] = outcome]
  /\ executing' = ex
  /\ UNCHANGED <<waiting, called, job, forced, aborted, limit, saved, orders>>

\* _finish: the record is settled, what it held is free, the next jobs begin.
Finish(j, outcome, ex) ==
  /\ Pump(job, waiting, Freed(j), slots \ {j}, limit, [status EXCEPT ![j] = outcome], ex)
  /\ UNCHANGED <<job, forced, aborted, limit, saved, orders>>

Inner(j) == {k \in Active : job[k].parent = j}

\* The function of j returns or throws.  Its record may have been settled before.
Return(j) ==
  /\ j \in executing
  /\ ParentsWait => Inner(j) = {}
  /\ IF status[j] = "running"
     THEN Finish(j, IF j \in aborted THEN "cancelled" ELSE "ended", executing \ {j})
     ELSE /\ executing' = executing \ {j}
          /\ UNCHANGED <<status, job, queue, aborted, limit, saved, called, orders>>

\* _unqueue: the queue without the job at place i.
Without(i) == [k \in 1 .. Len(waiting) - 1 |-> IF k < i THEN waiting[k] ELSE waiting[k + 1]]

\* cancel, of the job that waits at place i.
CancelQueued(i) ==
  /\ Pump(job, Without(i), lockOwner, slots, limit, [status EXCEPT ![waiting[i]] = "cancelled"], executing)
  /\ UNCHANGED <<job, forced, aborted, limit, saved, orders>>

\* cancel, of a job that runs.
CancelRunning(j) ==
  /\ status[j] = "running"
  /\ j \notin aborted
  /\ aborted' = aborted \cup {j}
  /\ UNCHANGED <<status, job, queue, executing, limit, saved, called, orders>>

\* The timer of cancel: the job has not stopped in CANCEL_GRACE_MS.
GraceEnds(j) ==
  /\ Grace
  /\ status[j] = "running"
  /\ j \in aborted
  /\ Finish(j, "cancelled", executing)

-----------------------------------------------------------------------------
(* What admins do to the queue.                                            *)

Ordered == orders < MaxOrders /\ orders' = orders + 1

\* The places of the heavy jobs that wait.
HeavyAt == {i \in DOMAIN waiting : job[waiting[i]].claims}

\* move: heavy jobs change places among themselves; light ones keep theirs.  The one at
\* `from` comes to `to`, and those between give way, each to the next heavy one's place.
Moved(from, to) ==
  [k \in DOMAIN waiting |->
     CASE k = to -> waiting[from]
       [] k \in HeavyAt /\ from <= k /\ k < to -> waiting[Min({i \in HeavyAt : k < i})]
       [] k \in HeavyAt /\ to < k /\ k <= from -> waiting[Max({i \in HeavyAt : i < k})]
       [] OTHER -> waiting[k]]

Move(from, to) ==
  /\ Ordered
  /\ from \in HeavyAt /\ to \in HeavyAt /\ from # to
  /\ Pump(job, Moved(from, to), lockOwner, slots, limit, status, executing)
  /\ UNCHANGED <<job, forced, aborted, limit, saved>>

\* What forceStart does with the job at place i.
Forces(i) ==
  LET j == waiting[i]
      end == Begun([owner |-> lockOwner, slots |-> slots], job[j], j)
  IN  /\ forced' = forced \cup {j}
      /\ Pump(job, Without(i), end.owner, end.slots, limit, [status EXCEPT ![j] = "running"], executing \cup {j})
      /\ UNCHANGED <<job, aborted, limit, saved>>

\* Mutant: a job can be forced past another one on the same website.
ForceStartLocked(i) == Ordered /\ i \in HeavyAt /\ Forces(i)

\* forceStart: its lock still applies.
ForceStart(i) ==
  /\ Ordered
  /\ i \in HeavyAt
  /\ job[waiting[i]].owner => lockOwner[job[waiting[i]].lock] = None
  /\ Forces(i)

\* Mutant: what comes from the config is not clamped.
ClampRoundedOnly(n) == n

\* clampPerServer
ClampPerServer(n) == IF n < 1 THEN 1 ELSE IF n > MaxPerServer THEN MaxPerServer ELSE n

SetPerServer(n) ==
  /\ Ordered
  /\ limit' = ClampPerServer(n)
  /\ Pump(job, waiting, lockOwner, slots, limit', status, executing)
  /\ UNCHANGED <<job, forced, aborted, saved>>

-----------------------------------------------------------------------------
(* Records.                                                                *)

\* The debounced save of db.json, or its copy on the standby that takes over.
SaveRecords ==
  /\ Saving
  /\ saved # status
  /\ saved' = status
  /\ UNCHANGED <<status, job, queue, aborted, executing, limit, called, orders>>

\* _prune: the oldest records of ended jobs are removed.
Prune(j) ==
  /\ status[j] \in {"ended", "cancelled", "dropped", "failed"}
  /\ j \notin executing /\ \A k \in Active \cup executing : job[k].parent # j
  /\ status' = [status EXCEPT ![j] = "none"]
  /\ saved' = [saved EXCEPT ![j] = "none"]
  /\ called' = called \ {j}
  /\ forced' = forced \ {j}
  /\ aborted' = aborted \ {j}
  /\ job' = [job EXCEPT ![j] = NoJob]
  /\ UNCHANGED <<waiting, lockOwner, slots, executing, limit, orders>>

\* recover: nothing can still be running.
Recovered(j) ==
  CASE saved[j] = "queued" -> IF job[j].servers # {} THEN "dropped" ELSE "failed"
    [] saved[j] = "running" -> "failed"
    [] OTHER -> saved[j]

\* A new process has nothing in memory.
Blank ==
  /\ waiting' = <<>>
  /\ lockOwner' = [l \in Lock |-> None]
  /\ slots' = {}
  /\ executing' = {}
  /\ aborted' = {}
  /\ saved' = status'
  /\ job' = [j \in Job |-> IF status'[j] = "none" THEN NoJob ELSE job[j]]
  /\ called' = {j \in called : status'[j] # "none"}
  /\ forced' = {j \in forced : status'[j] # "none"}
  /\ UNCHANGED <<limit, orders>>

\* Mutant: only what was running is settled.
CrashKeepingQueued ==
  /\ status' = [j \in Job |-> IF saved[j] = "running" THEN "failed" ELSE saved[j]]
  /\ Blank

\* The panel crashes, or another one takes over: the records are those that were saved.
Crash ==
  /\ Active # {}
  /\ status' = [j \in Job |-> Recovered(j)]
  /\ Blank

\* SIGTERM: shutdown and a last save.
Shutdown ==
  /\ Active # {}
  /\ status' = [j \in Job |->
       CASE status[j] = "queued" -> IF job[j].claims THEN "dropped" ELSE "failed"
         [] status[j] = "running" -> "failed"
         [] OTHER -> status[j]]
  /\ Blank

-----------------------------------------------------------------------------
Init ==
  /\ status = [j \in Job |-> "none"]
  /\ job = [j \in Job |-> NoJob]
  /\ waiting = <<>>
  /\ lockOwner = [l \in Lock |-> None]
  /\ slots = {} /\ forced = {} /\ aborted = {} /\ executing = {} /\ called = {}
  /\ limit = 1
  /\ saved = status
  /\ orders = 0

Next ==
  \/ \E j \in Job :
       \/ Start(j) \/ Return(j) \/ CancelRunning(j) \/ GraceEnds(j) \/ Prune(j)
       \/ \E p \in Job : StartSub(p, j)
  \/ \E i \in DOMAIN waiting :
       \/ CancelQueued(i) \/ ForceStart(i)
       \/ \E to \in DOMAIN waiting : Move(i, to)
  \/ \E n \in 0 .. MaxPerServer + 1 : SetPerServer(n)
  \/ SaveRecords \/ Crash \/ Shutdown

Spec == Init /\ [][Next]_vars

\* Functions of jobs return in the end, and do not start jobs without end.  Nobody has to
\* save, cancel or restart anything.
FairSpec ==
  /\ Spec
  /\ \A j \in Job : WF_vars(Return(j))
  /\ <>[][~\E p, j \in Job : StartSub(p, j)]_vars

-----------------------------------------------------------------------------
(* Properties.                                                             *)

TypeOK ==
  /\ status \in [Job -> Statuses] /\ saved \in [Job -> Statuses]
  /\ job \in [Job -> Records]
  /\ \A j \in Job : /\ job[j].owner => job[j].lock # None
                    /\ job[j].claims => job[j].servers # {}
  /\ waiting \in Seq(Job)
  /\ lockOwner \in [Lock -> Job \cup {None}]
  /\ slots \subseteq Job /\ forced \subseteq Job /\ aborted \subseteq Job
  /\ executing \subseteq called /\ called \subseteq Job
  /\ limit \in 1 .. MaxPerServer

\* The records agree with what is in memory: the queue holds what is queued, once; locks
\* and slots are held by the running jobs that took them and by all of those.
RecordsAgree ==
  /\ \A j \in Job : (status[j] = "queued") <=> j \in ToSet(waiting)
  /\ IsInjective(waiting)
  /\ slots = {j \in Running : job[j].claims}
  /\ \A l \in Lock : lockOwner[l] # None =>
       lockOwner[l] \in Running /\ job[lockOwner[l]].owner /\ job[lockOwner[l]].lock = l
  /\ \A j \in Running : job[j].owner => lockOwner[job[j].lock] = j

\* i was started inside j: by it, or by a job inside it.  Whatever holds the one that
\* started i, and with a job the one that started that, holds j.
Within(i, j) ==
  \A S \in SUBSET (Job \cup {None}) :
    job[i].parent \in S /\ (\A k \in S \cap Job : job[k].parent \in S) => j \in S

\* jobs.mjs: "Two deploys of the same site at once would trample each other, so jobs that
\* touch the same thing queue behind each other."  Two running jobs work on the same thing
\* only if one was started inside the other, or both inside one job.
NobodyTramples ==
  \A i, j \in Running :
    i # j /\ job[i].lock # None /\ job[i].lock = job[j].lock =>
      Within(i, j) \/ Within(j, i) \/ \E k \in Running : Within(i, k) /\ Within(j, k)

\* The jobs that this step begins.
Begins == {j \in Job : status[j] # "running" /\ status'[j] = "running"}

\* jobs.mjs: a heavy job "is only admitted while every one of those servers has a free
\* slot": after a step that begins a job nobody forced, its servers are within the limit
\* in force.
SlotsAreRespectedStep ==
  \A j \in Begins : job'[j].claims /\ j \notin forced' =>
    \A s \in job'[j].servers : Used(slots', job', s) <= limit'
SlotsAreRespected == [][SlotsAreRespectedStep]_vars

Ahead(i, j) == \* i waits on, and was in the queue before j
  /\ i \in ToSet(waiting) \cap ToSet(waiting')
  /\ j \in ToSet(waiting) => \E m, n \in DOMAIN waiting : m < n /\ waiting[m] = i /\ waiting[n] = j

SameLock(i, j) == job'[i].owner /\ job'[j].owner /\ job'[i].lock = job'[j].lock
SameServer(i, j) == job'[i].claims /\ job'[j].claims /\ job'[i].servers \cap job'[j].servers # {}

\* Why i has to wait for its lock: somebody has it, or waits for it ahead of i.
ShortOfLock(i) ==
  job'[i].owner /\ (lockOwner'[job'[i].lock] # None \/ \E k \in ToSet(waiting') : k # i /\ SameLock(i, k))

\* The comment of _pump: a job that cannot start "reserves its lock (and, when it is short
\* of slots, its servers) for itself, so nothing later in line overtakes it there".  Admins
\* may force and move.
NobodyOvertakesStep ==
  orders' = orders =>
    \A j \in Begins, i \in Job : Ahead(i, j) =>
      ~SameLock(i, j) /\ (SameServer(i, j) => ShortOfLock(i))
NobodyOvertakes == [][NobodyOvertakesStep]_vars

\* The header of jobs.mjs: "a later job never jumps a waiting earlier one that needs the
\* same server slot or the same lock".
NeverJumps ==
  [][orders' = orders =>
       \A j \in Begins, i \in Job : Ahead(i, j) => ~SameLock(i, j) /\ ~SameServer(i, j)]_vars

Before(k) == {waiting[i] : i \in 1 .. k - 1}

\* Whoever waits has a reason: its lock is held or wanted by a job before it, one of its
\* servers is full, or a job before it waits for that server.  No operation forgets to
\* admit what it made room for.
NobodyWaitsForNothing ==
  \A k \in DOMAIN waiting :
    LET b == job[waiting[k]]
    IN  \/ b.owner /\ (lockOwner[b.lock] # None \/ \E i \in Before(k) : job[i].owner /\ job[i].lock = b.lock)
        \/ b.claims /\ \E s \in b.servers :
             Used(slots, job, s) >= limit \/ \E i \in Before(k) : job[i].claims /\ s \in job[i].servers

\* What the header and _pump promise: records, locks, slots and queue agree, nobody
\* tramples and nobody is forgotten; slots are respected and nobody overtakes.
JobsAreSound ==
  /\ [](RecordsAgree /\ NobodyTramples /\ NobodyWaitsForNothing)
  /\ SlotsAreRespected /\ NobodyOvertakes

\* RESTART_DROPPED tells the admin that the job "never ran. Start it again when you're
\* ready."
DroppedNeverRan == \A j \in Job : status[j] = "dropped" => j \notin called

\* No job waits for ever while jobs end, whatever else is started meanwhile.
Waits(j) == status[j] = "queued"
NobodyStarves == \A j \in Job : Waits(j) ~> ~Waits(j)
=============================================================================
