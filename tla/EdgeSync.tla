------------------------------ MODULE EdgeSync ------------------------------
(***************************************************************************)
(* The configuration every other server gets from the active panel: the      *)
(* cluster.sync task (panel/lib/cluster.mjs, "edges", and shared/edge.mjs).   *)
(* A payload is the server's role, the revision of the front door's files,    *)
(* and the database address with its cut-over.  The panel compares hashes,    *)
(* pushes what differs, one push at a time per server, and resends from time  *)
(* to time; the agent applies it in steps and saves what it did at the end.   *)
(***************************************************************************)
EXTENDS Naturals, FiniteSets

CONSTANTS
  Agent, None,
  MaxChanges, MaxFaults  \* bounds for TLC

VARIABLES
  role,     \* servers[].edge: "edge" or "none"
  rev, db,  \* the revision of the files, and of the database's address
  synced,   \* servers[].edgeSync: [hash, error]
  reported, \* edgeStatus: the hash an edge reports with its metrics, or None
  forced,   \* edgeForce: servers to push to even if nothing differs
  timer,    \* edgeTimer: a round is due in two seconds
  push,     \* edgeInflight: [hash, begun], the push that runs, None: none does
  queued,   \* edgeQueued: the push that waits behind it, [force], or None
  up,       \* the agent is connected
  task,     \* the cluster.sync it runs: [hash, pc, errors, conf], or None
  saved,    \* edge-state.json: [hash, files, okOnce, error]
  disk,     \* conf.d: the revision of the edge's files, None: no such file
  tls,      \* the edge's own certificate is there
  conn,     \* tunnel connectors run there
  alias,    \* the database address in /etc/hosts, and its cut-over
  accepts,  \* the rest of that server's nginx configuration passes
  torn,     \* history: agents that stopped between changing their files and saving that
  changes, faults  \* counters

world == <<role, rev, db>>
panel == <<synced, reported, forced, timer, push, queued>>
machine == <<disk, tls, conn, alias, accepts>>
counters == <<changes, faults>>
vars == <<world, panel, up, task, saved, machine, torn, counters>>


Blank == [hash |-> None, files |-> FALSE, okOnce |-> FALSE, error |-> FALSE]

\* buildEdgePayload: a server that is no edge gets no files.  The hash is the payload.
Payload(v) == [role |-> role[v], rev |-> IF role[v] = "edge" THEN rev ELSE 0, db |-> db]

-----------------------------------------------------------------------------
(* The panel.                                                               *)

\* A website, the edge switch of a server, the database's primary: edgesChanged.
Change ==
  /\ changes < MaxChanges /\ changes' = changes + 1
  /\ \/ rev' = rev + 1 /\ UNCHANGED <<role, db, forced>>
     \/ db' = db + 1 /\ UNCHANGED <<role, rev, forced>>
     \/ \E v \in Agent : /\ role' = [role EXCEPT ![v] = IF @ = "edge" THEN "none" ELSE "edge"]
                         /\ forced' = forced \cup {v}
                         /\ UNCHANGED <<rev, db>>
  /\ timer' = TRUE
  /\ UNCHANGED <<synced, reported, push, queued, up, task, saved, machine, torn, faults>>

Differs(v) == synced[v].hash # Payload(v)
Drifted(v) == reported[v] \notin {None, Payload(v)}

\* edgeRoundOnce: to a server that is there, has no such push under way and none waiting.
Pushes(v, due) ==
  /\ up[v] /\ queued[v] = None
  /\ push[v] # None => push[v].hash # Payload(v)
  /\ v \in forced \/ Differs(v) \/ Drifted(v) \/ due
\* pushEdge: "it differs" is looked at again when the push starts.
Queued(due) == [v \in Agent |-> IF Pushes(v, due) THEN [force |-> v \in forced \/ Drifted(v) \/ due]
                                ELSE queued[v]]

\* The round of edgesChanged, and the one of every minute; what was last sent ten minutes
\* ago is sent again.
Round ==
  /\ timer
  /\ timer' = FALSE /\ forced' = {} /\ queued' = Queued(FALSE)
  /\ UNCHANGED <<world, synced, reported, push, up, task, saved, machine, torn, counters>>
\* mutant: the resend is forgotten
NotResent == FALSE
Resent == TRUE
Reconcile ==
  /\ queued' = Queued(Resent) /\ queued' # queued
  /\ UNCHANGED <<world, synced, reported, forced, timer, push, up, task, saved, machine, torn, counters>>

\* pushEdgeOnce, up to the task: it takes the payload of now.
Record(v, hash, error) == synced' = [synced EXCEPT ![v] = [hash |-> hash, error |-> error]]
StartPush(v) ==
  /\ queued[v] # None /\ push[v] = None
  /\ queued' = [queued EXCEPT ![v] = None]
  /\ IF up[v] /\ (queued[v].force \/ Differs(v) \/ synced[v].error)
     THEN push' = [push EXCEPT ![v] = [hash |-> Payload(v), begun |-> FALSE]]
     ELSE UNCHANGED push
  /\ UNCHANGED <<world, synced, reported, forced, timer, up, task, saved, machine, torn, counters>>

\* The agent was lost, or the job was cancelled: the next round tries again.
LosePush(v) ==
  /\ push[v] # None /\ task[v] = None /\ (push[v].begun \/ ~up[v])
  /\ push' = [push EXCEPT ![v] = None]
  /\ Record(v, synced[v].hash, TRUE)
  /\ UNCHANGED <<world, reported, forced, timer, queued, up, task, saved, machine, torn, counters>>

-----------------------------------------------------------------------------
(* The agent: clusterSync.                                                  *)

At(v, pc) == task[v] # None /\ task[v].pc = pc
Wants(v) == task[v].hash
Passes(v, files) == accepts[v] /\ (files # None => tls[v])

\* One cluster.sync at a time (withSiteLock), also behind one that the panel has lost.
Take(v) ==
  /\ up[v] /\ task[v] = None /\ push[v] # None /\ ~push[v].begun
  /\ push' = [push EXCEPT ![v].begun = TRUE]
  /\ task' = [task EXCEPT ![v] = [hash |-> push[v].hash, pc |-> "db", errors |-> FALSE, conf |-> "?"]]
  /\ UNCHANGED <<world, synced, reported, forced, timer, queued, up, saved, machine, torn, counters>>

\* applyHostsBlock and applyDbCutover come first.
ApplyDb(v) ==
  /\ At(v, "db")
  /\ alias' = [alias EXCEPT ![v] = Wants(v).db]
  /\ task' = [task EXCEPT ![v].pc = IF Wants(v).role = "edge" THEN "files" ELSE "stop"]
  /\ UNCHANGED <<world, panel, up, saved, disk, tls, conn, accepts, torn, counters>>

\* applyEdgeFiles: all the files, one test, and all of them back if it fails.
ApplyFiles(v) ==
  /\ At(v, "files")
  /\ tls' = [tls EXCEPT ![v] = TRUE]
  /\ disk' = IF accepts[v] THEN [disk EXCEPT ![v] = Wants(v).rev] ELSE disk
  /\ task' = [task EXCEPT ![v].pc = "connect", ![v].errors = ~accepts[v],
                          ![v].conf = IF accepts[v] THEN "ok" ELSE "failed"]
  /\ UNCHANGED <<world, panel, up, saved, conn, alias, accepts, torn, counters>>

\* syncConnectors: only once nginx took this edge's files.
Ready(v) == saved[v].okOnce \/ task[v].conf = "ok"
\* mutant: they start whatever nginx said
ReadyAnyhow(v) == TRUE
MayConnect(v) == Ready(v)
Connect(v) ==
  /\ At(v, "connect")
  /\ conn' = IF MayConnect(v) THEN [conn EXCEPT ![v] = TRUE] ELSE conn
  /\ task' = [task EXCEPT ![v].pc = "save"]
  /\ UNCHANGED <<world, panel, up, saved, disk, tls, alias, accepts, torn, counters>>

\* No edge any more: connectors, then the files the last sync wrote, then the certificate.
Stop(v) ==
  /\ At(v, "stop")
  /\ conn' = [conn EXCEPT ![v] = FALSE]
  /\ task' = [task EXCEPT ![v].pc = "remove"]
  /\ UNCHANGED <<world, panel, up, saved, disk, tls, alias, accepts, torn, counters>>
Remove(v) ==
  /\ At(v, "remove")
  /\ IF saved[v].files /\ disk[v] # None
     THEN /\ disk' = IF accepts[v] THEN [disk EXCEPT ![v] = None] ELSE disk
          /\ tls' = IF accepts[v] THEN [tls EXCEPT ![v] = FALSE] ELSE tls
          /\ task' = [task EXCEPT ![v].pc = "save", ![v].errors = ~accepts[v],
                                  ![v].conf = IF accepts[v] THEN "gone" ELSE "failed"]
     ELSE /\ tls' = [tls EXCEPT ![v] = FALSE]  \* nothing changes, so nothing is tested
          /\ task' = [task EXCEPT ![v].pc = "save", ![v].conf = "gone"]
          /\ UNCHANGED disk
  /\ UNCHANGED <<world, panel, up, saved, conn, alias, accepts, torn, counters>>

\* writeEdgeState, and the answer, which the panel records.
Save(v) ==
  /\ At(v, "save")
  /\ saved' = [saved EXCEPT ![v] =
       [hash |-> Wants(v), error |-> task[v].errors,
        files |-> CASE task[v].conf = "ok" -> TRUE [] task[v].conf = "gone" -> FALSE [] OTHER -> @.files,
        okOnce |-> CASE task[v].conf = "ok" -> TRUE [] task[v].conf = "gone" -> FALSE [] OTHER -> @.okOnce]]
  /\ task' = [task EXCEPT ![v] = None]
  /\ IF push[v] # None => ~push[v].begun THEN UNCHANGED <<push, synced>>
     ELSE push' = [push EXCEPT ![v] = None] /\ Record(v, Wants(v), task[v].errors)
  /\ UNCHANGED <<world, reported, forced, timer, queued, up, machine, torn, counters>>

\* edgeStatus, with the metrics: only an edge reports.
Hash(v) == IF saved[v].hash # None /\ saved[v].hash.role = "edge" THEN saved[v].hash ELSE None
Report(v) ==
  /\ up[v] /\ reported[v] # Hash(v)
  /\ reported' = [reported EXCEPT ![v] = Hash(v)]
  /\ UNCHANGED <<world, synced, forced, timer, push, queued, up, task, saved, machine, torn, counters>>

-----------------------------------------------------------------------------
(* Faults.                                                                  *)

Tears(v) == torn' = IF task[v] # None /\ task[v].conf # "?" THEN torn \cup {v} ELSE torn
\* The agent stops; whatever step its task had come to, its state file says nothing of it.
Crash(v) ==
  /\ up[v] /\ faults < MaxFaults /\ faults' = faults + 1
  /\ up' = [up EXCEPT ![v] = FALSE]
  /\ task' = [task EXCEPT ![v] = None]
  /\ UNCHANGED <<world, panel, saved, machine, changes>> /\ Tears(v)
\* Its machine was set up anew: nothing of what the panel sent is left.
Reinstall(v) ==
  /\ ~up[v] /\ faults < MaxFaults /\ faults' = faults + 1
  /\ saved' = [saved EXCEPT ![v] = Blank]
  /\ disk' = [disk EXCEPT ![v] = None] /\ tls' = [tls EXCEPT ![v] = FALSE]
  /\ conn' = [conn EXCEPT ![v] = FALSE] /\ alias' = [alias EXCEPT ![v] = 0]
  /\ UNCHANGED <<world, panel, up, task, accepts, torn, changes>>
\* POST /agent/hello: a push whatever the hash says.
Hello(v) ==
  /\ ~up[v] /\ push[v] = None
  /\ up' = [up EXCEPT ![v] = TRUE]
  /\ forced' = forced \cup {v} /\ timer' = TRUE
  /\ UNCHANGED <<world, synced, reported, push, queued, task, saved, machine, torn, counters>>

\* The job of "Sync now" is cancelled: the agent stops at its next look (checkAbort).
Abort(v) ==
  /\ \E pc \in {"files", "connect"} : At(v, pc)
  /\ faults < MaxFaults /\ faults' = faults + 1
  /\ task' = [task EXCEPT ![v] = None]
  /\ UNCHANGED <<world, panel, up, saved, machine, changes>> /\ Tears(v)

\* Another file of that server's nginx is broken for a while.
Reject(v) ==
  /\ accepts[v] /\ faults < MaxFaults /\ faults' = faults + 1
  /\ accepts' = [accepts EXCEPT ![v] = FALSE]
  /\ UNCHANGED <<world, panel, up, task, saved, disk, tls, conn, alias, torn, changes>>
Mend(v) ==
  /\ ~accepts[v]
  /\ accepts' = [accepts EXCEPT ![v] = TRUE]
  /\ UNCHANGED <<world, panel, up, task, saved, disk, tls, conn, alias, torn, counters>>

\* The panel restarts, or another one takes over: it knows only what is in the database.
Takeover ==
  /\ faults < MaxFaults /\ faults' = faults + 1
  /\ reported' = [v \in Agent |-> None] /\ forced' = {} /\ timer' = FALSE
  /\ push' = [v \in Agent |-> None] /\ queued' = [v \in Agent |-> None]
  /\ UNCHANGED <<world, synced, up, task, saved, machine, torn, changes>>

Init ==
  /\ role = [v \in Agent |-> "none"] /\ rev = 0 /\ db = 0
  /\ synced = [v \in Agent |-> [hash |-> Payload(v), error |-> FALSE]]
  /\ reported = [v \in Agent |-> None] /\ forced = {} /\ timer = FALSE
  /\ push = [v \in Agent |-> None] /\ queued = push
  /\ up = [v \in Agent |-> TRUE] /\ task = [v \in Agent |-> None]
  /\ saved = [v \in Agent |-> [Blank EXCEPT !.hash = Payload(v)]]
  /\ disk = [v \in Agent |-> None] /\ tls = [v \in Agent |-> FALSE]
  /\ conn = tls /\ alias = [v \in Agent |-> 0] /\ accepts = [v \in Agent |-> TRUE]
  /\ torn = {} /\ changes = 0 /\ faults = 0

Next ==
  \/ Change \/ Round \/ Reconcile \/ Takeover
  \/ \E v \in Agent :
       \/ StartPush(v) \/ LosePush(v) \/ Take(v) \/ ApplyDb(v) \/ ApplyFiles(v) \/ Connect(v)
       \/ Stop(v) \/ Remove(v) \/ Save(v) \/ Report(v)
       \/ Crash(v) \/ Reinstall(v) \/ Hello(v) \/ Abort(v) \/ Reject(v) \/ Mend(v)
\* Timers fire, tasks end (their time limits), agents come back, and somebody mends nginx.
Fairness ==
  /\ WF_vars(Round) /\ WF_vars(Reconcile)
  /\ \A v \in Agent :
       /\ WF_vars(StartPush(v)) /\ WF_vars(LosePush(v)) /\ WF_vars(Take(v)) /\ WF_vars(Report(v))
       /\ WF_vars(ApplyDb(v) \/ ApplyFiles(v) \/ Connect(v) \/ Stop(v) \/ Remove(v) \/ Save(v))
       /\ WF_vars(Hello(v)) /\ WF_vars(Mend(v))
Spec == Init /\ [][Next]_vars /\ Fairness

-----------------------------------------------------------------------------
(* Properties.                                                              *)

\* Once nothing changes any more, every server ends up with what the panel wants of it,
\* whatever was lost, cancelled, rejected or set up anew on the way (edgeRoundOnce,
\* pushEdgeOnce: differs, drifted, due, forced).
InStep(v) ==
  /\ alias[v] = db
  /\ IF role[v] = "edge" THEN disk[v] = rev /\ conn[v] ELSE ~conn[v]
EdgesConverge == \A v \in Agent : <>[]InStep(v)

\* A tunnel's traffic never comes to a server whose nginx has no front door for it: where
\* connectors run, the edge's files are there and its nginx took them (clusterSync).
\* Not after the agent stopped between removing the files and saving that it did: the
\* next edge then starts its connectors on the strength of the old state file.
ConnectorsHaveAFrontDoor == \A v \in Agent \ torn : conn[v] => disk[v] # None /\ tls[v]
=============================================================================
