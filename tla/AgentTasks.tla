----------------------------- MODULE AgentTasks -----------------------------
(***************************************************************************)
(* How the active panel gets a task done on another server: the dispatch   *)
(* of panel/lib/cluster.mjs, the agent of that server (node/node-agent.mjs)*)
(* and the lock per website under which its tasks work (shared/tasks.mjs). *)
(*                                                                         *)
(* The agent only dials out.  It holds one long poll at a time, takes what *)
(* the answer brings, and posts logs and results on their own.  It may     *)
(* give up on a poll at any time; then the panel may still answer it, into *)
(* the void.  The panel and the agent may restart, and forget.  The clock  *)
(* of each timeout is left out: what may time out may do so at any time.   *)
(***************************************************************************)
EXTENDS Integers, SequencesExt

CONSTANTS
  Task,         \* identities of tasks
  Site,         \* websites
  None,         \* no website, no poll
  MaxBatch,     \* MAX_BATCH
  MaxRestarts   \* bound on restarts and updates, for TLC

ASSUME BatchesAndBounds ==
  /\ MaxBatch \in Nat \ {0}
  /\ MaxRestarts \in Nat

\* None is none of the things that a website or a message can be.
ASSUME NoneIsNothing ==
  /\ None \notin Site
  /\ None \notin [running : SUBSET Task]
  /\ None \notin [heard : BOOLEAN, idle : BOOLEAN]
  /\ None \notin [tasks : Seq(Task), cancel : SUBSET Task, rehello : BOOLEAN]

VARIABLES
  \* the panel
  call,       \* what the caller knows: new, queued, sent, or how it was settled
  queue,      \* queues.get(serverId)
  asked,      \* the tasks with cancelRequested
  online,     \* whether the agent was heard of in the last 45 s
  vouched,    \* whether it is known to run the panel's files: yes, no, nudged
  parked,     \* parked.get(serverId): the poll that waits, if any
  \* on their way
  request,    \* the poll that has not reached the panel
  reply,      \* the answer that has not reached the agent
  \* the agent
  needHello, old,  \* it must say hello first; its files are not the panel's
  running,    \* the tasks it has not rid itself of
  phase,      \* none, waiting for its website, working, done, broken
  ahead,      \* siteLocks: the tasks of its website that each task still has to wait for
  aborted,    \* the tasks whose signal is aborted
  restarts,
  site        \* the website a task is about, or None: the caller's choice

panel == <<call, queue, asked>>
wire == <<parked, request, reply>>
work == <<running, phase, ahead, aborted>>
rest == <<restarts, site>>
vars == <<panel, online, vouched, wire, needHello, old, work, rest>>

Sent == {t \in Task : call[t] = "sent"}

-----------------------------------------------------------------------------
(* The panel: giving out work.                                             *)

NoWork == [tasks |-> <<>>, cancel |-> {}, rehello |-> FALSE]

\* takeWork: the first of the queue, and the cancels of all that was sent.
Batch(q) == SubSeq(q, 1, IF Len(q) < MaxBatch THEN Len(q) ELSE MaxBatch)
Rest(q) == SubSeq(q, Len(Batch(q)) + 1, Len(q))
Handed(c, q) == [t \in Task |-> IF t \in ToSet(Batch(q)) THEN "sent" ELSE c[t]]
TakeWork(q, c, a) ==
  [NoWork EXCEPT !.tasks = Batch(q), !.cancel = {t \in a : Handed(c, q)[t] = "sent"}]

\* staleReply: an agent that is idle and may be out of date is sent to update first, once.
Stale(idle) == idle /\ vouched = "no"

\* Mutant: work stays in the queue until there is a result.
AnsweredKeepingWork(poll, q, c, a) ==
  [queue |-> q, call |-> Handed(c, q), vouched |-> vouched, parked |-> None,
   reply |-> IF poll.heard THEN TakeWork(q, c, a) ELSE reply]

\* What becomes of the panel when it answers a poll.
Answered(poll, q, c, a) ==
  IF Stale(poll.idle)
  THEN [queue |-> q, call |-> c, vouched |-> "nudged", parked |-> None,
        reply |-> IF poll.heard THEN [NoWork EXCEPT !.rehello = TRUE] ELSE reply]
  ELSE [queue |-> Rest(q), call |-> Handed(c, q), vouched |-> vouched, parked |-> None,
        reply |-> IF poll.heard THEN TakeWork(q, c, a) ELSE reply]

\* kick: answer the poll that waits, if one does.
Kicked(q, c, a) ==
  IF parked = None
  THEN [queue |-> q, call |-> c, vouched |-> vouched, parked |-> None, reply |-> reply]
  ELSE Answered(parked, q, c, a)

Panel(k) ==
  /\ queue' = k.queue /\ call' = k.call /\ vouched' = k.vouched
  /\ parked' = k.parked /\ reply' = k.reply

-----------------------------------------------------------------------------
(* The panel: callers, cancels and timers.                                 *)

agent == <<needHello, old, work, rest>>

\* Mutant: nobody answers the poll that waits.
RunTaskQuietly(t) ==
  /\ call[t] = "new" /\ online
  /\ call' = [call EXCEPT ![t] = "queued"]
  /\ queue' = Append(queue, t)
  /\ UNCHANGED <<asked, online, vouched, wire, agent>>

\* runTask, for a server that is online.
RunTask(t) ==
  /\ call[t] = "new" /\ online
  /\ Panel(Kicked(Append(queue, t), [call EXCEPT ![t] = "queued"], asked))
  /\ UNCHANGED <<asked, online, request, agent>>

Without(q, t) ==
  IF t \in ToSet(q) THEN RemoveAt(q, CHOOSE i \in DOMAIN q : q[i] = t) ELSE q

\* settle: the caller has its answer, and the panel forgets the task.
Settle(t, how) ==
  /\ call' = [call EXCEPT ![t] = how]
  /\ queue' = Without(queue, t)
  /\ asked' = asked \ {t}

\* Mutant: a task that was settled stays in the queue.
AbortQueuedOnly(t) ==
  /\ call[t] = "queued"
  /\ call' = [call EXCEPT ![t] = "refused"]
  /\ UNCHANGED <<queue, asked, online, vouched, wire, agent>>

\* onAbort of runTask, for a task that was not handed over.
AbortQueued(t) ==
  /\ call[t] = "queued"
  /\ Settle(t, "refused")
  /\ UNCHANGED <<online, vouched, wire, agent>>

\* onAbort of runTask, for a task the agent has to be told about.
AbortSent(t) ==
  /\ call[t] = "sent" /\ t \notin asked
  /\ asked' = asked \cup {t}
  /\ Panel(Kicked(queue, call, asked'))
  /\ UNCHANGED <<online, request, agent>>

\* cancelTimer: the agent did not confirm in CANCEL_GRACE_MS.
CancelGrace(t) ==
  /\ t \in asked
  /\ Settle(t, "failed")
  /\ UNCHANGED <<online, vouched, wire, agent>>

\* sweepTasks: a task took too long.  The poll that waits, if any, is told first.
TimeOut(t) ==
  /\ call[t] \in {"queued", "sent"}
  /\ LET k == Kicked(queue, call, asked \cup {t})
     IN  Panel([k EXCEPT !.queue = Without(@, t),
                         !.call[t] = IF @ = "queued" THEN "refused" ELSE "failed"])
  /\ asked' = asked \ {t}
  /\ UNCHANGED <<online, request, agent>>

\* sweepTasks: the server went offline before it picked up the task.
WentOffline(t) ==
  /\ call[t] = "queued" /\ ~online
  /\ Settle(t, "refused")
  /\ UNCHANGED <<online, vouched, wire, agent>>

\* sweepTasks: lost online with the server (90 s, against the 45 s of `online`).
LoseContact ==
  /\ ~online /\ Sent # {}
  /\ call' = [t \in Task |-> IF t \in Sent THEN "failed" ELSE call[t]]
  /\ asked' = asked \ Sent
  /\ UNCHANGED <<queue, online, vouched, wire, agent>>

\* agentIsStale asks again after ten minutes.
NudgeExpires ==
  /\ vouched = "nudged"
  /\ vouched' = "no"
  /\ UNCHANGED <<panel, online, wire, agent>>

FallSilent ==
  /\ online
  /\ online' = FALSE
  /\ UNCHANGED <<panel, vouched, wire, agent>>

\* The poll reaches the panel, and is answered at once or waits in the place of an
\* earlier one.
\* Before, reconcile drops what the agent does not run although it was sent 15 s ago.
PollArrives ==
  /\ request # None
  /\ \E forgotten \in SUBSET (Sent \ request.running) :
       LET c == [t \in Task |-> IF t \in forgotten THEN "lost" ELSE call[t]]
           poll == [heard |-> TRUE, idle |-> request.running = {}]
           k == Answered(poll, queue, c, asked \ forgotten)
       IN  /\ asked' = asked \ forgotten
           /\ IF k.reply = NoWork
              THEN call' = c /\ parked' = poll /\ UNCHANGED <<queue, vouched, reply>>
              ELSE Panel([k EXCEPT !.parked = parked])
  /\ request' = None
  /\ online' = TRUE
  /\ UNCHANGED agent

\* The poll has waited long enough, or its connection is seen to be closed.
PollEnds ==
  /\ parked # None
  /\ reply' = IF parked.heard THEN NoWork ELSE reply
  /\ parked' = None
  /\ UNCHANGED <<panel, online, vouched, request, agent>>

-----------------------------------------------------------------------------
(* The agent: polls.                                                       *)

Listening == request # None \/ reply # None \/ (parked # None /\ parked.heard)

\* Nobody listens to the answer of the poll any more.
Unheard == /\ request' = None /\ reply' = None
           /\ parked' = IF parked = None THEN None ELSE [parked EXCEPT !.heard = FALSE]

\* Mutant: the agent reports what is at work, without what waits for its website.
SendPollWorking ==
  /\ ~Listening /\ ~needHello
  /\ request' = [running |-> {t \in running : phase[t] = "working"}]
  /\ UNCHANGED <<panel, online, vouched, parked, reply, agent>>

SendPoll ==
  /\ ~Listening /\ ~needHello
  /\ request' = [running |-> running]
  /\ UNCHANGED <<panel, online, vouched, parked, reply, agent>>

\* The poll times out, its connection breaks, or the votes show another leader.
GiveUpPoll ==
  /\ Listening
  /\ Unheard
  /\ needHello' \in {needHello, TRUE}
  /\ UNCHANGED <<panel, online, vouched, old, work, rest>>

Live(t) == phase[t] \in {"waiting", "working"}
SameSite(t, u) == site[t] = site[u] /\ site[t] # None

\* withSiteLock: a task comes after all that joined the line of its website before it, a
\* task with a smaller place in the batch too.
Fresh(ts) == ToSet(ts) \ running
Before(ts, u, t) == \E i, j \in DOMAIN ts : i < j /\ ts[i] = u /\ ts[j] = t
AheadOf(ts, t) ==
  {u \in Task \ {t} : SameSite(t, u) /\ (Live(u) \/ (u \in Fresh(ts) /\ Before(ts, u, t)))}

\* pollLoop: first the cancels, then the tasks (runTask, executeTask).
ReplyArrives ==
  /\ reply # None
  /\ reply' = None
  /\ IF reply.rehello
     THEN /\ needHello' = (running = {})
          /\ UNCHANGED work
     ELSE /\ aborted' = aborted \cup (reply.cancel \cap running)
          /\ running' = running \cup ToSet(reply.tasks)
          /\ ahead' = [t \in Task |->
               IF t \in Fresh(reply.tasks) THEN AheadOf(reply.tasks, t) ELSE ahead[t]]
          /\ phase' = [t \in Task |->
               IF t \in Fresh(reply.tasks)
               THEN IF ahead'[t] = {} THEN "working" ELSE "waiting"
               ELSE phase[t]]
          /\ UNCHANGED needHello
  /\ UNCHANGED <<panel, online, vouched, parked, request, old, rest>>

\* The agent's process is gone, with all it was doing.
Gone ==
  /\ running' = {} /\ aborted' = {}
  /\ ahead' = [t \in Task |-> {}]
  /\ phase' = [t \in Task |->
       CASE phase[t] = "working" -> "broken" [] phase[t] = "waiting" -> "none" [] OTHER -> phase[t]]
  /\ Unheard
  /\ needHello' = TRUE

\* hello: the panel compares files; an agent with other files may update and restart,
\* whatever it is doing.
Hello ==
  /\ needHello /\ ~Listening
  /\ online' = TRUE
  /\ needHello' = FALSE
  /\ vouched' = IF ~old THEN "yes" ELSE vouched
  /\ UNCHANGED <<panel, wire, old, work, rest>>

HelloAndUpdate ==
  /\ needHello /\ ~Listening /\ old
  /\ online' = TRUE
  /\ old' = FALSE
  /\ Gone
  /\ UNCHANGED <<panel, vouched, rest>>

-----------------------------------------------------------------------------
(* The agent: tasks.                                                       *)

\* The website of t is free: the task that has waited for t alone begins.
Passed(t) == [u \in Task |-> ahead[u] \ {t}]
Begins(u, t) == phase[u] = "waiting" /\ t \in ahead[u] /\ Passed(t)[u] = {}

Rid(t) == running' = running \ {t} /\ aborted' = aborted \ {t}

\* The function of a task returns or throws.  It stays in `running` until the panel has
\* the result.
WorkEnds(t, how) ==
  /\ phase[t] = "working"
  /\ phase' = [u \in Task |-> IF u = t THEN how ELSE IF Begins(u, t) THEN "working" ELSE phase[u]]
  /\ ahead' = Passed(t)
  /\ UNCHANGED <<panel, online, vouched, wire, needHello, old, running, aborted, rest>>

\* Mutant: a cancelled task gives up its website before its function has returned.
FlushReleasing(t) ==
  /\ phase[t] = "working" /\ t \in Sent \cap asked
  /\ online' = TRUE
  /\ aborted' = aborted \cup {t}
  /\ phase' = [u \in Task |-> IF Begins(u, t) THEN "working" ELSE phase[u]]
  /\ ahead' = Passed(t)
  /\ UNCHANGED <<panel, vouched, wire, needHello, old, running, rest>>

\* TaskLog.flush: the answer says whether the task is to be cancelled.  A task that waits
\* for its website has no lines to send.
Flush(t) ==
  /\ t \in running /\ phase[t] # "waiting"
  /\ online' = TRUE
  /\ aborted' = aborted \cup ({t} \cap Sent \cap asked)
  /\ UNCHANGED <<panel, vouched, wire, needHello, old, running, phase, ahead, rest>>

Ended(t) == t \in running /\ phase[t] \in {"done", "broken"}

\* The result reaches the panel; the answer may be lost, and the agent tries again.
PostResult(t, answered) ==
  /\ Ended(t)
  /\ online' = TRUE
  /\ IF t \in Sent THEN Settle(t, IF phase[t] = "done" THEN "ok" ELSE "failed")
                   ELSE UNCHANGED panel
  /\ IF answered THEN Rid(t) ELSE UNCHANGED <<running, aborted>>
  /\ UNCHANGED <<vouched, wire, needHello, old, phase, ahead, rest>>

\* After twelve attempts the agent gives up.
GiveUpResult(t) ==
  /\ Ended(t)
  /\ Rid(t)
  /\ UNCHANGED <<panel, online, vouched, wire, needHello, old, phase, ahead, rest>>

-----------------------------------------------------------------------------
(* Restarts and updates.                                                   *)

Once == restarts < MaxRestarts /\ restarts' = restarts + 1 /\ UNCHANGED site

\* The agent's process ends.  That it cancels its tasks and waits for them for 8 s when it
\* is told to stop is left out: what they do in that time they may do before.
AgentRestart ==
  /\ Once
  /\ Gone
  /\ UNCHANGED <<panel, online, vouched, old>>

\* The panel's process is gone, or another panel node takes over.
PanelRestart ==
  /\ Once
  /\ call' = [t \in Task |-> CASE call[t] = "queued" -> "refused" [] call[t] = "sent" -> "failed"
                               [] OTHER -> call[t]]
  /\ queue' = <<>> /\ asked' = {}
  /\ vouched' = "no"
  /\ parked' = None /\ request' = None
  /\ needHello' \in {needHello, TRUE}
  /\ UNCHANGED <<online, reply, old, work>>

\* The panel's files change under it.
PanelUpdate ==
  /\ Once
  /\ old' = TRUE
  /\ vouched' = "no"
  /\ UNCHANGED <<panel, online, wire, needHello, work>>

-----------------------------------------------------------------------------
Init ==
  /\ call = [t \in Task |-> "new"]
  /\ queue = <<>> /\ asked = {}
  /\ online = TRUE /\ vouched = "yes"
  /\ parked = None /\ request = None /\ reply = None
  /\ needHello = FALSE /\ old = FALSE
  /\ running = {} /\ aborted = {}
  /\ phase = [t \in Task |-> "none"]
  /\ ahead = [t \in Task |-> {}]
  /\ restarts = 0
  /\ site \in [Task -> Site \cup {None}]

Next ==
  \/ \E t \in Task :
       \/ RunTask(t) \/ AbortQueued(t) \/ AbortSent(t) \/ CancelGrace(t)
       \/ TimeOut(t) \/ WentOffline(t)
       \/ \E how \in {"done", "broken"} : WorkEnds(t, how)
       \/ Flush(t) \/ GiveUpResult(t)
       \/ \E answered \in BOOLEAN : PostResult(t, answered)
  \/ LoseContact \/ NudgeExpires \/ FallSilent \/ PollArrives \/ PollEnds
  \/ SendPoll \/ GiveUpPoll \/ ReplyArrives \/ Hello \/ HelloAndUpdate
  \/ AgentRestart \/ PanelRestart \/ PanelUpdate

Spec == Init /\ [][Next]_vars

\* For TLC: no constant tells the tasks apart.
Alike == Permutations(Task)

-----------------------------------------------------------------------------
(* Properties.                                                             *)

Poll == [heard : BOOLEAN, idle : BOOLEAN]

TypeOK ==
  /\ call \in [Task -> {"new", "queued", "sent", "ok", "failed", "lost", "refused"}]
  /\ queue \in Seq(Task) /\ IsInjective(queue)
  /\ ToSet(queue) = {t \in Task : call[t] = "queued"}
  /\ asked \subseteq Sent
  /\ online \in BOOLEAN /\ vouched \in {"yes", "no", "nudged"}
  /\ parked \in Poll \cup {None}
  /\ request \in [running : SUBSET Task] \cup {None}
  /\ reply = None \/ reply \in [tasks : Seq(Task), cancel : SUBSET Task, rehello : BOOLEAN]
  /\ running \subseteq Task /\ aborted \subseteq running
  /\ phase \in [Task -> {"none", "waiting", "working", "done", "broken"}]
  /\ ahead \in [Task -> SUBSET Task]
  /\ restarts \in 0 .. MaxRestarts /\ site \in [Task -> Site \cup {None}]

\* kick: a poll waits at the panel only while there is nothing to tell its agent: no task
\* in the queue, and no cancel of a task it was sent.
NobodyWaitsAtTheDoor == parked # None => queue = <<>> /\ asked \cap Sent = {}

\* reconcile: "The agent lost this task (it probably restarted). Try again."  What is
\* reported so is not at work on the agent, will not begin, and has no result on its way.
LostMeansGone ==
  \A t \in Task : call[t] = "lost" =>
    /\ t \notin running /\ phase[t] \notin {"waiting", "working"}
    /\ reply = None \/ t \notin ToSet(reply.tasks)

\* shared/tasks.mjs: "One mutating task per site at a time", also when the panel has
\* given up on the first, or has restarted, and sends another.
OneTaskPerSite ==
  \A t, u \in Task :
    phase[t] = "working" /\ phase[u] = "working" /\ site[t] = site[u] /\ site[t] # None => t = u

\* The promise to the callers (CallOnce): no task takes effect twice, what was refused
\* before it was handed over never begins, and what is reported done was done.
Outcome(t) ==
  CASE call[t] = "new" -> "none" [] call[t] = "queued" -> "pending" [] call[t] = "sent" -> "handed"
    [] call[t] \in {"failed", "lost"} -> "error" [] OTHER -> call[t]
Effect(t) ==
  CASE phase[t] \in {"none", "waiting"} -> "none" [] phase[t] = "working" -> "started" [] OTHER -> phase[t]

Promise == INSTANCE CallOnce WITH
  outcome <- [t \in Task |-> Outcome(t)], effect <- [t \in Task |-> Effect(t)]
PromiseStep == [Promise!Next]_<<call, phase>>
ImplementsCallOnce == Promise!Spec

\* jobs.mjs: "Cancellation aborts `signal`; the function should stop promptly."  A task
\* that is told while it waits for its website does not begin its work.
CancelledNeverBegins ==
  [][\A t \in aborted : phase[t] = "waiting" => phase'[t] # "working"]_vars

\* cluster.mjs, staleReply: "Out of date and idle: have it reconnect (which updates it)".
\* An update does not break off what the agent is doing.
UpdatesWhenIdle == [][HelloAndUpdate => running = {}]_vars
=============================================================================
