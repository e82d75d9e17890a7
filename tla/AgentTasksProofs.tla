-------------------------- MODULE AgentTasksProofs --------------------------
(***************************************************************************)
(* Proofs about tasks on other servers, for any tasks, websites, size of   *)
(* batches and number of restarts.                                         *)
(***************************************************************************)
EXTENDS AgentTasks, SequenceTheorems, TLAPS

-----------------------------------------------------------------------------
(* The queue: a sequence of tasks in which none occurs twice.              *)

IsQueue(q) == q \in Seq(Task) /\ IsInjective(q)

\* A sequence of tasks is indexed from 1 to its length, and holds tasks only.
LEMMA QueueParts ==
  ASSUME NEW q \in Seq(Task)
  PROVE  /\ Len(q) \in Nat /\ DOMAIN q = 1 .. Len(q)
         /\ \A i \in 1 .. Len(q) : q[i] \in Task
         /\ ToSet(q) = {q[i] : i \in 1 .. Len(q)}
         /\ ToSet(q) \subseteq Task
<1>1. DOMAIN q = 1 .. Len(q) /\ Len(q) \in Nat /\ \A i \in 1 .. Len(q) : q[i] \in Task
  BY LenProperties, ElementOfSeq
<1> QED  BY <1>1 DEF ToSet

\* The empty queue holds nothing, and it is the only one.
LEMMA EmptyQueue == IsQueue(<<>>) /\ ToSet(<<>>) = {} /\ (\A q \in Seq(Task) : ToSet(q) = {} => q = <<>>)
<1>1. <<>> \in Seq(Task) /\ Len(<<>>) = 0 /\ \A q \in Seq(Task) : q # <<>> => Len(q) \in Nat \ {0}
  BY EmptySeq
<1>2. ASSUME NEW q \in Seq(Task), q # <<>>
      PROVE  ToSet(q) # {}
  <2>1. 1 \in 1 .. Len(q)
    BY <1>1, <1>2
  <2> QED  BY <2>1, QueueParts
<1> QED  BY <1>1, <1>2, QueueParts DEF IsQueue, IsInjective, ToSet

\* queues.get(id).push: one task more at the end.
LEMMA AppendedQueue ==
  ASSUME NEW q, IsQueue(q), NEW t \in Task, t \notin ToSet(q)
  PROVE  IsQueue(Append(q, t)) /\ ToSet(Append(q, t)) = ToSet(q) \cup {t}
<1> DEFINE r == Append(q, t)
<1>1. /\ r \in Seq(Task) /\ Len(r) = Len(q) + 1
      /\ \A i \in 1 .. Len(q) : r[i] = q[i]
      /\ r[Len(q) + 1] = t
  BY AppendProperties DEF IsQueue
<1>2. /\ Len(q) \in Nat /\ DOMAIN q = 1 .. Len(q) /\ DOMAIN r = 1 .. Len(q) + 1
      /\ ToSet(q) = {q[i] : i \in 1 .. Len(q)}
      /\ ToSet(r) = {r[i] : i \in 1 .. Len(q) + 1}
  BY <1>1, QueueParts DEF IsQueue
<1> HIDE DEF r
<1>3. IsInjective(r)
  BY <1>1, <1>2 DEF IsQueue, IsInjective
<1>4. ToSet(r) = ToSet(q) \cup {t}
  BY <1>1, <1>2
<1> QED  BY <1>1, <1>3, <1>4 DEF r, IsQueue

\* takeWork: what it hands over, up to MAX_BATCH, and what it leaves share no task, and
\* it hands over nothing only when there is nothing.
LEMMA BatchAndRest ==
  ASSUME NEW q, IsQueue(q)
  PROVE  /\ IsQueue(Batch(q)) /\ IsQueue(Rest(q))
         /\ ToSet(Batch(q)) \subseteq ToSet(q)
         /\ ToSet(Rest(q)) = ToSet(q) \ ToSet(Batch(q))
         /\ Batch(q) = <<>> => q = <<>>
<1> DEFINE n == Len(q)
           m == IF n < MaxBatch THEN n ELSE MaxBatch
<1>1. /\ n \in Nat /\ DOMAIN q = 1 .. n /\ ToSet(q) = {q[i] : i \in 1 .. n}
      /\ \A i \in 1 .. n : q[i] \in Task
  BY QueueParts DEF IsQueue
<1>2. m \in Nat /\ m <= n /\ (m = 0 => n = 0)
  BY <1>1, BatchesAndBounds
<1>3. /\ Batch(q) \in Seq(Task) /\ Len(Batch(q)) = m
      /\ \A i \in 1 .. m : Batch(q)[i] = q[i]
  <2>1. \A i \in 1 .. m : q[i] \in Task
    BY <1>1, <1>2
  <2>2. /\ SubSeq(q, 1, m) \in Seq(Task)
        /\ Len(SubSeq(q, 1, m)) = IF 1 <= m THEN m - 1 + 1 ELSE 0
        /\ \A i \in 1 .. m - 1 + 1 : SubSeq(q, 1, m)[i] = q[1 + i - 1]
    BY <1>2, <2>1, SubSeqProperties
  <2>3. Batch(q) = SubSeq(q, 1, m)
    BY DEF Batch
  <2> HIDE DEF m, n
  <2> QED  BY <1>2, <2>2, <2>3
<1>4. /\ Rest(q) \in Seq(Task) /\ Len(Rest(q)) = n - m
      /\ \A i \in 1 .. n - m : Rest(q)[i] = q[m + i]
  <2> HIDE DEF m, n
  <2>1. \A i \in m + 1 .. n : q[i] \in Task
    BY <1>1, <1>2
  <2>2. /\ SubSeq(q, m + 1, n) \in Seq(Task)
        /\ Len(SubSeq(q, m + 1, n)) = IF m + 1 <= n THEN n - (m + 1) + 1 ELSE 0
        /\ \A i \in 1 .. n - (m + 1) + 1 : SubSeq(q, m + 1, n)[i] = q[(m + 1) + i - 1]
    BY <1>1, <1>2, <2>1, SubSeqProperties
  <2>3. Rest(q) = SubSeq(q, m + 1, n)
    BY <1>3 DEF Rest, n
  <2> QED  BY <1>1, <1>2, <2>2, <2>3
<1>5. /\ DOMAIN Batch(q) = 1 .. m /\ ToSet(Batch(q)) = {Batch(q)[i] : i \in 1 .. m}
      /\ DOMAIN Rest(q) = 1 .. n - m /\ ToSet(Rest(q)) = {Rest(q)[i] : i \in 1 .. n - m}
  BY <1>3, <1>4, QueueParts
<1> HIDE DEF m, n
<1>6. \A i, j \in 1 .. n : q[i] = q[j] => i = j
  BY <1>1 DEF IsQueue, IsInjective
<1>7. IsInjective(Batch(q))
  BY <1>2, <1>1, <1>3, <1>5, <1>6 DEF IsInjective
<1>8. IsInjective(Rest(q))
  BY <1>2, <1>1, <1>4, <1>5, <1>6 DEF IsInjective
<1>9. ToSet(Batch(q)) \subseteq ToSet(q)
  BY <1>1, <1>2, <1>3, <1>5
<1>10. ToSet(Rest(q)) \subseteq ToSet(q) \ ToSet(Batch(q))
  <2> SUFFICES ASSUME NEW k \in 1 .. n - m
               PROVE  Rest(q)[k] \in ToSet(q) /\ Rest(q)[k] \notin ToSet(Batch(q))
    BY <1>5
  <2>1. m + k \in 1 .. n /\ Rest(q)[k] = q[m + k]
    BY <1>1, <1>2, <1>4
  <2>2. \A i \in 1 .. m : Batch(q)[i] # q[m + k]
    BY <1>1, <1>2, <1>3, <1>6, <2>1
  <2> QED  BY <1>1, <1>5, <2>1, <2>2
<1>11. ToSet(q) \ ToSet(Batch(q)) \subseteq ToSet(Rest(q))
  <2> SUFFICES ASSUME NEW i \in 1 .. n, q[i] \notin ToSet(Batch(q))
               PROVE  q[i] \in ToSet(Rest(q))
    BY <1>1
  <2>1. ~(i <= m)
    BY <1>1, <1>2, <1>3, <1>5
  <2>2. i - m \in 1 .. n - m /\ Rest(q)[i - m] = q[i]
    BY <1>1, <1>2, <1>4, <2>1
  <2> QED  BY <1>5, <2>2
<1>12. Batch(q) = <<>> => q = <<>>
  BY <1>1, <1>2, <1>3, EmptySeq DEF IsQueue, n
<1> QED  BY <1>3, <1>4, <1>7, <1>8, <1>9, <1>10, <1>11, <1>12 DEF IsQueue

\* settle takes one task out of the queue and leaves the others in their order.
LEMMA WithoutOne ==
  ASSUME NEW q, IsQueue(q), NEW t \in Task
  PROVE  IsQueue(Without(q, t)) /\ ToSet(Without(q, t)) = ToSet(q) \ {t}
<1>1. CASE t \notin ToSet(q)
  BY <1>1 DEF Without
<1>2. CASE t \in ToSet(q)
  <2> DEFINE n == Len(q)
             k == CHOOSE i \in DOMAIN q : q[i] = t
             left == SubSeq(q, 1, k - 1)
             right == SubSeq(q, k + 1, n)
             r == left \o right
  <2>1. /\ n \in Nat /\ DOMAIN q = 1 .. n /\ ToSet(q) = {q[i] : i \in 1 .. n}
        /\ \A i \in 1 .. n : q[i] \in Task
    BY QueueParts DEF IsQueue
  <2>2. k \in 1 .. n /\ q[k] = t
    BY <1>2, <2>1
  <2>3. Without(q, t) = r
    BY <1>2 DEF Without, RemoveAt
  <2> HIDE DEF k
  <2>4. /\ left \in Seq(Task) /\ Len(left) = k - 1
        /\ \A i \in 1 .. k - 1 : left[i] = q[i]
    <3>1. \A i \in 1 .. k - 1 : q[i] \in Task
      BY <2>1, <2>2
    <3>2. /\ left \in Seq(Task)
          /\ Len(left) = IF 1 <= k - 1 THEN (k - 1) - 1 + 1 ELSE 0
          /\ \A i \in 1 .. (k - 1) - 1 + 1 : left[i] = q[1 + i - 1]
      BY <2>2, <3>1, SubSeqProperties
    <3> QED  BY <2>1, <2>2, <3>2
  <2>5. /\ right \in Seq(Task) /\ Len(right) = n - k
        /\ \A i \in 1 .. n - k : right[i] = q[k + i]
    <3> HIDE DEF n
    <3>1. \A i \in k + 1 .. n : q[i] \in Task
      BY <2>1, <2>2
    <3>2. /\ right \in Seq(Task)
          /\ Len(right) = IF k + 1 <= n THEN n - (k + 1) + 1 ELSE 0
          /\ \A i \in 1 .. n - (k + 1) + 1 : right[i] = q[(k + 1) + i - 1]
      BY <2>1, <2>2, <3>1, SubSeqProperties
    <3> QED  BY <2>1, <2>2, <3>2
  <2> HIDE DEF left, right, n
  <2>6. /\ r \in Seq(Task) /\ Len(r) = n - 1
        /\ \A i \in 1 .. n - 1 : r[i] = IF i < k THEN q[i] ELSE q[i + 1]
    <3>1. /\ r \in Seq(Task) /\ Len(r) = Len(left) + Len(right)
          /\ \A i \in 1 .. Len(left) + Len(right) :
               r[i] = IF i <= Len(left) THEN left[i] ELSE right[i - Len(left)]
      BY <2>4, <2>5, ConcatProperties
    <3> QED  BY <2>1, <2>2, <2>4, <2>5, <3>1
  <2>7. DOMAIN r = 1 .. n - 1 /\ ToSet(r) = {r[i] : i \in 1 .. n - 1}
    BY <2>6, QueueParts
  <2> HIDE DEF r
  <2>8. \A i, j \in 1 .. n : q[i] = q[j] => i = j
    BY <2>1 DEF IsQueue, IsInjective
  <2>9. IsInjective(r)
    BY <2>1, <2>2, <2>6, <2>7, <2>8 DEF IsInjective
  <2>10. ToSet(r) \subseteq ToSet(q) \ {t}
    BY <2>1, <2>2, <2>6, <2>7, <2>8
  <2>11. ToSet(q) \ {t} \subseteq ToSet(r)
    <3> SUFFICES ASSUME NEW i \in 1 .. n, q[i] # t
                 PROVE  \E j \in 1 .. n - 1 : r[j] = q[i]
      BY <2>1, <2>7
    <3>1. CASE i < k
      <4>1. i \in 1 .. n - 1 /\ r[i] = q[i]
        BY <2>1, <2>2, <2>6, <3>1
      <4> QED  BY <4>1
    <3>2. CASE i > k
      <4>1. i - 1 \in 1 .. n - 1 /\ r[i - 1] = q[i]
        BY <2>1, <2>2, <2>6, <3>2
      <4> QED  BY <4>1
    <3> QED  BY <2>1, <2>2, <3>1, <3>2
  <2> QED  BY <2>3, <2>6, <2>9, <2>10, <2>11 DEF IsQueue
<1> QED  BY <1>1, <1>2

-----------------------------------------------------------------------------
(* The inductive invariant.                                                *)

Told == {"new", "queued", "sent", "ok", "failed", "lost", "refused"}
Reply == [tasks : Seq(Task), cancel : SUBSET Task, rehello : BOOLEAN]

\* The queue holds the tasks that callers know to be queued.
QueueFits(q, c) == IsQueue(q) /\ c \in [Task -> Told] /\ ToSet(q) = {t \in Task : c[t] = "queued"}

\* The agent holds one poll at a time: on its way, at the panel, or answered.
OnePoll ==
  /\ request # None => reply = None
  /\ request # None \/ reply # None => ~(parked # None /\ parked.heard)

\* A poll on its way names all that the agent runs.
PollTellsAll == request # None => running \subseteq request.running

DoorIsClear == parked # None => queue = <<>> /\ asked = {}

Polls == OnePoll /\ PollTellsAll /\ DoorIsClear

Untouched(t) == phase[t] = "none" /\ t \notin running
Carried(t) == reply # None /\ t \in ToSet(reply.tasks)

\* What the caller knows of a task, and where the task is.
TaskFits(t) ==
  /\ Carried(t) => Untouched(t) /\ call[t] \in {"sent", "failed"}
  /\ call[t] \in {"new", "queued", "refused"} => Untouched(t) /\ ~Carried(t)
  /\ call[t] = "lost" => t \notin running /\ ~Live(t) /\ ~Carried(t)
  /\ phase[t] = "waiting" => call[t] \in {"sent", "failed"}
  /\ Live(t) => t \in running
  /\ phase[t] = "working" => ahead[t] = {}

TasksFit == \A t \in Task : TaskFits(t)

\* Of two tasks of one website, one waits for the other.
InLine ==
  \A t, u \in Task : t # u /\ SameSite(t, u) /\ Live(t) /\ Live(u) => t \in ahead[u] \/ u \in ahead[t]

IInv == TypeOK /\ Polls /\ TasksFit /\ InLine

-----------------------------------------------------------------------------
(* Answers to polls.                                                       *)

\* What the panel makes of a poll: work is handed over only in an answer that the agent may
\* hear, and only what was queued is handed over.
IsAnswer(k, heard, q, c) ==
  /\ QueueFits(k.queue, k.call)
  /\ q = <<>> => k.queue = <<>>
  /\ \A t \in Task : k.call[t] = c[t] \/ (c[t] = "queued" /\ k.call[t] = "sent")
  /\ k.vouched \in {"yes", "no", "nudged"}
  /\ k.parked = None
  /\ IF heard THEN /\ k.reply \in Reply
                   /\ \A t \in ToSet(k.reply.tasks) : c[t] = "queued" /\ k.call[t] = "sent"
              ELSE k.reply = reply

\* The answers without work of PollEnds and staleReply are answers.
LEMMA NoWorkIsReply == NoWork \in Reply /\ ToSet(NoWork.tasks) = {}
                       /\ [NoWork EXCEPT !.rehello = TRUE] \in Reply
                       /\ ToSet([NoWork EXCEPT !.rehello = TRUE].tasks) = {}
BY EmptyQueue DEF NoWork, Reply, IsQueue

\* takeWork: what was queued and is in the batch is now sent; the rest is still queued.
LEMMA HandedOver ==
  ASSUME NEW q, NEW c, QueueFits(q, c)
  PROVE  /\ QueueFits(Rest(q), Handed(c, q))
         /\ \A t \in Task : Handed(c, q)[t] = c[t] \/ (c[t] = "queued" /\ Handed(c, q)[t] = "sent")
         /\ \A t \in ToSet(Batch(q)) : c[t] = "queued" /\ Handed(c, q)[t] = "sent"
         /\ q = <<>> => Rest(q) = <<>>
<1>1. /\ IsQueue(q) /\ c \in [Task -> Told] /\ ToSet(q) = {t \in Task : c[t] = "queued"}
      /\ IsQueue(Batch(q)) /\ IsQueue(Rest(q)) /\ ToSet(Batch(q)) \subseteq ToSet(q)
      /\ ToSet(Rest(q)) = ToSet(q) \ ToSet(Batch(q))
  BY BatchAndRest DEF QueueFits
<1>2. /\ Handed(c, q) \in [Task -> Told]
      /\ \A t \in Task : Handed(c, q)[t] = IF t \in ToSet(Batch(q)) THEN "sent" ELSE c[t]
  BY <1>1 DEF Handed, Told
<1>3. q = <<>> => Rest(q) = <<>>
  <2> SUFFICES ASSUME q = <<>> PROVE Rest(q) = <<>>
    OBVIOUS
  <2>1. ToSet(Rest(q)) = {}
    BY <1>1, EmptyQueue
  <2> QED  BY <1>1, <2>1, EmptyQueue DEF IsQueue
<1>4. QueueFits(Rest(q), Handed(c, q))
  BY <1>1, <1>2 DEF QueueFits
<1> QED  BY <1>1, <1>2, <1>3, <1>4

\* The finish of a poll (kick): an answer hands over only what was queued, and only when somebody listens.
LEMMA AnswerFits ==
  ASSUME TypeOK, NEW poll \in Poll, NEW q, NEW c, QueueFits(q, c), NEW a \in SUBSET Task
  PROVE  IsAnswer(Answered(poll, q, c, a), poll.heard, q, c)
<1>1. vouched \in {"yes", "no", "nudged"} /\ poll.heard \in BOOLEAN
  BY DEF TypeOK, Poll
<1>2. CASE Stale(poll.idle)
  <2> DEFINE k == [queue |-> q, call |-> c, vouched |-> "nudged", parked |-> None,
                   reply |-> IF poll.heard THEN [NoWork EXCEPT !.rehello = TRUE] ELSE reply]
  <2>1. Answered(poll, q, c, a) = k
    BY <1>2 DEF Answered
  <2>2. IsAnswer(k, poll.heard, q, c)
    BY <1>1, NoWorkIsReply DEF IsAnswer
  <2> QED  BY <2>1, <2>2
<1>3. CASE ~Stale(poll.idle)
  <2> DEFINE w == TakeWork(q, c, a)
             k == [queue |-> Rest(q), call |-> Handed(c, q), vouched |-> vouched, parked |-> None,
                   reply |-> IF poll.heard THEN w ELSE reply]
  <2>1. Answered(poll, q, c, a) = k
    BY <1>3 DEF Answered
  <2>2. w.tasks = Batch(q) /\ w \in Reply
    <3>1. Batch(q) \in Seq(Task)
      BY BatchAndRest DEF QueueFits, IsQueue
    <3> QED  BY <3>1 DEF TakeWork, NoWork, Reply
  <2> HIDE DEF w
  <2>3. IsAnswer(k, poll.heard, q, c)
    BY <1>1, <2>2, HandedOver DEF IsAnswer
  <2> QED  BY <2>1, <2>3
<1> QED  BY <1>2, <1>3

\* Whether a poll waits whose agent still listens.
Heard == parked # None /\ parked.heard

\* kick: the same, and nothing at all when no poll waits.
LEMMA KickFits ==
  ASSUME TypeOK, NEW q, NEW c, QueueFits(q, c), NEW a \in SUBSET Task
  PROVE  /\ IsAnswer(Kicked(q, c, a), Heard, q, c)
         /\ parked = None => Kicked(q, c, a).queue = q /\ Kicked(q, c, a).call = c
<1>1. CASE parked = None
  <2> DEFINE k == [queue |-> q, call |-> c, vouched |-> vouched, parked |-> None, reply |-> reply]
  <2>1. Kicked(q, c, a) = k /\ Heard = FALSE
    BY <1>1 DEF Kicked, Heard
  <2>2. /\ k.queue = q /\ k.call = c /\ k.vouched = vouched /\ k.parked = None /\ k.reply = reply
        /\ vouched \in {"yes", "no", "nudged"}
    BY DEF TypeOK
  <2> HIDE DEF k
  <2>3. IsAnswer(k, FALSE, q, c)
    BY <2>2 DEF IsAnswer
  <2>4. IsAnswer(Kicked(q, c, a), Heard, q, c)
    BY <2>1, <2>3
  <2> QED  BY <2>1, <2>2, <2>4
<1>2. CASE parked # None
  <2>1. parked \in Poll /\ Kicked(q, c, a) = Answered(parked, q, c, a) /\ Heard = parked.heard
    BY <1>2 DEF Kicked, Heard, TypeOK, Poll
  <2> QED  BY <1>2, <2>1, AnswerFits
<1> QED  BY <1>1, <1>2

-----------------------------------------------------------------------------
(* Steps of the panel.                                                     *)

\* The queue and the callers agree, and only what was sent is asked to be cancelled.
LEMMA QueueIsKnown ==
  ASSUME TypeOK
  PROVE  QueueFits(queue, call) /\ asked \in SUBSET Task /\ asked \subseteq Sent
BY DEF TypeOK, QueueFits, IsQueue, Told, Sent

\* How the panel may change its mind about a task that the agent has not reported on.
CallMoves(t) ==
  \/ call'[t] = call[t]
  \/ call[t] = "new" /\ call'[t] \in {"queued", "sent"}
  \/ call[t] = "queued" /\ call'[t] \in {"sent", "failed", "refused"}
  \/ call[t] = "sent" /\ call'[t] = "failed"
  \/ call[t] = "sent" /\ call'[t] = "lost" /\ request # None /\ t \notin request.running

\* The answer on its way stays the same, or it is one to a poll that was heard.
ReplyMoves ==
  \/ reply' = reply
  \/ /\ reply' \in Reply /\ request' = None
     /\ \A t \in ToSet(reply'.tasks) : call[t] \in {"new", "queued"} /\ call'[t] \in {"sent", "failed"}

\* A step of the panel's side keeps the invariant when it moves the tasks as CallMoves says.
LEMMA PanelStep ==
  ASSUME IInv, UNCHANGED agent, online' \in BOOLEAN, vouched' \in {"yes", "no", "nudged"},
         QueueFits(queue', call'), asked' \subseteq {t \in Task : call'[t] = "sent"},
         parked' \in Poll \cup {None}, DoorIsClear', OnePoll',
         request' \in {request, None},
         \A t \in Task : CallMoves(t), ReplyMoves
  PROVE  IInv'
<1> USE DEF agent, work, rest
<1>1. reply' = None \/ reply' \in Reply
  BY DEF IInv, TypeOK, ReplyMoves, Reply
<1>2. TypeOK'
  <2>1. asked' \subseteq Sent' /\ request' \in [running : SUBSET Task] \cup {None}
    BY DEF IInv, TypeOK, Sent
  <2>2. /\ call' \in [Task -> Told] /\ queue' \in Seq(Task) /\ IsInjective(queue')
        /\ ToSet(queue') = {t \in Task : call'[t] = "queued"}
    BY DEF QueueFits, IsQueue
  <2> QED  BY <1>1, <2>1, <2>2 DEF IInv, TypeOK, Told, Reply
<1>3. PollTellsAll'
  BY DEF IInv, Polls, PollTellsAll
<1>4. TasksFit'
  <2> SUFFICES ASSUME NEW t \in Task
               PROVE  TaskFits(t)'
    BY DEF TasksFit
  <2>1. TaskFits(t) /\ CallMoves(t) /\ (Untouched(t)' = Untouched(t)) /\ (Live(t)' = Live(t))
    BY DEF IInv, TasksFit, Untouched, Live
  <2>2. request # None /\ t \notin request.running => t \notin running /\ ~Carried(t) /\ ~Live(t)
    BY <2>1 DEF IInv, Polls, OnePoll, PollTellsAll, Carried, TaskFits
  <2>3. CASE reply' = reply
    <3>1. Carried(t)' = Carried(t)
      BY <2>3 DEF Carried
    <3> QED  BY <2>1, <2>2, <3>1 DEF TaskFits, CallMoves, Live, Untouched
  <2>4. CASE /\ reply' \in Reply
             /\ \A u \in ToSet(reply'.tasks) : call[u] \in {"new", "queued"} /\ call'[u] \in {"sent", "failed"}
    <3>1. Carried(t)' => call[t] \in {"new", "queued"} /\ call'[t] \in {"sent", "failed"}
      BY <2>4 DEF Carried
    <3> QED  BY <2>1, <2>2, <3>1 DEF TaskFits, CallMoves, Live, Untouched
  <2> QED  BY <2>3, <2>4 DEF ReplyMoves
<1>5. InLine'
  BY DEF IInv, InLine, SameSite, Live
<1> QED  BY <1>2, <1>3, <1>4, <1>5 DEF IInv, Polls

\* What becomes of the panel, and of its answers, when it answers the poll that waits.
IsKicked(k, q, c) ==
  /\ QueueFits(k.queue, k.call) /\ k.vouched \in {"yes", "no", "nudged"} /\ k.parked = None
  /\ \A t \in Task : k.call[t] = c[t] \/ (c[t] = "queued" /\ k.call[t] = "sent")
  /\ \/ k.reply = reply
     \/ /\ k.reply \in Reply /\ request = None
        /\ \A t \in ToSet(k.reply.tasks) : t \in Task /\ c[t] = "queued" /\ k.call[t] = "sent"

\* kick, in a state of the system: a poll that is heard is not on its way as well.
LEMMA KickStep ==
  ASSUME IInv, NEW q, NEW c, QueueFits(q, c), NEW a \in SUBSET Task
  PROVE  IsKicked(Kicked(q, c, a), q, c)
<1> DEFINE k == Kicked(q, c, a)
<1>1. TypeOK /\ (Heard => request = None)
  BY DEF IInv, Polls, OnePoll, Heard
<1>2. IsAnswer(k, Heard, q, c)
  BY <1>1, KickFits
<1> HIDE DEF k
<1>3. k.reply \in Reply => ToSet(k.reply.tasks) \subseteq Task
  BY QueueParts DEF Reply
<1> QED  BY <1>1, <1>2, <1>3 DEF IsAnswer, IsKicked, k

\* The panel takes up a task, perhaps, answers the poll that waits, and may settle tasks.
LEMMA AfterKick ==
  ASSUME IInv, NEW k, NEW q, NEW c, IsKicked(k, q, c),
         \A u \in Task : c[u] = call[u] \/ (call[u] = "new" /\ c[u] = "queued"),
         UNCHANGED <<online, request, agent>>,
         parked' = None, vouched' = k.vouched, reply' = k.reply,
         QueueFits(queue', call'), asked' \subseteq {u \in Task : call'[u] = "sent"},
         \A u \in Task : \/ call'[u] = k.call[u]
                         \/ c[u] = call[u] /\ k.call[u] = "queued" /\ call'[u] = "refused"
                         \/ c[u] = call[u] /\ k.call[u] = "sent" /\ call'[u] = "failed"
  PROVE  IInv'
<1>1. \A u \in Task : CallMoves(u)
  <2> SUFFICES ASSUME NEW u \in Task PROVE CallMoves(u)
    OBVIOUS
  <2>1. k.call[u] = c[u] \/ (c[u] = "queued" /\ k.call[u] = "sent")
    BY DEF IsKicked
  <2>2. call[u] \in Told
    BY QueueIsKnown DEF IInv, QueueFits
  <2> QED  BY <2>1, <2>2 DEF CallMoves, Told
<1>2. ReplyMoves
  BY DEF ReplyMoves, IsKicked
<1>3. OnePoll' /\ DoorIsClear' /\ parked' \in Poll \cup {None} /\ request' \in {request, None}
  <2>1. reply' # None => request' = None
    BY DEF IInv, Polls, OnePoll, IsKicked
  <2> QED  BY <2>1 DEF OnePoll, DoorIsClear
<1>4. online' \in BOOLEAN /\ vouched' \in {"yes", "no", "nudged"} /\ UNCHANGED agent
  BY DEF IInv, TypeOK, IsKicked
<1> QED  BY <1>1, <1>2, <1>3, <1>4, PanelStep

\* runTask keeps the invariant.
LEMMA RunTaskStep ==
  ASSUME IInv, NEW t \in Task, RunTask(t)
  PROVE  IInv'
<1> DEFINE q == Append(queue, t)
           c == [call EXCEPT ![t] = "queued"]
           k == Kicked(q, c, asked)
<1>1. call[t] = "new" /\ Panel(k) /\ UNCHANGED <<asked, online, request, agent>>
  BY DEF RunTask
<1>2. QueueFits(queue, call) /\ asked \in SUBSET Task /\ asked \subseteq Sent
  BY QueueIsKnown DEF IInv
<1>3. QueueFits(q, c)
  <2>1. t \notin ToSet(queue) /\ call \in [Task -> Told]
    BY <1>1, <1>2 DEF QueueFits
  <2>2. IsQueue(q) /\ ToSet(q) = ToSet(queue) \cup {t}
    BY <1>2, <2>1, AppendedQueue DEF QueueFits
  <2> QED  BY <1>2, <2>1, <2>2 DEF QueueFits, Told
<1> HIDE DEF q
<1>4. IsKicked(k, q, c)
  BY <1>2, <1>3, KickStep
<1>5. \A u \in Task : c[u] = IF u = t THEN "queued" ELSE call[u]
  BY <1>2 DEF QueueFits
<1> HIDE DEF k, c
<1>6. queue' = k.queue /\ call' = k.call /\ vouched' = k.vouched /\ parked' = None /\ reply' = k.reply
  BY <1>1, <1>4 DEF Panel, IsKicked
<1>7. asked' \subseteq {u \in Task : call'[u] = "sent"}
  BY <1>1, <1>2, <1>4, <1>5, <1>6 DEF Sent, IsKicked
<1>8. QueueFits(queue', call')
  BY <1>4, <1>6 DEF IsKicked
<1>9. \A u \in Task : c[u] = call[u] \/ (call[u] = "new" /\ c[u] = "queued")
  BY <1>1, <1>5
<1> QED  BY <1>1, <1>4, <1>6, <1>7, <1>8, <1>9, AfterKick

\* onAbort of a task that was sent keeps the invariant.
LEMMA AbortSentStep ==
  ASSUME IInv, NEW t \in Task, AbortSent(t)
  PROVE  IInv'
<1> DEFINE k == Kicked(queue, call, asked')
<1>1. call[t] = "sent" /\ asked' = asked \cup {t} /\ Panel(k) /\ UNCHANGED <<online, request, agent>>
  BY DEF AbortSent
<1>2. QueueFits(queue, call) /\ asked' \in SUBSET Task /\ asked \subseteq Sent
  BY <1>1, QueueIsKnown DEF IInv
<1>3. IsKicked(k, queue, call)
  BY <1>2, KickStep
<1> HIDE DEF k
<1>4. queue' = k.queue /\ call' = k.call /\ vouched' = k.vouched /\ parked' = None /\ reply' = k.reply
  BY <1>1, <1>3 DEF Panel, IsKicked
<1>5. asked' \subseteq {u \in Task : call'[u] = "sent"}
  BY <1>1, <1>2, <1>3, <1>4 DEF Sent, IsKicked
<1>6. QueueFits(queue', call')
  BY <1>3, <1>4 DEF IsKicked
<1> QED  BY <1>1, <1>3, <1>4, <1>5, <1>6, AfterKick

\* sweepTasks, for a task that took too long, keeps the invariant.
LEMMA TimeOutStep ==
  ASSUME IInv, NEW t \in Task, TimeOut(t)
  PROVE  IInv'
<1> DEFINE a == asked \cup {t}
           k == Kicked(queue, call, a)
<1>1. /\ call[t] \in {"queued", "sent"} /\ asked' = asked \ {t}
      /\ Panel([k EXCEPT !.queue = Without(@, t), !.call[t] = IF @ = "queued" THEN "refused" ELSE "failed"])
      /\ UNCHANGED <<online, request, agent>>
  BY DEF TimeOut
<1>2. QueueFits(queue, call) /\ a \in SUBSET Task /\ asked \subseteq Sent
  BY <1>1, QueueIsKnown DEF IInv
<1>3. IsKicked(k, queue, call)
  BY <1>2, KickStep
<1>4. /\ queue' = Without(k.queue, t)
      /\ call' = [k.call EXCEPT ![t] = IF @ = "queued" THEN "refused" ELSE "failed"]
      /\ vouched' = k.vouched /\ parked' = k.parked /\ reply' = k.reply
  BY <1>1 DEF Panel, Kicked, Answered
<1> HIDE DEF k
<1>5. k.call \in [Task -> Told] /\ ToSet(k.queue) = {u \in Task : k.call[u] = "queued"} /\ IsQueue(k.queue)
  BY <1>3 DEF IsKicked, QueueFits
<1>6. \A u \in Task : k.call[u] = call[u] \/ (call[u] = "queued" /\ k.call[u] = "sent")
  BY <1>3 DEF IsKicked
<1>7. \A u \in Task : call'[u] = IF u # t THEN k.call[u]
                                ELSE IF k.call[t] = "queued" THEN "refused" ELSE "failed"
  BY <1>4, <1>5
<1>8. QueueFits(queue', call')
  <2>1. IsQueue(queue') /\ ToSet(queue') = ToSet(k.queue) \ {t}
    BY <1>4, <1>5, WithoutOne
  <2>2. call' \in [Task -> Told]
    BY <1>4, <1>5 DEF Told
  <2> QED  BY <1>5, <1>7, <2>1, <2>2 DEF QueueFits
<1>9. asked' \subseteq {u \in Task : call'[u] = "sent"}
  BY <1>1, <1>2, <1>6, <1>7 DEF Sent
<1>10. \A u \in Task : \/ call'[u] = k.call[u]
                       \/ k.call[u] = "queued" /\ call'[u] = "refused"
                       \/ k.call[u] = "sent" /\ call'[u] = "failed"
  BY <1>1, <1>6, <1>7
<1>11. parked' = None
  BY <1>3, <1>4 DEF IsKicked
<1> QED  BY <1>1, <1>3, <1>4, <1>8, <1>9, <1>10, <1>11, AfterKick

\* A caller gets its answer.
LEMMA SettleFits ==
  ASSUME TypeOK, NEW t \in Task, NEW how \in Told \ {"queued", "sent"}, Settle(t, how)
  PROVE  /\ QueueFits(queue', call')
         /\ asked' \subseteq {u \in Task : call'[u] = "sent"} /\ asked' \subseteq asked
         /\ \A u \in Task : call'[u] = IF u = t THEN how ELSE call[u]
         /\ queue = <<>> => queue' = <<>>
<1>1. QueueFits(queue, call) /\ asked \subseteq Sent
  BY QueueIsKnown
<1>2. call \in [Task -> Told] /\ ToSet(queue) = {u \in Task : call[u] = "queued"} /\ IsQueue(queue)
  BY <1>1 DEF QueueFits
<1>3. /\ call' = [call EXCEPT ![t] = how] /\ queue' = Without(queue, t) /\ asked' = asked \ {t}
  BY DEF Settle
<1>4. call' \in [Task -> Told] /\ \A u \in Task : call'[u] = IF u = t THEN how ELSE call[u]
  BY <1>2, <1>3
<1>5. IsQueue(queue') /\ ToSet(queue') = ToSet(queue) \ {t}
  BY <1>2, <1>3, WithoutOne
<1>6. QueueFits(queue', call')
  BY <1>2, <1>4, <1>5 DEF QueueFits
<1>7. queue = <<>> => queue' = <<>>
  BY <1>5, EmptyQueue DEF IsQueue
<1> QED  BY <1>1, <1>3, <1>4, <1>6, <1>7 DEF Sent

\* A caller gets an error, and nothing else happens: the invariant is kept.
LEMMA SettleStep ==
  ASSUME IInv, NEW t \in Task, NEW how, Settle(t, how),
         (call[t] = "queued" /\ how = "refused") \/ (call[t] = "sent" /\ how = "failed"),
         UNCHANGED <<online, vouched, wire, agent>>
  PROVE  IInv'
<1>1. how \in Told \ {"queued", "sent"} /\ TypeOK
  BY DEF Told, IInv
<1>2. /\ QueueFits(queue', call')
      /\ asked' \subseteq {u \in Task : call'[u] = "sent"} /\ asked' \subseteq asked
      /\ \A u \in Task : call'[u] = IF u = t THEN how ELSE call[u]
      /\ queue = <<>> => queue' = <<>>
  BY <1>1, SettleFits
<1>3. \A u \in Task : CallMoves(u)
  BY <1>2 DEF CallMoves
<1>4. OnePoll' /\ DoorIsClear' /\ ReplyMoves /\ parked' \in Poll \cup {None} /\ request' \in {request, None}
  BY <1>2 DEF IInv, Polls, OnePoll, DoorIsClear, ReplyMoves, wire, TypeOK
<1>5. online' \in BOOLEAN /\ vouched' \in {"yes", "no", "nudged"} /\ UNCHANGED agent
  BY DEF IInv, TypeOK
<1> QED  BY <1>2, <1>3, <1>4, <1>5, PanelStep

\* Steps of the panel's timers, and of the poll that waits.
LEMMA TimersStep ==
  ASSUME IInv, \/ LoseContact \/ NudgeExpires \/ FallSilent \/ PollEnds
               \/ \E t \in Task : AbortQueued(t) \/ CancelGrace(t) \/ WentOffline(t)
  PROVE  IInv'
<1>1. /\ QueueFits(queue, call) /\ asked \subseteq Sent /\ online \in BOOLEAN
      /\ vouched \in {"yes", "no", "nudged"} /\ parked \in Poll \cup {None}
  BY QueueIsKnown DEF IInv, TypeOK
<1>2. ASSUME NEW t \in Task, AbortQueued(t) \/ CancelGrace(t) \/ WentOffline(t)
      PROVE  IInv'
  <2>1. t \in asked => call[t] = "sent"
    BY <1>1 DEF Sent
  <2>2. \E how : /\ Settle(t, how)
                 /\ (call[t] = "queued" /\ how = "refused") \/ (call[t] = "sent" /\ how = "failed")
    BY <1>2, <2>1 DEF AbortQueued, CancelGrace, WentOffline
  <2>3. UNCHANGED <<online, vouched, wire, agent>>
    BY <1>2 DEF AbortQueued, CancelGrace, WentOffline
  <2> QED  BY <2>2, <2>3, SettleStep
<1>3. CASE LoseContact
  <2>1. /\ call' = [t \in Task |-> IF t \in Sent THEN "failed" ELSE call[t]]
        /\ asked' = asked \ Sent /\ UNCHANGED <<queue, online, vouched, wire, agent>>
    BY <1>3 DEF LoseContact
  <2>2. \A t \in Task : CallMoves(t)
    BY <2>1 DEF CallMoves, Sent
  <2>3. QueueFits(queue', call') /\ asked' \subseteq {t \in Task : call'[t] = "sent"}
    BY <1>1, <2>1 DEF QueueFits, Told, Sent
  <2>4. OnePoll' /\ DoorIsClear' /\ ReplyMoves /\ request' \in {request, None}
    BY <2>1 DEF IInv, Polls, OnePoll, DoorIsClear, ReplyMoves, wire
  <2> QED  BY <1>1, <2>1, <2>2, <2>3, <2>4, PanelStep DEF wire
<1>4. CASE NudgeExpires \/ FallSilent
  <2>1. /\ UNCHANGED <<panel, wire, agent>> /\ online' \in BOOLEAN /\ vouched' \in {"yes", "no", "nudged"}
    BY <1>1, <1>4 DEF NudgeExpires, FallSilent
  <2>2. (\A t \in Task : CallMoves(t)) /\ ReplyMoves
    BY <2>1 DEF CallMoves, ReplyMoves, panel, wire
  <2>3. OnePoll' /\ DoorIsClear'
    BY <2>1 DEF IInv, Polls, OnePoll, DoorIsClear, panel, wire
  <2>4. QueueFits(queue', call') /\ asked' \subseteq {t \in Task : call'[t] = "sent"}
    BY <1>1, <2>1 DEF panel, Sent
  <2> QED  BY <1>1, <2>1, <2>2, <2>3, <2>4, PanelStep DEF wire
<1>5. CASE PollEnds
  <2>1. /\ parked # None /\ parked' = None /\ reply' = IF parked.heard THEN NoWork ELSE reply
        /\ UNCHANGED <<panel, online, vouched, request, agent>>
    BY <1>5 DEF PollEnds
  <2>2. \A t \in Task : CallMoves(t)
    BY <2>1 DEF CallMoves, panel
  <2>3. request # None => ~parked.heard /\ reply = None
    BY <2>1 DEF IInv, Polls, OnePoll
  <2>4. ReplyMoves
    BY <2>1, <2>3, NoWorkIsReply DEF ReplyMoves, TypeOK, IInv
  <2>5. OnePoll' /\ DoorIsClear'
    BY <2>1, <2>3 DEF OnePoll, DoorIsClear
  <2>6. QueueFits(queue', call') /\ asked' \subseteq {t \in Task : call'[t] = "sent"}
    BY <1>1, <2>1 DEF panel, Sent
  <2> QED  BY <1>1, <2>1, <2>2, <2>4, <2>5, <2>6, PanelStep
<1> QED  BY <1>2, <1>3, <1>4, <1>5

\* An answer that says nothing has nothing to say.
LEMMA NothingToTell ==
  ASSUME NEW poll, poll.heard, NEW q, NEW c, QueueFits(q, c), NEW a, a \subseteq {t \in Task : c[t] = "sent"},
         Answered(poll, q, c, a).reply = NoWork
  PROVE  q = <<>> /\ a = {}
<1>1. ~Stale(poll.idle)
  <2>1. [NoWork EXCEPT !.rehello = TRUE] # NoWork
    BY DEF NoWork
  <2> QED  BY <2>1 DEF Answered
<1>2. TakeWork(q, c, a) = NoWork
  BY <1>1 DEF Answered
<1>3. Batch(q) = <<>> /\ {t \in a : Handed(c, q)[t] = "sent"} = {}
  BY <1>2 DEF TakeWork, NoWork
<1>4. \A t \in a : Handed(c, q)[t] = "sent"
  BY HandedOver
<1> QED  BY <1>3, <1>4, BatchAndRest DEF QueueFits

\* poll and its reconcile keep the invariant: a task is given up as lost only when the poll does not
\* name it, and then no answer carries it either.
LEMMA PollArrivesStep ==
  ASSUME IInv, PollArrives
  PROVE  IInv'
<1> DEFINE poll == [heard |-> TRUE, idle |-> request.running = {}]
<1>1. PICK forgotten \in SUBSET (Sent \ request.running) :
        LET c == [t \in Task |-> IF t \in forgotten THEN "lost" ELSE call[t]]
            k == Answered(poll, queue, c, asked \ forgotten)
        IN  /\ asked' = asked \ forgotten
            /\ IF k.reply = NoWork
               THEN call' = c /\ parked' = poll /\ UNCHANGED <<queue, vouched, reply>>
               ELSE Panel([k EXCEPT !.parked = parked])
  BY DEF PollArrives
<1>2. request # None /\ request' = None /\ online' = TRUE /\ UNCHANGED agent
  BY DEF PollArrives
<1> DEFINE c == [t \in Task |-> IF t \in forgotten THEN "lost" ELSE call[t]]
           a == asked \ forgotten
           k == Answered(poll, queue, c, a)
<1>3. /\ QueueFits(queue, call) /\ asked \subseteq Sent /\ parked \in Poll \cup {None}
      /\ vouched \in {"yes", "no", "nudged"} /\ TypeOK
  BY QueueIsKnown DEF IInv, TypeOK
<1>4. reply = None /\ ~(parked # None /\ parked.heard) /\ (parked # None => queue = <<>> /\ asked = {})
  BY <1>2 DEF IInv, Polls, OnePoll, DoorIsClear
<1>5. /\ \A t \in Task : c[t] = IF t \in forgotten THEN "lost" ELSE call[t]
      /\ c \in [Task -> Told]
  BY <1>3 DEF QueueFits, Told
<1>6. QueueFits(queue, c) /\ a \in SUBSET Task /\ a \subseteq {t \in Task : c[t] = "sent"}
  BY <1>3, <1>5 DEF QueueFits, Sent
<1>7. poll \in Poll /\ poll.heard = TRUE /\ poll # None
  <2>1. \A b \in BOOLEAN : [heard |-> TRUE, idle |-> b] \in Poll
    BY DEF Poll
  <2>2. poll \in Poll
    BY <2>1, Zenon
  <2>3. None \notin Poll
    BY NoneIsNothing DEF Poll
  <2> QED  BY <2>2, <2>3
<1> HIDE DEF poll, c
<1>8. IsAnswer(k, TRUE, queue, c)
  BY <1>3, <1>6, <1>7, AnswerFits
<1>9. \A t \in Task : call[t] \in Told /\ (t \in forgotten => call[t] = "sent" /\ t \notin request.running)
  BY <1>3 DEF QueueFits, Sent
<1>10. CASE k.reply = NoWork
  <2>1. call' = c /\ parked' = poll /\ UNCHANGED <<queue, vouched, reply>> /\ asked' = a
    BY <1>1, <1>10 DEF c
  <2>2. queue = <<>> /\ a = {}
    BY <1>6, <1>7, <1>10, NothingToTell
  <2>3. \A t \in Task : CallMoves(t)
    BY <1>2, <1>5, <1>9, <2>1 DEF CallMoves
  <2>4. OnePoll' /\ DoorIsClear' /\ ReplyMoves
    BY <1>2, <1>4, <2>1, <2>2 DEF OnePoll, DoorIsClear, ReplyMoves
  <2> QED  BY <1>2, <1>3, <1>6, <1>7, <2>1, <2>3, <2>4, PanelStep
<1>11. CASE k.reply # NoWork
  <2>1. /\ queue' = k.queue /\ call' = k.call /\ vouched' = k.vouched /\ parked' = parked
        /\ reply' = k.reply /\ asked' = a
    BY <1>1, <1>11 DEF c, Panel, Answered
  <2> HIDE DEF k
  <2>2. \A t \in Task : k.call[t] = c[t] \/ (c[t] = "queued" /\ k.call[t] = "sent")
    BY <1>8 DEF IsAnswer
  <2>3. \A t \in Task : CallMoves(t)
    BY <1>2, <1>5, <1>9, <2>1, <2>2 DEF CallMoves
  <2>4. ReplyMoves
    <3>1. k.reply \in Reply /\ \A t \in ToSet(k.reply.tasks) : c[t] = "queued" /\ k.call[t] = "sent"
      BY <1>8 DEF IsAnswer
    <3>2. ToSet(k.reply.tasks) \subseteq Task
      BY <3>1, QueueParts DEF Reply
    <3> QED  BY <1>2, <1>5, <2>1, <3>1, <3>2 DEF ReplyMoves
  <2>5. OnePoll' /\ DoorIsClear'
    BY <1>2, <1>4, <1>8, <2>1 DEF OnePoll, DoorIsClear, IsAnswer
  <2>6. QueueFits(queue', call') /\ vouched' \in {"yes", "no", "nudged"}
    BY <1>8, <2>1 DEF IsAnswer
  <2>7. asked' \subseteq {t \in Task : call'[t] = "sent"}
    BY <1>6, <2>1, <2>2
  <2> QED  BY <1>2, <1>3, <2>1, <2>3, <2>4, <2>5, <2>6, <2>7, PanelStep
<1> QED  BY <1>10, <1>11

-----------------------------------------------------------------------------
(* Steps of the agent.                                                     *)

\* What is left of a poll that nobody listens to.
LEMMA UnheardFits ==
  ASSUME IInv, Unheard, UNCHANGED <<queue, asked>>
  PROVE  Polls' /\ parked' \in Poll \cup {None} /\ request' = None /\ reply' = None
<1>1. request' = None /\ reply' = None
  BY DEF Unheard
<1>2. parked = None => parked' = None
  BY DEF Unheard
<1>3. parked # None => parked' \in Poll /\ ~parked'.heard
  <2>1. parked # None => parked \in Poll /\ parked' = [parked EXCEPT !.heard = FALSE]
    BY DEF Unheard, IInv, TypeOK
  <2> QED  BY <2>1, Zenon DEF Poll
<1>4. DoorIsClear'
  BY <1>2 DEF IInv, Polls, DoorIsClear
<1> QED  BY <1>1, <1>2, <1>3, <1>4 DEF Polls, OnePoll, PollTellsAll

\* The agent's next poll names all that it runs.
LEMMA SendPollStep ==
  ASSUME IInv, SendPoll
  PROVE  IInv'
<1>1. /\ request' = [running |-> running] /\ reply = None /\ ~(parked # None /\ parked.heard)
      /\ UNCHANGED <<panel, online, vouched, parked, reply, agent>>
  BY DEF SendPoll, Listening
<1> USE DEF panel, agent, work, rest
<1>2. request' \in [running : SUBSET Task] /\ request'.running = running
  BY <1>1 DEF IInv, TypeOK
<1>3. TypeOK'
  BY <1>1, <1>2 DEF IInv, TypeOK, Sent
<1>4. Polls'
  BY <1>1, <1>2 DEF IInv, Polls, OnePoll, PollTellsAll, DoorIsClear
<1>5. TasksFit' /\ InLine'
  BY <1>1 DEF IInv, TasksFit, TaskFits, InLine, SameSite, Live, Untouched, Carried
<1> QED  BY <1>3, <1>4, <1>5 DEF IInv

\* A poll that the agent gives up leaves the tasks where they are.
LEMMA GiveUpPollStep ==
  ASSUME IInv, GiveUpPoll
  PROVE  IInv'
<1>1. Unheard /\ UNCHANGED <<panel, online, vouched, old, work, rest>>
  BY DEF GiveUpPoll
<1> USE DEF panel, work, rest
<1>2. Polls' /\ parked' \in Poll \cup {None} /\ request' = None /\ reply' = None
  BY <1>1, UnheardFits
<1>3. TypeOK'
  BY <1>1, <1>2 DEF IInv, TypeOK, Sent
<1>4. TasksFit' /\ InLine'
  BY <1>1, <1>2 DEF IInv, TasksFit, TaskFits, InLine, SameSite, Live, Untouched, Carried
<1> QED  BY <1>2, <1>3, <1>4 DEF IInv

\* When the agent's process is gone, so are its line at every website and the answer to its poll.
LEMMA GoneStep ==
  ASSUME IInv, Gone, UNCHANGED <<panel, site>>, online' \in BOOLEAN, UNCHANGED vouched,
         restarts' \in 0 .. MaxRestarts
  PROVE  IInv'
<1>1. /\ running' = {} /\ aborted' = {} /\ ahead' = [t \in Task |-> {}] /\ Unheard
      /\ phase' = [t \in Task |->
            CASE phase[t] = "working" -> "broken" [] phase[t] = "waiting" -> "none" [] OTHER -> phase[t]]
  BY DEF Gone
<1> USE DEF panel
<1>2. Polls' /\ parked' \in Poll \cup {None} /\ request' = None /\ reply' = None
  BY <1>1, UnheardFits
<1>3. phase \in [Task -> {"none", "waiting", "working", "done", "broken"}]
  BY DEF IInv, TypeOK
<1>4. /\ phase' \in [Task -> {"none", "waiting", "working", "done", "broken"}]
      /\ \A t \in Task : phase'[t] \notin {"waiting", "working"} /\ (phase[t] = "none" => phase'[t] = "none")
  BY <1>1, <1>3
<1>5. TypeOK'
  BY <1>1, <1>2, <1>4 DEF IInv, TypeOK, Sent
<1>6. TasksFit'
  BY <1>1, <1>2, <1>4 DEF IInv, TasksFit, TaskFits, Live, Untouched, Carried
<1>7. InLine'
  BY <1>4 DEF InLine, Live
<1> QED  BY <1>2, <1>5, <1>6, <1>7 DEF IInv

\* hello, with and without an update, and a restart keep the invariant.
LEMMA HelloStep ==
  ASSUME IInv, Hello \/ HelloAndUpdate \/ AgentRestart \/ PanelUpdate
  PROVE  IInv'
<1> USE DEF panel, wire, agent, work, rest
<1>1. CASE HelloAndUpdate
  BY <1>1, GoneStep DEF HelloAndUpdate, IInv, TypeOK
<1>2. CASE AgentRestart
  <2>1. restarts' \in 0 .. MaxRestarts
    BY <1>2, BatchesAndBounds DEF AgentRestart, Once, IInv, TypeOK
  <2> QED  BY <1>2, <2>1, GoneStep DEF AgentRestart, Once, IInv, TypeOK
<1>3. CASE Hello \/ PanelUpdate
  <2>1. /\ UNCHANGED <<panel, wire, work, site>> /\ online' \in BOOLEAN
        /\ vouched' \in {"yes", "no", "nudged"} /\ restarts' \in 0 .. MaxRestarts
    <3>1. restarts \in 0 .. MaxRestarts /\ vouched \in {"yes", "no", "nudged"} /\ online \in BOOLEAN
      BY DEF IInv, TypeOK
    <3>2. CASE Hello
      BY <3>1, <3>2 DEF Hello
    <3>3. CASE PanelUpdate
      BY <3>1, <3>3, BatchesAndBounds DEF PanelUpdate, Once
    <3> QED  BY <1>3, <3>2, <3>3
  <2>2. TypeOK'
    BY <2>1 DEF IInv, TypeOK, Sent
  <2>3. Polls'
    BY <2>1 DEF IInv, Polls, OnePoll, PollTellsAll, DoorIsClear
  <2>4. TasksFit' /\ InLine'
    BY <2>1 DEF IInv, TasksFit, TaskFits, InLine, SameSite, Live, Untouched, Carried
  <2> QED  BY <2>2, <2>3, <2>4 DEF IInv
<1> QED  BY <1>1, <1>2, <1>3

\* A new process of the panel has told every caller, and knows of no task.
LEMMA PanelRestartStep ==
  ASSUME IInv, PanelRestart
  PROVE  IInv'
<1>1. /\ call' = [t \in Task |-> CASE call[t] = "queued" -> "refused" [] call[t] = "sent" -> "failed"
                                   [] OTHER -> call[t]]
      /\ queue' = <<>> /\ asked' = {} /\ vouched' = "no" /\ parked' = None /\ request' = None
      /\ UNCHANGED <<online, reply, work, site>>
  BY DEF PanelRestart, Once
<1> USE DEF work
<1>2. restarts' \in 0 .. MaxRestarts
  BY BatchesAndBounds DEF PanelRestart, Once, IInv, TypeOK
<1>3. call \in [Task -> Told]
  BY DEF IInv, TypeOK, Told
<1>4. /\ call' \in [Task -> Told]
      /\ \A t \in Task : \/ call'[t] = call[t] /\ call[t] \notin {"queued", "sent"}
                         \/ call[t] = "queued" /\ call'[t] = "refused"
                         \/ call[t] = "sent" /\ call'[t] = "failed"
  BY <1>1, <1>3 DEF Told
<1>5. {t \in Task : call'[t] = "queued"} = {}
  BY <1>4
<1>6. TypeOK'
  BY <1>1, <1>2, <1>4, <1>5, EmptyQueue DEF IInv, TypeOK, Sent, Told, IsQueue
<1>7. Polls'
  BY <1>1 DEF Polls, OnePoll, PollTellsAll, DoorIsClear
<1>8. TasksFit'
  <2> SUFFICES ASSUME NEW t \in Task PROVE TaskFits(t)'
    BY DEF TasksFit
  <2>1. TaskFits(t) /\ (Untouched(t)' = Untouched(t)) /\ (Live(t)' = Live(t)) /\ (Carried(t)' = Carried(t))
    BY <1>1 DEF IInv, TasksFit, Untouched, Live, Carried
  <2> QED  BY <1>1, <1>4, <2>1 DEF TaskFits
<1>9. InLine'
  BY <1>1 DEF IInv, InLine, SameSite, Live
<1> QED  BY <1>6, <1>7, <1>8, <1>9 DEF IInv

\* withSiteLock: when a task returns, at most one of those behind it has nobody before it.
LEMMA WorkEndsStep ==
  ASSUME IInv, NEW t \in Task, NEW how \in {"done", "broken"}, WorkEnds(t, how)
  PROVE  IInv'
<1>1. /\ phase[t] = "working" /\ ahead' = Passed(t)
      /\ phase' = [u \in Task |-> IF u = t THEN how ELSE IF Begins(u, t) THEN "working" ELSE phase[u]]
      /\ UNCHANGED <<panel, online, vouched, wire, needHello, old, running, aborted, rest>>
  BY DEF WorkEnds
<1> USE DEF panel, wire, rest
<1>2. /\ phase \in [Task -> {"none", "waiting", "working", "done", "broken"}]
      /\ ahead \in [Task -> SUBSET Task]
  BY DEF IInv, TypeOK
<1>3. /\ ahead' \in [Task -> SUBSET Task]
      /\ \A u \in Task : ahead'[u] = ahead[u] \ {t}
  BY <1>1, <1>2 DEF Passed
<1>4. /\ phase' \in [Task -> {"none", "waiting", "working", "done", "broken"}]
      /\ phase'[t] = how
      /\ \A u \in Task \ {t} : \/ phase'[u] = phase[u]
                               \/ phase[u] = "waiting" /\ phase'[u] = "working" /\ ahead'[u] = {}
  BY <1>1, <1>2 DEF Begins
<1>5. TypeOK'
  BY <1>1, <1>3, <1>4 DEF IInv, TypeOK, Sent
<1>6. Polls'
  BY <1>1 DEF IInv, Polls, OnePoll, PollTellsAll, DoorIsClear
<1>7. TasksFit'
  <2> SUFFICES ASSUME NEW u \in Task PROVE TaskFits(u)'
    BY DEF TasksFit
  <2>1. TaskFits(u) /\ (Carried(u)' = Carried(u))
    BY <1>1 DEF IInv, TasksFit, Carried
  <2>2. call[u] \in Told
    BY DEF IInv, TypeOK, Told
  <2>3. CASE u = t
    BY <1>1, <1>4, <2>1, <2>2, <2>3 DEF TaskFits, Untouched, Live, Told
  <2>4. CASE u # t
    BY <1>1, <1>3, <1>4, <2>1, <2>2, <2>4 DEF TaskFits, Untouched, Live, Told
  <2> QED  BY <2>3, <2>4
<1>8. InLine'
  <2> SUFFICES ASSUME NEW a \in Task, NEW b \in Task, a # b, SameSite(a, b)', Live(a)', Live(b)'
               PROVE  a \in ahead'[b] \/ b \in ahead'[a]
    BY DEF InLine
  <2>1. a # t /\ b # t /\ Live(a) /\ Live(b) /\ SameSite(a, b)
    BY <1>1, <1>4 DEF Live, SameSite
  <2> QED  BY <1>3, <2>1 DEF IInv, InLine
<1> QED  BY <1>5, <1>6, <1>7, <1>8 DEF IInv

\* TaskLog.flush tells the agent of a cancel, and moves no task.
LEMMA FlushStep ==
  ASSUME IInv, NEW t \in Task, Flush(t)
  PROVE  IInv'
<1>1. /\ online' = TRUE /\ t \in running /\ aborted' = aborted \cup ({t} \cap Sent \cap asked)
      /\ UNCHANGED <<panel, vouched, wire, needHello, old, running, phase, ahead, rest>>
  BY DEF Flush
<1> USE DEF panel, wire, rest
<1>2. TypeOK'
  BY <1>1 DEF IInv, TypeOK, Sent
<1>3. Polls'
  BY <1>1 DEF IInv, Polls, OnePoll, PollTellsAll, DoorIsClear
<1>4. TasksFit' /\ InLine'
  BY <1>1 DEF IInv, TasksFit, TaskFits, InLine, SameSite, Live, Untouched, Carried
<1> QED  BY <1>2, <1>3, <1>4 DEF IInv

\* The agent has the answer to a result, or gives up on one.
LEMMA EndedStep ==
  ASSUME IInv, NEW t \in Task, Ended(t), online' \in BOOLEAN,
         Rid(t) \/ UNCHANGED <<running, aborted>>,
         UNCHANGED <<vouched, wire, needHello, old, phase, ahead, rest>>,
         QueueFits(queue', call'), asked' \subseteq {u \in Task : call'[u] = "sent"}, asked' \subseteq asked,
         queue = <<>> => queue' = <<>>,
         \A u \in Task : \/ call'[u] = call[u]
                         \/ u = t /\ call[u] = "sent" /\ call'[u] \in {"ok", "failed"}
  PROVE  IInv'
<1> USE DEF wire, rest
<1>1. running' \subseteq running /\ aborted' \subseteq running' /\ \A u \in Task \ {t} : u \in running' <=> u \in running
  BY DEF Rid, IInv, TypeOK
<1>2. t \in running /\ phase[t] \in {"done", "broken"}
  BY DEF Ended
<1>3. TypeOK'
  <2>1. /\ call' \in [Task -> Told] /\ queue' \in Seq(Task) /\ IsInjective(queue')
        /\ ToSet(queue') = {u \in Task : call'[u] = "queued"} /\ asked' \subseteq Sent'
    BY DEF QueueFits, IsQueue, Sent
  <2> QED  BY <1>1, <2>1 DEF IInv, TypeOK, Told
<1>4. Polls'
  BY <1>1 DEF IInv, Polls, OnePoll, PollTellsAll, DoorIsClear
<1>5. TasksFit'
  <2> SUFFICES ASSUME NEW u \in Task PROVE TaskFits(u)'
    BY DEF TasksFit
  <2>1. TaskFits(u) /\ (Carried(u)' = Carried(u)) /\ (Live(u)' = Live(u))
    BY DEF IInv, TasksFit, Carried, Live
  <2>2. call[u] \in Told
    BY DEF IInv, TypeOK, Told
  <2>3. CASE u = t
    BY <1>1, <1>2, <2>1, <2>2, <2>3 DEF TaskFits, Untouched, Live, Told
  <2>4. CASE u # t
    BY <1>1, <2>1, <2>4 DEF TaskFits, Untouched, Live
  <2> QED  BY <2>3, <2>4
<1>6. InLine'
  BY DEF IInv, InLine, SameSite, Live
<1> QED  BY <1>3, <1>4, <1>5, <1>6 DEF IInv

\* finish and its retries keep the invariant, whether or not the panel knows the task.
LEMMA ResultStep ==
  ASSUME IInv, NEW t \in Task, GiveUpResult(t) \/ \E answered \in BOOLEAN : PostResult(t, answered)
  PROVE  IInv'
<1>1. QueueFits(queue, call) /\ asked \subseteq Sent /\ online \in BOOLEAN /\ TypeOK
  BY QueueIsKnown DEF IInv, TypeOK
<1>2. CASE GiveUpResult(t)
  BY <1>1, <1>2, EndedStep DEF GiveUpResult, panel, Sent
<1>3. ASSUME NEW answered \in BOOLEAN, PostResult(t, answered)
      PROVE  IInv'
  <2>1. /\ Ended(t) /\ online' = TRUE /\ (Rid(t) \/ UNCHANGED <<running, aborted>>)
        /\ UNCHANGED <<vouched, wire, needHello, old, phase, ahead, rest>>
    BY <1>3 DEF PostResult
  <2>2. CASE t \in Sent
    <3>1. PICK how \in {"ok", "failed"} : Settle(t, how)
      BY <1>3, <2>2 DEF PostResult
    <3>2. how \in Told \ {"queued", "sent"}
      BY DEF Told
    <3>3. /\ QueueFits(queue', call')
          /\ asked' \subseteq {u \in Task : call'[u] = "sent"} /\ asked' \subseteq asked
          /\ \A u \in Task : call'[u] = IF u = t THEN how ELSE call[u]
          /\ queue = <<>> => queue' = <<>>
      BY <1>1, <3>1, <3>2, SettleFits
    <3>4. call[t] = "sent"
      BY <2>2 DEF Sent
    <3>5. \A u \in Task : \/ call'[u] = call[u]
                          \/ u = t /\ call[u] = "sent" /\ call'[u] \in {"ok", "failed"}
      BY <3>3, <3>4
    <3>6. online' \in BOOLEAN
      BY <2>1
    <3> QED  BY <2>1, <3>3, <3>5, <3>6, EndedStep
  <2>3. CASE t \notin Sent
    <3>1. UNCHANGED panel
      BY <1>3, <2>3 DEF PostResult
    <3>2. /\ QueueFits(queue', call') /\ asked' \subseteq {u \in Task : call'[u] = "sent"}
          /\ asked' \subseteq asked /\ (queue = <<>> => queue' = <<>>)
          /\ \A u \in Task : call'[u] = call[u]
      BY <1>1, <3>1 DEF panel, Sent
    <3>3. online' \in BOOLEAN
      BY <2>1
    <3> QED  BY <2>1, <3>2, <3>3, EndedStep
  <2> QED  BY <2>2, <2>3
<1> QED  BY <1>2, <1>3

\* pollLoop: the tasks of an answer are new to the agent, and join the line of their website
\* one behind the other.
LEMMA ReplyArrivesStep ==
  ASSUME IInv, ReplyArrives
  PROVE  IInv'
<1> DEFINE ts == reply.tasks
           F == Fresh(ts)
<1>1. reply # None /\ reply' = None /\ UNCHANGED <<panel, online, vouched, parked, request, old, rest>>
  BY DEF ReplyArrives
<1>2. /\ reply \in Reply /\ request = None
      /\ phase \in [Task -> {"none", "waiting", "working", "done", "broken"}]
      /\ ahead \in [Task -> SUBSET Task] /\ running \subseteq Task /\ aborted \subseteq running
  BY <1>1 DEF IInv, TypeOK, Polls, OnePoll, Reply
<1> USE DEF panel, rest
<1>3. Polls'
  BY <1>1, <1>2 DEF IInv, Polls, OnePoll, PollTellsAll, DoorIsClear
<1>4. CASE reply.rehello
  <2>1. UNCHANGED work
    BY <1>4 DEF ReplyArrives
  <2>2. TypeOK'
    BY <1>1, <2>1 DEF IInv, TypeOK, Sent, work
  <2>3. TasksFit' /\ InLine'
    BY <1>1, <2>1 DEF IInv, TasksFit, TaskFits, InLine, SameSite, Live, Untouched, Carried, work
  <2> QED  BY <1>3, <2>2, <2>3 DEF IInv
<1>5. CASE ~reply.rehello
  <2>1. /\ aborted' = aborted \cup (reply.cancel \cap running)
        /\ running' = running \cup ToSet(ts)
        /\ ahead' = [t \in Task |-> IF t \in F THEN AheadOf(ts, t) ELSE ahead[t]]
        /\ phase' = [t \in Task |-> IF t \in F
                       THEN IF ahead'[t] = {} THEN "working" ELSE "waiting" ELSE phase[t]]
    BY <1>5 DEF ReplyArrives
  <2>2. ts \in Seq(Task) /\ ToSet(ts) \subseteq Task /\ Len(ts) \in Nat /\ DOMAIN ts = 1 .. Len(ts)
        /\ ToSet(ts) = {ts[i] : i \in 1 .. Len(ts)}
    BY <1>2, QueueParts DEF Reply
  <2>3. /\ F \subseteq Task /\ F \subseteq ToSet(ts)
        /\ \A t \in F : Untouched(t) /\ call[t] \in {"sent", "failed"}
    BY <1>1, <2>2 DEF Fresh, IInv, TasksFit, TaskFits, Carried
  <2>4. ToSet(ts) = F
    BY <1>1, <2>2 DEF Fresh, IInv, TasksFit, TaskFits, Carried, Untouched
  <2> HIDE DEF F
  <2>5. /\ ahead' \in [Task -> SUBSET Task]
        /\ \A t \in F : ahead'[t] = AheadOf(ts, t)
        /\ \A t \in Task \ F : ahead'[t] = ahead[t]
    <3>1. \A t \in Task : AheadOf(ts, t) \in SUBSET Task
      BY DEF AheadOf
    <3> QED  BY <1>2, <2>1, <2>3, <3>1
  <2>6. /\ phase' \in [Task -> {"none", "waiting", "working", "done", "broken"}]
        /\ \A t \in F : \/ phase'[t] = "working" /\ ahead'[t] = {}
                        \/ phase'[t] = "waiting"
        /\ \A t \in Task \ F : phase'[t] = phase[t]
    BY <1>2, <2>1, <2>3
  <2>7. running' \subseteq Task /\ aborted' \subseteq running' /\ F \subseteq running'
        /\ running \subseteq running' /\ \A t \in Task \ F : t \in running' <=> t \in running
    BY <1>2, <2>1, <2>2, <2>3, <2>4
  <2>8. TypeOK'
    BY <1>1, <2>5, <2>6, <2>7 DEF IInv, TypeOK, Sent
  <2>9. TasksFit'
    <3> SUFFICES ASSUME NEW t \in Task PROVE TaskFits(t)'
      BY DEF TasksFit
    <3>1. TaskFits(t) /\ Carried(t)' = FALSE
      BY <1>1 DEF IInv, TasksFit, Carried
    <3>2. CASE t \in F
      BY <1>1, <2>3, <2>6, <2>7, <3>1, <3>2 DEF TaskFits, Live, Untouched
    <3>3. CASE t \notin F
      BY <1>1, <2>5, <2>6, <2>7, <3>1, <3>3 DEF TaskFits, Live, Untouched
    <3> QED  BY <3>2, <3>3
  <2>10. InLine'
    <3> SUFFICES ASSUME NEW t \in Task, NEW u \in Task, t # u, SameSite(t, u)', Live(t)', Live(u)'
                 PROVE  t \in ahead'[u] \/ u \in ahead'[t]
      BY DEF InLine
    <3>1. SameSite(t, u) /\ SameSite(u, t)
      BY <1>1 DEF SameSite
    <3>2. CASE t \in F /\ u \in F
      <4>1. PICK i \in 1 .. Len(ts) : ts[i] = t
        BY <2>2, <2>4, <3>2
      <4>2. PICK j \in 1 .. Len(ts) : ts[j] = u
        BY <2>2, <2>4, <3>2
      <4>3. i < j \/ j < i
        BY <2>2, <4>1, <4>2
      <4>4. Before(ts, t, u) \/ Before(ts, u, t)
        BY <2>2, <4>1, <4>2, <4>3 DEF Before
      <4>5. t \in AheadOf(ts, u) \/ u \in AheadOf(ts, t)
        BY <3>1, <3>2, <4>4 DEF AheadOf, F
      <4> QED  BY <2>5, <3>2, <4>5
    <3>3. CASE t \in F /\ u \notin F
      <4>1. Live(u)
        BY <2>6, <3>3 DEF Live
      <4> QED  BY <2>5, <3>1, <3>3, <4>1 DEF AheadOf
    <3>4. CASE t \notin F /\ u \in F
      <4>1. Live(t)
        BY <2>6, <3>4 DEF Live
      <4> QED  BY <2>5, <3>1, <3>4, <4>1 DEF AheadOf
    <3>5. CASE t \notin F /\ u \notin F
      <4>1. Live(t) /\ Live(u)
        BY <2>6, <3>5 DEF Live
      <4> QED  BY <2>5, <3>1, <3>5, <4>1 DEF IInv, InLine
    <3> QED  BY <3>2, <3>3, <3>4, <3>5
  <2> QED  BY <1>3, <2>8, <2>9, <2>10 DEF IInv
<1> QED  BY <1>4, <1>5

-----------------------------------------------------------------------------
(* The invariant holds.                                                    *)

\* The invariant holds before the first call.
LEMMA InitFits == Init => IInv
<1> SUFFICES ASSUME Init PROVE IInv
  OBVIOUS
<1>1. TypeOK
  <2>1. /\ <<>> \in Seq(Task) /\ IsInjective(<<>>) /\ ToSet(<<>>) = {}
        /\ {t \in Task : call[t] = "queued"} = {} /\ restarts \in 0 .. MaxRestarts
    BY EmptyQueue, BatchesAndBounds DEF IsQueue, Init
  <2> QED  BY <2>1 DEF Init, TypeOK, Sent
<1>2. Polls /\ TasksFit /\ InLine
  BY DEF Init, Polls, OnePoll, PollTellsAll, DoorIsClear, TasksFit, TaskFits, InLine, Untouched, Carried, Live
<1> QED  BY <1>1, <1>2 DEF IInv

\* The invariant speaks of the variables only.
LEMMA StutterFits == ASSUME IInv, UNCHANGED vars PROVE IInv'
<1> USE DEF vars, panel, wire, work, rest
<1>1. TypeOK'
  BY DEF IInv, TypeOK, Sent
<1>2. Polls'
  BY DEF IInv, Polls, OnePoll, PollTellsAll, DoorIsClear
<1>3. TasksFit' /\ InLine'
  BY DEF IInv, TasksFit, TaskFits, InLine, SameSite, Live, Untouched, Carried
<1> QED  BY <1>1, <1>2, <1>3 DEF IInv

\* Every step of the panel, of the agent and of the network keeps the invariant.
LEMMA StepFits == IInv /\ [Next]_vars => IInv'
<1> SUFFICES ASSUME IInv, [Next]_vars PROVE IInv'
  OBVIOUS
<1>1. CASE UNCHANGED vars
  BY <1>1, StutterFits
<1>2. ASSUME NEW t \in Task,
             RunTask(t) \/ AbortSent(t) \/ TimeOut(t)
      PROVE  IInv'
  BY <1>2, RunTaskStep, AbortSentStep, TimeOutStep
<1>3. ASSUME NEW t \in Task, AbortQueued(t) \/ CancelGrace(t) \/ WentOffline(t)
      PROVE  IInv'
  BY <1>3, TimersStep
<1>4. ASSUME NEW t \in Task, \E how \in {"done", "broken"} : WorkEnds(t, how)
      PROVE  IInv'
  BY <1>4, WorkEndsStep
<1>5. ASSUME NEW t \in Task, Flush(t)
      PROVE  IInv'
  BY <1>5, FlushStep
<1>6. ASSUME NEW t \in Task, GiveUpResult(t) \/ \E answered \in BOOLEAN : PostResult(t, answered)
      PROVE  IInv'
  BY <1>6, ResultStep
<1>7. CASE LoseContact \/ NudgeExpires \/ FallSilent \/ PollEnds
  BY <1>7, TimersStep
<1>8. CASE PollArrives
  BY <1>8, PollArrivesStep
<1>9. CASE SendPoll \/ GiveUpPoll \/ ReplyArrives
  BY <1>9, SendPollStep, GiveUpPollStep, ReplyArrivesStep
<1>10. CASE Hello \/ HelloAndUpdate \/ AgentRestart \/ PanelUpdate
  BY <1>10, HelloStep
<1>11. CASE PanelRestart
  BY <1>11, PanelRestartStep
<1> QED  BY <1>1, <1>2, <1>3, <1>4, <1>5, <1>6, <1>7, <1>8, <1>9, <1>10, <1>11 DEF Next

\* The inductive invariant holds: the queue is what callers were told is queued, a poll that
\* waits has nothing to tell, what was not handed over is untouched at the agent, and the tasks of
\* one website stand in line (cluster.mjs, node-agent.mjs, withSiteLock of tasks.mjs).
THEOREM Invariant == Spec => []IInv
BY InitFits, StepFits, PTL DEF Spec

\* Every variable keeps its type: no task is queued twice, the queue holds the tasks whose callers
\* were told so, and only what was sent is asked to be cancelled.
THEOREM TypeCorrect == Spec => []TypeOK
<1>1. IInv => TypeOK
  BY DEF IInv
<1> QED  BY <1>1, Invariant, PTL

\* kick: no poll is left waiting at the panel while there is a task or a cancel for its agent.
THEOREM NobodyWaits == Spec => []NobodyWaitsAtTheDoor
<1>1. IInv => NobodyWaitsAtTheDoor
  BY DEF IInv, Polls, DoorIsClear, NobodyWaitsAtTheDoor
<1> QED  BY <1>1, Invariant, PTL

\* reconcile reports as lost only what the agent neither runs nor will get to run.
THEOREM LostIsGone == Spec => []LostMeansGone
<1>1. IInv => LostMeansGone
  BY DEF IInv, TasksFit, TaskFits, LostMeansGone, Live, Carried
<1> QED  BY <1>1, Invariant, PTL

\* withSiteLock: no two tasks work on one website at a time, whatever the panel has given up on
\* and sent again.
THEOREM OneTaskAtATime == Spec => []OneTaskPerSite
<1>1. IInv => OneTaskPerSite
  <2> SUFFICES ASSUME IInv, NEW t \in Task, NEW u \in Task, phase[t] = "working", phase[u] = "working",
                      site[t] = site[u], site[t] # None
               PROVE  t = u
    BY DEF OneTaskPerSite
  <2>1. ahead[t] = {} /\ ahead[u] = {}
    BY DEF IInv, TasksFit, TaskFits
  <2> QED  BY <2>1 DEF IInv, InLine, SameSite, Live
<1> QED  BY <1>1, Invariant, PTL

-----------------------------------------------------------------------------
(* The refinement: every step keeps the promise to the callers.            *)

\* What a step may do to one task: to what its caller knows, and to its work.
CallKeeps(t) ==
  \/ call'[t] = call[t]
  \/ call[t] = "new" /\ call'[t] \in {"queued", "sent"}
  \/ call[t] = "queued" /\ call'[t] \in {"sent", "refused"}
  \/ call[t] = "sent" /\ call'[t] \in {"failed", "lost"}
  \/ call[t] = "sent" /\ call'[t] = "ok" /\ phase[t] = "done"

PhaseKeeps(t) ==
  \/ phase'[t] = phase[t]
  \/ phase[t] = "none" /\ phase'[t] \in {"waiting", "working"} /\ call[t] \in {"sent", "failed"}
  \/ phase[t] = "waiting" /\ phase'[t] = "none"
  \/ phase[t] = "waiting" /\ phase'[t] = "working" /\ call[t] \in {"sent", "failed"}
  \/ phase[t] = "working" /\ phase'[t] \in {"done", "broken"}

Keeps == \A t \in Task : CallKeeps(t) /\ PhaseKeeps(t)

\* A step that moves each task as Keeps says is a step of the promise (CallOnce).
LEMMA KeepsIsPromised == ASSUME IInv, Keeps PROVE PromiseStep
<1>1. ASSUME NEW t \in Task
      PROVE  Promise!Moves(t) /\ Promise!Works(t)
  <2>1. CallKeeps(t) /\ PhaseKeeps(t) /\ call[t] \in Told
        /\ phase[t] \in {"none", "waiting", "working", "done", "broken"}
    BY DEF Keeps, IInv, TypeOK, Told
  <2>2. Promise!Moves(t)
    BY <2>1 DEF Promise!Moves, CallKeeps, Outcome, Effect, Told
  <2>3. Promise!Works(t)
    BY <2>1 DEF Promise!Works, PhaseKeeps, Outcome, Effect, Told
  <2> QED  BY <2>2, <2>3
<1> QED  BY <1>1 DEF PromiseStep, Promise!Next

\* A step of the panel alone leaves the work as it is.
LEMMA AgentIdle == ASSUME UNCHANGED agent, \A t \in Task : CallKeeps(t) PROVE Keeps
BY DEF Keeps, PhaseKeeps, agent, work

\* runTask, a cancel and a timeout keep the promise: what is settled as never begun was in the
\* queue, and no poll was waiting for it.
LEMMA PanelKeeps ==
  ASSUME IInv, NEW t \in Task, RunTask(t) \/ AbortSent(t) \/ TimeOut(t)
  PROVE  Keeps
<1>1. UNCHANGED agent
  BY DEF RunTask, AbortSent, TimeOut
<1>2. QueueFits(queue, call) /\ asked \in SUBSET Task /\ asked \subseteq Sent /\ TypeOK
  BY QueueIsKnown DEF IInv
<1>3. CASE RunTask(t)
  <2> DEFINE q == Append(queue, t)
             c == [call EXCEPT ![t] = "queued"]
             k == Kicked(q, c, asked)
  <2>1. call[t] = "new" /\ Panel(k) /\ call \in [Task -> Told]
    BY <1>2, <1>3 DEF RunTask, QueueFits
  <2>2. QueueFits(q, c)
    <3>1. t \notin ToSet(queue)
      BY <1>2, <2>1 DEF QueueFits
    <3>2. IsQueue(q) /\ ToSet(q) = ToSet(queue) \cup {t}
      BY <1>2, <3>1, AppendedQueue DEF QueueFits
    <3> QED  BY <1>2, <2>1, <3>2 DEF QueueFits, Told
  <2> HIDE DEF q
  <2>3. IsKicked(k, q, c)
    BY <1>2, <2>2, KickStep
  <2>4. \A u \in Task : c[u] = IF u = t THEN "queued" ELSE call[u]
    BY <2>1
  <2> HIDE DEF k, c
  <2>5. \A u \in Task : CallKeeps(u)
    BY <2>1, <2>3, <2>4 DEF CallKeeps, IsKicked, Panel
  <2> QED  BY <1>1, <2>5, AgentIdle
<1>4. CASE AbortSent(t)
  <2> DEFINE k == Kicked(queue, call, asked')
  <2>1. Panel(k) /\ asked' \in SUBSET Task
    BY <1>2, <1>4 DEF AbortSent
  <2>2. IsKicked(k, queue, call)
    BY <1>2, <2>1, KickStep
  <2> HIDE DEF k
  <2>3. \A u \in Task : CallKeeps(u)
    BY <2>1, <2>2 DEF CallKeeps, IsKicked, Panel
  <2> QED  BY <1>1, <2>3, AgentIdle
<1>5. CASE TimeOut(t)
  <2> DEFINE a == asked \cup {t}
             k == Kicked(queue, call, a)
  <2>1. call[t] \in {"queued", "sent"}
        /\ Panel([k EXCEPT !.queue = Without(@, t), !.call[t] = IF @ = "queued" THEN "refused" ELSE "failed"])
    BY <1>5 DEF TimeOut
  <2>2. call' = [k.call EXCEPT ![t] = IF @ = "queued" THEN "refused" ELSE "failed"]
    BY <2>1 DEF Panel, Kicked, Answered
  <2>3. IsKicked(k, queue, call)
    BY <1>2, KickStep
  \* A task that is taken out of the queue has not been handed over just before: a poll
  \* waits only while the queue is empty.
  <2>4. k.call = call
    <3>1. CASE parked = None
      BY <1>2, <3>1, KickFits
    <3>2. CASE parked # None
      <4>1. queue = <<>>
        BY <3>2 DEF IInv, Polls, DoorIsClear
      <4>2. \A u \in Task : call[u] # "queued"
        BY <1>2, <4>1, EmptyQueue DEF QueueFits
      <4>3. \A u \in Task : k.call[u] = call[u]
        BY <2>3, <4>2 DEF IsKicked
      <4>4. k.call \in [Task -> Told] /\ call \in [Task -> Told]
        BY <1>2, <2>3 DEF IsKicked, QueueFits
      <4> HIDE DEF k
      <4> QED  BY <4>3, <4>4
    <3> QED  BY <3>1, <3>2
  <2> HIDE DEF k
  <2>5. \A u \in Task : CallKeeps(u)
    BY <1>2, <2>1, <2>2, <2>4 DEF CallKeeps, QueueFits
  <2> QED  BY <1>1, <2>5, AgentIdle
<1> QED  BY <1>3, <1>4, <1>5

\* A poll that is answered keeps the promise.
LEMMA PollKeeps == ASSUME IInv, PollArrives PROVE Keeps
<1> DEFINE poll == [heard |-> TRUE, idle |-> request.running = {}]
<1>1. PICK forgotten \in SUBSET (Sent \ request.running) :
        LET c == [t \in Task |-> IF t \in forgotten THEN "lost" ELSE call[t]]
            k == Answered(poll, queue, c, asked \ forgotten)
        IN  IF k.reply = NoWork THEN call' = c ELSE call' = k.call
  BY DEF PollArrives, Panel, Answered
<1> DEFINE c == [t \in Task |-> IF t \in forgotten THEN "lost" ELSE call[t]]
           k == Answered(poll, queue, c, asked \ forgotten)
<1>2. QueueFits(queue, call) /\ asked \ forgotten \in SUBSET Task /\ TypeOK /\ UNCHANGED agent
  BY QueueIsKnown DEF IInv, PollArrives
<1>3. /\ c \in [Task -> Told]
      /\ \A t \in Task : c[t] = call[t] \/ (call[t] = "sent" /\ c[t] = "lost")
  BY <1>2 DEF QueueFits, Told, Sent
<1>4. QueueFits(queue, c)
  BY <1>2, <1>3 DEF QueueFits
<1>5. poll \in Poll
  <2>1. \A b \in BOOLEAN : [heard |-> TRUE, idle |-> b] \in Poll
    BY DEF Poll
  <2> QED  BY <2>1, Zenon
<1>6. IsAnswer(k, poll.heard, queue, c)
  BY <1>2, <1>4, <1>5, AnswerFits
<1>7. call' = c \/ call' = k.call
  BY <1>1
<1> HIDE DEF k, c
<1>8. \A t \in Task : CallKeeps(t)
  BY <1>3, <1>6, <1>7 DEF CallKeeps, IsAnswer
<1> QED  BY <1>2, <1>8, AgentIdle

\* The panel's timers and its restart keep the promise.
LEMMA TimersKeep ==
  ASSUME IInv, \/ LoseContact \/ NudgeExpires \/ FallSilent \/ PollEnds \/ PanelRestart
               \/ \E t \in Task : AbortQueued(t) \/ CancelGrace(t) \/ WentOffline(t)
  PROVE  Keeps
<1>1. call \in [Task -> Told] /\ asked \subseteq Sent
  BY DEF IInv, TypeOK, Told
<1>2. ASSUME NEW t \in Task, AbortQueued(t) \/ CancelGrace(t) \/ WentOffline(t)
      PROVE  Keeps
  <2>1. UNCHANGED agent
    BY <1>2 DEF AbortQueued, CancelGrace, WentOffline
  <2>2. \/ call[t] = "queued" /\ call' = [call EXCEPT ![t] = "refused"]
        \/ call[t] = "sent" /\ call' = [call EXCEPT ![t] = "failed"]
    BY <1>1, <1>2 DEF AbortQueued, CancelGrace, WentOffline, Settle, Sent
  <2>3. \A u \in Task : CallKeeps(u)
    BY <1>1, <2>2 DEF CallKeeps
  <2> QED  BY <2>1, <2>3, AgentIdle
<1>3. CASE LoseContact \/ PanelRestart
  <2>1. \A u \in Task : phase'[u] = phase[u]
    BY <1>3 DEF LoseContact, PanelRestart, agent, work
  <2>2. \A u \in Task : call'[u] = call[u] \/ (call[u] = "queued" /\ call'[u] = "refused")
                        \/ (call[u] = "sent" /\ call'[u] = "failed")
    BY <1>3 DEF LoseContact, PanelRestart, Sent
  <2> QED  BY <2>1, <2>2 DEF Keeps, CallKeeps, PhaseKeeps
<1>4. CASE NudgeExpires \/ FallSilent \/ PollEnds
  BY <1>4 DEF NudgeExpires, FallSilent, PollEnds, panel, agent, work, Keeps, CallKeeps, PhaseKeeps
<1> QED  BY <1>2, <1>3, <1>4

\* The agent's side keeps the promise: a task begins when it has been handed over, and at most
\* once, since its effect is there to see when it is carried again.
LEMMA AgentKeeps ==
  ASSUME IInv, \/ SendPoll \/ GiveUpPoll \/ Hello \/ HelloAndUpdate \/ AgentRestart \/ PanelUpdate
               \/ ReplyArrives
               \/ \E t \in Task : \/ \E how \in {"done", "broken"} : WorkEnds(t, how)
                                  \/ Flush(t) \/ GiveUpResult(t)
  PROVE  Keeps
<1>1. \A t \in Task : CallKeeps(t)
  BY DEF SendPoll, GiveUpPoll, Hello, HelloAndUpdate, AgentRestart, PanelUpdate, ReplyArrives, WorkEnds,
         Flush, GiveUpResult, CallKeeps, panel
<1>2. phase \in [Task -> {"none", "waiting", "working", "done", "broken"}]
  BY DEF IInv, TypeOK
<1>3. CASE SendPoll \/ GiveUpPoll \/ Hello \/ PanelUpdate \/ \E t \in Task : Flush(t) \/ GiveUpResult(t)
  <2>1. UNCHANGED phase
    BY <1>3 DEF SendPoll, GiveUpPoll, Hello, PanelUpdate, Flush, GiveUpResult, agent, work
  <2> QED  BY <1>1, <2>1 DEF Keeps, PhaseKeeps
<1>4. CASE HelloAndUpdate \/ AgentRestart
  <2>1. Gone
    BY <1>4 DEF HelloAndUpdate, AgentRestart
  <2>2. \A t \in Task : PhaseKeeps(t)
    BY <1>2, <2>1 DEF Gone, PhaseKeeps
  <2> QED  BY <1>1, <2>2 DEF Keeps
<1>5. ASSUME NEW t \in Task, NEW how \in {"done", "broken"}, WorkEnds(t, how)
      PROVE  Keeps
  <2>1. /\ phase[t] = "working"
        /\ phase' = [u \in Task |-> IF u = t THEN how ELSE IF Begins(u, t) THEN "working" ELSE phase[u]]
    BY <1>5 DEF WorkEnds
  <2>2. \A u \in Task : phase[u] = "waiting" => call[u] \in {"sent", "failed"}
    BY DEF IInv, TasksFit, TaskFits
  <2>3. \A u \in Task : PhaseKeeps(u)
    BY <1>2, <2>1, <2>2 DEF PhaseKeeps, Begins
  <2> QED  BY <1>1, <2>3 DEF Keeps
<1>6. CASE ReplyArrives
  <2>1. CASE reply.rehello
    <3>1. UNCHANGED phase
      BY <1>6, <2>1 DEF ReplyArrives, work
    <3> QED  BY <1>1, <3>1 DEF Keeps, PhaseKeeps
  <2>2. CASE ~reply.rehello
    <3>1. \A t \in Task : phase'[t] = phase[t]
            \/ (t \in ToSet(reply.tasks) /\ reply # None /\ phase'[t] \in {"waiting", "working"})
      BY <1>6, <2>2 DEF ReplyArrives, Fresh
    <3>2. \A t \in Task : t \in ToSet(reply.tasks) /\ reply # None
                            => phase[t] = "none" /\ call[t] \in {"sent", "failed"}
      BY DEF IInv, TasksFit, TaskFits, Carried, Untouched
    <3>3. \A t \in Task : PhaseKeeps(t)
      BY <3>1, <3>2 DEF PhaseKeeps
    <3> QED  BY <1>1, <3>3 DEF Keeps
  <2> QED  BY <2>1, <2>2
<1> QED  BY <1>3, <1>4, <1>5, <1>6

\* A result is reported as ok only when the work was done.
LEMMA ResultKeeps ==
  ASSUME IInv, NEW t \in Task, NEW answered \in BOOLEAN, PostResult(t, answered)
  PROVE  Keeps
<1>1. UNCHANGED phase /\ call \in [Task -> Told] /\ phase[t] \in {"done", "broken"}
  BY DEF PostResult, IInv, TypeOK, Told, Ended
<1>2. \/ UNCHANGED call
      \/ /\ call[t] = "sent"
         /\ call' = [call EXCEPT ![t] = IF phase[t] = "done" THEN "ok" ELSE "failed"]
  BY DEF PostResult, Settle, Sent, panel
<1>3. \A u \in Task : CallKeeps(u)
  BY <1>1, <1>2 DEF CallKeeps
<1> QED  BY <1>1, <1>3 DEF Keeps, PhaseKeeps

\* Every step keeps the promise.
LEMMA NextKeeps == IInv /\ Next => Keeps
<1> SUFFICES ASSUME IInv, Next PROVE Keeps
  OBVIOUS
<1> QED  BY PanelKeeps, PollKeeps, TimersKeep, AgentKeeps, ResultKeeps DEF Next

\* The tasks on other servers implement CallOnce: no task takes effect twice, what was refused
\* before it was handed over never begins, and what is reported done was done (runTask and settle
\* of cluster.mjs).
THEOREM PromiseKept == Spec => ImplementsCallOnce
<1>1. Init => Promise!Init
  BY DEF Init, Promise!Init, Outcome, Effect
<1>2. IInv /\ [Next]_vars => [Promise!Next]_<<[t \in Task |-> Outcome(t)], [t \in Task |-> Effect(t)]>>
  <2> SUFFICES ASSUME IInv, [Next]_vars
               PROVE  Promise!Next \/ UNCHANGED <<[t \in Task |-> Outcome(t)], [t \in Task |-> Effect(t)]>>
    OBVIOUS
  <2>1. CASE Next
    <3>1. PromiseStep
      BY <2>1, NextKeeps, KeepsIsPromised
    <3> QED  BY <3>1 DEF PromiseStep, Outcome, Effect
  <2>2. CASE UNCHANGED vars
    BY <2>2 DEF vars, panel, work, Outcome, Effect
  <2> QED  BY <2>1, <2>2
<1> QED  BY <1>1, <1>2, Invariant, PTL DEF Spec, ImplementsCallOnce, Promise!Spec
=============================================================================
