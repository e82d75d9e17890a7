------------------------------- MODULE Alerts -------------------------------
(***************************************************************************)
(* Cluster alerts (panel/lib/cluster-alerts.mjs): what the active panel tells *)
(* its owners when the panel moves, when the server it left is back, and when *)
(* database replication stops or is rebuilt.  The window in which an alert is *)
(* not repeated and the watch for the lost server are kept in memory; texts   *)
(* go out one after the other through monitor.mjs, posts retry on their own.  *)
(***************************************************************************)
EXTENDS Naturals, FiniteSets

CONSTANTS
  Node,                     \* panel nodes
  Phone, Hook,              \* default recipients and Discord webhooks
  Replica,                  \* the database replica
  None,
  PerHour, MaxRetries,      \* CLUSTER_SMS_PER_HOUR, MAX_RETRIES
  MaxEvents                 \* bound for TLC

VARIABLES
  up,        \* panel nodes that run
  leader,    \* the active panel, None while there is none
  last,      \* lastLeader of each node (ha-local.json)
  mark,      \* config.ha.handover: [from, to], or None
  online,    \* nodes that polled this leader lately (panelNodes)
  pending,   \* pendingRecovery of the active panel
  fresh,     \* dedupe: the alerts of the last ten minutes
  texts,     \* texts not sent yet: [alert, left]
  posts,     \* posts under way: [alert, hook, tries]
  texting,   \* texts handed to Twilio, no answer yet: [alert, phone]
  rate,      \* monitor/state.json: [alert, phone] texted in the last ten minutes
  hour,      \* clusterHourly: texts to a phone in the last hour
  repl,      \* replication as it is: "runs" or "error"
  broken,    \* the watcher's view: "no", "since" (counting), "alerted"
  started,   \* history: texts really started in the last hour, by this process
  lost,      \* history: servers announced as lost, by this process, not yet as back
  events

moves == <<up, leader, last, mark, online>>
told == <<pending, fresh, lost>>
sending == <<texts, posts, texting, rate, hour, started>>
db == <<repl, broken>>
vars == <<moves, told, sending, db, events>>

Standbys == up \ {leader}
Alert(kind, subject) == [kind |-> kind, subject |-> subject]
Alerts == {Alert(k, n) : k \in {"failover", "handover", "recovered"}, n \in Node}
            \cup {Alert(k, Replica) : k \in {"broken", "rebuilt"}}
Happens == events < MaxEvents /\ events' = events + 1

-----------------------------------------------------------------------------
(* Sending.                                                                   *)

\* KINDS: a planned move is not texted.
Texted(a) == a.kind # "handover"

\* send: nothing if the same alert went out in the last ten minutes; remembered
\* before anything is sent.
Repeated(a) == a \in fresh
Send(a) ==
  IF Repeated(a) THEN UNCHANGED <<fresh, texts, posts>>
  ELSE /\ fresh' = fresh \cup {a}
       /\ texts' = IF Texted(a) THEN texts \cup {[alert |-> a, left |-> Phone]} ELSE texts
       /\ posts' = posts \cup {[alert |-> a, hook |-> h, tries |-> 1] : h \in Hook}

\* clusterAlert: each text is noted when it starts; a number that had its texts is passed over.
MayText(a, p) == <<a, p>> \notin rate /\ hour[p] < PerHour
\* mutant: the text is counted when Twilio answers.
NotedWhenSent(h, p) == h
Noted(h, p) == [h EXCEPT ![p] = @ + 1]
StartText ==
  \E j \in texts : \E p \in j.left :
    /\ ~\E t \in texting : t[1] = j.alert
    /\ texts' = (texts \ {j}) \cup
                  (IF j.left = {p} THEN {} ELSE {[j EXCEPT !.left = @ \ {p}]})
    /\ IF MayText(j.alert, p)
       THEN /\ texting' = texting \cup {<<j.alert, p>>}
            /\ rate' = rate \cup {<<j.alert, p>>}
            /\ hour' = Noted(hour, p)
            /\ started' = [started EXCEPT ![p] = @ + 1]
       ELSE UNCHANGED <<texting, rate, hour, started>>
    /\ UNCHANGED <<moves, told, posts, db, events>>

\* sendSms: an answer, a refusal or 15 s of silence; it is not tried again.
TextEnds ==
  \E t \in texting :
    /\ texting' = texting \ {t}
    /\ UNCHANGED <<moves, told, texts, posts, rate, hour, started, db, events>>

\* postWebhook: delivered or refused for good; otherwise again after a wait, so often.
PostEnds ==
  \E p \in posts :
    /\ posts' = posts \ {p}
    /\ UNCHANGED <<moves, told, texts, texting, rate, hour, started, db, events>>
PostRetries ==
  \E p \in posts :
    /\ p.tries <= MaxRetries
    /\ posts' = (posts \ {p}) \cup {[p EXCEPT !.tries = @ + 1]}
    /\ UNCHANGED <<moves, told, texts, texting, rate, hour, started, db, events>>

\* Ten minutes, and an hour.
TenMinutes ==
  \E a \in fresh :
    /\ ~\E j \in texts : j.alert = a
    /\ fresh' = fresh \ {a}
    /\ rate' = {r \in rate : r[1] # a}
    /\ UNCHANGED <<moves, pending, lost, texts, posts, texting, hour, started, db, events>>
AnHour ==
  /\ texts = {} /\ texting = {} /\ \E p \in Phone : hour[p] > 0
  /\ hour' = [p \in Phone |-> 0] /\ started' = hour'
  /\ UNCHANGED <<moves, told, texts, posts, texting, rate, db, events>>

-----------------------------------------------------------------------------
(* The panel moves.                                                           *)

\* A process that ends takes its memory and what it was sending with it.
Forget ==
  /\ pending' = None /\ fresh' = {} /\ lost' = {}
  /\ texts' = {} /\ posts' = {} /\ texting' = {}
  /\ hour' = [p \in Phone |-> 0] /\ started' = hour'
  /\ broken' = "no"
  /\ UNCHANGED <<rate, repl>>

Dies(n) ==
  /\ Happens /\ n \in up
  /\ up' = up \ {n}
  /\ IF n = leader THEN leader' = None /\ online' = {} /\ Forget
     ELSE UNCHANGED <<leader, online, told, sending, db>>
  /\ UNCHANGED <<last, mark>>
Boots(n) ==
  /\ n \notin up
  /\ up' = up \cup {n}
  /\ UNCHANGED <<leader, last, mark, online, told, sending, db, events>>

\* stateOk and noteNode: a standby follows the active panel, which hears its poll.
Polls(n) ==
  /\ leader # None /\ n \in Standbys
  /\ last' = [last EXCEPT ![n] = leader]
  /\ online' = online \cup {n}
  /\ <<last', online'>> # <<last, online>>
  /\ UNCHANGED <<up, leader, mark, told, sending, db, events>>
Silent(n) ==
  /\ n \in online \ up
  /\ online' = online \ {n}
  /\ UNCHANGED <<up, leader, last, mark, told, sending, db, events>>

\* Planned move: the mark is in the version the target has; the old leader restarts.
StepsDown(n) ==
  /\ Happens /\ leader # None /\ n \in online \cap Standbys
  /\ mark' = [from |-> leader, to |-> n]
  /\ up' = up \ {leader} /\ leader' = None /\ online' = {}
  /\ Forget
  /\ UNCHANGED last

\* promote, and onPromoted once the modules started.
ByHandover(n) == mark # None /\ mark.to = n
Previous(n) == IF ByHandover(n) THEN mark.from ELSE last[n]
LedBefore(n) == Previous(n) = n
Promoted(n) ==
  /\ leader = None /\ n \in up
  /\ leader' = n /\ mark' = None /\ last' = [last EXCEPT ![n] = n]
  /\ IF ByHandover(n) THEN Send(Alert("handover", n)) /\ UNCHANGED <<pending, lost>>
     ELSE IF LedBefore(n) THEN UNCHANGED <<pending, lost, fresh, texts, posts>>
     ELSE /\ Send(Alert("failover", Previous(n)))
          /\ pending' = Previous(n) /\ lost' = lost \cup {Previous(n)}
  /\ UNCHANGED <<up, online, texting, rate, hour, started, db, events>>

\* checkRecovery: by a timer and by what the servers report.
\* mutant: the watch goes on after the server was announced.
StillWatched(n) == n
Watched(n) == None
Recovered ==
  /\ leader # None /\ pending \in online
  /\ Send(Alert("recovered", pending))
  /\ pending' = Watched(pending) /\ lost' = lost \ {pending}
  /\ UNCHANGED <<moves, texting, rate, hour, started, db, events>>
\* A week has passed.
GivesUp ==
  /\ leader # None /\ pending # None
  /\ pending' = None
  /\ UNCHANGED <<moves, fresh, lost, sending, db, events>>

-----------------------------------------------------------------------------
(* Replication (tickOnce and the rebuild in panel/lib/mysql-ha.mjs).          *)

ReplChanges ==
  /\ Happens
  /\ repl' = IF repl = "runs" THEN "error" ELSE "runs"
  /\ UNCHANGED <<moves, told, sending, broken>>

Notices ==
  /\ leader # None
  /\ broken' = IF repl = "runs" THEN "no" ELSE IF broken = "no" THEN "since" ELSE broken
  /\ broken' # broken
  /\ UNCHANGED <<moves, told, sending, repl, events>>

\* The error has been there for two minutes.
AlertsBroken ==
  /\ leader # None /\ broken = "since" /\ repl = "error"
  /\ broken' = "alerted"
  /\ Send(Alert("broken", Replica))
  /\ UNCHANGED <<moves, pending, lost, texting, rate, hour, started, repl, events>>

\* A rebuild brings replication back and says so.
Rebuilt ==
  /\ Happens /\ leader # None /\ repl = "error"
  /\ repl' = "runs"
  /\ Send(Alert("rebuilt", Replica))
  /\ UNCHANGED <<moves, pending, lost, texting, rate, hour, started, broken>>

-----------------------------------------------------------------------------
Init ==
  /\ up = Node /\ \E n \in Node : leader = n /\ last = [m \in Node |-> n]
  /\ mark = None /\ online = Node \ {leader}
  /\ pending = None /\ fresh = {} /\ lost = {}
  /\ texts = {} /\ posts = {} /\ texting = {} /\ rate = {}
  /\ hour = [p \in Phone |-> 0] /\ started = hour
  /\ repl = "runs" /\ broken = "no" /\ events = 0

Next ==
  \/ \E n \in Node : Dies(n) \/ Boots(n) \/ Polls(n) \/ Silent(n) \/ StepsDown(n) \/ Promoted(n)
  \/ Recovered \/ GivesUp \/ ReplChanges \/ Notices \/ AlertsBroken \/ Rebuilt
  \/ StartText \/ TextEnds \/ PostEnds \/ PostRetries \/ TenMinutes \/ AnHour

Spec == Init /\ [][Next]_vars

-----------------------------------------------------------------------------
TypeOK ==
  /\ up \subseteq Node /\ leader \in up \cup {None} /\ last \in [Node -> Node]
  /\ mark = None \/ mark \in [from : Node, to : Node]
  /\ online \subseteq Node /\ pending \in Node \cup {None} /\ lost \subseteq Node
  /\ fresh \subseteq Alerts
  /\ texts \subseteq [alert : Alerts, left : SUBSET Phone]
  /\ posts \subseteq [alert : Alerts, hook : Hook, tries : 1..(MaxRetries + 1)]
  /\ texting \subseteq Alerts \X Phone /\ rate \subseteq Alerts \X Phone
  /\ hour \in [Phone -> Nat] /\ started \in [Phone -> Nat]
  /\ repl \in {"runs", "error"} /\ broken \in {"no", "since", "alerted"}
  /\ events \in 0..MaxEvents

\* "after a failover the previous leader is watched ... and panel.recovered is
\* sent once when it is back online as a standby": whatever the polls, restarts
\* and moves in between, nobody is announced as back twice, or without having
\* been announced as lost, and never the server the panel runs on.
RecoveryIsToldOnceStep ==
  \A n \in Node : Alert("recovered", n) \in fresh' \ fresh => n \in lost /\ n # leader
RecoveryIsToldOnce == [][RecoveryIsToldOnceStep]_vars

\* However many alerts go out at the same time, no number gets more texts in an
\* hour than the limit (CLUSTER_SMS_PER_HOUR).
TextsPerHour == \A p \in Phone : started[p] <= PerHour
=============================================================================
