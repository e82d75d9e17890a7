------------------------------ MODULE Monitor -------------------------------
(***************************************************************************)
(* The uptime monitor of one website (panel/lib/monitor.mjs): checks, the     *)
(* state they lead to, incidents, and the texts and Discord posts about them, *)
(* which take a while and go on beside the checks.                            *)
(***************************************************************************)
EXTENDS Naturals, FiniteSets

CONSTANTS
  Recipient,             \* phone numbers and webhooks
  FailThreshold, RecoverThreshold,
  Gap, Repeat,           \* SMS_MIN_GAP_MS and repeatMinutes, in ticks of the clock
  None,
  MaxTime, MaxIncidents, MaxFaults  \* bounds for TLC

VARIABLES
  probe,     \* what the check that runs found: "ok", "fails", or None
  rt,        \* runtime: [state, fails, oks, incident]
  paused,
  incidents, \* the incidents so far: [open, told, at], told: per recipient, at: when
  loops,     \* notifySms and notifyDiscord: [incident, kind, left, flying]
  rate,      \* when the last alert went to a recipient, None: not in the last day
  saved,     \* monitor/state.json: [rt, rate]
  now,       \* the clock
  alerted,   \* history: when a recipient was last sent a down alert or a reminder
  lost,      \* history: incidents that a crash took from the state file
  faults

site == <<probe, rt, paused>>
sending == <<loops, rate, alerted>>
vars == <<site, incidents, sending, saved, now, lost, faults>>

Fresh == [state |-> "unknown", fails |-> 0, oks |-> 0, incident |-> None]
Opened == [open |-> TRUE, told |-> [p \in Recipient |-> "no"], at |-> [p \in Recipient |-> 0]]
Count == Cardinality(DOMAIN incidents)

-----------------------------------------------------------------------------
(* Checks.                                                                   *)

\* tick: one check at a time; "Check now" waits for it too.
StartCheck ==
  /\ ~paused /\ probe = None
  /\ probe' \in {"ok", "fails"}
  /\ UNCHANGED <<rt, paused, incidents, sending, saved, now, lost, faults>>

\* notify: nothing, if the same kind is still being sent for this incident.
Locked(i, kind) == \E l \in loops : l.incident = i /\ l.kind = kind
Notify(i, kind, left) ==
  loops' = IF Locked(i, kind) \/ left = {} THEN loops
           ELSE loops \cup {[incident |-> i, kind |-> kind, left |-> left, flying |-> {}]}

Counted == [rt EXCEPT !.oks = IF probe = "ok" THEN (IF @ < RecoverThreshold THEN @ + 1 ELSE @) ELSE 0,
                      !.fails = IF probe = "ok" THEN 0 ELSE IF @ < FailThreshold THEN @ + 1 ELSE @]

\* The site was paused while the check ran.
Discard ==
  /\ probe # None /\ paused
  /\ probe' = None
  /\ UNCHANGED <<rt, paused, incidents, sending, saved, now, lost, faults>>
Stays ==
  /\ probe # None /\ ~paused
  /\ \/ probe = "ok" /\ (rt.state = "down" => Counted.oks < RecoverThreshold)
     \/ probe = "fails" /\ rt.state # "down" /\ Counted.fails < FailThreshold
  /\ rt' = [Counted EXCEPT !.state = IF probe = "ok" /\ @ = "unknown" THEN "up" ELSE @]
  /\ probe' = None
  /\ UNCHANGED <<paused, incidents, sending, saved, now, lost, faults>>

\* mutant: the incident is left open
LeftOpen(i) == incidents
Closed(i) == [incidents EXCEPT ![i].open = FALSE]
Recovers ==
  /\ probe = "ok" /\ ~paused /\ rt.state = "down" /\ Counted.oks = RecoverThreshold
  /\ LET i == rt.incident IN
       IF i # None /\ incidents[i].open
       THEN incidents' = Closed(i) /\ Notify(i, "up", {p \in Recipient : incidents[i].told[p] = "yes"})
       ELSE UNCHANGED <<incidents, loops>>
  /\ rt' = [Counted EXCEPT !.state = "up", !.incident = None]
  /\ probe' = None
  /\ UNCHANGED <<paused, rate, alerted, saved, now, lost, faults>>
GoesDown ==
  /\ probe = "fails" /\ ~paused /\ rt.state # "down" /\ Counted.fails = FailThreshold
  /\ Count < MaxIncidents
  /\ incidents' = [i \in 1 .. Count + 1 |-> IF i <= Count THEN incidents[i] ELSE Opened]
  /\ rt' = [Counted EXCEPT !.state = "down", !.incident = Count + 1]
  /\ Notify(Count + 1, "down", Recipient)
  /\ probe' = None
  /\ UNCHANGED <<paused, rate, alerted, saved, now, lost, faults>>
StillDown ==
  /\ probe = "fails" /\ ~paused /\ rt.state = "down"
  /\ rt' = Counted
  /\ IF rt.incident = None THEN UNCHANGED loops ELSE Notify(rt.incident, "down", Recipient)
  /\ probe' = None
  /\ UNCHANGED <<paused, incidents, rate, alerted, saved, now, lost, faults>>

-----------------------------------------------------------------------------
(* Alerts.                                                                   *)

Put(l, new) == loops' = (loops \ {l}) \cup (IF new.left = {} /\ new.flying = {} THEN {} ELSE {new})

Due(p, i) == CASE incidents[i].told[p] = "no" -> TRUE
               [] incidents[i].told[p] = "yes" -> now >= incidents[i].at[p] + Repeat
               [] OTHER -> now >= incidents[i].at[p] + Gap
Limited(p) == rate[p] # None /\ now < rate[p] + Gap

\* mutant: only the incident knows when its alert went out
NotMarked(p) == rate
Marked(p) == [rate EXCEPT ![p] = now]

\* The next recipient of a loop: the incident is over, nothing is due yet, the limit is
\* reached (noted the first time), or the alert goes out.
Pass(l, p) ==
  /\ l.kind = "down" /\ p \in l.left
  /\ ~incidents[l.incident].open \/ ~Due(p, l.incident) \/ Limited(p)
  /\ Put(l, [l EXCEPT !.left = IF incidents[l.incident].open THEN @ \ {p} ELSE {}])
  /\ incidents' = IF incidents[l.incident].open /\ incidents[l.incident].told[p] = "no"
                  THEN [incidents EXCEPT ![l.incident].told[p] = "limited", ![l.incident].at[p] = rate[p]]
                  ELSE incidents
  /\ UNCHANGED <<site, rate, alerted, saved, now, lost, faults>>
Send(l, p) ==
  /\ l.kind = "down" /\ p \in l.left
  /\ incidents[l.incident].open /\ Due(p, l.incident) /\ ~Limited(p)
  /\ rate' = Marked(p)
  /\ alerted' = [alerted EXCEPT ![p] = now]
  /\ Put(l, [l EXCEPT !.left = @ \ {p}, !.flying = @ \cup {p}])
  /\ UNCHANGED <<site, incidents, saved, now, lost, faults>>
Answered(l, p, told) ==
  /\ l.kind = "down" /\ p \in l.flying
  /\ incidents' = [incidents EXCEPT ![l.incident].told[p] = told, ![l.incident].at[p] = now]
  /\ Put(l, [l EXCEPT !.flying = @ \ {p}])
  /\ UNCHANGED <<site, rate, alerted, saved, now, lost, faults>>
TellUp(l, p) ==
  /\ l.kind = "up" /\ p \in l.left
  /\ incidents' = [incidents EXCEPT ![l.incident].told[p] = "both"]
  /\ Put(l, [l EXCEPT !.left = @ \ {p}])
  /\ UNCHANGED <<site, rate, alerted, saved, now, lost, faults>>

-----------------------------------------------------------------------------
(* Pause, restarts, time.                                                    *)

Pause ==
  /\ ~paused /\ faults < MaxFaults /\ faults' = faults + 1
  /\ paused' = TRUE
  /\ incidents' = IF rt.incident # None THEN Closed(rt.incident) ELSE incidents
  /\ rt' = Fresh
  /\ UNCHANGED <<probe, sending, saved, now, lost>>
Resume ==
  /\ paused /\ paused' = FALSE
  /\ rt' = [Fresh EXCEPT !.incident = rt.incident]
  /\ UNCHANGED <<probe, incidents, sending, saved, now, lost, faults>>

Flush ==
  /\ saved # [rt |-> rt, rate |-> rate]
  /\ saved' = [rt |-> rt, rate |-> rate]
  /\ UNCHANGED <<site, incidents, sending, now, lost, faults>>

\* mutant: a restart begins with what the checks find
Blank(s) == Fresh
\* loadState: the incident must still be open; across a gap the counters start again.
Restored(s) ==
  LET i == IF s.incident # None /\ incidents[s.incident].open THEN s.incident ELSE None
      st == IF s.state = "down" /\ i = None THEN "unknown" ELSE s.state IN
  [s EXCEPT !.state = st, !.incident = i]
Start(from, gap) ==
  /\ rt' = IF gap THEN [Restored(from.rt) EXCEPT !.fails = 0, !.oks = 0] ELSE Restored(from.rt)
  /\ rate' = from.rate
  /\ saved' = [rt |-> rt', rate |-> rate']
  /\ probe' = None /\ loops' = {}
\* stopAll flushes; another panel that takes over has the same file.
Restart(gap) ==
  /\ faults < MaxFaults /\ faults' = faults + 1
  /\ Start([rt |-> rt, rate |-> rate], gap)
  /\ UNCHANGED <<paused, incidents, alerted, now, lost>>
\* The state file is up to fifteen seconds old, db.json is not.
Crash(gap) ==
  /\ faults < MaxFaults /\ faults' = faults + 1
  /\ Start(saved, gap)
  /\ lost' = IF rt.incident # None /\ saved.rt.incident # rt.incident THEN lost \cup {rt.incident} ELSE lost
  /\ alerted' = [p \in Recipient |-> IF saved.rate[p] = rate[p] THEN alerted[p] ELSE None]
  /\ UNCHANGED <<paused, incidents, now>>

Tick == /\ now < MaxTime /\ now' = now + 1
        /\ UNCHANGED <<site, incidents, sending, saved, lost, faults>>

Init ==
  /\ probe = None /\ rt = Fresh /\ paused = FALSE
  /\ incidents = [i \in {} |-> Opened] /\ loops = {}
  /\ rate = [p \in Recipient |-> None] /\ alerted = rate
  /\ saved = [rt |-> rt, rate |-> rate] /\ now = 0 /\ lost = {} /\ faults = 0

Next ==
  \/ StartCheck \/ Discard \/ Stays \/ Recovers \/ GoesDown \/ StillDown
  \/ Pause \/ Resume \/ Flush \/ Tick
  \/ \E gap \in BOOLEAN : Restart(gap) \/ Crash(gap)
  \/ \E l \in loops, p \in Recipient :
       Pass(l, p) \/ Send(l, p) \/ TellUp(l, p) \/ \E told \in {"yes", "failed"} : Answered(l, p, told)
Spec == Init /\ [][Next]_vars

-----------------------------------------------------------------------------
(* Properties.                                                               *)

\* "Never more than one text per recipient per site per 10 minutes": also for a website
\* that goes down and up, while an earlier alert is still being sent, and after a restart
\* (notifySms and notifyDiscord, rate in state.json).
NeverTooOftenStep ==
  \A p \in Recipient : alerted'[p] # alerted[p] /\ alerted[p] # None /\ alerted'[p] # None
    => alerted'[p] >= alerted[p] + Gap
NeverTooOften == [][NeverTooOftenStep]_vars

\* There is at most one incident that is open, and it is the one the checks will close:
\* through pauses, restarts and takeovers.  A crash can take it from the state file before
\* it was saved there; such an incident stays open for good.
OpenIncidentIsWatched ==
  \A i \in DOMAIN incidents \ lost : incidents[i].open => rt.incident = i /\ rt.state = "down"

\* The module's header: 'a "back up" post to every webhook that got the alert'.  One
\* whose alert was still being sent when the website recovered gets none.
RecoveryIsTold ==
  \A i \in DOMAIN incidents, p \in Recipient :
    ~incidents[i].open /\ ~Locked(i, "up") /\ faults = 0 => incidents[i].told[p] # "yes"
=============================================================================
