------------------------------ MODULE Traffic ------------------------------
(***************************************************************************)
(* Counting a website's traffic (panel/lib/analytics.mjs, the log tails of   *)
(* panel/lib/cluster.mjs and node/node-agent.mjs): nginx writes a line per   *)
(* request on the main server and on the edges, the active panel reads the   *)
(* main server's file itself when it runs there, and the agents ship the     *)
(* others'.  Files are rotated and truncated, posts get lost or are sent     *)
(* twice, panels crash and another one takes over.  Counters are the lines   *)
(* they count.                                                               *)
(***************************************************************************)
EXTENDS Naturals, Sequences, FiniteSets

CONSTANTS
  Server, Main,      \* servers with a front door; the main server
  Panel, PanelMain,  \* panel nodes; the one on the main server
  Visitor, Bot,
  None,
  MaxLines, MaxDays, MaxFaults, MaxInodes  \* bounds for TLC

VARIABLES
  written,   \* every line, in the order written: [who, day]
  log,       \* per server: its files by inode (lines), the current one, the one nginx has open
  tail,      \* the active panel's place in the main server's file, [ino, pos], or None
  ship,      \* per server: the agent's place, or None
  post,      \* per server: lines in a call to the panel
  active,    \* the panel node that leads
  mem,       \* its counters: [requests, ids]; ids: visitor ids per day
  salts,     \* per panel node: the salt of each day, in its salt.json (0: none)
  disk,      \* per panel node: the saved counters
  today, grace,
  newSalt,   \* salts made so far
  double, cut, before, moved,  \* for the properties, see there
  faults

files == <<written, log>>
places == <<tail, ship, post>>
panels == <<active, mem, salts, disk, newSalt>>
clock == <<today, grace>>
notes == <<cut, before, moved>>
vars == <<files, places, panels, clock, double, notes, faults>>

Day == 1..MaxDays
LinesOf(s) == {s[i] : i \in DOMAIN s}
Fault == faults < MaxFaults /\ faults' = faults + 1
MainLocal == active = PanelMain
NoCounters == [requests |-> {}, ids |-> [d \in Day |-> {}]]
FileOf(s) == log[s].file[log[s].cur]

-----------------------------------------------------------------------------
(* The front doors' files.                                                   *)

Write(s, who) ==
  /\ Len(written) < MaxLines
  /\ written' = Append(written, [who |-> who, day |-> today])
  /\ log' = [log EXCEPT ![s].file[log[s].open] = Append(@, Len(written'))]
  /\ UNCHANGED <<places, panels, clock, double, notes, faults>>
\* logrotate: renamed and created; nginx opens the new file some time later.
Rotate(s) ==
  /\ log[s].cur < MaxInodes /\ log[s].open = log[s].cur
  /\ log' = [log EXCEPT ![s].cur = @ + 1]
  /\ UNCHANGED <<written, places, panels, clock, double, notes, faults>>
Reopen(s) ==
  /\ log[s].open # log[s].cur
  /\ log' = [log EXCEPT ![s].open = log[s].cur]
  /\ UNCHANGED <<written, places, panels, clock, double, notes, faults>>
Truncate(s) ==
  /\ FileOf(s) # <<>> /\ Fault
  /\ log' = [log EXCEPT ![s].file[log[s].cur] = <<>>]
  /\ UNCHANGED <<written, places, panels, clock, double, notes>>
NextDay ==
  /\ today < MaxDays
  /\ today' = today + 1 /\ grace' = TRUE
  /\ UNCHANGED <<files, places, panels, double, notes, faults>>

-----------------------------------------------------------------------------
(* Counting.                                                                 *)

\* Today's salt, and yesterday's for ten minutes.
HasSalt(d) == d = today \/ (d = today - 1 /\ grace)
\* A page view by a person; bots, assets and failures are requests only.
PageView(l) == written[l].who # Bot
Days(lines) == {written[l].day : l \in {k \in lines : PageView(k) /\ HasSalt(written[k].day)}}
Count(lines) ==
  LET \* in salt.json before the first id is made with it
      salt == [d \in Day |-> IF d \in Days(lines) /\ salts[active][d] = 0
                             THEN newSalt + 1 ELSE salts[active][d]]
  IN  /\ double' = double \cup (lines \cap mem.requests)
      /\ mem' = [requests |-> mem.requests \cup lines,
                 ids |-> [d \in Day |-> mem.ids[d] \cup
                   {<<salt[d], written[l].who>> : l \in {k \in lines : d \in Days({k})}}]]
      /\ salts' = [salts EXCEPT ![active] = salt]
      /\ newSalt' = IF salt = salts[active] THEN newSalt ELSE newSalt + 1

\* Rotated, or truncated: from the start.  What the old file still had is not counted.
PlaceIn(t) ==
  IF t.ino # log[Main].cur \/ Len(FileOf(Main)) < t.pos
  THEN [ino |-> log[Main].cur, pos |-> 0]
  ELSE t
\* At first sight: the end.
AtEnd(s) == [ino |-> log[s].cur, pos |-> Len(FileOf(s))]
ReadsLog ==
  /\ MainLocal
  /\ IF tail = None
     THEN tail' = AtEnd(Main) /\ UNCHANGED <<mem, salts, newSalt, double>>
     ELSE LET at == PlaceIn(tail)
              new == {FileOf(Main)[i] : i \in at.pos + 1 .. Len(FileOf(Main))} IN
          /\ new # {} \/ at # tail
          /\ tail' = [at EXCEPT !.pos = Len(FileOf(Main))]
          /\ Count(new)
  /\ UNCHANGED <<files, ship, post, active, disk, clock, notes, faults>>

-----------------------------------------------------------------------------
(* The agents.                                                               *)

\* The open file, which may have been renamed, is read to its end.
Unread(s) ==
  LET f == log[s].file[ship[s].ino] IN
  {f[i] : i \in (IF Len(f) < ship[s].pos THEN 1 ELSE ship[s].pos + 1) .. Len(f)}
\* Then the new file from its start.
FollowsTo(s) ==
  IF ship[s].ino # log[s].cur THEN LinesOf(FileOf(s)) ELSE {}
Collect(s) ==
  /\ post[s] = {}
  /\ IF ship[s] = None
     THEN ship' = [ship EXCEPT ![s] = AtEnd(s)] /\ UNCHANGED post
     ELSE /\ ship[s] # AtEnd(s)
          /\ ship' = [ship EXCEPT ![s] = AtEnd(s)]
          /\ post' = [post EXCEPT ![s] = Unread(s) \cup FollowsTo(s)]
  /\ UNCHANGED <<files, tail, panels, clock, double, notes, faults>>
\* mutant: whatever a server with a front door sends is counted
FromAll(s) == post[s]
\* POST /agent/edge/logs: the main server's lines are ignored where the panel reads
\* them itself.
Accepted(s) == IF s = Main /\ MainLocal THEN {} ELSE post[s]
Delivered(s) ==
  /\ post[s] # {}
  /\ Count(Accepted(s))
  /\ post' = [post EXCEPT ![s] = {}]
  /\ UNCHANGED <<files, tail, ship, active, disk, clock, notes, faults>>
\* No answer in time: nobody else is asked, whatever the panel did.
Dropped(s) ==
  /\ post[s] # {} /\ Fault
  /\ post' = [post EXCEPT ![s] = {}]
  /\ UNCHANGED <<files, tail, ship, panels, clock, double, notes>>
\* The connection breaks after the panel counted: the next address gets it all again.
Broken(s) ==
  /\ post[s] # {} /\ Fault
  /\ Count(Accepted(s))
  /\ cut' = cut \cup Accepted(s)
  /\ UNCHANGED <<files, places, active, disk, clock, before, moved>>
AgentRestarts(s) ==
  /\ ship[s] # None /\ Fault
  /\ ship' = [ship EXCEPT ![s] = None] /\ post' = [post EXCEPT ![s] = {}]
  /\ UNCHANGED <<files, tail, panels, clock, double, notes>>

-----------------------------------------------------------------------------
(* Saving, salts, restarts and takeovers.                                    *)

SaveMetrics ==
  /\ disk[active].requests # mem.requests
  /\ disk' = [disk EXCEPT ![active].requests = mem.requests]
  /\ UNCHANGED <<files, places, active, mem, salts, newSalt, clock, double, notes, faults>>
SaveAnalytics ==
  /\ disk[active].ids # mem.ids
  /\ disk' = [disk EXCEPT ![active].ids = mem.ids]
  /\ UNCHANGED <<files, places, active, mem, salts, newSalt, clock, double, notes, faults>>
\* Ten minutes into the day yesterday's salt goes.
Pruned(own) == [d \in Day |-> IF HasSalt(d) \/ d > today THEN own[d] ELSE 0]
GraceOver ==
  /\ grace /\ grace' = FALSE
  /\ UNCHANGED <<files, places, panels, today, double, notes, faults>>
PruneSalts ==
  /\ Pruned(salts[active]) # salts[active]
  /\ salts' = [salts EXCEPT ![active] = Pruned(@)]
  /\ UNCHANGED <<files, places, active, mem, disk, newSalt, clock, double, notes, faults>>
\* mutant: the salts are only kept in memory
NoSalts(own) == [d \in Day |-> 0]
SaltsAtStart(own) == Pruned(own)
\* A crash, or with a save first a stop.
Restarts(saved) ==
  /\ Fault
  /\ disk' = IF saved THEN [disk EXCEPT ![active] = mem] ELSE disk
  /\ mem' = disk'[active] /\ tail' = None
  /\ salts' = [salts EXCEPT ![active] = SaltsAtStart(@)]
  /\ UNCHANGED <<files, ship, post, active, newSalt, clock, double, notes>>
\* metrics.json and analytics/all.json go to the standbys, salt.json does not.
Replicate(p) ==
  /\ p # active /\ disk[p] # disk[active]
  /\ disk' = [disk EXCEPT ![p] = disk[active]]
  /\ UNCHANGED <<files, places, active, mem, salts, newSalt, clock, double, notes, faults>>
TakesOver(p) ==
  /\ p # active /\ Fault
  /\ active' = p /\ mem' = disk[p] /\ tail' = None
  /\ salts' = [salts EXCEPT ![p] = SaltsAtStart(@)]
  /\ before' = Len(written) /\ moved' = moved \cup {today, today - 1}
  /\ UNCHANGED <<files, ship, post, disk, newSalt, clock, double, cut>>

-----------------------------------------------------------------------------
Init ==
  /\ written = <<>>
  /\ log = [s \in Server |-> [file |-> [i \in 1..MaxInodes |-> <<>>], cur |-> 1, open |-> 1]]
  /\ tail = None /\ ship = [s \in Server |-> None] /\ post = [s \in Server |-> {}]
  /\ active \in Panel /\ mem = NoCounters /\ disk = [p \in Panel |-> NoCounters]
  /\ salts = [p \in Panel |-> [d \in Day |-> 0]] /\ newSalt = 0
  /\ today = 1 /\ grace = FALSE
  /\ double = {} /\ cut = {} /\ before = 0 /\ moved = {} /\ faults = 0

Next ==
  \/ \E s \in Server : \/ \E who \in Visitor \cup {Bot} : Write(s, who)
                       \/ Rotate(s) \/ Reopen(s) \/ Truncate(s)
                       \/ Collect(s) \/ Delivered(s) \/ Dropped(s) \/ Broken(s) \/ AgentRestarts(s)
  \/ NextDay \/ ReadsLog \/ SaveMetrics \/ SaveAnalytics \/ GraceOver \/ PruneSalts
  \/ \E saved \in BOOLEAN : Restarts(saved)
  \/ \E p \in Panel : Replicate(p) \/ TakesOver(p)

Spec == Init /\ [][Next]_vars

-----------------------------------------------------------------------------
\* However files are rotated and truncated, panels and agents restart and posts get
\* lost: while one panel leads no line is counted twice, but for a post whose
\* connection broke after it was counted.  Lines may stay uncounted.
CountedOnce == \A l \in double : l \in cut \/ l <= before

Once(d) == \A a \in mem.ids[d], b \in mem.ids[d] : a[2] = b[2] => a = b
\* A visitor is one visitor of the day however often the panel restarts, while no
\* other panel takes over that day.
VisitorOnce == \A d \in Day : d \notin moved => Once(d)
=============================================================================
