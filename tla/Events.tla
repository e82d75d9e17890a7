------------------------------- MODULE Events -------------------------------
(***************************************************************************)
(* The live updates of a browser: the ring buffer of recent events in the   *)
(* active panel's process (server.mjs, createEvents) and the page's client   *)
(* (assets/events.js), which reads it over a stream of server-sent events    *)
(* or, when the stream does not get through, by long-polling, and remembers  *)
(* the id of the last event it was given.  An id is the time its process was *)
(* booted plus a count.  Another panel server may take over at any time;     *)
(* whoever asks a standby is proxied to it.                                  *)
(***************************************************************************)
EXTENDS Integers, Sequences, SequencesExt

CONSTANTS Servers,     \* the servers that run the panel
          None,        \* no server leads; a Hello is no event
          Buffer,      \* EVENT_BUFFER
          MaxEvents,   \* bound: events in all
          MaxFaults    \* bound: boots, step-downs, lost connections and timers that run out

Step == 10             \* apart in time are two boots (more than MaxEvents)

VARIABLES
    panel,   \* leader, boot time of each server's process (0: down), seq and recent of the leader
    stream,  \* the EventSource: es, up, the id in its address, the last id it got, chunks under way
    poll,    \* the poll loop: at, after, answer
    page,    \* mode, status, lastId, recent errors; shown and owed are history
    counts   \* bounds: events, faults

vars == <<panel, stream, poll, page, counts>>

NoStream == [es |-> "none", up |-> FALSE, url |-> 0, header |-> 0, last |-> 0, wire |-> <<>>, skipped |-> 0]
NoPoll == [at |-> "off", after |-> 0, events |-> <<>>, last |-> 0, skipped |-> 0]
Later(m, n) == IF m > n THEN m ELSE n
After(id) == SelectSeq(panel.recent, LAMBDA e : e > id)
Fault == counts.faults < MaxFaults /\ counts' = [counts EXCEPT !.faults = @ + 1]

Init ==
    /\ \E s \in Servers, boot \in [Servers -> {Step, 2 * Step}] :
          /\ \A r \in Servers : r # s => boot[r] # boot[s]
          /\ panel = [leader |-> s, boot |-> boot, seq |-> boot[s], recent |-> <<>>]
    /\ stream = [NoStream EXCEPT !.es = "asking"]
    /\ poll = NoPoll
    /\ page = [mode |-> "sse", status |-> "connecting", lastId |-> 0, errors |-> 0,
               shown |-> <<>>, owed |-> 0]
    /\ counts = [events |-> 0, faults |-> 0, clock |-> 2 * Step]

-----------------------------------------------------------------------------
(* The panel.                                                               *)

Broadcast ==
    /\ panel.leader # None
    /\ counts.events < MaxEvents
    /\ counts' = [counts EXCEPT !.events = @ + 1]
    /\ LET id == panel.seq + 1
           all == Append(panel.recent, id)
       IN /\ panel' = [panel EXCEPT !.seq = id,
                          !.recent = IF Len(all) > Buffer THEN Tail(all) ELSE all]
          /\ stream' = IF stream.es = "open" THEN [stream EXCEPT !.wire = Append(@, id)] ELSE stream
    /\ UNCHANGED <<poll, page>>

\* mutant: a stream that is opened again gets only what comes from now on
MissedNothing(last) == <<>>

Missed(last) == IF last > 0 /\ last <= panel.seq THEN After(last) ELSE <<>>

\* history: what an answer leaves out, since the page has no id yet, or one of
\* another process, or since the ring buffer has let go of it
Skipped(last) ==
    IF last = 0 \/ last > panel.seq THEN panel.seq
    ELSE IF panel.recent # <<>> /\ Head(panel.recent) > last + 1 THEN Head(panel.recent) - 1
    ELSE 0

Subscribe ==
    /\ stream.es = "asking"
    /\ panel.leader # None
    /\ LET last == IF stream.header > 0 THEN stream.header ELSE stream.url
       IN stream' = [stream EXCEPT !.es = "open", !.last = panel.seq,
                        !.wire = <<None>> \o Missed(last), !.skipped = Skipped(last)]
    /\ UNCHANGED <<panel, poll, page, counts>>

\* the answer to a poll: at once, when something newer comes, or when the wait is over
Reply ==
    /\ poll.at = "asked"
    /\ panel.leader # None
    /\ LET events == Missed(poll.after)
       IN poll' = [poll EXCEPT !.at = "answered", !.events = events,
                       !.last = IF events # <<>> THEN Last(events) ELSE panel.seq,
                       !.skipped = Skipped(poll.after)]
    /\ UNCHANGED <<panel, stream, page, counts>>

\* the leader exits, as every demotion does, or dies: its streams and polls end with it
StepDown ==
    /\ panel.leader # None
    /\ Fault
    /\ panel' = [panel EXCEPT !.leader = None, !.boot[panel.leader] = 0, !.recent = <<>>]
    /\ UNCHANGED <<stream, poll, page>>

Boot(s) ==
    /\ panel.boot[s] = 0
    /\ panel' = [panel EXCEPT !.boot[s] = counts.clock + Step]
    /\ counts' = [counts EXCEPT !.clock = @ + Step]
    /\ UNCHANGED <<stream, poll, page>>

\* another server, or the restarted one, is promoted
Promote(s) ==
    /\ panel.leader = None
    /\ panel.boot[s] # 0
    /\ stream.es # "open" /\ poll.at # "answered"
    /\ panel' = [panel EXCEPT !.leader = s, !.seq = panel.boot[s], !.recent = <<>>]
    /\ page' = [page EXCEPT !.owed = IF page.lastId > panel.boot[s] THEN page.lastId ELSE @]
    /\ UNCHANGED <<stream, poll, counts>>

-----------------------------------------------------------------------------
(* The page's stream.                                                       *)

Started == [NoStream EXCEPT !.es = "asking", !.url = page.lastId]

\* mutant: an event is shown whatever the last id is
DeliverAll(pg, ids) == [pg EXCEPT !.shown = @ \o ids, !.lastId = IF ids = <<>> THEN @ ELSE Last(ids)]

Deliver(pg, ids) ==
    LET new == SelectSeq(ids, LAMBDA e : e > pg.lastId)
    IN [pg EXCEPT !.shown = @ \o new, !.lastId = IF new = <<>> THEN @ ELSE Last(new)]

Fallback(pg) == [pg EXCEPT !.errors = 0, !.mode = "poll"]
Polling(mode) == IF mode = "poll" THEN poll ELSE [NoPoll EXCEPT !.at = "idle"]

\* a chunk arrives: the stream works, so polling stops
Receive ==
    /\ stream.es = "open"
    /\ stream.wire # <<>>
    /\ LET chunk == Head(stream.wire)
           ids == IF chunk = None THEN <<>> ELSE <<chunk>>
       IN /\ stream' = [stream EXCEPT !.up = TRUE, !.wire = Tail(@),
                           !.header = IF chunk = None THEN @ ELSE chunk]
          /\ page' = Deliver(IF stream.up THEN page
                             ELSE [page EXCEPT !.mode = "sse", !.status = "live",
                                      !.owed = Later(@, stream.skipped)], ids)
    /\ poll' = IF stream.up THEN poll ELSE NoPoll
    /\ UNCHANGED <<panel, counts>>

\* the connection is lost, with what was under way: the browser asks again by itself,
\* and the third error in a minute makes the page poll
Disconnect ==
    /\ stream.es = "open"
    /\ IF panel.leader = None THEN UNCHANGED counts ELSE Fault
    /\ IF page.errors = 2
          THEN /\ page' = Fallback(page)
               /\ stream' = NoStream
               /\ poll' = Polling(page.mode)
          ELSE /\ page' = [page EXCEPT !.errors = @ + 1,
                              !.status = IF stream.up /\ page.mode = "sse" THEN "connecting" ELSE @]
               /\ stream' = [stream EXCEPT !.es = "asking", !.up = FALSE, !.wire = <<>>]
               /\ UNCHANGED poll
    /\ UNCHANGED panel

\* 503 while nobody leads: the browser gives the stream up
Refused ==
    /\ stream.es = "asking"
    /\ panel.leader = None
    /\ IF page.mode = "poll" \/ page.errors = 2
          THEN /\ page' = Fallback(page)
               /\ stream' = NoStream
               /\ poll' = Polling(page.mode)
          ELSE /\ page' = [page EXCEPT !.errors = @ + 1]
               /\ stream' = Started
               /\ UNCHANGED poll
    /\ UNCHANGED <<panel, counts>>

\* nothing arrives for OPEN_TIMEOUT or STALL_TIMEOUT: something on the way holds it back
TimeOut ==
    /\ stream.es # "none"
    /\ Fault
    /\ page' = Fallback(page)
    /\ stream' = NoStream
    /\ poll' = Polling(page.mode)
    /\ UNCHANGED panel

\* while polling, the stream is tried again
Probe ==
    /\ page.mode = "poll"
    /\ stream.es = "none"
    /\ stream' = Started
    /\ UNCHANGED <<panel, poll, page, counts>>

-----------------------------------------------------------------------------
(* The page's poll loop.                                                    *)

Ask ==
    /\ poll.at = "idle"
    /\ poll' = [poll EXCEPT !.at = "asked", !.after = page.lastId]
    /\ UNCHANGED <<panel, stream, page, counts>>

Take ==
    /\ poll.at = "answered"
    /\ page' = [Deliver([page EXCEPT !.status = "polling"], poll.events) EXCEPT
                   !.lastId = poll.last,
                   !.owed = IF poll.after > poll.last THEN poll.last ELSE Later(@, poll.skipped)]
    /\ poll' = [NoPoll EXCEPT !.at = "idle"]
    /\ UNCHANGED <<panel, stream, counts>>

PollFails ==
    /\ poll.at \in {"asked", "answered"}
    /\ IF panel.leader = None THEN UNCHANGED counts ELSE Fault
    /\ page' = [page EXCEPT !.status = "offline"]
    /\ poll' = [NoPoll EXCEPT !.at = "idle"]
    /\ UNCHANGED <<panel, stream>>

Next ==
    \/ Broadcast \/ Subscribe \/ Reply \/ StepDown
    \/ \E s \in Servers : Boot(s) \/ Promote(s)
    \/ Receive \/ Disconnect \/ Refused \/ TimeOut \/ Probe
    \/ Ask \/ Take \/ PollFails

Spec == Init /\ [][Next]_vars

-----------------------------------------------------------------------------
TypeOK ==
    /\ panel.leader \in Servers \cup {None}
    /\ stream.es \in {"none", "asking", "open"} /\ stream.up \in BOOLEAN
    /\ stream.up => stream.es = "open"
    /\ poll.at \in {"off", "idle", "asked", "answered"}
    /\ page.mode \in {"sse", "poll"} /\ page.status \in {"connecting", "live", "polling", "offline"}
    /\ page.mode = "poll" => poll.at # "off"

Shown(id) == Contains(page.shown, id)

(* "Both transports read the same server-side ring buffer and every event   *)
(* has an increasing id, so switching never loses or repeats an event"       *)
(* (events.js): whatever connections are lost, timers run out and panels     *)
(* step down, no event is shown twice, and none the page has passed, or      *)
(* that a working stream has delivered everything up to, was left out -      *)
(* unless the ring buffer no longer held it when the page asked, the page    *)
(* had no id yet, or its id was beyond the ids of the process it asked.      *)
EachEventOnce ==
    /\ IsInjective(page.shown)
    /\ \A k \in 1 .. counts.events :
          LET id == panel.boot[panel.leader] + k
          IN panel.leader # None /\ id <= panel.seq /\ id > page.owed
             /\ (id <= page.lastId \/ (stream.up /\ stream.wire = <<>>)) => Shown(id)

(* "Ids start at the boot time in ms so they keep increasing across restarts *)
(* (a browser's stale Last-Event-ID is then always older than anything new)" *)
(* (server.mjs): a page whose stream is up and has delivered everything      *)
(* shows every event sent since the stream was opened.  Violated: a panel    *)
(* server that takes over may have been booted before the one that led, its  *)
(* ids are lower than the page's, and deliver() drops them all.              *)
LiveShowsEverything ==
    stream.up /\ stream.wire = <<>> /\ stream.url > 0 /\ panel.leader # None =>
        \A k \in 1 .. counts.events :
           LET id == stream.last + k IN id <= panel.seq => Shown(id)
=============================================================================
