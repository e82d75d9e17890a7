----------------------------- MODULE Connectors -----------------------------
(***************************************************************************)
(* A tunnel connector of the main server (panel/lib/cloudflare.mjs, class   *)
(* Connector and the requests around it): one cloudflared process, restarted *)
(* when it exits, stopped and started by requests that wait for the binary   *)
(* or for the process to end, and found again by its pid file after a crash  *)
(* of the panel, which it survives.                                          *)
(***************************************************************************)
EXTENDS Naturals, FiniteSets

CONSTANTS Calls,      \* requests under way at once
          Boot,       \* the call of startModule
          None,
          MaxPids,    \* bound: processes in all
          MaxCalls,   \* bound: requests in all
          MaxFaults   \* bound: exits, tokens refused, downloads that fail, hangs, crashes

Pids == 1 .. MaxPids

VARIABLES
    entry,   \* the record: exists, autoStart
    conn,    \* the Connector: wantRunning, proc, restartTimer, fatal
    calls,   \* [Calls \cup {Boot} -> what is left to do and where it is]
    procs,   \* [Pids -> "none", "up", "ending" (SIGTERM), "killed" or "gone"]
    mine,    \* the processes started by the panel's running process
    pidFile, \* a pid or None
    up,      \* the panel's process runs
    counts   \* bounds: calls, faults

vars == <<entry, conn, calls, procs, mine, pidFile, up, counts>>

NewConn == [want |-> FALSE, proc |-> None, timer |-> FALSE, fatal |-> FALSE]
Done == [verb |-> None, at |-> "done", waits |-> None]
Fault == counts.faults < MaxFaults /\ counts' = [counts EXCEPT !.faults = @ + 1]

Init ==
    /\ entry \in [exists : {TRUE}, auto : BOOLEAN]
    /\ conn = NewConn
    /\ calls = [c \in Calls \cup {Boot} |-> Done]
    /\ procs = [p \in Pids |-> "none"]
    /\ mine = {} /\ pidFile = None /\ up = TRUE
    /\ counts = [calls |-> 0, faults |-> 0]

-----------------------------------------------------------------------------
(* The process.                                                             *)

\* spawn: a leftover in the pid file is told to end, and the new process replaces it there
Spawns(cn) ==
    \E p \in Pids :
       /\ procs[p] = "none" /\ \A q \in Pids : q < p => procs[q] # "none"
       /\ procs' = [q \in Pids |-> IF q = p THEN "up"
                                   ELSE IF q = pidFile /\ procs[q] = "up" THEN "ending" ELSE procs[q]]
       /\ conn' = [cn EXCEPT !.proc = p]
       /\ pidFile' = p
       /\ mine' = mine \cup {p}

Spawn(cn) ==
    IF cn.proc # None THEN conn' = cn /\ UNCHANGED <<procs, pidFile, mine>> ELSE Spawns(cn)

\* the stops in S are over, and the calls go on at once: a restart begins to start
GoOn(S, cn) ==
    LET drops == \E c \in S : calls[c].verb \in {"delete", "reset"}
    IN \E exists \in {entry.exists, entry.exists /\ ~drops} :
          LET starts == {c \in S : calls[c].verb = "restart" /\ exists}
          IN /\ calls' = [c \in DOMAIN calls |-> IF c \in starts THEN [calls[c] EXCEPT !.at = "resolve"]
                                                 ELSE IF c \in S THEN Done ELSE calls[c]]
             /\ conn' = IF starts = {} THEN cn ELSE [cn EXCEPT !.want = TRUE, !.fatal = FALSE]
             /\ entry' = [entry EXCEPT !.exists = @ /\ ~drops]

\* the exit handler takes the connector's process to be the one that ended
Ended(p) ==
    LET retries == conn.want /\ ~conn.fatal
        waiting == {c \in DOMAIN calls : calls[c].at = "wait" /\ calls[c].waits = p}
    IN /\ procs' = [procs EXCEPT ![p] = "gone"]
       /\ pidFile' = IF p \in mine THEN None ELSE pidFile
       /\ IF p \in mine
             THEN GoOn(waiting, [conn EXCEPT !.proc = None, !.want = retries, !.timer = @ \/ retries])
             ELSE UNCHANGED <<entry, conn, calls>>
       /\ UNCHANGED <<mine, up>>

Exits(p) == procs[p] = "up" /\ Fault /\ Ended(p)
Obeys(p) == procs[p] \in {"ending", "killed"} /\ Ended(p) /\ UNCHANGED counts

\* "token is not valid" in its output: the next exit is not retried
Refused(p) ==
    /\ procs[p] = "up" /\ p \in mine
    /\ Fault
    /\ conn' = [conn EXCEPT !.fatal = TRUE]
    /\ UNCHANGED <<entry, calls, procs, mine, pidFile, up>>

Retry ==
    /\ conn.timer /\ up
    /\ Spawn([conn EXCEPT !.timer = FALSE])
    /\ UNCHANGED <<entry, calls, up, counts>>

-----------------------------------------------------------------------------
(* Requests: a restart stops and starts.                                    *)

Request(c, verb) ==
    /\ up /\ entry.exists
    /\ calls[c].at = "done"
    /\ counts.calls < MaxCalls
    /\ counts' = [counts EXCEPT !.calls = @ + 1]
    /\ calls' = [calls EXCEPT ![c] = [verb |-> verb, at |-> IF verb = "start" THEN "start" ELSE "stop",
                                       waits |-> None]]
    /\ UNCHANGED <<conn, procs, mine, pidFile, up>>

StartOrStop(c) == (\E verb \in {"start", "stop", "restart"} : Request(c, verb)) /\ UNCHANGED entry

\* addConnector finds the tunnel's record and gives it the new token
NewToken(auto) == entry' = [entry EXCEPT !.auto = auto]

\* a token is pasted, or a tunnel of the account picked, that has a connector
AddAgain(c) == \E auto \in BOOLEAN :
    NewToken(auto) /\ IF auto THEN Request(c, "restart")
                      ELSE counts.calls < MaxCalls /\ up /\ entry.exists /\ counts' = [counts EXCEPT !.calls = @ + 1]
                           /\ UNCHANGED <<conn, calls, procs, mine, pidFile, up>>

\* cloudflared was replaced on disk
Upgraded(c) == conn.proc # None /\ Request(c, "restart") /\ UNCHANGED entry

Remove(c) == Request(c, "delete") /\ UNCHANGED entry

\* everything about Cloudflare is forgotten
Forget(c) == Request(c, "reset") /\ UNCHANGED entry

PatchAuto ==
    /\ up /\ entry.exists
    /\ counts.calls < MaxCalls
    /\ counts' = [counts EXCEPT !.calls = @ + 1]
    /\ entry' = [entry EXCEPT !.auto = ~@]
    /\ UNCHANGED <<conn, calls, procs, mine, pidFile, up>>

\* Connector.start: nothing to do while there is a process, even one that is ending
Start(c) ==
    /\ calls[c].at = "start"
    /\ IF ~entry.exists \/ conn.proc # None
          THEN calls' = [calls EXCEPT ![c] = Done] /\ UNCHANGED conn
          ELSE /\ conn' = [conn EXCEPT !.want = TRUE, !.fatal = FALSE]
               /\ calls' = [calls EXCEPT ![c].at = "resolve"]
    /\ UNCHANGED <<entry, procs, mine, pidFile, up, counts>>

\* resolveBinary: cloudflared is there, or downloaded
Resolved(c) ==
    /\ calls[c].at = "resolve"
    /\ calls' = [calls EXCEPT ![c] = Done]
    /\ \/ Spawn(conn) /\ UNCHANGED counts
       \/ Fault /\ UNCHANGED <<conn, procs, pidFile, mine>>
    /\ UNCHANGED <<entry, up>>

\* mutant: the retry stays armed
KeepsTimer == [conn EXCEPT !.want = FALSE]

Unwanted == [conn EXCEPT !.want = FALSE, !.timer = FALSE]

\* Connector.stop
Stop(c) ==
    /\ calls[c].at = "stop"
    /\ IF conn.proc = None
          THEN GoOn({c}, Unwanted) /\ UNCHANGED procs
          ELSE /\ conn' = Unwanted
               /\ procs' = [procs EXCEPT ![conn.proc] = IF @ = "up" THEN "ending" ELSE @]
               /\ calls' = [calls EXCEPT ![c].at = "wait", ![c].waits = conn.proc]
               /\ UNCHANGED entry
    /\ UNCHANGED <<mine, pidFile, up, counts>>

\* 8 s are over (cloudflared lets requests under way finish): it is killed and the
\* call goes on before the process's exit is heard of
Kill(c) ==
    /\ calls[c].at = "wait"
    /\ Fault
    /\ procs' = [procs EXCEPT ![calls[c].waits] = "killed"]
    /\ GoOn({c}, [conn EXCEPT !.proc = None])
    /\ UNCHANGED <<mine, pidFile, up>>

-----------------------------------------------------------------------------
(* The panel.                                                               *)

Leaves(told) ==
    /\ up' = FALSE
    /\ conn' = NewConn
    /\ calls' = [c \in DOMAIN calls |-> Done]
    /\ mine' = {}
    /\ procs' = IF told /\ conn.proc # None
                THEN [procs EXCEPT ![conn.proc] = IF @ = "up" THEN "ending" ELSE @] ELSE procs
    /\ UNCHANGED <<entry, pidFile>>

Crash == up /\ Fault /\ Leaves(FALSE)
Shutdown == up /\ Fault /\ Leaves(TRUE)

Boots ==
    /\ ~up
    /\ up' = TRUE
    /\ calls' = [calls EXCEPT ![Boot] = IF entry.exists /\ entry.auto
                                        THEN [Done EXCEPT !.verb = "start", !.at = "start"] ELSE Done]
    /\ UNCHANGED <<entry, conn, procs, mine, pidFile, counts>>

Next ==
    \/ \E p \in Pids : Exits(p) \/ Obeys(p) \/ Refused(p)
    \/ \E c \in Calls : StartOrStop(c) \/ AddAgain(c) \/ Upgraded(c) \/ Remove(c) \/ Forget(c)
    \/ \E c \in Calls \cup {Boot} : Start(c) \/ Resolved(c) \/ Stop(c) \/ Kill(c)
    \/ PatchAuto \/ Retry \/ Crash \/ Shutdown \/ Boots

Spec == Init /\ [][Next]_vars

-----------------------------------------------------------------------------
TypeOK ==
    /\ conn.proc \in Pids \cup {None} /\ pidFile \in Pids \cup {None}
    /\ mine \subseteq Pids
    /\ \A c \in DOMAIN calls : calls[c].at \in {"done", "start", "resolve", "stop", "wait"}

(* A cloudflared process is started only while the connector is wanted or    *)
(* for a request to start it that waits for the binary: never by a retry     *)
(* that outlives a stop, a refused token or the connector itself.            *)
NothingStartsUnaskedStep ==
  conn'.proc # None /\ conn'.proc # conn.proc =>
     conn.want \/ \E c \in DOMAIN calls : calls[c].at = "resolve"
NothingStartsUnasked == [][NothingStartsUnaskedStep]_vars

(* "A connector left running by a panel that crashed would double up; stop   *)
(* it" (killStale): a connector never has two cloudflared processes that     *)
(* nobody told to end.  Violated: a restart whose process does not end       *)
(* within 8 s starts the next one before the exit of the killed one is       *)
(* heard, and that exit makes the panel forget the new process and its pid   *)
(* file and start a third.                                                   *)
OneProcess == Cardinality({p \in Pids : procs[p] = "up"}) <= 1
=============================================================================
