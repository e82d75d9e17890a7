------------------------------ MODULE Rollout ------------------------------
(***************************************************************************)
(* Updates of the panel itself, on every panel server, one at a time, and   *)
(* the active panel last (panel/lib/updates.mjs, and the coordinated        *)
(* updates of panel/lib/ha.mjs).  The code of a server is what its           *)
(* directories hold (codeDigest); its process runs what was there when it    *)
(* started.  Who may lead is HaLease's subject: here an election picks any   *)
(* standby that is up.                                                      *)
(***************************************************************************)
EXTENDS Naturals

CONSTANTS
  Node, None,
  Code, Installed,   \* releases, and the one that is there at first
  MaxBoots,          \* PENDING_MAX_BOOTS
  MaxRollouts, MaxFaults  \* bounds for TLC

VARIABLES
  disk,     \* of each server: the code in its directories
  up,       \* of each server: its process runs
  ran,      \* of each server: the code of its last process
  bad,      \* <<server, code>>: the code starts there, and never gets as far as the leader
  pending,  \* local.pendingUpdate: [id, to, from, boots], or None
  failed,   \* local.failedUpdates
  lead,     \* the active panel
  window,   \* the server that announced its restart
  rollout,  \* the leader's job: [id, to, released, todo, at, done], or None
  proven,   \* history: the standbys that came up on the target since they were released
  rollouts, faults  \* counters

servers == <<disk, up, ran>>
marks == <<pending, failed>>
office == <<lead, window>>
counters == <<rollouts, faults>>
vars == <<servers, bad, marks, office, rollout, proven, counters>>

Leads(n) == lead = n
Follows(n) == up[n] /\ lead \notin {None, n}
Exits(n) == up' = [up EXCEPT ![n] = FALSE]
Installs(n, code) == disk' = [disk EXCEPT ![n] = code] /\ Exits(n)  \* swapIn, and exit 75

-----------------------------------------------------------------------------
(* The active panel: rollingInstall.                                        *)

\* startApply, startRestore, and the release tree with its digest (setCodeTarget).
Start(to) ==
  /\ lead # None /\ rollout = None /\ rollouts < MaxRollouts /\ disk[lead] # to
  /\ rollouts' = rollouts + 1
  /\ rollout' = [id |-> rollouts + 1, to |-> to, released |-> {}, todo |-> Node \ {lead}, at |-> None]
  /\ proven' = {}
  /\ UNCHANGED <<servers, bad, marks, office, faults>>

\* The next standby: one that is offline, or has the code already, is passed over.
Skips(n) == ~up[n] \/ disk[n] = rollout.to
Release(n) ==
  /\ rollout # None /\ rollout.at = None /\ n \in rollout.todo
  /\ rollout' = [rollout EXCEPT !.todo = @ \ {n},
                                !.at = IF Skips(n) THEN None ELSE n,
                                !.released = IF Skips(n) THEN @ ELSE @ \cup {n}]
  /\ UNCHANGED <<servers, bad, marks, office, proven, counters>>

\* It polls again from a new boot with the target's digest.
BackByDigest == disk[rollout.at] = rollout.to \* mutant: it need not have restarted
Back == up[rollout.at] /\ disk[rollout.at] = rollout.to /\ rollout.at \in proven
Returns ==
  /\ rollout # None /\ rollout.at # None /\ Back
  /\ rollout' = [rollout EXCEPT !.at = None]
  /\ UNCHANGED <<servers, bad, marks, office, proven, counters>>

\* mutant: the target is not withdrawn
KeepsTarget == rollout # None /\ UNCHANGED vars

\* It reports a failure, it takes more than NODE_WAIT_MS, or the job is cancelled:
\* clearCodeTarget.
Withdraw ==
  /\ rollout # None
  /\ rollout' = None
  /\ UNCHANGED <<servers, bad, marks, office, proven, counters>>

\* swapIn on this server, then prepareRestart and the exit.
LeaderSwaps ==
  /\ rollout # None /\ rollout.todo = {} /\ rollout.at = None
  /\ Installs(lead, rollout.to)
  /\ lead' = None /\ window' = lead /\ rollout' = None
  /\ UNCHANGED <<ran, bad, marks, proven, counters>>

-----------------------------------------------------------------------------
(* A standby.                                                               *)

\* targetFor: what a standby hears from the leader while its update is on.
TargetForAll(n) == rollout # None \* mutant: every standby hears of it at once
TargetFor(n) == rollout # None /\ n \in rollout.released

\* verifyStaged, backupCode: the mark names the backup.
OnTrial(n) == [id |-> rollout.id, to |-> rollout.to, from |-> disk[n], boots |-> 0]

\* followTarget: download, checks, backup, swap, the mark for the next boot, exit 75.  It
\* may fail, and is not tried again then.
FollowTarget(n) ==
  /\ Follows(n) /\ TargetFor(n) /\ disk[n] # rollout.to /\ rollout.id \notin failed[n]
  /\ \/ /\ Installs(n, rollout.to)
        /\ pending' = [pending EXCEPT ![n] = OnTrial(n)]
        /\ UNCHANGED failed
     \/ failed' = [failed EXCEPT ![n] = @ \cup {rollout.id}] /\ UNCHANGED <<disk, pending, up>>
  /\ UNCHANGED <<ran, bad, office, rollout, proven, counters>>

\* followCode: without a target, the leader's own code.
FollowCode(n) ==
  /\ Follows(n) /\ ~TargetFor(n) /\ disk[n] # disk[lead]
  /\ Installs(n, disk[lead])
  /\ UNCHANGED <<ran, bad, marks, office, rollout, proven, counters>>

\* The process starts.  Code that started too often without reaching the leader is taken
\* back first (rollbackPendingUpdate), and the process exits again.
NotCounted(n) == pending[n] \* mutant: the count is not kept
Counted(n) == IF pending[n] = None THEN None ELSE [pending[n] EXCEPT !.boots = @ + 1]
TakenBack(n) == pending[n] # None /\ pending[n].boots + 1 > MaxBoots
Boot(n) ==
  /\ ~up[n]
  /\ IF TakenBack(n)
     THEN /\ disk' = [disk EXCEPT ![n] = pending[n].from]
          /\ pending' = [pending EXCEPT ![n] = None]
          /\ failed' = [failed EXCEPT ![n] = @ \cup {pending[n].id}]
          /\ UNCHANGED <<up, ran, proven>>
     ELSE /\ pending' = [pending EXCEPT ![n] = Counted(n)]
          /\ ran' = [ran EXCEPT ![n] = disk[n]]
          /\ up' = [up EXCEPT ![n] = <<n, disk[n]>> \notin bad]
          /\ proven' = IF up'[n] /\ TargetFor(n) /\ disk[n] = rollout.to THEN proven \cup {n} ELSE proven
          /\ UNCHANGED <<disk, failed>>
  /\ UNCHANGED <<bad, office, rollout, counters>>

\* stateOk, confirmPendingUpdate: it reached the leader.
Confirm(n) ==
  /\ Follows(n) /\ pending[n] # None
  /\ pending' = [pending EXCEPT ![n] = None]
  /\ UNCHANGED <<servers, bad, failed, office, rollout, proven, counters>>

-----------------------------------------------------------------------------
(* The office, and faults.                                                  *)

\* Inside an announced restart only the restarting server stands (reclaimUntil, leaderRestart).
Elect(n) ==
  /\ lead = None /\ up[n] /\ window \in {None, n}
  /\ lead' = n /\ window' = None
  /\ UNCHANGED <<servers, bad, marks, rollout, proven, counters>>

WindowEnds ==
  /\ window # None
  /\ window' = None
  /\ UNCHANGED <<servers, bad, marks, lead, rollout, proven, counters>>

\* A process dies; a leader's job dies with it.
Crash(n) ==
  /\ faults < MaxFaults /\ up[n]
  /\ faults' = faults + 1
  /\ Exits(n)
  /\ IF Leads(n) THEN lead' = None /\ rollout' = None ELSE UNCHANGED <<lead, rollout>>
  /\ UNCHANGED <<disk, ran, bad, marks, window, proven, rollouts>>

Init ==
  /\ disk = [n \in Node |-> Installed] /\ ran = disk
  /\ up = [n \in Node |-> TRUE]
  /\ \E wrong \in SUBSET (Node \X (Code \ {Installed})) : bad = wrong
  /\ pending = [n \in Node |-> None] /\ failed = [n \in Node |-> {}]
  /\ lead \in Node /\ window = None /\ rollout = None
  /\ proven = {}
  /\ rollouts = 0 /\ faults = 0

Job == (\E to \in Code : Start(to)) \/ (\E n \in Node : Release(n)) \/ Returns \/ Withdraw \/ LeaderSwaps
Standby(n) == FollowTarget(n) \/ FollowCode(n) \/ Confirm(n)
Next == Job \/ WindowEnds \/ (\E n \in Node : Standby(n) \/ Boot(n) \/ Elect(n) \/ Crash(n))

\* Processes are restarted (Restart=always), polls go on, elections are held, and a window ends.
Fairness ==
  /\ WF_vars(WindowEnds)
  /\ \A n \in Node : WF_vars(Boot(n)) /\ WF_vars(Confirm(n)) /\ WF_vars(FollowCode(n)) /\ WF_vars(FollowTarget(n))
  /\ WF_vars(\E n \in Node : Elect(n))
  /\ WF_vars(Withdraw)

Spec == Init /\ [][Next]_vars /\ Fairness

-----------------------------------------------------------------------------

\* The active panel is not the first to run a release: every standby that was asked to
\* take it has started it and came back, before the active panel swaps its own code.
LeaderIsLastStep ==
  \A n \in Node : Leads(n) /\ disk'[n] # disk[n] => rollout.released \subseteq proven
LeaderIsLast == [][LeaderIsLastStep]_vars

\* One standby at a time: the others that are up keep serving as standbys.
OneAtATimeStep ==
  \A n \in Node : n # lead /\ up[n] /\ ~up'[n] /\ disk'[n] # disk[n] /\ TargetFor(n) => rollout.at = n
OneAtATime == [][OneAtATimeStep]_vars

\* Whatever fails: in the end all servers that run have the code of the active panel.
OneCode == lead # None => \A n \in Node : up[n] => disk[n] = disk[lead]
OneCodeInTheEnd == <>[]OneCode

\* A release that does not start on a standby is not left there: it comes back on the
\* code it had (docs/HA.md, "Standby auto-rollback").
HasBadCode(n) == <<n, disk[n]>> \in bad
TriesBadCode(n) == pending[n] # None /\ HasBadCode(n)
IsRidOfIt(n) == pending[n] = None /\ (up[n] \/ ~HasBadCode(n))
BadCodeIsTakenBack ==
  \A n \in Node : TriesBadCode(n) ~> IsRidOfIt(n)

\* "A follower never moves to an older digest during an update" (docs/HA.md:699).
NeverMovedBack ==
  [][\A n \in Node : rollout # None /\ up[n] /\ n # lead /\ disk'[n] # disk[n] => disk[n] # rollout.to]_vars
=============================================================================
