---------------------------- MODULE PanelUpdate ----------------------------
(***************************************************************************)
(* Looking for a newer panel on GitHub, and updating or restoring the code   *)
(* of a panel without standbys (panel/lib/updates.mjs); with standbys the    *)
(* files are exchanged as in Rollout.  Commits are numbered along the branch. *)
(* version.json tells which commit was installed; the process knows only the *)
(* VERSION it was compiled with.                                             *)
(***************************************************************************)
EXTENDS Integers, FiniteSetsExt

CONSTANTS
  None,
  Item,       \* CODE_ITEMS; "panel" has the VERSION
  VersionOf,  \* the VERSION of each commit
  Keep,       \* KEEP_BACKUPS
  MaxOrders, MaxChecks, MaxFaults  \* bounds for TLC

VARIABLES
  head,     \* the newest commit on GitHub
  code,     \* of each item: the commit it is from, or None
  stamp,    \* the commit in version.json, or None
  running,  \* the commit of the process, or None when it is down
  mode,     \* restartMode: "systemd" or "manual"
  backups,  \* update-backups: of each id [code, stamp], or None
  job,      \* the job panel.update or panel.restore, or None
  check,    \* s.inflight: what it read of the install, or None
  last,     \* s.last: [latest, available, for, error], or None
  saved,    \* updates-state.json
  limited,  \* rateLimitedUntil is ahead
  restart,  \* s.restart: the exit is 2 s away
  torn,     \* history: what is installed was left, or backed up, between two renames
  orders, checks, faults  \* counters

installed_ == <<code, stamp, running>>
checking == <<check, last, saved, limited>>
counters == <<orders, checks, faults>>
vars == <<head, installed_, mode, backups, job, checking, restart, torn, counters>>

Commit == DOMAIN VersionOf
Id == 1..MaxOrders
Whole(files) == \E c \in Commit : \A i \in Item : files[i] = c
Fault == faults < MaxFaults /\ faults' = faults + 1 /\ UNCHANGED <<orders, checks>>

Push ==
  /\ head + 1 \in Commit /\ head' = head + 1
  /\ UNCHANGED <<installed_, mode, backups, job, checking, restart, torn, counters>>

-----------------------------------------------------------------------------
(* The check.                                                               *)

\* installed: a version.json of another VERSION than the running one is not believed.
Stale == stamp # None /\ VersionOf[stamp] # VersionOf[running]
InstalledCommit == IF Stale THEN None ELSE stamp

\* decide; an install without a commit has only its version to compare.
Decide(inst, latest) ==
  IF inst.stale THEN "yes"
  ELSE IF inst.commit # None THEN (IF latest > inst.commit THEN "yes" ELSE "no")
  ELSE IF VersionOf[latest] > inst.version THEN "yes"
  ELSE IF VersionOf[latest] < inst.version THEN "no" ELSE "unknown"

\* check: from the timer, a page or the button.
AskGitHub ==
  /\ running # None /\ check = None /\ ~limited /\ checks < MaxChecks
  /\ checks' = checks + 1
  /\ check' = [commit |-> InstalledCommit, stale |-> Stale, version |-> VersionOf[running]]
  /\ UNCHANGED <<head, installed_, mode, backups, job, last, saved, limited, restart, torn, orders, faults>>

Shows(result) == check' = None /\ last' = result /\ saved' = result

\* latestCommit, versionAt and the comparison; persist.
GitHubAnswers ==
  /\ check # None
  /\ Shows([latest |-> head, available |-> Decide(check, head), for |-> check.commit, error |-> FALSE])
  /\ UNCHANGED <<head, installed_, mode, backups, job, limited, restart, torn, counters>>

\* gh fails, or says that the rate limit is reached: the last result stays, with the error.
CheckFails ==
  /\ check # None
  /\ Shows(IF last # None /\ last.for = check.commit THEN [last EXCEPT !.error = TRUE]
           ELSE [latest |-> None, available |-> "unknown", for |-> None, error |-> TRUE])
  /\ limited' \in BOOLEAN
  /\ UNCHANGED <<head, installed_, mode, backups, job, restart, torn, counters>>

LimitEnds ==
  /\ limited /\ limited' = FALSE
  /\ UNCHANGED <<head, installed_, mode, backups, job, check, last, saved, restart, torn, counters>>

\* The badge of Settings -> Updates.
Badge ==
  IF last = None THEN "Not checked"
  ELSE CASE last.available = "yes" -> "Update available"
         [] last.available = "no" -> "Up to date"
         [] OTHER -> "Unknown"

-----------------------------------------------------------------------------
(* The job.                                                                 *)

NewJob(kind, from, at) ==
  [kind |-> kind, from |-> from, at |-> at, to |-> None, stamp |-> None,
   todo |-> Item, old |-> [i \in {} |-> None], half |-> None]

\* startApply, startRestore: one at a time (activeJob).
Order(kind, from, at) ==
  /\ running # None /\ job = None /\ ~restart /\ orders < MaxOrders
  /\ orders' = orders + 1
  /\ job' = NewJob(kind, from, at)
  /\ UNCHANGED <<head, installed_, mode, backups, checking, restart, torn, checks, faults>>
Apply == Order("update", None, "fetch")
Restore(b) == backups[b] # None /\ backups[b].code["panel"] # None /\ Order("restore", b, "verify")

\* The newest commit, whatever the check saw; its tarball.
Fetch ==
  /\ job # None /\ job.at = "fetch"
  /\ job' = [job EXCEPT !.at = "verify", !.to = [i \in Item |-> head], !.stamp = head]
  /\ UNCHANGED <<head, installed_, mode, backups, checking, restart, torn, counters>>

\* node --check.
Verify ==
  /\ job # None /\ job.at = "verify"
  /\ job' = [job EXCEPT !.at = "backup"]
  /\ UNCHANGED <<head, installed_, mode, backups, checking, restart, torn, counters>>

\* takeBackup, then pruneBackups.
Kept(all) == {b \in all : Cardinality({k \in all : k > b}) < Keep}
TakeBackup ==
  /\ job # None /\ job.at = "backup"
  /\ LET new == orders
         kept == Kept({b \in Id : backups[b] # None} \cup {new})
         taken == [backups EXCEPT ![new] = [code |-> code, stamp |-> stamp]]
     IN  backups' = [b \in Id |-> IF b \in kept THEN taken[b] ELSE None]
  /\ job' = [job EXCEPT !.at = "stage"]
  /\ UNCHANGED <<head, installed_, mode, checking, restart, torn, counters>>

\* The tree to install: unpacked already, or copied from the backup.
Stage ==
  /\ job # None /\ job.at = "stage"
  /\ job.kind = "restore" => backups[job.from] # None
  /\ job' = IF job.kind = "update" THEN [job EXCEPT !.at = "swap"]
            ELSE [job EXCEPT !.at = "swap", !.to = backups[job.from].code, !.stamp = backups[job.from].stamp]
  /\ UNCHANGED <<head, installed_, mode, backups, checking, restart, torn, counters>>

\* GitHub, tar, a syntax error, no space, a cancellation, a backup that is gone: nothing was changed.
JobFails ==
  /\ job # None /\ job.at \in {"fetch", "verify", "backup", "stage"}
  /\ job' = None
  /\ UNCHANGED <<head, installed_, mode, backups, checking, restart, torn, counters>>

\* swapIn: an item goes aside, and the new one takes its place.
Aside(i) ==
  /\ job # None /\ job.at = "swap" /\ job.half = None /\ i \in job.todo /\ job.to[i] # None
  /\ code' = [code EXCEPT ![i] = None]
  /\ job' = [job EXCEPT !.half = i, !.old = [k \in DOMAIN @ \cup {i} |-> IF k = i THEN code[i] ELSE @[k]]]
  /\ UNCHANGED <<head, stamp, running, mode, backups, checking, restart, torn, counters>>

Place ==
  /\ job # None /\ job.at = "swap" /\ job.half # None
  /\ code' = [code EXCEPT ![job.half] = job.to[job.half]]
  /\ job' = [job EXCEPT !.half = None, !.todo = @ \ {job.half}]
  /\ UNCHANGED <<head, stamp, running, mode, backups, checking, restart, torn, counters>>

\* mutant: an item counts as moved once the new one is in its place
PutBackOfPlaced == [i \in Item |-> IF i \in DOMAIN job.old \ {job.half} THEN job.old[i] ELSE code[i]]

\* What was moved goes back to where it was.
PutBack == [i \in Item |-> IF i \in DOMAIN job.old THEN job.old[i] ELSE code[i]]

\* A rename fails.
SwapFails ==
  /\ job # None /\ job.at = "swap" /\ Fault
  /\ code' = PutBack /\ job' = None
  /\ UNCHANGED <<head, stamp, running, mode, backups, checking, restart, torn>>

\* version.json: written after an update, and one more item of a restore (or removed).
Stamp ==
  /\ job # None /\ job.at = "swap" /\ job.half = None /\ \A i \in job.todo : job.to[i] = None
  /\ stamp' = job.stamp /\ job' = None /\ torn' = ~Whole(job.to)
  /\ last' = None /\ saved' = None
  /\ restart' = (mode = "systemd")
  /\ UNCHANGED <<head, code, running, mode, backups, check, limited, counters>>

-----------------------------------------------------------------------------
(* The process.                                                             *)

Stops == running' = None /\ job' = None /\ check' = None /\ last' = None /\ limited' = FALSE /\ restart' = FALSE

\* SIGTERM to itself, 2 s after the job; or an administrator restarts fcc.
Exit ==
  /\ running # None /\ job = None /\ (restart \/ (mode = "manual" /\ running # code["panel"]))
  /\ Stops
  /\ UNCHANGED <<head, code, stamp, mode, backups, saved, torn, counters>>

Crash ==
  /\ running # None /\ Fault
  /\ torn' = (torn \/ (job # None /\ job.at = "swap"))
  /\ Stops
  /\ UNCHANGED <<head, code, stamp, mode, backups, saved>>

\* mutant: what was saved is shown, whatever is installed now
ShowsAnySaved(now) == saved

\* restore: a saved result counts for the commit it was made for.
Restored(now) == IF saved # None /\ saved.latest # None /\ saved.for = now THEN saved ELSE None

\* systemd starts what is there; a mixture of two commits may start or not.
Boot ==
  /\ running = None /\ code["panel"] # None
  /\ running' = code["panel"]
  /\ last' = Restored(IF stamp # None /\ VersionOf[stamp] # VersionOf[running'] THEN None ELSE stamp)
  /\ UNCHANGED <<head, code, stamp, mode, backups, job, check, saved, limited, restart, torn, counters>>

\* install.sh, by hand: install_code.
Reinstall ==
  /\ running = None /\ torn
  /\ code' = [i \in Item |-> head] /\ stamp' = head /\ torn' = FALSE
  /\ UNCHANGED <<head, running, mode, backups, job, checking, restart, counters>>

Init ==
  /\ head = 1 /\ code = [i \in Item |-> 1] /\ stamp \in {1, None} /\ running = 1
  /\ mode \in {"systemd", "manual"}
  /\ backups = [b \in Id |-> None] /\ job = None
  /\ check = None /\ last = None /\ saved = None /\ limited = FALSE
  /\ restart = FALSE /\ torn = FALSE
  /\ orders = 0 /\ checks = 0 /\ faults = 0

Next ==
  \/ Push \/ AskGitHub \/ GitHubAnswers \/ CheckFails \/ LimitEnds
  \/ Apply \/ (\E b \in Id : Restore(b))
  \/ Fetch \/ Verify \/ TakeBackup \/ Stage \/ JobFails
  \/ (\E i \in Item : Aside(i)) \/ Place \/ SwapFails \/ Stamp
  \/ Exit \/ Crash \/ Boot \/ Reinstall
Spec == Init /\ [][Next]_vars

-----------------------------------------------------------------------------

\* "On any failure the items already moved are put back" (swapIn): unless the process was
\* killed between two renames, what is installed is one commit, whole.
CodeIsWhole == job = None /\ ~torn => Whole(code)

\* What the panel tells of its updates is about the commit that is installed, also after
\* an update, a restore or a crash with a check under way.
ToldOfThisCode ==
  running # None /\ job = None /\ mode = "systemd" /\ ~restart /\ last # None /\ last.for # None
    => last.for = InstalledCommit

\* "Restore: node --check the backup -> safety backup -> swap back" (docs/STANDALONE.md:646):
\* the safety backup leaves the backup that is restored where it is.
RestoreFindsItsBackup == job # None /\ job.kind = "restore" /\ job.at = "stage" => backups[job.from] # None

\* "A failed check must never read as 'you are up to date'" (updates.mjs, doCheck).
FailedIsNotUpToDate == last # None /\ last.error => Badge # "Up to date"
=============================================================================
