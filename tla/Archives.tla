------------------------------ MODULE Archives ------------------------------
(***************************************************************************)
(* Backups of whole servers (panel/lib/backups.mjs, shared/tasks.mjs): the    *)
(* main server's archive made by the panel, another server's made by its      *)
(* agent and uploaded in one piece or again after a broken connection, the    *)
(* copy on a Windows share, and restoring.                                    *)
(***************************************************************************)
EXTENDS Naturals, FiniteSets

CONSTANTS
  Backup,               \* records
  Share, Smb,           \* destinations off site, and those of them on a Windows share
  None,
  MaxTries,             \* uploads of one archive the agent makes (withFailover)
  MaxFaults             \* bound for TLC

VARIABLES
  recs,      \* the records: [status, where, remote], or None
  stage,     \* what the job of a record is at, None: it has no job
  file,      \* dataDir/backups/<file>: what is in it
  inbox,     \* where an upload arrives before the job moves it
  part,      \* .upload-<task>.part
  late,      \* uploads whose connection broke and the panel has not noticed yet
  tries,     \* uploads begun for the task of a record
  share,     \* what the shares hold
  dest,      \* the destination in the settings
  restoring, \* the record a restore works on: [rec, at], or None
  extracted, \* history: what the last restore extracted: [rec, what], or None
  faults

jobs == <<recs, stage>>
uploads == <<inbox, part, late, tries>>
restore == <<restoring, extracted>>
vars == <<jobs, file, uploads, share, dest, restore, faults>>

Fault == faults < MaxFaults /\ faults' = faults + 1

\* What a file holds: nothing, the whole archive, or something else.
Status(b) == IF recs[b] = None THEN "none" ELSE recs[b].status
Stages(b, s) == stage' = [stage EXCEPT ![b] = s]
Set(b, field, v) == recs' = [recs EXCEPT ![b] = [@ EXCEPT ![field] = v]]
Fails(b) ==
  /\ recs' = [recs EXCEPT ![b].status = "failed"] /\ Stages(b, None)
  /\ file' = [file EXCEPT ![b] = None]

-----------------------------------------------------------------------------
(* Making the archive.                                                        *)

\* backupServer: one backup of a server at a time, waiting in the job queue.
Free(where) == \A b \in Backup : stage[b] # None => recs[b].where # where
Ask(b) ==
  /\ recs[b] = None
  /\ \E w \in {"main", "worker"} :
       /\ Free(w)
       /\ recs' = [recs EXCEPT ![b] = [status |-> "queued", where |-> w, remote |-> None]]
  /\ Stages(b, "waits")
  /\ UNCHANGED <<file, uploads, share, dest, restore, faults>>

\* onDropped: cancelled in the queue.
Drop(b) ==
  /\ stage[b] = "waits"
  /\ Fails(b)
  /\ UNCHANGED <<uploads, share, dest, restore, faults>>

Start(b) ==
  /\ stage[b] = "waits"
  /\ Set(b, "status", "running") /\ Stages(b, "tar")
  /\ UNCHANGED <<file, uploads, share, dest, restore, faults>>

\* mutant: whatever tar says, the archive is taken.
TarIsTaken(ok) == TRUE
\* tar: 0, or 1 when files changed while it read them; anything else throws.
TarCounts(ok) == ok

\* buildMainArchive: into a .part, renamed when tar is done.
MainArchive(b) ==
  /\ stage[b] = "tar" /\ recs[b].where = "main"
  /\ \E ok \in BOOLEAN :
       /\ ok \/ faults < MaxFaults
       /\ faults' = IF ok THEN faults ELSE faults + 1
       /\ IF TarCounts(ok)
          THEN /\ file' = [file EXCEPT ![b] = IF ok THEN "whole" ELSE "other"]
               /\ Stages(b, "made") /\ UNCHANGED recs
          ELSE Fails(b)
  /\ UNCHANGED <<uploads, share, dest, restore>>

\* serverBackup on the agent; then it uploads.
AgentArchive(b) ==
  /\ stage[b] = "tar" /\ recs[b].where = "worker"
  /\ \/ Stages(b, "upload") /\ tries' = [tries EXCEPT ![b] = 1]
        /\ UNCHANGED <<recs, file, faults>>
     \/ Fault /\ Fails(b) /\ UNCHANGED tries
  /\ UNCHANGED <<inbox, part, late, share, dest, restore>>

-----------------------------------------------------------------------------
(* The upload (POST /agent/upload/:taskId).                                   *)

\* createWriteStream: every try of a task writes the same .part.
Opens(b) ==
  /\ stage[b] = "upload"
  /\ part' = [part EXCEPT ![b] = "open"] /\ Stages(b, "sends")
  /\ UNCHANGED <<recs, file, inbox, late, tries, share, dest, restore, faults>>

\* withFailover: the agent tries again, or the task fails.
TriesAgain(b) ==
  IF tries[b] < MaxTries
  THEN tries' = [tries EXCEPT ![b] = @ + 1] /\ Stages(b, "upload") /\ UNCHANGED <<recs, file>>
  ELSE UNCHANGED tries /\ Fails(b)

\* The connection breaks; the panel hears of it later.
Breaks(b) ==
  /\ stage[b] = "sends" /\ Fault
  /\ late' = late \cup {b}
  /\ TriesAgain(b)
  /\ UNCHANGED <<inbox, part, share, dest, restore>>
\* The handler of a broken upload removes the .part, whoever writes it by then.
LateAbort(b) ==
  /\ b \in late
  /\ late' = late \ {b} /\ part' = [part EXCEPT ![b] = None]
  /\ UNCHANGED <<jobs, file, inbox, tries, share, dest, restore, faults>>

\* The archive is in: checked against its checksum, renamed, answered. A part
\* that is gone is an error the agent does not try again.
Received(b) ==
  /\ stage[b] = "sends"
  /\ IF part[b] = None THEN Fails(b) /\ UNCHANGED <<part, inbox>>
     ELSE /\ inbox' = [inbox EXCEPT ![b] = "whole"] /\ part' = [part EXCEPT ![b] = None]
          /\ Stages(b, "there") /\ UNCHANGED <<recs, file>>
  /\ UNCHANGED <<late, tries, share, dest, restore, faults>>
\* The answer is lost: the agent uploads again.
AnswerLost(b) ==
  /\ stage[b] = "there" /\ Fault
  /\ TriesAgain(b)
  /\ UNCHANGED <<inbox, part, late, share, dest, restore>>

\* runWorkerBackup: moved into its place, its checksum compared.
Moved(b) ==
  /\ stage[b] = "there" /\ inbox[b] # None
  /\ file' = [file EXCEPT ![b] = inbox[b]] /\ inbox' = [inbox EXCEPT ![b] = None]
  /\ Stages(b, "made")
  /\ UNCHANGED <<recs, part, late, tries, share, dest, restore, faults>>

\* finalize: size and checksum of the file there is; then the off-site copy.
Finalized(b) ==
  /\ stage[b] = "made"
  /\ Set(b, "status", "ok")
  /\ Stages(b, IF dest = "local" THEN None ELSE "copy")
  /\ UNCHANGED <<file, uploads, share, dest, restore, faults>>

\* The copy goes to the destination of the moment; a failure is noted, the backup is fine.
Copied(b) ==
  /\ share' = [share EXCEPT ![dest][b] = file[b]] /\ Set(b, "remote", dest)
  /\ Stages(b, None)
  /\ UNCHANGED <<file, uploads, dest, restore, faults>>
\* createSmb: the folders, then put; a part of a file is deleted again.
CopiesToShare(b) == stage[b] = "copy" /\ dest \in Smb /\ Copied(b)
\* createS3: one signed PUT.
CopiesToBucket(b) == stage[b] = "copy" /\ dest \in Share \ Smb /\ Copied(b)
CopyFails(b) ==
  /\ stage[b] = "copy" /\ (dest = "local" \/ faults < MaxFaults)
  /\ faults' = IF dest = "local" THEN faults ELSE faults + 1
  /\ Stages(b, None)
  /\ UNCHANGED <<recs, file, uploads, share, dest, restore>>

-----------------------------------------------------------------------------
(* Settings, and what happens to the files.                                   *)

\* PUT settings: a destination that is complete (validDestination).
Destinations == Share \cup {"local"}
ChangesDestination ==
  /\ \E d \in Destinations : d # dest /\ dest' = d
  /\ Fault
  /\ UNCHANGED <<jobs, file, uploads, share, restore>>

\* A file is lost or damaged, here or on a share (not in the moments of a restore).
Damaged(b) ==
  /\ Status(b) = "ok" /\ stage[b] = None /\ restoring = None /\ Fault
  /\ \/ \E v \in {None, "other"} : file' = [file EXCEPT ![b] = v] /\ UNCHANGED share
     \/ \E s \in Share : share[s][b] # None /\ share' = [share EXCEPT ![s][b] = "other"]
          /\ UNCHANGED file
  /\ UNCHANGED <<jobs, uploads, dest, restore>>

\* The panel stops: its jobs are gone; the start says so and sweeps partial files.
PanelStops ==
  /\ Fault
  /\ stage' = [b \in Backup |-> None]
  /\ recs' = [b \in Backup |-> IF Status(b) \in {"queued", "running"}
                               THEN [recs[b] EXCEPT !.status = "failed"] ELSE recs[b]]
  /\ late' = {} /\ restoring' = None /\ part' = [b \in Backup |-> None]
  /\ UNCHANGED <<file, inbox, tries, share, dest, extracted>>

-----------------------------------------------------------------------------
(* Restoring (restoreServer, verifyFile, fetchRemote).                        *)

StartRestore(b) ==
  /\ restoring = None /\ Status(b) = "ok" /\ recs[b].where = "main"
  /\ restoring' = [rec |-> b, at |-> "verify"]
  /\ UNCHANGED <<jobs, file, uploads, share, dest, extracted, faults>>

\* mutant: what was downloaded is taken as it is.
AnyCopy(what) == what # None
\* The checksum of the record.
SumMatches(what) == what = "whole"

\* canFetch: from a Windows share that is still the destination.
Fetchable(b) == recs[b].remote \in Smb /\ recs[b].remote = dest
Ends == restoring' = None
Verify ==
  /\ restoring # None /\ restoring.at = "verify"
  /\ LET b == restoring.rec IN
       \/ /\ file[b] = None /\ Fetchable(b)
          /\ IF SumMatches(share[dest][b])
             THEN file' = [file EXCEPT ![b] = share[dest][b]] /\ UNCHANGED restoring
             ELSE Ends /\ UNCHANGED file
       \/ /\ file[b] # None \/ ~Fetchable(b)
          /\ IF file[b] # None /\ SumMatches(file[b])
             THEN restoring' = [restoring EXCEPT !.at = "extract"]
             ELSE Ends
          /\ UNCHANGED file
  /\ UNCHANGED <<jobs, uploads, share, dest, extracted, faults>>
Extract ==
  /\ restoring # None /\ restoring.at = "extract"
  /\ extracted' = [rec |-> restoring.rec, what |-> file[restoring.rec]]
  /\ Ends
  /\ UNCHANGED <<jobs, file, uploads, share, dest, faults>>

-----------------------------------------------------------------------------
Init ==
  /\ recs = [b \in Backup |-> None] /\ stage = recs /\ file = recs
  /\ inbox = recs /\ part = recs /\ late = {} /\ tries = [b \in Backup |-> 0]
  /\ share = [s \in Share |-> [b \in Backup |-> None]]
  /\ dest \in Share \cup {"local"}
  /\ restoring = None /\ extracted = None /\ faults = 0

Next ==
  \/ \E b \in Backup : Ask(b) \/ Drop(b) \/ Start(b) \/ MainArchive(b) \/ AgentArchive(b)
       \/ Opens(b) \/ Breaks(b) \/ LateAbort(b) \/ Received(b) \/ AnswerLost(b) \/ Moved(b)
       \/ Finalized(b) \/ CopiesToShare(b) \/ CopiesToBucket(b) \/ CopyFails(b)
       \/ Damaged(b) \/ StartRestore(b)
  \/ ChangesDestination \/ PanelStops \/ Verify \/ Extract

Spec == Init /\ [][Next]_vars

-----------------------------------------------------------------------------
Contents == {None, "whole", "other"}
TypeOK ==
  /\ \A b \in Backup : recs[b] # None =>
       recs[b] \in [status : {"queued", "running", "ok", "failed"}, where : {"main", "worker"},
                    remote : Share \cup {None}]
  /\ stage \in [Backup -> {None, "waits", "tar", "upload", "sends", "there", "made", "copy"}]
  /\ file \in [Backup -> Contents] /\ inbox \in [Backup -> Contents]
  /\ part \in [Backup -> {None, "open"}] /\ late \subseteq Backup /\ tries \in [Backup -> 0..MaxTries]
  /\ share \in [Share -> [Backup -> Contents]] /\ dest \in Share \cup {"local"}
  /\ restoring # None => restoring \in [rec : Backup, at : {"verify", "extract"}]
  /\ extracted # None => extracted \in [rec : Backup, what : Contents] /\ faults \in 0..MaxFaults

\* A backup is called "ok" only with its whole archive in its place, whatever
\* failed, was sent twice or was lost on the way.
OkMeansWholeStep ==
  \A b \in Backup : Status(b) # "ok" /\ Status(b)' = "ok" => file'[b] = "whole"
OkMeansWhole == [][OkMeansWholeStep]_vars

\* A restore extracts what was archived, whatever happened to the file and its
\* copies since ("refusing to restore a corrupted or altered file").
RestoresWhatWasSaved == extracted # None => extracted.what = "whole"
=============================================================================
