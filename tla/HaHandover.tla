----------------------------- MODULE HaHandover -----------------------------
(***************************************************************************)
(* A planned switch of the active panel: startHandover of panel/lib/ha.mjs *)
(* with what it races with: API calls that change the database, the        *)
(* debounced save of panel/lib/store.mjs, the scan that numbers versions,  *)
(* the standbys' polls and acks, a fence for another reason, and other     *)
(* calls of POST /api/ha/handover.                                         *)
(*                                                                         *)
(* Only the leader's process is modelled in detail.  db.json is the number *)
(* of changes it contains; config.json is its handover mark.               *)
(***************************************************************************)
EXTENDS Integers, TLAPS

CONSTANTS
  Request,     \* the calls of startHandover
  Standby,     \* the panel nodes it may hand over to
  None,        \* nobody
  OneAtATime,  \* TRUE: no call comes while another waits for its ack
  MaxChanges   \* bound on the changes of the database, for TLC

ASSUME NobodyIsNoStandby ==
  None \notin Standby \cup Request /\ OneAtATime \in BOOLEAN

VARIABLES
  office,    \* of the leader's process: leading, fencing, gone
  mem,       \* db.data: the changes accepted
  disk,      \* db.json: the changes saved
  mark,      \* config.ha.handover, also in config.json: the call that wrote it
  readOnly,  \* db.readOnly
  pending,   \* the timer of the debounced save is running
  frozen,    \* tracker.frozen
  tracked,   \* tracker.version, and the files of that version
  have,      \* what each standby has on disk
  acked,     \* nodes.get(id).acked: the version each standby has confirmed
  handover,  \* handover.to, None while there is none
  pc,        \* where each call is
  target,    \* its standby
  want       \* the version its standby has to confirm

store == <<mem, disk, mark, readOnly, pending>>
calls == <<pc, target, want>>
vars == <<office, store, frozen, tracked, have, acked, handover, calls>>

-----------------------------------------------------------------------------
\* scan: a new version when the files have changed, none while frozen.
Scanned(db, m) ==
  IF frozen \/ (tracked.db = db /\ tracked.mark = m) THEN tracked
  ELSE [seq |-> tracked.seq + 1, db |-> db, mark |-> m]

Flushed == IF readOnly THEN disk ELSE mem

\* Store.save({ immediate: true }), and then the store is made read-only.
FlushAndClose ==
  /\ disk' = Flushed
  /\ pending' = (pending /\ readOnly)
  /\ readOnly' = TRUE

\* An API call changes a record.  The store accepts it read-only, too.
Change ==
  /\ office # "gone"
  /\ mem < MaxChanges
  /\ mem' = mem + 1
  /\ pending' = (pending \/ ~readOnly)
  /\ UNCHANGED <<office, disk, mark, readOnly, frozen, tracked, have, acked, handover, calls>>

\* The debounced save.
Save ==
  /\ office # "gone"
  /\ pending
  /\ pending' = FALSE
  /\ disk' = Flushed
  /\ UNCHANGED <<office, mem, mark, readOnly, frozen, tracked, have, acked, handover, calls>>

\* The scan of every second.
Scan ==
  /\ office = "leading"
  /\ Scanned(disk, mark) # tracked
  /\ tracked' = Scanned(disk, mark)
  /\ UNCHANGED <<office, store, frozen, have, acked, handover, calls>>

\* A standby polls and writes what it gets.
Pull(s) ==
  /\ office = "leading"
  /\ have[s].seq < tracked.seq
  /\ have' = [have EXCEPT ![s] = tracked]
  /\ UNCHANGED <<office, store, frozen, tracked, acked, handover, calls>>

\* Its ack arrives: handleAck.
Ack(s) ==
  /\ office = "leading"
  /\ acked[s] < have[s].seq
  /\ acked' = [acked EXCEPT ![s] = have[s].seq]
  /\ UNCHANGED <<office, store, frozen, tracked, have, handover, calls>>

-----------------------------------------------------------------------------
(* One call of startHandover.                                              *)

\* Mutant: the version to confirm is the last one before the flush.
StartBeforeFlush(r, s) ==
  /\ pc[r] = "idle"
  /\ office = "leading"
  /\ handover = None
  /\ OneAtATime => \A q \in Request : pc[q] # "waiting"
  /\ mark' = r
  /\ FlushAndClose
  /\ tracked' = Scanned(disk', mark')
  /\ frozen' = TRUE
  /\ pc' = [pc EXCEPT ![r] = "waiting"]
  /\ target' = [target EXCEPT ![r] = s]
  /\ want' = [want EXCEPT ![r] = tracked.seq]
  /\ UNCHANGED <<office, mem, have, acked, handover>>

\* The checks, the mark, and the freeze.
Start(r, s) ==
  /\ pc[r] = "idle"
  /\ office = "leading"
  /\ handover = None
  /\ OneAtATime => \A q \in Request : pc[q] # "waiting"
  /\ mark' = r
  /\ FlushAndClose
  /\ tracked' = Scanned(disk', mark')
  /\ frozen' = TRUE
  /\ pc' = [pc EXCEPT ![r] = "waiting"]
  /\ target' = [target EXCEPT ![r] = s]
  /\ want' = [want EXCEPT ![r] = tracked'.seq]
  /\ UNCHANGED <<office, mem, have, acked, handover>>

Confirmed(r) == acked[target[r]] >= want[r]

\* The standby has confirmed: the voters will be told.
Agreed(r) ==
  /\ pc[r] = "waiting"
  /\ office # "gone"
  /\ Confirmed(r)
  /\ handover' = target[r]
  /\ pc' = [pc EXCEPT ![r] = "stepping down"]
  /\ UNCHANGED <<office, store, frozen, tracked, have, acked, target, want>>

\* Mutant: what came in during the freeze is not saved.
TimeOutUnsaved(r) ==
  /\ pc[r] = "waiting"
  /\ office # "gone"
  /\ ~Confirmed(r)
  /\ frozen' = FALSE
  /\ readOnly' = FALSE
  /\ mark' = IF office = "leading" THEN None ELSE mark
  /\ pc' = [pc EXCEPT ![r] = "failed"]
  /\ UNCHANGED <<office, mem, disk, pending, tracked, have, acked, handover, target, want>>

\* Mutant: the switch is called off without a trace, the freeze stays.
TimeOutFrozen(r) ==
  /\ pc[r] = "waiting"
  /\ office # "gone"
  /\ ~Confirmed(r)
  /\ readOnly' = FALSE
  /\ pending' = TRUE
  /\ mark' = IF office = "leading" THEN None ELSE mark
  /\ pc' = [pc EXCEPT ![r] = "failed"]
  /\ UNCHANGED <<office, mem, disk, frozen, tracked, have, acked, handover, target, want>>

\* Mutant: the mark is forgotten.
TimeOutMarked(r) ==
  /\ pc[r] = "waiting"
  /\ office # "gone"
  /\ ~Confirmed(r)
  /\ frozen' = FALSE
  /\ readOnly' = FALSE
  /\ pending' = TRUE
  /\ pc' = [pc EXCEPT ![r] = "failed"]
  /\ UNCHANGED <<office, mem, disk, mark, tracked, have, acked, handover, target, want>>

\* Fifteen seconds have passed, or the panel is fencing.
TimeOut(r) ==
  /\ pc[r] = "waiting"
  /\ office # "gone"
  /\ ~Confirmed(r)
  /\ frozen' = FALSE
  /\ readOnly' = FALSE
  /\ pending' = TRUE
  /\ mark' = IF office = "leading" THEN None ELSE mark
  /\ pc' = [pc EXCEPT ![r] = "failed"]
  /\ UNCHANGED <<office, mem, disk, tracked, have, acked, handover, target, want>>

\* fence, up to its hooks.
Fence ==
  /\ office = "leading"
  /\ office' = "fencing"
  /\ FlushAndClose

\* Another reason to fence: the majority is lost, or somebody else leads.
LoseOffice ==
  /\ Fence
  /\ UNCHANGED <<mem, mark, frozen, tracked, have, acked, handover, calls>>

\* The voters have been told, or had the time to be.
StepDown(r) ==
  /\ pc[r] = "stepping down"
  /\ pc' = [pc EXCEPT ![r] = "done"]
  /\ Fence \/ (office # "leading" /\ UNCHANGED <<office, disk, readOnly, pending>>)
  /\ UNCHANGED <<mem, mark, frozen, tracked, have, acked, handover, target, want>>

\* The hooks are through: exitForHa flushes once more, and the process ends.
Exit ==
  /\ office = "fencing"
  /\ office' = "gone"
  /\ FlushAndClose
  /\ UNCHANGED <<mem, mark, frozen, tracked, have, acked, handover, calls>>

-----------------------------------------------------------------------------
Blank == [seq |-> 0, db |-> 0, mark |-> None]

Init ==
  /\ office = "leading"
  /\ mem = 0 /\ disk = 0 /\ mark = None /\ readOnly = FALSE /\ pending = FALSE
  /\ frozen = FALSE
  /\ tracked = Blank
  /\ have = [s \in Standby |-> Blank]
  /\ acked = [s \in Standby |-> 0]
  /\ handover = None
  /\ pc = [r \in Request |-> "idle"]
  /\ target = [r \in Request |-> None]
  /\ want = [r \in Request |-> 0]

Next ==
  \/ Change \/ Save \/ Scan \/ LoseOffice \/ Exit
  \/ \E s \in Standby : Pull(s) \/ Ack(s)
  \/ \E r \in Request : Agreed(r) \/ TimeOut(r) \/ StepDown(r) \/ \E s \in Standby : Start(r, s)

Spec == Init /\ [][Next]_vars

\* Timers fire: the save, the scan, the loops of startHandover, the limit on the hooks.
\* Polls and acks may fail for ever.
Fairness ==
  /\ WF_vars(Save) /\ WF_vars(Scan) /\ WF_vars(Exit)
  /\ \A r \in Request : WF_vars(Agreed(r) \/ TimeOut(r)) /\ WF_vars(StepDown(r))

FairSpec == Spec /\ Fairness

-----------------------------------------------------------------------------
(* Properties.                                                             *)

State == [seq : Nat, db : Nat, mark : Request \cup {None}]

FlagsTyped ==
  /\ office \in {"leading", "fencing", "gone"}
  /\ readOnly \in BOOLEAN /\ pending \in BOOLEAN /\ frozen \in BOOLEAN
  /\ mark \in Request \cup {None}
  /\ handover \in Standby \cup {None}

ChangesTyped == mem \in Nat /\ disk \in Nat /\ disk <= mem

VersionsTyped ==
  /\ tracked \in State
  /\ have \in [Standby -> State]
  /\ acked \in [Standby -> Nat]

CallsTyped ==
  /\ pc \in [Request -> {"idle", "waiting", "failed", "stepping down", "done"}]
  /\ target \in [Request -> Standby \cup {None}]
  /\ want \in [Request -> Nat]

\* A call waits for a version that there is, and never for the one of the start.
WantsInRange ==
  \A r \in Request : want[r] <= tracked.seq /\ (pc[r] # "idle" => want[r] > 0)

TypeOK == FlagsTyped /\ ChangesTyped /\ VersionsTyped /\ CallsTyped /\ WantsInRange

\* ha.mjs, startHandover: "stop producing versions, and wait for the target to have
\* exactly what we have".  From the moment the panel is being handed over until the
\* process is gone, the target has every change the old panel has on disk: no save, scan
\* or timeout slips in.
TargetHasWhatIsSaved == handover # None => have[handover].db = disk

\* ha.mjs, startHandover: "part of the frozen version the target acks".  The target
\* finds its own name in its copy of config.json: it knows it took over by handover.
TargetFindsItsMark ==
  handover # None =>
    have[handover].mark # None /\ target[have[handover].mark] = handover

\* The same promise for the changes that API calls have made, saved or not.
TargetHasWhatWasAccepted == handover # None => have[handover].db = mem

\* ha.mjs, fence: "Flush first and stop writing db.json."
NothingSavedWhileFencing ==
  [][office = "fencing" => disk' = disk]_vars

\* A switch that did not happen leaves no mark behind that would make the next failover
\* look like a handover.
NoMarkIsLeftBehind ==
  office = "leading" /\ (\A r \in Request : pc[r] \in {"idle", "failed"}) => mark = None

\* Nobody freezes the panel for ever.
FreezeEnds == frozen ~> (~frozen \/ office = "gone")

\* Every change the panel accepts is saved and numbered, also those accepted during a
\* switch that fails, unless the panel leaves.
AcceptedIsTracked ==
  \A n \in 1 .. MaxChanges : mem >= n ~> (tracked.db >= n \/ office = "gone")

-----------------------------------------------------------------------------
(* Proofs about a planned switch, for any standbys, any number of calls    *)
(* and of changes, as long as no call comes while another waits for its    *)
(* ack: whoever is handed the panel has all that the old panel saved, and  *)
(* finds the mark that says so; a switch that did not happen leaves none.  *)
(*                                                                         *)
(* From the freeze until the process ends or thaws there is one call that  *)
(* owns the freeze, and the version it waits for is the one on disk.  The  *)
(* versions of one process only grow, so a standby that confirmed that     *)
(* number has those files.                                                 *)

Handed(r) == pc[r] \in {"stepping down", "done"}
Busy(r) == pc[r] = "waiting" \/ Handed(r)

OneCall == \A q, r \in Request : Busy(q) /\ Busy(r) => q = r

FreezeHasACall == frozen => \E r \in Request : Busy(r)

\* The panel is frozen for r: what is on disk is the version r waits for.
FrozenFor(r) ==
  /\ frozen /\ readOnly
  /\ target[r] \in Standby
  /\ tracked.db = disk /\ tracked.mark = r

WaitingIsFrozen ==
  \A r \in Request : pc[r] = "waiting" => FrozenFor(r) /\ handover = None /\ want[r] = tracked.seq

HandedIsFrozen ==
  \A r \in Request : Handed(r) => FrozenFor(r) /\ handover = target[r] /\ have[target[r]] = tracked

HandoverHasACall == handover # None => \E r \in Request : Handed(r)

\* What standbys have and confirm are versions of this process, under their own numbers.
CopiesAreTracked ==
  \A s \in Standby :
    /\ acked[s] <= have[s].seq /\ have[s].seq <= tracked.seq
    /\ have[s].seq = tracked.seq => have[s] = tracked

MarkHasACall == mark # None => office # "leading" \/ \E r \in Request : Busy(r)

FirstVersionUnmarked == tracked.seq = 0 => tracked.mark = None

Freezing == OneCall /\ FreezeHasACall /\ WaitingIsFrozen /\ HandedIsFrozen /\ HandoverHasACall

IInv == TypeOK /\ Freezing /\ CopiesAreTracked /\ MarkHasACall /\ FirstVersionUnmarked

-----------------------------------------------------------------------------
(* A scan, and a save.                                                     *)

\* A later version of the files: the same, or one with a greater number.
Follows(t, u) ==
  /\ u \in State
  /\ t.seq <= u.seq
  /\ u.seq = t.seq => u = t

LEMMA StateParts ==
  ASSUME NEW t \in State
  PROVE  t.seq \in Nat /\ t.db \in Nat /\ t.mark \in Request \cup {None}
BY DEF State

LEMMA FollowsItself == \A t \in State : Follows(t, t)
BY StateParts DEF Follows

LEMMA NextVersion ==
  ASSUME NEW t \in State, NEW db \in Nat, NEW m \in Request \cup {None},
         NEW u, u = [seq |-> t.seq + 1, db |-> db, mark |-> m]
  PROVE  Follows(t, u) /\ u.seq > 0 /\ u.db = db /\ u.mark = m
PROOF
  <1>1. t.seq \in Nat
    BY StateParts
  <1>2. u.seq = t.seq + 1 /\ u.db = db /\ u.mark = m
    OBVIOUS
  <1>3. u \in State
    BY <1>1 DEF State
  <1>4. t.seq <= u.seq /\ u.seq # t.seq /\ u.seq > 0
    BY <1>1, <1>2
  <1> QED
    BY <1>2, <1>3, <1>4, Zenon DEF Follows

\* A scan keeps the version while the panel is frozen, and numbers what changed.
LEMMA ScanNumbers ==
  ASSUME tracked \in State, NEW db \in Nat, NEW m \in Request \cup {None}
  PROVE  /\ Follows(tracked, Scanned(db, m))
         /\ frozen => Scanned(db, m) = tracked
         /\ ~frozen => Scanned(db, m).db = db /\ Scanned(db, m).mark = m
         /\ Scanned(db, m) # tracked => Scanned(db, m).seq > 0
PROOF
  <1>1. CASE frozen \/ (tracked.db = db /\ tracked.mark = m)
    <2>1. Scanned(db, m) = tracked
      BY <1>1, Zenon DEF Scanned
    <2>2. Follows(tracked, tracked)
      BY FollowsItself
    <2> QED
      BY <1>1, <2>1, <2>2, Zenon
  <1>2. CASE ~(frozen \/ (tracked.db = db /\ tracked.mark = m))
    <2>1. Scanned(db, m) = [seq |-> tracked.seq + 1, db |-> db, mark |-> m]
      BY <1>2, Zenon DEF Scanned
    <2>2. /\ Follows(tracked, Scanned(db, m)) /\ Scanned(db, m).seq > 0
          /\ Scanned(db, m).db = db /\ Scanned(db, m).mark = m
      BY <2>1, NextVersion
    <2> QED
      BY <1>2, <2>2, Zenon
  <1> QED
    BY <1>1, <1>2, Zenon

\* A save writes what was accepted, and nothing once the store is read-only.
LEMMA FlushedTyped ==
  ASSUME ChangesTyped
  PROVE  /\ Flushed \in Nat /\ Flushed <= mem
         /\ readOnly => Flushed = disk
PROOF
  <1>1. Flushed \in {disk, mem} /\ (readOnly => Flushed = disk)
    BY Zenon DEF Flushed
  <1> QED
    BY <1>1 DEF ChangesTyped

LEMMA FlushAndCloseFlags == FlushAndClose => readOnly' = TRUE /\ pending' \in BOOLEAN
BY Zenon DEF FlushAndClose

-----------------------------------------------------------------------------
(* Types.                                                                  *)

LEMMA TypeInit == Init => TypeOK
PROOF
  <1> SUFFICES ASSUME Init PROVE TypeOK
    OBVIOUS
  <1>1. Blank \in State /\ Blank.seq = 0
    BY DEF Blank, State
  <1>2. FlagsTyped
    BY Zenon DEF Init, FlagsTyped
  <1>3. ChangesTyped
    BY DEF Init, ChangesTyped
  <1>4. VersionsTyped
    BY <1>1 DEF Init, VersionsTyped
  <1>5. CallsTyped /\ WantsInRange
    BY <1>1 DEF Init, CallsTyped, WantsInRange
  <1> QED
    BY <1>2, <1>3, <1>4, <1>5 DEF TypeOK

\* A version may come after the one a call waits for.
LEMMA WantsStayInRange ==
  ASSUME VersionsTyped, CallsTyped, WantsInRange, UNCHANGED <<pc, want>>,
         Follows(tracked, tracked')
  PROVE  WantsInRange'
PROOF
  <1>1. tracked.seq \in Nat /\ tracked'.seq \in Nat /\ tracked.seq <= tracked'.seq
    BY StateParts DEF VersionsTyped, Follows
  <1> SUFFICES ASSUME NEW r \in Request
               PROVE  want[r] <= tracked'.seq /\ (pc[r] # "idle" => want[r] > 0)
    BY DEF WantsInRange
  <1>2. want[r] \in Nat /\ want[r] <= tracked.seq
    BY DEF CallsTyped, WantsInRange
  <1> QED
    BY <1>1, <1>2 DEF WantsInRange

\* Nothing but the numbered version changes, and that goes forward.
Onward == Follows(tracked, tracked') /\ UNCHANGED <<have, acked>>

LEMMA VersionsOnward == VersionsTyped /\ Onward => VersionsTyped'
BY Zenon DEF VersionsTyped, Onward, Follows

LEMMA SameVersion == VersionsTyped /\ UNCHANGED <<tracked, have, acked>> => Onward
BY FollowsItself, Zenon DEF VersionsTyped, Onward

LEMMA TypeChange == TypeOK /\ Change => TypeOK'
PROOF
  <1> SUFFICES ASSUME TypeOK, Change PROVE TypeOK'
    OBVIOUS
  <1>1. FlagsTyped'
    BY Zenon DEF TypeOK, FlagsTyped, Change
  <1>2. ChangesTyped'
    BY DEF TypeOK, ChangesTyped, Change
  <1>3. VersionsTyped' /\ CallsTyped' /\ WantsInRange'
    BY Zenon DEF TypeOK, VersionsTyped, CallsTyped, WantsInRange, Change, calls
  <1> QED
    BY <1>1, <1>2, <1>3, Zenon DEF TypeOK

LEMMA TypeSave == TypeOK /\ Save => TypeOK'
PROOF
  <1> SUFFICES ASSUME TypeOK, Save PROVE TypeOK'
    OBVIOUS
  <1>1. FlagsTyped'
    BY Zenon DEF TypeOK, FlagsTyped, Save
  <1>2. ChangesTyped'
    BY FlushedTyped, Zenon DEF TypeOK, ChangesTyped, Save
  <1>3. VersionsTyped' /\ CallsTyped' /\ WantsInRange'
    BY Zenon DEF TypeOK, VersionsTyped, CallsTyped, WantsInRange, Save, calls
  <1> QED
    BY <1>1, <1>2, <1>3, Zenon DEF TypeOK

LEMMA TypeScan == TypeOK /\ Scan => TypeOK' /\ Onward
PROOF
  <1> SUFFICES ASSUME TypeOK, Scan PROVE TypeOK' /\ Onward
    OBVIOUS
  <1>1. disk \in Nat /\ mark \in Request \cup {None} /\ tracked \in State
    BY Zenon DEF TypeOK, ChangesTyped, FlagsTyped, VersionsTyped
  <1>2. Onward
    BY <1>1, ScanNumbers, Zenon DEF Scan, Onward
  <1>3. VersionsTyped'
    BY <1>2, VersionsOnward, Zenon DEF TypeOK
  <1>4. WantsInRange'
    BY <1>2, WantsStayInRange, Zenon DEF TypeOK, Onward, Scan, calls
  <1>5. FlagsTyped' /\ ChangesTyped' /\ CallsTyped'
    BY Zenon DEF TypeOK, FlagsTyped, ChangesTyped, CallsTyped, Scan, store, calls
  <1> QED
    BY <1>2, <1>3, <1>4, <1>5, Zenon DEF TypeOK

LEMMA TypePull == ASSUME TypeOK, NEW s \in Standby, Pull(s) PROVE TypeOK'
PROOF
  <1>1. VersionsTyped'
    BY Zenon DEF TypeOK, VersionsTyped, Pull
  <1>2. FlagsTyped' /\ ChangesTyped' /\ CallsTyped' /\ WantsInRange'
    BY Zenon DEF TypeOK, FlagsTyped, ChangesTyped, CallsTyped, WantsInRange, Pull, store, calls
  <1> QED
    BY <1>1, <1>2, Zenon DEF TypeOK

LEMMA TypeAck == ASSUME TypeOK, NEW s \in Standby, Ack(s) PROVE TypeOK'
PROOF
  <1>1. have[s].seq \in Nat
    BY StateParts DEF TypeOK, VersionsTyped
  <1>2. VersionsTyped'
    BY <1>1, Zenon DEF TypeOK, VersionsTyped, Ack
  <1>3. FlagsTyped' /\ ChangesTyped' /\ CallsTyped' /\ WantsInRange'
    BY Zenon DEF TypeOK, FlagsTyped, ChangesTyped, CallsTyped, WantsInRange, Ack, store, calls
  <1> QED
    BY <1>2, <1>3, Zenon DEF TypeOK

LEMMA TypeLeave == TypeOK /\ (LoseOffice \/ Exit) => TypeOK'
PROOF
  <1> SUFFICES ASSUME TypeOK, LoseOffice \/ Exit PROVE TypeOK'
    OBVIOUS
  <1>1. FlagsTyped'
    BY FlushAndCloseFlags, Zenon DEF TypeOK, FlagsTyped, LoseOffice, Fence, Exit, calls
  <1>2. ChangesTyped'
    BY FlushedTyped, Zenon DEF TypeOK, ChangesTyped, LoseOffice, Fence, Exit, FlushAndClose
  <1>3. VersionsTyped' /\ CallsTyped' /\ WantsInRange'
    BY Zenon DEF TypeOK, VersionsTyped, CallsTyped, WantsInRange, LoseOffice, Exit, calls
  <1> QED
    BY <1>1, <1>2, <1>3, Zenon DEF TypeOK

LEMMA TypeStepDown == ASSUME TypeOK, NEW r \in Request, StepDown(r) PROVE TypeOK'
PROOF
  <1>1. FlagsTyped'
    BY FlushAndCloseFlags, Zenon DEF TypeOK, FlagsTyped, StepDown, Fence
  <1>2. ChangesTyped'
    BY FlushedTyped, Zenon DEF TypeOK, ChangesTyped, StepDown, Fence, FlushAndClose
  <1>3. pc[r] # "idle" /\ CallsTyped'
    BY Zenon DEF TypeOK, CallsTyped, StepDown
  <1>4. VersionsTyped' /\ WantsInRange'
    BY <1>3, Zenon DEF TypeOK, VersionsTyped, CallsTyped, WantsInRange, StepDown
  <1> QED
    BY <1>1, <1>2, <1>3, <1>4, Zenon DEF TypeOK

LEMMA TypeTimeOut == ASSUME TypeOK, NEW r \in Request, TimeOut(r) PROVE TypeOK'
PROOF
  <1>1. FlagsTyped'
    BY Zenon DEF TypeOK, FlagsTyped, TimeOut
  <1>2. pc[r] # "idle" /\ CallsTyped'
    BY Zenon DEF TypeOK, CallsTyped, TimeOut
  <1>3. ChangesTyped' /\ VersionsTyped' /\ WantsInRange'
    BY <1>2, Zenon DEF TypeOK, ChangesTyped, VersionsTyped, CallsTyped, WantsInRange, TimeOut
  <1> QED
    BY <1>1, <1>2, <1>3, Zenon DEF TypeOK

LEMMA TypeAgreed ==
  ASSUME TypeOK, WaitingIsFrozen, NEW r \in Request, Agreed(r)
  PROVE  TypeOK'
PROOF
  <1>1. target[r] \in Standby
    BY Zenon DEF WaitingIsFrozen, FrozenFor, Agreed
  <1>2. FlagsTyped'
    BY <1>1, Zenon DEF TypeOK, FlagsTyped, Agreed, store
  <1>3. pc[r] # "idle" /\ CallsTyped'
    BY Zenon DEF TypeOK, CallsTyped, Agreed
  <1>4. ChangesTyped' /\ VersionsTyped' /\ WantsInRange'
    BY <1>3, Zenon DEF TypeOK, ChangesTyped, VersionsTyped, CallsTyped, WantsInRange, Agreed, store
  <1> QED
    BY <1>2, <1>3, <1>4, Zenon DEF TypeOK

\* A call starts only while nothing is frozen, and freezes what it has just numbered.
LEMMA StartFreezes ==
  ASSUME OneAtATime, TypeOK, Freezing, FirstVersionUnmarked,
         NEW r \in Request, NEW s \in Standby, Start(r, s)
  PROVE  /\ \A q \in Request : ~Busy(q)
         /\ ~frozen
         /\ Onward
         /\ tracked'.db = disk' /\ tracked'.mark = r /\ tracked'.seq > 0
PROOF
  <1>1. \A q \in Request : pc[q] # "waiting"
    BY Zenon DEF Start
  <1>2. \A q \in Request : ~Handed(q)
    BY NobodyIsNoStandby, Zenon DEF Freezing, HandedIsFrozen, FrozenFor, Start
  <1>3. (\A q \in Request : ~Busy(q)) /\ ~frozen
    BY <1>1, <1>2, Zenon DEF Busy, Freezing, FreezeHasACall
  <1>4. disk' \in Nat /\ tracked \in State
    BY FlushedTyped, Zenon DEF TypeOK, VersionsTyped, Start, FlushAndClose
  <1>5. tracked' = Scanned(disk', r)
    BY Zenon DEF Start
  <1>6. /\ Onward
        /\ tracked'.db = disk' /\ tracked'.mark = r
        /\ tracked' # tracked => tracked'.seq > 0
    <2>1. r \in Request \cup {None}
      OBVIOUS
    <2>2. /\ Follows(tracked, Scanned(disk', r))
          /\ Scanned(disk', r).db = disk' /\ Scanned(disk', r).mark = r
          /\ Scanned(disk', r) # tracked => Scanned(disk', r).seq > 0
      BY <1>3, <1>4, <2>1, ScanNumbers, Zenon
    <2>3. UNCHANGED <<have, acked>>
      BY Zenon DEF Start
    <2> QED
      BY <1>5, <2>2, <2>3, Zenon DEF Onward
  <1>7. tracked' = tracked => tracked'.seq # 0
    BY <1>6, NobodyIsNoStandby, Zenon DEF FirstVersionUnmarked
  <1>8. tracked'.seq \in Nat
    BY <1>6, StateParts DEF Onward, Follows
  <1>9. tracked'.seq > 0
    BY <1>6, <1>7, <1>8
  <1> QED
    BY <1>3, <1>6, <1>9, Zenon

LEMMA TypeStart ==
  ASSUME OneAtATime, TypeOK, Freezing, FirstVersionUnmarked,
         NEW r \in Request, NEW s \in Standby, Start(r, s)
  PROVE  TypeOK'
PROOF
  <1>1. Onward /\ tracked'.seq > 0
    BY StartFreezes
  <1>2. tracked.seq \in Nat /\ tracked'.seq \in Nat /\ tracked.seq <= tracked'.seq
    BY <1>1, StateParts DEF TypeOK, VersionsTyped, Onward, Follows
  <1>3. FlagsTyped'
    BY FlushAndCloseFlags, Zenon DEF TypeOK, FlagsTyped, Start
  <1>4. ChangesTyped'
    BY FlushedTyped, Zenon DEF TypeOK, ChangesTyped, Start, FlushAndClose
  <1>5. VersionsTyped'
    BY <1>1, VersionsOnward, Zenon DEF TypeOK
  <1>6. CallsTyped'
    BY <1>2, Zenon DEF TypeOK, CallsTyped, Start
  <1>7. ASSUME NEW q \in Request
        PROVE  want'[q] <= tracked'.seq /\ (pc'[q] # "idle" => want'[q] > 0)
    <2>1. CASE q = r
      <3>1. want'[q] = tracked'.seq
        BY <2>1, Zenon DEF Start, TypeOK, CallsTyped
      <3> QED
        BY <1>1, <1>2, <3>1
    <2>2. CASE q # r
      <3>1. want'[q] = want[q] /\ pc'[q] = pc[q]
        BY <2>2, Zenon DEF Start, TypeOK, CallsTyped
      <3>2. want[q] \in Nat /\ want[q] <= tracked.seq /\ (pc[q] # "idle" => want[q] > 0)
        BY DEF TypeOK, CallsTyped, WantsInRange
      <3> QED
        BY <1>2, <3>1, <3>2
    <2> QED
      BY <2>1, <2>2
  <1> QED
    BY <1>3, <1>4, <1>5, <1>6, <1>7, Zenon DEF TypeOK, WantsInRange

-----------------------------------------------------------------------------
(* The freeze and its call.                                                *)

\* A step that starts and ends no call, and leaves alone what a freeze protects.
LEMMA FreezeKept ==
  ASSUME Freezing, UNCHANGED <<pc, target, want, handover, frozen>>,
         frozen => tracked' = tracked,
         readOnly => readOnly' /\ disk' = disk,
         frozen => \A s \in Standby : have[s] = tracked => have'[s] = tracked
  PROVE  Freezing'
PROOF
  <1>1. OneCall' /\ FreezeHasACall' /\ HandoverHasACall'
    BY Zenon DEF Freezing, OneCall, FreezeHasACall, HandoverHasACall, Busy, Handed
  <1>2. \A r \in Request : FrozenFor(r) => FrozenFor(r)' /\ tracked' = tracked
    BY Zenon DEF FrozenFor
  <1>3. WaitingIsFrozen'
    BY <1>2, Zenon DEF Freezing, WaitingIsFrozen
  <1>4. HandedIsFrozen'
    <2> SUFFICES ASSUME NEW r \in Request, Handed(r)'
                 PROVE  FrozenFor(r)' /\ handover' = target'[r] /\ have'[target'[r]] = tracked'
      BY Zenon DEF HandedIsFrozen
    <2>1. FrozenFor(r) /\ handover = target[r] /\ have[target[r]] = tracked
      BY Zenon DEF Freezing, HandedIsFrozen, Handed
    <2>2. frozen /\ target[r] \in Standby
      BY <2>1, Zenon DEF FrozenFor
    <2> QED
      BY <1>2, <2>1, <2>2, Zenon
  <1> QED
    BY <1>1, <1>3, <1>4, Zenon DEF Freezing

LEMMA FreezeStart ==
  ASSUME OneAtATime, TypeOK, Freezing, FirstVersionUnmarked,
         NEW r \in Request, NEW s \in Standby, Start(r, s)
  PROVE  Freezing'
PROOF
  <1>1. /\ \A q \in Request : ~Busy(q)
        /\ tracked'.db = disk' /\ tracked'.mark = r
    BY StartFreezes, Zenon
  <1>2. /\ pc'[r] = "waiting" /\ target'[r] = s /\ want'[r] = tracked'.seq
        /\ \A q \in Request : q # r => pc'[q] = pc[q]
    BY Zenon DEF Start, TypeOK, CallsTyped
  <1>3. \A q \in Request : Busy(q)' => q = r
    BY <1>1, <1>2, Zenon DEF Busy, Handed
  <1>4. pc'[r] = "waiting" /\ Busy(r)' /\ ~Handed(r)'
    BY <1>2 DEF Busy, Handed
  <1>5. FrozenFor(r)' /\ handover' = None
    BY <1>1, <1>2, FlushAndCloseFlags, Zenon DEF FrozenFor, Start
  <1>6. OneCall' /\ FreezeHasACall'
    BY <1>3, <1>4, Zenon DEF OneCall, FreezeHasACall
  <1>7. WaitingIsFrozen'
    BY <1>2, <1>3, <1>5, Zenon DEF WaitingIsFrozen, Busy
  <1>8. HandedIsFrozen' /\ HandoverHasACall'
    BY <1>3, <1>4, <1>5, Zenon DEF HandedIsFrozen, HandoverHasACall, Busy
  <1> QED
    BY <1>6, <1>7, <1>8, Zenon DEF Freezing

\* A standby that confirmed the awaited number has that version.
LEMMA ConfirmedHasIt ==
  ASSUME TypeOK, WaitingIsFrozen, CopiesAreTracked,
         NEW r \in Request, pc[r] = "waiting", Confirmed(r)
  PROVE  have[target[r]] = tracked
PROOF
  <1>1. target[r] \in Standby /\ want[r] = tracked.seq
    BY Zenon DEF WaitingIsFrozen, FrozenFor
  <1>2. have[target[r]] \in State /\ tracked \in State /\ acked[target[r]] \in Nat
    BY <1>1, Zenon DEF TypeOK, VersionsTyped
  <1>3. have[target[r]].seq \in Nat /\ tracked.seq \in Nat
    BY <1>2, StateParts
  <1>4. /\ acked[target[r]] <= have[target[r]].seq /\ have[target[r]].seq <= tracked.seq
        /\ have[target[r]].seq = tracked.seq => have[target[r]] = tracked
    BY <1>1, Zenon DEF CopiesAreTracked
  <1>5. acked[target[r]] >= tracked.seq
    BY <1>1, Zenon DEF Confirmed
  <1>6. have[target[r]].seq = tracked.seq
    BY <1>2, <1>3, <1>4, <1>5
  <1> QED
    BY <1>4, <1>6

LEMMA FreezeAgreed ==
  ASSUME TypeOK, Freezing, CopiesAreTracked, NEW r \in Request, Agreed(r)
  PROVE  Freezing'
PROOF
  <1>1. /\ pc[r] = "waiting" /\ Busy(r)
        /\ FrozenFor(r) /\ have[target[r]] = tracked
    BY ConfirmedHasIt, Zenon DEF Freezing, WaitingIsFrozen, Busy, Agreed
  <1>2. /\ pc'[r] = "stepping down"
        /\ \A q \in Request : q # r => pc'[q] = pc[q]
        /\ handover' = target[r]
    BY Zenon DEF Agreed, TypeOK, CallsTyped
  <1>3. \A q \in Request : Busy(q)' => q = r
    BY <1>1, <1>2, Zenon DEF Busy, Handed, Freezing, OneCall
  <1>4. Handed(r)' /\ Busy(r)' /\ pc'[r] # "waiting"
    BY <1>2 DEF Busy, Handed
  <1>5. FrozenFor(r)' /\ have'[target'[r]] = tracked' /\ handover' = target'[r]
    BY <1>1, <1>2, Zenon DEF FrozenFor, Agreed, store
  <1>6. OneCall' /\ FreezeHasACall' /\ HandoverHasACall'
    BY <1>3, <1>4, Zenon DEF OneCall, FreezeHasACall, HandoverHasACall
  <1>7. WaitingIsFrozen' /\ HandedIsFrozen'
    BY <1>3, <1>4, <1>5, Zenon DEF WaitingIsFrozen, HandedIsFrozen, Busy
  <1> QED
    BY <1>6, <1>7, Zenon DEF Freezing

LEMMA FreezeTimeOut ==
  ASSUME TypeOK, Freezing, NEW r \in Request, TimeOut(r)
  PROVE  Freezing' /\ ~frozen' /\ \A q \in Request : ~Busy(q)'
PROOF
  <1>1. pc[r] = "waiting" /\ Busy(r) /\ handover = None
    BY Zenon DEF Freezing, WaitingIsFrozen, Busy, TimeOut
  <1>2. pc'[r] = "failed" /\ \A q \in Request : q # r => pc'[q] = pc[q]
    BY Zenon DEF TimeOut, TypeOK, CallsTyped
  <1>3. ~Busy(r)'
    BY <1>2 DEF Busy, Handed
  <1>4. \A q \in Request : ~Busy(q)'
    BY <1>1, <1>2, <1>3, Zenon DEF Busy, Handed, Freezing, OneCall
  <1>5. ~frozen' /\ handover' = None
    BY <1>1, Zenon DEF TimeOut
  <1> QED
    BY <1>4, <1>5, Zenon
    DEF Freezing, OneCall, FreezeHasACall, WaitingIsFrozen, HandedIsFrozen, HandoverHasACall, Busy

LEMMA FreezeStepDown ==
  ASSUME TypeOK, Freezing, NEW r \in Request, StepDown(r)
  PROVE  Freezing' /\ \A q \in Request : Busy(q) => Busy(q)'
PROOF
  <1>1. Handed(r) /\ Busy(r) /\ FrozenFor(r) /\ readOnly
    BY Zenon DEF Freezing, HandedIsFrozen, FrozenFor, Busy, Handed, StepDown
  <1>2. pc'[r] = "done" /\ \A q \in Request : q # r => pc'[q] = pc[q]
    BY Zenon DEF StepDown, TypeOK, CallsTyped
  <1>3. \A q \in Request : Busy(q)' => q = r
    BY <1>1, <1>2, Zenon DEF Busy, Handed, Freezing, OneCall
  <1>4. Handed(r)' /\ Busy(r)' /\ pc'[r] # "waiting"
    BY <1>2 DEF Busy, Handed
  <1>5. disk' = disk /\ readOnly'
    BY <1>1, Zenon DEF StepDown, Fence, FlushAndClose, Flushed
  <1>6. FrozenFor(r)' /\ have'[target'[r]] = tracked' /\ handover' = target'[r]
    BY <1>1, <1>5, Zenon DEF Freezing, HandedIsFrozen, FrozenFor, StepDown
  <1>7. OneCall' /\ FreezeHasACall' /\ HandoverHasACall'
    BY <1>3, <1>4, Zenon DEF OneCall, FreezeHasACall, HandoverHasACall
  <1>8. WaitingIsFrozen' /\ HandedIsFrozen'
    BY <1>3, <1>4, <1>6, Zenon DEF WaitingIsFrozen, HandedIsFrozen, Busy
  <1>9. \A q \in Request : Busy(q) => Busy(q)'
    BY <1>1, <1>4, Zenon DEF Freezing, OneCall
  <1> QED
    BY <1>7, <1>8, <1>9, Zenon DEF Freezing

-----------------------------------------------------------------------------
(* The copies.                                                             *)

LEMMA CopiesOnward == TypeOK /\ CopiesAreTracked /\ Onward => CopiesAreTracked'
PROOF
  <1> SUFFICES ASSUME TypeOK, CopiesAreTracked, Onward, NEW s \in Standby
               PROVE  /\ acked'[s] <= have'[s].seq /\ have'[s].seq <= tracked'.seq
                      /\ have'[s].seq = tracked'.seq => have'[s] = tracked'
    BY DEF CopiesAreTracked
  <1>1. have'[s] = have[s] /\ acked'[s] = acked[s]
    BY Zenon DEF Onward
  <1>2. have[s] \in State /\ tracked \in State /\ tracked' \in State
    BY Zenon DEF TypeOK, VersionsTyped, Onward, Follows
  <1>3. have[s].seq \in Nat /\ tracked.seq \in Nat /\ tracked'.seq \in Nat
    BY <1>2, StateParts
  <1>4. /\ acked[s] <= have[s].seq /\ have[s].seq <= tracked.seq
        /\ have[s].seq = tracked.seq => have[s] = tracked
    BY Zenon DEF CopiesAreTracked
  <1>5. tracked.seq <= tracked'.seq /\ (tracked'.seq = tracked.seq => tracked' = tracked)
    BY Zenon DEF Onward, Follows
  <1>6. have[s].seq <= tracked'.seq /\ (have[s].seq = tracked'.seq => have[s] = tracked')
    BY <1>3, <1>4, <1>5
  <1> QED
    BY <1>1, <1>4, <1>6

LEMMA CopiesPull ==
  ASSUME TypeOK, CopiesAreTracked, NEW s \in Standby, Pull(s)
  PROVE  CopiesAreTracked'
PROOF
  <1>1. /\ have'[s] = tracked /\ \A q \in Standby : q # s => have'[q] = have[q]
        /\ UNCHANGED <<tracked, acked>>
    BY Zenon DEF Pull, TypeOK, VersionsTyped
  <1>2. have[s] \in State /\ tracked \in State /\ acked[s] \in Nat
    BY Zenon DEF TypeOK, VersionsTyped
  <1>3. have[s].seq \in Nat /\ tracked.seq \in Nat
    BY <1>2, StateParts
  <1>4. acked[s] <= have[s].seq /\ have[s].seq < tracked.seq
    BY Zenon DEF CopiesAreTracked, Pull
  <1>5. acked[s] <= tracked.seq /\ tracked.seq <= tracked.seq
    BY <1>2, <1>3, <1>4
  <1> QED
    BY <1>1, <1>5, Zenon DEF CopiesAreTracked

LEMMA CopiesAck ==
  ASSUME TypeOK, CopiesAreTracked, NEW s \in Standby, Ack(s)
  PROVE  CopiesAreTracked'
PROOF
  <1>1. /\ acked'[s] = have[s].seq /\ \A q \in Standby : q # s => acked'[q] = acked[q]
        /\ UNCHANGED <<tracked, have>>
    BY Zenon DEF Ack, TypeOK, VersionsTyped
  <1>2. have[s].seq \in Nat
    BY StateParts DEF TypeOK, VersionsTyped
  <1>3. have[s].seq <= have[s].seq
    BY <1>2
  <1> QED
    BY <1>1, <1>3, Zenon DEF CopiesAreTracked

-----------------------------------------------------------------------------
(* The invariant.                                                          *)

LEMMA IInvInit == Init => IInv
PROOF
  <1> SUFFICES ASSUME Init PROVE IInv
    OBVIOUS
  <1>1. TypeOK
    BY TypeInit
  <1>2. (\A r \in Request : ~Busy(r)) /\ \A r \in Request : ~Handed(r)
    BY DEF Init, Busy, Handed
  <1>3. Freezing
    BY <1>2, Zenon
    DEF Init, Freezing, OneCall, FreezeHasACall, WaitingIsFrozen, HandedIsFrozen, HandoverHasACall, Busy
  <1>4. CopiesAreTracked /\ FirstVersionUnmarked
    BY DEF Init, CopiesAreTracked, FirstVersionUnmarked, Blank
  <1>5. MarkHasACall
    BY Zenon DEF Init, MarkHasACall
  <1> QED
    BY <1>1, <1>3, <1>4, <1>5, Zenon DEF IInv

\* The steps that start and end no call.
LEMMA IInvQuiet ==
  ASSUME IInv, Change \/ Save \/ Scan \/ LoseOffice \/ Exit
  PROVE  IInv'
PROOF
  <1>1. TypeOK'
    BY TypeChange, TypeSave, TypeScan, TypeLeave, Zenon DEF IInv
  <1>2. Onward
    <2>1. CASE Scan
      BY <2>1, TypeScan, Zenon DEF IInv
    <2>2. CASE Change \/ Save \/ LoseOffice \/ Exit
      BY <2>2, SameVersion, Zenon DEF IInv, TypeOK, Change, Save, LoseOffice, Exit
    <2> QED
      BY <2>1, <2>2, Zenon
  <1>3. frozen => tracked' = tracked
    <2>1. disk \in Nat /\ mark \in Request \cup {None} /\ tracked \in State
      BY Zenon DEF IInv, TypeOK, ChangesTyped, FlagsTyped, VersionsTyped
    <2> QED
      BY <2>1, ScanNumbers, Zenon DEF Change, Save, Scan, LoseOffice, Exit
  <1>4. readOnly => readOnly' /\ disk' = disk
    BY Zenon DEF Change, Save, Scan, LoseOffice, Exit, Fence, FlushAndClose, Flushed, store
  <1>5. UNCHANGED <<pc, target, want, handover, frozen, have, mark>>
    BY Zenon DEF Change, Save, Scan, LoseOffice, Exit, store, calls
  <1>6. Freezing'
    BY <1>3, <1>4, <1>5, FreezeKept, Zenon DEF IInv
  <1>7. CopiesAreTracked'
    BY <1>2, CopiesOnward, Zenon DEF IInv
  <1>8. office' = office \/ office' # "leading"
    BY Zenon DEF Change, Save, Scan, LoseOffice, Exit, Fence
  <1>9. MarkHasACall'
    BY <1>5, <1>8, Zenon DEF IInv, MarkHasACall, Busy, Handed
  <1>10. FirstVersionUnmarked'
    <2>1. CASE tracked' = tracked
      BY <2>1, Zenon DEF IInv, FirstVersionUnmarked
    <2>2. CASE tracked' # tracked
      <3>1. Scan
        BY <2>2, Zenon DEF Change, Save, LoseOffice, Exit
      <3>2. disk \in Nat /\ mark \in Request \cup {None} /\ tracked \in State
        BY Zenon DEF IInv, TypeOK, ChangesTyped, FlagsTyped, VersionsTyped
      <3>3. tracked'.seq > 0
        BY <2>2, <3>1, <3>2, ScanNumbers, Zenon DEF Scan
      <3> QED
        BY <3>3 DEF FirstVersionUnmarked
    <2> QED
      BY <2>1, <2>2
  <1> QED
    BY <1>1, <1>6, <1>7, <1>9, <1>10, Zenon DEF IInv

LEMMA IInvStandby ==
  ASSUME IInv, NEW s \in Standby, Pull(s) \/ Ack(s)
  PROVE  IInv'
PROOF
  <1>1. TypeOK'
    BY TypePull, TypeAck, Zenon DEF IInv
  <1>2. UNCHANGED <<pc, target, want, handover, frozen, tracked, readOnly, disk, office, mark>>
    BY Zenon DEF Pull, Ack, store, calls
  <1>3. \A q \in Standby : have[q] = tracked => have'[q] = tracked
    BY Zenon DEF IInv, TypeOK, VersionsTyped, Pull, Ack
  <1>4. Freezing'
    BY <1>2, <1>3, FreezeKept, Zenon DEF IInv
  <1>5. CopiesAreTracked'
    BY CopiesPull, CopiesAck, Zenon DEF IInv
  <1>6. MarkHasACall' /\ FirstVersionUnmarked'
    BY <1>2, Zenon DEF IInv, MarkHasACall, FirstVersionUnmarked, Busy, Handed
  <1> QED
    BY <1>1, <1>4, <1>5, <1>6, Zenon DEF IInv

LEMMA IInvStart ==
  ASSUME OneAtATime, IInv, NEW r \in Request, NEW s \in Standby, Start(r, s)
  PROVE  IInv'
PROOF
  <1>1. TypeOK' /\ Freezing'
    BY TypeStart, FreezeStart, Zenon DEF IInv
  <1>2. Onward /\ tracked'.seq > 0
    BY StartFreezes, Zenon DEF IInv
  <1>3. CopiesAreTracked'
    BY <1>2, CopiesOnward, Zenon DEF IInv
  <1>4. Busy(r)'
    BY Zenon DEF IInv, TypeOK, CallsTyped, Start, Busy
  <1>5. MarkHasACall'
    BY <1>4, Zenon DEF MarkHasACall
  <1>6. FirstVersionUnmarked'
    BY <1>2 DEF FirstVersionUnmarked
  <1> QED
    BY <1>1, <1>3, <1>5, <1>6, Zenon DEF IInv

LEMMA IInvCall ==
  ASSUME IInv, NEW r \in Request, Agreed(r) \/ TimeOut(r) \/ StepDown(r)
  PROVE  IInv'
PROOF
  <1>1. TypeOK'
    BY TypeAgreed, TypeTimeOut, TypeStepDown, Zenon DEF IInv, Freezing
  <1>2. Freezing'
    BY FreezeAgreed, FreezeTimeOut, FreezeStepDown, Zenon DEF IInv
  <1>3. UNCHANGED <<tracked, have, acked>>
    BY Zenon DEF Agreed, TimeOut, StepDown
  <1>4. CopiesAreTracked' /\ FirstVersionUnmarked'
    BY <1>3, SameVersion, CopiesOnward, Zenon DEF IInv, TypeOK, FirstVersionUnmarked
  <1>5. MarkHasACall'
    <2>1. CASE Agreed(r)
      <3>1. Busy(r)'
        BY <2>1, Zenon DEF IInv, TypeOK, CallsTyped, Agreed, Busy, Handed
      <3> QED
        BY <3>1, Zenon DEF MarkHasACall
    <2>2. CASE TimeOut(r)
      <3>1. office' = office /\ (office = "leading" => mark' = None)
        BY <2>2, Zenon DEF TimeOut
      <3> QED
        BY <3>1, Zenon DEF MarkHasACall
    <2>3. CASE StepDown(r)
      <3>1. \A q \in Request : Busy(q) => Busy(q)'
        BY <2>3, FreezeStepDown, Zenon DEF IInv
      <3>2. mark' = mark /\ (office' = office \/ office' # "leading")
        BY <2>3, Zenon DEF StepDown, Fence
      <3> QED
        BY <3>1, <3>2, Zenon DEF IInv, MarkHasACall
    <2> QED
      BY <2>1, <2>2, <2>3
  <1> QED
    BY <1>1, <1>2, <1>4, <1>5, Zenon DEF IInv

LEMMA IInvStutter == IInv /\ UNCHANGED vars => IInv'
PROOF
  <1> SUFFICES ASSUME IInv, UNCHANGED vars PROVE IInv'
    OBVIOUS
  <1>1. UNCHANGED <<office, mem, disk, mark, readOnly, pending, frozen, tracked, have, acked,
                    handover, pc, target, want>>
    BY Zenon DEF vars, store, calls
  <1>2. FlagsTyped' /\ ChangesTyped' /\ VersionsTyped' /\ CallsTyped' /\ WantsInRange'
    BY <1>1, Zenon
    DEF IInv, TypeOK, FlagsTyped, ChangesTyped, VersionsTyped, CallsTyped, WantsInRange
  <1>3. Freezing'
    BY <1>1, FreezeKept, Zenon DEF IInv
  <1>4. CopiesAreTracked' /\ FirstVersionUnmarked'
    BY <1>1, Zenon DEF IInv, CopiesAreTracked, FirstVersionUnmarked
  <1>5. MarkHasACall'
    BY <1>1, Zenon DEF IInv, MarkHasACall, Busy, Handed
  <1> QED
    BY <1>2, <1>3, <1>4, <1>5, Zenon DEF IInv, TypeOK

LEMMA IInvNext == OneAtATime /\ IInv /\ [Next]_vars => IInv'
PROOF
  <1> SUFFICES ASSUME OneAtATime, IInv, [Next]_vars PROVE IInv'
    OBVIOUS
  <1> QED
    BY IInvQuiet, IInvStandby, IInvStart, IInvCall, IInvStutter, Zenon DEF Next

-----------------------------------------------------------------------------
(* The theorems.                                                           *)

\* While no call comes during another, the freeze, the copies and the mark keep to the
\* invariant: from the freeze to the end there is one call, one version, one target.
THEOREM FreezeIsOwned ==
  ASSUME OneAtATime
  PROVE  Spec => []IInv
PROOF
  <1>1. IInv /\ [Next]_vars => IInv'
    BY IInvNext
  <1> QED
    BY <1>1, IInvInit, PTL DEF Spec

\* Every variable keeps its type, and a call waits for a version that exists.
THEOREM TypeCorrect ==
  ASSUME OneAtATime
  PROVE  Spec => []TypeOK
PROOF
  <1>1. IInv => TypeOK
    BY DEF IInv
  <1> QED
    BY <1>1, FreezeIsOwned, PTL

\* The panel that is handed over to has all that the old one ever saved.
THEOREM TargetHasWhatIsSavedHolds ==
  ASSUME OneAtATime
  PROVE  Spec => []TargetHasWhatIsSaved
PROOF
  <1>1. IInv => TargetHasWhatIsSaved
    BY Zenon
    DEF IInv, Freezing, HandoverHasACall, HandedIsFrozen, FrozenFor, TargetHasWhatIsSaved
  <1> QED
    BY <1>1, FreezeIsOwned, PTL

\* It finds its own name in its copy of the mark.
THEOREM TargetFindsItsMarkHolds ==
  ASSUME OneAtATime
  PROVE  Spec => []TargetFindsItsMark
PROOF
  <1>1. IInv => TargetFindsItsMark
    BY NobodyIsNoStandby, Zenon
    DEF IInv, Freezing, HandoverHasACall, HandedIsFrozen, FrozenFor, TargetFindsItsMark
  <1> QED
    BY <1>1, FreezeIsOwned, PTL

\* A leader whose calls have all failed, or that had none, has no mark in its config.
THEOREM NoMarkIsLeftBehindHolds ==
  ASSUME OneAtATime
  PROVE  Spec => []NoMarkIsLeftBehind
PROOF
  <1>1. IInv => NoMarkIsLeftBehind
    BY Zenon DEF IInv, MarkHasACall, NoMarkIsLeftBehind, Busy, Handed
  <1> QED
    BY <1>1, FreezeIsOwned, PTL
=============================================================================
