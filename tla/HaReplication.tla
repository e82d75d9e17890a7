---------------------------- MODULE HaReplication ----------------------------
(***************************************************************************)
(* How the standbys copy the files of the active panel (panel/lib/ha.mjs,  *)
(* "replication" and "follower: apply"), and how the voters keep a standby *)
(* that lags behind from taking over (rule 5 of ha.mjs, refusal of         *)
(* shared/ha-voter.mjs).                                                   *)
(*                                                                         *)
(* Time is left out.  What HaLease shows of leases is used here: a panel   *)
(* in office has the live votes of a majority, so a lease whose end would  *)
(* take that majority away does not end before the panel has fenced.  A    *)
(* vote reply of a panel in office is heard at once or never: it is        *)
(* dropped after requestTimeout, which is shorter than the margin between  *)
(* the fence and the next promotion.  The connections of a panel that      *)
(* restarts are gone: what a standby was sent by it has been taken or lost *)
(* when the same panel is elected again.                                   *)
(*                                                                         *)
(* A file is the set of writes it contains: a panel reads, changes and     *)
(* writes back what it holds.  A version is <<term, seq>>.                 *)
(***************************************************************************)
EXTENDS Integers, FiniteSets, TLC

CONSTANTS
  Node,          \* the servers that run the panel
  Small,         \* the replicated files other than db.json
  Voter,         \* the enabled servers, one vote each
  None,          \* nobody, nothing
  First,         \* the panel in office at the start, in term 1
  TermsLedOnce,  \* TRUE: no two panels are ever elected in the same term
  MayStand,      \* bound on the nodes that stand for election, for TLC
  MaxTerm,       \* bound on terms, for TLC
  MaxWrites      \* bound on writes, for TLC

ASSUME PanelsAndVoters ==
  /\ First \in Node
  /\ None \notin Node
  /\ IsFiniteSet(Voter) /\ Voter # {}
  /\ TermsLedOnce \in BOOLEAN
  /\ MaxTerm \in Nat \ {0} /\ MaxWrites \in Nat

File == Small \cup {"db.json"}

Write == 1 .. MaxWrites
Content == SUBSET Write
Version == Nat \X Nat

VARIABLES
  role,       \* of each node: a leader is the panel in office
  term,       \* maxTermSeen; the term a candidate or leader stands for
  disk,       \* the replicated files in each node's data directory
  ver,        \* local.version, as saved in ha-local.json by a follower
  tracker,    \* the leader's view of its files: what its replies are built from
  committed,  \* the highest version the leader has an ack for
  wire,       \* the answer to each node's poll, on its way
  ack,        \* the last ack of each node, on its way
  voterTerm,  \* state.term of each voter
  holder,     \* votedFor while the lease lasts, None afterwards
  known,      \* knownCommitted of each voter
  published   \* every version ever tracked, with its files (for the properties)

vote == <<voterTerm, holder, known>>
vars == <<role, term, disk, ver, tracker, committed, wire, ack, vote, published>>

-----------------------------------------------------------------------------
Higher(a, b) == IF a < b THEN b ELSE a

\* cmpV(a, b) >= 0
AtLeast(a, b) == a[1] > b[1] \/ (a[1] = b[1] /\ a[2] >= b[2])

Newest(a, b) == IF AtLeast(a, b) THEN a ELSE b

Majority == Cardinality(Voter) \div 2 + 1

Backers(n) == {v \in Voter : holder[v] = n /\ voterTerm[v] = term[n]}

Written == UNION {disk[n][f] : n \in Node, f \in File} \cup UNION {p.files[f] : p \in published, f \in File}

\* Mutant: the files a new leader starts from count as its first change.
FreshTrackerAhead(t, files) == [ver |-> <<t, 0>>, files |-> files, seqs |-> [f \in File |-> 1]]

\* trackerStart: version <<t, 0>> is whatever the replicated files hold.
FreshTracker(t, files) == [ver |-> <<t, 0>>, files |-> files, seqs |-> [f \in File |-> 0]]

\* myVersion
MyVersion(n) == IF role[n] = "leader" THEN tracker[n].ver ELSE ver[n]

-----------------------------------------------------------------------------
(* The active panel.                                                       *)

\* A module of the panel reads one of the files, changes it and writes it.
WriteFile(n, f) ==
  /\ role[n] = "leader"
  /\ Write \ Written # {}
  /\ disk' = [disk EXCEPT ![n][f] = @ \cup {CHOOSE w \in Write : w \notin Written}]
  /\ UNCHANGED <<role, term, ver, tracker, committed, wire, ack, vote, published>>

Changed(n) == {f \in File : disk[n][f] # tracker[n].files[f]}

\* scan: one new version for all the files that changed.
Scan(n) ==
  /\ role[n] = "leader"
  /\ Changed(n) # {}
  /\ LET seq == tracker[n].ver[2] + 1
     IN  tracker' = [tracker EXCEPT ![n] =
                       [ver |-> <<@.ver[1], seq>>, files |-> disk[n],
                        seqs |-> [f \in File |-> IF f \in Changed(n) THEN seq ELSE @.seqs[f]]]]
  /\ published' = published \cup {[ver |-> tracker'[n].ver, files |-> disk[n]]}
  /\ UNCHANGED <<role, term, disk, ver, committed, wire, ack, vote>>

\* Mutant: any ack moves the committed version, one of an unknown version too.
DeliverAckUnchecked(n) ==
  /\ ack[n] # None
  /\ role[ack[n].to] = "leader"
  /\ committed' = [committed EXCEPT ![ack[n].to] = tracker[ack[n].to].ver]
  /\ ack' = [ack EXCEPT ![n] = None]
  /\ UNCHANGED <<role, term, disk, ver, tracker, wire, vote, published>>

\* handleAck
DeliverAck(n) ==
  /\ ack[n] # None
  /\ LET l == ack[n].to
         v == ack[n].ver
     IN  committed' = IF role[l] = "leader" /\ AtLeast(tracker[l].ver, v)
                      THEN [committed EXCEPT ![l] = Newest(v, @)]
                      ELSE committed
  /\ ack' = [ack EXCEPT ![n] = None]
  /\ UNCHANGED <<role, term, disk, ver, tracker, wire, vote, published>>

-----------------------------------------------------------------------------
(* The standby.                                                            *)

\* Mutant: the follower gets the difference only, whatever its term.
FilesSinceSeqOnly(l, have) ==
  {f \in File : tracker[l].seqs[f] > have[2]}

\* stateReply: everything, or what changed since the version the follower has.
FilesSince(l, have) ==
  LET v == tracker[l].ver
  IN  IF have[1] # v[1] \/ have[2] > v[2] THEN File
      ELSE {f \in File : tracker[l].seqs[f] > have[2]}

\* Mutant: the leader compares the numbers only, and has nothing for a follower whose
\* number, of an earlier term, is not below its own.
PollBySeq(n, l) ==
  /\ n # l
  /\ role[n] # "leader"
  /\ role[l] = "leader"
  /\ wire[n] = None
  /\ ver[n][2] < tracker[l].ver[2]
  /\ wire' = [wire EXCEPT ![n] =
                [from |-> l, ver |-> tracker[l].ver, term |-> term[l],
                 files |-> [f \in FilesSince(l, ver[n]) |-> tracker[l].files[f]]]]
  /\ UNCHANGED <<role, term, disk, ver, tracker, committed, ack, vote, published>>

\* pullOnce asks and handleState answers, when it has something newer.  (Answers that
\* only announce a restart or an update carry no file the follower lacks.)
Poll(n, l) ==
  /\ n # l
  /\ role[n] # "leader"
  /\ role[l] = "leader"
  /\ wire[n] = None
  /\ ~AtLeast(ver[n], tracker[l].ver)
  /\ wire' = [wire EXCEPT ![n] =
                [from |-> l, ver |-> tracker[l].ver, term |-> term[l],
                 files |-> [f \in FilesSince(l, ver[n]) |-> tracker[l].files[f]]]]
  /\ UNCHANGED <<role, term, disk, ver, tracker, committed, ack, vote, published>>

\* 204: the leader has nothing newer; stateOk ends a candidacy.
PollInSync(n, l) ==
  /\ n # l
  /\ role[n] = "candidate"
  /\ role[l] = "leader"
  /\ wire[n] = None
  /\ AtLeast(ver[n], tracker[l].ver)
  /\ role' = [role EXCEPT ![n] = "follower"]
  /\ UNCHANGED <<term, disk, ver, tracker, committed, wire, ack, vote, published>>

Overwritten(n, part) == [f \in File |-> IF f \in part THEN wire[n].files[f] ELSE disk[n][f]]

\* Mutant: nobody looks at the role again when the answer is there.
TakeStateInOffice(n) ==
  /\ wire[n] # None
  /\ AtLeast(wire[n].ver, ver[n]) \/ role[n] = "leader"
  /\ disk' = [disk EXCEPT ![n] = Overwritten(n, DOMAIN wire[n].files)]
  /\ ver' = [ver EXCEPT ![n] = wire[n].ver]
  /\ term' = [term EXCEPT ![n] = Higher(@, wire[n].term)]
  /\ role' = [role EXCEPT ![n] = IF @ = "candidate" THEN "follower" ELSE @]
  /\ ack' = [ack EXCEPT ![n] = [to |-> wire[n].from, ver |-> wire[n].ver]]
  /\ wire' = [wire EXCEPT ![n] = None]
  /\ UNCHANGED <<tracker, committed, vote, published>>

\* The rest of pullOnce, applyState and stateOk: an answer that is not older than
\* what the node has is written, and acknowledged.
TakeState(n) ==
  /\ wire[n] # None
  /\ role[n] # "leader"
  /\ AtLeast(wire[n].ver, ver[n])
  /\ disk' = [disk EXCEPT ![n] = Overwritten(n, DOMAIN wire[n].files)]
  /\ ver' = [ver EXCEPT ![n] = wire[n].ver]
  /\ term' = [term EXCEPT ![n] = Higher(@, wire[n].term)]
  /\ role' = [role EXCEPT ![n] = "follower"]
  /\ ack' = [ack EXCEPT ![n] = [to |-> wire[n].from, ver |-> wire[n].ver]]
  /\ wire' = [wire EXCEPT ![n] = None]
  /\ UNCHANGED <<tracker, committed, vote, published>>

\* The answer is lost, comes too late, or is older than what the node has.
DropState(n) ==
  /\ wire[n] # None
  /\ wire' = [wire EXCEPT ![n] = None]
  /\ UNCHANGED <<role, term, disk, ver, tracker, committed, ack, vote, published>>

\* The process comes back as a standby.
Restarts(n) ==
  /\ role' = [role EXCEPT ![n] = "follower"]
  /\ tracker' = [tracker EXCEPT ![n] = None]
  /\ committed' = [committed EXCEPT ![n] = <<0, 0>>]
  /\ wire' = [wire EXCEPT ![n] = None]

\* A crash, a fence, an update.  A leader saves its version some time after the scan
\* (saveLocalSoon), or when it is stopped; a follower at once (applyState).
Restart(n) ==
  /\ Restarts(n)
  /\ IF role[n] = "leader"
     THEN \E seq \in 0 .. tracker[n].ver[2] : ver' = [ver EXCEPT ![n] = <<term[n], seq>>]
     ELSE UNCHANGED ver
  /\ UNCHANGED <<term, disk, ack, vote, published>>

\* The process dies in applyState: db.json is written last, the version after it.
CrashInApply(n) ==
  /\ wire[n] # None
  /\ role[n] # "leader"
  /\ AtLeast(wire[n].ver, ver[n])
  /\ \E part \in SUBSET Small \cup {File} :
       disk' = [disk EXCEPT ![n] = Overwritten(n, part \cap DOMAIN wire[n].files)]
  /\ Restarts(n)
  /\ UNCHANGED <<ver, term, ack, vote, published>>

-----------------------------------------------------------------------------
(* Elections.                                                              *)

\* becomeCandidate, in a term above every term the node has heard of; a standby
\* that never received a state does not stand (candidacyBlocker).
Stand(n) ==
  /\ n \in MayStand
  /\ role[n] = "follower"
  /\ ver[n] # <<0, 0>>
  /\ \E heard \in {term[n]} \cup {voterTerm[v] : v \in Voter} :
       /\ Higher(heard, term[n]) < MaxTerm
       /\ term' = [term EXCEPT ![n] = Higher(heard, term[n]) + 1]
  /\ role' = [role EXCEPT ![n] = "candidate"]
  /\ UNCHANGED <<disk, ver, tracker, committed, wire, ack, vote, published>>

\* Another node's lease, or no majority in time.
GiveUp(n) ==
  /\ role[n] = "candidate"
  /\ role' = [role EXCEPT ![n] = "follower"]
  /\ UNCHANGED <<term, disk, ver, tracker, committed, wire, ack, vote, published>>

\* Mutant: the version of the candidate's data is not looked at.
RefusesByLeaseOnly(v, n) == term[n] < voterTerm[v] \/ holder[v] \notin {n, None}

\* refusal
Refuses(v, n) ==
  \/ term[n] < voterTerm[v]
  \/ ~AtLeast(MyVersion(n), known[v])
  \/ holder[v] \notin {n, None}

Grant(v, n) ==
  /\ role[n] \in {"candidate", "leader"}
  /\ ~Refuses(v, n)
  /\ voterTerm' = [voterTerm EXCEPT ![v] = term[n]]
  /\ holder' = [holder EXCEPT ![v] = n]
  /\ UNCHANGED <<role, term, disk, ver, tracker, committed, wire, ack, known, published>>

\* The voter's lease runs out.  The panel in office has fenced before it loses its
\* majority.
LeaseEnds(v) ==
  /\ holder[v] # None
  /\ \A n \in Node : role[n] = "leader" /\ v \in Backers(n) => Cardinality(Backers(n)) > Majority
  /\ holder' = [holder EXCEPT ![v] = None]
  /\ UNCHANGED <<role, term, disk, ver, tracker, committed, wire, ack, voterTerm, known, published>>

\* A reply of the panel in office to the heartbeat of a voter (handleReply).
Hear(v, n) ==
  /\ role[n] = "leader"
  /\ ~AtLeast(known[v], committed[n])
  /\ known' = [known EXCEPT ![v] = committed[n]]
  /\ UNCHANGED <<role, term, disk, ver, tracker, committed, wire, ack, voterTerm, holder, published>>

\* Nothing is under way any more that n sent, or is to be sent, of an earlier office.
Forgotten(n) ==
  \A m \in Node : (wire[m] # None => wire[m].from # n) /\ (ack[m] # None => ack[m].to # n)

\* promote and trackerStart
Promote(n) ==
  /\ role[n] = "candidate"
  /\ Cardinality(Backers(n)) >= Majority
  /\ Forgotten(n)
  /\ TermsLedOnce => \A p \in published : p.ver[1] # term[n]
  /\ role' = [role EXCEPT ![n] = "leader"]
  /\ tracker' = [tracker EXCEPT ![n] = FreshTracker(term[n], disk[n])]
  /\ ver' = [ver EXCEPT ![n] = <<term[n], 0>>]
  /\ published' = published \cup {[ver |-> <<term[n], 0>>, files |-> disk[n]]}
  /\ UNCHANGED <<term, disk, committed, wire, ack, vote>>

-----------------------------------------------------------------------------
Empty == [f \in File |-> {}]

\* One panel has just been elected, with everybody's vote; the standbys are new.
Init ==
  /\ role = [n \in Node |-> IF n = First THEN "leader" ELSE "follower"]
  /\ term = [n \in Node |-> IF n = First THEN 1 ELSE 0]
  /\ disk = [n \in Node |-> Empty]
  /\ ver = [n \in Node |-> IF n = First THEN <<1, 0>> ELSE <<0, 0>>]
  /\ tracker = [n \in Node |-> IF n = First THEN FreshTracker(1, Empty) ELSE None]
  /\ committed = [n \in Node |-> <<0, 0>>]
  /\ wire = [n \in Node |-> None]
  /\ ack = [n \in Node |-> None]
  /\ voterTerm = [v \in Voter |-> 1]
  /\ holder = [v \in Voter |-> First]
  /\ known = [v \in Voter |-> <<0, 0>>]
  /\ published = {[ver |-> <<1, 0>>, files |-> Empty]}

Next ==
  \/ \E n \in Node :
       \/ Scan(n) \/ DeliverAck(n) \/ TakeState(n) \/ DropState(n)
       \/ Restart(n) \/ CrashInApply(n) \/ Stand(n) \/ GiveUp(n) \/ Promote(n)
  \/ \E n \in Node, f \in File : WriteFile(n, f)
  \/ \E n, l \in Node : Poll(n, l) \/ PollInSync(n, l)
  \/ \E v \in Voter : LeaseEnds(v)
  \/ \E v \in Voter, n \in Node : Grant(v, n) \/ Hear(v, n)

Spec == Init /\ [][Next]_vars

\* A standby reaches the leader again and again, its answers arrive in the end, the
\* leader scans every second and acks arrive; nobody has to be elected.
Fairness ==
  /\ \A n \in Node : WF_vars(Scan(n)) /\ SF_vars(TakeState(n)) /\ SF_vars(DeliverAck(n))
  /\ \A n, l \in Node : WF_vars(Poll(n, l))

FairSpec == Spec /\ Fairness

\* For TLC: no constant tells the voters apart.
VotersAlike == Permutations(Voter)

-----------------------------------------------------------------------------
(* Properties.                                                             *)

TypeOK ==
  /\ role \in [Node -> {"follower", "candidate", "leader"}]
  /\ term \in [Node -> 0 .. MaxTerm]
  /\ disk \in [Node -> [File -> Content]]
  /\ ver \in [Node -> Version]
  /\ \A n \in Node : tracker[n] = None \/
       /\ tracker[n].ver \in Version
       /\ tracker[n].files \in [File -> Content]
       /\ tracker[n].seqs \in [File -> 0 .. tracker[n].ver[2]]
  /\ committed \in [Node -> Version]
  /\ \A n \in Node : wire[n] = None \/
       /\ wire[n].from \in Node
       /\ wire[n].ver \in Version
       /\ wire[n].term \in 0 .. MaxTerm
       /\ wire[n].files \in UNION {[part -> Content] : part \in SUBSET File}
  /\ \A n \in Node : ack[n] = None \/ (ack[n].to \in Node /\ ack[n].ver \in Version)
  /\ voterTerm \in [Voter -> 0 .. MaxTerm]
  /\ holder \in [Voter -> Node \cup {None}]
  /\ known \in [Voter -> Version]
  /\ \A p \in published : p.ver \in Version /\ p.files \in [File -> Content]

Holds(n, files) == \A f \in File : files[f] \subseteq disk[n][f]

\* ha.mjs rule 8: "a deposed leader can never roll a follower back".  The version a
\* node has on disk never goes back.
NeverRollsBack == [][\A n \in Node : AtLeast(ver'[n], ver[n])]_vars

\* docs/HA.md, Replication: a follower whose version is the leader's (it is answered
\* 204 from then on) has the leader's files, whichever differences and full copies,
\* crashes and leaders brought it there.
SyncedMeansEqual ==
  \A n, l \in Node :
    role[l] = "leader" /\ n # l /\ ver[n] = tracker[l].ver => disk[n] = tracker[l].files

\* The leader of p's term told v that p is committed, and no later leader told it more.
Told(v, p) == known[v][1] = p.ver[1] /\ known[v][2] >= p.ver[2]

\* ha.mjs rule 5: data every voter has been told is committed is never lost.  The
\* panel that takes over has it, however stale its own data was before.
WhatAllVotersKnowSurvives ==
  \A l \in Node, p \in published :
    role[l] = "leader" /\ (\A v \in Voter : Told(v, p)) => Holds(l, p.files)

\* shared/ha-voter.mjs: "so a stale node can never take over and lose acknowledged
\* writes": the panel that takes over has what its predecessor told a majority of
\* the voters is committed.
WhatAMajorityKnowsSurvives ==
  \A l \in Node, p \in published :
    role[l] = "leader" /\ Cardinality({v \in Voter : Told(v, p)}) >= Majority
      => Holds(l, p.files)

\* ha.mjs rule 5: "The request carries its replicated version honestly (what it has
\* written to disk, persisted in ha-local.json after the files)": a node has the
\* writes of the version it claims.
VersionIsHonest == \A n \in Node, p \in published : p.ver = ver[n] => Holds(n, p.files)

\* What a leader reports as committed is on the disk of a standby, or in its own
\* past: some other node once wrote a version at least as new.
CommittedIsElsewhere ==
  \A l \in Node : role[l] = "leader" /\ committed[l] # <<0, 0>> =>
    \E n \in Node \ {l} : AtLeast(ver[n], committed[l])

InStep(n) == \A l \in Node : role[l] = "leader" => n = l \/ ver[n] = tracker[l].ver

\* A standby always catches up with the panel in office again, unless there is none.
StandbysCatchUp == \A n \in Node : []<>InStep(n)
=============================================================================
