---------------------------- MODULE HaLeaseProofs ----------------------------
(***************************************************************************)
(* Proofs about the vote protocol, for any sets of nodes and voters, any   *)
(* lease lengths and any margins no shorter than the evaluation interval:  *)
(* types are kept, no two panels are ever in office at once, and office    *)
(* passes from one panel to another through a vacancy.                     *)
(*                                                                         *)
(* The inductive invariant follows a vote through its life.  Time left on  *)
(* a grant, on its way or in the hands of a node, never exceeds the time   *)
(* left on the voter's lease for that node; a restart can only lengthen    *)
(* the lease, because the saved length bounds it; and a panel in office    *)
(* held a majority of such grants, margin included, when it last evaluated *)
(* them.  The margin outlasts the interval between evaluations, so all of  *)
(* those leases are still live, and two majorities share a voter.          *)
(***************************************************************************)
EXTENDS HaLease, FiniteSetTheorems, TLAPS

\* What a grant with `left` time on it, from v for n, says about v's lease.
HeldFor(v, n, left) == left > 0 => votedFor[v] = n /\ leaseLeft[v] >= left

GrantCovered(g, v, n) ==
  /\ HeldFor(v, n, g.len - g.age)
  /\ g.len > g.age => EvalEvery <= g.margin

GrantsCovered == \A n \in Node, v \in Voter : GrantCovered(grants[n][v], v, n)

MessagesCovered ==
  \A m \in msgs : m.kind = "grant" => HeldFor(m.voter, m.node, Lower(m.given, m.lease) - m.age)

SavedLengthBounds == \A v \in Voter : leaseLeft[v] <= leaseLen[v]

\* The votes that backed n at its last evaluation.
Backing(n) ==
  {v \in Voter : /\ grants[n][v].len > grants[n][v].age
                 /\ grants[n][v].len + lag[n] > grants[n][v].age + grants[n][v].margin}

OfficeBacked == \A n \in Node : Backed(n) => Cardinality(Backing(n)) >= Majority

IInv ==
  /\ TypeOK
  /\ GrantsCovered
  /\ MessagesCovered
  /\ SavedLengthBounds
  /\ OfficeBacked

-----------------------------------------------------------------------------

\* Two majorities of the voters have a voter in common.
LEMMA MajoritiesMeet ==
  ASSUME NEW S \in SUBSET Voter, NEW T \in SUBSET Voter,
         Cardinality(S) >= Majority, Cardinality(T) >= Majority
  PROVE  \E v \in Voter : v \in S /\ v \in T
PROOF
  <1>1. IsFiniteSet(Voter)
    BY NodesAndVoters
  <1>2. /\ IsFiniteSet(S) /\ IsFiniteSet(T) /\ IsFiniteSet(S \cup T) /\ IsFiniteSet(S \cap T)
        /\ Cardinality(S \cup T) <= Cardinality(Voter)
    <2>1. S \cup T \in SUBSET Voter /\ S \cap T \in SUBSET Voter
      OBVIOUS
    <2> QED
      BY <1>1, <2>1, FS_Subset
  <1>3. /\ Cardinality(S) \in Nat /\ Cardinality(T) \in Nat
        /\ Cardinality(Voter) \in Nat /\ Cardinality(S \cup T) \in Nat
    BY <1>1, <1>2, FS_CardinalityType
  <1>4. SUFFICES ASSUME S \cap T = {}
                 PROVE  FALSE
    OBVIOUS
  <1>5. Cardinality(S \cup T) = Cardinality(S) + Cardinality(T)
    <2>1. Cardinality(S \cap T) = 0
      BY <1>4, FS_EmptySet
    <2>2. Cardinality(S \cup T) = Cardinality(S) + Cardinality(T) - Cardinality(S \cap T)
      BY <1>2, FS_Union
    <2> QED
      BY <1>3, <2>1, <2>2
  <1> QED
    BY <1>2, <1>3, <1>5 DEF Majority

\* A larger set of voters that contains a majority is a majority.
LEMMA MajorityGrows ==
  ASSUME NEW S \in SUBSET Voter, NEW T \in SUBSET Voter, S \subseteq T,
         Cardinality(S) >= Majority
  PROVE  Cardinality(T) >= Majority
PROOF
  <1>1. IsFiniteSet(T) /\ IsFiniteSet(Voter)
    BY NodesAndVoters, FS_Subset
  <1>2. Cardinality(S) <= Cardinality(T) /\ IsFiniteSet(S)
    BY <1>1, FS_Subset
  <1>3. Cardinality(S) \in Nat /\ Cardinality(T) \in Nat /\ Cardinality(Voter) \in Nat
    BY <1>1, <1>2, FS_CardinalityType
  <1> QED
    BY <1>2, <1>3 DEF Majority

-----------------------------------------------------------------------------

\* The time left under the shorter of two lengths.
LEMMA LowerFits ==
  ASSUME NEW a \in Nat, NEW b \in Nat, NEW c \in Nat
  PROVE  Lower(a, b) \in Nat /\ Lower(a, b) - c \in Int /\ Lower(a, b) - c <= a
PROOF
  <1>1. CASE a < b
    BY <1>1 DEF Lower
  <1>2. CASE ~(a < b)
    BY <1>2 DEF Lower
  <1> QED
    BY <1>1, <1>2

\* The invariant says what the reader wants to know.
LEMMA BackingIsLive ==
  ASSUME IInv, NEW n \in Node, Backed(n)
  PROVE  /\ Cardinality(Backing(n)) >= Majority
         /\ \A v \in Backing(n) : votedFor[v] = n /\ leaseLeft[v] > 0
PROOF
  <1>1. Cardinality(Backing(n)) >= Majority
    BY DEF IInv, OfficeBacked
  <1>2. ASSUME NEW v \in Backing(n)
        PROVE  votedFor[v] = n /\ leaseLeft[v] > 0
    <2>1. v \in Voter /\ grants[n][v].len > grants[n][v].age
      BY DEF Backing
    <2>2. grants[n][v] \in Grant /\ leaseLeft[v] \in Nat
      BY <2>1 DEF IInv, TypeOK, VotersTyped, NodesTyped
    <2>3. grants[n][v].len - grants[n][v].age > 0
      BY <2>1, <2>2 DEF Grant
    <2>4. HeldFor(v, n, grants[n][v].len - grants[n][v].age)
      BY <2>1 DEF IInv, GrantsCovered, GrantCovered
    <2> QED
      BY <2>2, <2>3, <2>4 DEF HeldFor, Grant
  <1> QED
    BY <1>1, <1>2

LEMMA InvariantGivesOneLeader == IInv => AtMostOneLeader
PROOF
  <1> SUFFICES ASSUME IInv, NEW m \in Node, NEW n \in Node, Backed(m), Backed(n)
               PROVE  m = n
    BY DEF AtMostOneLeader
  <1>1. PICK v \in Voter : v \in Backing(m) /\ v \in Backing(n)
    <2>1. Backing(m) \in SUBSET Voter /\ Backing(n) \in SUBSET Voter
      BY DEF Backing
    <2> QED
      BY <2>1, BackingIsLive, MajoritiesMeet
  <1> QED
    BY <1>1, BackingIsLive

LEMMA InvariantGivesLiveLeases == IInv => OfficeRestsOnLiveLeases
PROOF
  <1> SUFFICES ASSUME IInv, NEW n \in Node, Backed(n)
               PROVE  Cardinality({v \in Voter : votedFor[v] = n /\ leaseLeft[v] > 0}) >= Majority
    BY DEF OfficeRestsOnLiveLeases
  <1> DEFINE Live == {v \in Voter : votedFor[v] = n /\ leaseLeft[v] > 0}
  <1>1. Backing(n) \subseteq Live
    BY BackingIsLive DEF Backing
  <1>2. Backing(n) \in SUBSET Voter /\ Live \in SUBSET Voter
    BY DEF Backing
  <1> HIDE DEF Live
  <1>3. Cardinality(Live) >= Majority
    BY <1>1, <1>2, BackingIsLive, MajorityGrows
  <1> QED
    BY <1>3 DEF Live

LEMMA InvariantGivesHeldVotes == IInv => CountedVoteIsHeld
PROOF
  <1> SUFFICES ASSUME IInv, NEW n \in Node, NEW v \in Voter, Counts(grants[n][v])
               PROVE  votedFor[v] = n /\ leaseLeft[v] >= grants[n][v].len - grants[n][v].age
    BY DEF CountedVoteIsHeld
  <1>1. grants[n][v] \in Grant
    BY DEF IInv, TypeOK, VotersTyped, NodesTyped
  <1>2. grants[n][v].len - grants[n][v].age > 0
    BY <1>1 DEF Counts, Grant
  <1> QED
    BY <1>2 DEF IInv, GrantsCovered, GrantCovered, HeldFor

-----------------------------------------------------------------------------

\* Failover is turned on.
LEMMA InitEstablishesInvariant == Init => IInv
PROOF
  <1> SUFFICES ASSUME Init
               PROVE  IInv
    OBVIOUS
  <1> USE DEF Init
  <1>1. TypeOK
    BY NodesAndVoters, LeasesAndMargins DEF TypeOK, VotersTyped, NodesTyped, Grant, NoGrants, NoGrant
  <1>2. GrantsCovered
    BY DEF GrantsCovered, GrantCovered, HeldFor, NoGrants, NoGrant
  <1>3. MessagesCovered
    BY DEF MessagesCovered
  <1>4. SavedLengthBounds
    BY LeasesAndMargins DEF SavedLengthBounds
  <1>5. OfficeBacked
    BY DEF OfficeBacked, Backed
  <1> QED
    BY <1>1, <1>2, <1>3, <1>4, <1>5 DEF IInv

-----------------------------------------------------------------------------

\* No grant is a grant that covers nothing.
LEMMA NoGrantsFit ==
  /\ NoGrants \in [Voter -> Grant]
  /\ \A n \in Node, v \in Voter : GrantCovered(NoGrants[v], v, n)
PROOF
  BY DEF NoGrants, NoGrant, Grant, GrantCovered, HeldFor

\* What evaluate may change: the roles of others never, the node's own office
\* only on the strength of the grants it holds.
LEMMA EvaluateOutcome ==
  ASSUME IInv, NEW n \in Node, NEW heard \in Nat, NEW held \in [Voter -> Grant],
         Evaluate(n, heard, held)
  PROVE  /\ NodesTyped'
         /\ \A m \in Node : m # n => /\ role'[m] = role[m] /\ armed'[m] = armed[m]
                                    /\ lag'[m] = lag[m] /\ grants'[m] = grants[m]
         /\ grants'[n] \in {held, NoGrants}
         /\ lag'[n] = 0
         /\ Backed(n)' => HasMajority(held) /\ grants'[n] = held
PROOF
  <1> USE DEF IInv, TypeOK, NodesTyped
  <1>0. lag' = [lag EXCEPT ![n] = 0] /\ 0 \in 0 .. EvalEvery
    BY LeasesAndMargins DEF Evaluate
  <1>1. CASE Elected(n, heard, held)
    BY <1>0, <1>1 DEF Elected, Campaigning, Backed
  <1>2. CASE StaysInOffice(n, heard, held)
    BY <1>0, <1>2 DEF StaysInOffice, Serving, Backed
  <1>3. ASSUME Restarts(n)
        PROVE  /\ NodesTyped'
               /\ \A m \in Node : m # n => /\ role'[m] = role[m] /\ armed'[m] = armed[m]
                                          /\ grants'[m] = grants[m]
               /\ grants'[n] = NoGrants
               /\ ~Backed(n)'
    BY <1>0, <1>3, NoGrantsFit DEF Restarts, Backed
  <1>4. CASE Fences(n, held)
    BY <1>0, <1>3, <1>4 DEF Fences
  <1>5. CASE GivesUp(n, heard, held)
    BY <1>0, <1>5, NoGrantsFit DEF GivesUp, Campaigning, Backed
  <1>6. CASE StaysOutOfOffice(n, heard, held)
    BY <1>0, <1>6 DEF StaysOutOfOffice, Backed
  <1>7. CASE Stands(n, heard)
    BY <1>0, <1>7, NoGrantsFit DEF Stands, Backed
  <1> QED
    BY <1>1, <1>2, <1>4, <1>5, <1>6, <1>7 DEF Evaluate

\* evaluate keeps the parts of the invariant that speak of nodes.
LEMMA EvaluateKeeps ==
  ASSUME IInv, NEW n \in Node, NEW heard \in Nat, NEW held \in [Voter -> Grant],
         \A v \in Voter : GrantCovered(held[v], v, n),
         Evaluate(n, heard, held), UNCHANGED voterVars
  PROVE  NodesTyped' /\ GrantsCovered' /\ OfficeBacked'
PROOF
  <1>1. UNCHANGED <<votedFor, leaseLeft>>
    BY DEF voterVars
  <1>2. GrantsCovered'
    <2> SUFFICES ASSUME NEW m \in Node, NEW v \in Voter
                 PROVE  GrantCovered(grants[m][v], v, m)'
      BY DEF GrantsCovered
    <2>1. GrantCovered(grants'[m][v], v, m)
      <3>1. CASE m = n
        BY <3>1, EvaluateOutcome, NoGrantsFit
      <3>2. CASE m # n
        BY <3>2, EvaluateOutcome DEF IInv, GrantsCovered
      <3> QED
        BY <3>1, <3>2
    <2> QED
      BY <1>1, <2>1 DEF GrantCovered, HeldFor
  <1>3. OfficeBacked'
    <2> SUFFICES ASSUME NEW m \in Node, Backed(m)'
                 PROVE  (Cardinality(Backing(m)) >= Majority)'
      BY DEF OfficeBacked
    <2>1. CASE m # n
      <3>1. Backed(m) /\ Backing(m)' = Backing(m)
        BY <2>1, EvaluateOutcome DEF Backed, Backing
      <3> QED
        BY <3>1 DEF IInv, OfficeBacked, Majority
    <2>2. CASE m = n
      <3> DEFINE Counted == {v \in Voter : Counts(held[v])}
      <3>1. grants'[n] = held /\ lag'[n] = 0 /\ Cardinality(Counted) >= Majority
        BY <2>2, EvaluateOutcome DEF HasMajority
      <3>2. Counted \subseteq Backing(n)'
        BY <3>1 DEF Counts, Backing, Grant
      <3>3. Counted \in SUBSET Voter /\ Backing(n)' \in SUBSET Voter
        BY DEF Backing
      <3> HIDE DEF Counted
      <3>4. Cardinality(Backing(n)') >= Majority
        BY <3>1, <3>2, <3>3, MajorityGrows
      <3> QED
        BY <2>2, <3>4 DEF Majority
    <2> QED
      BY <2>1, <2>2
  <1> QED
    BY <1>2, <1>3, EvaluateOutcome

-----------------------------------------------------------------------------
(* One lemma per action.                                                   *)

LEMMA AnswerRequestKeeps ==
  ASSUME IInv, NEW m \in msgs, AnswerRequest(m)
  PROVE  IInv'
PROOF
  <1> USE DEF IInv, TypeOK
  <1> DEFINE w == m.voter
             given == Given(w, m.lease)
             grant == [kind |-> "grant", node |-> m.node, voter |-> w, term |-> m.term,
                       age |-> m.age, lease |-> m.lease, given |-> given]
  <1>1. /\ m.kind = "request" /\ m \in Request
        /\ w \in Voter /\ m.node \in Node /\ m.term \in Nat /\ m.age \in Nat /\ m.lease \in Lease
    BY DEF AnswerRequest, Request, GrantMsg
  <1>2. given \in Nat
    BY <1>1, LeasesAndMargins DEF Given
  <1>3. grant \in GrantMsg
    BY <1>1, <1>2 DEF GrantMsg
  <1>4. /\ leaseLeft' = [leaseLeft EXCEPT ![w] = Higher(@, given)]
        /\ leaseLen' = [leaseLen EXCEPT ![w] = Higher(leaseLeft[w], given)]
        /\ votedFor' = [votedFor EXCEPT ![w] = m.node]
        /\ voterTerm' = [voterTerm EXCEPT ![w] = m.term]
        /\ msgs' = (msgs \ {m}) \cup {grant}
        /\ UNCHANGED nodeVars
        /\ votedFor[w] # m.node => ~(leaseLeft[w] > 0)
    BY DEF AnswerRequest, Refuses
  <1> HIDE DEF w, given, grant
  <1>5. TypeOK'
    BY <1>1, <1>2, <1>3, <1>4 DEF VotersTyped, NodesTyped, nodeVars, Higher
  <1>6. \A v \in Voter : leaseLeft'[v] >= leaseLeft[v] /\ leaseLeft[v] \in Nat /\ leaseLeft'[v] \in Nat
    BY <1>1, <1>2, <1>4, <1>5 DEF VotersTyped, Higher
  <1>7. \A v \in Voter, n \in Node, left \in Int : HeldFor(v, n, left) => HeldFor(v, n, left)'
    BY <1>1, <1>4, <1>6 DEF HeldFor, VotersTyped
  <1>8. GrantsCovered'
    <2> SUFFICES ASSUME NEW n \in Node, NEW v \in Voter
                 PROVE  GrantCovered(grants[n][v], v, n)'
      BY DEF GrantsCovered
    <2>1. grants'[n][v] = grants[n][v] /\ grants[n][v] \in Grant /\ GrantCovered(grants[n][v], v, n)
      BY <1>4 DEF nodeVars, NodesTyped, GrantsCovered
    <2> QED
      BY <1>7, <2>1 DEF GrantCovered, Grant
  <1>9. MessagesCovered'
    <2> SUFFICES ASSUME NEW x \in msgs', x.kind = "grant"
                 PROVE  HeldFor(x.voter, x.node, Lower(x.given, x.lease) - x.age)'
      BY DEF MessagesCovered
    <2>1. CASE x \in msgs
      <3>1. x \in GrantMsg
        BY <2>1 DEF Request, GrantMsg
      <3>2. Lower(x.given, x.lease) - x.age \in Int /\ x.voter \in Voter /\ x.node \in Node
        BY <3>1, LowerFits, LeasesAndMargins DEF GrantMsg
      <3> QED
        BY <1>7, <2>1, <3>2 DEF MessagesCovered
    <2>2. CASE x = grant
      <3>1. /\ x.voter = w /\ x.node = m.node /\ x.given = given /\ x.age = m.age /\ x.lease = m.lease
        BY <2>2 DEF grant
      <3>2. leaseLeft'[w] >= given /\ votedFor'[w] = m.node
        BY <1>1, <1>2, <1>4 DEF VotersTyped, Higher
      <3>3. Lower(given, m.lease) - m.age <= given /\ Lower(given, m.lease) - m.age \in Int
        BY <1>1, <1>2, LowerFits, LeasesAndMargins
      <3> QED
        BY <1>1, <1>2, <1>6, <3>1, <3>2, <3>3 DEF HeldFor
    <2> QED
      BY <1>4, <2>1, <2>2
  <1>10. SavedLengthBounds'
    BY <1>1, <1>2, <1>4, <1>5 DEF SavedLengthBounds, VotersTyped, Higher
  <1>11. OfficeBacked'
    BY <1>4 DEF OfficeBacked, Backed, Backing, nodeVars, Majority
  <1> QED
    BY <1>5, <1>8, <1>9, <1>10, <1>11

LEMMA RestartVoterKeeps ==
  ASSUME IInv, NEW w \in Voter, RestartVoter(w)
  PROVE  IInv'
PROOF
  <1> USE DEF IInv, TypeOK
  <1>1. /\ leaseLeft' = [leaseLeft EXCEPT ![w] = leaseLen[w]]
        /\ msgs' \subseteq msgs
        /\ UNCHANGED <<voterTerm, votedFor, leaseLen, nodeVars>>
    BY DEF RestartVoter
  <1>2. TypeOK'
    BY <1>1 DEF VotersTyped, NodesTyped, nodeVars
  <1>3. \A v \in Voter : leaseLeft'[v] >= leaseLeft[v] /\ leaseLeft[v] \in Nat /\ leaseLeft'[v] \in Nat
    BY <1>1, <1>2 DEF SavedLengthBounds, VotersTyped
  <1>4. \A v \in Voter, n \in Node, left \in Int : HeldFor(v, n, left) => HeldFor(v, n, left)'
    BY <1>1, <1>3 DEF HeldFor
  <1>5. GrantsCovered'
    <2> SUFFICES ASSUME NEW n \in Node, NEW v \in Voter
                 PROVE  GrantCovered(grants[n][v], v, n)'
      BY DEF GrantsCovered
    <2>1. grants'[n][v] = grants[n][v] /\ grants[n][v] \in Grant /\ GrantCovered(grants[n][v], v, n)
      BY <1>1 DEF nodeVars, NodesTyped, GrantsCovered
    <2> QED
      BY <1>4, <2>1 DEF GrantCovered, Grant
  <1>6. MessagesCovered'
    <2> SUFFICES ASSUME NEW x \in msgs', x.kind = "grant"
                 PROVE  HeldFor(x.voter, x.node, Lower(x.given, x.lease) - x.age)'
      BY DEF MessagesCovered
    <2>1. x \in msgs /\ x \in GrantMsg
      BY <1>1 DEF Request, GrantMsg
    <2>2. Lower(x.given, x.lease) - x.age \in Int /\ x.voter \in Voter /\ x.node \in Node
      BY <2>1, LowerFits, LeasesAndMargins DEF GrantMsg
    <2> QED
      BY <1>4, <2>1, <2>2 DEF MessagesCovered
  <1>7. SavedLengthBounds'
    BY <1>1, <1>2 DEF SavedLengthBounds, VotersTyped
  <1>8. OfficeBacked'
    BY <1>1 DEF OfficeBacked, Backed, Backing, nodeVars, Majority
  <1> QED
    BY <1>2, <1>5, <1>6, <1>7, <1>8

\* What no step of a node may disturb, as long as the new messages are covered.
LEMMA VotersUntouched ==
  ASSUME IInv, UNCHANGED voterVars, msgs' \subseteq Request \cup GrantMsg,
         \A x \in msgs' : x.kind = "grant" => x \in msgs
  PROVE  VotersTyped' /\ MessagesCovered' /\ SavedLengthBounds'
PROOF
  <1>1. VotersTyped' /\ SavedLengthBounds'
    BY DEF IInv, TypeOK, VotersTyped, SavedLengthBounds, voterVars
  <1>2. MessagesCovered'
    BY DEF IInv, MessagesCovered, HeldFor, voterVars
  <1> QED
    BY <1>1, <1>2

LEMMA TickEvaluateKeeps ==
  ASSUME IInv, NEW n \in Node, TickEvaluate(n)
  PROVE  IInv'
PROOF
  <1>1. seen[n] \in Nat /\ grants[n] \in [Voter -> Grant]
    BY DEF IInv, TypeOK, NodesTyped
  <1>2. \A v \in Voter : GrantCovered(grants[n][v], v, n)
    BY DEF IInv, GrantsCovered
  <1>3. NodesTyped' /\ GrantsCovered' /\ OfficeBacked'
    BY <1>1, <1>2, EvaluateKeeps DEF TickEvaluate
  <1>4. VotersTyped' /\ MessagesCovered' /\ SavedLengthBounds' /\ msgs' = msgs
    BY VotersUntouched DEF TickEvaluate, IInv, TypeOK
  <1> QED
    BY <1>3, <1>4 DEF IInv, TypeOK

\* Grants kept after a voter's word about its own vote are still covered.
LEMMA KeptFits ==
  ASSUME IInv, NEW n \in Node, NEW v \in Voter, NEW t \in Nat, NEW for
  PROVE  /\ Kept(n, v, t, for) \in [Voter -> Grant]
         /\ \A w \in Voter : GrantCovered(Kept(n, v, t, for)[w], w, n)
PROOF
  <1>1. grants[n] \in [Voter -> Grant] /\ NoGrant \in Grant
    BY DEF IInv, TypeOK, NodesTyped, NoGrant, Grant
  <1>2. \A w \in Voter : GrantCovered(grants[n][w], w, n) /\ GrantCovered(NoGrant, w, n)
    BY DEF IInv, GrantsCovered, GrantCovered, HeldFor, NoGrant
  <1> QED
    BY <1>1, <1>2 DEF Kept

LEMMA HeartbeatKeeps ==
  ASSUME IInv, NEW v \in Voter, NEW n \in Node, Heartbeat(v, n)
  PROVE  IInv'
PROOF
  <1>1. Higher(seen[n], voterTerm[v]) \in Nat /\ voterTerm[v] \in Nat
    BY DEF IInv, TypeOK, NodesTyped, VotersTyped, Higher
  <1>2. NodesTyped' /\ GrantsCovered' /\ OfficeBacked'
    BY <1>1, KeptFits, EvaluateKeeps DEF Heartbeat
  <1>3. /\ msgs' \subseteq Request \cup GrantMsg
        /\ \A x \in msgs' : x.kind = "grant" => x \in msgs
    BY <1>2 DEF Heartbeat, IInv, TypeOK, NodesTyped, Request
  <1>4. VotersTyped' /\ MessagesCovered' /\ SavedLengthBounds'
    BY <1>3, VotersUntouched DEF Heartbeat
  <1> QED
    BY <1>2, <1>3, <1>4 DEF IInv, TypeOK

\* The grant a node records from a message is covered, and its margin is long
\* enough to last until the next evaluation.
LEMMA RecordedFits ==
  ASSUME IInv, NEW m \in msgs, m.kind = "grant"
  PROVE  /\ m.node \in Node /\ m.voter \in Voter /\ m.term \in Nat
         /\ Recorded(m.node, m) \in [Voter -> Grant]
         /\ \A w \in Voter : GrantCovered(Recorded(m.node, m)[w], w, m.node)
PROOF
  <1>1. m \in GrantMsg
    BY DEF IInv, TypeOK, Request
  <1>2. /\ m.node \in Node /\ m.voter \in Voter /\ m.term \in Nat
        /\ m.lease \in Lease /\ m.lease \in Nat /\ m.given \in Nat /\ m.age \in Nat
        /\ Margin[m.lease] \in Nat /\ EvalEvery <= Margin[m.lease]
    BY <1>1, LeasesAndMargins DEF GrantMsg
  <1> DEFINE held == Kept(m.node, m.voter, m.term, m.node)
             new == [age |-> m.age, len |-> Lower(m.given, m.lease), margin |-> Margin[m.lease]]
  <1>3. /\ held \in [Voter -> Grant]
        /\ \A w \in Voter : GrantCovered(held[w], w, m.node)
    BY <1>2, KeptFits
  <1>4. new \in Grant
    BY <1>2 DEF Grant, Lower
  <1>5. GrantCovered(new, m.voter, m.node)
    BY <1>2 DEF GrantCovered, IInv, MessagesCovered
  <1>6. Recorded(m.node, m) \in {held, [held EXCEPT ![m.voter] = new]}
    BY DEF Recorded
  <1> HIDE DEF held, new
  <1> QED
    BY <1>2, <1>3, <1>4, <1>5, <1>6

LEMMA TakeGrantKeeps ==
  ASSUME IInv, NEW m \in msgs, TakeGrant(m)
  PROVE  IInv'
PROOF
  <1>1. m.kind = "grant" /\ msgs' = msgs \ {m} /\ UNCHANGED voterVars
    BY DEF TakeGrant
  <1>2. /\ m.node \in Node
        /\ Recorded(m.node, m) \in [Voter -> Grant]
        /\ \A w \in Voter : GrantCovered(Recorded(m.node, m)[w], w, m.node)
        /\ m.term \in Nat
    BY <1>1, RecordedFits
  <1>3. Higher(seen[m.node], m.term) \in Nat
    BY <1>2 DEF IInv, TypeOK, NodesTyped, Higher
  <1>4. NodesTyped' /\ GrantsCovered' /\ OfficeBacked'
    BY <1>1, <1>2, <1>3, EvaluateKeeps DEF TakeGrant
  <1>5. msgs' \subseteq Request \cup GrantMsg
    BY <1>1 DEF IInv, TypeOK
  <1>6. VotersTyped' /\ MessagesCovered' /\ SavedLengthBounds'
    BY <1>1, <1>5, VotersUntouched
  <1> QED
    BY <1>4, <1>5, <1>6 DEF IInv, TypeOK

LEMMA PromotionDoneKeeps ==
  ASSUME IInv, NEW n \in Node, PromotionDone(n)
  PROVE  IInv'
PROOF
  <1>1. PICK a \in ConfigArmed : armed' = [armed EXCEPT ![n] = a \/ HasMajority(grants[n])]
    BY DEF PromotionDone
  <1>2. /\ role[n] = "promoting" /\ role' = [role EXCEPT ![n] = "leader"]
        /\ UNCHANGED <<term, seen, lag, grants, voterVars, msgs>>
    BY DEF PromotionDone
  <1>3. a \in BOOLEAN /\ (a \/ HasMajority(grants[n])) \in BOOLEAN
    BY NodesAndVoters
  <1>4. NodesTyped'
    BY <1>1, <1>2, <1>3 DEF IInv, TypeOK, NodesTyped
  <1>5. GrantsCovered'
    BY <1>2 DEF IInv, GrantsCovered, GrantCovered, HeldFor, voterVars
  <1>6. OfficeBacked'
    <2> SUFFICES ASSUME NEW m \in Node, Backed(m)'
                 PROVE  (Cardinality(Backing(m)) >= Majority)'
      BY DEF OfficeBacked
    <2>1. Backed(m)
      BY <1>1, <1>2 DEF Backed, IInv, TypeOK, NodesTyped
    <2> QED
      BY <1>2, <2>1 DEF IInv, OfficeBacked, Backing, Majority
  <1>7. VotersTyped' /\ MessagesCovered' /\ SavedLengthBounds' /\ msgs' \subseteq Request \cup GrantMsg
    BY <1>2, VotersUntouched DEF IInv, TypeOK
  <1> QED
    BY <1>4, <1>5, <1>6, <1>7 DEF IInv, TypeOK

LEMMA StopKeeps ==
  ASSUME IInv, NEW n \in Node, Stop(n)
  PROVE  IInv'
PROOF
  <1>1. Restarts(n) /\ lag' = [lag EXCEPT ![n] = 0] /\ 0 \in 0 .. EvalEvery
    BY LeasesAndMargins DEF Stop
  <1>2. NodesTyped'
    BY <1>1, NoGrantsFit DEF IInv, TypeOK, NodesTyped, Restarts
  <1>3. \A m \in Node : /\ grants'[m] \in {grants[m], NoGrants}
                        /\ Backed(m)' => m # n /\ Backed(m)
                        /\ m # n => grants'[m] = grants[m] /\ lag'[m] = lag[m]
    BY <1>1 DEF IInv, TypeOK, NodesTyped, Restarts, Backed
  <1>4. GrantsCovered'
    <2> SUFFICES ASSUME NEW m \in Node, NEW v \in Voter
                 PROVE  GrantCovered(grants[m][v], v, m)'
      BY DEF GrantsCovered
    <2>1. GrantCovered(grants'[m][v], v, m)
      BY <1>3, NoGrantsFit DEF IInv, GrantsCovered
    <2> QED
      BY <2>1 DEF GrantCovered, HeldFor, Stop, voterVars
  <1>5. OfficeBacked'
    <2> SUFFICES ASSUME NEW m \in Node, Backed(m)'
                 PROVE  (Cardinality(Backing(m)) >= Majority)'
      BY DEF OfficeBacked
    <2>1. Backed(m) /\ Backing(m)' = Backing(m)
      BY <1>3 DEF Backing
    <2> QED
      BY <2>1 DEF IInv, OfficeBacked, Majority
  <1>6. VotersTyped' /\ MessagesCovered' /\ SavedLengthBounds' /\ msgs' \subseteq Request \cup GrantMsg
    BY VotersUntouched DEF Stop, IInv, TypeOK
  <1> QED
    BY <1>2, <1>4, <1>5, <1>6 DEF IInv, TypeOK

\* A unit of time takes at most one unit from a grant, and the grants that backed
\* a panel in office still back it, because it evaluates them in time.
LEMMA TickKeeps ==
  ASSUME IInv, Tick
  PROVE  IInv'
PROOF
  <1> USE DEF IInv, TypeOK
  <1>1. /\ \A n \in Node : Serving(n) => lag[n] < EvalEvery
        /\ leaseLeft' = [v \in Voter |-> Less(leaseLeft[v], 1)]
        /\ lag' = [n \in Node |-> IF Serving(n) THEN lag[n] + 1 ELSE 0]
        /\ grants' = [n \in Node |-> [v \in Voter |-> Aged(grants[n][v])]]
        /\ msgs' = {Older(m) : m \in {x \in msgs : Alive(x)}}
        /\ UNCHANGED <<voterTerm, votedFor, leaseLen, role, term, seen, armed>>
    BY DEF Tick
  <1>2. \A v \in Voter : leaseLeft'[v] \in Nat /\ leaseLeft'[v] >= leaseLeft[v] - 1
                         /\ leaseLeft'[v] <= leaseLeft[v]
    BY <1>1 DEF VotersTyped, Less
  <1>3. VotersTyped'
    BY <1>1, <1>2 DEF VotersTyped
  <1>4. SavedLengthBounds'
    BY <1>1, <1>2 DEF SavedLengthBounds, VotersTyped
  <1>5. ASSUME NEW g \in Grant
        PROVE  /\ Aged(g) \in Grant
               /\ Aged(g).len > Aged(g).age => Aged(g).len = g.len /\ Aged(g).age = g.age + 1
                                               /\ Aged(g).margin = g.margin
               /\ g.len > g.age + 1 => Aged(g).len = g.len /\ Aged(g).age = g.age + 1
                                       /\ Aged(g).margin = g.margin
    BY DEF Aged, Older, NoGrant, Grant
  <1>6. \A n \in Node, v \in Voter : grants[n][v] \in Grant /\ grants'[n][v] = Aged(grants[n][v])
    BY <1>1 DEF NodesTyped
  <1>7. NodesTyped'
    <2>1. grants' \in [Node -> [Voter -> Grant]]
      BY <1>1, <1>5, <1>6
    <2>2. lag' \in [Node -> 0 .. EvalEvery]
      BY <1>1, LeasesAndMargins DEF NodesTyped
    <2> QED
      BY <1>1, <2>1, <2>2 DEF NodesTyped
  <1>8. \A v \in Voter, n \in Node, left \in Int : HeldFor(v, n, left) => HeldFor(v, n, left - 1)'
    BY <1>1, <1>2 DEF HeldFor, VotersTyped
  <1>9. GrantsCovered'
    <2> SUFFICES ASSUME NEW n \in Node, NEW v \in Voter
                 PROVE  GrantCovered(grants[n][v], v, n)'
      BY DEF GrantsCovered
    <2> DEFINE g == grants[n][v]
               h == grants'[n][v]
    <2>1. g \in Grant /\ h = Aged(g) /\ h \in Grant /\ GrantCovered(g, v, n)
      BY <1>5, <1>6 DEF GrantsCovered
    <2>2. CASE ~(h.len > h.age)
      BY <2>1, <2>2 DEF GrantCovered, HeldFor, Grant
    <2>3. CASE h.len > h.age
      <3>1. h.len = g.len /\ h.age = g.age + 1 /\ h.margin = g.margin
        BY <1>5, <2>1, <2>3
      <3>2. h.len - h.age = (g.len - g.age) - 1 /\ g.len - g.age \in Int /\ g.len > g.age
        BY <2>1, <2>3, <3>1 DEF Grant
      <3>3. HeldFor(v, n, g.len - g.age) /\ EvalEvery <= g.margin
        BY <2>1, <3>2 DEF GrantCovered
      <3>4. votedFor'[v] = n /\ leaseLeft'[v] >= h.len - h.age
        BY <1>1, <1>2, <2>1, <3>2, <3>3 DEF HeldFor, VotersTyped, Grant
      <3>5. EvalEvery <= h.margin
        BY <3>1, <3>3
      <3> HIDE DEF g
      <3>6. votedFor'[v] = n /\ leaseLeft'[v] >= grants'[n][v].len - grants'[n][v].age
            /\ EvalEvery <= grants'[n][v].margin
        BY <3>4, <3>5 DEF h
      <3> QED
        BY <3>6 DEF GrantCovered, HeldFor
    <2> QED
      BY <2>2, <2>3
  <1>10. ASSUME NEW x \in msgs'
         PROVE  /\ x \in Request \cup GrantMsg
                /\ x.kind = "grant" => HeldFor(x.voter, x.node, Lower(x.given, x.lease) - x.age)'
    <2>1. PICK m \in msgs : x = [m EXCEPT !.age = @ + 1]
      BY <1>1 DEF Older
    <2>2. CASE m \in Request
      BY <2>1, <2>2 DEF Request
    <2>3. CASE m \in GrantMsg
      <3>1. /\ x \in GrantMsg /\ m.kind = "grant" /\ x.voter = m.voter /\ x.node = m.node
            /\ x.given = m.given /\ x.lease = m.lease /\ x.age = m.age + 1
            /\ m.voter \in Voter /\ m.node \in Node /\ m.given \in Nat /\ m.lease \in Nat /\ m.age \in Nat
        BY <2>1, <2>3, LeasesAndMargins DEF GrantMsg
      <3> DEFINE left == Lower(m.given, m.lease) - m.age
      <3>2. left \in Int /\ Lower(x.given, x.lease) - x.age = left - 1
        <4>1. Lower(x.given, x.lease) = Lower(m.given, m.lease) /\ Lower(m.given, m.lease) \in Nat
          BY <3>1, LowerFits
        <4> QED
          BY <3>1, <4>1
      <3>3. HeldFor(m.voter, m.node, left)
        BY <3>1 DEF MessagesCovered
      <3> HIDE DEF left
      <3>4. left - 1 > 0 => votedFor'[m.voter] = m.node /\ leaseLeft'[m.voter] >= left - 1
        BY <1>1, <1>2, <3>1, <3>2, <3>3 DEF HeldFor, VotersTyped
      <3> QED
        BY <3>1, <3>2, <3>4 DEF HeldFor
    <2> QED
      BY <2>2, <2>3
  <1>11. msgs' \subseteq Request \cup GrantMsg /\ MessagesCovered'
    BY <1>10 DEF MessagesCovered
  <1>12. OfficeBacked'
    <2> SUFFICES ASSUME NEW n \in Node, Backed(n)'
                 PROVE  (Cardinality(Backing(n)) >= Majority)'
      BY DEF OfficeBacked
    <2>1. Backed(n) /\ Serving(n)
      BY <1>1 DEF Backed, Serving
    <2>2. lag[n] < EvalEvery /\ lag'[n] = lag[n] + 1 /\ lag[n] \in Nat
      BY <1>1, <2>1, LeasesAndMargins DEF NodesTyped
    <2>3. ASSUME NEW v \in Backing(n)
          PROVE  v \in Backing(n)'
      <3> DEFINE g == grants[n][v]
                 h == grants'[n][v]
      <3>1. v \in Voter /\ g \in Grant /\ h = Aged(g)
            /\ g.len > g.age /\ g.len + lag[n] > g.age + g.margin /\ EvalEvery <= g.margin
        BY <1>6 DEF Backing, GrantsCovered, GrantCovered
      <3>2. g.len > g.age + 1
        BY <2>2, <3>1, LeasesAndMargins DEF Grant
      <3>3. h.len = g.len /\ h.age = g.age + 1 /\ h.margin = g.margin
        BY <1>5, <3>1, <3>2
      <3> QED
        BY <2>2, <3>1, <3>2, <3>3 DEF Backing, Grant
    <2>4. Backing(n) \in SUBSET Voter /\ Backing(n)' \in SUBSET Voter /\ Backing(n) \subseteq Backing(n)'
      BY <2>3 DEF Backing
    <2>5. Cardinality(Backing(n)') >= Majority
      BY <2>1, <2>4, MajorityGrows DEF OfficeBacked
    <2> QED
      BY <2>5 DEF Majority
  <1> QED
    BY <1>3, <1>4, <1>7, <1>9, <1>11, <1>12

LEMMA NextKeeps == IInv /\ [Next]_vars => IInv'
PROOF
  <1> SUFFICES ASSUME IInv, [Next]_vars
               PROVE  IInv'
    OBVIOUS
  <1>1. ASSUME NEW m \in msgs, AnswerRequest(m)
        PROVE  IInv'
    BY <1>1, AnswerRequestKeeps
  <1>2. ASSUME NEW m \in msgs, TakeGrant(m)
        PROVE  IInv'
    BY <1>2, TakeGrantKeeps
  <1>3. ASSUME NEW v \in Voter, RestartVoter(v)
        PROVE  IInv'
    BY <1>3, RestartVoterKeeps
  <1>4. ASSUME NEW v \in Voter, NEW n \in Node, Heartbeat(v, n)
        PROVE  IInv'
    BY <1>4, HeartbeatKeeps
  <1>5. ASSUME NEW n \in Node, TickEvaluate(n)
        PROVE  IInv'
    BY <1>5, TickEvaluateKeeps
  <1>6. ASSUME NEW n \in Node, PromotionDone(n)
        PROVE  IInv'
    BY <1>6, PromotionDoneKeeps
  <1>7. ASSUME NEW n \in Node, Stop(n)
        PROVE  IInv'
    BY <1>7, StopKeeps
  <1>8. CASE Tick
    BY <1>8, TickKeeps
  <1>9. CASE UNCHANGED vars
    BY <1>9 DEF vars, voterVars, nodeVars, IInv, TypeOK, VotersTyped, NodesTyped, GrantsCovered,
                GrantCovered, HeldFor, MessagesCovered, SavedLengthBounds, OfficeBacked, Backed,
                Backing, Majority
  <1> QED
    BY <1>1, <1>2, <1>3, <1>4, <1>5, <1>6, <1>7, <1>8, <1>9 DEF Next

-----------------------------------------------------------------------------
(* The theorems.                                                           *)

LEMMA InvariantHolds == Spec => []IInv
PROOF
  BY InitEstablishesInvariant, NextKeeps, PTL DEF Spec

\* Types are kept: no countdown of voter or node runs below zero, and a panel in
\* office never lets more than EvalEvery pass between two evaluations.
THEOREM TypeCorrect == Spec => []TypeOK
PROOF
  <1>1. IInv => TypeOK
    BY DEF IInv
  <1> QED
    BY <1>1, InvariantHolds, PTL

\* ha.mjs rules 1-5: two panels are never in office at once, whatever messages
\* are lost or late, whichever processes crash, and however often the lease
\* setting changes.
THEOREM OneLeader == Spec => []AtMostOneLeader
PROOF
  BY InvariantHolds, InvariantGivesOneLeader, PTL

\* ha.mjs rule 2: a grant a node counts is a lease its voter still holds for it.
THEOREM VotesAreHeld == Spec => []CountedVoteIsHeld
PROOF
  BY InvariantHolds, InvariantGivesHeldVotes, PTL

\* ha.mjs rule 3: a panel in office always rests on a majority of live leases.
THEOREM OfficeIsLive == Spec => []OfficeRestsOnLiveLeases
PROOF
  BY InvariantHolds, InvariantGivesLiveLeases, PTL

-----------------------------------------------------------------------------
(* No panel serves without votes.                                          *)

\* evaluate puts a node in office on votes only, and lets no armed panel lose its arms.
LEMMA EvaluateServes ==
  ASSUME NodesTyped, NeverServesUnbacked, NEW n \in Node, NEW heard, NEW held, Evaluate(n, heard, held)
  PROVE  NeverServesUnbacked'
PROOF
  <1> USE DEF NodesTyped
  <1>1. CASE Elected(n, heard, held)
    BY <1>1 DEF Elected, NeverServesUnbacked, Serving, Backed
  <1>2. CASE StaysInOffice(n, heard, held)
    <2>1. /\ UNCHANGED <<role, term>> /\ Serving(n)
          /\ \A m \in Node \ {n} : armed'[m] = armed[m]
          /\ armed[n] /\ role[n] = "leader" => armed'[n]
      BY <1>2 DEF StaysInOffice
    <2> QED
      BY <2>1 DEF NeverServesUnbacked, Serving, Backed
  <1>3. CASE Fences(n, held)
    <2>1. /\ role'[n] = "follower"
          /\ \A m \in Node \ {n} : role'[m] = role[m] /\ armed'[m] = armed[m] /\ term'[m] = term[m]
      BY <1>3 DEF Fences, Restarts
    <2> QED
      BY <2>1 DEF NeverServesUnbacked, Serving, Backed
  <1>4. CASE GivesUp(n, heard, held)
    BY <1>4 DEF GivesUp, NeverServesUnbacked, Serving, Backed
  <1>5. CASE StaysOutOfOffice(n, heard, held)
    BY <1>5 DEF StaysOutOfOffice, NeverServesUnbacked, Serving, Backed
  <1>6. CASE Stands(n, heard)
    BY <1>6 DEF Stands, NeverServesUnbacked, Serving, Backed
  <1> QED
    BY <1>1, <1>2, <1>3, <1>4, <1>5, <1>6 DEF Evaluate

\* docs/HA.md, Demotion: a panel in office is backed by votes, but for the one that runs when
\* failover is turned on, in the term it gave itself; provided that the config a promoted panel
\* reloads says that the cluster is armed.
THEOREM ServesBacked ==
  ASSUME ConfigArmed \subseteq {TRUE}
  PROVE  Spec => []NeverServesUnbacked
PROOF
  <1>1. Init => NeverServesUnbacked
    BY DEF Init, NeverServesUnbacked, Serving, Backed
  <1>2. TypeOK /\ NeverServesUnbacked /\ [Next]_vars => NeverServesUnbacked'
    <2> SUFFICES ASSUME TypeOK, NodesTyped, NeverServesUnbacked, [Next]_vars
                 PROVE  NeverServesUnbacked'
      BY DEF TypeOK
    <2>1. CASE UNCHANGED <<role, term, armed>>
      BY <2>1 DEF NeverServesUnbacked, Serving, Backed
    <2>2. ASSUME NEW n \in Node, PromotionDone(n)
          PROVE  NeverServesUnbacked'
      <3>1. /\ armed'[n] /\ role'[n] = "leader" /\ term' = term
            /\ \A m \in Node \ {n} : role'[m] = role[m] /\ armed'[m] = armed[m]
        BY <2>2 DEF PromotionDone, NodesTyped
      <3> QED
        BY <3>1 DEF NeverServesUnbacked, Serving, Backed
    <2>3. ASSUME NEW n \in Node, Stop(n)
          PROVE  NeverServesUnbacked'
      <3>1. /\ role'[n] = "follower"
            /\ \A m \in Node \ {n} : role'[m] = role[m] /\ armed'[m] = armed[m] /\ term'[m] = term[m]
        BY <2>3 DEF Stop, Restarts, NodesTyped
      <3> QED
        BY <3>1 DEF NeverServesUnbacked, Serving, Backed
    <2>4. ASSUME NEW m \in msgs, TakeGrant(m), m.node \in Node
          PROVE  NeverServesUnbacked'
      BY <2>4, EvaluateServes DEF TakeGrant
    <2>5. ASSUME NEW n \in Node, TickEvaluate(n) \/ \E v \in Voter : Heartbeat(v, n)
          PROVE  NeverServesUnbacked'
      BY <2>5, EvaluateServes DEF TickEvaluate, Heartbeat
    <2>6. \A m \in msgs : m.node \in Node
      BY DEF TypeOK, Request, GrantMsg
    <2> QED
      BY <2>1, <2>2, <2>3, <2>4, <2>5, <2>6 DEF Next, AnswerRequest, RestartVoter, Tick, nodeVars, vars
  <1> QED
    BY <1>1, <1>2, TypeCorrect, PTL DEF Spec

-----------------------------------------------------------------------------
(* The protocol implements PanelLeadership.                                *)

\* InOffice names the panel in office, if there is one.
OfficeNamed ==
  /\ \A n \in Node : Backed(n) => InOffice = n
  /\ (\A n \in Node : ~Backed(n)) => InOffice = None

LEMMA InvariantNamesOffice == IInv => OfficeNamed
PROOF
  <1> SUFFICES ASSUME AtMostOneLeader
               PROVE  OfficeNamed
    BY InvariantGivesOneLeader
  <1>1. ASSUME NEW n \in Node, Backed(n)
        PROVE  InOffice = n
    <2> DEFINE holder == CHOOSE k \in Node : Backed(k)
    <2>1. holder \in Node /\ Backed(holder)
      BY <1>1
    <2>2. InOffice = holder
      BY <1>1 DEF InOffice
    <2> QED
      BY <1>1, <2>1, <2>2 DEF AtMostOneLeader
  <1> QED
    BY <1>1 DEF InOffice, OfficeNamed

\* No step touches the office of two nodes.
LEMMA OneOfficeAtATime ==
  ASSUME IInv, [Next]_vars
  PROVE  \/ \A m \in Node : Backed(m)' = Backed(m)
         \/ \E n \in Node : \A m \in Node : m # n => Backed(m)' = Backed(m)
PROOF
  <1>1. ASSUME UNCHANGED <<role, armed>>
        PROVE  \A m \in Node : Backed(m)' = Backed(m)
    BY <1>1 DEF Backed
  <1>2. ASSUME NEW n \in Node, \A m \in Node : m # n => role'[m] = role[m] /\ armed'[m] = armed[m]
        PROVE  \A m \in Node : m # n => Backed(m)' = Backed(m)
    BY <1>2 DEF Backed
  <1>3. ASSUME NEW n \in Node, NEW heard \in Nat, NEW held \in [Voter -> Grant], Evaluate(n, heard, held)
        PROVE  \A m \in Node : m # n => Backed(m)' = Backed(m)
    BY <1>2, <1>3, EvaluateOutcome
  <1>4. ASSUME NEW m \in msgs, AnswerRequest(m)
        PROVE  UNCHANGED <<role, armed>>
    BY <1>4 DEF AnswerRequest, nodeVars
  <1>5. ASSUME NEW m \in msgs, TakeGrant(m)
        PROVE  \E n \in Node : \A k \in Node : k # n => Backed(k)' = Backed(k)
    <2>1. m.node \in Node /\ m.term \in Nat /\ Recorded(m.node, m) \in [Voter -> Grant]
      BY <1>5, RecordedFits DEF TakeGrant
    <2>2. Higher(seen[m.node], m.term) \in Nat
      BY <2>1 DEF IInv, TypeOK, NodesTyped, Higher
    <2> QED
      BY <1>3, <1>5, <2>1, <2>2 DEF TakeGrant
  <1>6. ASSUME NEW v \in Voter, RestartVoter(v)
        PROVE  UNCHANGED <<role, armed>>
    BY <1>6 DEF RestartVoter, nodeVars
  <1>7. ASSUME NEW v \in Voter, NEW n \in Node, Heartbeat(v, n)
        PROVE  \A k \in Node : k # n => Backed(k)' = Backed(k)
    <2>1. voterTerm[v] \in Nat /\ Higher(seen[n], voterTerm[v]) \in Nat
      BY DEF IInv, TypeOK, NodesTyped, VotersTyped, Higher
    <2>2. Kept(n, v, voterTerm[v], votedFor[v]) \in [Voter -> Grant]
      BY <2>1, KeptFits
    <2> QED
      BY <1>3, <1>7, <2>1, <2>2 DEF Heartbeat
  <1>8. ASSUME NEW n \in Node, TickEvaluate(n)
        PROVE  \A k \in Node : k # n => Backed(k)' = Backed(k)
    <2>1. seen[n] \in Nat /\ grants[n] \in [Voter -> Grant]
      BY DEF IInv, TypeOK, NodesTyped
    <2> QED
      BY <1>3, <1>8, <2>1 DEF TickEvaluate
  <1>9. ASSUME NEW n \in Node, PromotionDone(n) \/ Stop(n)
        PROVE  \A k \in Node : k # n => Backed(k)' = Backed(k)
    <2>1. \A k \in Node : k # n => role'[k] = role[k] /\ armed'[k] = armed[k]
      BY <1>9 DEF PromotionDone, Stop, Restarts, IInv, TypeOK, NodesTyped
    <2> QED
      BY <1>2, <2>1
  <1>10. Tick \/ UNCHANGED vars => UNCHANGED <<role, armed>>
    BY DEF Tick, vars, nodeVars
  <1> QED
    BY <1>1, <1>4, <1>5, <1>6, <1>7, <1>8, <1>9, <1>10 DEF Next

\* Every step takes office when it is vacant, leaves it vacant, or leaves it alone.
LEMMA StepsMap ==
  ASSUME IInv, OfficeNamed, OfficeNamed', [Next]_vars
  PROVE  [Panel!Next]_InOffice
PROOF
  <1>1. /\ \A n \in Node : Backed(n) => InOffice = n
        /\ (\A n \in Node : ~Backed(n)) => InOffice = None
    BY DEF OfficeNamed
  <1>2. /\ \A n \in Node : Backed(n)' => InOffice' = n
        /\ (\A n \in Node : ~Backed(n)') => InOffice' = None
    BY DEF OfficeNamed
  <1>3. CASE \A m \in Node : Backed(m)' = Backed(m)
    <2>1. InOffice' = InOffice
      BY <1>1, <1>2, <1>3
    <2> QED
      BY <2>1
  <1>4. ASSUME NEW n \in Node, \A m \in Node : m # n => Backed(m)' = Backed(m)
        PROVE  [Panel!Next]_InOffice
    <2>1. CASE \E m \in Node : m # n /\ Backed(m)
      BY <1>1, <1>2, <1>4, <2>1
    <2>2. CASE \A m \in Node : m # n => ~Backed(m)
      <3>1. CASE Backed(n) /\ ~Backed(n)'
        <4>1. InOffice = n /\ InOffice' = None
          BY <1>1, <1>2, <1>4, <2>2, <3>1
        <4> QED
          BY <4>1, NodesAndVoters DEF Panel!Next, Panel!LeavesOffice
      <3>2. CASE ~Backed(n) /\ Backed(n)'
        <4>1. InOffice = None /\ InOffice' = n
          BY <1>1, <1>2, <2>2, <3>2
        <4> QED
          BY <4>1 DEF Panel!Next, Panel!TakesOffice
      <3>3. CASE Backed(n) /\ Backed(n)'
        BY <1>1, <1>2, <3>3
      <3>4. CASE ~Backed(n) /\ ~Backed(n)'
        <4>1. InOffice = None /\ InOffice' = None
          BY <1>1, <1>2, <1>4, <2>2, <3>4
        <4> QED
          BY <4>1
      <3> QED
        BY <3>1, <3>2, <3>3, <3>4
    <2> QED
      BY <2>1, <2>2
  <1> QED
    BY <1>3, <1>4, OneOfficeAtATime

\* The vote protocol implements PanelLeadership: office passes from one panel to
\* another through a vacancy.
THEOREM ProtocolImplementsPanel == Spec => ImplementsPanelLeadership
PROOF
  <1>1. Init => Panel!Init
    <2> SUFFICES ASSUME Init
                 PROVE  InOffice = None
      BY DEF Panel!Init
    <2>1. \A n \in Node : ~Backed(n)
      BY DEF Init, Backed
    <2> QED
      BY <2>1 DEF InOffice
  <1>2. IInv /\ OfficeNamed /\ OfficeNamed' /\ [Next]_vars => [Panel!Next]_InOffice
    BY StepsMap
  <1> QED
    BY <1>1, <1>2, InvariantHolds, InvariantNamesOffice, PTL DEF Spec, ImplementsPanelLeadership, Panel!Spec

-----------------------------------------------------------------------------
(* The durations that the vote protocol runs with, for every setting an    *)
(* operator may store.  All of it rests on the ranges of the durations     *)
(* that are derived from the effective number of seconds, which is always  *)
(* from 10 to 300.                                                         *)

CONSTANTS Settings, Unset
VARIABLES stored, issuedUnder
Timing == INSTANCE HaTiming

\* effectiveSeconds: whatever config.json holds, the number of seconds the
\* timings are derived from is in range.
LEMMA EffectiveInRange ==
  ASSUME NEW raw
  PROVE  /\ Timing!EffectiveSeconds(raw) \in Int
         /\ 10 <= Timing!EffectiveSeconds(raw) /\ Timing!EffectiveSeconds(raw) <= 300
BY DEF Timing!EffectiveSeconds, Timing!ValidSeconds, Timing!SecondsMin, Timing!SecondsMax, Timing!SecondsDefault

\* Math.min and Math.max: the smaller and the greater of two numbers.
LEMMA LowerHigher ==
  ASSUME NEW a \in Int, NEW b \in Int
  PROVE  /\ a <= b => Timing!Lower(a, b) = a /\ Timing!Higher(a, b) = b
         /\ b <= a => Timing!Lower(a, b) = b /\ Timing!Higher(a, b) = a
BY DEF Timing!Lower, Timing!Higher

\* clamp: a number in range, or the end of the range it is beyond.
LEMMA Clamping ==
  ASSUME NEW n \in Int, NEW lo \in Int, NEW hi \in Int, lo <= hi
  PROVE  /\ n < lo => Timing!Clamp(n, lo, hi) = lo
         /\ n > hi => Timing!Clamp(n, lo, hi) = hi
         /\ lo <= n /\ n <= hi => Timing!Clamp(n, lo, hi) = n
BY DEF Timing!Clamp, Timing!Lower, Timing!Higher

\* rounded: what rounding to a whole number of hundreds may add or take.
LEMMA RoundingError ==
  ASSUME NEW num \in Nat, NEW den \in {1, 2, 3, 5, 15}
  PROVE  /\ Timing!RoundHundreds(num, den) \in Nat
         /\ den * Timing!RoundHundreds(num, den) <= num + 50 * den
         /\ num < den * Timing!RoundHundreds(num, den) + 50 * den
<1>1. CASE den = 1  BY <1>1, SMT DEF Timing!RoundHundreds
<1>2. CASE den = 2  BY <1>2, SMT DEF Timing!RoundHundreds
<1>3. CASE den = 3  BY <1>3, SMT DEF Timing!RoundHundreds
<1>4. CASE den = 5  BY <1>4, SMT DEF Timing!RoundHundreds
<1>5. CASE den = 15  BY <1>5, SMT DEF Timing!RoundHundreds
<1> QED  BY <1>1, <1>2, <1>3, <1>4, <1>5

\* haTimings: the heartbeat of an effective setting, in proportion to it unless
\* it is at an end of its range.
LEMMA HeartbeatRange ==
  ASSUME NEW s \in Int, 10 <= s, s <= 300, NEW H, H = Timing!HeartbeatMs(s)
  PROVE  /\ H \in Int /\ 1000 <= H /\ H <= 5000
         /\ H = 1000 \/ 15 * H <= 1000 * s + 750
<1>1. PICK h : h = Timing!RoundHundreds(1000 * s, 15)  OBVIOUS
<1>2. 1000 * s \in Nat  BY SMT
<1>3. h \in Nat
  BY <1>1, <1>2, RoundingError, SMT
<1>4. 15 * h <= 1000 * s + 750
  BY <1>1, <1>2, RoundingError, SMT
<1>5. H = Timing!Clamp(h, 1000, 5000)
  BY <1>1, SMT DEF Timing!HeartbeatMs, Timing!HeartbeatBounds
<1>6. CASE h < 1000
  BY <1>3, <1>5, <1>6, Clamping, SMT
<1>7. CASE h > 5000
  BY <1>3, <1>4, <1>5, <1>7, Clamping, SMT
<1>8. CASE 1000 <= h /\ h <= 5000
  <2>1. H = h
    BY <1>3, <1>5, <1>8, Clamping, SMT
  <2> QED  BY <1>3, <1>4, <1>8, <2>1, SMT
<1> QED  BY <1>3, <1>6, <1>7, <1>8, SMT

\* haTimings: the lease of an effective setting is 45 % of it, never cut off.
LEMMA LeaseRange ==
  ASSUME NEW s \in Int, 10 <= s, s <= 300, NEW L, L = Timing!LeaseMs(s)
  PROVE  L \in Int /\ 4450 <= L /\ L <= 135050 /\ L <= 450 * s + 50 /\ 450 * s <= L + 50
<1>1. PICK l : l = Timing!RoundHundreds(450 * s, 1)  OBVIOUS
<1>2. 450 * s \in Nat  BY SMT
<1>3. /\ l \in Nat
      /\ 1 * l <= 450 * s + 50 * 1
      /\ 450 * s < 1 * l + 50 * 1
  BY <1>1, <1>2, RoundingError, SMT
<1>4. l \in Nat
  BY <1>3, SMT
<1>5. l <= 450 * s + 50
  BY <1>3, <1>4, SMT
<1>6. 450 * s <= l + 50
  BY <1>3, <1>4, SMT
<1>7. 4450 <= l /\ l <= 135050
  BY <1>4, <1>5, <1>6, SMT
<1>8. L = Timing!Clamp(l, 3000, 180000)
  BY <1>1, SMT DEF Timing!LeaseMs, Timing!LeaseBounds
<1>9. L = l
  BY <1>4, <1>7, <1>8, Clamping, SMT
<1> QED  BY <1>4, <1>5, <1>6, <1>7, <1>9, SMT

\* haTimings: the margin is a fifth of the lease, and at least a second.
LEMMA MarginRange ==
  ASSUME NEW s \in Int, 10 <= s, s <= 300, NEW L, L = Timing!LeaseMs(s), NEW M, M = Timing!MarginMs(s)
  PROVE  /\ M \in Int /\ 1000 <= M /\ M <= 27060
         /\ M = 1000 \/ 5 * M <= L + 250
         /\ L <= 5 * M + 250
<1>1. L \in Int /\ 4450 <= L /\ L <= 135050
  BY LeaseRange, SMT
<1>2. L \in Nat
  BY <1>1, SMT
<1>3. PICK m : m = Timing!RoundHundreds(L, 5)  OBVIOUS
<1>4. m \in Nat
  BY <1>2, <1>3, RoundingError, SMT
<1>5. 5 * m <= L + 250
  BY <1>2, <1>3, RoundingError, SMT
<1>6. L < 5 * m + 250
  BY <1>2, <1>3, RoundingError, SMT
<1>7. M = Timing!Higher(1000, m)
  BY <1>3, SMT DEF Timing!MarginMs
<1>8. CASE m <= 1000
  <2>1. M = 1000
    BY <1>4, <1>7, <1>8, LowerHigher, SMT
  <2> QED  BY <1>2, <1>4, <1>6, <1>8, <2>1, SMT
<1>9. CASE 1000 <= m
  <2>1. M = m
    BY <1>4, <1>7, <1>9, LowerHigher, SMT
  <2> QED  BY <1>1, <1>4, <1>5, <1>6, <1>9, <2>1, SMT
<1> QED  BY <1>4, <1>8, <1>9, SMT

\* haTimings: the database's window is a third of the setting, never cut off.
LEMMA DetectRange ==
  ASSUME NEW s \in Int, 10 <= s, s <= 300, NEW D, D = Timing!DetectMs(s)
  PROVE  D \in Int /\ 3250 <= D /\ D <= 100050 /\ D <= 400 * s /\ 1000 * s <= 3 * D + 150
<1>1. PICK d : d = Timing!RoundHundreds(1000 * s, 3)  OBVIOUS
<1>2. 1000 * s \in Nat  BY SMT
<1>3. d \in Nat
  BY <1>1, <1>2, RoundingError, SMT
<1>4. 3 * d <= 1000 * s + 150
  BY <1>1, <1>2, RoundingError, SMT
<1>5. 1000 * s < 3 * d + 150
  BY <1>1, <1>2, RoundingError, SMT
<1>6. D = Timing!Higher(3000, d)
  BY <1>1, SMT DEF Timing!DetectMs
<1>7. D = d
  BY <1>3, <1>5, <1>6, LowerHigher, SMT
<1> QED  BY <1>3, <1>4, <1>5, <1>7, SMT

\* haTimings: the timings the election rests on, for any stored value.
LEMMA Timings ==
  ASSUME NEW raw, NEW t, t = Timing!HaTimings(raw)
  PROVE  /\ t.failoverSeconds = Timing!EffectiveSeconds(raw)
         /\ t.heartbeat = Timing!HeartbeatMs(t.failoverSeconds)
         /\ t.lease = Timing!LeaseMs(t.failoverSeconds)
         /\ t.margin = Timing!MarginMs(t.failoverSeconds)
         /\ t.detect = Timing!DetectMs(t.failoverSeconds)
         /\ t.fenceHooks = Timing!FenceHooksMs(t.margin)
         /\ t.failover = t.lease - t.heartbeat
         /\ t.pollWaitSeconds = Timing!PollWaitSeconds(t.failover)
         /\ t.requestTimeout = Timing!Lower(2500, (9 * t.heartbeat) \div 10)
         /\ t.dbSilent = 3 * t.heartbeat
         /\ t.dbFailover =
              Timing!Higher(t.lease + t.heartbeat + Timing!Lower(3000, t.heartbeat \div 2) + 500, t.detect)
                + 2 * Timing!Higher(500, t.heartbeat \div 2) + 700 + 1500
         /\ t.blip = Timing!Higher(0, Timing!Lower(t.lease - t.margin - 2 * t.heartbeat, t.detect))
         /\ t.voterFresh = 2 * t.heartbeat + 2000
         /\ t.tieBreak = Timing!Lower(3000, t.heartbeat \div 2)
         /\ t.candidacy = Timing!Higher(10000, t.lease + 2 * t.heartbeat)
         /\ t.dbProbe = Timing!Higher(500, t.heartbeat \div 2)
         /\ t.dbTcpTimeout = Timing!Clamp((8 * t.heartbeat) \div 10, 800, 3000)
         /\ t.takeover = t.lease + t.heartbeat + t.tieBreak + 500
BY DEF Timing!HaTimings, SMT

\* haTimings against pullOnce: a long poll of a follower ends inside the window
\* of silence after which it takes the leader for dead.
LEMMA PollFits ==
  ASSUME NEW F \in Int, F > 3000
  PROVE  Timing!PollWaitSeconds(F) \in 1 .. 5 /\ 1000 * Timing!PollWaitSeconds(F) + 1000 < F
<1>1. PICK w : w = F \div 2500  OBVIOUS
<1>2. w \in Int /\ 2500 * w <= F
  BY <1>1, SMT
<1>3. Timing!PollWaitSeconds(F) = Timing!Clamp(w, 1, 5)
  BY <1>1, SMT DEF Timing!PollWaitSeconds
<1>4. /\ w < 1 => Timing!PollWaitSeconds(F) = 1
      /\ w > 5 => Timing!PollWaitSeconds(F) = 5
      /\ 1 <= w /\ w <= 5 => Timing!PollWaitSeconds(F) = w
  BY <1>2, <1>3, Clamping, SMT
<1> QED  BY <1>2, <1>4, SMT

\* ha.mjs fence against haTimings: the hooks and one late tick fit in the margin.
LEMMA HooksFit ==
  ASSUME NEW M \in Int, M >= 1000
  PROVE  Timing!FenceHooksMs(M) \in 750 .. 3000 /\ Timing!TickMs + Timing!FenceHooksMs(M) <= M
<1>1. M - 250 \in Int  BY SMT
<1>2. PICK x : x = M - 250  OBVIOUS
<1>3. Timing!FenceHooksMs(M) = Timing!Clamp(x, 750, 3000)
  BY <1>2, SMT DEF Timing!FenceHooksMs
<1>4. /\ x < 750 => Timing!FenceHooksMs(M) = 750
      /\ x > 3000 => Timing!FenceHooksMs(M) = 3000
      /\ 750 <= x /\ x <= 3000 => Timing!FenceHooksMs(M) = x
  BY <1>1, <1>2, <1>3, Clamping, SMT
<1> QED  BY <1>2, <1>4, SMT DEF Timing!TickMs

\* haTimings: the advertised worst case, whether the panel's takeover or the
\* database's window is the longer, fits the target.
LEMMA BudgetFits ==
  ASSUME NEW s \in Int, 10 <= s, s <= 300, NEW H \in Int, NEW L \in Int, NEW D \in Int,
         1000 <= H, H <= 5000, 0 <= L, 0 <= D,
         H = 1000 \/ 15 * H <= 1000 * s + 750, L <= 450 * s + 50, D <= 400 * s,
         NEW q, q = H \div 2
  PROVE  Timing!Higher(L + H + Timing!Lower(3000, q) + 500, D) + 2 * Timing!Higher(500, q) + 700 + 1500
           <= 1000 * s
<1>1. q \in Nat /\ 2 * q <= H /\ 500 <= q /\ q <= 3000
  BY SMT
<1>2. Timing!Lower(3000, q) = q /\ Timing!Higher(500, q) = q
  BY <1>1, LowerHigher, SMT
<1>3. PICK x : x = L + H + q + 500  OBVIOUS
<1>4. x \in Int /\ (Timing!Higher(x, D) = x \/ Timing!Higher(x, D) = D)
  BY <1>1, <1>3, LowerHigher, SMT
<1>5. x + 2 * q + 700 + 1500 <= 1000 * s
  BY <1>1, <1>3, SMT
<1>6. D + 2 * q + 700 + 1500 <= 1000 * s
  BY <1>1, SMT
<1>7. Timing!Higher(x, D) + 2 * q + 700 + 1500 <= 1000 * s
  BY <1>4, <1>5, <1>6, SMT
<1> QED  BY <1>2, <1>3, <1>7, SMT

\* haTimings against pullOnce, evaluate and fence: for any stored value, a
\* leader can miss a round, a long poll ends inside the silence window, the
\* target is met, and the hooks of a fence end inside the margin.
LEMMA TimingsFit ==
  ASSUME NEW raw, NEW t, t = Timing!HaTimings(raw)
  PROVE  /\ t.requestTimeout < t.heartbeat
         /\ t.lease - t.margin >= 2 * t.heartbeat + 500
         /\ t.failover > 0
         /\ 1000 * t.pollWaitSeconds + 1000 < t.failover
         /\ t.dbFailover <= 1000 * t.failoverSeconds
         /\ t.blip > 0
         /\ t.detect >= t.dbSilent
         /\ Timing!TickMs + t.fenceHooks <= t.margin
<1>1. PICK s : s = t.failoverSeconds  OBVIOUS
<1>2. PICK H : H = t.heartbeat  OBVIOUS
<1>3. PICK L : L = t.lease  OBVIOUS
<1>4. PICK M : M = t.margin  OBVIOUS
<1>5. PICK D : D = t.detect  OBVIOUS
<1>6. s \in Int /\ 10 <= s /\ s <= 300
  BY <1>1, EffectiveInRange, Timings, SMT
<1>7. H \in Int /\ 1000 <= H /\ H <= 5000 /\ (H = 1000 \/ 15 * H <= 1000 * s + 750)
  <2>1. H = Timing!HeartbeatMs(s)
    BY <1>1, <1>2, Timings, SMT
  <2> QED  BY <1>6, <2>1, HeartbeatRange, SMT
<1>8. L \in Int /\ 4450 <= L /\ L <= 135050 /\ L <= 450 * s + 50 /\ 450 * s <= L + 50
  <2>1. L = Timing!LeaseMs(s)
    BY <1>1, <1>3, Timings, SMT
  <2> QED  BY <1>6, <2>1, LeaseRange, SMT
<1>9. M \in Int /\ 1000 <= M /\ M <= 27060 /\ (M = 1000 \/ 5 * M <= L + 250) /\ L <= 5 * M + 250
  <2>1. L = Timing!LeaseMs(s) /\ M = Timing!MarginMs(s)
    BY <1>1, <1>3, <1>4, Timings, SMT
  <2> QED  BY <1>6, <2>1, MarginRange, SMT
<1>10. D \in Int /\ 3250 <= D /\ D <= 100050 /\ D <= 400 * s /\ 1000 * s <= 3 * D + 150
  <2>1. D = Timing!DetectMs(s)
    BY <1>1, <1>5, Timings, SMT
  <2> QED  BY <1>6, <2>1, DetectRange, SMT
<1>11. H \in Int /\ L \in Int /\ M \in Int /\ D \in Int
  BY <1>7, <1>8, <1>9, <1>10, SMT
<1>12. t.requestTimeout < t.heartbeat
  <2>1. PICK r : r = (9 * H) \div 10  OBVIOUS
  <2>2. r \in Int
    BY <1>7, <2>1, SMT
  <2>3. 10 * r <= 9 * H
    BY <1>11, <2>1, SMT
  <2>4. 0 < H
    BY <1>7, SMT
  <2>5. r < H
    BY <1>11, <2>2, <2>3, <2>4, SMT
  <2>6. t.requestTimeout = Timing!Lower(2500, r)
    BY <1>2, <2>1, Timings, SMT
  <2>7. (r <= 2500 => t.requestTimeout = r) /\ (2500 <= r => t.requestTimeout = 2500)
    BY <2>2, <2>6, LowerHigher, SMT
  <2> QED  BY <1>2, <1>11, <2>2, <2>5, <2>7, SMT
<1>13. L - M >= 2 * H + 500
  BY <1>6, <1>7, <1>8, <1>9, SMT
<1>14. L - H > 3000
  BY <1>6, <1>7, <1>8, SMT
<1>15. t.failover > 0 /\ 1000 * t.pollWaitSeconds + 1000 < t.failover
  <2>1. PICK F : F = L - H  OBVIOUS
  <2>2. t.failover = F /\ t.pollWaitSeconds = Timing!PollWaitSeconds(F)
    BY <1>2, <1>3, <2>1, Timings, SMT
  <2>3. F \in Int
    BY <1>11, <2>1, SMT
  <2>4. F > 3000
    BY <1>14, <2>1, SMT
  <2>5. 1000 * Timing!PollWaitSeconds(F) + 1000 < F
    BY <2>3, <2>4, PollFits, SMT
  <2>6. F > 0
    BY <2>3, <2>4, SMT
  <2> QED  BY <2>2, <2>5, <2>6, SMT
<1>16. t.dbFailover <= 1000 * t.failoverSeconds
  <2>1. PICK q : q = H \div 2  OBVIOUS
  <2>2. t.dbFailover = Timing!Higher(L + H + Timing!Lower(3000, q) + 500, D)
                         + 2 * Timing!Higher(500, q) + 700 + 1500
    BY <1>2, <1>3, <1>5, <2>1, Timings, SMT
  <2>3. Timing!Higher(L + H + Timing!Lower(3000, q) + 500, D) + 2 * Timing!Higher(500, q) + 700 + 1500
          <= 1000 * s
    BY <1>6, <1>7, <1>8, <1>10, <1>11, <2>1, BudgetFits, SMT
  <2> QED  BY <1>1, <2>2, <2>3, SMT
<1>17. t.blip > 0
  <2>1. PICK x : x = L - M - 2 * H  OBVIOUS
  <2>2. PICK y : y = Timing!Lower(x, D)  OBVIOUS
  <2>3. x \in Int
    BY <1>11, <2>1, SMT
  <2>4. x > 0
    BY <1>11, <1>13, <2>1, SMT
  <2>5. y = x \/ y = D
    BY <1>11, <2>2, <2>3, LowerHigher, SMT
  <2>6. y \in Int
    BY <1>11, <2>3, <2>5, SMT
  <2>7. y > 0
    BY <1>10, <2>4, <2>5, SMT
  <2>8. t.blip = Timing!Higher(0, y)
    BY <1>2, <1>3, <1>4, <1>5, <2>1, <2>2, Timings, SMT
  <2>9. t.blip = y
    BY <2>6, <2>7, <2>8, LowerHigher, SMT
  <2> QED  BY <2>7, <2>9, SMT
<1>18. t.detect >= t.dbSilent
  <2>1. t.dbSilent = 3 * H
    BY <1>2, Timings, SMT
  <2>2. D >= 3 * H
    BY <1>6, <1>7, <1>10, SMT
  <2> QED  BY <1>5, <2>1, <2>2, SMT
<1>19. Timing!TickMs + t.fenceHooks <= t.margin
  <2>1. t.fenceHooks = Timing!FenceHooksMs(M)
    BY <1>4, Timings, SMT
  <2>2. Timing!TickMs + Timing!FenceHooksMs(M) <= M
    BY <1>9, <1>11, HooksFit, SMT
  <2> QED  BY <1>4, <2>1, <2>2, SMT
<1>20. t.lease - t.margin >= 2 * t.heartbeat + 500
  BY <1>2, <1>3, <1>4, <1>13, SMT
<1> QED
  BY <1>12, <1>15, <1>16, <1>17, <1>18, <1>19, <1>20, SMT

\* haTimings: every duration derived from a stored value is a positive number.
LEMMA TimingsPositive ==
  ASSUME NEW raw, NEW t, t = Timing!HaTimings(raw)
  PROVE  \A f \in DOMAIN t : t[f] \in Nat \ {0}
<1>1. PICK s : s = t.failoverSeconds  OBVIOUS
<1>2. PICK H : H = t.heartbeat  OBVIOUS
<1>3. PICK L : L = t.lease  OBVIOUS
<1>4. PICK M : M = t.margin  OBVIOUS
<1>5. PICK D : D = t.detect  OBVIOUS
<1>6. s \in Int /\ 10 <= s /\ s <= 300
  BY <1>1, EffectiveInRange, Timings, SMT
<1>7. H \in Int /\ 1000 <= H /\ H <= 5000
  <2>1. H = Timing!HeartbeatMs(s)
    BY <1>1, <1>2, Timings, SMT
  <2> QED  BY <1>6, <2>1, HeartbeatRange, SMT
<1>8. L \in Int /\ 4450 <= L /\ 450 * s <= L + 50
  <2>1. L = Timing!LeaseMs(s)
    BY <1>1, <1>3, Timings, SMT
  <2> QED  BY <1>6, <2>1, LeaseRange, SMT
<1>9. M \in Int /\ 1000 <= M
  <2>1. L = Timing!LeaseMs(s) /\ M = Timing!MarginMs(s)
    BY <1>1, <1>3, <1>4, Timings, SMT
  <2> QED  BY <1>6, <2>1, MarginRange, SMT
<1>10. D \in Int /\ 3250 <= D
  <2>1. D = Timing!DetectMs(s)
    BY <1>1, <1>5, Timings, SMT
  <2> QED  BY <1>6, <2>1, DetectRange, SMT
<1>11. PICK q : q = H \div 2  OBVIOUS
<1>12. q \in Int /\ 500 <= q /\ q <= 2500
  BY <1>7, <1>11, SMT
<1>13. t.tieBreak = q /\ t.dbProbe = q
  <2>1. t.tieBreak = Timing!Lower(3000, q) /\ t.dbProbe = Timing!Higher(500, q)
    BY <1>2, <1>11, Timings, SMT
  <2> QED  BY <1>12, <2>1, LowerHigher, SMT
<1>14. t.takeover \in Int /\ t.takeover > 0
  <2>1. t.takeover = L + H + q + 500
    BY <1>2, <1>3, <1>13, Timings, SMT
  <2> QED  BY <1>7, <1>8, <1>12, <2>1, SMT
<1>15. t.requestTimeout \in Int /\ t.requestTimeout > 0
  <2>1. PICK r : r = (9 * H) \div 10  OBVIOUS
  <2>2. r \in Int /\ r > 0
    BY <1>7, <2>1, SMT
  <2>3. t.requestTimeout = Timing!Lower(2500, r)
    BY <1>2, <2>1, Timings, SMT
  <2> QED  BY <2>2, <2>3, LowerHigher, SMT
<1>16. t.failover \in Int /\ t.failover > 0
  <2>1. t.failover = L - H
    BY <1>2, <1>3, Timings, SMT
  <2>2. t.failover > 0
    BY TimingsFit, SMT
  <2> QED  BY <1>7, <1>8, <2>1, <2>2, SMT
<1>17. t.pollWaitSeconds \in Int /\ t.pollWaitSeconds > 0
  <2>1. PICK w : w = (L - H) \div 2500  OBVIOUS
  <2>2. w \in Int
    BY <1>7, <1>8, <2>1, SMT
  <2>3. t.pollWaitSeconds = Timing!Clamp(w, 1, 5)
    BY <1>2, <1>3, <2>1, Timings, SMT DEF Timing!PollWaitSeconds
  <2> QED  BY <2>2, <2>3, Clamping, SMT
<1>18. t.fenceHooks \in Int /\ t.fenceHooks > 0
  <2>1. PICK x : x = M - 250  OBVIOUS
  <2>2. x \in Int
    BY <1>9, <2>1, SMT
  <2>3. t.fenceHooks = Timing!Clamp(x, 750, 3000)
    BY <1>4, <2>1, Timings, SMT DEF Timing!FenceHooksMs
  <2> QED  BY <2>2, <2>3, Clamping, SMT
<1>19. t.dbTcpTimeout \in Int /\ t.dbTcpTimeout > 0
  <2>1. PICK x : x = (8 * H) \div 10  OBVIOUS
  <2>2. x \in Int
    BY <1>7, <2>1, SMT
  <2>3. t.dbTcpTimeout = Timing!Clamp(x, 800, 3000)
    BY <1>2, <2>1, Timings, SMT
  <2> QED  BY <2>2, <2>3, Clamping, SMT
<1>20. t.candidacy \in Int /\ t.candidacy > 0
  <2>1. PICK x : x = L + 2 * H  OBVIOUS
  <2>2. x \in Int
    BY <1>7, <1>8, <2>1, SMT
  <2>3. t.candidacy = Timing!Higher(10000, x)
    BY <1>2, <1>3, <2>1, Timings, SMT
  <2>4. (10000 <= x => t.candidacy = x) /\ (x <= 10000 => t.candidacy = 10000)
    BY <2>2, <2>3, LowerHigher, SMT
  <2> QED  BY <2>2, <2>4, SMT
<1>21. t.dbFailover \in Int /\ t.dbFailover > 0
  <2>1. PICK x : x = Timing!Higher(L + H + q + 500, D)  OBVIOUS
  <2>2. L + H + q + 500 \in Int
    BY <1>7, <1>8, <1>12, SMT
  <2>3. x = L + H + q + 500 \/ x = D
    BY <1>10, <2>1, <2>2, LowerHigher, SMT
  <2>4. x \in Int
    BY <1>10, <2>2, <2>3, SMT
  <2>5. x > 0
    BY <1>7, <1>8, <1>10, <1>12, <2>3, SMT
  <2>6. Timing!Lower(3000, q) = q /\ Timing!Higher(500, q) = q
    BY <1>12, LowerHigher, SMT
  <2>7. t.dbFailover = x + 2 * q + 700 + 1500
    BY <1>2, <1>3, <1>5, <1>11, <2>1, <2>6, Timings, SMT
  <2> QED  BY <1>12, <2>4, <2>5, <2>7, SMT
<1>22. t.blip \in Int /\ t.blip > 0
  <2>1. PICK x : x = L - M - 2 * H  OBVIOUS
  <2>2. x \in Int
    BY <1>7, <1>8, <1>9, <2>1, SMT
  <2>3. PICK y : y = Timing!Lower(x, D)  OBVIOUS
  <2>4. y = x \/ y = D
    BY <1>10, <2>2, <2>3, LowerHigher, SMT
  <2>5. y \in Int
    BY <1>10, <2>2, <2>4, SMT
  <2>6. t.blip = Timing!Higher(0, y)
    BY <1>2, <1>3, <1>4, <1>5, <2>1, <2>3, Timings, SMT
  <2>7. t.blip \in Int
    BY <2>5, <2>6, LowerHigher, SMT
  <2> QED  BY <2>7, TimingsFit, SMT
<1>23. t.voterFresh \in Int /\ t.voterFresh > 0 /\ t.dbSilent \in Int /\ t.dbSilent > 0
  <2>1. t.voterFresh = 2 * H + 2000 /\ t.dbSilent = 3 * H
    BY <1>2, Timings, SMT
  <2> QED  BY <1>7, <2>1, SMT
<1>24. DOMAIN t = {"failoverSeconds", "heartbeat", "lease", "margin", "failover",
                   "requestTimeout", "pollWaitSeconds", "voterFresh", "tieBreak",
                   "candidacy", "fenceHooks", "dbSilent", "dbProbe", "dbTcpTimeout",
                   "detect", "takeover", "dbFailover", "blip"}
  BY Zenon DEF Timing!HaTimings
<1> QED
  BY <1>1, <1>2, <1>3, <1>4, <1>5, <1>6, <1>7, <1>8, <1>9, <1>10, <1>12, <1>13,
     <1>14, <1>15, <1>16, <1>17, <1>18, <1>19, <1>20, <1>21, <1>22, <1>23, <1>24, SMT

\* cleanLeaseMs: what a voter is told is turned into a length within bounds.
LEMMA CleanLeaseRange ==
  ASSUME NEW ms, ms = Unset \/ ms \in Int
  PROVE  Timing!CleanLeaseMs(ms) \in Int
BY SMT DEF Timing!CleanLeaseMs, Timing!Clamp, Timing!Lower, Timing!Higher, Timing!LegacyLeaseMs, Timing!LeaseBounds

\* grantUntil against evaluate: whatever lease a voter echoes and whatever the
\* setting was at the request, the leader counts the grant, and a tick more,
\* for less long than the voter keeps it.
LEMMA GrantEndsFirst ==
  ASSUME NEW raw, NEW ms, ms = Unset \/ ms \in Int
  PROVE  Timing!CountedMs(Timing!HaTimings(raw), ms) + Timing!TickMs < Timing!CleanLeaseMs(ms)
<1>1. PICK t : t = Timing!HaTimings(raw)  OBVIOUS
<1>2. t.lease \in Int
  <2>1. \A f \in DOMAIN t : t[f] \in Nat \ {0}
    BY <1>1, TimingsPositive, SMT
  <2>2. "lease" \in DOMAIN t
    BY <1>1, Zenon DEF Timing!HaTimings
  <2> QED  BY <2>1, <2>2, SMT
<1>3. t.margin \in Int /\ 1000 <= t.margin
  <2>1. PICK s : s = t.failoverSeconds  OBVIOUS
  <2>2. s \in Int /\ 10 <= s /\ s <= 300
    BY <1>1, <2>1, EffectiveInRange, Timings, SMT
  <2>3. PICK M : M = t.margin  OBVIOUS
  <2>4. PICK L : L = t.lease  OBVIOUS
  <2>5. M = Timing!MarginMs(s) /\ L = Timing!LeaseMs(s)
    BY <1>1, <2>1, <2>3, <2>4, Timings, SMT
  <2> QED  BY <2>2, <2>3, <2>5, MarginRange, SMT
<1>4. PICK c : c = Timing!CleanLeaseMs(ms)  OBVIOUS
<1>5. c \in Int
  BY <1>4, CleanLeaseRange, SMT
<1>6. PICK g : g = Timing!Lower(c, t.lease)  OBVIOUS
<1>7. g \in Int
  BY <1>2, <1>5, <1>6, LowerHigher, SMT
<1>8. g <= c
  BY <1>2, <1>5, <1>6, LowerHigher, SMT
<1>9. Timing!CountedMs(t, ms) = g - t.margin
  BY <1>4, <1>6, SMT DEF Timing!CountedMs
<1>10. g - t.margin + Timing!TickMs < c
  BY <1>3, <1>5, <1>7, <1>8, SMT DEF Timing!TickMs
<1> QED  BY <1>1, <1>4, <1>9, <1>10, SMT

\* The state holds two of the settings an operator may ask for.
Stored == stored \in Settings /\ issuedUnder \in Settings

\* PATCH /api/ha/settings and the heartbeat keep it so.
LEMMA StoredHolds == Timing!Spec => []Stored
<1>1. Timing!Init => Stored
  BY DEF Timing!Init, Stored
<1>2. Stored /\ [Timing!Next]_(Timing!vars) => Stored'
  BY DEF Stored, Timing!Next, Timing!SaveSettings, Timing!Renew, Timing!vars
<1> QED  BY <1>1, <1>2, PTL DEF Timing!Spec

\* The timings of the setting in force, read from the table.
LEMMA TableGives ==
  ASSUME Stored
  PROVE  Timing!Now = Timing!HaTimings(stored) /\ Timing!Then = Timing!HaTimings(issuedUnder)
BY DEF Stored, Timing!Now, Timing!Then, Timing!Table

\* haTimings: a leader can miss a round, a long poll ends inside the silence
\* window and the advertised worst case fits the target, for any settings an
\* operator may ask for, valid or not.
THEOREM TimingsHold == Timing!Spec => [](Timing!TypeOK /\ Timing!RenewalRoom /\ Timing!PollInsideSilence /\ Timing!BudgetMet)
<1>1. Stored => Timing!TypeOK /\ Timing!RenewalRoom /\ Timing!PollInsideSilence /\ Timing!BudgetMet
  <2> SUFFICES ASSUME Stored
               PROVE  Timing!TypeOK /\ Timing!RenewalRoom /\ Timing!PollInsideSilence /\ Timing!BudgetMet
    OBVIOUS
  <2>1. Timing!Now = Timing!HaTimings(stored)
    BY TableGives
  <2>2. Timing!TypeOK
    BY <2>1, TimingsPositive DEF Stored, Timing!TypeOK
  <2>3. Timing!RenewalRoom
    BY <2>1, TimingsFit, SMT DEF Timing!RenewalRoom
  <2>4. Timing!PollInsideSilence
    BY <2>1, TimingsFit, SMT DEF Timing!PollInsideSilence
  <2>5. Timing!BudgetMet
    BY <2>1, TimingsFit, SMT DEF Timing!BudgetMet
  <2> QED  BY <2>2, <2>3, <2>4, <2>5
<1> QED  BY <1>1, StoredHolds, PTL

\* evaluate and grantUntil: the last vote of a majority runs out at the leader,
\* a tick included, before the voter's lease does, whatever the voter echoes
\* and however the setting was changed meanwhile.
THEOREM VotesEndFirst == Timing!Spec => []Timing!TickInsideMargin
<1>1. Stored => Timing!TickInsideMargin
  <2> SUFFICES ASSUME Stored PROVE Timing!TickInsideMargin
    OBVIOUS
  <2>1. Timing!Then = Timing!HaTimings(issuedUnder)
    BY TableGives
  <2>2. Timing!Then.lease \in Int
    <3>1. \A f \in DOMAIN Timing!Then : Timing!Then[f] \in Nat \ {0}
      BY <2>1, TimingsPositive, SMT
    <3>2. "lease" \in DOMAIN Timing!Then
      BY <2>1, Zenon DEF Timing!HaTimings
    <3> QED  BY <3>1, <3>2, SMT
  <2>3. ASSUME NEW lease \in {Unset, 1000, 3000, Timing!Then.lease, 999999}
        PROVE  Timing!CountedMs(Timing!Then, lease) + Timing!TickMs < Timing!CleanLeaseMs(lease)
    <3>1. lease = Unset \/ lease \in Int
      BY <2>2, SMT
    <3> QED  BY <2>1, <3>1, GrantEndsFirst, SMT
  <2> QED  BY <2>3, SMT DEF Timing!TickInsideMargin
<1> QED  BY <1>1, StoredHolds, PTL

\* fence: while the setting does not change, the hooks that run after the
\* decision to fence end before the voters may elect anyone else.
THEOREM FenceEndsFirst == Timing!Spec => []Timing!FenceHooksInsideLease
<1>1. Stored => Timing!FenceHooksInsideLease
  <2> SUFFICES ASSUME Stored PROVE Timing!FenceHooksInsideLease
    OBVIOUS
  <2>1. Timing!Now = Timing!HaTimings(stored)
    BY TableGives
  <2> QED  BY <2>1, TimingsFit, SMT DEF Timing!FenceHooksInsideLease
<1> QED  BY <1>1, StoredHolds, PTL

\* The lease lengths a leader may ask for, and its margin for each: haTimings makes the
\* margin of the lease alone.
Asked == {Timing!HaTimings(s).lease : s \in Settings}
MarginOf == [l \in Asked |-> Timing!Higher(1000, Timing!RoundHundreds(l, 5))]

\* haTimings against HaLease: the leases and margins of any settings are ones that the
\* protocol's theorems are about (LeasesAndMargins), with votes evaluated once per tick.
THEOREM TimingsSuitTheProtocol ==
  /\ \A s \in Settings : Timing!HaTimings(s).margin = MarginOf[Timing!HaTimings(s).lease]
  /\ Asked \subseteq Nat
  /\ MarginOf \in [Asked -> Nat]
  /\ \A l \in Asked : Timing!TickMs <= MarginOf[l]
<1>1. ASSUME NEW s \in Settings, NEW t, t = Timing!HaTimings(s)
      PROVE  /\ t.lease \in Nat /\ t.margin \in Nat /\ Timing!TickMs <= t.margin
             /\ t.margin = Timing!Higher(1000, Timing!RoundHundreds(t.lease, 5))
  <2>1. PICK e : e = Timing!EffectiveSeconds(s)  OBVIOUS
  <2>2. e \in Int /\ 10 <= e /\ e <= 300
    BY <2>1, EffectiveInRange, SMT
  <2>3. t.lease = Timing!LeaseMs(e) /\ t.margin = Timing!MarginMs(e)
    BY <1>1, <2>1, Timings, SMT
  <2>4. t.lease \in Int /\ 4450 <= t.lease
    BY <2>2, <2>3, LeaseRange, SMT
  <2>5. t.margin \in Int /\ 1000 <= t.margin
    BY <2>2, <2>3, MarginRange, SMT
  <2>6. t.margin = Timing!Higher(1000, Timing!RoundHundreds(t.lease, 5))
    BY <2>3, SMT DEF Timing!MarginMs
  <2> QED  BY <2>4, <2>5, <2>6, SMT DEF Timing!TickMs
<1>2. ASSUME NEW s \in Settings
      PROVE  MarginOf[Timing!HaTimings(s).lease] = Timing!HaTimings(s).margin
  <2>1. Timing!HaTimings(s).lease \in Asked
    BY DEF Asked
  <2> QED  BY <1>1, <2>1 DEF MarginOf
<1>3. ASSUME NEW l \in Asked
      PROVE  l \in Nat /\ MarginOf[l] \in Nat /\ Timing!TickMs <= MarginOf[l]
  <2>1. PICK s \in Settings : l = Timing!HaTimings(s).lease
    BY DEF Asked
  <2>2. MarginOf[l] = Timing!HaTimings(s).margin
    BY <1>2, <2>1
  <2> QED  BY <1>1, <2>1, <2>2
<1>4. MarginOf \in [Asked -> Nat]
  BY <1>3 DEF MarginOf
<1> QED  BY <1>2, <1>3, <1>4
=============================================================================
