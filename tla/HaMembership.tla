---------------------------- MODULE HaMembership ----------------------------
(***************************************************************************)
(* Changing who votes (panel/lib/ha.mjs with panel/lib/cluster.mjs): every *)
(* enabled server has a vote, and each panel node counts the votes of the  *)
(* servers that its own copy of the database calls enabled.                *)
(*                                                                         *)
(* How a vote travels and for how long it counts is in HaLease; here a     *)
(* panel node has the votes it counts, a voter the node it voted for, and  *)
(* a lease lapses only after the node that counted it has evaluated its    *)
(* votes without it, which is what HaLease shows.                          *)
(***************************************************************************)
EXTENDS Integers, FiniteSets, FiniteSetTheorems, TLAPS

CONSTANTS
  Server,      \* every server there may be
  Panel,       \* those that are panel nodes
  Main,        \* the main server
  Enabled0,    \* the servers that are enabled at first
  None,        \* no vote
  MinServers,  \* PANEL_MIN_SERVERS
  OneAtATime,  \* TRUE: the admin waits after every change until all panels have it
  MaxTerm,     \* bound on terms, for TLC
  MaxSeq       \* bound on the changes in a term, for TLC

ASSUME ServersAndPanels ==
  /\ IsFiniteSet(Server)
  /\ Main \in Panel /\ Panel \subseteq Enabled0 /\ Enabled0 \subseteq Server
  /\ None \notin Panel
  /\ MinServers \in Nat /\ OneAtATime \in BOOLEAN
  /\ MaxTerm \in Nat \ {0} /\ MaxSeq \in Nat

VARIABLES
  role,       \* standby, candidate or leader
  term,       \* the node's term
  enabled,    \* the enabled servers in the node's db.json
  version,    \* the version of that db.json: <<term, seq>>
  committed,  \* the highest version the leader has an ack for
  counted,    \* the votes the node counts
  basis,      \* the servers the leader last found a majority of
  unseen,     \* votes that ended since then
  votedFor,   \* the node that has the voter's lease, or None
  voterTerm,  \* the voter's term
  known       \* the voter's knownCommitted

node == <<role, term, enabled, version, committed, counted, basis, unseen>>
voter == <<votedFor, voterTerm, known>>
vars == <<node, voter>>

Leaders == {p \in Panel : role[p] = "leader"}

\* compareVersion
Older(v, w) == v[1] < w[1] \/ (v[1] = w[1] /\ v[2] < w[2])

\* majority, of the servers this database calls enabled
IsMajority(S, E) == 2 * Cardinality(S \cap E) > Cardinality(E)

-----------------------------------------------------------------------------
(* Votes.                                                                  *)

\* Mutant: a voter grants whoever asks with a newer term.
GrantForNewerTerm(v, p) ==
  /\ role[p] \in {"candidate", "leader"}
  /\ v \in enabled[p]
  /\ term[p] >= voterTerm[v]
  /\ ~Older(version[p], known[v])
  /\ votedFor[v] \in {None, p} \/ term[p] > voterTerm[v]
  /\ votedFor' = [votedFor EXCEPT ![v] = p]
  /\ voterTerm' = [voterTerm EXCEPT ![v] = term[p]]
  /\ counted' = [counted EXCEPT ![p] = @ \cup {v}]
  /\ UNCHANGED <<role, term, enabled, version, committed, basis, unseen, known>>

\* A voter grants the request of p.  A grant that gets lost is one that expires at once.
Grant(v, p) ==
  /\ role[p] \in {"candidate", "leader"}
  /\ v \in enabled[p]
  /\ term[p] >= voterTerm[v]
  /\ ~Older(version[p], known[v])
  /\ votedFor[v] \in {None, p}
  /\ votedFor' = [votedFor EXCEPT ![v] = p]
  /\ voterTerm' = [voterTerm EXCEPT ![v] = term[p]]
  /\ counted' = [counted EXCEPT ![p] = @ \cup {v}]
  /\ UNCHANGED <<role, term, enabled, version, committed, basis, unseen, known>>

\* A vote reaches its end on the clock of p.
Expire(p, v) ==
  /\ v \in counted[p]
  /\ counted' = [counted EXCEPT ![p] = @ \ {v}]
  /\ unseen' = [unseen EXCEPT ![p] = IF role[p] = "leader" THEN @ \cup {v} ELSE @]
  /\ UNCHANGED <<role, term, enabled, version, committed, basis, voter>>

\* A lease ends at the voter, after the node that has it has fenced or stopped counting it.
Lapse(v) ==
  /\ votedFor[v] # None
  /\ v \notin counted[votedFor[v]] \cup unseen[votedFor[v]]
  /\ votedFor' = [votedFor EXCEPT ![v] = None]
  /\ UNCHANGED <<node, voterTerm, known>>

\* A vote reply of the leader tells the voter what is committed.
Tell(p, v) ==
  /\ role[p] = "leader"
  /\ v \in enabled[p]
  /\ Older(known[v], committed[p])
  /\ known' = [known EXCEPT ![v] = committed[p]]
  /\ UNCHANGED <<node, votedFor, voterTerm>>

-----------------------------------------------------------------------------
(* Panel nodes.                                                            *)

\* becomeCandidate, if there are enough servers to vote (candidacyBlocker).  How long the
\* active panel was silent, and which voters told the node of a live lease (otherLease), is
\* left open.
Stand(p) ==
  /\ role[p] = "standby"
  /\ term[p] < MaxTerm
  /\ Cardinality(enabled[p]) >= MinServers
  /\ \E t \in {term[q] : q \in Panel} \cup {voterTerm[v] : v \in Server} :
       /\ t >= term[p] /\ t < MaxTerm
       /\ term' = [term EXCEPT ![p] = t + 1]
  /\ role' = [role EXCEPT ![p] = "candidate"]
  /\ counted' = [counted EXCEPT ![p] = {}]
  /\ UNCHANGED <<enabled, version, committed, basis, unseen, voter>>

\* Mutant: a new leader goes on counting where it was.
PromoteCounting(p) ==
  /\ role[p] = "candidate"
  /\ IsMajority(counted[p], enabled[p])
  /\ role' = [role EXCEPT ![p] = "leader"]
  /\ basis' = [basis EXCEPT ![p] = enabled[p]]
  /\ version' = [version EXCEPT ![p] = <<term[p], version[p][2] + 1>>]
  /\ UNCHANGED <<term, enabled, committed, counted, unseen, voter>>

\* evaluate and promote: a candidate with a majority leads, with a version of its own.
Promote(p) ==
  /\ role[p] = "candidate"
  /\ IsMajority(counted[p], enabled[p])
  /\ role' = [role EXCEPT ![p] = "leader"]
  /\ basis' = [basis EXCEPT ![p] = enabled[p]]
  /\ version' = [version EXCEPT ![p] = <<term[p], 0>>]
  /\ UNCHANGED <<term, enabled, committed, counted, unseen, voter>>

\* A candidate gives up: no majority in time, or the active panel answered.
GiveUp(p) ==
  /\ role[p] = "candidate"
  /\ role' = [role EXCEPT ![p] = "standby"]
  /\ counted' = [counted EXCEPT ![p] = {}]
  /\ UNCHANGED <<term, enabled, version, committed, basis, unseen, voter>>

\* evaluate: the leader finds that it has its majority...
StayInOffice(p) ==
  /\ role[p] = "leader"
  /\ IsMajority(counted[p], enabled[p])
  /\ basis' = [basis EXCEPT ![p] = enabled[p]]
  /\ unseen' = [unseen EXCEPT ![p] = {}]
  /\ <<basis, unseen>>' # <<basis, unseen>>
  /\ UNCHANGED <<role, term, enabled, version, committed, counted, voter>>

\* ... or fences itself and comes back as a standby.  It may also crash at any time.
Fence(p) ==
  /\ role[p] = "leader"
  /\ role' = [role EXCEPT ![p] = "standby"]
  /\ counted' = [counted EXCEPT ![p] = {}]
  /\ unseen' = [unseen EXCEPT ![p] = {}]
  /\ basis' = [basis EXCEPT ![p] = {}]
  /\ committed' = [committed EXCEPT ![p] = <<0, 0>>]
  /\ UNCHANGED <<term, enabled, version, voter>>

\* A standby takes over a newer database of the leader; its ack may get lost.  A tick
\* evaluates the votes before it scans the files, so the leader still has its majority under
\* what it hands out.
Replicate(p, q) ==
  /\ role[p] = "leader" /\ role[q] # "leader"
  /\ basis[p] = enabled[p]
  /\ Older(version[q], version[p])
  /\ enabled' = [enabled EXCEPT ![q] = enabled[p]]
  /\ version' = [version EXCEPT ![q] = version[p]]
  /\ term' = [term EXCEPT ![q] = IF term[p] > @ THEN term[p] ELSE @]
  /\ role' = [role EXCEPT ![q] = "standby"]
  /\ counted' = [counted EXCEPT ![q] = {}]
  /\ \/ committed' = [committed EXCEPT ![p] = version[p]]
     \/ UNCHANGED committed
  /\ UNCHANGED <<basis, unseen, voter>>

-----------------------------------------------------------------------------
(* Changes, made by an admin on an active panel.                           *)

\* What an admin who changes one server at a time looks at.
Settled(p) == basis[p] = enabled[p] /\ \A q \in Panel : enabled[q] = enabled[p]

Change(p, E) ==
  /\ role[p] = "leader"
  /\ version[p][2] < MaxSeq
  /\ OneAtATime => Settled(p)
  /\ enabled' = [enabled EXCEPT ![p] = E]
  /\ version' = [version EXCEPT ![p] = <<@[1], @[2] + 1>>]
  /\ UNCHANGED <<role, term, committed, counted, basis, unseen, voter>>

\* A server is added, or enabled again.
Enable(p, s) == s \notin enabled[p] /\ Change(p, enabled[p] \cup {s})

\* A server is disabled or removed (guardPanelNodeChange).
Disable(p, s) ==
  /\ s \in enabled[p] \ Panel
  /\ Cardinality(enabled[p]) > MinServers
  /\ Change(p, enabled[p] \ {s})

-----------------------------------------------------------------------------
Init ==
  /\ role = [p \in Panel |-> IF p = Main THEN "leader" ELSE "standby"]
  /\ term = [p \in Panel |-> 1]
  /\ enabled = [p \in Panel |-> Enabled0]
  /\ version = [p \in Panel |-> <<1, 0>>]
  /\ committed = [p \in Panel |-> <<0, 0>>]
  /\ counted = [p \in Panel |-> IF p = Main THEN Enabled0 ELSE {}]
  /\ basis = [p \in Panel |-> IF p = Main THEN Enabled0 ELSE {}]
  /\ unseen = [p \in Panel |-> {}]
  /\ votedFor = [v \in Server |-> IF v \in Enabled0 THEN Main ELSE None]
  /\ voterTerm = [v \in Server |-> 1]
  /\ known = [v \in Server |-> <<0, 0>>]

Next ==
  \E p \in Panel :
    \/ Stand(p) \/ Promote(p) \/ GiveUp(p) \/ StayInOffice(p) \/ Fence(p)
    \/ \E q \in Panel : Replicate(p, q)
    \/ \E v \in Server :
         \/ Grant(v, p) \/ Expire(p, v) \/ Tell(p, v)
         \/ Enable(p, v) \/ Disable(p, v)
         \/ Lapse(v)

Spec == Init /\ [][Next]_vars

-----------------------------------------------------------------------------
(* Properties.                                                             *)

Version == (0 .. MaxTerm) \X (0 .. MaxSeq)

TypeOK ==
  /\ role \in [Panel -> {"standby", "candidate", "leader"}]
  /\ term \in [Panel -> 1 .. MaxTerm]
  /\ enabled \in [Panel -> SUBSET Server]
  /\ version \in [Panel -> Version] /\ committed \in [Panel -> Version]
  /\ counted \in [Panel -> SUBSET Server]
  /\ basis \in [Panel -> SUBSET Server]
  /\ unseen \in [Panel -> SUBSET Server]
  /\ votedFor \in [Server -> Panel \cup {None}]
  /\ voterTerm \in [Server -> 1 .. MaxTerm]
  /\ known \in [Server -> Version]

\* README: "Exactly one panel is active at a time."  At most one is, whatever is changed
\* about the servers that vote.
AtMostOneLeader == \A p, q \in Leaders : p = q

-----------------------------------------------------------------------------
(* Proofs, for any servers and any panel nodes: as long as changes are made *)
(* one at a time, and each one reaches every panel node before the next,    *)
(* two panels are never active at once.                                    *)
(*                                                                         *)
(* A leader rests on leases of a majority of the servers it last counted;  *)
(* a candidate wins with a majority of the servers in its own database.    *)
(* These two sets of servers differ in at most one server, and majorities  *)
(* of two such sets still share a voter, who has one lease to give.        *)

\* Two sets that differ in at most one element.
Near(A, B) == \E x : A \subseteq B \cup {x} /\ B \subseteq A \cup {x} /\ (A \subseteq B \/ B \subseteq A)

\* The votes of p that may still be live, as far as p knows.
Held(p) == counted[p] \cup unseen[p]

HeldAreGiven == \A p \in Panel : \A v \in Held(p) : votedFor[v] = p

LeadersAreBacked == \A p \in Leaders : IsMajority(Held(p), basis[p])

DatabasesAreNear == \A p, q \in Panel : Near(enabled[p], enabled[q])

BasisIsNear == \A p \in Leaders : \A q \in Panel : Near(basis[p], enabled[q])

IInv ==
  /\ TypeOK
  /\ HeldAreGiven
  /\ LeadersAreBacked
  /\ DatabasesAreNear
  /\ BasisIsNear
  /\ AtMostOneLeader

-----------------------------------------------------------------------------
(* Majorities.                                                             *)

LEMMA NearIsSymmetric ==
  ASSUME NEW A, NEW B, Near(A, B)
  PROVE  Near(B, A)
BY DEF Near

LEMMA NearItself ==
  ASSUME NEW A
  PROVE  Near(A, A)
BY DEF Near

LEMMA NearPlusOne ==
  ASSUME NEW A, NEW x
  PROVE  Near(A, A \cup {x}) /\ Near(A \cup {x}, A)
BY DEF Near

LEMMA NearMinusOne ==
  ASSUME NEW A, NEW x
  PROVE  Near(A, A \ {x}) /\ Near(A \ {x}, A)
BY DEF Near

\* The smaller of two sets that differ in one element comes first.
LEMMA NestedMajoritiesMeet ==
  ASSUME NEW A \in SUBSET Server, NEW B \in SUBSET Server, NEW x,
         A \subseteq B, B \subseteq A \cup {x},
         NEW S, NEW T, IsMajority(S, A), IsMajority(T, B)
  PROVE  \E v : v \in S /\ v \in T
PROOF
  <1>1. IsFiniteSet(A) /\ IsFiniteSet(B)
    BY ServersAndPanels, FS_Subset
  <1>2. /\ IsFiniteSet(S \cap A) /\ IsFiniteSet(T \cap B) /\ IsFiniteSet(A \cup {x})
        /\ Cardinality(A \cup {x}) <= Cardinality(A) + 1
    <2>1. IsFiniteSet(S \cap A) /\ IsFiniteSet(T \cap B)
      BY <1>1, FS_Intersection
    <2>2. Cardinality(A) \in Nat
      BY <1>1, FS_CardinalityType
    <2>3. /\ IsFiniteSet(A \cup {x})
          /\ Cardinality(A \cup {x}) = IF x \in A THEN Cardinality(A) ELSE Cardinality(A) + 1
      BY <1>1, FS_AddElement
    <2> QED
      BY <2>1, <2>2, <2>3
  <1>3. Cardinality(B) <= Cardinality(A \cup {x})
    BY <1>2, FS_Subset
  <1>4. /\ Cardinality(A) \in Nat /\ Cardinality(B) \in Nat /\ Cardinality(A \cup {x}) \in Nat
        /\ Cardinality(S \cap A) \in Nat /\ Cardinality(T \cap B) \in Nat
    BY <1>1, <1>2, FS_CardinalityType
  <1>5. 2 * Cardinality(S \cap A) > Cardinality(A) /\ 2 * Cardinality(T \cap B) > Cardinality(B)
    BY DEF IsMajority
  <1>6. Cardinality(S \cap A) + Cardinality(T \cap B) > Cardinality(B)
    BY <1>2, <1>3, <1>4, <1>5
  <1>7. (S \cap A) \cap (T \cap B) # {}
    <2>1. S \cap A \subseteq B /\ T \cap B \subseteq B
      OBVIOUS
    <2> QED
      BY <1>1, <1>6, <2>1, FS_MajoritiesIntersect
  <1> QED
    BY <1>7

\* Majorities of sets that differ in at most one server have a server in common.
LEMMA NearMajoritiesMeet ==
  ASSUME NEW A \in SUBSET Server, NEW B \in SUBSET Server, Near(A, B),
         NEW S, NEW T, IsMajority(S, A), IsMajority(T, B)
  PROVE  \E v : v \in S /\ v \in T
PROOF
  <1>1. PICK x : A \subseteq B \cup {x} /\ B \subseteq A \cup {x} /\ (A \subseteq B \/ B \subseteq A)
    BY DEF Near
  <1>2. CASE A \subseteq B
    BY <1>1, <1>2, NestedMajoritiesMeet
  <1>3. CASE B \subseteq A
    BY <1>1, <1>3, NestedMajoritiesMeet
  <1> QED
    BY <1>1, <1>2, <1>3

\* More votes still make a majority.
LEMMA MajorityGrows ==
  ASSUME NEW A \in SUBSET Server, NEW S, NEW T, S \subseteq T, IsMajority(S, A)
  PROVE  IsMajority(T, A)
PROOF
  <1>1. IsFiniteSet(A) /\ IsFiniteSet(T \cap A) /\ IsFiniteSet(S \cap A)
    BY ServersAndPanels, FS_Subset, FS_Intersection
  <1>2. Cardinality(S \cap A) <= Cardinality(T \cap A)
    <2>1. S \cap A \in SUBSET (T \cap A)
      OBVIOUS
    <2> QED
      BY <1>1, <2>1, FS_Subset
  <1>3. Cardinality(A) \in Nat /\ Cardinality(S \cap A) \in Nat /\ Cardinality(T \cap A) \in Nat
    BY <1>1, FS_CardinalityType
  <1> QED
    BY <1>2, <1>3 DEF IsMajority

-----------------------------------------------------------------------------
(* Types.                                                                  *)

LEMMA TypeInit == Init => TypeOK
PROOF
  <1> SUFFICES ASSUME Init PROVE TypeOK
    OBVIOUS
  <1>1. /\ <<1, 0>> \in Version /\ <<0, 0>> \in Version /\ 1 \in 1 .. MaxTerm
    BY ServersAndPanels DEF Version
  <1> QED
    BY <1>1, ServersAndPanels DEF Init, TypeOK

LEMMA TypeStep == TypeOK /\ [Next]_vars => TypeOK'
PROOF
  <1> SUFFICES ASSUME TypeOK, [Next]_vars PROVE TypeOK'
    OBVIOUS
  <1> USE DEF TypeOK, node, voter
  <1>1. ASSUME NEW p \in Panel, Stand(p) PROVE TypeOK'
    <2>1. PICK t \in {term[q] : q \in Panel} \cup {voterTerm[v] : v \in Server} :
            t >= term[p] /\ t < MaxTerm /\ term' = [term EXCEPT ![p] = t + 1]
      BY <1>1 DEF Stand
    <2>2. t \in 1 .. MaxTerm
      OBVIOUS
    <2>3. t + 1 \in 1 .. MaxTerm
      BY <2>1, <2>2, ServersAndPanels
    <2> QED
      BY <1>1, <2>1, <2>3 DEF Stand
  <1>2. ASSUME NEW p \in Panel, Promote(p) PROVE TypeOK'
    <2>1. <<term[p], 0>> \in Version
      BY ServersAndPanels DEF Version
    <2> QED
      BY <1>2, <2>1 DEF Promote
  <1>3. ASSUME NEW p \in Panel, GiveUp(p) PROVE TypeOK'
    BY <1>3 DEF GiveUp
  <1>4. ASSUME NEW p \in Panel, StayInOffice(p) PROVE TypeOK'
    BY <1>4 DEF StayInOffice
  <1>5. ASSUME NEW p \in Panel, Fence(p) PROVE TypeOK'
    <2>1. <<0, 0>> \in Version
      BY ServersAndPanels DEF Version
    <2> QED
      BY <1>5, <2>1 DEF Fence
  <1>6. ASSUME NEW p \in Panel, NEW q \in Panel, Replicate(p, q) PROVE TypeOK'
    BY <1>6 DEF Replicate
  <1>7. ASSUME NEW p \in Panel, NEW v \in Server, Grant(v, p) PROVE TypeOK'
    BY <1>7 DEF Grant
  <1>8. ASSUME NEW p \in Panel, NEW v \in Server, Expire(p, v) PROVE TypeOK'
    BY <1>8 DEF Expire
  <1>9. ASSUME NEW p \in Panel, NEW v \in Server, Tell(p, v) PROVE TypeOK'
    BY <1>9 DEF Tell
  <1>10. ASSUME NEW v \in Server, Lapse(v) PROVE TypeOK'
    BY <1>10 DEF Lapse
  <1>11. ASSUME NEW p \in Panel, NEW E \in SUBSET Server, Change(p, E) PROVE TypeOK'
    <2>1. <<version[p][1], version[p][2] + 1>> \in Version
      BY <1>11, ServersAndPanels DEF Change, Version
    <2> QED
      BY <1>11, <2>1 DEF Change
  <1>12. CASE UNCHANGED vars
    BY <1>12 DEF vars
  <1> QED
    BY <1>1, <1>2, <1>3, <1>4, <1>5, <1>6, <1>7, <1>8, <1>9, <1>10, <1>11, <1>12
    DEF Next, Enable, Disable

\* Types are kept, however the servers that vote are changed.
THEOREM TypeCorrect == Spec => []TypeOK
PROOF
  <1> QED
    BY TypeInit, TypeStep, PTL DEF Spec

-----------------------------------------------------------------------------
(* One change at a time.                                                   *)

LEMMA InvInit == Init => IInv
PROOF
  <1> SUFFICES ASSUME Init PROVE IInv
    OBVIOUS
  <1>1. TypeOK
    BY TypeInit
  <1>2. Leaders = {Main} /\ AtMostOneLeader
    BY ServersAndPanels DEF Init, Leaders, AtMostOneLeader
  <1>3. HeldAreGiven
    BY ServersAndPanels DEF Init, HeldAreGiven, Held
  <1>4. LeadersAreBacked
    <2>1. Held(Main) = Enabled0 /\ basis[Main] = Enabled0
      BY ServersAndPanels DEF Init, Held
    <2>2. IsFiniteSet(Enabled0) /\ Cardinality(Enabled0) \in Nat /\ Cardinality(Enabled0) # 0
      BY ServersAndPanels, FS_Subset, FS_CardinalityType, FS_EmptySet
    <2>3. Cardinality(Enabled0 \cap Enabled0) = Cardinality(Enabled0)
      <3>1. Enabled0 \cap Enabled0 = Enabled0
        OBVIOUS
      <3> QED
        BY <3>1, Zenon
    <2>4. IsMajority(Enabled0, Enabled0)
      <3> DEFINE n == Cardinality(Enabled0)
      <3>1. n \in Nat /\ n # 0 /\ Cardinality(Enabled0 \cap Enabled0) = n
        BY <2>2, <2>3
      <3> HIDE DEF n
      <3>2. 2 * n > n
        BY <3>1
      <3>3. 2 * Cardinality(Enabled0 \cap Enabled0) > Cardinality(Enabled0)
        BY <3>1, <3>2 DEF n
      <3> QED
        BY <3>3, Zenon DEF IsMajority
    <2> QED
      BY <1>2, <2>1, <2>4 DEF LeadersAreBacked
  <1>5. DatabasesAreNear
    BY NearItself DEF Init, DatabasesAreNear
  <1>6. BasisIsNear
    BY <1>2, NearItself, ServersAndPanels DEF Init, BasisIsNear
  <1> QED
    BY <1>1, <1>2, <1>3, <1>4, <1>5, <1>6 DEF IInv

\* A step after which no panel leads that did not before, no vote that may be live is
\* forgotten by a leader or claimed from somebody else, and nobody's database changes.
LEMMA QuietStep ==
  ASSUME IInv, TypeOK', HeldAreGiven', Leaders' \subseteq Leaders,
         UNCHANGED enabled,
         \A p \in Leaders' : Held(p) \subseteq Held(p)' /\ basis'[p] = basis[p]
  PROVE  IInv'
PROOF
  <1>1. LeadersAreBacked'
    <2> SUFFICES ASSUME NEW p \in Leaders' PROVE IsMajority(Held(p)', basis'[p])
      BY DEF LeadersAreBacked
    <2>1. p \in Leaders /\ p \in Panel
      BY DEF Leaders
    <2>2. IsMajority(Held(p), basis[p]) /\ basis[p] \in SUBSET Server
      BY <2>1 DEF IInv, LeadersAreBacked, TypeOK
    <2> QED
      BY <2>2, MajorityGrows
  <1>2. DatabasesAreNear'
    BY DEF IInv, DatabasesAreNear
  <1>3. BasisIsNear'
    BY DEF IInv, BasisIsNear
  <1>4. AtMostOneLeader'
    BY DEF IInv, AtMostOneLeader
  <1> QED
    BY <1>1, <1>2, <1>3, <1>4 DEF IInv

\* Who wins an election is the only leader: the votes it counts and those of another
\* leader would share a voter.
LEMMA WinnerIsAlone ==
  ASSUME IInv, NEW p \in Panel, Promote(p)
  PROVE  Leaders' = {p}
PROOF
  <1>1. Leaders' = Leaders \cup {p}
    BY DEF IInv, TypeOK, Promote, Leaders
  <1>2. SUFFICES ASSUME NEW q \in Leaders, q # p PROVE FALSE
    BY <1>1
  <1>3. q \in Panel /\ Near(basis[q], enabled[p]) /\ IsMajority(Held(q), basis[q])
    BY DEF Leaders, IInv, BasisIsNear, LeadersAreBacked
  <1>4. basis[q] \in SUBSET Server /\ enabled[p] \in SUBSET Server /\ IsMajority(counted[p], enabled[p])
    BY <1>3 DEF IInv, TypeOK, Promote
  <1>5. PICK v : v \in Held(q) /\ v \in counted[p]
    BY <1>3, <1>4, NearMajoritiesMeet
  <1>6. votedFor[v] = q /\ votedFor[v] = p
    BY <1>3, <1>5 DEF IInv, HeldAreGiven, Held
  <1> QED
    BY <1>2, <1>6

LEMMA InvPromote ==
  ASSUME IInv, TypeOK', NEW p \in Panel, Promote(p)
  PROVE  IInv'
PROOF
  <1>1. Leaders' = {p}
    BY WinnerIsAlone
  <1>2. /\ basis'[p] = enabled[p] /\ enabled' = enabled /\ enabled[p] \in SUBSET Server
        /\ counted' = counted /\ unseen' = unseen /\ votedFor' = votedFor
    BY DEF IInv, TypeOK, Promote, voter
  <1>3. HeldAreGiven'
    BY <1>2 DEF IInv, HeldAreGiven, Held
  <1>4. LeadersAreBacked'
    <2>1. IsMajority(counted[p], enabled[p]) /\ counted[p] \subseteq Held(p)'
      BY <1>2 DEF Promote, Held
    <2>2. IsMajority(Held(p)', enabled[p])
      BY <1>2, <2>1, MajorityGrows
    <2> QED
      BY <1>1, <1>2, <2>2 DEF LeadersAreBacked
  <1>5. DatabasesAreNear' /\ BasisIsNear'
    BY <1>1, <1>2 DEF IInv, DatabasesAreNear, BasisIsNear
  <1>6. AtMostOneLeader'
    BY <1>1 DEF AtMostOneLeader
  <1> QED
    BY <1>3, <1>4, <1>5, <1>6 DEF IInv

LEMMA InvStayInOffice ==
  ASSUME IInv, TypeOK', NEW p \in Panel, StayInOffice(p)
  PROVE  IInv'
PROOF
  <1>1. Leaders' = Leaders /\ p \in Leaders /\ Leaders = {p}
    BY DEF IInv, TypeOK, StayInOffice, Leaders, AtMostOneLeader
  <1>2. /\ basis'[p] = enabled[p] /\ enabled' = enabled /\ enabled[p] \in SUBSET Server
        /\ counted' = counted /\ votedFor' = votedFor
        /\ \A q \in Panel : unseen'[q] \subseteq unseen[q]
    BY DEF IInv, TypeOK, StayInOffice, voter
  <1>3. HeldAreGiven'
    BY <1>2 DEF IInv, HeldAreGiven, Held
  <1>4. LeadersAreBacked'
    <2>1. IsMajority(counted[p], enabled[p]) /\ counted[p] \subseteq Held(p)'
      BY <1>2 DEF StayInOffice, Held
    <2>2. IsMajority(Held(p)', enabled[p])
      BY <1>2, <2>1, MajorityGrows
    <2> QED
      BY <1>1, <1>2, <2>2 DEF LeadersAreBacked
  <1>5. DatabasesAreNear' /\ BasisIsNear'
    BY <1>1, <1>2 DEF IInv, DatabasesAreNear, BasisIsNear
  <1>6. AtMostOneLeader'
    BY <1>1 DEF IInv, AtMostOneLeader
  <1> QED
    BY <1>3, <1>4, <1>5, <1>6 DEF IInv

LEMMA InvChange ==
  ASSUME IInv, TypeOK', OneAtATime, NEW p \in Panel, NEW E \in SUBSET Server,
         Near(enabled[p], E), Change(p, E)
  PROVE  IInv'
PROOF
  <1>1. /\ Leaders' = Leaders /\ Leaders = {p}
        /\ counted' = counted /\ unseen' = unseen /\ votedFor' = votedFor /\ basis' = basis
    BY DEF IInv, TypeOK, Change, Leaders, AtMostOneLeader, voter
  <1>2. /\ enabled'[p] = E /\ \A q \in Panel \ {p} : enabled'[q] = enabled[p]
        /\ basis[p] = enabled[p]
    BY DEF IInv, TypeOK, Change, Settled
  <1>3. HeldAreGiven' /\ LeadersAreBacked' /\ AtMostOneLeader'
    BY <1>1 DEF IInv, HeldAreGiven, LeadersAreBacked, AtMostOneLeader, Held
  <1>4. DatabasesAreNear'
    <2> SUFFICES ASSUME NEW q \in Panel, NEW r \in Panel PROVE Near(enabled'[q], enabled'[r])
      BY DEF DatabasesAreNear
    <2>1. Near(E, enabled[p]) /\ Near(E, E) /\ Near(enabled[p], enabled[p])
      BY NearIsSymmetric, NearItself
    <2> QED
      BY <1>2, <2>1
  <1>5. BasisIsNear'
    <2> SUFFICES ASSUME NEW q \in Panel PROVE Near(basis'[p], enabled'[q])
      BY <1>1 DEF BasisIsNear
    <2> QED
      BY <1>1, <1>2, NearItself
  <1> QED
    BY <1>3, <1>4, <1>5 DEF IInv

LEMMA InvReplicate ==
  ASSUME IInv, TypeOK', NEW p \in Panel, NEW q \in Panel, Replicate(p, q)
  PROVE  IInv'
PROOF
  <1>1. /\ Leaders' = Leaders /\ Leaders = {p} /\ p # q
        /\ basis' = basis /\ unseen' = unseen /\ votedFor' = votedFor
        /\ counted'[p] = counted[p] /\ \A r \in Panel : counted'[r] \subseteq counted[r]
    BY DEF IInv, TypeOK, Replicate, Leaders, AtMostOneLeader, voter
  <1>2. enabled'[q] = enabled[p] /\ \A r \in Panel \ {q} : enabled'[r] = enabled[r]
    BY DEF IInv, TypeOK, Replicate
  <1>3. HeldAreGiven' /\ AtMostOneLeader'
    BY <1>1 DEF IInv, HeldAreGiven, AtMostOneLeader, Held
  <1>4. LeadersAreBacked'
    BY <1>1 DEF IInv, LeadersAreBacked, Held
  <1>5. DatabasesAreNear'
    <2> SUFFICES ASSUME NEW r \in Panel, NEW s \in Panel PROVE Near(enabled'[r], enabled'[s])
      BY DEF DatabasesAreNear
    <2>1. \A x, y \in Panel : Near(enabled[x], enabled[y])
      BY DEF IInv, DatabasesAreNear
    <2> QED
      BY <1>2, <2>1
  <1>6. BasisIsNear'
    <2> SUFFICES ASSUME NEW r \in Panel PROVE Near(basis'[p], enabled'[r])
      BY <1>1 DEF BasisIsNear
    <2>1. \A x \in Panel : Near(basis[p], enabled[x])
      BY <1>1 DEF IInv, BasisIsNear
    <2> QED
      BY <1>1, <1>2, <2>1
  <1> QED
    BY <1>3, <1>4, <1>5, <1>6 DEF IInv

LEMMA InvStep == OneAtATime /\ IInv /\ [Next]_vars => IInv'
PROOF
  <1> SUFFICES ASSUME OneAtATime, IInv, [Next]_vars PROVE IInv'
    OBVIOUS
  <1>0. TypeOK /\ TypeOK'
    BY TypeStep DEF IInv
  <1> USE DEF node, voter
  <1>1. ASSUME NEW p \in Panel, Stand(p) PROVE IInv'
    <2>1. /\ Leaders' = Leaders /\ p \notin Leaders
          /\ enabled' = enabled /\ basis' = basis /\ unseen' = unseen /\ votedFor' = votedFor
          /\ \A q \in Panel : counted'[q] \subseteq counted[q] /\ (q # p => counted'[q] = counted[q])
      BY <1>0, <1>1 DEF Stand, TypeOK, Leaders
    <2>2. HeldAreGiven'
      BY <2>1 DEF IInv, HeldAreGiven, Held
    <2>3. \A q \in Leaders' : Held(q) \subseteq Held(q)' /\ basis'[q] = basis[q]
      BY <2>1 DEF Held, Leaders
    <2> QED
      BY <1>0, <2>1, <2>2, <2>3, QuietStep
  <1>2. ASSUME NEW p \in Panel, Promote(p) PROVE IInv'
    BY <1>0, <1>2, InvPromote
  <1>3. ASSUME NEW p \in Panel, GiveUp(p) PROVE IInv'
    <2>1. /\ Leaders' = Leaders /\ p \notin Leaders
          /\ enabled' = enabled /\ basis' = basis /\ unseen' = unseen /\ votedFor' = votedFor
          /\ \A q \in Panel : counted'[q] \subseteq counted[q] /\ (q # p => counted'[q] = counted[q])
      BY <1>0, <1>3 DEF GiveUp, TypeOK, Leaders
    <2>2. HeldAreGiven'
      BY <2>1 DEF IInv, HeldAreGiven, Held
    <2>3. \A q \in Leaders' : Held(q) \subseteq Held(q)' /\ basis'[q] = basis[q]
      BY <2>1 DEF Held, Leaders
    <2> QED
      BY <1>0, <2>1, <2>2, <2>3, QuietStep
  <1>4. ASSUME NEW p \in Panel, StayInOffice(p) PROVE IInv'
    BY <1>0, <1>4, InvStayInOffice
  <1>5. ASSUME NEW p \in Panel, Fence(p) PROVE IInv'
    <2>1. /\ Leaders' = Leaders \ {p}
          /\ enabled' = enabled /\ votedFor' = votedFor
          /\ \A q \in Panel : /\ counted'[q] \subseteq counted[q] /\ unseen'[q] \subseteq unseen[q]
                              /\ q # p => counted'[q] = counted[q] /\ unseen'[q] = unseen[q] /\ basis'[q] = basis[q]
      BY <1>0, <1>5 DEF Fence, TypeOK, Leaders
    <2>2. HeldAreGiven'
      BY <2>1 DEF IInv, HeldAreGiven, Held
    <2>3. \A q \in Leaders' : Held(q) \subseteq Held(q)' /\ basis'[q] = basis[q]
      BY <2>1 DEF Held, Leaders
    <2> QED
      BY <1>0, <2>1, <2>2, <2>3, QuietStep
  <1>6. ASSUME NEW p \in Panel, NEW q \in Panel, Replicate(p, q) PROVE IInv'
    BY <1>0, <1>6, InvReplicate
  <1>7. ASSUME NEW p \in Panel, NEW v \in Server, Grant(v, p) PROVE IInv'
    <2>1. /\ Leaders' = Leaders
          /\ enabled' = enabled /\ basis' = basis /\ unseen' = unseen
          /\ votedFor' = [votedFor EXCEPT ![v] = p] /\ votedFor[v] \in {None, p}
          /\ counted' = [counted EXCEPT ![p] = @ \cup {v}]
      BY <1>7 DEF Grant, Leaders
    <2>2. HeldAreGiven'
      <3> SUFFICES ASSUME NEW q \in Panel, NEW w \in Held(q)' PROVE votedFor'[w] = q
        BY DEF HeldAreGiven
      <3>1. w \in Held(q) \/ (q = p /\ w = v)
        BY <1>0, <2>1 DEF Held, TypeOK
      <3>2. w \in Held(q) => w \in Server /\ votedFor[w] = q
        BY <1>0 DEF IInv, HeldAreGiven, Held, TypeOK
      <3>3. q # None /\ p # None
        BY ServersAndPanels
      <3> QED
        BY <1>0, <2>1, <3>1, <3>2, <3>3 DEF TypeOK
    <2>3. \A q \in Leaders' : Held(q) \subseteq Held(q)' /\ basis'[q] = basis[q]
      BY <1>0, <2>1 DEF Held, Leaders, TypeOK
    <2> QED
      BY <1>0, <2>1, <2>2, <2>3, QuietStep
  <1>8. ASSUME NEW p \in Panel, NEW v \in Server, Expire(p, v) PROVE IInv'
    <2>1. /\ Leaders' = Leaders
          /\ enabled' = enabled /\ basis' = basis /\ votedFor' = votedFor
          /\ \A q \in Panel : Held(q)' \subseteq Held(q)
          /\ \A q \in Leaders : Held(q) \subseteq Held(q)'
      BY <1>0, <1>8 DEF Expire, Leaders, Held, TypeOK
    <2>2. HeldAreGiven'
      BY <2>1 DEF IInv, HeldAreGiven
    <2> QED
      BY <1>0, <2>1, <2>2, QuietStep
  <1>9. ASSUME NEW p \in Panel, NEW v \in Server, Tell(p, v) PROVE IInv'
    <2>1. /\ Leaders' = Leaders
          /\ enabled' = enabled /\ basis' = basis /\ votedFor' = votedFor
          /\ counted' = counted /\ unseen' = unseen
      BY <1>9 DEF Tell, Leaders
    <2>2. HeldAreGiven' /\ \A q \in Panel : Held(q)' = Held(q)
      BY <2>1 DEF IInv, HeldAreGiven, Held
    <2> QED
      BY <1>0, <2>1, <2>2, QuietStep DEF Leaders
  <1>10. ASSUME NEW v \in Server, Lapse(v) PROVE IInv'
    <2>1. /\ Leaders' = Leaders
          /\ enabled' = enabled /\ basis' = basis /\ counted' = counted /\ unseen' = unseen
          /\ votedFor' = [votedFor EXCEPT ![v] = None]
          /\ v \notin Held(votedFor[v])
      BY <1>10 DEF Lapse, Leaders, Held
    <2>2. \A q \in Panel : Held(q)' = Held(q)
      BY <2>1 DEF Held
    <2>3. HeldAreGiven'
      <3> SUFFICES ASSUME NEW q \in Panel, NEW w \in Held(q) PROVE votedFor'[w] = q
        BY <2>2 DEF HeldAreGiven
      <3>1. votedFor[w] = q /\ w \in Server
        BY <1>0 DEF IInv, HeldAreGiven, Held, TypeOK
      <3>2. w # v
        BY <2>1, <3>1
      <3> QED
        BY <1>0, <2>1, <3>1, <3>2 DEF TypeOK
    <2> QED
      BY <1>0, <2>1, <2>2, <2>3, QuietStep DEF Leaders
  <1>11. ASSUME NEW p \in Panel, NEW s \in Server, Enable(p, s) PROVE IInv'
    <2>1. enabled[p] \cup {s} \in SUBSET Server /\ Change(p, enabled[p] \cup {s})
      BY <1>0, <1>11 DEF Enable, TypeOK
    <2> QED
      BY <1>0, <2>1, NearPlusOne, InvChange
  <1>12. ASSUME NEW p \in Panel, NEW s \in Server, Disable(p, s) PROVE IInv'
    <2>1. enabled[p] \ {s} \in SUBSET Server /\ Change(p, enabled[p] \ {s})
      BY <1>0, <1>12 DEF Disable, TypeOK
    <2> QED
      BY <1>0, <2>1, NearMinusOne, InvChange
  <1>13. CASE UNCHANGED vars
    BY <1>0, <1>13 DEF vars, IInv, HeldAreGiven, LeadersAreBacked, DatabasesAreNear, BasisIsNear, AtMostOneLeader, Leaders, Held
  <1> QED
    BY <1>1, <1>2, <1>3, <1>4, <1>5, <1>6, <1>7, <1>8, <1>9, <1>10, <1>11, <1>12, <1>13 DEF Next

\* While every change of the servers that vote reaches all panel nodes before the next one
\* is made, no two panels are active at once.
THEOREM OneLeaderOneChange == ASSUME OneAtATime PROVE Spec => []AtMostOneLeader
PROOF
  <1>1. Init => IInv
    BY InvInit
  <1>2. IInv /\ [Next]_vars => IInv'
    BY InvStep
  <1>3. IInv => AtMostOneLeader
    BY DEF IInv
  <1> QED
    BY <1>1, <1>2, <1>3, PTL DEF Spec
=============================================================================
