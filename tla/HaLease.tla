------------------------------- MODULE HaLease -------------------------------
(***************************************************************************)
(* The vote protocol of panel failover: the voters of shared/ha-voter.mjs  *)
(* and the voting side of the panel nodes in panel/lib/ha.mjs.             *)
(*                                                                         *)
(* A vote is a lease.  Nobody compares clocks: a voter measures its lease  *)
(* from the moment it grants, a node measures a grant from the moment it   *)
(* built the request.  Both are countdowns here: Tick lets one unit of     *)
(* time pass everywhere, all other actions take no time.                   *)
(*                                                                         *)
(* When a node decides to stand, and which requests a voter declines for   *)
(* reasons other than its vote (the version of the data, a handover under  *)
(* way), is left open here: any follower may stand at any moment, and any  *)
(* request may go unanswered.  So whatever holds here holds for every      *)
(* candidacy rule of maybeCandidate.                                       *)
(***************************************************************************)
EXTENDS Integers, FiniteSets, TLC

CONSTANTS
  Node,         \* the servers that run the panel
  Voter,        \* the enabled servers, one vote each
  None,         \* nobody
  Lease,        \* the lease lengths a node may ask for (failoverSeconds changes)
  Margin,       \* Margin[l]: how much earlier a node stops counting a lease l
  LegacyVoter,  \* voters older than 3.10: they grant LegacyLease, whatever is asked
  LegacyLease,
  EvalEvery,    \* a serving node evaluates its votes at least this often
  RequestLife,  \* a reply to a heartbeat is dropped after this long (requestTimeout)
  GrantLife,    \* a grant reaches the node within this time of its request, or never
  ConfigArmed,  \* what config.ha.armed may say when a node is promoted
  FirstLeader,  \* the panel that runs when failover is turned on, or None
  MaxTerm,      \* bound on terms, for TLC
  MaxInFlight   \* bound on messages in flight, for TLC

ASSUME NodesAndVoters ==
  /\ None \notin Node
  /\ FirstLeader \in Node \cup {None}
  /\ IsFiniteSet(Voter)
  /\ LegacyVoter \subseteq Voter
  /\ ConfigArmed \subseteq BOOLEAN

ASSUME LeasesAndMargins ==
  /\ Lease \subseteq Nat
  /\ LegacyLease \in Nat
  /\ Margin \in [Lease -> Nat]
  /\ EvalEvery \in Nat
  /\ \A l \in Lease : EvalEvery <= Margin[l]
  /\ RequestLife \in Nat
  /\ GrantLife \in Nat

VARIABLES
  voterTerm,    \* state.term of each voter
  votedFor,     \* state.votedFor
  leaseLeft,    \* leaseUntil - now
  leaseLen,     \* the lease length saved with the vote
  role,         \* as in ha.mjs, with "promoting" while onPromote runs
  term,         \* the term a node leads or campaigns in
  seen,         \* maxTermSeen
  armed,        \* config.ha.armed at a node that leads
  lag,          \* time since a node that leads last evaluated its votes
  grants,       \* the grant each node holds from each voter
  msgs          \* requests and grants on their way

voterVars == <<voterTerm, votedFor, leaseLeft, leaseLen>>
nodeVars == <<role, term, seen, armed, lag, grants>>
vars == <<voterVars, nodeVars, msgs>>

-----------------------------------------------------------------------------
(* Grants.  A grant that was never given, or was taken back, has length 0. *)

Lower(a, b) == IF a < b THEN a ELSE b
Higher(a, b) == IF a < b THEN b ELSE a

\* Mutant: time left may become negative.
LessUnfloored(t, a) == t - a

Less(t, a) == IF t > a THEN t - a ELSE 0

Grant == [age : Nat, len : Nat, margin : Nat]
NoGrant == [age |-> 0, len |-> 0, margin |-> 0]
NoGrants == [v \in Voter |-> NoGrant]

\* Mutant: no margin.
CountsToTheEnd(g) == g.len > g.age

\* now < until, where until = nonce + len - margin.
Counts(g) == g.len > g.age + g.margin

Majority == Cardinality(Voter) \div 2 + 1

HasMajority(held) == Cardinality({v \in Voter : Counts(held[v])}) >= Majority

Request == [kind : {"request"}, node : Node, voter : Voter, term : Nat, age : Nat, lease : Lease]
GrantMsg == [kind : {"grant"}, node : Node, voter : Voter, term : Nat, age : Nat, lease : Lease, given : Nat]

Serving(n) == role[n] \in {"leader", "promoting"}
Campaigning(n) == role[n] = "candidate"

-----------------------------------------------------------------------------
(* The voter.                                                              *)

\* The lease a voter gives for a request (grantLease).
Given(v, l) == IF v \in LegacyVoter THEN LegacyLease ELSE l

\* Mutant: a newer term overrides a live lease, as it would in Raft.
RefusesUnlessNewerTerm(v, n, t) ==
  \/ t < voterTerm[v]
  \/ t = voterTerm[v] /\ votedFor[v] # n /\ leaseLeft[v] > 0

Refuses(v, n, t) ==
  \/ t < voterTerm[v]
  \/ votedFor[v] # n /\ leaseLeft[v] > 0

\* handleReply: the vote is saved, then the grant is sent.
AnswerRequest(m) ==
  LET v == m.voter
      given == Given(v, m.lease)
  IN
    /\ m.kind = "request"
    /\ ~Refuses(v, m.node, m.term)
    /\ voterTerm' = [voterTerm EXCEPT ![v] = m.term]
    /\ votedFor' = [votedFor EXCEPT ![v] = m.node]
    /\ leaseLeft' = [leaseLeft EXCEPT ![v] = Higher(@, given)]
    /\ leaseLen' = [leaseLen EXCEPT ![v] = Higher(leaseLeft[v], given)]
    /\ msgs' = (msgs \ {m}) \cup
         {[kind |-> "grant", node |-> m.node, voter |-> v, term |-> m.term,
           age |-> m.age, lease |-> m.lease, given |-> given]}
    /\ UNCHANGED nodeVars

\* Mutant: a restarted voter trusts that its lease ran out while it was down.
RestartVoterFree(v) ==
  /\ leaseLeft' = [leaseLeft EXCEPT ![v] = 0]
  /\ msgs' = {m \in msgs : ~(m.voter = v /\ m.kind = "request")}
  /\ UNCHANGED <<voterTerm, votedFor, leaseLen, nodeVars>>

\* createVoter: the vote comes back from disk, and its lease is live for its full
\* length again; replies to the old process are lost.
RestartVoter(v) ==
  /\ leaseLeft' = [leaseLeft EXCEPT ![v] = leaseLen[v]]
  /\ msgs' = {m \in msgs : ~(m.voter = v /\ m.kind = "request")}
  /\ UNCHANGED <<voterTerm, votedFor, leaseLen, nodeVars>>

-----------------------------------------------------------------------------
(* The node.                                                               *)

\* Exit 75 or a crash: the process boots as a standby (a process that is down is
\* a standby nobody hears from).  Its own terms are on disk; a term it heard from
\* a voter is saved a little later (saveLocalSoon) and may be lost.
Restarts(n) ==
  /\ role' = [role EXCEPT ![n] = "follower"]
  /\ \E saved \in term[n] .. seen[n] :
       /\ term' = [term EXCEPT ![n] = saved]
       /\ seen' = [seen EXCEPT ![n] = saved]
  /\ armed' = [armed EXCEPT ![n] = FALSE]
  /\ grants' = [grants EXCEPT ![n] = NoGrants]

\* evaluate and the functions it calls, for a node that has just taken note of a
\* voter's term `heard` and now holds the grants `held`.
Elected(n, heard, held) ==
  /\ Campaigning(n)
  /\ HasMajority(held)
  /\ role' = [role EXCEPT ![n] = "promoting"]
  /\ seen' = [seen EXCEPT ![n] = heard]
  /\ grants' = [grants EXCEPT ![n] = held]
  /\ UNCHANGED <<term, armed>>

StaysInOffice(n, heard, held) ==
  /\ Serving(n)
  /\ HasMajority(held) \/ (role[n] = "leader" /\ ~armed[n])
  /\ armed' = [armed EXCEPT ![n] = role[n] = "leader" /\ (@ \/ HasMajority(held))]
  /\ seen' = [seen EXCEPT ![n] = heard]
  /\ grants' = [grants EXCEPT ![n] = held]
  /\ UNCHANGED <<role, term>>

Fences(n, held) ==
  /\ Serving(n)
  /\ ~HasMajority(held)
  /\ armed[n] \/ role[n] = "promoting"
  /\ Restarts(n)

\* otherLease, a state from the leader, or the end of the candidacy.
GivesUp(n, heard, held) ==
  /\ Campaigning(n)
  /\ ~HasMajority(held)
  /\ role' = [role EXCEPT ![n] = "follower"]
  /\ seen' = [seen EXCEPT ![n] = heard]
  /\ grants' = [grants EXCEPT ![n] = NoGrants]
  /\ UNCHANGED <<term, armed>>

StaysOutOfOffice(n, heard, held) ==
  /\ role[n] \in {"follower", "candidate"}
  /\ ~(Campaigning(n) /\ HasMajority(held))
  /\ seen' = [seen EXCEPT ![n] = heard]
  /\ grants' = [grants EXCEPT ![n] = held]
  /\ UNCHANGED <<role, term, armed>>

\* becomeCandidate: the new term is on disk before anyone is asked for it.
Stands(n, heard) ==
  /\ role[n] = "follower"
  /\ heard < MaxTerm
  /\ role' = [role EXCEPT ![n] = "candidate"]
  /\ term' = [term EXCEPT ![n] = heard + 1]
  /\ seen' = [seen EXCEPT ![n] = heard + 1]
  /\ grants' = [grants EXCEPT ![n] = NoGrants]
  /\ UNCHANGED armed

Evaluate(n, heard, held) ==
  /\ lag' = [lag EXCEPT ![n] = 0]
  /\ \/ Elected(n, heard, held)
     \/ StaysInOffice(n, heard, held)
     \/ Fences(n, held)
     \/ GivesUp(n, heard, held)
     \/ StaysOutOfOffice(n, heard, held)
     \/ Stands(n, heard)

\* The 250 ms timer.
TickEvaluate(n) ==
  /\ Evaluate(n, seen[n], grants[n])
  /\ UNCHANGED <<voterVars, msgs>>

\* A voter that moved on takes its grant with it.
Kept(n, v, t, for) ==
  IF t > term[n] \/ for \notin {None, n} THEN [grants[n] EXCEPT ![v] = NoGrant] ELSE grants[n]

\* handleVote without a grant: after evaluate, a node that leads or campaigns asks
\* the voter for its vote in the reply (buildVoteReply).  A voter sends the next
\* heartbeat to a node after the last one was answered or timed out.
Heartbeat(v, n) ==
  /\ \A m \in msgs : ~(m.kind = "request" /\ m.voter = v /\ m.node = n)
  /\ Evaluate(n, Higher(seen[n], voterTerm[v]), Kept(n, v, voterTerm[v], votedFor[v]))
  /\ \/ UNCHANGED msgs
     \/ /\ role'[n] \in {"leader", "candidate"}
        /\ Cardinality(msgs) < MaxInFlight
        /\ \E l \in Lease :
             msgs' = msgs \cup {[kind |-> "request", node |-> n, voter |-> v,
                                 term |-> term'[n], age |-> 0, lease |-> l]}
  /\ UNCHANGED voterVars

\* validIssued: the request is one of ours, of this term, and could still count.
Fits(n, m) ==
  /\ role[n] \in {"leader", "candidate", "promoting"}
  /\ m.term = term[n]
  /\ m.age + Margin[m.lease] < m.lease

\* A newer request's grant replaces an older one's; grantUntil counts the shorter
\* of the lease asked for and the lease given.
Recorded(n, m) ==
  LET held == Kept(n, m.voter, m.term, m.node)
      new == [age |-> m.age, len |-> Lower(m.given, m.lease), margin |-> Margin[m.lease]]
      old == held[m.voter]
  IN  IF Fits(n, m) /\ (old = NoGrant \/ new.age < old.age)
      THEN [held EXCEPT ![m.voter] = new]
      ELSE held

\* handleVote with a grant; its reply carries no request.
TakeGrant(m) ==
  /\ m.kind = "grant"
  /\ Evaluate(m.node, Higher(seen[m.node], m.term), Recorded(m.node, m))
  /\ msgs' = msgs \ {m}
  /\ UNCHANGED voterVars

\* Mutant: the reloaded config.ha.armed is ignored.
PromotionDoneUnarmed(n) ==
  /\ role[n] = "promoting"
  /\ role' = [role EXCEPT ![n] = "leader"]
  /\ armed' = [armed EXCEPT ![n] = HasMajority(grants[n])]
  /\ UNCHANGED <<term, seen, lag, grants, voterVars, msgs>>

\* promote after onPromote: the reloaded config says whether the panel is armed,
\* and a majority held at this moment arms it.
PromotionDone(n) ==
  /\ role[n] = "promoting"
  /\ role' = [role EXCEPT ![n] = "leader"]
  /\ \E a \in ConfigArmed : armed' = [armed EXCEPT ![n] = a \/ HasMajority(grants[n])]
  /\ UNCHANGED <<term, seen, lag, grants, voterVars, msgs>>

\* A crash, a failed promotion, the last step of a handover, an update.
Stop(n) ==
  /\ Restarts(n)
  /\ lag' = [lag EXCEPT ![n] = 0]
  /\ UNCHANGED <<voterVars, msgs>>

-----------------------------------------------------------------------------
(* Time.                                                                   *)

Older(x) == [x EXCEPT !.age = @ + 1]

Alive(m) == IF m.kind = "request" THEN m.age < RequestLife ELSE m.age < GrantLife

\* Past its length a grant neither counts nor keeps a fresher one out.
Aged(g) == IF g.age + 1 < g.len THEN Older(g) ELSE NoGrant

Tick ==
  /\ \A n \in Node : Serving(n) => lag[n] < EvalEvery
  /\ leaseLeft' = [v \in Voter |-> Less(leaseLeft[v], 1)]
  /\ lag' = [n \in Node |-> IF Serving(n) THEN lag[n] + 1 ELSE 0]
  /\ grants' = [n \in Node |-> [v \in Voter |-> Aged(grants[n][v])]]
  /\ msgs' = {Older(m) : m \in {x \in msgs : Alive(x)}}
  /\ UNCHANGED <<voterTerm, votedFor, leaseLen, role, term, seen, armed>>

-----------------------------------------------------------------------------

\* Failover is turned on: the running panel, if any, leads in term 1 without a
\* vote (ensureHaLeading); the voters have never voted, and have just started.
Init ==
  /\ voterTerm = [v \in Voter |-> 0]
  /\ votedFor = [v \in Voter |-> None]
  /\ leaseLeft = [v \in Voter |-> LegacyLease]
  /\ leaseLen = [v \in Voter |-> LegacyLease]
  /\ role = [n \in Node |-> IF n = FirstLeader THEN "leader" ELSE "follower"]
  /\ term = [n \in Node |-> IF n = FirstLeader THEN 1 ELSE 0]
  /\ seen = term
  /\ armed = [n \in Node |-> FALSE]
  /\ lag = [n \in Node |-> 0]
  /\ grants = [n \in Node |-> NoGrants]
  /\ msgs = {}

Next ==
  \/ \E m \in msgs : AnswerRequest(m) \/ TakeGrant(m)
  \/ \E v \in Voter : RestartVoter(v)
  \/ \E v \in Voter, n \in Node : Heartbeat(v, n)
  \/ \E n \in Node : TickEvaluate(n) \/ PromotionDone(n) \/ Stop(n)
  \/ Tick

Spec == Init /\ [][Next]_vars

-----------------------------------------------------------------------------
(* Properties.                                                             *)

VotersTyped ==
  /\ voterTerm \in [Voter -> Nat]
  /\ votedFor \in [Voter -> Node \cup {None}]
  /\ leaseLeft \in [Voter -> Nat]
  /\ leaseLen \in [Voter -> Nat]

NodesTyped ==
  /\ role \in [Node -> {"follower", "candidate", "promoting", "leader"}]
  /\ term \in [Node -> Nat]
  /\ seen \in [Node -> Nat]
  /\ armed \in [Node -> BOOLEAN]
  /\ lag \in [Node -> 0 .. EvalEvery]
  /\ grants \in [Node -> [Voter -> Grant]]

\* The variables have their types; no countdown of voter or node runs below zero.
TypeOK == VotersTyped /\ NodesTyped /\ msgs \subseteq Request \cup GrantMsg

\* A panel in office on the strength of votes: it was elected, or armed itself.
Backed(n) == role[n] = "promoting" \/ (role[n] = "leader" /\ armed[n])

\* ha.mjs rules 1-5: two panels are never in office at once.
AtMostOneLeader == \A m, n \in Node : Backed(m) /\ Backed(n) => m = n

\* ha.mjs rule 2: while a node counts a grant, the voter still holds its vote for
\* that node, and will for at least the margin under which the node counts.
CountedVoteIsHeld ==
  \A n \in Node, v \in Voter :
    LET g == grants[n][v]
    IN  Counts(g) => votedFor[v] = n /\ leaseLeft[v] >= g.len - g.age

\* ha.mjs rule 3: between two evaluations, up to the last moment before the next
\* one, a majority of the voters still holds its lease for the panel in office,
\* whatever the panel itself believes.
OfficeRestsOnLiveLeases ==
  \A n \in Node :
    Backed(n) => Cardinality({v \in Voter : votedFor[v] = n /\ leaseLeft[v] > 0}) >= Majority

\* docs/HA.md, Demotion: "It never keeps serving writes without a lease."  A
\* panel in office is backed, but for the one that runs when failover is turned on, in
\* the term it gave itself.
NeverServesUnbacked == \A n \in Node : Serving(n) => Backed(n) \/ (n = FirstLeader /\ term[n] = 1)

InOffice == IF \E n \in Node : Backed(n) THEN CHOOSE n \in Node : Backed(n) ELSE None

Panel == INSTANCE PanelLeadership WITH active <- InOffice

\* The protocol implements the promise: office passes through a vacancy.
ImplementsPanelLeadership == Panel!Spec

-----------------------------------------------------------------------------
(* What the run gives TLC.                                                 *)

MarginOfOne == [l \in Lease |-> 1]
VotersSymmetric == Permutations(Voter)
=============================================================================
