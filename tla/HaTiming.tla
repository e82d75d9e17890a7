------------------------------ MODULE HaTiming ------------------------------
(***************************************************************************)
(* The failover timing of shared/ha-timing.mjs: every duration of the      *)
(* panel's leader election is derived from one cluster-wide setting, the   *)
(* target number of seconds for a failover.  The arithmetic is exact: the  *)
(* source rounds to 100 ms with floating point, and the integer formulas   *)
(* below give the same value for every setting from 10 to 300.             *)
(*                                                                         *)
(* The state is what can disagree while the setting is changed under a     *)
(* running leader: the setting in force, and the setting that was in force *)
(* when the leader built the requests behind the grants it counts now.     *)
(***************************************************************************)
EXTENDS Integers

CONSTANTS
  Settings,     \* the values an operator may ask for, valid or not
  Unset         \* no failoverSeconds in config.json

VARIABLES
  stored,       \* config.ha.failoverSeconds at the leader
  issuedUnder   \* the setting behind the grants the leader counts now

vars == <<stored, issuedUnder>>

-----------------------------------------------------------------------------
(* Limits, in milliseconds.                                                *)

SecondsMin == 10
SecondsMax == 300
SecondsDefault == 15
LegacyLeaseMs == 15000
LeaseBounds == [min |-> 3000, max |-> 180000]
HeartbeatBounds == [min |-> 1000, max |-> 5000]

\* The leader checks its votes once per tick of ha.mjs.
TickMs == 250

Lower(a, b) == IF a < b THEN a ELSE b
Higher(a, b) == IF a < b THEN b ELSE a
Clamp(n, lo, hi) == Lower(hi, Higher(lo, n))

\* num / den rounded to a whole number of hundreds.
RoundHundreds(num, den) == 100 * ((num + 50 * den) \div (100 * den))

-----------------------------------------------------------------------------
(* The setting: a whole number of seconds in range, else the default.      *)

ValidSeconds(s) == s # Unset /\ s \in SecondsMin .. SecondsMax

\* Mutant: a missing setting counts as zero.
SecondsAsStored(s) == IF s = Unset THEN 0 ELSE s

EffectiveSeconds(s) == IF ValidSeconds(s) THEN s ELSE SecondsDefault

HeartbeatMs(s) ==
  Clamp(RoundHundreds(1000 * s, 15), HeartbeatBounds.min, HeartbeatBounds.max)

LeaseMs(s) == Clamp(RoundHundreds(450 * s, 1), LeaseBounds.min, LeaseBounds.max)

\* Mutant: half of the lease is margin.
MarginHalf(s) == Higher(1000, RoundHundreds(LeaseMs(s), 2))

MarginMs(s) == Higher(1000, RoundHundreds(LeaseMs(s), 5))

\* Mutant: the database's window does not follow the setting.
DetectFixed(s) == 10000

DetectMs(s) == Higher(3000, RoundHundreds(1000 * s, 3))

\* Mutant: a long poll may take up to thirty seconds, as the leader allows.
PollWaitUpToThirty(F) == Clamp(F \div 1000, 1, 30)

\* A follower's long poll, for a silence window of F.
PollWaitSeconds(F) == Clamp(F \div 2500, 1, 5)

\* Mutant: the hooks may use the whole margin.
FenceHooksFillMargin(M) == Clamp(M, 750, 3000)

\* What the hooks of a fence may take, all together, for a margin of M.
FenceHooksMs(M) == Clamp(M - 250, 750, 3000)

HaTimings(raw) ==
  LET s == EffectiveSeconds(raw)
      H == HeartbeatMs(s)
      L == LeaseMs(s)
      M == MarginMs(s)
      D == DetectMs(s)
      tieBreak == Lower(3000, H \div 2)
      probe == Higher(500, H \div 2)
      takeover == L + H + tieBreak + 500
  IN  [ failoverSeconds |-> s,
        heartbeat       |-> H,
        lease           |-> L,
        margin          |-> M,
        failover        |-> L - H,
        requestTimeout  |-> Lower(2500, (9 * H) \div 10),
        pollWaitSeconds |-> PollWaitSeconds(L - H),
        voterFresh      |-> 2 * H + 2000,
        tieBreak        |-> tieBreak,
        candidacy       |-> Higher(10000, L + 2 * H),
        fenceHooks      |-> FenceHooksMs(M),
        dbSilent        |-> 3 * H,
        dbProbe         |-> probe,
        dbTcpTimeout    |-> Clamp((8 * H) \div 10, 800, 3000),
        detect          |-> D,
        takeover        |-> takeover,
        dbFailover      |-> Higher(takeover, D) + 2 * probe + 700 + 1500,
        blip            |-> Higher(0, Lower(L - M - 2 * H, D)) ]

\* A lease length a voter is told about; an absent one is the legacy length.
CleanLeaseMs(ms) ==
  IF ms = Unset THEN LegacyLeaseMs
  ELSE IF ms <= 0 THEN LegacyLeaseMs
  ELSE Clamp(ms, LeaseBounds.min, LeaseBounds.max)

-----------------------------------------------------------------------------
(* Derived once for every setting: TLC evaluates the table a single time.  *)

Table == [s \in Settings |-> HaTimings(s)]

Now == Table[stored]
Then == Table[issuedUnder]

\* Mutant: the lease the leader asked for is counted, whatever the voter gave.
CountedAsAsked(t, voterLease) == t.lease - t.margin

\* How long after its request a leader counts a grant of `voterLease`, when it
\* asked under the timings t (grantUntil).
CountedMs(t, voterLease) == Lower(CleanLeaseMs(voterLease), t.lease) - t.margin

Init ==
  /\ stored \in Settings
  /\ issuedUnder = stored

\* PATCH /api/ha/settings: an invalid value is refused with 400.
SaveSettings(s) ==
  /\ ValidSeconds(s)
  /\ stored' = s
  /\ UNCHANGED issuedUnder

\* The requests of the next heartbeats are built under the setting in force.
Renew ==
  /\ issuedUnder # stored
  /\ issuedUnder' = stored
  /\ UNCHANGED stored

Next == (\E s \in Settings : SaveSettings(s)) \/ Renew

Spec == Init /\ [][Next]_vars

-----------------------------------------------------------------------------
(* Properties.                                                             *)

\* The variables hold settings, and every duration is a positive number.
TypeOK ==
  /\ stored \in Settings
  /\ issuedUnder \in Settings
  /\ \A f \in DOMAIN Now : Now[f] \in Nat \ {0}

\* haTimings: a leader that renews every heartbeat can miss one whole round and
\* the request timeout of the next, and still holds its votes.
RenewalRoom ==
  /\ Now.requestTimeout < Now.heartbeat
  /\ Now.lease - Now.margin >= 2 * Now.heartbeat + 500

\* haTimings against pullOnce and maybeCandidate: a follower's long poll plus a
\* second of transit ends before its silence window does, so an idle leader is
\* never mistaken for a dead one.
PollInsideSilence ==
  /\ Now.failover > 0
  /\ 1000 * Now.pollWaitSeconds + 1000 < Now.failover

\* haTimings against evaluate and grantUntil: when the last vote of a majority
\* runs out at the leader, the next tick still finds the voters' leases live,
\* whatever lease the voter echoes and whatever the setting was at the request.
TickInsideMargin ==
  \A lease \in {Unset, 1000, 3000, Then.lease, 999999} :
    CountedMs(Then, lease) + TickMs < CleanLeaseMs(lease)

\* haTimings: the advertised worst case fits the target the operator set, and a
\* short blip between servers moves neither the panel nor the database.
BudgetMet ==
  /\ Now.dbFailover <= 1000 * Now.failoverSeconds
  /\ Now.blip > 0
  /\ Now.detect >= Now.dbSilent

\* ha.mjs fence against haTimings, while the setting does not change: the
\* hooks that run after the decision to fence (MySQL read-only) end, a late
\* tick included, before the voters may elect anyone else.
FenceHooksInsideLease ==
  issuedUnder = stored => TickMs + Now.fenceHooks <= Now.margin

\* The same promise as ha.mjs:740-742 makes it, without the condition: "the
\* lease runs out a margin after we fence".
FenceHooksNeverOutliveLease == TickMs + Now.fenceHooks <= Then.margin
=============================================================================
