--------------------------- MODULE JobQueueProofs ---------------------------
(***************************************************************************)
(* Proofs about the job queue, for any jobs, servers, locks and limits.    *)
(*                                                                         *)
(* _pump is a loop over the queue.  TurnOK is its invariant; the turns are *)
(* a recursive function, so that it holds after each of them is proved     *)
(* from the least number of turns after which it would not (NatMin).       *)
(* Every operation then has to show that what it hands to _pump agrees     *)
(* with the records (Agrees).                                              *)
(***************************************************************************)
EXTENDS JobQueue, TLAPS, FiniteSetTheorems

-----------------------------------------------------------------------------
(* Numbers and recursion.                                                  *)

\* Among finite sets there is one with no other inside it.
LEMMA SetMin ==
  ASSUME NEW C, C # {}, \A s \in C : IsFiniteSet(s)
  PROVE  \E m \in C : \A n \in C : n \subseteq m => n = m
<1> DEFINE U == UNION C  R == StrictSubsetOrdering(U)
<1>1. IsWellFoundedOn(R, FiniteSubsetsOf(U))
  BY FS_StrictSubsetOrderingWellFounded
<1>2. C \subseteq FiniteSubsetsOf(U)  BY DEF FiniteSubsetsOf
<1>3. \E x \in C : \A y \in C : ~ (<<y, x>> \in R)
  <2> HIDE DEF R
  <2> QED  BY <1>1, <1>2, WFMin
<1>4. \A x, y \in C : y \subseteq x /\ y # x => <<y, x>> \in R
  BY DEF StrictSubsetOrdering
<1> HIDE DEF R
<1> QED  BY <1>3, <1>4

\* A set of numbers has a least one.
LEMMA NatMin ==
  ASSUME NEW T, T \subseteq Nat, T # {}
  PROVE  \E m \in T : \A n \in T : m <= n
<1> DEFINE C == {0 .. k : k \in T}
<1>1. C # {}  OBVIOUS
<1>2. \A s \in C : IsFiniteSet(s)  BY FS_Interval
<1>3. PICK s \in C : \A n \in C : n \subseteq s => n = s
  <2> HIDE DEF C
  <2> QED  BY <1>1, <1>2, SetMin
<1>4. PICK m \in T : s = 0 .. m  OBVIOUS
<1>5. ASSUME NEW n \in T  PROVE m <= n
  <2>1. 0 .. n \subseteq 0 .. m => 0 .. n = 0 .. m  BY <1>3, <1>4
  <2>2. n < m => 0 .. n \subseteq 0 .. m /\ m \in 0 .. m /\ m \notin 0 .. n  OBVIOUS
  <2> QED  BY <2>1, <2>2
<1> QED  BY <1>5

\* What holds at 0 and goes from each number below n to the next holds up to n.
LEMMA UpTo ==
  ASSUME NEW n \in Nat, NEW T, 0 \in T, \A k \in 1 .. n : k - 1 \in T => k \in T
  PROVE  0 .. n \subseteq T
<1> DEFINE Missed == {k \in 0 .. n : k \notin T}
<1>1. SUFFICES ASSUME Missed # {}  PROVE FALSE  OBVIOUS
<1>2. PICK m \in Missed : \A k \in Missed : m <= k
  <2>1. Missed \subseteq Nat  OBVIOUS
  <2> HIDE DEF Missed
  <2> QED  BY <1>1, <2>1, NatMin
<1>3. m \in 1 .. n /\ m - 1 \in 0 .. n  OBVIOUS
<1>4. m - 1 \notin Missed  BY <1>2, <1>3
<1> QED  BY <1>3, <1>4

\* A least and a greatest place among places in a sequence.
LEMMA MinOfPlaces ==
  ASSUME NEW T, T \subseteq Nat, T # {}
  PROVE  Min(T) \in T /\ \A i \in T : Min(T) <= i
BY NatMin DEF Min

LEMMA MaxOfPlaces ==
  ASSUME NEW n \in Nat, NEW T, T \subseteq 1 .. n, T # {}
  PROVE  Max(T) \in T /\ \A i \in T : i <= Max(T)
<1> DEFINE R == {n - i : i \in T}
<1>1. R \subseteq Nat /\ R # {}
  <2>1. \A i \in T : n - i \in Nat  OBVIOUS
  <2> QED  BY <2>1
<1>2. PICK r \in R : \A q \in R : r <= q
  <2> HIDE DEF R
  <2> QED  BY <1>1, NatMin
<1>3. PICK m \in T : r = n - m  OBVIOUS
<1>4. \A i \in T : i <= m
  <2> TAKE i \in T
  <2>1. n - m <= n - i  BY <1>2, <1>3
  <2> QED  BY <2>1
<1> QED  BY <1>4 DEF Max

\* f says what each step leaves.
Takes(A, b, n, step, f) ==
  f \in [0 .. n -> A] /\ f[0] = b /\ \A k \in 1 .. n : f[k] = step[k][f[k - 1]]

\* A sequence of steps can be taken.
LEMMA StepsCanBeTaken ==
  ASSUME NEW A, NEW b \in A, NEW n \in Nat, NEW step \in [1 .. n -> [A -> A]]
  PROVE  \E f : Takes(A, b, n, step, f)
<1> USE DEF Takes
<1> DEFINE P(m) == \E f : Takes(A, b, m, step, f)
           T == {m \in 0 .. n : P(m)}
<1>1. 0 \in T
  <2>1. P(0)
    <3> DEFINE f == [k \in 0 .. 0 |-> b]
    <3>1. f \in [0 .. 0 -> A] /\ f[0] = b /\ 1 .. 0 = {}  OBVIOUS
    <3> QED  BY <3>1
  <2> QED  BY <2>1
<1>2. ASSUME NEW m \in 1 .. n, m - 1 \in T  PROVE m \in T
  <2>1. PICK f : Takes(A, b, m - 1, step, f)  BY <1>2
  <2> DEFINE g == [k \in 0 .. m |-> IF k = m THEN step[m][f[m - 1]] ELSE f[k]]
  <2>2. f[m - 1] \in A /\ step[m] \in [A -> A]  BY <2>1
  <2>3. \A k \in 0 .. m - 1 : g[k] = f[k]  OBVIOUS
  <2>4. g[m] = step[m][f[m - 1]] /\ g[m] \in A  BY <2>2
  <2>5. g \in [0 .. m -> A]
    <3>1. \A k \in 0 .. m : g[k] \in A
      <4> TAKE k \in 0 .. m
      <4>1. k = m \/ k \in 0 .. m - 1  OBVIOUS
      <4> QED  BY <2>1, <2>3, <2>4, <4>1
    <3> QED  BY <3>1
  <2>6. g[0] = b  BY <2>1, <2>3
  <2>7. ASSUME NEW k \in 1 .. m  PROVE g[k] = step[k][g[k - 1]]
    <3>1. CASE k = m  BY <2>3, <2>4, <3>1
    <3>2. CASE k \in 1 .. m - 1
      <4>1. k - 1 \in 0 .. m - 1  OBVIOUS
      <4> QED  BY <2>1, <2>3, <3>2, <4>1
    <3> QED  BY <3>1, <3>2
  <2>8. P(m)
    <3> HIDE DEF g
    <3> QED  BY <2>5, <2>6, <2>7
  <2>9. m \in 0 .. n  OBVIOUS
  <2> HIDE DEF P
  <2> QED  BY <2>8, <2>9
<1>3. 0 .. n \subseteq T
  <2> HIDE DEF T
  <2> QED  BY <1>1, <1>2, UpTo
<1> QED  BY <1>3
-----------------------------------------------------------------------------
(* The loop of _pump.                                                      *)

\* What the constants and the records are.
GoodRecords(rec) ==
  /\ None \notin Lock \cup Job
  /\ rec \in [Job -> Records]
  /\ \A j \in Job : /\ rec[j].owner => rec[j].lock # None
                    /\ rec[j].claims => rec[j].servers # {}

\* What a turn hands to the next.
Hands == [owner : [Lock -> Job \cup {None}], slots : SUBSET Job, left : Seq(Job),
          locks : SUBSET Lock, servers : SUBSET Server]

LEMMA AppendParts ==
  ASSUME NEW S, NEW s \in Seq(S), NEW e \in S
  PROVE  /\ Append(s, e) \in Seq(S)
         /\ DOMAIN s = 1 .. Len(s) /\ Len(s) \in Nat
         /\ Len(Append(s, e)) = Len(s) + 1
         /\ DOMAIN Append(s, e) = 1 .. Len(s) + 1
         /\ \A i \in 1 .. Len(s) : Append(s, e)[i] = s[i] /\ s[i] \in S
         /\ Append(s, e)[Len(s) + 1] = e
         /\ ToSet(Append(s, e)) = ToSet(s) \cup {e}
<1>1. Append(s, e) \in Seq(S) /\ DOMAIN s = 1 .. Len(s) /\ Len(s) \in Nat  OBVIOUS
<1>2. Len(Append(s, e)) = Len(s) + 1 /\ DOMAIN Append(s, e) = 1 .. Len(s) + 1  OBVIOUS
<1>3. \A i \in 1 .. Len(s) : Append(s, e)[i] = s[i] /\ s[i] \in S  OBVIOUS
<1>4. Append(s, e)[Len(s) + 1] = e  OBVIOUS
<1>5. ToSet(Append(s, e)) = ToSet(s) \cup {e}
  <2>1. Len(s) + 1 \in 1 .. Len(s) + 1 /\ \A i \in 1 .. Len(s) : i \in 1 .. Len(s) + 1  BY <1>1
  <2>2. \A i \in 1 .. Len(s) + 1 : i \in 1 .. Len(s) \/ i = Len(s) + 1  BY <1>1
  <2>3. ASSUME NEW x \in ToSet(s)  PROVE x \in ToSet(Append(s, e))
    <3>1. PICK i \in 1 .. Len(s) : x = s[i]  BY <1>1 DEF ToSet
    <3> QED  BY <3>1, <1>2, <1>3, <2>1 DEF ToSet
  <2>4. e \in ToSet(Append(s, e))  BY <1>2, <1>4, <2>1 DEF ToSet
  <2>5. ASSUME NEW x \in ToSet(Append(s, e))  PROVE x \in ToSet(s) \cup {e}
    <3>1. PICK i \in 1 .. Len(s) + 1 : x = Append(s, e)[i]  BY <1>2 DEF ToSet
    <3> QED  BY <3>1, <1>1, <1>3, <1>4, <2>2 DEF ToSet
  <2> QED  BY <2>3, <2>4, <2>5
<1> QED  BY <1>1, <1>2, <1>3, <1>4, <1>5

LEMMA RecordParts ==
  ASSUME NEW rec, GoodRecords(rec), NEW j \in Job
  PROVE  /\ rec[j] \in Records
         /\ rec[j].lock \in Lock \cup {None} /\ rec[j].servers \subseteq Server
         /\ rec[j].owner \in BOOLEAN /\ rec[j].claims \in BOOLEAN /\ rec[j].held \subseteq Lock
         /\ rec[j].root \in Job \cup {None} /\ rec[j].parent \in Job \cup {None}
         /\ rec[j].owner => rec[j].lock \in Lock
         /\ rec[j].claims => rec[j].servers # {}
<1>1. rec[j] \in Records  BY DEF GoodRecords
<1>2. /\ rec[j].lock \in Lock \cup {None} /\ rec[j].servers \subseteq Server
      /\ rec[j].owner \in BOOLEAN /\ rec[j].claims \in BOOLEAN /\ rec[j].held \subseteq Lock
      /\ rec[j].root \in Job \cup {None} /\ rec[j].parent \in Job \cup {None}
  BY <1>1 DEF Records
<1>3. rec[j].owner => rec[j].lock # None  BY DEF GoodRecords
<1>4. rec[j].claims => rec[j].servers # {}  BY DEF GoodRecords
<1> QED  BY <1>1, <1>2, <1>3, <1>4

MayBegin(acc, rec, j, lim) == LockFree(acc, rec[j]) /\ SlotsFree(acc, rec, rec[j], lim)

\* What a turn makes of what it was handed, when the job begins and when it stays.
Began(rec, j, acc, new) ==
  /\ new \in Hands
  /\ new.left = acc.left /\ new.locks = acc.locks /\ new.servers = acc.servers
  /\ new.owner = IF rec[j].owner THEN [acc.owner EXCEPT ![rec[j].lock] = j] ELSE acc.owner
  /\ new.slots = IF rec[j].claims THEN acc.slots \cup {j} ELSE acc.slots
Stayed(rec, j, acc, lim, new) ==
  /\ new \in Hands
  /\ new.owner = acc.owner /\ new.slots = acc.slots
  /\ new.left = Append(acc.left, j)
  /\ new.locks = IF rec[j].owner THEN acc.locks \cup {rec[j].lock} ELSE acc.locks
  /\ new.servers = IF rec[j].claims /\ ~SlotsFree(acc, rec, rec[j], lim)
                   THEN acc.servers \cup rec[j].servers ELSE acc.servers

LEMMA BeginParts ==
  ASSUME NEW rec, GoodRecords(rec), NEW j \in Job, NEW lim, NEW acc \in Hands, MayBegin(acc, rec, j, lim),
         NEW new, new = Admit(acc, rec, j, lim)
  PROVE  Began(rec, j, acc, new)
<1> DEFINE o == IF rec[j].owner THEN [acc.owner EXCEPT ![rec[j].lock] = j] ELSE acc.owner
           s == IF rec[j].claims THEN acc.slots \cup {j} ELSE acc.slots
<1>1. new = [acc EXCEPT !.owner = o, !.slots = s]
  BY DEF Admit, MayBegin, Begun
<1>2. rec[j].servers \subseteq Server /\ (rec[j].owner => rec[j].lock \in Lock)  BY RecordParts
<1>3. o \in [Lock -> Job \cup {None}]  BY <1>2 DEF Hands
<1>4. s \in SUBSET Job  BY DEF Hands
<1> HIDE DEF o, s
<1>5. /\ new \in Hands /\ new.left = acc.left /\ new.locks = acc.locks /\ new.servers = acc.servers
      /\ new.owner = o /\ new.slots = s
  BY <1>1, <1>3, <1>4 DEF Hands
<1> QED  BY <1>5 DEF o, s, Began

LEMMA StayParts ==
  ASSUME NEW rec, GoodRecords(rec), NEW j \in Job, NEW lim, NEW acc \in Hands, ~MayBegin(acc, rec, j, lim),
         NEW new, new = Admit(acc, rec, j, lim)
  PROVE  Stayed(rec, j, acc, lim, new)
<1> DEFINE k == IF rec[j].owner THEN acc.locks \cup {rec[j].lock} ELSE acc.locks
           s == IF rec[j].claims /\ ~SlotsFree(acc, rec, rec[j], lim)
                THEN acc.servers \cup rec[j].servers ELSE acc.servers
<1>1. new = [acc EXCEPT !.left = Append(@, j), !.locks = k, !.servers = s]
  BY DEF Admit, MayBegin
<1>2. rec[j].servers \subseteq Server /\ (rec[j].owner => rec[j].lock \in Lock)  BY RecordParts
<1>3. k \in SUBSET Lock  BY <1>2 DEF Hands
<1>4. s \in SUBSET Server  BY <1>2 DEF Hands
<1>5. Append(acc.left, j) \in Seq(Job)  BY DEF Hands
<1> HIDE DEF k, s
<1>6. /\ new \in Hands /\ new.owner = acc.owner /\ new.slots = acc.slots
      /\ new.left = Append(acc.left, j) /\ new.locks = k /\ new.servers = s
  BY <1>1, <1>3, <1>4, <1>5 DEF Hands
<1> QED  BY <1>6 DEF k, s, Stayed

\* The turns follow their rule.
LEMMA TurnsFollow ==
  ASSUME NEW rec, GoodRecords(rec), NEW wq \in Seq(Job), NEW lo \in [Lock -> Job \cup {None}],
         NEW sl \in SUBSET Job, NEW lim
  PROVE  /\ Turns(rec, wq, lo, sl, lim)[0] = [owner |-> lo, slots |-> sl, left |-> <<>>, locks |-> {}, servers |-> {}]
         /\ \A k \in 1 .. Len(wq) :
              Turns(rec, wq, lo, sl, lim)[k] = Admit(Turns(rec, wq, lo, sl, lim)[k - 1], rec, wq[k], lim)
<1> DEFINE n == Len(wq)
           b == [owner |-> lo, slots |-> sl, left |-> <<>>, locks |-> {}, servers |-> {}]
           step == [k \in 1 .. n |-> [acc \in Hands |-> Admit(acc, rec, wq[k], lim)]]
           Fits(f) == f = [k \in 0 .. n |-> IF k = 0 THEN b ELSE Admit(f[k - 1], rec, wq[k], lim)]
<1>1. n \in Nat /\ \A k \in 1 .. n : wq[k] \in Job  OBVIOUS
<1>2. b \in Hands  BY DEF Hands
<1>3. step \in [1 .. n -> [Hands -> Hands]]
  <2>1. ASSUME NEW k \in 1 .. n, NEW acc \in Hands  PROVE Admit(acc, rec, wq[k], lim) \in Hands
    BY <1>1, BeginParts, StayParts DEF Began, Stayed
  <2> QED  BY <2>1
<1>4. PICK f : Takes(Hands, b, n, step, f)
  <2> HIDE DEF step, b, n
  <2> QED  BY <1>1, <1>2, <1>3, StepsCanBeTaken
<1>5. Fits(f)
  <2>1. ASSUME NEW k \in 0 .. n  PROVE f[k] = IF k = 0 THEN b ELSE Admit(f[k - 1], rec, wq[k], lim)
    <3>1. CASE k = 0  BY <1>4, <3>1 DEF Takes
    <3>2. CASE k # 0
      <4>1. k \in 1 .. n /\ k - 1 \in 0 .. n  BY <1>1, <3>2
      <4>2. f[k - 1] \in Hands  BY <1>4, <4>1 DEF Takes
      <4> QED  BY <1>4, <3>2, <4>1, <4>2 DEF Takes
    <3> QED  BY <3>1, <3>2
  <2> HIDE DEF b, n
  <2> QED  BY <1>4, <2>1 DEF Takes
<1>6. Fits(CHOOSE g : Fits(g))
  <2> HIDE DEF Fits
  <2> QED  BY <1>5
<1>7. Turns(rec, wq, lo, sl, lim) = CHOOSE g : Fits(g)  BY DEF Turns
<1> DEFINE turns == Turns(rec, wq, lo, sl, lim)
<1>8. turns = [k \in 0 .. n |-> IF k = 0 THEN b ELSE Admit(turns[k - 1], rec, wq[k], lim)]
  BY <1>6, <1>7
<1>9. \A k \in 0 .. n : turns[k] = IF k = 0 THEN b ELSE Admit(turns[k - 1], rec, wq[k], lim)
  <2> HIDE DEF turns, b, n
  <2> QED  BY <1>8
<1>10. 0 \in 0 .. n /\ \A k \in 1 .. n : k \in 0 .. n /\ k # 0  BY <1>1
<1> HIDE DEF b, n
<1>11. turns[0] = b /\ \A k \in 1 .. n : turns[k] = Admit(turns[k - 1], rec, wq[k], lim)
  <2> HIDE DEF turns
  <2> QED  BY <1>9, <1>10
<1> QED  BY <1>11 DEF b, n
\* What an operation hands to _pump.
PumpArgs(rec, wq, lo, sl, lim) ==
  /\ GoodRecords(rec)
  /\ wq \in Seq(Job) /\ IsInjective(wq)
  /\ lo \in [Lock -> Job \cup {None}]
  /\ sl \in SUBSET Job /\ IsFiniteSet(sl) /\ sl \cap ToSet(wq) = {}
  /\ lim \in Nat

\* The first k of the queue, and those of them that have begun.
First(wq, k) == {wq[i] : i \in 1 .. k}
Started(wq, k, acc) == First(wq, k) \ ToSet(acc.left)

\* Those that stay are in their order.
InOrder(wq, k, acc) ==
  /\ ToSet(acc.left) \subseteq First(wq, k)
  /\ \A m, n \in DOMAIN acc.left : m < n =>
       \E a, b \in 1 .. k : a < b /\ wq[a] = acc.left[m] /\ wq[b] = acc.left[n]

\* Slots and locks are with those that had them and with those that have begun.
SlotsTaken(rec, wq, sl, k, acc) ==
  /\ acc.slots = sl \cup {j \in Started(wq, k, acc) : rec[j].claims}
  /\ IsFiniteSet(acc.slots)
LocksTaken(rec, wq, lo, k, acc) ==
  /\ \A l \in Lock : lo[l] # None => acc.owner[l] = lo[l]
  /\ \A l \in Lock : acc.owner[l] # None /\ acc.owner[l] # lo[l] =>
       acc.owner[l] \in Started(wq, k, acc) /\ rec[acc.owner[l]].owner /\ rec[acc.owner[l]].lock = l
  /\ \A j \in Started(wq, k, acc) : rec[j].owner =>
       lo[rec[j].lock] = None /\ acc.owner[rec[j].lock] = j

\* x wants the lock l, or a slot on the server s.
WantsLock(rec, x, l) == rec[x].owner /\ rec[x].lock = l
WantsSlot(rec, x, s) == rec[x].claims /\ s \in rec[x].servers

\* What is reserved, is so for one that stays; and all their locks are.
Reserved(rec, acc) ==
  /\ \A l \in acc.locks : \E x \in ToSet(acc.left) : WantsLock(rec, x, l)
  /\ \A x \in ToSet(acc.left) : rec[x].owner => rec[x].lock \in acc.locks
  /\ \A s \in acc.servers : \E x \in ToSet(acc.left) : WantsSlot(rec, x, s)

\* Why the m-th of those that stay does so.
LockReason(rec, acc, m) ==
  /\ rec[acc.left[m]].owner
  /\ \/ acc.owner[rec[acc.left[m]].lock] # None
     \/ \E i \in 1 .. m - 1 : WantsLock(rec, acc.left[i], rec[acc.left[m]].lock)
SlotReason(rec, acc, m, lim) ==
  /\ rec[acc.left[m]].claims
  /\ rec[acc.left[m]].servers \subseteq acc.servers
  /\ \E s \in rec[acc.left[m]].servers :
       Used(acc.slots, rec, s) >= lim \/ \E i \in 1 .. m - 1 : WantsSlot(rec, acc.left[i], s)
Reasons(rec, acc, lim) == \A m \in DOMAIN acc.left : LockReason(rec, acc, m) \/ SlotReason(rec, acc, m, lim)

WithinLimit(rec, wq, k, acc, lim) ==
  \A j \in Started(wq, k, acc) : \A s \in Server :
    WantsSlot(rec, j, s) => Used(acc.slots, rec, s) <= lim

\* Somebody has the lock that x wants, or another one that stays wants it.
WaitsForLock(rec, acc, x) ==
  /\ rec[x].owner
  /\ \/ acc.owner[rec[x].lock] # None
     \/ \E y \in ToSet(acc.left) : y # x /\ WantsLock(rec, y, rec[x].lock)

\* Who began past one that stays wants another lock, and another server unless that one
\* waits for its lock.
NobodyPassed(rec, wq, k, acc) ==
  \A a, b \in 1 .. k : a < b /\ wq[a] \in ToSet(acc.left) /\ wq[b] \in Started(wq, k, acc) =>
    /\ \A l \in Lock : ~(WantsLock(rec, wq[a], l) /\ WantsLock(rec, wq[b], l))
    /\ (\E s \in Server : WantsSlot(rec, wq[a], s) /\ WantsSlot(rec, wq[b], s)) => WaitsForLock(rec, acc, wq[a])

\* The invariant of the loop, after k turns.
TurnOK(rec, wq, lo, sl, lim, k, acc) ==
  /\ acc \in Hands
  /\ InOrder(wq, k, acc)
  /\ SlotsTaken(rec, wq, sl, k, acc)
  /\ LocksTaken(rec, wq, lo, k, acc)
  /\ Reserved(rec, acc)
  /\ Reasons(rec, acc, lim)
  /\ WithinLimit(rec, wq, k, acc, lim)
  /\ NobodyPassed(rec, wq, k, acc)

\* One more heavy job counts on its servers.
OneMoreCounts(rec, claimed, j, s) ==
  /\ Used(claimed, rec, s) \in Nat
  /\ IsFiniteSet(claimed \cup {j})
  /\ Used(claimed \cup {j}, rec, s)
       = IF s \in rec[j].servers THEN Used(claimed, rec, s) + 1 ELSE Used(claimed, rec, s)
LEMMA UsedGrows ==
  ASSUME NEW rec, NEW claimed, IsFiniteSet(claimed), NEW j, j \notin claimed, NEW s
  PROVE  OneMoreCounts(rec, claimed, j, s)
<1> DEFINE on == {x \in claimed : s \in rec[x].servers}
<1>1. IsFiniteSet(on)  BY FS_Subset
<1>2. Cardinality(on) \in Nat  BY <1>1, FS_CardinalityType
<1>3. j \notin on  OBVIOUS
<1>4. Cardinality(on \cup {j}) = Cardinality(on) + 1
  <2> HIDE DEF on
  <2> QED  BY <1>1, <1>3, FS_AddElement
<1>5. {x \in claimed \cup {j} : s \in rec[x].servers} = IF s \in rec[j].servers THEN on \cup {j} ELSE on
  OBVIOUS
<1>6. IsFiniteSet(claimed \cup {j})  BY FS_AddElement
<1>7. Used(claimed \cup {j}, rec, s) = IF s \in rec[j].servers THEN Cardinality(on \cup {j}) ELSE Cardinality(on)
  <2>1. Used(claimed \cup {j}, rec, s) = Cardinality({x \in claimed \cup {j} : s \in rec[x].servers})  BY DEF Used
  <2> HIDE DEF on
  <2> QED  BY <2>1, <1>5
<1>8. Used(claimed, rec, s) = Cardinality(on)  BY DEF Used
<1> HIDE DEF on
<1> QED  BY <1>2, <1>4, <1>6, <1>7, <1>8 DEF OneMoreCounts

\* One more of the queue.
LEMMA OneMore ==
  ASSUME NEW wq \in Seq(Job), IsInjective(wq), NEW k \in 1 .. Len(wq)
  PROVE  /\ First(wq, k) = First(wq, k - 1) \cup {wq[k]}
         /\ wq[k] \notin First(wq, k - 1) /\ wq[k] \in Job /\ wq[k] \in ToSet(wq)
         /\ First(wq, k) \subseteq Job /\ First(wq, k - 1) \subseteq ToSet(wq)
         /\ \A a \in 1 .. k : a \in 1 .. k - 1 \/ a = k
         /\ \A a \in 1 .. k - 1 : a \in 1 .. k /\ a < k
         /\ k \in 1 .. k /\ k - 1 \in Nat
<1>1. DOMAIN wq = 1 .. Len(wq) /\ \A i \in 1 .. Len(wq) : wq[i] \in Job  OBVIOUS
<1>2. \A a \in 1 .. k : a \in 1 .. k - 1 \/ a = k  OBVIOUS
<1>3. \A a \in 1 .. k - 1 : a \in 1 .. k /\ a < k /\ a # k /\ a \in 1 .. Len(wq)  OBVIOUS
<1>4. k \in 1 .. k /\ k - 1 \in Nat /\ \A a \in 1 .. k : a \in 1 .. Len(wq)  OBVIOUS
<1>5. First(wq, k) = First(wq, k - 1) \cup {wq[k]}  BY <1>2, <1>3, <1>4 DEF First
<1>6. wq[k] \notin First(wq, k - 1)
  BY <1>1, <1>3 DEF First, IsInjective
<1>7. First(wq, k) \subseteq Job /\ First(wq, k - 1) \subseteq ToSet(wq) /\ wq[k] \in ToSet(wq)
  BY <1>1, <1>3, <1>4 DEF First, ToSet
<1> QED  BY <1>1, <1>2, <1>3, <1>4, <1>5, <1>6, <1>7

\* Those that stay differ.
LEMMA LeftDiffer ==
  ASSUME NEW wq \in Seq(Job), IsInjective(wq), NEW k \in 0 .. Len(wq), NEW acc \in Hands, InOrder(wq, k, acc)
  PROVE  \A m, n \in DOMAIN acc.left : m < n => acc.left[m] # acc.left[n]
<1>1. ASSUME NEW m \in DOMAIN acc.left, NEW n \in DOMAIN acc.left, m < n  PROVE acc.left[m] # acc.left[n]
  <2>1. PICK a, b \in 1 .. k : a < b /\ wq[a] = acc.left[m] /\ wq[b] = acc.left[n]  BY <1>1 DEF InOrder
  <2>2. a \in DOMAIN wq /\ b \in DOMAIN wq /\ a # b  BY <2>1
  <2> QED  BY <2>1, <2>2 DEF IsInjective
<1> QED  BY <1>1
\* The turn of a job that begins.
LEMMA BeginKeeps ==
  ASSUME NEW rec, NEW wq, NEW lo, NEW sl, NEW lim, PumpArgs(rec, wq, lo, sl, lim),
         NEW k \in 1 .. Len(wq), NEW acc, TurnOK(rec, wq, lo, sl, lim, k - 1, acc),
         MayBegin(acc, rec, wq[k], lim), NEW new, new = Admit(acc, rec, wq[k], lim)
  PROVE  TurnOK(rec, wq, lo, sl, lim, k, new)
<1> DEFINE j == wq[k]
<1>0. /\ GoodRecords(rec) /\ wq \in Seq(Job) /\ IsInjective(wq) /\ lim \in Nat /\ sl \cap ToSet(wq) = {}
      /\ acc \in Hands /\ None \notin Job /\ acc.owner \in [Lock -> Job \cup {None}] /\ acc.left \in Seq(Job)
  BY DEF PumpArgs, TurnOK, Hands, GoodRecords
<1>1. /\ First(wq, k) = First(wq, k - 1) \cup {j}
      /\ j \notin First(wq, k - 1) /\ j \in Job /\ j \in ToSet(wq) /\ First(wq, k) \subseteq Job
      /\ First(wq, k - 1) \subseteq ToSet(wq)
      /\ \A a \in 1 .. k : a \in 1 .. k - 1 \/ a = k
      /\ \A a \in 1 .. k - 1 : a \in 1 .. k /\ a < k
  BY <1>0, OneMore
<1>2. /\ new \in Hands /\ new.left = acc.left /\ new.locks = acc.locks /\ new.servers = acc.servers
      /\ new.owner = IF rec[j].owner THEN [acc.owner EXCEPT ![rec[j].lock] = j] ELSE acc.owner
      /\ new.slots = IF rec[j].claims THEN acc.slots \cup {j} ELSE acc.slots
  <2>1. MayBegin(acc, rec, j, lim) /\ new = Admit(acc, rec, j, lim)  OBVIOUS
  <2> HIDE DEF j
  <2>2. Began(rec, j, acc, new)  BY <2>1, <1>0, <1>1, BeginParts
  <2> QED  BY <2>2 DEF Began
<1>3. rec[j].owner => rec[j].lock \in Lock /\ acc.owner[rec[j].lock] = None /\ rec[j].lock \notin acc.locks
  <2>1. rec[j].owner => rec[j].lock \in Lock  BY <1>0, <1>1, RecordParts
  <2> QED  BY <2>1 DEF MayBegin, LockFree
<1>4. rec[j].claims => \A s \in rec[j].servers : s \notin acc.servers /\ Used(acc.slots, rec, s) < lim
  BY DEF MayBegin, SlotsFree
<1>5. j \notin ToSet(acc.left) /\ ToSet(acc.left) \subseteq First(wq, k - 1)  BY <1>1 DEF TurnOK, InOrder
<1>6. Started(wq, k, new) = Started(wq, k - 1, acc) \cup {j} /\ j \notin Started(wq, k - 1, acc)
  BY <1>1, <1>2, <1>5 DEF Started
<1>7. j \notin acc.slots /\ IsFiniteSet(acc.slots)
  BY <1>0, <1>1, <1>6 DEF TurnOK, SlotsTaken
<1>8. \A s : /\ Used(acc.slots, rec, s) \in Nat
             /\ Used(new.slots, rec, s) = IF rec[j].claims /\ s \in rec[j].servers
                                          THEN Used(acc.slots, rec, s) + 1 ELSE Used(acc.slots, rec, s)
  <2> HIDE DEF j
  <2>1. ASSUME NEW s
        PROVE  /\ Used(acc.slots, rec, s) \in Nat
               /\ Used(acc.slots \cup {j}, rec, s)
                    = IF s \in rec[j].servers THEN Used(acc.slots, rec, s) + 1 ELSE Used(acc.slots, rec, s)
    <3>1. OneMoreCounts(rec, acc.slots, j, s)  BY <1>7, UsedGrows
    <3> QED  BY <3>1 DEF OneMoreCounts
  <2>2. CASE rec[j].claims
    <3>1. new.slots = acc.slots \cup {j}  BY <1>2, <2>2
    <3> QED  BY <2>1, <2>2, <3>1
  <2>3. CASE ~rec[j].claims
    <3>1. new.slots = acc.slots  BY <1>2, <2>3
    <3> QED  BY <2>1, <2>3, <3>1
  <2> QED  BY <2>2, <2>3
<1>9. \A l \in Lock : acc.owner[l] # None => new.owner[l] = acc.owner[l]
  BY <1>2, <1>3, <1>0
<1>10. \A l \in Lock : new.owner[l] = acc.owner[l] \/ (rec[j].owner /\ l = rec[j].lock /\ new.owner[l] = j)
  BY <1>2, <1>3, <1>0
<1>11. rec[j].owner => new.owner[rec[j].lock] = j
  BY <1>2, <1>3, <1>0
<1> HIDE DEF j
<1>12. InOrder(wq, k, new)
  <2>1. ToSet(new.left) \subseteq First(wq, k)  BY <1>1, <1>2, <1>5
  <2>2. ASSUME NEW m \in DOMAIN new.left, NEW n \in DOMAIN new.left, m < n
        PROVE \E a, b \in 1 .. k : a < b /\ wq[a] = new.left[m] /\ wq[b] = new.left[n]
    <3>1. PICK a, b \in 1 .. k - 1 : a < b /\ wq[a] = acc.left[m] /\ wq[b] = acc.left[n]
      BY <1>2, <2>2 DEF TurnOK, InOrder
    <3> QED  BY <1>1, <1>2, <3>1
  <2> QED  BY <2>1, <2>2 DEF InOrder
<1>13. SlotsTaken(rec, wq, sl, k, new)
  <2>1. acc.slots = sl \cup {x \in Started(wq, k - 1, acc) : rec[x].claims}  BY DEF TurnOK, SlotsTaken
  <2>2. IsFiniteSet(new.slots)  BY <1>2, <1>7, FS_AddElement
  <2>3. new.slots = sl \cup {x \in Started(wq, k, new) : rec[x].claims}
    <3>1. CASE rec[j].claims
      <4>1. new.slots = acc.slots \cup {j}  BY <1>2, <3>1
      <4> QED  BY <4>1, <3>1, <1>6, <2>1
    <3>2. CASE ~rec[j].claims
      <4>1. new.slots = acc.slots  BY <1>2, <3>2
      <4> QED  BY <4>1, <3>2, <1>6, <2>1
    <3> QED  BY <3>1, <3>2
  <2> QED  BY <2>2, <2>3 DEF SlotsTaken
<1>14. LocksTaken(rec, wq, lo, k, new)
  <2>0. LocksTaken(rec, wq, lo, k - 1, acc)  BY DEF TurnOK
  <2>1. \A l \in Lock : lo[l] # None => new.owner[l] = lo[l]  BY <2>0, <1>9 DEF LocksTaken
  <2>2. ASSUME NEW l \in Lock, new.owner[l] # None, new.owner[l] # lo[l]
        PROVE new.owner[l] \in Started(wq, k, new) /\ rec[new.owner[l]].owner /\ rec[new.owner[l]].lock = l
    <3>1. CASE new.owner[l] = acc.owner[l]  BY <2>0, <2>2, <3>1, <1>6 DEF LocksTaken
    <3>2. CASE rec[j].owner /\ l = rec[j].lock /\ new.owner[l] = j  BY <3>2, <1>6
    <3> QED  BY <3>1, <3>2, <1>10
  <2>3. ASSUME NEW x \in Started(wq, k, new), rec[x].owner
        PROVE lo[rec[x].lock] = None /\ new.owner[rec[x].lock] = x
    <3>1. CASE x = j  BY <3>1, <2>3, <1>3, <1>11, <2>0 DEF LocksTaken
    <3>2. CASE x \in Started(wq, k - 1, acc)
      <4>1. lo[rec[x].lock] = None /\ acc.owner[rec[x].lock] = x  BY <2>0, <2>3, <3>2 DEF LocksTaken
      <4>2. x \in Job  BY <1>1, <3>2 DEF Started
      <4>3. x # None /\ rec[x].lock \in Lock  BY <4>2, <2>3, <1>0, RecordParts
      <4> QED  BY <4>1, <4>3, <1>9
    <3> QED  BY <3>1, <3>2, <2>3, <1>6
  <2> QED  BY <2>1, <2>2, <2>3 DEF LocksTaken
<1>15. Reserved(rec, new)  BY <1>2 DEF TurnOK, Reserved
<1>16. Reasons(rec, new, lim)
  <2>1. ASSUME NEW m \in DOMAIN new.left  PROVE LockReason(rec, new, m) \/ SlotReason(rec, new, m, lim)
    <3>0. acc.left[m] \in Job /\ m \in DOMAIN acc.left  BY <1>0, <1>2, <2>1
    <3>1. CASE LockReason(rec, acc, m)
      <4>1. rec[acc.left[m]].lock \in Lock  BY <3>0, <3>1, <1>0, RecordParts DEF LockReason
      <4>2. acc.owner[rec[acc.left[m]].lock] # None => new.owner[rec[acc.left[m]].lock] # None
        BY <4>1, <1>9
      <4>3. LockReason(rec, new, m)  BY <3>1, <4>2, <1>2 DEF LockReason
      <4> QED  BY <4>3
    <3>2. CASE SlotReason(rec, acc, m, lim)
      <4>1. \A s : Used(acc.slots, rec, s) >= lim => Used(new.slots, rec, s) >= lim  BY <1>8, <1>0
      <4>2. SlotReason(rec, new, m, lim)  BY <3>2, <4>1, <1>2 DEF SlotReason
      <4> QED  BY <4>2
    <3> QED  BY <3>0, <3>1, <3>2 DEF TurnOK, Reasons
  <2> QED  BY <2>1 DEF Reasons
<1>17. WithinLimit(rec, wq, k, new, lim)
  <2>1. ASSUME NEW x \in Started(wq, k, new), NEW s \in Server, WantsSlot(rec, x, s)
        PROVE Used(new.slots, rec, s) <= lim
    <3>1. CASE rec[j].claims /\ s \in rec[j].servers
      <4>1. Used(acc.slots, rec, s) < lim  BY <1>4, <3>1
      <4> QED  BY <4>1, <3>1, <1>8, <1>0
    <3>2. CASE ~(rec[j].claims /\ s \in rec[j].servers)
      <4>1. x # j  BY <3>2, <2>1 DEF WantsSlot
      <4>2. Used(acc.slots, rec, s) <= lim  BY <4>1, <2>1, <1>6 DEF TurnOK, WithinLimit
      <4> QED  BY <4>2, <3>2, <1>8
    <3> QED  BY <3>1, <3>2
  <2> QED  BY <2>1 DEF WithinLimit
<1>18. NobodyPassed(rec, wq, k, new)
  <2>1. ASSUME NEW a \in 1 .. k, NEW b \in 1 .. k, a < b, wq[a] \in ToSet(new.left), wq[b] \in Started(wq, k, new)
        PROVE /\ \A l \in Lock : ~(WantsLock(rec, wq[a], l) /\ WantsLock(rec, wq[b], l))
              /\ (\E s \in Server : WantsSlot(rec, wq[a], s) /\ WantsSlot(rec, wq[b], s))
                   => WaitsForLock(rec, acc, wq[a])
    <3>0. a \in 1 .. k - 1 /\ wq[a] \in ToSet(acc.left)  BY <2>1, <1>2
    <3>1. CASE b = k
      <4>1. wq[b] = j  BY <3>1 DEF j
      <4>2. ASSUME NEW l \in Lock, WantsLock(rec, wq[a], l), WantsLock(rec, wq[b], l)  PROVE FALSE
        <5>1. l \in acc.locks  BY <3>0, <4>2 DEF TurnOK, Reserved, WantsLock
        <5> QED  BY <4>1, <4>2, <5>1, <1>3 DEF WantsLock
      <4>3. ASSUME NEW s \in Server, WantsSlot(rec, wq[a], s), WantsSlot(rec, wq[b], s)
            PROVE WaitsForLock(rec, acc, wq[a])
        <5>1. PICK m \in DOMAIN acc.left : acc.left[m] = wq[a]  BY <3>0 DEF ToSet
        <5>2. s \notin acc.servers  BY <4>1, <4>3, <1>4 DEF WantsSlot
        <5>3. ~SlotReason(rec, acc, m, lim)  BY <5>1, <5>2, <4>3 DEF SlotReason, WantsSlot
        <5>4. LockReason(rec, acc, m)  BY <5>3 DEF TurnOK, Reasons
        <5>5. CASE acc.owner[rec[acc.left[m]].lock] # None
          BY <5>1, <5>4, <5>5 DEF LockReason, WaitsForLock
        <5>6. CASE \E i \in 1 .. m - 1 : WantsLock(rec, acc.left[i], rec[acc.left[m]].lock)
          <6>1. PICK i \in 1 .. m - 1 : WantsLock(rec, acc.left[i], rec[acc.left[m]].lock)  BY <5>6
          <6>2. DOMAIN acc.left = 1 .. Len(acc.left) /\ Len(acc.left) \in Nat  BY <1>0
          <6>3. i \in DOMAIN acc.left /\ i < m  BY <6>1, <6>2
          <6>4. acc.left[i] # acc.left[m]
            <7>1. k - 1 \in 0 .. Len(wq)  BY <1>0
            <7>2. InOrder(wq, k - 1, acc)  BY DEF TurnOK
            <7> QED  BY <7>1, <7>2, <6>3, <1>0, LeftDiffer
          <6>5. acc.left[i] \in ToSet(acc.left)  BY <6>3 DEF ToSet
          <6> QED  BY <5>1, <5>4, <6>1, <6>4, <6>5 DEF LockReason, WaitsForLock
        <5> QED  BY <5>4, <5>5, <5>6 DEF LockReason
      <4> QED  BY <4>2, <4>3
    <3>2. CASE b \in 1 .. k - 1
      <4>1. wq[b] # j
        <5>1. wq[b] \in First(wq, k - 1)  BY <3>2 DEF First
        <5> QED  BY <5>1, <1>1
      <4>2. wq[b] \in Started(wq, k - 1, acc)  BY <2>1, <4>1, <1>6
      <4> QED  BY <2>1, <3>0, <3>2, <4>2 DEF TurnOK, NobodyPassed
    <3> QED  BY <3>1, <3>2, <1>1
  <2>2. ASSUME NEW x \in Job, WaitsForLock(rec, acc, x)  PROVE WaitsForLock(rec, new, x)
    <3>1. rec[x].lock \in Lock  BY <2>2, <1>0, RecordParts DEF WaitsForLock
    <3>2. acc.owner[rec[x].lock] # None => new.owner[rec[x].lock] # None  BY <3>1, <1>9
    <3> QED  BY <2>2, <3>2, <1>2 DEF WaitsForLock
  <2>3. \A a \in 1 .. k : wq[a] \in Job  BY <1>0
  <2> QED  BY <2>1, <2>2, <2>3 DEF NobodyPassed
<1> QED  BY <1>2, <1>12, <1>13, <1>14, <1>15, <1>16, <1>17, <1>18 DEF TurnOK
\* The turn of a job that stays.
LEMMA StayKeeps ==
  ASSUME NEW rec, NEW wq, NEW lo, NEW sl, NEW lim, PumpArgs(rec, wq, lo, sl, lim),
         NEW k \in 1 .. Len(wq), NEW acc, TurnOK(rec, wq, lo, sl, lim, k - 1, acc),
         ~MayBegin(acc, rec, wq[k], lim), NEW new, new = Admit(acc, rec, wq[k], lim)
  PROVE  TurnOK(rec, wq, lo, sl, lim, k, new)
<1> DEFINE j == wq[k]  n == Len(acc.left)
<1>0. /\ GoodRecords(rec) /\ wq \in Seq(Job) /\ IsInjective(wq) /\ lim \in Nat
      /\ acc \in Hands /\ None \notin Job /\ acc.owner \in [Lock -> Job \cup {None}] /\ acc.left \in Seq(Job)
  BY DEF PumpArgs, TurnOK, Hands, GoodRecords
<1>1. /\ First(wq, k) = First(wq, k - 1) \cup {j}
      /\ j \notin First(wq, k - 1) /\ j \in Job /\ First(wq, k) \subseteq Job
      /\ \A a \in 1 .. k : a \in 1 .. k - 1 \/ a = k
      /\ \A a \in 1 .. k - 1 : a \in 1 .. k /\ a < k
      /\ k \in 1 .. k
  BY <1>0, OneMore
<1>2. /\ new \in Hands /\ new.owner = acc.owner /\ new.slots = acc.slots
      /\ new.left = Append(acc.left, j)
      /\ new.locks = IF rec[j].owner THEN acc.locks \cup {rec[j].lock} ELSE acc.locks
      /\ new.servers = IF rec[j].claims /\ ~SlotsFree(acc, rec, rec[j], lim)
                       THEN acc.servers \cup rec[j].servers ELSE acc.servers
  <2>1. ~MayBegin(acc, rec, j, lim) /\ new = Admit(acc, rec, j, lim)  OBVIOUS
  <2> HIDE DEF j
  <2>2. Stayed(rec, j, acc, lim, new)  BY <2>1, <1>0, <1>1, StayParts
  <2> QED  BY <2>2 DEF Stayed
<1>3. ~LockFree(acc, rec[j]) \/ ~SlotsFree(acc, rec, rec[j], lim)  BY DEF MayBegin
<1>4. /\ n \in Nat /\ DOMAIN acc.left = 1 .. n /\ DOMAIN new.left = 1 .. n + 1
      /\ \A i \in 1 .. n : new.left[i] = acc.left[i] /\ acc.left[i] \in Job
      /\ new.left[n + 1] = j
      /\ ToSet(new.left) = ToSet(acc.left) \cup {j}
      /\ \A i \in 1 .. n + 1 : i \in 1 .. n \/ i = n + 1
  <2> HIDE DEF j
  <2>1. \A i \in 1 .. Len(acc.left) + 1 : i \in 1 .. Len(acc.left) \/ i = Len(acc.left) + 1
    <3>1. Len(acc.left) \in Nat  BY <1>0
    <3> QED  BY <3>1
  <2> QED  BY <1>0, <1>1, <1>2, <2>1, AppendParts
<1>5. j \notin ToSet(acc.left) /\ ToSet(acc.left) \subseteq First(wq, k - 1)  BY <1>1 DEF TurnOK, InOrder
<1>6. Started(wq, k, new) = Started(wq, k - 1, acc)
  BY <1>1, <1>4, <1>5 DEF Started
<1>7. \A x \in ToSet(acc.left) : \E i \in 1 .. n : x = acc.left[i]  BY <1>4 DEF ToSet
<1>8. acc.servers \subseteq new.servers /\ acc.locks \subseteq new.locks  BY <1>2
<1> HIDE DEF j, n
<1>9. InOrder(wq, k, new)
  <2>1. ToSet(new.left) \subseteq First(wq, k)  BY <1>1, <1>4, <1>5
  <2>2. ASSUME NEW m \in DOMAIN new.left, NEW o \in DOMAIN new.left, m < o
        PROVE \E a, b \in 1 .. k : a < b /\ wq[a] = new.left[m] /\ wq[b] = new.left[o]
    <3>1. m \in 1 .. n  BY <1>4, <2>2
    <3>2. CASE o \in 1 .. n
      <4>1. PICK a, b \in 1 .. k - 1 : a < b /\ wq[a] = acc.left[m] /\ wq[b] = acc.left[o]
        BY <1>4, <2>2, <3>1, <3>2 DEF TurnOK, InOrder
      <4> QED  BY <1>1, <1>4, <3>1, <3>2, <4>1
    <3>3. CASE o = n + 1
      <4>1. acc.left[m] \in First(wq, k - 1)  BY <1>4, <1>5, <3>1 DEF ToSet
      <4>2. PICK a \in 1 .. k - 1 : wq[a] = acc.left[m]  BY <4>1 DEF First
      <4>3. wq[k] = new.left[o]  BY <1>4, <3>3 DEF j
      <4> QED  BY <1>1, <1>4, <3>1, <4>2, <4>3
    <3> QED  BY <1>4, <2>2, <3>2, <3>3
  <2> QED  BY <2>1, <2>2 DEF InOrder
<1>10. SlotsTaken(rec, wq, sl, k, new)  BY <1>2, <1>6 DEF TurnOK, SlotsTaken
<1>11. LocksTaken(rec, wq, lo, k, new)  BY <1>2, <1>6 DEF TurnOK, LocksTaken
<1>12. Reserved(rec, new)
  <2>0. Reserved(rec, acc)  BY DEF TurnOK
  <2>1. ASSUME NEW l \in new.locks  PROVE \E x \in ToSet(new.left) : WantsLock(rec, x, l)
    <3>1. CASE l \in acc.locks  BY <2>0, <3>1, <1>4 DEF Reserved
    <3>2. CASE rec[j].owner /\ l = rec[j].lock  BY <3>2, <1>4 DEF WantsLock
    <3> QED  BY <2>1, <3>1, <3>2, <1>2
  <2>2. ASSUME NEW x \in ToSet(new.left), rec[x].owner  PROVE rec[x].lock \in new.locks
    <3>1. CASE x = j  BY <3>1, <2>2, <1>2
    <3>2. CASE x \in ToSet(acc.left)  BY <3>2, <2>0, <2>2, <1>8 DEF Reserved
    <3> QED  BY <3>1, <3>2, <1>4
  <2>3. ASSUME NEW s \in new.servers  PROVE \E x \in ToSet(new.left) : WantsSlot(rec, x, s)
    <3>1. CASE s \in acc.servers  BY <2>0, <3>1, <1>4 DEF Reserved
    <3>2. CASE rec[j].claims /\ s \in rec[j].servers  BY <3>2, <1>4 DEF WantsSlot
    <3> QED  BY <2>3, <3>1, <3>2, <1>2
  <2> QED  BY <2>1, <2>2, <2>3 DEF Reserved
<1>13. Reasons(rec, new, lim)
  <2>1. ASSUME NEW m \in 1 .. n  PROVE LockReason(rec, new, m) \/ SlotReason(rec, new, m, lim)
    <3>0. m \in DOMAIN acc.left /\ new.left[m] = acc.left[m]
          /\ \A i \in 1 .. m - 1 : new.left[i] = acc.left[i]
      BY <1>4, <2>1
    <3>1. CASE LockReason(rec, acc, m)  BY <3>0, <3>1, <1>2 DEF LockReason
    <3>2. CASE SlotReason(rec, acc, m, lim)  BY <3>0, <3>2, <1>2, <1>8 DEF SlotReason
    <3> QED  BY <3>0, <3>1, <3>2 DEF TurnOK, Reasons
  <2>2. LockReason(rec, new, n + 1) \/ SlotReason(rec, new, n + 1, lim)
    <3>0. Reserved(rec, acc) /\ 1 .. (n + 1) - 1 = 1 .. n
      BY <1>4 DEF TurnOK
    <3>1. CASE ~LockFree(acc, rec[j])
      <4>1. rec[j].owner /\ (acc.owner[rec[j].lock] # None \/ rec[j].lock \in acc.locks)
        BY <3>1 DEF LockFree
      <4>2. CASE acc.owner[rec[j].lock] # None  BY <1>2, <1>4, <4>1, <4>2 DEF LockReason
      <4>3. CASE rec[j].lock \in acc.locks
        <5>1. PICK x \in ToSet(acc.left) : WantsLock(rec, x, rec[j].lock)  BY <3>0, <4>3 DEF Reserved
        <5>2. PICK i \in 1 .. n : x = acc.left[i]  BY <1>7
        <5> QED  BY <1>4, <3>0, <4>1, <5>1, <5>2 DEF LockReason
      <4> QED  BY <4>1, <4>2, <4>3
    <3>2. CASE ~SlotsFree(acc, rec, rec[j], lim)
      <4>1. rec[j].claims  BY <3>2 DEF SlotsFree
      <4>2. PICK s \in rec[j].servers : s \in acc.servers \/ ~(Used(acc.slots, rec, s) < lim)
        BY <3>2 DEF SlotsFree
      <4>3. rec[j].servers \subseteq new.servers  BY <1>2, <3>2, <4>1
      <4>4. CASE s \in acc.servers
        <5>1. PICK x \in ToSet(acc.left) : WantsSlot(rec, x, s)  BY <3>0, <4>4 DEF Reserved
        <5>2. PICK i \in 1 .. n : x = acc.left[i]  BY <1>7
        <5>3. \E i1 \in 1 .. (n + 1) - 1 : WantsSlot(rec, new.left[i1], s)  BY <1>4, <3>0, <5>1, <5>2
        <5> QED  BY <1>4, <4>1, <4>2, <4>3, <5>3 DEF SlotReason
      <4>5. CASE ~(Used(acc.slots, rec, s) < lim)
        <5>1. IsFiniteSet(acc.slots) /\ acc.slots \subseteq Job  BY <1>0 DEF TurnOK, SlotsTaken, Hands
        <5>2. Used(acc.slots, rec, s) \in Nat
          BY <5>1, FS_Subset, FS_CardinalityType DEF Used
        <5>3. Used(new.slots, rec, s) >= lim  BY <5>2, <4>5, <1>0, <1>2
        <5> QED  BY <1>4, <4>1, <4>2, <4>3, <5>3 DEF SlotReason
      <4> QED  BY <4>2, <4>4, <4>5
    <3> QED  BY <3>1, <3>2, <1>3
  <2> QED  BY <2>1, <2>2, <1>4 DEF Reasons
<1>14. WithinLimit(rec, wq, k, new, lim)  BY <1>2, <1>6 DEF TurnOK, WithinLimit
<1>15. NobodyPassed(rec, wq, k, new)
  <2>1. ASSUME NEW a \in 1 .. k, NEW b \in 1 .. k, a < b, wq[a] \in ToSet(new.left), wq[b] \in Started(wq, k, new)
        PROVE /\ \A l \in Lock : ~(WantsLock(rec, wq[a], l) /\ WantsLock(rec, wq[b], l))
              /\ (\E s \in Server : WantsSlot(rec, wq[a], s) /\ WantsSlot(rec, wq[b], s))
                   => WaitsForLock(rec, acc, wq[a])
    <3>1. b # k  BY <1>1, <1>6, <2>1 DEF Started, j
    <3>2. a \in 1 .. k - 1 /\ b \in 1 .. k - 1  BY <1>1, <2>1, <3>1
    <3>3. wq[a] # j  BY <1>1, <3>2 DEF First
    <3>4. wq[a] \in ToSet(acc.left)  BY <1>4, <2>1, <3>3
    <3> QED  BY <2>1, <3>2, <3>4, <1>6 DEF TurnOK, NobodyPassed
  <2>2. \A x : WaitsForLock(rec, acc, x) => WaitsForLock(rec, new, x)  BY <1>2, <1>4 DEF WaitsForLock
  <2> QED  BY <2>1, <2>2 DEF NobodyPassed
<1> QED  BY <1>2, <1>9, <1>10, <1>11, <1>12, <1>13, <1>14, <1>15 DEF TurnOK

\* Before the first turn.
LEMMA NoTurnYet ==
  ASSUME NEW rec, NEW wq, NEW lo, NEW sl, NEW lim, PumpArgs(rec, wq, lo, sl, lim),
         NEW acc, acc = [owner |-> lo, slots |-> sl, left |-> <<>>, locks |-> {}, servers |-> {}]
  PROVE  TurnOK(rec, wq, lo, sl, lim, 0, acc)
<1>1. /\ acc.owner = lo /\ acc.slots = sl /\ acc.left = <<>> /\ acc.locks = {} /\ acc.servers = {}
      /\ acc \in Hands
  BY DEF PumpArgs, Hands
<1>2. DOMAIN acc.left = {} /\ ToSet(acc.left) = {} /\ First(wq, 0) = {}  BY <1>1 DEF ToSet, First
<1>3. Started(wq, 0, acc) = {}  BY <1>2 DEF Started
<1>4. InOrder(wq, 0, acc)  BY <1>2 DEF InOrder
<1>5. SlotsTaken(rec, wq, sl, 0, acc)  BY <1>1, <1>3 DEF PumpArgs, SlotsTaken
<1>6. LocksTaken(rec, wq, lo, 0, acc)  BY <1>1, <1>3 DEF LocksTaken
<1>7. Reserved(rec, acc) /\ Reasons(rec, acc, lim)  BY <1>1, <1>2 DEF Reserved, Reasons
<1>8. WithinLimit(rec, wq, 0, acc, lim)  BY <1>3 DEF WithinLimit
<1>9. NobodyPassed(rec, wq, 0, acc)  BY <1>2 DEF NobodyPassed
<1> QED  BY <1>1, <1>4, <1>5, <1>6, <1>7, <1>8, <1>9 DEF TurnOK

\* The loop keeps its invariant to the end.
LEMMA LoopHolds ==
  ASSUME NEW rec, NEW wq, NEW lo, NEW sl, NEW lim, PumpArgs(rec, wq, lo, sl, lim)
  PROVE  TurnOK(rec, wq, lo, sl, lim, Len(wq), Turns(rec, wq, lo, sl, lim)[Len(wq)])
<1> DEFINE turns == Turns(rec, wq, lo, sl, lim)
           T == {k \in 0 .. Len(wq) : TurnOK(rec, wq, lo, sl, lim, k, turns[k])}
<1>1. Len(wq) \in Nat /\ GoodRecords(rec) /\ wq \in Seq(Job) /\ lo \in [Lock -> Job \cup {None}] /\ sl \in SUBSET Job
  BY DEF PumpArgs
<1>2. /\ turns[0] = [owner |-> lo, slots |-> sl, left |-> <<>>, locks |-> {}, servers |-> {}]
      /\ \A k \in 1 .. Len(wq) : turns[k] = Admit(turns[k - 1], rec, wq[k], lim)
  BY <1>1, TurnsFollow
<1> HIDE DEF turns
<1>3. 0 \in T
  <2>1. TurnOK(rec, wq, lo, sl, lim, 0, turns[0])  BY <1>2, NoTurnYet
  <2> QED  BY <2>1, <1>1
<1>4. ASSUME NEW k \in 1 .. Len(wq), k - 1 \in T  PROVE k \in T
  <2>1. TurnOK(rec, wq, lo, sl, lim, k - 1, turns[k - 1])  BY <1>4
  <2>2. turns[k] = Admit(turns[k - 1], rec, wq[k], lim)  BY <1>2
  <2>3. TurnOK(rec, wq, lo, sl, lim, k, turns[k])
    <3>1. CASE MayBegin(turns[k - 1], rec, wq[k], lim)  BY <2>1, <2>2, <3>1, BeginKeeps
    <3>2. CASE ~MayBegin(turns[k - 1], rec, wq[k], lim)  BY <2>1, <2>2, <3>2, StayKeeps
    <3> QED  BY <3>1, <3>2
  <2> QED  BY <2>3, <1>1
<1>5. 0 .. Len(wq) \subseteq T
  <2> HIDE DEF T
  <2> QED  BY <1>1, <1>3, <1>4, UpTo
<1>6. Len(wq) \in T  BY <1>1, <1>5
<1> QED  BY <1>6 DEF turns
-----------------------------------------------------------------------------
(* What _pump makes of a queue that agrees with the records.               *)

Agrees(rec, wq, lo, sl, st) ==
  /\ st \in [Job -> Statuses]
  /\ \A j \in Job : st[j] = "queued" <=> j \in ToSet(wq)
  /\ sl = {j \in Job : st[j] = "running" /\ rec[j].claims}
  /\ \A l \in Lock : lo[l] # None => st[lo[l]] = "running" /\ rec[lo[l]].owner /\ rec[lo[l]].lock = l
  /\ \A j \in Job : st[j] = "running" /\ rec[j].owner => lo[rec[j].lock] = j

\* The jobs that _pump has begun, of those that were in the queue wq.
Admitted(wq) == ToSet(wq) \ ToSet(waiting')

PumpTypes(ex) ==
  /\ status' \in [Job -> Statuses] /\ waiting' \in Seq(Job)
  /\ lockOwner' \in [Lock -> Job \cup {None}]
  /\ slots' \subseteq Job /\ IsFiniteSet(slots')
  /\ called' \subseteq Job /\ executing' \subseteq called'

\* Jobs leave the queue only to begin, and whoever has a lock keeps it.
PumpBegins(wq, lo, st, ex) ==
  /\ \A j \in Admitted(wq) : j \in Job /\ st[j] = "queued"
  /\ status' = [j \in Job |-> IF j \in Admitted(wq) THEN "running" ELSE st[j]]
  /\ executing' = ex \cup Admitted(wq)
  /\ ToSet(waiting') \subseteq ToSet(wq)
  /\ \A l \in Lock : lo[l] # None => lockOwner'[l] = lo[l]

\* Who was admitted respects the limit, and has passed nobody.
PumpRespects(wq) ==
  /\ \A j \in Admitted(wq) : job'[j].claims => \A s \in job'[j].servers : Used(slots', job', s) <= limit'
  /\ \A a, b \in DOMAIN wq : a < b /\ wq[a] \in ToSet(waiting') /\ wq[b] \in Admitted(wq) =>
       ~SameLock(wq[a], wq[b]) /\ (SameServer(wq[a], wq[b]) => ShortOfLock(wq[a]))

LEMMA PumpParts ==
  ASSUME NEW wq, NEW lo, NEW sl, NEW st, NEW ex, PumpArgs(job', wq, lo, sl, limit'), Agrees(job', wq, lo, sl, st),
         ex \subseteq Job, called \subseteq Job, Pump(job', wq, lo, sl, limit', st, ex)
  PROVE  PumpTypes(ex) /\ RecordsAgree' /\ NobodyWaitsForNothing' /\ PumpBegins(wq, lo, st, ex) /\ PumpRespects(wq)
<1> DEFINE acc == Turns(job', wq, lo, sl, limit')[Len(wq)]  n == Len(wq)
<1>1. TurnOK(job', wq, lo, sl, limit', n, acc)  BY LoopHolds
<1>2. /\ waiting' = acc.left /\ lockOwner' = acc.owner /\ slots' = acc.slots
      /\ status' = [j \in Job |-> IF j \in ToSet(wq) \ ToSet(acc.left) THEN "running" ELSE st[j]]
      /\ executing' = ex \cup (ToSet(wq) \ ToSet(acc.left))
      /\ called' = called \cup ex \cup (ToSet(wq) \ ToSet(acc.left))
  BY DEF Pump
<1> HIDE DEF acc, n
<1>3. /\ wq \in Seq(Job) /\ IsInjective(wq) /\ n \in Nat /\ DOMAIN wq = 1 .. n /\ limit' \in Nat /\ GoodRecords(job')
      /\ None \notin Job /\ sl \cap ToSet(wq) = {}
  BY DEF PumpArgs, GoodRecords, n
<1>4. First(wq, n) = ToSet(wq) /\ ToSet(wq) \subseteq Job  BY <1>3 DEF First, ToSet
<1>5. Started(wq, n, acc) = Admitted(wq) /\ Admitted(wq) = ToSet(wq) \ ToSet(acc.left)
  BY <1>2, <1>4 DEF Started, Admitted
<1>6. /\ acc \in Hands /\ InOrder(wq, n, acc) /\ SlotsTaken(job', wq, sl, n, acc) /\ LocksTaken(job', wq, lo, n, acc)
      /\ Reserved(job', acc) /\ Reasons(job', acc, limit') /\ WithinLimit(job', wq, n, acc, limit')
      /\ NobodyPassed(job', wq, n, acc)
  BY <1>1 DEF TurnOK
<1>7. status' = [j \in Job |-> IF j \in Admitted(wq) THEN "running" ELSE st[j]]  BY <1>2, <1>5
<1>8. st \in [Job -> Statuses]  BY DEF Agrees
<1>9. PumpTypes(ex)
  <2>1. status' \in [Job -> Statuses]  BY <1>7, <1>8 DEF Statuses
  <2>2. /\ waiting' \in Seq(Job) /\ lockOwner' \in [Lock -> Job \cup {None}] /\ slots' \subseteq Job
        /\ IsFiniteSet(slots')
    BY <1>2, <1>6 DEF Hands, SlotsTaken
  <2>3. called' \subseteq Job /\ executing' \subseteq called'  BY <1>2, <1>4
  <2> QED  BY <2>1, <2>2, <2>3 DEF PumpTypes
<1>10. ToSet(waiting') \subseteq ToSet(wq)  BY <1>2, <1>4, <1>6 DEF InOrder
<1>11. PumpBegins(wq, lo, st, ex)
  <2>1. \A j \in Admitted(wq) : j \in Job /\ st[j] = "queued"  BY <1>4 DEF Admitted, Agrees
  <2> QED  BY <1>2, <1>5, <1>6, <1>7, <1>10, <2>1 DEF PumpBegins, LocksTaken
<1>12. RecordsAgree'
  <2>1. ASSUME NEW j \in Job  PROVE status'[j] = "queued" <=> j \in ToSet(waiting')
    <3>1. st[j] = "queued" <=> j \in ToSet(wq)  BY DEF Agrees
    <3>2. status'[j] = IF j \in Admitted(wq) THEN "running" ELSE st[j]  BY <1>7
    <3> QED  BY <3>1, <3>2, <1>10 DEF Admitted
  <2>2. IsInjective(waiting')
    <3>1. \A m, o \in DOMAIN acc.left : m < o => acc.left[m] # acc.left[o]
      <4>1. n \in 0 .. Len(wq)  BY <1>3 DEF n
      <4> QED  BY <1>3, <1>6, <4>1, LeftDiffer
    <3>2. DOMAIN acc.left = 1 .. Len(acc.left) /\ Len(acc.left) \in Nat  BY <1>6 DEF Hands
    <3>3. \A m, o \in DOMAIN acc.left : m < o \/ m = o \/ o < m  BY <3>2
    <3> QED  BY <1>2, <3>1, <3>3 DEF IsInjective
  <2>3. slots' = {j \in Running' : job'[j].claims}
    <3>1. acc.slots = sl \cup {j \in Admitted(wq) : job'[j].claims}  BY <1>5, <1>6 DEF SlotsTaken
    <3>2. sl = {j \in Job : st[j] = "running" /\ job'[j].claims}  BY DEF Agrees
    <3>3. \A j \in Job : status'[j] = "running" <=> j \in Admitted(wq) \/ st[j] = "running"  BY <1>7
    <3>4. Admitted(wq) \subseteq Job  BY <1>4 DEF Admitted
    <3> QED  BY <1>2, <3>1, <3>2, <3>3, <3>4 DEF Running
  <2>4. ASSUME NEW l \in Lock, lockOwner'[l] # None
        PROVE lockOwner'[l] \in Running' /\ job'[lockOwner'[l]].owner /\ job'[lockOwner'[l]].lock = l
    <3>0. lockOwner'[l] \in Job  BY <1>9, <2>4 DEF PumpTypes
    <3>1. CASE lockOwner'[l] = lo[l]
      <4>1. st[lo[l]] = "running" /\ job'[lo[l]].owner /\ job'[lo[l]].lock = l  BY <2>4, <3>1 DEF Agrees
      <4>2. status'[lo[l]] = "running"  BY <3>0, <3>1, <4>1, <1>7
      <4> QED  BY <3>0, <3>1, <4>1, <4>2 DEF Running
    <3>2. CASE lockOwner'[l] # lo[l]
      <4>1. lockOwner'[l] \in Admitted(wq) /\ job'[lockOwner'[l]].owner /\ job'[lockOwner'[l]].lock = l
        BY <1>2, <1>5, <1>6, <2>4, <3>2 DEF LocksTaken
      <4>2. status'[lockOwner'[l]] = "running"  BY <3>0, <4>1, <1>7
      <4> QED  BY <3>0, <4>1, <4>2 DEF Running
    <3> QED  BY <3>1, <3>2
  <2>5. ASSUME NEW j \in Running', job'[j].owner  PROVE lockOwner'[job'[j].lock] = j
    <3>0. j \in Job /\ status'[j] = "running"  BY DEF Running
    <3>1. CASE j \in Admitted(wq)  BY <1>2, <1>5, <1>6, <2>5, <3>1 DEF LocksTaken
    <3>2. CASE j \notin Admitted(wq)
      <4>1. st[j] = "running"  BY <3>0, <3>2, <1>7
      <4>2. lo[job'[j].lock] = j  BY <3>0, <4>1, <2>5 DEF Agrees
      <4>3. job'[j].lock \in Lock  BY <3>0, <2>5, <1>3, RecordParts
      <4> QED  BY <3>0, <4>2, <4>3, <1>3, <1>11 DEF PumpBegins
    <3> QED  BY <3>1, <3>2
  <2> QED  BY <2>1, <2>2, <2>3, <2>4, <2>5 DEF RecordsAgree
<1>13. NobodyWaitsForNothing'
  <2>1. SUFFICES ASSUME NEW k \in DOMAIN waiting', NEW b, b = job'[waiting'[k]]
                 PROVE \/ b.owner /\ (lockOwner'[b.lock] # None
                                      \/ \E i \in Before(k)' : job'[i].owner /\ job'[i].lock = b.lock)
                       \/ b.claims /\ \E s \in b.servers :
                            Used(slots', job', s) >= limit' \/ \E i \in Before(k)' : job'[i].claims /\ s \in job'[i].servers
    BY DEF NobodyWaitsForNothing
  <2>2. \A i \in 1 .. k - 1 : waiting'[i] \in Before(k)'  BY DEF Before
  <2>3. CASE LockReason(job', acc, k)
    BY <1>2, <2>1, <2>2, <2>3 DEF LockReason, WantsLock
  <2>4. CASE SlotReason(job', acc, k, limit')
    BY <1>2, <2>1, <2>2, <2>4 DEF SlotReason, WantsSlot
  <2> QED  BY <1>2, <1>6, <2>1, <2>3, <2>4 DEF Reasons
<1>14. PumpRespects(wq)
  <2>1. ASSUME NEW j \in Admitted(wq), job'[j].claims, NEW s \in job'[j].servers
        PROVE Used(slots', job', s) <= limit'
    <3>1. s \in Server
      <4>1. j \in Job  BY <1>4 DEF Admitted
      <4> QED  BY <4>1, <1>3, RecordParts
    <3> QED  BY <1>2, <1>5, <1>6, <2>1, <3>1 DEF WithinLimit, WantsSlot
  <2>2. ASSUME NEW a \in DOMAIN wq, NEW b \in DOMAIN wq, a < b, wq[a] \in ToSet(waiting'), wq[b] \in Admitted(wq)
        PROVE ~SameLock(wq[a], wq[b]) /\ (SameServer(wq[a], wq[b]) => ShortOfLock(wq[a]))
    <3>1. /\ \A l \in Lock : ~(WantsLock(job', wq[a], l) /\ WantsLock(job', wq[b], l))
          /\ (\E s \in Server : WantsSlot(job', wq[a], s) /\ WantsSlot(job', wq[b], s))
               => WaitsForLock(job', acc, wq[a])
      BY <1>2, <1>3, <1>5, <1>6, <2>2 DEF NobodyPassed
    <3>2. wq[a] \in Job /\ wq[b] \in Job  BY <1>3
    <3>3. (job'[wq[a]].owner => job'[wq[a]].lock \in Lock) /\ job'[wq[a]].servers \subseteq Server
      BY <1>3, <3>2, RecordParts
    <3>4. ~SameLock(wq[a], wq[b])  BY <3>1, <3>3 DEF SameLock, WantsLock
    <3>5. ASSUME SameServer(wq[a], wq[b])  PROVE ShortOfLock(wq[a])
      <4>1. PICK s \in Server : WantsSlot(job', wq[a], s) /\ WantsSlot(job', wq[b], s)
        BY <3>3, <3>5 DEF SameServer, WantsSlot
      <4>2. WaitsForLock(job', acc, wq[a])  BY <3>1, <4>1
      <4> QED  BY <1>2, <4>2 DEF WaitsForLock, WantsLock, ShortOfLock, SameLock
    <3> QED  BY <3>4, <3>5
  <2> QED  BY <2>1, <2>2 DEF PumpRespects
<1> QED  BY <1>9, <1>11, <1>12, <1>13, <1>14
-----------------------------------------------------------------------------
(* What operations make of the queue.                                      *)

\* s has what t has, once.
LEMMA LastJoins ==
  ASSUME NEW wq \in Seq(Job), IsInjective(wq), NEW j \in Job, j \notin ToSet(wq)
  PROVE  /\ Append(wq, j) \in Seq(Job) /\ IsInjective(Append(wq, j))
         /\ ToSet(Append(wq, j)) = ToSet(wq) \cup {j}
         /\ \A m \in DOMAIN wq : /\ m \in DOMAIN Append(wq, j) /\ Append(wq, j)[m] = wq[m]
                                 /\ m < Len(wq) + 1
         /\ Len(wq) + 1 \in DOMAIN Append(wq, j) /\ Append(wq, j)[Len(wq) + 1] = j
<1> DEFINE n == Len(wq)  new == Append(wq, j)
<1>1. /\ new \in Seq(Job) /\ DOMAIN wq = 1 .. n /\ n \in Nat /\ DOMAIN new = 1 .. n + 1
      /\ \A i \in 1 .. n : new[i] = wq[i]
      /\ new[n + 1] = j /\ ToSet(new) = ToSet(wq) \cup {j}
  BY AppendParts
<1> HIDE DEF n, new
<1>2. /\ \A i \in 1 .. n + 1 : i \in 1 .. n \/ i = n + 1
      /\ \A i \in 1 .. n : i \in 1 .. n + 1 /\ i < n + 1
      /\ n + 1 \in 1 .. n + 1
  BY <1>1
<1>3. \A i \in 1 .. n : wq[i] # j  BY <1>1 DEF ToSet
<1>4. IsInjective(new)  BY <1>1, <1>2, <1>3 DEF IsInjective
<1>5. /\ new \in Seq(Job) /\ IsInjective(new) /\ ToSet(new) = ToSet(wq) \cup {j}
      /\ \A m \in DOMAIN wq : m \in DOMAIN new /\ new[m] = wq[m] /\ m < n + 1
      /\ n + 1 \in DOMAIN new /\ new[n + 1] = j
  BY <1>1, <1>2, <1>4
<1> QED  BY <1>5 DEF n, new

\* The queue without the job at place i, in the same order.
LEMMA WithoutParts ==
  ASSUME waiting \in Seq(Job), IsInjective(waiting), NEW i \in DOMAIN waiting
  PROVE  /\ Without(i) \in Seq(Job) /\ IsInjective(Without(i))
         /\ ToSet(Without(i)) = ToSet(waiting) \ {waiting[i]}
         /\ \A m, n \in DOMAIN waiting : m < n /\ m # i /\ n # i =>
              \E a, b \in DOMAIN Without(i) : a < b /\ Without(i)[a] = waiting[m] /\ Without(i)[b] = waiting[n]
<1> DEFINE l == Len(waiting)  wq == Without(i)  At(m) == IF m < i THEN m ELSE m - 1
<1>1. l \in Nat \ {0} /\ DOMAIN waiting = 1 .. l /\ l - 1 \in Nat /\ i \in 1 .. l
      /\ \A k \in 1 .. l : waiting[k] \in Job
  OBVIOUS
<1>2. wq = [k \in 1 .. l - 1 |-> IF k < i THEN waiting[k] ELSE waiting[k + 1]]  BY DEF Without
<1> HIDE DEF l, wq
<1>3. DOMAIN wq = 1 .. l - 1
      /\ \A k \in 1 .. l - 1 : /\ k < i => wq[k] = waiting[k] /\ k \in 1 .. l
                               /\ ~(k < i) => wq[k] = waiting[k + 1] /\ k + 1 \in 1 .. l
  BY <1>1, <1>2
<1>4. wq \in Seq(Job)
  <2>1. \A k \in 1 .. l - 1 : wq[k] \in Job  BY <1>1, <1>3
  <2>2. wq \in [1 .. l - 1 -> Job]  BY <1>2, <1>3, <2>1
  <2> QED  BY <1>1, <2>2
<1>5. \A m \in 1 .. l : m # i =>
        At(m) \in 1 .. l - 1 /\ wq[At(m)] = waiting[m]
  <2> TAKE m \in 1 .. l
  <2>1. CASE m < i
    <3>1. m \in 1 .. l - 1  BY <1>1, <2>1
    <3> QED  BY <1>3, <2>1, <3>1
  <2>2. CASE i < m
    <3>1. m - 1 \in 1 .. l - 1 /\ ~(m < i) /\ ~(m - 1 < i) /\ (m - 1) + 1 = m  BY <1>1, <2>2
    <3> QED  BY <1>3, <3>1
  <2> QED  BY <1>1, <2>1, <2>2
<1>6. \A k \in 1 .. l - 1 : \E m \in 1 .. l : m # i /\ k = At(m)
  <2> TAKE k \in 1 .. l - 1
  <2>1. CASE k < i  BY <1>1, <2>1
  <2>2. CASE ~(k < i)
    <3>1. k + 1 \in 1 .. l /\ k + 1 # i /\ ~(k + 1 < i) /\ (k + 1) - 1 = k  BY <1>1, <2>2
    <3> QED  BY <3>1
  <2> QED  BY <2>1, <2>2
<1>7. \A m, n \in 1 .. l : m # i /\ n # i /\ m < n => At(m) < At(n)  BY <1>1
<1> HIDE DEF At
<1>8. ToSet(wq) = ToSet(waiting) \ {waiting[i]}
  <2>1. ASSUME NEW x \in ToSet(wq)  PROVE x \in ToSet(waiting) /\ x # waiting[i]
    <3>1. PICK k \in 1 .. l - 1 : x = wq[k]  BY <1>3 DEF ToSet
    <3>2. PICK m \in 1 .. l : m # i /\ k = At(m)  BY <1>6
    <3> QED  BY <1>1, <1>5, <3>1, <3>2 DEF ToSet, IsInjective
  <2>2. ASSUME NEW x \in ToSet(waiting), x # waiting[i]  PROVE x \in ToSet(wq)
    <3>1. PICK m \in 1 .. l : x = waiting[m]  BY <1>1 DEF ToSet
    <3> QED  BY <1>3, <1>5, <2>2, <3>1 DEF ToSet
  <2> QED  BY <2>1, <2>2
<1>9. IsInjective(wq)
  <2>1. ASSUME NEW a \in 1 .. l - 1, NEW b \in 1 .. l - 1, wq[a] = wq[b]  PROVE a = b
    <3>1. PICK m \in 1 .. l : m # i /\ a = At(m)  BY <1>6
    <3>2. PICK n \in 1 .. l : n # i /\ b = At(n)  BY <1>6
    <3> QED  BY <1>1, <1>5, <2>1, <3>1, <3>2 DEF IsInjective
  <2> QED  BY <1>3, <2>1 DEF IsInjective
<1>10. \A m, n \in DOMAIN waiting : m < n /\ m # i /\ n # i =>
         \E a, b \in DOMAIN wq : a < b /\ wq[a] = waiting[m] /\ wq[b] = waiting[n]
  BY <1>1, <1>3, <1>5, <1>7
<1> QED  BY <1>4, <1>8, <1>9, <1>10 DEF wq

\* A move changes the order of the queue and nothing else.
LEMMA MovedParts ==
  ASSUME waiting \in Seq(Job), IsInjective(waiting), NEW from \in HeavyAt, NEW to \in HeavyAt, from # to
  PROVE  /\ Moved(from, to) \in Seq(Job) /\ IsInjective(Moved(from, to))
         /\ ToSet(Moved(from, to)) = ToSet(waiting)
<1> DEFINE l == Len(waiting)  wq == Moved(from, to)
           After(k) == {i \in HeavyAt : k < i}  Ahd(k) == {i \in HeavyAt : i < k}
           Down(k) == k \in HeavyAt /\ from <= k /\ k < to
           Up(k) == k \in HeavyAt /\ to < k /\ k <= from
           p == [k \in 1 .. l |-> IF k = to THEN from ELSE IF Down(k) THEN Min(After(k))
                                  ELSE IF Up(k) THEN Max(Ahd(k)) ELSE k]
<1>1. l \in Nat /\ DOMAIN waiting = 1 .. l /\ HeavyAt \subseteq 1 .. l /\ from \in 1 .. l /\ to \in 1 .. l
      /\ HeavyAt \subseteq Nat /\ \A k \in 1 .. l : waiting[k] \in Job
  BY DEF HeavyAt
<1>2. \A k \in 1 .. l : After(k) # {} => Min(After(k)) \in After(k) /\ \A i \in After(k) : Min(After(k)) <= i
  <2> TAKE k \in 1 .. l
  <2>1. After(k) \subseteq Nat  BY <1>1
  <2> QED  BY <2>1, MinOfPlaces
<1>3. \A k \in 1 .. l : Ahd(k) # {} => Max(Ahd(k)) \in Ahd(k) /\ \A i \in Ahd(k) : i <= Max(Ahd(k))
  <2> TAKE k \in 1 .. l
  <2>1. Ahd(k) \subseteq 1 .. l  BY <1>1
  <2> QED  BY <1>1, <2>1, MaxOfPlaces
<1>4. wq = [k \in 1 .. l |-> waiting[p[k]]]
  <2>1. \A k \in 1 .. l : Moved(from, to)[k] = waiting[p[k]]  BY <1>1 DEF Moved
  <2>2. DOMAIN wq = 1 .. l /\ wq = [k \in DOMAIN wq |-> wq[k]]  BY <1>1 DEF Moved
  <2> HIDE DEF p
  <2> QED  BY <2>1, <2>2
<1> DEFINE next == [k \in 1 .. l |-> Min(After(k))]  prev == [k \in 1 .. l |-> Max(Ahd(k))]
<1>5. \A k \in HeavyAt : k < to => /\ next[k] \in HeavyAt /\ k < next[k] /\ next[k] <= to
                                   /\ \A i \in HeavyAt : k < i => next[k] <= i
  BY <1>1, <1>2
<1>6. \A k \in HeavyAt : to < k => /\ prev[k] \in HeavyAt /\ prev[k] < k /\ to <= prev[k]
                                   /\ \A i \in HeavyAt : i < k => i <= prev[k]
  BY <1>1, <1>3
<1>7. \A k \in HeavyAt : from < k => /\ prev[k] \in HeavyAt /\ prev[k] < k /\ from <= prev[k]
                                     /\ \A i \in HeavyAt : i < k => i <= prev[k]
  BY <1>1, <1>3
<1>8. \A k \in HeavyAt : k < from => /\ next[k] \in HeavyAt /\ k < next[k] /\ next[k] <= from
                                     /\ \A i \in HeavyAt : k < i => next[k] <= i
  BY <1>1, <1>2
<1>9. \A k \in 1 .. l : p[k] = IF k = to THEN from ELSE IF Down(k) THEN next[k] ELSE IF Up(k) THEN prev[k] ELSE k
  OBVIOUS
<1> HIDE DEF l, wq, p, next, prev, After, Ahd
<1>10. \A k \in HeavyAt : k \in 1 .. l /\ k \in Int  BY <1>1
<1>0. from \in Nat /\ to \in Nat /\ (\A k \in HeavyAt : k \in Nat) /\ \A k \in 1 .. l : k \in Nat  BY <1>1
<1>11. \A k \in 1 .. l : p[k] \in 1 .. l
  BY <1>1, <1>5, <1>6, <1>9, <1>10
<1>12. \A a, b \in 1 .. l : a # b => p[a] # p[b]
  <2>1. CASE from < to
    <3>1. \A k \in 1 .. l : ~Up(k)  BY <1>10, <2>1
    <3>2. \A k \in 1 .. l : Down(k) => p[k] = next[k] /\ p[k] \in HeavyAt /\ k < p[k] /\ p[k] <= to
                                       /\ \A i \in HeavyAt : k < i => p[k] <= i
      BY <1>5, <1>9, <1>10
    <3>3. \A k \in 1 .. l : k # to /\ ~Down(k) => p[k] = k  BY <1>9, <3>1
    <3>4. p[to] = from /\ ~Down(to)  BY <1>1, <1>9
    <3>5. ASSUME NEW a \in 1 .. l, NEW b \in 1 .. l, a # b, Down(a)  PROVE p[a] # p[b]
      <4>00. a \in HeavyAt /\ p[a] \in HeavyAt  BY <3>2, <3>5
      <4>0. a \in HeavyAt /\ a \in Nat /\ b \in Nat /\ p[a] \in Nat /\ from \in Nat /\ to \in Nat
        BY <1>0, <4>00
      <4>1. CASE Down(b)
        <5>1. b \in HeavyAt /\ p[b] \in Nat  BY <1>1, <3>2, <4>1
        <5>2. CASE a < b  BY <3>2, <3>5, <4>0, <4>1, <5>1, <5>2
        <5>3. CASE b < a  BY <3>2, <3>5, <4>0, <4>1, <5>1, <5>3
        <5> QED  BY <3>5, <4>0, <5>2, <5>3
      <4>2. CASE b = to  BY <3>2, <3>4, <3>5, <4>0, <4>2
      <4>3. CASE b # to /\ ~Down(b)
        <5>1. p[b] = b  BY <3>3, <4>3
        <5> QED  BY <3>2, <3>5, <4>0, <4>3, <5>1
      <4> QED  BY <4>1, <4>2, <4>3
    <3>6. ASSUME NEW a \in 1 .. l, NEW b \in 1 .. l, a # b, ~Down(a), ~Down(b)  PROVE p[a] # p[b]
      BY <3>3, <3>4, <3>6, <2>1, <1>1
    <3> QED  BY <3>5, <3>6
  <2>2. CASE to < from
    <3>1. \A k \in 1 .. l : ~Down(k)  BY <1>10, <2>2
    <3>2. \A k \in 1 .. l : Up(k) => p[k] = prev[k] /\ p[k] \in HeavyAt /\ p[k] < k /\ to <= p[k]
                                     /\ \A i \in HeavyAt : i < k => i <= p[k]
      BY <1>6, <1>9, <1>10, <3>1
    <3>3. \A k \in 1 .. l : k # to /\ ~Up(k) => p[k] = k  BY <1>9, <3>1
    <3>4. p[to] = from /\ ~Up(to)  BY <1>1, <1>9
    <3>5. ASSUME NEW a \in 1 .. l, NEW b \in 1 .. l, a # b, Up(a)  PROVE p[a] # p[b]
      <4>00. a \in HeavyAt /\ p[a] \in HeavyAt  BY <3>2, <3>5
      <4>0. a \in HeavyAt /\ a \in Nat /\ b \in Nat /\ p[a] \in Nat /\ from \in Nat /\ to \in Nat
        BY <1>0, <4>00
      <4>1. CASE Up(b)
        <5>1. b \in HeavyAt /\ p[b] \in Nat  BY <1>1, <3>2, <4>1
        <5>2. CASE a < b  BY <3>2, <3>5, <4>0, <4>1, <5>1, <5>2
        <5>3. CASE b < a  BY <3>2, <3>5, <4>0, <4>1, <5>1, <5>3
        <5> QED  BY <3>5, <4>0, <5>2, <5>3
      <4>2. CASE b = to  BY <3>2, <3>4, <3>5, <4>0, <4>2
      <4>3. CASE b # to /\ ~Up(b)
        <5>1. p[b] = b  BY <3>3, <4>3
        <5> QED  BY <3>2, <3>5, <4>0, <4>3, <5>1
      <4> QED  BY <4>1, <4>2, <4>3
    <3>6. ASSUME NEW a \in 1 .. l, NEW b \in 1 .. l, a # b, ~Up(a), ~Up(b)  PROVE p[a] # p[b]
      BY <3>3, <3>4, <3>6, <2>2, <1>1
    <3> QED  BY <3>5, <3>6
  <2> QED  BY <1>10, <2>1, <2>2
<1>13. \A i \in 1 .. l : \E k \in 1 .. l : p[k] = i
  <2> TAKE i \in 1 .. l
  <2>1. CASE i = from  BY <1>1, <1>9, <2>1
  <2>2. CASE i \in HeavyAt /\ from < i /\ i <= to
    <3>1. prev[i] \in HeavyAt /\ from <= prev[i] /\ prev[i] < i  BY <1>7, <2>2
    <3>0. prev[i] \in Nat /\ i \in Nat /\ to \in Nat /\ prev[i] \in 1 .. l  BY <1>0, <1>10, <3>1
    <3>2. Down(prev[i]) /\ prev[i] # to /\ prev[i] \in 1 .. l /\ prev[i] < to  BY <3>0, <3>1, <2>2
    <3>3. p[prev[i]] = next[prev[i]]  BY <3>2, <1>9
    <3>4. next[prev[i]] = i
      <4>1. next[prev[i]] <= i /\ prev[i] < next[prev[i]] /\ next[prev[i]] \in HeavyAt  BY <1>5, <2>2, <3>1, <3>2
      <4>2. \A h \in HeavyAt : h < i => h <= prev[i]  BY <1>7, <2>2
      <4> QED  BY <4>1, <4>2, <3>1, <1>10
    <3> QED  BY <3>2, <3>3, <3>4
  <2>3. CASE i \in HeavyAt /\ to <= i /\ i < from
    <3>1. next[i] \in HeavyAt /\ next[i] <= from /\ i < next[i]  BY <1>8, <2>3
    <3>0. next[i] \in Nat /\ i \in Nat /\ to \in Nat /\ next[i] \in 1 .. l  BY <1>0, <1>10, <3>1
    <3>2. Up(next[i]) /\ ~Down(next[i]) /\ next[i] # to /\ next[i] \in 1 .. l /\ to < next[i]  BY <3>0, <3>1, <2>3
    <3>3. p[next[i]] = prev[next[i]]  BY <3>2, <1>9
    <3>4. prev[next[i]] = i
      <4>1. i <= prev[next[i]] /\ prev[next[i]] < next[i] /\ prev[next[i]] \in HeavyAt  BY <1>6, <2>3, <3>1, <3>2
      <4>2. \A h \in HeavyAt : i < h => next[i] <= h  BY <1>8, <2>3
      <4> QED  BY <4>1, <4>2, <3>1, <1>10
    <3> QED  BY <3>2, <3>3, <3>4
  <2>4. CASE i # from /\ ~(i \in HeavyAt /\ from < i /\ i <= to) /\ ~(i \in HeavyAt /\ to <= i /\ i < from)
    <3>1. i # to /\ ~Down(i) /\ ~Up(i)  BY <2>4, <1>1, <1>10
    <3> QED  BY <3>1, <1>9
  <2> QED  BY <2>1, <2>2, <2>3, <2>4
<1>14. DOMAIN wq = 1 .. l /\ \A k \in 1 .. l : wq[k] = waiting[p[k]] /\ wq[k] \in Job  BY <1>1, <1>4, <1>11
<1>15. wq \in Seq(Job)
  <2>1. wq \in [1 .. l -> Job]  BY <1>4, <1>14
  <2> QED  BY <1>1, <2>1
<1>16. IsInjective(wq)
  <2>1. ASSUME NEW a \in 1 .. l, NEW b \in 1 .. l, wq[a] = wq[b]  PROVE a = b
    <3>1. p[a] = p[b]  BY <1>1, <1>11, <1>14, <2>1 DEF IsInjective
    <3> QED  BY <1>12, <3>1
  <2> QED  BY <1>14, <2>1 DEF IsInjective
<1>17. ToSet(wq) = ToSet(waiting)
  <2>1. ASSUME NEW x \in ToSet(wq)  PROVE x \in ToSet(waiting)  BY <1>1, <1>11, <1>14 DEF ToSet
  <2>2. ASSUME NEW x \in ToSet(waiting)  PROVE x \in ToSet(wq)
    <3>1. PICK i \in 1 .. l : x = waiting[i]  BY <1>1 DEF ToSet
    <3>2. PICK k \in 1 .. l : p[k] = i  BY <1>13
    <3> QED  BY <1>14, <3>1, <3>2 DEF ToSet
  <2> QED  BY <2>1, <2>2
<1> QED  BY <1>15, <1>16, <1>17 DEF wq
-----------------------------------------------------------------------------
(* The records, the queue, the locks and the slots agree.                  *)

\* The invariant of the queue: it needs no assumption on what the jobs do.
QInv ==
  /\ TypeOK /\ IsFiniteSet(slots) /\ orders \in Nat
  /\ RecordsAgree
  /\ NobodyWaitsForNothing

\* What a step shows: the invariant goes on, who begins respects the limit and overtakes nobody.
SoundStep == QInv' /\ SlotsAreRespectedStep /\ NobodyOvertakesStep

LEMMA StateAgrees ==
  ASSUME KindsAreJobs, QInv
  PROVE  /\ PumpArgs(job, waiting, lockOwner, slots, limit)
         /\ Agrees(job, waiting, lockOwner, slots, status)
<1>1. GoodRecords(job)  BY DEF KindsAreJobs, QInv, TypeOK, GoodRecords
<1>2. slots \cap ToSet(waiting) = {}
  <2>1. \A j \in slots : j \in Job /\ status[j] = "running"  BY DEF QInv, RecordsAgree, Running
  <2>2. \A j \in Job : status[j] = "queued" <=> j \in ToSet(waiting)  BY DEF QInv, RecordsAgree
  <2> QED  BY <2>1, <2>2
<1>3. /\ waiting \in Seq(Job) /\ lockOwner \in [Lock -> Job \cup {None}] /\ slots \in SUBSET Job /\ IsFiniteSet(slots)
      /\ status \in [Job -> Statuses] /\ IsInjective(waiting)
  BY DEF QInv, TypeOK, RecordsAgree
<1>4. limit \in Nat  BY DEF QInv, TypeOK, KindsAreJobs
<1>5. PumpArgs(job, waiting, lockOwner, slots, limit)  BY <1>1, <1>2, <1>3, <1>4 DEF PumpArgs
<1>6. Agrees(job, waiting, lockOwner, slots, status)
  <2>1. /\ \A j \in Job : status[j] = "queued" <=> j \in ToSet(waiting)
        /\ slots = {j \in Job : status[j] = "running" /\ job[j].claims}
        /\ \A j \in Job : status[j] = "running" /\ job[j].owner => lockOwner[job[j].lock] = j
        /\ \A l \in Lock : lockOwner[l] # None =>
             status[lockOwner[l]] = "running" /\ job[lockOwner[l]].owner /\ job[lockOwner[l]].lock = l
    BY DEF QInv, RecordsAgree, Running
  <2> QED  BY <1>3, <2>1 DEF Agrees
<1> QED  BY <1>5, <1>6

\* Only an order makes a job run that _pump did not begin.
ByAdmission(st) ==
  \A j \in Job : st[j] = "running" => status[j] = "running" \/ (j \in forced' /\ orders' # orders)

\* Without an order the queue keeps its order, and who joins is last.
InFront(i, j) ==
  /\ i \in ToSet(waiting)
  /\ j \in ToSet(waiting) => \E m, n \in DOMAIN waiting : m < n /\ waiting[m] = i /\ waiting[n] = j
KeepsOrder(wq) ==
  orders' = orders => \A i, j \in ToSet(wq) : InFront(i, j) => \E a, b \in DOMAIN wq : a < b /\ wq[a] = i /\ wq[b] = j

\* What an operation has to show of what it hands to _pump, and of what else it changes.
HandedOn(wq, lo, sl, st, ex) ==
  /\ PumpArgs(job', wq, lo, sl, limit') /\ Agrees(job', wq, lo, sl, st)
  /\ ex \subseteq Job /\ ByAdmission(st) /\ KeepsOrder(wq)
  /\ limit' \in 1 .. MaxPerServer /\ orders' \in Nat
  /\ forced' \subseteq Job /\ aborted' \subseteq Job /\ saved' \in [Job -> Statuses]

LEMMA PumpStep ==
  ASSUME KindsAreJobs, QInv, NEW wq, NEW lo, NEW sl, NEW st, NEW ex,
         Pump(job', wq, lo, sl, limit', st, ex), HandedOn(wq, lo, sl, st, ex)
  PROVE  SoundStep /\ PumpBegins(wq, lo, st, ex)
<1>1. /\ PumpArgs(job', wq, lo, sl, limit') /\ Agrees(job', wq, lo, sl, st) /\ ex \subseteq Job
      /\ ByAdmission(st) /\ KeepsOrder(wq)
      /\ limit' \in 1 .. MaxPerServer /\ orders' \in Nat
      /\ forced' \subseteq Job /\ aborted' \subseteq Job /\ saved' \in [Job -> Statuses]
  BY DEF HandedOn
<1>2. called \subseteq Job  BY DEF QInv, TypeOK
<1>3. PumpTypes(ex) /\ RecordsAgree' /\ NobodyWaitsForNothing' /\ PumpBegins(wq, lo, st, ex) /\ PumpRespects(wq)
  BY <1>1, <1>2, PumpParts
<1>4. TypeOK' /\ IsFiniteSet(slots')
  <2>1. /\ job' \in [Job -> Records]
        /\ \A j \in Job : /\ job'[j].owner => job'[j].lock # None
                          /\ job'[j].claims => job'[j].servers # {}
    BY <1>1 DEF PumpArgs, GoodRecords
  <2> QED  BY <1>1, <1>3, <2>1 DEF TypeOK, PumpTypes
<1>5. QInv'  BY <1>1, <1>3, <1>4 DEF QInv
<1>6. \A j \in Begins : j \in Job /\ (j \in Admitted(wq) \/ (j \in forced' /\ orders' # orders))
  BY <1>1, <1>3 DEF PumpBegins, Begins, ByAdmission
<1>7. SlotsAreRespectedStep  BY <1>3, <1>6 DEF SlotsAreRespectedStep, PumpRespects
<1>8. NobodyOvertakesStep
  <2>1. SUFFICES ASSUME orders' = orders, NEW j \in Begins, NEW i \in Job, Ahead(i, j)
                 PROVE ~SameLock(i, j) /\ (SameServer(i, j) => ShortOfLock(i))
    BY DEF NobodyOvertakesStep
  <2>2. j \in Admitted(wq) /\ j \in ToSet(wq)  BY <1>6, <2>1 DEF Admitted
  <2>3. i \in ToSet(waiting') /\ i \in ToSet(wq) /\ InFront(i, j)
    BY <1>3, <2>1 DEF Ahead, PumpBegins, InFront
  <2>4. PICK a, b \in DOMAIN wq : a < b /\ wq[a] = i /\ wq[b] = j  BY <1>1, <2>1, <2>2, <2>3 DEF KeepsOrder
  <2> QED  BY <1>3, <2>2, <2>3, <2>4 DEF PumpRespects
<1> QED  BY <1>3, <1>5, <1>7, <1>8 DEF SoundStep

\* What is held around a job is of its type.
Held(held) == held.locks \subseteq Lock /\ held.heavy \in Job \cup {None} /\ held.parent \in Job \cup {None}

LEMMA RecordsAreMade ==
  ASSUME KindsAreJobs, NEW kind \in [lock : Lock \cup {None}, servers : SUBSET Server], NEW held, Held(held)
  PROVE  /\ Record(kind, held) \in Records
         /\ Record(kind, held).owner => Record(kind, held).lock # None
         /\ Record(kind, held).claims => Record(kind, held).servers # {}
BY DEF Record, Records, Held

\* A job is started: it joins the queue.
LEMMA StartKeeps ==
  ASSUME KindsAreJobs, QInv, NEW j \in Job, NEW kind \in [lock : Lock \cup {None}, servers : SUBSET Server],
         NEW held, Held(held), StartIn(j, kind, held)
  PROVE  /\ SoundStep
         /\ PumpBegins(Append(waiting, j), lockOwner, [status EXCEPT ![j] = "queued"], executing)
<1> DEFINE wq == Append(waiting, j)  st == [status EXCEPT ![j] = "queued"]
<1>1. PumpArgs(job, waiting, lockOwner, slots, limit) /\ Agrees(job, waiting, lockOwner, slots, status)
  BY StateAgrees
<1>2. /\ status[j] = "none" /\ job' = [job EXCEPT ![j] = Record(kind, held)]
      /\ Pump(job', wq, lockOwner, slots, limit', st, executing)
      /\ UNCHANGED <<forced, aborted, limit, saved, orders>>
  BY DEF StartIn
<1>3. GoodRecords(job')
  <2>1. GoodRecords(job)  BY <1>1 DEF PumpArgs
  <2> QED  BY <1>2, <2>1, RecordsAreMade DEF GoodRecords
<1>4. j \notin ToSet(waiting)  BY <1>1, <1>2 DEF Agrees
<1>5. /\ waiting \in Seq(Job) /\ IsInjective(waiting) /\ ToSet(waiting) \subseteq Job
      /\ status \in [Job -> Statuses] /\ job \in [Job -> Records]
  BY <1>1 DEF PumpArgs, ToSet, Agrees, GoodRecords
<1>6. /\ wq \in Seq(Job) /\ IsInjective(wq) /\ ToSet(wq) = ToSet(waiting) \cup {j}
      /\ \A m \in DOMAIN waiting : m \in DOMAIN wq /\ wq[m] = waiting[m] /\ m < Len(waiting) + 1
      /\ Len(waiting) + 1 \in DOMAIN wq /\ wq[Len(waiting) + 1] = j
  BY <1>4, <1>5, LastJoins
<1> HIDE DEF wq
<1>7. j \notin slots /\ \A l \in Lock : lockOwner[l] # j
  <2>1. \A l \in Lock : lockOwner[l] = j => lockOwner[l] # None  BY DEF KindsAreJobs
  <2> QED  BY <1>1, <1>2, <2>1 DEF Agrees
<1>8. PumpArgs(job', wq, lockOwner, slots, limit')
  BY <1>1, <1>2, <1>3, <1>6, <1>7 DEF PumpArgs
<1>9. Agrees(job', wq, lockOwner, slots, st)
  <2>0. st \in [Job -> Statuses]  BY <1>5 DEF Statuses
  <2>1. \A x \in Job : x # j => st[x] = status[x] /\ job'[x] = job[x]  BY <1>2, <1>5
  <2>2. st[j] = "queued"  BY <1>5
  <2> HIDE DEF st
  <2>3. \A x \in Job : st[x] = "queued" <=> x \in ToSet(wq)  BY <1>1, <1>6, <2>1, <2>2 DEF Agrees
  <2>4. slots = {x \in Job : st[x] = "running" /\ job'[x].claims}
    <3>1. \A x \in Job : st[x] = "running" /\ job'[x].claims <=> status[x] = "running" /\ job[x].claims
      BY <1>2, <2>1, <2>2
    <3> QED  BY <1>1, <3>1 DEF Agrees
  <2>5. \A l \in Lock : lockOwner[l] # None =>
          st[lockOwner[l]] = "running" /\ job'[lockOwner[l]].owner /\ job'[lockOwner[l]].lock = l
    BY <1>1, <1>7, <2>1 DEF Agrees, PumpArgs
  <2>6. \A x \in Job : st[x] = "running" /\ job'[x].owner => lockOwner[job'[x].lock] = x
    BY <1>1, <2>1, <2>2 DEF Agrees
  <2> QED  BY <2>0, <2>3, <2>4, <2>5, <2>6 DEF Agrees
<1>10. ByAdmission(st)  BY <1>5 DEF ByAdmission
<1>11. KeepsOrder(wq)
  <2>1. ASSUME NEW x \in ToSet(wq), NEW y \in ToSet(wq), InFront(x, y)
        PROVE \E a, b \in DOMAIN wq : a < b /\ wq[a] = x /\ wq[b] = y
    <3>1. CASE y \in ToSet(waiting)  BY <1>6, <2>1, <3>1 DEF InFront
    <3>2. CASE y \notin ToSet(waiting)
      <4>1. y = j  BY <1>6, <3>2
      <4>2. PICK m \in DOMAIN waiting : waiting[m] = x  BY <2>1 DEF InFront, ToSet
      <4> QED  BY <1>6, <4>1, <4>2
    <3> QED  BY <3>1, <3>2
  <2> QED  BY <2>1 DEF KeepsOrder
<1>12. /\ limit' \in 1 .. MaxPerServer /\ orders' \in Nat /\ executing \subseteq Job
       /\ forced' \subseteq Job /\ aborted' \subseteq Job /\ saved' \in [Job -> Statuses]
  BY <1>2 DEF QInv, TypeOK
<1>13. HandedOn(wq, lockOwner, slots, st, executing)
  <2> HIDE DEF st
  <2> QED  BY <1>8, <1>9, <1>10, <1>11, <1>12 DEF HandedOn
<1>14. SoundStep /\ PumpBegins(wq, lockOwner, st, executing)
  <2> HIDE DEF st
  <2> QED  BY <1>2, <1>13, PumpStep
<1> QED  BY <1>14 DEF wq

\* Only the job that took the lock gives it back.
LEMMA FreedParts ==
  ASSUME KindsAreJobs, QInv, NEW j \in Job
  PROVE  /\ Freed(j) \in [Lock -> Job \cup {None}]
         /\ \A l \in Lock : Freed(j)[l] = IF lockOwner[l] = j THEN None ELSE lockOwner[l]
<1>1. lockOwner \in [Lock -> Job \cup {None}] /\ None \notin Job \cup Lock  BY DEF QInv, TypeOK, KindsAreJobs
<1>2. \A l \in Lock : lockOwner[l] # None => job[lockOwner[l]].lock = l  BY DEF QInv, RecordsAgree
<1>3. CASE \E l \in Lock : lockOwner[l] = j
  <2>1. PICK k \in Lock : lockOwner[k] = j  BY <1>3
  <2>2. job[j].lock = k /\ \A l \in Lock : lockOwner[l] = j => l = k  BY <1>1, <1>2, <2>1
  <2>3. Freed(j) = [lockOwner EXCEPT ![k] = None]  BY <1>3, <2>2 DEF Freed
  <2> QED  BY <1>1, <2>1, <2>2, <2>3
<1>4. CASE ~ \E l \in Lock : lockOwner[l] = j  BY <1>1, <1>4 DEF Freed
<1> QED  BY <1>3, <1>4

\* A running job ends: its lock and its slots are free.
LEMMA FinishKeeps ==
  ASSUME KindsAreJobs, QInv, NEW j \in Job, status[j] = "running", NEW outcome \in {"ended", "cancelled"},
         NEW ex, ex \subseteq executing, Finish(j, outcome, ex)
  PROVE  SoundStep /\ PumpBegins(waiting, Freed(j), [status EXCEPT ![j] = outcome], ex)
<1> DEFINE lo == Freed(j)  sl == slots \ {j}  st == [status EXCEPT ![j] = outcome]
<1>1. PumpArgs(job, waiting, lockOwner, slots, limit) /\ Agrees(job, waiting, lockOwner, slots, status)
  BY StateAgrees
<1>2. /\ Pump(job', waiting, lo, sl, limit', st, ex)
      /\ UNCHANGED <<job, forced, aborted, limit, saved, orders>>
  BY DEF Finish
<1>3. /\ lockOwner \in [Lock -> Job \cup {None}] /\ status \in [Job -> Statuses] /\ None \notin Job \cup Lock
      /\ GoodRecords(job)
  BY <1>1 DEF PumpArgs, Agrees, GoodRecords
<1>5. \A l \in Lock : lo[l] = IF lockOwner[l] = j THEN None ELSE lockOwner[l]  BY FreedParts
<1>6. lo \in [Lock -> Job \cup {None}]  BY FreedParts
<1> HIDE DEF lo
<1>7. IsFiniteSet(sl)  BY <1>1, FS_Subset DEF PumpArgs
<1>8. PumpArgs(job', waiting, lo, sl, limit')
  BY <1>1, <1>2, <1>6, <1>7 DEF PumpArgs
<1>9. Agrees(job', waiting, lo, sl, st)
  <2>0. st \in [Job -> Statuses]  BY <1>3 DEF Statuses
  <2>1. \A x \in Job : st[x] = IF x = j THEN outcome ELSE status[x]  BY <1>3
  <2> HIDE DEF st
  <2>2. \A x \in Job : st[x] = "queued" <=> x \in ToSet(waiting)  BY <1>1, <2>1 DEF Agrees
  <2>3. \A x \in Job : st[x] = "running" <=> status[x] = "running" /\ x # j  BY <2>1
  <2>4. sl = {x \in Job : st[x] = "running" /\ job'[x].claims}  BY <1>1, <1>2, <2>3 DEF Agrees
  <2>5. ASSUME NEW l \in Lock, lo[l] # None
        PROVE st[lo[l]] = "running" /\ job'[lo[l]].owner /\ job'[lo[l]].lock = l
    <3>1. lo[l] = lockOwner[l] /\ lo[l] # j  BY <1>5, <2>5
    <3>2. status[lo[l]] = "running" /\ job[lo[l]].owner /\ job[lo[l]].lock = l  BY <1>1, <2>5, <3>1 DEF Agrees
    <3>3. lo[l] \in Job  BY <1>6, <2>5
    <3> QED  BY <1>2, <2>3, <3>1, <3>2, <3>3
  <2>6. ASSUME NEW x \in Job, st[x] = "running", job'[x].owner  PROVE lo[job'[x].lock] = x
    <3>1. lockOwner[job[x].lock] = x /\ x # j  BY <1>1, <1>2, <2>3, <2>6 DEF Agrees
    <3>2. job[x].lock \in Lock  BY <1>2, <1>3, <2>6, RecordParts
    <3> QED  BY <1>2, <1>5, <3>1, <3>2
  <2> QED  BY <2>0, <2>2, <2>4, <2>5, <2>6 DEF Agrees
<1>10. ByAdmission(st)  BY <1>3 DEF ByAdmission
<1>11. KeepsOrder(waiting)  BY DEF KeepsOrder, InFront
<1>12. /\ limit' \in 1 .. MaxPerServer /\ orders' \in Nat /\ ex \subseteq Job
       /\ forced' \subseteq Job /\ aborted' \subseteq Job /\ saved' \in [Job -> Statuses]
  BY <1>2 DEF QInv, TypeOK
<1> HIDE DEF st, sl
<1>13. HandedOn(waiting, lo, sl, st, ex)  BY <1>8, <1>9, <1>10, <1>11, <1>12 DEF HandedOn
<1>14. SoundStep /\ PumpBegins(waiting, lo, st, ex)  BY <1>2, <1>13, PumpStep
<1> QED  BY <1>14 DEF lo, st

\* A job that waits is cancelled: the others keep their order.
LEMMA CancelQueuedKeeps ==
  ASSUME KindsAreJobs, QInv, NEW i \in DOMAIN waiting, CancelQueued(i)
  PROVE  /\ SoundStep
         /\ PumpBegins(Without(i), lockOwner, [status EXCEPT ![waiting[i]] = "cancelled"], executing)
<1> DEFINE wq == Without(i)  j == waiting[i]  st == [status EXCEPT ![j] = "cancelled"]
<1>1. PumpArgs(job, waiting, lockOwner, slots, limit) /\ Agrees(job, waiting, lockOwner, slots, status)
  BY StateAgrees
<1>2. /\ Pump(job', wq, lockOwner, slots, limit', st, executing)
      /\ UNCHANGED <<job, forced, aborted, limit, saved, orders>>
  BY DEF CancelQueued
<1>3. /\ waiting \in Seq(Job) /\ IsInjective(waiting) /\ status \in [Job -> Statuses]
      /\ lockOwner \in [Lock -> Job \cup {None}] /\ None \notin Job
  BY <1>1 DEF PumpArgs, Agrees, GoodRecords
<1>4. j \in Job /\ j \in ToSet(waiting)  BY <1>3 DEF ToSet
<1>5. /\ wq \in Seq(Job) /\ IsInjective(wq) /\ ToSet(wq) = ToSet(waiting) \ {j}
      /\ \A m, n \in DOMAIN waiting : m < n /\ m # i /\ n # i =>
           \E a, b \in DOMAIN wq : a < b /\ wq[a] = waiting[m] /\ wq[b] = waiting[n]
  BY <1>3, WithoutParts
<1> HIDE DEF wq
<1>6. PumpArgs(job', wq, lockOwner, slots, limit')  BY <1>1, <1>2, <1>5 DEF PumpArgs
<1>7. Agrees(job', wq, lockOwner, slots, st)
  <2>0. st \in [Job -> Statuses]  BY <1>3 DEF Statuses
  <2>1. \A x \in Job : st[x] = IF x = j THEN "cancelled" ELSE status[x]  BY <1>3
  <2>2. status[j] = "queued"  BY <1>1, <1>4 DEF Agrees
  <2> HIDE DEF st, j
  <2>3. \A x \in Job : st[x] = "queued" <=> x \in ToSet(wq)  BY <1>1, <1>5, <2>1 DEF Agrees
  <2>4. \A x \in Job : st[x] = "running" <=> status[x] = "running"  BY <2>1, <2>2
  <2>5. slots = {x \in Job : st[x] = "running" /\ job'[x].claims}  BY <1>1, <1>2, <2>4 DEF Agrees
  <2>6. \A l \in Lock : lockOwner[l] # None =>
          st[lockOwner[l]] = "running" /\ job'[lockOwner[l]].owner /\ job'[lockOwner[l]].lock = l
    BY <1>1, <1>2, <1>3, <2>4 DEF Agrees
  <2>7. \A x \in Job : st[x] = "running" /\ job'[x].owner => lockOwner[job'[x].lock] = x
    BY <1>1, <1>2, <2>4 DEF Agrees
  <2> QED  BY <2>0, <2>3, <2>5, <2>6, <2>7 DEF Agrees
<1>8. ByAdmission(st)  BY <1>3 DEF ByAdmission
<1>9. KeepsOrder(wq)
  <2>1. ASSUME NEW x \in ToSet(wq), NEW y \in ToSet(wq), InFront(x, y)
        PROVE \E a, b \in DOMAIN wq : a < b /\ wq[a] = x /\ wq[b] = y
    <3>1. x # j /\ y # j /\ y \in ToSet(waiting)  BY <1>5
    <3>2. PICK m, n \in DOMAIN waiting : m < n /\ waiting[m] = x /\ waiting[n] = y  BY <2>1, <3>1 DEF InFront
    <3>3. m # i /\ n # i  BY <3>1, <3>2
    <3> QED  BY <1>5, <3>2, <3>3
  <2> QED  BY <2>1 DEF KeepsOrder
<1>10. /\ limit' \in 1 .. MaxPerServer /\ orders' \in Nat /\ executing \subseteq Job
       /\ forced' \subseteq Job /\ aborted' \subseteq Job /\ saved' \in [Job -> Statuses]
  BY <1>2 DEF QInv, TypeOK
<1> HIDE DEF st
<1>11. HandedOn(wq, lockOwner, slots, st, executing)  BY <1>6, <1>7, <1>8, <1>9, <1>10 DEF HandedOn
<1>12. SoundStep /\ PumpBegins(wq, lockOwner, st, executing)  BY <1>2, <1>11, PumpStep
<1> QED  BY <1>12 DEF wq, st

\* A heavy job is forced to start: only its lock has to be free.
LEMMA ForceKeeps ==
  ASSUME KindsAreJobs, QInv, NEW i \in DOMAIN waiting, ForceStart(i)
  PROVE  /\ SoundStep
         /\ \E lo \in [Lock -> Job \cup {None}] :
              /\ \A l \in Lock : lockOwner[l] # None => lo[l] = lockOwner[l]
              /\ PumpBegins(Without(i), lo, [status EXCEPT ![waiting[i]] = "running"], executing \cup {waiting[i]})
<1> DEFINE wq == Without(i)  j == waiting[i]  st == [status EXCEPT ![j] = "running"]
           lo == IF job[j].owner THEN [lockOwner EXCEPT ![job[j].lock] = j] ELSE lockOwner
           sl == slots \cup {j}
<1>1. PumpArgs(job, waiting, lockOwner, slots, limit) /\ Agrees(job, waiting, lockOwner, slots, status)
  BY StateAgrees
<1>2. job[j].claims /\ (job[j].owner => lockOwner[job[j].lock] = None)  BY DEF ForceStart, HeavyAt
<1>3. /\ Pump(job', wq, lo, sl, limit', st, executing \cup {j})
      /\ forced' = forced \cup {j} /\ orders' = orders + 1
      /\ UNCHANGED <<job, aborted, limit, saved>>
  BY <1>2 DEF ForceStart, Ordered, Forces, Begun
<1>4. /\ waiting \in Seq(Job) /\ IsInjective(waiting) /\ status \in [Job -> Statuses]
      /\ lockOwner \in [Lock -> Job \cup {None}] /\ None \notin Job /\ GoodRecords(job)
      /\ slots \subseteq Job /\ slots \cap ToSet(waiting) = {} /\ IsFiniteSet(slots)
  BY <1>1 DEF PumpArgs, Agrees, GoodRecords
<1>5. j \in Job /\ j \in ToSet(waiting)  BY <1>4 DEF ToSet
<1>6. wq \in Seq(Job) /\ IsInjective(wq) /\ ToSet(wq) = ToSet(waiting) \ {j}  BY <1>4, WithoutParts
<1>7. job[j].owner => job[j].lock \in Lock  BY <1>4, <1>5, RecordParts
<1>8. lo \in [Lock -> Job \cup {None}]  BY <1>4, <1>5, <1>7
<1>9. /\ \A l \in Lock : lo[l] # lockOwner[l] => lo[l] = j /\ job[j].owner /\ job[j].lock = l
      /\ \A l \in Lock : lockOwner[l] # None => lo[l] = lockOwner[l]
      /\ job[j].owner => lo[job[j].lock] = j
  BY <1>2, <1>4, <1>7
<1>10. IsFiniteSet(sl)  BY <1>4, FS_AddElement
<1> HIDE DEF wq, lo
<1>11. PumpArgs(job', wq, lo, sl, limit')
  BY <1>1, <1>3, <1>4, <1>5, <1>6, <1>8, <1>10 DEF PumpArgs
<1>12. Agrees(job', wq, lo, sl, st)
  <2>0. st \in [Job -> Statuses]  BY <1>4 DEF Statuses
  <2>1. \A x \in Job : st[x] = IF x = j THEN "running" ELSE status[x]  BY <1>4
  <2>2. status[j] = "queued"  BY <1>1, <1>5 DEF Agrees
  <2> HIDE DEF st, j
  <2>3. \A x \in Job : st[x] = "queued" <=> x \in ToSet(wq)  BY <1>1, <1>6, <2>1 DEF Agrees
  <2>4. \A x \in Job : st[x] = "running" <=> status[x] = "running" \/ x = j  BY <2>1
  <2>5. sl = {x \in Job : st[x] = "running" /\ job'[x].claims}
    <3>1. slots = {x \in Job : status[x] = "running" /\ job[x].claims}  BY <1>1 DEF Agrees
    <3>2. \A x \in Job : st[x] = "running" /\ job'[x].claims <=> (status[x] = "running" /\ job[x].claims) \/ x = j
      BY <1>2, <1>3, <2>4
    <3> QED  BY <1>5, <3>1, <3>2
  <2>6. ASSUME NEW l \in Lock, lo[l] # None
        PROVE st[lo[l]] = "running" /\ job'[lo[l]].owner /\ job'[lo[l]].lock = l
    <3>1. CASE lo[l] = lockOwner[l]
      <4>1. status[lo[l]] = "running" /\ job[lo[l]].owner /\ job[lo[l]].lock = l  BY <1>1, <2>6, <3>1 DEF Agrees
      <4>2. lo[l] \in Job  BY <1>8, <2>6
      <4> QED  BY <1>3, <2>4, <4>1, <4>2
    <3>2. CASE lo[l] # lockOwner[l]  BY <1>3, <1>5, <1>9, <2>4, <3>2
    <3> QED  BY <3>1, <3>2
  <2>7. ASSUME NEW x \in Job, st[x] = "running", job'[x].owner  PROVE lo[job'[x].lock] = x
    <3>1. CASE x = j  BY <1>3, <1>9, <2>7, <3>1
    <3>2. CASE x # j
      <4>1. lockOwner[job[x].lock] = x  BY <1>1, <1>3, <2>4, <2>7, <3>2 DEF Agrees
      <4>2. job[x].lock \in Lock  BY <1>3, <1>4, <2>7, RecordParts
      <4> QED  BY <1>3, <1>4, <1>9, <4>1, <4>2
    <3> QED  BY <3>1, <3>2
  <2> QED  BY <2>0, <2>3, <2>5, <2>6, <2>7 DEF Agrees
<1>13. orders' # orders /\ orders' \in Nat  BY <1>3 DEF QInv
<1>14. ByAdmission(st)
  <2>1. \A x \in Job : st[x] = IF x = j THEN "running" ELSE status[x]  BY <1>4
  <2> HIDE DEF st, j
  <2> QED  BY <1>3, <1>13, <2>1 DEF ByAdmission
<1>15. KeepsOrder(wq)  BY <1>13 DEF KeepsOrder
<1>16. /\ limit' \in 1 .. MaxPerServer /\ executing \cup {j} \subseteq Job
       /\ forced' \subseteq Job /\ aborted' \subseteq Job /\ saved' \in [Job -> Statuses]
  BY <1>3, <1>5 DEF QInv, TypeOK
<1> HIDE DEF st, sl
<1>17. HandedOn(wq, lo, sl, st, executing \cup {j})  BY <1>11, <1>12, <1>13, <1>14, <1>15, <1>16 DEF HandedOn
<1>18. SoundStep /\ PumpBegins(wq, lo, st, executing \cup {j})  BY <1>3, <1>17, PumpStep
<1> QED  BY <1>8, <1>9, <1>18 DEF wq, st

\* A heavy job is moved, or the limit is changed.
LEMMA MoveKeeps ==
  ASSUME KindsAreJobs, QInv, NEW from \in DOMAIN waiting, NEW to \in DOMAIN waiting, Move(from, to)
  PROVE  SoundStep /\ PumpBegins(Moved(from, to), lockOwner, status, executing)
<1> DEFINE wq == Moved(from, to)
<1>1. PumpArgs(job, waiting, lockOwner, slots, limit) /\ Agrees(job, waiting, lockOwner, slots, status)
  BY StateAgrees
<1>2. /\ Pump(job', wq, lockOwner, slots, limit', status, executing) /\ orders' = orders + 1
      /\ from \in HeavyAt /\ to \in HeavyAt /\ from # to
      /\ UNCHANGED <<job, forced, aborted, limit, saved>>
  BY DEF Move, Ordered
<1>3. waiting \in Seq(Job) /\ IsInjective(waiting)  BY <1>1 DEF PumpArgs
<1>4. wq \in Seq(Job) /\ IsInjective(wq) /\ ToSet(wq) = ToSet(waiting)  BY <1>2, <1>3, MovedParts
<1> HIDE DEF wq
<1>5. PumpArgs(job', wq, lockOwner, slots, limit')  BY <1>1, <1>2, <1>4 DEF PumpArgs
<1>6. Agrees(job', wq, lockOwner, slots, status)  BY <1>1, <1>2, <1>4 DEF Agrees
<1>7. orders' # orders /\ orders' \in Nat  BY <1>2 DEF QInv
<1>8. ByAdmission(status) /\ KeepsOrder(wq)  BY <1>7 DEF ByAdmission, KeepsOrder
<1>9. /\ limit' \in 1 .. MaxPerServer /\ executing \subseteq Job
      /\ forced' \subseteq Job /\ aborted' \subseteq Job /\ saved' \in [Job -> Statuses]
  BY <1>2 DEF QInv, TypeOK
<1>10. HandedOn(wq, lockOwner, slots, status, executing)  BY <1>5, <1>6, <1>7, <1>8, <1>9 DEF HandedOn
<1>11. SoundStep /\ PumpBegins(wq, lockOwner, status, executing)  BY <1>2, <1>10, PumpStep
<1> QED  BY <1>11 DEF wq

LEMMA LimitKeeps ==
  ASSUME KindsAreJobs, QInv, NEW n \in 0 .. MaxPerServer + 1, SetPerServer(n)
  PROVE  SoundStep /\ PumpBegins(waiting, lockOwner, status, executing)
<1>1. PumpArgs(job, waiting, lockOwner, slots, limit) /\ Agrees(job, waiting, lockOwner, slots, status)
  BY StateAgrees
<1>2. /\ Pump(job', waiting, lockOwner, slots, limit', status, executing) /\ orders' = orders + 1
      /\ limit' = ClampPerServer(n)
      /\ UNCHANGED <<job, forced, aborted, saved>>
  BY DEF SetPerServer, Ordered
<1>3. limit' \in 1 .. MaxPerServer /\ limit' \in Nat  BY <1>2 DEF ClampPerServer, KindsAreJobs
<1>4. PumpArgs(job', waiting, lockOwner, slots, limit')  BY <1>1, <1>2, <1>3 DEF PumpArgs
<1>5. Agrees(job', waiting, lockOwner, slots, status)  BY <1>1, <1>2 DEF Agrees
<1>6. orders' # orders /\ orders' \in Nat  BY <1>2 DEF QInv
<1>7. ByAdmission(status) /\ KeepsOrder(waiting)  BY <1>6 DEF ByAdmission, KeepsOrder
<1>8. executing \subseteq Job /\ forced' \subseteq Job /\ aborted' \subseteq Job /\ saved' \in [Job -> Statuses]
  BY <1>2 DEF QInv, TypeOK
<1>9. HandedOn(waiting, lockOwner, slots, status, executing)  BY <1>3, <1>4, <1>5, <1>6, <1>7, <1>8 DEF HandedOn
<1> QED  BY <1>2, <1>9, PumpStep

\* Steps that begin no job.
LEMMA NobodyBegins ==
  ASSUME QInv', \A j \in Job : status'[j] = "running" => status[j] = "running"
  PROVE  SoundStep
<1>1. Begins = {}  BY DEF Begins
<1> QED  BY <1>1 DEF SoundStep, SlotsAreRespectedStep, NobodyOvertakesStep

\* Steps that leave the queue and what waits, runs, or has a lock as they are.
LEMMA QuietKeeps ==
  ASSUME KindsAreJobs, QInv, UNCHANGED <<waiting, lockOwner, slots, limit>>,
         status' \in [Job -> Statuses], saved' \in [Job -> Statuses], job' \in [Job -> Records],
         \A j \in Job : /\ job'[j].owner => job'[j].lock # None
                        /\ job'[j].claims => job'[j].servers # {},
         \A j \in Job : status[j] \in {"queued", "running"} => status'[j] = status[j] /\ job'[j] = job[j],
         \A j \in Job : status'[j] \in {"queued", "running"} => status'[j] = status[j],
         forced' \subseteq Job, aborted' \subseteq Job, executing' \subseteq called', called' \subseteq Job, orders' \in Nat
  PROVE  SoundStep
<1>1. TypeOK' /\ IsFiniteSet(slots') /\ orders' \in Nat  BY DEF QInv, TypeOK
<1>2. Running' = Running /\ (\A j \in Running : j \in Job /\ job'[j] = job[j])  BY DEF Running
<1>3. \A j \in ToSet(waiting) : j \in Job /\ job'[j] = job[j]
  <2>1. \A j \in ToSet(waiting) : j \in Job  BY DEF QInv, TypeOK, ToSet
  <2> QED  BY <2>1 DEF QInv, RecordsAgree
<1>4. RecordsAgree'
  <2>1. \A j \in Job : status'[j] = "queued" <=> j \in ToSet(waiting')  BY DEF QInv, RecordsAgree
  <2>2. IsInjective(waiting')  BY DEF QInv, RecordsAgree
  <2>3. slots' = {j \in Running' : job'[j].claims}  BY <1>2 DEF QInv, RecordsAgree
  <2>4. \A l \in Lock : lockOwner'[l] # None =>
          lockOwner'[l] \in Running' /\ job'[lockOwner'[l]].owner /\ job'[lockOwner'[l]].lock = l
    BY <1>2 DEF QInv, RecordsAgree
  <2>5. \A j \in Running' : job'[j].owner => lockOwner'[job'[j].lock] = j
    BY <1>2 DEF QInv, RecordsAgree
  <2> QED  BY <2>1, <2>2, <2>3, <2>4, <2>5 DEF RecordsAgree
<1>5. NobodyWaitsForNothing'
  <2>1. \A k \in DOMAIN waiting : job'[waiting[k]] = job[waiting[k]]  BY <1>3 DEF ToSet
  <2>2. \A k \in DOMAIN waiting : \A i \in Before(k) : job'[i] = job[i]
    <3>1. waiting \in Seq(Job)  BY DEF QInv, TypeOK
    <3>2. \A k \in DOMAIN waiting : \A m \in 1 .. k - 1 : m \in DOMAIN waiting  BY <3>1
    <3> QED  BY <2>1, <3>2 DEF Before
  <2>3. \A s : Used(slots', job', s) = Used(slots, job, s)
    <3>1. \A j \in slots : job'[j] = job[j]  BY <1>2 DEF QInv, RecordsAgree
    <3>2. \A s : {j \in slots : s \in job'[j].servers} = {j \in slots : s \in job[j].servers}  BY <3>1
    <3> QED  BY <3>2 DEF Used
  <2>4. \A k : Before(k)' = Before(k)  BY DEF Before
  <2>5. ASSUME NEW k \in DOMAIN waiting
        PROVE \/ /\ job'[waiting[k]].owner
                 /\ \/ lockOwner[job'[waiting[k]].lock] # None
                    \/ \E i \in Before(k) : job'[i].owner /\ job'[i].lock = job'[waiting[k]].lock
              \/ /\ job'[waiting[k]].claims
                 /\ \E s \in job'[waiting[k]].servers :
                      Used(slots', job', s) >= limit \/ \E i \in Before(k) : job'[i].claims /\ s \in job'[i].servers
    <3>1. NobodyWaitsForNothing  BY DEF QInv
    <3>2. job'[waiting[k]] = job[waiting[k]] /\ \A i \in Before(k) : job'[i] = job[i]  BY <2>1, <2>2
    <3> QED  BY <2>3, <3>1, <3>2 DEF NobodyWaitsForNothing
  <2> QED  BY <2>4, <2>5 DEF NobodyWaitsForNothing
<1>6. QInv'  BY <1>1, <1>4, <1>5 DEF QInv
<1> QED  BY <1>6, NobodyBegins

LEMMA ReturnKeeps ==
  ASSUME KindsAreJobs, QInv, NEW j \in Job, Return(j)
  PROVE  SoundStep
<1>1. CASE status[j] = "running"
  <2>1. PICK outcome \in {"ended", "cancelled"} : Finish(j, outcome, executing \ {j})  BY <1>1 DEF Return
  <2>2. executing \ {j} \subseteq executing  OBVIOUS
  <2> QED  BY <1>1, <2>1, <2>2, FinishKeeps
<1>2. CASE status[j] # "running"
  <2>1. executing' = executing \ {j} /\ UNCHANGED <<status, job, queue, aborted, limit, saved, called, orders>>
    BY <1>2 DEF Return
  <2> QED  BY <2>1, QuietKeeps DEF QInv, TypeOK, queue
<1> QED  BY <1>1, <1>2

LEMMA PruneKeeps ==
  ASSUME KindsAreJobs, QInv, NEW j \in Job, Prune(j)
  PROVE  SoundStep
<1>1. /\ status[j] \notin {"queued", "running"} /\ j \notin executing
      /\ status' = [status EXCEPT ![j] = "none"] /\ saved' = [saved EXCEPT ![j] = "none"]
      /\ called' = called \ {j} /\ forced' = forced \ {j} /\ aborted' = aborted \ {j}
      /\ job' = [job EXCEPT ![j] = NoJob]
      /\ UNCHANGED <<waiting, lockOwner, slots, executing, limit, orders>>
  BY DEF Prune
<1>2. /\ status \in [Job -> Statuses] /\ saved \in [Job -> Statuses] /\ job \in [Job -> Records]
      /\ \A x \in Job : /\ job[x].owner => job[x].lock # None
                        /\ job[x].claims => job[x].servers # {}
      /\ forced \subseteq Job /\ aborted \subseteq Job /\ executing \subseteq called /\ called \subseteq Job /\ orders \in Nat
  BY DEF QInv, TypeOK
<1>3. NoJob \in Records /\ ~NoJob.owner /\ ~NoJob.claims  BY DEF NoJob, Record, Outside, Records
<1> HIDE DEF NoJob
<1>4. /\ status' \in [Job -> Statuses] /\ saved' \in [Job -> Statuses] /\ job' \in [Job -> Records]
  BY <1>1, <1>2, <1>3 DEF Statuses
<1>5. \A x \in Job : /\ job'[x].owner => job'[x].lock # None
                     /\ job'[x].claims => job'[x].servers # {}
  BY <1>1, <1>2, <1>3
<1>6. /\ \A x \in Job : status[x] \in {"queued", "running"} => status'[x] = status[x] /\ job'[x] = job[x]
      /\ \A x \in Job : status'[x] \in {"queued", "running"} => status'[x] = status[x]
  BY <1>1, <1>2
<1>7. forced' \subseteq Job /\ aborted' \subseteq Job /\ executing' \subseteq called' /\ called' \subseteq Job /\ orders' \in Nat
  BY <1>1, <1>2
<1>8. UNCHANGED <<waiting, lockOwner, slots, limit>>  BY <1>1
<1> QED  BY <1>4, <1>5, <1>6, <1>7, <1>8, QuietKeeps

\* A new process has an empty queue, and no job that waits or runs.
LEMMA BlankKeeps ==
  ASSUME KindsAreJobs, QInv, Blank, status' \in [Job -> Statuses],
         \A j \in Job : status'[j] \notin {"queued", "running"}
  PROVE  SoundStep
<1>1. /\ waiting' = <<>> /\ lockOwner' = [l \in Lock |-> None] /\ slots' = {} /\ executing' = {} /\ aborted' = {}
      /\ saved' = status' /\ job' = [j \in Job |-> IF status'[j] = "none" THEN NoJob ELSE job[j]]
      /\ called' = {j \in called : status'[j] # "none"} /\ forced' = {j \in forced : status'[j] # "none"}
      /\ UNCHANGED <<limit, orders>>
  BY DEF Blank
<1>2. NoJob \in Records /\ ~NoJob.owner /\ ~NoJob.claims  BY DEF NoJob, Record, Outside, Records
<1> HIDE DEF NoJob
<1>3. job' \in [Job -> Records] /\ \A j \in Job : /\ job'[j].owner => job'[j].lock # None
                                                  /\ job'[j].claims => job'[j].servers # {}
  BY <1>1, <1>2 DEF QInv, TypeOK
<1>4. waiting' \in Seq(Job) /\ DOMAIN waiting' = {} /\ ToSet(waiting') = {}  BY <1>1 DEF ToSet
<1>5. TypeOK' /\ orders' \in Nat  BY <1>1, <1>3, <1>4 DEF QInv, TypeOK
<1>6. IsFiniteSet(slots')  BY <1>1, FS_EmptySet
<1>7. RecordsAgree'
  <2>1. Running' = {}  BY DEF Running
  <2>2. IsInjective(waiting')  BY <1>4 DEF IsInjective
  <2>3. \A l \in Lock : lockOwner'[l] = None  BY <1>1
  <2> QED  BY <1>1, <1>4, <2>1, <2>2, <2>3 DEF RecordsAgree
<1>8. NobodyWaitsForNothing'  BY <1>4 DEF NobodyWaitsForNothing
<1>9. QInv'  BY <1>5, <1>6, <1>7, <1>8 DEF QInv
<1> QED  BY <1>9, NobodyBegins

LEMMA InsideIsHeld ==
  ASSUME KindsAreJobs, TypeOK, NEW p \in Job
  PROVE  Held(Inside(p)) /\ Held(Outside)
<1>1. job[p] \in Records  BY DEF TypeOK
<1> QED  BY <1>1 DEF Held, Inside, Outside, Records

LEMMA QueueStep ==
  ASSUME KindsAreJobs, QInv, [Next]_vars
  PROVE  SoundStep
<1>0. /\ status \in [Job -> Statuses] /\ saved \in [Job -> Statuses] /\ job \in [Job -> Records]
      /\ \A x \in Job : /\ job[x].owner => job[x].lock # None
                        /\ job[x].claims => job[x].servers # {}
      /\ forced \subseteq Job /\ aborted \subseteq Job /\ executing \subseteq called /\ called \subseteq Job /\ orders \in Nat
      /\ TypeOK
  BY DEF QInv, TypeOK
<1>1. ASSUME NEW j \in Job, Start(j)  PROVE SoundStep
  <2>1. PICK kind \in Kinds : StartIn(j, kind, Outside)  BY <1>1 DEF Start
  <2>2. kind \in [lock : Lock \cup {None}, servers : SUBSET Server]  BY DEF KindsAreJobs
  <2>3. Held(Outside)  BY DEF Held, Outside
  <2> QED  BY <2>1, <2>2, <2>3, StartKeeps
<1>2. ASSUME NEW j \in Job, NEW p \in Job, StartSub(p, j)  PROVE SoundStep
  <2>1. PICK kind \in SubKinds[job[p].lock] : StartIn(j, kind, Inside(p))  BY <1>2 DEF StartSub
  <2>2. job[p] \in Records  BY <1>0
  <2>3. kind \in [lock : Lock \cup {None}, servers : SUBSET Server]  BY <2>2 DEF KindsAreJobs, Records
  <2>4. Held(Inside(p))  BY <1>0, InsideIsHeld
  <2> QED  BY <2>1, <2>3, <2>4, StartKeeps
<1>3. ASSUME NEW j \in Job, Return(j)  PROVE SoundStep  BY <1>3, ReturnKeeps
<1>4. ASSUME NEW j \in Job, CancelRunning(j)  PROVE SoundStep
  BY <1>0, <1>4, QuietKeeps DEF CancelRunning, queue
<1>5. ASSUME NEW j \in Job, GraceEnds(j)  PROVE SoundStep
  <2>1. status[j] = "running" /\ Finish(j, "cancelled", executing)  BY <1>5 DEF GraceEnds
  <2> QED  BY <2>1, FinishKeeps
<1>6. ASSUME NEW j \in Job, Prune(j)  PROVE SoundStep  BY <1>6, PruneKeeps
<1>7. ASSUME NEW i \in DOMAIN waiting, CancelQueued(i)  PROVE SoundStep  BY <1>7, CancelQueuedKeeps
<1>8. ASSUME NEW i \in DOMAIN waiting, ForceStart(i)  PROVE SoundStep  BY <1>8, ForceKeeps
<1>9. ASSUME NEW i \in DOMAIN waiting, NEW to \in DOMAIN waiting, Move(i, to)  PROVE SoundStep  BY <1>9, MoveKeeps
<1>10. ASSUME NEW n \in 0 .. MaxPerServer + 1, SetPerServer(n)  PROVE SoundStep  BY <1>10, LimitKeeps
<1>11. ASSUME SaveRecords  PROVE SoundStep
  BY <1>0, <1>11, QuietKeeps DEF SaveRecords, queue
<1>12. ASSUME Crash  PROVE SoundStep
  <2>1. \A j \in Job : Recovered(j) \in Statuses \ {"queued", "running"}  BY <1>0 DEF Recovered, Statuses
  <2>2. status' = [j \in Job |-> Recovered(j)] /\ Blank  BY <1>12 DEF Crash
  <2>3. status' \in [Job -> Statuses] /\ \A j \in Job : status'[j] \notin {"queued", "running"}  BY <2>1, <2>2
  <2> QED  BY <2>2, <2>3, BlankKeeps
<1>13. ASSUME Shutdown  PROVE SoundStep
  <2>1. /\ status' = [j \in Job |->
             CASE status[j] = "queued" -> IF job[j].claims THEN "dropped" ELSE "failed"
               [] status[j] = "running" -> "failed"
               [] OTHER -> status[j]]
        /\ Blank
    BY <1>13 DEF Shutdown
  <2>2. status' \in [Job -> Statuses] /\ \A j \in Job : status'[j] \notin {"queued", "running"}
    BY <1>0, <2>1 DEF Statuses
  <2> QED  BY <2>1, <2>2, BlankKeeps
<1>14. ASSUME UNCHANGED vars  PROVE SoundStep
  BY <1>0, <1>14, QuietKeeps DEF vars, queue
<1> QED  BY <1>1, <1>2, <1>3, <1>4, <1>5, <1>6, <1>7, <1>8, <1>9, <1>10, <1>11, <1>12, <1>13, <1>14 DEF Next
-----------------------------------------------------------------------------
(* Jobs inside jobs.                                                       *)

\* What NobodyTramples needs: the function of a job waits for the jobs it started, and none
\* that has started any outlives its own job (cancel's timer ends a job whose function runs on).
InnerJobsEnd == ParentsWait /\ (Grace => \A l \in DOMAIN SubKinds : SubKinds[l] = {})

Alive(st, i) == st[i] \in {"queued", "running"}

\* Within, by the records rec.
WithinBy(rec, i, j) ==
  \A S \in SUBSET (Job \cup {None}) :
    rec[i].parent \in S /\ (\A k \in S \cap Job : rec[k].parent \in S) => j \in S

\* A job that waits or runs was started by nobody or by a running job; what is held around it,
\* a job has around which it was started, and it is among that unless it takes its lock itself.
NestedBy(rec, lo, st, ex) ==
  /\ \A i \in Job : Alive(st, i) =>
       /\ rec[i].parent # None => st[rec[i].parent] = "running"
       /\ rec[i].lock # None /\ ~rec[i].owner => rec[i].lock \in rec[i].held
       /\ \A l \in rec[i].held : lo[l] # None /\ WithinBy(rec, i, lo[l])
       /\ Grace => rec[i].parent = None
  /\ ~Grace => \A j \in ex : st[j] = "running"
Nested == NestedBy(job, lockOwner, status, executing)

\* _pump starts no job inside another.
LEMMA PumpNests ==
  ASSUME KindsAreJobs, QInv', NEW wq, NEW lo, NEW st, NEW ex, PumpBegins(wq, lo, st, ex), ex \subseteq Job,
         NestedBy(job', lo, st, ex)
  PROVE  Nested'
<1>1. /\ \A j \in Admitted(wq) : j \in Job /\ st[j] = "queued"
      /\ \A j \in Job : status'[j] = IF j \in Admitted(wq) THEN "running" ELSE st[j]
      /\ executing' = ex \cup Admitted(wq)
      /\ \A l \in Lock : lo[l] # None => lockOwner'[l] = lo[l]
  BY DEF PumpBegins
<1>2. \A i \in Job : Alive(status', i) => Alive(st, i)  BY <1>1 DEF Alive
<1>3. \A j \in Job : st[j] = "running" => status'[j] = "running"  BY <1>1
<1>4. ASSUME NEW i \in Job, Alive(status', i)
      PROVE  /\ job'[i].parent # None => status'[job'[i].parent] = "running"
             /\ job'[i].lock # None /\ ~job'[i].owner => job'[i].lock \in job'[i].held
             /\ \A l \in job'[i].held : lockOwner'[l] # None /\ WithinBy(job', i, lockOwner'[l])
             /\ Grace => job'[i].parent = None
  <2>1. job'[i] \in Records  BY DEF QInv, TypeOK
  <2>2. job'[i].parent \in Job \cup {None} /\ job'[i].held \subseteq Lock  BY <2>1 DEF Records
  <2>3. /\ job'[i].parent # None => st[job'[i].parent] = "running"
        /\ job'[i].lock # None /\ ~job'[i].owner => job'[i].lock \in job'[i].held
        /\ \A l \in job'[i].held : lo[l] # None /\ WithinBy(job', i, lo[l])
        /\ Grace => job'[i].parent = None
    BY <1>2, <1>4 DEF NestedBy
  <2> QED  BY <1>1, <1>3, <2>2, <2>3
<1>5. ~Grace => \A j \in executing' : status'[j] = "running"
  <2>1. ~Grace => \A j \in ex : st[j] = "running"  BY DEF NestedBy
  <2> QED  BY <1>1, <1>3, <2>1
<1> QED  BY <1>4, <1>5 DEF Nested, NestedBy

\* What a job is in, it is in as long as the jobs around it keep their records.
LEMMA WithinStays ==
  ASSUME NEW rec, NEW new, NEW A, A \subseteq Job, None \notin Job, NEW i \in A, NEW a, a # None,
         \A k \in A : new[k] = rec[k] /\ rec[k].parent \in A \cup {None},
         WithinBy(rec, i, a)
  PROVE  WithinBy(new, i, a)
<1>1. SUFFICES ASSUME NEW S \in SUBSET (Job \cup {None}), new[i].parent \in S, \A k \in S \cap Job : new[k].parent \in S
               PROVE a \in S
  BY DEF WithinBy
<1> DEFINE T == S \cap (A \cup {None})
<1>2. T \in SUBSET (Job \cup {None}) /\ rec[i].parent \in T  BY <1>1
<1>3. \A k \in T \cap Job : rec[k].parent \in T
  <2> TAKE k \in T \cap Job
  <2>1. k \in A /\ k \in S \cap Job  OBVIOUS
  <2> QED  BY <1>1, <2>1
<1>4. a \in T
  <2> HIDE DEF T
  <2> QED  BY <1>2, <1>3 DEF WithinBy
<1> QED  BY <1>4

\* A job is inside what its parent is inside, and inside its parent.
LEMMA WithinParent ==
  ASSUME NEW rec, NEW i \in Job, NEW p \in Job, rec[i].parent = p
  PROVE  /\ WithinBy(rec, i, p)
         /\ \A a : WithinBy(rec, p, a) => WithinBy(rec, i, a)
<1>1. WithinBy(rec, i, p)  BY DEF WithinBy
<1>2. ASSUME NEW a, WithinBy(rec, p, a)  PROVE WithinBy(rec, i, a)
  <2>1. ASSUME NEW S \in SUBSET (Job \cup {None}), rec[i].parent \in S, \A k \in S \cap Job : rec[k].parent \in S
        PROVE a \in S
    <3>1. rec[p].parent \in S  BY <2>1
    <3> QED  BY <1>2, <2>1, <3>1 DEF WithinBy
  <2> QED  BY <2>1 DEF WithinBy
<1> QED  BY <1>1, <1>2

\* Nothing is inside a job all of whose inner jobs have ended.
LEMMA NobodyInside ==
  ASSUME KindsAreJobs, QInv, Nested, NEW j \in Job, Inner(j) = {}, NEW i \in Active
  PROVE  job[i].parent # j /\ ~WithinBy(job, i, j)
<1>1. None \notin Job /\ Active \subseteq Job /\ \A k \in Active : Alive(status, k)
  BY DEF KindsAreJobs, Active, Alive
<1>2. \A k \in Active : job[k].parent # j  BY DEF Inner
<1>3. \A k \in Active : job[k].parent \in (Active \cup {None}) \ {j}
  <2> TAKE k \in Active
  <2>1. job[k].parent \in Job \cup {None}  BY <1>1 DEF QInv, TypeOK, Records
  <2>2. job[k].parent # None => status[job[k].parent] = "running"  BY <1>1 DEF Nested, NestedBy
  <2>3. job[k].parent # None => job[k].parent \in Active  BY <2>1, <2>2 DEF Active
  <2> QED  BY <1>2, <1>1, <2>3
<1> DEFINE S == (Active \cup {None}) \ {j}
<1>4. S \in SUBSET (Job \cup {None}) /\ S \cap Job \subseteq Active /\ j \notin S  BY <1>1
<1>5. job[i].parent \in S /\ \A k \in S \cap Job : job[k].parent \in S  BY <1>3, <1>4
<1>6. ~WithinBy(job, i, j)
  <2> HIDE DEF S
  <2> QED  BY <1>4, <1>5 DEF WithinBy
<1> QED  BY <1>2, <1>6

\* An operation that starts no job keeps the nesting of those that go on, with all around them.
LEMMA SameJobsNest ==
  ASSUME Nested, job' = job, NEW lo, NEW st, NEW ex,
         \A i \in Job : Alive(st, i) =>
           /\ Alive(status, i)
           /\ job[i].parent # None => st[job[i].parent] = "running"
           /\ \A l \in job[i].held : lo[l] = lockOwner[l],
         ~Grace => \A j \in ex : st[j] = "running"
  PROVE  NestedBy(job', lo, st, ex)
<1>1. ASSUME NEW i \in Job, Alive(st, i)
      PROVE  /\ job[i].parent # None => st[job[i].parent] = "running"
             /\ job[i].lock # None /\ ~job[i].owner => job[i].lock \in job[i].held
             /\ \A l \in job[i].held : lo[l] # None /\ WithinBy(job, i, lo[l])
             /\ Grace => job[i].parent = None
  <2>1. /\ job[i].lock # None /\ ~job[i].owner => job[i].lock \in job[i].held
        /\ \A l \in job[i].held : lockOwner[l] # None /\ WithinBy(job, i, lockOwner[l])
        /\ Grace => job[i].parent = None
    BY <1>1 DEF Nested, NestedBy
  <2> QED  BY <1>1, <2>1
<1>2. NestedBy(job, lo, st, ex)  BY <1>1 DEF NestedBy
<1> QED  BY <1>2

LEMMA FinishNests ==
  ASSUME KindsAreJobs, QInv, Nested, NEW j \in Job, status[j] = "running", NEW outcome \in {"ended", "cancelled"},
         NEW ex, ex \subseteq executing, Grace \/ j \notin ex, Inner(j) = {}, Finish(j, outcome, ex)
  PROVE  Nested'
<1> DEFINE st == [status EXCEPT ![j] = outcome]
<1>1. QInv' /\ PumpBegins(waiting, Freed(j), st, ex)  BY FinishKeeps DEF SoundStep
<1>2. job' = job  BY DEF Finish
<1>3. /\ status \in [Job -> Statuses] /\ executing \subseteq Job /\ None \notin Job
      /\ \A i \in Job : job[i].held \subseteq Lock /\ job[i].parent \in Job \cup {None}
  BY DEF QInv, TypeOK, KindsAreJobs, Records
<1>4. \A i \in Job : st[i] = IF i = j THEN outcome ELSE status[i]  BY <1>3
<1> HIDE DEF st
<1>5. ASSUME NEW i \in Job, Alive(st, i)
      PROVE  /\ Alive(status, i)
             /\ job[i].parent # None => st[job[i].parent] = "running"
             /\ \A l \in job[i].held : Freed(j)[l] = lockOwner[l]
  <2>1. i # j /\ Alive(status, i) /\ i \in Active  BY <1>4, <1>5 DEF Alive, Active
  <2>2. job[i].parent # j /\ ~WithinBy(job, i, j)  BY <2>1, NobodyInside
  <2>3. /\ job[i].parent # None => status[job[i].parent] = "running"
        /\ \A l \in job[i].held : WithinBy(job, i, lockOwner[l])
    BY <2>1 DEF Nested, NestedBy
  <2>4. \A l \in Lock : Freed(j)[l] = IF lockOwner[l] = j THEN None ELSE lockOwner[l]  BY FreedParts
  <2>5. \A l \in job[i].held : lockOwner[l] # j  BY <2>2, <2>3
  <2> QED  BY <1>3, <1>4, <2>1, <2>2, <2>3, <2>4, <2>5
<1>6. ~Grace => \A k \in ex : st[k] = "running"
  <2>1. ~Grace => \A k \in executing : status[k] = "running"  BY DEF Nested, NestedBy
  <2> QED  BY <1>3, <1>4, <2>1
<1>7. NestedBy(job', Freed(j), st, ex)  BY <1>2, <1>5, <1>6, SameJobsNest
<1> QED  BY <1>1, <1>3, <1>7, PumpNests

\* A job is started, by nobody or by one that runs.
LEMMA StartNests ==
  ASSUME KindsAreJobs, QInv, Nested, NEW j \in Job, NEW kind \in [lock : Lock \cup {None}, servers : SUBSET Server],
         NEW held, Held(held), StartIn(j, kind, held),
         \/ held = Outside
         \/ ~Grace /\ \E p \in Job : status[p] = "running" /\ held = Inside(p)
  PROVE  Nested'
<1> DEFINE wq == Append(waiting, j)  st == [status EXCEPT ![j] = "queued"]
<1>1. QInv' /\ PumpBegins(wq, lockOwner, st, executing)  BY StartKeeps DEF SoundStep
<1>2. status[j] = "none" /\ job' = [job EXCEPT ![j] = Record(kind, held)]  BY DEF StartIn
<1>3. /\ status \in [Job -> Statuses] /\ executing \subseteq Job /\ None \notin Job /\ None \notin Lock
      /\ job \in [Job -> Records]
  BY DEF QInv, TypeOK, KindsAreJobs
<1>4. /\ \A i \in Job : i # j => st[i] = status[i] /\ job'[i] = job[i]
      /\ st[j] = "queued" /\ job'[j] = Record(kind, held)
  BY <1>2, <1>3
<1> HIDE DEF st
\* those that wait or run are not inside j
<1>5. \A k \in Active : job'[k] = job[k] /\ job[k].parent \in Active \cup {None} /\ k # j
  <2> TAKE k \in Active
  <2>1. k \in Job /\ Alive(status, k)  BY DEF Active, Alive
  <2>2. job[k].parent \in Job \cup {None}  BY <1>3, <2>1 DEF Records
  <2>3. job[k].parent # None => status[job[k].parent] = "running"  BY <2>1 DEF Nested, NestedBy
  <2> QED  BY <1>2, <1>4, <2>1, <2>2, <2>3 DEF Active, Alive
<1>6. \A i \in Active : \A a : a # None /\ WithinBy(job, i, a) => WithinBy(job', i, a)
  <2>1. Active \subseteq Job  BY DEF Active
  <2> TAKE i \in Active
  <2> TAKE a
  <2> QED  BY <1>3, <1>5, <2>1, WithinStays
<1>7. ASSUME NEW i \in Job, Alive(status, i)
      PROVE  /\ job'[i] = job[i] /\ i \in Active
             /\ job[i].parent # None => st[job[i].parent] = "running"
             /\ job[i].lock # None /\ ~job[i].owner => job[i].lock \in job[i].held
             /\ \A l \in job[i].held : lockOwner[l] # None /\ WithinBy(job', i, lockOwner[l])
             /\ Grace => job[i].parent = None
  <2>1. i \in Active  BY <1>7 DEF Alive, Active
  <2>2. /\ job[i].parent # None => status[job[i].parent] = "running"
        /\ job[i].lock # None /\ ~job[i].owner => job[i].lock \in job[i].held
        /\ \A l \in job[i].held : lockOwner[l] # None /\ WithinBy(job, i, lockOwner[l])
        /\ Grace => job[i].parent = None
    BY <1>7 DEF Nested, NestedBy
  <2>3. job[i].parent \in Job \cup {None}  BY <1>3 DEF Records
  <2> QED  BY <1>2, <1>4, <1>5, <1>6, <2>1, <2>2, <2>3
<1>8. /\ job'[j].parent = held.parent /\ job'[j].held = held.locks
      /\ job'[j].lock # None /\ ~job'[j].owner => job'[j].lock \in job'[j].held
  <2> DEFINE r == Record(kind, held)
  <2>1. r.parent = held.parent /\ r.held = held.locks /\ r.lock = kind.lock  BY DEF Record
  <2>2. r.owner = (kind.lock # None /\ kind.lock \notin held.locks)  BY DEF Record
  <2> HIDE DEF r
  <2>3. job'[j] = r  BY <1>4 DEF r
  <2> QED  BY <2>1, <2>2, <2>3
<1>9. /\ job'[j].parent # None => st[job'[j].parent] = "running"
      /\ \A l \in job'[j].held : lockOwner[l] # None /\ WithinBy(job', j, lockOwner[l])
      /\ Grace => job'[j].parent = None
  <2>1. CASE held = Outside  BY <1>8, <2>1 DEF Outside
  <2>2. CASE ~Grace /\ \E p \in Job : status[p] = "running" /\ held = Inside(p)
    <3>1. PICK p \in Job : status[p] = "running" /\ held = Inside(p)  BY <2>2
    <3>2. Alive(status, p) /\ p # j /\ st[p] = "running"  BY <1>2, <1>4, <3>1 DEF Alive
    <3>3. job'[j].parent = p /\ job'[j].held = job[p].held \cup ({job[p].lock} \ {None})
      BY <1>8, <3>1 DEF Inside
    <3>4. /\ WithinBy(job', j, p)
          /\ \A a : WithinBy(job', p, a) => WithinBy(job', j, a)
      BY <3>3, WithinParent
    <3>5. /\ job[p].lock # None /\ ~job[p].owner => job[p].lock \in job[p].held
          /\ \A l \in job[p].held : lockOwner[l] # None /\ WithinBy(job', p, lockOwner[l])
      BY <1>7, <3>2
    <3>6. job[p].owner => lockOwner[job[p].lock] = p  BY <3>1 DEF QInv, RecordsAgree, Running
    <3>7. ASSUME NEW l \in job'[j].held  PROVE lockOwner[l] # None /\ WithinBy(job', j, lockOwner[l])
      <4>1. CASE l \in job[p].held  BY <3>4, <3>5, <4>1
      <4>2. CASE l \notin job[p].held
        <5>1. l = job[p].lock /\ job[p].lock # None  BY <3>3, <3>7, <4>2
        <5>2. lockOwner[l] = p  BY <3>5, <3>6, <4>2, <5>1 DEF QInv, TypeOK, Records
        <5> QED  BY <1>3, <3>4, <5>2
      <4> QED  BY <4>1, <4>2
    <3> QED  BY <2>2, <3>2, <3>3, <3>7
  <2> QED  BY <2>1, <2>2
<1>10. ~Grace => \A k \in executing : st[k] = "running"
  <2>1. ~Grace => \A k \in executing : status[k] = "running"  BY DEF Nested, NestedBy
  <2> QED  BY <1>2, <1>3, <1>4, <2>1
<1>11. ASSUME NEW i \in Job, Alive(st, i)
       PROVE  /\ job'[i].parent # None => st[job'[i].parent] = "running"
              /\ job'[i].lock # None /\ ~job'[i].owner => job'[i].lock \in job'[i].held
              /\ \A l \in job'[i].held : lockOwner[l] # None /\ WithinBy(job', i, lockOwner[l])
              /\ Grace => job'[i].parent = None
  <2>1. CASE i = j  BY <1>8, <1>9, <2>1
  <2>2. CASE i # j
    <3>1. Alive(status, i)  BY <1>4, <1>11, <2>2 DEF Alive
    <3> QED  BY <1>7, <3>1
  <2> QED  BY <2>1, <2>2
<1>12. NestedBy(job', lockOwner, st, executing)  BY <1>10, <1>11 DEF NestedBy
<1> QED
  <2> HIDE DEF wq
  <2> QED  BY <1>1, <1>3, <1>12, PumpNests DEF st

\* Steps that leave the queue alone, or empty it.
LEMMA QuietNests ==
  ASSUME KindsAreJobs, QInv, Nested, lockOwner' = lockOwner,
         \A j \in Job : Alive(status, j) => status'[j] = status[j] /\ job'[j] = job[j],
         \A j \in Job : Alive(status', j) => Alive(status, j),
         executing' \subseteq executing
  PROVE  Nested'
<1>1. /\ executing \subseteq Job /\ None \notin Job /\ Active \subseteq Job /\ job \in [Job -> Records]
      /\ \A k \in Active : Alive(status, k)
  BY DEF QInv, TypeOK, KindsAreJobs, Active, Alive
<1>2. \A k \in Active : job'[k] = job[k] /\ job[k].parent \in Active \cup {None}
  <2> TAKE k \in Active
  <2>1. job[k].parent \in Job \cup {None}  BY <1>1 DEF Records
  <2>2. job[k].parent # None => status[job[k].parent] = "running"  BY <1>1 DEF Nested, NestedBy
  <2> QED  BY <1>1, <2>1, <2>2 DEF Active
<1>3. ASSUME NEW i \in Job, Alive(status', i)
      PROVE  /\ job'[i].parent # None => status'[job'[i].parent] = "running"
             /\ job'[i].lock # None /\ ~job'[i].owner => job'[i].lock \in job'[i].held
             /\ \A l \in job'[i].held : lockOwner'[l] # None /\ WithinBy(job', i, lockOwner'[l])
             /\ Grace => job'[i].parent = None
  <2>1. Alive(status, i) /\ i \in Active /\ job'[i] = job[i]  BY <1>3 DEF Active, Alive
  <2>2. /\ job[i].parent # None => status[job[i].parent] = "running"
        /\ job[i].lock # None /\ ~job[i].owner => job[i].lock \in job[i].held
        /\ \A l \in job[i].held : lockOwner[l] # None /\ WithinBy(job, i, lockOwner[l])
        /\ Grace => job[i].parent = None
    BY <2>1 DEF Nested, NestedBy
  <2>3. \A a : a # None /\ WithinBy(job, i, a) => WithinBy(job', i, a)
    <3> TAKE a
    <3> QED  BY <1>1, <1>2, <2>1, WithinStays
  <2>4. job[i].parent \in Job \cup {None}  BY <1>1 DEF Records
  <2>5. job[i].parent # None => status'[job[i].parent] = "running"  BY <2>2, <2>4 DEF Alive
  <2> QED  BY <2>1, <2>2, <2>3, <2>5
<1>4. ~Grace => \A j \in executing' : status'[j] = "running"
  <2>1. ~Grace => \A j \in executing : status[j] = "running"  BY DEF Nested, NestedBy
  <2> QED  BY <1>1, <2>1 DEF Alive
<1> QED  BY <1>3, <1>4 DEF Nested, NestedBy

LEMMA BlankNests ==
  ASSUME Blank, \A j \in Job : status'[j] \notin {"queued", "running"}
  PROVE  Nested'
BY DEF Blank, Nested, NestedBy, Alive

LEMMA NestedStep ==
  ASSUME KindsAreJobs, InnerJobsEnd, QInv, Nested, [Next]_vars
  PROVE  Nested'
<1>0. /\ status \in [Job -> Statuses] /\ saved \in [Job -> Statuses] /\ job \in [Job -> Records]
      /\ lockOwner \in [Lock -> Job \cup {None}] /\ None \notin Job
      /\ executing \subseteq Job /\ waiting \in Seq(Job) /\ TypeOK
  BY DEF QInv, TypeOK, KindsAreJobs
<1>q. QInv'  BY QueueStep DEF SoundStep
<1>a. \A i \in Job : /\ job[i].held \subseteq Lock /\ job[i].parent \in Job \cup {None}
                     /\ Alive(status, i) /\ job[i].parent # None => status[job[i].parent] = "running"
  BY <1>0 DEF Records, Nested, NestedBy
<1>f. ~Grace => \A k \in executing : status[k] = "running"  BY DEF Nested, NestedBy
<1>1. ASSUME NEW j \in Job, Start(j)  PROVE Nested'
  <2>1. PICK kind \in Kinds : StartIn(j, kind, Outside)  BY <1>1 DEF Start
  <2>2. kind \in [lock : Lock \cup {None}, servers : SUBSET Server]  BY DEF KindsAreJobs
  <2>3. Held(Outside)  BY DEF Held, Outside
  <2> QED  BY <2>1, <2>2, <2>3, StartNests
<1>2. ASSUME NEW j \in Job, NEW p \in Job, StartSub(p, j)  PROVE Nested'
  <2>1. PICK kind \in SubKinds[job[p].lock] : StartIn(j, kind, Inside(p))  BY <1>2 DEF StartSub
  <2>2. job[p].lock \in Lock \cup {None}  BY <1>0 DEF Records
  <2>3. kind \in [lock : Lock \cup {None}, servers : SUBSET Server]  BY <2>2 DEF KindsAreJobs
  <2>4. ~Grace  BY <2>1, <2>2 DEF InnerJobsEnd, KindsAreJobs
  <2>5. status[p] = "running"  BY <1>2, <1>f, <2>4 DEF StartSub
  <2>6. Held(Inside(p))  BY <1>0, InsideIsHeld
  <2> QED  BY <2>1, <2>3, <2>4, <2>5, <2>6, StartNests
<1>3. ASSUME NEW j \in Job, Return(j)  PROVE Nested'
  <2>1. CASE status[j] = "running"
    <3>1. PICK outcome \in {"ended", "cancelled"} : Finish(j, outcome, executing \ {j})  BY <1>3, <2>1 DEF Return
    <3>2. Inner(j) = {}  BY <1>3 DEF Return, InnerJobsEnd
    <3>3. executing \ {j} \subseteq executing /\ j \notin executing \ {j}  OBVIOUS
    <3> QED  BY <2>1, <3>1, <3>2, <3>3, FinishNests
  <2>2. CASE status[j] # "running"
    <3>1. executing' = executing \ {j} /\ UNCHANGED <<status, job, lockOwner>>  BY <1>3, <2>2 DEF Return, queue
    <3> QED  BY <3>1, QuietNests
  <2> QED  BY <2>1, <2>2
<1>4. ASSUME NEW j \in Job, CancelRunning(j)  PROVE Nested'
  BY <1>4, QuietNests DEF CancelRunning, queue
<1>5. ASSUME NEW j \in Job, GraceEnds(j)  PROVE Nested'
  <2>1. Grace /\ status[j] = "running" /\ Finish(j, "cancelled", executing)  BY <1>5 DEF GraceEnds
  <2>2. Inner(j) = {}
    <3>1. \A k \in Active : job[k].parent = None  BY <2>1 DEF Nested, NestedBy, Active, Alive
    <3> QED  BY <1>0, <3>1 DEF Inner
  <2> QED  BY <2>1, <2>2, FinishNests
<1>6. ASSUME NEW j \in Job, Prune(j)  PROVE Nested'
  <2>1. /\ ~Alive(status, j) /\ status' = [status EXCEPT ![j] = "none"] /\ job' = [job EXCEPT ![j] = NoJob]
        /\ UNCHANGED <<lockOwner, executing>>
    BY <1>6 DEF Prune, Alive
  <2>2. \A k \in Job : Alive(status, k) => status'[k] = status[k] /\ job'[k] = job[k]
    <3>1. \A k \in Job : k # j => status'[k] = status[k] /\ job'[k] = job[k]  BY <1>0, <2>1
    <3> QED  BY <2>1, <3>1
  <2>3. \A k \in Job : Alive(status', k) => Alive(status, k)  BY <1>0, <2>1 DEF Alive
  <2> QED  BY <2>1, <2>2, <2>3, QuietNests
<1>7. ASSUME NEW i \in DOMAIN waiting, CancelQueued(i)  PROVE Nested'
  <2> DEFINE j == waiting[i]  st == [status EXCEPT ![j] = "cancelled"]
  <2>1. PumpBegins(Without(i), lockOwner, st, executing)  BY <1>7, CancelQueuedKeeps
  <2>2. job' = job  BY <1>7 DEF CancelQueued
  <2>3. j \in Job /\ status[j] = "queued"
    <3>1. j \in Job /\ j \in ToSet(waiting)  BY <1>0 DEF ToSet
    <3> QED  BY <3>1 DEF QInv, RecordsAgree
  <2>4. \A x \in Job : st[x] = IF x = j THEN "cancelled" ELSE status[x]  BY <1>0
  <2> HIDE DEF st, j
  <2>5. \A x \in Job : /\ Alive(st, x) => Alive(status, x)
                       /\ status[x] = "running" => st[x] = "running"
    BY <2>3, <2>4 DEF Alive
  <2>6. NestedBy(job', lockOwner, st, executing)
    <3>1. \A x \in Job : Alive(st, x) =>
            /\ Alive(status, x)
            /\ job[x].parent # None => st[job[x].parent] = "running"
            /\ \A l \in job[x].held : lockOwner[l] = lockOwner[l]
      BY <1>a, <2>5
    <3>2. ~Grace => \A k \in executing : st[k] = "running"  BY <1>0, <1>f, <2>5
    <3> QED  BY <2>2, <3>1, <3>2, SameJobsNest
  <2> QED  BY <1>0, <1>q, <2>1, <2>6, PumpNests DEF st
<1>8. ASSUME NEW i \in DOMAIN waiting, ForceStart(i)  PROVE Nested'
  <2> DEFINE j == waiting[i]  st == [status EXCEPT ![j] = "running"]
  <2>1. PICK lo \in [Lock -> Job \cup {None}] :
          /\ \A l \in Lock : lockOwner[l] # None => lo[l] = lockOwner[l]
          /\ PumpBegins(Without(i), lo, st, executing \cup {j})
    BY <1>8, ForceKeeps
  <2>2. job' = job  BY <1>8 DEF ForceStart, Forces
  <2>3. j \in Job /\ status[j] = "queued"
    <3>1. j \in Job /\ j \in ToSet(waiting)  BY <1>0 DEF ToSet
    <3> QED  BY <3>1 DEF QInv, RecordsAgree
  <2>4. \A x \in Job : st[x] = IF x = j THEN "running" ELSE status[x]  BY <1>0
  <2> HIDE DEF st, j
  <2>5. \A x \in Job : /\ Alive(st, x) => Alive(status, x)
                       /\ status[x] = "running" => st[x] = "running"
    BY <2>3, <2>4 DEF Alive
  <2>6. NestedBy(job', lo, st, executing \cup {j})
    <3>1. \A x \in Job : Alive(st, x) =>
            /\ Alive(status, x)
            /\ job[x].parent # None => st[job[x].parent] = "running"
            /\ \A l \in job[x].held : lo[l] = lockOwner[l]
      <4>1. \A x \in Job : Alive(status, x) => \A l \in job[x].held : lockOwner[l] # None  BY DEF Nested, NestedBy
      <4> QED  BY <1>a, <2>1, <2>5, <4>1
    <3>2. ~Grace => \A k \in executing \cup {j} : st[k] = "running"  BY <1>0, <1>f, <2>3, <2>4, <2>5
    <3> QED  BY <2>2, <3>1, <3>2, SameJobsNest
  <2>7. executing \cup {j} \subseteq Job  BY <1>0, <2>3
  <2> QED  BY <1>q, <2>1, <2>6, <2>7, PumpNests
<1>9. ASSUME NEW wq, job' = job, PumpBegins(wq, lockOwner, status, executing)  PROVE Nested'
  <2>1. NestedBy(job', lockOwner, status, executing)  BY <1>9 DEF Nested
  <2> QED  BY <1>0, <1>q, <1>9, <2>1, PumpNests
<1>10. ASSUME NEW i \in DOMAIN waiting, NEW to \in DOMAIN waiting, Move(i, to)  PROVE Nested'
  <2>1. job' = job /\ PumpBegins(Moved(i, to), lockOwner, status, executing)  BY <1>10, MoveKeeps DEF Move
  <2> QED  BY <1>9, <2>1
<1>11. ASSUME NEW n \in 0 .. MaxPerServer + 1, SetPerServer(n)  PROVE Nested'
  <2>1. job' = job /\ PumpBegins(waiting, lockOwner, status, executing)  BY <1>11, LimitKeeps DEF SetPerServer
  <2> QED  BY <1>9, <2>1
<1>12. ASSUME SaveRecords  PROVE Nested'  BY <1>12, QuietNests DEF SaveRecords, queue
<1>13. ASSUME Crash  PROVE Nested'
  <2>1. \A j \in Job : Recovered(j) \in Statuses \ {"queued", "running"}  BY <1>0 DEF Recovered, Statuses
  <2>2. status' = [j \in Job |-> Recovered(j)] /\ Blank  BY <1>13 DEF Crash
  <2>3. \A j \in Job : status'[j] \notin {"queued", "running"}  BY <2>1, <2>2
  <2> QED  BY <2>2, <2>3, BlankNests
<1>14. ASSUME Shutdown  PROVE Nested'
  <2>1. /\ status' = [j \in Job |->
             CASE status[j] = "queued" -> IF job[j].claims THEN "dropped" ELSE "failed"
               [] status[j] = "running" -> "failed"
               [] OTHER -> status[j]]
        /\ Blank
    BY <1>14 DEF Shutdown
  <2>2. \A j \in Job : status'[j] \notin {"queued", "running"}  BY <1>0, <2>1
  <2> QED  BY <2>1, <2>2, BlankNests
<1>15. ASSUME UNCHANGED vars  PROVE Nested'  BY <1>15, QuietNests DEF vars, queue
<1> QED
  BY <1>1, <1>2, <1>3, <1>4, <1>5, <1>6, <1>7, <1>8, <1>10, <1>11, <1>12, <1>13, <1>14, <1>15 DEF Next

\* Two jobs on the same thing have it from the one that took the lock.
LEMMA NestedJobsDoNotTrample ==
  ASSUME KindsAreJobs, QInv, Nested
  PROVE  NobodyTramples
<1>1. \A i, j : Within(i, j) <=> WithinBy(job, i, j)  BY DEF Within, WithinBy
<1>2. SUFFICES ASSUME NEW i \in Running, NEW j \in Running, i # j, job[i].lock # None, job[i].lock = job[j].lock
               PROVE  Within(i, j) \/ Within(j, i) \/ \E k \in Running : Within(i, k) /\ Within(j, k)
  BY DEF NobodyTramples
<1>3. Running \subseteq Job /\ \A k \in Running : Alive(status, k)  BY DEF Running, Alive
<1> DEFINE l == job[i].lock
<1>4. l \in Lock
  <2>1. job[i] \in Records  BY <1>3 DEF QInv, TypeOK
  <2> QED  BY <1>2, <2>1 DEF Records
<1>5. \A k \in Running : job[k].owner => lockOwner[job[k].lock] = k  BY DEF QInv, RecordsAgree
<1>6. \A k \in Running : job[k].lock = l /\ ~job[k].owner => lockOwner[l] # None /\ Within(k, lockOwner[l])
  BY <1>1, <1>2, <1>3 DEF Nested, NestedBy
<1>7. lockOwner[l] # None => lockOwner[l] \in Running  BY <1>4 DEF QInv, RecordsAgree
<1>8. job[j].lock = l  BY <1>2
<1> HIDE DEF l
<1>9. CASE job[i].owner /\ job[j].owner  BY <1>2, <1>5, <1>9
<1>10. CASE job[i].owner /\ ~job[j].owner  BY <1>2, <1>5, <1>6, <1>8, <1>10 DEF l
<1>11. CASE ~job[i].owner /\ job[j].owner  BY <1>2, <1>5, <1>6, <1>8, <1>11 DEF l
<1>12. CASE ~job[i].owner /\ ~job[j].owner  BY <1>2, <1>6, <1>7, <1>8, <1>12 DEF l
<1>13. job[i].owner \in BOOLEAN /\ job[j].owner \in BOOLEAN  BY <1>3 DEF QInv, TypeOK, Records
<1> QED  BY <1>9, <1>10, <1>11, <1>12, <1>13

-----------------------------------------------------------------------------
(* The theorems.                                                           *)

LEMMA QueueInit ==
  ASSUME KindsAreJobs, Init
  PROVE  QInv /\ Nested
<1>1. NoJob \in Records /\ ~NoJob.owner /\ ~NoJob.claims  BY DEF NoJob, Record, Outside, Records
<1> HIDE DEF NoJob
<1>2. TypeOK
  <2>1. /\ status \in [Job -> Statuses] /\ saved \in [Job -> Statuses]  BY DEF Init, Statuses
  <2>2. /\ job \in [Job -> Records]
        /\ \A j \in Job : /\ job[j].owner => job[j].lock # None
                          /\ job[j].claims => job[j].servers # {}
    BY <1>1 DEF Init
  <2>3. waiting \in Seq(Job) /\ lockOwner \in [Lock -> Job \cup {None}]  BY DEF Init
  <2>4. limit \in 1 .. MaxPerServer  BY DEF Init, KindsAreJobs
  <2> QED  BY <2>1, <2>2, <2>3, <2>4 DEF Init, TypeOK
<1>3. IsFiniteSet(slots) /\ orders \in Nat  BY FS_EmptySet DEF Init
<1>4. DOMAIN waiting = {} /\ ToSet(waiting) = {}  BY DEF Init, ToSet
<1>5. Running = {} /\ \A j \in Job : ~Alive(status, j) /\ status[j] # "queued"  BY DEF Init, Running, Alive
<1>6. RecordsAgree
  <2>1. IsInjective(waiting)  BY <1>4 DEF IsInjective
  <2>2. \A l \in Lock : lockOwner[l] = None  BY DEF Init
  <2> QED  BY <1>4, <1>5, <2>1, <2>2 DEF RecordsAgree, Init
<1>7. NobodyWaitsForNothing  BY <1>4 DEF NobodyWaitsForNothing
<1>8. Nested  BY <1>5 DEF Nested, NestedBy, Init
<1> QED  BY <1>2, <1>3, <1>6, <1>7, <1>8 DEF QInv

\* Whatever jobs are started, cancelled, forced and moved, and whenever the panel restarts: the
\* queue holds what is queued, once; locks and slots are with the running jobs that took them;
\* who waits has a reason; who begins respects the limit and overtakes nobody.
THEOREM QueueIsRight ==
  ASSUME KindsAreJobs
  PROVE  Spec => [](TypeOK /\ RecordsAgree /\ NobodyWaitsForNothing) /\ SlotsAreRespected /\ NobodyOvertakes
<1>1. Init => QInv  BY QueueInit
<1>2. QInv /\ [Next]_vars => QInv' /\ SlotsAreRespectedStep /\ NobodyOvertakesStep  BY QueueStep DEF SoundStep
<1>3. QInv => TypeOK /\ RecordsAgree /\ NobodyWaitsForNothing  BY DEF QInv
<1> QED  BY <1>1, <1>2, <1>3, PTL DEF Spec, SlotsAreRespected, NobodyOvertakes

\* And when the jobs started inside a job end before it, no two jobs trample each other.
THEOREM JobsStaySound ==
  ASSUME KindsAreJobs, InnerJobsEnd
  PROVE  Spec => JobsAreSound
<1> DEFINE Inv == QInv /\ Nested
<1>1. Init => Inv  BY QueueInit
<1>2. Inv /\ [Next]_vars => Inv' /\ SlotsAreRespectedStep /\ NobodyOvertakesStep
  BY QueueStep, NestedStep DEF SoundStep
<1>3. Inv => RecordsAgree /\ NobodyTramples /\ NobodyWaitsForNothing  BY NestedJobsDoNotTrample DEF QInv
<1> QED  BY <1>1, <1>2, <1>3, PTL DEF Spec, JobsAreSound, SlotsAreRespected, NobodyOvertakes
=============================================================================
