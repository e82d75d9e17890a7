------------------------- MODULE HaReplicationProofs -------------------------
(***************************************************************************)
(* Proofs about the copies of the panel's files, for any panel nodes,      *)
(* voters, files, terms and writes, in layers:                             *)
(*                                                                         *)
(*   Versions   versions, terms and acks fit; no version goes back.        *)
(*   Votes      one panel in office at a time, in terms that only rise.    *)
(*   History    what standbys have and what is on its way to them follows  *)
(*              one history of published versions.                         *)
(*   Elections  office passes as PanelLeadership promises.                 *)
(*   Survival   what all voters know to be committed is in that history.   *)
(*                                                                         *)
(* History and Survival take the hypothesis TermsLedOnce, that no two      *)
(* panels are elected in one term: without it SyncedMeansEqual does not    *)
(* hold, as TLC shows.                                                     *)
(***************************************************************************)
EXTENDS HaReplication, FiniteSetTheorems, TLAPS

-----------------------------------------------------------------------------
(* Versions and files.                                                     *)

\* A version is a pair of a term and a number.
LEMMA VersionParts ==
  ASSUME NEW v \in Version
  PROVE  v[1] \in Nat /\ v[2] \in Nat /\ v = <<v[1], v[2]>>
BY DEF Version

\* cmpV orders versions: of two, one is at least as new, and Newest picks it.
LEMMA VersionOrder ==
  ASSUME NEW a \in Version, NEW b \in Version, NEW c \in Version
  PROVE  /\ AtLeast(a, a)
         /\ AtLeast(a, b) \/ AtLeast(b, a)
         /\ AtLeast(a, b) /\ AtLeast(b, c) => AtLeast(a, c)
         /\ Newest(a, b) \in {a, b} /\ AtLeast(Newest(a, b), a) /\ AtLeast(Newest(a, b), b)
<1>1. a[1] \in Nat /\ a[2] \in Nat /\ b[1] \in Nat /\ b[2] \in Nat /\ c[1] \in Nat /\ c[2] \in Nat
  BY VersionParts
<1>2. /\ AtLeast(a, a) /\ (AtLeast(a, b) \/ AtLeast(b, a))
      /\ AtLeast(a, b) /\ AtLeast(b, c) => AtLeast(a, c)
      /\ AtLeast(b, b)
  BY <1>1 DEF AtLeast
<1> QED  BY <1>2 DEF Newest

Parts == UNION {[part -> Content] : part \in SUBSET File}

\* An answer carries some of the files, each with contents.
LEMMA PartOf ==
  ASSUME NEW p \in Parts
  PROVE  DOMAIN p \subseteq File /\ \A f \in DOMAIN p : p[f] \in Content
BY DEF Parts

\* Some of a panel's files make an answer.
LEMMA PartTaken ==
  ASSUME NEW files \in [File -> Content], NEW S \in SUBSET File
  PROVE  [f \in S |-> files[f]] \in Parts
<1>1. [f \in S |-> files[f]] \in [S -> Content]
  OBVIOUS
<1> QED  BY <1>1 DEF Parts

-----------------------------------------------------------------------------
(* The invariant of versions and terms.                                    *)

IsTracker(t) == t.ver \in Version /\ t.files \in [File -> Content] /\ t.seqs \in [File -> 0 .. t.ver[2]]
IsWire(w) == w.from \in Node /\ w.ver \in Version /\ w.term \in 0 .. MaxTerm /\ w.files \in Parts
IsAck(a) == a.to \in Node /\ a.ver \in Version

PerNode ==
  /\ tracker = [n \in Node |-> tracker[n]] /\ wire = [n \in Node |-> wire[n]]
  /\ ack = [n \in Node |-> ack[n]]

\* A node's version is of a term it has heard of; the version of a panel in office is the
\* one its term began with, and its view of its files is of its term.
Terms(n) ==
  /\ ver[n][1] <= term[n]
  /\ role[n] = "candidate" => ver[n][1] < term[n]
  /\ role[n] = "leader" => IsTracker(tracker[n]) /\ tracker[n].ver[1] = term[n] /\ ver[n] = <<term[n], 0>>
  /\ wire[n] # None => wire[n].ver[1] <= wire[n].term /\ wire[n].from # n
  /\ ack[n] # None => ack[n].to # n /\ AtLeast(ver[n], ack[n].ver)

TermsFit == \A n \in Node : Terms(n)

Elsewhere(l) ==
  committed[l] # <<0, 0>> => role[l] = "leader" /\ \E n \in Node : n # l /\ AtLeast(ver[n], committed[l])

Versions == TypeOK /\ PerNode /\ TermsFit /\ \A l \in Node : Elsewhere(l)

\* What TypeOK says of one node.
LEMMA TypesOf ==
  ASSUME TypeOK, NEW n \in Node
  PROVE  /\ role[n] \in {"follower", "candidate", "leader"} /\ term[n] \in 0 .. MaxTerm /\ term[n] \in Nat
         /\ disk[n] \in [File -> Content] /\ ver[n] \in Version /\ committed[n] \in Version
         /\ ver[n][1] \in Nat /\ ver[n][2] \in Nat
         /\ tracker[n] # None => IsTracker(tracker[n])
         /\ wire[n] # None => IsWire(wire[n])
         /\ ack[n] # None => IsAck(ack[n])
<1>1. ver[n] \in Version /\ term[n] \in 0 .. MaxTerm
  BY DEF TypeOK
<1>2. ver[n][1] \in Nat /\ ver[n][2] \in Nat /\ term[n] \in Nat
  BY <1>1, VersionParts, PanelsAndVoters
<1>3. wire[n] # None => IsWire(wire[n])
  BY DEF TypeOK, IsWire, Parts
<1> QED  BY <1>1, <1>2, <1>3 DEF TypeOK, IsTracker, IsAck

\* TypeOK, from what it says of each variable.
LEMMA TypesFrom ==
  ASSUME role \in [Node -> {"follower", "candidate", "leader"}], term \in [Node -> 0 .. MaxTerm],
         disk \in [Node -> [File -> Content]], ver \in [Node -> Version], committed \in [Node -> Version],
         \A n \in Node : /\ tracker[n] = None \/ IsTracker(tracker[n])
                         /\ wire[n] = None \/ IsWire(wire[n])
                         /\ ack[n] = None \/ IsAck(ack[n]),
         voterTerm \in [Voter -> 0 .. MaxTerm], holder \in [Voter -> Node \cup {None}],
         known \in [Voter -> Version],
         \A p \in published : p.ver \in Version /\ p.files \in [File -> Content]
  PROVE  TypeOK
<1>1. \A n \in Node : wire[n] = None \/
        /\ wire[n].from \in Node /\ wire[n].ver \in Version /\ wire[n].term \in 0 .. MaxTerm
        /\ wire[n].files \in UNION {[part -> Content] : part \in SUBSET File}
  BY DEF IsWire, Parts
<1>2. \A n \in Node : tracker[n] = None \/
        /\ tracker[n].ver \in Version /\ tracker[n].files \in [File -> Content]
        /\ tracker[n].seqs \in [File -> 0 .. tracker[n].ver[2]]
  BY DEF IsTracker
<1>3. \A n \in Node : ack[n] = None \/ (ack[n].to \in Node /\ ack[n].ver \in Version)
  BY DEF IsAck
<1> QED  BY <1>1, <1>2, <1>3 DEF TypeOK

\* What a step leaves of the versions when it touches neither versions nor terms nor
\* what is on its way.
LEMMA VersionsKept ==
  ASSUME Versions, TypeOK', UNCHANGED <<role, term, ver, tracker, committed, wire, ack>>
  PROVE  Versions'
<1>1. \A n \in Node : Terms(n)'
  BY DEF Versions, TermsFit, Terms
<1>2. \A l \in Node : Elsewhere(l)'
  BY DEF Versions, Elsewhere
<1> QED  BY <1>1, <1>2 DEF Versions, TermsFit, PerNode

\* What the panel in office reports as committed stays on another disk when no version goes back.
LEMMA ElsewhereKept ==
  ASSUME Versions, \A m \in Node, v \in Version : AtLeast(ver[m], v) => AtLeast(ver'[m], v),
         \A l \in Node : committed'[l] = <<0, 0>> \/ (committed'[l] = committed[l] /\ role'[l] = role[l])
  PROVE  \A l \in Node : Elsewhere(l)'
<1> SUFFICES ASSUME NEW l \in Node, committed'[l] # <<0, 0>>
             PROVE  role'[l] = "leader" /\ \E m \in Node : m # l /\ AtLeast(ver'[m], committed'[l])
  BY DEF Elsewhere
<1>1. committed'[l] = committed[l] /\ role'[l] = role[l] /\ committed[l] \in Version
  BY TypesOf DEF Versions
<1>2. role[l] = "leader" /\ \E m \in Node : m # l /\ AtLeast(ver[m], committed[l])
  BY <1>1 DEF Versions, Elsewhere
<1> QED  BY <1>1, <1>2

\* A write of a file moves no version.
LEMMA WriteFileVersions == ASSUME Versions, NEW n \in Node, NEW f \in File, WriteFile(n, f) PROVE Versions'
<1>1. /\ Write \ Written # {}
      /\ disk' = [disk EXCEPT ![n][f] = @ \cup {CHOOSE w \in Write : w \notin Written}]
      /\ UNCHANGED <<role, term, ver, tracker, committed, wire, ack, vote, published>>
  BY DEF WriteFile
<1>2. disk \in [Node -> [File -> Content]] /\ TypeOK
  BY DEF Versions, TypeOK
<1>3. (CHOOSE w \in Write : w \notin Written) \in Write
  BY <1>1
<1>4. disk' \in [Node -> [File -> Content]]
  BY <1>1, <1>2, <1>3 DEF Content
<1>5. TypeOK'
  BY <1>1, <1>2, <1>4 DEF TypeOK, vote
<1> QED  BY <1>1, <1>5, VersionsKept

\* scan: the new version is of the panel's own term.
LEMMA ScanVersions == ASSUME Versions, NEW n \in Node, Scan(n) PROVE Versions'
<1> DEFINE T == tracker[n]
           seq == T.ver[2] + 1
           new == [ver |-> <<T.ver[1], seq>>, files |-> disk[n],
                   seqs |-> [f \in File |-> IF f \in Changed(n) THEN seq ELSE T.seqs[f]]]
<1>1. /\ role[n] = "leader" /\ tracker' = [tracker EXCEPT ![n] = new]
      /\ published' = published \cup {[ver |-> tracker'[n].ver, files |-> disk[n]]}
      /\ UNCHANGED <<role, term, disk, ver, committed, wire, ack, vote>>
  BY DEF Scan
<1>2. TypeOK /\ PerNode /\ Terms(n) /\ disk[n] \in [File -> Content] /\ IsTracker(T)
  BY <1>1, TypesOf DEF Versions, TermsFit, Terms
<1>3. T.ver[1] \in Nat /\ T.ver[2] \in Nat
  BY <1>2, VersionParts DEF IsTracker
<1>4. new.ver \in Version /\ new.ver[1] = T.ver[1] /\ new.ver[2] = seq
  BY <1>3 DEF Version
<1>5. new.seqs \in [File -> 0 .. new.ver[2]]
  BY <1>2, <1>3, <1>4 DEF IsTracker
<1>6. IsTracker(new)
  BY <1>2, <1>4, <1>5 DEF IsTracker
<1>7. new.ver[1] = T.ver[1] /\ new.files = disk[n]
  BY <1>3
<1> HIDE DEF new
<1>8. /\ tracker' = [m \in Node |-> tracker'[m]] /\ tracker'[n] = new
      /\ \A m \in Node \ {n} : tracker'[m] = tracker[m]
  BY <1>1, <1>2 DEF PerNode
<1>9. \A p \in published' : p.ver \in Version /\ p.files \in [File -> Content]
  BY <1>1, <1>2, <1>6, <1>8 DEF TypeOK, IsTracker
<1>10. \A m \in Node : tracker'[m] = None \/ IsTracker(tracker'[m])
  BY <1>2, <1>6, <1>8, TypesOf
<1>11. TypeOK'
  BY <1>1, <1>2, <1>9, <1>10 DEF TypeOK, IsTracker, vote
<1>12. \A m \in Node : Terms(m)'
  <2> SUFFICES ASSUME NEW m \in Node PROVE Terms(m)'
    OBVIOUS
  <2>1. Terms(m)
    BY DEF Versions, TermsFit
  <2>2. CASE m = n
    BY <1>1, <1>2, <1>6, <1>7, <1>8, <2>1, <2>2 DEF Terms, IsTracker
  <2>3. CASE m # n
    BY <1>1, <1>8, <2>1, <2>3 DEF Terms, IsTracker
  <2> QED  BY <2>2, <2>3
<1>13. \A l \in Node : Elsewhere(l)'
  BY <1>1 DEF Versions, Elsewhere
<1>14. PerNode'
  BY <1>1, <1>2, <1>8 DEF PerNode
<1> QED  BY <1>11, <1>12, <1>13, <1>14 DEF Versions, TermsFit

\* handleAck: the version that becomes committed is on the disk of the node that acknowledged it.
LEMMA DeliverAckVersions == ASSUME Versions, NEW n \in Node, DeliverAck(n) PROVE Versions'
<1> DEFINE l == ack[n].to
           v == ack[n].ver
<1>1. /\ ack[n] # None
      /\ committed' = IF role[l] = "leader" /\ AtLeast(tracker[l].ver, v)
                      THEN [committed EXCEPT ![l] = Newest(v, @)] ELSE committed
      /\ ack' = [ack EXCEPT ![n] = None]
      /\ UNCHANGED <<role, term, disk, ver, tracker, wire, vote, published>>
  BY DEF DeliverAck
<1>2. /\ TypeOK /\ PerNode /\ Terms(n) /\ l \in Node /\ v \in Version /\ committed \in [Node -> Version]
      /\ l # n /\ AtLeast(ver[n], v)
  BY <1>1, TypesOf DEF Versions, TermsFit, Terms, IsAck, TypeOK
<1>3. ack' = [m \in Node |-> ack'[m]] /\ ack'[n] = None /\ \A m \in Node \ {n} : ack'[m] = ack[m]
  BY <1>1, <1>2 DEF PerNode
<1>4. /\ committed' \in [Node -> Version]
      /\ \A m \in Node : committed'[m] = committed[m] \/ (m = l /\ committed'[m] \in {v, committed[m]})
  <2>1. committed[l] \in Version
    BY <1>2
  <2>2. Newest(v, committed[l]) \in {v, committed[l]}
    BY <1>2, <2>1, VersionOrder
  <2> HIDE DEF v, l
  <2> QED  BY <1>1, <1>2, <2>1, <2>2
<1> HIDE DEF v, l
<1>5. \A m \in Node : ack'[m] = None \/ IsAck(ack'[m])
  BY <1>2, <1>3, TypesOf
<1>6. TypeOK'
  BY <1>1, <1>2, <1>4, <1>5 DEF TypeOK, IsAck, vote
<1>7. \A m \in Node : Terms(m)'
  BY <1>1, <1>3 DEF Versions, TermsFit, Terms
<1>8. \A m \in Node : Elsewhere(m)'
  BY <1>1, <1>2, <1>4 DEF Versions, Elsewhere
<1>9. PerNode'
  BY <1>1, <1>2, <1>3 DEF PerNode
<1> QED  BY <1>6, <1>7, <1>8, <1>9 DEF Versions, TermsFit

\* An answer is of the term of the panel that gives it.
LEMMA PollVersions == ASSUME Versions, NEW n \in Node, NEW l \in Node, Poll(n, l) PROVE Versions'
<1> DEFINE w == [from |-> l, ver |-> tracker[l].ver, term |-> term[l],
                 files |-> [f \in FilesSince(l, ver[n]) |-> tracker[l].files[f]]]
<1>1. /\ n # l /\ role[l] = "leader" /\ wire' = [wire EXCEPT ![n] = w]
      /\ UNCHANGED <<role, term, disk, ver, tracker, committed, ack, vote, published>>
  BY DEF Poll
<1>2. /\ TypeOK /\ PerNode /\ IsTracker(tracker[l]) /\ tracker[l].ver[1] = term[l]
      /\ term[l] \in 0 .. MaxTerm /\ term[l] \in Nat
  BY <1>1, TypesOf DEF Versions, TermsFit, Terms
<1>3. FilesSince(l, ver[n]) \in SUBSET File
  BY DEF FilesSince
<1>4. [f \in FilesSince(l, ver[n]) |-> tracker[l].files[f]] \in Parts
  BY <1>2, <1>3, PartTaken DEF IsTracker
<1>5. IsWire(w) /\ w.ver[1] = w.term /\ w.from = l
  BY <1>2, <1>4 DEF IsWire, IsTracker
<1> HIDE DEF w
<1>6. wire' = [m \in Node |-> wire'[m]] /\ wire'[n] = w /\ \A m \in Node \ {n} : wire'[m] = wire[m]
  BY <1>1, <1>2 DEF PerNode
<1>7. \A m \in Node : wire'[m] = None \/ IsWire(wire'[m])
  BY <1>2, <1>5, <1>6, TypesOf
<1>8. TypeOK'
  BY <1>1, <1>2, <1>7 DEF TypeOK, IsWire, Parts, vote
<1>9. w.ver[1] <= w.term
  BY <1>2, <1>5 DEF w
<1>10. \A m \in Node : Terms(m)'
  BY <1>1, <1>5, <1>6, <1>9 DEF Versions, TermsFit, Terms, IsTracker
<1>11. \A m \in Node : Elsewhere(m)'
  BY <1>1 DEF Versions, Elsewhere
<1>12. PerNode'
  BY <1>1, <1>2, <1>6 DEF PerNode
<1> QED  BY <1>8, <1>10, <1>11, <1>12 DEF Versions, TermsFit

\* A state from the network is written: nothing is lost of what a file may hold.
LEMMA OverwrittenFits ==
  ASSUME TypeOK, NEW n \in Node, wire[n] # None, NEW part \in SUBSET (DOMAIN wire[n].files)
  PROVE  Overwritten(n, part) \in [File -> Content]
<1>1. wire[n].files \in Parts /\ disk[n] \in [File -> Content]
  BY TypesOf DEF IsWire
<1>2. \A f \in part : wire[n].files[f] \in Content
  BY <1>1, PartOf
<1> QED  BY <1>1, <1>2 DEF Overwritten

\* applyState: the node's version is the answer's, which is not older, and that is what it acknowledges.
LEMMA TakeStateVersions == ASSUME Versions, NEW n \in Node, TakeState(n) PROVE Versions'
<1> DEFINE w == wire[n]
<1>1. /\ w # None /\ role[n] # "leader" /\ AtLeast(w.ver, ver[n])
      /\ disk' = [disk EXCEPT ![n] = Overwritten(n, DOMAIN w.files)]
      /\ ver' = [ver EXCEPT ![n] = w.ver]
      /\ term' = [term EXCEPT ![n] = Higher(@, w.term)]
      /\ role' = [role EXCEPT ![n] = "follower"]
      /\ ack' = [ack EXCEPT ![n] = [to |-> w.from, ver |-> w.ver]]
      /\ wire' = [wire EXCEPT ![n] = None]
      /\ UNCHANGED <<tracker, committed, vote, published>>
  BY DEF TakeState
<1>2. TypeOK /\ PerNode /\ Terms(n) /\ IsWire(w) /\ Overwritten(n, DOMAIN w.files) \in [File -> Content]
  BY <1>1, TypesOf, OverwrittenFits DEF Versions, TermsFit
<1>3. /\ w.ver \in Version /\ w.term \in 0 .. MaxTerm /\ w.from \in Node /\ w.from # n /\ w.ver[1] <= w.term
      /\ ver[n] \in Version /\ w.ver[1] \in Nat /\ term[n] \in 0 .. MaxTerm
  BY <1>1, <1>2, TypesOf, VersionParts DEF IsWire, Terms
<1> HIDE DEF w
<1>4. /\ \A m \in Node \ {n} : /\ ver'[m] = ver[m] /\ term'[m] = term[m] /\ role'[m] = role[m]
                               /\ ack'[m] = ack[m] /\ wire'[m] = wire[m]
      /\ ver'[n] = w.ver /\ term'[n] = Higher(term[n], w.term) /\ role'[n] = "follower" /\ wire'[n] = None
      /\ ack'[n].to = w.from /\ ack'[n].ver = w.ver
  BY <1>1, <1>2 DEF TypeOK, PerNode
<1>5. Higher(term[n], w.term) \in 0 .. MaxTerm /\ w.ver[1] <= Higher(term[n], w.term)
  BY <1>3, PanelsAndVoters DEF Higher
<1>6. /\ disk' \in [Node -> [File -> Content]] /\ ver' \in [Node -> Version] /\ term' \in [Node -> 0 .. MaxTerm]
      /\ role' \in [Node -> {"follower", "candidate", "leader"}]
  BY <1>1, <1>2, <1>3, <1>5 DEF TypeOK
<1>7. \A m \in Node : wire'[m] = None \/ IsWire(wire'[m])
  BY <1>2, <1>4, TypesOf
<1>8. \A m \in Node : ack'[m] = None \/ IsAck(ack'[m])
  BY <1>2, <1>3, <1>4, TypesOf DEF IsAck
<1>9. TypeOK'
  BY <1>1, <1>2, <1>6, <1>7, <1>8 DEF TypeOK, IsWire, IsAck, Parts, vote
<1>10. AtLeast(w.ver, w.ver)
  BY <1>3, VersionOrder
<1>11. \A m \in Node : Terms(m)'
  <2> SUFFICES ASSUME NEW m \in Node PROVE Terms(m)'
    OBVIOUS
  <2>1. CASE m = n
    BY <1>3, <1>4, <1>5, <1>10, <2>1 DEF Terms
  <2>2. CASE m # n
    BY <1>1, <1>4, <2>2 DEF Versions, TermsFit, Terms, IsTracker
  <2> QED  BY <2>1, <2>2
<1>12. \A l \in Node : Elsewhere(l)'
  <2>1. \A m \in Node, v \in Version : AtLeast(ver[m], v) => AtLeast(ver'[m], v)
    <3> SUFFICES ASSUME NEW m \in Node, NEW v \in Version, AtLeast(ver[m], v) PROVE AtLeast(ver'[m], v)
      OBVIOUS
    <3>1. AtLeast(w.ver, ver[n]) /\ ver[m] \in Version
      BY <1>1, <1>2, TypesOf DEF w
    <3>2. CASE m = n
      BY <1>3, <1>4, <3>1, <3>2, VersionOrder
    <3>3. CASE m # n
      BY <1>4, <3>3
    <3> QED  BY <3>2, <3>3
  <2>2. committed[n] = <<0, 0>>
    BY <1>1 DEF Versions, Elsewhere
  <2> QED  BY <1>1, <1>4, <2>1, <2>2, ElsewhereKept
<1>13. PerNode'
  BY <1>1, <1>2 DEF PerNode
<1> QED  BY <1>9, <1>11, <1>12, <1>13 DEF Versions, TermsFit

\* A process that comes back is a standby, with a version that is not older than the one on disk.
LEMMA RestartsVersions ==
  ASSUME Versions, NEW n \in Node, Restarts(n), disk' \in [Node -> [File -> Content]],
         ver' \in [Node -> Version], \A m \in Node \ {n} : ver'[m] = ver[m],
         ver'[n][1] <= term[n], AtLeast(ver'[n], ver[n]), UNCHANGED <<term, ack, vote, published>>
  PROVE  Versions'
<1>1. /\ role' = [role EXCEPT ![n] = "follower"] /\ tracker' = [tracker EXCEPT ![n] = None]
      /\ committed' = [committed EXCEPT ![n] = <<0, 0>>] /\ wire' = [wire EXCEPT ![n] = None]
  BY DEF Restarts
<1>2. TypeOK /\ PerNode /\ Terms(n) /\ <<0, 0>> \in Version
  BY DEF Versions, TermsFit, Version
<1>3. /\ \A m \in Node \ {n} : /\ role'[m] = role[m] /\ tracker'[m] = tracker[m]
                               /\ committed'[m] = committed[m] /\ wire'[m] = wire[m]
      /\ role'[n] = "follower" /\ tracker'[n] = None /\ committed'[n] = <<0, 0>> /\ wire'[n] = None
  BY <1>1, <1>2 DEF TypeOK, PerNode
<1>4. /\ role' \in [Node -> {"follower", "candidate", "leader"}] /\ committed' \in [Node -> Version]
  BY <1>1, <1>2 DEF TypeOK
<1>5. \A m \in Node : /\ wire'[m] = None \/ IsWire(wire'[m])
                      /\ tracker'[m] = None \/ IsTracker(tracker'[m])
  BY <1>2, <1>3, TypesOf
<1>6. TypeOK'
  BY <1>2, <1>4, <1>5 DEF TypeOK, IsWire, IsTracker, Parts, vote
<1>7. \A m \in Node, v \in Version : AtLeast(ver[m], v) => AtLeast(ver'[m], v)
  <2> SUFFICES ASSUME NEW m \in Node, NEW v \in Version, AtLeast(ver[m], v) PROVE AtLeast(ver'[m], v)
    OBVIOUS
  <2>1. ver[m] \in Version /\ ver'[m] \in Version
    BY <1>2, TypesOf
  <2>2. CASE m = n
    BY <2>1, <2>2, VersionOrder
  <2>3. CASE m # n
    BY <2>3
  <2> QED  BY <2>2, <2>3
<1>8. \A m \in Node : Terms(m)'
  <2> SUFFICES ASSUME NEW m \in Node PROVE Terms(m)'
    OBVIOUS
  <2>1. Terms(m) /\ (ack[m] # None => ack[m].ver \in Version)
    BY <1>2, TypesOf DEF Versions, TermsFit, IsAck
  <2>2. ack'[m] # None => ack'[m].to # m /\ AtLeast(ver'[m], ack'[m].ver)
    BY <1>7, <2>1 DEF Terms
  <2>3. CASE m = n
    BY <1>3, <2>2, <2>3 DEF Terms
  <2>4. CASE m # n
    BY <1>3, <2>1, <2>2, <2>4 DEF Terms, IsTracker
  <2> QED  BY <2>3, <2>4
<1>9. \A l \in Node : Elsewhere(l)'
  BY <1>3, <1>7, ElsewhereKept
<1>10. PerNode'
  BY <1>1, <1>2 DEF PerNode
<1> QED  BY <1>6, <1>8, <1>9, <1>10 DEF Versions, TermsFit

\* The version that a panel in office may have saved before its process ended.
LEMMA SavedVersion ==
  ASSUME Versions, NEW n \in Node, Restart(n)
  PROVE  /\ ver' \in [Node -> Version] /\ \A m \in Node \ {n} : ver'[m] = ver[m]
         /\ ver'[n][1] = (IF role[n] = "leader" THEN term[n] ELSE ver[n][1]) /\ ver'[n][1] <= term[n]
         /\ AtLeast(ver'[n], ver[n])
         /\ role[n] # "leader" => ver' = ver
<1>1. TypeOK /\ Terms(n) /\ ver \in [Node -> Version] /\ ver[n] \in Version /\ term[n] \in Nat
  BY TypesOf DEF Versions, TermsFit, TypeOK
<1>2. CASE role[n] = "leader"
  <2>1. IsTracker(tracker[n]) /\ tracker[n].ver[2] \in Nat /\ ver[n] = <<term[n], 0>>
    BY <1>1, <1>2, VersionParts DEF Terms, IsTracker
  <2>2. PICK seq \in 0 .. tracker[n].ver[2] : ver' = [ver EXCEPT ![n] = <<term[n], seq>>]
    BY <1>2 DEF Restart
  <2>3. seq \in Nat /\ <<term[n], seq>> \in Version
    BY <1>1, <2>1 DEF Version
  <2>4. ver' \in [Node -> Version] /\ ver'[n] = <<term[n], seq>> /\ \A m \in Node \ {n} : ver'[m] = ver[m]
    BY <1>1, <2>2, <2>3
  <2> QED  BY <1>1, <1>2, <2>1, <2>3, <2>4 DEF AtLeast
<1>3. CASE role[n] # "leader"
  <2>1. ver' = ver
    BY <1>3 DEF Restart
  <2> QED  BY <1>1, <1>3, <2>1, VersionOrder DEF Terms
<1> QED  BY <1>2, <1>3

\* A fence, a crash or an update takes no version back.
LEMMA RestartVersions == ASSUME Versions, NEW n \in Node, Restart(n) PROVE Versions'
<1>1. Restarts(n) /\ UNCHANGED <<term, disk, ack, vote, published>> /\ disk \in [Node -> [File -> Content]]
  BY DEF Restart, Versions, TypeOK
<1> QED  BY <1>1, SavedVersion, RestartsVersions

\* A crash in applyState leaves the version, which is written last, as it was.
LEMMA CrashVersions == ASSUME Versions, NEW n \in Node, CrashInApply(n) PROVE Versions'
<1>1. /\ wire[n] # None /\ Restarts(n) /\ UNCHANGED <<ver, term, ack, vote, published>>
      /\ \E part \in SUBSET (DOMAIN wire[n].files) : disk' = [disk EXCEPT ![n] = Overwritten(n, part)]
  BY DEF CrashInApply
<1>2. TypeOK /\ Terms(n) /\ ver \in [Node -> Version] /\ ver[n] \in Version /\ disk \in [Node -> [File -> Content]]
  BY TypesOf DEF Versions, TermsFit, TypeOK
<1>3. disk' \in [Node -> [File -> Content]]
  BY <1>1, <1>2, OverwrittenFits
<1>4. AtLeast(ver[n], ver[n]) /\ ver[n][1] <= term[n]
  BY <1>2, VersionOrder DEF Terms
<1> QED  BY <1>1, <1>2, <1>3, <1>4, RestartsVersions

\* An answer that is lost changes nothing at its node.
LEMMA DropStateVersions == ASSUME Versions, NEW n \in Node, DropState(n) PROVE Versions'
<1>1. /\ wire' = [wire EXCEPT ![n] = None]
      /\ UNCHANGED <<role, term, disk, ver, tracker, committed, ack, vote, published>>
  BY DEF DropState
<1>2. TypeOK /\ PerNode
  BY DEF Versions
<1>3. wire'[n] = None /\ \A m \in Node \ {n} : wire'[m] = wire[m]
  BY <1>1, <1>2 DEF PerNode
<1>4. \A m \in Node : wire'[m] = None \/ IsWire(wire'[m])
  BY <1>2, <1>3, TypesOf
<1>5. TypeOK'
  BY <1>1, <1>2, <1>4 DEF TypeOK, IsWire, Parts, vote
<1>6. \A m \in Node : Terms(m)'
  BY <1>1, <1>3 DEF Versions, TermsFit, Terms, IsTracker
<1>7. (\A l \in Node : Elsewhere(l)') /\ PerNode'
  BY <1>1, <1>2 DEF Versions, Elsewhere, PerNode
<1> QED  BY <1>5, <1>6, <1>7 DEF Versions, TermsFit

\* A node stands, or gives up its candidacy.
LEMMA CandidacyVersions ==
  ASSUME Versions, NEW n \in Node, Stand(n) \/ GiveUp(n) \/ \E l \in Node : PollInSync(n, l)
  PROVE  Versions'
<1>1. /\ role[n] # "leader" /\ role'[n] # "leader" /\ role'[n] \in {"follower", "candidate"}
      /\ role' \in [Node -> {"follower", "candidate", "leader"}] /\ \A m \in Node \ {n} : role'[m] = role[m]
      /\ UNCHANGED <<disk, ver, tracker, committed, wire, ack, vote, published>>
  BY DEF Stand, GiveUp, PollInSync, Versions, TypeOK
<1>2. TypeOK /\ PerNode /\ Terms(n)
  BY DEF Versions, TermsFit
<1>3. /\ term' \in [Node -> 0 .. MaxTerm] /\ \A m \in Node \ {n} : term'[m] = term[m]
      /\ term'[n] >= term[n] /\ (role'[n] = "candidate" => term'[n] > term[n])
  <2>1. CASE Stand(n)
    <3>1. PICK heard \in {term[n]} \cup {voterTerm[v] : v \in Voter} :
            /\ Higher(heard, term[n]) < MaxTerm
            /\ term' = [term EXCEPT ![n] = Higher(heard, term[n]) + 1]
      BY <2>1 DEF Stand
    <3>2. heard \in Nat /\ term[n] \in Nat /\ MaxTerm \in Nat
      BY <1>2, PanelsAndVoters DEF TypeOK
    <3>3. Higher(heard, term[n]) + 1 \in 0 .. MaxTerm /\ Higher(heard, term[n]) + 1 > term[n]
      BY <3>1, <3>2 DEF Higher
    <3> QED  BY <1>2, <3>1, <3>2, <3>3 DEF TypeOK
  <2>2. CASE GiveUp(n) \/ \E l \in Node : PollInSync(n, l)
    <3>1. term' = term /\ role'[n] = "follower" /\ term[n] \in Nat
      BY <1>2, <2>2, PanelsAndVoters DEF GiveUp, PollInSync, TypeOK
    <3> QED  BY <1>2, <3>1 DEF TypeOK
  <2> QED  BY <2>1, <2>2
<1>4. TypeOK'
  BY <1>1, <1>2, <1>3 DEF TypeOK, vote
<1>5. \A m \in Node : Terms(m)'
  <2> SUFFICES ASSUME NEW m \in Node PROVE Terms(m)'
    OBVIOUS
  <2>1. Terms(m)
    BY DEF Versions, TermsFit
  <2>2. term[n] \in Nat /\ term'[n] \in Nat /\ ver[n][1] \in Nat
    BY <1>2, <1>4, <1>3, TypesOf, PanelsAndVoters
  <2>3. CASE m = n
    BY <1>1, <1>3, <2>1, <2>2, <2>3 DEF Terms
  <2>4. CASE m # n
    BY <1>1, <1>3, <2>1, <2>4 DEF Terms, IsTracker
  <2> QED  BY <2>3, <2>4
<1>6. (\A l \in Node : Elsewhere(l)') /\ PerNode'
  <2>1. committed[n] = <<0, 0>>
    BY <1>1 DEF Versions, Elsewhere
  <2> QED  BY <1>1, <1>2, <2>1, ElsewhereKept DEF PerNode
<1> QED  BY <1>4, <1>5, <1>6 DEF Versions, TermsFit

\* Votes and what voters hear move no version of a node.
LEMMA VotesVersions ==
  ASSUME Versions, \/ \E v \in Voter : LeaseEnds(v)
                   \/ \E v \in Voter, n \in Node : Grant(v, n) \/ Hear(v, n)
  PROVE  Versions'
<1>1. UNCHANGED <<role, term, disk, ver, tracker, committed, wire, ack, published>>
  BY DEF LeaseEnds, Grant, Hear
<1>2. TypeOK
  BY DEF Versions
<1>3. voterTerm' \in [Voter -> 0 .. MaxTerm] /\ holder' \in [Voter -> Node \cup {None}] /\ known' \in [Voter -> Version]
  BY <1>2 DEF LeaseEnds, Grant, Hear, TypeOK
<1>4. TypeOK'
  BY <1>1, <1>2, <1>3 DEF TypeOK
<1> QED  BY <1>1, <1>4, VersionsKept

\* promote: the version of the new term is above the one the node had.
LEMMA PromoteVersions == ASSUME Versions, NEW n \in Node, Promote(n) PROVE Versions'
<1> DEFINE T == FreshTracker(term[n], disk[n])
<1>1. /\ role[n] = "candidate" /\ role' = [role EXCEPT ![n] = "leader"]
      /\ tracker' = [tracker EXCEPT ![n] = T] /\ ver' = [ver EXCEPT ![n] = <<term[n], 0>>]
      /\ published' = published \cup {[ver |-> <<term[n], 0>>, files |-> disk[n]]}
      /\ UNCHANGED <<term, disk, committed, wire, ack, vote>>
  BY DEF Promote
<1>2. /\ TypeOK /\ PerNode /\ Terms(n) /\ term[n] \in Nat /\ disk[n] \in [File -> Content]
      /\ ver[n] \in Version /\ ver[n][1] \in Nat /\ ver[n][2] \in Nat
  BY TypesOf DEF Versions, TermsFit
<1>3. <<term[n], 0>> \in Version /\ AtLeast(<<term[n], 0>>, ver[n])
  BY <1>1, <1>2 DEF Version, Terms, AtLeast
<1>4. IsTracker(T) /\ T.ver[1] = term[n]
  <2>1. T.ver = <<term[n], 0>> /\ T.files = disk[n] /\ T.seqs = [f \in File |-> 0] /\ T.ver[2] = 0
    BY DEF FreshTracker
  <2>2. T.seqs \in [File -> 0 .. T.ver[2]]
    BY <2>1
  <2> QED  BY <1>2, <1>3, <2>1, <2>2 DEF IsTracker
<1> HIDE DEF T
<1>5. /\ \A m \in Node \ {n} : role'[m] = role[m] /\ tracker'[m] = tracker[m] /\ ver'[m] = ver[m]
      /\ role'[n] = "leader" /\ tracker'[n] = T /\ ver'[n] = <<term[n], 0>>
  BY <1>1, <1>2 DEF TypeOK, PerNode
<1>6. role' \in [Node -> {"follower", "candidate", "leader"}] /\ ver' \in [Node -> Version]
  BY <1>1, <1>2, <1>3 DEF TypeOK
<1>7. \A p \in published' : p.ver \in Version /\ p.files \in [File -> Content]
  <2> DEFINE q == [ver |-> <<term[n], 0>>, files |-> disk[n]]
  <2>1. q.ver \in Version /\ q.files \in [File -> Content]
    BY <1>2, <1>3
  <2> HIDE DEF q
  <2> QED  BY <1>1, <1>2, <2>1 DEF TypeOK, q
<1>8. \A m \in Node : tracker'[m] = None \/ IsTracker(tracker'[m])
  BY <1>2, <1>4, <1>5, TypesOf
<1>9. TypeOK'
  BY <1>1, <1>2, <1>6, <1>7, <1>8 DEF TypeOK, IsTracker, vote
<1>10. \A m \in Node, v \in Version : AtLeast(ver[m], v) => AtLeast(ver'[m], v)
  <2> SUFFICES ASSUME NEW m \in Node, NEW v \in Version, AtLeast(ver[m], v) PROVE AtLeast(ver'[m], v)
    OBVIOUS
  <2>1. CASE m = n
    BY <1>2, <1>3, <1>5, <2>1, VersionOrder
  <2>2. CASE m # n
    BY <1>5, <2>2
  <2> QED  BY <2>1, <2>2
<1>11. \A m \in Node : Terms(m)'
  <2> SUFFICES ASSUME NEW m \in Node PROVE Terms(m)'
    OBVIOUS
  <2>1. Terms(m) /\ (ack[m] # None => ack[m].ver \in Version)
    BY <1>2, TypesOf DEF Versions, TermsFit, IsAck
  <2>2. ack'[m] # None => ack'[m].to # m /\ AtLeast(ver'[m], ack'[m].ver)
    BY <1>1, <1>10, <2>1 DEF Terms
  <2>3. CASE m = n
    <3>1. ver'[n][1] = term[n] /\ term'[n] = term[n]
      BY <1>1, <1>5
    <3> QED  BY <1>1, <1>2, <1>4, <1>5, <2>1, <2>2, <2>3, <3>1 DEF Terms, IsTracker
  <2>4. CASE m # n
    BY <1>1, <1>5, <2>1, <2>2, <2>4 DEF Terms, IsTracker
  <2> QED  BY <2>3, <2>4
<1>12. \A l \in Node : Elsewhere(l)'
  <2>1. committed[n] = <<0, 0>>
    BY <1>1 DEF Versions, Elsewhere
  <2> QED  BY <1>1, <1>5, <1>10, <2>1, ElsewhereKept
<1>13. PerNode'
  BY <1>1, <1>2 DEF PerNode
<1> QED  BY <1>9, <1>11, <1>12, <1>13 DEF Versions, TermsFit

\* Versions and terms fit when one panel has just been elected.
LEMMA InitVersions == Init => Versions
<1> SUFFICES ASSUME Init PROVE Versions
  OBVIOUS
<1> USE PanelsAndVoters
<1>1. <<0, 0>> \in Version /\ <<1, 0>> \in Version
  BY DEF Version
<1>2. Empty \in [File -> Content] /\ 0 \in 0 .. MaxTerm /\ 1 \in 0 .. MaxTerm
  BY DEF Empty, Content
<1>3. IsTracker(FreshTracker(1, Empty)) /\ FreshTracker(1, Empty).ver[1] = 1
  <2> DEFINE T == FreshTracker(1, Empty)
  <2>1. T.ver = <<1, 0>> /\ T.files = Empty /\ T.seqs = [f \in File |-> 0] /\ T.ver[2] = 0
    BY DEF FreshTracker
  <2>2. T.seqs \in [File -> 0 .. T.ver[2]]
    BY <2>1
  <2> QED  BY <1>1, <1>2, <2>1, <2>2 DEF IsTracker
<1>4. /\ tracker = [n \in Node |-> IF n = First THEN FreshTracker(1, Empty) ELSE None]
      /\ wire = [n \in Node |-> None] /\ ack = [n \in Node |-> None]
  BY DEF Init
<1>5. \A n \in Node : /\ tracker[n] = None \/ IsTracker(tracker[n])
                      /\ wire[n] = None /\ ack[n] = None
  BY <1>3, <1>4
<1>6. TypeOK
  <2>1. /\ role \in [Node -> {"follower", "candidate", "leader"}] /\ term \in [Node -> 0 .. MaxTerm]
        /\ disk \in [Node -> [File -> Content]] /\ ver \in [Node -> Version]
        /\ committed \in [Node -> Version]
    BY <1>1, <1>2 DEF Init
  <2>2. /\ voterTerm \in [Voter -> 0 .. MaxTerm] /\ holder \in [Voter -> Node \cup {None}]
        /\ known \in [Voter -> Version]
    BY <1>1, <1>2 DEF Init
  <2>3. \A p \in published : p.ver \in Version /\ p.files \in [File -> Content]
    BY <1>1, <1>2 DEF Init
  <2> QED  BY <1>5, <2>1, <2>2, <2>3, TypesFrom
<1>7. \A n \in Node : Terms(n)
  <2> SUFFICES ASSUME NEW n \in Node PROVE Terms(n)
    OBVIOUS
  <2>1. CASE n = First
    <3>1. role[n] = "leader" /\ term[n] = 1 /\ ver[n] = <<1, 0>> /\ tracker[n] = FreshTracker(1, Empty)
      BY <2>1 DEF Init
    <3> QED  BY <1>3, <1>5, <3>1 DEF Terms
  <2>2. CASE n # First
    <3>1. role[n] = "follower" /\ term[n] = 0 /\ ver[n] = <<0, 0>>
      BY <2>2 DEF Init
    <3> QED  BY <1>5, <3>1 DEF Terms
  <2> QED  BY <2>1, <2>2
<1>8. (\A l \in Node : Elsewhere(l)) /\ PerNode
  <2>1. committed = [n \in Node |-> <<0, 0>>]
    BY DEF Init
  <2> QED  BY <1>4, <2>1 DEF Elsewhere, PerNode
<1> QED  BY <1>6, <1>7, <1>8 DEF Versions, TermsFit

\* Every step of the panels and of the voters keeps versions and terms fitting.
LEMMA StepVersions == Versions /\ [Next]_vars => Versions'
<1> SUFFICES ASSUME Versions, [Next]_vars PROVE Versions'
  OBVIOUS
<1>1. CASE UNCHANGED vars
  <2>1. TypeOK'
    BY <1>1 DEF Versions, TypeOK, vars, vote
  <2> QED  BY <1>1, <2>1, VersionsKept DEF vars
<1>2. ASSUME NEW n \in Node, Scan(n) \/ DeliverAck(n) \/ TakeState(n) \/ DropState(n)
      PROVE  Versions'
  BY <1>2, ScanVersions, DeliverAckVersions, TakeStateVersions, DropStateVersions
<1>3. ASSUME NEW n \in Node, Restart(n) \/ CrashInApply(n) \/ Stand(n) \/ GiveUp(n) \/ Promote(n)
      PROVE  Versions'
  BY <1>3, RestartVersions, CrashVersions, CandidacyVersions, PromoteVersions
<1>4. ASSUME NEW n \in Node, NEW f \in File, WriteFile(n, f)
      PROVE  Versions'
  BY <1>4, WriteFileVersions
<1>5. ASSUME NEW n \in Node, NEW l \in Node, Poll(n, l) \/ PollInSync(n, l)
      PROVE  Versions'
  BY <1>5, PollVersions, CandidacyVersions
<1>6. CASE \/ \E v \in Voter : LeaseEnds(v)
           \/ \E v \in Voter, n \in Node : Grant(v, n) \/ Hear(v, n)
  BY <1>6, VotesVersions
<1> QED  BY <1>1, <1>2, <1>3, <1>4, <1>5, <1>6 DEF Next

\* A node's version and what it sends, takes and acknowledges are of terms it has heard of, and
\* what the panel in office counts as committed is on another disk (trackerStart, handleAck,
\* applyState of ha.mjs).
THEOREM VersionsHold == Spec => []Versions
BY InitVersions, StepVersions, PTL DEF Spec

\* Every variable keeps its type, with terms up to the bound and numbers of files' last changes up
\* to the version of the tracker.
THEOREM TypeCorrect == Spec => []TypeOK
<1>1. Versions => TypeOK
  BY DEF Versions
<1> QED  BY <1>1, VersionsHold, PTL

\* handleAck: the panel in office calls committed only what another node has on its disk.
THEOREM CommittedIsCopied == Spec => []CommittedIsElsewhere
<1>1. Versions => CommittedIsElsewhere
  BY DEF Versions, Elsewhere, CommittedIsElsewhere
<1> QED  BY <1>1, VersionsHold, PTL

\* No step takes a node's version back.
LEMMA VersionsRise ==
  ASSUME Versions, [Next]_vars
  PROVE  \A n \in Node : AtLeast(ver'[n], ver[n])
<1>1. TypeOK /\ ver \in [Node -> Version] /\ \A n \in Node : AtLeast(ver[n], ver[n])
  BY TypesOf, VersionOrder DEF Versions, TypeOK
<1>2. CASE UNCHANGED ver
  BY <1>1, <1>2
<1>3. ASSUME NEW n \in Node, TakeState(n)
      PROVE  \A m \in Node : AtLeast(ver'[m], ver[m])
  BY <1>1, <1>3 DEF TakeState
<1>4. ASSUME NEW n \in Node, Restart(n)
      PROVE  \A m \in Node : AtLeast(ver'[m], ver[m])
  BY <1>1, <1>4, SavedVersion
<1>5. ASSUME NEW n \in Node, Promote(n)
      PROVE  \A m \in Node : AtLeast(ver'[m], ver[m])
  <2>1. role[n] = "candidate" /\ ver' = [ver EXCEPT ![n] = <<term[n], 0>>]
    BY <1>5 DEF Promote
  <2>2. ver[n][1] < term[n] /\ term[n] \in Nat /\ ver[n][1] \in Nat
    BY <1>1, <2>1, TypesOf DEF Versions, TermsFit, Terms
  <2>3. AtLeast(<<term[n], 0>>, ver[n])
    BY <2>2 DEF AtLeast
  <2> QED  BY <1>1, <2>1, <2>3
<1>6. Next => \/ UNCHANGED ver
              \/ \E n \in Node : TakeState(n) \/ Restart(n) \/ Promote(n)
  BY DEF Next, Scan, DeliverAck, DropState, CrashInApply, Stand, GiveUp, WriteFile, Poll, PollInSync,
         LeaseEnds, Grant, Hear
<1> QED  BY <1>2, <1>3, <1>4, <1>5, <1>6 DEF vars

\* ha.mjs, rule 8: a deposed leader never rolls a follower back, and neither does anything else:
\* not a late answer, not a fence, not a crash while a state is written.
THEOREM NothingRollsBack == Spec => NeverRollsBack
<1>1. Versions /\ [Next]_vars => [\A n \in Node : AtLeast(ver'[n], ver[n])]_vars
  BY VersionsRise
<1> QED  BY <1>1, VersionsHold, PTL DEF Spec, NeverRollsBack

-----------------------------------------------------------------------------
(* Votes: one panel in office at a time, in terms that only rise.          *)

Office == {n \in Node : role[n] = "leader"}

\* The voters that have heard of term t.
Heard(t) == {v \in Voter : voterTerm[v] >= t}

Votes ==
  /\ \A l \in Office : Cardinality(Backers(l)) >= Majority
  /\ \A p \in published : Cardinality(Heard(p.ver[1])) >= Majority
  /\ \A l \in Office, p \in published : p.ver[1] <= term[l]
  /\ \A n \in Node, v \in Voter : holder[v] = n => voterTerm[v] <= term[n]

\* A set of voters that contains a majority is one.
LEMMA MoreVoters ==
  ASSUME NEW S \in SUBSET Voter, NEW T \in SUBSET Voter, S \subseteq T, Cardinality(S) >= Majority
  PROVE  Cardinality(T) >= Majority
<1>1. IsFiniteSet(T) /\ IsFiniteSet(S) /\ IsFiniteSet(Voter)
  BY PanelsAndVoters, FS_Subset
<1>2. /\ Cardinality(S) \in Nat /\ Cardinality(T) \in Nat /\ Cardinality(Voter) \in Nat
      /\ Cardinality(S) <= Cardinality(T)
  BY <1>1, FS_Subset, FS_CardinalityType
<1> QED  BY <1>2 DEF Majority

\* Two majorities share a voter.
LEMMA MajoritiesMeet ==
  ASSUME NEW S \in SUBSET Voter, NEW T \in SUBSET Voter,
         Cardinality(S) >= Majority, Cardinality(T) >= Majority
  PROVE  \E v \in Voter : v \in S /\ v \in T
<1>1. SUFFICES ASSUME S \cap T = {} PROVE FALSE
  OBVIOUS
<1>2. /\ IsFiniteSet(Voter) /\ IsFiniteSet(S) /\ IsFiniteSet(T) /\ IsFiniteSet(S \cup T)
      /\ Cardinality(S \cup T) <= Cardinality(Voter)
  <2>1. S \cup T \in SUBSET Voter
    OBVIOUS
  <2> QED  BY <2>1, PanelsAndVoters, FS_Subset
<1>3. /\ Cardinality(S) \in Nat /\ Cardinality(T) \in Nat /\ Cardinality(Voter) \in Nat
      /\ Cardinality(S \cup T) \in Nat /\ Cardinality(S \cap T) = 0
  BY <1>1, <1>2, FS_CardinalityType, FS_EmptySet
<1>4. Cardinality(S \cup T) = Cardinality(S) + Cardinality(T)
  <2>1. Cardinality(S \cup T) = Cardinality(S) + Cardinality(T) - Cardinality(S \cap T)
    BY <1>2, FS_Union
  <2> QED  BY <1>3, <2>1
<1> QED  BY <1>2, <1>3, <1>4 DEF Majority

\* A voter backs one node: two nodes with a majority behind them are the same.
LEMMA OneBacked ==
  ASSUME NEW n \in Node, NEW m \in Node,
         Cardinality(Backers(n)) >= Majority, Cardinality(Backers(m)) >= Majority
  PROVE  n = m
<1>1. Backers(n) \in SUBSET Voter /\ Backers(m) \in SUBSET Voter
  BY DEF Backers
<1>2. \E v \in Voter : v \in Backers(n) /\ v \in Backers(m)
  BY <1>1, MajoritiesMeet
<1> QED  BY <1>2 DEF Backers

\* Two panels in office are the same: each has a majority behind it.
LEMMA OneInOffice ==
  ASSUME Votes, NEW l \in Office, NEW m \in Office
  PROVE  l = m
BY OneBacked DEF Votes, Office

\* A step that neither elects nor moves a vote.
LEMMA VotesKept ==
  ASSUME Votes, TypeOK, TypeOK', UNCHANGED <<voterTerm, holder>>, Office' \subseteq Office,
         \A n \in Node : term'[n] >= term[n], \A l \in Office' : term'[l] = term[l],
         \A p \in published' : \E q \in published : p.ver[1] = q.ver[1]
  PROVE  Votes'
<1>1. \A l \in Office' : Backers(l)' = Backers(l) /\ l \in Node
  BY DEF Backers, Office
<1>2. \A l \in Office' : (Cardinality(Backers(l)) >= Majority)'
  BY <1>1 DEF Votes, Majority
<1>3. \A p \in published' : (Cardinality(Heard(p.ver[1])) >= Majority)'
  <2> SUFFICES ASSUME NEW p \in published' PROVE (Cardinality(Heard(p.ver[1])) >= Majority)'
    OBVIOUS
  <2>1. PICK q \in published : p.ver[1] = q.ver[1]
    OBVIOUS
  <2>2. Heard(p.ver[1])' = Heard(q.ver[1])
    BY <2>1 DEF Heard
  <2> QED  BY <2>2 DEF Votes, Majority
<1>4. \A l \in Office', p \in published' : p.ver[1] <= term'[l]
  BY DEF Votes
<1>5. \A n \in Node, v \in Voter : holder'[v] = n => voterTerm'[v] <= term'[n]
  <2> SUFFICES ASSUME NEW n \in Node, NEW v \in Voter, holder[v] = n PROVE voterTerm[v] <= term'[n]
    OBVIOUS
  <2>1. voterTerm[v] \in Nat /\ term[n] \in Nat /\ term'[n] \in Nat
    BY PanelsAndVoters DEF TypeOK
  <2> QED  BY <2>1 DEF Votes
<1> QED  BY <1>2, <1>3, <1>4, <1>5 DEF Votes

\* grantVote: a vote that is given or renewed takes none from the panel in office.
LEMMA GrantVotes ==
  ASSUME Votes, TypeOK, NEW v \in Voter, NEW n \in Node, Grant(v, n)
  PROVE  Votes'
<1>1. /\ voterTerm[v] <= term[n] /\ holder[v] \in {n, None}
      /\ voterTerm' = [voterTerm EXCEPT ![v] = term[n]] /\ holder' = [holder EXCEPT ![v] = n]
      /\ UNCHANGED <<role, term, published>>
  <2>1. term[n] \in Nat /\ voterTerm[v] \in Nat
    BY PanelsAndVoters DEF TypeOK
  <2> QED  BY <2>1 DEF Grant, Refuses
<1>2. /\ voterTerm'[v] = term[n] /\ holder'[v] = n /\ term[n] \in Nat
      /\ \A u \in Voter : voterTerm[u] \in Nat
      /\ \A u \in Voter \ {v} : voterTerm'[u] = voterTerm[u] /\ holder'[u] = holder[u]
  BY <1>1, PanelsAndVoters DEF TypeOK
<1>3. \A l \in Office' : l \in Office /\ Cardinality(Backers(l)') >= Majority
  <2> SUFFICES ASSUME NEW l \in Office PROVE Cardinality(Backers(l)') >= Majority
    BY <1>1 DEF Office
  <2>1. l \in Node /\ l # None
    BY PanelsAndVoters DEF Office
  <2>2. Backers(l) \subseteq Backers(l)'
    BY <1>1, <1>2, <2>1 DEF Backers
  <2>3. Backers(l) \in SUBSET Voter /\ Backers(l)' \in SUBSET Voter /\ Cardinality(Backers(l)) >= Majority
    BY DEF Backers, Votes
  <2> QED  BY <2>2, <2>3, MoreVoters
<1>4. \A p \in published : Cardinality(Heard(p.ver[1])') >= Majority
  <2> SUFFICES ASSUME NEW p \in published PROVE Cardinality(Heard(p.ver[1])') >= Majority
    OBVIOUS
  <2>1. p.ver[1] \in Nat
    BY VersionParts DEF TypeOK
  <2>2. Heard(p.ver[1]) \subseteq Heard(p.ver[1])'
    BY <1>1, <1>2, <2>1 DEF Heard
  <2>3. Heard(p.ver[1]) \in SUBSET Voter /\ Heard(p.ver[1])' \in SUBSET Voter
        /\ Cardinality(Heard(p.ver[1])) >= Majority
    BY DEF Heard, Votes
  <2> QED  BY <2>2, <2>3, MoreVoters
<1>5. \A m \in Node, u \in Voter : holder'[u] = m => voterTerm'[u] <= term'[m]
  BY <1>1, <1>2 DEF Votes
<1>6. \A l \in Office', p \in published' : p.ver[1] <= term'[l]
  BY <1>1, <1>3 DEF Votes
<1>7. Majority' = Majority
  BY DEF Majority
<1> QED  BY <1>1, <1>3, <1>4, <1>5, <1>6, <1>7 DEF Votes, Heard

\* A lease that ends leaves the panel in office its majority (it has fenced otherwise), and a voter
\* its term.
LEMMA LeaseEndsVotes ==
  ASSUME Votes, TypeOK, NEW v \in Voter, LeaseEnds(v)
  PROVE  Votes'
<1>1. /\ \A n \in Node : role[n] = "leader" /\ v \in Backers(n) => Cardinality(Backers(n)) > Majority
      /\ holder' = [holder EXCEPT ![v] = None]
      /\ UNCHANGED <<role, term, voterTerm, published>>
  BY DEF LeaseEnds
<1>2. holder'[v] = None /\ \A u \in Voter \ {v} : holder'[u] = holder[u]
  BY <1>1 DEF TypeOK
<1>3. \A l \in Office' : Cardinality(Backers(l)') >= Majority
  <2> SUFFICES ASSUME NEW l \in Office PROVE Cardinality(Backers(l)') >= Majority
    BY <1>1 DEF Office
  <2>1. l \in Node /\ l # None /\ role[l] = "leader" /\ Cardinality(Backers(l)) >= Majority
    BY PanelsAndVoters DEF Office, Votes
  <2>2. Backers(l)' = Backers(l) \ {v}
    BY <1>1, <1>2, <2>1 DEF Backers
  <2>3. CASE v \notin Backers(l)
    BY <2>1, <2>2, <2>3
  <2>4. CASE v \in Backers(l)
    <3>1. IsFiniteSet(Backers(l)) /\ IsFiniteSet(Voter)
      BY PanelsAndVoters, FS_Subset DEF Backers
    <3>2. Cardinality(Backers(l)) \in Nat /\ Cardinality(Voter) \in Nat
          /\ Cardinality(Backers(l) \ {v}) = Cardinality(Backers(l)) - 1
      BY <2>4, <3>1, FS_CardinalityType, FS_RemoveElement
    <3>3. Cardinality(Backers(l)) > Majority
      BY <1>1, <2>1, <2>4
    <3> QED  BY <2>2, <3>2, <3>3 DEF Majority
  <2> QED  BY <2>3, <2>4
<1>4. \A n \in Node, u \in Voter : holder'[u] = n => voterTerm'[u] <= term'[n]
  BY <1>1, <1>2, PanelsAndVoters DEF Votes
<1>5. Majority' = Majority /\ Office' = Office /\ \A p \in published : Heard(p.ver[1])' = Heard(p.ver[1])
  BY <1>1 DEF Majority, Office, Heard
<1> QED  BY <1>1, <1>3, <1>4, <1>5 DEF Votes

\* promote: nobody else is in office, and no version is of a later term, since a majority of the
\* voters is in this one.
LEMMA PromoteVotes ==
  ASSUME Votes, TypeOK, NEW n \in Node, Promote(n)
  PROVE  /\ Votes' /\ Office = {} /\ Office' = {n} /\ \A p \in published : p.ver[1] <= term[n]
<1>1. /\ role[n] = "candidate" /\ Cardinality(Backers(n)) >= Majority
      /\ role' = [role EXCEPT ![n] = "leader"]
      /\ published' = published \cup {[ver |-> <<term[n], 0>>, files |-> disk[n]]}
      /\ UNCHANGED <<term, vote>>
  BY DEF Promote
<1>2. Office = {}
  <2> SUFFICES ASSUME NEW l \in Office PROVE FALSE
    OBVIOUS
  <2>1. l \in Node /\ role[l] = "leader" /\ Cardinality(Backers(l)) >= Majority
    BY DEF Office, Votes
  <2>2. l = n
    BY <1>1, <2>1, OneBacked
  <2> QED  BY <1>1, <2>1, <2>2
<1>3. Office' = {n}
  BY <1>1, <1>2 DEF Office, TypeOK
<1>4. \A m \in Node : Backers(m)' = Backers(m)
  BY <1>1 DEF Backers, vote
<1>5. term[n] \in Nat /\ (\A v \in Voter : voterTerm[v] \in Nat) /\ \A p \in published : p.ver[1] \in Nat
  BY PanelsAndVoters, VersionParts DEF TypeOK
<1>6. \A p \in published : p.ver[1] <= term[n]
  <2> SUFFICES ASSUME NEW p \in published PROVE p.ver[1] <= term[n]
    OBVIOUS
  <2>1. /\ Backers(n) \in SUBSET Voter /\ Heard(p.ver[1]) \in SUBSET Voter
        /\ Cardinality(Heard(p.ver[1])) >= Majority
    BY DEF Backers, Heard, Votes
  <2>2. PICK v \in Voter : v \in Backers(n) /\ v \in Heard(p.ver[1])
    BY <1>1, <2>1, MajoritiesMeet
  <2> QED  BY <2>2 DEF Backers, Heard
<1>7. Cardinality(Heard(term[n])) >= Majority
  <2>1. Backers(n) \in SUBSET Voter /\ Heard(term[n]) \in SUBSET Voter /\ Backers(n) \subseteq Heard(term[n])
    BY <1>5 DEF Backers, Heard
  <2> QED  BY <1>1, <2>1, MoreVoters
<1>8. \A p \in published' : (p \in published \/ p.ver[1] = term[n]) /\ Heard(p.ver[1])' = Heard(p.ver[1])
  BY <1>1 DEF Heard, vote
<1>9. Majority' = Majority /\ term' = term /\ UNCHANGED <<holder, voterTerm>>
  BY <1>1 DEF Majority, vote
<1>10. Votes'
  <2>1. \A l \in Office' : Cardinality(Backers(l)') >= Majority'
    BY <1>1, <1>3, <1>4, <1>9
  <2>2. \A p \in published' : Cardinality(Heard(p.ver[1])') >= Majority'
    BY <1>7, <1>8, <1>9 DEF Votes
  <2>3. \A l \in Office', p \in published' : p.ver[1] <= term'[l]
    BY <1>3, <1>5, <1>6, <1>8, <1>9
  <2>4. \A m \in Node, u \in Voter : holder'[u] = m => voterTerm'[u] <= term'[m]
    BY <1>9 DEF Votes
  <2> QED  BY <2>1, <2>2, <2>3, <2>4 DEF Votes
<1> QED  BY <1>2, <1>3, <1>6, <1>10

-----------------------------------------------------------------------------
(* One history: what is on the standbys and on its way to them.            *)

Led(t) == \E p \in published : p.ver[1] = t

\* Versions and answers stem from a panel that was in office, and answers from what it
\* published.
Origins ==
  /\ \A n \in Node : ver[n][1] = 0 \/ Led(ver[n][1])
  /\ \A l \in Office : [ver |-> tracker[l].ver, files |-> tracker[l].files] \in published
  /\ \A n \in Node : wire[n] # None => \E p \in published :
       p.ver = wire[n].ver /\ \A f \in DOMAIN wire[n].files : wire[n].files[f] = p.files[f]

\* A standby on the term of the panel in office has every file that did not change since
\* its version, and so it will when the answer on its way has been written.
Follows(l, n) ==
  /\ ver[n][1] = term[l] =>
       /\ ver[n][2] <= tracker[l].ver[2]
       /\ \A f \in File : tracker[l].seqs[f] <= ver[n][2] => disk[n][f] = tracker[l].files[f]
  /\ wire[n] # None /\ wire[n].ver[1] = term[l] =>
       /\ wire[n].ver[2] <= tracker[l].ver[2]
       /\ \A f \in File : tracker[l].seqs[f] <= wire[n].ver[2] =>
            IF f \in DOMAIN wire[n].files THEN wire[n].files[f] = tracker[l].files[f]
                                          ELSE disk[n][f] = tracker[l].files[f]

Copies == \A l \in Office, n \in Node : l # n => Follows(l, n)

\* An answer is a whole copy, or the difference to a version of its own term.
Differs(n) ==
  wire[n] # None /\ role[n] # "leader" => DOMAIN wire[n].files = File \/ wire[n].ver[1] = ver[n][1]

\* While a panel is in office, its files only grow.
Grows(l) ==
  \A f \in File :
    /\ tracker[l].files[f] \subseteq disk[l][f]
    /\ \A p \in published : p.ver[1] = term[l] =>
         p.ver[2] <= tracker[l].ver[2] /\ p.files[f] \subseteq tracker[l].files[f]

\* No panel that took office after p was published began without it.
Kept(p) == \A q \in published : q.ver[1] > p.ver[1] => \A f \in File : p.files[f] \subseteq q.files[f]

\* Whoever claims a version at least as new as p has p, or will have it when the answer on
\* its way is written.
HeldBy(p, n) ==
  /\ AtLeast(ver[n], p.ver) => Holds(n, p.files)
  /\ wire[n] # None /\ role[n] # "leader" /\ AtLeast(wire[n].ver, p.ver) =>
       \A f \in File : p.files[f] \subseteq IF f \in DOMAIN wire[n].files THEN wire[n].files[f] ELSE disk[n][f]

KeptIsHeld == \A p \in published : Kept(p) => \A n \in Node : HeldBy(p, n)

History ==
  /\ Versions /\ Votes /\ Origins /\ Copies /\ KeptIsHeld
  /\ \A n \in Node : Differs(n)
  /\ \A l \in Office : Grows(l)

\* What the panel in office keeps of its own files.
LEMMA InOffice ==
  ASSUME Versions, NEW l \in Office
  PROVE  /\ l \in Node /\ role[l] = "leader" /\ IsTracker(tracker[l]) /\ tracker[l].ver[1] = term[l]
         /\ ver[l] = <<term[l], 0>> /\ term[l] \in Nat /\ tracker[l].ver[2] \in Nat
         /\ tracker[l].files \in [File -> Content] /\ \A f \in File : tracker[l].seqs[f] \in 0 .. tracker[l].ver[2]
<1>1. l \in Node /\ role[l] = "leader"
  BY DEF Office
<1>2. IsTracker(tracker[l]) /\ tracker[l].ver[1] = term[l] /\ ver[l] = <<term[l], 0>> /\ term[l] \in Nat
  BY <1>1, TypesOf DEF Versions, TermsFit, Terms
<1> QED  BY <1>1, <1>2, VersionParts DEF IsTracker

\* What was published has a version and files.
LEMMA PublishedFits ==
  ASSUME TypeOK, NEW p \in published
  PROVE  p.ver \in Version /\ p.ver[1] \in Nat /\ p.ver[2] \in Nat /\ p.files \in [File -> Content]
BY VersionParts DEF TypeOK

\* A panel in office has all that is kept.
LEMMA OfficeHolds ==
  ASSUME History, NEW l \in Office, NEW p \in published, Kept(p)
  PROVE  \A f \in File : p.files[f] \subseteq tracker[l].files[f] /\ p.files[f] \subseteq disk[l][f]
<1>1. p.ver[1] <= term[l] /\ p.ver[1] \in Nat /\ term[l] \in Nat
  BY PublishedFits, InOffice DEF History, Versions, Votes
<1>2. CASE p.ver[1] = term[l]
  BY <1>2 DEF History, Grows
<1>3. CASE p.ver[1] < term[l]
  <2> DEFINE q == [ver |-> tracker[l].ver, files |-> tracker[l].files]
  <2>1. q \in published /\ q.ver[1] = term[l] /\ q.files = tracker[l].files
    BY InOffice DEF History, Origins
  <2> HIDE DEF q
  <2>2. \A f \in File : p.files[f] \subseteq tracker[l].files[f]
    BY <1>1, <1>3, <2>1 DEF Kept
  <2> QED  BY <2>2 DEF History, Grows
<1> QED  BY <1>1, <1>2, <1>3

\* A step that writes and publishes nothing; answers may be lost, and a panel may leave
\* office with the version it saved last.
LEMMA HistoryKept ==
  ASSUME History, Versions', Votes', UNCHANGED <<disk, published>>, Office' \subseteq Office,
         \A l \in Office' : term'[l] = term[l] /\ tracker'[l] = tracker[l],
         \A n \in Node : wire'[n] = wire[n] \/ wire'[n] = None,
         \A n \in Office \ Office' : wire'[n] = None,
         \A n \in Node : \/ ver'[n] = ver[n]
                         \/ n \in Office /\ n \notin Office' /\ ver'[n][1] = term[n]
  PROVE  History'
<1>1. Origins'
  <2>1. \A n \in Node : ver'[n][1] = 0 \/ Led(ver'[n][1])
    <3> SUFFICES ASSUME NEW n \in Node, n \in Office, ver'[n][1] = term[n] PROVE Led(ver'[n][1])
      BY DEF History, Origins
    <3>1. [ver |-> tracker[n].ver, files |-> tracker[n].files] \in published /\ tracker[n].ver[1] = term[n]
      BY InOffice DEF History, Origins
    <3> QED  BY <3>1 DEF Led
  <2>2. \A n \in Node : wire'[n] # None => wire'[n] = wire[n]
    OBVIOUS
  <2> QED  BY <2>1, <2>2 DEF History, Origins, Led
<1>2. Copies'
  <2> SUFFICES ASSUME NEW l \in Office', NEW n \in Node, l # n PROVE Follows(l, n)'
    BY DEF Copies
  <2>1. Follows(l, n) /\ l \in Office
    BY DEF History, Copies
  <2>2. n \notin Office
    BY <2>1, OneInOffice DEF History
  <2>3. ver'[n] = ver[n] /\ tracker'[l] = tracker[l] /\ term'[l] = term[l] /\ disk' = disk
    BY <2>1, <2>2
  <2> QED  BY <2>1, <2>3 DEF Follows
<1>3. KeptIsHeld'
  <2> SUFFICES ASSUME NEW p \in published, Kept(p), NEW n \in Node PROVE HeldBy(p, n)'
    BY DEF KeptIsHeld, Kept
  <2>1. HeldBy(p, n)
    BY DEF History, KeptIsHeld
  <2>2. AtLeast(ver'[n], p.ver) => Holds(n, p.files)'
    <3>1. CASE ver'[n] = ver[n]
      BY <2>1, <3>1 DEF HeldBy, Holds
    <3>2. CASE n \in Office
      BY <3>2, OfficeHolds DEF Holds
    <3> QED  BY <3>1, <3>2
  <2>3. ASSUME wire'[n] # None, role'[n] # "leader", AtLeast(wire'[n].ver, p.ver), NEW f \in File
        PROVE  p.files[f] \subseteq IF f \in DOMAIN wire'[n].files THEN wire'[n].files[f] ELSE disk'[n][f]
    <3>1. wire'[n] = wire[n] /\ role[n] # "leader"
      BY <2>3 DEF Office
    <3> QED  BY <2>1, <2>3, <3>1 DEF HeldBy
  <2> QED  BY <2>2, <2>3 DEF HeldBy
<1>4. \A n \in Node : Differs(n)'
  <2> SUFFICES ASSUME NEW n \in Node, wire'[n] # None, role'[n] # "leader"
               PROVE  DOMAIN wire'[n].files = File \/ wire'[n].ver[1] = ver'[n][1]
    BY DEF Differs
  <2>1. wire'[n] = wire[n] /\ role[n] # "leader" /\ ver'[n] = ver[n]
    BY DEF Office
  <2> QED  BY <2>1 DEF History, Differs
<1>5. \A l \in Office' : Grows(l)'
  BY DEF History, Grows
<1> QED  BY <1>1, <1>2, <1>3, <1>4, <1>5 DEF History

\* A scan publishes in the term of the panel in office, which a majority has heard of.
LEMMA ScanVotes ==
  ASSUME History, Versions', NEW n \in Node, Scan(n)
  PROVE  Votes'
<1>1. /\ role[n] = "leader" /\ UNCHANGED <<role, term, vote>>
      /\ published' = published \cup {[ver |-> tracker'[n].ver, files |-> disk[n]]}
  BY DEF Scan
<1>2. n \in Office /\ Office' = Office
  BY <1>1 DEF Office
<1>3. tracker'[n].ver[1] = term[n]
  BY <1>1 DEF Versions, TermsFit, Terms
<1>4. PICK q \in published : q.ver[1] = term[n]
  <2>1. [ver |-> tracker[n].ver, files |-> tracker[n].files] \in published /\ tracker[n].ver[1] = term[n]
    BY <1>2, InOffice DEF History, Origins
  <2> QED  BY <2>1
<1>5. \A p \in published' : \E r \in published : p.ver[1] = r.ver[1]
  BY <1>1, <1>3, <1>4
<1>6. \A m \in Node : term'[m] = term[m] /\ term[m] \in Nat
  BY <1>1, TypesOf DEF History, Versions
<1> QED  BY <1>1, <1>2, <1>5, <1>6, VotesKept DEF History, Versions, vote, Office

\* Steps that neither write nor ask for a vote.
LEMMA QuietVotes ==
  ASSUME Versions, Versions', Votes, NEW n \in Node,
         \/ DeliverAck(n) \/ TakeState(n) \/ DropState(n) \/ Restart(n) \/ CrashInApply(n)
         \/ Stand(n) \/ GiveUp(n)
         \/ \E f \in File : WriteFile(n, f)
         \/ \E l \in Node : Poll(n, l) \/ PollInSync(n, l)
         \/ \E v \in Voter : Hear(v, n)
  PROVE  Votes'
<1>1. UNCHANGED <<voterTerm, holder, published>>
  BY DEF DeliverAck, TakeState, DropState, Restart, CrashInApply, Stand, GiveUp, WriteFile, Poll, PollInSync, Hear, vote
<1>2. \/ UNCHANGED role
      \/ role' = [role EXCEPT ![n] = "follower"]
      \/ role' = [role EXCEPT ![n] = "candidate"]
  BY DEF DeliverAck, TakeState, DropState, Restart, Restarts, CrashInApply, Stand, GiveUp, WriteFile, Poll, PollInSync, Hear
<1>3. Office' \subseteq Office
  BY <1>2 DEF Office, Versions, TypeOK
<1>4. \A m \in Node : term'[m] >= term[m]
  <2>1. \A m \in Node : term[m] \in Nat
    BY TypesOf DEF Versions
  <2>2. CASE term' = term
    BY <2>1, <2>2
  <2>3. CASE TakeState(n)
    <3>1. /\ wire[n] # None /\ term' = [term EXCEPT ![n] = Higher(@, wire[n].term)] /\ term \in [Node -> 0 .. MaxTerm]
      BY <2>3 DEF TakeState, Versions, TypeOK
    <3>2. wire[n].term \in Nat
      BY <3>1, TypesOf, PanelsAndVoters DEF Versions, IsWire
    <3>3. Higher(term[n], wire[n].term) >= term[n]
      BY <2>1, <3>2 DEF Higher
    <3> QED  BY <2>1, <3>1, <3>3
  <2>4. CASE Stand(n)
    <3>1. PICK heard \in {term[n]} \cup {voterTerm[v] : v \in Voter} :
            term' = [term EXCEPT ![n] = Higher(heard, term[n]) + 1]
      BY <2>4 DEF Stand
    <3>2. heard \in Nat /\ term \in [Node -> 0 .. MaxTerm]
      BY <2>1, PanelsAndVoters DEF Versions, TypeOK
    <3>3. Higher(heard, term[n]) + 1 >= term[n]
      BY <2>1, <3>2 DEF Higher
    <3> QED  BY <2>1, <3>1, <3>2, <3>3
  <2> QED  BY <2>2, <2>3, <2>4 DEF DeliverAck, DropState, Restart, CrashInApply, GiveUp, WriteFile, Poll, PollInSync, Hear
<1>5. \A l \in Office' : term'[l] = term[l]
  <2>1. CASE term' = term
    BY <2>1
  <2>2. CASE TakeState(n) \/ Stand(n)
    <3>1. n \notin Office /\ term \in [Node -> 0 .. MaxTerm]
      BY <2>2 DEF TakeState, Stand, Office, Versions, TypeOK
    <3>2. \A m \in Node \ {n} : term'[m] = term[m]
      BY <2>2, <3>1 DEF TakeState, Stand
    <3> QED  BY <1>3, <3>1, <3>2 DEF Office
  <2> QED  BY <2>1, <2>2 DEF DeliverAck, DropState, Restart, CrashInApply, GiveUp, WriteFile, Poll, PollInSync, Hear
<1> QED  BY <1>1, <1>3, <1>4, <1>5, VotesKept DEF Versions

\* An ack, an answer that is lost, and a candidacy that begins or ends write nothing.
LEMMA QuietHistory ==
  ASSUME History, Versions', Votes', NEW n \in Node,
         DeliverAck(n) \/ DropState(n) \/ Stand(n) \/ GiveUp(n) \/ \E l \in Node : PollInSync(n, l)
  PROVE  History'
<1>1. /\ UNCHANGED <<disk, ver, tracker, published>>
      /\ \/ UNCHANGED role
         \/ /\ role[n] # "leader"
            /\ role' = [role EXCEPT ![n] = "follower"] \/ role' = [role EXCEPT ![n] = "candidate"]
      /\ UNCHANGED wire \/ wire' = [wire EXCEPT ![n] = None]
  BY DEF DeliverAck, DropState, Stand, GiveUp, PollInSync
<1>2. Office' = Office
  BY <1>1 DEF Office, History, Versions, TypeOK
<1>3. \A m \in Node : wire'[m] \in {wire[m], None}
  BY <1>1 DEF History, Versions, PerNode
<1>4. \A l \in Office' : term'[l] = term[l]
  BY <1>2 DEF DeliverAck, DropState, Stand, GiveUp, PollInSync, Office, History, Versions, TypeOK
<1> QED  BY <1>1, <1>2, <1>3, <1>4, HistoryKept

\* A panel that leaves office keeps its files, with a version of its term.
LEMMA RestartHistory ==
  ASSUME History, Versions', Votes', NEW n \in Node, Restart(n)
  PROVE  History'
<1>1. /\ role' = [role EXCEPT ![n] = "follower"] /\ tracker' = [tracker EXCEPT ![n] = None]
      /\ wire' = [wire EXCEPT ![n] = None] /\ UNCHANGED <<term, disk, published>>
  BY DEF Restart, Restarts
<1>2. Office' = Office \ {n} /\ \A l \in Office' : tracker'[l] = tracker[l] /\ term'[l] = term[l]
  BY <1>1 DEF Office, History, Versions, TypeOK, PerNode
<1>3. wire'[n] = None /\ \A m \in Node : wire'[m] \in {wire[m], None}
  BY <1>1 DEF History, Versions, PerNode
<1>4. /\ \A m \in Node \ {n} : ver'[m] = ver[m]
      /\ ver'[n] = ver[n] \/ (n \in Office /\ ver'[n][1] = term[n])
  BY SavedVersion DEF History, Office
<1> QED  BY <1>1, <1>2, <1>3, <1>4, HistoryKept

\* The voters' steps write nothing.
LEMMA VotesHistory ==
  ASSUME History, Versions', Votes', NEW v \in Voter, LeaseEnds(v) \/ \E n \in Node : Grant(v, n) \/ Hear(v, n)
  PROVE  History'
<1>1. UNCHANGED <<role, term, disk, ver, tracker, wire, published>>
  BY DEF LeaseEnds, Grant, Hear
<1>2. Office' = Office
  BY <1>1 DEF Office
<1> QED  BY <1>1, <1>2, HistoryKept

\* The only panel in office writes one of its files.
LEMMA WriteFileHistory ==
  ASSUME History, Versions', Votes', NEW n \in Node, NEW f \in File, WriteFile(n, f)
  PROVE  History'
<1>1. /\ role[n] = "leader" /\ UNCHANGED <<role, term, ver, tracker, wire, published>>
      /\ \E w \in Write : disk' = [disk EXCEPT ![n][f] = @ \cup {w}]
  BY DEF WriteFile
<1>2. Office' = Office /\ n \in Office /\ \A l \in Office : l = n
  BY <1>1, OneInOffice DEF History, Office
<1>3. /\ \A m \in Node \ {n} : disk'[m] = disk[m]
      /\ \A m \in Node, g \in File : disk[m][g] \subseteq disk'[m][g]
  BY <1>1 DEF History, Versions, TypeOK
<1>4. Origins' /\ \A m \in Node : Differs(m)'
  BY <1>1, <1>2 DEF History, Origins, Led, Differs
<1>5. Copies'
  <2> SUFFICES ASSUME NEW m \in Node, n # m PROVE Follows(n, m)'
    BY <1>2 DEF Copies
  <2>1. Follows(n, m) /\ disk'[m] = disk[m]
    BY <1>2, <1>3 DEF History, Copies
  <2> QED  BY <1>1, <2>1 DEF Follows
<1>6. KeptIsHeld'
  <2> SUFFICES ASSUME NEW p \in published, Kept(p), NEW m \in Node PROVE HeldBy(p, m)'
    BY <1>1 DEF KeptIsHeld, Kept
  <2>1. HeldBy(p, m)
    BY DEF History, KeptIsHeld
  <2>2. AtLeast(ver'[m], p.ver) => Holds(m, p.files)'
    BY <1>1, <1>3, <2>1 DEF HeldBy, Holds
  <2>3. CASE m = n
    BY <1>1, <2>2, <2>3 DEF HeldBy
  <2>4. CASE m # n
    BY <1>1, <1>3, <2>1, <2>2, <2>4 DEF HeldBy
  <2> QED  BY <2>3, <2>4
<1>7. \A l \in Office' : Grows(l)'
  <2>1. Grows(n)
    BY <1>2 DEF History
  <2> QED  BY <1>1, <1>2, <1>3, <2>1 DEF Grows
<1> QED  BY <1>4, <1>5, <1>6, <1>7 DEF History

\* Versions and answers are of no later term than the panel in office.
LEMMA OfOldTerms ==
  ASSUME History, NEW t \in Nat, \A p \in published : p.ver[1] <= t, NEW n \in Node
  PROVE  ver[n][1] <= t /\ (wire[n] # None => wire[n].ver[1] <= t)
<1>1. ver[n][1] \in Nat /\ (ver[n][1] = 0 \/ Led(ver[n][1]))
  BY TypesOf DEF History, Versions, Origins
<1>2. wire[n] # None => \E p \in published : p.ver = wire[n].ver
  BY DEF History, Origins
<1> QED  BY <1>1, <1>2 DEF Led

\* An answer, or a part of it, is written.
LEMMA WrittenHistory ==
  ASSUME History, Versions', Votes', NEW n \in Node, NEW part \in SUBSET (DOMAIN wire[n].files),
         wire[n] # None, role[n] # "leader", AtLeast(wire[n].ver, ver[n]),
         disk' = [disk EXCEPT ![n] = Overwritten(n, part)],
         \/ ver' = ver
         \/ ver' = [ver EXCEPT ![n] = wire[n].ver] /\ part = DOMAIN wire[n].files,
         \A m \in Node \ {n} : role'[m] = role[m] /\ term'[m] = term[m] /\ tracker'[m] = tracker[m] /\ wire'[m] = wire[m],
         role'[n] = "follower", wire'[n] = None, UNCHANGED published
  PROVE  History'
<1> DEFINE w == wire[n]
<1>1. Office' = Office /\ n \notin Office
  BY DEF Office
<1>2. /\ IsWire(w) /\ w.ver \in Version /\ ver[n] \in Version /\ w.ver[1] \in Nat /\ w.ver[2] \in Nat
      /\ DOMAIN w.files \subseteq File
      /\ ver[n][1] \in Nat /\ ver[n][2] \in Nat /\ ver \in [Node -> Version] /\ disk \in [Node -> [File -> Content]]
  BY TypesOf, VersionParts, PartOf DEF IsWire, History, Versions, TypeOK
<1>3. /\ \A m \in Node \ {n} : disk'[m] = disk[m] /\ ver'[m] = ver[m]
      /\ ver'[n] = ver[n] \/ (ver'[n] = w.ver /\ part = DOMAIN w.files)
      /\ \A f \in File : disk'[n][f] = IF f \in part THEN w.files[f] ELSE disk[n][f]
  BY <1>2 DEF Overwritten
<1>4. PICK q \in published : q.ver = w.ver /\ \A f \in DOMAIN w.files : w.files[f] = q.files[f]
  BY DEF History, Origins
<1> HIDE DEF w
<1>5. Origins'
  <2>1. \A m \in Node : ver'[m][1] = 0 \/ \E p \in published' : p.ver[1] = ver'[m][1]
    <3>1. \A m \in Node : ver[m][1] = 0 \/ \E p \in published : p.ver[1] = ver[m][1]
      BY DEF History, Origins, Led
    <3> QED  BY <1>3, <1>4, <3>1
  <2>2. \A l \in Office' : ([ver |-> tracker[l].ver, files |-> tracker[l].files] \in published)'
    BY <1>1 DEF History, Origins, Office
  <2>3. \A m \in Node : wire'[m] # None => \E p \in published' :
          p.ver = wire'[m].ver /\ \A f \in DOMAIN wire'[m].files : wire'[m].files[f] = p.files[f]
    BY DEF History, Origins
  <2> QED  BY <2>1, <2>2, <2>3 DEF Origins, Led
<1>6. Copies'
  <2> SUFFICES ASSUME NEW l \in Office, NEW m \in Node, l # m PROVE Follows(l, m)'
    BY <1>1 DEF Copies
  <2>1. /\ Follows(l, m) /\ l \in Node \ {n} /\ tracker'[l] = tracker[l] /\ term'[l] = term[l]
    BY <1>1 DEF History, Copies, Office
  <2>2. CASE m # n
    BY <1>3, <2>1, <2>2 DEF Follows
  <2>3. CASE m = n
    <3>1. w.ver[1] <= term[l] /\ term[l] \in Nat /\ (\A f \in File : tracker[l].seqs[f] \in Nat) /\ tracker[l].ver[2] \in Nat
      <4>1. term[l] \in Nat /\ \A p \in published : p.ver[1] <= term[l]
        BY InOffice DEF History, Votes
      <4> QED  BY <1>4, <4>1, InOffice DEF History
    <3>2. CASE ver'[n] = w.ver /\ part = DOMAIN w.files
      BY <1>2, <1>3, <2>1, <2>3, <3>2 DEF Follows, w
    <3>3. CASE ver'[n] = ver[n]
      <4>1. SUFFICES ASSUME ver[n][1] = term[l]
                     PROVE  /\ ver[n][2] <= tracker[l].ver[2]
                            /\ \A f \in File : tracker[l].seqs[f] <= ver[n][2] => disk'[n][f] = tracker[l].files[f]
        BY <2>1, <2>3, <3>3 DEF Follows
      <4>2. w.ver[1] = term[l] /\ w.ver[2] >= ver[n][2]
        BY <1>2, <3>1, <4>1 DEF AtLeast, w
      <4>3. ver[n][2] <= tracker[l].ver[2]
        BY <2>1, <2>3, <4>1 DEF Follows
      <4>4. ASSUME NEW f \in File, tracker[l].seqs[f] <= ver[n][2]
            PROVE  disk'[n][f] = tracker[l].files[f]
        <5>1. disk[n][f] = tracker[l].files[f]
          BY <2>1, <2>3, <4>1, <4>4 DEF Follows
        <5>2. tracker[l].seqs[f] <= w.ver[2]
          BY <1>2, <3>1, <4>2, <4>4
        <5>3. f \in part => w.files[f] = tracker[l].files[f]
          BY <2>1, <2>3, <4>2, <5>2 DEF Follows, w
        <5> QED  BY <1>3, <5>1, <5>3
      <4> QED  BY <4>3, <4>4
    <3> QED  BY <1>3, <3>2, <3>3
  <2> QED  BY <2>2, <2>3
<1>7. KeptIsHeld'
  <2> SUFFICES ASSUME NEW p \in published, Kept(p), NEW m \in Node PROVE HeldBy(p, m)'
    BY DEF KeptIsHeld, Kept
  <2>1. HeldBy(p, m) /\ p.ver \in Version
    BY PublishedFits DEF History, KeptIsHeld, Versions
  <2>2. CASE m # n
    BY <1>3, <2>1, <2>2 DEF HeldBy, Holds
  <2>3. CASE m = n
    <3>1. SUFFICES ASSUME AtLeast(ver'[n], p.ver) PROVE \A f \in File : p.files[f] \subseteq disk'[n][f]
      BY <2>3 DEF HeldBy, Holds
    <3>2. AtLeast(w.ver, p.ver)
      BY <1>2, <1>3, <2>1, <3>1, VersionOrder DEF w
    <3>3. \A f \in File : p.files[f] \subseteq IF f \in DOMAIN w.files THEN w.files[f] ELSE disk[n][f]
      BY <2>1, <2>3, <3>2 DEF HeldBy, w
    <3>4. CASE part = DOMAIN w.files
      BY <1>3, <3>3, <3>4
    <3>5. CASE ver'[n] = ver[n]
      <4>1. \A f \in File : p.files[f] \subseteq disk[n][f]
        BY <2>1, <2>3, <3>1, <3>5 DEF HeldBy, Holds
      <4> QED  BY <1>3, <3>3, <4>1 DEF w
    <3> QED  BY <1>3, <3>4, <3>5
  <2> QED  BY <2>2, <2>3
<1>8. \A m \in Node : Differs(m)'
  BY <1>3 DEF History, Differs
<1>9. \A l \in Office' : Grows(l)'
  <2> SUFFICES ASSUME NEW l \in Office PROVE Grows(l)'
    BY <1>1
  <2>1. Grows(l) /\ l \in Node \ {n}
    BY <1>1 DEF History, Office
  <2>2. disk'[l] = disk[l] /\ tracker'[l] = tracker[l] /\ term'[l] = term[l]
    BY <1>3, <2>1
  <2> QED  BY <2>1, <2>2 DEF Grows
<1> QED  BY <1>5, <1>6, <1>7, <1>8, <1>9 DEF History

\* applyState: a standby that has written an answer has all that the panel had when it answered.
LEMMA TakeStateHistory ==
  ASSUME History, Versions', Votes', NEW n \in Node, TakeState(n)
  PROVE  History'
<1>1. /\ wire[n] # None /\ role[n] # "leader" /\ AtLeast(wire[n].ver, ver[n])
      /\ disk' = [disk EXCEPT ![n] = Overwritten(n, DOMAIN wire[n].files)]
      /\ ver' = [ver EXCEPT ![n] = wire[n].ver]
      /\ term' = [term EXCEPT ![n] = Higher(@, wire[n].term)]
      /\ role' = [role EXCEPT ![n] = "follower"]
      /\ wire' = [wire EXCEPT ![n] = None]
      /\ UNCHANGED <<tracker, published>>
  BY DEF TakeState
<1>2. /\ role'[n] = "follower" /\ wire'[n] = None
      /\ \A m \in Node \ {n} : role'[m] = role[m] /\ term'[m] = term[m] /\ tracker'[m] = tracker[m] /\ wire'[m] = wire[m]
  BY <1>1 DEF History, Versions, TypeOK, PerNode
<1> QED  BY <1>1, <1>2, WrittenHistory

\* A crash in applyState, with some of the files written: what the old version promised is there,
\* since the files written are of a version at least as new.
LEMMA CrashHistory ==
  ASSUME History, Versions', Votes', NEW n \in Node, CrashInApply(n)
  PROVE  History'
<1>1. /\ wire[n] # None /\ role[n] # "leader" /\ AtLeast(wire[n].ver, ver[n])
      /\ role' = [role EXCEPT ![n] = "follower"] /\ tracker' = [tracker EXCEPT ![n] = None]
      /\ wire' = [wire EXCEPT ![n] = None]
      /\ UNCHANGED <<ver, term, published>>
  BY DEF CrashInApply, Restarts
<1>2. PICK part \in SUBSET (DOMAIN wire[n].files) : disk' = [disk EXCEPT ![n] = Overwritten(n, part)]
  BY DEF CrashInApply
<1>3. /\ role'[n] = "follower" /\ wire'[n] = None
      /\ \A m \in Node \ {n} : role'[m] = role[m] /\ term'[m] = term[m] /\ tracker'[m] = tracker[m] /\ wire'[m] = wire[m]
  BY <1>1 DEF History, Versions, TypeOK, PerNode
<1> QED  BY <1>1, <1>2, <1>3, WrittenHistory

\* The panel in office answers a poll with what the standby lacks of its files.
LEMMA PollHistory ==
  ASSUME History, Versions', Votes', NEW n \in Node, NEW l \in Node, Poll(n, l)
  PROVE  History'
<1> DEFINE w == [from |-> l, ver |-> tracker[l].ver, term |-> term[l],
                 files |-> [f \in FilesSince(l, ver[n]) |-> tracker[l].files[f]]]
<1>1. /\ n # l /\ role[n] # "leader" /\ role[l] = "leader" /\ wire' = [wire EXCEPT ![n] = w]
      /\ UNCHANGED <<role, term, disk, ver, tracker, published>>
  BY DEF Poll
<1>2. /\ Office' = Office /\ l \in Office /\ \A m \in Office : m = l
      /\ wire'[n] = w /\ \A m \in Node \ {n} : wire'[m] = wire[m]
  BY <1>1, OneInOffice DEF History, Office, Versions, PerNode
<1>3. /\ w.ver = tracker[l].ver /\ DOMAIN w.files = FilesSince(l, ver[n]) /\ FilesSince(l, ver[n]) \subseteq File
      /\ \A f \in DOMAIN w.files : w.files[f] = tracker[l].files[f]
  BY DEF FilesSince
<1> HIDE DEF w
<1>4. /\ tracker[l].ver[1] = term[l] /\ ver[n][1] \in Nat /\ ver[n][2] \in Nat /\ tracker[l].ver[2] \in Nat
      /\ \A f \in File : tracker[l].seqs[f] \in 0 .. tracker[l].ver[2]
  BY <1>2, InOffice, TypesOf DEF History, Versions
\* The files that the answer leaves out are the same at the standby.
<1>5. /\ FilesSince(l, ver[n]) = File \/ ver[n][1] = term[l]
      /\ \A f \in File \ DOMAIN w.files : disk[n][f] = tracker[l].files[f]
  <2>1. CASE ver[n][1] # tracker[l].ver[1] \/ ver[n][2] > tracker[l].ver[2]
    BY <1>3, <2>1 DEF FilesSince
  <2>2. CASE ~(ver[n][1] # tracker[l].ver[1] \/ ver[n][2] > tracker[l].ver[2])
    <3>1. FilesSince(l, ver[n]) = {f \in File : tracker[l].seqs[f] > ver[n][2]} /\ ver[n][1] = term[l]
      BY <1>4, <2>2 DEF FilesSince
    <3>2. \A f \in File : tracker[l].seqs[f] <= ver[n][2] => disk[n][f] = tracker[l].files[f]
      BY <1>1, <1>2, <3>1 DEF History, Copies, Follows
    <3> QED  BY <1>3, <1>4, <3>1, <3>2
  <2> QED  BY <2>1, <2>2
<1>6. Origins'
  <2>1. \A m \in Node : ver'[m][1] = 0 \/ \E p \in published' : p.ver[1] = ver'[m][1]
    BY <1>1 DEF History, Origins, Led
  <2>2. \A m \in Office' : [ver |-> tracker'[m].ver, files |-> tracker'[m].files] \in published'
    BY <1>1, <1>2 DEF History, Origins
  <2>3. ASSUME NEW m \in Node, wire'[m] # None
        PROVE  \E p \in published' : p.ver = wire'[m].ver /\ \A f \in DOMAIN wire'[m].files : wire'[m].files[f] = p.files[f]
    <3>1. CASE m # n
      BY <1>1, <1>2, <2>3, <3>1 DEF History, Origins
    <3>2. CASE m = n
      <4> DEFINE q == [ver |-> tracker[l].ver, files |-> tracker[l].files]
      <4>1. q \in published /\ q.ver = w.ver /\ \A f \in DOMAIN w.files : w.files[f] = q.files[f]
        BY <1>2, <1>3 DEF History, Origins
      <4> HIDE DEF q
      <4> QED  BY <1>1, <1>2, <3>2, <4>1
    <3> QED  BY <3>1, <3>2
  <2> QED  BY <2>1, <2>2, <2>3 DEF Origins, Led
<1>7. Copies'
  <2> SUFFICES ASSUME NEW m \in Node, l # m PROVE Follows(l, m)'
    BY <1>2 DEF Copies
  <2>1. Follows(l, m)
    BY <1>2 DEF History, Copies
  <2>2. CASE m # n
    BY <1>1, <1>2, <2>1, <2>2 DEF Follows
  <2>3. CASE m = n
    BY <1>1, <1>2, <1>3, <1>4, <1>5, <2>1, <2>3 DEF Follows
  <2> QED  BY <2>2, <2>3
<1>8. KeptIsHeld'
  <2> SUFFICES ASSUME NEW p \in published, Kept(p), NEW m \in Node PROVE HeldBy(p, m)'
    BY <1>1 DEF KeptIsHeld, Kept
  <2>1. HeldBy(p, m)
    BY DEF History, KeptIsHeld
  <2>2. CASE m # n
    BY <1>1, <1>2, <2>1, <2>2 DEF HeldBy, Holds
  <2>3. CASE m = n
    <3>1. \A f \in File : p.files[f] \subseteq tracker[l].files[f]
      BY <1>2, OfficeHolds
    <3>2. \A f \in File : p.files[f] \subseteq IF f \in DOMAIN w.files THEN w.files[f] ELSE disk[n][f]
      BY <1>3, <1>5, <3>1
    <3> QED  BY <1>1, <1>2, <2>1, <2>3, <3>2 DEF HeldBy, Holds
  <2> QED  BY <2>2, <2>3
<1>9. \A m \in Node : Differs(m)'
  <2> SUFFICES ASSUME NEW m \in Node PROVE Differs(m)'
    OBVIOUS
  <2>1. CASE m # n
    BY <1>1, <1>2, <2>1 DEF History, Differs
  <2>2. CASE m = n
    BY <1>1, <1>2, <1>3, <1>4, <1>5, <2>2 DEF Differs
  <2> QED  BY <2>1, <2>2
<1>10. \A m \in Office' : Grows(m)'
  BY <1>1, <1>2 DEF History, Grows
<1> QED  BY <1>6, <1>7, <1>8, <1>9, <1>10 DEF History

\* A scan gives all that changed one new version, which nobody can have yet.
LEMMA ScanHistory ==
  ASSUME History, Versions', Votes', NEW n \in Node, Scan(n)
  PROVE  History'
<1> DEFINE seq == tracker[n].ver[2] + 1
           new == [ver |-> <<tracker[n].ver[1], seq>>, files |-> disk[n],
                   seqs |-> [f \in File |-> IF f \in Changed(n) THEN seq ELSE tracker[n].seqs[f]]]
           q == [ver |-> new.ver, files |-> disk[n]]
<1>1. /\ role[n] = "leader" /\ tracker' = [tracker EXCEPT ![n] = new]
      /\ published' = published \cup {[ver |-> tracker'[n].ver, files |-> disk[n]]}
      /\ UNCHANGED <<role, term, disk, ver, wire>>
  BY DEF Scan
<1>2. Office' = Office /\ n \in Office /\ \A m \in Office : m = n
  BY <1>1, OneInOffice DEF History, Office
<1>3. /\ tracker'[n] = new /\ published' = published \cup {q}
  BY <1>1 DEF History, Versions, PerNode
<1>4. /\ tracker[n].ver[1] = term[n] /\ term[n] \in Nat /\ tracker[n].ver[2] \in Nat /\ ver[n] = <<term[n], 0>>
      /\ \A f \in File : tracker[n].seqs[f] \in 0 .. tracker[n].ver[2]
  BY <1>2, InOffice DEF History
<1>5. /\ new.ver[1] = term[n] /\ new.ver[2] = tracker[n].ver[2] + 1 /\ new.files = disk[n]
      /\ q.ver = new.ver /\ q.files = disk[n] /\ q = [ver |-> new.ver, files |-> new.files]
      /\ \A f \in File : IF f \in Changed(n) THEN new.seqs[f] = seq
                         ELSE new.seqs[f] = tracker[n].seqs[f] /\ disk[n][f] = tracker[n].files[f]
  BY <1>4 DEF Changed
<1> HIDE DEF new, q
<1>6. \A m \in Node : ver[m][1] <= term[n] /\ (wire[m] # None => wire[m].ver[1] <= term[n])
  BY <1>2, <1>4, OfOldTerms DEF History, Votes
<1>7. Origins'
  <2>1. \A m \in Node : ver'[m][1] = 0 \/ \E p \in published' : p.ver[1] = ver'[m][1]
    BY <1>1 DEF History, Origins, Led
  <2>2. \A m \in Office' : [ver |-> tracker'[m].ver, files |-> tracker'[m].files] \in published'
    BY <1>2, <1>3, <1>5
  <2>3. \A m \in Node : wire'[m] # None => \E p \in published' :
          p.ver = wire'[m].ver /\ \A f \in DOMAIN wire'[m].files : wire'[m].files[f] = p.files[f]
    BY <1>1 DEF History, Origins
  <2> QED  BY <2>1, <2>2, <2>3 DEF Origins, Led
<1>8. Copies'
  <2> SUFFICES ASSUME NEW m \in Node, n # m PROVE Follows(n, m)'
    BY <1>2 DEF Copies
  <2>1. Follows(n, m)
    BY <1>2 DEF History, Copies
  <2>2. /\ ver[m][2] \in Nat
        /\ wire[m] # None => wire[m].ver[2] \in Nat
    BY TypesOf, VersionParts DEF History, Versions, IsWire
  <2>3. ver[m][1] = term[n] =>
          /\ ver[m][2] <= new.ver[2]
          /\ \A f \in File : new.seqs[f] <= ver[m][2] => disk[m][f] = new.files[f]
    BY <1>4, <1>5, <2>1, <2>2 DEF Follows
  <2>4. wire[m] # None /\ wire[m].ver[1] = term[n] =>
          /\ wire[m].ver[2] <= new.ver[2]
          /\ \A f \in File : new.seqs[f] <= wire[m].ver[2] =>
               IF f \in DOMAIN wire[m].files THEN wire[m].files[f] = new.files[f] ELSE disk[m][f] = new.files[f]
    BY <1>4, <1>5, <2>1, <2>2 DEF Follows
  <2> QED  BY <1>1, <1>3, <2>3, <2>4 DEF Follows
<1>9. KeptIsHeld'
  <2> SUFFICES ASSUME NEW p \in published', Kept(p)', NEW m \in Node PROVE HeldBy(p, m)'
    BY DEF KeptIsHeld
  <2>1. CASE p \in published
    <3>1. Kept(p)
      BY <1>3 DEF Kept
    <3>2. HeldBy(p, m)
      BY <2>1, <3>1 DEF History, KeptIsHeld
    <3> QED  BY <1>1, <3>2 DEF HeldBy, Holds
  <2>2. CASE p = q
    <3>1. /\ ver[m][1] \in Nat /\ ver[m][2] \in Nat
          /\ wire[m] # None => wire[m].ver[1] \in Nat /\ wire[m].ver[2] \in Nat
      BY TypesOf, VersionParts DEF History, Versions, IsWire
    <3>2. ~AtLeast(ver[m], q.ver)
      <4>1. CASE m = n
        BY <1>4, <1>5, <4>1 DEF AtLeast
      <4>2. CASE m # n
        <5>1. Follows(n, m)
          BY <1>2, <4>2 DEF History, Copies
        <5> QED  BY <1>4, <1>5, <1>6, <3>1, <5>1 DEF AtLeast, Follows
      <4> QED  BY <4>1, <4>2
    <3>3. ~(wire[m] # None /\ role[m] # "leader" /\ AtLeast(wire[m].ver, q.ver))
      <4>1. CASE m = n
        BY <1>1, <4>1
      <4>2. CASE m # n
        <5>1. Follows(n, m)
          BY <1>2, <4>2 DEF History, Copies
        <5> QED  BY <1>4, <1>5, <1>6, <3>1, <5>1 DEF AtLeast, Follows
      <4> QED  BY <4>1, <4>2
    <3> QED  BY <1>1, <2>2, <3>2, <3>3 DEF HeldBy
  <2> QED  BY <1>3, <2>1, <2>2
<1>10. \A m \in Node : Differs(m)'
  BY <1>1 DEF History, Differs
<1>11. \A m \in Office' : Grows(m)'
  <2> SUFFICES ASSUME NEW f \in File
               PROVE  /\ new.files[f] \subseteq disk[n][f]
                      /\ \A p \in published \cup {q} : p.ver[1] = term[n] =>
                           p.ver[2] <= new.ver[2] /\ p.files[f] \subseteq new.files[f]
    BY <1>1, <1>2, <1>3 DEF Grows
  <2>1. /\ tracker[n].files[f] \subseteq disk[n][f]
        /\ \A p \in published : p.ver[1] = term[n] =>
             p.ver[2] <= tracker[n].ver[2] /\ p.files[f] \subseteq tracker[n].files[f]
    BY <1>2 DEF History, Grows
  <2>2. \A p \in published : p.ver[2] \in Nat
    BY PublishedFits DEF History, Versions
  <2> QED  BY <1>4, <1>5, <2>1, <2>2
<1> QED  BY <1>7, <1>8, <1>9, <1>10, <1>11 DEF History

\* A panel takes office in a term of its own: what it starts from is new, and what it kept
\* of the past it has.
LEMMA PromoteHistory ==
  ASSUME TermsLedOnce, History, Versions', Votes', NEW n \in Node, Promote(n)
  PROVE  History'
<1> DEFINE T == FreshTracker(term[n], disk[n])
           q == [ver |-> <<term[n], 0>>, files |-> disk[n]]
<1>1. /\ role[n] = "candidate" /\ role' = [role EXCEPT ![n] = "leader"]
      /\ tracker' = [tracker EXCEPT ![n] = T] /\ ver' = [ver EXCEPT ![n] = <<term[n], 0>>]
      /\ published' = published \cup {q}
      /\ UNCHANGED <<term, disk, wire>>
      /\ \A p \in published : p.ver[1] # term[n]
  BY DEF Promote
<1>2. /\ role'[n] = "leader" /\ tracker'[n] = T /\ ver'[n] = <<term[n], 0>> /\ Office' = {n}
      /\ \A m \in Node \ {n} : role'[m] = role[m] /\ ver'[m] = ver[m]
      /\ n \notin Office
  <2>1. Office' = {n}
    BY PromoteVotes DEF History, Versions
  <2> QED  BY <1>1, <2>1 DEF History, Versions, TypeOK, PerNode, Office
<1>3. /\ T.ver = <<term[n], 0>> /\ T.files = disk[n] /\ q.ver = <<term[n], 0>> /\ q.files = disk[n]
      /\ q = [ver |-> T.ver, files |-> T.files]
  BY DEF FreshTracker
<1> HIDE DEF T, q
<1>4. term[n] \in Nat /\ term[n] > 0
  <2>1. term[n] \in Nat /\ ver[n][1] \in Nat /\ ver[n][1] < term[n]
    BY <1>1, TypesOf DEF History, Versions, TermsFit, Terms
  <2> QED  BY <2>1
<1>5. \A p \in published : p.ver[1] \in Nat /\ p.ver[1] < term[n]
  <2>1. \A p \in published : p.ver[1] \in Nat /\ p.ver[1] <= term[n]
    BY PromoteVotes, PublishedFits DEF History, Versions
  <2> QED  BY <1>1, <1>4, <2>1
<1>6. \A m \in Node : /\ ver[m][1] \in Nat /\ ver[m][1] < term[n]
                      /\ wire[m] # None => wire[m].ver[1] \in Nat /\ wire[m].ver[1] < term[n]
  <2> SUFFICES ASSUME NEW m \in Node
               PROVE  /\ ver[m][1] \in Nat /\ ver[m][1] < term[n]
                      /\ wire[m] # None => wire[m].ver[1] \in Nat /\ wire[m].ver[1] < term[n]
    OBVIOUS
  <2>1. ver[m][1] \in Nat /\ (ver[m][1] = 0 \/ \E p \in published : p.ver[1] = ver[m][1])
    BY TypesOf DEF History, Versions, Origins, Led
  <2>2. wire[m] # None => wire[m].ver[1] \in Nat /\ \E p \in published : p.ver = wire[m].ver
    BY TypesOf, VersionParts DEF History, Versions, Origins, IsWire
  <2> QED  BY <1>4, <1>5, <2>1, <2>2
<1>7. Origins'
  <2>1. \A m \in Node : ver'[m][1] = 0 \/ \E p \in published' : p.ver[1] = ver'[m][1]
    <3>1. \A m \in Node : ver[m][1] = 0 \/ \E p \in published : p.ver[1] = ver[m][1]
      BY DEF History, Origins, Led
    <3>2. q.ver[1] = term[n] /\ ver'[n][1] = term[n] /\ q \in published'
      BY <1>1, <1>2, <1>3
    <3> QED  BY <1>1, <1>2, <3>1, <3>2
  <2>2. \A m \in Office' : [ver |-> tracker'[m].ver, files |-> tracker'[m].files] \in published'
    BY <1>1, <1>2, <1>3
  <2>3. \A m \in Node : wire'[m] # None => \E p \in published' :
          p.ver = wire'[m].ver /\ \A f \in DOMAIN wire'[m].files : wire'[m].files[f] = p.files[f]
    BY <1>1 DEF History, Origins
  <2> QED  BY <2>1, <2>2, <2>3 DEF Origins, Led
<1>8. Copies'
  <2> SUFFICES ASSUME NEW m \in Node, n # m PROVE Follows(n, m)'
    BY <1>2 DEF Copies
  <2> QED  BY <1>1, <1>2, <1>4, <1>6 DEF Follows
<1>9. KeptIsHeld'
  <2> SUFFICES ASSUME NEW p \in published', Kept(p)', NEW m \in Node PROVE HeldBy(p, m)'
    BY DEF KeptIsHeld
  <2>1. CASE p \in published
    <3>1. Kept(p) /\ \A f \in File : p.files[f] \subseteq disk[n][f]
      <4>1. \A r \in published \cup {q} : r.ver[1] > p.ver[1] => \A f \in File : p.files[f] \subseteq r.files[f]
        BY <1>1 DEF Kept
      <4>2. q.ver[1] = term[n] /\ q.files = disk[n]
        BY <1>3
      <4>3. q.ver[1] > p.ver[1]
        BY <1>4, <1>5, <2>1, <4>2
      <4> QED  BY <4>1, <4>2, <4>3 DEF Kept
    <3>2. HeldBy(p, m)
      BY <2>1, <3>1 DEF History, KeptIsHeld
    <3>3. CASE m = n
      BY <1>1, <1>2, <3>1, <3>3 DEF HeldBy, Holds
    <3>4. CASE m # n
      BY <1>1, <1>2, <3>2, <3>4 DEF HeldBy, Holds
    <3> QED  BY <3>3, <3>4
  <2>2. CASE p = q
    <3>1. q.ver[1] = term[n] /\ q.files = disk[n]
      BY <1>3
    <3>2. CASE m = n
      BY <1>1, <1>2, <2>2, <3>1, <3>2 DEF HeldBy, Holds
    <3>3. CASE m # n
      BY <1>1, <1>2, <1>4, <1>6, <2>2, <3>1, <3>3 DEF HeldBy, AtLeast
    <3> QED  BY <3>2, <3>3
  <2> QED  BY <1>1, <2>1, <2>2
<1>10. \A m \in Node : Differs(m)'
  BY <1>1, <1>2 DEF History, Differs
<1>11. \A m \in Office' : Grows(m)'
  <2> SUFFICES ASSUME NEW f \in File
               PROVE  /\ T.files[f] \subseteq disk[n][f]
                      /\ \A p \in published \cup {q} : p.ver[1] = term[n] =>
                           p.ver[2] <= T.ver[2] /\ p.files[f] \subseteq T.files[f]
    BY <1>1, <1>2 DEF Grows
  <2> QED  BY <1>1, <1>3
<1> QED  BY <1>7, <1>8, <1>9, <1>10, <1>11 DEF History

\* There is one history when nothing but the empty files was published.
LEMMA InitHistory == Init => History
<1> SUFFICES ASSUME Init PROVE History
  OBVIOUS
<1> DEFINE q == [ver |-> <<1, 0>>, files |-> Empty]
<1> USE PanelsAndVoters
<1>1. /\ role = [n \in Node |-> IF n = First THEN "leader" ELSE "follower"]
      /\ term = [n \in Node |-> IF n = First THEN 1 ELSE 0]
      /\ disk = [n \in Node |-> Empty]
      /\ ver = [n \in Node |-> IF n = First THEN <<1, 0>> ELSE <<0, 0>>]
      /\ tracker[First] = FreshTracker(1, Empty)
      /\ wire = [n \in Node |-> None]
      /\ voterTerm = [v \in Voter |-> 1] /\ holder = [v \in Voter |-> First]
      /\ published = {q}
  BY DEF Init
<1>2. /\ FreshTracker(1, Empty).ver = <<1, 0>> /\ FreshTracker(1, Empty).files = Empty
      /\ q.ver = <<1, 0>> /\ q.files = Empty /\ q = [ver |-> FreshTracker(1, Empty).ver, files |-> FreshTracker(1, Empty).files]
  BY DEF FreshTracker
<1> HIDE DEF q
<1>3. Office = {First} /\ Versions
  BY <1>1, InitVersions DEF Office
<1>4. Cardinality(Voter) >= Majority
  <2>1. Cardinality(Voter) \in Nat /\ Cardinality(Voter) # 0
    BY FS_CardinalityType, FS_EmptySet
  <2> QED  BY <2>1 DEF Majority
<1>5. Votes
  <2>1. Backers(First) = Voter /\ Heard(1) = Voter
    BY <1>1 DEF Backers, Heard
  <2>2. \A p \in published : p.ver[1] = 1
    BY <1>1, <1>2
  <2>3. \A n \in Node, v \in Voter : holder[v] = n => voterTerm[v] <= term[n]
    BY <1>1
  <2>4. \A l \in Office : Cardinality(Backers(l)) >= Majority
    BY <1>3, <1>4, <2>1
  <2>5. \A p \in published : Cardinality(Heard(p.ver[1])) >= Majority
    BY <1>4, <2>1, <2>2
  <2>6. \A l \in Office, p \in published : p.ver[1] <= term[l]
    BY <1>1, <1>3, <2>2
  <2> QED  BY <2>3, <2>4, <2>5, <2>6 DEF Votes
<1>6. Origins
  <2>1. \A n \in Node : ver[n][1] = 0 \/ ver[n][1] = 1
    BY <1>1
  <2>2. q \in published /\ q.ver[1] = 1
    BY <1>1, <1>2
  <2> QED  BY <1>1, <1>2, <1>3, <2>1, <2>2 DEF Origins, Led
<1>7. Copies
  <2>1. \A n \in Node \ {First} : ver[n][1] = 0 /\ wire[n] = None
    BY <1>1
  <2> QED  BY <1>1, <1>3, <2>1 DEF Copies, Follows
<1>8. KeptIsHeld
  BY <1>1, <1>2 DEF KeptIsHeld, HeldBy, Holds
<1>9. \A n \in Node : Differs(n)
  BY <1>1 DEF Differs
<1>10. \A l \in Office : Grows(l)
  <2>1. \A p \in published : p.ver[2] <= FreshTracker(1, Empty).ver[2] /\ p.files = Empty
    BY <1>1, <1>2
  <2> QED  BY <1>1, <1>2, <1>3, <2>1 DEF Grows
<1> QED  BY <1>3, <1>5, <1>6, <1>7, <1>8, <1>9, <1>10 DEF History

\* Every step keeps one history, while no term is led twice.
LEMMA StepHistory == TermsLedOnce /\ History /\ [Next]_vars => History'
<1> SUFFICES ASSUME TermsLedOnce, History, [Next]_vars PROVE History'
  OBVIOUS
<1>1. Versions'
  BY StepVersions DEF History
<1>2. CASE UNCHANGED vars
  <2>1. /\ UNCHANGED <<role, term, disk, ver, tracker, wire, published, voterTerm, holder>>
        /\ Office' = Office
    BY <1>2 DEF vars, vote, Office
  <2>2. Votes'
    BY <2>1 DEF History, Votes, Backers, Heard, Majority, Office
  <2> QED  BY <1>1, <2>1, <2>2, HistoryKept
<1>3. ASSUME NEW n \in Node, \/ DeliverAck(n) \/ DropState(n) \/ Stand(n) \/ GiveUp(n) \/ TakeState(n)
                             \/ Restart(n) \/ CrashInApply(n)
      PROVE  History'
  <2>1. Votes'
    BY <1>1, <1>3, QuietVotes DEF History
  <2> QED  BY <1>1, <1>3, <2>1, QuietHistory, TakeStateHistory, RestartHistory, CrashHistory
<1>4. ASSUME NEW n \in Node, Scan(n)
      PROVE  History'
  BY <1>1, <1>4, ScanVotes, ScanHistory
<1>5. ASSUME NEW n \in Node, Promote(n)
      PROVE  History'
  <2>1. Votes'
    BY <1>5, PromoteVotes DEF History, Versions
  <2> QED  BY <1>1, <1>5, <2>1, PromoteHistory
<1>6. ASSUME NEW n \in Node, NEW f \in File, WriteFile(n, f)
      PROVE  History'
  <2>1. Votes'
    BY <1>1, <1>6, QuietVotes DEF History
  <2> QED  BY <1>1, <1>6, <2>1, WriteFileHistory
<1>7. ASSUME NEW n \in Node, NEW l \in Node, Poll(n, l) \/ PollInSync(n, l)
      PROVE  History'
  <2>1. Votes'
    BY <1>1, <1>7, QuietVotes DEF History
  <2> QED  BY <1>1, <1>7, <2>1, PollHistory, QuietHistory
<1>8. ASSUME NEW v \in Voter, LeaseEnds(v)
      PROVE  History'
  <2>1. Votes'
    BY <1>8, LeaseEndsVotes DEF History, Versions
  <2> QED  BY <1>1, <1>8, <2>1, VotesHistory
<1>9. ASSUME NEW v \in Voter, NEW n \in Node, Grant(v, n) \/ Hear(v, n)
      PROVE  History'
  <2>1. Votes'
    BY <1>1, <1>9, GrantVotes, QuietVotes DEF History, Versions
  <2> QED  BY <1>1, <1>9, <2>1, VotesHistory
<1> QED  BY <1>2, <1>3, <1>4, <1>5, <1>6, <1>7, <1>8, <1>9 DEF Next

\* While no term is led twice there is one history: standbys on the term of the panel in office
\* have what did not change since, whatever differences, full states, crashes and elections came
\* between, and whoever claims a version has what every later panel began with (stateReply, scan,
\* applyState and trackerStart of ha.mjs).
THEOREM HistoryHolds ==
  ASSUME TermsLedOnce
  PROVE  Spec => []History
<1>1. History /\ [Next]_vars => History'
  BY StepHistory
<1> QED  BY <1>1, InitHistory, PTL DEF Spec

\* A standby that is level with the panel in office lacks no change.
LEMMA HistoryMeans == History => SyncedMeansEqual
<1> SUFFICES ASSUME History, NEW n \in Node, NEW l \in Node, role[l] = "leader", n # l, ver[n] = tracker[l].ver
             PROVE  disk[n] = tracker[l].files
  BY DEF SyncedMeansEqual
<1>1. l \in Office /\ Follows(l, n)
  BY DEF Office, History, Copies
<1>2. /\ tracker[l].ver[1] = term[l] /\ tracker[l].files \in [File -> Content]
      /\ \A f \in File : tracker[l].seqs[f] <= tracker[l].ver[2]
  BY <1>1, InOffice DEF History
<1>3. disk[n] \in [File -> Content] /\ \A f \in File : disk[n][f] = tracker[l].files[f]
  BY <1>1, <1>2, TypesOf DEF Follows, History, Versions
<1> QED  BY <1>2, <1>3

\* docs/HA.md, Replication, and stateReply of ha.mjs: a standby that is answered 204 has the files
\* of the panel in office, while no term is led twice.
THEOREM SyncedIsEqual ==
  ASSUME TermsLedOnce
  PROVE  Spec => []SyncedMeansEqual
BY HistoryHolds, HistoryMeans, PTL

-----------------------------------------------------------------------------
(* Elections: what panel failover promises, whatever terms are led twice.  *)

\* What a panel in office replicates is published.
Tracked == \A l \in Office : [ver |-> tracker[l].ver, files |-> tracker[l].files] \in published

Elections == Versions /\ Votes /\ Tracked

\* The panel in office, if there is one.
Sitting == IF Office = {} THEN None ELSE CHOOSE n \in Office : TRUE

Panel == INSTANCE PanelLeadership WITH active <- Sitting

\* A scan keeps the votes, and what it tracks is published.
LEMMA ScanElections ==
  ASSUME Elections, Versions', NEW n \in Node, Scan(n)
  PROVE  Elections'
<1>1. /\ role[n] = "leader" /\ UNCHANGED <<role, term, vote>>
      /\ published' = published \cup {[ver |-> tracker'[n].ver, files |-> disk[n]]}
  BY DEF Scan
<1>2. n \in Office /\ Office' = Office
  BY <1>1 DEF Office
<1>3. tracker'[n].ver[1] = term[n] /\ tracker[n].ver[1] = term[n]
  BY <1>1 DEF Elections, Versions, TermsFit, Terms
<1>4. PICK q \in published : q.ver[1] = term[n]
  <2>1. [ver |-> tracker[n].ver, files |-> tracker[n].files] \in published
    BY <1>2 DEF Elections, Tracked
  <2> QED  BY <1>3, <2>1
<1>5. \A p \in published' : \E r \in published : p.ver[1] = r.ver[1]
  BY <1>1, <1>3, <1>4
<1>6. \A m \in Node : term'[m] = term[m] /\ term[m] \in Nat
  BY <1>1, TypesOf DEF Elections, Versions
<1>7. Votes'
  BY <1>1, <1>2, <1>5, <1>6, VotesKept DEF Elections, Versions, vote, Office
<1>8. Tracked'
  <2>1. tracker' = [m \in Node |-> IF m = n THEN tracker'[n] ELSE tracker[m]]
    BY DEF Scan, Elections, Versions, PerNode
  <2>2. tracker'[n].files = disk[n]
    BY DEF Scan, Elections, Versions, PerNode
  <2>3. SUFFICES ASSUME NEW l \in Office'
                 PROVE  [ver |-> tracker'[l].ver, files |-> tracker'[l].files] \in published'
    BY DEF Tracked
  <2>4. CASE l = n
    BY <1>1, <2>2, <2>4
  <2>5. CASE l # n
    <3>1. l \in Node /\ l \in Office
      BY <1>2 DEF Office
    <3>2. tracker'[l] = tracker[l]
      BY <2>1, <2>5, <3>1
    <3> QED  BY <1>1, <3>1, <3>2 DEF Elections, Tracked
  <2> QED  BY <2>4, <2>5
<1> QED  BY <1>7, <1>8 DEF Elections

\* Whoever is promoted publishes what it begins with.
LEMMA PromoteElections ==
  ASSUME Elections, Versions', NEW n \in Node, Promote(n)
  PROVE  Elections'
<1>1. Votes' /\ Office' = {n}
  BY PromoteVotes DEF Elections, Versions
<1>2. /\ tracker'[n].ver = <<term[n], 0>> /\ tracker'[n].files = disk[n]
      /\ published' = published \cup {[ver |-> <<term[n], 0>>, files |-> disk[n]]}
  BY DEF Promote, FreshTracker, Elections, Versions, PerNode
<1>3. Tracked'
  BY <1>1, <1>2 DEF Tracked
<1> QED  BY <1>1, <1>3 DEF Elections

\* Every other step publishes nothing, and leaves the trackers of those in office alone.
LEMMA TrackedKept ==
  ASSUME Elections, Versions', Votes', UNCHANGED published, Office' \subseteq Office,
         \A l \in Office' : tracker'[l] = tracker[l]
  PROVE  Elections'
BY DEF Elections, Tracked

\* A step without a scan or a promotion puts nobody in office and changes no tracker in office.
LEMMA OfficeShrinks ==
  ASSUME Versions, NEW n \in Node,
         \/ DeliverAck(n) \/ TakeState(n) \/ DropState(n) \/ Restart(n) \/ CrashInApply(n)
         \/ Stand(n) \/ GiveUp(n)
         \/ \E f \in File : WriteFile(n, f)
         \/ \E l \in Node : Poll(n, l) \/ PollInSync(n, l)
         \/ \E v \in Voter : Hear(v, n) \/ Grant(v, n) \/ LeaseEnds(v)
  PROVE  /\ Office' \subseteq Office /\ UNCHANGED published
         /\ \A l \in Office' : tracker'[l] = tracker[l]
<1>1. UNCHANGED published
  BY DEF DeliverAck, TakeState, DropState, Restart, CrashInApply, Stand, GiveUp, WriteFile, Poll, PollInSync, Hear, Grant, LeaseEnds
<1>2. \/ UNCHANGED <<role, tracker>>
      \/ /\ role' = [role EXCEPT ![n] = "follower"] \/ role' = [role EXCEPT ![n] = "candidate"]
         /\ UNCHANGED tracker \/ tracker' = [tracker EXCEPT ![n] = None]
  BY DEF DeliverAck, TakeState, DropState, Restart, Restarts, CrashInApply, Stand, GiveUp, WriteFile, Poll, PollInSync, Hear, Grant, LeaseEnds
<1>3. role \in [Node -> {"follower", "candidate", "leader"}] /\ tracker = [m \in Node |-> tracker[m]]
  BY DEF Versions, TypeOK, PerNode
<1>4. Office' \subseteq Office /\ \A l \in Office' : tracker'[l] = tracker[l]
  <2>1. CASE UNCHANGED <<role, tracker>>
    BY <2>1 DEF Office
  <2>2. CASE /\ role' = [role EXCEPT ![n] = "follower"] \/ role' = [role EXCEPT ![n] = "candidate"]
             /\ UNCHANGED tracker \/ tracker' = [tracker EXCEPT ![n] = None]
    <3>1. role'[n] # "leader" /\ \A m \in Node \ {n} : role'[m] = role[m] /\ tracker'[m] = tracker[m]
      BY <1>3, <2>2
    <3> QED  BY <3>1 DEF Office
  <2> QED  BY <1>2, <2>1, <2>2
<1> QED  BY <1>1, <1>4

\* Every step keeps the votes in order, of the office a promotion fills and of all others.
LEMMA StepElections ==
  ASSUME Elections, [Next]_vars
  PROVE  /\ Elections'
         /\ Office' \subseteq Office \/ (Office = {} /\ \E n \in Node : Office' = {n})
<1>1. Versions' /\ Versions /\ Votes /\ TypeOK /\ TypeOK'
  BY StepVersions DEF Elections, Versions
<1>2. CASE UNCHANGED vars
  <2>1. UNCHANGED <<role, term, voterTerm, holder, tracker, published>> /\ Office' = Office
    BY <1>2 DEF vars, vote, Office
  <2>2. Votes'
    BY <1>1, <2>1 DEF Votes, Backers, Heard, Majority, Office
  <2> QED  BY <1>1, <2>1, <2>2, TrackedKept
<1>3. ASSUME NEW n \in Node,
             \/ DeliverAck(n) \/ TakeState(n) \/ DropState(n) \/ Restart(n) \/ CrashInApply(n)
             \/ Stand(n) \/ GiveUp(n)
             \/ \E f \in File : WriteFile(n, f)
             \/ \E l \in Node : Poll(n, l) \/ PollInSync(n, l)
             \/ \E v \in Voter : Hear(v, n)
      PROVE  Elections' /\ Office' \subseteq Office
  <2>1. Votes'
    BY <1>1, <1>3, QuietVotes
  <2>2. /\ Office' \subseteq Office /\ UNCHANGED published
        /\ \A l \in Office' : tracker'[l] = tracker[l]
    BY <1>1, <1>3, OfficeShrinks
  <2> QED  BY <1>1, <2>1, <2>2, TrackedKept
<1>4. ASSUME NEW v \in Voter, LeaseEnds(v) \/ \E n \in Node : Grant(v, n)
      PROVE  Elections' /\ Office' \subseteq Office
  <2>1. Votes'
    BY <1>1, <1>4, LeaseEndsVotes, GrantVotes
  <2>2. UNCHANGED <<published, tracker, role>>
    BY <1>4 DEF LeaseEnds, Grant
  <2>3. Office' = Office
    BY <2>2 DEF Office
  <2> QED  BY <1>1, <2>1, <2>2, <2>3, TrackedKept
<1>5. ASSUME NEW n \in Node, Scan(n)
      PROVE  Elections' /\ Office' \subseteq Office
  <2>1. Office' = Office
    BY <1>5 DEF Scan, Office
  <2> QED  BY <1>1, <1>5, <2>1, ScanElections
<1>6. ASSUME NEW n \in Node, Promote(n)
      PROVE  Elections' /\ Office = {} /\ Office' = {n}
  BY <1>1, <1>6, PromoteElections, PromoteVotes
<1> QED  BY <1>2, <1>3, <1>4, <1>5, <1>6 DEF Next

\* The panel that is in office at the start has every vote, and its files are published.
LEMMA InitElections == Init => Elections
<1> SUFFICES ASSUME Init PROVE Elections
  OBVIOUS
<1>1. History
  BY InitHistory
<1> QED  BY <1>1 DEF History, Origins, Elections, Tracked

\* The votes stay in order, also when a term is led twice: every panel in office has a majority
\* behind it, so there is one, and it is in the highest term that was ever published.
THEOREM ElectionsHold == Spec => []Elections
<1>1. Elections /\ [Next]_vars => Elections'
  BY StepElections
<1> QED  BY <1>1, InitElections, PTL DEF Spec

\* ha.mjs, "Why there are never two active panels": office passes from one node to another only
\* through a moment in which nobody holds it, whatever terms are led twice.
THEOREM OfficePasses == Spec => [][Panel!Next]_Sitting
<1>1. Elections /\ [Next]_vars => [Panel!Next]_Sitting
  <2> SUFFICES ASSUME Elections, [Next]_vars PROVE [Panel!Next]_Sitting
    OBVIOUS
  <2>1. Office' \subseteq Office \/ (Office = {} /\ \E n \in Node : Office' = {n})
    BY StepElections
  <2>2. /\ \A l, m \in Office : l = m
        /\ Office \subseteq Node /\ Office' \subseteq Node /\ None \notin Node
    BY OneInOffice, PanelsAndVoters DEF Office, Elections
  <2>3. CASE Office' = Office
    BY <2>3 DEF Sitting
  <2>4. CASE Office' = {} /\ Office # {}
    <3>1. Sitting # None /\ Sitting' = None
      BY <2>2, <2>4 DEF Sitting
    <3> QED  BY <3>1 DEF Panel!Next, Panel!LeavesOffice
  <2>5. ASSUME NEW n \in Node, Office = {}, Office' = {n}
        PROVE  [Panel!Next]_Sitting
    <3>1. Sitting = None /\ Sitting' = n
      BY <2>5 DEF Sitting
    <3> QED  BY <3>1 DEF Panel!Next, Panel!TakesOffice
  <2> QED  BY <2>1, <2>2, <2>3, <2>4, <2>5
<1> QED  BY <1>1, ElectionsHold, PTL DEF Spec

-----------------------------------------------------------------------------
(* What every voter has been told is committed.                            *)

\* The backers that know of a newer version than the node has: they were told after they
\* voted for it.
Stale(n) == {v \in Backers(n) : ~AtLeast(ver[n], known[v])}

FewAreStale == \A n \in Node : role[n] = "candidate" => Cardinality(Stale(n)) < Majority

\* What a panel in office counts as acknowledged, and what is on its way from it and to it,
\* is of its own term.
AcksFit ==
  \A l \in Office :
    /\ committed[l] = <<0, 0>> \/ committed[l][1] = term[l]
    /\ \A n \in Node : wire[n] # None /\ wire[n].from = l => wire[n].ver[1] = term[l]
    /\ \A n \in Node : ack[n] # None /\ ack[n].to = l => ack[n].ver[1] = term[l]

ToldIsKept == \A p \in published : (\A v \in Voter : Told(v, p)) => Kept(p)

Survival == History /\ AcksFit /\ FewAreStale /\ ToldIsKept

\* A step that neither elects, nor acknowledges, nor answers.
LEMMA AcksKept ==
  ASSUME AcksFit, Office' \subseteq Office,
         \A l \in Office' : term'[l] = term[l] /\ committed'[l] = committed[l],
         \A n \in Node : wire'[n] \in {wire[n], None} /\ ack'[n] \in {ack[n], None}
  PROVE  AcksFit'
BY DEF AcksFit

\* A step that makes no backer of a candidate stale.
LEMMA StaleKept ==
  ASSUME FewAreStale,
         \A n \in Node : role'[n] = "candidate" => role[n] = "candidate" /\ Stale(n)' \subseteq Stale(n)
  PROVE  FewAreStale'
<1> SUFFICES ASSUME NEW n \in Node, role'[n] = "candidate" PROVE Cardinality(Stale(n)') < Majority
  BY DEF FewAreStale, Majority
<1>1. Stale(n)' \subseteq Stale(n) /\ Cardinality(Stale(n)) < Majority /\ Stale(n) \subseteq Voter
  BY DEF FewAreStale, Stale, Backers
<1>2. IsFiniteSet(Stale(n)) /\ IsFiniteSet(Voter)
  BY <1>1, PanelsAndVoters, FS_Subset
<1>3. /\ Cardinality(Stale(n)') <= Cardinality(Stale(n)) /\ IsFiniteSet(Stale(n)')
  BY <1>1, <1>2, FS_Subset
<1>4. Cardinality(Stale(n)') \in Nat /\ Cardinality(Stale(n)) \in Nat /\ Cardinality(Voter) \in Nat
  BY <1>2, <1>3, FS_CardinalityType
<1> QED  BY <1>1, <1>3, <1>4 DEF Majority

\* A step that publishes nothing and tells no voter anything.
LEMMA ToldKept ==
  ASSUME ToldIsKept, UNCHANGED <<known, published>>
  PROVE  ToldIsKept'
BY DEF ToldIsKept, Told, Kept

\* Steps of one node that neither stand nor take office, and tell no voter anything.
LEMMA NodeSurvival ==
  ASSUME Survival, History', NEW n \in Node,
         \/ DropState(n) \/ GiveUp(n) \/ Restart(n) \/ CrashInApply(n)
         \/ \E f \in File : WriteFile(n, f)
         \/ \E l \in Node : PollInSync(n, l)
  PROVE  AcksFit' /\ FewAreStale' /\ ToldIsKept'
<1>1. /\ UNCHANGED <<term, ack, voterTerm, holder, known, published>>
      /\ UNCHANGED role \/ role' = [role EXCEPT ![n] = "follower"]
      /\ UNCHANGED wire \/ wire' = [wire EXCEPT ![n] = None]
      /\ UNCHANGED committed \/ (committed' = [committed EXCEPT ![n] = <<0, 0>>] /\ role'[n] = "follower")
  BY DEF DropState, GiveUp, Restart, CrashInApply, Restarts, WriteFile, PollInSync, vote, Survival, History, Versions, TypeOK
<1>2. /\ role \in [Node -> {"follower", "candidate", "leader"}] /\ PerNode
      /\ committed \in [Node -> Version]
  BY DEF Survival, History, Versions, TypeOK
<1>3. Office' \subseteq Office /\ \A l \in Office' : committed'[l] = committed[l]
  BY <1>1, <1>2 DEF Office
<1>4. \A m \in Node : wire'[m] \in {wire[m], None}
  BY <1>1, <1>2 DEF PerNode
<1>5. AcksFit'
  BY <1>1, <1>3, <1>4, AcksKept DEF Survival, Office
<1>6. \A m \in Node : role'[m] = "candidate" => role[m] = "candidate" /\ ver'[m] = ver[m]
  <2>1. \A m \in Node : role'[m] = "candidate" => role[m] = "candidate"
    BY <1>1, <1>2
  <2>2. CASE UNCHANGED ver
    BY <2>1, <2>2
  <2>3. CASE Restart(n)
    <3>1. role'[n] = "follower" /\ \A m \in Node \ {n} : ver'[m] = ver[m]
      BY <1>2, <2>3, SavedVersion DEF Restart, Restarts, Survival, History
    <3> QED  BY <2>1, <3>1
  <2> QED  BY <2>2, <2>3 DEF DropState, GiveUp, CrashInApply, WriteFile, PollInSync
<1>7. FewAreStale'
  BY <1>1, <1>6, StaleKept DEF Survival, Stale, Backers
<1> QED  BY <1>1, <1>5, <1>7, ToldKept DEF Survival

\* handleAck: what becomes committed is of the panel's own term.
LEMMA AckSurvival ==
  ASSUME Survival, History', NEW n \in Node, DeliverAck(n)
  PROVE  AcksFit' /\ FewAreStale' /\ ToldIsKept'
<1> DEFINE l == ack[n].to
           v == ack[n].ver
<1>1. /\ ack[n] # None
      /\ committed' = IF role[l] = "leader" /\ AtLeast(tracker[l].ver, v)
                      THEN [committed EXCEPT ![l] = Newest(v, @)] ELSE committed
      /\ ack' = [ack EXCEPT ![n] = None]
      /\ UNCHANGED <<role, term, ver, wire, voterTerm, holder, known, published>>
  BY DEF DeliverAck, vote
<1>2. /\ PerNode /\ committed \in [Node -> Version] /\ v \in Version /\ l \in Node /\ Office' = Office
  BY <1>1, TypesOf DEF Survival, History, Versions, TypeOK, IsAck, Office
<1>3. Newest(v, committed[l]) \in {v, committed[l]}
  BY <1>2, VersionOrder
<1>4. l \in Office => v[1] = term[l]
  BY <1>1 DEF Survival, AcksFit, Office
<1> HIDE DEF l, v
<1>5. \A m \in Office : committed'[m] = committed[m] \/ (m = l /\ committed'[m] = v)
  BY <1>1, <1>2, <1>3 DEF Office
<1>6. \A m \in Node : ack'[m] \in {ack[m], None}
  BY <1>1, <1>2 DEF PerNode
<1>7. AcksFit'
  BY <1>1, <1>2, <1>4, <1>5, <1>6 DEF Survival, AcksFit
<1>8. FewAreStale'
  BY <1>1, StaleKept DEF Survival, Stale, Backers
<1> QED  BY <1>1, <1>7, <1>8, ToldKept DEF Survival

\* An answer is of the term of the panel that gives it.
LEMMA PollSurvival ==
  ASSUME Survival, History', NEW n \in Node, NEW l \in Node, Poll(n, l)
  PROVE  AcksFit' /\ FewAreStale' /\ ToldIsKept'
<1> DEFINE w == [from |-> l, ver |-> tracker[l].ver, term |-> term[l],
                 files |-> [f \in FilesSince(l, ver[n]) |-> tracker[l].files[f]]]
<1>1. /\ role[l] = "leader" /\ wire' = [wire EXCEPT ![n] = w]
      /\ UNCHANGED <<role, term, ver, committed, ack, voterTerm, holder, known, published>>
  BY DEF Poll, vote
<1>2. Office' = Office /\ wire'[n] = w /\ \A m \in Node \ {n} : wire'[m] = wire[m]
  BY <1>1 DEF Office, Survival, History, Versions, PerNode
<1>3. w.from = l /\ w.ver[1] = term[l]
  BY <1>1, InOffice DEF Survival, History, Office
<1> HIDE DEF w
<1>4. AcksFit'
  BY <1>1, <1>2, <1>3 DEF Survival, AcksFit
<1>5. FewAreStale'
  BY <1>1, StaleKept DEF Survival, Stale, Backers
<1> QED  BY <1>1, <1>4, <1>5, ToldKept DEF Survival

\* What a standby acknowledges is of the term of the panel that sent it.
LEMMA TakeStateSurvival ==
  ASSUME Survival, History', NEW n \in Node, TakeState(n)
  PROVE  AcksFit' /\ FewAreStale' /\ ToldIsKept'
<1>1. /\ wire[n] # None /\ role[n] # "leader" /\ role' = [role EXCEPT ![n] = "follower"]
      /\ ver' = [ver EXCEPT ![n] = wire[n].ver] /\ wire' = [wire EXCEPT ![n] = None]
      /\ term' = [term EXCEPT ![n] = Higher(@, wire[n].term)]
      /\ ack' = [ack EXCEPT ![n] = [to |-> wire[n].from, ver |-> wire[n].ver]]
      /\ UNCHANGED <<committed, voterTerm, holder, known, published>>
  BY DEF TakeState, vote
<1>2. /\ role'[n] = "follower" /\ wire'[n] = None /\ ack'[n].to = wire[n].from /\ ack'[n].ver = wire[n].ver
      /\ \A m \in Node \ {n} : /\ role'[m] = role[m] /\ ver'[m] = ver[m] /\ wire'[m] = wire[m]
                               /\ term'[m] = term[m] /\ ack'[m] = ack[m]
      /\ Office' = Office /\ n \notin Office
  BY <1>1 DEF Survival, History, Versions, TypeOK, PerNode, Office
<1>3. AcksFit'
  <2> SUFFICES ASSUME NEW l \in Office
               PROVE  /\ committed'[l] = <<0, 0>> \/ committed'[l][1] = term'[l]
                      /\ \A m \in Node : wire'[m] # None /\ wire'[m].from = l => wire'[m].ver[1] = term'[l]
                      /\ \A m \in Node : ack'[m] # None /\ ack'[m].to = l => ack'[m].ver[1] = term'[l]
    BY <1>2 DEF AcksFit
  <2>1. l \in Node \ {n} /\ term'[l] = term[l]
    BY <1>2 DEF Office
  <2> QED  BY <1>1, <1>2, <2>1 DEF Survival, AcksFit
<1>4. FewAreStale'
  BY <1>1, <1>2, StaleKept DEF Survival, Stale, Backers
<1> QED  BY <1>1, <1>3, <1>4, ToldKept DEF Survival

\* Who stands, in a new term, has nobody's vote.
LEMMA StandSurvival ==
  ASSUME Survival, History', NEW n \in Node, Stand(n)
  PROVE  AcksFit' /\ FewAreStale' /\ ToldIsKept'
<1>1. /\ role[n] = "follower" /\ role' = [role EXCEPT ![n] = "candidate"]
      /\ UNCHANGED <<ver, committed, wire, ack, voterTerm, holder, known, published>>
  BY DEF Stand, vote
<1>2. /\ \A m \in Node \ {n} : role'[m] = role[m] /\ term'[m] = term[m]
      /\ term[n] \in Nat /\ term'[n] \in Nat /\ term'[n] > term[n]
  <2>1. PICK heard \in {term[n]} \cup {voterTerm[v] : v \in Voter} :
          term' = [term EXCEPT ![n] = Higher(heard, term[n]) + 1]
    BY DEF Stand
  <2>2. heard \in Nat /\ term[n] \in Nat /\ term \in [Node -> 0 .. MaxTerm]
    BY PanelsAndVoters DEF Survival, History, Versions, TypeOK
  <2>3. Higher(heard, term[n]) + 1 \in Nat /\ Higher(heard, term[n]) + 1 > term[n]
    BY <2>2 DEF Higher
  <2> QED  BY <1>1, <2>1, <2>2, <2>3 DEF Survival, History, Versions, TypeOK
<1>3. Office' = Office /\ n \notin Office
  BY <1>1 DEF Office, Survival, History, Versions, TypeOK
<1>4. AcksFit'
  BY <1>1, <1>2, <1>3, AcksKept DEF Survival, Office
<1>5. FewAreStale'
  <2> SUFFICES ASSUME NEW m \in Node, role'[m] = "candidate" PROVE Cardinality(Stale(m)') < Majority
    BY DEF FewAreStale, Majority
  <2>1. CASE m = n
    <3>1. \A v \in Voter : holder[v] = n => voterTerm[v] # term'[n]
      <4>1. \A v \in Voter : voterTerm[v] \in Nat /\ (holder[v] = n => voterTerm[v] <= term[n])
        BY PanelsAndVoters DEF Survival, History, Votes, Versions, TypeOK
      <4> QED  BY <1>2, <4>1
    <3>2. Stale(n)' = {}
      BY <1>1, <3>1 DEF Stale, Backers
    <3>3. Cardinality({}) = 0 /\ Cardinality(Voter) \in Nat
      BY PanelsAndVoters, FS_EmptySet, FS_CardinalityType
    <3> QED  BY <2>1, <3>2, <3>3 DEF Majority
  <2>2. CASE m # n
    <3>1. Stale(m)' = Stale(m) /\ role[m] = "candidate"
      BY <1>1, <1>2, <2>2 DEF Stale, Backers
    <3> QED  BY <3>1 DEF Survival, FewAreStale
  <2> QED  BY <2>1, <2>2
<1> QED  BY <1>1, <1>4, <1>5, ToldKept DEF Survival

\* A voter grants only a candidate that has what the voter knows of.
LEMMA GrantSurvival ==
  ASSUME Survival, History', NEW v \in Voter, NEW n \in Node, Grant(v, n)
  PROVE  AcksFit' /\ FewAreStale' /\ ToldIsKept'
<1>1. /\ AtLeast(MyVersion(n), known[v]) /\ holder[v] \in {n, None}
      /\ voterTerm' = [voterTerm EXCEPT ![v] = term[n]] /\ holder' = [holder EXCEPT ![v] = n]
      /\ UNCHANGED <<role, term, ver, committed, wire, ack, known, published>>
  BY DEF Grant, Refuses
<1>2. holder'[v] = n /\ \A u \in Voter \ {v} : voterTerm'[u] = voterTerm[u] /\ holder'[u] = holder[u]
  BY <1>1 DEF Survival, History, Versions, TypeOK
<1>3. AcksFit'
  BY <1>1, AcksKept DEF Survival, Office
<1>4. ASSUME NEW m \in Node, role[m] = "candidate"
      PROVE  Stale(m)' \subseteq Stale(m)
  <2>1. v \notin Stale(m)'
    <3>1. CASE m = n
      BY <1>1, <1>4, <3>1 DEF MyVersion, Stale
    <3>2. CASE m # n
      BY <1>2, <3>2 DEF Stale, Backers
    <3> QED  BY <3>1, <3>2
  <2> QED  BY <1>1, <1>2, <2>1 DEF Stale, Backers
<1>5. FewAreStale'
  BY <1>1, <1>4, StaleKept DEF Survival
<1> QED  BY <1>1, <1>3, <1>5, ToldKept DEF Survival

\* A lease that ends takes a backer away.
LEMMA LeaseEndsSurvival ==
  ASSUME Survival, History', NEW v \in Voter, LeaseEnds(v)
  PROVE  AcksFit' /\ FewAreStale' /\ ToldIsKept'
<1>1. /\ holder' = [holder EXCEPT ![v] = None]
      /\ UNCHANGED <<role, term, ver, committed, wire, ack, voterTerm, known, published>>
  BY DEF LeaseEnds
<1>2. holder'[v] = None /\ \A u \in Voter \ {v} : holder'[u] = holder[u]
  BY <1>1 DEF Survival, History, Versions, TypeOK
<1>3. AcksFit'
  BY <1>1, AcksKept DEF Survival, Office
<1>4. \A m \in Node : Stale(m)' \subseteq Stale(m)
  BY <1>1, <1>2, PanelsAndVoters DEF Stale, Backers
<1>5. FewAreStale'
  BY <1>1, <1>4, StaleKept DEF Survival
<1> QED  BY <1>1, <1>3, <1>5, ToldKept DEF Survival

\* While a panel is in office no candidate has a majority behind it, and what the panel
\* reports as committed is of its own term, the last one.
LEMMA HearSurvival ==
  ASSUME Survival, History', NEW v \in Voter, NEW n \in Node, Hear(v, n)
  PROVE  AcksFit' /\ FewAreStale' /\ ToldIsKept'
<1>1. /\ role[n] = "leader" /\ ~AtLeast(known[v], committed[n]) /\ known' = [known EXCEPT ![v] = committed[n]]
      /\ UNCHANGED <<role, term, ver, committed, wire, ack, voterTerm, holder, published>>
  BY DEF Hear
<1>2. n \in Office /\ known'[v] = committed[n] /\ \A u \in Voter \ {v} : known'[u] = known[u]
  BY <1>1 DEF Office, Survival, History, Versions, TypeOK
<1>3. AcksFit'
  BY <1>1, AcksKept DEF Survival, Office
<1>4. FewAreStale'
  <2> SUFFICES ASSUME NEW m \in Node, role[m] = "candidate" PROVE Cardinality(Stale(m)') < Majority
    BY <1>1 DEF FewAreStale, Majority
  <2>1. Stale(m)' \subseteq Backers(m) /\ Backers(m) \in SUBSET Voter
    BY <1>1 DEF Stale, Backers
  <2>2. ~(Cardinality(Backers(m)) >= Majority)
    BY <1>1, <1>2, OneBacked DEF Survival, History, Votes
  <2>3. IsFiniteSet(Backers(m)) /\ IsFiniteSet(Voter)
    BY <2>1, PanelsAndVoters, FS_Subset
  <2>4. Cardinality(Stale(m)') <= Cardinality(Backers(m)) /\ IsFiniteSet(Stale(m)')
    BY <2>1, <2>3, FS_Subset
  <2>5. Cardinality(Stale(m)') \in Nat /\ Cardinality(Backers(m)) \in Nat /\ Cardinality(Voter) \in Nat
    BY <2>3, <2>4, FS_CardinalityType
  <2> QED  BY <2>2, <2>4, <2>5 DEF Majority
<1>5. ToldIsKept'
  <2> SUFFICES ASSUME NEW p \in published, \A u \in Voter : Told(u, p)', NEW q \in published, q.ver[1] > p.ver[1]
               PROVE  FALSE
    BY <1>1 DEF ToldIsKept, Kept
  <2>1. committed[n] # <<0, 0>>
    <3>1. known[v] \in Version
      BY DEF Survival, History, Versions, TypeOK
    <3>2. AtLeast(known[v], <<0, 0>>)
      BY <3>1, VersionParts DEF AtLeast
    <3> QED  BY <1>1, <3>2
  <2>2. committed[n][1] = term[n] /\ committed[n][1] = p.ver[1]
    BY <1>2, <2>1 DEF Survival, AcksFit, Told
  <2>3. q.ver[1] <= term[n] /\ q.ver[1] \in Nat /\ p.ver[1] \in Nat
    BY <1>2, PublishedFits DEF Survival, History, Votes, Versions
  <2> QED  BY <2>2, <2>3
<1> QED  BY <1>3, <1>4, <1>5

\* A panel that publishes has what all voters know of the past.
LEMMA ScanSurvival ==
  ASSUME Survival, History', NEW n \in Node, Scan(n)
  PROVE  AcksFit' /\ FewAreStale' /\ ToldIsKept'
<1> DEFINE q == [ver |-> tracker'[n].ver, files |-> disk[n]]
<1>1. /\ role[n] = "leader" /\ published' = published \cup {q}
      /\ UNCHANGED <<role, term, disk, ver, committed, wire, ack, voterTerm, holder, known>>
  BY DEF Scan, vote
<1>2. /\ n \in Office /\ Office' = Office /\ q.ver[1] = term[n] /\ q.files = disk[n]
  BY <1>1, InOffice DEF Office, History, Versions, TermsFit, Terms
<1> HIDE DEF q
<1>3. AcksFit' /\ FewAreStale'
  BY <1>1, <1>2, AcksKept, StaleKept DEF Survival, Stale, Backers
<1>4. \A p \in published' : p.ver[1] <= term[n] /\ p.ver[1] \in Nat
  <2>1. \A p \in published : p.ver[1] <= term[n] /\ p.ver[1] \in Nat
    BY <1>2, PublishedFits DEF Survival, History, Versions, Votes
  <2>2. term[n] \in Nat
    BY <1>2, InOffice DEF Survival, History
  <2> QED  BY <1>1, <1>2, <2>1, <2>2
<1>5. ToldIsKept'
  <2> SUFFICES ASSUME NEW p \in published', \A u \in Voter : Told(u, p), NEW r \in published', r.ver[1] > p.ver[1],
                      NEW f \in File
               PROVE  p.files[f] \subseteq r.files[f]
    BY <1>1 DEF ToldIsKept, Kept, Told
  <2>1. p.ver[1] # term[n]
    BY <1>4
  <2>2. p \in published
    BY <1>1, <1>2, <2>1
  <2>3. Kept(p)
    BY <2>2 DEF Survival, ToldIsKept
  <2>4. CASE r \in published
    BY <2>3, <2>4 DEF Kept
  <2>5. CASE r = q
    BY <1>2, <2>2, <2>3, <2>5, OfficeHolds DEF Survival
  <2> QED  BY <1>1, <2>4, <2>5
<1> QED  BY <1>3, <1>5

\* Of the majority that elects a panel, one voter at least told it nothing it lacks.
LEMMA PromoteSurvival ==
  ASSUME Survival, History', NEW n \in Node, Promote(n)
  PROVE  AcksFit' /\ FewAreStale' /\ ToldIsKept'
<1> DEFINE q == [ver |-> <<term[n], 0>>, files |-> disk[n]]
<1>1. /\ role[n] = "candidate" /\ Cardinality(Backers(n)) >= Majority /\ Forgotten(n)
      /\ role' = [role EXCEPT ![n] = "leader"] /\ ver' = [ver EXCEPT ![n] = <<term[n], 0>>]
      /\ published' = published \cup {q}
      /\ UNCHANGED <<term, disk, committed, wire, ack, voterTerm, holder, known>>
  BY DEF Promote, vote
<1>2. /\ Office' = {n} /\ \A p \in published : p.ver[1] <= term[n] /\ p.ver[1] \in Nat
  BY PromoteVotes, PublishedFits DEF Survival, History, Versions
<1>3. /\ role'[n] = "leader" /\ \A m \in Node \ {n} : role'[m] = role[m] /\ ver'[m] = ver[m]
  BY <1>1 DEF Survival, History, Versions, TypeOK
<1>4. q.ver[1] = term[n] /\ q.files = disk[n] /\ term[n] \in Nat
  BY TypesOf DEF Survival, History, Versions
<1> HIDE DEF q
<1>5. AcksFit'
  <2>1. committed[n] = <<0, 0>>
    BY <1>1 DEF Survival, History, Versions, Elsewhere
  <2> QED  BY <1>1, <1>2, <2>1 DEF AcksFit, Forgotten
<1>6. FewAreStale'
  BY <1>1, <1>3, StaleKept DEF Survival, Stale, Backers
<1>7. ToldIsKept'
  <2> SUFFICES ASSUME NEW p \in published', \A u \in Voter : Told(u, p), NEW r \in published', r.ver[1] > p.ver[1],
                      NEW f \in File
               PROVE  p.files[f] \subseteq r.files[f]
    BY <1>1 DEF ToldIsKept, Kept, Told
  <2>1. p.ver[1] # term[n]
    BY <1>1, <1>2, <1>4
  <2>2. p \in published
    BY <1>1, <1>4, <2>1
  <2>3. Kept(p)
    BY <2>2 DEF Survival, ToldIsKept
  <2>4. CASE r \in published
    BY <2>3, <2>4 DEF Kept
  <2>5. CASE r = q
    <3>1. Cardinality(Stale(n)) < Majority
      BY <1>1 DEF Survival, FewAreStale
    <3>2. PICK v \in Backers(n) : AtLeast(ver[n], known[v])
      <4>1. Stale(n) # Backers(n)
        <5>1. IsFiniteSet(Backers(n)) /\ IsFiniteSet(Voter)
          BY PanelsAndVoters, FS_Subset DEF Backers
        <5>2. Cardinality(Backers(n)) \in Nat /\ Cardinality(Voter) \in Nat
          BY <5>1, FS_CardinalityType
        <5> QED  BY <1>1, <3>1, <5>2 DEF Majority
      <4> QED  BY <4>1 DEF Stale
    <3>3. v \in Voter /\ Told(v, p)
      BY DEF Backers
    <3>4. known[v] \in Version /\ ver[n] \in Version /\ p.ver \in Version
      BY <2>2, <3>3, TypesOf, PublishedFits DEF Survival, History, Versions, TypeOK
    <3>5. AtLeast(known[v], p.ver)
      BY <3>3, <3>4, VersionParts DEF Told, AtLeast
    <3>6. AtLeast(ver[n], p.ver)
      BY <3>2, <3>4, <3>5, VersionOrder
    <3>7. Holds(n, p.files)
      BY <2>2, <2>3, <3>6 DEF Survival, History, KeptIsHeld, HeldBy
    <3> QED  BY <1>4, <2>5, <3>7 DEF Holds
  <2> QED  BY <1>1, <2>4, <2>5
<1> QED  BY <1>5, <1>6, <1>7

\* Nobody has been told anything at the start.
LEMMA InitSurvival == Init => Survival
<1> SUFFICES ASSUME Init PROVE Survival
  OBVIOUS
<1>1. /\ committed = [n \in Node |-> <<0, 0>>] /\ wire = [n \in Node |-> None] /\ ack = [n \in Node |-> None]
      /\ role = [n \in Node |-> IF n = First THEN "leader" ELSE "follower"]
      /\ published = {[ver |-> <<1, 0>>, files |-> Empty]}
  BY DEF Init
<1>2. AcksFit
  BY <1>1 DEF AcksFit, Office
<1>3. FewAreStale
  BY <1>1 DEF FewAreStale
<1>4. ToldIsKept
  BY <1>1 DEF ToldIsKept, Kept
<1> QED  BY <1>2, <1>3, <1>4, InitHistory DEF Survival

\* Every step keeps what all voters know of, while no term is led twice.
LEMMA StepSurvival == TermsLedOnce /\ Survival /\ [Next]_vars => Survival'
<1> SUFFICES ASSUME TermsLedOnce, Survival, [Next]_vars PROVE AcksFit' /\ FewAreStale' /\ ToldIsKept'
  BY StepHistory DEF Survival
<1>1. History'
  BY StepHistory DEF Survival
<1>2. CASE UNCHANGED vars
  <2>1. UNCHANGED <<role, term, ver, committed, wire, ack, voterTerm, holder, known, published>>
    BY <1>2 DEF vars, vote
  <2> QED  BY <2>1, AcksKept, StaleKept, ToldKept DEF Survival, Office, Stale, Backers
<1>3. ASSUME NEW n \in Node, DropState(n) \/ GiveUp(n) \/ Restart(n) \/ CrashInApply(n)
      PROVE  AcksFit' /\ FewAreStale' /\ ToldIsKept'
  BY <1>1, <1>3, NodeSurvival
<1>4. ASSUME NEW n \in Node, DeliverAck(n) \/ TakeState(n) \/ Stand(n) \/ Scan(n) \/ Promote(n)
      PROVE  AcksFit' /\ FewAreStale' /\ ToldIsKept'
  BY <1>1, <1>4, AckSurvival, TakeStateSurvival, StandSurvival, ScanSurvival, PromoteSurvival
<1>5. ASSUME NEW n \in Node, NEW f \in File, WriteFile(n, f)
      PROVE  AcksFit' /\ FewAreStale' /\ ToldIsKept'
  BY <1>1, <1>5, NodeSurvival
<1>6. ASSUME NEW n \in Node, NEW l \in Node, Poll(n, l) \/ PollInSync(n, l)
      PROVE  AcksFit' /\ FewAreStale' /\ ToldIsKept'
  BY <1>1, <1>6, NodeSurvival, PollSurvival
<1>7. ASSUME NEW v \in Voter, LeaseEnds(v)
      PROVE  AcksFit' /\ FewAreStale' /\ ToldIsKept'
  BY <1>1, <1>7, LeaseEndsSurvival
<1>8. ASSUME NEW v \in Voter, NEW n \in Node, Grant(v, n) \/ Hear(v, n)
      PROVE  AcksFit' /\ FewAreStale' /\ ToldIsKept'
  BY <1>1, <1>8, GrantSurvival, HearSurvival
<1> QED  BY <1>2, <1>3, <1>4, <1>5, <1>6, <1>7, <1>8 DEF Next

\* While no term is led twice, what every voter knows to be committed is in every later office:
\* fewer than a majority of a candidate's backers know of anything it lacks (handleAck, refusal of
\* ha-voter.mjs, promote).
THEOREM SurvivalHolds ==
  ASSUME TermsLedOnce
  PROVE  Spec => []Survival
<1>1. Survival /\ [Next]_vars => Survival'
  BY StepSurvival
<1> QED  BY <1>1, InitSurvival, PTL DEF Spec

\* The panel in office has what every voter knows of.
LEMMA SurvivalMeans == Survival => WhatAllVotersKnowSurvives
<1> SUFFICES ASSUME Survival, NEW l \in Node, NEW p \in published, role[l] = "leader", \A v \in Voter : Told(v, p)
             PROVE  Holds(l, p.files)
  BY DEF WhatAllVotersKnowSurvives
<1>1. l \in Office /\ Kept(p)
  BY DEF Office, Survival, ToldIsKept
<1> QED  BY <1>1, OfficeHolds DEF Survival, Holds

\* ha.mjs, rule 5: what every voter has been told is committed is never lost, whichever panel takes
\* over and however stale its data once was, while no term is led twice.
THEOREM ToldSurvives ==
  ASSUME TermsLedOnce
  PROVE  Spec => []WhatAllVotersKnowSurvives
BY SurvivalHolds, SurvivalMeans, PTL
=============================================================================
