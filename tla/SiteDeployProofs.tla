-------------------------- MODULE SiteDeployProofs --------------------------
(***************************************************************************)
(* Proofs about SiteDeploy: what can be rolled back to is kept, a deploy     *)
(* that ends well has put its release on every server and nothing else is    *)
(* behind the front door, the servers share the build that was shipped, and  *)
(* a stored build fits its fingerprint.  None of them is inductive: they are *)
(* about the end of a job that went on for many steps, while releases were   *)
(* uploaded, deleted and pruned and the website was changed under it.  The   *)
(* invariant follows the job: where it stands (JobFits), what it has left to *)
(* do and what the other servers have by then (Progress), and what becomes   *)
(* of its release meanwhile (ReleasesKept).                                  *)
(***************************************************************************)
EXTENDS SiteDeploy, FiniteSetTheorems, SequenceTheorems, TLAPS

-----------------------------------------------------------------------------
(* The types.                                                               *)

Kinds == {"none", "deploy", "rollback", "place", "env", "remove"}
Phases == {"none", "pull", "queued", "deploy", "sent", "front", "decide", "snap", "plan", "clear", "env", "remove"}
Stored == [build : Builds, fp : Envs, touched : BOOLEAN]

SiteType ==
  [there : BOOLEAN, servers : Placements, current : 0 .. MaxReleases, previous : 0 .. MaxReleases,
   env : Envs, deleting : BOOLEAN]
RelType == [Releases -> [there : BOOLEAN, pinned : BOOLEAN, built : Stored \cup {None}]]
JobType ==
  [kind : Kinds, phase : Phases, release : 0 .. MaxReleases, todo : Seq(Server), ship : Builds \cup {None},
   package : BOOLEAN, fp : Envs \cup {None}, spec : Envs \cup {None}, added : Seq(Server), removed : SUBSET Server]
LastType == [kind : Kinds, release : 0 .. MaxReleases, shipped : Builds \cup {None}]

TypeOK ==
  /\ site \in SiteType /\ rel \in RelType /\ made \in 0 .. MaxReleases
  /\ state \in [Server -> 0 .. MaxReleases]
  /\ disk \in [Server -> Builds \cup {None}] /\ snap \in [Server -> Builds \cup {None}]
  /\ front \subseteq Server /\ job \in JobType /\ last \in LastType
  /\ placed \in BOOLEAN /\ touched \in BOOLEAN /\ lost \subseteq Releases

-----------------------------------------------------------------------------
(* The invariant.                                                           *)

\* Which phases a job of each kind goes through.
Phase(kind) ==
  CASE kind = "none"     -> {"none"}
    [] kind = "deploy"   -> {"pull", "queued", "deploy", "sent", "front"}
    [] kind = "rollback" -> {"decide", "snap", "front"}
    [] kind = "place"    -> {"plan", "deploy", "sent", "front", "clear"}
    [] kind = "env"      -> {"env"}
    [] kind = "remove"   -> {"remove"}

WithRelease == {"queued", "deploy", "sent", "decide", "snap"}

\* Where the job stands.
JobFits ==
  /\ job.phase \in Phase(job.kind)
  /\ job.phase \in WithRelease => job.release # 0
  /\ job.phase = "pull" => job.release = 0
  /\ job.phase = "sent" => job.todo # <<>> /\ job.spec # None
  /\ job.phase \notin {"deploy", "sent", "snap"} => job.todo = <<>>
  /\ job.phase \notin {"deploy", "sent"} => ~job.package
  /\ job.package => job.ship = None /\ job.fp # None /\ job.todo # <<>>
  /\ job.ship # None => job.kind \in {"deploy", "place"} /\ job.ship.release = job.release

\* Releases that can be needed again are there, or were deleted on purpose: what is
\* current, what a rollback brings, and what the job is about to make current.
ReleasesKept ==
  /\ \A r \in Releases : r > made => ~rel[r].there
  /\ KeptForRollback
  /\ job.phase \in WithRelease => rel[job.release].there \/ job.release \in lost

\* A stored build is of its release, and fits its fingerprint unless it is marked.
BuildsFit ==
  /\ \A r \in Releases : rel[r].built # None =>
       /\ rel[r].built.build.release = r
       /\ rel[r].built.touched \/ rel[r].built.build.env = rel[r].built.fp
  /\ job.package /\ ~touched => job.fp = site.env /\ (Sent => job.spec = site.env)

Left == ToSet(job.todo)

\* What is not left to do is done, while the placement stays: the servers have the release
\* of a deploy, and the build that is shipped.
Progress ==
  ~placed =>
    /\ job.package => Targets \subseteq Left
    /\ job.kind = "deploy" /\ job.phase \in {"deploy", "sent", "front"} =>
         \A s \in Targets \ Left : On(disk[s], job.release)
    /\ job.ship # None =>
         \A s \in Targets \ Left : s \in ToSet(job.added) \/ job.kind = "deploy" => disk[s] = job.ship
    /\ job.kind = "place" => job.removed \cap Targets = {}

Inv == TypeOK /\ JobFits /\ ReleasesKept /\ BuildsFit /\ Progress

-----------------------------------------------------------------------------
(* Lists of servers.                                                        *)

\* What a list holds, and what it loses with its head.
LEMMA ListParts ==
  ASSUME NEW q \in Seq(Server)
  PROVE  /\ ToSet(q) \subseteq Server
         /\ q # <<>> => /\ Head(q) \in Server /\ Tail(q) \in Seq(Server)
                        /\ ToSet(q) = {Head(q)} \cup ToSet(Tail(q))
<1>1. ToSet(q) \subseteq Server  BY DEF ToSet
<1>2. ASSUME q # <<>>
      PROVE  Head(q) \in Server /\ Tail(q) \in Seq(Server) /\ ToSet(q) = {Head(q)} \cup ToSet(Tail(q))
  <2>1. /\ Head(q) \in Server /\ Tail(q) \in Seq(Server) /\ Head(q) = q[1]
        /\ Len(q) \in Nat \ {0} /\ Len(Tail(q)) = Len(q) - 1
        /\ DOMAIN q = 1 .. Len(q) /\ DOMAIN Tail(q) = 1 .. Len(q) - 1
        /\ \A i \in 1 .. Len(q) - 1 : Tail(q)[i] = q[i + 1]
    BY <1>2
  <2>2. ToSet(q) \subseteq {Head(q)} \cup ToSet(Tail(q))
    <3>1. ASSUME NEW i \in 1 .. Len(q), i # 1  PROVE q[i] \in ToSet(Tail(q))
      <4>1. i - 1 \in 1 .. Len(q) - 1 /\ Tail(q)[i - 1] = q[i]  BY <2>1, <3>1
      <4> QED  BY <4>1, <2>1 DEF ToSet
    <3> QED  BY <3>1, <2>1 DEF ToSet
  <2>3. {Head(q)} \cup ToSet(Tail(q)) \subseteq ToSet(q)
    <3>1. Head(q) \in ToSet(q)  BY <2>1 DEF ToSet
    <3>2. ASSUME NEW j \in 1 .. Len(q) - 1  PROVE Tail(q)[j] \in ToSet(q)
      <4>1. j + 1 \in 1 .. Len(q) /\ Tail(q)[j] = q[j + 1]  BY <2>1
      <4> QED  BY <4>1, <2>1 DEF ToSet
    <3> QED  BY <3>1, <3>2, <2>1 DEF ToSet
  <2> QED  BY <2>1, <2>2, <2>3
<1> QED  BY <1>1, <1>2

LEMMA NothingListed == <<>> \in Seq(Server) /\ ToSet(<<>>) = {}
BY DEF ToSet

\* The servers a website gets are a list of servers.
LEMMA AddedIsAList ==
  ASSUME PlacementsAndBuilds, NEW p \in Placements, NEW a \in Added(p)
  PROVE  a \in Seq(Server)
<1> DEFINE S == ToSet(p) \ Targets
<1>1. S \subseteq Server /\ IsFiniteSet(S)
  BY ListParts, FS_Subset DEF PlacementsAndBuilds
<1>2. PICK n \in Nat : n = Cardinality(S)  BY <1>1, FS_CardinalityType
<1>3. a \in [1 .. n -> S]  BY <1>2 DEF Added, SetToSeqs
<1>4. a \in [1 .. n -> Server]  BY <1>1, <1>3
<1> QED  BY <1>4

-----------------------------------------------------------------------------
(* Releases and builds.                                                     *)

\* Pruning takes whole releases, none that is live and none of the newest.
LEMMA PrunedReleases ==
  ASSUME PlacementsAndBuilds, NEW rs \in RelType, NEW live
  PROVE  /\ Pruned(rs, live) \in RelType
         /\ \A r \in Releases :
              /\ Pruned(rs, live)[r] \in {rs[r], NotMade}
              /\ r \in live => Pruned(rs, live)[r] = rs[r]
              /\ (\A n \in Releases : n > r => ~rs[n].there) => Pruned(rs, live)[r] = rs[r]
<1>1. NotMade \in [there : BOOLEAN, pinned : BOOLEAN, built : Stored \cup {None}]  BY DEF NotMade
<1>2. Pruned(rs, live) \in RelType  BY <1>1 DEF Pruned, RelType
<1>3. ASSUME NEW r \in Releases, \A n \in Releases : n > r => ~rs[n].there
      PROVE  Pruned(rs, live)[r] = rs[r]
  <2>1. {n \in Releases : n > r /\ rs[n].there} = {}  BY <1>3
  <2>2. Cardinality({n \in Releases : n > r /\ rs[n].there}) = 0  BY <2>1, FS_EmptySet
  <2>3. ~(0 >= Keep)  BY DEF PlacementsAndBuilds
  <2> QED  BY <2>2, <2>3 DEF Pruned
<1> QED  BY <1>2, <1>3 DEF Pruned

LEMMA ReleaseParts ==
  ASSUME TypeOK, NEW r \in Releases
  PROVE  /\ rel[r] \in [there : BOOLEAN, pinned : BOOLEAN, built : Stored \cup {None}]
         /\ rel[r].there \in BOOLEAN /\ rel[r].built \in Stored \cup {None}
BY DEF TypeOK, RelType

\* A build that can be used is of the release, and made with the website's variables.
LEMMA UsableBuild ==
  ASSUME PlacementsAndBuilds, TypeOK, BuildsFit, NEW r \in Releases
  PROVE  /\ Usable(r) \in Builds \cup {None}
         /\ Usable(r) # None => /\ Usable(r).release = r
                                /\ rel[r].built.touched \/ Usable(r).env = site.env
<1>1. CASE rel[r].built = None  BY <1>1 DEF Usable
<1>2. CASE rel[r].built # None
  <2>1. rel[r].built \in Stored  BY <1>2, ReleaseParts
  <2> QED  BY <1>2, <2>1 DEF Usable, BuildsFit, Stored
<1> QED  BY <1>1, <1>2

\* Forgetting a stored build leaves the releases.
LEMMA ForgottenBuild ==
  ASSUME TypeOK, NEW r \in Releases
  PROVE  /\ Forgotten(r) \in RelType
         /\ \A n \in Releases : /\ Forgotten(r)[n].there = rel[n].there
                                /\ Forgotten(r)[n].built \in {rel[n].built, None}
<1>1. rel \in RelType  BY DEF TypeOK
<1>2. ASSUME NEW n \in Releases
      PROVE  rel[n] \in [there : BOOLEAN, pinned : BOOLEAN, built : Stored \cup {None}]
  BY <1>1 DEF RelType
<1> DEFINE f == [rel EXCEPT ![r].built = None]
<1>3. f \in RelType  BY <1>1, <1>2 DEF RelType
<1>4. ASSUME NEW n \in Releases
      PROVE  f[n].there = rel[n].there /\ f[n].built \in {rel[n].built, None}
  BY <1>1, <1>2 DEF RelType
<1> QED  BY <1>1, <1>3, <1>4 DEF Forgotten

-----------------------------------------------------------------------------
(* Steps that do not touch the job.                                         *)

SiteParts == /\ site.there \in BOOLEAN /\ site.servers \in Placements /\ site.env \in Envs /\ site.deleting \in BOOLEAN
             /\ site.current \in 0 .. MaxReleases /\ site.previous \in 0 .. MaxReleases
JobParts == /\ job.kind \in Kinds /\ job.phase \in Phases /\ job.release \in 0 .. MaxReleases
            /\ job.todo \in Seq(Server) /\ job.ship \in Builds \cup {None} /\ job.package \in BOOLEAN
            /\ job.fp \in Envs \cup {None} /\ job.spec \in Envs \cup {None}
            /\ job.added \in Seq(Server) /\ job.removed \subseteq Server

LEMMA Parts ==
  ASSUME PlacementsAndBuilds, TypeOK
  PROVE  /\ SiteParts /\ JobParts
         /\ site.servers \in Seq(Server) /\ Targets \subseteq Server /\ Left \subseteq Server
         /\ MaxReleases \in Nat /\ Keep \in Nat /\ None \notin Envs /\ None \notin Builds /\ None \notin Stored
<1>1. SiteParts /\ JobParts  BY DEF TypeOK, SiteType, JobType, SiteParts, JobParts
<1>2. site.servers \in Seq(Server) /\ MaxReleases \in Nat /\ Keep \in Nat
      /\ None \notin Envs /\ None \notin Builds /\ None \notin Stored
  BY <1>1 DEF SiteParts, PlacementsAndBuilds, Stored
<1>3. Targets \subseteq Server /\ Left \subseteq Server
  BY <1>1, <1>2, ListParts DEF JobParts, Left, Targets
<1> QED  BY <1>1, <1>2, <1>3

\* A new release, whether it was uploaded or pulled: what is live and the new one stay, and
\* all releases are still numbered up to the newest.
LEMMA NewRelease ==
  ASSUME PlacementsAndBuilds, TypeOK, ReleasesKept, BuildsFit, made < MaxReleases, made' = made + 1,
         rel' = Pruned([rel EXCEPT ![made + 1] = [NotMade EXCEPT !.there = TRUE]], Live)
  PROVE  /\ rel' \in RelType /\ made' \in 0 .. MaxReleases /\ made' \in Releases
         /\ rel'[made'].there
         /\ \A r \in Releases : r > made' => ~rel'[r].there
         /\ \A r \in Live : r \in Releases /\ rel[r].there => rel'[r].there
         /\ \A r \in Releases : rel'[r].built # None => rel'[r].built = rel[r].built
<1> DEFINE new == [NotMade EXCEPT !.there = TRUE]
           rs == [rel EXCEPT ![made + 1] = new]
<1>1. made \in Nat /\ made + 1 \in Releases /\ made' \in 0 .. MaxReleases
  BY Parts DEF TypeOK, Releases
<1>2. new \in [there : BOOLEAN, pinned : BOOLEAN, built : Stored \cup {None}] /\ new.there /\ new.built = None
  BY DEF NotMade
<1>3. rel \in RelType /\ rs \in RelType  BY <1>1, <1>2 DEF TypeOK, RelType
<1>4. rs[made + 1] = new /\ \A r \in Releases : r # made + 1 => rs[r] = rel[r]
  BY <1>1, <1>3 DEF RelType
<1>5. \A r \in Releases : r > made + 1 => ~rs[r].there
  BY <1>1, <1>4 DEF ReleasesKept, Releases
<1>6. /\ rel' \in RelType
      /\ \A r \in Releases :
           /\ rel'[r] \in {rs[r], NotMade}
           /\ r \in Live => rel'[r] = rs[r]
           /\ (\A n \in Releases : n > r => ~rs[n].there) => rel'[r] = rs[r]
  <2>1. rel' = Pruned(rs, Live)  OBVIOUS
  <2> HIDE DEF rs
  <2>2. /\ Pruned(rs, Live) \in RelType
        /\ \A r \in Releases :
             /\ Pruned(rs, Live)[r] \in {rs[r], NotMade}
             /\ r \in Live => Pruned(rs, Live)[r] = rs[r]
             /\ (\A n \in Releases : n > r => ~rs[n].there) => Pruned(rs, Live)[r] = rs[r]
    BY <1>3, PrunedReleases
  <2> QED  BY <2>1, <2>2
<1>7. rel'[made + 1] = rs[made + 1]  BY <1>1, <1>5, <1>6
<1>8. NotMade.there = FALSE /\ NotMade.built = None  BY DEF NotMade
<1> HIDE DEF rs, new
<1> QED  BY <1>1, <1>2, <1>3, <1>4, <1>5, <1>6, <1>7, <1>8

\* The job, the disks and the website's placement as they were.
LEMMA StaysInProgress ==
  ASSUME Progress, JobFits,
         job' = job, disk' = disk, site'.servers = site.servers, placed' = placed
  PROVE  JobFits' /\ Progress'
<1>1. JobFits'  BY DEF JobFits
<1>2. Progress'  BY DEF Progress, Targets, Left
<1> QED  BY <1>1, <1>2

LEMMA UploadKeeps ==
  ASSUME PlacementsAndBuilds, Inv, Upload
  PROVE  Inv'
<1> USE DEF Inv
<1>1. SiteParts /\ JobParts  BY Parts
<1>2. /\ rel' \in RelType /\ made' \in 0 .. MaxReleases
      /\ \A r \in Releases : r > made' => ~rel'[r].there
      /\ \A r \in Live : r \in Releases /\ rel[r].there => rel'[r].there
      /\ \A r \in Releases : rel'[r].built # None => rel'[r].built = rel[r].built
  BY NewRelease DEF Upload
<1>3. lost' = lost \cup {r \in Underway : r # 0 /\ ~rel'[r].there}  BY DEF Upload, Lose
<1>4. Underway \subseteq 0 .. MaxReleases  BY <1>1 DEF Underway, JobParts
<1>5. TypeOK'  BY <1>2, <1>3, <1>4 DEF TypeOK, Upload, tree, counters, Releases
<1>6. ReleasesKept'
  <2>1. KeptForRollback'
    <3> SUFFICES ASSUME NEW r \in {site.current, site.previous}, r # 0
                 PROVE  rel'[r].there \/ r \in lost'
      BY DEF KeptForRollback, Upload
    <3>1. r \in Releases /\ r \in Live  BY <1>1 DEF SiteParts, Releases, Live
    <3>2. rel[r].there \/ r \in lost  BY DEF ReleasesKept, KeptForRollback
    <3> QED  BY <3>1, <3>2, <1>2, <1>3
  <2>2. job.phase \in WithRelease => job.release \in Underway
    BY DEF JobFits, Phase, Underway, Busy, WithRelease
  <2>3. job'.phase \in WithRelease => rel'[job'.release].there \/ job'.release \in lost'
    BY <2>2, <1>3 DEF JobFits, Upload
  <2> QED  BY <2>1, <2>3, <1>2 DEF ReleasesKept
<1>7. BuildsFit'  BY <1>2 DEF BuildsFit, Upload, Sent
<1> QED  BY <1>5, <1>6, <1>7, StaysInProgress DEF Upload, tree

LEMMA PinKeeps ==
  ASSUME PlacementsAndBuilds, Inv, NEW p \in Releases, Pin(p)
  PROVE  Inv'
<1> USE DEF Inv
<1> DEFINE rs == [rel EXCEPT ![p].pinned = ~@]
<1>1. SiteParts /\ JobParts  BY Parts
<1>2. rel \in RelType /\ rs \in RelType
      /\ \A r \in Releases : rs[r].there = rel[r].there /\ rs[r].built = rel[r].built
  <2>1. \A r \in Releases : rel[r] \in [there : BOOLEAN, pinned : BOOLEAN, built : Stored \cup {None}]
    BY ReleaseParts
  <2>2. rel \in RelType  BY DEF TypeOK
  <2> QED  BY <2>1, <2>2 DEF RelType
<1>3. /\ rel' \in RelType
      /\ \A r \in Releases : rel'[r] \in {rs[r], NotMade} /\ (r \in Live => rel'[r] = rs[r])
  <2>1. rel' = Pruned(rs, Live)  BY DEF Pin
  <2> HIDE DEF rs
  <2> QED  BY <2>1, <1>2, PrunedReleases
<1>4. NotMade.there = FALSE /\ NotMade.built = None  BY DEF NotMade
<1> HIDE DEF rs
<1>5. lost' = lost \cup {r \in Underway : r # 0 /\ ~rel'[r].there}  BY DEF Pin, Lose
<1>6. Underway \subseteq 0 .. MaxReleases  BY <1>1 DEF Underway, JobParts
<1>7. TypeOK'  BY <1>3, <1>5, <1>6 DEF TypeOK, Pin, tree, Releases
<1>8. ReleasesKept'
  <2>1. KeptForRollback'
    <3> SUFFICES ASSUME NEW r \in {site.current, site.previous}, r # 0
                 PROVE  rel'[r].there \/ r \in lost'
      BY DEF KeptForRollback, Pin
    <3>1. r \in Releases /\ r \in Live  BY <1>1 DEF SiteParts, Releases, Live
    <3>2. rel[r].there \/ r \in lost  BY DEF ReleasesKept, KeptForRollback
    <3> QED  BY <3>1, <3>2, <1>2, <1>3, <1>5
  <2>2. job.phase \in WithRelease => job.release \in Underway
    BY DEF JobFits, Phase, Underway, Busy, WithRelease
  <2>3. job'.phase \in WithRelease => rel'[job'.release].there \/ job'.release \in lost'
    BY <2>2, <1>5 DEF JobFits, Pin
  <2>4. \A r \in Releases : r > made' => ~rel'[r].there
    BY <1>2, <1>3, <1>4 DEF ReleasesKept, Pin
  <2> QED  BY <2>1, <2>3, <2>4 DEF ReleasesKept
<1>9. BuildsFit'
  <2>1. \A r \in Releases : rel'[r].built # None => rel'[r].built = rel[r].built  BY <1>2, <1>3, <1>4
  <2>2. job' = job /\ touched' = touched /\ site' = site  BY DEF Pin
  <2> QED  BY <2>1, <2>2 DEF BuildsFit, Sent
<1> QED  BY <1>7, <1>8, <1>9, StaysInProgress DEF Pin, tree

LEMMA DeleteReleaseKeeps ==
  ASSUME PlacementsAndBuilds, Inv, NEW d \in Releases, DeleteRelease(d)
  PROVE  Inv'
<1> USE DEF Inv
<1>1. SiteParts /\ JobParts  BY Parts
<1>2. NotMade \in [there : BOOLEAN, pinned : BOOLEAN, built : Stored \cup {None}]
      /\ NotMade.there = FALSE /\ NotMade.built = None
  BY DEF NotMade
<1>3. /\ rel' \in RelType /\ rel'[d] = NotMade
      /\ \A r \in Releases : r # d => rel'[r] = rel[r]
  BY <1>2 DEF TypeOK, RelType, DeleteRelease
<1>4. /\ site' \in SiteType /\ site'.servers = site.servers /\ site'.env = site.env /\ site'.current = site.current
      /\ site'.previous = IF site.previous = d THEN 0 ELSE site.previous
  <2>1. site \in SiteType /\ 0 \in 0 .. MaxReleases  BY Parts DEF TypeOK
  <2>2. site' = [site EXCEPT !.previous = IF site.previous = d THEN 0 ELSE site.previous]  BY DEF DeleteRelease
  <2>3. (IF site.previous = d THEN 0 ELSE site.previous) \in 0 .. MaxReleases  BY <1>1, <2>1 DEF SiteParts
  <2> QED  BY <2>1, <2>2, <2>3 DEF SiteType
<1>5. lost' = lost \cup {r \in Underway : r # 0 /\ ~rel'[r].there}  BY DEF DeleteRelease, Lose
<1>6. Underway \subseteq 0 .. MaxReleases  BY <1>1 DEF Underway, JobParts
<1>7. TypeOK'  BY <1>3, <1>4, <1>5, <1>6 DEF TypeOK, DeleteRelease, tree, Releases
<1>8. ReleasesKept'
  <2>1. KeptForRollback'
    BY <1>1, <1>3, <1>4, <1>5 DEF ReleasesKept, KeptForRollback, DeleteRelease, SiteParts, Releases
  <2>2. job.phase \in WithRelease => job.release \in Underway
    BY DEF JobFits, Phase, Underway, Busy, WithRelease
  <2>3. job'.phase \in WithRelease => rel'[job'.release].there \/ job'.release \in lost'
    BY <2>2, <1>5 DEF JobFits, DeleteRelease
  <2>4. \A r \in Releases : r > made' => ~rel'[r].there
    BY <1>2, <1>3 DEF ReleasesKept, DeleteRelease
  <2> QED  BY <2>1, <2>3, <2>4 DEF ReleasesKept
<1>9. BuildsFit'  BY <1>2, <1>3, <1>4 DEF BuildsFit, DeleteRelease, Sent
<1> QED  BY <1>4, <1>7, <1>8, <1>9, StaysInProgress DEF DeleteRelease, tree

-----------------------------------------------------------------------------
(* A job begins, and a job is over.                                         *)

\* A job that was just asked for has nothing to ship, nothing under way, and nobody to
\* take the website off unless it is a change of the placement.
LEMMA FreshJob ==
  ASSUME PlacementsAndBuilds, NEW kind \in Kinds, NEW phase \in Phase(kind), NEW r \in 0 .. MaxReleases,
         phase \in WithRelease => r # 0, phase = "pull" => r = 0,
         phase \notin {"deploy", "sent", "front", "clear", "snap"},
         job' = Job(kind, phase, r)
  PROVE  job' \in JobType /\ JobFits' /\ (site'.servers = site.servers => Progress')
         /\ job'.phase = phase /\ job'.release = r /\ ~job'.package
<1>1. None \notin Envs /\ None \notin Builds  BY DEF PlacementsAndBuilds
<1>2. kind \in {"none", "deploy", "rollback", "place", "env", "remove"}  BY DEF Kinds
<1>3. phase \in Phases  BY <1>2 DEF Phase, Phases
<1>4. /\ job' = [kind |-> kind, phase |-> phase, release |-> r, todo |-> <<>>, ship |-> None, package |-> FALSE,
                 fp |-> None, spec |-> None, added |-> <<>>, removed |-> {}]
  BY DEF Job, Idle
<1>5. job' \in JobType  BY <1>3, <1>4, NothingListed DEF JobType
<1>6. JobFits'
  <2>1. /\ job'.kind = kind /\ job'.phase = phase /\ job'.release = r /\ job'.todo = <<>>
        /\ job'.ship = None /\ job'.package = FALSE
    BY <1>4
  <2>2. job'.phase \in Phase(job'.kind)  BY <2>1
  <2> QED  BY <2>1, <2>2 DEF JobFits, WithRelease
<1>7. Progress'  BY <1>4 DEF Progress
<1> QED  BY <1>4, <1>5, <1>6, <1>7

\* No job at all.
LEMMA NoJobLeft ==
  ASSUME PlacementsAndBuilds, job' = Idle
  PROVE  job' \in JobType /\ JobFits' /\ Progress'
         /\ job'.phase = "none" /\ job'.kind = "none" /\ ~job'.package
<1>1. /\ job' = [kind |-> "none", phase |-> "none", release |-> 0, todo |-> <<>>, ship |-> None, package |-> FALSE,
                 fp |-> None, spec |-> None, added |-> <<>>, removed |-> {}]
  BY DEF Idle
<1>2. MaxReleases \in Nat  BY DEF PlacementsAndBuilds
<1>3. job' \in JobType  BY <1>1, <1>2, NothingListed DEF JobType, Kinds, Phases
<1>4. JobFits'  BY <1>1 DEF JobFits, Phase, WithRelease
<1>5. Progress'  BY <1>1 DEF Progress
<1> QED  BY <1>1, <1>3, <1>4, <1>5

LEMMA NoEndIsAnEnd == PlacementsAndBuilds => NoEnd \in LastType
BY DEF PlacementsAndBuilds, NoEnd, LastType, Kinds

\* What is left of the invariant when a job ends and releases stay: the releases of the website.
LEMMA EndKeeps ==
  ASSUME PlacementsAndBuilds, Inv, job' = Idle, rel' = rel, made' = made, lost' = lost, site' = site
  PROVE  job' \in JobType /\ JobFits' /\ Progress' /\ ReleasesKept' /\ BuildsFit'
<1>1. job' \in JobType /\ JobFits' /\ Progress' /\ job'.phase = "none" /\ ~job'.package  BY NoJobLeft
<1>2. ReleasesKept'  BY <1>1 DEF Inv, ReleasesKept, KeptForRollback, WithRelease
<1>3. BuildsFit'  BY <1>1 DEF Inv, BuildsFit
<1> QED  BY <1>1, <1>2, <1>3

\* ... and when one begins.
LEMMA OrderKeeps ==
  ASSUME PlacementsAndBuilds, Inv, rel' = rel, made' = made, lost' = lost,
         site'.current = site.current, site'.previous = site.previous,
         ~job'.package, job'.phase \in WithRelease => rel[job'.release].there \/ job'.release \in lost
  PROVE  ReleasesKept' /\ BuildsFit'
<1>1. ReleasesKept'  BY DEF Inv, ReleasesKept, KeptForRollback
<1>2. BuildsFit'  BY DEF Inv, BuildsFit
<1> QED  BY <1>1, <1>2

LEMMA OrderDeployKeeps ==
  ASSUME PlacementsAndBuilds, Inv, NEW r \in Releases, OrderDeploy(r)
  PROVE  Inv'
<1>1. job' = Job("deploy", "queued", r) /\ last' = NoEnd /\ placed' = FALSE  BY DEF OrderDeploy, Ask
<1>2. r \in 0 .. MaxReleases /\ r # 0  BY DEF PlacementsAndBuilds, Releases
<1>3. job' \in JobType /\ JobFits' /\ Progress' /\ job'.phase = "queued" /\ job'.release = r /\ ~job'.package
  BY <1>1, <1>2, FreshJob DEF Phase, Kinds, WithRelease, OrderDeploy
<1>4. ReleasesKept' /\ BuildsFit'  BY <1>3, OrderKeeps DEF OrderDeploy
<1>5. TypeOK'  BY <1>1, <1>3, NoEndIsAnEnd DEF Inv, TypeOK, OrderDeploy, tree
<1> QED  BY <1>3, <1>4, <1>5 DEF Inv

LEMMA OrderPullKeeps ==
  ASSUME PlacementsAndBuilds, Inv, OrderPull
  PROVE  Inv'
<1>1. job' = Job("deploy", "pull", 0) /\ last' = NoEnd /\ placed' = FALSE  BY DEF OrderPull, Ask
<1>2. 0 \in 0 .. MaxReleases  BY DEF PlacementsAndBuilds
<1>3. job' \in JobType /\ JobFits' /\ Progress' /\ job'.phase = "pull" /\ ~job'.package
  BY <1>1, <1>2, FreshJob DEF Phase, Kinds, WithRelease, OrderPull
<1>4. ReleasesKept' /\ BuildsFit'  BY <1>3, OrderKeeps DEF OrderPull, WithRelease
<1>5. TypeOK'  BY <1>1, <1>3, NoEndIsAnEnd DEF Inv, TypeOK, OrderPull, tree
<1> QED  BY <1>3, <1>4, <1>5 DEF Inv

LEMMA OrderRollbackKeeps ==
  ASSUME PlacementsAndBuilds, Inv, OrderRollback
  PROVE  Inv'
<1>1. job' = Job("rollback", "decide", site.previous) /\ last' = NoEnd /\ placed' = FALSE
      /\ site.previous # 0 /\ site.previous \in 0 .. MaxReleases
  BY Parts DEF Inv, SiteParts, OrderRollback, Ask
<1>2. job' \in JobType /\ JobFits' /\ Progress' /\ job'.phase = "decide" /\ job'.release = site.previous /\ ~job'.package
  BY <1>1, FreshJob DEF Phase, Kinds, WithRelease, OrderRollback
<1>3. rel[site.previous].there \/ site.previous \in lost  BY <1>1 DEF Inv, ReleasesKept, KeptForRollback
<1>4. ReleasesKept' /\ BuildsFit'  BY <1>2, <1>3, OrderKeeps DEF OrderRollback
<1>5. TypeOK'  BY <1>1, <1>2, NoEndIsAnEnd DEF Inv, TypeOK, OrderRollback, tree
<1> QED  BY <1>2, <1>4, <1>5 DEF Inv

LEMMA OrderRemovalKeeps ==
  ASSUME PlacementsAndBuilds, Inv, OrderRemoval
  PROVE  Inv'
<1>1. job' = Job("remove", "remove", 0) /\ last' = NoEnd /\ placed' = FALSE  BY DEF OrderRemoval, Ask
<1>2. 0 \in 0 .. MaxReleases  BY DEF PlacementsAndBuilds
<1>3. /\ site' \in SiteType /\ site'.servers = site.servers
      /\ site'.current = site.current /\ site'.previous = site.previous
  BY DEF Inv, TypeOK, SiteType, OrderRemoval
<1>4. job' \in JobType /\ JobFits' /\ Progress' /\ job'.phase = "remove" /\ ~job'.package
  BY <1>1, <1>2, <1>3, FreshJob DEF Phase, Kinds, WithRelease
<1>5. ReleasesKept' /\ BuildsFit'  BY <1>3, <1>4, OrderKeeps DEF OrderRemoval, WithRelease
<1>6. TypeOK'  BY <1>1, <1>3, <1>4, NoEndIsAnEnd DEF Inv, TypeOK, OrderRemoval, tree
<1> QED  BY <1>4, <1>5, <1>6 DEF Inv

LEMMA SaveEnvKeeps ==
  ASSUME PlacementsAndBuilds, Inv, NEW e \in Envs, SaveEnv(e)
  PROVE  Inv'
<1>1. /\ site' \in SiteType /\ site'.servers = site.servers
      /\ site'.current = site.current /\ site'.previous = site.previous
  BY DEF Inv, TypeOK, SiteType, SaveEnv
<1>2. touched' = (touched \/ job.phase \in {"deploy", "sent"}) /\ touched' \in BOOLEAN
  BY DEF SaveEnv, Inv, TypeOK
<1>3. CASE Deployed /\ ~Busy
  <2>1. job' = Job("env", "env", 0) /\ last' = NoEnd /\ placed' = FALSE  BY <1>3 DEF SaveEnv, Ask
  <2>2. 0 \in 0 .. MaxReleases  BY DEF PlacementsAndBuilds
  <2>3. job' \in JobType /\ JobFits' /\ Progress' /\ job'.phase = "env" /\ ~job'.package
    BY <1>1, <2>1, <2>2, FreshJob DEF Phase, Kinds, WithRelease
  <2>4. ReleasesKept' /\ BuildsFit'  BY <1>1, <2>3, OrderKeeps DEF SaveEnv, WithRelease
  <2>5. TypeOK'  BY <1>1, <1>2, <2>1, <2>3, NoEndIsAnEnd DEF Inv, TypeOK, SaveEnv, tree
  <2> QED  BY <2>3, <2>4, <2>5 DEF Inv
<1>4. CASE ~(Deployed /\ ~Busy)
  <2>1. job' = job /\ last' = last /\ placed' = placed  BY <1>4 DEF SaveEnv
  <2>2. TypeOK'  BY <1>1, <1>2, <2>1 DEF Inv, TypeOK, SaveEnv, tree
  <2>3. ReleasesKept'  BY <1>1, <2>1 DEF Inv, ReleasesKept, KeptForRollback, SaveEnv
  <2>4. job.package => job.phase \in {"deploy", "sent"}  BY DEF Inv, JobFits
  <2>5. BuildsFit'  BY <1>2, <2>1, <2>4 DEF Inv, BuildsFit, SaveEnv
  <2> QED  BY <1>1, <2>1, <2>2, <2>3, <2>5, StaysInProgress DEF Inv, SaveEnv, tree
<1> QED  BY <1>3, <1>4

LEMMA PlaceKeeps ==
  ASSUME PlacementsAndBuilds, Inv, NEW p \in Placements, Place(p)
  PROVE  Inv'
<1>1. /\ site' \in SiteType /\ site'.servers = p /\ site'.env = site.env
      /\ site'.current = site.current /\ site'.previous = site.previous
  BY DEF Inv, TypeOK, SiteType, Place
<1>2. CASE Deployed
  <2>1. PICK a \in Added(p) :
          /\ job' = [Job("place", "plan", 0) EXCEPT !.added = a, !.removed = Targets \ ToSet(p)]
          /\ last' = NoEnd /\ placed' = FALSE
    BY <1>2 DEF Place, Ask
  <2>2. a \in Seq(Server)  BY AddedIsAList
  <2>3. MaxReleases \in Nat /\ Targets \subseteq Server  BY Parts DEF Inv
  <2>4. job' = [kind |-> "place", phase |-> "plan", release |-> 0, todo |-> <<>>, ship |-> None, package |-> FALSE,
                fp |-> None, spec |-> None, added |-> a, removed |-> Targets \ ToSet(p)]
    BY <2>1 DEF Job, Idle
  <2>5. job' \in JobType  BY <2>2, <2>3, <2>4, NothingListed DEF JobType, Kinds, Phases
  <2>6. JobFits'  BY <2>4 DEF JobFits, Phase, WithRelease
  <2>7. Progress'  BY <2>4, <1>1 DEF Progress, Targets
  <2>8. ReleasesKept' /\ BuildsFit'  BY <1>1, <2>4, OrderKeeps DEF Place, WithRelease
  <2>9. TypeOK'  BY <1>1, <2>1, <2>5, NoEndIsAnEnd DEF Inv, TypeOK, Place, tree
  <2> QED  BY <2>5, <2>6, <2>7, <2>8, <2>9 DEF Inv
<1>3. CASE ~Deployed
  <2>1. job' = job /\ last' = last /\ placed' = Busy  BY <1>3 DEF Place
  <2>2. TypeOK'  BY <1>1, <2>1 DEF Inv, TypeOK, Place, tree, Busy
  <2>3. ReleasesKept'  BY <1>1, <2>1 DEF Inv, ReleasesKept, KeptForRollback, Place
  <2>4. BuildsFit'  BY <1>1, <2>1 DEF Inv, BuildsFit, Place, Sent
  <2>5. JobFits'  BY <2>1 DEF Inv, JobFits
  <2>6. Progress'  BY <2>1 DEF Inv, Progress, Busy, JobFits, Phase
  <2> QED  BY <2>2, <2>3, <2>4, <2>5, <2>6 DEF Inv
<1> QED  BY <1>2, <1>3

\* Steps that end the job, and do no more than change what is on a server.
LEMMA JobFails ==
  ASSUME PlacementsAndBuilds, Inv, Fails, UNCHANGED <<site, rel, made, state, front, placed, lost>>, touched' \in BOOLEAN,
         disk' \in [Server -> Builds \cup {None}], snap' \in [Server -> Builds \cup {None}]
  PROVE  Inv'
<1>1. job' \in JobType /\ JobFits' /\ Progress' /\ ReleasesKept' /\ BuildsFit'
  BY EndKeeps DEF Fails, Ends
<1>2. TypeOK'  BY <1>1, NoEndIsAnEnd DEF Inv, TypeOK, Fails, Ends
<1> QED  BY <1>1, <1>2 DEF Inv

-----------------------------------------------------------------------------
(* Deploying.                                                               *)

\* The plan of a deploy: everything is left to do, and a build is shipped only if it can be used.
LEMMA PlanKeeps ==
  ASSUME PlacementsAndBuilds, Inv, NEW j \in JobType, NEW r \in Releases,
         j.kind \in {"deploy", "place"}, job' = Planned(j, r), rel' = Forgotten(r),
         rel[r].there \/ r \in lost, j.kind = "place" /\ ~placed => j.removed \cap Targets = {},
         touched' = FALSE, UNCHANGED <<site, made, state, disk, snap, front, last, placed, lost>>
  PROVE  Inv'
<1>1. SiteParts /\ site.servers \in Seq(Server) /\ MaxReleases \in Nat /\ None \notin Envs  BY Parts DEF Inv
<1>2. /\ Usable(r) \in Builds \cup {None}
      /\ Usable(r) # None => Usable(r).release = r
  BY UsableBuild DEF Inv
<1> DEFINE ship == IF BuildsOnce THEN Usable(r) ELSE None
           package == BuildsOnce /\ Usable(r) = None
<1>3. job' = [kind |-> j.kind, phase |-> "deploy", release |-> r, todo |-> site.servers, ship |-> ship,
              package |-> package, fp |-> site.env, spec |-> j.spec, added |-> j.added, removed |-> j.removed]
  BY DEF Planned, JobType
<1>4. ship \in Builds \cup {None} /\ package \in BOOLEAN /\ (package => ship = None /\ site.servers # <<>>)
      /\ (ship # None => ship.release = r)
  BY <1>2 DEF BuildsOnce
<1> HIDE DEF ship, package
<1>5. r \in 0 .. MaxReleases /\ r # 0  BY <1>1 DEF Releases
<1>6. job' \in JobType  BY <1>1, <1>3, <1>4, <1>5 DEF JobType, SiteParts, Phases
<1>7. JobFits'  BY <1>1, <1>3, <1>4, <1>5 DEF JobFits, Phase, WithRelease, SiteParts
<1>8. /\ rel' \in RelType
      /\ \A n \in Releases : rel'[n].there = rel[n].there /\ rel'[n].built \in {rel[n].built, None}
  BY ForgottenBuild DEF Inv
<1>9. TypeOK'  BY <1>6, <1>8 DEF Inv, TypeOK
<1>10. ReleasesKept'
  <2>1. KeptForRollback'
    <3> SUFFICES ASSUME NEW n \in {site.current, site.previous}, n # 0
                 PROVE  rel'[n].there \/ n \in lost'
      BY DEF KeptForRollback
    <3>1. n \in Releases  BY <1>1 DEF SiteParts, Releases
    <3> QED  BY <3>1, <1>8 DEF Inv, ReleasesKept, KeptForRollback
  <2>2. \A n \in Releases : n > made' => ~rel'[n].there  BY <1>8 DEF Inv, ReleasesKept
  <2>3. rel'[job'.release].there \/ job'.release \in lost'  BY <1>3, <1>8
  <2> QED  BY <2>1, <2>2, <2>3 DEF ReleasesKept
<1>11. BuildsFit'
  <2>1. \A n \in Releases : rel'[n].built # None => rel'[n].built = rel[n].built  BY <1>8
  <2>2. job'.fp = site'.env /\ job'.phase # "sent"  BY <1>3
  <2> QED  BY <2>1, <2>2 DEF Inv, BuildsFit, Sent
<1>12. Progress'
  <2>1. job'.todo = site'.servers /\ job'.phase = "deploy" /\ job'.kind = j.kind /\ job'.removed = j.removed
    BY <1>3
  <2>2. Left' = Targets' /\ Targets' = Targets  BY <2>1 DEF Left, Targets
  <2> QED  BY <2>1, <2>2 DEF Progress
<1> QED  BY <1>7, <1>9, <1>10, <1>11, <1>12 DEF Inv

\* By the phase of a job one knows what it is.
LEMMA PhaseTells ==
  ASSUME JobFits, job.kind \in Kinds
  PROVE  /\ job.phase \in {"pull", "queued"} => job.kind = "deploy"
         /\ job.phase \in {"decide", "snap"} => job.kind = "rollback"
         /\ job.phase \in {"plan", "clear"} => job.kind = "place"
         /\ job.phase \in {"deploy", "sent"} => job.kind \in {"deploy", "place"}
         /\ job.phase = "remove" => job.kind = "remove"
         /\ job.phase = "front" => job.kind \in {"deploy", "rollback", "place"}
BY DEF JobFits, Phase, Kinds

LEMMA PullEndsKeeps ==
  ASSUME PlacementsAndBuilds, Inv, PullEnds
  PROVE  Inv'
<1>1. JobParts /\ SiteParts /\ None \notin Builds /\ MaxReleases \in Nat  BY Parts DEF Inv
<1>2. CASE Fails
  <2>1. UNCHANGED <<rel, made>> \/ (made < MaxReleases /\ job' = [job EXCEPT !.phase = "queued", !.release = made + 1])
    BY DEF PullEnds
  <2>2. job' = Idle  BY <1>2 DEF Fails, Ends
  <2>3. CASE UNCHANGED <<rel, made>>
    BY <1>2, <2>3, JobFails DEF PullEnds, tree, history, Inv, TypeOK
  <2>4. CASE made < MaxReleases /\ job' = [job EXCEPT !.phase = "queued", !.release = made + 1]
    <3>1. job'.phase = "queued" /\ Idle.phase = "none"  BY <2>4 DEF Inv, TypeOK, JobType, Idle
    <3> QED  BY <3>1, <2>2
  <2> QED  BY <2>1, <2>3, <2>4
<1>3. CASE ~Fails
  <2>1. /\ job.phase = "pull" /\ made < MaxReleases /\ made' = made + 1
        /\ rel' = Pruned([rel EXCEPT ![made + 1] = [NotMade EXCEPT !.there = TRUE]], Live)
        /\ job' = [job EXCEPT !.phase = "queued", !.release = made + 1] /\ last' = last
    BY <1>3 DEF PullEnds
  <2>2. /\ rel' \in RelType /\ made' \in 0 .. MaxReleases /\ made' \in Releases
        /\ rel'[made'].there
        /\ \A r \in Releases : r > made' => ~rel'[r].there
        /\ \A r \in Live : r \in Releases /\ rel[r].there => rel'[r].there
        /\ \A r \in Releases : rel'[r].built # None => rel'[r].built = rel[r].built
    BY <2>1, NewRelease DEF Inv
  <2>3. job.kind = "deploy"  BY <2>1, <1>1, PhaseTells DEF Inv, JobParts
  <2>4. job.ship = None
    <3>1. job.release = 0 /\ (job.ship # None => job.ship.release = 0 /\ job.ship \in Builds)
      BY <2>1, <1>1 DEF Inv, JobFits, JobParts
    <3> QED  BY <3>1 DEF Builds, Releases
  <2>5. job.todo = <<>> /\ ~job.package  BY <2>1 DEF Inv, JobFits
  <2>6. /\ job' \in JobType /\ job'.kind = "deploy" /\ job'.phase = "queued" /\ job'.release = made'
        /\ job'.todo = <<>> /\ job'.ship = None /\ ~job'.package
    BY <2>1, <2>2, <2>3, <2>4, <2>5 DEF Inv, TypeOK, JobType, Phases
  <2>7. made' # 0  BY <2>2 DEF Releases
  <2>8. JobFits'  BY <2>6, <2>7 DEF JobFits, Phase, WithRelease
  <2>9. Progress'  BY <2>6 DEF Progress
  <2>10. TypeOK'  BY <2>1, <2>2, <2>6 DEF Inv, TypeOK, PullEnds, tree, history
  <2>11. ReleasesKept'
    <3>1. KeptForRollback'
      <4> SUFFICES ASSUME NEW r \in {site.current, site.previous}, r # 0
                   PROVE  rel'[r].there \/ r \in lost'
        BY DEF KeptForRollback, PullEnds
      <4>1. r \in Releases /\ r \in Live  BY <1>1 DEF SiteParts, Releases, Live
      <4>2. rel[r].there \/ r \in lost  BY DEF Inv, ReleasesKept, KeptForRollback
      <4> QED  BY <4>1, <4>2, <2>2 DEF PullEnds, history
    <3> QED  BY <3>1, <2>2, <2>6 DEF ReleasesKept
  <2>12. BuildsFit'  BY <2>2, <2>6 DEF Inv, BuildsFit
  <2> QED  BY <2>8, <2>9, <2>10, <2>11, <2>12 DEF Inv
<1> QED  BY <1>2, <1>3

LEMMA DeployBeginsKeeps ==
  ASSUME PlacementsAndBuilds, Inv, DeployBegins
  PROVE  Inv'
<1>1. JobParts  BY Parts DEF Inv
<1>2. job.phase = "queued" /\ job.kind = "deploy" /\ job.release \in Releases /\ job \in JobType
  BY <1>1, PhaseTells DEF Inv, TypeOK, DeployBegins, JobParts, JobFits, WithRelease, Releases
<1>3. CASE rel[job.release].there
  BY <1>2, <1>3, PlanKeeps DEF DeployBegins, tree
<1>4. CASE ~rel[job.release].there
  BY <1>4, JobFails DEF DeployBegins, tree, Inv, TypeOK
<1> QED  BY <1>3, <1>4

LEMMA ServerBeginsKeeps ==
  ASSUME PlacementsAndBuilds, Inv, ServerBegins
  PROVE  Inv'
<1>1. JobParts /\ SiteParts /\ None \notin Envs  BY Parts DEF Inv
<1>2. CASE ~rel[job.release].there
  BY <1>2, JobFails DEF ServerBegins, tree, history, Inv, TypeOK
<1>3. CASE rel[job.release].there
  <2>1. /\ job.phase = "deploy" /\ job.todo # <<>> /\ last' = last
        /\ job' = [job EXCEPT !.phase = "sent", !.spec = site.env]
    BY <1>3 DEF ServerBegins
  <2>2. job.kind \in {"deploy", "place"}  BY <2>1, <1>1, PhaseTells DEF Inv, JobParts
  <2>3. /\ job' \in JobType /\ job'.phase = "sent" /\ job'.spec = site.env
        /\ job'.kind = job.kind /\ job'.release = job.release /\ job'.todo = job.todo /\ job'.ship = job.ship
        /\ job'.package = job.package /\ job'.fp = job.fp /\ job'.added = job.added /\ job'.removed = job.removed
    BY <2>1, <1>1 DEF Inv, TypeOK, JobType, Phases, SiteParts
  <2>4. JobFits'
    BY <2>1, <2>2, <2>3, <1>1 DEF Inv, JobFits, Phase, WithRelease, SiteParts
  <2>5. TypeOK'  BY <2>1, <2>3 DEF Inv, TypeOK, ServerBegins, tree, history
  <2>6. ReleasesKept'
    BY <2>1, <2>3 DEF Inv, ReleasesKept, KeptForRollback, ServerBegins, history, WithRelease
  <2>7. BuildsFit'  BY <2>1, <2>3 DEF Inv, BuildsFit, ServerBegins, history
  <2>8. Progress'
    <3>1. Left' = Left /\ Targets' = Targets /\ placed' = placed /\ disk' = disk
      BY <2>3 DEF Left, Targets, ServerBegins, tree, history
    <3> QED  BY <3>1, <2>1, <2>3 DEF Inv, Progress
  <2> QED  BY <2>4, <2>5, <2>6, <2>7, <2>8 DEF Inv
<1> QED  BY <1>2, <1>3

\* What is put in place on a server is a build of the job's release, the shipped one if there is one.
LEMMA PutBuild ==
  ASSUME PlacementsAndBuilds, Inv, Sent
  PROVE  /\ Head(job.todo) \in Server /\ Build(Head(job.todo)) \in Builds
         /\ Build(Head(job.todo)).release = job.release
         /\ job.ship # None => Build(Head(job.todo)) = job.ship
         /\ job.ship = None => Build(Head(job.todo)).env = job.spec
         /\ Put(Head(job.todo)) => disk' \in [Server -> Builds \cup {None}] /\ snap' \in [Server -> Builds \cup {None}]
<1> DEFINE s == Head(job.todo)
<1>1. JobParts /\ job.phase = "sent" /\ job.todo # <<>> /\ job.spec # None /\ job.release # 0
  BY Parts DEF Inv, Sent, JobFits, WithRelease
<1>2. s \in Server  BY <1>1, ListParts DEF JobParts
<1> HIDE DEF s
<1>3. job.release \in Releases /\ job.spec \in Envs  BY <1>1, Parts DEF Inv, JobParts, Releases
<1>4. /\ Build(s) \in Builds /\ Build(s).release = job.release
      /\ job.ship # None => Build(s) = job.ship
      /\ job.ship = None => Build(s).env = job.spec
  <2>1. CASE job.ship = None
    <3>1. Build(s) = [release |-> job.release, env |-> job.spec, on |-> s]  BY <2>1 DEF Build
    <3> QED  BY <3>1, <2>1, <1>2, <1>3 DEF Builds
  <2>2. CASE job.ship # None
    <3>1. Build(s) = job.ship  BY <2>2 DEF Build
    <3> QED  BY <3>1, <2>2, <1>1 DEF Inv, JobFits, JobParts
  <2> QED  BY <2>1, <2>2
<1>5. Put(s) => disk' \in [Server -> Builds \cup {None}] /\ snap' \in [Server -> Builds \cup {None}]
  BY <1>2, <1>4 DEF Put, Inv, TypeOK
<1> QED  BY <1>2, <1>4, <1>5 DEF s

LEMMA ServerDeployedKeeps ==
  ASSUME PlacementsAndBuilds, Inv, ServerDeployed
  PROVE  Inv'
<1> DEFINE s == Head(job.todo)
           b == Build(s)
<1>1. JobParts /\ SiteParts /\ None \notin Builds /\ MaxReleases \in Nat
      /\ Sent /\ job.phase = "sent" /\ job.todo # <<>> /\ job.release # 0 /\ job.release \in Releases
  BY Parts DEF Inv, ServerDeployed, Sent, JobFits, WithRelease, JobParts, Releases
<1>2. /\ s \in Server /\ b \in Builds /\ b.release = job.release
      /\ job.ship # None => b = job.ship
      /\ job.ship = None => b.env = job.spec
      /\ disk' \in [Server -> Builds \cup {None}] /\ snap' \in [Server -> Builds \cup {None}]
  BY <1>1, PutBuild DEF ServerDeployed
<1>3. disk' = [disk EXCEPT ![s] = b] /\ state' = [state EXCEPT ![s] = job.release]
      /\ UNCHANGED <<site, made, front, last, placed, touched, lost>>
  BY DEF ServerDeployed, Put, history
<1>4. \/ /\ job.package /\ rel[job.release].there
         /\ rel' = [rel EXCEPT ![job.release].built = [build |-> b, fp |-> job.fp, touched |-> touched]]
         /\ job' = [job EXCEPT !.phase = "deploy", !.todo = Tail(@), !.ship = b, !.package = FALSE]
      \/ /\ rel' = rel /\ job.package
         /\ job' = [job EXCEPT !.phase = "deploy", !.todo = Tail(@), !.package = FALSE]
      \/ /\ rel' = rel /\ ~job.package
         /\ job' = [job EXCEPT !.phase = "deploy", !.todo = Tail(@)]
  BY DEF ServerDeployed, Registered
<1> HIDE DEF s, b
<1>5. /\ Tail(job.todo) \in Seq(Server) /\ Left = {s} \cup ToSet(Tail(job.todo))
  BY <1>1, ListParts DEF JobParts, Left, s
<1>6. job.kind \in {"deploy", "place"}  BY <1>1, PhaseTells DEF Inv, JobParts
<1>7. /\ job'.phase = "deploy" /\ job'.todo = Tail(job.todo) /\ job'.package = FALSE
      /\ job'.kind = job.kind /\ job'.release = job.release /\ job'.fp = job.fp /\ job'.spec = job.spec
      /\ job'.added = job.added /\ job'.removed = job.removed
      /\ job'.ship \in {None, b}
      /\ job'.ship = job.ship \/ (job.package /\ job'.ship = b)
      /\ job' \in JobType
  <2>1. job \in JobType  BY DEF Inv, TypeOK
  <2>2. job.package => job.ship = None  BY DEF Inv, JobFits
  <2>3. job.package \in BOOLEAN /\ job.ship \in {None, b}  BY <1>1, <1>2 DEF JobParts
  <2>4. CASE job' = [job EXCEPT !.phase = "deploy", !.todo = Tail(@), !.ship = b, !.package = FALSE] /\ job.package
    BY <2>1, <2>2, <2>4, <1>2, <1>5 DEF JobType, Phases
  <2>5. CASE job' = [job EXCEPT !.phase = "deploy", !.todo = Tail(@), !.package = FALSE]
    BY <2>1, <2>3, <2>5, <1>2, <1>5 DEF JobType, Phases
  <2>6. CASE job' = [job EXCEPT !.phase = "deploy", !.todo = Tail(@)] /\ ~job.package
    <3>1. job.package = FALSE  BY <2>6, <2>3
    <3> QED  BY <3>1, <2>1, <2>3, <2>6, <1>2, <1>5 DEF JobType, Phases
  <2> QED  BY <1>4, <2>4, <2>5, <2>6
<1>8. /\ rel' \in RelType
      /\ \A n \in Releases : rel'[n].there = rel[n].there
      /\ \A n \in Releases : rel'[n].built # rel[n].built =>
           n = job.release /\ job.package /\ rel'[n].built = [build |-> b, fp |-> job.fp, touched |-> touched]
  <2>1. rel \in RelType  BY DEF Inv, TypeOK
  <2>2. CASE rel' = rel  BY <2>1, <2>2
  <2>3. CASE job.package /\ rel' = [rel EXCEPT ![job.release].built = [build |-> b, fp |-> job.fp, touched |-> touched]]
    <3>1. job.fp \in Envs /\ touched \in BOOLEAN  BY <2>3, <1>1 DEF Inv, JobFits, JobParts, TypeOK
    <3> DEFINE st == [build |-> b, fp |-> job.fp, touched |-> touched]
    <3>2. st \in Stored  BY <3>1, <1>2 DEF Stored
    <3>3. rel' = [rel EXCEPT ![job.release].built = st]  BY <2>3
    <3> HIDE DEF st
    <3>4. \A n \in Releases : rel[n] \in [there : BOOLEAN, pinned : BOOLEAN, built : Stored \cup {None}]
      BY <2>1 DEF RelType
    <3>5. rel' \in RelType  BY <2>1, <3>2, <3>3, <3>4 DEF RelType
    <3>6. /\ \A n \in Releases : rel'[n].there = rel[n].there
          /\ \A n \in Releases : rel'[n].built # rel[n].built => n = job.release /\ rel'[n].built = st
      BY <2>1, <3>3, <3>4, <1>1 DEF RelType
    <3> QED  BY <3>5, <3>6, <2>3 DEF st
  <2> QED  BY <1>4, <2>2, <2>3
<1>9. TypeOK'
  <2>1. state' \in [Server -> 0 .. MaxReleases]  BY <1>1, <1>2, <1>3 DEF Inv, TypeOK, JobParts
  <2> QED  BY <2>1, <1>2, <1>3, <1>7, <1>8 DEF Inv, TypeOK
<1>10. JobFits'  BY <1>1, <1>2, <1>6, <1>7 DEF JobFits, Phase, WithRelease
<1>11. ReleasesKept'
  <2>1. KeptForRollback'
    <3> SUFFICES ASSUME NEW n \in {site.current, site.previous}, n # 0
                 PROVE  rel'[n].there \/ n \in lost'
      BY <1>3 DEF KeptForRollback
    <3>1. n \in Releases  BY <1>1 DEF SiteParts, Releases
    <3> QED  BY <3>1, <1>3, <1>8 DEF Inv, ReleasesKept, KeptForRollback
  <2>2. \A n \in Releases : n > made' => ~rel'[n].there  BY <1>3, <1>8 DEF Inv, ReleasesKept
  <2>3. rel'[job'.release].there \/ job'.release \in lost'
    BY <1>1, <1>3, <1>7, <1>8 DEF Inv, ReleasesKept, WithRelease
  <2> QED  BY <2>1, <2>2, <2>3 DEF ReleasesKept
<1>12. BuildsFit'
  <2>1. ASSUME NEW n \in Releases, rel'[n].built # None
        PROVE  rel'[n].built.build.release = n
               /\ (rel'[n].built.touched \/ rel'[n].built.build.env = rel'[n].built.fp)
    <3>1. CASE rel'[n].built = rel[n].built  BY <2>1, <3>1 DEF Inv, BuildsFit
    <3>2. CASE rel'[n].built # rel[n].built
      <4>1. n = job.release /\ job.package /\ rel'[n].built = [build |-> b, fp |-> job.fp, touched |-> touched]
        BY <3>2, <1>8
      <4>2. touched \/ (job.fp = site.env /\ job.spec = site.env)  BY <4>1, <1>1 DEF Inv, BuildsFit
      <4>3. job.ship = None  BY <4>1 DEF Inv, JobFits
      <4> QED  BY <4>1, <4>2, <4>3, <1>2
    <3> QED  BY <3>1, <3>2
  <2> QED  BY <2>1, <1>7 DEF BuildsFit
<1>13. Progress'
  <2>1. Targets' = Targets /\ Left = {s} \cup Left' /\ Targets \subseteq Server
    BY <1>3, <1>5, <1>7, Parts DEF Targets, Left, Inv
  <2>2. SUFFICES ASSUME ~placed  PROVE Progress'  BY <1>3 DEF Progress
  <2>3. disk'[s] = b /\ \A x \in Server : x # s => disk'[x] = disk[x]
    BY <1>2, <1>3 DEF Inv, TypeOK
  <2>4. ASSUME job.kind = "deploy", NEW x \in Targets \ Left'  PROVE On(disk'[x], job.release)
    <3>1. CASE x = s  BY <3>1, <2>3, <1>1, <1>2 DEF On
    <3>2. CASE x # s
      <4>1. x \in Targets \ Left /\ disk'[x] = disk[x]  BY <3>2, <2>1, <2>3, <2>4
      <4> QED  BY <4>1, <2>2, <2>4, <1>1 DEF Inv, Progress
    <3> QED  BY <3>1, <3>2
  <2>5. ASSUME job'.ship # None, NEW x \in Targets \ Left', x \in ToSet(job.added) \/ job.kind = "deploy"
        PROVE  disk'[x] = job'.ship
    <3>1. job'.ship = b  BY <2>5, <1>7
    <3>2. CASE x = s  BY <3>1, <3>2, <2>3
    <3>3. CASE x # s
      <4>1. x \in Targets \ Left /\ disk'[x] = disk[x]  BY <3>3, <2>1, <2>3, <2>5
      <4>2. ~job.package  BY <4>1, <2>2 DEF Inv, Progress
      <4>3. job.ship = job'.ship  BY <4>2, <1>7
      <4> QED  BY <4>1, <4>3, <2>2, <2>5 DEF Inv, Progress
    <3> QED  BY <3>2, <3>3
  <2>6. job'.kind = "place" => job'.removed \cap Targets' = {}  BY <2>1, <2>2, <1>7 DEF Inv, Progress
  <2> QED  BY <2>1, <2>4, <2>5, <2>6, <1>7 DEF Progress
<1> QED  BY <1>9, <1>10, <1>11, <1>12, <1>13 DEF Inv

LEMMA ServerFailsKeeps ==
  ASSUME PlacementsAndBuilds, Inv, ServerFails
  PROVE  Inv'
<1>1. Sent /\ Fails /\ UNCHANGED <<site, rel, made, state, front, placed, touched, lost>>
  BY DEF ServerFails, history
<1>2. Head(job.todo) \in Server
      /\ (Put(Head(job.todo)) => disk' \in [Server -> Builds \cup {None}] /\ snap' \in [Server -> Builds \cup {None}])
  BY <1>1, PutBuild
<1>3. disk' \in [Server -> Builds \cup {None}] /\ snap' \in [Server -> Builds \cup {None}]
  BY <1>2 DEF ServerFails, tree, Inv, TypeOK
<1> QED  BY <1>1, <1>3, JobFails DEF Inv, TypeOK

LEMMA StopsKeeps ==
  ASSUME PlacementsAndBuilds, Inv, Stops \/ EnvEnds
  PROVE  Inv'
BY JobFails DEF Stops, EnvEnds, tree, history, Inv, TypeOK

LEMMA PanelRestartsKeeps ==
  ASSUME PlacementsAndBuilds, Inv, PanelRestarts
  PROVE  Inv'
<1>1. Fails /\ UNCHANGED <<site, rel, made, state, front, placed, touched, lost>>
  BY DEF PanelRestarts, history
<1>2. disk' \in [Server -> Builds \cup {None}] /\ snap' \in [Server -> Builds \cup {None}]
  BY PutBuild DEF PanelRestarts, tree, Inv, TypeOK
<1> QED  BY <1>1, <1>2, JobFails DEF Inv, TypeOK

\* markCurrent: what is current becomes what can be rolled back to.
LEMMA MarkKeeps ==
  ASSUME PlacementsAndBuilds, Inv, Mark
  PROVE  Inv'
<1>1. JobParts /\ SiteParts /\ MaxReleases \in Nat
      /\ job.phase = "deploy" /\ job.todo = <<>> /\ job.release # 0 /\ ~job.package
  BY Parts DEF Inv, Mark, JobFits, WithRelease
<1>2. /\ site' \in SiteType /\ site'.servers = site.servers /\ site'.env = site.env
      /\ site'.current \in {site.current, job.release}
      /\ site'.previous \in {site.previous, site.current}
  BY <1>1 DEF Mark, Marked, Inv, TypeOK, SiteType, JobParts, SiteParts
<1>3. job' = [job EXCEPT !.phase = "front"]
      /\ UNCHANGED <<rel, made, state, disk, snap, front, last, placed, touched, lost>>
  BY DEF Mark, tree, history
<1>4. job.kind \in {"deploy", "place"}  BY <1>1, PhaseTells DEF Inv, JobParts
<1>5. /\ job' \in JobType /\ job'.phase = "front" /\ job'.kind = job.kind /\ job'.release = job.release
      /\ job'.todo = job.todo /\ job'.ship = job.ship /\ job'.package = job.package /\ job'.fp = job.fp
      /\ job'.added = job.added /\ job'.removed = job.removed
  BY <1>3 DEF Inv, TypeOK, JobType, Phases
<1>6. TypeOK'  BY <1>2, <1>3, <1>5 DEF Inv, TypeOK
<1>7. JobFits'  BY <1>1, <1>4, <1>5 DEF Inv, JobFits, Phase, WithRelease
<1>8. ReleasesKept'
  <2>1. KeptForRollback'
    <3> SUFFICES ASSUME NEW n \in {site'.current, site'.previous}, n # 0
                 PROVE  rel[n].there \/ n \in lost
      BY <1>3 DEF KeptForRollback
    <3>1. n \in {site.current, site.previous, job.release}  BY <1>2
    <3> QED  BY <3>1, <1>1 DEF Inv, ReleasesKept, KeptForRollback, WithRelease
  <2> QED  BY <2>1, <1>3, <1>5 DEF Inv, ReleasesKept, WithRelease
<1>9. BuildsFit'  BY <1>1, <1>3, <1>5 DEF Inv, BuildsFit
<1>10. Progress'
  <2>1. Left' = Left /\ Targets' = Targets  BY <1>2, <1>5 DEF Left, Targets
  <2> QED  BY <2>1, <1>1, <1>3, <1>5 DEF Inv, Progress
<1> QED  BY <1>6, <1>7, <1>8, <1>9, <1>10 DEF Inv

\* The front door, and pruning: nothing goes that is live.
LEMMA FrontDoorKeeps ==
  ASSUME PlacementsAndBuilds, Inv, FrontDoor
  PROVE  Inv'
<1>1. JobParts /\ SiteParts /\ MaxReleases \in Nat /\ Targets \subseteq Server
      /\ job.phase = "front" /\ job.todo = <<>> /\ ~job.package
  BY Parts DEF Inv, FrontDoor, JobFits
<1>2. UNCHANGED <<site, made, state, disk, snap, placed, touched, lost>>
  BY DEF FrontDoor, tree, history
<1>3. CASE Fails /\ UNCHANGED <<front, rel>>
  BY <1>2, <1>3, JobFails DEF Inv, TypeOK
<1>4. CASE /\ front' = Targets
           /\ rel' = IF Redeploys THEN Pruned(rel, Live) ELSE rel
           /\ IF job.kind = "place"
              THEN job' = [job EXCEPT !.phase = "clear"] /\ UNCHANGED last
              ELSE Ends([kind |-> job.kind, release |-> job.release, shipped |-> job.ship])
  <2>1. /\ rel' \in RelType
        /\ \A r \in Releases : rel'[r] \in {rel[r], NotMade} /\ (r \in Live => rel'[r] = rel[r])
    <3>1. rel \in RelType  BY DEF Inv, TypeOK
    <3>2. rel' = Pruned(rel, Live) \/ rel' = rel  BY <1>4
    <3> QED  BY <3>1, <3>2, PrunedReleases
  <2>2. NotMade.there = FALSE /\ NotMade.built = None  BY DEF NotMade
  <2>3. /\ job' \in JobType /\ JobFits' /\ Progress' /\ job'.phase \in {"clear", "none"} /\ ~job'.package
        /\ last' \in LastType
    <3>1. CASE job.kind = "place"
      <4>1. job' = [job EXCEPT !.phase = "clear"] /\ last' = last  BY <1>4, <3>1
      <4>2. /\ job' \in JobType /\ job'.phase = "clear" /\ job'.kind = "place" /\ job'.release = job.release
            /\ job'.todo = job.todo /\ job'.ship = job.ship /\ job'.package = job.package /\ job'.fp = job.fp
            /\ job'.added = job.added /\ job'.removed = job.removed
        BY <4>1, <3>1 DEF Inv, TypeOK, JobType, Phases
      <4>3. JobFits'  BY <4>2, <1>1 DEF Inv, JobFits, Phase, WithRelease
      <4>4. Progress'
        <5>1. Left' = Left /\ Targets' = Targets  BY <1>2, <4>2 DEF Left, Targets
        <5> QED  BY <5>1, <1>1, <1>2, <3>1, <4>2 DEF Inv, Progress
      <4> QED  BY <4>1, <4>2, <4>3, <4>4, <1>1 DEF Inv, TypeOK
    <3>2. CASE job.kind # "place"
      <4>1. job' = Idle /\ last' = [kind |-> job.kind, release |-> job.release, shipped |-> job.ship]
        BY <1>4, <3>2 DEF Ends
      <4>2. last' \in LastType  BY <4>1, <1>1 DEF LastType, JobParts
      <4> QED  BY <4>1, <4>2, NoJobLeft
    <3> QED  BY <3>1, <3>2
  <2>4. TypeOK'  BY <1>1, <1>2, <1>4, <2>1, <2>3 DEF Inv, TypeOK
  <2>5. ReleasesKept'
    <3>1. KeptForRollback'
      <4> SUFFICES ASSUME NEW n \in {site.current, site.previous}, n # 0
                   PROVE  rel'[n].there \/ n \in lost'
        BY <1>2 DEF KeptForRollback
      <4>1. n \in Releases /\ n \in Live  BY <1>1 DEF SiteParts, Releases, Live
      <4> QED  BY <4>1, <1>2, <2>1 DEF Inv, ReleasesKept, KeptForRollback
    <3>2. \A r \in Releases : r > made' => ~rel'[r].there  BY <1>2, <2>1, <2>2 DEF Inv, ReleasesKept
    <3>3. job'.phase \notin WithRelease  BY <2>3 DEF WithRelease
    <3> QED  BY <3>1, <3>2, <3>3 DEF ReleasesKept
  <2>6. BuildsFit'
    <3>1. \A r \in Releases : rel'[r].built # None => rel'[r].built = rel[r].built  BY <2>1, <2>2
    <3> QED  BY <3>1, <2>3 DEF Inv, BuildsFit
  <2> QED  BY <2>3, <2>4, <2>5, <2>6 DEF Inv
<1> QED  BY <1>3, <1>4 DEF FrontDoor

-----------------------------------------------------------------------------
(* Rolling back, moving and deleting.                                       *)

LEMMA RollbackBeginsKeeps ==
  ASSUME PlacementsAndBuilds, Inv, RollbackBegins
  PROVE  Inv'
<1>1. JobParts /\ SiteParts /\ site.servers \in Seq(Server) /\ MaxReleases \in Nat
      /\ job.phase = "decide" /\ job.release # 0 /\ job.release \in Releases /\ ~job.package /\ job.kind = "rollback"
  BY Parts, PhaseTells DEF Inv, RollbackBegins, JobFits, JobParts, WithRelease, Releases
<1>2. UNCHANGED <<site, made, state, disk, snap, front, last, placed, lost>> /\ touched' = FALSE
  BY DEF RollbackBegins, tree
<1>3. CASE BuildsOnce /\ rel[job.release].there
  <2> DEFINE j == [job EXCEPT !.kind = "deploy"]
  <2>1. j \in JobType /\ j.kind = "deploy"  BY DEF Inv, TypeOK, JobType, Kinds
  <2>2. job' = Planned(j, job.release) /\ rel' = Forgotten(job.release)  BY <1>3 DEF RollbackBegins
  <2> HIDE DEF j
  <2> QED  BY <1>1, <1>2, <1>3, <2>1, <2>2, PlanKeeps
<1>4. CASE ~(BuildsOnce /\ rel[job.release].there)
  <2>1. job' = [job EXCEPT !.phase = "snap", !.todo = site.servers] /\ rel' = rel
    BY <1>4 DEF RollbackBegins
  <2>2. /\ job' \in JobType /\ job'.phase = "snap" /\ job'.kind = "rollback" /\ job'.release = job.release
        /\ job'.ship = job.ship /\ job'.package = job.package
    BY <2>1, <1>1 DEF Inv, TypeOK, JobType, Phases
  <2>3. TypeOK'  BY <1>2, <2>1, <2>2 DEF Inv, TypeOK
  <2>4. JobFits' /\ job'.ship = None  BY <1>1, <2>2 DEF Inv, JobFits, Phase, WithRelease
  <2>5. ReleasesKept'  BY <1>1, <1>2, <2>1, <2>2 DEF Inv, ReleasesKept, KeptForRollback, WithRelease
  <2>6. BuildsFit'  BY <1>1, <1>2, <2>1, <2>2 DEF Inv, BuildsFit
  <2>7. Progress'  BY <1>1, <2>2, <2>4 DEF Progress
  <2> QED  BY <2>3, <2>4, <2>5, <2>6, <2>7 DEF Inv
<1> QED  BY <1>3, <1>4

LEMMA SnapshotBackKeeps ==
  ASSUME PlacementsAndBuilds, Inv, SnapshotBack
  PROVE  Inv'
<1> DEFINE s == Head(job.todo)
<1>1. JobParts /\ SiteParts /\ None \notin Builds
      /\ job.phase = "snap" /\ job.kind = "rollback" /\ job.todo # <<>> /\ job.release # 0 /\ job.release \in Releases
      /\ ~job.package /\ job.ship = None
  BY Parts, PhaseTells DEF Inv, SnapshotBack, JobFits, JobParts, WithRelease, Releases
<1>2. s \in Server /\ Tail(job.todo) \in Seq(Server)  BY <1>1, ListParts DEF JobParts
<1>3. UNCHANGED <<site, rel, made, front, placed, touched, lost>>  BY DEF SnapshotBack, history
<1>4. disk' \in [Server -> Builds \cup {None}] /\ snap' \in [Server -> Builds \cup {None}]
  <2> DEFINE b == [release |-> job.release, env |-> site.env, on |-> s]
  <2>1. b \in Builds  BY <1>1, <1>2 DEF Builds, SiteParts
  <2>2. \/ disk' = [disk EXCEPT ![s] = snap[s]] /\ snap' = snap
        \/ disk' = [disk EXCEPT ![s] = b] /\ snap' = [snap EXCEPT ![s] = disk[s]]
        \/ disk' = disk /\ snap' = snap
    BY DEF SnapshotBack, tree
  <2> HIDE DEF s, b
  <2> QED  BY <2>1, <2>2, <1>2 DEF Inv, TypeOK
<1>5. Fails \/ (job' = [job EXCEPT !.todo = Tail(@)] /\ state' = [state EXCEPT ![s] = job.release] /\ last' = last)
  BY DEF SnapshotBack
<1>6. CASE Fails /\ state' = state
  BY <1>3, <1>4, <1>6, JobFails DEF Inv, TypeOK
<1>7. CASE job' = [job EXCEPT !.todo = Tail(@)] /\ state' = [state EXCEPT ![s] = job.release] /\ last' = last
  <2> HIDE DEF s
  <2>1. /\ job' \in JobType /\ job'.phase = "snap" /\ job'.kind = "rollback" /\ job'.release = job.release
        /\ job'.ship = None /\ ~job'.package
    BY <1>1, <1>2, <1>7 DEF Inv, TypeOK, JobType
  <2>2. state' \in [Server -> 0 .. MaxReleases]  BY <1>1, <1>2, <1>7 DEF Inv, TypeOK, JobParts
  <2>3. TypeOK'  BY <1>3, <1>4, <1>7, <2>1, <2>2 DEF Inv, TypeOK
  <2>4. JobFits'  BY <1>1, <2>1 DEF JobFits, Phase, WithRelease
  <2>5. ReleasesKept'  BY <1>1, <1>3, <2>1 DEF Inv, ReleasesKept, KeptForRollback, WithRelease
  <2>6. BuildsFit'  BY <1>3, <2>1 DEF Inv, BuildsFit
  <2>7. Progress'  BY <2>1 DEF Progress
  <2> QED  BY <2>3, <2>4, <2>5, <2>6, <2>7 DEF Inv
<1>8. Fails => state' = state
  <2>1. ASSUME Fails, job' = [job EXCEPT !.todo = Tail(@)]  PROVE FALSE
    <3>1. job'.phase = "none"  BY <2>1 DEF Fails, Ends, Idle
    <3>2. job'.phase = "snap"  BY <2>1, <1>1 DEF Inv, TypeOK, JobType
    <3> QED  BY <3>1, <3>2
  <2> QED  BY <2>1 DEF SnapshotBack
<1> QED  BY <1>5, <1>6, <1>7, <1>8

LEMMA RolledBackKeeps ==
  ASSUME PlacementsAndBuilds, Inv, RolledBack
  PROVE  Inv'
<1>1. JobParts /\ SiteParts
      /\ job.phase = "snap" /\ job.kind = "rollback" /\ job.todo = <<>> /\ job.release # 0
      /\ ~job.package /\ job.ship = None
  BY Parts, PhaseTells DEF Inv, RolledBack, JobFits, JobParts, WithRelease
<1>2. /\ site' \in SiteType /\ site'.servers = site.servers /\ site'.env = site.env
      /\ site'.current = job.release /\ site'.previous = site.current
  BY <1>1 DEF RolledBack, Inv, TypeOK, SiteType, JobParts, SiteParts
<1>3. job' = [job EXCEPT !.phase = "front"]
      /\ UNCHANGED <<rel, made, state, disk, snap, front, last, placed, touched, lost>>
  BY DEF RolledBack, tree, history
<1>4. /\ job' \in JobType /\ job'.phase = "front" /\ job'.kind = "rollback" /\ job'.release = job.release
      /\ job'.todo = <<>> /\ job'.ship = None /\ ~job'.package
  BY <1>1, <1>3 DEF Inv, TypeOK, JobType, Phases
<1>5. TypeOK'  BY <1>2, <1>3, <1>4 DEF Inv, TypeOK
<1>6. JobFits'  BY <1>1, <1>4 DEF JobFits, Phase, WithRelease
<1>7. ReleasesKept'
  BY <1>1, <1>2, <1>3, <1>4 DEF Inv, ReleasesKept, KeptForRollback, WithRelease
<1>8. BuildsFit'  BY <1>3, <1>4 DEF Inv, BuildsFit
<1>9. Progress'  BY <1>4 DEF Progress
<1> QED  BY <1>5, <1>6, <1>7, <1>8, <1>9 DEF Inv

LEMMA PlaceBeginsKeeps ==
  ASSUME PlacementsAndBuilds, Inv, PlaceBegins
  PROVE  Inv'
<1> DEFINE r == site.current
           there == r # 0 /\ rel[r].there
<1>1. JobParts /\ SiteParts /\ MaxReleases \in Nat /\ None \notin Builds /\ Targets \subseteq Server
      /\ job.phase = "plan" /\ job.kind = "place" /\ job.todo = <<>> /\ ~job.package /\ job \in JobType
  BY Parts, PhaseTells DEF Inv, TypeOK, PlaceBegins, JobFits, JobParts
<1>2. UNCHANGED <<site, made, state, disk, snap, front, placed, lost>> /\ touched' = FALSE
  BY DEF PlaceBegins, tree
<1>3. ~placed => job.removed \cap Targets = {}  BY <1>1 DEF Inv, Progress
<1>4. CASE job.added = <<>>
  <2>1. job' = [job EXCEPT !.phase = "front"] /\ rel' = rel /\ last' = last  BY <1>4 DEF PlaceBegins
  <2>2. /\ job' \in JobType /\ job'.phase = "front" /\ job'.kind = "place" /\ job'.release = job.release
        /\ job'.todo = <<>> /\ job'.ship = job.ship /\ ~job'.package
        /\ job'.added = job.added /\ job'.removed = job.removed
    BY <2>1, <1>1 DEF JobType, Phases
  <2>3. TypeOK'  BY <1>2, <2>1, <2>2 DEF Inv, TypeOK
  <2>4. JobFits'  BY <1>1, <2>2 DEF Inv, JobFits, Phase, WithRelease
  <2>5. ReleasesKept'  BY <1>2, <2>1, <2>2 DEF Inv, ReleasesKept, KeptForRollback, WithRelease
  <2>6. BuildsFit'  BY <1>2, <2>1, <2>2 DEF Inv, BuildsFit
  <2>7. Progress'
    <3>1. Left' = Left /\ Targets' = Targets  BY <1>1, <1>2, <2>2 DEF Left, Targets
    <3> QED  BY <3>1, <1>1, <1>2, <2>2 DEF Inv, Progress
  <2> QED  BY <2>3, <2>4, <2>5, <2>6, <2>7 DEF Inv
<1>5. CASE job.added # <<>> /\ ~there
  BY <1>2, <1>5, JobFails DEF PlaceBegins, Inv, TypeOK
<1>6. CASE job.added # <<>> /\ there /\ BuildsOnce /\ Usable(r) = None
  <2>1. r \in Releases /\ rel[r].there  BY <1>1, <1>6 DEF SiteParts, Releases
  <2>2. job' = Planned(job, r) /\ rel' = Forgotten(r) /\ last' = last  BY <1>6 DEF PlaceBegins
  <2> HIDE DEF r
  <2> QED  BY <1>1, <1>2, <1>3, <2>1, <2>2, PlanKeeps
<1>7. CASE job.added # <<>> /\ there /\ ~(BuildsOnce /\ Usable(r) = None)
  <2> DEFINE ship == IF BuildsOnce THEN Usable(r) ELSE None
  <2>1. r \in Releases /\ rel[r].there /\ r # 0 /\ r \in 0 .. MaxReleases  BY <1>1, <1>7 DEF SiteParts, Releases
  <2>2. ship \in Builds \cup {None} /\ (ship # None => ship.release = r)
    BY <2>1, UsableBuild DEF Inv
  <2>3. /\ job' = [job EXCEPT !.phase = "deploy", !.release = r, !.todo = job.added, !.ship = ship]
        /\ rel' = rel /\ last' = last
    BY <1>7 DEF PlaceBegins
  <2> HIDE DEF r, ship
  <2>4. /\ job' \in JobType /\ job'.phase = "deploy" /\ job'.kind = "place" /\ job'.release = r
        /\ job'.todo = job.added /\ job'.ship = ship /\ ~job'.package
        /\ job'.added = job.added /\ job'.removed = job.removed
    BY <1>1, <2>1, <2>2, <2>3 DEF JobType, Phases, JobParts
  <2>5. TypeOK'  BY <1>2, <2>3, <2>4 DEF Inv, TypeOK
  <2>6. JobFits'  BY <2>1, <2>2, <2>4 DEF JobFits, Phase, WithRelease
  <2>7. ReleasesKept'  BY <1>2, <2>1, <2>3, <2>4 DEF Inv, ReleasesKept, KeptForRollback
  <2>8. BuildsFit'  BY <1>2, <2>3, <2>4 DEF Inv, BuildsFit
  <2>9. Progress'
    <3>1. Left' = ToSet(job'.added) /\ Targets' = Targets  BY <1>2, <2>4 DEF Left, Targets
    <3> QED  BY <3>1, <1>2, <1>3, <2>4 DEF Progress
  <2> QED  BY <2>5, <2>6, <2>7, <2>8, <2>9 DEF Inv
<1> QED  BY <1>4, <1>5, <1>6, <1>7

LEMMA PlaceClearsKeeps ==
  ASSUME PlacementsAndBuilds, Inv, PlaceClears
  PROVE  Inv'
<1>1. JobParts /\ MaxReleases \in Nat  BY Parts DEF Inv
<1>2. /\ job' = Idle /\ last' = [kind |-> "place", release |-> job.release, shipped |-> job.ship]
      /\ UNCHANGED <<site, rel, made, front, placed, touched, lost>>
  BY DEF PlaceClears, Ends, history
<1>3. job' \in JobType /\ JobFits' /\ Progress' /\ ReleasesKept' /\ BuildsFit'  BY <1>2, EndKeeps
<1>4. last' \in LastType  BY <1>1, <1>2 DEF LastType, JobParts, Kinds
<1>5. disk' \in [Server -> Builds \cup {None}] /\ snap' \in [Server -> Builds \cup {None}]
      /\ state' \in [Server -> 0 .. MaxReleases]
  BY <1>1 DEF PlaceClears, Inv, TypeOK
<1>6. TypeOK'  BY <1>2, <1>3, <1>4, <1>5 DEF Inv, TypeOK
<1> QED  BY <1>3, <1>6 DEF Inv

LEMMA RemoveSiteKeeps ==
  ASSUME PlacementsAndBuilds, Inv, RemoveSite
  PROVE  Inv'
<1>1. MaxReleases \in Nat  BY Parts DEF Inv
<1>2. /\ job' = Idle /\ last' = [kind |-> "remove", release |-> 0, shipped |-> None]
      /\ front' = {} /\ UNCHANGED <<made, placed, touched, lost>>
  BY DEF RemoveSite, Ends, history
<1>3. job' \in JobType /\ JobFits' /\ Progress' /\ job'.phase = "none" /\ ~job'.package  BY <1>2, NoJobLeft
<1>4. last' \in LastType  BY <1>1, <1>2 DEF LastType, Kinds
<1>5. disk' \in [Server -> Builds \cup {None}] /\ snap' \in [Server -> Builds \cup {None}]
      /\ state' \in [Server -> 0 .. MaxReleases]
  BY <1>1 DEF RemoveSite, Inv, TypeOK
<1>6. rel' \in RelType /\ \A r \in Releases : rel'[r].there = FALSE /\ rel'[r].built = None
  BY DEF RemoveSite, RelType, NotMade
<1>7. site' \in SiteType /\ site'.current = 0 /\ site'.previous = 0
  <2>1. 0 \in 0 .. MaxReleases /\ site \in SiteType  BY <1>1 DEF Inv, TypeOK
  <2>2. site' = [site EXCEPT !.there = FALSE, !.deleting = FALSE, !.current = 0, !.previous = 0]  BY DEF RemoveSite
  <2> QED  BY <2>1, <2>2 DEF SiteType
<1>8. TypeOK'  BY <1>2, <1>3, <1>4, <1>5, <1>6, <1>7 DEF Inv, TypeOK
<1>9. ReleasesKept'  BY <1>3, <1>6, <1>7 DEF ReleasesKept, KeptForRollback, WithRelease
<1>10. BuildsFit'  BY <1>3, <1>6 DEF BuildsFit
<1> QED  BY <1>3, <1>8, <1>9, <1>10 DEF Inv

LEMMA FrontSyncKeeps ==
  ASSUME PlacementsAndBuilds, Inv, FrontSync
  PROVE  Inv'
<1>1. Targets \subseteq Server  BY Parts DEF Inv
<1>2. front' = Targets /\ UNCHANGED <<site, rel, made, state, disk, snap, job, last, placed, touched, lost>>
  BY DEF FrontSync, tree, history
<1>3. TypeOK' /\ ReleasesKept' /\ BuildsFit'
  BY <1>1, <1>2 DEF Inv, TypeOK, ReleasesKept, KeptForRollback, BuildsFit, Sent
<1> QED  BY <1>2, <1>3, StaysInProgress DEF Inv

-----------------------------------------------------------------------------
(* The invariant holds.                                                     *)

LEMMA InitFits ==
  ASSUME PlacementsAndBuilds, Init
  PROVE  Inv
<1>1. MaxReleases \in Nat /\ 0 \in 0 .. MaxReleases  BY DEF PlacementsAndBuilds
<1>2. /\ site \in SiteType /\ site.current = 0 /\ site.previous = 0
  BY <1>1 DEF Init, PlacementsAndBuilds, SiteType
<1>3. rel \in RelType /\ \A r \in Releases : rel[r].there = FALSE /\ rel[r].built = None
  BY DEF Init, RelType, NotMade
<1>4. /\ job.kind = "none" /\ job.phase = "none" /\ job.release = 0 /\ job.todo = <<>> /\ job.ship = None
      /\ job.package = FALSE /\ job \in JobType
  BY <1>1, NothingListed DEF Init, Idle, JobType, Kinds, Phases
<1>5. disk \in [Server -> Builds \cup {None}] /\ snap \in [Server -> Builds \cup {None}]
      /\ state \in [Server -> 0 .. MaxReleases]
  BY <1>1 DEF Init
<1>6. last \in LastType /\ made = 0 /\ front = {} /\ placed = FALSE /\ touched = FALSE /\ lost = {}
  BY NoEndIsAnEnd DEF Init
<1>7. TypeOK  BY <1>1, <1>2, <1>3, <1>4, <1>5, <1>6 DEF TypeOK
<1>8. JobFits  BY <1>4 DEF JobFits, Phase, WithRelease
<1>9. ReleasesKept  BY <1>2, <1>3, <1>4 DEF ReleasesKept, KeptForRollback, WithRelease
<1>10. BuildsFit /\ Progress  BY <1>3, <1>4 DEF BuildsFit, Progress
<1> QED  BY <1>7, <1>8, <1>9, <1>10 DEF Inv

LEMMA StepsKeep ==
  ASSUME PlacementsAndBuilds, Inv, [Next]_vars
  PROVE  Inv'
<1>1. CASE Admin
  BY <1>1, UploadKeeps, OrderPullKeeps, OrderRollbackKeeps, OrderRemovalKeeps, PinKeeps, DeleteReleaseKeeps,
     OrderDeployKeeps, PlaceKeeps, SaveEnvKeeps DEF Admin
<1>2. CASE Deploying
  BY <1>2, PullEndsKeeps, DeployBeginsKeeps, ServerBeginsKeeps, ServerDeployedKeeps, ServerFailsKeeps, StopsKeeps,
     MarkKeeps, FrontDoorKeeps DEF Deploying
<1>3. CASE RollingBack
  BY <1>3, RollbackBeginsKeeps, SnapshotBackKeeps, RolledBackKeeps DEF RollingBack
<1>4. CASE Changing
  BY <1>4, PlaceBeginsKeeps, PlaceClearsKeeps, StopsKeeps, RemoveSiteKeeps DEF Changing
<1>5. CASE FrontSync  BY <1>5, FrontSyncKeeps
<1>6. CASE PanelRestarts  BY <1>6, PanelRestartsKeeps
<1>7. CASE UNCHANGED vars
  <2>1. UNCHANGED <<site, rel, made, state, disk, snap, front, job, last, placed, touched, lost>>
    BY <1>7 DEF vars, tree, history
  <2>2. TypeOK' /\ ReleasesKept' /\ BuildsFit'
    BY <2>1 DEF Inv, TypeOK, ReleasesKept, KeptForRollback, BuildsFit, Sent
  <2> QED  BY <2>1, <2>2, StaysInProgress DEF Inv
<1> QED  BY <1>1, <1>2, <1>3, <1>4, <1>5, <1>6, <1>7 DEF Next

\* The invariant holds in every state the website can get into.
THEOREM InvHolds ==
  ASSUME PlacementsAndBuilds
  PROVE  Spec => []Inv
<1>1. Init => Inv  BY InitFits
<1>2. Inv /\ [Next]_vars => Inv'  BY StepsKeep
<1> QED  BY <1>1, <1>2, PTL DEF Spec

\* The record of the website, its releases, its servers and its job are what they are
\* taken to be.
THEOREM TypeCorrect ==
  ASSUME PlacementsAndBuilds
  PROVE  Spec => []TypeOK
<1>1. Inv => TypeOK  BY DEF Inv
<1> QED  BY <1>1, InvHolds, PTL

\* What is current, and what a rollback would bring, is kept by every pruning, unless it
\* was deleted while it was being deployed (pruneReleases, deleteRelease).
THEOREM ReleasesStay ==
  ASSUME PlacementsAndBuilds
  PROVE  Spec => []KeptForRollback
<1>1. Inv => KeptForRollback  BY DEF Inv, ReleasesKept
<1> QED  BY <1>1, InvHolds, PTL

\* A job ends with a result in three ways only.
LEMMA WaysToEnd ==
  ASSUME [Next]_vars, last' # last, last' # NoEnd
  PROVE  (FrontDoor /\ ~Fails) \/ PlaceClears \/ RemoveSite
<1>1. CASE Admin
  BY <1>1 DEF Admin, Upload, OrderPull, OrderRollback, OrderRemoval, Pin, DeleteRelease, OrderDeploy, Place, SaveEnv, Ask
<1>2. CASE Deploying
  BY <1>2 DEF Deploying, PullEnds, DeployBegins, ServerBegins, ServerDeployed, ServerFails, Stops, Mark, Fails, Ends
<1>3. CASE RollingBack
  BY <1>3 DEF RollingBack, RollbackBegins, SnapshotBack, RolledBack, Fails, Ends
<1>4. CASE Changing
  BY <1>4 DEF Changing, PlaceBegins, EnvEnds, Fails, Ends
<1>5. CASE FrontSync \/ PanelRestarts \/ UNCHANGED vars
  BY <1>5 DEF FrontSync, PanelRestarts, Fails, Ends, vars
<1> QED  BY <1>1, <1>2, <1>3, <1>4, <1>5 DEF Next

\* The front door of a job that ends well: nothing was left to do.
LEMMA AtTheFront ==
  ASSUME PlacementsAndBuilds, Inv, FrontDoor, ~Fails, last' # last, last' # NoEnd
  PROVE  /\ last' = [kind |-> job.kind, release |-> job.release, shipped |-> job.ship]
         /\ job.phase = "front" /\ Left = {} /\ front' = Targets /\ Targets' = Targets
         /\ UNCHANGED <<disk, placed>>
<1>1. job.phase = "front" /\ job.todo = <<>>  BY DEF Inv, FrontDoor, JobFits
<1>2. Left = {}  BY <1>1, NothingListed DEF Left
<1>3. last' = [kind |-> job.kind, release |-> job.release, shipped |-> job.ship] /\ front' = Targets
  BY DEF FrontDoor, Ends
<1>4. UNCHANGED <<disk, placed>> /\ Targets' = Targets  BY DEF FrontDoor, tree, history, Targets
<1> QED  BY <1>1, <1>2, <1>3, <1>4

\* A deploy that ends well has its release on every server of the website, and behind the
\* front door nothing else (deployRelease: "Done: it is on this release everywhere").
THEOREM DoneEverywhere ==
  ASSUME PlacementsAndBuilds
  PROVE  Spec => DoneIsEverywhere
<1>1. ASSUME Inv, [Next]_vars, Deploy  PROVE DoneIsEverywhereStep
  <2>1. last' # last /\ last'.kind = "deploy" /\ last' # NoEnd  BY <1>1 DEF Deploy, NoEnd
  <2>2. CASE FrontDoor /\ ~Fails
    <3>1. /\ last' = [kind |-> job.kind, release |-> job.release, shipped |-> job.ship]
          /\ job.phase = "front" /\ Left = {} /\ front' = Targets /\ Targets' = Targets
          /\ disk' = disk /\ placed' = placed
      BY <1>1, <2>1, <2>2, AtTheFront
    <3>2. last'.release = job.release /\ job.kind = "deploy"  BY <2>1, <3>1
    <3>3. placed \/ \A s \in Targets : On(disk[s], job.release)  BY <1>1, <3>1, <3>2 DEF Inv, Progress
    <3> QED  BY <3>1, <3>2, <3>3 DEF DoneIsEverywhereStep, Targets
  <2>3. CASE PlaceClears \/ RemoveSite
    BY <2>1, <2>3 DEF PlaceClears, RemoveSite, Ends
  <2> QED  BY <1>1, <2>1, <2>2, <2>3, WaysToEnd
<1>2. Inv /\ [Next]_vars => [DoneIsEverywhereStep]_vars  BY <1>1 DEF DoneIsEverywhereStep
<1> QED  BY <1>2, InvHolds, PTL DEF Spec, DoneIsEverywhere

\* Once a build was shipped, the servers of a deploy and those added by a change of the
\* placement have that build.
THEOREM OneBuild ==
  ASSUME PlacementsAndBuilds
  PROVE  Spec => OneBuildEverywhere
<1>1. ASSUME Inv, [Next]_vars, last' # last, last'.kind \in {"deploy", "place"}, last'.shipped # None
      PROVE  OneBuildEverywhereStep
  <2>1. last' # NoEnd  BY <1>1 DEF NoEnd
  <2>2. CASE FrontDoor /\ ~Fails
    <3>1. /\ last' = [kind |-> job.kind, release |-> job.release, shipped |-> job.ship]
          /\ job.phase = "front" /\ Left = {} /\ Targets' = Targets /\ disk' = disk /\ placed' = placed
      BY <1>1, <2>1, <2>2, AtTheFront
    <3>2. last'.shipped = job.ship /\ last'.kind = job.kind /\ job.ship # None  BY <1>1, <3>1
    <3>3. placed \/ \A s \in Targets : s \in ToSet(job.added) \/ job.kind = "deploy" => disk[s] = job.ship
      BY <1>1, <3>1, <3>2 DEF Inv, Progress
    <3> QED  BY <3>1, <3>2, <3>3 DEF OneBuildEverywhereStep, Targets
  <2>3. CASE PlaceClears
    <3>1. /\ last' = [kind |-> "place", release |-> job.release, shipped |-> job.ship] /\ job.phase = "clear"
          /\ site' = site /\ placed' = placed
      BY <2>3 DEF PlaceClears, Ends, history
    <3>2. job.kind = "place" /\ job.todo = <<>> /\ Left = {}
      BY <1>1, <3>1, PhaseTells, Parts, NothingListed DEF Inv, JobFits, JobParts, Left
    <3>3. job.ship # None /\ last'.shipped = job.ship /\ last'.kind = "place"  BY <1>1, <3>1
    <3>4. SUFFICES ASSUME ~placed, NEW s \in Targets, s \in ToSet(job.added)  PROVE disk'[s] = job.ship
      BY <3>1, <3>3 DEF OneBuildEverywhereStep, Targets
    <3>5. disk[s] = job.ship /\ s \notin job.removed  BY <1>1, <3>2, <3>3, <3>4 DEF Inv, Progress
    <3>6. s \in Server  BY <1>1, <3>4, Parts DEF Inv
    <3>7. disk'[s] = disk[s]  BY <2>3, <3>5, <3>6 DEF PlaceClears
    <3> QED  BY <3>5, <3>7
  <2>4. CASE RemoveSite  BY <1>1, <2>4 DEF RemoveSite, Ends
  <2> QED  BY <1>1, <2>1, <2>2, <2>3, <2>4, WaysToEnd
<1>2. Inv /\ [Next]_vars => [OneBuildEverywhereStep]_vars  BY <1>1 DEF OneBuildEverywhereStep
<1> QED  BY <1>2, InvHolds, PTL DEF Spec, OneBuildEverywhere

\* What the deploy of a placement with several servers begins with fits.
LEMMA PlannedFits ==
  ASSUME PlacementsAndBuilds, Inv, NEW j \in JobType, NEW r \in Releases, job' = Planned(j, r)
  PROVE  ShippedFitsStep
<1>1. job'.release = r /\ job'.ship \in {None, Usable(r)}  BY DEF Planned, JobType
<1>2. Usable(r) # None => rel[r].built.touched \/ Usable(r).env = site.env  BY UsableBuild DEF Inv
<1> QED  BY <1>1, <1>2 DEF ShippedFitsStep, HandsOut

\* A stored build that is handed out was made with the website's variables, unless they
\* were changed while it was made (buildFingerprint, usableBuilt).
THEOREM StoredFits ==
  ASSUME PlacementsAndBuilds
  PROVE  Spec => ShippedFits
<1>1. ASSUME Inv, [Next]_vars, HandsOut  PROVE ShippedFitsStep
  <2>0. /\ JobParts /\ SiteParts /\ MaxReleases \in Nat /\ job \in JobType /\ None \notin Builds
        /\ job.phase # "deploy" /\ job'.phase = "deploy" /\ job'.ship # None /\ job.ship = None /\ ~Sent
    BY <1>1, Parts DEF Inv, TypeOK, HandsOut
  <2>1. DeployBegins \/ RollbackBegins \/ PlaceBegins
    <3>1. ~Admin
      <4>1. ASSUME Admin  PROVE job' = job \/ job'.ship = None
        BY <4>1 DEF Admin, Upload, OrderPull, OrderRollback, OrderRemoval, Pin, DeleteRelease, OrderDeploy,
                    Place, SaveEnv, Ask, Job, Idle
      <4> QED  BY <4>1, <2>0
    <3>2. Deploying => DeployBegins
      <4>1. ~PullEnds
        <5>1. PullEnds => job'.phase \in {"queued", "none"}
          <6>1. job' = [job EXCEPT !.phase = "queued", !.release = made + 1] => job'.phase = "queued"
            BY <2>0 DEF JobType
          <6>2. Idle.phase = "none"  BY DEF Idle
          <6> QED  BY <6>1, <6>2 DEF PullEnds, Fails, Ends
        <5> QED  BY <5>1, <2>0
      <4>2. ~ServerBegins /\ ~ServerDeployed /\ ~ServerFails /\ ~Stops /\ ~Mark
        BY <2>0 DEF ServerBegins, ServerDeployed, ServerFails, Stops, Mark
      <4>3. ~FrontDoor
        BY <2>0 DEF FrontDoor, Fails, Ends, Idle, JobType
      <4> QED  BY <4>1, <4>2, <4>3 DEF Deploying
    <3>3. RollingBack => RollbackBegins
      BY <2>0 DEF RollingBack, SnapshotBack, RolledBack, Fails, Ends, Idle, JobType
    <3>4. Changing => PlaceBegins
      BY <2>0 DEF Changing, PlaceClears, EnvEnds, RemoveSite, Fails, Ends, Idle
    <3>5. ~FrontSync /\ ~PanelRestarts /\ ~UNCHANGED vars
      BY <2>0 DEF FrontSync, PanelRestarts, vars, Fails, Ends, Idle
    <3> QED  BY <1>1, <3>1, <3>2, <3>3, <3>4, <3>5 DEF Next
  <2>2. CASE DeployBegins
    <3>1. job.release \in Releases
      BY <1>1, <2>0, <2>2 DEF Inv, DeployBegins, JobFits, WithRelease, JobParts, Releases
    <3>2. job' = Planned(job, job.release)  BY <2>0, <2>2 DEF DeployBegins, Fails, Ends, Idle
    <3> QED  BY <1>1, <2>0, <3>1, <3>2, PlannedFits
  <2>3. CASE RollbackBegins
    <3> DEFINE j == [job EXCEPT !.kind = "deploy"]
    <3>1. j \in JobType  BY <2>0 DEF JobType, Kinds
    <3>2. job.release \in Releases
      BY <1>1, <2>0, <2>3 DEF Inv, RollbackBegins, JobFits, WithRelease, JobParts, Releases
    <3>3. job' = Planned(j, job.release)  BY <2>0, <2>3 DEF RollbackBegins, JobType
    <3> HIDE DEF j
    <3> QED  BY <1>1, <3>1, <3>2, <3>3, PlannedFits
  <2>4. CASE PlaceBegins
    <3> DEFINE r == site.current
               ship == IF BuildsOnce THEN Usable(r) ELSE None
    <3>1. r # 0
      BY <2>0, <2>4 DEF PlaceBegins, Fails, Ends, Idle, JobType
    <3>2. r \in Releases  BY <3>1, <2>0 DEF SiteParts, Releases
    <3>3. job' = Planned(job, r)
          \/ job' = [job EXCEPT !.phase = "deploy", !.release = r, !.todo = job.added, !.ship = ship]
      BY <2>0, <2>4, <3>1 DEF PlaceBegins, Fails, Ends, Idle, JobType
    <3>4. CASE job' = Planned(job, r)
      <4> HIDE DEF r
      <4> QED  BY <1>1, <2>0, <3>2, <3>4, PlannedFits
    <3>5. CASE job' = [job EXCEPT !.phase = "deploy", !.release = r, !.todo = job.added, !.ship = ship]
      <4>1. ship \in {None, Usable(r)}  OBVIOUS
      <4>2. Usable(r) # None => rel[r].built.touched \/ Usable(r).env = site.env
        BY <1>1, <3>2, UsableBuild DEF Inv
      <4> HIDE DEF r, ship
      <4>3. job'.release = r /\ job'.ship = ship  BY <2>0, <3>5 DEF JobType
      <4> QED  BY <4>1, <4>2, <4>3, <2>0 DEF ShippedFitsStep
    <3> QED  BY <3>3, <3>4, <3>5
  <2> QED  BY <2>1, <2>2, <2>3, <2>4
<1>2. Inv /\ [Next]_vars => [ShippedFitsStep]_vars  BY <1>1 DEF ShippedFitsStep
<1> QED  BY <1>2, InvHolds, PTL DEF Spec, ShippedFits

-----------------------------------------------------------------------------
\* The promise of _deployRelease as a whole: a deploy that ends well is everywhere, one
\* build is everywhere, and a build of the store is only handed out while it fits.
THEOREM DeploysEndWell ==
  ASSUME PlacementsAndBuilds
  PROVE  Spec => DeploysArrive
BY DoneEverywhere, OneBuild, StoredFits DEF DeploysArrive
=============================================================================
