-------------------------- MODULE FATVolumeProofs --------------------------
(***************************************************************************)
(* Proofs about FATVolume.tla and the table of FATTable.tla, for any       *)
(* number of clusters, any host folder, any contents and any root          *)
(* directory.                                                              *)
(***************************************************************************)
EXTENDS FATVolume, FiniteSetTheorems, WellFoundedInduction, TLAPS

---------------------------------------------------------------------------
(* Numbers.                                                                *)

\* A set of numbers has a least one: what induction is in the proofs below.
LEMMA LeastNumber ==
  ASSUME NEW S \in SUBSET Nat, S # {} PROVE \E x \in S : \A y \in S : x <= y
<1>1. IsWellFoundedOn({p \in Nat \X Nat : p[1] < p[2]}, Nat)
  BY NatLessThanWellFounded DEF OpToRel
<1>2. PICK x \in S : \A y \in S : ~ (<<y, x>> \in {p \in Nat \X Nat : p[1] < p[2]})
  BY <1>1, WFMin
<1>3. ASSUME NEW y \in S PROVE x <= y
  <2>1. ~ (<<y, x>> \in {p \in Nat \X Nat : p[1] < p[2]})
    BY <1>2
  <2>2. <<y, x>> \in Nat \X Nat /\ <<y, x>>[1] = y /\ <<y, x>>[2] = x
    OBVIOUS
  <2> QED BY <2>1, <2>2
<1> QED BY <1>3

\* The lowest of a set of numbers is in the set and below the others.
LEMMA LowestIsLeast ==
  ASSUME NEW S \in SUBSET Nat, S # {}
  PROVE  Lowest(S) \in S /\ \A y \in S : Lowest(S) <= y
BY LeastNumber DEF Lowest

\* Data clusters are finitely many numbers, and no free or end mark.
LEMMA ClusterNumbers ==
  /\ Clusters \subseteq Nat /\ FREE \notin Clusters /\ EOC \notin Clusters /\ FREE # EOC
  /\ 0 \notin Clusters /\ IsFiniteSet(Clusters)
BY TableAssumption, FS_Interval DEF Clusters, FREE, EOC

---------------------------------------------------------------------------
(* Chains.  An owner is a pair of what refers to a cluster and the cluster.*)

FATs == [Clusters -> Clusters \cup {FREE, EOC}]

\* Every cluster has one owner or one cluster that leads to it, if any, and
\* then it is in use.
Sound(f, owners) ==
  \A c \in Clusters :
    /\ \A d \in Clusters : f[d] = c => f[c] # FREE
    /\ \A d, e \in Clusters : f[d] = c /\ f[e] = c => d = e
    /\ \A p \in owners : p[2] = c => f[c] # FREE /\ \A d \in Clusters : f[d] # c
    /\ \A p, q \in owners : p[2] = c /\ q[2] = c => p = q

\* Fewer owners do no harm.
LEMMA FewerOwners ==
  ASSUME NEW f, NEW owners, NEW fewer \in SUBSET owners, Sound(f, owners)
  PROVE  Sound(f, fewer)
BY DEF Sound

\* The clusters first-fit takes are free.
LEMMA FirstFitFree == \A f, n : FirstFit(f, n) \subseteq Free(f)
BY DEF FirstFit

\* What Linked does to the entries: the clusters of S lead upwards in S.
LEMMA LinkedEntries ==
  ASSUME NEW f \in FATs, NEW S \in SUBSET Clusters
  PROVE  /\ Linked(f, S) \in FATs
         /\ \A c \in Clusters \ S : Linked(f, S)[c] = f[c]
         /\ \A c \in S : \/ Linked(f, S)[c] = EOC
                         \/ Linked(f, S)[c] \in S /\ c < Linked(f, S)[c]
         /\ \A c, d \in S : Linked(f, S)[c] = Linked(f, S)[d] /\ Linked(f, S)[c] # EOC => c = d
<1> DEFINE L == Linked(f, S)
<1>1. ASSUME NEW c \in S, Above(S, c) # {}
      PROVE  /\ Lowest(Above(S, c)) \in S /\ c < Lowest(Above(S, c))
             /\ \A d \in S : c < d => Lowest(Above(S, c)) <= d
  <2>1. Above(S, c) \in SUBSET Nat
    BY ClusterNumbers DEF Above
  <2> QED BY <1>1, <2>1, LowestIsLeast DEF Above
<1>2. \A c \in S : L[c] = IF Above(S, c) = {} THEN EOC ELSE Lowest(Above(S, c))
  BY DEF Linked
<1>3. \A c \in Clusters \ S : L[c] = f[c]
  BY DEF Linked
<1>4. \A c \in S : L[c] = EOC \/ (L[c] \in S /\ c < L[c])
  BY <1>1, <1>2
<1>5. L \in FATs
  <2>1. \A c \in Clusters : L[c] \in Clusters \cup {FREE, EOC}
    BY <1>3, <1>4 DEF FATs
  <2> QED BY <2>1 DEF Linked, FATs
<1>6. ASSUME NEW c \in S, NEW d \in S, L[c] = L[d], L[c] # EOC PROVE c = d
  <2>1. c \in Nat /\ d \in Nat /\ L[c] \in Nat
    BY <1>4, <1>6, ClusterNumbers
  <2>2. ~ (c < d) /\ ~ (d < c)
    BY <1>1, <1>2, <1>4, <1>6, <2>1
  <2> QED BY <2>1, <2>2
<1> QED BY <1>3, <1>4, <1>5, <1>6

\* Allocation: the new chain gets one owner, at its lowest cluster.
LEMMA AllocationSound ==
  ASSUME NEW f \in FATs, NEW owners, Sound(f, owners), NEW S \in SUBSET Free(f),
         NEW x, \A p \in owners : p[1] # x,
         NEW more, more \subseteq {<<x, First(S)>>}
  PROVE  Sound(Linked(f, S), owners \cup more)
<1> DEFINE L == Linked(f, S)
<1>1. S \in SUBSET Clusters /\ \A c \in S : f[c] = FREE
  BY DEF Free
<1>2. /\ L \in FATs
      /\ \A c \in Clusters \ S : L[c] = f[c]
      /\ \A c \in S : L[c] = EOC \/ (L[c] \in S /\ c < L[c])
      /\ \A c, d \in S : L[c] = L[d] /\ L[c] # EOC => c = d
  BY <1>1, LinkedEntries
<1>3. \A c \in S : L[c] # FREE
  BY <1>1, <1>2, ClusterNumbers
<1>4. ASSUME NEW c \in Clusters, NEW d \in Clusters, L[d] = c
      PROVE  (d \in S <=> c \in S) /\ L[c] # FREE
  <2>1. CASE d \in S
    BY <1>2, <1>3, <1>4, <2>1, ClusterNumbers
  <2>2. CASE d \notin S
    <3>1. f[d] = c /\ f[c] # FREE
      BY <1>2, <1>4, <2>2 DEF Sound
    <3> QED BY <1>1, <1>2, <2>2, <3>1
  <2> QED BY <2>1, <2>2
<1>5. ASSUME NEW c \in Clusters, NEW d \in Clusters, NEW e \in Clusters, L[d] = c, L[e] = c
      PROVE  d = e
  <2>1. CASE d \in S
    BY <1>2, <1>4, <1>5, <2>1, ClusterNumbers
  <2>2. CASE d \notin S
    BY <1>2, <1>4, <1>5, <2>2 DEF Sound
  <2> QED BY <2>1, <2>2
<1>6. \A c \in Clusters, p \in owners : p[2] = c => c \notin S /\ L[c] # FREE
  BY <1>1, <1>2 DEF Sound
<1>7. ASSUME NEW c \in Clusters, NEW p \in more, p[2] = c
      PROVE  c \in S /\ L[c] # FREE /\ \A d \in Clusters : L[d] # c
  <2>1. p = <<x, First(S)>> /\ First(S) = c
    BY <1>7
  <2>2. S # {} /\ c = Lowest(S)
    BY <2>1, ClusterNumbers DEF First
  <2>3. c \in S /\ \A d \in S : c <= d
    BY <1>1, <2>2, ClusterNumbers, LowestIsLeast
  <2>4. ASSUME NEW d \in Clusters, L[d] = c PROVE FALSE
    <3>1. d \in S
      BY <1>4, <2>3, <2>4
    <3> QED BY <1>1, <1>2, <2>3, <2>4, <3>1, ClusterNumbers
  <2> QED BY <1>3, <2>3, <2>4
<1>8. ASSUME NEW c \in Clusters, NEW p \in owners, p[2] = c, NEW d \in Clusters PROVE L[d] # c
  BY <1>2, <1>4, <1>6, <1>8 DEF Sound
<1>9. ASSUME NEW c \in Clusters, NEW p \in owners \cup more, NEW q \in owners \cup more,
             p[2] = c, q[2] = c
      PROVE  p = q
  BY <1>6, <1>7, <1>9 DEF Sound
<1> QED BY <1>4, <1>5, <1>6, <1>7, <1>8, <1>9 DEF Sound

\* The chain is the smallest closed set with its first cluster.
LEMMA ChainLeast ==
  ASSUME NEW f \in FATs, NEW first
  PROVE  /\ ChainSet(f, first) \subseteq Clusters
         /\ first \in Clusters => first \in ChainSet(f, first)
         /\ first \notin Clusters => ChainSet(f, first) = {}
         /\ Closed(f, ChainSet(f, first))
         /\ \A S \in SUBSET Clusters :
              first \in S /\ Closed(f, S) => ChainSet(f, first) \subseteq S
<1> DEFINE C == ChainSet(f, first)
<1>1. C \subseteq Clusters /\ (first \in Clusters => first \in C)
      /\ (first \notin Clusters => C = {})
  BY DEF ChainSet
<1>2. \A S \in SUBSET Clusters : first \in S /\ Closed(f, S) => C \subseteq S
  BY DEF ChainSet
<1>3. ASSUME NEW c \in C, f[c] \in Clusters PROVE f[c] \in C
  <2>1. first \in Clusters
    BY <1>1
  <2>2. \A S \in SUBSET Clusters : first \in S /\ Closed(f, S) => f[c] \in S
    BY <1>2, <1>3 DEF Closed
  <2> QED BY <1>3, <2>1, <2>2 DEF ChainSet
<1> QED BY <1>1, <1>2, <1>3 DEF Closed

\* All but the first cluster of a chain are led to from the chain.
LEMMA ChainLinked ==
  ASSUME NEW f \in FATs, NEW first, NEW c \in ChainSet(f, first), c # first
  PROVE  \E d \in ChainSet(f, first) : f[d] = c
<1> DEFINE C == ChainSet(f, first)
<1> SUFFICES ASSUME \A d \in C : f[d] # c PROVE FALSE
  OBVIOUS
<1>1. first \in Clusters
  BY ChainLeast
<1>2. C \ {c} \in SUBSET Clusters /\ first \in C \ {c} /\ Closed(f, C \ {c})
  BY <1>1, ChainLeast DEF Closed
<1> QED BY <1>2, ChainLeast

\* Release: the chain of an owner that goes is free, and nothing refers to it.
LEMMA ReleaseSound ==
  ASSUME NEW f \in FATs, NEW owners, Sound(f, owners), NEW o \in owners
  PROVE  /\ Freed(f, o[2]) \in FATs
         /\ Sound(Freed(f, o[2]), owners \ {o})
         /\ \A p \in owners \ {o} : p[2] \notin ChainSet(f, o[2])
<1> DEFINE C == ChainSet(f, o[2])
           G == Freed(f, o[2])
<1>1. C \subseteq Clusters /\ \A c \in C : c # o[2] => \E d \in C : f[d] = c
  BY ChainLeast, ChainLinked
<1>2. G \in FATs /\ \A c \in Clusters : G[c] = IF c \in C THEN FREE ELSE f[c]
  BY DEF Freed, FATs
<1>3. ASSUME NEW p \in owners, p # o PROVE p[2] \notin C
  <2> SUFFICES ASSUME p[2] \in C PROVE FALSE
    OBVIOUS
  <2>1. CASE p[2] = o[2]
    BY <1>1, <1>3, <2>1 DEF Sound
  <2>2. CASE p[2] # o[2]
    BY <1>1, <2>2 DEF Sound
  <2> QED BY <2>1, <2>2
<1>4. ASSUME NEW c \in Clusters, NEW d \in Clusters, G[d] = c
      PROVE  f[d] = c /\ c \notin C /\ G[c] # FREE
  <2>1. d \notin C /\ f[d] = c /\ f[c] # FREE
    BY <1>2, <1>4, ClusterNumbers DEF Sound
  <2>2. c \notin C
    <3> SUFFICES ASSUME c \in C PROVE FALSE
      OBVIOUS
    <3>1. CASE c = o[2]
      BY <2>1, <3>1 DEF Sound
    <3>2. CASE c # o[2]
      BY <1>1, <2>1, <3>2 DEF Sound
    <3> QED BY <3>1, <3>2
  <2> QED BY <1>2, <2>1, <2>2
<1>5. Sound(G, owners \ {o})
  BY <1>2, <1>3, <1>4 DEF Sound
<1> QED BY <1>2, <1>3, <1>5

---------------------------------------------------------------------------
(* The volume.                                                             *)

Rows == [mark : {"unused", "deleted", "used"}, name : Names \cup {0}, folder : BOOLEAN,
         first : Clusters \cup {0}, size : Nat]

Population == UNION {Items(n) : n \in Names}

Shape ==
  /\ fat \in FATs
  /\ root \in Seq(Rows)
  /\ source \in [Names -> Population]

\* Entries and folders as owners of the first clusters of their chains.
EntryOwner(i) == <<<<"entry", i>>, root[i].first>>
FolderOwner(i) == <<<<"folder", i>>, FileIn(i).first>>
Owners == {EntryOwner(i) : i \in Live} \cup {FolderOwner(i) : i \in Folders}

FoldersPlaced == \A i \in Folders : root[i].first \in Clusters

Chained == Shape /\ Sound(fat, Owners) /\ FoldersPlaced

\* The rows are used from the front, each name once; while the volume is
\* built they are those of the host entries that have been copied.
Ordered ==
  /\ \A i \in DOMAIN root : root[i].name \in Names <=> root[i].mark = "used"
  /\ \A i, j \in DOMAIN root :
       j < i /\ root[i].mark # "unused" => root[j].mark # "unused"
  /\ phase = "building" =>
       \A i \in DOMAIN root : root[i].mark = "used" /\ source[root[i].name] = None

---------------------------------------------------------------------------
\* The contents of files are sequences.
LEMMA ContentLength ==
  /\ \A n \in Names : \A content \in Contents(n) : Len(content) \in Nat
  /\ \A item \in Population : Len(item.body) \in Nat
<1>1. \A n \in Names : \A content \in Contents(n) : Len(content) \in Nat
  BY VolumeAssumption DEF Contents
<1>2. ASSUME NEW item \in Population PROVE Len(item.body) \in Nat
  <2>1. PICK n \in Names : item \in Items(n)
    BY DEF Population
  <2>2. CASE item = None
    BY <2>2 DEF None
  <2>3. CASE item # None
    <3>1. PICK c \in Contents(n) : item = File(c) \/ item = Folder(c)
      BY <2>1, <2>3 DEF Items
    <3>2. item.body = c
      BY <3>1 DEF File, Folder
    <3> QED BY <1>1, <3>2
  <2> QED BY <2>2, <2>3
<1> QED BY <1>1, <1>2

\* An owner can be known by another name.
LEMMA Renamed ==
  ASSUME NEW f, NEW owners, NEW x, NEW y, NEW c, Sound(f, owners \cup {<<x, c>>}),
         \A p \in owners : p[1] # x /\ p[1] # y
  PROVE  Sound(f, owners \cup {<<y, c>>})
<1> DEFINE old == owners \cup {<<x, c>>}
           new == owners \cup {<<y, c>>}
<1>1. \A p \in owners : p # <<x, c>> /\ p \in old
  OBVIOUS
<1>2. <<x, c>> \in old /\ <<x, c>>[2] = c
  OBVIOUS
<1>3. \A p \in new : p \in owners \/ (p = <<y, c>> /\ p[2] = c)
  OBVIOUS
<1>4. ASSUME NEW e \in Clusters, NEW p \in new, p[2] = e
      PROVE  \E q \in old : q[2] = e
  BY <1>1, <1>2, <1>3, <1>4
<1>5. ASSUME NEW e \in Clusters, NEW p \in new, NEW q \in new, p[2] = e, q[2] = e
      PROVE  p = q
  <2>0. \A r, s \in old : r[2] = e /\ s[2] = e => r = s
    BY DEF Sound
  <2>1. CASE p \in owners /\ q \in owners
    BY <1>1, <1>5, <2>0, <2>1
  <2>2. CASE p \in owners /\ q \notin owners
    <3>1. p = <<x, c>>
      BY <1>1, <1>2, <1>3, <1>5, <2>0, <2>2
    <3> QED BY <1>1, <2>2, <3>1
  <2>3. CASE p \notin owners /\ q \in owners
    <3>1. q = <<x, c>>
      BY <1>1, <1>2, <1>3, <1>5, <2>0, <2>3
    <3> QED BY <1>1, <2>3, <3>1
  <2>4. CASE p \notin owners /\ q \notin owners
    BY <1>3, <2>4
  <2> QED BY <2>1, <2>2, <2>3, <2>4
<1>6. ASSUME NEW e \in Clusters, NEW p \in new, p[2] = e
      PROVE  f[e] # FREE /\ \A d \in Clusters : f[d] # e
  BY <1>4, <1>6 DEF Sound
<1> QED BY <1>5, <1>6 DEF Sound

\* The cluster of a folder has an owner, is in use, and is in no chain of
\* another owner.
LEMMA FolderClusters ==
  ASSUME Chained, NEW j \in Folders
  PROVE  root[j].first \in Clusters /\ fat[root[j].first] # FREE
<1>1. EntryOwner(j) \in Owners /\ EntryOwner(j)[2] = root[j].first
  BY DEF Owners, EntryOwner, Folders
<1> QED BY <1>1 DEF Chained, FoldersPlaced, Sound

\* A chain is allocated, whether or not an entry for it is found.
LEMMA FreeTaken ==
  ASSUME Shape, NEW n
  PROVE  FirstFit(fat, n) \in SUBSET Free(fat) /\ FirstFit(fat, n) \in SUBSET Clusters
BY FirstFitFree DEF Free

\* A chain starts at one of its clusters, or at 0 if it has none.
LEMMA FirstTyped ==
  ASSUME NEW S \in SUBSET Clusters
  PROVE  First(S) \in Clusters \cup {0} /\ (S # {} => First(S) \in S)
BY LowestIsLeast, ClusterNumbers DEF First

---------------------------------------------------------------------------
(* The directory.                                                          *)

\* The entry after the scanned ones is the first that was never used.
LEMMA FirstUnused ==
  ASSUME Shape, Scanned # DOMAIN root
  PROVE  LET u == Cardinality(Scanned) + 1
         IN  /\ u \in DOMAIN root /\ root[u].mark = "unused"
             /\ \A j \in 1 .. u - 1 : root[j].mark # "unused"
<1> DEFINE U == {i \in DOMAIN root : root[i].mark = "unused"}
<1>1. DOMAIN root = 1 .. Len(root) /\ Len(root) \in Nat
  BY DEF Shape
<1>2. U # {} /\ U \in SUBSET Nat
  BY <1>1 DEF Scanned
<1>3. PICK u \in U : \A y \in U : u <= y
  BY <1>2, LeastNumber
<1>4. Scanned = 1 .. u - 1
  BY <1>1, <1>3 DEF Scanned
<1>5. Cardinality(Scanned) + 1 = u
  <2>1. u \in Nat /\ u >= 1 /\ 1 \in Int /\ u - 1 \in Int
    BY <1>1, <1>3
  <2>2. Cardinality(1 .. u - 1) = IF 1 > u - 1 THEN 0 ELSE u - 1 - 1 + 1
    BY <2>1, FS_Interval
  <2> QED BY <1>4, <2>1, <2>2
<1> QED BY <1>1, <1>3, <1>5

\* The lowest of some rows is one of them.
LEMMA LowestRow ==
  ASSUME Shape, NEW R \in SUBSET DOMAIN root, R # {}
  PROVE  Lowest(R) \in R
BY LowestIsLeast DEF Shape

\* A file goes to a row of the directory: its own, or one that is not in use
\* and has no unused row before it.
LEMMA SlotSound ==
  ASSUME Shape, Ordered, NEW n \in Names, NEW i \in SlotFor(n)
  PROVE  /\ i \in DOMAIN root
         /\ \A j \in 1 .. i - 1 : root[j].mark # "unused"
         /\ i \in Named(n) => i \in Live /\ root[i].name = n
         /\ i \notin Named(n) =>
              i \notin Live /\ \A j \in Live : root[j].name # n
<1>0. DOMAIN root = 1 .. Len(root) /\ Len(root) \in Nat
  BY DEF Shape
<1>1. ASSUME NEW k \in Scanned PROVE k \in DOMAIN root /\ \A j \in 1 .. k - 1 : root[j].mark # "unused"
  BY <1>0, <1>1 DEF Scanned
<1>2. \A k \in Named(n) : k \in Live /\ root[k].name = n
  BY DEF Named, Scanned, Live, Ordered
<1>3. \A k \in Live : k \in Scanned
  BY <1>0 DEF Live, Scanned, Ordered
<1>4. CASE Named(n) # {}
  <2>1. i \in Named(n)
    BY <1>4, LowestRow DEF SlotFor, Named, Scanned
  <2> QED BY <1>1, <1>2, <2>1 DEF Named
<1>5. CASE Named(n) = {} /\ Scanned # DOMAIN root
  <2>1. i = Cardinality(Scanned) + 1
    BY <1>5 DEF SlotFor
  <2>2. /\ i \in DOMAIN root /\ root[i].mark = "unused"
        /\ \A j \in 1 .. i - 1 : root[j].mark # "unused"
    BY <1>5, <2>1, FirstUnused
  <2> QED BY <1>3, <1>5, <2>2 DEF Live, Named
<1>6. CASE Named(n) = {} /\ Scanned = DOMAIN root
  <2>1. i \in Reusable
    BY <1>6 DEF SlotFor
  <2> QED BY <1>1, <1>3, <1>6, <2>1 DEF Reusable, Live, Named
<1> QED BY <1>4, <1>5, <1>6

\* One row of the directory changes, and no other.
LEMMA RowUpdate ==
  ASSUME Shape, NEW i \in DOMAIN root, NEW r \in Rows
  PROVE  /\ [root EXCEPT ![i] = r] \in Seq(Rows)
         /\ DOMAIN [root EXCEPT ![i] = r] = DOMAIN root
         /\ [root EXCEPT ![i] = r][i] = r
         /\ \A j \in DOMAIN root : j # i => [root EXCEPT ![i] = r][j] = root[j]
BY DEF Shape

---------------------------------------------------------------------------
(* Steps.                                                                  *)

\* A write keeps the chains apart, whether it takes a new row, one whose file
\* was deleted, or that of a file or folder it replaces.
LEMMA WriteChained ==
  ASSUME Chained, Ordered, NEW n \in Names, NEW content \in Contents(n), WriteFile(n, content)
  PROVE  Chained'
<1> DEFINE S == FirstFit(fat, Len(content))
           f1 == Linked(fat, S)
<1>0. Shape /\ Sound(fat, Owners) /\ fat \in FATs
  BY DEF Chained, Shape
<1>1. PICK i \in SlotFor(n) :
         /\ root' = [root EXCEPT ![i] = Entry(n, FALSE, First(S), Len(content))]
         /\ fat' = IF i \in Named(n) THEN Freed(f1, root[i].first) ELSE f1
  BY DEF WriteFile
<1>2. /\ i \in DOMAIN root
      /\ i \in Named(n) => i \in Live
      /\ i \notin Named(n) => i \notin Live
  BY <1>0, SlotSound
<1>3. S \in SUBSET Free(fat) /\ S \in SUBSET Clusters /\ First(S) \in Clusters \cup {0}
  BY <1>0, FreeTaken, FirstTyped
<1>4. Entry(n, FALSE, First(S), Len(content)) \in Rows
  BY <1>3, ContentLength DEF Entry, Rows
<1>5. /\ root' \in Seq(Rows) /\ DOMAIN root' = DOMAIN root
      /\ root'[i] = Entry(n, FALSE, First(S), Len(content))
      /\ \A j \in DOMAIN root : j # i => root'[j] = root[j]
  BY <1>0, <1>1, <1>2, <1>4, RowUpdate
<1>6. f1 \in FATs /\ \A c \in Clusters \ S : f1[c] = fat[c]
  BY <1>0, <1>3, LinkedEntries
<1> DEFINE fresh == <<<<"new", 0>>, First(S)>>
           kept == {p \in Owners : p # EntryOwner(i) /\ p # FolderOwner(i)}
<1>7. Sound(f1, Owners \cup {fresh})
  <2>1. \A p \in Owners : p[1] # <<"new", 0>>
    BY DEF Owners, EntryOwner, FolderOwner
  <2> HIDE DEF S
  <2>2. {fresh} \subseteq {<<<<"new", 0>>, First(S)>>}
    OBVIOUS
  <2> QED BY <1>0, <1>3, <2>1, <2>2, AllocationSound
<1>8. /\ fat' \in FATs /\ Sound(fat', kept \cup {fresh})
      /\ \A j \in Live : j # i /\ root[j].first \in Clusters =>
           root[j].first \notin S /\ fat'[root[j].first] = fat[root[j].first]
  <2>1. \A j \in Live : EntryOwner(j) \in Owners /\ EntryOwner(j)[2] = root[j].first
    BY DEF Owners, EntryOwner
  <2>2. \A j \in Live : root[j].first \in Clusters => root[j].first \notin S
    BY <1>0, <1>3, <2>1 DEF Sound, Free
  <2>3. CASE i \in Named(n)
    <3>1. EntryOwner(i) \in Owners \cup {fresh} /\ EntryOwner(i)[2] = root[i].first
      BY <1>2, <2>1, <2>3
    <3>2. /\ fat' \in FATs /\ Sound(fat', (Owners \cup {fresh}) \ {EntryOwner(i)})
          /\ \A p \in (Owners \cup {fresh}) \ {EntryOwner(i)} : p[2] \notin ChainSet(f1, root[i].first)
      BY <1>1, <1>6, <1>7, <2>3, <3>1, ReleaseSound
    <3>3. Sound(fat', kept \cup {fresh})
      <4>1. kept \cup {fresh} \subseteq (Owners \cup {fresh}) \ {EntryOwner(i)}
        BY DEF EntryOwner
      <4> QED BY <3>2, <4>1, FewerOwners
    <3>4. ASSUME NEW j \in Live, j # i, root[j].first \in Clusters
          PROVE  fat'[root[j].first] = fat[root[j].first]
      <4>1. EntryOwner(j) # EntryOwner(i)
        BY <3>4 DEF EntryOwner
      <4>2. root[j].first \notin ChainSet(f1, root[i].first)
        BY <2>1, <3>2, <4>1
      <4> QED BY <1>1, <1>6, <2>2, <2>3, <3>4, <4>2 DEF Freed
    <3> QED BY <2>2, <3>2, <3>3, <3>4
  <2>4. CASE i \notin Named(n)
    <3>1. fat' = f1
      BY <1>1, <2>4
    <3>2. Sound(fat', kept \cup {fresh})
      BY <1>7, <3>1, FewerOwners
    <3> QED BY <1>6, <2>2, <3>1, <3>2
  <2> QED BY <2>3, <2>4
<1>9. Folders' = Folders \ {i} /\ Live' = Live \cup {i}
  BY <1>2, <1>5 DEF Folders, Live, Entry
<1>10. \A j \in Folders' : FileIn(j)' = FileIn(j) /\ root'[j] = root[j] /\ root[j].first \in Clusters
  <2> SUFFICES ASSUME NEW j \in Folders'
               PROVE  FileIn(j)' = FileIn(j) /\ root'[j] = root[j] /\ root[j].first \in Clusters
    OBVIOUS
  <2>1. j \in Folders /\ j # i /\ j \in Live /\ root'[j] = root[j] /\ j \in DOMAIN root
    BY <1>5, <1>9 DEF Folders, Live
  <2>2. root[j].first \in Clusters /\ fat[root[j].first] # FREE
    BY <2>1, FolderClusters
  <2>3. data'[root[j].first] = data[root[j].first]
    BY <1>8, <2>1, <2>2 DEF WriteFile, Kept, Filled
  <2> QED BY <2>1, <2>2, <2>3 DEF FileIn
<1>11. Sound(fat', kept \cup {<<<<"entry", i>>, First(S)>>})
  <2>1. \A p \in kept : p[1] # <<"new", 0>> /\ p[1] # <<"entry", i>>
    BY DEF Owners, EntryOwner, FolderOwner
  <2> QED BY <1>8, <2>1, Renamed
<1>12. Owners' \subseteq kept \cup {<<<<"entry", i>>, First(S)>>}
  <2> SUFFICES ASSUME NEW p \in Owners' PROVE p \in kept \cup {<<<<"entry", i>>, First(S)>>}
    OBVIOUS
  <2>1. CASE \E j \in Live' : p = EntryOwner(j)'
    <3>1. PICK j \in Live' : p = EntryOwner(j)'
      BY <2>1
    <3>2. CASE j = i
      BY <1>5, <3>1, <3>2 DEF EntryOwner, Entry
    <3>3. CASE j # i
      <4>1. j \in Live /\ p = EntryOwner(j)
        BY <1>5, <1>9, <3>1, <3>3 DEF EntryOwner, Live
      <4> QED BY <3>3, <4>1 DEF Owners, EntryOwner, FolderOwner
    <3> QED BY <3>2, <3>3
  <2>2. CASE \E j \in Folders' : p = FolderOwner(j)'
    <3>1. PICK j \in Folders' : p = FolderOwner(j)'
      BY <2>2
    <3>2. j \in Folders /\ j # i /\ p = FolderOwner(j)
      BY <1>9, <1>10, <3>1 DEF FolderOwner
    <3> QED BY <3>2 DEF Owners, EntryOwner, FolderOwner
  <2> QED BY <2>1, <2>2 DEF Owners
<1>13. Sound(fat', Owners')
  BY <1>11, <1>12, FewerOwners
<1>14. source' = source
  BY DEF WriteFile
<1> QED BY <1>0, <1>5, <1>8, <1>10, <1>13, <1>14 DEF Chained, Shape, FoldersPlaced

\* Deleting a file releases its chain and no other.
LEMMA DeleteChained ==
  ASSUME Chained, Ordered, NEW n \in Names, DeleteFile(n)
  PROVE  Chained'
<1> DEFINE files == {i \in Named(n) : ~ root[i].folder}
           i == Lowest(files)
<1>0. Shape /\ Sound(fat, Owners) /\ fat \in FATs
  BY DEF Chained, Shape
<1>a. source' = source
  BY DEF DeleteFile, DeleteEntry
<1>1. CASE files = {}
  <2>1. UNCHANGED <<fat, root, data>>
    BY <1>1 DEF DeleteFile, DeleteEntry
  <2>2. Live' = Live /\ Folders' = Folders /\ \A j : FileIn(j)' = FileIn(j)
    BY <2>1 DEF Live, Folders, FileIn
  <2>3. Owners' = Owners
    BY <2>1, <2>2 DEF Owners, EntryOwner, FolderOwner
  <2> QED BY <1>0, <1>a, <2>1, <2>2, <2>3 DEF Chained, Shape, FoldersPlaced
<1>2. CASE files # {}
  <2>1. /\ root' = [root EXCEPT ![i] = Deleted] /\ fat' = Freed(fat, root[i].first)
        /\ data' = Kept(data, fat')
    BY <1>2 DEF DeleteFile, DeleteEntry
  <2>2. i \in DOMAIN root /\ i \in Named(n) /\ ~ root[i].folder
    BY <1>0, <1>2, LowestRow DEF Named, Scanned
  <2>3. Deleted \in Rows /\ Deleted.mark = "deleted"
    BY DEF Deleted, Unused, Rows
  <2>4. /\ root' \in Seq(Rows) /\ DOMAIN root' = DOMAIN root /\ root'[i] = Deleted
        /\ \A j \in DOMAIN root : j # i => root'[j] = root[j]
    BY <1>0, <2>1, <2>2, <2>3, RowUpdate
  <2>5. Live' = Live \ {i} /\ Folders' = Folders /\ i \notin Folders
    BY <2>2, <2>3, <2>4 DEF Live, Folders
  <2>6. i \in Live
    BY <2>2 DEF Live, Named, Ordered
  <2> QED
    <3>1. EntryOwner(i) \in Owners /\ EntryOwner(i)[2] = root[i].first
      BY <2>6 DEF Owners, EntryOwner
    <3>2. /\ fat' \in FATs /\ Sound(fat', Owners \ {EntryOwner(i)})
          /\ \A p \in Owners \ {EntryOwner(i)} : p[2] \notin ChainSet(fat, root[i].first)
      BY <1>0, <2>1, <3>1, ReleaseSound
    <3>3. ASSUME NEW j \in Folders
          PROVE  FileIn(j)' = FileIn(j) /\ root'[j] = root[j] /\ root[j].first \in Clusters
      <4>1. j \in Live /\ j # i /\ j \in DOMAIN root
        BY <2>5, <3>3 DEF Folders, Live
      <4>2. root[j].first \in Clusters /\ fat[root[j].first] # FREE
        BY <3>3, FolderClusters
      <4>3. EntryOwner(j) \in Owners /\ EntryOwner(j)[2] = root[j].first /\ EntryOwner(j) # EntryOwner(i)
        BY <4>1 DEF Owners, EntryOwner
      <4>4. root[j].first \notin ChainSet(fat, root[i].first)
        BY <3>2, <4>3
      <4>5. fat'[root[j].first] # FREE
        BY <2>1, <4>2, <4>4 DEF Freed
      <4> QED BY <2>1, <2>4, <4>1, <4>2, <4>5 DEF Kept, FileIn
    <3>4. Owners' \subseteq Owners \ {EntryOwner(i)}
      <4>1. ASSUME NEW j \in Live' PROVE EntryOwner(j)' = EntryOwner(j) /\ j \in Live /\ j # i
        BY <2>4, <2>5, <4>1 DEF EntryOwner, Live
      <4>2. ASSUME NEW j \in Folders' PROVE FolderOwner(j)' = FolderOwner(j) /\ j \in Folders
        BY <2>5, <3>3, <4>2 DEF FolderOwner
      <4>3. \A p \in Owners' : \/ \E j \in Live' : p = EntryOwner(j)'
                               \/ \E j \in Folders' : p = FolderOwner(j)'
        BY DEF Owners
      <4>4. \A j \in Live : j # i => EntryOwner(j) \in Owners \ {EntryOwner(i)}
        BY DEF Owners, EntryOwner
      <4>5. \A j \in Folders : FolderOwner(j) \in Owners \ {EntryOwner(i)}
        BY DEF Owners, EntryOwner, FolderOwner
      <4> QED BY <4>1, <4>2, <4>3, <4>4, <4>5
    <3>5. Sound(fat', Owners')
      BY <3>2, <3>4, FewerOwners
    <3> QED BY <1>0, <1>a, <2>4, <2>5, <3>2, <3>3, <3>5 DEF Chained, Shape, FoldersPlaced
<1> QED BY <1>1, <1>2

\* An owner of no data cluster does no harm.
LEMMA NoCluster ==
  ASSUME NEW f, NEW owners, NEW more, Sound(f, owners),
         \A p \in more : p \in owners \/ p[2] \notin Clusters
  PROVE  Sound(f, more)
BY DEF Sound

\* After a step an owner is an entry or a folder of the new directory.
LEMMA OwnersOf ==
  \A p : p \in Owners' => \/ \E j \in Live' : p = EntryOwner(j)'
                          \/ \E j \in Folders' : p = FolderOwner(j)'
BY DEF Owners

\* Rows that stay and folders' clusters that stay, or stop to be folders, keep
\* the chains apart.
LEMMA RowsKept ==
  ASSUME Chained, Shape', fat' = fat,
         \A j \in Live' : j \in Live /\ root'[j] = root[j],
         \A j \in Folders' : \/ data'[root[j].first] = data[root[j].first]
                             \/ data'[root[j].first] = RootCell
  PROVE  Chained'
<1>1. ASSUME NEW j \in Folders' PROVE j \in Folders /\ root'[j] = root[j] /\ j \in Live'
  BY <1>1 DEF Folders, Live
<1>2. FoldersPlaced'
  BY <1>1 DEF FoldersPlaced, Chained
<1>3. ASSUME NEW j \in Live' PROVE EntryOwner(j)' \in Owners
  <2>1. EntryOwner(j)' = EntryOwner(j) /\ j \in Live
    BY <1>3 DEF EntryOwner
  <2> QED BY <2>1 DEF Owners
<1>4. ASSUME NEW j \in Folders' PROVE FolderOwner(j)' \in Owners \/ FolderOwner(j)'[2] \notin Clusters
  <2>1. CASE data'[root[j].first] = data[root[j].first]
    <3>1. FolderOwner(j)' = FolderOwner(j) /\ j \in Folders
      BY <1>1, <1>4, <2>1 DEF FolderOwner, FileIn
    <3> QED BY <3>1 DEF Owners
  <2>2. CASE data'[root[j].first] = RootCell
    <3>1. FileIn(j)'.first = 0
      BY <1>1, <1>4, <2>2 DEF FileIn, RootCell
    <3> QED BY <3>1, ClusterNumbers DEF FolderOwner
  <2> QED BY <1>4, <2>1, <2>2
<1>5. \A p \in Owners' : p \in Owners \/ p[2] \notin Clusters
  BY <1>3, <1>4, OwnersOf
<1>6. Sound(fat', Owners')
  BY <1>5, NoCluster DEF Chained
<1> QED BY <1>2, <1>6 DEF Chained

\* A write that finds no row keeps what it has allocated, which nothing owns.
LEMMA RootlessChained ==
  ASSUME Chained, NEW n \in Names, NEW content \in Contents(n), WriteRootless(n, content)
  PROVE  Chained'
<1> DEFINE S == FirstFit(fat, Len(content))
<1>0. Shape /\ Sound(fat, Owners) /\ fat \in FATs
  BY DEF Chained, Shape
<1>1. /\ fat' = Linked(fat, S) /\ data' = Filled(data, S, content)
      /\ root' = root /\ source' = source
  BY DEF WriteRootless
<1>2. S \in SUBSET Free(fat) /\ S \in SUBSET Clusters
  BY <1>0, FreeTaken
<1>3. fat' \in FATs
  BY <1>0, <1>1, <1>2, LinkedEntries
<1>4. Sound(fat', Owners)
  <2>1. \A p \in Owners : p[1] # <<"new", 0>>
    BY DEF Owners, EntryOwner, FolderOwner
  <2>2. {} \subseteq {<<<<"new", 0>>, First(S)>>} /\ Owners \cup {} = Owners
    OBVIOUS
  <2> HIDE DEF S
  <2> QED BY <1>0, <1>1, <1>2, <2>1, <2>2, AllocationSound
<1>5. ASSUME NEW j \in Folders PROVE FileIn(j)' = FileIn(j)
  <2>1. root[j].first \in Clusters /\ fat[root[j].first] # FREE
    BY <1>5, FolderClusters
  <2> QED BY <1>1, <1>2, <2>1 DEF Free, Filled, FileIn
<1>6. Live' = Live /\ Folders' = Folders
  BY <1>1 DEF Live, Folders
<1>7. Owners' \subseteq Owners
  <2>1. \A j \in Live' : EntryOwner(j)' \in Owners
    BY <1>1, <1>6 DEF EntryOwner, Owners
  <2>2. \A j \in Folders' : FolderOwner(j)' \in Owners
    BY <1>5, <1>6 DEF FolderOwner, Owners
  <2> QED BY <2>1, <2>2, OwnersOf
<1>8. Sound(fat', Owners')
  BY <1>4, <1>7, FewerOwners
<1> QED BY <1>0, <1>1, <1>3, <1>6, <1>8 DEF Chained, Shape, FoldersPlaced

\* The root directory is written, over data clusters if it is too long.
LEMMA DoneChained ==
  ASSUME Chained, BuildDone
  PROVE  Chained'
<1>0. Shape
  BY DEF Chained
<1>1. CASE UNCHANGED <<fat, table, root, data, source>>
  <2>1. Live' = Live /\ Folders' = Folders
    BY <1>1 DEF Live, Folders
  <2> QED BY <1>0, <1>1, <2>1, RowsKept DEF Shape, Live
<1>2. CASE ~ UNCHANGED <<fat, table, root, data, source>>
  <2>1. /\ root' = RootWritten /\ fat' = fat /\ source' = source
        /\ data' = [c \in Clusters |-> IF c \in Overwritten THEN RootCell ELSE data[c]]
    BY <1>2 DEF BuildDone, Refused
  <2>2. Unused \in Rows /\ Unused.mark = "unused"
    BY DEF Unused, Rows
  <2>3. Slots \in Nat /\ DOMAIN root = 1 .. Len(root) /\ Len(root) \in Nat
    BY <1>0, VolumeAssumption DEF Shape
  <2>4. Shape'
    <3>1. \A i \in 1 .. Slots : RootWritten[i] \in Rows
      BY <1>0, <2>2, <2>3 DEF Shape, RootWritten
    <3>2. root' \in Seq(Rows)
      BY <2>1, <2>3, <3>1 DEF RootWritten
    <3> QED BY <1>0, <2>1, <3>2 DEF Shape
  <2>5. \A j \in Live' : j \in Live /\ root'[j] = root[j]
    BY <2>1, <2>2, <2>3 DEF Live, RootWritten
  <2>6. \A j \in Folders' : root[j].first \in Clusters
    BY <2>5 DEF Folders, Chained, FoldersPlaced
  <2>7. \A j \in Folders' : \/ data'[root[j].first] = data[root[j].first]
                            \/ data'[root[j].first] = RootCell
    BY <2>1, <2>6
  <2> QED BY <2>1, <2>4, <2>5, <2>7, RowsKept
<1> QED BY <1>1, <1>2

\* First-fit for one cluster takes the lowest free one.
LEMMA FirstFitOne ==
  ASSUME NEW f, Free(f) # {}
  PROVE  \E c \in Free(f) : FirstFit(f, 1) = {c}
<1> DEFINE free == Free(f)
           before(c) == {d \in free : d < c}
<1>1. free \in SUBSET Nat /\ IsFiniteSet(free)
  BY ClusterNumbers, FS_Subset DEF Free
<1>2. \A c \in free : IsFiniteSet(before(c)) /\ Cardinality(before(c)) \in Nat
                      /\ (Cardinality(before(c)) = 0 <=> before(c) = {})
  BY <1>1, FS_Subset, FS_CardinalityType, FS_EmptySet
<1>3. \A c \in free : Cardinality(before(c)) < 1 <=> before(c) = {}
  <2> HIDE DEF free, before
  <2> QED BY <1>2
<1>4. PICK c \in free : \A d \in free : c <= d
  BY <1>1, LeastNumber
<1>5. \A d \in free : before(d) = {} <=> d = c
  BY <1>1, <1>4
<1>6. FirstFit(f, 1) = {d \in free : Cardinality(before(d)) < 1}
  BY DEF FirstFit
<1> QED BY <1>3, <1>5, <1>6

\* A host entry is copied: a file with its chain, a folder with its cluster
\* and the chain of the file in it.
LEMMA CopiedChained ==
  ASSUME Chained, NEW n \in Waiting, Need(source[n]) <= Cardinality(Free(fat)), Copied(n)
  PROVE  Chained'
<1>k. PICK k \in Nat : k = Len(root) + 1
  BY DEF Chained, Shape
<1> DEFINE item == source[n]
           folder == item.kind = "folder"
           own == IF folder THEN FirstFit(fat, 1) ELSE {}
           f1 == Linked(fat, own)
           body == FirstFit(f1, Len(item.body))
           row == IF folder THEN Entry(n, TRUE, First(own), 0)
                  ELSE Entry(n, FALSE, First(body), Len(item.body))
           inside == IF folder THEN <<"folder", k>> ELSE <<"entry", k>>
           more == IF folder THEN {<<<<"entry", k>>, First(own)>>} ELSE {}
           last == {<<inside, First(body)>>}
<1>0. Shape /\ Sound(fat, Owners) /\ fat \in FATs /\ root \in Seq(Rows)
  BY DEF Chained, Shape
<1>1. /\ fat' = Linked(f1, body)
      /\ data' = Filled(Filled(data, body, item.body), own,
                        <<FolderCell(First(body), Len(item.body))>>)
      /\ root' = Append(root, row)
      /\ source' = [source EXCEPT ![n] = None]
  BY DEF Copied
<1>2. n \in Names /\ item \in Population /\ Len(item.body) \in Nat
  BY <1>0, ContentLength DEF Waiting, Shape
<1>3. own \in SUBSET Free(fat) /\ own \in SUBSET Clusters
  BY <1>0, FreeTaken
<1>4. f1 \in FATs /\ \A c \in Clusters : f1[c] = FREE => fat[c] = FREE /\ c \notin own
  BY <1>0, <1>3, LinkedEntries, ClusterNumbers DEF Free
<1>5. body \in SUBSET Free(f1) /\ body \in SUBSET Clusters
  BY FirstFitFree DEF Free
<1>6. fat' \in FATs
  BY <1>1, <1>4, <1>5, LinkedEntries
<1>7. DOMAIN root = 1 .. Len(root) /\ Len(root) \in Nat /\ k \notin DOMAIN root
  BY <1>0, <1>k
<1>8. Sound(f1, Owners \cup more)
  <2>1. \A p \in Owners : p[1] # <<"entry", k>>
    BY <1>7 DEF Owners, EntryOwner, FolderOwner, Folders, Live
  <2>2. more \subseteq {<<<<"entry", k>>, First(own)>>}
    OBVIOUS
  <2> HIDE DEF own, more
  <2> QED BY <1>0, <1>3, <2>1, <2>2, AllocationSound
<1>9. Sound(fat', (Owners \cup more) \cup last)
  <2>1. \A p \in Owners \cup more : p[1] # inside
    BY <1>7 DEF Owners, EntryOwner, FolderOwner, Folders, Live
  <2>2. last \subseteq {<<inside, First(body)>>}
    OBVIOUS
  <2> HIDE DEF f1, own, body, inside, more, last
  <2> QED BY <1>1, <1>4, <1>5, <1>8, <2>1, <2>2, AllocationSound
<1>10. ASSUME folder
       PROVE  First(own) \in Clusters /\ data'[First(own)] = FolderCell(First(body), Len(item.body))
  <2>1. Free(fat) # {}
    <3>1. Need(item) = Len(item.body) + 1
      BY <1>10 DEF Need
    <3>2. Free(fat) = {} => Cardinality(Free(fat)) = 0
      BY FS_EmptySet
    <3> QED BY <1>2, <3>1, <3>2
  <2>2. PICK c \in Free(fat) : FirstFit(fat, 1) = {c}
    BY <2>1, FirstFitOne
  <2>3. own = {c} /\ c \in Clusters /\ c \in Nat
    BY <1>3, <1>10, <2>2, ClusterNumbers
  <2>4. First(own) = c
    BY <2>3, FirstTyped
  <2>5. Rank(own, c) = 1
    <3>1. {d \in own : d <= c} = {c}
      BY <2>3
    <3> QED BY <3>1, FS_Singleton DEF Rank
  <2>6. data'[c] = <<FolderCell(First(body), Len(item.body))>>[Rank(own, c)]
    <3> HIDE DEF own, body, item
    <3> QED BY <1>1, <2>3 DEF Filled
  <2> QED BY <2>3, <2>4, <2>5, <2>6
<1>11. row \in Rows /\ row.mark = "used" /\ row.folder = folder
       /\ row.first = IF folder THEN First(own) ELSE First(body)
  <2>1. First(own) \in Clusters \cup {0} /\ First(body) \in Clusters \cup {0}
    BY <1>3, <1>5, FirstTyped
  <2> HIDE DEF own, body, item
  <2> QED BY <1>2, <2>1 DEF Entry, Rows
<1>12. /\ root' \in Seq(Rows) /\ DOMAIN root' = DOMAIN root \cup {k} /\ root'[k] = row
       /\ \A j \in DOMAIN root : root'[j] = root[j]
  <2> HIDE DEF row
  <2> QED BY <1>0, <1>1, <1>7, <1>11, <1>k
<1>13. Live' = Live \cup {k} /\ Folders' = IF folder THEN Folders \cup {k} ELSE Folders
  <2> HIDE DEF row, folder
  <2> QED BY <1>7, <1>11, <1>12 DEF Live, Folders
<1>14. ASSUME NEW j \in Folders
       PROVE  FileIn(j)' = FileIn(j) /\ root'[j] = root[j] /\ root[j].first \in Clusters
  <2>1. root[j].first \in Clusters /\ fat[root[j].first] # FREE
    BY <1>14, FolderClusters
  <2>2. root[j].first \notin own /\ root[j].first \notin body
    BY <1>3, <1>4, <1>5, <2>1 DEF Free
  <2>3. j \in DOMAIN root
    BY <1>14 DEF Folders, Live
  <2> HIDE DEF own, body, item
  <2> QED BY <1>1, <1>12, <2>1, <2>2, <2>3 DEF Filled, FileIn
<1>15. ASSUME folder PROVE FileIn(k)'.first = First(body)
  <2> HIDE DEF own, body, item, row
  <2> QED BY <1>10, <1>11, <1>12, <1>15 DEF FileIn, FolderCell
<1>16. Owners' \subseteq (Owners \cup more) \cup last
  <2> SUFFICES ASSUME NEW p \in Owners' PROVE p \in (Owners \cup more) \cup last
    OBVIOUS
  <2>1. CASE \E j \in Live' : p = EntryOwner(j)'
    <3>1. PICK j \in Live' : p = EntryOwner(j)'
      BY <2>1
    <3>2. CASE j = k
      <4>1. p = <<<<"entry", k>>, IF folder THEN First(own) ELSE First(body)>>
        BY <1>11, <1>12, <3>1, <3>2 DEF EntryOwner
      <4> QED BY <4>1
    <3>3. CASE j # k
      <4>1. j \in Live /\ p = EntryOwner(j)
        BY <1>12, <1>13, <3>1, <3>3 DEF EntryOwner, Live
      <4> QED BY <4>1 DEF Owners
    <3> QED BY <3>2, <3>3
  <2>2. CASE \E j \in Folders' : p = FolderOwner(j)'
    <3>1. PICK j \in Folders' : p = FolderOwner(j)'
      BY <2>2
    <3>2. CASE j \in Folders
      BY <1>14, <3>1, <3>2 DEF FolderOwner, Owners
    <3>3. CASE j \notin Folders
      <4>1. folder /\ j = k
        BY <1>13, <3>1, <3>3
      <4>2. p = <<<<"folder", k>>, First(body)>>
        BY <1>15, <3>1, <4>1 DEF FolderOwner
      <4> QED BY <4>1, <4>2
    <3> QED BY <3>2, <3>3
  <2> QED BY <2>1, <2>2, OwnersOf
<1>17. Sound(fat', Owners')
  BY <1>9, <1>16, FewerOwners
<1>18. FoldersPlaced'
  <2>1. ASSUME NEW j \in Folders' PROVE root'[j].first \in Clusters
    <3>1. CASE j \in Folders
      BY <1>14, <3>1
    <3>2. CASE j \notin Folders
      <4>1. folder /\ j = k
        BY <1>13, <2>1, <3>2
      <4> QED BY <1>10, <1>11, <1>12, <4>1
    <3> QED BY <3>1, <3>2
  <2> QED BY <2>1 DEF FoldersPlaced
<1>19. source' \in [Names -> Population]
  <2>1. None \in Population
    BY <1>2 DEF Population, Items
  <2> QED BY <1>0, <1>1, <1>2, <2>1 DEF Shape
<1> QED BY <1>6, <1>12, <1>17, <1>18, <1>19 DEF Chained, Shape

---------------------------------------------------------------------------
(* The order of the rows and the names.                                    *)

\* Rows that stay keep the order and the names.
LEMMA RootKept ==
  ASSUME Ordered, NamesUnique, root' = root, phase' = "building" => phase = "building" /\ source' = source
  PROVE  Ordered' /\ NamesUnique'
<1>1. Live' = Live
  BY DEF Live
<1> QED BY <1>1 DEF Ordered, NamesUnique

\* The host lists a name once.
LEMMA CopiedOrdered ==
  ASSUME Shape, Ordered, NamesUnique, phase = "building", NEW n \in Waiting, Copied(n)
  PROVE  Ordered' /\ NamesUnique'
<1>1. /\ phase' = "building" /\ source' = [source EXCEPT ![n] = None]
      /\ \E r : root' = Append(root, r) /\ r.mark = "used" /\ r.name = n
  <2>1. \A f, c, s : Entry(n, f, c, s).mark = "used" /\ Entry(n, f, c, s).name = n
    BY DEF Entry
  <2> QED BY <2>1 DEF Copied
<1>2. PICK r : root' = Append(root, r) /\ r.mark = "used" /\ r.name = n
  BY <1>1
<1>3. PICK k \in Nat : k = Len(root) + 1
  BY DEF Shape
<1>4. /\ DOMAIN root = 1 .. k - 1 /\ DOMAIN root' = 1 .. k /\ root'[k] = r
      /\ \A j \in DOMAIN root : root'[j] = root[j]
  BY <1>2, <1>3 DEF Shape
<1>5. n \in Names /\ source[n] # None /\ DOMAIN source = Names
  BY DEF Waiting, Shape
<1>6. /\ source'[n] = None /\ \A m \in Names : source[m] = None => source'[m] = None
  BY <1>1, <1>5
<1>7. \A j \in DOMAIN root : root[j].name # n /\ root[j].name \in Names /\ root[j].mark = "used"
  BY <1>5 DEF Ordered
<1>8. \A j \in DOMAIN root' : j = k \/ j \in DOMAIN root
  BY <1>3, <1>4
<1>9. Live' = DOMAIN root'
  BY <1>2, <1>4, <1>7, <1>8 DEF Live
<1>10. NamesUnique'
  <2>1. \A i, j \in DOMAIN root : root[i].name = root[j].name => i = j
    BY <1>7 DEF NamesUnique, Live
  <2> QED BY <1>2, <1>4, <1>7, <1>8, <1>9, <2>1 DEF NamesUnique
<1>11. Ordered'
  <2>1. \A j \in DOMAIN root' : root'[j].name \in Names /\ root'[j].mark = "used" /\ source'[root'[j].name] = None
    BY <1>2, <1>4, <1>5, <1>6, <1>7, <1>8 DEF Ordered
  <2> QED BY <2>1 DEF Ordered
<1> QED BY <1>10, <1>11

\* The rows after the last host entry have never been used.
LEMMA DoneOrdered ==
  ASSUME Shape, Ordered, NamesUnique, BuildDone
  PROVE  Ordered' /\ NamesUnique'
<1>1. phase' # "building"
  BY DEF BuildDone, Refused
<1>2. CASE root' = root
  BY <1>1, <1>2, RootKept
<1>3. CASE root' # root
  <2>1. root' = RootWritten /\ phase = "building"
    BY <1>3 DEF BuildDone, Refused
  <2>2. Slots \in Nat /\ DOMAIN root = 1 .. Len(root) /\ Len(root) \in Nat
    BY VolumeAssumption DEF Shape
  <2>3. \A j \in DOMAIN root : root[j].name \in Names /\ root[j].mark = "used"
    BY <2>1 DEF Ordered
  <2>4. Unused.mark = "unused" /\ Unused.name \notin Names
    BY DEF Unused, Names
  <2>5. DOMAIN root' = 1 .. Slots
    BY <2>1 DEF RootWritten
  <2>6. \A j \in 1 .. Slots : IF j <= Len(root) THEN j \in DOMAIN root /\ root'[j] = root[j] ELSE root'[j] = Unused
    BY <2>1, <2>2 DEF RootWritten
  <2>7. \A i \in 1 .. Slots : root'[i].mark = "used" <=> i <= Len(root)
    BY <2>3, <2>4, <2>6
  <2>8. \A i \in Live' : i \in Live /\ root'[i] = root[i]
    BY <2>3, <2>5, <2>6, <2>7 DEF Live
  <2>9. NamesUnique'
    BY <2>8 DEF NamesUnique
  <2>10. Ordered'
    <3>1. \A i \in DOMAIN root' : root'[i].name \in Names <=> root'[i].mark = "used"
      BY <2>3, <2>4, <2>5, <2>6
    <3>2. ASSUME NEW i \in DOMAIN root', NEW j \in DOMAIN root', j < i, root'[i].mark # "unused"
          PROVE  root'[j].mark # "unused"
      <4>1. i \in 1 .. Slots /\ j \in 1 .. Slots
        BY <2>5
      <4>2. i <= Len(root)
        BY <2>4, <2>6, <3>2, <4>1
      <4>3. j <= Len(root)
        BY <2>2, <3>2, <4>1, <4>2
      <4> QED BY <2>7, <4>1, <4>3
    <3> QED BY <1>1, <3>1, <3>2 DEF Ordered
  <2> QED BY <2>9, <2>10
<1> QED BY <1>2, <1>3

\* A write takes the row of the name, if it has one.
LEMMA WriteOrdered ==
  ASSUME Shape, Ordered, NamesUnique, NEW n \in Names, NEW content \in Contents(n),
         WriteFile(n, content)
  PROVE  Ordered' /\ NamesUnique'
<1> DEFINE S == FirstFit(fat, Len(content))
           r == Entry(n, FALSE, First(S), Len(content))
<1>1. PICK i \in SlotFor(n) : root' = [root EXCEPT ![i] = r]
  BY DEF WriteFile
<1>2. /\ i \in DOMAIN root /\ \A j \in 1 .. i - 1 : root[j].mark # "unused"
      /\ \A j \in Live : root[j].name = n => j = i
  <2>1. i \in Named(n) => i \in Live /\ root[i].name = n
    BY SlotSound
  <2>2. i \notin Named(n) => \A j \in Live : root[j].name # n
    BY SlotSound
  <2>3. /\ i \in DOMAIN root
        /\ \A j \in 1 .. i - 1 : root[j].mark # "unused"
    BY SlotSound
  <2> QED BY <2>1, <2>2, <2>3 DEF NamesUnique
<1>3. r \in Rows /\ r.mark = "used" /\ r.name = n
  <2>1. First(S) \in Clusters \cup {0}
    BY FreeTaken, FirstTyped
  <2> HIDE DEF S
  <2> QED BY <2>1, ContentLength DEF Entry, Rows
<1> HIDE DEF r
<1>4. /\ DOMAIN root' = DOMAIN root /\ root'[i] = r
      /\ \A j \in DOMAIN root : j # i => root'[j] = root[j]
  BY <1>1, <1>2, <1>3, RowUpdate
<1>5. Live' = Live \cup {i} /\ \A j \in Live' : j # i => j \in Live /\ root'[j] = root[j] /\ root[j].name # n
  BY <1>2, <1>3, <1>4 DEF Live
<1>6. NamesUnique'
  BY <1>3, <1>4, <1>5 DEF NamesUnique
<1>7. phase' # "building"
  BY DEF WriteFile
<1>8. ASSUME NEW j \in DOMAIN root', NEW m \in DOMAIN root', j < m, root'[m].mark # "unused"
      PROVE  root'[j].mark # "unused"
  <2>1. j \in Nat /\ m \in Nat /\ j >= 1 /\ i \in Nat
    BY <1>2, <1>4, <1>8 DEF Shape
  <2>2. CASE j = i
    BY <1>3, <1>4, <2>2
  <2>3. CASE j # i /\ m = i
    BY <1>2, <1>4, <1>8, <2>1, <2>3
  <2>4. CASE j # i /\ m # i
    BY <1>4, <1>8, <2>4 DEF Ordered
  <2> QED BY <2>2, <2>3, <2>4
<1>9. \A j \in DOMAIN root' : root'[j].name \in Names <=> root'[j].mark = "used"
  BY <1>3, <1>4 DEF Ordered
<1> QED BY <1>6, <1>7, <1>8, <1>9 DEF Ordered

\* A deleted row is no longer used.
LEMMA DeleteOrdered ==
  ASSUME Shape, Ordered, NamesUnique, NEW n \in Names, DeleteFile(n)
  PROVE  Ordered' /\ NamesUnique'
<1> DEFINE files == {i \in Named(n) : ~ root[i].folder}
<1>0. phase' # "building"
  BY DEF DeleteFile, DeleteEntry
<1>1. CASE files = {}
  BY <1>0, <1>1, RootKept DEF DeleteFile, DeleteEntry
<1>2. CASE files # {}
  <2>1. PICK i : i = Lowest(files)
    OBVIOUS
  <2>2. root' = [root EXCEPT ![i] = Deleted]
    BY <1>2, <2>1 DEF DeleteFile, DeleteEntry
  <2>3. i \in DOMAIN root /\ i \in Scanned
    BY <1>2, <2>1, LowestRow DEF Named, Scanned
  <2>4. Deleted \in Rows /\ Deleted.mark = "deleted" /\ Deleted.name \notin Names
    <3>1. Deleted \in Rows /\ Deleted.mark = "deleted" /\ Deleted.name = 0
      BY DEF Deleted, Unused, Rows
    <3> QED BY <3>1 DEF Names
  <2>5. /\ DOMAIN root' = DOMAIN root /\ root'[i] = Deleted
        /\ \A j \in DOMAIN root : j # i => root'[j] = root[j]
    BY <2>2, <2>3, <2>4, RowUpdate
  <2>6. root[i].mark # "unused"
    BY <2>3 DEF Scanned, Shape
  <2>7. \A j \in Live' : j \in Live /\ root'[j] = root[j]
    BY <2>4, <2>5 DEF Live
  <2>8. NamesUnique'
    BY <2>7 DEF NamesUnique
  <2>9. \A j \in DOMAIN root' : root'[j].name \in Names <=> root'[j].mark = "used"
    BY <2>4, <2>5 DEF Ordered
  <2>10. \A j, m \in DOMAIN root' : j < m /\ root'[m].mark # "unused" => root'[j].mark # "unused"
    BY <2>4, <2>5, <2>6 DEF Ordered
  <2> QED BY <1>0, <2>8, <2>9, <2>10 DEF Ordered
<1> QED BY <1>1, <1>2

---------------------------------------------------------------------------
(* The invariant of every step, and what it means.                         *)

Volume == Chained /\ Ordered /\ NamesUnique

\* The empty volume is well formed.
LEMMA InitVolume == ASSUME Init PROVE Volume
<1>1. fat \in FATs /\ root = << >>
  BY DEF Init, BlankTable, FATs
<1>2. root \in Seq(Rows) /\ Live = {} /\ Folders = {}
  BY <1>1 DEF Live, Folders
<1>3. source \in [Names -> Population]
  BY DEF Init, Population
<1>4. Owners = {}
  BY <1>2 DEF Owners
<1>5. Sound(fat, Owners)
  <2>1. \A d \in Clusters : fat[d] = FREE
    BY DEF Init, BlankTable
  <2> QED BY <1>4, <2>1, ClusterNumbers DEF Sound
<1>6. Ordered /\ NamesUnique
  BY <1>1, <1>2 DEF Ordered, NamesUnique
<1> QED BY <1>1, <1>2, <1>3, <1>5, <1>6 DEF Volume, Chained, Shape, FoldersPlaced

\* Every step keeps the volume well formed.
LEMMA NextVolume == ASSUME Volume, [Next]_vars PROVE Volume'
<1>0. Chained /\ Shape /\ Ordered /\ NamesUnique
  BY DEF Volume, Chained
<1>1. ASSUME UNCHANGED <<fat, table, root, data, source>>,
             phase' = phase \/ phase' = "refused"
      PROVE  Volume'
  <2>1. Live' = Live /\ Folders' = Folders
    BY <1>1 DEF Live, Folders
  <2>2. Shape'
    BY <1>0, <1>1 DEF Shape
  <2>3. Chained'
    BY <1>0, <1>1, <2>1, <2>2, RowsKept
  <2>4. Ordered' /\ NamesUnique'
    BY <1>0, <1>1, RootKept
  <2> QED BY <2>3, <2>4 DEF Volume
<1>2. CASE UNCHANGED vars
  BY <1>1, <1>2 DEF vars
<1>3. CASE BuildEntry
  <2>1. Waiting # {} /\ Waiting \in SUBSET Nat /\ phase = "building"
    BY <1>3 DEF BuildEntry, Waiting, Names
  <2>2. PICK n \in Waiting : n = Lowest(Waiting)
    BY <2>1, LowestIsLeast
  <2>3. CASE Need(source[n]) > Cardinality(Free(fat))
    BY <1>1, <1>3, <2>2, <2>3 DEF BuildEntry, Refused
  <2>4. CASE ~ (Need(source[n]) > Cardinality(Free(fat)))
    <3>1. Copied(n)
      BY <1>3, <2>2, <2>4 DEF BuildEntry
    <3>2. Need(source[n]) <= Cardinality(Free(fat))
      <4>1. Need(source[n]) \in Nat
        <5>1. source[n] \in Population
          BY <1>0 DEF Waiting, Shape
        <5>2. Len(source[n].body) \in Nat
          BY <5>1, ContentLength
        <5>3. CASE source[n].kind = "folder"
          <6>1. Need(source[n]) = Len(source[n].body) + 1
            BY <5>3 DEF Need
          <6> QED BY <5>2, <6>1
        <5>4. CASE source[n].kind # "folder"
          <6>1. Need(source[n]) = Len(source[n].body) + 0
            BY <5>4 DEF Need
          <6> QED BY <5>2, <6>1
        <5> QED BY <5>3, <5>4
      <4>2. Cardinality(Free(fat)) \in Nat
        BY ClusterNumbers, FS_Subset, FS_CardinalityType DEF Free
      <4> QED BY <2>4, <4>1, <4>2
    <3> QED BY <1>0, <2>1, <3>1, <3>2, CopiedChained, CopiedOrdered DEF Volume
  <2> QED BY <2>3, <2>4
<1>4. CASE BuildDone
  BY <1>0, <1>4, DoneChained, DoneOrdered DEF Volume
<1>5. ASSUME NEW n \in Names, DeleteFile(n) PROVE Volume'
  BY <1>0, <1>5, DeleteChained, DeleteOrdered DEF Volume
<1>6. ASSUME NEW n \in Names, NEW content \in Contents(n),
             WriteFull(n, content) \/ WriteRootless(n, content) \/ WriteFile(n, content)
      PROVE  Volume'
  <2>1. CASE WriteFull(n, content)
    BY <1>1, <2>1 DEF WriteFull
  <2>2. CASE WriteRootless(n, content)
    <3>1. root' = root /\ source' = source /\ phase' = phase
      BY <2>2 DEF WriteRootless
    <3> QED BY <1>0, <2>2, <3>1, RootlessChained, RootKept DEF Volume
  <2>3. CASE WriteFile(n, content)
    BY <1>0, <2>3, WriteChained, WriteOrdered DEF Volume
  <2> QED BY <1>6, <2>1, <2>2, <2>3
<1> QED BY <1>2, <1>3, <1>4, <1>5, <1>6 DEF Next

\* Always the volume is well formed: types, chains and rows.
THEOREM VolumeWellFormed == Spec => []Volume
<1>1. Init => Volume
  BY InitVolume
<1>2. Volume /\ [Next]_vars => Volume'
  BY NextVolume
<1> QED BY <1>1, <1>2, PTL DEF Spec

\* Whatever leads to a cluster is its only owner.
LEMMA OneOwner == Chained => SingleOwner
<1> SUFFICES ASSUME Chained, NEW c \in Clusters, NEW x \in Leading(c), NEW y \in Leading(c)
             PROVE  x = y /\ fat[c] # FREE
  BY DEF SingleOwner
<1>1. Sound(fat, Owners)
  BY DEF Chained
<1>2. ASSUME NEW z \in Leading(c)
      PROVE  \/ \E p \in Owners : p[2] = c /\ z = p[1]
             \/ \E d \in Clusters : fat[d] = c /\ z = <<"link", d>>
  <2>1. CASE \E i \in Live : root[i].first = c /\ z = <<"entry", i>>
    <3>1. PICK i \in Live : root[i].first = c /\ z = <<"entry", i>>
      BY <2>1
    <3>2. EntryOwner(i) \in Owners /\ EntryOwner(i)[2] = c /\ EntryOwner(i)[1] = z
      BY <3>1 DEF Owners, EntryOwner
    <3> QED BY <3>2
  <2>2. CASE \E i \in Folders : FileIn(i).first = c /\ z = <<"folder", i>>
    <3>1. PICK i \in Folders : FileIn(i).first = c /\ z = <<"folder", i>>
      BY <2>2
    <3>2. FolderOwner(i) \in Owners /\ FolderOwner(i)[2] = c /\ FolderOwner(i)[1] = z
      BY <3>1 DEF Owners, FolderOwner
    <3> QED BY <3>2
  <2>3. CASE \E d \in Clusters : fat[d] = c /\ z = <<"link", d>>
    BY <2>3
  <2> QED BY <1>2, <2>1, <2>2, <2>3 DEF Leading
<1>3. fat[c] # FREE
  BY <1>1, <1>2 DEF Sound
<1>4. x = y
  <2>1. \A p, q \in Owners : p[2] = c /\ q[2] = c => p = q
    BY <1>1 DEF Sound
  <2>2. \A d, e \in Clusters : fat[d] = c /\ fat[e] = c => d = e
    BY <1>1 DEF Sound
  <2>3. \A p \in Owners : p[2] = c => \A d \in Clusters : fat[d] # c
    BY <1>1 DEF Sound
  <2> QED BY <1>2, <2>1, <2>2, <2>3
<1> QED BY <1>3, <1>4

\* No cluster belongs to two chains, and none in use counts as free, for every
\* size of disk and whatever is copied, written, replaced and deleted.
THEOREM ChainsApart == Spec => []SingleOwner
<1>1. Volume => SingleOwner
  BY OneOwner DEF Volume
<1> QED BY <1>1, VolumeWellFormed, PTL

\* The directory holds a name once, for every number of names and rows.
THEOREM NamesStayUnique == Spec => []NamesUnique
<1>1. Volume => NamesUnique
  BY DEF Volume
<1> QED BY <1>1, VolumeWellFormed, PTL

---------------------------------------------------------------------------
(* The table as bytes.                                                     *)

ByteTables == [Bytes -> 0 .. 255]

EntryValues == 0 .. 4095

\* The bytes of an entry, by the parity of its number.
LEMMA EntryBytes ==
  ASSUME NEW c \in 0 .. Size + 1
  PROVE  \E k \in Nat :
           /\ 3 * k \in Bytes /\ 3 * k + 1 \in Bytes /\ 3 * k + 2 \in Nat
           /\ \/ c = 2 * k /\ c % 2 = 0 /\ Offset(c) = 3 * k
              \/ c = 2 * k + 1 /\ c % 2 = 1 /\ Offset(c) = 3 * k + 1 /\ 3 * k + 2 \in Bytes
<1>1. PICK k \in Nat : c = 2 * k \/ c = 2 * k + 1
  BY TableAssumption, c \div 2 \in Nat, c = 2 * (c \div 2) + (c % 2)
<1>2. CASE c = 2 * k
  BY <1>2, TableAssumption DEF Offset, Bytes
<1>3. CASE c = 2 * k + 1
  BY <1>3, TableAssumption DEF Offset, Bytes
<1> QED BY <1>1, <1>2, <1>3

\* An entry that is written reads as written, and every other as before.
LEMMA PackedWrite ==
  ASSUME NEW b \in ByteTables, NEW c \in Clusters, NEW v \in EntryValues
  PROVE  /\ SetPacked(b, c, v) \in ByteTables
         /\ SetPacked(b, c, v)[0] = b[0]
         /\ GetPacked(SetPacked(b, c, v), c) = v
         /\ \A d \in 1 .. Size + 1 : d # c => GetPacked(SetPacked(b, c, v), d) = GetPacked(b, d)
<1> DEFINE w == SetPacked(b, c, v)
<1>0. \A i \in Bytes : b[i] \in 0 .. 255
  BY DEF ByteTables
<1>1. PICK k \in Nat :
        /\ 3 * k \in Bytes /\ 3 * k + 1 \in Bytes
        /\ \/ c = 2 * k /\ c % 2 = 0 /\ Offset(c) = 3 * k
           \/ c = 2 * k + 1 /\ c % 2 = 1 /\ Offset(c) = 3 * k + 1 /\ 3 * k + 2 \in Bytes
  <2>1. c \in 0 .. Size + 1
    BY TableAssumption DEF Clusters
  <2> QED BY <2>1, EntryBytes
<1>2. k >= 1 /\ 0 \in Bytes
  BY <1>1, TableAssumption DEF Clusters, Bytes
<1>y. PICK y \in 0 .. 255 : y = b[3 * k + 1]
  BY <1>0, <1>1
<1>v. v \in 0 .. 4095
  BY DEF EntryValues
<1>3. CASE c = 2 * k /\ c % 2 = 0 /\ Offset(c) = 3 * k
  <2>0. PICK shared \in 0 .. 255 : shared = ((y \div 16) * 16) + ((v \div 256) % 16)
    BY <1>v, SMTT(60)
  <2>1. w = [b EXCEPT ![3 * k] = v % 256, ![3 * k + 1] = shared]
    <3>1. w = [b EXCEPT ![Offset(c)] = v % 256,
                        ![Offset(c) + 1] = ((b[Offset(c) + 1] \div 16) * 16) + ((v \div 256) % 16)]
      BY <1>3 DEF SetPacked
    <3>2. Offset(c) = 3 * k /\ Offset(c) + 1 = 3 * k + 1
      BY <1>3
    <3> HIDE DEF w
    <3> QED BY <1>y, <2>0, <3>1, <3>2
  <2>2. /\ w \in ByteTables /\ w[3 * k] = v % 256 /\ w[3 * k + 1] = shared
        /\ \A i \in Bytes : i # 3 * k /\ i # 3 * k + 1 => w[i] = b[i]
    <3>1. v % 256 \in 0 .. 255
      BY <1>v
    <3> HIDE DEF w
    <3> QED BY <1>1, <2>1, <3>1, SMTT(60) DEF ByteTables
  <2>3. GetPacked(w, c) = v
    <3>1. ((v % 256) + (256 * shared)) % 4096 = v
      BY <1>v, <2>0
    <3> HIDE DEF w
    <3> QED BY <1>3, <2>2, <3>1 DEF GetPacked
  <2>4. ASSUME NEW d \in 1 .. Size + 1, d # c PROVE GetPacked(w, d) = GetPacked(b, d)
    <3>1. PICK m \in Nat :
            /\ 3 * m \in Bytes /\ 3 * m + 1 \in Bytes
            /\ \/ d = 2 * m /\ d % 2 = 0 /\ Offset(d) = 3 * m
               \/ d = 2 * m + 1 /\ d % 2 = 1 /\ Offset(d) = 3 * m + 1 /\ 3 * m + 2 \in Bytes
      <4>1. d \in 0 .. Size + 1
        BY TableAssumption
      <4> QED BY <4>1, EntryBytes
    <3>2. CASE m = k
      <4>1. d % 2 = 1 /\ Offset(d) = 3 * k + 1 /\ 3 * k + 2 \in Bytes
        BY <1>3, <2>4, <3>1, <3>2
      <4>a. PICK x \in 0 .. 255 : x = b[3 * k + 2]
        BY <1>0, <4>1
      <4>2. (shared + (256 * x)) \div 16 = (y + (256 * x)) \div 16
        BY <1>v, <2>0
      <4> HIDE DEF w
      <4>3. w[3 * k + 2] = x /\ (3 * k + 1) + 1 = 3 * k + 2
        BY <2>2, <4>1, <4>a
      <4> QED BY <1>y, <2>2, <4>1, <4>2, <4>3, <4>a DEF GetPacked
    <3>3. CASE m # k
      <4> HIDE DEF w
      <4>1. w[3 * m] = b[3 * m] /\ w[3 * m + 1] = b[3 * m + 1]
        BY <2>2, <3>1, <3>3
      <4>2. 3 * m + 2 \in Bytes => w[3 * m + 2] = b[3 * m + 2]
        BY <2>2, <3>1, <3>3
      <4>3. (3 * m + 1) + 1 = 3 * m + 2
        OBVIOUS
      <4> QED BY <3>1, <4>1, <4>2, <4>3 DEF GetPacked
    <3> QED BY <3>2, <3>3
  <2>5. w[0] = b[0]
    <3> HIDE DEF w
    <3> QED BY <1>2, <2>2
  <2> QED BY <2>2, <2>3, <2>4, <2>5
<1>4. CASE c = 2 * k + 1 /\ c % 2 = 1 /\ Offset(c) = 3 * k + 1 /\ 3 * k + 2 \in Bytes
  <2>a. PICK lower \in 0 .. 255 : lower = (y % 16) + ((v * 16) % 256)
    BY <1>v
  <2>b. PICK high \in 0 .. 255 : high = (v \div 16) % 256
    BY <1>v
  <2>0. Offset(c) + 1 = 3 * k + 2
    BY <1>4
  <2>1. w = [b EXCEPT ![3 * k + 1] = lower, ![3 * k + 2] = high]
    <3>1. w = [b EXCEPT ![Offset(c)] = (b[Offset(c)] % 16) + ((v * 16) % 256),
                        ![Offset(c) + 1] = (v \div 16) % 256]
      BY <1>4 DEF SetPacked
    <3>2. Offset(c) = 3 * k + 1
      BY <1>4
    <3> HIDE DEF w
    <3> QED BY <1>y, <2>0, <2>a, <2>b, <3>1, <3>2
  <2>2. /\ w \in ByteTables /\ w[3 * k + 1] = lower /\ w[3 * k + 2] = high
        /\ \A i \in Bytes : i # 3 * k + 1 /\ i # 3 * k + 2 => w[i] = b[i]
    <3> HIDE DEF w
    <3> QED BY <1>1, <1>4, <2>1 DEF ByteTables
  <2>3. GetPacked(w, c) = v
    <3>1. (lower + (256 * high)) \div 16 = v
      BY <1>v, <2>a, <2>b
    <3> HIDE DEF w
    <3>2. c % 2 # 0 /\ Offset(c) = 3 * k + 1
      BY <1>4
    <3>3. GetPacked(w, c) = (w[Offset(c)] + (256 * w[Offset(c) + 1])) \div 16
      BY <3>2 DEF GetPacked
    <3>4. w[Offset(c)] = lower
      BY <2>2, <3>2
    <3>5. w[Offset(c) + 1] = high
      BY <2>0, <2>2
    <3> QED BY <3>1, <3>3, <3>4, <3>5
  <2>4. ASSUME NEW d \in 1 .. Size + 1, d # c PROVE GetPacked(w, d) = GetPacked(b, d)
    <3>1. PICK m \in Nat :
            /\ 3 * m \in Bytes /\ 3 * m + 1 \in Bytes
            /\ \/ d = 2 * m /\ d % 2 = 0 /\ Offset(d) = 3 * m
               \/ d = 2 * m + 1 /\ d % 2 = 1 /\ Offset(d) = 3 * m + 1 /\ 3 * m + 2 \in Bytes
      <4>1. d \in 0 .. Size + 1
        BY TableAssumption
      <4> QED BY <4>1, EntryBytes
    <3>2. CASE m = k
      <4>1. d % 2 = 0 /\ Offset(d) = 3 * k
        BY <1>4, <2>4, <3>1, <3>2
      <4>a. PICK x \in 0 .. 255 : x = b[3 * k]
        BY <1>0, <1>1
      <4>2. (x + (256 * lower)) % 4096 = (x + (256 * y)) % 4096
        BY <1>v, <2>a
      <4> HIDE DEF w
      <4>3. w[3 * k] = x
        BY <1>1, <2>2, <4>a
      <4> QED BY <1>y, <2>2, <4>1, <4>2, <4>3, <4>a DEF GetPacked
    <3>3. CASE m # k
      <4> HIDE DEF w
      <4>1. w[3 * m] = b[3 * m] /\ w[3 * m + 1] = b[3 * m + 1]
        BY <2>2, <3>1, <3>3
      <4>2. 3 * m + 2 \in Bytes => w[3 * m + 2] = b[3 * m + 2]
        BY <2>2, <3>1, <3>3
      <4>3. (3 * m + 1) + 1 = 3 * m + 2
        OBVIOUS
      <4> QED BY <3>1, <4>1, <4>2, <4>3 DEF GetPacked
    <3> QED BY <3>2, <3>3
  <2>5. w[0] = b[0]
    <3> HIDE DEF w
    <3> QED BY <1>2, <2>2
  <2> QED BY <2>2, <2>3, <2>4, <2>5
<1> QED BY <1>1, <1>3, <1>4

---------------------------------------------------------------------------
(* The calls of set_fat_entry between two tables, one after the other.     *)

Changed(f, g) == {c \in Clusters : f[c] # g[c]}

Pick(s) == CHOOSE x \in s : TRUE

\* The bytes after the entries of each set have been written.
Folded(bytes, g, D, h) ==
  h = [s \in D |-> IF s = {} THEN bytes
                   ELSE SetPacked(h[s \ {Pick(s)}], Pick(s), g[Pick(s)])]

\* The bytes after all the calls are the value of the fold at the changed entries.
LEMMA RepackedFolds ==
  ASSUME NEW bytes, NEW f, NEW g
  PROVE  Repacked(bytes, f, g) = (CHOOSE h : Folded(bytes, g, SUBSET Changed(f, g), h))[Changed(f, g)]
BY DEF Repacked, FoldSet, MapThenFoldSet, Folded, Pick, Changed

\* The entry that is written next is one of the changed ones.
LEMMA PickIn == \A s : s # {} => Pick(s) \in s
BY DEF Pick

\* Sets of changed entries with an entry less.
LEMMA EntryLess ==
  ASSUME NEW D \in SUBSET Clusters, NEW s \in SUBSET D
  PROVE  /\ IsFiniteSet(s) /\ Cardinality(s) \in Nat
         /\ s # {} => /\ Pick(s) \in s /\ s \ {Pick(s)} \in SUBSET D
                      /\ Cardinality(s \ {Pick(s)}) = Cardinality(s) - 1
<1>1. IsFiniteSet(s)
  BY ClusterNumbers, FS_Subset
<1>2. s # {} => Pick(s) \in s
  BY PickIn
<1>3. s # {} => Cardinality(s \ {Pick(s)}) = Cardinality(s) - 1
  BY <1>1, <1>2, FS_RemoveElement
<1> QED BY <1>1, <1>2, <1>3, FS_CardinalityType

\* The recursion has a solution: it is built up by the sizes of the sets.
LEMMA FoldExists ==
  ASSUME NEW bytes, NEW g, NEW D \in SUBSET Clusters
  PROVE  \E h : Folded(bytes, g, SUBSET D, h)
<1> DEFINE Level(n) == {s \in SUBSET D : Cardinality(s) <= n}
           Bad == {n \in Nat : \A h : ~ Folded(bytes, g, Level(n), h)}
<1>1. Bad = {}
  <2> SUFFICES ASSUME Bad # {} PROVE FALSE
    OBVIOUS
  <2>1. PICK n \in Bad : \A m \in Bad : n <= m
    <3> Bad \in SUBSET Nat
      OBVIOUS
    <3> HIDE DEF Bad
    <3> QED BY LeastNumber
  <2>2. CASE n = 0
    <3> DEFINE h == [s \in Level(0) |-> bytes]
    <3>1. \A s \in Level(0) : s = {}
      <4>1. ASSUME NEW s \in Level(0), s # {} PROVE FALSE
        <5>1. Cardinality(s) \in Nat /\ Cardinality(s \ {Pick(s)}) = Cardinality(s) - 1
              /\ Cardinality(s) <= 0
          BY <4>1, EntryLess
        <5>2. Cardinality(s \ {Pick(s)}) \in Nat
          BY <4>1, EntryLess
        <5> QED BY <5>1, <5>2
      <4> QED BY <4>1
    <3>2. Folded(bytes, g, Level(0), h)
      BY <3>1 DEF Folded
    <3> QED BY <2>1, <2>2, <3>2
  <2>3. CASE n # 0
    <3>1. n \in Nat /\ n - 1 \in Nat /\ n - 1 \notin Bad
      BY <2>1, <2>3
    <3>2. PICK h : Folded(bytes, g, Level(n - 1), h)
      BY <3>1
    <3> DEFINE next == [s \in Level(n) |->
                          IF s = {} THEN bytes
                          ELSE SetPacked(h[s \ {Pick(s)}], Pick(s), g[Pick(s)])]
    <3>3. \A s \in Level(n) : s # {} => s \ {Pick(s)} \in Level(n - 1) /\ s \ {Pick(s)} \in Level(n)
      <4>1. ASSUME NEW s \in Level(n), s # {}
            PROVE  s \ {Pick(s)} \in Level(n - 1) /\ s \ {Pick(s)} \in Level(n)
        <5>1. s \in SUBSET D /\ Cardinality(s) <= n
          OBVIOUS
        <5>2. /\ Cardinality(s) \in Nat /\ s \ {Pick(s)} \in SUBSET D
              /\ Cardinality(s \ {Pick(s)}) = Cardinality(s) - 1
          BY <4>1, <5>1, EntryLess
        <5> QED BY <3>1, <5>1, <5>2
      <4> QED BY <4>1
    <3>4. \A t \in Level(n - 1) : t \in Level(n) => next[t] = h[t]
      BY <3>2 DEF Folded
    <3>5. Folded(bytes, g, Level(n), next)
      <4>1. \A s \in Level(n) : s # {} => next[s \ {Pick(s)}] = h[s \ {Pick(s)}]
        BY <3>3, <3>4
      <4>2. next = [s \in Level(n) |->
                      IF s = {} THEN bytes
                      ELSE SetPacked(next[s \ {Pick(s)}], Pick(s), g[Pick(s)])]
        BY <4>1
      <4> QED BY <4>2 DEF Folded
    <3> QED BY <2>1, <3>1, <3>5
  <2> QED BY <2>2, <2>3
<1>2. IsFiniteSet(D) /\ Cardinality(D) \in Nat
  BY EntryLess
<1>3. Level(Cardinality(D)) = SUBSET D
  <2>1. ASSUME NEW s \in SUBSET D PROVE Cardinality(s) <= Cardinality(D)
    BY <1>2, FS_Subset
  <2> QED BY <2>1
<1>4. PICK h : Folded(bytes, g, Level(Cardinality(D)), h)
  BY <1>1, <1>2
<1> QED BY <1>3, <1>4

\* The table holds the entries of f.
Held(bytes, f) ==
  /\ bytes \in ByteTables
  /\ bytes[0] = Media /\ GetPacked(bytes, 1) = 4095
  /\ \A c \in Clusters : GetPacked(bytes, c) = f[c]

\* An entry more is written.
LEMMA WrittenHolds ==
  ASSUME NEW b, NEW f, Held(b, f), NEW x \in Clusters, NEW v \in EntryValues,
         NEW m, \A c \in Clusters : m[c] = IF c = x THEN v ELSE f[c]
  PROVE  Held(SetPacked(b, x, v), m)
<1>1. /\ b \in ByteTables /\ b[0] = Media /\ GetPacked(b, 1) = 4095
      /\ \A c \in Clusters : GetPacked(b, c) = f[c]
  BY DEF Held
<1> DEFINE w == SetPacked(b, x, v)
<1>2. /\ w \in ByteTables /\ w[0] = b[0] /\ GetPacked(w, x) = v
      /\ \A d \in 1 .. Size + 1 : d # x => GetPacked(w, d) = GetPacked(b, d)
  BY <1>1, PackedWrite
<1>3. 1 \in 1 .. Size + 1 /\ 1 # x /\ \A c \in Clusters : c \in 1 .. Size + 1
  BY TableAssumption DEF Clusters
<1> HIDE DEF w
<1>4. Held(w, m)
  BY <1>1, <1>2, <1>3 DEF Held
<1> QED BY <1>4 DEF w

\* The entries of a table fit in 12 bits.
LEMMA EntriesFit == \A f \in FATs : \A c \in Clusters : f[c] \in EntryValues
<1>1. Clusters \cup {FREE, EOC} \subseteq EntryValues
  BY TableAssumption DEF Clusters, FREE, EOC, EntryValues
<1> QED BY <1>1 DEF FATs

\* Whatever the order of the calls, the table then holds the entries of g.
LEMMA RepackedHolds ==
  ASSUME NEW f \in FATs, NEW g \in FATs, NEW bytes, Held(bytes, f)
  PROVE  Held(Repacked(bytes, f, g), g)
<1> DEFINE D == Changed(f, g)
<1>1. D \in SUBSET Clusters
  BY DEF Changed
<1>2. PICK h : h = (CHOOSE e : Folded(bytes, g, SUBSET D, e)) /\ Repacked(bytes, f, g) = h[D]
  BY RepackedFolds
<1>3. Folded(bytes, g, SUBSET D, h)
  BY <1>1, <1>2, FoldExists
<1> DEFINE mixed(s) == [c \in Clusters |-> IF c \in s THEN g[c] ELSE f[c]]
           Bad == {n \in Nat : \E s \in SUBSET D : Cardinality(s) = n /\ ~ Held(h[s], mixed(s))}
<1>4. Bad = {}
  <2> SUFFICES ASSUME Bad # {} PROVE FALSE
    OBVIOUS
  <2>1. PICK n \in Bad : \A m \in Bad : n <= m
    <3> Bad \in SUBSET Nat
      OBVIOUS
    <3> HIDE DEF Bad
    <3> QED BY LeastNumber
  <2>2. n \in Nat /\ \E s \in SUBSET D : Cardinality(s) = n /\ ~ Held(h[s], mixed(s))
    BY <2>1
  <2>s. PICK s \in SUBSET D : Cardinality(s) = n /\ ~ Held(h[s], mixed(s))
    BY <2>2
  <2>3. CASE s = {}
    <3>1. h[s] = bytes
      BY <1>3, <2>3 DEF Folded
    <3>2. \A c \in Clusters : mixed(s)[c] = f[c]
      BY <2>3
    <3> QED BY <2>s, <3>1, <3>2 DEF Held
  <2>4. CASE s # {}
    <3>1. PICK x : x = Pick(s)
      OBVIOUS
    <3>2. PICK t : t = s \ {x}
      OBVIOUS
    <3>3. /\ x \in s /\ t \in SUBSET D
          /\ Cardinality(t) \in Nat /\ Cardinality(t) = Cardinality(s) - 1
      BY <1>1, <2>4, <3>1, <3>2, EntryLess, ZenonT(60)
    <3>4. h[s] = SetPacked(h[t], x, g[x])
      BY <1>3, <2>4, <3>1, <3>2 DEF Folded
    <3>5. Held(h[t], mixed(t))
      <4>1. Cardinality(t) \notin Bad
        <5> HIDE DEF Bad
        <5> QED BY <2>1, <2>2, <2>s, <3>3
      <4> QED BY <3>3, <4>1
    <3>6. x \in Clusters /\ g[x] \in EntryValues
      BY <1>1, <3>3, EntriesFit
    <3>7. \A c \in Clusters : mixed(s)[c] = IF c = x THEN g[x] ELSE mixed(t)[c]
      BY <3>2, <3>3
    <3>8. Held(SetPacked(h[t], x, g[x]), mixed(s))
      <4> HIDE DEF mixed, Bad, D
      <4> QED BY <3>5, <3>6, <3>7, WrittenHolds
    <3> QED BY <2>s, <3>4, <3>8
  <2> QED BY <2>3, <2>4
<1>5. Held(h[D], mixed(D))
  <2>1. D \in SUBSET D /\ Cardinality(D) \in Nat
    BY <1>1, EntryLess
  <2> QED BY <1>4, <2>1
<1>6. \A c \in Clusters : mixed(D)[c] = g[c]
  BY DEF Changed
<1>7. Held(h[D], g)
  <2> HIDE DEF mixed, D
  <2> QED BY <1>5, <1>6 DEF Held
<1> QED BY <1>2, <1>7

---------------------------------------------------------------------------
\* The initial table is that of an empty disk.
LEMMA BlankHeld == Held(BlankBytes, BlankTable)
<1>1. BlankBytes \in ByteTables
  BY TableAssumption DEF BlankBytes, ByteTables
<1>2. 0 \in Bytes /\ 1 \in Bytes /\ 2 \in Bytes
  BY TableAssumption DEF Bytes
<1>3. BlankBytes[0] = Media /\ BlankBytes[1] = 255 /\ BlankBytes[2] = 255
  BY <1>2 DEF BlankBytes
<1>4. GetPacked(BlankBytes, 1) = 4095
  <2>1. Offset(1) = 1 /\ 1 % 2 # 0
    BY DEF Offset
  <2>2. GetPacked(BlankBytes, 1) = (BlankBytes[1] + (256 * BlankBytes[2])) \div 16
    BY <2>1 DEF GetPacked
  <2> QED BY <1>3, <2>2
<1>5. ASSUME NEW c \in Clusters PROVE GetPacked(BlankBytes, c) = 0
  <2>1. c \in 0 .. Size + 1 /\ c >= 2
    BY TableAssumption DEF Clusters
  <2>2. PICK k \in Nat :
          /\ 3 * k \in Bytes /\ 3 * k + 1 \in Bytes
          /\ \/ c = 2 * k /\ c % 2 = 0 /\ Offset(c) = 3 * k
             \/ c = 2 * k + 1 /\ c % 2 = 1 /\ Offset(c) = 3 * k + 1 /\ 3 * k + 2 \in Bytes
    BY <2>1, EntryBytes
  <2>3. k >= 1
    BY <2>1, <2>2
  <2>4. \A i \in Bytes : i >= 3 => BlankBytes[i] = 0
    BY DEF BlankBytes
  <2>5. BlankBytes[Offset(c)] = 0 /\ BlankBytes[Offset(c) + 1] = 0
    BY <2>2, <2>3, <2>4
  <2> QED BY <2>5 DEF GetPacked
<1> QED BY <1>1, <1>3, <1>4, <1>5 DEF Held, BlankTable, FREE

\* Every step rewrites the bytes to hold the new table.
LEMMA NextHolds ==
  ASSUME Volume, Volume', Held(table, fat), [Next]_vars
  PROVE  Held(table', fat')
<1>0. fat \in FATs /\ fat' \in FATs /\ Shape
  BY DEF Volume, Chained, Shape
<1>1. CASE table' = table /\ fat' = fat
  BY <1>1
<1>2. CASE table' = Repacked(table, fat, fat')
  BY <1>0, <1>2, RepackedHolds
<1>3. ASSUME NEW n \in Names, NEW content \in Contents(n), WriteFile(n, content)
      PROVE  Held(table', fat')
  <2>1. PICK f1 : /\ f1 = Linked(fat, FirstFit(fat, Len(content)))
                  /\ table' = Repacked(Repacked(table, fat, f1), f1, fat')
    BY <1>3 DEF WriteFile
  <2>2. f1 \in FATs
    BY <1>0, <2>1, FreeTaken, LinkedEntries
  <2> QED BY <1>0, <2>1, <2>2, RepackedHolds
<1>4. CASE UNCHANGED vars
  BY <1>1, <1>4 DEF vars
<1>5. CASE BuildEntry
  BY <1>1, <1>2, <1>5 DEF BuildEntry, Refused, Copied
<1>6. CASE BuildDone
  BY <1>1, <1>6 DEF BuildDone, Refused
<1>7. ASSUME NEW n \in Names, DeleteFile(n) PROVE Held(table', fat')
  BY <1>1, <1>2, <1>7 DEF DeleteFile, DeleteEntry
<1>8. ASSUME NEW n \in Names, NEW content \in Contents(n),
             WriteFull(n, content) \/ WriteRootless(n, content) \/ WriteFile(n, content)
      PROVE  Held(table', fat')
  BY <1>1, <1>2, <1>3, <1>8 DEF WriteFull, WriteRootless
<1> QED BY <1>4, <1>5, <1>6, <1>7, <1>8 DEF Next

\* The packed table always reads as the entries last written, for every number
\* of clusters, although neighbours share a byte.
THEOREM TableAlwaysHolds == Spec => []TableHolds
<1>1. Init => Held(table, fat)
  BY BlankHeld DEF Init
<1>2. Volume /\ Volume' /\ Held(table, fat) /\ [Next]_vars => Held(table, fat)'
  BY NextHolds DEF Held
<1>3. Held(table, fat) => TableHolds
  BY DEF Held, TableHolds
<1> QED BY <1>1, <1>2, <1>3, VolumeWellFormed, PTL DEF Spec

---------------------------------------------------------------------------
(* Walks along a chain.                                                    *)

\* One number of follow_chain and the next.
Hop(f, c) == IF c \in 0 .. Size + 1 THEN EntryOf(f, c) ELSE c

Walked(f, first, n, v) == v = [i \in 0 .. n |-> IF i = 0 THEN first ELSE Hop(f, v[i - 1])]

\* The walk exists: it is built up number by number.
LEMMA WalkExists ==
  ASSUME NEW f, NEW first, NEW n \in Nat
  PROVE  \E v : Walked(f, first, n, v)
<1> DEFINE Bad == {m \in Nat : \A v : ~ Walked(f, first, m, v)}
<1>1. SUFFICES ASSUME Bad # {} PROVE FALSE
  OBVIOUS
<1>2. PICK m \in Bad : \A k \in Bad : m <= k
  <2> Bad \in SUBSET Nat
    OBVIOUS
  <2> HIDE DEF Bad
  <2> QED BY <1>1, LeastNumber
<1>3. CASE m = 0
  <2> DEFINE v == [i \in 0 .. 0 |-> first]
  <2>1. Walked(f, first, 0, v)
    BY DEF Walked
  <2> QED BY <1>2, <1>3, <2>1
<1>4. CASE m # 0
  <2>1. m \in Nat /\ m - 1 \in Nat /\ m - 1 \notin Bad
    BY <1>2, <1>4
  <2>2. PICK v : Walked(f, first, m - 1, v)
    BY <2>1
  <2> DEFINE w == [i \in 0 .. m |-> IF i = 0 THEN first ELSE Hop(f, v[i - 1])]
  <2>3. \A i \in 0 .. m - 1 : w[i] = v[i]
    BY <2>1, <2>2 DEF Walked
  <2>4. w = [i \in 0 .. m |-> IF i = 0 THEN first ELSE Hop(f, w[i - 1])]
    <3>1. \A i \in 0 .. m : i # 0 => i - 1 \in 0 .. m - 1
      BY <2>1
    <3> HIDE DEF w
    <3>2. \A i \in 0 .. m : i # 0 => w[i - 1] = v[i - 1]
      BY <2>3, <3>1
    <3>3. w = [i \in 0 .. m |-> IF i = 0 THEN first ELSE Hop(f, v[i - 1])]
      BY DEF w
    <3> QED BY <3>2, <3>3
  <2>5. Walked(f, first, m, w)
    BY <2>4 DEF Walked
  <2> QED BY <1>2, <2>1, <2>5
<1> QED BY <1>3, <1>4

\* follow_chain begins at the first cluster and hops along the entries.
LEMMA VisitedSteps ==
  ASSUME NEW f, NEW first
  PROVE  /\ Visited(f, first) = [i \in 0 .. Size + 2 |-> Visited(f, first)[i]]
         /\ Visited(f, first)[0] = first
         /\ \A i \in 1 .. Size + 2 : Visited(f, first)[i] = Hop(f, Visited(f, first)[i - 1])
<1> DEFINE v == CHOOSE w : Walked(f, first, Size + 2, w)
<1>0. Size + 2 \in Nat
  BY TableAssumption
<1>1. Walked(f, first, Size + 2, v)
  BY <1>0, WalkExists
<1>2. Visited(f, first) = v
  BY DEF Visited, Walked, Hop
<1> HIDE DEF v
<1>3. v = [i \in 0 .. Size + 2 |-> IF i = 0 THEN first ELSE Hop(f, v[i - 1])]
  BY <1>1 DEF Walked
<1>4. 0 \in 0 .. Size + 2 /\ \A i \in 1 .. Size + 2 : i \in 0 .. Size + 2 /\ i # 0
  BY <1>0
<1>5. v[0] = first /\ \A i \in 1 .. Size + 2 : v[i] = Hop(f, v[i - 1])
  BY <1>3, <1>4
<1>6. v = [i \in 0 .. Size + 2 |-> v[i]]
  BY <1>3
<1> QED BY <1>2, <1>5, <1>6

\* A walk from a cluster stays in the chain or has met the end mark, and two
\* tables that agree on the chain are walked alike.
LEMMA WalkStays ==
  ASSUME NEW f \in FATs, NEW first \in Clusters,
         \A c \in ChainSet(f, first) : f[c] # FREE,
         NEW g, \A c \in ChainSet(f, first) : g[c] = f[c]
  PROVE  \A i \in 0 .. Size + 2 :
           /\ Visited(f, first)[i] \in ChainSet(f, first) \cup {EOC}
           /\ Visited(g, first)[i] = Visited(f, first)[i]
<1> DEFINE C == ChainSet(f, first)
           v == Visited(f, first)
           w == Visited(g, first)
           Bad == {i \in 0 .. Size + 2 : ~ (v[i] \in C \cup {EOC} /\ w[i] = v[i])}
<1>1. SUFFICES ASSUME Bad # {} PROVE FALSE
  OBVIOUS
<1>2. PICK m \in Bad : \A i \in Bad : m <= i
  <2> Bad \in SUBSET Nat
    OBVIOUS
  <2> HIDE DEF Bad
  <2> QED BY <1>1, LeastNumber
<1>3. m \in 0 .. Size + 2 /\ Size \in Nat /\ ~ (v[m] \in C \cup {EOC} /\ w[m] = v[m])
  BY <1>2, TableAssumption
<1>4. C \subseteq Clusters /\ first \in C /\ Closed(f, C)
  BY ChainLeast
<1>5. /\ v[0] = first /\ \A i \in 1 .. Size + 2 : v[i] = Hop(f, v[i - 1])
      /\ w[0] = first /\ \A i \in 1 .. Size + 2 : w[i] = Hop(g, w[i - 1])
  BY VisitedSteps
<1>6. m # 0
  BY <1>3, <1>4, <1>5
<1>7. m - 1 \in 0 .. Size + 2 /\ m \in 1 .. Size + 2 /\ m - 1 < m
  BY <1>3, <1>6
<1>8. v[m - 1] \in C \cup {EOC} /\ w[m - 1] = v[m - 1]
  <2>1. m - 1 \notin Bad
    BY <1>2, <1>7
  <2> QED BY <1>7, <2>1
<1> HIDE DEF C, v, w, Bad
<1>9. CASE v[m - 1] \in C
  <2> DEFINE c == v[m - 1]
  <2>0. c \in Clusters
    BY <1>4, <1>9
  <2> HIDE DEF c
  <2>1. c \in Clusters /\ c \in 0 .. Size + 1 /\ c # 0 /\ c # 1
    BY <1>3, <2>0 DEF Clusters
  <2>2. Hop(f, c) = f[c] /\ Hop(g, c) = g[c]
    BY <2>1 DEF Hop, EntryOf
  <2>3. f[c] \in Clusters \cup {EOC} /\ g[c] = f[c]
    BY <1>9, <2>1 DEF FATs, C, c
  <2>4. f[c] \in C \cup {EOC}
    BY <1>4, <1>9, <2>3 DEF Closed, c
  <2> QED BY <1>3, <1>5, <1>7, <1>8, <2>2, <2>3, <2>4 DEF c
<1>10. CASE v[m - 1] = EOC
  <2>1. EOC \notin 0 .. Size + 1
    BY TableAssumption DEF EOC
  <2>2. Hop(f, EOC) = EOC /\ Hop(g, EOC) = EOC
    BY <2>1 DEF Hop
  <2> QED BY <1>3, <1>5, <1>7, <1>8, <1>10, <2>2
<1> QED BY <1>8, <1>9, <1>10

---------------------------------------------------------------------------
(* What first-fit takes, counted.                                          *)

\* First-fit takes as many clusters as it is asked for, if there are.
LEMMA FirstFitSize ==
  ASSUME NEW f, NEW n \in Nat, n <= Cardinality(Free(f))
  PROVE  Cardinality(FirstFit(f, n)) = n
<1> DEFINE free == Free(f)
           Below(c) == {d \in free : d < c}
           Bad == {m \in Nat : m <= Cardinality(free) /\ Cardinality(FirstFit(f, m)) # m}
<1>1. SUFFICES ASSUME Bad # {} PROVE FALSE
  OBVIOUS
<1>2. PICK m \in Bad : \A k \in Bad : m <= k
  <2> Bad \in SUBSET Nat
    OBVIOUS
  <2> HIDE DEF Bad
  <2> QED BY <1>1, LeastNumber
<1>3. /\ free \in SUBSET Nat /\ IsFiniteSet(free) /\ Cardinality(free) \in Nat
      /\ \A T \in SUBSET free : IsFiniteSet(T) /\ Cardinality(T) \in Nat
  <2>1. free \in SUBSET Clusters /\ IsFiniteSet(Clusters) /\ Clusters \subseteq Nat
    BY ClusterNumbers DEF Free
  <2>2. IsFiniteSet(free)
    BY <2>1, FS_Subset
  <2> QED BY <2>1, <2>2, FS_Subset, FS_CardinalityType
<1>4. \A k : FirstFit(f, k) = {c \in free : Cardinality(Below(c)) < k}
  BY DEF FirstFit
<1>5. \A c : Below(c) \in SUBSET free
  OBVIOUS
<1>6. CASE m = 0
  <2>0. \A c : Cardinality(Below(c)) \in Nat
    BY <1>3, <1>5
  <2>1. FirstFit(f, 0) = {}
    <3> HIDE DEF Below
    <3> QED BY <1>4, <2>0
  <2> QED BY <1>2, <1>6, <2>1, FS_EmptySet
<1>7. CASE m # 0
  <2> DEFINE k == m - 1
             taken == FirstFit(f, k)
             R == free \ taken
  <2>1. m \in Nat /\ k \in Nat /\ k < m /\ m <= Cardinality(free) /\ k \notin Bad
    BY <1>2, <1>7
  <2>2. Cardinality(taken) = k /\ taken \in SUBSET free
    <3>1. k <= Cardinality(free)
      BY <1>3, <2>1
    <3>2. taken \in SUBSET free
      BY <1>4
    <3> HIDE DEF k, taken
    <3>3. k \in Nat /\ (k \in Bad <=> k <= Cardinality(free) /\ Cardinality(FirstFit(f, k)) # k)
      BY <2>1
    <3> QED BY <2>1, <3>1, <3>2, <3>3 DEF taken
  <2>3. R # {} /\ R \in SUBSET Nat
    <3>1. taken # free
      BY <1>3, <2>1, <2>2
    <3> QED BY <1>3, <2>2, <3>1
  <2> HIDE DEF k, taken, R
  <2>4. PICK x \in R : \A y \in R : x <= y
    BY <2>3, LeastNumber
  <2>5. x \in free /\ x \in Nat /\ x \notin taken
    BY <1>3, <2>4 DEF R
  <2>6. \A c \in free : c \in taken <=> Cardinality(Below(c)) < k
    BY <1>4 DEF taken
  <2>7. Below(x) = taken
    <3>1. ASSUME NEW d \in Below(x) PROVE d \in taken
      <4>1. d \in free /\ d \in Nat /\ d < x
        BY <1>3
      <4> QED BY <2>4, <2>5, <4>1 DEF R
    <3>2. ASSUME NEW d \in taken PROVE d \in Below(x)
      <4>1. d \in free /\ d \in Nat /\ d # x
        BY <1>3, <2>2, <2>5
      <4>2. CASE x < d
        <5>1. Below(x) \in SUBSET Below(d)
          BY <1>3, <2>5, <4>1, <4>2
        <5>2. Cardinality(Below(x)) <= Cardinality(Below(d))
          BY <1>3, <1>5, <5>1, FS_Subset
        <5>3. Cardinality(Below(d)) < k /\ ~ (Cardinality(Below(x)) < k)
          BY <2>5, <2>6, <3>2, <4>1
        <5>4. Cardinality(Below(d)) \in Nat /\ Cardinality(Below(x)) \in Nat
          BY <1>3, <1>5
        <5> HIDE DEF Below
        <5> QED BY <2>1, <5>2, <5>3, <5>4 DEF k
      <4> QED BY <2>5, <4>1, <4>2
    <3> QED BY <3>1, <3>2
  <2>8. FirstFit(f, m) = taken \cup {x}
    <3>1. \A c \in free : c \in FirstFit(f, m) <=> Cardinality(Below(c)) < m
      BY <1>4
    <3>2. ASSUME NEW c \in taken PROVE c \in FirstFit(f, m)
      <4>1. c \in free /\ Cardinality(Below(c)) < k /\ Cardinality(Below(c)) \in Nat
        BY <1>3, <1>5, <2>2, <2>6, <3>2
      <4> QED BY <2>1, <3>1, <4>1
    <3>3. x \in FirstFit(f, m)
      BY <2>1, <2>2, <2>5, <2>7, <3>1
    <3>4. ASSUME NEW c \in FirstFit(f, m), c \notin taken, c # x PROVE FALSE
      <4>1. c \in free /\ c \in Nat /\ c \in R
        BY <1>3, <1>4, <3>4 DEF R
      <4>2. x < c
        BY <2>4, <2>5, <3>4, <4>1
      <4>3. taken \cup {x} \in SUBSET Below(c)
        <5>1. \A d \in taken : d \in free /\ d \in Nat /\ d < x
          BY <1>3, <2>2, <2>7
        <5> QED BY <2>5, <4>1, <4>2, <5>1
      <4>4. Cardinality(taken \cup {x}) = k + 1
        BY <1>3, <2>2, <2>5, FS_AddElement
      <4>5. Cardinality(taken \cup {x}) <= Cardinality(Below(c)) /\ Cardinality(Below(c)) \in Nat
        BY <1>3, <1>5, <4>3, FS_Subset
      <4>6. Cardinality(Below(c)) < m
        BY <3>1, <3>4, <4>1
      <4> HIDE DEF Below
      <4> QED BY <2>1, <4>4, <4>5, <4>6 DEF k
    <3> QED BY <3>2, <3>3, <3>4
  <2>9. Cardinality(FirstFit(f, m)) = m
    <3>1. Cardinality(taken \cup {x}) = k + 1
      BY <1>3, <2>2, <2>5, FS_AddElement
    <3> QED BY <2>1, <2>8, <3>1 DEF k
  <2> QED BY <1>2, <2>9
<1> QED BY <1>6, <1>7


---------------------------------------------------------------------------
(* What has been written is read.                                          *)

\* Places in a set of clusters are counted from 1, and each cluster's next one
\* has the next place.
LEMMA Ranks ==
  ASSUME NEW S \in SUBSET Clusters
  PROVE  /\ IsFiniteSet(S) /\ Cardinality(S) \in 0 .. Size
         /\ \A c \in S : Rank(S, c) \in 1 .. Cardinality(S)
         /\ \A c, d \in S : Rank(S, c) = Rank(S, d) => c = d
         /\ S # {} => First(S) \in S /\ Rank(S, First(S)) = 1
         /\ \A c \in S : Rank(S, c) < Cardinality(S) =>
              /\ Above(S, c) # {} /\ Lowest(Above(S, c)) \in S
              /\ Rank(S, Lowest(Above(S, c))) = Rank(S, c) + 1
<1> DEFINE Upto(c) == {d \in S : d <= c}
<1>1. S \in SUBSET Nat /\ IsFiniteSet(S) /\ Cardinality(S) \in 0 .. Size
  <2>1. Cardinality(Clusters) = Size
    <3>1. 2 \in Int /\ Size + 1 \in Int
      BY TableAssumption
    <3>2. PICK t \in Int : t = Size + 1
      BY <3>1
    <3>3. Cardinality(2 .. t) = IF 2 > t THEN 0 ELSE t - 2 + 1
      BY FS_Interval
    <3>4. Cardinality(2 .. t) = Size
      <4>1. ~ (2 > t) /\ t - 2 + 1 = Size
        BY <3>2, TableAssumption
      <4>2. PICK n : n = Cardinality(2 .. t)
        OBVIOUS
      <4>3. n = t - 2 + 1
        BY <3>3, <4>1, <4>2
      <4> QED BY <4>1, <4>2, <4>3
    <3>5. Clusters = 2 .. t
      BY <3>2 DEF Clusters
    <3> QED BY <3>4, <3>5
  <2>2. IsFiniteSet(S) /\ Cardinality(S) <= Size
    BY <2>1, ClusterNumbers, FS_Subset
  <2>3. Cardinality(S) \in Nat /\ Size \in Nat
    BY <2>2, FS_CardinalityType, TableAssumption
  <2> QED BY <2>2, <2>3, ClusterNumbers
<1>2. \A c : Rank(S, c) = Cardinality(Upto(c))
  BY DEF Rank
<1>3. \A c : Upto(c) \in SUBSET S /\ IsFiniteSet(Upto(c)) /\ Cardinality(Upto(c)) \in Nat
             /\ Cardinality(Upto(c)) <= Cardinality(S)
             /\ (Cardinality(Upto(c)) = Cardinality(S) => Upto(c) = S)
  <2>1. \A c : Upto(c) \in SUBSET S
    OBVIOUS
  <2> HIDE DEF Upto
  <2> QED BY <1>1, <2>1, FS_Subset, FS_CardinalityType
<1>4. ASSUME NEW c \in S, NEW d \in S, c < d PROVE Cardinality(Upto(c)) < Cardinality(Upto(d))
  <2>0. c \in Nat /\ d \in Nat
    BY <1>1
  <2>1. Upto(c) \cup {d} \in SUBSET Upto(d) /\ d \notin Upto(c)
    <3>1. \A e \in S : e \in Nat /\ (e <= c => e <= d)
      BY <1>1, <1>4, <2>0
    <3>2. d <= d /\ ~ (d <= c)
      BY <1>4, <2>0
    <3> QED BY <3>1, <3>2
  <2>2. Cardinality(Upto(c) \cup {d}) = Cardinality(Upto(c)) + 1
    BY <1>3, <2>1, FS_AddElement
  <2>3. Cardinality(Upto(c) \cup {d}) <= Cardinality(Upto(d))
    BY <1>3, <2>1, FS_Subset
  <2>4. Cardinality(Upto(c)) \in Nat /\ Cardinality(Upto(d)) \in Nat
    BY <1>3
  <2> HIDE DEF Upto
  <2> QED BY <2>2, <2>3, <2>4
<1>5. ASSUME NEW c \in S PROVE Cardinality(Upto(c)) \in 1 .. Cardinality(S)
  <2>1. c \in Upto(c)
    BY <1>1
  <2>2. Cardinality(Upto(c)) # 0
    BY <1>3, <2>1, FS_EmptySet
  <2> HIDE DEF Upto
  <2> QED BY <1>1, <1>3, <2>2
<1>6. ASSUME NEW c \in S, NEW d \in S, Cardinality(Upto(c)) = Cardinality(Upto(d)) PROVE c = d
  <2>1. c \in Nat /\ d \in Nat
    BY <1>1
  <2>2. Cardinality(Upto(c)) \in Nat
    BY <1>3
  <2>3. ~ (c < d) /\ ~ (d < c)
    <3>1. c < d => Cardinality(Upto(c)) < Cardinality(Upto(d))
      BY <1>4
    <3>2. d < c => Cardinality(Upto(d)) < Cardinality(Upto(c))
      BY <1>4
    <3> HIDE DEF Upto
    <3> QED BY <1>6, <2>2, <3>1, <3>2
  <2> QED BY <2>1, <2>3
<1>7. ASSUME S # {} PROVE First(S) \in S /\ Cardinality(Upto(First(S))) = 1
  <2>1. First(S) \in S /\ \A d \in S : First(S) <= d
    BY <1>1, <1>7, LowestIsLeast DEF First
  <2>2. Upto(First(S)) = {First(S)}
    <3>1. \A d \in S : d \in Nat /\ First(S) \in Nat
      BY <1>1, <2>1
    <3> QED BY <2>1, <3>1
  <2> QED BY <2>1, <2>2, FS_Singleton
<1>8. ASSUME NEW c \in S, Cardinality(Upto(c)) < Cardinality(S)
      PROVE  /\ Above(S, c) # {} /\ Lowest(Above(S, c)) \in S
             /\ Cardinality(Upto(Lowest(Above(S, c)))) = Cardinality(Upto(c)) + 1
  <2>1. Above(S, c) # {}
    <3> SUFFICES ASSUME Above(S, c) = {} PROVE FALSE
      OBVIOUS
    <3>1. \A d \in S : d \in Nat /\ c \in Nat /\ ~ (c < d)
      BY <1>1 DEF Above
    <3>2. Upto(c) = S
      BY <3>1
    <3> QED BY <1>1, <1>8, <3>2
  <2>2. Above(S, c) \in SUBSET Nat /\ Above(S, c) \in SUBSET S
    BY <1>1 DEF Above
  <2> DEFINE e == Lowest(Above(S, c))
  <2>3. e \in Above(S, c) /\ \A d \in Above(S, c) : e <= d
    BY <2>1, <2>2, LowestIsLeast
  <2> HIDE DEF e
  <2>4. e \in S /\ e \in Nat /\ c \in Nat /\ c < e /\ \A d \in S : d \in Nat /\ (c < d => e <= d)
    BY <1>1, <2>3 DEF Above
  <2>5. Upto(e) = Upto(c) \cup {e} /\ e \notin Upto(c)
    <3>1. \A d \in S : d <= e <=> d <= c \/ d = e
      BY <2>4
    <3>2. ~ (e <= c)
      BY <2>4
    <3> QED BY <2>4, <3>1, <3>2
  <2>6. Cardinality(Upto(e)) = Cardinality(Upto(c)) + 1
    BY <1>3, <2>5, FS_AddElement
  <2> QED BY <2>1, <2>4, <2>6 DEF e
<1> HIDE DEF Upto
<1> QED BY <1>1, <1>2, <1>5, <1>6, <1>7, <1>8

\* The walk from the lowest of some linked clusters meets them in their order.
LEMMA NewWalk ==
  ASSUME NEW f, NEW S \in SUBSET Clusters, NEW g, \A c \in S : g[c] = Linked(f, S)[c]
  PROVE  \A k \in 1 .. Cardinality(S) :
           /\ k - 1 \in 0 .. Size + 2
           /\ Visited(g, First(S))[k - 1] \in S
           /\ Rank(S, Visited(g, First(S))[k - 1]) = k
<1> DEFINE v == Visited(g, First(S))
           Bad == {k \in 1 .. Cardinality(S) : ~ (v[k - 1] \in S /\ Rank(S, v[k - 1]) = k)}
<1>1. Cardinality(S) \in 0 .. Size /\ Size \in Nat
  BY Ranks, TableAssumption
<1>2. \A k \in 1 .. Cardinality(S) : k - 1 \in 0 .. Size + 2
  BY <1>1
<1>3. ASSUME Bad # {} PROVE FALSE
  <2>1. PICK m \in Bad : \A k \in Bad : m <= k
    <3> Bad \in SUBSET Nat
      BY <1>1
    <3> HIDE DEF Bad
    <3> QED BY <1>3, LeastNumber
  <2>2. m \in 1 .. Cardinality(S) /\ m \in Nat /\ ~ (v[m - 1] \in S /\ Rank(S, v[m - 1]) = m)
    BY <1>1, <2>1
  <2>3. S # {}
    <3>1. S = {} => Cardinality(S) = 0
      BY FS_EmptySet
    <3> QED BY <2>2, <3>1
  <2>4. v[0] = First(S) /\ \A i \in 1 .. Size + 2 : v[i] = Hop(g, v[i - 1])
    BY VisitedSteps
  <2>5. First(S) \in S /\ Rank(S, First(S)) = 1
    BY <2>3, Ranks
  <2>6. m # 1
    BY <2>2, <2>4, <2>5
  <2>7. m - 1 \in 1 .. Cardinality(S) /\ m - 1 < m /\ m - 1 \in 1 .. Size + 2 /\ m - 1 < Cardinality(S)
    BY <1>1, <2>2, <2>6
  <2>8. v[m - 1 - 1] \in S /\ Rank(S, v[m - 1 - 1]) = m - 1
    <3>1. m - 1 \notin Bad
      BY <2>1, <2>2, <2>7
    <3> QED BY <2>7, <3>1
  <2>9. v[m - 1] = Hop(g, v[m - 1 - 1])
    BY <2>4, <2>7
  <2> HIDE DEF v, Bad
  <2>10. PICK c \in S : c = v[m - 1 - 1]
    BY <2>8
  <2>11. /\ Above(S, c) # {} /\ Lowest(Above(S, c)) \in S
         /\ Rank(S, Lowest(Above(S, c))) = m
    <3>1. Rank(S, c) = m - 1 /\ Rank(S, c) < Cardinality(S)
      BY <2>7, <2>8, <2>10
    <3>2. Rank(S, Lowest(Above(S, c))) = m - 1 + 1
      BY <3>1, Ranks
    <3>3. m - 1 + 1 = m
      BY <2>2
    <3> QED BY <3>1, <3>2, <3>3, Ranks
  <2>12. c \in Clusters /\ c \in 0 .. Size + 1 /\ c # 0 /\ c # 1
    <3>1. c \in Clusters
      OBVIOUS
    <3> QED BY <1>1, <3>1 DEF Clusters
  <2>13. Hop(g, c) = Lowest(Above(S, c))
    <3>1. Hop(g, c) = g[c]
      BY <2>12 DEF Hop, EntryOf
    <3>2. g[c] = Lowest(Above(S, c))
      BY <2>11, <2>12 DEF Linked
    <3> QED BY <3>1, <3>2
  <2> QED BY <2>2, <2>9, <2>10, <2>11, <2>13
<1> HIDE DEF v
<1> QED BY <1>2, <1>3 DEF v

\* What read_file returns, for a table and the contents of the clusters.
ReadOf(f, d, first, size) ==
  LET met == Visited(f, first)
  IN [k \in {j \in 1 .. size : met[j - 1] \in Clusters} |-> d[met[k - 1]]]

\* A content of a given length.
Filling(content, size) == content = [i \in 1 .. size |-> content[i]]

\* What write_data put into new clusters is what read_file returns.
LEMMA NewRead ==
  ASSUME NEW S \in SUBSET Clusters, NEW g, NEW size \in Nat,
         \A k \in 1 .. size : /\ Visited(g, First(S))[k - 1] \in S
                              /\ Rank(S, Visited(g, First(S))[k - 1]) = k,
         NEW content, Filling(content, size),
         NEW d, \A c \in S : d[c] = content[Rank(S, c)]
  PROVE  ReadOf(g, d, First(S), size) = content
<1> DEFINE v == Visited(g, First(S))
<1>1. \A k \in 1 .. size : v[k - 1] \in S /\ Rank(S, v[k - 1]) = k
  OBVIOUS
<1> HIDE DEF v
<1>2. \A k \in 1 .. size : v[k - 1] \in Clusters /\ d[v[k - 1]] = content[k]
  BY <1>1
<1>3. {j \in 1 .. size : v[j - 1] \in Clusters} = 1 .. size
  BY <1>2
<1>4. ReadOf(g, d, First(S), size) = [k \in 1 .. size |-> d[v[k - 1]]]
  BY <1>3 DEF ReadOf, v
<1>5. [k \in 1 .. size |-> d[v[k - 1]]] = [k \in 1 .. size |-> content[k]]
  BY <1>2
<1> QED BY <1>4, <1>5 DEF Filling

\* The new clusters are the whole chain.
LEMMA NewChain ==
  ASSUME NEW f, NEW S \in SUBSET Clusters, NEW g \in FATs, \A c \in S : g[c] = Linked(f, S)[c]
  PROVE  S \subseteq ChainSet(g, First(S))
<1> SUFFICES ASSUME NEW c \in S PROVE c \in ChainSet(g, First(S))
  OBVIOUS
<1> DEFINE v == Visited(g, First(S))
           C == ChainSet(g, First(S))
           n == Cardinality(S)
           Bad == {k \in 1 .. n : v[k - 1] \notin C}
<1>1. n \in 0 .. Size /\ Size \in Nat /\ First(S) \in S
  BY Ranks, TableAssumption
<1>2. \A k \in 1 .. n : v[k - 1] \in S /\ Rank(S, v[k - 1]) = k
  BY NewWalk
<1>3. v[0] = First(S) /\ \A i \in 1 .. Size + 2 : v[i] = Hop(g, v[i - 1])
  BY VisitedSteps
<1>4. First(S) \in C /\ Closed(g, C)
  BY <1>1, ChainLeast
<1> HIDE DEF v, C, n
<1>5. ASSUME Bad # {} PROVE FALSE
  <2>1. PICK m \in Bad : \A k \in Bad : m <= k
    <3> Bad \in SUBSET Nat
      BY <1>1
    <3> HIDE DEF Bad
    <3> QED BY <1>5, LeastNumber
  <2>2. m \in 1 .. n /\ m \in Nat /\ v[m - 1] \notin C
    BY <1>1, <2>1
  <2>3. m # 1
    BY <1>3, <1>4, <2>2
  <2>4. m - 1 \in 1 .. n /\ m - 1 < m /\ m - 1 \in 1 .. Size + 2
    BY <1>1, <2>2, <2>3
  <2>5. v[m - 1 - 1] \in C
    <3>1. m - 1 \notin Bad
      BY <2>1, <2>2, <2>4
    <3> QED BY <2>4, <3>1
  <2>6. v[m - 1] = Hop(g, v[m - 1 - 1])
    BY <1>3, <2>4
  <2>7. v[m - 1 - 1] \in S /\ v[m - 1] \in S
    BY <1>2, <2>2, <2>4
  <2>8. PICK e \in S : e = v[m - 1 - 1]
    BY <2>7
  <2>9. e \in Clusters /\ e \in 0 .. Size + 1 /\ e # 0 /\ e # 1
    <3>1. e \in Clusters
      OBVIOUS
    <3> QED BY <1>1, <3>1 DEF Clusters
  <2>10. Hop(g, e) = g[e]
    BY <2>9 DEF Hop, EntryOf
  <2>11. g[e] \in Clusters /\ e \in C
    BY <2>5, <2>6, <2>7, <2>8, <2>10
  <2>12. g[e] \in C
    BY <1>4, <2>11 DEF Closed
  <2> QED BY <2>2, <2>6, <2>8, <2>10, <2>12
<1>6. Rank(S, c) \in 1 .. n
  BY Ranks DEF n
<1>7. v[Rank(S, c) - 1] = c
  <2>1. v[Rank(S, c) - 1] \in S /\ Rank(S, v[Rank(S, c) - 1]) = Rank(S, c)
    BY <1>2, <1>6
  <2> QED BY <2>1, Ranks
<1>8. v[Rank(S, c) - 1] \in C
  BY <1>5, <1>6
<1> QED BY <1>7, <1>8 DEF C


---------------------------------------------------------------------------
(* Chains that are left alone.                                             *)

\* What a chain of an owner holds is in use.
LEMMA ChainInUse ==
  ASSUME NEW f \in FATs, NEW owners, Sound(f, owners), NEW p \in owners
  PROVE  \A c \in ChainSet(f, p[2]) : c \in Clusters /\ f[c] # FREE
<1> SUFFICES ASSUME NEW c \in ChainSet(f, p[2]) PROVE c \in Clusters /\ f[c] # FREE
  OBVIOUS
<1>1. ChainSet(f, p[2]) \subseteq Clusters
  BY ChainLeast
<1>2. CASE c = p[2]
  BY <1>1, <1>2 DEF Sound
<1>3. CASE c # p[2]
  <2>1. \E d \in ChainSet(f, p[2]) : f[d] = c
    BY <1>3, ChainLinked
  <2> QED BY <1>1, <2>1 DEF Sound
<1> QED BY <1>2, <1>3

\* The chains of two owners have no cluster in common.
LEMMA ChainsDisjoint ==
  ASSUME NEW f \in FATs, NEW owners, Sound(f, owners), NEW p \in owners, NEW q \in owners, p # q
  PROVE  ChainSet(f, p[2]) \cap ChainSet(f, q[2]) = {}
<1> DEFINE C == ChainSet(f, p[2])
           D == ChainSet(f, q[2])
<1>1. q[2] \notin C
  <2>1. \A r \in owners \ {p} : r[2] \notin ChainSet(f, p[2])
    BY ReleaseSound
  <2> QED BY <2>1
<1>2. C \subseteq Clusters /\ D \subseteq Clusters /\ Closed(f, D)
  BY ChainLeast
<1>3. CASE q[2] \notin Clusters
  BY <1>3, ChainLeast
<1>4. CASE q[2] \in Clusters
  <2>1. q[2] \in D \ C
    BY <1>1, <1>4, ChainLeast
  <2>2. ASSUME NEW c \in D \ C, f[c] \in Clusters PROVE f[c] \in D \ C
    <3>1. f[c] \in D /\ c \in Clusters
      BY <1>2, <2>2 DEF Closed
    <3>2. f[c] # p[2]
      BY <2>2, <3>1 DEF Sound
    <3>3. f[c] \in C => \E d \in C : f[d] = f[c]
      BY <3>2, ChainLinked
    <3>4. f[c] \notin C
      BY <1>2, <2>2, <3>1, <3>3 DEF Sound
    <3> QED BY <3>1, <3>4
  <2>3. D \ C \in SUBSET Clusters /\ Closed(f, D \ C)
    BY <1>2, <2>2 DEF Closed
  <2>4. D \subseteq D \ C
    BY <2>1, <2>3, ChainLeast
  <2> QED BY <2>4
<1> QED BY <1>3, <1>4

\* A table that agrees on a chain has the same chain.
LEMMA ChainSame ==
  ASSUME NEW f \in FATs, NEW g \in FATs, NEW first,
         \A c \in ChainSet(f, first) : g[c] = f[c]
  PROVE  ChainSet(g, first) = ChainSet(f, first)
<1> DEFINE C == ChainSet(f, first)
           D == ChainSet(g, first)
<1>1. C \subseteq Clusters /\ D \subseteq Clusters /\ Closed(f, C) /\ Closed(g, D)
  BY ChainLeast
<1>2. CASE first \notin Clusters
  BY <1>2, ChainLeast
<1>3. CASE first \in Clusters
  <2>1. first \in C /\ first \in D
    BY <1>3, ChainLeast
  <2>2. Closed(g, C)
    BY <1>1 DEF Closed
  <2>3. D \subseteq C
    BY <1>1, <2>1, <2>2, ChainLeast
  <2>4. Closed(f, C \cap D) /\ C \cap D \in SUBSET Clusters
    BY <1>1 DEF Closed
  <2>5. C \subseteq C \cap D
    BY <2>1, <2>4, ChainLeast
  <2> QED BY <2>3, <2>5
<1> QED BY <1>2, <1>3

\* A size that is read needs a cluster to begin with.
Fits(first, size) == size \in 0 .. Size /\ (size > 0 => first \in Clusters)

\* A file whose clusters are left alone is read as before.
LEMMA ReadSame ==
  ASSUME NEW f \in FATs, NEW g, NEW d, NEW e, NEW first, NEW size, Fits(first, size),
         \A c \in ChainSet(f, first) : f[c] # FREE /\ g[c] = f[c] /\ e[c] = d[c]
  PROVE  ReadOf(g, e, first, size) = ReadOf(f, d, first, size)
<1> DEFINE v == Visited(f, first)
           w == Visited(g, first)
<1>1. CASE size = 0
  <2>1. \A s : {j \in 1 .. size : s[j - 1] \in Clusters} = {}
    BY <1>1
  <2>2. ReadOf(g, e, first, size) = [k \in {} |-> e[w[k - 1]]]
    BY <2>1 DEF ReadOf
  <2>3. ReadOf(f, d, first, size) = [k \in {} |-> d[v[k - 1]]]
    BY <2>1 DEF ReadOf
  <2> QED BY <2>2, <2>3
<1>2. CASE size # 0
  <2>1. first \in Clusters /\ size \in 1 .. Size /\ Size \in Nat
    BY <1>2, TableAssumption DEF Fits
  <2>2. \A i \in 0 .. Size + 2 : v[i] \in ChainSet(f, first) \cup {EOC} /\ w[i] = v[i]
    BY <2>1, WalkStays
  <2>3. \A j \in 1 .. size : j - 1 \in 0 .. Size + 2
    BY <2>1
  <2>4. EOC \notin Clusters
    BY ClusterNumbers
  <2> HIDE DEF v, w
  <2>5. \A j \in 1 .. size : w[j - 1] = v[j - 1]
                             /\ (v[j - 1] \in Clusters => e[v[j - 1]] = d[v[j - 1]])
    BY <2>2, <2>3, <2>4
  <2> DEFINE T == {j \in 1 .. size : v[j - 1] \in Clusters}
  <2>6. {j \in 1 .. size : w[j - 1] \in Clusters} = T
    BY <2>5
  <2>7. ReadOf(g, e, first, size) = [k \in T |-> e[w[k - 1]]]
    BY <2>6 DEF ReadOf, w
  <2>8. ReadOf(f, d, first, size) = [k \in T |-> d[v[k - 1]]]
    BY DEF ReadOf, v
  <2>9. \A k \in T : e[w[k - 1]] = d[v[k - 1]]
    BY <2>5
  <2> HIDE DEF T
  <2> QED BY <2>7, <2>8, <2>9
<1> QED BY <1>1, <1>2

---------------------------------------------------------------------------
(* What a row stands for.                                                  *)

Item(i) ==
  IF root[i].folder THEN Folder(Read(FileIn(i).first, FileIn(i).size))
  ELSE File(Read(root[i].first, root[i].size))

\* Every row's file can be read in the data clusters.
Fitted ==
  \A i \in Live : IF root[i].folder THEN Fits(FileIn(i).first, FileIn(i).size)
                  ELSE Fits(root[i].first, root[i].size)

\* All host entries are copied when the volume is ready.
Emptied == phase = "ready" => Waiting = {}

\* What a row leads to: its chain, and for a folder that of the file in it.
Reached(i) ==
  ChainSet(fat, root[i].first)
    \cup (IF root[i].folder THEN ChainSet(fat, FileIn(i).first) ELSE {})

Untouched(i) ==
  /\ i \in Live' /\ root'[i] = root[i]
  /\ \A c \in Reached(i) : fat'[c] = fat[c] /\ data'[c] = data[c]

\* What a row leads to is in use.
LEMMA ReachedInUse ==
  ASSUME Chained, NEW i \in Live
  PROVE  \A c \in Reached(i) : c \in Clusters /\ fat[c] # FREE
<1>0. fat \in FATs /\ Sound(fat, Owners)
  BY DEF Chained, Shape
<1>1. EntryOwner(i) \in Owners /\ EntryOwner(i)[2] = root[i].first
  BY DEF Owners, EntryOwner
<1>2. root[i].folder => FolderOwner(i) \in Owners /\ FolderOwner(i)[2] = FileIn(i).first
  BY DEF Owners, FolderOwner, Folders
<1>3. \A c \in ChainSet(fat, root[i].first) : c \in Clusters /\ fat[c] # FREE
  BY <1>0, <1>1, ChainInUse
<1>4. root[i].folder => \A c \in ChainSet(fat, FileIn(i).first) : c \in Clusters /\ fat[c] # FREE
  BY <1>0, <1>2, ChainInUse
<1> QED BY <1>3, <1>4 DEF Reached

\* Two rows lead to no common cluster, and a folder's cluster is not its file's.
LEMMA ReachedApart ==
  ASSUME Chained, NEW i \in Live, NEW j \in Live, i # j
  PROVE  Reached(i) \cap Reached(j) = {}
<1>0. fat \in FATs /\ Sound(fat, Owners)
  BY DEF Chained, Shape
<1>1. \A k \in Live : EntryOwner(k) \in Owners /\ EntryOwner(k)[2] = root[k].first
  BY DEF Owners, EntryOwner
<1>2. \A k \in Live : root[k].folder => FolderOwner(k) \in Owners /\ FolderOwner(k)[2] = FileIn(k).first
  BY DEF Owners, FolderOwner, Folders
<1>3. /\ EntryOwner(i) # EntryOwner(j) /\ FolderOwner(i) # FolderOwner(j)
      /\ EntryOwner(i) # FolderOwner(j) /\ FolderOwner(i) # EntryOwner(j)
  BY DEF EntryOwner, FolderOwner
<1>4. \A p, q \in Owners : p # q => ChainSet(fat, p[2]) \cap ChainSet(fat, q[2]) = {}
  BY <1>0, ChainsDisjoint
<1>5. ChainSet(fat, root[i].first) \cap ChainSet(fat, root[j].first) = {}
  BY <1>1, <1>3, <1>4
<1>6. root[i].folder => ChainSet(fat, FileIn(i).first) \cap ChainSet(fat, root[j].first) = {}
  BY <1>1, <1>2, <1>3, <1>4
<1>7. root[j].folder => ChainSet(fat, root[i].first) \cap ChainSet(fat, FileIn(j).first) = {}
  BY <1>1, <1>2, <1>3, <1>4
<1>8. root[i].folder /\ root[j].folder => ChainSet(fat, FileIn(i).first) \cap ChainSet(fat, FileIn(j).first) = {}
  BY <1>2, <1>3, <1>4
<1> QED BY <1>5, <1>6, <1>7, <1>8 DEF Reached

\* A row that is left alone, with what it leads to, stands for what it did.
LEMMA RowStays ==
  ASSUME Chained, fat' \in FATs, Fitted, NEW i \in Live, Untouched(i)
  PROVE  /\ Item(i)' = Item(i) /\ Reached(i)' = Reached(i)
         /\ root[i].folder => FileIn(i)' = FileIn(i)
         /\ IF root'[i].folder THEN Fits(FileIn(i).first, FileIn(i).size)'
            ELSE Fits(root[i].first, root[i].size)'
<1>0. fat \in FATs
  BY DEF Chained, Shape
<1>1. root'[i] = root[i] /\ \A c \in Reached(i) : fat[c] # FREE /\ fat'[c] = fat[c] /\ data'[c] = data[c]
  BY ReachedInUse DEF Untouched
<1>2. ASSUME NEW first, NEW size, Fits(first, size), ChainSet(fat, first) \subseteq Reached(i)
      PROVE  Read(first, size)' = Read(first, size)
  <2>1. \A c \in ChainSet(fat, first) : fat[c] # FREE /\ fat'[c] = fat[c] /\ data'[c] = data[c]
    BY <1>1, <1>2
  <2>2. ReadOf(fat', data', first, size) = ReadOf(fat, data, first, size)
    BY <1>0, <1>2, <2>1, ReadSame
  <2> QED BY <2>2 DEF Read, ReadOf
<1>3. ASSUME NEW first, ChainSet(fat, first) \subseteq Reached(i)
      PROVE  ChainSet(fat', first) = ChainSet(fat, first)
  <2>1. \A c \in ChainSet(fat, first) : fat'[c] = fat[c]
    BY <1>1, <1>3
  <2> QED BY <1>0, <2>1, ChainSame
<1>4. ChainSet(fat, root[i].first) \subseteq Reached(i)
  BY DEF Reached
<1>5. CASE ~ root[i].folder
  <2>1. Fits(root[i].first, root[i].size)
    BY <1>5 DEF Fitted
  <2>2. Item(i) = File(Read(root[i].first, root[i].size))
    BY <1>5 DEF Item
  <2>3. Item(i)' = File(Read(root[i].first, root[i].size)')
    BY <1>1, <1>5 DEF Item
  <2>4. Read(root[i].first, root[i].size)' = Read(root[i].first, root[i].size)
    <3>1. PICK first, size : first = root[i].first /\ size = root[i].size
      OBVIOUS
    <3>2. Read(first, size)' = Read(first, size)
      BY <1>2, <1>4, <2>1, <3>1
    <3> QED BY <1>1, <3>1, <3>2 DEF Read
  <2>5. Reached(i) = ChainSet(fat, root[i].first) /\ Reached(i)' = ChainSet(fat', root[i].first)
    BY <1>1, <1>5 DEF Reached
  <2>6. ChainSet(fat', root[i].first) = ChainSet(fat, root[i].first)
    BY <1>3, <1>4
  <2>7. Fits(root[i].first, root[i].size)'
    BY <1>1, <2>1 DEF Fits
  <2> QED BY <1>1, <1>5, <2>2, <2>3, <2>4, <2>5, <2>6, <2>7
<1>6. CASE root[i].folder
  <2>1. Fits(FileIn(i).first, FileIn(i).size) /\ ChainSet(fat, FileIn(i).first) \subseteq Reached(i)
    BY <1>6 DEF Fitted, Reached
  <2>2. root[i].first \in Reached(i)
    <3>1. root[i].first \in Clusters
      BY <1>6, FolderClusters DEF Folders
    <3> QED BY <1>0, <1>4, <3>1, ChainLeast
  <2>3. FileIn(i)' = FileIn(i)
    BY <1>1, <2>2 DEF FileIn
  <2>4. Item(i) = Folder(Read(FileIn(i).first, FileIn(i).size))
    BY <1>6 DEF Item
  <2>5. Item(i)' = Folder(Read(FileIn(i).first, FileIn(i).size)')
    BY <1>1, <1>6 DEF Item
  <2>6. Read(FileIn(i).first, FileIn(i).size)' = Read(FileIn(i).first, FileIn(i).size)
    <3>1. PICK first, size : first = FileIn(i).first /\ size = FileIn(i).size
      OBVIOUS
    <3>2. Read(first, size)' = Read(first, size)
      BY <1>2, <2>1, <3>1
    <3> QED BY <2>3, <3>1, <3>2 DEF Read
  <2>7. ChainSet(fat', root[i].first) = ChainSet(fat, root[i].first)
        /\ ChainSet(fat', FileIn(i).first) = ChainSet(fat, FileIn(i).first)
    BY <1>3, <1>4, <2>1
  <2>8. Reached(i)' = Reached(i)
    BY <1>1, <2>3, <2>7 DEF Reached
  <2>9. Fits(FileIn(i).first, FileIn(i).size)'
    BY <2>1, <2>3 DEF Fits
  <2> QED BY <1>1, <1>6, <2>3, <2>4, <2>5, <2>6, <2>8, <2>9
<1> QED BY <1>5, <1>6


\* What is stored under a name: the host's entry that waits, what the one row of
\* the name stands for, or nothing.
StoredRows ==
  NamesUnique => \A n \in Names :
    /\ source[n] # None => Stored(n) = source[n]
    /\ source[n] = None => \A i \in Live : root[i].name = n => Stored(n) = Item(i)
    /\ source[n] = None /\ (\A i \in Live : root[i].name # n) => Stored(n) = None

\* What StoredRows says is no condition on the state: it follows from the
\* definition of Stored alone.
LEMMA StoredAlways == StoredRows
<1> SUFFICES ASSUME NamesUnique, NEW n \in Names
             PROVE  /\ source[n] # None => Stored(n) = source[n]
                    /\ source[n] = None => \A i \in Live : root[i].name = n => Stored(n) = Item(i)
                    /\ source[n] = None /\ (\A i \in Live : root[i].name # n) => Stored(n) = None
  BY DEF StoredRows
<1>1. source[n] # None => Stored(n) = source[n]
  BY DEF Stored
<1>2. ASSUME source[n] = None, NEW i \in Live, root[i].name = n PROVE Stored(n) = Item(i)
  <2> DEFINE k == CHOOSE j \in Live : root[j].name = n
  <2>1. k = i
    <3>1. k \in Live /\ root[k].name = n
      BY <1>2
    <3> HIDE DEF k
    <3> QED BY <1>2, <3>1 DEF NamesUnique
  <2>2. Stored(n) = IF root[k].folder THEN Folder(Read(FileIn(k).first, FileIn(k).size))
                    ELSE File(Read(root[k].first, root[k].size))
    BY <1>2 DEF Stored
  <2> HIDE DEF k
  <2> QED BY <2>1, <2>2 DEF Item
<1>3. source[n] = None /\ (\A i \in Live : root[i].name # n) => Stored(n) = None
  BY DEF Stored
<1> QED BY <1>1, <1>2, <1>3

\* The same in the next state.
LEMMA StoredNext == StoredRows'
BY StoredAlways, PTL

\* What is stored under a name stays if the host's entry stays, the rows of the
\* name stay rows of the name, and they stand for what they did.
LEMMA NameStays ==
  ASSUME NamesUnique, NamesUnique', NEW m \in Names, source'[m] = source[m],
         \A j \in Live : root[j].name = m => j \in Live' /\ root'[j].name = m /\ Item(j)' = Item(j),
         \A j \in Live' : root'[j].name = m => j \in Live /\ root[j].name = m
  PROVE  Stored(m)' = Stored(m)
<1>1. StoredRows /\ StoredRows'
  BY StoredAlways, StoredNext
<1>2. CASE source[m] # None
  BY <1>1, <1>2 DEF StoredRows
<1>3. CASE source[m] = None /\ \E j \in Live : root[j].name = m
  <2>1. PICK j \in Live : root[j].name = m
    BY <1>3
  <2>2. j \in Live' /\ root'[j].name = m /\ Item(j)' = Item(j)
    BY <2>1
  <2>3. Stored(m) = Item(j)
    BY <1>1, <1>3, <2>1 DEF StoredRows
  <2>4. Stored(m)' = Item(j)'
    BY <1>1, <1>3, <2>2 DEF StoredRows
  <2> QED BY <2>2, <2>3, <2>4
<1>4. CASE source[m] = None /\ \A j \in Live : root[j].name # m
  <2>1. \A j \in Live' : root'[j].name # m
    BY <1>4
  <2>2. Stored(m) = None
    BY <1>1, <1>4 DEF StoredRows
  <2>3. Stored(m)' = None
    BY <1>1, <1>4, <2>1 DEF StoredRows
  <2> QED BY <2>2, <2>3
<1> QED BY <1>2, <1>3, <1>4

---------------------------------------------------------------------------
(* Steps, and what is stored.                                              *)

Whole == Volume /\ Fitted /\ Emptied

\* Steps that change neither the table nor the rows.
LEMMA StillStored ==
  ASSUME Whole, Volume', UNCHANGED <<fat, root, data, source>>, Emptied'
  PROVE  Whole' /\ \A m \in Names : Stored(m)' = Stored(m)
<1>1. Live' = Live
  BY DEF Live
<1>2. Chained /\ fat' \in FATs /\ NamesUnique /\ NamesUnique'
  BY DEF Whole, Volume, Chained, Shape
<1>3. \A j \in Live : Untouched(j)
  BY <1>1 DEF Untouched
<1>4. \A j \in Live : /\ Item(j)' = Item(j)
                      /\ IF root'[j].folder THEN Fits(FileIn(j).first, FileIn(j).size)'
                         ELSE Fits(root[j].first, root[j].size)'
  BY <1>2, <1>3, RowStays DEF Whole
<1>5. Fitted'
  BY <1>1, <1>4 DEF Fitted
<1>6. ASSUME NEW m \in Names PROVE Stored(m)' = Stored(m)
  BY <1>1, <1>2, <1>4, NameStays
<1> QED BY <1>5, <1>6 DEF Whole

\* A write that finds no row changes no file.
LEMMA RootlessStored ==
  ASSUME Whole, Volume', NEW n \in Names, NEW content \in Contents(n), WriteRootless(n, content)
  PROVE  Whole' /\ \A m \in Names : Stored(m)' = Stored(m)
<1> DEFINE S == FirstFit(fat, Len(content))
<1>0. /\ fat' = Linked(fat, S) /\ data' = Filled(data, S, content)
      /\ root' = root /\ source' = source /\ phase' = phase
  BY DEF WriteRootless
<1>1. Live' = Live
  BY <1>0 DEF Live
<1>2. Chained /\ fat' \in FATs /\ NamesUnique /\ NamesUnique' /\ Shape
  BY DEF Whole, Volume, Chained, Shape
<1>3. S \in SUBSET Free(fat) /\ S \in SUBSET Clusters
  BY <1>2, FreeTaken
<1> HIDE DEF S
<1>4. \A c \in Clusters : fat[c] # FREE => fat'[c] = fat[c] /\ data'[c] = data[c]
  BY <1>0, <1>3 DEF Free, Linked, Filled
<1>5. \A j \in Live : Untouched(j)
  BY <1>0, <1>1, <1>2, <1>4, ReachedInUse DEF Untouched
<1>6. \A j \in Live : /\ Item(j)' = Item(j)
                      /\ IF root'[j].folder THEN Fits(FileIn(j).first, FileIn(j).size)'
                         ELSE Fits(root[j].first, root[j].size)'
  BY <1>2, <1>5, RowStays DEF Whole
<1>7. Fitted'
  BY <1>1, <1>6 DEF Fitted
<1>8. ASSUME NEW m \in Names PROVE Stored(m)' = Stored(m)
  BY <1>0, <1>1, <1>2, <1>6, NameStays
<1>9. Emptied'
  BY <1>0 DEF Whole, Emptied, Waiting
<1> QED BY <1>7, <1>8, <1>9 DEF Whole

\* Contents are sequences that their elements make up.
LEMMA ContentIs ==
  ASSUME NEW n, NEW content \in Contents(n)
  PROVE  Len(content) \in Nat /\ Filling(content, Len(content))
<1>1. PICK len \in 0 .. MaxLen : content = [i \in 1 .. len |-> <<"chunk", n, i>>]
  BY DEF Contents
<1>2. len \in Nat
  BY VolumeAssumption
<1>3. content \in Seq({<<"chunk", n, i>> : i \in 1 .. len}) /\ Len(content) = len
  BY <1>1, <1>2
<1> QED BY <1>1, <1>2, <1>3 DEF Filling

\* A chain that was free and has been filled is read as what was written.
LEMMA FilledRead ==
  ASSUME NEW f \in FATs, NEW S \in SUBSET Clusters, NEW g, \A c \in S : g[c] = Linked(f, S)[c],
         NEW content, NEW size \in Nat, Filling(content, size),
         Cardinality(S) = size,
         NEW d, \A c \in S : d[c] = content[Rank(S, c)]
  PROVE  /\ ReadOf(g, d, First(S), size) = content
         /\ Fits(First(S), size)
<1>1. \A k \in 1 .. Cardinality(S) : /\ Visited(g, First(S))[k - 1] \in S
                                     /\ Rank(S, Visited(g, First(S))[k - 1]) = k
  BY NewWalk
<1>2. ReadOf(g, d, First(S), size) = content
  <2>1. \A k \in 1 .. size : /\ Visited(g, First(S))[k - 1] \in S
                             /\ Rank(S, Visited(g, First(S))[k - 1]) = k
    BY <1>1
  <2> QED BY <2>1, NewRead
<1>3. Fits(First(S), size)
  <2>1. size \in 0 .. Size /\ (S # {} => First(S) \in S)
    BY Ranks
  <2>2. size > 0 => S # {}
    <3>1. S = {} => Cardinality(S) = 0
      BY FS_EmptySet
    <3> QED BY <3>1
  <2> QED BY <2>1, <2>2 DEF Fits
<1> QED BY <1>2, <1>3


\* What a write does: the new chain is filled, the row's old one released, and
\* all other rows are left alone.
WroteRow(n, content, S, i) ==
  /\ i \in Live' /\ root'[i] = Entry(n, FALSE, First(S), Len(content))
  /\ Live' = Live \cup {i} /\ \A j \in Live : j # i => Untouched(j)
  /\ i \in Live => root[i].name = n
  /\ \A j \in Live : root[j].name = n => j = i
  /\ \A c \in S : fat'[c] = Linked(fat, S)[c] /\ data'[c] = content[Rank(S, c)]
  /\ \A c \in Clusters \ S : fat'[c] \in {fat[c], FREE}
  /\ i \in Live => \A c \in ChainSet(fat, root[i].first) : fat'[c] = FREE

\* WriteFile does that, on one of the rows SlotFor offers.
LEMMA WriteParts ==
  ASSUME Volume, NEW n \in Names, NEW content \in Contents(n), WriteFile(n, content)
  PROVE  \E i : WroteRow(n, content, FirstFit(fat, Len(content)), i)
<1> DEFINE S == FirstFit(fat, Len(content))
           f1 == Linked(fat, S)
<1>1. PICK i \in SlotFor(n) :
         /\ root' = [root EXCEPT ![i] = Entry(n, FALSE, First(S), Len(content))]
         /\ fat' = IF i \in Named(n) THEN Freed(f1, root[i].first) ELSE f1
  BY DEF WriteFile
<1>2. data' = Kept(Filled(data, S, content), fat')
  BY DEF WriteFile
<1>3. Shape /\ Ordered /\ NamesUnique /\ Chained /\ fat \in FATs
  BY DEF Volume, Chained, Shape
<1>4. /\ i \in DOMAIN root
      /\ i \in Named(n) => i \in Live /\ root[i].name = n
      /\ i \notin Named(n) => i \notin Live /\ \A j \in Live : root[j].name # n
  BY <1>3, SlotSound
<1>5. S \in SUBSET Free(fat) /\ S \in SUBSET Clusters /\ First(S) \in Clusters \cup {0}
  BY <1>3, FreeTaken, FirstTyped
<1>6. f1 \in FATs /\ (\A c \in Clusters \ S : f1[c] = fat[c]) /\ \A c \in S : f1[c] # FREE
  <2>1. /\ f1 \in FATs
        /\ \A c \in Clusters \ S : f1[c] = fat[c]
        /\ \A c \in S : f1[c] = EOC \/ f1[c] \in S
    BY <1>3, <1>5, LinkedEntries
  <2> QED BY <1>5, <2>1, ClusterNumbers
<1>7. Entry(n, FALSE, First(S), Len(content)) \in Rows
  BY <1>5, ContentLength DEF Entry, Rows
<1>8. /\ DOMAIN root' = DOMAIN root
      /\ root'[i] = Entry(n, FALSE, First(S), Len(content))
      /\ \A j \in DOMAIN root : j # i => root'[j] = root[j]
  BY <1>1, <1>3, <1>4, <1>7, RowUpdate
<1> DEFINE O == IF i \in Named(n) THEN ChainSet(fat, root[i].first) ELSE {}
<1>9. O \subseteq Clusters /\ \A c \in O : fat[c] # FREE /\ c \in Reached(i) /\ i \in Live
  BY <1>3, <1>4, ReachedInUse DEF Reached
<1>10. \A c \in S : fat[c] = FREE /\ c \notin O
  BY <1>5, <1>9 DEF Free
<1>11. \A c \in Clusters : fat'[c] = IF c \in O THEN FREE ELSE f1[c]
  <2>1. CASE i \in Named(n)
    <3>1. \A c \in O : f1[c] = fat[c]
      BY <1>6, <1>9, <1>10
    <3>2. ChainSet(f1, root[i].first) = O
      BY <1>3, <1>6, <2>1, <3>1, ChainSame
    <3> HIDE DEF O, f1, S
    <3> QED BY <1>1, <2>1, <3>2 DEF Freed
  <2>2. CASE i \notin Named(n)
    BY <1>1, <2>2
  <2> QED BY <2>1, <2>2
<1> HIDE DEF S, f1
<1>12. Live' = Live \cup {i} /\ i \in Live'
  <2>1. root'[i].mark = "used"
    BY <1>8 DEF Entry
  <2> QED BY <1>4, <1>8, <2>1 DEF Live
<1>13. ASSUME NEW j \in Live, j # i PROVE Untouched(j)
  <2>1. j \in Live' /\ root'[j] = root[j]
    BY <1>8, <1>12, <1>13 DEF Live
  <2>2. ASSUME NEW c \in Reached(j) PROVE fat'[c] = fat[c] /\ data'[c] = data[c]
    <3>1. c \in Clusters /\ fat[c] # FREE
      BY <1>3, ReachedInUse
    <3>2. c \notin S
      BY <1>10, <3>1
    <3>3. c \notin O
      <4>1. i \in Live => c \notin Reached(i)
        BY <1>3, <1>13, ReachedApart
      <4> QED BY <1>9, <4>1
    <3>4. fat'[c] = fat[c]
      BY <1>6, <1>11, <3>1, <3>2, <3>3
    <3> QED BY <1>2, <3>1, <3>2, <3>4 DEF Kept, Filled
  <2> QED BY <2>1, <2>2 DEF Untouched
<1>14. \A c \in S : fat'[c] = f1[c] /\ data'[c] = content[Rank(S, c)]
  <2>1. \A c \in S : c \in Clusters /\ fat'[c] = f1[c] /\ f1[c] # FREE
    BY <1>5, <1>6, <1>10, <1>11
  <2> QED BY <1>2, <2>1 DEF Kept, Filled
<1>15. \A c \in Clusters \ S : fat'[c] \in {fat[c], FREE}
  BY <1>6, <1>11
<1>16. i \in Live => \A c \in ChainSet(fat, root[i].first) : fat'[c] = FREE
  <2>1. ChainSet(fat, root[i].first) \subseteq Clusters
    BY <1>3, ChainLeast
  <2> QED BY <1>4, <1>11, <2>1
<1>17. (i \in Live => root[i].name = n) /\ \A j \in Live : root[j].name = n => j = i
  BY <1>3, <1>4 DEF NamesUnique
<1>18. WroteRow(n, content, S, i)
  BY <1>8, <1>12, <1>13, <1>14, <1>15, <1>16, <1>17 DEF WroteRow, f1
<1> QED BY <1>18 DEF S

\* A write stores its content under its name, and changes no other file.
LEMMA WriteStored ==
  ASSUME Whole, Volume', NEW n \in Names, NEW content \in Contents(n), WriteFile(n, content)
  PROVE  /\ Whole' /\ Stored(n)' = File(content)
         /\ \A m \in Names : m # n => Stored(m)' = Stored(m)
<1> DEFINE S == FirstFit(fat, Len(content))
<1>1. PICK i : WroteRow(n, content, S, i)
  BY WriteParts DEF Whole
<1>2. Chained /\ fat \in FATs /\ fat' \in FATs /\ NamesUnique /\ NamesUnique' /\ Shape /\ Fitted
  BY DEF Whole, Volume, Chained, Shape
<1>3. S \in SUBSET Clusters
  BY <1>2, FreeTaken
<1>4. Len(content) \in Nat /\ Filling(content, Len(content)) /\ Cardinality(S) = Len(content)
  <2>1. Len(content) <= Cardinality(Free(fat))
    BY DEF WriteFile
  <2> QED BY <2>1, ContentIs, FirstFitSize
<1>5. source' = source /\ phase' = phase /\ source[n] = None
  <2>1. phase = "ready" /\ source' = source /\ phase' = phase
    BY DEF WriteFile
  <2> QED BY <2>1 DEF Whole, Emptied, Waiting
<1> HIDE DEF S
<1>6. ReadOf(fat', data', First(S), Len(content)) = content /\ Fits(First(S), Len(content))
  <2>1. \A c \in S : fat'[c] = Linked(fat, S)[c]
    BY <1>1 DEF WroteRow
  <2>2. \A c \in S : data'[c] = content[Rank(S, c)]
    BY <1>1 DEF WroteRow
  <2>3. PICK size \in Nat : size = Len(content)
    BY <1>4
  <2> QED BY <1>2, <1>3, <1>4, <2>1, <2>2, <2>3, FilledRead
<1>7. /\ i \in Live' /\ ~ root'[i].folder /\ root'[i].name = n
      /\ root'[i].first = First(S) /\ root'[i].size = Len(content)
  BY <1>1 DEF WroteRow, Entry
<1>8. Item(i)' = File(content) /\ Fits(root[i].first, root[i].size)'
  BY <1>6, <1>7 DEF Item, Read, ReadOf, Fits
<1>9. ASSUME NEW j \in Live, j # i
      PROVE  /\ Item(j)' = Item(j) /\ j \in Live' /\ root'[j] = root[j]
             /\ IF root'[j].folder THEN Fits(FileIn(j).first, FileIn(j).size)'
                ELSE Fits(root[j].first, root[j].size)'
  <2>1. Untouched(j)
    BY <1>1, <1>9 DEF WroteRow
  <2> QED BY <1>2, <2>1, RowStays DEF Untouched
<1>10. \A j \in Live' : j = i \/ j \in Live
  BY <1>1 DEF WroteRow
<1>11. Fitted'
  BY <1>7, <1>8, <1>9, <1>10 DEF Fitted
<1>12. Stored(n)' = File(content)
  BY <1>2, <1>5, <1>7, <1>8, StoredNext DEF StoredRows
<1>13. ASSUME NEW m \in Names, m # n PROVE Stored(m)' = Stored(m)
  <2>1. \A j \in Live : root[j].name = m => j # i
    BY <1>1, <1>13 DEF WroteRow
  <2>2. \A j \in Live : root[j].name = m => j \in Live' /\ root'[j].name = m /\ Item(j)' = Item(j)
    BY <1>9, <2>1
  <2>3. \A j \in Live' : root'[j].name = m => j \in Live /\ root[j].name = m
    BY <1>7, <1>9, <1>10, <1>13
  <2> QED BY <1>2, <1>5, <2>2, <2>3, NameStays
<1>14. Emptied'
  BY <1>5 DEF Whole, Emptied, Waiting
<1> QED BY <1>11, <1>12, <1>13, <1>14 DEF Whole

\* What deleting a file does: its chain is released, other rows are left alone.
DeletedRow(n, i) ==
  /\ i \in Live /\ root[i].name = n /\ ~ root[i].folder
  /\ Live' = Live \ {i} /\ \A j \in Live : j # i => Untouched(j)
  /\ \A c \in Clusters : fat'[c] \in {fat[c], FREE}
  /\ \A c \in ChainSet(fat, root[i].first) : fat'[c] = FREE

\* DeleteFile does that, on the lowest row of the name that is no folder.
LEMMA DeleteParts ==
  ASSUME Volume, NEW n \in Names, DeleteFile(n), result' # "absent"
  PROVE  \E i : DeletedRow(n, i)
<1> DEFINE files == {i \in Named(n) : ~ root[i].folder}
           i == Lowest(files)
<1>1. files # {}
  BY DEF DeleteFile, DeleteEntry
<1>2. /\ root' = [root EXCEPT ![i] = Deleted] /\ fat' = Freed(fat, root[i].first)
      /\ data' = Kept(data, fat')
  BY <1>1 DEF DeleteFile, DeleteEntry
<1>3. Shape /\ Ordered /\ NamesUnique /\ Chained /\ fat \in FATs
  BY DEF Volume, Chained, Shape
<1>4. i \in DOMAIN root /\ i \in Named(n) /\ ~ root[i].folder
  BY <1>1, <1>3, LowestRow DEF Named, Scanned
<1> HIDE DEF i
<1>5. i \in Live /\ root[i].name = n
  BY <1>3, <1>4 DEF Live, Named, Ordered
<1>6. Deleted \in Rows /\ Deleted.mark = "deleted"
  BY DEF Deleted, Unused, Rows
<1>7. /\ DOMAIN root' = DOMAIN root /\ root'[i] = Deleted
      /\ \A j \in DOMAIN root : j # i => root'[j] = root[j]
  BY <1>2, <1>3, <1>4, <1>6, RowUpdate
<1>8. Live' = Live \ {i}
  BY <1>6, <1>7 DEF Live
<1> DEFINE O == ChainSet(fat, root[i].first)
<1>9. O \subseteq Clusters /\ O \subseteq Reached(i)
  BY <1>3, ChainLeast DEF Reached
<1>10. \A c \in Clusters : fat'[c] = IF c \in O THEN FREE ELSE fat[c]
  BY <1>2 DEF Freed
<1> HIDE DEF O
<1>11. ASSUME NEW j \in Live, j # i PROVE Untouched(j)
  <2>1. j \in Live' /\ root'[j] = root[j]
    BY <1>7, <1>8, <1>11 DEF Live
  <2>2. ASSUME NEW c \in Reached(j) PROVE fat'[c] = fat[c] /\ data'[c] = data[c]
    <3>1. c \in Clusters /\ fat[c] # FREE
      BY <1>3, ReachedInUse
    <3>2. c \notin O
      BY <1>3, <1>5, <1>9, <1>11, ReachedApart
    <3>3. fat'[c] = fat[c]
      BY <1>10, <3>1, <3>2
    <3> QED BY <1>2, <3>1, <3>3 DEF Kept
  <2> QED BY <2>1, <2>2 DEF Untouched
<1>12. (\A c \in Clusters : fat'[c] \in {fat[c], FREE}) /\ \A c \in O : fat'[c] = FREE
  BY <1>9, <1>10
<1>13. DeletedRow(n, i)
  BY <1>4, <1>5, <1>8, <1>11, <1>12 DEF DeletedRow, O
<1> QED BY <1>13

\* A row in use is one that the scan for its name meets.
LEMMA LiveNamed ==
  ASSUME Shape, Ordered, NEW i \in Live
  PROVE  i \in Named(root[i].name)
BY DEF Shape, Ordered, Live, Named, Scanned

\* Deleting removes a file, if there is one, and changes no other.
LEMMA DeleteStored ==
  ASSUME Whole, Volume', NEW n \in Names, DeleteFile(n)
  PROVE  /\ Whole' /\ \A m \in Names : m # n => Stored(m)' = Stored(m)
         /\ \/ result' = "absent" /\ Stored(n)' = Stored(n) /\ ~ IsFile(Stored(n))
            \/ result' = "deleted" /\ Stored(n)' = None /\ IsFile(Stored(n))
<1>1. source' = source /\ phase' = phase /\ source[n] = None
  <2>1. phase = "ready" /\ source' = source /\ phase' = phase
    BY DEF DeleteFile, DeleteEntry
  <2> QED BY <2>1 DEF Whole, Emptied, Waiting
<1>2. Emptied'
  BY <1>1 DEF Whole, Emptied, Waiting
<1>3. CASE result' = "absent"
  <2>1. UNCHANGED <<fat, root, data, source>>
    <3>1. "absent" # "deleted"
      OBVIOUS
    <3> QED BY <1>3, <3>1 DEF DeleteFile, DeleteEntry
  <2>2. \A i \in Named(n) : root[i].folder
    <3>1. "absent" # "deleted"
      OBVIOUS
    <3> QED BY <1>3, <3>1 DEF DeleteFile, DeleteEntry
  <2>3. ~ IsFile(Stored(n))
    <3>0. NamesUnique
      BY DEF Whole, Volume
    <3>1. \A i \in Live : root[i].name = n => root[i].folder
      BY <2>2, LiveNamed DEF Whole, Volume, Chained
    <3>2. CASE \E i \in Live : root[i].name = n
      <4>1. PICK i \in Live : root[i].name = n /\ root[i].folder
        BY <3>1, <3>2
      <4>2. Stored(n) = Item(i)
        BY <1>1, <3>0, <4>1, StoredAlways DEF StoredRows
      <4> QED BY <4>1, <4>2 DEF Item, Folder, IsFile
    <3>3. CASE ~ \E i \in Live : root[i].name = n
      <4>1. Stored(n) = None
        BY <1>1, <3>0, <3>3, StoredAlways DEF StoredRows
      <4> QED BY <4>1 DEF None, IsFile
    <3> QED BY <3>2, <3>3
  <2> QED BY <1>2, <1>3, <2>1, <2>3, StillStored
<1>4. CASE result' # "absent"
  <2>0. result' = "deleted"
    BY <1>4 DEF DeleteFile, DeleteEntry
  <2>1. PICK i : DeletedRow(n, i)
    BY <1>4, DeleteParts DEF Whole
  <2>2. Chained /\ fat' \in FATs /\ NamesUnique /\ NamesUnique' /\ Fitted
    BY DEF Whole, Volume, Chained, Shape
  <2>3. ASSUME NEW j \in Live, j # i
        PROVE  /\ Item(j)' = Item(j) /\ j \in Live' /\ root'[j] = root[j]
               /\ IF root'[j].folder THEN Fits(FileIn(j).first, FileIn(j).size)'
                  ELSE Fits(root[j].first, root[j].size)'
    <3>1. Untouched(j)
      BY <2>1, <2>3 DEF DeletedRow
    <3> QED BY <2>2, <3>1, RowStays DEF Untouched
  <2>4. i \in Live /\ root[i].name = n /\ ~ root[i].folder /\ \A j \in Live' : j \in Live /\ j # i
    BY <2>1 DEF DeletedRow
  <2>5. Fitted'
    BY <2>3, <2>4 DEF Fitted
  <2>6. Stored(n)' = None
    <3>1. \A j \in Live' : root'[j].name # n
      BY <2>2, <2>3, <2>4 DEF NamesUnique
    <3> QED BY <1>1, <2>2, <3>1, StoredNext DEF StoredRows
  <2>7. IsFile(Stored(n))
    <3>1. Stored(n) = Item(i)
      BY <1>1, <2>2, <2>4, StoredAlways DEF StoredRows
    <3> QED BY <2>4, <3>1 DEF Item, File, IsFile
  <2>8. ASSUME NEW m \in Names, m # n PROVE Stored(m)' = Stored(m)
    <3>1. \A j \in Live : root[j].name = m => j \in Live' /\ root'[j].name = m /\ Item(j)' = Item(j)
      BY <2>3, <2>4, <2>8
    <3>2. \A j \in Live' : root'[j].name = m => j \in Live /\ root[j].name = m
      BY <2>3, <2>4
    <3> QED BY <1>1, <2>2, <2>8, <3>1, <3>2, NameStays
  <2> QED BY <1>2, <2>0, <2>5, <2>6, <2>7, <2>8 DEF Whole
<1> QED BY <1>3, <1>4


\* What the copy of a host entry does: the new row's clusters were free and are
\* filled, the rows before it are left alone.
CopiedRow(n, content, folder, own, body, k) ==
  /\ source[n] = (IF folder THEN Folder(content) ELSE File(content))
  /\ Len(content) \in Nat /\ Filling(content, Len(content))
  /\ k \notin Live /\ Live' = Live \cup {k} /\ \A j \in Live : Untouched(j)
  /\ root'[k] = (IF folder THEN Entry(n, TRUE, First(own), 0)
                 ELSE Entry(n, FALSE, First(body), Len(content)))
  /\ body \in SUBSET Clusters /\ Cardinality(body) = Len(content)
  /\ IF folder THEN \E c \in Clusters : own = {c} ELSE own = {}
  /\ \A c \in own : data'[c] = FolderCell(First(body), Len(content))
  /\ \E f \in FATs : \A c \in body : fat'[c] = Linked(f, body)[c]
  /\ \A c \in body : data'[c] = content[Rank(body, c)]
  /\ \A c \in Clusters \ (own \cup body) : fat'[c] = fat[c]

\* Copied does that, on a row appended to the root directory.
LEMMA CopiedParts ==
  ASSUME Volume, phase = "building", NEW n \in Waiting,
         Need(source[n]) <= Cardinality(Free(fat)), Copied(n)
  PROVE  \E content, folder, own, body, k : CopiedRow(n, content, folder, own, body, k)
<1> DEFINE item == source[n]
           folder == item.kind = "folder"
           own == IF folder THEN FirstFit(fat, 1) ELSE {}
           f1 == Linked(fat, own)
           body == FirstFit(f1, Len(item.body))
           f2 == Linked(f1, body)
           d1 == Filled(data, body, item.body)
           content == item.body
<1>1. /\ fat' = f2
      /\ data' = Filled(d1, own, <<FolderCell(First(body), Len(item.body))>>)
      /\ root' = Append(root, IF folder THEN Entry(n, TRUE, First(own), 0)
                              ELSE Entry(n, FALSE, First(body), Len(item.body)))
  BY DEF Copied
<1>2. Shape /\ Ordered /\ NamesUnique /\ Chained /\ fat \in FATs
  BY DEF Volume, Chained, Shape
<1>3. /\ Len(content) \in Nat /\ Filling(content, Len(content))
      /\ item = (IF folder THEN Folder(content) ELSE File(content))
  <2>1. item \in Population /\ item # None
    BY <1>2 DEF Waiting, Shape
  <2>2. PICK m \in Names : item \in Items(m)
    BY <2>1 DEF Population
  <2>5. PICK c \in Contents(m) : item = File(c) \/ item = Folder(c)
    BY <2>1, <2>2 DEF Items
  <2>3. content = c /\ item = (IF folder THEN Folder(content) ELSE File(content))
    BY <2>5 DEF File, Folder
  <2>4. Len(c) \in Nat /\ Filling(c, Len(c))
    BY ContentIs
  <2> QED BY <2>3, <2>4
<1> HIDE DEF folder, content, item
<1>4. own \in SUBSET Free(fat) /\ own \in SUBSET Clusters
  BY <1>2, FreeTaken
<1>5. IF folder THEN \E c \in Clusters : own = {c} ELSE own = {}
  <2>1. ASSUME folder PROVE \E c \in Clusters : own = {c}
    <3>1. Need(item) = Len(content) + 1
      BY <2>1 DEF Need, folder, content
    <3>2. Cardinality(Free(fat)) # 0
      <4>1. Len(content) + 1 <= Cardinality(Free(fat))
        BY <3>1 DEF item
      <4> QED BY <1>3, <4>1
    <3>3. Free(fat) # {}
      BY <3>2, FS_EmptySet
    <3>4. \E c \in Free(fat) : FirstFit(fat, 1) = {c}
      BY <3>3, FirstFitOne
    <3> QED BY <2>1, <3>4 DEF Free
  <2> QED BY <2>1
<1>6. /\ f1 \in FATs /\ (\A c \in Clusters \ own : f1[c] = fat[c]) /\ \A c \in own : f1[c] # FREE
  <2>1. /\ f1 \in FATs
        /\ \A c \in Clusters \ own : f1[c] = fat[c]
        /\ \A c \in own : f1[c] = EOC \/ f1[c] \in own
    BY <1>2, <1>4, LinkedEntries
  <2> QED BY <1>4, <2>1, ClusterNumbers
<1> HIDE DEF f1
<1>7. Free(f1) = Free(fat) \ own
  BY <1>4, <1>6 DEF Free
<1>8. Cardinality(body) = Len(content) /\ body \in SUBSET Free(f1) /\ body \in SUBSET Clusters
  <2>1. IsFiniteSet(Free(fat))
    <3>1. Free(fat) \in SUBSET Clusters
      BY DEF Free
    <3> QED BY <3>1, ClusterNumbers, FS_Subset
  <2>2. Cardinality(Free(fat)) \in Nat
    BY <2>1, FS_CardinalityType
  <2>3. Len(content) <= Cardinality(Free(f1))
    <3>1. CASE folder
      <4>1. Need(item) = Len(content) + 1
        BY <3>1 DEF Need, folder, content
      <4>2. PICK c \in Clusters : own = {c}
        BY <1>5, <3>1
      <4>3. Cardinality(Free(fat) \ {c}) = Cardinality(Free(fat)) - 1
        BY <1>4, <2>1, <4>2, FS_RemoveElement
      <4>4. Need(item) <= Cardinality(Free(fat))
        BY DEF item
      <4> HIDE DEF own
      <4> QED BY <1>3, <1>7, <2>2, <4>1, <4>2, <4>3, <4>4
    <3>2. CASE ~ folder
      <4>1. Need(item) = Len(content) + 0
        BY <3>2 DEF Need, folder, content
      <4>2. Need(item) <= Cardinality(Free(fat))
        BY DEF item
      <4>3. Free(f1) = Free(fat)
        BY <1>7, <3>2
      <4> QED BY <1>3, <2>2, <4>1, <4>2, <4>3
    <3> QED BY <3>1, <3>2
  <2>4. body = FirstFit(f1, Len(content))
    BY DEF content
  <2>5. body \in SUBSET Free(f1)
    BY <2>4, FirstFitFree
  <2> QED BY <1>3, <2>3, <2>4, <2>5, FirstFitSize DEF Free
<1>9. \A c \in own : c \notin body
  BY <1>6, <1>8 DEF Free
<1> HIDE DEF own, body
<1>10. /\ fat' \in FATs
       /\ \A c \in body : fat'[c] = Linked(f1, body)[c]
       /\ \A c \in Clusters \ (own \cup body) : fat'[c] = fat[c]
  <2>1. /\ Linked(f1, body) \in FATs
        /\ \A c \in Clusters \ body : Linked(f1, body)[c] = f1[c]
    BY <1>6, <1>8, LinkedEntries
  <2> QED BY <1>1, <1>6, <2>1
<1>11. \A c \in body : data'[c] = content[Rank(body, c)]
  BY <1>1, <1>8, <1>9 DEF Filled, content
<1>12. \A c \in own : data'[c] = FolderCell(First(body), Len(content))
  <2>1. ASSUME NEW c \in own PROVE data'[c] = FolderCell(First(body), Len(content))
    <3>1. PICK e \in Clusters : own = {e}
      BY <1>5, <2>1
    <3>2. Rank(own, c) = 1
      <4>1. First(own) \in own /\ Rank(own, First(own)) = 1
        BY <1>4, <2>1, Ranks
      <4> QED BY <3>1, <4>1
    <3>3. c \in Clusters
      BY <1>4
    <3>4. data'[c] = <<FolderCell(First(body), Len(content))>>[Rank(own, c)]
      BY <1>1, <3>3 DEF Filled, content
    <3> QED BY <3>2, <3>4
  <2> QED BY <2>1
<1>13. \A c \in Clusters \ (own \cup body) : data'[c] = data[c]
  BY <1>1 DEF Filled
<1>14. PICK k \in Nat : k = Len(root) + 1
  BY <1>2 DEF Shape
<1> DEFINE r == IF folder THEN Entry(n, TRUE, First(own), 0)
                ELSE Entry(n, FALSE, First(body), Len(content))
<1>15. root' = Append(root, r)
  BY <1>1 DEF content
<1>16. r.mark = "used"
  BY DEF Entry
<1> HIDE DEF r
<1>17. /\ DOMAIN root = 1 .. k - 1 /\ DOMAIN root' = 1 .. k /\ root'[k] = r
       /\ \A j \in DOMAIN root : root'[j] = root[j]
  BY <1>2, <1>14, <1>15 DEF Shape
<1>18. k \notin Live /\ Live' = Live \cup {k}
  BY <1>14, <1>16, <1>17 DEF Live
<1>19. ASSUME NEW j \in Live PROVE Untouched(j)
  <2>1. j \in Live' /\ root'[j] = root[j]
    BY <1>17, <1>18 DEF Live
  <2>2. ASSUME NEW c \in Reached(j) PROVE fat'[c] = fat[c] /\ data'[c] = data[c]
    <3>1. c \in Clusters /\ fat[c] # FREE
      BY <1>2, ReachedInUse
    <3>2. c \notin own /\ c \notin body
      BY <1>4, <1>7, <1>8, <3>1 DEF Free
    <3> QED BY <1>10, <1>13, <3>1, <3>2
  <2> QED BY <2>1, <2>2 DEF Untouched
<1>20. CopiedRow(n, content, folder, own, body, k)
  BY <1>3, <1>5, <1>6, <1>8, <1>10, <1>11, <1>12, <1>17, <1>18, <1>19 DEF CopiedRow, r, item
<1> QED BY <1>20

\* Building copies what the host has, and changes nothing that is stored.
LEMMA CopiedStored ==
  ASSUME Whole, Volume', phase = "building", NEW n \in Waiting,
         Need(source[n]) <= Cardinality(Free(fat)), Copied(n)
  PROVE  Whole' /\ \A m \in Names : Stored(m)' = Stored(m)
<1>1. PICK content, folder, own, body, k : CopiedRow(n, content, folder, own, body, k)
  BY CopiedParts DEF Whole
<1>2. Chained /\ fat' \in FATs /\ NamesUnique /\ NamesUnique' /\ Fitted /\ Ordered
  BY DEF Whole, Volume, Chained, Shape
<1>3. source' = [source EXCEPT ![n] = None] /\ phase' = phase
  BY DEF Copied
<1>4. /\ source' \in [Names -> Population] /\ source \in [Names -> Population] /\ n \in Names
      /\ source'[n] = None /\ \A m \in Names : m # n => source'[m] = source[m]
  BY <1>3 DEF Whole, Volume, Chained, Shape, Waiting
<1>5. source[n] # None
  BY DEF Waiting
<1>6. PICK size \in Nat : size = Len(content)
  BY <1>1 DEF CopiedRow
<1>7. ReadOf(fat', data', First(body), size) = content /\ Fits(First(body), size)
  <2>1. PICK f \in FATs : \A c \in body : fat'[c] = Linked(f, body)[c]
    BY <1>1 DEF CopiedRow
  <2>2. \A c \in body : data'[c] = content[Rank(body, c)]
    BY <1>1 DEF CopiedRow
  <2>3. body \in SUBSET Clusters /\ Cardinality(body) = size /\ Filling(content, size)
    BY <1>1, <1>6 DEF CopiedRow
  <2> QED BY <1>2, <2>1, <2>2, <2>3, FilledRead
<1>8. /\ Item(k)' = source[n] /\ k \in Live' /\ root'[k].name = n
      /\ IF root'[k].folder THEN Fits(FileIn(k).first, FileIn(k).size)'
         ELSE Fits(root[k].first, root[k].size)'
  <2>1. CASE folder
    <3>1. PICK c \in Clusters : own = {c}
      BY <1>1, <2>1 DEF CopiedRow
    <3>2. First(own) \in own
      BY <3>1, FirstTyped
    <3>3. data'[First(own)] = FolderCell(First(body), size)
      BY <1>1, <1>6, <3>2 DEF CopiedRow
    <3>4. root'[k].folder /\ root'[k].first = First(own) /\ root'[k].name = n /\ k \in Live'
      BY <1>1, <2>1 DEF CopiedRow, Entry
    <3>5. FileIn(k)' = [first |-> First(body), size |-> size]
      BY <3>3, <3>4 DEF FileIn, FolderCell
    <3>6. Item(k)' = Folder(content)
      BY <1>7, <3>4, <3>5 DEF Item, Read, ReadOf
    <3>7. Fits(FileIn(k).first, FileIn(k).size)'
      BY <1>7, <3>5 DEF Fits
    <3> QED BY <1>1, <2>1, <3>4, <3>6, <3>7 DEF CopiedRow
  <2>2. CASE ~ folder
    <3>1. /\ ~ root'[k].folder /\ root'[k].first = First(body) /\ root'[k].size = size
          /\ root'[k].name = n /\ k \in Live'
      BY <1>1, <1>6, <2>2 DEF CopiedRow, Entry
    <3>2. Item(k)' = File(content)
      BY <1>7, <3>1 DEF Item, Read, ReadOf
    <3>3. Fits(root[k].first, root[k].size)'
      BY <1>7, <3>1 DEF Fits
    <3> QED BY <1>1, <2>2, <3>1, <3>2, <3>3 DEF CopiedRow
  <2> QED BY <2>1, <2>2
<1>9. ASSUME NEW j \in Live
      PROVE  /\ Item(j)' = Item(j) /\ j \in Live' /\ root'[j] = root[j]
             /\ IF root'[j].folder THEN Fits(FileIn(j).first, FileIn(j).size)'
                ELSE Fits(root[j].first, root[j].size)'
  <2>1. Untouched(j)
    BY <1>1, <1>9 DEF CopiedRow
  <2> QED BY <1>2, <2>1, RowStays DEF Untouched
<1>10. \A j \in Live' : j = k \/ j \in Live
  BY <1>1 DEF CopiedRow
<1>11. Fitted'
  BY <1>8, <1>9, <1>10 DEF Fitted
<1>12. Stored(n)' = Stored(n)
  <2>1. Stored(n)' = Item(k)'
    BY <1>2, <1>4, <1>8, StoredNext DEF StoredRows
  <2>2. Stored(n) = source[n]
    BY <1>2, <1>4, <1>5, StoredAlways DEF StoredRows
  <2> QED BY <1>8, <2>1, <2>2
<1>13. ASSUME NEW m \in Names, m # n PROVE Stored(m)' = Stored(m)
  <2>1. \A j \in Live : root[j].name = m => j \in Live' /\ root'[j].name = m /\ Item(j)' = Item(j)
    BY <1>9
  <2>2. \A j \in Live' : root'[j].name = m => j \in Live /\ root[j].name = m
    BY <1>8, <1>9, <1>10, <1>13
  <2> QED BY <1>2, <1>4, <1>13, <2>1, <2>2, NameStays
<1>14. Emptied'
  BY <1>3 DEF Emptied
<1> QED BY <1>11, <1>12, <1>13, <1>14 DEF Whole


\* The end of the build: rows may be cut off and clusters overwritten, but not
\* when the rows fit the root directory.
LEMMA DoneParts ==
  ASSUME Whole, BuildDone, phase' # "refused"
  PROVE  /\ fat' = fat /\ source' = source /\ phase' = "ready" /\ Waiting = {}
         /\ phase = "building"
         /\ \A j \in Live' : j \in Live /\ root'[j] = root[j]
         /\ \A c \in Clusters : data'[c] \in {data[c], RootCell}
         /\ Len(root) <= Slots => Live' = Live /\ \A c \in Clusters : data'[c] = data[c]
<1>1. /\ root' = RootWritten /\ phase' = "ready" /\ Waiting = {} /\ phase = "building"
      /\ data' = [c \in Clusters |-> IF c \in Overwritten THEN RootCell ELSE data[c]]
      /\ fat' = fat /\ source' = source
  BY DEF BuildDone, Refused
<1>2. Slots \in Nat /\ Len(root) \in Nat /\ DOMAIN root = 1 .. Len(root) /\ PerSector \in Nat \ {0}
  BY VolumeAssumption DEF Whole, Volume, Chained, Shape
<1>3. Unused.mark = "unused"
  BY DEF Unused
<1>4. /\ DOMAIN root' = 1 .. Slots
      /\ \A j \in 1 .. Slots : IF j <= Len(root) THEN root'[j] = root[j] ELSE root'[j] = Unused
  BY <1>1 DEF RootWritten
<1>5. \A j \in Live' : j \in Live /\ root'[j] = root[j]
  <2> SUFFICES ASSUME NEW j \in Live' PROVE j \in Live /\ root'[j] = root[j]
    OBVIOUS
  <2>1. j \in 1 .. Slots /\ root'[j].mark = "used"
    BY <1>4 DEF Live
  <2>2. j <= Len(root) /\ root'[j] = root[j]
    BY <1>3, <1>4, <2>1
  <2> QED BY <1>2, <2>1, <2>2 DEF Live
<1>6. ASSUME Len(root) <= Slots PROVE Live' = Live /\ \A c \in Clusters : data'[c] = data[c]
  <2>1. \A j \in Live : j \in Live'
    <3> SUFFICES ASSUME NEW j \in Live PROVE j \in Live'
      OBVIOUS
    <3>1. j \in 1 .. Len(root) /\ root[j].mark = "used"
      BY <1>2 DEF Live
    <3>2. j \in 1 .. Slots /\ root'[j] = root[j]
      BY <1>2, <1>4, <1>6, <3>1
    <3> QED BY <1>4, <3>1, <3>2 DEF Live
  <2>2. ASSUME NEW c \in Clusters PROVE c \notin Overwritten
    <3>1. PICK k \in Nat : k = c - 1 /\ k >= 1
      BY TableAssumption DEF Clusters
    <3>2. k * PerSector >= 1 /\ Len(root) - Slots <= 0 /\ k * PerSector \in Nat
      BY <1>2, <1>6, <3>1
    <3>3. ~ (k * PerSector <= Len(root) - Slots)
      BY <1>2, <3>2
    <3> QED BY <3>1, <3>3 DEF Overwritten
  <2> QED BY <1>1, <1>5, <2>1, <2>2
<1> QED BY <1>1, <1>5, <1>6

\* What the end of the build leaves can be read.
LEMMA DoneWhole ==
  ASSUME Whole, Volume', BuildDone
  PROVE  Whole'
<1>1. CASE phase' = "refused"
  <2>1. UNCHANGED <<fat, root, data, source>>
    BY <1>1 DEF BuildDone, Refused
  <2> QED BY <1>1, <2>1, StillStored DEF Emptied
<1>2. CASE phase' # "refused"
  <2>1. /\ source' = source /\ Waiting = {}
        /\ \A j \in Live' : j \in Live /\ root'[j] = root[j]
        /\ \A c \in Clusters : data'[c] \in {data[c], RootCell}
    BY <1>2, DoneParts
  <2>2. Emptied'
    BY <2>1 DEF Emptied, Waiting
  <2>3. ASSUME NEW j \in Live'
        PROVE  IF root'[j].folder THEN Fits(FileIn(j).first, FileIn(j).size)'
               ELSE Fits(root[j].first, root[j].size)'
    <3>1. j \in Live /\ root'[j] = root[j]
      BY <2>1
    <3>2. CASE ~ root[j].folder
      BY <3>1, <3>2 DEF Whole, Fitted, Fits
    <3>3. CASE root[j].folder
      <4>1. root[j].first \in Clusters
        BY <3>1, <3>3, FolderClusters DEF Whole, Volume, Folders
      <4>2. CASE data'[root[j].first] = data[root[j].first]
        <5>1. FileIn(j)' = FileIn(j)
          BY <3>1, <4>2 DEF FileIn
        <5> QED BY <3>1, <3>3, <5>1 DEF Whole, Fitted, Fits
      <4>3. CASE data'[root[j].first] = RootCell
        <5>1. FileIn(j)' = [first |-> 0, size |-> 0]
          BY <3>1, <4>3 DEF FileIn, RootCell
        <5>2. Fits(0, 0)
          BY TableAssumption DEF Fits
        <5>3. Fits(FileIn(j).first, FileIn(j).size)'
          BY <5>1, <5>2 DEF Fits
        <5> QED BY <3>1, <3>3, <5>3
      <4> QED BY <2>1, <4>1, <4>2, <4>3
    <3> QED BY <3>2, <3>3
  <2> QED BY <2>2, <2>3 DEF Whole, Fitted
<1> QED BY <1>1, <1>2

\* If the rows fit, all of them are stored.
LEMMA DoneStored ==
  ASSUME Whole, Volume', BuildDone, phase' # "refused", Len(root) <= Slots
  PROVE  \A m \in Names : Stored(m)' = Stored(m)
<1>1. /\ fat' = fat /\ source' = source /\ Live' = Live
      /\ \A j \in Live' : j \in Live /\ root'[j] = root[j]
      /\ \A c \in Clusters : data'[c] = data[c]
  BY DoneParts
<1>2. Chained /\ fat' \in FATs /\ NamesUnique /\ NamesUnique' /\ Fitted
  BY DEF Whole, Volume, Chained, Shape
<1>3. ASSUME NEW j \in Live PROVE Item(j)' = Item(j)
  <2>1. Untouched(j)
    BY <1>1, <1>2, ReachedInUse DEF Untouched
  <2> QED BY <1>2, <2>1, RowStays
<1> QED BY <1>1, <1>2, <1>3, NameStays

\* When every row is in use, as many names are stored as there are rows.
LEMMA RowsCounted ==
  ASSUME Whole, Live = DOMAIN root, Waiting = {}
  PROVE  Cardinality({n \in Names : Stored(n) # None}) = Len(root)
<1> DEFINE Used == {n \in Names : Stored(n) # None}
           f == [i \in 1 .. Len(root) |-> root[i].name]
<1>1. Shape /\ Ordered /\ NamesUnique /\ DOMAIN root = 1 .. Len(root) /\ Len(root) \in Nat
  BY DEF Whole, Volume, Chained, Shape
<1>2. \A n \in Names : source[n] = None
  BY DEF Waiting
<1>3. \A i \in 1 .. Len(root) : i \in Live /\ root[i].name \in Names
  BY <1>1 DEF Ordered, Live
<1>4. \A i : Item(i) # None
  BY DEF Item, File, Folder, None
<1>5. f \in [1 .. Len(root) -> Used]
  <2>1. \A i \in 1 .. Len(root) : Stored(root[i].name) = Item(i)
    BY <1>1, <1>2, <1>3, StoredAlways DEF StoredRows
  <2> QED BY <1>3, <1>4, <2>1
<1>6. \A i, j \in 1 .. Len(root) : f[i] = f[j] => i = j
  BY <1>1, <1>3 DEF NamesUnique
<1>7. \A n \in Used : \E i \in 1 .. Len(root) : f[i] = n
  <2> SUFFICES ASSUME NEW n \in Used PROVE \E i \in 1 .. Len(root) : f[i] = n
    OBVIOUS
  <2>1. \E i \in Live : root[i].name = n
    BY <1>1, <1>2, StoredAlways DEF StoredRows
  <2> QED BY <1>1, <2>1 DEF Live
<1> HIDE DEF f, Used
<1>8. f \in Bijection(1 .. Len(root), Used)
  BY <1>5, <1>6, <1>7 DEF Bijection, Injection, Surjection, IsInjective
<1>9. ExistsBijection(1 .. Len(root), Used)
  BY <1>8 DEF ExistsBijection
<1>10. IsFiniteSet(1 .. Len(root)) /\ Cardinality(1 .. Len(root)) = Len(root)
  <2>1. PICK t \in Nat : t = Len(root)
    BY <1>1
  <2>2. IsFiniteSet(1 .. t) /\ Cardinality(1 .. t) = IF 1 > t THEN 0 ELSE t - 1 + 1
    BY FS_Interval
  <2>3. Cardinality(1 .. t) = t
    <3>1. CASE t = 0
      BY <2>2, <3>1
    <3>2. CASE t # 0
      <4>1. PICK z : z = Cardinality(1 .. t)
        OBVIOUS
      <4>2. z = t - 1 + 1
        BY <2>2, <3>2, <4>1
      <4> QED BY <4>1, <4>2
    <3> QED BY <3>1, <3>2
  <2> QED BY <2>1, <2>2, <2>3
<1>11. Cardinality(Used) = Cardinality(1 .. Len(root))
  BY <1>9, <1>10, FS_Bijection
<1> QED BY <1>10, <1>11 DEF Used


---------------------------------------------------------------------------
(* The refinement of FileMap.                                              *)

\* Copying either stops the build or copies the next entry, for which there is
\* room.
LEMMA BuildCases ==
  ASSUME Shape, BuildEntry
  PROVE  /\ phase = "building"
         /\ \/ Refused("ValueError")
            \/ \E n \in Waiting : Need(source[n]) <= Cardinality(Free(fat)) /\ Copied(n)
<1>1. Waiting # {} /\ Waiting \in SUBSET Nat /\ phase = "building"
  BY DEF BuildEntry, Waiting, Names
<1>2. PICK n \in Waiting : n = Lowest(Waiting)
  BY <1>1, LowestIsLeast
<1>3. CASE Need(source[n]) > Cardinality(Free(fat))
  BY <1>1, <1>2, <1>3 DEF BuildEntry
<1>4. CASE ~ (Need(source[n]) > Cardinality(Free(fat)))
  <2>1. Need(source[n]) \in Nat
    <3>1. Len(source[n].body) \in Nat
      BY ContentLength DEF Waiting, Shape
    <3>2. CASE source[n].kind = "folder"
      <4>1. Need(source[n]) = Len(source[n].body) + 1
        BY <3>2 DEF Need
      <4> QED BY <3>1, <4>1
    <3>3. CASE source[n].kind # "folder"
      <4>1. Need(source[n]) = Len(source[n].body) + 0
        BY <3>3 DEF Need
      <4> QED BY <3>1, <4>1
    <3> QED BY <3>2, <3>3
  <2>2. Cardinality(Free(fat)) \in Nat
    BY ClusterNumbers, FS_Subset, FS_CardinalityType DEF Free
  <2>3. Need(source[n]) <= Cardinality(Free(fat))
    BY <1>4, <2>1, <2>2
  <2> QED BY <1>1, <1>2, <1>4, <2>3 DEF BuildEntry
<1> QED BY <1>3, <1>4

\* What the step of the volume is to the map: one of its steps, or none.
Mapped == [Promised!Next]_(Promised!vars)

\* A volume whose building has ended has a whole root directory.
Rooted == phase = "ready" => DOMAIN root = 1 .. Slots

\* A step after which every name stands for what it stood for, as a function.
LEMMA SameMap ==
  ASSUME \A m \in Names : Stored(m)' = Stored(m)
  PROVE  [m \in Names |-> Stored(m)]' = [m \in Names |-> Stored(m)]
OBVIOUS

\* The clusters that are free are counted.
LEMMA RoomCounted ==
  /\ Cardinality(Free(fat)) \in Nat /\ IsFiniteSet(Free(fat))
  /\ Cardinality(Free(fat))' \in Nat /\ IsFiniteSet(Free(fat))'
<1>1. \A f : IsFiniteSet(Free(f)) /\ Cardinality(Free(f)) \in Nat
  BY ClusterNumbers, FS_Subset, FS_CardinalityType DEF Free
<1> QED BY <1>1

\* Fewer free clusters are fewer in number.
LEMMA RoomLess ==
  ASSUME NEW f, NEW g, Free(g) \subseteq Free(f)
  PROVE  Cardinality(Free(g)) <= Cardinality(Free(f))
<1>1. IsFiniteSet(Free(f))
  BY ClusterNumbers, FS_Subset DEF Free
<1> QED BY <1>1, FS_Subset

\* An allocation takes as many of them as it is asked for.
LEMMA RoomTaken ==
  ASSUME NEW f, NEW n \in Nat, n <= Cardinality(Free(f))
  PROVE  /\ IsFiniteSet(Free(f) \ FirstFit(f, n))
         /\ Cardinality(Free(f) \ FirstFit(f, n)) = Cardinality(Free(f)) - n
<1>1. IsFiniteSet(Free(f))
  BY ClusterNumbers, FS_Subset DEF Free
<1>2. Free(f) \cap FirstFit(f, n) = FirstFit(f, n)
  BY FirstFitFree
<1>3. Cardinality(FirstFit(f, n)) = n
  BY FirstFitSize
<1>4. Cardinality(Free(f) \ FirstFit(f, n)) = Cardinality(Free(f)) - Cardinality(Free(f) \cap FirstFit(f, n))
  BY <1>1, FS_Difference
<1>5. IsFiniteSet(Free(f) \ FirstFit(f, n))
  BY <1>1, FS_Difference
<1> QED BY <1>2, <1>3, <1>4, <1>5

\* Linking free clusters frees none.
LEMMA LinkedFree ==
  ASSUME NEW f \in FATs, NEW S \in SUBSET Free(f)
  PROVE  Free(Linked(f, S)) = Free(f) \ S /\ Linked(f, S) \in FATs
<1>1. S \in SUBSET Clusters
  BY DEF Free
<1>2. /\ Linked(f, S) \in FATs
      /\ \A c \in Clusters \ S : Linked(f, S)[c] = f[c]
      /\ \A c \in S : Linked(f, S)[c] = EOC \/ Linked(f, S)[c] \in S
  BY <1>1, LinkedEntries
<1>3. \A c \in S : Linked(f, S)[c] # FREE
  BY <1>1, <1>2, ClusterNumbers
<1> QED BY <1>2, <1>3 DEF Free

\* Copying a host entry fills the volume and stores nothing new, since the
\* entry counted as stored before; a volume that is refused is refused in
\* FileMap too.
LEMMA BuildMapped ==
  ASSUME Whole, Volume', BuildEntry
  PROVE  Whole' /\ Mapped
<1>1. phase = "building" /\ fat \in FATs
  BY BuildCases DEF Whole, Volume, Chained, Shape
<1>2. CASE Refused("ValueError")
  <2>1. UNCHANGED <<fat, root, data, source, asked>> /\ phase' = "refused"
    BY <1>2 DEF Refused
  <2>2. Whole' /\ \A m \in Names : Stored(m)' = Stored(m)
    BY <2>1, StillStored DEF Emptied
  <2>3. Promised!Refuse
    BY <1>1, <2>1, <2>2, SameMap DEF Promised!Refuse
  <2> QED BY <2>2, <2>3 DEF Mapped, Promised!Next
<1>3. ASSUME NEW n \in Waiting, Need(source[n]) <= Cardinality(Free(fat)), Copied(n)
      PROVE  Whole' /\ Mapped
  <2>1. Whole' /\ \A m \in Names : Stored(m)' = Stored(m)
    BY <1>1, <1>3, CopiedStored
  <2>2. UNCHANGED <<phase, asked, result>>
    BY <1>3 DEF Copied
  <2>3. Free(fat') \subseteq Free(fat)
    <3>1. PICK own, len :
            /\ own = {} \/ own = FirstFit(fat, 1)
            /\ fat' = Linked(Linked(fat, own), FirstFit(Linked(fat, own), len))
      BY <1>3 DEF Copied
    <3>2. own \in SUBSET Free(fat)
      BY <3>1, FirstFitFree
    <3>3. Linked(fat, own) \in FATs /\ Free(Linked(fat, own)) \subseteq Free(fat)
      BY <1>1, <3>2, LinkedFree
    <3>4. Free(fat') \subseteq Free(Linked(fat, own))
      BY <3>1, <3>3, FirstFitFree, LinkedFree
    <3> QED BY <3>3, <3>4
  <2>4. Cardinality(Free(fat))' <= Cardinality(Free(fat))
    BY <2>3, RoomLess
  <2>5. Promised!Fill
    BY <1>1, <2>1, <2>2, <2>4, SameMap DEF Promised!Fill
  <2> QED BY <2>1, <2>5 DEF Mapped, Promised!Next
<1> QED BY <1>2, <1>3, BuildCases DEF Whole, Volume, Chained

\* The end of the building is that of FileMap, or the refusal.
LEMMA DoneMapped ==
  ASSUME Whole, Volume', BuildDone
  PROVE  Whole' /\ Mapped
<1>1. Whole' /\ phase = "building"
  BY DoneWhole DEF BuildDone
<1>2. CASE phase' = "refused"
  <2>1. UNCHANGED <<fat, root, data, source, asked>>
    BY <1>2 DEF BuildDone, Refused
  <2>2. \A m \in Names : Stored(m)' = Stored(m)
    BY <1>2, <2>1, StillStored DEF Emptied
  <2>3. Promised!Refuse
    BY <1>1, <1>2, <2>1, <2>2, SameMap DEF Promised!Refuse
  <2> QED BY <1>1, <2>3 DEF Mapped, Promised!Next
<1>3. CASE phase' # "refused"
  <2>1. phase' = "ready" /\ Waiting = {}
    BY <1>3, DoneParts
  <2>0. UNCHANGED <<fat, asked, result>>
    BY <1>3 DEF BuildDone, Refused
  <2> DEFINE files == [m \in Names |-> Stored(m)]
             used == {n \in Names : Stored(n) # None}
  <2>2. Promised!Used = used
    BY DEF Promised!Used
  <2>3. Promised!Cardinality(used) = Len(root)
    <3>1. Live = DOMAIN root
      BY <1>1 DEF Whole, Volume, Ordered, Live
    <3>2. Cardinality(used) = Len(root)
      BY <2>1, <3>1, RowsCounted
    <3> HIDE DEF used
    <3>3. Promised!Cardinality(used) = Cardinality(used)
      BY DEF Promised!Cardinality, Cardinality
    <3> QED BY <3>2, <3>3
  <2>4. CASE Len(root) <= Slots
    <3>1. files' = files
      BY <1>3, <2>4, DoneStored
    <3>2. Promised!Ready
      BY <1>1, <2>0, <2>1, <2>2, <2>3, <2>4, <3>1 DEF Promised!Ready
    <3> QED BY <1>1, <3>2 DEF Mapped, Promised!Next
  <2>5. CASE ~ (Len(root) <= Slots)
    <3>1. Len(root) > Slots
      BY <2>5, VolumeAssumption DEF Whole, Volume, Chained, Shape
    <3>2. Promised!Overrun
      BY <1>1, <2>0, <2>1, <2>2, <2>3, <3>1 DEF Promised!Overrun
    <3> QED BY <1>1, <3>2 DEF Mapped, Promised!Next
  <2> QED BY <2>4, <2>5
<1> QED BY <1>2, <1>3

\* A file that is written is put into the map under the name, and with the
\* content, that the call gave, in no more clusters than it fills.
LEMMA WriteMapped ==
  ASSUME Whole, Volume', NEW n \in Names, NEW content \in Contents(n), WriteFile(n, content)
  PROVE  Whole' /\ Mapped
<1> DEFINE files == [m \in Names |-> Stored(m)]
           S == FirstFit(fat, Len(content))
<1>1. /\ Whole' /\ Stored(n)' = File(content)
      /\ \A m \in Names : m # n => Stored(m)' = Stored(m)
  BY WriteStored
<1>2. /\ phase = "ready" /\ phase' = phase /\ result' = "written"
      /\ asked' = <<"write", n, content>> /\ Len(content) <= Cardinality(Free(fat))
  BY DEF WriteFile
<1>3. files' = [files EXCEPT ![n] = File(content)]
  BY <1>1
<1>4. Len(content) \in Nat
  BY ContentIs
<1>5. Free(fat) \ S \subseteq Free(fat')
  <2>1. \A c \in Clusters \ S : Linked(fat, S)[c] = fat[c]
    BY DEF Linked
  <2>2. \/ fat' = Linked(fat, S)
        \/ \E first : fat' = Freed(Linked(fat, S), first)
    BY DEF WriteFile
  <2> HIDE DEF S
  <2> QED BY <2>1, <2>2 DEF Free, Freed
<1>6. Cardinality(Free(fat))' >= Cardinality(Free(fat)) - Len(content)
  <2>1. Cardinality(Free(fat) \ S) = Cardinality(Free(fat)) - Len(content)
    BY <1>2, <1>4, RoomTaken
  <2>2. Cardinality(Free(fat) \ S) <= Cardinality(Free(fat'))
    BY <1>5, RoomCounted, FS_Subset
  <2>3. PICK r, q \in Nat : r = Cardinality(Free(fat)) /\ q = Cardinality(Free(fat'))
    BY RoomCounted
  <2> HIDE DEF S
  <2> QED BY <1>4, <2>1, <2>2, <2>3
<1>7. Promised!Put(n, content)
  BY <1>2, <1>3, <1>6 DEF Promised!Put, Promised!Answered
<1> QED BY <1>1, <1>7 DEF Mapped, Promised!Next

\* A write is refused for want of an entry when every entry is in use and none
\* has the name; its clusters are taken all the same.
LEMMA RootlessMapped ==
  ASSUME Whole, Rooted, Volume', NEW n \in Names, NEW content \in Contents(n),
         WriteRootless(n, content)
  PROVE  Whole' /\ Mapped
<1> DEFINE S == FirstFit(fat, Len(content))
           used == {m \in Names : Stored(m) # None}
<1>1. Whole' /\ \A m \in Names : Stored(m)' = Stored(m)
  BY RootlessStored
<1>2. /\ phase = "ready" /\ phase' = phase /\ result' = "root full"
      /\ asked' = <<"write", n, content>> /\ Len(content) <= Cardinality(Free(fat))
      /\ fat' = Linked(fat, S) /\ SlotFor(n) = {}
  BY DEF WriteRootless
<1>3. Len(content) \in Nat /\ fat \in FATs /\ Shape /\ Ordered /\ Waiting = {}
  BY <1>2, ContentIs DEF Whole, Volume, Chained, Shape, Emptied
<1>4. Cardinality(Free(fat))' = Cardinality(Free(fat)) - Len(content)
  <2>1. Free(fat') = Free(fat) \ S
    BY <1>2, <1>3, FirstFitFree, LinkedFree
  <2> QED BY <1>2, <1>3, <2>1, RoomTaken
<1>5. Named(n) = {} /\ Scanned = DOMAIN root /\ Reusable = {}
  <2>1. Named(n) = {}
    BY <1>2 DEF SlotFor
  <2>2. Scanned = DOMAIN root
    BY <1>2, <2>1 DEF SlotFor
  <2>3. ASSUME Reusable # {} PROVE FALSE
    <3>1. Lowest(Reusable) \in Reusable
      BY <1>3, <2>3, LowestRow DEF Reusable, Scanned
    <3> QED BY <1>2, <2>1, <2>2, <3>1 DEF SlotFor
  <2> QED BY <2>1, <2>2, <2>3
<1>6. Live = DOMAIN root
  <2>1. \A i \in DOMAIN root : root[i].mark \in {"unused", "deleted", "used"}
    <3>1. \A i \in DOMAIN root : root[i] \in Rows
      BY <1>3 DEF Shape
    <3> QED BY <3>1 DEF Rows
  <2>2. \A i \in DOMAIN root : root[i].mark # "unused"
    <3>1. DOMAIN root = 1 .. Len(root) /\ Len(root) \in Nat
      BY <1>3 DEF Shape
    <3> QED BY <1>5, <3>1 DEF Scanned
  <2>3. \A i \in DOMAIN root : root[i].mark # "deleted"
    BY <1>5 DEF Reusable
  <2> QED BY <2>1, <2>2, <2>3 DEF Live
<1>7. Stored(n) = None
  <2>1. \A i \in Live : root[i].name # n
    BY <1>3, <1>5, LiveNamed
  <2>2. source[n] = None
    BY <1>3 DEF Waiting
  <2>3. NamesUnique
    BY DEF Whole, Volume
  <2> QED BY <2>1, <2>2, <2>3, StoredAlways DEF StoredRows
<1>8. Promised!Cardinality(used) = Slots
  <2>1. Cardinality(used) = Len(root)
    BY <1>3, <1>6, RowsCounted
  <2>2. Len(root) = Slots
    <3>1. DOMAIN root = 1 .. Len(root) /\ Len(root) \in Nat
      BY <1>3 DEF Shape
    <3>2. DOMAIN root = 1 .. Slots /\ Slots \in Nat
      BY <1>2, VolumeAssumption DEF Rooted
    <3>3. PICK a, b \in Nat : a = Len(root) /\ b = Slots
      BY <3>1, <3>2
    <3>4. 1 .. a = 1 .. b
      BY <3>1, <3>2, <3>3
    <3>5. a = b
      <4>1. a >= 1 => a \in 1 .. b
        BY <3>4
      <4>2. b >= 1 => b \in 1 .. a
        BY <3>4
      <4> QED BY <4>1, <4>2
    <3> QED BY <3>3, <3>5
  <2> HIDE DEF used
  <2>3. Promised!Cardinality(used) = Cardinality(used)
    BY DEF Promised!Cardinality, Cardinality
  <2> QED BY <2>1, <2>2, <2>3
<1>9. Promised!RootFull(n, content)
  <2>1. Promised!Used = used
    BY DEF Promised!Used
  <2> HIDE DEF used
  <2> QED BY <1>1, <1>2, <1>4, <1>7, <1>8, <2>1, SameMap DEF Promised!RootFull, Promised!Answered
<1> QED BY <1>1, <1>9 DEF Mapped, Promised!Next

\* A file that is deleted is removed from the map; a call that finds none
\* changes nothing.
LEMMA DeleteMapped ==
  ASSUME Whole, Volume', NEW n \in Names, DeleteFile(n)
  PROVE  Whole' /\ Mapped
<1> DEFINE files == [m \in Names |-> Stored(m)]
<1>1. /\ Whole' /\ \A m \in Names : m # n => Stored(m)' = Stored(m)
      /\ \/ result' = "absent" /\ Stored(n)' = Stored(n) /\ ~ IsFile(Stored(n))
         \/ result' = "deleted" /\ Stored(n)' = None /\ IsFile(Stored(n))
  BY DeleteStored
<1>2. phase = "ready" /\ phase' = phase /\ asked' = <<"delete", n>>
  BY DEF DeleteFile, DeleteEntry
<1>3. CASE result' = "absent" /\ Stored(n)' = Stored(n) /\ ~ IsFile(Stored(n))
  <2>1. \A m \in Names : Stored(m)' = Stored(m)
    BY <1>1, <1>3
  <2>2. fat' = fat
    <3>1. "absent" # "deleted"
      OBVIOUS
    <3> QED BY <1>3, <3>1 DEF DeleteFile, DeleteEntry
  <2>3. Promised!Absent(n)
    BY <1>2, <1>3, <2>1, <2>2, SameMap DEF Promised!Absent, Promised!Answered
  <2> QED BY <1>1, <2>3 DEF Mapped, Promised!Next
<1>4. CASE result' = "deleted" /\ Stored(n)' = None /\ IsFile(Stored(n))
  <2>1. files' = [files EXCEPT ![n] = None]
    BY <1>1, <1>4
  <2>2. Free(fat) \subseteq Free(fat')
    <3>1. fat' = fat \/ \E first : fat' = Freed(fat, first)
      BY DEF DeleteFile, DeleteEntry
    <3> QED BY <3>1 DEF Free, Freed
  <2>3. Cardinality(Free(fat))' >= Cardinality(Free(fat))
    <3>1. Cardinality(Free(fat)) <= Cardinality(Free(fat'))
      BY <2>2, RoomLess
    <3>2. PICK r, q \in Nat : r = Cardinality(Free(fat)) /\ q = Cardinality(Free(fat'))
      BY RoomCounted
    <3> QED BY <3>1, <3>2
  <2>4. Promised!Remove(n)
    BY <1>2, <1>4, <2>1, <2>3 DEF Promised!Remove, Promised!Answered
  <2> QED BY <1>1, <2>4 DEF Mapped, Promised!Next
<1> QED BY <1>1, <1>3, <1>4

\* A write that does not fit says so and changes nothing.
LEMMA FullMapped ==
  ASSUME Whole, Volume', NEW n \in Names, NEW content \in Contents(n), WriteFull(n, content)
  PROVE  Whole' /\ Mapped
<1>1. UNCHANGED <<fat, root, data, source, phase>>
  BY DEF WriteFull
<1>2. Emptied'
  BY <1>1 DEF Whole, Emptied, Waiting
<1>3. Whole' /\ \A m \in Names : Stored(m)' = Stored(m)
  BY <1>1, <1>2, StillStored
<1>4. Promised!DiskFull(n, content)
  BY <1>1, <1>3, SameMap DEF WriteFull, Promised!DiskFull, Promised!Answered
<1> QED BY <1>3, <1>4 DEF Mapped, Promised!Next

\* Every step of the volume is a step of FileMap or stutters.
LEMMA NextMapped ==
  ASSUME Whole, Rooted, [Next]_vars
  PROVE  Whole' /\ Mapped
<1>0. Volume'
  BY NextVolume DEF Whole
<1>1. CASE UNCHANGED vars
  <2>1. UNCHANGED <<fat, root, data, source, phase, asked, result>>
    BY <1>1 DEF vars
  <2>2. Emptied'
    BY <2>1 DEF Whole, Emptied, Waiting
  <2>3. Whole' /\ \A m \in Names : Stored(m)' = Stored(m)
    BY <1>0, <2>1, <2>2, StillStored
  <2> QED BY <2>1, <2>3, SameMap DEF Mapped, Promised!vars
<1>3. CASE BuildEntry
  BY <1>0, <1>3, BuildMapped
<1>4. CASE BuildDone
  BY <1>0, <1>4, DoneMapped
<1>5. ASSUME NEW n \in Names, DeleteFile(n) PROVE Whole' /\ Mapped
  BY <1>0, <1>5, DeleteMapped
<1>6. ASSUME NEW n \in Names, NEW content \in Contents(n), WriteFull(n, content)
      PROVE  Whole' /\ Mapped
  BY <1>0, <1>6, FullMapped
<1>7. ASSUME NEW n \in Names, NEW content \in Contents(n), WriteRootless(n, content)
      PROVE  Whole' /\ Mapped
  BY <1>0, <1>7, RootlessMapped
<1>8. ASSUME NEW n \in Names, NEW content \in Contents(n), WriteFile(n, content)
      PROVE  Whole' /\ Mapped
  BY <1>0, <1>8, WriteMapped
<1> QED BY <1>1, <1>3, <1>4, <1>5, <1>6, <1>7, <1>8 DEF Next

\* The root directory is written as a whole, and keeps its size.
LEMMA NextRooted == ASSUME Rooted, [Next]_vars PROVE Rooted'
<1>1. CASE BuildDone
  <2>1. CASE phase' = "ready"
    <3>1. root' = RootWritten
      BY <2>1, <1>1 DEF BuildDone, Refused
    <3> QED BY <3>1 DEF Rooted, RootWritten
  <2> QED BY <2>1 DEF Rooted
<1>2. CASE BuildEntry
  BY <1>2 DEF BuildEntry, Refused, Copied, Rooted
<1>3. ASSUME phase' = phase, DOMAIN root' = DOMAIN root PROVE Rooted'
  BY <1>3 DEF Rooted
<1>4. ASSUME NEW n \in Names, DeleteFile(n) PROVE Rooted'
  BY <1>3, <1>4 DEF DeleteFile, DeleteEntry
<1>5. ASSUME NEW n \in Names, NEW content \in Contents(n),
             \/ WriteFull(n, content) \/ WriteRootless(n, content) \/ WriteFile(n, content)
      PROVE  Rooted'
  BY <1>3, <1>5 DEF WriteFull, WriteRootless, WriteFile
<1>6. CASE UNCHANGED vars
  BY <1>3, <1>6 DEF vars
<1> QED BY <1>1, <1>2, <1>4, <1>5, <1>6 DEF Next

\* A volume that has only been formatted is whole.
LEMMA InitWhole == ASSUME Init PROVE Whole /\ Rooted
<1>1. Volume
  BY InitVolume
<1>2. Live = {} /\ phase # "ready"
  BY DEF Init, Live
<1> QED BY <1>1, <1>2 DEF Whole, Fitted, Emptied, Rooted

\* The host's entries are what the map begins with.
LEMMA InitMap ==
  ASSUME Init
  PROVE  Promised!Population(UNION {Items(n) : n \in Names})
<1>1. phase = "building" /\ asked = <<"build">> /\ \A i \in Live : FALSE
  BY DEF Init, Live
<1>2. ASSUME NEW n \in Names PROVE Stored(n) \in UNION {Items(m) : m \in Names}
  <2>1. source[n] \in Items(n)
    BY DEF Init
  <2>2. Stored(n) = source[n]
    BY <1>1 DEF Stored
  <2> QED BY <2>1, <2>2
<1>3. [n \in Names |-> Stored(n)] \in [Names -> UNION {Items(n) : n \in Names}]
  BY <1>2
<1> QED BY <1>1, <1>3 DEF Promised!Population

\* The volume implements the map, for every size of disk, host folder and
\* directory: every call does what it answers to the name, and with the content,
\* that it was given, and nothing else, whatever chains are cut, released and
\* used again on the way.
THEOREM MapImplemented == Spec => ImplementsFileMap
<1>1. Init => Whole /\ Rooted
  BY InitWhole
<1>2. Whole /\ Rooted /\ [Next]_vars => Whole' /\ Rooted' /\ Mapped
  BY NextMapped, NextRooted
<1>3. Init => Promised!Population(UNION {Items(n) : n \in Names})
  BY InitMap
<1>4. Whole /\ Rooted /\ [Next]_vars => [Promised!Next]_(Promised!vars)
  BY <1>2 DEF Mapped
<1>5. Spec => [][Promised!Next]_(Promised!vars)
  BY <1>1, <1>2, <1>4, PTL DEF Spec
<1> QED BY <1>3, <1>5, PTL DEF Spec, ImplementsFileMap, Promised!Changes


---------------------------------------------------------------------------
(* Lost clusters.                                                          *)

\* A cluster is lost if it is in use and no row leads to it.
LostIs ==
  \A c : c \in Lost <=> c \in Clusters /\ fat[c] # FREE /\ \A i \in Live : c \notin Reached(i)

\* Again only the definition of Lost is used.
LEMMA LostAlways == LostIs
BY DEF LostIs, Lost, Reached, Folders

\* The same in the next state.
LEMMA LostNext == LostIs'
BY LostAlways, PTL

\* A step that keeps the table's entries, or frees them, loses nothing if what
\* rows led to is led to or free.
LEMMA NotLost ==
  ASSUME Whole,
         NEW fresh, \A c \in fresh : \E i \in Live' : c \in Reached(i)',
         \A c \in Clusters \ fresh : fat'[c] \in {fat[c], FREE},
         \A j \in Live : \/ Untouched(j)
                         \/ \A c \in Reached(j) : fat'[c] = FREE,
         fat' \in FATs
  PROVE  Lost' \subseteq Lost
<1> SUFFICES ASSUME NEW c \in Lost' PROVE c \in Lost
  OBVIOUS
<1>1. c \in Clusters /\ fat'[c] # FREE /\ \A i \in Live' : c \notin Reached(i)'
  BY LostNext DEF LostIs
<1>2. fat[c] # FREE
  BY <1>1
<1>3. ASSUME NEW j \in Live PROVE c \notin Reached(j)
  <2>1. CASE Untouched(j)
    <3>1. Reached(j)' = Reached(j) /\ j \in Live'
      BY <2>1, RowStays DEF Whole, Volume, Untouched
    <3> QED BY <1>1, <3>1
  <2>2. CASE \A e \in Reached(j) : fat'[e] = FREE
    BY <1>1, <2>2
  <2> QED BY <2>1, <2>2
<1> QED BY <1>1, <1>2, <1>3, LostAlways DEF LostIs

\* Copying loses nothing: the new row leads to all it took.
LEMMA CopiedLost ==
  ASSUME Whole, Volume', phase = "building", NEW n \in Waiting,
         Need(source[n]) <= Cardinality(Free(fat)), Copied(n)
  PROVE  Lost' \subseteq Lost
<1>1. PICK content, folder, own, body, k : CopiedRow(n, content, folder, own, body, k)
  BY CopiedParts DEF Whole
<1>2. fat' \in FATs
  BY DEF Volume, Chained, Shape
<1>3. body \subseteq ChainSet(fat', First(body))
  <2>1. PICK f \in FATs : \A c \in body : fat'[c] = Linked(f, body)[c]
    BY <1>1 DEF CopiedRow
  <2>2. body \in SUBSET Clusters
    BY <1>1 DEF CopiedRow
  <2> QED BY <1>2, <2>1, <2>2, NewChain
<1>4. k \in Live' /\ own \cup body \subseteq Reached(k)'
  <2>1. CASE folder
    <3>1. PICK c \in Clusters : own = {c}
      BY <1>1, <2>1 DEF CopiedRow
    <3>2. First(own) = c
      <4>1. First(own) \in own
        BY <3>1, FirstTyped
      <4> QED BY <3>1, <4>1
    <3>3. root'[k].folder /\ root'[k].first = c /\ k \in Live'
      BY <1>1, <2>1, <3>2 DEF CopiedRow, Entry
    <3>4. data'[c] = FolderCell(First(body), Len(content))
      BY <1>1, <3>1 DEF CopiedRow
    <3>5. FileIn(k)'.first = First(body)
      BY <3>3, <3>4 DEF FileIn, FolderCell
    <3>6. c \in ChainSet(fat', c)
      BY <1>2, ChainLeast
    <3>7. Reached(k)' = ChainSet(fat', c) \cup ChainSet(fat', First(body))
      BY <3>3, <3>5 DEF Reached
    <3> QED BY <1>3, <3>1, <3>3, <3>6, <3>7
  <2>2. CASE ~ folder
    <3>1. own = {} /\ root'[k].first = First(body) /\ k \in Live'
      BY <1>1, <2>2 DEF CopiedRow, Entry
    <3>2. ChainSet(fat', First(body)) \subseteq Reached(k)'
      BY <3>1 DEF Reached
    <3> QED BY <1>3, <3>1, <3>2
  <2> QED BY <2>1, <2>2
<1>5. \A c \in Clusters \ (own \cup body) : fat'[c] \in {fat[c], FREE}
  BY <1>1 DEF CopiedRow
<1>6. \A j \in Live : Untouched(j)
  BY <1>1 DEF CopiedRow
<1> QED BY <1>2, <1>4, <1>5, <1>6, NotLost

\* A write loses nothing, unless it replaces a folder.
LEMMA WriteLost ==
  ASSUME Whole, Volume', NEW n \in Names, NEW content \in Contents(n), WriteFile(n, content)
  PROVE  (\E i \in Folders : ~ root'[i].folder) \/ Lost' \subseteq Lost
<1> DEFINE S == FirstFit(fat, Len(content))
<1>1. PICK i : WroteRow(n, content, S, i)
  BY WriteParts DEF Whole
<1>2. fat \in FATs /\ fat' \in FATs /\ Shape
  BY DEF Whole, Volume, Chained, Shape
<1>3. S \in SUBSET Clusters
  BY <1>2, FreeTaken
<1> HIDE DEF S
<1>4. i \in Live' /\ S \subseteq Reached(i)' /\ ~ root'[i].folder
  <2>1. \A c \in S : fat'[c] = Linked(fat, S)[c]
    BY <1>1 DEF WroteRow
  <2>2. S \subseteq ChainSet(fat', First(S))
    BY <1>2, <1>3, <2>1, NewChain
  <2>3. i \in Live' /\ root'[i].first = First(S) /\ ~ root'[i].folder
    BY <1>1 DEF WroteRow, Entry
  <2> QED BY <2>2, <2>3 DEF Reached
<1>5. CASE i \in Folders
  BY <1>4, <1>5
<1>6. CASE i \notin Folders
  <2>1. ASSUME NEW j \in Live PROVE Untouched(j) \/ \A c \in Reached(j) : fat'[c] = FREE
    <3>1. CASE j # i
      BY <1>1, <3>1 DEF WroteRow
    <3>2. CASE j = i
      <4>1. Reached(i) = ChainSet(fat, root[i].first)
        BY <1>6, <3>2 DEF Reached, Folders
      <4> QED BY <1>1, <3>2, <4>1 DEF WroteRow
    <3> QED BY <3>1, <3>2
  <2>2. \A c \in Clusters \ S : fat'[c] \in {fat[c], FREE}
    BY <1>1 DEF WroteRow
  <2> QED BY <1>2, <1>4, <2>1, <2>2, NotLost
<1> QED BY <1>5, <1>6

\* Steps that leave all rows alone lose nothing.
LEMMA StillLost ==
  ASSUME Whole, Live' = Live, UNCHANGED fat, \A j \in Live : root'[j] = root[j],
         \A c \in Clusters : data'[c] = data[c]
  PROVE  Lost' \subseteq Lost
<1>1. Chained /\ fat' \in FATs
  BY DEF Whole, Volume, Chained, Shape
<1>2. \A j \in Live : Untouched(j)
  BY <1>1, ReachedInUse DEF Untouched
<1> QED BY <1>1, <1>2, NotLost

\* Every step of the volume loses only the clusters ClustersKept allows.
LEMMA NextLoses ==
  ASSUME Whole, [Next]_vars
  PROVE  LosesOnly \/ UNCHANGED vars
<1>0. Volume'
  BY NextVolume DEF Whole
<1>1. UNCHANGED <<fat, root, data>> => Lost' \subseteq Lost
  BY StillLost DEF Live
<1>2. CASE BuildEntry
  <2>1. phase = "building" /\ (\/ Refused("ValueError")
                               \/ \E n \in Waiting : Need(source[n]) <= Cardinality(Free(fat)) /\ Copied(n))
    BY <1>2, BuildCases DEF Whole, Volume, Chained
  <2>2. Lost' \subseteq Lost
    BY <1>0, <1>1, <2>1, CopiedLost DEF Refused
  <2> QED BY <2>2 DEF LosesOnly
<1>3. CASE BuildDone
  <2>1. CASE phase' = "refused"
    <3>1. UNCHANGED <<fat, root, data>>
      BY <1>3, <2>1 DEF BuildDone, Refused
    <3> QED BY <1>1, <3>1 DEF LosesOnly
  <2>2. CASE phase' # "refused" /\ Len(root) <= Slots
    <3>1. /\ Live' = Live /\ fat' = fat /\ \A j \in Live' : root'[j] = root[j]
          /\ \A c \in Clusters : data'[c] = data[c]
      BY <1>3, <2>2, DoneParts
    <3> QED BY <3>1, StillLost DEF LosesOnly
  <2>3. CASE ~ (Len(root) <= Slots)
    <3>1. Len(root) > Slots
      BY <2>3, VolumeAssumption DEF Whole, Volume, Chained, Shape
    <3> QED BY <1>3, <3>1 DEF LosesOnly, BuildDone
  <2> QED BY <2>1, <2>2, <2>3
<1>4. ASSUME NEW n \in Names, DeleteFile(n) PROVE Lost' \subseteq Lost
  <2>1. CASE result' = "absent"
    <3>1. UNCHANGED <<fat, root, data>>
      <4>1. "absent" # "deleted"
        OBVIOUS
      <4> QED BY <1>4, <2>1, <4>1 DEF DeleteFile, DeleteEntry
    <3> QED BY <1>1, <3>1
  <2>2. CASE result' # "absent"
    <3>1. PICK i : DeletedRow(n, i)
      BY <1>4, <2>2, DeleteParts DEF Whole
    <3>2. \A c \in {} : \E k \in Live' : c \in Reached(k)'
      OBVIOUS
    <3>3. \A c \in Clusters \ {} : fat'[c] \in {fat[c], FREE}
      BY <3>1 DEF DeletedRow
    <3>4. \A j \in Live : Untouched(j) \/ \A c \in Reached(j) : fat'[c] = FREE
      <4>1. Reached(i) = ChainSet(fat, root[i].first)
        BY <3>1 DEF DeletedRow, Reached
      <4> QED BY <3>1, <4>1 DEF DeletedRow
    <3>5. fat' \in FATs
      BY <1>0 DEF Volume, Chained, Shape
    <3> QED BY <3>2, <3>3, <3>4, <3>5, NotLost
  <2> QED BY <2>1, <2>2
<1>5. ASSUME NEW n \in Names, NEW content \in Contents(n), WriteFile(n, content)
      PROVE  LosesOnly
  BY <1>0, <1>5, WriteLost DEF LosesOnly
<1>6. ASSUME NEW n \in Names, NEW content \in Contents(n),
             WriteFull(n, content) \/ WriteRootless(n, content)
      PROVE  LosesOnly
  BY <1>1, <1>6 DEF LosesOnly, WriteFull, WriteRootless
<1> QED BY <1>2, <1>3, <1>4, <1>5, <1>6 DEF Next, LosesOnly

\* Clusters are lost in the three ways that are named, and in no other, for every
\* size of disk, host folder and directory.
THEOREM NothingElseLost == Spec => ClustersKept
<1>1. Init => Whole /\ Rooted
  BY InitWhole
<1>2. Whole /\ Rooted /\ [Next]_vars => Whole' /\ Rooted'
  BY NextMapped, NextRooted
<1>3. Whole /\ [Next]_vars => [LosesOnly]_vars
  BY NextLoses
<1> QED BY <1>1, <1>2, <1>3, PTL DEF Spec, ClustersKept
=============================================================================
