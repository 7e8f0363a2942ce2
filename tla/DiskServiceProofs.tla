------------------------- MODULE DiskServiceProofs -------------------------
(***************************************************************************)
(* Proofs about DiskService.tla, for any drives, geometries, padding and   *)
(* buffers: a call of INT 13h does to the sectors it names what it answers *)
(* and nothing else, and the guest's work reaches the images.              *)
(***************************************************************************)
EXTENDS DiskService, SequenceTheorems, FunctionTheorems, FiniteSetTheorems,
        WellFoundedInduction, TLAPS

-----------------------------------------------------------------------------
(* Numbers with digits of different bases.                                 *)

\* A set of numbers has a least one.
LEMMA LeastNumber ==
  ASSUME NEW S \in SUBSET Nat, S # {} PROVE \E x \in S : \A y \in S : x <= y
<1>1. IsWellFoundedOn({p \in Nat \X Nat : p[1] < p[2]}, Nat)
  BY NatLessThanWellFounded DEF OpToRel
<1>2. PICK x \in S : \A y \in S : ~ (<<y, x>> \in {p \in Nat \X Nat : p[1] < p[2]})
  BY <1>1, WFMin
<1>3. ASSUME NEW y \in S PROVE x <= y
  <2>1. ~ (<<y, x>> \in {p \in Nat \X Nat : p[1] < p[2]})
    BY <1>2
  <2>2. <<y, x>> \in Nat \X Nat /\ <<y, x>>[1] = y /\ <<y, x>>[2] = x
    OBVIOUS
  <2> QED BY <2>1, <2>2
<1> QED BY <1>3

\* A product of numbers is a number, and grows with them.
LEMMA Products ==
  /\ \A n, b \in Nat : n * b \in Nat
  /\ \A n, m, b \in Nat : n < m => n * b + b <= m * b
<1>1. \A n, b \in Nat : n * b \in Nat
  OBVIOUS
<1>2. ASSUME NEW n \in Nat, NEW m \in Nat, NEW b \in Nat, n < m PROVE n * b + b <= m * b
  <2>1. PICK k \in Nat : m = n + 1 + k
    <3>1. m - n - 1 \in Nat /\ m = n + 1 + (m - n - 1)
      BY <1>2
    <3> QED BY <3>1
  <2>2. m * b = n * b + b + k * b
    BY <2>1
  <2>3. k * b \in Nat /\ n * b \in Nat
    BY <1>1
  <2> QED BY <2>2, <2>3
<1> QED BY <1>1, <1>2

\* A higher digit decides.
LEMMA Digits ==
  ASSUME NEW b \in Nat, NEW n \in Nat, NEW m \in Nat, NEW x \in 0 .. b - 1, NEW y \in 0 .. b - 1
  PROVE  /\ n * b + x \in Nat
         /\ n < m => n * b + x < m * b + y
         /\ n < m => n * b + x < m * b
<1>1. n * b \in Nat /\ m * b \in Nat
  BY Products
<1>2. n < m => n * b + b <= m * b
  BY Products
<1> QED BY <1>1, <1>2

\* Division with rest.
LEMMA Divided ==
  ASSUME NEW p \in Nat, NEW b \in Nat \ {0}
  PROVE  \E q \in Nat : \E r \in 0 .. b - 1 : p = q * b + r
<1> DEFINE Rests == {r \in Nat : \E q \in Nat : p = q * b + r}
<1>1. p \in Rests
  <2>1. p = 0 * b + p
    OBVIOUS
  <2> QED BY <2>1
<1>2. PICK r \in Rests : \A s \in Rests : r <= s
  <2> Rests \in SUBSET Nat
    OBVIOUS
  <2> HIDE DEF Rests
  <2> QED BY <1>1, LeastNumber
<1>3. PICK q \in Nat : p = q * b + r
  BY <1>2
<1>4. r < b
  <2>1. SUFFICES ASSUME ~ r < b PROVE FALSE
    OBVIOUS
  <2>2. r - b \in Nat
    BY <1>2, <2>1
  <2>3. (q + 1) * b = q * b + b /\ q * b \in Nat
    BY Products
  <2>4. p = (q + 1) * b + (r - b)
    BY <1>2, <1>3, <2>3
  <2>5. r - b \in Rests
    BY <2>2, <2>4
  <2> QED BY <1>2, <2>2, <2>5
<1> QED BY <1>2, <1>3, <1>4

\* A bounded set of numbers has a greatest one.
LEMMA GreatestNumber ==
  ASSUME NEW n \in Nat, NEW S \in SUBSET (0 .. n - 1), S # {}
  PROVE  \E x \in S : \A y \in S : y <= x
<1> DEFINE D == {z \in 0 .. n - 1 : (n - 1) - z \in S}
<1>1. \A y \in S : (n - 1) - y \in D
  <2>1. ASSUME NEW y \in S PROVE (n - 1) - y \in D
    <3>1. y \in 0 .. n - 1 /\ (n - 1) - y \in 0 .. n - 1 /\ (n - 1) - ((n - 1) - y) = y
      OBVIOUS
    <3> QED BY <3>1
  <2> QED BY <2>1
<1>2. PICK z \in D : \A d \in D : z <= d
  <2>1. D \subseteq Nat
    OBVIOUS
  <2>2. PICK y \in S : TRUE
    OBVIOUS
  <2>3. D # {}
    BY <1>1, <2>2
  <2> HIDE DEF D
  <2> QED BY <2>1, <2>3, LeastNumber
<1>3. z \in 0 .. n - 1 /\ (n - 1) - z \in S
  BY <1>2
<1>4. ASSUME NEW y \in S PROVE y <= (n - 1) - z
  <2>1. z <= (n - 1) - y /\ y \in 0 .. n - 1
    BY <1>1, <1>2
  <2> QED BY <1>3, <2>1
<1> QED BY <1>3, <1>4

-----------------------------------------------------------------------------
(* Cylinder, head and sector name the blocks of a drive in their order.    *)

Geo(d) == /\ Geometry[d].cyls \in Nat \ {0}
          /\ Geometry[d].heads \in Nat \ {0}
          /\ Geometry[d].spt \in Nat \ {0}

\* A drive has cylinders, heads and sectors.
LEMMA DriveGeometry == ASSUME NEW d \in Drives PROVE Geo(d)
BY GeometryAssumption DEF Geo

Blocks(d) == (Geometry[d].cyls * Geometry[d].heads) * Geometry[d].spt
At(d, a) == Lba(d, a[1], a[2], a[3])
Track(d, a) == a[1] * Geometry[d].heads + a[2]

\* The parts of a name.
LEMMA NameParts ==
  ASSUME NEW d \in Drives, NEW a \in Names(d)
  PROVE  /\ a[1] \in 0 .. Geometry[d].cyls - 1 /\ a[2] \in 0 .. Geometry[d].heads - 1
         /\ a[3] - 1 \in 0 .. Geometry[d].spt - 1 /\ a[3] \in 1 .. Geometry[d].spt
         /\ a = <<a[1], a[2], a[3]>>
         /\ Track(d, a) \in Nat /\ At(d, a) = Track(d, a) * Geometry[d].spt + (a[3] - 1)
         /\ At(d, a) \in Nat
<1>1. Geo(d)
  BY DriveGeometry
<1>2. /\ a[1] \in 0 .. Geometry[d].cyls - 1 /\ a[2] \in 0 .. Geometry[d].heads - 1
      /\ a[3] \in 1 .. Geometry[d].spt /\ a = <<a[1], a[2], a[3]>>
  BY DEF Names
<1>3. a[3] - 1 \in 0 .. Geometry[d].spt - 1 /\ a[1] \in Nat /\ a[2] \in Nat
  BY <1>1, <1>2 DEF Geo
<1>4. Track(d, a) \in Nat
  BY <1>1, <1>2, <1>3, Digits DEF Geo, Track
<1>5. At(d, a) = Track(d, a) * Geometry[d].spt + (a[3] - 1)
  BY DEF At, Lba, Track
<1>6. At(d, a) \in Nat
  BY <1>1, <1>3, <1>4, <1>5, Digits DEF Geo
<1> QED BY <1>2, <1>3, <1>4, <1>5, <1>6

\* Names in their order have blocks in their order.
LEMMA NamesInOrder ==
  ASSUME NEW d \in Drives, NEW a \in Names(d), NEW b \in Names(d)
  PROVE  /\ Before(a, b) => At(d, a) < At(d, b)
         /\ a # b => Before(a, b) \/ Before(b, a)
<1>1. Geo(d)
  BY DriveGeometry
<1>2. /\ a[1] \in Nat /\ a[2] \in 0 .. Geometry[d].heads - 1
      /\ b[1] \in Nat /\ b[2] \in 0 .. Geometry[d].heads - 1
      /\ a[3] - 1 \in 0 .. Geometry[d].spt - 1 /\ b[3] - 1 \in 0 .. Geometry[d].spt - 1
      /\ a[3] \in Nat /\ b[3] \in Nat
      /\ a = <<a[1], a[2], a[3]>> /\ b = <<b[1], b[2], b[3]>>
  BY <1>1, NameParts DEF Geo
<1>3. Track(d, a) < Track(d, b) => At(d, a) < At(d, b)
  <2>1. /\ At(d, a) = Track(d, a) * Geometry[d].spt + (a[3] - 1)
        /\ At(d, b) = Track(d, b) * Geometry[d].spt + (b[3] - 1)
        /\ Track(d, a) \in Nat /\ Track(d, b) \in Nat /\ Geometry[d].spt \in Nat
    BY <1>1, NameParts DEF Geo
  <2> QED BY <1>2, <2>1, Digits
<1>4. Track(d, a) = Track(d, b) /\ a[3] < b[3] => At(d, a) < At(d, b)
  <2>1. /\ At(d, a) = Track(d, a) * Geometry[d].spt + (a[3] - 1)
        /\ At(d, b) = Track(d, b) * Geometry[d].spt + (b[3] - 1)
        /\ Track(d, a) * Geometry[d].spt \in Nat
    BY <1>1, NameParts, Products DEF Geo
  <2> QED BY <1>2, <2>1
<1>5. a[1] < b[1] => Track(d, a) < Track(d, b)
  BY <1>1, <1>2, Digits DEF Track, Geo
<1>6. a[1] = b[1] /\ a[2] < b[2] => Track(d, a) < Track(d, b)
  <2>1. a[1] * Geometry[d].heads \in Nat
    BY <1>1, <1>2, Products DEF Geo
  <2> QED BY <1>2, <2>1 DEF Track
<1>7. a[1] = b[1] /\ a[2] = b[2] => Track(d, a) = Track(d, b)
  BY DEF Track
<1>8. Before(a, b) => At(d, a) < At(d, b)
  BY <1>3, <1>4, <1>5, <1>6, <1>7 DEF Before
<1>9. a # b => Before(a, b) \/ Before(b, a)
  <2>1. a # b => a[1] # b[1] \/ a[2] # b[2] \/ a[3] # b[3]
    BY <1>2
  <2> QED BY <1>2, <2>1 DEF Before
<1> QED BY <1>8, <1>9

\* The blocks of names are those of the geometry.
LEMMA NamesReach ==
  ASSUME NEW d \in Drives
  PROVE  /\ Blocks(d) \in Nat
         /\ \A a \in Names(d) : At(d, a) < Blocks(d)
         /\ \A p \in 0 .. Blocks(d) - 1 : \E a \in Names(d) : At(d, a) = p
<1> DEFINE C == Geometry[d].cyls
           H == Geometry[d].heads
           S == Geometry[d].spt
<1>1. C \in Nat \ {0} /\ H \in Nat \ {0} /\ S \in Nat \ {0}
  BY DriveGeometry DEF Geo
<1>2. C * H \in Nat /\ Blocks(d) = (C * H) * S /\ Blocks(d) \in Nat
  BY <1>1, Products DEF Blocks
<1>3. ASSUME NEW a \in Names(d) PROVE At(d, a) < Blocks(d)
  <2>1. a[1] \in Nat /\ a[1] < C /\ a[2] \in 0 .. H - 1 /\ a[3] - 1 \in 0 .. S - 1
        /\ Track(d, a) \in Nat /\ At(d, a) = Track(d, a) * S + (a[3] - 1)
    BY <1>1, NameParts
  <2>2. Track(d, a) = a[1] * H + a[2]
    BY DEF Track
  <2> HIDE DEF C, H, S
  <2>3. Track(d, a) < C * H
    BY <1>1, <2>1, <2>2, Digits
  <2>4. Track(d, a) * S + (a[3] - 1) < (C * H) * S
    BY <1>1, <1>2, <2>1, <2>3, Digits
  <2> QED BY <1>2, <2>1, <2>4
<1>4. ASSUME NEW p \in 0 .. Blocks(d) - 1 PROVE \E a \in Names(d) : At(d, a) = p
  <2> HIDE DEF C, H, S
  <2>1. p \in Nat /\ p < (C * H) * S
    BY <1>2
  <2>2. PICK t \in Nat : \E r \in 0 .. S - 1 : p = t * S + r
    BY <1>1, <2>1, Divided
  <2>3. PICK r \in 0 .. S - 1 : p = t * S + r
    BY <2>2
  <2>4. PICK c \in Nat : \E h \in 0 .. H - 1 : t = c * H + h
    BY <1>1, Divided
  <2>5. PICK h \in 0 .. H - 1 : t = c * H + h
    BY <2>4
  <2>6. t < C * H
    <3>1. SUFFICES ASSUME ~ t < C * H PROVE FALSE
      OBVIOUS
    <3>2. C * H = t \/ C * H < t
      BY <1>2, <3>1
    <3>3. (C * H) * S <= t * S
      <4>1. C * H < t => (C * H) * S + S <= t * S
        BY <1>1, <1>2, Products
      <4>2. (C * H) * S \in Nat /\ t * S \in Nat
        BY <1>1, <1>2, Products
      <4> QED BY <1>1, <3>2, <4>1, <4>2
    <3>4. (C * H) * S \in Nat /\ t * S \in Nat /\ r \in Nat
      BY <1>1, <1>2, Products
    <3> QED BY <2>1, <2>3, <3>3, <3>4
  <2>7. c < C
    <3>1. SUFFICES ASSUME ~ c < C PROVE FALSE
      OBVIOUS
    <3>2. C * H <= c * H
      <4>1. C = c \/ C < c
        BY <1>1, <3>1
      <4>2. C < c => C * H + H <= c * H
        BY <1>1, Products
      <4>3. C * H \in Nat /\ c * H \in Nat
        BY <1>1, Products
      <4> QED BY <1>1, <4>1, <4>2, <4>3
    <3>3. C * H \in Nat /\ c * H \in Nat /\ h \in Nat
      BY <1>1, Products
    <3> QED BY <2>5, <2>6, <3>2, <3>3
  <2> DEFINE a == <<c, h, r + 1>>
  <2>8. a[1] = c /\ a[2] = h /\ a[3] = r + 1 /\ a[3] - 1 = r
    BY <1>1
  <2>9. c \in 0 .. C - 1 /\ r + 1 \in 1 .. S
    BY <1>1, <2>7
  <2>10. a \in Names(d)
    BY <2>9 DEF Names, C, H, S
  <2>11. At(d, a) = (c * H + h) * S + r
    BY <1>1, <2>8 DEF At, Lba, H, S
  <2> QED BY <2>3, <2>5, <2>10, <2>11
<1> QED BY <1>2, <1>3, <1>4

\* Names whose blocks are the first k are k of them.
LEMMA Counted ==
  ASSUME NEW d \in Drives, NEW k \in Nat, NEW B \in SUBSET Names(d),
         \A b \in B : At(d, b) < k,
         \A p \in 0 .. k - 1 : \E b \in B : At(d, b) = p
  PROVE  Cardinality(B) = k
<1> DEFINE f == [b \in B |-> At(d, b) + 1]
<1>1. f \in [B -> 1 .. k]
  <2>1. ASSUME NEW b \in B PROVE At(d, b) + 1 \in 1 .. k
    BY NameParts
  <2> QED BY <2>1
<1>2. \A a, b \in B : f[a] = f[b] => a = b
  <2>1. ASSUME NEW a \in B, NEW b \in B, f[a] = f[b], a # b PROVE FALSE
    <3>1. At(d, a) \in Nat /\ At(d, b) \in Nat /\ At(d, a) = At(d, b)
      BY <2>1, NameParts
    <3>2. At(d, a) < At(d, b) \/ At(d, b) < At(d, a)
      BY <2>1, NamesInOrder
    <3> QED BY <3>1, <3>2
  <2> QED BY <2>1
<1>3. \A t \in 1 .. k : \E b \in B : f[b] = t
  <2>1. ASSUME NEW t \in 1 .. k PROVE \E b \in B : f[b] = t
    <3>1. t - 1 \in 0 .. k - 1
      OBVIOUS
    <3>2. PICK b \in B : At(d, b) = t - 1
      BY <3>1
    <3>3. f[b] = t
      BY <3>2
    <3> QED BY <3>3
  <2> QED BY <2>1
<1>4. f \in Bijection(B, 1 .. k)
  <2> HIDE DEF f
  <2> QED BY <1>1, <1>2, <1>3, Fun_IsBij
<1>5. ExistsBijection(1 .. k, B)
  <2>1. ExistsBijection(B, 1 .. k)
    BY <1>4, Fun_ExistsBij
  <2> QED BY <2>1, Fun_ExistsBijSymmetric
<1>6. IsFiniteSet(1 .. k) /\ Cardinality(1 .. k) = k
  <2>1. 1 \in Int /\ k \in Int
    OBVIOUS
  <2>2. IsFiniteSet(1 .. k) /\ Cardinality(1 .. k) = IF 1 > k THEN 0 ELSE k - 1 + 1
    BY <2>1, FS_Interval
  <2> QED BY <2>2
<1> QED BY <1>5, <1>6, FS_Bijection

\* A drive has as many names as blocks in its geometry, and at least one; its
\* disk may be longer.
LEMMA NamesCount ==
  ASSUME NEW d \in Drives
  PROVE  /\ Named(d) = Blocks(d) /\ Named(d) \in Nat \ {0}
         /\ Size(d) \in Nat /\ Named(d) <= Size(d)
<1>1. Named(d) = Blocks(d)
  BY NamesReach, Counted DEF Named
<1>2. <<0, 0, 1>> \in Names(d)
  BY DriveGeometry DEF Names, Geo
<1>3. Named(d) # 0
  <2>1. At(d, <<0, 0, 1>>) \in Nat /\ At(d, <<0, 0, 1>>) < Blocks(d)
    BY <1>2, NamesReach, NameParts
  <2> QED BY <1>1, <2>1
<1>4. Size(d) = Named(d) + Padding[d] /\ Padding[d] \in Nat
  BY PaddingAssumption DEF Size
<1> QED BY <1>1, <1>3, <1>4, NamesReach

\* The place of a name among the names is that of its block on the disk.
LEMMA PlaceIsBlock ==
  ASSUME NEW d \in Drives, NEW a \in Names(d)
  PROVE  Place(d, a) = At(d, a) + 1 /\ At(d, a) + 1 \in 1 .. Named(d)
<1> DEFINE B == {b \in Names(d) : Before(b, a)}
<1>1. At(d, a) \in Nat /\ At(d, a) < Blocks(d) /\ Blocks(d) \in Nat
  BY NameParts, NamesReach
<1>2. \A b \in B : At(d, b) < At(d, a)
  BY NamesInOrder
<1>3. ASSUME NEW p \in 0 .. At(d, a) - 1 PROVE \E b \in B : At(d, b) = p
  <2>1. p \in 0 .. Blocks(d) - 1 /\ p < At(d, a)
    BY <1>1
  <2>2. PICK b \in Names(d) : At(d, b) = p
    BY <2>1, NamesReach
  <2>3. Before(b, a)
    <3>1. b # a /\ ~ At(d, a) < At(d, b)
      BY <1>1, <2>1, <2>2
    <3> QED BY <3>1, NamesInOrder
  <2> QED BY <2>2, <2>3
<1>4. Cardinality(B) = At(d, a)
  <2>1. B \in SUBSET Names(d)
    OBVIOUS
  <2> HIDE DEF B
  <2> QED BY <1>1, <1>2, <1>3, <2>1, Counted
<1> QED BY <1>1, <1>4, NamesCount DEF Place

\* A set of first numbers is all of the numbers up to its size.
LEMMA FirstNumbers ==
  ASSUME NEW n \in Nat, NEW S \in SUBSET (1 .. n),
         \A i \in S : \A j \in 1 .. i : j \in S
  PROVE  Cardinality(S) \in 0 .. n /\ S = 1 .. Cardinality(S)
<1> DEFINE Missing == {x \in 1 .. n + 1 : x \notin S}
<1>1. n + 1 \in Missing
  OBVIOUS
<1>2. PICK m \in Missing : \A x \in Missing : m <= x
  <2>1. Missing \in SUBSET Nat /\ Missing # {}
    BY <1>1
  <2> HIDE DEF Missing
  <2> QED BY <2>1, LeastNumber
<1>3. m \in 1 .. n + 1 /\ m \notin S
  BY <1>2
<1>4. S = 1 .. m - 1
  <2>1. ASSUME NEW x \in 1 .. m - 1 PROVE x \in S
    <3>1. x \in 1 .. n + 1 /\ ~ m <= x
      BY <1>3
    <3> QED BY <1>2, <3>1
  <2>2. ASSUME NEW x \in S PROVE x \in 1 .. m - 1
    <3>1. x \in 1 .. n /\ m \notin 1 .. x
      BY <1>3
    <3> QED BY <1>3, <3>1
  <2> QED BY <2>1, <2>2
<1>5. Cardinality(1 .. m - 1) = m - 1
  <2>1. 1 \in Int /\ m - 1 \in Int
    BY <1>3
  <2>2. Cardinality(1 .. m - 1) = IF 1 > m - 1 THEN 0 ELSE (m - 1) - 1 + 1
    BY <2>1, FS_Interval
  <2> QED BY <1>3, <2>2
<1>6. Cardinality(S) = m - 1
  BY <1>4, <1>5
<1> QED BY <1>3, <1>4, <1>6

-----------------------------------------------------------------------------
(* What the disks, the buffer and the files hold.                          *)

Cells ==
  {<<"zero">>} \cup ({"memory"} \X Nat)
    \cup ((Drives \cup {"other"}) \X Nat \X {"low", "high"})

Sectors == Cells \X Cells

DiskType(d) ==
  [data : [1 .. Size(d) -> Sectors], dirty : BOOLEAN, changed : BOOLEAN]

Buffer == 0 .. Segment - 1

Memories == [Buffer -> Cells]

Sessions ==
  [runs : BOOLEAN, by : {"emulator", "harness"}, persist : BOOLEAN,
   failed : SUBSET Drives]

Typed ==
  /\ media = [d \in Drives |-> media[d]] /\ \A d \in Drives : media[d] \in DiskType(d)
  /\ file = [d \in Drives |-> file[d]]
  /\ \A d \in Drives : file[d] \in [1 .. Named(d) -> Sectors]
  /\ attached \subseteq Drives
  /\ memory \in Memories
  /\ session \in Sessions

(* The file of a drive is the disk in memory, as far as it has names.      *)
Same(d) == \A i \in 1 .. Named(d) : file[d][i] = media[d].data[i]

Agrees(d) ==
  FromFile(d) =>
    /\ session.by = "emulator" => Same(d) \/ media[d].dirty
    /\ ~ session.runs /\ session.persist /\ d \notin session.failed => Same(d)

(* The inductive invariant: the harness never ends a session by itself.    *)
Kept ==
  /\ Typed
  /\ session.by = "harness" => session.runs
  /\ \A d \in Drives : Agrees(d)

\* What a blank sector, a sector of an image and memory at power-on hold.
LEMMA CellsHeld ==
  /\ Blank \in Sectors
  /\ \A d \in Drives : \A i \in Nat : Image(d, i) \in Sectors
  /\ \A i \in Nat : Image("other", i) \in Sectors
  /\ PowerOn \in Memories
<1>1. <<"zero">> \in Cells
  BY DEF Cells
<1>2. ASSUME NEW x \in Nat PROVE <<"memory", x>> \in Cells
  BY DEF Cells
<1>3. ASSUME NEW d \in Drives \cup {"other"}, NEW i \in Nat, NEW h \in {"low", "high"}
      PROVE  <<d, i, h>> \in Cells
  BY DEF Cells
<1>4. ASSUME NEW d \in Drives \cup {"other"}, NEW i \in Nat PROVE Image(d, i) \in Sectors
  BY <1>3 DEF Image, Sectors
<1>5. PowerOn \in Memories
  BY <1>2, SegmentAssumption DEF PowerOn, Memories, Buffer
<1> QED BY <1>1, <1>4, <1>5 DEF Blank, Sectors

\* A transfer moves no more than is asked, and nothing beyond the disk.
LEMMA DoneBounds ==
  ASSUME NEW d \in Drives, NEW lba \in Nat, NEW n \in Nat
  PROVE  Done(d, lba, n) \in 0 .. n /\ (Done(d, lba, n) > 0 => lba + Done(d, lba, n) <= Size(d))
BY NamesCount DEF Done

\* A name in range is a name of the drive.
LEMMA RangeNames ==
  ASSUME NEW d \in Drives, NEW c \in Nat, NEW h \in Nat, NEW s \in Nat, InRange(d, c, h, s)
  PROVE  /\ <<c, h, s>> \in Names(d) /\ Lba(d, c, h, s) \in Nat
         /\ Place(d, <<c, h, s>>) = Lba(d, c, h, s) + 1
         /\ Lba(d, c, h, s) + 1 \in 1 .. Named(d)
<1>1. <<c, h, s>> \in Names(d)
  BY DriveGeometry DEF InRange, Names, Geo
<1>2. At(d, <<c, h, s>>) = Lba(d, c, h, s)
  BY DEF At
<1> QED BY <1>1, <1>2, NameParts, PlaceIsBlock

\* A cell of the buffer lies in the segment, and a sector there is a sector.
LEMMA SliceHolds ==
  ASSUME NEW m \in Memories, NEW bx \in Buffer, NEW i \in Nat
  PROVE  Cell(bx, i) \in Buffer /\ Slice(m, bx, i) \in Sectors
<1>1. ASSUME NEW k \in Nat PROVE Cell(bx, k) \in Buffer
  <2>1. bx + k \in Nat /\ Segment \in Nat \ {0}
    BY SegmentAssumption DEF Buffer
  <2>2. (bx + k) % Segment \in 0 .. Segment - 1
    BY <2>1
  <2> QED BY <2>2 DEF Cell, Buffer
<1>2. Cell(bx, 2 * i) \in Buffer /\ Cell(bx, 2 * i + 1) \in Buffer
  BY <1>1
<1>3. m[Cell(bx, 2 * i)] \in Cells /\ m[Cell(bx, 2 * i + 1)] \in Cells
  BY <1>2 DEF Memories
<1> QED BY <1>1, <1>3 DEF Slice, Sectors

(* What writing sectors makes of a disk.                                   *)
Writes(d, disk, lba, done, n, what) ==
  /\ Stored(disk, lba, done, n, what) \in DiskType(d)
  /\ Stored(disk, lba, done, n, what).dirty = (disk.dirty \/ done > 0)
  /\ \A p \in 1 .. Size(d) :
       Stored(disk, lba, done, n, what).data[p] =
         IF p > lba /\ p <= lba + done THEN what[p - lba] ELSE disk.data[p]
  /\ done = 0 => Stored(disk, lba, done, n, what).data = disk.data

\* A disk to which sectors are written has them, and is dirty when there are any.
LEMMA StoredShape ==
  ASSUME NEW d \in Drives, NEW disk \in DiskType(d), NEW lba \in Nat, NEW n \in Nat,
         NEW done \in 0 .. n, NEW what \in [1 .. n -> Sectors]
  PROVE  Writes(d, disk, lba, done, n, what)
<1> DEFINE data == [p \in 1 .. Size(d) |-> IF p > lba /\ p <= lba + done
                                           THEN what[p - lba] ELSE disk.data[p]]
<1>1. /\ disk.data \in [1 .. Size(d) -> Sectors] /\ disk.dirty \in BOOLEAN
      /\ disk.changed \in BOOLEAN
      /\ disk = [data |-> disk.data, dirty |-> disk.dirty, changed |-> disk.changed]
  BY DEF DiskType
<1>2. DOMAIN disk.data = 1 .. Size(d)
  BY <1>1
<1> DEFINE dirty == disk.dirty \/ done > 0
<1>3. Stored(disk, lba, done, n, what) =
        [data |-> data, dirty |-> dirty, changed |-> disk.changed]
  <2>1. Stored(disk, lba, done, n, what) = [disk EXCEPT !.data = data, !.dirty = dirty]
    BY <1>2 DEF Stored
  <2> HIDE DEF data, dirty
  <2> QED BY <1>1, <2>1
<1>4. data \in [1 .. Size(d) -> Sectors]
  <2>1. ASSUME NEW p \in 1 .. Size(d), p > lba, p <= lba + done PROVE what[p - lba] \in Sectors
    <3>1. p - lba \in 1 .. n
      BY <2>1
    <3> QED BY <3>1
  <2>2. ASSUME NEW p \in 1 .. Size(d) PROVE disk.data[p] \in Sectors
    BY <1>1
  <2> QED BY <2>1, <2>2
<1>5. dirty \in BOOLEAN /\ dirty = (disk.dirty \/ done > 0)
  OBVIOUS
<1>6. done = 0 => data = disk.data
  <2>1. SUFFICES ASSUME done = 0 PROVE data = disk.data
    OBVIOUS
  <2>2. ASSUME NEW p \in 1 .. Size(d) PROVE data[p] = disk.data[p]
    BY <2>1
  <2>3. disk.data = [p \in 1 .. Size(d) |-> disk.data[p]]
    BY <1>1
  <2> QED BY <2>2, <2>3
<1>7. \A p \in 1 .. Size(d) :
        data[p] = IF p > lba /\ p <= lba + done THEN what[p - lba] ELSE disk.data[p]
  OBVIOUS
<1>8. Stored(disk, lba, done, n, what) \in DiskType(d)
  <2> HIDE DEF data, dirty
  <2> QED BY <1>1, <1>3, <1>4, <1>5 DEF DiskType
<1> HIDE DEF data, dirty
<1> QED BY <1>3, <1>5, <1>6, <1>7, <1>8 DEF Writes

(* What a transfer from the disk makes of memory m.                        *)
Fetches(m, then, disk, lba, done, bx) ==
  /\ \A q \in 0 .. 2 * done - 1 :
       (\A j \in 0 .. 2 * done - 1 : j > q => Cell(bx, j) # Cell(bx, q)) =>
         then[Cell(bx, q)] = Half(disk, lba, q)
  /\ \A x \in Buffer : (\A q \in 0 .. 2 * done - 1 : Cell(bx, q) # x) => then[x] = m[x]

\* The buffer after a transfer from the disk: a cell holds the last half that
\* came to it, and the rest of the segment is as it was.
LEMMA FetchedShape ==
  ASSUME NEW d \in Drives, NEW disk \in DiskType(d), NEW m \in Memories, NEW bx \in Buffer,
         NEW lba \in Nat, NEW done \in Nat, done > 0 => lba + done <= Size(d)
  PROVE  /\ Fetched(m, disk, lba, done, bx) \in Memories
         /\ Fetches(m, Fetched(m, disk, lba, done, bx), disk, lba, done, bx)
<1> DEFINE Into(x) == {k \in 0 .. 2 * done - 1 : Cell(bx, k) = x}
           Last(x) == CHOOSE k \in Into(x) : \A j \in Into(x) : j <= k
           F == Fetched(m, disk, lba, done, bx)
<1>1. F = [x \in Buffer |-> IF Into(x) = {} THEN m[x] ELSE Half(disk, lba, Last(x))]
  BY Zenon DEF Fetched, Buffer
<1>2. ASSUME NEW x, Into(x) # {}
      PROVE  Last(x) \in Into(x) /\ \A j \in Into(x) : j <= Last(x)
  <2>1. 2 * done \in Nat /\ Into(x) \in SUBSET (0 .. 2 * done - 1)
    OBVIOUS
  <2>2. \E k \in Into(x) : \A j \in Into(x) : j <= k
    <3> HIDE DEF Into
    <3> QED BY <1>2, <2>1, GreatestNumber
  <2> HIDE DEF Into
  <2> QED BY <2>2
<1>3. ASSUME NEW p \in 1 .. Size(d)
      PROVE  disk.data[p][1] \in Cells /\ disk.data[p][2] \in Cells
  <2>1. disk.data[p] \in Cells \X Cells
    BY DEF DiskType, Sectors
  <2> QED BY <2>1
<1>4. ASSUME NEW k \in 0 .. 2 * done - 1 PROVE Half(disk, lba, k) \in Cells
  <2>1. k \div 2 \in Nat /\ k \div 2 < done /\ k % 2 \in {0, 1}
    OBVIOUS
  <2>2. lba + (k \div 2) + 1 \in 1 .. Size(d)
    BY <2>1, NamesCount
  <2>3. (k % 2) + 1 = 1 \/ (k % 2) + 1 = 2
    BY <2>1
  <2> QED BY <1>3, <2>2, <2>3 DEF Half
<1>5. F \in Memories
  <2>1. ASSUME NEW x \in Buffer
        PROVE (IF Into(x) = {} THEN m[x] ELSE Half(disk, lba, Last(x))) \in Cells
    <3>1. m[x] \in Cells
      BY DEF Memories
    <3>2. Into(x) # {} => Last(x) \in 0 .. 2 * done - 1
      BY <1>2
    <3> HIDE DEF Into, Last
    <3> QED BY <1>4, <3>1, <3>2
  <2> HIDE DEF Into, Last, F
  <2> QED BY <1>1, <2>1 DEF Memories
<1>6. ASSUME NEW q \in 0 .. 2 * done - 1,
             \A j \in 0 .. 2 * done - 1 : j > q => Cell(bx, j) # Cell(bx, q)
      PROVE  F[Cell(bx, q)] = Half(disk, lba, q)
  <2>1. PICK x \in Buffer : x = Cell(bx, q)
    <3>1. q \in Nat
      OBVIOUS
    <3> QED BY <3>1, SliceHolds
  <2>2. q \in Into(x)
    BY <2>1
  <2>3. Last(x) \in Into(x) /\ q <= Last(x)
    BY <1>2, <2>2
  <2>4. PICK l : l = Last(x)
    OBVIOUS
  <2>5. l \in 0 .. 2 * done - 1 /\ Cell(bx, l) = x /\ q <= l
    BY <2>3, <2>4
  <2>6. l = q
    BY <1>6, <2>1, <2>5
  <2>7. Into(x) # {}
    BY <2>2
  <2> HIDE DEF Into, Last, F
  <2> QED BY <1>1, <2>1, <2>4, <2>6, <2>7
<1>7. ASSUME NEW x \in Buffer, \A q \in 0 .. 2 * done - 1 : Cell(bx, q) # x
      PROVE  F[x] = m[x]
  <2>1. Into(x) = {}
    BY <1>7
  <2> HIDE DEF Into, Last, F
  <2> QED BY <1>1, <2>1
<1> HIDE DEF F
<1>8. F \in Memories /\ Fetches(m, F, disk, lba, done, bx)
  BY <1>5, <1>6, <1>7 DEF Fetches
<1> QED BY <1>8 DEF F

\* A disk as it is loaded from its image, which is its first sectors.
LEMMA LoadedShape ==
  ASSUME NEW d \in Drives, NEW img \in [1 .. Named(d) -> Sectors]
  PROVE  /\ Loaded(d, img) \in DiskType(d)
         /\ \A i \in 1 .. Named(d) : Loaded(d, img).data[i] = img[i]
<1> DEFINE data == [i \in 1 .. Size(d) |-> IF i <= Named(d) THEN img[i] ELSE Blank]
<1>1. Named(d) \in Nat /\ Size(d) \in Nat /\ Named(d) <= Size(d)
  BY NamesCount
<1>2. Len(img) = Named(d)
  BY <1>1
<1>3. Loaded(d, img) = [data |-> data, dirty |-> Kind[d] = "floppy", changed |-> FALSE]
  BY <1>2 DEF Loaded
<1>4. data \in [1 .. Size(d) -> Sectors]
  BY <1>1, CellsHeld
<1>5. (Kind[d] = "floppy") \in BOOLEAN
  OBVIOUS
<1>6. \A i \in 1 .. Named(d) : data[i] = img[i]
  BY <1>1
<1> DEFINE dirty == Kind[d] = "floppy"
<1>7. dirty \in BOOLEAN
  BY <1>5
<1> HIDE DEF data, dirty
<1> QED BY <1>3, <1>4, <1>6, <1>7 DEF DiskType, dirty

-----------------------------------------------------------------------------
(* The files follow the disks.                                             *)

\* A disk of a session that runs is replaced by one that is as it was, or dirty.
LEMMA OneDisk ==
  ASSUME Kept, session.runs, NEW d \in Drives, NEW x \in DiskType(d),
         media' = [media EXCEPT ![d] = x], UNCHANGED <<file, session>>,
         attached' \subseteq Drives, memory' \in Memories,
         \/ x.dirty \/ session.by = "harness"
         \/ x.data = media[d].data /\ x.dirty = media[d].dirty
  PROVE  Kept'
<1>1. /\ media = [e \in Drives |-> media[e]] /\ \A e \in Drives : media[e] \in DiskType(e)
      /\ session \in Sessions
  BY DEF Kept, Typed
<1>2. media'[d] = x /\ \A e \in Drives \ {d} : media'[e] = media[e]
  BY <1>1
<1>3. media' = [e \in Drives |-> media'[e]] /\ \A e \in Drives : media'[e] \in DiskType(e)
  BY <1>1, <1>2
<1>4. Typed'
  BY <1>3 DEF Kept, Typed
<1>5. ASSUME NEW e \in Drives PROVE Agrees(e)'
  <2>1. Agrees(e) /\ session.runs' /\ session.by' = session.by
    BY DEF Kept
  <2>2. CASE e # d
    <3>1. media'[e] = media[e] /\ Same(e)' = Same(e)
      BY <1>2, <2>2 DEF Same
    <3> QED BY <2>1, <3>1 DEF Agrees
  <2>3. CASE e = d
    <3>1. session.by = "emulator" /\ FromFile(e) => Same(e) \/ media[e].dirty
      BY <2>1 DEF Agrees
    <3>2. x.data = media[d].data => Same(e)' = Same(e)
      BY <1>2, <2>3 DEF Same
    <3>3. session.by = "emulator" /\ FromFile(e) => Same(e)' \/ media'[e].dirty
      BY <1>2, <2>3, <3>1, <3>2
    <3> QED BY <2>1, <3>3 DEF Agrees, FromFile
  <2> QED BY <2>2, <2>3
<1> QED BY <1>4, <1>5 DEF Kept

\* Steps that change no disk.
LEMMA NoDisk ==
  ASSUME Kept, UNCHANGED <<media, file, session>>,
         attached' \subseteq Drives, memory' \in Memories
  PROVE  Kept'
<1>1. Typed'
  BY DEF Kept, Typed
<1>2. ASSUME NEW e \in Drives PROVE Agrees(e)'
  BY DEF Kept, Agrees, Same
<1> QED BY <1>1, <1>2 DEF Kept

\* What a step finds.
LEMMA Found ==
  ASSUME Kept, NEW d \in Drives
  PROVE  /\ media[d] \in DiskType(d) /\ memory \in Memories /\ attached \subseteq Drives
         /\ session \in Sessions /\ media = [e \in Drives |-> media[e]]
         /\ file = [e \in Drives |-> file[e]] /\ file[d] \in [1 .. Named(d) -> Sectors]
         /\ Agrees(d)
BY DEF Kept, Typed

Taken(n, bx) == [i \in 1 .. n |-> Slice(memory, bx, i - 1)]

(* What a transfer by name is given, and what it does to disk and buffer.  *)
Moves(d, op, c, h, s, n, bx, lba, done) ==
  /\ n \in Nat /\ bx \in Buffer
  /\ lba = Lba(d, c, h, s) /\ Place(d, <<c, h, s>>) = lba + 1 /\ lba + 1 \in 1 .. Named(d)
  /\ done > 0 => lba + done <= Size(d)
  /\ Taken(n, bx) \in [1 .. n -> Sectors]
  /\ media' = IF op # "write" THEN media
              ELSE [media EXCEPT ![d] = Stored(media[d], lba, done, n, Taken(n, bx))]
  /\ memory' = IF op # "read" THEN memory ELSE Fetched(memory, media[d], lba, done, bx)
  /\ call' = [op |-> op, drive |-> d,
              places |-> [i \in 1 .. n |-> Place(d, <<c, h, s>>) + i - 1],
              bx |-> bx, ok |-> done = n]
  /\ Still /\ session.runs

\* A transfer moves sectors of the disk, from the first that it names.
LEMMA TransferShape ==
  ASSUME Kept, NEW d \in Drives, NEW op, NEW c \in Nat, NEW h \in Nat, NEW s \in Nat,
         NEW n \in Counts, NEW bx \in Offsets, Transfer(d, op, c, h, s, n, bx)
  PROVE  \E lba \in Nat : \E done \in 0 .. n : Moves(d, op, c, h, s, n, bx, lba, done)
<1>1. n \in Nat /\ bx \in Buffer
  BY SegmentAssumption DEF Buffer
<1>2. InRange(d, c, h, s)
  BY DEF Transfer
<1>3. /\ Lba(d, c, h, s) \in Nat /\ Place(d, <<c, h, s>>) = Lba(d, c, h, s) + 1
      /\ Lba(d, c, h, s) + 1 \in 1 .. Named(d)
  BY <1>2, RangeNames
<1>4. PICK lba \in Nat : lba = Lba(d, c, h, s)
  BY <1>3
<1>5. /\ Done(d, lba, n) \in 0 .. n
      /\ Done(d, lba, n) > 0 => lba + Done(d, lba, n) <= Size(d)
  BY <1>1, DoneBounds
<1>6. PICK done \in 0 .. n : done = Done(d, lba, n)
  BY <1>5
<1>7. Taken(n, bx) \in [1 .. n -> Sectors]
  <2>1. ASSUME NEW i \in 1 .. n PROVE Slice(memory, bx, i - 1) \in Sectors
    <3>1. i - 1 \in Nat /\ memory \in Memories
      BY <1>1, Found
    <3> QED BY <1>1, <3>1, SliceHolds
  <2> QED BY <2>1 DEF Taken
<1>8. /\ media' = IF op # "write" THEN media
                  ELSE [media EXCEPT ![d] = Stored(media[d], lba, done, n, Taken(n, bx))]
      /\ memory' = IF op # "read" THEN memory
                   ELSE Fetched(memory, media[d], lba, done, bx)
      /\ call' = [op |-> op, drive |-> d,
                  places |-> [i \in 1 .. n |-> Place(d, <<c, h, s>>) + i - 1],
                  bx |-> bx, ok |-> done = n]
      /\ Still /\ session.runs
  BY <1>4, <1>6 DEF Transfer, Answer, Ready, Taken
<1>9. Moves(d, op, c, h, s, n, bx, lba, done)
  BY <1>1, <1>3, <1>4, <1>5, <1>6, <1>7, <1>8 DEF Moves
<1> QED BY <1>9

\* A transfer keeps the files with the disks.
LEMMA TransferKeeps ==
  ASSUME Kept, NEW d \in Drives, NEW op, NEW c \in Nat, NEW h \in Nat, NEW s \in Nat,
         NEW n \in Counts, NEW bx \in Offsets, Transfer(d, op, c, h, s, n, bx)
  PROVE  Kept'
<1>1. PICK lba \in Nat, done \in 0 .. n : Moves(d, op, c, h, s, n, bx, lba, done)
  BY TransferShape
<1>2. /\ media[d] \in DiskType(d) /\ memory \in Memories /\ attached' \subseteq Drives
      /\ UNCHANGED <<file, session>> /\ session.runs /\ done \in Nat /\ n \in Nat
      /\ bx \in Buffer
  BY <1>1, Found DEF Moves, Still
<1>3. memory' \in Memories
  <2>1. Fetched(memory, media[d], lba, done, bx) \in Memories
    BY <1>1, <1>2, FetchedShape DEF Moves
  <2> QED BY <1>1, <1>2, <2>1 DEF Moves
<1>4. CASE op = "write"
  <2>1. PICK disk \in DiskType(d) : disk = media[d]
    BY <1>2
  <2>2. PICK what \in [1 .. n -> Sectors] : what = Taken(n, bx)
    BY <1>1 DEF Moves
  <2>3. PICK x : x = Stored(disk, lba, done, n, what)
    OBVIOUS
  <2>4. /\ x \in DiskType(d) /\ x.dirty = (disk.dirty \/ done > 0)
        /\ done = 0 => x.data = disk.data
    <3>1. Writes(d, disk, lba, done, n, what)
      BY <1>2, StoredShape
    <3> QED BY <2>3, <3>1 DEF Writes
  <2>5. x.dirty \/ (x.data = disk.data /\ x.dirty = disk.dirty)
    <3>1. done > 0 \/ (done = 0 /\ ~ done > 0)
      BY <1>2
    <3>2. disk.dirty \in BOOLEAN
      BY DEF DiskType
    <3>3. (disk.dirty \/ FALSE) = disk.dirty
      BY <3>2
    <3>4. CASE done > 0
      BY <2>4, <3>4
    <3>5. CASE done = 0 /\ ~ done > 0
      BY <2>4, <3>3, <3>5
    <3> QED BY <3>1, <3>4, <3>5
  <2>6. media' = [media EXCEPT ![d] = x]
    BY <1>1, <1>4, <2>1, <2>2, <2>3 DEF Moves
  <2> QED BY <1>2, <1>3, <2>1, <2>4, <2>5, <2>6, OneDisk
<1>5. CASE op # "write"
  <2>1. media' = media
    BY <1>1, <1>5 DEF Moves
  <2> QED BY <1>2, <1>3, <2>1, NoDisk
<1> QED BY <1>4, <1>5

\* So does a transfer by block address.
LEMMA ExtendedKeeps ==
  ASSUME Kept, NEW d \in Drives, NEW lba \in 0 .. Size(d), NEW n \in Counts,
         NEW bx \in Offsets, ExtendedRead(d, lba, n, bx)
  PROVE  Kept'
<1>1. n \in Nat /\ bx \in Buffer /\ lba \in Nat
  BY SegmentAssumption, NamesCount DEF Buffer
<1>2. PICK done : /\ done = Done(d, lba, n)
                  /\ memory' = Fetched(memory, media[d], lba, done, bx)
  BY DEF ExtendedRead
<1>3. done \in Nat /\ (done > 0 => lba + done <= Size(d))
  BY <1>1, <1>2, DoneBounds
<1>4. media[d] \in DiskType(d) /\ memory \in Memories /\ attached' \subseteq Drives
      /\ UNCHANGED <<media, file, session>>
  BY Found DEF ExtendedRead, Still
<1>5. memory' \in Memories
  BY <1>1, <1>2, <1>3, <1>4, FetchedShape
<1> QED BY <1>4, <1>5, NoDisk

Good(d, table) ==
  {i \in 1 .. Len(table) :
     \A j \in 1 .. i : InRange(d, table[j][1], table[j][2], table[j][3])}

Blanked(d, table) ==
  {Lba(d, table[i][1], table[i][2], table[i][3]) + 1 : i \in Good(d, table)}

Wiped(d, table) ==
  [data |-> [p \in 1 .. Size(d) |-> IF p \in Blanked(d, table) THEN Blank ELSE media[d].data[p]],
   dirty |-> (media[d].dirty \/ Good(d, table) # {}), changed |-> media[d].changed]

(* What formatting a table does: it blanks its first entries.              *)
Blanks(d, table) ==
  /\ Len(table) \in Nat
  /\ Cardinality(Good(d, table)) \in 0 .. Len(table)
  /\ Good(d, table) = 1 .. Cardinality(Good(d, table))
  /\ \A i \in Good(d, table) :
       /\ Place(d, table[i]) = Lba(d, table[i][1], table[i][2], table[i][3]) + 1
       /\ Place(d, table[i]) \in 1 .. Named(d)
  /\ Wiped(d, table) \in DiskType(d)
  /\ media' = IF d \in ReadOnly THEN media ELSE [media EXCEPT ![d] = Wiped(d, table)]
  /\ call' = [op |-> "format", drive |-> d,
              places |-> [i \in 1 .. Cardinality(Good(d, table)) |-> Place(d, table[i])],
              bx |-> 0, ok |-> Cardinality(Good(d, table)) = Len(table)]
  /\ UNCHANGED memory /\ Still /\ session.runs

\* The entries of a table are triples of numbers.
LEMMA TableEntries ==
  ASSUME NEW d \in Drives, NEW table \in Tables(d)
  PROVE  /\ Len(table) \in Nat
         /\ \A i \in 1 .. Len(table) :
              /\ table[i] = <<table[i][1], table[i][2], table[i][3]>>
              /\ table[i][1] \in Nat /\ table[i][2] \in Nat /\ table[i][3] \in Nat
<1>1. Geo(d)
  BY DriveGeometry
<1>2. PICK c \in 0 .. Geometry[d].cyls, h \in 0 .. Geometry[d].heads - 1, shift \in {0, 1} :
        table = [s \in 1 .. Geometry[d].spt |-> <<c, h, s + shift>>]
  BY DEF Tables
<1>3. Len(table) = Geometry[d].spt
  BY <1>1, <1>2 DEF Geo
<1>4. ASSUME NEW i \in 1 .. Len(table)
      PROVE  /\ table[i] = <<table[i][1], table[i][2], table[i][3]>>
             /\ table[i][1] \in Nat /\ table[i][2] \in Nat /\ table[i][3] \in Nat
  <2>1. table[i] = <<c, h, i + shift>>
    BY <1>2, <1>3
  <2>2. c \in Nat /\ h \in Nat /\ i + shift \in Nat
    BY <1>1, <1>3 DEF Geo
  <2> QED BY <2>1, <2>2
<1> QED BY <1>1, <1>3, <1>4 DEF Geo

SameFields(f, d, x, y) ==
  [f EXCEPT ![d].data = x, ![d].dirty = y] =
    [f EXCEPT ![d] = [data |-> x, dirty |-> y, changed |-> f[d].changed]]

\* Two fields of a disk among others are replaced.
LEMMA TwoFields ==
  ASSUME NEW S, NEW f, NEW d \in S, NEW x, NEW y, f = [e \in S |-> f[e]],
         f[d] = [data |-> f[d].data, dirty |-> f[d].dirty, changed |-> f[d].changed]
  PROVE  SameFields(f, d, x, y)
<1> DEFINE g == [f EXCEPT ![d].data = x, ![d].dirty = y]
           k == [f EXCEPT ![d] = [data |-> x, dirty |-> y, changed |-> f[d].changed]]
<1>1. g = [e \in S |-> g[e]] /\ k = [e \in S |-> k[e]]
  OBVIOUS
<1>2. ASSUME NEW e \in S PROVE g[e] = k[e]
  <2>1. CASE e = d
    <3>1. PICK a, b, c : f[d] = [data |-> a, dirty |-> b, changed |-> c]
      OBVIOUS
    <3>2. g[d] = [[f[d] EXCEPT !.data = x] EXCEPT !.dirty = y]
      OBVIOUS
    <3>3. k[d] = [data |-> x, dirty |-> y, changed |-> c]
      BY <3>1
    <3>4. [[data |-> a, dirty |-> b, changed |-> c] EXCEPT !.data = x] =
            [data |-> x, dirty |-> b, changed |-> c]
      OBVIOUS
    <3>5. [[data |-> x, dirty |-> b, changed |-> c] EXCEPT !.dirty = y] =
            [data |-> x, dirty |-> y, changed |-> c]
      OBVIOUS
    <3> HIDE DEF g, k
    <3>6. g[d] = [data |-> x, dirty |-> y, changed |-> c]
      BY <3>1, <3>2, <3>4, <3>5, Zenon
    <3> QED BY <2>1, <3>3, <3>6
  <2>2. CASE e # d
    BY <2>2
  <2> QED BY <2>1, <2>2
<1> HIDE DEF g, k
<1>3. g = k
  BY <1>1, <1>2
<1> QED BY <1>3 DEF g, k, SameFields

\* Formatting blanks the entries of the table up to the first out of range.
LEMMA FormatShape ==
  ASSUME Kept, NEW d \in Drives, NEW table \in Tables(d), Format(d, table)
  PROVE  Blanks(d, table)
<1>1. Len(table) \in Nat
  BY TableEntries
<1>2. /\ Cardinality(Good(d, table)) \in 0 .. Len(table)
      /\ Good(d, table) = 1 .. Cardinality(Good(d, table))
  <2>1. Good(d, table) \in SUBSET (1 .. Len(table))
    BY DEF Good
  <2>2. ASSUME NEW i \in Good(d, table), NEW j \in 1 .. i PROVE j \in Good(d, table)
    <3>1. i \in 1 .. Len(table) /\ \A k \in 1 .. i : InRange(d, table[k][1], table[k][2], table[k][3])
      BY DEF Good
    <3>2. j \in 1 .. Len(table) /\ \A k \in 1 .. j : k \in 1 .. i
      BY <1>1, <3>1
    <3> QED BY <3>1, <3>2 DEF Good
  <2> QED BY <1>1, <2>1, <2>2, FirstNumbers
<1>3. ASSUME NEW i \in Good(d, table)
      PROVE  /\ Place(d, table[i]) = Lba(d, table[i][1], table[i][2], table[i][3]) + 1
             /\ Place(d, table[i]) \in 1 .. Named(d)
  <2>1. i \in 1 .. Len(table) /\ i \in 1 .. i
    BY <1>1 DEF Good
  <2>2. InRange(d, table[i][1], table[i][2], table[i][3])
    BY <2>1 DEF Good
  <2>3. /\ table[i] = <<table[i][1], table[i][2], table[i][3]>>
        /\ table[i][1] \in Nat /\ table[i][2] \in Nat /\ table[i][3] \in Nat
    BY <2>1, TableEntries
  <2>4. PICK c \in Nat, h \in Nat, s \in Nat :
          c = table[i][1] /\ h = table[i][2] /\ s = table[i][3]
    BY <2>3
  <2>5. table[i] = <<c, h, s>> /\ InRange(d, c, h, s)
    BY <2>2, <2>3, <2>4
  <2>6. Place(d, <<c, h, s>>) = Lba(d, c, h, s) + 1 /\ Lba(d, c, h, s) + 1 \in 1 .. Named(d)
    BY <2>5, RangeNames
  <2> QED BY <2>4, <2>5, <2>6
<1>4. /\ media[d].data \in [1 .. Size(d) -> Sectors] /\ media[d].dirty \in BOOLEAN
      /\ media[d].changed \in BOOLEAN /\ media = [e \in Drives |-> media[e]]
      /\ media[d] = [data |-> media[d].data, dirty |-> media[d].dirty,
                     changed |-> media[d].changed]
  <2>1. media[d] \in DiskType(d) /\ media = [e \in Drives |-> media[e]]
    BY Found
  <2> QED BY <2>1 DEF DiskType
<1> DEFINE data == [p \in 1 .. Size(d) |->
                      IF p \in Blanked(d, table) THEN Blank ELSE media[d].data[p]]
           dirty == media[d].dirty \/ Good(d, table) # {}
<1>5. Wiped(d, table) = [data |-> data, dirty |-> dirty, changed |-> media[d].changed]
  BY DEF Wiped
<1>6. Wiped(d, table) \in DiskType(d)
  <2>1. data \in [1 .. Size(d) -> Sectors]
    BY <1>4, CellsHeld
  <2>2. dirty \in BOOLEAN
    OBVIOUS
  <2> HIDE DEF data, dirty
  <2> QED BY <1>4, <1>5, <2>1, <2>2 DEF DiskType
<1>7. media' = IF d \in ReadOnly THEN media ELSE [media EXCEPT ![d] = Wiped(d, table)]
  <2>1. CASE d \in ReadOnly
    BY <2>1 DEF Format
  <2>2. CASE d \notin ReadOnly
    <3>1. media' = [media EXCEPT ![d].data = data, ![d].dirty = dirty]
      <4>1. DOMAIN media[d].data = 1 .. Size(d)
        BY <1>4
      <4> QED BY <2>2, <4>1 DEF Format, Good, Blanked
    <3> HIDE DEF data, dirty
    <3>2. [media EXCEPT ![d].data = data, ![d].dirty = dirty] =
            [media EXCEPT ![d] = [data |-> data, dirty |-> dirty, changed |-> media[d].changed]]
      <4>1. SameFields(media, d, data, dirty)
        BY <1>4, TwoFields
      <4> QED BY <4>1 DEF SameFields
    <3> QED BY <1>5, <2>2, <3>1, <3>2
  <2> QED BY <2>1, <2>2
<1>8. /\ call' = [op |-> "format", drive |-> d,
                  places |-> [i \in 1 .. Cardinality(Good(d, table)) |-> Place(d, table[i])],
                  bx |-> 0, ok |-> Cardinality(Good(d, table)) = Len(table)]
      /\ UNCHANGED memory /\ Still /\ session.runs
  BY DEF Format, Answer, Ready, Good
<1> HIDE DEF data, dirty
<1> QED BY <1>1, <1>2, <1>3, <1>6, <1>7, <1>8 DEF Blanks

\* So does a format: what it blanks makes the disk dirty.
LEMMA FormatKeeps ==
  ASSUME Kept, NEW d \in Drives, NEW table \in Tables(d), Format(d, table)
  PROVE  Kept'
<1>1. Blanks(d, table)
  BY FormatShape
<1>2. /\ session.runs /\ UNCHANGED <<file, session>> /\ attached' \subseteq Drives
      /\ memory' \in Memories /\ media[d] \in DiskType(d)
  BY <1>1, Found DEF Blanks, Still
<1>3. CASE d \in ReadOnly
  <2>1. media' = media
    BY <1>1, <1>3 DEF Blanks
  <2> QED BY <1>2, <2>1, NoDisk
<1>4. CASE d \notin ReadOnly
  <2>1. media' = [media EXCEPT ![d] = Wiped(d, table)] /\ Wiped(d, table) \in DiskType(d)
    BY <1>1, <1>4 DEF Blanks
  <2>2. CASE Good(d, table) # {}
    <3>1. Wiped(d, table).dirty
      BY <2>2 DEF Wiped
    <3> QED BY <1>2, <2>1, <3>1, OneDisk
  <2>3. CASE Good(d, table) = {}
    <3>1. Blanked(d, table) = {}
      BY <2>3 DEF Blanked
    <3>2. media[d].data = [p \in 1 .. Size(d) |-> media[d].data[p]] /\ media[d].dirty \in BOOLEAN
      BY <1>2 DEF DiskType
    <3>3. Wiped(d, table).data = media[d].data
      BY <3>1, <3>2 DEF Wiped
    <3>4. Wiped(d, table).dirty = (media[d].dirty \/ Good(d, table) # {})
      BY DEF Wiped
    <3>5. Wiped(d, table).dirty = media[d].dirty
      BY <2>3, <3>2, <3>4
    <3> QED BY <1>2, <2>1, <3>3, <3>5, OneDisk
  <2> QED BY <2>2, <2>3
<1> QED BY <1>3, <1>4

\* Looking whether a disk was changed keeps the files with the disks.
LEMMA MediaChangeKeeps ==
  ASSUME Kept, NEW d \in Drives, MediaChange(d) PROVE Kept'
<1>1. /\ session.runs /\ UNCHANGED <<file, session>> /\ attached' \subseteq Drives
      /\ memory' \in Memories /\ media[d] \in DiskType(d) /\ media = [e \in Drives |-> media[e]]
  BY Found DEF MediaChange, Still
<1>2. media' = [media EXCEPT ![d] = [media[d] EXCEPT !.changed = FALSE]]
  BY <1>1 DEF MediaChange
<1>3. PICK x : x = [media[d] EXCEPT !.changed = FALSE]
  OBVIOUS
<1>4. x \in DiskType(d) /\ x.data = media[d].data /\ x.dirty = media[d].dirty
  BY <1>1, <1>3 DEF DiskType
<1> QED BY <1>1, <1>2, <1>3, <1>4, OneDisk

\* So does a floppy that the harness puts in.
LEMMA SwapDiskKeeps ==
  ASSUME Kept, NEW d \in Drives, SwapDisk(d) PROVE Kept'
<1>1. /\ session.runs /\ session.by = "harness" /\ UNCHANGED <<file, session>>
      /\ attached' \subseteq Drives /\ memory' \in Memories /\ media[d] \in DiskType(d)
      /\ media = [e \in Drives |-> media[e]]
  BY Found DEF SwapDisk
<1>2. [i \in 1 .. Size(d) |-> Image("other", i)] \in [1 .. Size(d) -> Sectors]
  BY NamesCount, CellsHeld
<1>3. PICK other \in [1 .. Size(d) -> Sectors] : other = [i \in 1 .. Size(d) |-> Image("other", i)]
  BY <1>2
<1>4. media' = [media EXCEPT ![d].data = other, ![d].changed = TRUE]
  BY <1>3 DEF SwapDisk
<1>5. PICK x : x = media'[d]
  OBVIOUS
<1>6. x = [[media[d] EXCEPT !.data = other] EXCEPT !.changed = TRUE]
  BY <1>1, <1>4, <1>5
<1>7. x \in DiskType(d)
  BY <1>1, <1>6 DEF DiskType
<1>8. media' = [media EXCEPT ![d] = x]
  <2>1. media' = [e \in Drives |-> media'[e]] /\ \A e \in Drives \ {d} : media'[e] = media[e]
    BY <1>1, <1>4
  <2> QED BY <1>1, <1>5, <2>1
<1> QED BY <1>1, <1>7, <1>8, OneDisk

\* A call that is refused, or an ejected drive, changes no disk.
LEMMA OthersKeep ==
  ASSUME Kept, NEW d \in Drives
  PROVE  /\ \A op, c, h, s, n : Refused(d, op, c, h, s, n) => Kept'
         /\ Eject(d) => Kept'
<1>1. ASSUME NEW op, NEW c, NEW h, NEW s, NEW n, Refused(d, op, c, h, s, n) PROVE Kept'
  BY <1>1, Found, NoDisk DEF Refused, Still
<1>2. ASSUME Eject(d) PROVE Kept'
  BY <1>2, Found, NoDisk DEF Eject
<1> QED BY <1>1, <1>2

\* The start of a session loads every disk from its file.
LEMMA RestartKeeps == ASSUME Kept, Restart PROVE Kept'
<1>1. /\ ~ session.runs /\ media' = [d \in Drives |-> Loaded(d, file[d])] /\ attached' = Drives
      /\ memory' = PowerOn /\ session' = [session EXCEPT !.runs = TRUE, !.failed = {}]
      /\ file' = file
  BY DEF Restart
<1>2. /\ session \in Sessions /\ (session.by = "harness" => session.runs)
      /\ file = [d \in Drives |-> file[d]]
      /\ \A d \in Drives : file[d] \in [1 .. Named(d) -> Sectors]
  BY DEF Kept, Typed
<1>3. session' \in Sessions /\ session'.runs /\ session'.by = session.by
  BY <1>1, <1>2 DEF Sessions
<1>4. \A d \in Drives : /\ media'[d] = Loaded(d, file[d]) /\ media'[d] \in DiskType(d)
                        /\ \A i \in 1 .. Named(d) : media'[d].data[i] = file[d][i]
  BY <1>1, <1>2, LoadedShape
<1>5. Typed'
  BY <1>1, <1>2, <1>3, <1>4, CellsHeld DEF Typed
<1>6. ASSUME NEW d \in Drives PROVE Agrees(d)'
  <2>1. Same(d)'
    BY <1>1, <1>4 DEF Same
  <2> QED BY <1>3, <2>1 DEF Agrees
<1> QED BY <1>3, <1>5, <1>6 DEF Kept

ToSave == {d \in Drives : FromFile(d) /\ session.persist /\ media[d].dirty}

(* What the end of a session does, for the images it writes as far as the  *)
(* host lets it.                                                           *)
Saves(saved, upto) ==
  /\ \A d \in saved : upto[d] \in Reached(d)
  /\ file' = [d \in Drives |-> IF d \in saved THEN Persist(d, upto[d]).img ELSE file[d]]
  /\ media' = [d \in Drives |-> IF d \in saved
                 THEN [media[d] EXCEPT !.dirty = Persist(d, upto[d]).dirty]
                 ELSE media[d]]
  /\ session' = [session EXCEPT !.runs = FALSE,
                                !.failed = {d \in saved : upto[d] < Named(d)}]

\* The end of a session: an image that was written whole is that of the disk;
\* the disk of another keeps what it is, and its drive is known to have failed.
LEMMA StopKeeps == ASSUME Kept, Stop PROVE Kept'
<1> DEFINE saved == {d \in Drives : FromFile(d) /\ session.persist /\ media[d].dirty}
<1>0. PICK upto : Saves(saved, upto)
  <2>1. \E s \in {ToSave} : \E upto \in [s -> UNION {Reached(d) : d \in s}] : Saves(s, upto)
    BY DEF Stop, ToSave, Saves
  <2>2. \E upto : Saves(ToSave, upto)
    BY <2>1
  <2> QED BY <2>2 DEF ToSave
<1>1. /\ \A d \in saved : upto[d] \in Reached(d)
      /\ file' = [d \in Drives |-> IF d \in saved THEN Persist(d, upto[d]).img ELSE file[d]]
      /\ media' = [d \in Drives |-> IF d \in saved
                     THEN [media[d] EXCEPT !.dirty = Persist(d, upto[d]).dirty]
                     ELSE media[d]]
      /\ session' = [session EXCEPT !.runs = FALSE,
                                    !.failed = {d \in saved : upto[d] < Named(d)}]
  BY <1>0 DEF Saves
<1>2. session.runs /\ session.by = "emulator" /\ UNCHANGED <<attached, memory>>
  BY DEF Stop
<1>3. /\ session \in Sessions /\ attached \subseteq Drives /\ memory \in Memories
      /\ \A d \in Drives : media[d] \in DiskType(d)
      /\ \A d \in Drives : file[d] \in [1 .. Named(d) -> Sectors]
  BY DEF Kept, Typed
<1>4. /\ session' \in Sessions /\ ~ session'.runs /\ session'.by = session.by
      /\ session'.persist = session.persist
      /\ session'.failed = {d \in saved : upto[d] < Named(d)}
  <2>1. {d \in saved : upto[d] < Named(d)} \subseteq Drives
    OBVIOUS
  <2>2. PICK failed : failed = {d \in saved : upto[d] < Named(d)}
    OBVIOUS
  <2>3. session' = [session EXCEPT !.runs = FALSE, !.failed = failed]
    BY <1>1, <2>2
  <2> HIDE DEF saved
  <2> QED BY <1>3, <2>1, <2>2, <2>3 DEF Sessions
<1>5. ASSUME NEW d \in saved
      PROVE  /\ file'[d] = [i \in 1 .. Named(d) |->
                              IF i <= upto[d] THEN media[d].data[i] ELSE file[d][i]]
             /\ file'[d] \in [1 .. Named(d) -> Sectors]
             /\ media'[d] \in DiskType(d) /\ media'[d].data = media[d].data
             /\ upto[d] # Named(d) => media'[d].dirty
             /\ upto[d] \in Nat /\ upto[d] <= Named(d)
  <2>1. /\ media[d] \in DiskType(d) /\ file[d] \in [1 .. Named(d) -> Sectors]
        /\ media[d].dirty /\ d \in Drives
    BY <1>3
  <2>2. upto[d] \in {0, 1, Named(d)}
    BY <1>1 DEF Reached
  <2>3. Named(d) \in Nat \ {0} /\ Named(d) <= Size(d) /\ Size(d) \in Nat
    BY <2>1, NamesCount
  <2>4. upto[d] \in Nat /\ upto[d] <= Named(d)
    BY <2>2, <2>3
  <2>5. file'[d] = [i \in 1 .. Named(d) |->
                      IF i <= upto[d] THEN media[d].data[i] ELSE file[d][i]]
    BY <1>1, <2>1 DEF Persist
  <2>6. \A i \in 1 .. Named(d) : media[d].data[i] \in Sectors /\ file[d][i] \in Sectors
    BY <2>1, <2>3 DEF DiskType
  <2>7. file'[d] \in [1 .. Named(d) -> Sectors]
    BY <2>5, <2>6
  <2>8. PICK b \in BOOLEAN : /\ b = (media[d].dirty /\ ~ (Kind[d] = "hard" /\ upto[d] = Named(d)))
    OBVIOUS
  <2>9. media'[d] = [media[d] EXCEPT !.dirty = b]
    BY <1>1, <2>1, <2>8 DEF Persist
  <2>10. media'[d] \in DiskType(d) /\ media'[d].data = media[d].data /\ media'[d].dirty = b
    BY <2>1, <2>9 DEF DiskType
  <2>11. upto[d] # Named(d) => b
    BY <2>1, <2>8
  <2> QED BY <2>4, <2>5, <2>7, <2>10, <2>11
<1>6. \A d \in Drives \ saved : file'[d] = file[d] /\ media'[d] = media[d]
  BY <1>1
<1>7. Typed'
  <2>1. media' = [d \in Drives |-> media'[d]] /\ file' = [d \in Drives |-> file'[d]]
    BY <1>1
  <2>2. \A d \in Drives : media'[d] \in DiskType(d) /\ file'[d] \in [1 .. Named(d) -> Sectors]
    BY <1>3, <1>5, <1>6
  <2> HIDE DEF saved
  <2> QED BY <1>2, <1>3, <1>4, <2>1, <2>2 DEF Typed
<1>8. ASSUME NEW d \in Drives, FromFile(d)
      PROVE  /\ Same(d)' \/ media'[d].dirty
             /\ session.persist /\ d \notin session'.failed => Same(d)'
  <2>1. CASE d \in saved
    <3>1. upto[d] = Named(d) => Same(d)'
      <4>1. SUFFICES ASSUME upto[d] = Named(d), NEW i \in 1 .. Named(d)
                     PROVE  file'[d][i] = media'[d].data[i]
        BY DEF Same
      <4>2. i <= upto[d]
        BY <4>1, NamesCount
      <4>3. file'[d][i] = media[d].data[i]
        BY <1>5, <2>1, <4>2
      <4> QED BY <1>5, <2>1, <4>3
    <3>2. d \notin session'.failed => upto[d] = Named(d)
      <4>1. upto[d] \in Nat /\ upto[d] <= Named(d) /\ Named(d) \in Nat
        BY <1>5, <2>1, NamesCount
      <4> QED BY <1>4, <2>1, <4>1
    <3> QED BY <1>5, <2>1, <3>1, <3>2
  <2>2. CASE d \notin saved
    <3>1. Same(d)' = Same(d) /\ media'[d].dirty = media[d].dirty
      BY <1>6, <2>2 DEF Same
    <3>2. Same(d) \/ media[d].dirty
      BY <1>2, <1>8 DEF Kept, Agrees
    <3>3. session.persist => ~ media[d].dirty
      BY <1>8, <2>2
    <3> QED BY <3>1, <3>2, <3>3
  <2> QED BY <2>1, <2>2
<1>9. ASSUME NEW d \in Drives PROVE Agrees(d)'
  <2> HIDE DEF saved
  <2> QED BY <1>4, <1>8 DEF Agrees, FromFile
<1> QED BY <1>2, <1>4, <1>7, <1>9 DEF Kept

\* It holds at first: the disks were just loaded.
LEMMA KeptInit == ASSUME Init PROVE Kept
<1>1. ASSUME NEW d \in Drives
      PROVE  /\ file[d] = [i \in 1 .. Named(d) |-> Image(d, i)]
             /\ file[d] \in [1 .. Named(d) -> Sectors]
             /\ media[d] = Loaded(d, file[d])
  <2>1. [i \in 1 .. Named(d) |-> Image(d, i)] \in [1 .. Named(d) -> Sectors]
    BY NamesCount, CellsHeld
  <2> QED BY <2>1 DEF Init
<1>2. \A d \in Drives : /\ media[d] \in DiskType(d)
                        /\ \A i \in 1 .. Named(d) : media[d].data[i] = file[d][i]
  <2>1. SUFFICES ASSUME NEW d \in Drives
                 PROVE  /\ media[d] \in DiskType(d)
                        /\ \A i \in 1 .. Named(d) : media[d].data[i] = file[d][i]
    OBVIOUS
  <2>2. PICK img \in [1 .. Named(d) -> Sectors] : img = file[d]
    BY <1>1
  <2>3. media[d] = Loaded(d, img)
    BY <1>1, <2>2
  <2> QED BY <2>2, <2>3, LoadedShape
<1>3. /\ file = [d \in Drives |-> file[d]] /\ media = [d \in Drives |-> media[d]]
      /\ attached = Drives /\ memory = PowerOn
  BY DEF Init
<1>4. session \in Sessions /\ session.runs
  BY DEF Init, Sessions
<1>5. Typed
  BY <1>1, <1>2, <1>3, <1>4, CellsHeld DEF Typed
<1>6. \A d \in Drives : Agrees(d)
  BY <1>2, <1>4 DEF Agrees, Same
<1> QED BY <1>4, <1>5, <1>6 DEF Kept

\* A call of INT 13h with the names and numbers of the machine.
LEMMA Int13Keeps == ASSUME Kept, Int13 PROVE Kept'
<1>1. PICK d \in Drives, bx \in Offsets, n \in Counts :
        \/ \E c \in 0 .. Geometry[d].cyls, h \in 0 .. Geometry[d].heads,
              s \in 0 .. Geometry[d].spt + 1, op \in {"read", "write", "verify"} :
             Refused(d, op, c, h, s, n) \/ Transfer(d, op, c, h, s, n, bx)
        \/ \E lba \in 0 .. Size(d) : ExtendedRead(d, lba, n, bx)
  BY DEF Int13
<1>2. ASSUME NEW c \in 0 .. Geometry[d].cyls, NEW h \in 0 .. Geometry[d].heads,
             NEW s \in 0 .. Geometry[d].spt + 1, NEW op \in {"read", "write", "verify"},
             Refused(d, op, c, h, s, n) \/ Transfer(d, op, c, h, s, n, bx)
      PROVE  Kept'
  <2>1. c \in Nat /\ h \in Nat /\ s \in Nat
    BY DriveGeometry DEF Geo
  <2> QED BY <1>2, <2>1, OthersKeep, TransferKeeps
<1>3. ASSUME NEW lba \in 0 .. Size(d), ExtendedRead(d, lba, n, bx) PROVE Kept'
  BY <1>3, ExtendedKeeps
<1> QED BY <1>1, <1>2, <1>3

\* Every step keeps the files with the disks.
LEMMA KeptStep == ASSUME Kept, [Next]_vars PROVE Kept'
<1>1. CASE Int13
  BY <1>1, Int13Keeps
<1>2. ASSUME NEW d \in Drives, NEW table \in Tables(d), Format(d, table) PROVE Kept'
  BY <1>2, FormatKeeps
<1>3. ASSUME NEW d \in Drives, MediaChange(d) \/ Eject(d) \/ SwapDisk(d) PROVE Kept'
  BY <1>3, MediaChangeKeeps, OthersKeep, SwapDiskKeeps
<1>4. CASE Stop
  BY <1>4, StopKeeps
<1>5. CASE Restart
  BY <1>5, RestartKeeps
<1>6. CASE UNCHANGED vars
  <2>1. UNCHANGED <<media, file, session>> /\ attached' \subseteq Drives /\ memory' \in Memories
    BY <1>6 DEF vars, Kept, Typed
  <2> QED BY <2>1, NoDisk
<1> QED BY <1>1, <1>2, <1>3, <1>4, <1>5, <1>6 DEF Next

\* In every state, a disk of the emulator is that of its file or known as
\* dirty, and after a session that persists it is that of its file, or its
\* drive is known to have failed.
THEOREM FilesFollow == Spec => []Kept
<1>1. Init => Kept
  BY KeptInit
<1>2. Kept /\ [Next]_vars => Kept'
  BY KeptStep
<1> QED BY <1>1, <1>2, PTL DEF Spec

\* The first sectors of a disk, as a sequence, are those of the file.
LEMMA FirstSectors ==
  ASSUME Kept, NEW d \in Drives, Same(d)
  PROVE  file[d] = SubSeq(media[d].data, 1, Named(d))
<1>1. /\ Named(d) \in Nat /\ Size(d) \in Nat /\ Named(d) <= Size(d)
      /\ file[d] \in [1 .. Named(d) -> Sectors] /\ media[d].data \in [1 .. Size(d) -> Sectors]
  BY NamesCount, Found DEF DiskType
<1>2. PICK n \in Nat : n = Named(d)
  BY <1>1
<1> PICK data \in [1 .. Size(d) -> Sectors] : data = media[d].data
  BY <1>1
<1> PICK f \in [1 .. n -> Sectors] : f = file[d]
  BY <1>1, <1>2
<1>3. data \in Seq(Sectors) /\ Len(data) = Size(d) /\ n <= Size(d)
  BY <1>1, <1>2
<1>4. \A i \in 1 .. n : f[i] = data[i]
  BY <1>2 DEF Same
<1>5. PICK s : s = SubSeq(data, 1, n)
  OBVIOUS
<1>6. s \in Seq(Sectors) /\ Len(s) = n /\ \A i \in 1 .. n : s[i] = data[i]
  <2>1. 1 \in Int /\ n \in Int /\ \A i \in 1 .. n : data[i] \in Sectors
    BY <1>1, <1>3
  <2>2. /\ SubSeq(data, 1, n) \in Seq(Sectors)
        /\ Len(SubSeq(data, 1, n)) = IF 1 <= n THEN n - 1 + 1 ELSE 0
        /\ \A i \in 1 .. n - 1 + 1 : SubSeq(data, 1, n)[i] = data[1 + i - 1]
    BY <2>1, SubSeqProperties
  <2> QED BY <1>5, <2>2
<1>7. s = [i \in 1 .. n |-> s[i]] /\ f = [i \in 1 .. n |-> f[i]]
  BY <1>6
<1>8. s = f
  BY <1>4, <1>6, <1>7
<1> QED BY <1>2, <1>5, <1>8

\* At the end of a session that persists, the image files hold the disks as the
\* guest left them, also after calls that failed half way, unless the host
\* refused; and a disk whose file differs from it is known as dirty.
THEOREM WorkReachesFiles == Spec => []WorkSaved
<1>1. Kept => WorkSaved
  <2>1. SUFFICES ASSUME Kept, NEW d \in Drives, FromFile(d)
                 PROVE  LET same == file[d] = SubSeq(media[d].data, 1, Named(d)) IN
                        /\ session.by = "emulator" => same \/ media[d].dirty
                        /\ ~session.runs /\ session.persist /\ d \notin session.failed => same
    BY DEF WorkSaved
  <2>2. Same(d) => file[d] = SubSeq(media[d].data, 1, Named(d))
    BY <2>1, FirstSectors
  <2>3. /\ session.by = "emulator" => Same(d) \/ media[d].dirty
        /\ ~ session.runs /\ session.persist /\ d \notin session.failed => Same(d)
    BY <2>1 DEF Kept, Agrees
  <2> QED BY <2>2, <2>3
<1> QED BY <1>1, FilesFollow, PTL

-----------------------------------------------------------------------------
(* A call does what it answers, and nothing else.                          *)

(* What TransfersExact asks of the call that a step answers.               *)
Exact == (call'.ok => Carried(call')) /\ Spared(call')

\* A call that is refused does nothing.
LEMMA RefusedExact ==
  ASSUME Kept, NEW d \in Drives, NEW op, NEW c, NEW h, NEW s, NEW n,
         Refused(d, op, c, h, s, n)
  PROVE  Exact
<1>1. /\ media' = media /\ memory' = memory
      /\ call'.op = "refused" /\ ~ call'.ok
  BY DEF Refused, Answer
<1> QED BY <1>1 DEF Exact, Spared, FromDisk

\* A transfer that is completed stays on the disk.
LEMMA PlacesHeld ==
  ASSUME NEW d \in Drives, NEW n \in Nat, NEW lba \in Nat, n > 0 => lba + n <= Size(d),
         NEW i \in 1 .. n
  PROVE  lba + i \in Places(d)
<1>1. n > 0 /\ Size(d) \in Nat
  BY NamesCount
<1> QED BY <1>1 DEF Places

\* A transfer from the disk to the buffer is exact.
LEMMA FetchedExact ==
  ASSUME NEW d \in Drives, NEW n \in Nat, NEW done \in 0 .. n, NEW lba \in Nat, NEW bx \in Buffer,
         NEW disk, disk = media[d], NEW k, k = call', media' = media,
         k.op \in {"read", "extended"}, k.drive = d, k.bx = bx, k.ok = (done = n),
         DOMAIN k.places = 1 .. n, \A i \in 1 .. n : k.places[i] = lba + i, Len(k.places) = n,
         Fetches(memory, memory', disk, lba, done, bx), done > 0 => lba + done <= Size(d)
  PROVE  Exact
<1>1. Halves(k) = 0 .. 2 * n - 1 /\ FromDisk(k) /\ k.op # "write" /\ k.op # "format"
  BY DEF Halves, FromDisk
<1>2. ASSUME k.ok, NEW q \in Halves(k),
             \A j \in Halves(k) : j > q => Cell(k.bx, j) # Cell(k.bx, q)
      PROVE  memory'[Cell(k.bx, q)] = media[k.drive].data[k.places[(q \div 2) + 1]][(q % 2) + 1]
  <2>1. done = n /\ q \in 0 .. 2 * done - 1
    BY <1>1, <1>2
  <2>2. memory'[Cell(bx, q)] = Half(disk, lba, q)
    BY <1>1, <1>2, <2>1 DEF Fetches
  <2>3. (q \div 2) + 1 \in 1 .. n
    BY <2>1
  <2>4. k.places[(q \div 2) + 1] = lba + (q \div 2) + 1
    <3>1. PICK i \in 1 .. n : i = (q \div 2) + 1
      BY <2>3
    <3>2. q \div 2 \in Nat
      BY <2>1
    <3>3. lba + i = lba + (q \div 2) + 1
      BY <3>1, <3>2
    <3> QED BY <3>1, <3>3
  <2> QED BY <2>2, <2>4 DEF Half
<1>3. k.ok => Carried(k)
  <2>1. ASSUME k.ok, NEW i \in 1 .. n PROVE k.places[i] \in Places(d)
    <3>1. n > 0 => lba + n <= Size(d)
      BY <2>1
    <3>2. lba + i \in Places(d)
      BY <3>1, PlacesHeld
    <3> QED BY <3>2
  <2> QED BY <1>1, <1>2, <2>1 DEF Carried
<1>4. ASSUME NEW x \in Buffer, \A q \in Halves(k) : Cell(k.bx, q) # x
      PROVE  memory'[x] = memory[x]
  <2>1. \A q \in 0 .. 2 * done - 1 : q \in Halves(k)
    BY <1>1
  <2> QED BY <1>4, <2>1 DEF Fetches
<1>5. Spared(k)
  BY <1>1, <1>4 DEF Spared, Buffer
<1> QED BY <1>3, <1>5 DEF Exact

\* The disks and the buffer are spared by a transfer as far as it does not
\* name them.
LEMMA TransferExact ==
  ASSUME Kept, NEW d \in Drives, NEW op \in {"read", "write", "verify"}, NEW c \in Nat,
         NEW h \in Nat, NEW s \in Nat, NEW n \in Counts, NEW bx \in Offsets,
         Transfer(d, op, c, h, s, n, bx)
  PROVE  Exact
<1>1. PICK lba \in Nat, done \in 0 .. n : Moves(d, op, c, h, s, n, bx, lba, done)
  BY TransferShape
<1>2. /\ media[d] \in DiskType(d) /\ memory \in Memories /\ media = [e \in Drives |-> media[e]]
      /\ done \in Nat /\ n \in Nat /\ bx \in Buffer
      /\ done > 0 => lba + done <= Size(d)
  BY <1>1, Found DEF Moves
<1>3. /\ call'.op = op /\ call'.drive = d /\ call'.bx = bx /\ call'.ok = (done = n)
      /\ DOMAIN call'.places = 1 .. n /\ \A i \in 1 .. n : call'.places[i] = lba + i
      /\ Len(call'.places) = n
  <2>1. PICK places : places = [i \in 1 .. n |-> Place(d, <<c, h, s>>) + i - 1]
    OBVIOUS
  <2>2. call' = [op |-> op, drive |-> d, places |-> places, bx |-> bx, ok |-> done = n]
    BY <1>1, <2>1 DEF Moves
  <2>3. Place(d, <<c, h, s>>) = lba + 1
    BY <1>1 DEF Moves
  <2>4. DOMAIN places = 1 .. n /\ \A i \in 1 .. n : places[i] = lba + i
    BY <2>1, <2>3
  <2>5. Len(places) = n
    BY <1>2, <2>1
  <2> QED BY <2>2, <2>4, <2>5
<1>4. PICK k : k = call'
  OBVIOUS
<1>5. /\ k.op = op /\ k.drive = d /\ k.bx = bx /\ k.ok = (done = n)
      /\ DOMAIN k.places = 1 .. n /\ \A i \in 1 .. n : k.places[i] = lba + i
      /\ Len(k.places) = n
  BY <1>3, <1>4
<1>6. k.ok => \A i \in DOMAIN k.places : k.places[i] \in Places(k.drive)
  <2>1. ASSUME k.ok, NEW i \in 1 .. n PROVE k.places[i] \in Places(d)
    <3>1. n > 0 => lba + n <= Size(d)
      BY <1>2, <1>5, <2>1
    <3>2. lba + i \in Places(d)
      BY <1>2, <3>1, PlacesHeld
    <3> QED BY <1>5, <3>2
  <2> QED BY <1>5, <2>1
<1>7. CASE op = "write"
  <2>1. Writes(d, media[d], lba, done, n, Taken(n, bx))
    BY <1>1, <1>2, StoredShape DEF Moves
  <2>2. /\ media' = [media EXCEPT ![d] = Stored(media[d], lba, done, n, Taken(n, bx))]
        /\ memory' = memory
    BY <1>1, <1>7 DEF Moves
  <2>3. /\ media'[d] = Stored(media[d], lba, done, n, Taken(n, bx))
        /\ \A e \in Drives \ {d} : media'[e] = media[e]
    BY <1>2, <2>2
  <2>4. \A p \in 1 .. Size(d) :
          media'[d].data[p] =
            IF p > lba /\ p <= lba + done THEN Taken(n, bx)[p - lba] ELSE media[d].data[p]
    BY <2>1, <2>3 DEF Writes
  <2>5. ASSUME k.ok, NEW i \in 1 .. n
        PROVE  media'[d].data[lba + i] = Slice(memory, bx, i - 1)
    <3>1. done = n
      BY <1>5, <2>5
    <3>2. lba + i \in 1 .. Size(d) /\ lba + i > lba /\ lba + i <= lba + done /\ (lba + i) - lba = i
      BY <1>2, <3>1, NamesCount
    <3>3. media'[d].data[lba + i] = Taken(n, bx)[i]
      BY <2>4, <3>2
    <3> QED BY <3>3 DEF Taken
  <2>6. k.ok => Carried(k)
    BY <1>5, <1>7, <1>6, <2>5 DEF Carried, FromDisk
  <2>7. ASSUME NEW e \in Drives, NEW p \in Places(e), ~ InCall(k, e, p)
        PROVE  media'[e].data[p] = media[e].data[p]
    <3>1. CASE e # d
      BY <2>3, <3>1
    <3>2. CASE e = d
      <4>1. p \in 1 .. Size(d) /\ p \in Nat
        BY <3>2, NamesCount DEF Places
      <4>2. ~ (p > lba /\ p <= lba + done)
        <5>1. SUFFICES ASSUME p > lba /\ p <= lba + done PROVE FALSE
          OBVIOUS
        <5>2. p - lba \in 1 .. n /\ lba + (p - lba) = p
          BY <1>2, <4>1, <5>1
        <5>3. k.places[p - lba] = p
          BY <1>5, <5>2
        <5> QED BY <1>5, <1>7, <2>7, <3>2, <5>2, <5>3 DEF InCall
      <4> QED BY <2>4, <3>2, <4>1, <4>2
    <3> QED BY <3>1, <3>2
  <2>8. Spared(k)
    BY <1>5, <1>7, <2>2, <2>7 DEF Spared, FromDisk
  <2> QED BY <1>4, <2>6, <2>8 DEF Exact
<1>8. CASE op = "read"
  <2>1. media' = media /\ memory' = Fetched(memory, media[d], lba, done, bx)
    BY <1>1, <1>8 DEF Moves
  <2>2. PICK disk \in DiskType(d) : disk = media[d]
    BY <1>2
  <2>3. Fetches(memory, memory', disk, lba, done, bx)
    <3>1. Fetches(memory, Fetched(memory, disk, lba, done, bx), disk, lba, done, bx)
      BY <1>2, FetchedShape
    <3> QED BY <2>1, <2>2, <3>1
  <2> QED BY <1>2, <1>4, <1>5, <1>8, <2>1, <2>2, <2>3, FetchedExact DEF FromDisk
<1>9. CASE op = "verify"
  <2>1. media' = media /\ memory' = memory
    BY <1>1, <1>9 DEF Moves
  <2>2. k.ok => Carried(k)
    BY <1>5, <1>9, <1>6 DEF Carried, FromDisk
  <2>3. Spared(k)
    BY <1>5, <1>9, <2>1 DEF Spared, FromDisk
  <2> QED BY <1>4, <2>2, <2>3 DEF Exact
<1> QED BY <1>7, <1>8, <1>9

\* A transfer by block address fetches the blocks it names.
LEMMA ExtendedExact ==
  ASSUME Kept, NEW d \in Drives, NEW lba \in 0 .. Size(d), NEW n \in Counts,
         NEW bx \in Offsets, ExtendedRead(d, lba, n, bx)
  PROVE  Exact
<1>1. n \in Nat /\ bx \in Buffer /\ lba \in Nat
  BY SegmentAssumption, NamesCount DEF Buffer
<1>2. PICK done : /\ done = Done(d, lba, n)
                  /\ memory' = Fetched(memory, media[d], lba, done, bx)
                  /\ call' = [op |-> "extended", drive |-> d, places |-> [i \in 1 .. n |-> lba + i],
                              bx |-> bx, ok |-> done = n]
                  /\ media' = media
  BY DEF ExtendedRead, Answer
<1>3. done \in 0 .. n /\ done \in Nat /\ (done > 0 => lba + done <= Size(d))
  BY <1>1, <1>2, DoneBounds
<1>4. media[d] \in DiskType(d) /\ memory \in Memories
  BY Found
<1>5. PICK k : k = call'
  OBVIOUS
<1>6. /\ k.op = "extended" /\ k.drive = d /\ k.bx = bx /\ k.ok = (done = n)
      /\ DOMAIN k.places = 1 .. n /\ \A i \in 1 .. n : k.places[i] = lba + i
      /\ Len(k.places) = n
  <2>1. PICK places : places = [i \in 1 .. n |-> lba + i]
    OBVIOUS
  <2>2. k = [op |-> "extended", drive |-> d, places |-> places, bx |-> bx, ok |-> done = n]
    BY <1>2, <1>5, <2>1
  <2>3. Len(places) = n
    BY <1>1, <2>1
  <2> QED BY <2>1, <2>2, <2>3
<1>7. PICK disk \in DiskType(d) : disk = media[d]
  BY <1>4
<1>8. Fetches(memory, memory', disk, lba, done, bx)
  <2>1. memory' = Fetched(memory, disk, lba, done, bx)
    BY <1>2, <1>7
  <2>2. memory \in Memories /\ bx \in Buffer /\ lba \in Nat /\ done \in Nat
        /\ (done > 0 => lba + done <= Size(d))
    BY <1>1, <1>3, <1>4
  <2>3. Fetches(memory, Fetched(memory, disk, lba, done, bx), disk, lba, done, bx)
    BY <2>2, FetchedShape
  <2> QED BY <2>1, <2>3
<1>9. done > 0 => lba + done <= Size(d)
  BY <1>3
<1>10. done \in 0 .. n /\ n \in Nat /\ lba \in Nat /\ bx \in Buffer
  BY <1>1, <1>3
<1>11. media' = media
  BY <1>2
<1> QED BY <1>5, <1>6, <1>7, <1>8, <1>9, <1>10, <1>11, FetchedExact

\* A format blanks the entries that it counts, and nothing else.
LEMMA FormatExact ==
  ASSUME Kept, NEW d \in Drives, NEW table \in Tables(d), Format(d, table)
  PROVE  Exact
<1>1. Blanks(d, table)
  BY FormatShape
<1>2. PICK m \in Nat : /\ m = Cardinality(Good(d, table)) /\ Good(d, table) = 1 .. m
  BY <1>1 DEF Blanks
<1>3. PICK k : k = call'
  OBVIOUS
<1>4. /\ k.op = "format" /\ k.drive = d
      /\ DOMAIN k.places = 1 .. m /\ \A i \in 1 .. m : k.places[i] = Place(d, table[i])
  <2>1. PICK places : places = [i \in 1 .. m |-> Place(d, table[i])]
    OBVIOUS
  <2>2. PICK ok : k = [op |-> "format", drive |-> d, places |-> places, bx |-> 0, ok |-> ok]
    BY <1>1, <1>2, <1>3, <2>1 DEF Blanks
  <2> QED BY <2>1, <2>2
<1>5. ASSUME NEW i \in 1 .. m
      PROVE  /\ Place(d, table[i]) \in Blanked(d, table)
             /\ Place(d, table[i]) \in 1 .. Size(d)
  <2>1. /\ i \in Good(d, table)
        /\ Place(d, table[i]) = Lba(d, table[i][1], table[i][2], table[i][3]) + 1
        /\ Place(d, table[i]) \in 1 .. Named(d)
    BY <1>1, <1>2 DEF Blanks
  <2> QED BY <2>1, NamesCount DEF Blanked
<1>6. ASSUME NEW p \in Blanked(d, table) PROVE \E i \in 1 .. m : p = Place(d, table[i])
  BY <1>1, <1>2 DEF Blanked, Blanks
<1>7. media = [e \in Drives |-> media[e]]
  BY Found
<1>8. /\ memory' = memory
      /\ d \in ReadOnly => media' = media
      /\ d \notin ReadOnly => /\ media'[d] = Wiped(d, table)
                              /\ \A e \in Drives \ {d} : media'[e] = media[e]
  BY <1>1, <1>7 DEF Blanks
<1>9. d \notin ReadOnly =>
        \A p \in 1 .. Size(d) :
          media'[d].data[p] = IF p \in Blanked(d, table) THEN Blank ELSE media[d].data[p]
  <2>1. Wiped(d, table).data = [p \in 1 .. Size(d) |->
                                  IF p \in Blanked(d, table) THEN Blank ELSE media[d].data[p]]
    BY Zenon DEF Wiped
  <2>2. PICK w : w = Wiped(d, table)
    OBVIOUS
  <2>3. d \notin ReadOnly => media'[d] = w
    BY <1>8, <2>2
  <2>4. \A p \in 1 .. Size(d) :
          w.data[p] = IF p \in Blanked(d, table) THEN Blank ELSE media[d].data[p]
    BY <2>1, <2>2
  <2> QED BY <2>3, <2>4
<1>10. Carried(k)
  <2>1. ASSUME NEW i \in 1 .. m, d \notin ReadOnly PROVE media'[d].data[Place(d, table[i])] = Blank
    BY <1>5, <1>9, <2>1
  <2>2. \A i \in DOMAIN k.places : k.places[i] \in Places(k.drive)
    BY <1>4, <1>5 DEF Places
  <2> QED BY <1>4, <2>1, <2>2 DEF Carried, FromDisk
<1>11. ASSUME NEW e \in Drives, NEW p \in Places(e), ~ InCall(k, e, p)
       PROVE  media'[e].data[p] = media[e].data[p]
  <2>1. CASE e # d \/ d \in ReadOnly
    BY <1>8, <2>1
  <2>2. CASE e = d /\ d \notin ReadOnly
    <3>1. p \notin Blanked(d, table)
      BY <1>4, <1>6, <1>11, <2>2 DEF InCall
    <3> QED BY <1>9, <2>2, <3>1 DEF Places
  <2> QED BY <2>1, <2>2
<1>12. Spared(k)
  BY <1>4, <1>8, <1>11 DEF Spared, FromDisk
<1> QED BY <1>3, <1>10, <1>12 DEF Exact

\* Every call is exact.
LEMMA CallsExact == ASSUME Kept, Next PROVE calls' # calls => Exact
<1>1. CASE Int13
  <2>1. PICK d \in Drives, bx \in Offsets, n \in Counts :
          \/ \E c \in 0 .. Geometry[d].cyls, h \in 0 .. Geometry[d].heads,
                s \in 0 .. Geometry[d].spt + 1, op \in {"read", "write", "verify"} :
               Refused(d, op, c, h, s, n) \/ Transfer(d, op, c, h, s, n, bx)
          \/ \E lba \in 0 .. Size(d) : ExtendedRead(d, lba, n, bx)
    BY <1>1 DEF Int13
  <2>2. ASSUME NEW c \in 0 .. Geometry[d].cyls, NEW h \in 0 .. Geometry[d].heads,
               NEW s \in 0 .. Geometry[d].spt + 1, NEW op \in {"read", "write", "verify"},
               Refused(d, op, c, h, s, n) \/ Transfer(d, op, c, h, s, n, bx)
        PROVE  Exact
    <3>1. c \in Nat /\ h \in Nat /\ s \in Nat
      BY DriveGeometry DEF Geo
    <3> QED BY <2>2, <3>1, RefusedExact, TransferExact
  <2>3. ASSUME NEW lba \in 0 .. Size(d), ExtendedRead(d, lba, n, bx) PROVE Exact
    BY <2>3, ExtendedExact
  <2> QED BY <2>1, <2>2, <2>3
<1>2. ASSUME NEW d \in Drives, NEW table \in Tables(d), Format(d, table) PROVE Exact
  BY <1>2, FormatExact
<1>3. ASSUME NEW d \in Drives, MediaChange(d) \/ Eject(d) \/ SwapDisk(d) PROVE calls' = calls
  BY <1>3 DEF MediaChange, Eject, SwapDisk
<1>4. CASE Stop \/ Restart
  BY <1>4 DEF Stop, Restart
<1> QED BY <1>1, <1>2, <1>3, <1>4 DEF Next

\* A call does what it answers: the sectors it asks for, from the block of the
\* name it gives or from the block itself, and those behind it that are padding,
\* are on the disk in memory if the transfer succeeded, and then those of the
\* buffer, wrapped in its segment, the last half that comes to a cell staying; they are blank after a
\* format; and whatever the answer, nothing that was not asked for changes, on
\* any drive or in memory.
THEOREM CallsDoWhatTheyAnswer == Spec => TransfersExact
<1>1. Kept /\ [Next]_vars =>
        [calls' # calls => (call'.ok => Carried(call')) /\ Spared(call')]_vars
  BY CallsExact DEF Exact
<1> QED BY <1>1, FilesFollow, PTL DEF Spec, TransfersExact
=============================================================================
