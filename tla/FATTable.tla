------------------------------ MODULE FATTable ------------------------------
(***************************************************************************)
(* The allocation table of fat12.py, class FAT12: its entries, the chains  *)
(* they form, first-fit allocation and release, as operators on a function *)
(* from cluster numbers to entries; and the packing of 12-bit entries into *)
(* bytes (get_fat_entry, set_fat_entry).                                   *)
(***************************************************************************)
EXTENDS Integers, FiniteSets

CONSTANTS
  Size,    \* number of data clusters
  Media    \* the media descriptor, which is what entry 0 reads as

ASSUME TableAssumption ==
  /\ Size \in Nat \ {0} /\ Size + 2 < 4087
  /\ Media \in 1 .. 255

\* Data clusters are numbered from 2.
Clusters == 2 .. Size + 1

FREE == 0
EOC == 4088

BlankTable == [c \in Clusters |-> FREE]

Free(f) == {c \in Clusters : f[c] = FREE}

---------------------------------------------------------------------------
(* Chains.                                                                 *)

Closed(f, S) == \A c \in S : f[c] \in Clusters => f[c] \in S

\* The clusters of the chain that starts at a cluster: follow_chain without
\* the order.
ChainSet(f, first) ==
  {c \in Clusters : first \in Clusters
                      /\ \A S \in SUBSET Clusters :
                           (first \in S /\ Closed(f, S)) => c \in S}

\* Entry 0 holds the media descriptor, entry 1 is reserved.
EntryOf(f, c) ==
  CASE c = 0 -> Media
    [] c = 1 -> EOC
    [] OTHER -> f[c]

\* The loop of follow_chain: the numbers it meets, an end mark for ever after.
\* A number past the last cluster is an error, which ends it too.
Visited(f, first) ==
  LET v[i \in 0 .. Size + 2] ==
        IF i = 0 THEN first
        ELSE LET c == v[i - 1] IN IF c \in 0 .. Size + 1 THEN EntryOf(f, c) ELSE c
  IN v

---------------------------------------------------------------------------
(* Allocation and release.                                                 *)

\* Mutant: a cluster that ends a chain counts as free.
FirstFitLoose(f, n) ==
  LET loose == {c \in Clusters : f[c] \in {FREE, EOC}}
  IN {c \in loose : Cardinality({d \in loose : d < c}) < n}

\* First-fit: the n lowest free clusters.
FirstFit(f, n) ==
  LET free == Free(f)
  IN {c \in free : Cardinality({d \in free : d < c}) < n}

Lowest(S) == CHOOSE c \in S : \A d \in S : c <= d

Above(S, c) == {d \in S : c < d}

\* Each cluster leads to the next one, the last to the end mark.
Linked(f, S) ==
  [c \in Clusters |->
     IF c \notin S THEN f[c]
     ELSE IF Above(S, c) = {} THEN EOC ELSE Lowest(Above(S, c))]

\* Mutant: only the first cluster of a chain is released.
FreedFirst(f, first) ==
  IF first \in Clusters THEN [f EXCEPT ![first] = FREE] ELSE f

\* _free_chain(follow_chain(first)), which is called for a cluster number of
\* two or more.
Freed(f, first) ==
  LET chain == ChainSet(f, first)
  IN [c \in Clusters |-> IF c \in chain THEN FREE ELSE f[c]]

---------------------------------------------------------------------------
(* The table as bytes: two entries share three bytes.                      *)

Bytes == 0 .. ((Size + 2) * 3) \div 2

Offset(c) == (c * 3) \div 2

GetPacked(b, c) ==
  LET raw == b[Offset(c)] + (256 * b[Offset(c) + 1])
  IN IF c % 2 = 0 THEN raw % 4096 ELSE raw \div 16

\* Mutant: an odd entry overwrites the byte it shares with its neighbour.
SetPackedWide(b, c, v) ==
  IF c % 2 = 0
  THEN [b EXCEPT ![Offset(c)] = v % 256,
                 ![Offset(c) + 1] = ((@ \div 16) * 16) + ((v \div 256) % 16)]
  ELSE [b EXCEPT ![Offset(c)] = (v * 16) % 256,
                 ![Offset(c) + 1] = (v \div 16) % 256]

SetPacked(b, c, v) ==
  IF c % 2 = 0
  THEN [b EXCEPT ![Offset(c)] = v % 256,
                 ![Offset(c) + 1] = ((@ \div 16) * 16) + ((v \div 256) % 16)]
  ELSE [b EXCEPT ![Offset(c)] = (@ % 16) + ((v * 16) % 256),
                 ![Offset(c) + 1] = (v \div 16) % 256]

\* The media descriptor and the reserved entry.
BlankBytes ==
  [i \in Bytes |-> IF i = 0 THEN Media ELSE IF i \in {1, 2} THEN 255 ELSE 0]
=============================================================================
