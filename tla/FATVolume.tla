----------------------------- MODULE FATVolume -----------------------------
(***************************************************************************)
(* A FAT12 volume: build_host_directory_disk (hostbridge.py), which fills  *)
(* it from a host folder, and the operations of class FAT12 (fat12.py)     *)
(* that create, replace and delete files in its root directory.            *)
(*                                                                         *)
(* A cluster is one sector, as in the 1.44 MB image the bridge builds.     *)
(* Contents are counted in clusters; a folder of the population holds one  *)
(* file.  The two copies of the allocation table are written together and  *)
(* are one variable here.  What a free cluster and a deleted entry still   *)
(* hold is left out: nothing reads it.                                     *)
(***************************************************************************)
EXTENDS FATTable, Sequences, FiniteSetsExt

CONSTANTS
  NameCount,   \* number of file names, in the order the host lists them
  MaxLen,      \* longest content, in clusters
  Slots,       \* entries of the root directory
  PerSector    \* entries in a sector

ASSUME VolumeAssumption ==
  /\ {NameCount, MaxLen, Slots, PerSector} \subseteq Nat \ {0}
  /\ Slots % PerSector = 0

VARIABLES
  fat,      \* what get_fat_entry returns for each data cluster
  table,    \* the same as the bytes of _fat_cache and of the disk
  root,     \* the root directory; the rows gathered so far while building
  data,     \* what each data cluster holds
  source,   \* the host entries still to be copied
  phase,    \* "building", "ready" or "refused"
  asked,    \* history: the last call of an operation, with its arguments
  result    \* how it ended

vars == <<fat, table, root, data, source, phase, asked, result>>

Names == 1 .. NameCount

---------------------------------------------------------------------------
(* Contents, cells and directory entries.                                  *)

\* Contents of a file of a name: one of each length.
Contents(n) == {[i \in 1 .. len |-> <<"chunk", n, i>>] : len \in 0 .. MaxLen}

None == [kind |-> "none", body |-> << >>]
File(content) == [kind |-> "file", body |-> content]
Folder(content) == [kind |-> "folder", body |-> content]

\* What the host may have under a name.
Items(n) ==
  {None} \cup {File(c) : c \in Contents(n)} \cup {Folder(c) : c \in Contents(n)}

\* A folder's cluster leads to the file in it; a root sector written past the
\* root directory holds none of them.
Blank == <<"blank", 0, 0>>
FolderCell(first, len) == <<"folder", first, len>>
RootCell == <<"root", 0, 0>>

Unused == [mark |-> "unused", name |-> 0, folder |-> FALSE, first |-> 0, size |-> 0]

Deleted == [Unused EXCEPT !.mark = "deleted"]

Entry(n, folder, first, size) ==
  [mark |-> "used", name |-> n, folder |-> folder, first |-> first, size |-> size]

---------------------------------------------------------------------------
(* Clusters filled and entries packed.                                     *)

Rank(S, c) == Cardinality({d \in S : d <= c})

Filled(d, S, content) ==
  [c \in Clusters |-> IF c \in S THEN content[Rank(S, c)] ELSE d[c]]

Kept(d, f) == [c \in Clusters |-> IF f[c] = FREE THEN Blank ELSE d[c]]

\* The calls of set_fat_entry that lead from one table to another.
Repacked(bytes, f, g) ==
  FoldSet(LAMBDA c, b : SetPacked(b, c, g[c]), bytes,
          {c \in Clusters : f[c] # g[c]})

First(S) == IF S = {} THEN 0 ELSE Lowest(S)

---------------------------------------------------------------------------
(* The directory.                                                          *)

\* The scan stops at the first entry never used.
Scanned == {i \in DOMAIN root : \A j \in 1 .. i : root[j].mark # "unused"}

Named(n) == {i \in Scanned : root[i].name = n}

Reusable == {i \in Scanned : root[i].mark = "deleted"}

\* Mutant: a deleted entry is taken before a file of the name is looked for.
SlotForEarly(n) ==
  CASE Reusable # {} -> {Lowest(Reusable)}
    [] Reusable = {} /\ Named(n) # {} -> {Lowest(Named(n))}
    [] OTHER -> {i \in DOMAIN root : i = Cardinality(Scanned) + 1}

\* The entry a file of the name goes to, if there is one: its own, else the
\* first never used, else the first deleted.
SlotFor(n) ==
  CASE Named(n) # {} -> {Lowest(Named(n))}
    [] Named(n) = {} /\ Scanned # DOMAIN root -> {Cardinality(Scanned) + 1}
    [] OTHER -> {i \in Reusable : i = Lowest(Reusable)}

---------------------------------------------------------------------------
(* The volume is built from the host's entries, in the order of names.     *)

Waiting == {n \in Names : source[n] # None}

Refused(why) ==
  /\ phase' = "refused" /\ result' = why
  /\ UNCHANGED <<fat, table, root, data, source, asked>>

Need(item) == Len(item.body) + (IF item.kind = "folder" THEN 1 ELSE 0)

\* write_data, or for a folder write_directory: one cluster for the folder, then
\* those of its file.
Copied(n) ==
  LET item == source[n]
      folder == item.kind = "folder"
      own == IF folder THEN FirstFit(fat, 1) ELSE {}
      f1 == Linked(fat, own)
      body == FirstFit(f1, Len(item.body))
      f2 == Linked(f1, body)
      d1 == Filled(data, body, item.body)
  IN /\ fat' = f2
     /\ table' = Repacked(table, fat, f2)
     /\ data' = Filled(d1, own, <<FolderCell(First(body), Len(item.body))>>)
     /\ root' = Append(root, IF folder THEN Entry(n, TRUE, First(own), 0)
                             ELSE Entry(n, FALSE, First(body), Len(item.body)))
     /\ source' = [source EXCEPT ![n] = None]
     /\ UNCHANGED <<phase, asked, result>>

BuildEntry ==
  /\ phase = "building" /\ Waiting # {}
  /\ LET n == Lowest(Waiting)
     IN IF Need(source[n]) > Cardinality(Free(fat)) THEN Refused("ValueError") ELSE Copied(n)

RootWritten == [i \in 1 .. Slots |-> IF i <= Len(root) THEN root[i] ELSE Unused]

\* Rows past the root directory go to the sectors after it, which are the first
\* data clusters.
Overwritten == {c \in Clusters : (c - 1) * PerSector <= Len(root) - Slots}

\* write_sector does not take part of a sector.
BuildDone ==
  /\ phase = "building" /\ Waiting = {}
  /\ IF Len(root) > Slots /\ Len(root) % PerSector # 0
     THEN Refused("IndexError")
     ELSE /\ root' = RootWritten
          /\ data' = [c \in Clusters |-> IF c \in Overwritten THEN RootCell ELSE data[c]]
          /\ phase' = "ready"
          /\ UNCHANGED <<fat, table, source, asked, result>>

---------------------------------------------------------------------------
(* Files are written and deleted.                                          *)

\* write_file when the data does not fit: nothing has been changed.
WriteFull(n, content) ==
  /\ phase = "ready"
  /\ Len(content) > Cardinality(Free(fat))
  /\ asked' = <<"write", n, content>> /\ result' = "disk full"
  /\ UNCHANGED <<fat, table, root, data, source, phase>>

\* The data is in place before an entry is looked for.
WriteRootless(n, content) ==
  LET S == FirstFit(fat, Len(content))
  IN /\ phase = "ready"
     /\ Len(content) <= Cardinality(Free(fat)) /\ SlotFor(n) = {}
     /\ fat' = Linked(fat, S)
     /\ table' = Repacked(table, fat, fat')
     /\ data' = Filled(data, S, content)
     /\ asked' = <<"write", n, content>> /\ result' = "root full"
     /\ UNCHANGED <<root, source, phase>>

WriteFile(n, content) ==
  LET S == FirstFit(fat, Len(content))
      f1 == Linked(fat, S)
  IN /\ phase = "ready"
     /\ Len(content) <= Cardinality(Free(fat))
     /\ \E i \in SlotFor(n) :
          /\ root' = [root EXCEPT ![i] = Entry(n, FALSE, First(S), Len(content))]
          /\ fat' = IF i \in Named(n) THEN Freed(f1, root[i].first) ELSE f1
     /\ table' = Repacked(Repacked(table, fat, f1), f1, fat')
     /\ data' = Kept(Filled(data, S, content), fat')
     /\ asked' = <<"write", n, content>> /\ result' = "written"
     /\ UNCHANGED <<source, phase>>

DeleteEntry(files) ==
  /\ phase = "ready"
  /\ IF files = {}
     THEN /\ result' = "absent"
          /\ UNCHANGED <<fat, table, root, data>>
     ELSE LET i == Lowest(files)
          IN /\ root' = [root EXCEPT ![i] = Deleted]
             /\ fat' = Freed(fat, root[i].first)
             /\ table' = Repacked(table, fat, fat')
             /\ data' = Kept(data, fat')
             /\ result' = "deleted"
  /\ UNCHANGED <<source, phase>>

\* Mutant: a folder is deleted like a file.
DeleteAny(n) == DeleteEntry(Named(n)) /\ asked' = <<"delete", n>>

DeleteFile(n) ==
  /\ DeleteEntry({i \in Named(n) : ~ root[i].folder})
  /\ asked' = <<"delete", n>>

Init ==
  /\ fat = BlankTable /\ table = BlankBytes
  /\ root = << >>
  /\ data = [c \in Clusters |-> Blank]
  /\ source \in [Names -> UNION {Items(n) : n \in Names}]
  /\ \A n \in Names : source[n] \in Items(n)
  /\ phase = "building" /\ asked = <<"build">> /\ result = "none"

Next ==
  \/ BuildEntry \/ BuildDone
  \/ \E n \in Names :
       \/ DeleteFile(n)
       \/ \E content \in Contents(n) :
            WriteFull(n, content) \/ WriteRootless(n, content) \/ WriteFile(n, content)

Spec == Init /\ [][Next]_vars

---------------------------------------------------------------------------
(* Properties.                                                             *)

Live == {i \in DOMAIN root : root[i].mark = "used"}

\* The file in a folder, as its cluster describes it.
FileIn(i) ==
  LET cell == data[root[i].first]
  IN IF cell[1] = "folder" THEN [first |-> cell[2], size |-> cell[3]]
     ELSE [first |-> 0, size |-> 0]

Folders == {i \in Live : root[i].folder}

\* What leads to a cluster: an entry, a folder's entry, another cluster.
Leading(c) ==
  {<<"entry", i>> : i \in {j \in Live : root[j].first = c}}
    \cup {<<"folder", i>> : i \in {j \in Folders : FileIn(j).first = c}}
    \cup {<<"link", d>> : d \in {e \in Clusters : fat[e] = c}}

\* No cluster belongs to two chains, whatever is written, replaced and deleted
\* (_alloc_clusters, _free_chain), and none that is in use counts as free.
SingleOwner ==
  \A c \in Clusters : \A x, y \in Leading(c) : x = y /\ fat[c] # FREE

\* A name is in the directory once, although a deleted entry may stand in front
\* of the file a write replaces (_put_root_entry).
NamesUnique == \A i, j \in Live : root[i].name = root[j].name => i = j

\* Two entries of the table share a byte: every entry reads as it was last
\* written, whatever was written to its neighbours (set_fat_entry,
\* get_fat_entry), and the media descriptor stays.
TableHolds ==
  /\ \A c \in Clusters : GetPacked(table, c) = fat[c]
  /\ table[0] = Media /\ GetPacked(table, 1) = 4095

\* Clusters in use that nothing leads to.
Lost ==
  {c \in Clusters : fat[c] # FREE}
    \ UNION ({ChainSet(fat, root[i].first) : i \in Live}
               \cup {ChainSet(fat, FileIn(i).first) : i \in Folders})

\* Clusters become lost in three ways only: a write that finds no entry keeps
\* what it allocated, a file that replaces a folder leaves the folder's files
\* allocated, and a host folder larger than the root directory.
LosesOnly ==
  \/ phase = "building" /\ Len(root) > Slots
  \/ result' = "root full"
  \/ \E i \in Folders : ~ root'[i].folder
  \/ Lost' \subseteq Lost

ClustersKept == [][LosesOnly]_vars

---------------------------------------------------------------------------
(* The volume as a map from names to contents.                             *)

\* read_file: as many clusters of the chain as the size asks for.
Read(first, size) ==
  LET met == Visited(fat, first)
  IN [k \in {j \in 1 .. size : met[j - 1] \in Clusters} |-> data[met[k - 1]]]

Stored(n) ==
  IF source[n] # None THEN source[n]
  ELSE IF \A i \in Live : root[i].name # n THEN None
  ELSE LET i == CHOOSE j \in Live : root[j].name = n
       IN IF root[i].folder THEN Folder(Read(FileIn(i).first, FileIn(i).size))
          ELSE File(Read(root[i].first, root[i].size))

IsFile(item) == item.kind = "file"

Promised == INSTANCE FileMap WITH
  Written <- Contents,
  files <- [n \in Names |-> Stored(n)],
  room <- Cardinality(Free(fat)),
  status <- phase,
  answer <- result

\* Every call does what it answers, to the name and with the content it was
\* given, and changes no other name: a file that is written holds its content,
\* in no more clusters than it fills; one that is deleted was a file and is
\* gone; a refused call changes no file, and is refused for want of clusters,
\* of an entry or of the file it names (class FAT12). Building changes nothing
\* of what the host's folder holds (build_host_directory_disk).
ImplementsFileMap ==
  /\ Promised!Population(UNION {Items(n) : n \in Names})
  /\ Promised!Changes

=============================================================================
