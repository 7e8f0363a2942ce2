------------------------- MODULE HostFoldersProofs -------------------------
(***************************************************************************)
(* Proofs about HostFolders.tla, for any drives and file names, any number *)
(* of edits and writes, and any order of mounting, refreshing, editing,    *)
(* writing back and failing to.                                            *)
(***************************************************************************)
EXTENDS HostFolders, TLAPS

Typed ==
  /\ options \in [write : BOOLEAN, delete : BOOLEAN, text : BOOLEAN]
  /\ host \in [Mounts -> Folder] /\ disk \in [Mounts -> Folder]
  /\ snapshot \in [Mounts -> Folder]
  /\ edits \in [Mounts -> [Names -> 0 .. MaxEdits]]
  /\ stage \in [Mounts -> {"none", "built", "ready", "ejected"}]
  /\ conflicts \in [Mounts -> SUBSET Names]
  /\ dirty \in SUBSET Mounts /\ failed \in SUBSET Mounts /\ flushed \in BOOLEAN

\* No disk and no folder has an edit the user has not made.
EditsCounted ==
  \A m \in Mounts : \A n \in Names :
    host[m][n].user <= edits[m][n] /\ disk[m][n].user <= edits[m][n]

\* CleanMeansSaved from the moment a disk is built, with or without a snapshot.
Saved ==
  \A m \in Mounts \ dirty : \A n \in Names :
    disk[m][n].there /\ host[m][n].there
      => \/ host[m][n].guest >= disk[m][n].guest
         \/ host[m][n].user > disk[m][n].user
         \/ n \in conflicts[m]

Mounted == Typed /\ EditsCounted /\ Saved

\* A disk is made from its snapshot, or from later edits, if the user does not
\* edit in between; a mount without a disk has no files.
Compared ==
  \A m \in Mounts : \A n \in Names :
    /\ stage[m] = "built" => disk[m][n].user = host[m][n].user
    /\ stage[m] = "ready" => disk[m][n].user >= snapshot[m][n].user
    /\ stage[m] \in {"none", "ejected"} => ~ disk[m][n].there

---------------------------------------------------------------------------
(* Versions of a file, and the cells of the tables.                        *)

\* A missing file and a version within the bounds are contents.
LEMMA Versions ==
  /\ Absent \in Contents /\ ~ Absent.there /\ Absent.user = 0
  /\ \A u \in 0 .. MaxEdits, g \in 0 .. MaxWrites, d \in BOOLEAN :
       /\ Version(u, g, d) \in Contents
       /\ Version(u, g, d).user = u /\ Version(u, g, d).guest = g /\ Version(u, g, d).there
BY FoldersAssumption DEF Absent, Contents, Version

\* One file of one mount changes.
LEMMA CellUpdate ==
  ASSUME NEW T, NEW f \in [Mounts -> [Names -> T]], NEW m \in Mounts, NEW n \in Names, NEW v \in T
  PROVE  LET g == [f EXCEPT ![m][n] = v]
         IN  /\ g \in [Mounts -> [Names -> T]]
             /\ g[m][n] = v
             /\ \A p \in Mounts : \A q \in Names : p # m \/ q # n => g[p][q] = f[p][q]
OBVIOUS

\* The disk of one mount changes.
LEMMA MountUpdate ==
  ASSUME NEW T, NEW f \in [Mounts -> T], NEW m \in Mounts, NEW v \in T
  PROVE  LET g == [f EXCEPT ![m] = v]
         IN  /\ g \in [Mounts -> T] /\ g[m] = v
             /\ \A p \in Mounts : p # m => g[p] = f[p]
OBVIOUS

\* What the guest sees of a file is the same version, there or not.
LEMMA SeenByGuest ==
  ASSUME NEW c \in Contents
  PROVE  /\ ForGuest(c) \in Contents /\ ForGuest(c).user = c.user
         /\ ForGuest(c).guest = c.guest /\ ForGuest(c).there = c.there
BY DEF ForGuest, Contents

---------------------------------------------------------------------------
(* Steps.                                                                  *)

\* The state of a mount after its disk is built.
LEMMA BuiltDisk ==
  ASSUME Typed, NEW m \in Mounts, Built(m)
  PROVE  /\ Typed'
         /\ host' = host /\ edits' = edits /\ dirty' = dirty \ {m} /\ conflicts' = conflicts
         /\ snapshot' = snapshot
         /\ stage'[m] = "built" /\ \A p \in Mounts : p # m => stage'[p] = stage[p] /\ disk'[p] = disk[p]
         /\ \A n \in Names : /\ disk'[m][n].user = host[m][n].user
                             /\ disk'[m][n].guest = host[m][n].guest
                             /\ disk'[m][n].there = host[m][n].there
<1> DEFINE new == [n \in Names |-> ForGuest(host[m][n])]
<1>1. \A n \in Names : host[m][n] \in Contents
  BY DEF Typed, Folder
<1>2. new \in Folder
  BY <1>1, SeenByGuest DEF Folder
<1>3. \A n \in Names : /\ new[n].user = host[m][n].user /\ new[n].guest = host[m][n].guest
                       /\ new[n].there = host[m][n].there
  BY <1>1, SeenByGuest
<1> HIDE DEF new
<1>4. /\ disk' = [disk EXCEPT ![m] = new] /\ dirty' = dirty \ {m}
      /\ stage' = [stage EXCEPT ![m] = "built"]
      /\ UNCHANGED <<options, host, edits, snapshot, conflicts, flushed, failed>>
  BY DEF Built, NotDirty, new
<1>5. disk' \in [Mounts -> Folder] /\ disk'[m] = new /\ \A p \in Mounts : p # m => disk'[p] = disk[p]
  BY <1>2, <1>4, MountUpdate DEF Typed
<1>6. /\ stage' \in [Mounts -> {"none", "built", "ready", "ejected"}] /\ stage'[m] = "built"
      /\ \A p \in Mounts : p # m => stage'[p] = stage[p]
  BY <1>4 DEF Typed
<1>7. Typed'
  BY <1>4, <1>5, <1>6 DEF Typed
<1> QED BY <1>3, <1>4, <1>5, <1>6, <1>7

\* A newly built disk has nothing unsaved.
LEMMA BuiltMounted ==
  ASSUME Mounted, NEW m \in Mounts, Built(m)
  PROVE  Mounted'
<1>1. /\ Typed'
      /\ host' = host /\ edits' = edits /\ dirty' = dirty \ {m} /\ conflicts' = conflicts
      /\ \A p \in Mounts : p # m => disk'[p] = disk[p]
      /\ \A n \in Names : /\ disk'[m][n].user = host[m][n].user
                          /\ disk'[m][n].guest = host[m][n].guest
  BY BuiltDisk DEF Mounted
<1>2. \A n \in Names : host[m][n].guest \in Nat
  BY DEF Mounted, Typed, Folder, Contents
<1>3. EditsCounted'
  BY <1>1 DEF Mounted, EditsCounted
<1>4. Saved'
  <2>1. ASSUME NEW p \in Mounts \ dirty', NEW n \in Names, disk'[p][n].there, host'[p][n].there
        PROVE  \/ host'[p][n].guest >= disk'[p][n].guest
               \/ host'[p][n].user > disk'[p][n].user
               \/ n \in conflicts'[p]
    <3>1. CASE p = m
      BY <1>1, <1>2, <3>1
    <3>2. CASE p # m
      BY <1>1, <2>1, <3>2 DEF Mounted, Saved
    <3> QED BY <3>1, <3>2
  <2> QED BY <2>1 DEF Saved
<1> QED BY <1>1, <1>3, <1>4 DEF Mounted

\* What an edit of the user does to a folder.
LEMMA EditMounted ==
  ASSUME Mounted, NEW m \in Mounts, NEW n \in Names, UserWrites(m, n)
  PROVE  Mounted' /\ disk' = disk /\ snapshot' = snapshot /\ stage' = stage
<1> DEFINE v == Version(edits[m][n] + 1, host[m][n].guest, FALSE)
<1>1. /\ UNCHANGED <<options, disk, snapshot, dirty, stage, conflicts, flushed, failed>>
      /\ edits' = [edits EXCEPT ![m][n] = edits[m][n] + 1] /\ edits[m][n] < MaxEdits
      /\ host' = [host EXCEPT ![m][n] = Version(edits'[m][n], host[m][n].guest, FALSE)]
  BY DEF UserWrites
<1>2. /\ edits[m][n] \in 0 .. MaxEdits /\ edits[m][n] + 1 \in 0 .. MaxEdits
      /\ host[m][n] \in Contents /\ host[m][n].guest \in 0 .. MaxWrites
  BY <1>1, FoldersAssumption DEF Mounted, Typed, Folder, Contents
<1>3. /\ edits' \in [Mounts -> [Names -> 0 .. MaxEdits]] /\ edits'[m][n] = edits[m][n] + 1
      /\ \A p \in Mounts : \A q \in Names : p # m \/ q # n => edits'[p][q] = edits[p][q]
  <2>1. edits \in [Mounts -> [Names -> 0 .. MaxEdits]]
    BY DEF Mounted, Typed
  <2> QED BY <1>1, <1>2, <2>1, CellUpdate
<1>4. v \in Contents /\ v.user = edits[m][n] + 1 /\ v.there
  BY <1>2, Versions
<1>5. host' = [host EXCEPT ![m][n] = v]
  BY <1>1, <1>3
<1> HIDE DEF v
<1>6. /\ host' \in [Mounts -> Folder] /\ host'[m][n] = v
      /\ \A p \in Mounts : \A q \in Names : p # m \/ q # n => host'[p][q] = host[p][q]
  <2>1. host \in [Mounts -> [Names -> Contents]]
    BY DEF Mounted, Typed, Folder
  <2> QED BY <1>4, <1>5, <2>1, CellUpdate DEF Folder
<1>7. Typed'
  BY <1>1, <1>3, <1>6 DEF Mounted, Typed
<1>8. disk[m][n].user <= edits[m][n] /\ disk[m][n].user \in Nat
  BY DEF Mounted, EditsCounted, Typed, Folder, Contents
<1>a. PICK e \in Nat : e = edits[m][n]
  BY <1>2
<1>b. PICK d \in Nat : d = disk[m][n].user
  BY <1>8
<1>c. /\ host'[m][n].user = e + 1 /\ edits'[m][n] = e + 1
      /\ disk'[m][n].user = d /\ d <= e
  BY <1>1, <1>3, <1>4, <1>6, <1>8, <1>a, <1>b
<1>9. EditsCounted'
  <2>1. ASSUME NEW p \in Mounts, NEW q \in Names
        PROVE  host'[p][q].user <= edits'[p][q] /\ disk'[p][q].user <= edits'[p][q]
    <3>1. CASE p = m /\ q = n
      BY <1>c, <3>1
    <3>2. CASE ~ (p = m /\ q = n)
      BY <1>1, <1>3, <1>6, <3>2 DEF Mounted, EditsCounted
    <3> QED BY <3>1, <3>2
  <2> QED BY <2>1 DEF EditsCounted
<1>10. Saved'
  <2>1. ASSUME NEW p \in Mounts \ dirty', NEW q \in Names, disk'[p][q].there, host'[p][q].there
        PROVE  \/ host'[p][q].guest >= disk'[p][q].guest
               \/ host'[p][q].user > disk'[p][q].user
               \/ q \in conflicts'[p]
    <3>1. CASE p = m /\ q = n
      BY <1>c, <3>1
    <3>2. CASE ~ (p = m /\ q = n)
      BY <1>1, <1>6, <2>1, <3>2 DEF Mounted, Saved
    <3> QED BY <3>1, <3>2
  <2> QED BY <2>1 DEF Saved
<1> QED BY <1>1, <1>7, <1>9, <1>10 DEF Mounted

\* A file the user deletes has nothing to save.
LEMMA RemovalMounted ==
  ASSUME Mounted, NEW m \in Mounts, NEW n \in Names, UserDeletes(m, n)
  PROVE  Mounted' /\ disk' = disk /\ snapshot' = snapshot /\ stage' = stage
<1>1. /\ host' = [host EXCEPT ![m][n] = Absent]
      /\ UNCHANGED <<options, edits, disk, snapshot, dirty, stage, conflicts, flushed, failed>>
  BY DEF UserDeletes
<1>2. /\ host' \in [Mounts -> Folder] /\ host'[m][n] = Absent
      /\ \A p \in Mounts : \A q \in Names : p # m \/ q # n => host'[p][q] = host[p][q]
  <2>1. host \in [Mounts -> [Names -> Contents]]
    BY DEF Mounted, Typed, Folder
  <2> QED BY <1>1, <2>1, CellUpdate, Versions DEF Folder
<1>3. Typed'
  BY <1>1, <1>2 DEF Mounted, Typed
<1>4. edits[m][n] \in Nat
  BY DEF Mounted, Typed
<1>5. EditsCounted'
  <2>1. ASSUME NEW p \in Mounts, NEW q \in Names
        PROVE  host'[p][q].user <= edits'[p][q] /\ disk'[p][q].user <= edits'[p][q]
    BY <1>1, <1>2, <1>4, Versions DEF Mounted, EditsCounted
  <2> QED BY <2>1 DEF EditsCounted
<1>6. Saved'
  BY <1>1, <1>2, Versions DEF Mounted, Saved
<1> QED BY <1>1, <1>3, <1>5, <1>6 DEF Mounted

\* The guest makes its mount dirty.
LEMMA GuestMounted ==
  ASSUME Mounted, NEW m \in Mounts, NEW n \in Names, NEW v \in Contents,
         v.user = disk[m][n].user, GuestChanges(m, n, v)
  PROVE  /\ Mounted' /\ host' = host /\ snapshot' = snapshot /\ stage' = stage
         /\ stage[m] = "ready" /\ disk'[m][n] = v
         /\ \A p \in Mounts : \A q \in Names : p # m \/ q # n => disk'[p][q] = disk[p][q]
<1>1. /\ disk' = [disk EXCEPT ![m][n] = v] /\ dirty' = dirty \cup {m}
      /\ flushed' = FALSE /\ failed' = {} /\ stage[m] = "ready"
      /\ UNCHANGED <<options, host, edits, snapshot, stage, conflicts>>
  BY DEF GuestChanges
<1>2. /\ disk' \in [Mounts -> Folder] /\ disk'[m][n] = v
      /\ \A p \in Mounts : \A q \in Names : p # m \/ q # n => disk'[p][q] = disk[p][q]
  <2>1. disk \in [Mounts -> [Names -> Contents]]
    BY DEF Mounted, Typed, Folder
  <2> QED BY <1>1, <2>1, CellUpdate DEF Folder
<1>3. Typed'
  BY <1>1, <1>2 DEF Mounted, Typed
<1>4. EditsCounted'
  <2>1. ASSUME NEW p \in Mounts, NEW q \in Names
        PROVE  host'[p][q].user <= edits'[p][q] /\ disk'[p][q].user <= edits'[p][q]
    BY <1>1, <1>2 DEF Mounted, EditsCounted
  <2> QED BY <2>1 DEF EditsCounted
<1>5. Saved'
  BY <1>1, <1>2 DEF Mounted, Saved
<1> QED BY <1>1, <1>2, <1>3, <1>4, <1>5 DEF Mounted

\* A write or a removal by the guest leaves the edits the file was made from.
LEMMA GuestVersions ==
  ASSUME Typed, NEW m \in Mounts, NEW n \in Names
  PROVE  /\ disk[m][n].guest < MaxWrites =>
              /\ Version(disk[m][n].user, disk[m][n].guest + 1, TRUE) \in Contents
              /\ Version(disk[m][n].user, disk[m][n].guest + 1, TRUE).user = disk[m][n].user
         /\ [disk[m][n] EXCEPT !.there = FALSE] \in Contents
         /\ [disk[m][n] EXCEPT !.there = FALSE].user = disk[m][n].user
<1>1. PICK c \in Contents : c = disk[m][n]
  BY DEF Typed, Folder
<1>2. c.user \in 0 .. MaxEdits /\ c.guest \in 0 .. MaxWrites
  BY DEF Contents
<1>3. c.guest < MaxWrites => c.guest + 1 \in 0 .. MaxWrites
  BY <1>2, FoldersAssumption
<1>4. [c EXCEPT !.there = FALSE] \in Contents /\ [c EXCEPT !.there = FALSE].user = c.user
  BY DEF Contents
<1> QED BY <1>1, <1>2, <1>3, <1>4, Versions, ZenonT(60)

\* What a write-back does, whatever fails: a file is replaced by the disk's,
\* deleted or left alone.
LEMMA PersistEffect ==
  ASSUME Typed, Persist
  PROVE  \E failing \in SUBSET Due :
           /\ dirty' = dirty \ (Due \ failing)
           /\ \A m \in Mounts : conflicts'[m] = IF m \in Due \ failing THEN Conflicts(m) ELSE conflicts[m]
           /\ UNCHANGED <<options, edits, disk, snapshot, stage>>
           /\ Typed' /\ Due \subseteq dirty
           /\ \A m \in Mounts : \A n \in Names :
                \/ m \in Due /\ n \in Updates(m) /\ host'[m][n] = disk[m][n]
                \/ /\ m = "B" /\ m \in Due \ failing /\ n \in Deletable("B")
                   /\ host'[m][n] = Absent
                \/ host'[m][n] = host[m][n] /\ (m \in Due \ failing => n \notin Updates(m))
<1>1. Due \subseteq dirty
  BY DEF Due
<1>2. PICK failing \in SUBSET Due :
        \E done \in [Due -> SUBSET Names], deleted \in SUBSET Names :
          /\ \A m \in Due : IF m \in failing THEN done[m] \subseteq Updates(m)
                            ELSE done[m] = Updates(m)
          /\ deleted \subseteq (IF "B" \in Due \ failing THEN Deletable("B") ELSE {})
          /\ host' = [m \in Mounts |-> [n \in Names |->
                        IF m \in Due /\ n \in done[m] THEN disk[m][n]
                        ELSE IF m = "B" /\ n \in deleted THEN Absent
                        ELSE host[m][n]]]
          /\ dirty' = dirty \ (Due \ failing)
          /\ conflicts' = [m \in Mounts |->
                             IF m \in Due \ failing THEN Conflicts(m) ELSE conflicts[m]]
          /\ flushed' = TRUE /\ failed' = failing
  BY DEF Persist, Cleaned
<1>3. PICK done \in [Due -> SUBSET Names], deleted \in SUBSET Names :
        /\ \A m \in Due : IF m \in failing THEN done[m] \subseteq Updates(m)
                          ELSE done[m] = Updates(m)
        /\ deleted \subseteq (IF "B" \in Due \ failing THEN Deletable("B") ELSE {})
        /\ host' = [m \in Mounts |-> [n \in Names |->
                      IF m \in Due /\ n \in done[m] THEN disk[m][n]
                      ELSE IF m = "B" /\ n \in deleted THEN Absent
                      ELSE host[m][n]]]
        /\ dirty' = dirty \ (Due \ failing)
        /\ conflicts' = [m \in Mounts |->
                           IF m \in Due \ failing THEN Conflicts(m) ELSE conflicts[m]]
        /\ flushed' = TRUE /\ failed' = failing
  BY <1>2
<1>4. UNCHANGED <<options, edits, disk, snapshot, stage>>
  BY DEF Persist
<1>5. \A m \in Mounts : \A n \in Names :
        host'[m][n] = IF m \in Due /\ n \in done[m] THEN disk[m][n]
                      ELSE IF m = "B" /\ n \in deleted THEN Absent
                      ELSE host[m][n]
  BY <1>3
<1>6. Typed'
  <2>1. \A m \in Mounts : \A n \in Names : host'[m][n] \in Contents
    <3>1. ASSUME NEW m \in Mounts, NEW n \in Names PROVE host'[m][n] \in Contents
      <4>1. host[m][n] \in Contents /\ disk[m][n] \in Contents /\ Absent \in Contents
        BY Versions DEF Typed, Folder
      <4>2. host'[m][n] = disk[m][n] \/ host'[m][n] = Absent \/ host'[m][n] = host[m][n]
        BY <1>5
      <4> QED BY <4>1, <4>2
    <3> QED BY <3>1
  <2>2. host' \in [Mounts -> Folder]
    BY <1>3, <2>1 DEF Folder
  <2>3. conflicts' \in [Mounts -> SUBSET Names]
    BY <1>3 DEF Typed, Conflicts
  <2>4. dirty' \in SUBSET Mounts /\ failed' \in SUBSET Mounts /\ flushed' \in BOOLEAN
    BY <1>1, <1>3 DEF Typed
  <2> QED BY <1>4, <2>2, <2>3, <2>4 DEF Typed
<1>7. ASSUME NEW m \in Mounts, NEW n \in Names
      PROVE  \/ m \in Due /\ n \in Updates(m) /\ host'[m][n] = disk[m][n]
             \/ /\ m = "B" /\ m \in Due \ failing /\ n \in Deletable("B")
                /\ host'[m][n] = Absent
             \/ host'[m][n] = host[m][n] /\ (m \in Due \ failing => n \notin Updates(m))
  <2>1. CASE m \in Due /\ n \in done[m]
    BY <1>3, <1>5, <2>1
  <2>2. CASE ~ (m \in Due /\ n \in done[m]) /\ m = "B" /\ n \in deleted
    BY <1>3, <1>5, <2>2
  <2>3. CASE ~ (m \in Due /\ n \in done[m]) /\ ~ (m = "B" /\ n \in deleted)
    BY <1>3, <1>5, <2>3
  <2> QED BY <2>1, <2>2, <2>3
<1>8. \A m \in Mounts : conflicts'[m] = IF m \in Due \ failing THEN Conflicts(m) ELSE conflicts[m]
  BY <1>3
<1> QED BY <1>1, <1>3, <1>4, <1>6, <1>7, <1>8

\* A mount is cleaned only when every file of its disk is in the folder or is
\* reported.
LEMMA PersistMounted ==
  ASSUME Mounted, Persist
  PROVE  Mounted' /\ disk' = disk /\ snapshot' = snapshot /\ stage' = stage
<1>1. PICK failing \in SUBSET Due :
        /\ dirty' = dirty \ (Due \ failing)
        /\ \A m \in Mounts : conflicts'[m] = IF m \in Due \ failing THEN Conflicts(m) ELSE conflicts[m]
        /\ UNCHANGED <<options, edits, disk, snapshot, stage>>
        /\ Typed' /\ Due \subseteq dirty
        /\ \A m \in Mounts : \A n \in Names :
             \/ m \in Due /\ n \in Updates(m) /\ host'[m][n] = disk[m][n]
             \/ /\ m = "B" /\ m \in Due \ failing /\ n \in Deletable("B")
                /\ host'[m][n] = Absent
             \/ host'[m][n] = host[m][n] /\ (m \in Due \ failing => n \notin Updates(m))
  BY PersistEffect DEF Mounted
<1>2. \A m \in Mounts : \A n \in Names :
        /\ disk[m][n].guest \in Nat /\ host[m][n].guest \in Nat /\ edits[m][n] \in Nat
        /\ disk[m][n].user <= edits[m][n] /\ host[m][n].user <= edits[m][n]
  BY DEF Mounted, Typed, Folder, Contents, EditsCounted
<1>3. EditsCounted'
  <2>1. ASSUME NEW m \in Mounts, NEW n \in Names
        PROVE  host'[m][n].user <= edits'[m][n] /\ disk'[m][n].user <= edits'[m][n]
    <3>1. host'[m][n] = disk[m][n] \/ host'[m][n] = Absent \/ host'[m][n] = host[m][n]
      BY <1>1
    <3> QED BY <1>1, <1>2, <3>1, Versions
  <2> QED BY <2>1 DEF EditsCounted
<1>4. Saved'
  <2>1. ASSUME NEW m \in Mounts \ dirty', NEW n \in Names, disk'[m][n].there, host'[m][n].there
        PROVE  \/ host'[m][n].guest >= disk'[m][n].guest
               \/ host'[m][n].user > disk'[m][n].user
               \/ n \in conflicts'[m]
    <3>1. disk'[m][n] = disk[m][n] /\ disk[m][n].there /\ ~ Absent.there
      BY <1>1, <2>1, Versions
    <3>2. CASE host'[m][n] = disk[m][n]
      BY <1>2, <3>1, <3>2
    <3>3. CASE host'[m][n] # disk[m][n]
      <4>1. host'[m][n] = host[m][n] /\ (m \in Due \ failing => n \notin Updates(m))
        BY <1>1, <2>1, <3>1, <3>3
      <4>2. CASE m \in Due \ failing
        <5>1. n \in Conflicts(m)
          BY <3>1, <3>3, <4>1, <4>2 DEF Updates
        <5> QED BY <1>1, <4>2, <5>1
      <4>3. CASE m \notin Due \ failing
        <5>1. m \notin dirty /\ conflicts'[m] = conflicts[m]
          BY <1>1, <4>3
        <5> QED BY <2>1, <3>1, <4>1, <5>1 DEF Mounted, Saved
      <4> QED BY <4>2, <4>3
    <3> QED BY <3>2, <3>3
  <2> QED BY <2>1 DEF Saved
<1> QED BY <1>1, <1>3, <1>4 DEF Mounted

\* A snapshot changes neither folder nor disk.
LEMMA SnapshotMounted ==
  ASSUME Mounted, NEW m \in Mounts, TakeSnapshot(m)
  PROVE  Mounted'
<1>1. /\ snapshot' = [snapshot EXCEPT ![m] = host[m]]
      /\ stage' = [stage EXCEPT ![m] = "ready"]
      /\ UNCHANGED <<options, host, edits, disk, dirty, conflicts, flushed, failed>>
  BY DEF TakeSnapshot
<1>2. Typed'
  BY <1>1 DEF Mounted, Typed
<1> QED BY <1>1, <1>2 DEF Mounted, EditsCounted, Saved

\* An ejected disk has no files.
LEMMA EjectMounted ==
  ASSUME Mounted, Eject
  PROVE  Mounted' /\ host' = host /\ snapshot' = snapshot /\ disk'["B"] = Empty
         /\ stage'["B"] = "ejected"
         /\ \A p \in Mounts : p # "B" => disk'[p] = disk[p] /\ stage'[p] = stage[p]
<1>1. /\ stage' = [stage EXCEPT !["B"] = "ejected"]
      /\ disk' = [disk EXCEPT !["B"] = Empty]
      /\ dirty' = dirty \ {"B"}
      /\ UNCHANGED <<options, host, edits, snapshot, conflicts, flushed, failed>>
  BY DEF Eject, NotDirty
<1>2. "B" \in Mounts /\ Empty \in Folder /\ \A n \in Names : Empty[n] = Absent
  BY Versions DEF Mounts, Empty, Folder
<1>3. disk' \in [Mounts -> Folder] /\ disk'["B"] = Empty
      /\ \A p \in Mounts : p # "B" => disk'[p] = disk[p]
  BY <1>1, <1>2 DEF Mounted, Typed
<1>4. /\ stage' \in [Mounts -> {"none", "built", "ready", "ejected"}] /\ stage'["B"] = "ejected"
      /\ \A p \in Mounts : p # "B" => stage'[p] = stage[p]
  BY <1>1, <1>2 DEF Mounted, Typed
<1>5. Typed'
  BY <1>1, <1>3, <1>4 DEF Mounted, Typed
<1>6. EditsCounted'
  <2>1. \A n \in Names : edits["B"][n] \in Nat
    BY <1>2 DEF Mounted, Typed
  <2>2. \A p \in Mounts : \A n \in Names : disk'[p][n].user <= edits[p][n]
    BY <1>2, <1>3, <2>1, Versions DEF Mounted, EditsCounted
  <2> QED BY <1>1, <2>2 DEF Mounted, EditsCounted
<1>7. Saved'
  BY <1>1, <1>2, <1>3, Versions DEF Mounted, Saved
<1> QED BY <1>1, <1>3, <1>4, <1>5, <1>6, <1>7 DEF Mounted

---------------------------------------------------------------------------
(* Guest writes are saved.                                                 *)

\* Before the first mount there is nothing to save.
LEMMA InitMounted == ASSUME Init PROVE Mounted
<1>1. \A m \in Mounts : disk[m] = Empty /\ snapshot[m] = Empty
  BY DEF Init
<1>2. Empty \in Folder /\ \A n \in Names : Empty[n] = Absent
  BY Versions DEF Empty, Folder
<1>3. Version(0, 0, FALSE) \in Contents /\ Version(0, 0, FALSE).user = 0
  <2>1. 0 \in 0 .. MaxEdits /\ 0 \in 0 .. MaxWrites
    BY FoldersAssumption
  <2> QED BY <2>1 DEF Version, Contents
<1>4. host \in [Mounts -> Folder] /\ \A m \in Mounts : \A n \in Names : host[m][n].user = 0
  <2>1. host \in [Mounts -> [Names -> {Absent, Version(0, 0, FALSE)}]]
    BY DEF Init
  <2>2. \A m \in Mounts : \A n \in Names : host[m][n] = Absent \/ host[m][n] = Version(0, 0, FALSE)
    BY <2>1
  <2>3. \A m \in Mounts : \A n \in Names : host[m][n] \in Contents /\ host[m][n].user = 0
    BY <1>3, <2>2, Versions
  <2> QED BY <2>1, <2>3 DEF Folder
<1>5. Typed
  BY <1>2, <1>4, FoldersAssumption DEF Init, Typed
<1>6. EditsCounted
  <2>1. \A m \in Mounts : \A n \in Names : edits[m][n] = 0 /\ disk[m][n].user = 0
    BY <1>1, <1>2, Versions DEF Init
  <2> QED BY <1>4, <2>1 DEF EditsCounted
<1>7. Saved
  BY <1>1, <1>2, Versions DEF Saved
<1> QED BY <1>5, <1>6, <1>7 DEF Mounted

\* Every step keeps the mounts well formed and the clean ones saved.
LEMMA NextMounted == ASSUME Mounted, [Next]_vars PROVE Mounted'
<1>1. CASE UNCHANGED vars
  BY <1>1 DEF vars, Mounted, Typed, EditsCounted, Saved
<1>2. CASE Refresh
  BY <1>2, BuiltMounted DEF Refresh, Mounts
<1>3. CASE Eject
  BY <1>3, EjectMounted
<1>4. CASE Persist
  BY <1>4, PersistMounted
<1>5. ASSUME NEW m \in Mounts, Load(m) \/ TakeSnapshot(m) PROVE Mounted'
  BY <1>5, BuiltMounted, SnapshotMounted DEF Load
<1>6. ASSUME NEW m \in Mounts, NEW n \in Names,
             \/ UserWrites(m, n) \/ UserDeletes(m, n)
             \/ GuestWrites(m, n) \/ GuestDeletes(m, n)
      PROVE  Mounted'
  <2>1. Typed
    BY DEF Mounted
  <2>2. CASE UserWrites(m, n)
    BY <2>2, EditMounted
  <2>3. CASE UserDeletes(m, n)
    BY <2>3, RemovalMounted
  <2>4. CASE GuestWrites(m, n)
    BY <2>1, <2>4, GuestMounted, GuestVersions DEF GuestWrites
  <2>5. CASE GuestDeletes(m, n)
    BY <2>1, <2>5, GuestMounted, GuestVersions DEF GuestDeletes
  <2> QED BY <1>6, <2>2, <2>3, <2>4, <2>5
<1> QED BY <1>1, <1>2, <1>3, <1>4, <1>5, <1>6 DEF Next

\* Always the mounts are well formed: types, counts of edits, saved writes.
THEOREM MountsWellFormed == Spec => []Mounted
<1>1. Init => Mounted
  BY InitMounted
<1>2. Mounted /\ [Next]_vars => Mounted'
  BY NextMounted
<1> QED BY <1>1, <1>2, PTL DEF Spec

\* A mount that is not dirty has nothing unsaved, for any mounts, files, edits,
\* writes and failures, whether or not the user edits while a disk is mounted.
THEOREM CleanIsSaved == Spec => []CleanMeansSaved
<1>1. Mounted => CleanMeansSaved
  BY DEF Mounted, Saved, CleanMeansSaved
<1> QED BY <1>1, MountsWellFormed, PTL

---------------------------------------------------------------------------
(* Edits of the user survive, if he does not edit between the build of a   *)
(* disk and its snapshot.                                                  *)

\* Before the first mount there is nothing to compare.
LEMMA InitCompared == ASSUME Init PROVE Compared
<1>1. \A m \in Mounts : stage[m] = "none" /\ disk[m] = Empty
  BY DEF Init
<1>2. \A n \in Names : ~ Empty[n].there
  BY Versions DEF Empty
<1> QED BY <1>1, <1>2 DEF Compared

\* A newly built disk has the user's edits.
LEMMA BuiltCompared ==
  ASSUME Mounted, Compared, NEW m \in Mounts, Built(m)
  PROVE  Compared'
<1>1. /\ host' = host /\ snapshot' = snapshot
      /\ stage'[m] = "built" /\ \A p \in Mounts : p # m => stage'[p] = stage[p] /\ disk'[p] = disk[p]
      /\ \A n \in Names : disk'[m][n].user = host[m][n].user
  BY BuiltDisk DEF Mounted
<1>2. ASSUME NEW p \in Mounts, NEW n \in Names
      PROVE  /\ stage'[p] = "built" => disk'[p][n].user = host'[p][n].user
             /\ stage'[p] = "ready" => disk'[p][n].user >= snapshot'[p][n].user
             /\ stage'[p] \in {"none", "ejected"} => ~ disk'[p][n].there
  <2>1. CASE p = m
    BY <1>1, <2>1
  <2>2. CASE p # m
    BY <1>1, <2>2 DEF Compared
  <2> QED BY <2>1, <2>2
<1> QED BY <1>2 DEF Compared

\* Edits while every disk has its snapshot, and deletions of disks' files.
LEMMA KeptCompared ==
  ASSUME Compared, stage' = stage, snapshot' = snapshot,
         \A m \in Mounts : \A n \in Names :
           /\ disk'[m][n].user = disk[m][n].user
           /\ stage[m] = "built" => host'[m][n] = host[m][n]
           /\ stage[m] \in {"none", "ejected"} => disk'[m][n] = disk[m][n]
  PROVE  Compared'
BY DEF Compared

\* Every step of a patient user keeps disks at least as new as their snapshots.
LEMMA NextCompared ==
  ASSUME Patient, Mounted, Compared, [Next]_vars
  PROVE  Compared'
<1>0. Typed
  BY DEF Mounted
<1>1. CASE UNCHANGED vars
  BY <1>1 DEF vars, Compared
<1>2. CASE Refresh
  BY <1>2, BuiltCompared DEF Refresh, Mounts
<1>3. CASE Eject
  <2>1. /\ host' = host /\ snapshot' = snapshot /\ disk'["B"] = Empty
        /\ stage'["B"] = "ejected"
        /\ \A p \in Mounts : p # "B" => disk'[p] = disk[p] /\ stage'[p] = stage[p]
    BY <1>3, EjectMounted
  <2>2. \A n \in Names : ~ Empty[n].there
    BY Versions DEF Empty
  <2> QED BY <2>1, <2>2 DEF Compared
<1>4. CASE Persist
  <2>1. disk' = disk /\ snapshot' = snapshot /\ stage' = stage
    BY <1>4, PersistMounted
  <2>2. \A m \in Mounts : stage[m] # "built"
    BY <1>4 DEF Persist, Running
  <2> QED BY <2>1, <2>2, KeptCompared
<1>5. ASSUME NEW m \in Mounts, Load(m) PROVE Compared'
  BY <1>5, BuiltCompared DEF Load
<1>6. ASSUME NEW m \in Mounts, TakeSnapshot(m) PROVE Compared'
  <2>1. /\ snapshot' = [snapshot EXCEPT ![m] = host[m]] /\ stage[m] = "built"
        /\ stage' = [stage EXCEPT ![m] = "ready"]
        /\ host' = host /\ disk' = disk
    BY <1>6 DEF TakeSnapshot
  <2>2. /\ snapshot'[m] = host[m] /\ stage'[m] = "ready"
        /\ \A p \in Mounts : p # m => stage'[p] = stage[p] /\ snapshot'[p] = snapshot[p]
    BY <1>0, <2>1 DEF Typed
  <2>3. ASSUME NEW p \in Mounts, NEW n \in Names
        PROVE  /\ stage'[p] = "built" => disk'[p][n].user = host'[p][n].user
               /\ stage'[p] = "ready" => disk'[p][n].user >= snapshot'[p][n].user
               /\ stage'[p] \in {"none", "ejected"} => ~ disk'[p][n].there
    <3>1. CASE p = m
      <4>1. host[m][n].user \in Nat /\ disk[m][n].user = host[m][n].user
        BY <1>0, <2>1 DEF Typed, Folder, Contents, Compared
      <4> QED BY <2>1, <2>2, <3>1, <4>1
    <3>2. CASE p # m
      BY <2>1, <2>2, <3>2 DEF Compared
    <3> QED BY <3>1, <3>2
  <2> QED BY <2>3 DEF Compared
<1>7. ASSUME NEW m \in Mounts, NEW n \in Names, UserWrites(m, n) \/ UserDeletes(m, n)
      PROVE  Compared'
  <2>1. disk' = disk /\ snapshot' = snapshot /\ stage' = stage
    BY <1>7, EditMounted, RemovalMounted
  <2>2. \A p \in Mounts : stage[p] # "built"
    BY <1>7 DEF UserWrites, UserDeletes, UserMayEdit, HalfLoaded
  <2> QED BY <2>1, <2>2, KeptCompared
<1>8. ASSUME NEW m \in Mounts, NEW n \in Names, GuestWrites(m, n) \/ GuestDeletes(m, n)
      PROVE  Compared'
  <2>1. PICK v \in Contents : v.user = disk[m][n].user /\ GuestChanges(m, n, v)
    BY <1>0, <1>8, GuestVersions DEF GuestWrites, GuestDeletes
  <2>2. /\ host' = host /\ snapshot' = snapshot /\ stage' = stage
        /\ stage[m] = "ready" /\ disk'[m][n] = v
        /\ \A p \in Mounts : \A q \in Names : p # m \/ q # n => disk'[p][q] = disk[p][q]
    BY <2>1, GuestMounted
  <2> QED BY <2>1, <2>2, KeptCompared
<1> QED BY <1>1, <1>2, <1>3, <1>4, <1>5, <1>6, <1>7, <1>8 DEF Next

\* What a write-back replaces is a version with the user's last edit in it.
LEMMA PersistKeepsEdits ==
  ASSUME Mounted, Compared, Persist, NEW m \in Mounts, NEW n \in Names
  PROVE  EditKept(m, n)
<1>1. PICK failing \in SUBSET Due :
        /\ \A p \in Mounts : \A q \in Names :
             \/ p \in Due /\ q \in Updates(p) /\ host'[p][q] = disk[p][q]
             \/ /\ p = "B" /\ p \in Due \ failing /\ q \in Deletable("B")
                /\ host'[p][q] = Absent
             \/ host'[p][q] = host[p][q] /\ (p \in Due \ failing => q \notin Updates(p))
  BY PersistEffect DEF Mounted
<1>2. disk[m][n].user \in Nat /\ host[m][n].user \in Nat
  BY DEF Mounted, Typed, Folder, Contents
<1>3. CASE host'[m][n] = host[m][n]
  BY <1>2, <1>3 DEF EditKept
<1>4. CASE m = "B" /\ n \in Deletable("B")
  BY <1>4 DEF EditKept, Deletable, Preserved
<1>5. CASE n \in Updates(m) /\ host'[m][n] = disk[m][n]
  <2>1. disk[m][n].there /\ n \notin Conflicts(m) /\ host[m][n] # disk[m][n]
    BY <1>5 DEF Updates
  <2>2. stage[m] = "ready"
    BY <2>1 DEF Persist, Running, Compared
  <2>3. CASE host[m][n].there /\ snapshot[m][n].there
    <3>1. host[m][n] = snapshot[m][n]
      BY <2>1, <2>3 DEF Conflicts
    <3>2. disk[m][n].user >= host[m][n].user
      BY <2>2, <3>1 DEF Compared
    <3> QED BY <1>5, <2>1, <3>2 DEF EditKept
  <2>4. CASE ~ (host[m][n].there /\ snapshot[m][n].there)
    BY <2>4 DEF EditKept
  <2> QED BY <2>3, <2>4
<1> QED BY <1>1, <1>3, <1>4, <1>5

\* Writing back never undoes an edit the guest has not seen, for any mounts,
\* files, edits and failures, if the user leaves the folder alone between the
\* build of a disk and its snapshot.
THEOREM EditsSurvive == ASSUME Patient PROVE Spec => UserEditsKept
<1>1. Init => Mounted /\ Compared
  BY InitMounted, InitCompared
<1>2. Mounted /\ Compared /\ [Next]_vars => (Mounted /\ Compared)'
  BY NextMounted, NextCompared
<1>3. Mounted /\ Compared => (Persist => \A m \in Mounts, n \in Names : EditKept(m, n))
  BY PersistKeepsEdits
<1> QED BY <1>1, <1>2, <1>3, PTL DEF Spec, UserEditsKept
=============================================================================
