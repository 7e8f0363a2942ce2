---------------------------- MODULE HostFolders ----------------------------
(***************************************************************************)
(* Host folders mounted as DOS drives (main.py, class Emulator;            *)
(* hostbridge.py): drive B:, which can be refreshed and ejected, and the   *)
(* hard-disk letters from D: on.  Each has a disk made from its folder, a  *)
(* snapshot of the folder, and a dirty flag; writing back compares folder, *)
(* snapshot and disk file by file.  The user goes on editing the folders.  *)
(*                                                                         *)
(* A disk is the map from names to contents that FileMap describes.  A     *)
(* content is known by how often user and guest have changed it, so that   *)
(* it tells what it was made from.  Writing a mount back is one step: the  *)
(* user does not edit a file between its comparison and its replacement.   *)
(***************************************************************************)
EXTENDS Naturals, FiniteSets

CONSTANTS
  Letters,    \* the drives besides B:
  Names,      \* file names
  MaxEdits,   \* edits of a file by the user
  MaxWrites,  \* writes of a file by the guest
  Patient     \* the user does not edit between the build of a disk and its snapshot

ASSUME FoldersAssumption ==
  /\ "B" \notin Letters
  /\ {MaxEdits, MaxWrites} \subseteq Nat
  /\ Patient \in BOOLEAN

VARIABLES
  options,    \* --host-dir-write, --host-dir-delete, --host-dir-dos-text
  host,       \* the folders
  edits,      \* how often the user has edited each file
  disk,       \* the guest's disks
  snapshot,   \* host_dir_snapshot and host_mount_snapshots
  dirty,      \* the mounts with unsaved guest writes
  stage,      \* per mount "none", "built" (no snapshot yet), "ready" or "ejected"
  conflicts,  \* per mount the conflicts its last write-back reported
  flushed,    \* the guest has written nothing since the last write-back
  failed      \* and that failed on these mounts

vars == <<options, host, edits, disk, snapshot, dirty, stage, conflicts, flushed, failed>>

Mounts == {"B"} \cup Letters

Absent == [user |-> 0, guest |-> 0, dos |-> FALSE, there |-> FALSE]

Version(user, guest, dos) ==
  [user |-> user, guest |-> guest, dos |-> dos, there |-> TRUE]

Contents ==
  [user : 0 .. MaxEdits, guest : 0 .. MaxWrites, dos : BOOLEAN, there : BOOLEAN]

Folder == [Names -> Contents]

Empty == [n \in Names |-> Absent]

---------------------------------------------------------------------------
(* Disks are made from folders.                                            *)

\* _dos_text_bytes: text gets DOS line ends, if that was asked for.
ForGuest(content) ==
  IF content.there /\ options.text THEN [content EXCEPT !.dos = TRUE] ELSE content

Running == \A m \in Mounts : stage[m] \in {"ready", "ejected"}

HalfLoaded == {m \in Mounts : stage[m] = "built"}

\* A new disk is clean.
NotDirty(m) == dirty \ {m}

Built(m) ==
  /\ disk' = [disk EXCEPT ![m] = [n \in Names |-> ForGuest(host[m][n])]]
  /\ dirty' = NotDirty(m)
  /\ stage' = [stage EXCEPT ![m] = "built"]
  /\ UNCHANGED <<options, host, edits, snapshot, conflicts, flushed, failed>>

Load(m) == stage[m] = "none" /\ HalfLoaded = {} /\ Built(m)

\* The user asks for it, in the window; what the guest has written is gone.
Refresh == Running /\ Built("B")

TakeSnapshot(m) ==
  /\ stage[m] = "built"
  /\ snapshot' = [snapshot EXCEPT ![m] = host[m]]
  /\ stage' = [stage EXCEPT ![m] = "ready"]
  /\ UNCHANGED <<options, host, edits, disk, dirty, conflicts, flushed, failed>>

Eject ==
  /\ Running /\ stage["B"] = "ready"
  /\ stage' = [stage EXCEPT !["B"] = "ejected"]
  /\ disk' = [disk EXCEPT !["B"] = Empty]
  /\ dirty' = NotDirty("B")
  /\ UNCHANGED <<options, host, edits, snapshot, conflicts, flushed, failed>>

---------------------------------------------------------------------------
(* User and guest.                                                         *)

UserMayEdit == Patient => HalfLoaded = {}

UserWrites(m, n) ==
  /\ UserMayEdit /\ edits[m][n] < MaxEdits
  /\ edits' = [edits EXCEPT ![m][n] = @ + 1]
  /\ host' = [host EXCEPT ![m][n] = Version(edits'[m][n], host[m][n].guest, FALSE)]
  /\ UNCHANGED <<options, disk, snapshot, dirty, stage, conflicts, flushed, failed>>

UserDeletes(m, n) ==
  /\ UserMayEdit /\ host[m][n].there
  /\ host' = [host EXCEPT ![m][n] = Absent]
  /\ UNCHANGED <<options, edits, disk, snapshot, dirty, stage, conflicts, flushed, failed>>

\* Without --host-dir-write the disks are write-protected.
GuestChanges(m, n, content) ==
  /\ Running /\ stage[m] = "ready" /\ options.write
  /\ disk' = [disk EXCEPT ![m][n] = content]
  /\ dirty' = dirty \cup {m}
  /\ flushed' = FALSE /\ failed' = {}
  /\ UNCHANGED <<options, host, edits, snapshot, stage, conflicts>>

GuestWrites(m, n) ==
  /\ disk[m][n].guest < MaxWrites
  /\ GuestChanges(m, n, Version(disk[m][n].user, disk[m][n].guest + 1, TRUE))

\* A file the guest creates anew was still made from what it has deleted.
GuestDeletes(m, n) ==
  disk[m][n].there /\ GuestChanges(m, n, [disk[m][n] EXCEPT !.there = FALSE])

---------------------------------------------------------------------------
(* Writing back.                                                           *)

\* Mutant: a file that differs from the disk's is a conflict only if it was
\* not in the folder when the snapshot was taken.
ConflictsNew(m) ==
  {n \in Names : /\ disk[m][n].there /\ host[m][n].there /\ ~ snapshot[m][n].there
                 /\ host[m][n] # disk[m][n]}

\* The user has changed the file since the snapshot, and not to what the disk
\* holds.
Conflicts(m) ==
  {n \in Names : /\ disk[m][n].there /\ host[m][n].there /\ snapshot[m][n].there
                 /\ host[m][n] # snapshot[m][n] /\ host[m][n] # disk[m][n]}

Updates(m) ==
  {n \in Names \ Conflicts(m) : disk[m][n].there /\ host[m][n] # disk[m][n]}

\* audit_host_directory_deletions: files of the folder the disk does not have.
Preserved(m) == {n \in Names : host[m][n].there /\ ~ disk[m][n].there}

Deletable(m) == IF m = "B" /\ options.delete THEN Preserved(m) ELSE {}

\* _persist_host_dir writes B: and then the other mounts; a clean B: makes it
\* return at once.
Due == IF stage["B"] = "ready" /\ "B" \notin dirty THEN {} ELSE dirty

\* Mutant: a failed write-back leaves its mount clean.
CleanedAll(due, failing) == due

Cleaned(due, failing) == due \ failing

\* An error ends a mount's write-back after some of its updates, with nothing
\* reported or deleted; a later one, after some of its deletions.
Persist ==
  /\ Running /\ options.write
  /\ \E failing \in SUBSET Due :
     \E done \in [Due -> SUBSET Names], deleted \in SUBSET Names :
       /\ \A m \in Due : IF m \in failing THEN done[m] \subseteq Updates(m)
                         ELSE done[m] = Updates(m)
       /\ deleted \subseteq (IF "B" \in Due \ failing THEN Deletable("B") ELSE {})
       /\ host' = [m \in Mounts |-> [n \in Names |->
                     IF m \in Due /\ n \in done[m] THEN disk[m][n]
                     ELSE IF m = "B" /\ n \in deleted THEN Absent
                     ELSE host[m][n]]]
       /\ dirty' = dirty \ Cleaned(Due, failing)
       /\ conflicts' = [m \in Mounts |->
                          IF m \in Due \ failing THEN Conflicts(m) ELSE conflicts[m]]
       /\ flushed' = TRUE /\ failed' = failing
  /\ UNCHANGED <<options, edits, disk, snapshot, stage>>

Init ==
  /\ options \in [write : BOOLEAN, delete : BOOLEAN, text : BOOLEAN]
  /\ options.delete => options.write
  /\ host \in [Mounts -> [Names -> {Absent, Version(0, 0, FALSE)}]]
  /\ edits = [m \in Mounts |-> [n \in Names |-> 0]]
  /\ disk = [m \in Mounts |-> Empty]
  /\ snapshot = [m \in Mounts |-> Empty]
  /\ dirty = {}
  /\ stage = [m \in Mounts |-> "none"]
  /\ conflicts = [m \in Mounts |-> {}]
  /\ flushed = TRUE /\ failed = {}

Next ==
  \/ Refresh \/ Eject \/ Persist
  \/ \E m \in Mounts :
       \/ Load(m) \/ TakeSnapshot(m)
       \/ \E n \in Names : \/ UserWrites(m, n) \/ UserDeletes(m, n)
                           \/ GuestWrites(m, n) \/ GuestDeletes(m, n)

Spec == Init /\ [][Next]_vars

---------------------------------------------------------------------------
(* Properties.                                                             *)

\* A mount that is not dirty has nothing unsaved (_persist_host_dir,
\* _persist_extra_host_mounts): the folder has every file as the guest last
\* wrote it, or as the user made it since, unless the write-back has reported a
\* conflict; whatever failed on the way.
CleanMeansSaved ==
  \A m \in Mounts \ dirty, n \in Names :
    (stage[m] = "ready" /\ disk[m][n].there /\ host[m][n].there)
      => \/ host[m][n].guest >= disk[m][n].guest
         \/ host[m][n].user > disk[m][n].user
         \/ n \in conflicts[m]

\* Writing back does not undo an edit of the user the guest has not seen
\* (sync_host_directory_disk), however often disks are refreshed and written
\* back; except for files that the folder did not have at the snapshot, which
\* are not compared, and for deletions, which the user has enabled.
EditKept(m, n) ==
  \/ ~ host[m][n].there
  \/ host'[m][n].there /\ host'[m][n].user >= host[m][n].user
  \/ host[m][n].there /\ ~ snapshot[m][n].there
  \/ options.delete /\ m = "B" /\ ~ disk[m][n].there

UserEditsKept == [][Persist => \A m \in Mounts, n \in Names : EditKept(m, n)]_vars

\* "Host files changed independently since session start are detected and
\* skipped as conflicts" (PLAN.md): what is reported, the user has changed.
ConflictsAreIndependent ==
  \A m \in Mounts : \A n \in conflicts[m] : edits[m][n] > 0

=============================================================================
