------------------------------ MODULE FileMap ------------------------------
(***************************************************************************)
(* What a FAT12 volume made from a host folder promises: a map from names  *)
(* to files and folders, first the folder's own, then changed by calls,    *)
(* each of which does to the name it was given what it answers.  Nothing   *)
(* is promised of a folder with more entries than the root directory has   *)
(* room for.                                                               *)
(***************************************************************************)
EXTENDS Integers, FiniteSets, Sequences

CONSTANTS
  Names,       \* file names
  Slots,       \* entries of the root directory
  Written(_),  \* what a file of a name may be written with, in clusters
  None,        \* what a name without a file holds
  File(_),     \* a file with a given content
  IsFile(_)    \* whether a name holds a file, and no folder

VARIABLES
  files,    \* what each name holds
  room,     \* clusters that are free
  status,   \* "building", "ready" or "refused"
  asked,    \* the last call, with its arguments
  answer    \* what it was answered

vars == <<files, room, status, asked, answer>>

Used == {n \in Names : files[n] # None}

Population(Items) ==
  /\ files \in [Names -> Items]
  /\ status = "building" /\ asked = <<"build">>

-----------------------------------------------------------------------------
(* The host's folder is copied.                                            *)

Fill ==
  /\ status = "building"
  /\ room' <= room
  /\ UNCHANGED <<files, status, asked, answer>>

Ready ==
  /\ status = "building" /\ Cardinality(Used) <= Slots
  /\ status' = "ready"
  /\ UNCHANGED <<files, room, asked, answer>>

Refuse ==
  /\ status = "building"
  /\ status' = "refused"
  /\ UNCHANGED <<files, room, asked>>

\* The one step that says nothing of the files it leaves.
Overrun ==
  /\ status = "building" /\ Cardinality(Used) > Slots
  /\ status' = "ready"
  /\ UNCHANGED <<room, asked, answer>>

-----------------------------------------------------------------------------
(* Calls.                                                                  *)

Answered(call, how) ==
  /\ status = "ready" /\ UNCHANGED status
  /\ asked' = call /\ answer' = how

Put(n, content) ==
  /\ Answered(<<"write", n, content>>, "written")
  /\ Len(content) <= room /\ room' >= room - Len(content)
  /\ files' = [files EXCEPT ![n] = File(content)]

DiskFull(n, content) ==
  /\ Answered(<<"write", n, content>>, "disk full")
  /\ Len(content) > room
  /\ UNCHANGED <<files, room>>

\* The content stays where nothing leads to it.
RootFull(n, content) ==
  /\ Answered(<<"write", n, content>>, "root full")
  /\ files[n] = None /\ Cardinality(Used) = Slots
  /\ Len(content) <= room /\ room' = room - Len(content)
  /\ UNCHANGED files

Remove(n) ==
  /\ Answered(<<"delete", n>>, "deleted")
  /\ IsFile(files[n]) /\ room' >= room
  /\ files' = [files EXCEPT ![n] = None]

Absent(n) ==
  /\ Answered(<<"delete", n>>, "absent")
  /\ ~ IsFile(files[n])
  /\ UNCHANGED <<files, room>>

Next ==
  \/ Fill \/ Ready \/ Refuse \/ Overrun
  \/ \E n \in Names :
       \/ Remove(n) \/ Absent(n)
       \/ \E content \in Written(n) :
            Put(n, content) \/ DiskFull(n, content) \/ RootFull(n, content)

Changes == [][Next]_vars
=============================================================================
