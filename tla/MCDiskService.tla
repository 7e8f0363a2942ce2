--------------------------- MODULE MCDiskService ---------------------------
(* A floppy of two cylinders and two heads on a longer disk, a hard disk   *)
(* and a protected folder of the host.                                     *)
EXTENDS DiskService

MCDrives == {"A", "B", "C"}
MCKind == [A |-> "floppy", B |-> "folder", C |-> "hard"]
MCGeometry == [A |-> [cyls |-> 2, heads |-> 2, spt |-> 1],
               B |-> [cyls |-> 1, heads |-> 2, spt |-> 1],
               C |-> [cyls |-> 2, heads |-> 1, spt |-> 2]]
MCPadding == [A |-> 1, B |-> 0, C |-> 0]
MCReadOnly == {"B"}
MCOffsets == {5}
MCCounts == {0, 2, 4}
=============================================================================
