---------------------------- MODULE DiskService ----------------------------
(***************************************************************************)
(* The disks of the machine: INT 13h between guest memory and the sectors  *)
(* of a drive (bios.py, class BIOS), the sectors themselves (video.py,     *)
(* class Disk), and the image files they come from and, with --persist, go *)
(* back to when the session ends (main.py, class Emulator).                *)
(*                                                                         *)
(* A sector is a pair of cells, its two halves; the guest's buffer lies in *)
(* a segment of cells, at an offset that need not be that of a sector.     *)
(***************************************************************************)
EXTENDS Naturals, Sequences, FiniteSets

CONSTANTS
  Drives,
  Kind,       \* "floppy" (A:) or "hard" (C:), from an image file, or "folder" (B:)
  Geometry,   \* cylinders, heads and sectors per track of each drive
  Padding,    \* sectors the disk in memory has beyond its geometry
  ReadOnly,   \* drives the guest may not write
  Segment,    \* cells of a segment
  Offsets,    \* offsets of buffers
  Counts,     \* sectors of a call
  MaxCalls    \* calls that are followed

Names(d) ==
  (0..Geometry[d].cyls - 1) \X (0..Geometry[d].heads - 1) \X (1..Geometry[d].spt)
Named(d) == Cardinality(Names(d))
Size(d) == Named(d) + Padding[d]
FromFile(d) == Kind[d] \in {"floppy", "hard"}

ASSUME KindAssumption == Kind \in [Drives -> {"floppy", "hard", "folder"}]
ASSUME GeometryAssumption ==
  \A d \in Drives : \A x \in {"cyls", "heads", "spt"} : Geometry[d][x] \in Nat \ {0}
ASSUME PaddingAssumption == Padding \in [Drives -> Nat]
ASSUME SegmentAssumption ==
  /\ Segment \in Nat \ {0} /\ Offsets \subseteq 0..Segment - 1 /\ Counts \subseteq Nat

VARIABLES
  media,      \* the sectors of a drive, whether dirty, whether changed
  attached,   \* drives the BIOS knows
  file,       \* the image files
  memory,     \* the segment of the buffer
  session,    \* whether it runs, by whom, whether it persists; failed writes
  calls,      \* calls so far
  call        \* history: the last call: the sectors it asked for, its answer

vars == <<media, attached, file, memory, session, calls, call>>

Blank == <<<<"zero">>, <<"zero">>>>
Image(of, i) == <<<<of, i, "low">>, <<of, i, "high">>>>
NoCall == [op |-> "none"]

-----------------------------------------------------------------------------
(* Sectors.                                                                *)

\* Mutant: tracks counted by the highest head.
LbaByMaxHead(d, c, h, s) == (c * (Geometry[d].heads - 1) + h) * Geometry[d].spt + (s - 1)
Lba(d, c, h, s) == (c * Geometry[d].heads + h) * Geometry[d].spt + (s - 1)

InRange(d, c, h, s) ==
  s > 0 /\ s <= Geometry[d].spt /\ h < Geometry[d].heads /\ c < Geometry[d].cyls

(* A transfer stops at the end of the disk.                                *)
Done(d, lba, n) ==
  IF lba + n <= Size(d) THEN n ELSE IF lba >= Size(d) THEN 0 ELSE Size(d) - lba

(* Cells of the buffer, which wraps within its segment; a call for more    *)
(* sectors than the segment holds comes back over its own buffer.          *)
Cell(bx, k) == (bx + k) % Segment
Slice(mem, bx, i) == <<mem[Cell(bx, 2 * i)], mem[Cell(bx, 2 * i + 1)]>>

(* write_sector of a run of sectors: their data, and the dirty flag.       *)
\* Mutant: only a transfer that is completed makes the disk dirty.
StoredWhole(disk, lba, done, n, what) ==
  [disk EXCEPT !.data = [p \in DOMAIN @ |-> IF p > lba /\ p <= lba + done
                                            THEN what[p - lba] ELSE @[p]],
               !.dirty = @ \/ done = n]
Stored(disk, lba, done, n, what) ==
  [disk EXCEPT !.data = [p \in DOMAIN @ |-> IF p > lba /\ p <= lba + done
                                            THEN what[p - lba] ELSE @[p]],
               !.dirty = @ \/ done > 0]

(* Sectors of a disk come one after the other: the last half written to a  *)
(* cell stays.                                                             *)
Half(disk, lba, k) == disk.data[lba + (k \div 2) + 1][(k % 2) + 1]
Fetched(mem, disk, lba, done, bx) ==
  [x \in 0..Segment - 1 |->
    LET into == {k \in 0..2 * done - 1 : Cell(bx, k) = x}
    IN  IF into = {} THEN mem[x]
        ELSE Half(disk, lba, CHOOSE k \in into : \A j \in into : j <= k)]

(* The place of a name among the names, for the history.                   *)
Before(a, b) ==
  \/ a[1] < b[1]
  \/ a[1] = b[1] /\ a[2] < b[2]
  \/ a[1] = b[1] /\ a[2] = b[2] /\ a[3] < b[3]
Place(d, name) == Cardinality({a \in Names(d) : Before(a, name)}) + 1

-----------------------------------------------------------------------------
(* Calls.                                                                  *)

Ready == session.runs /\ calls < MaxCalls

Answer(op, d, places, bx, ok) ==
  /\ calls' = calls + 1
  /\ call' = [op |-> op, drive |-> d, places |-> places, bx |-> bx, ok |-> ok]

Still == UNCHANGED <<attached, file, session>>

(* A drive that is not there, for these and for the other operations; a    *)
(* write to a protected one; no sector, or one out of range.               *)
Refused(d, op, c, h, s, n) ==
  /\ Ready
  /\ \/ d \notin attached
     \/ op = "write" /\ d \in ReadOnly
     \/ n = 0 \/ ~InRange(d, c, h, s)
  /\ Answer("refused", d, <<>>, 0, FALSE)
  /\ UNCHANGED <<media, memory>> /\ Still

(* Read, write and verify by cylinder, head and sector.                    *)
Transfer(d, op, c, h, s, n, bx) ==
  /\ Ready /\ d \in attached /\ n > 0 /\ InRange(d, c, h, s)
  /\ (op = "write" => d \notin ReadOnly)
  /\ \E lba \in {Lba(d, c, h, s)} : \E done \in {Done(d, lba, n)} :
       /\ media' = IF op # "write" THEN media
                   ELSE [media EXCEPT ![d] =
                           Stored(@, lba, done, n, [i \in 1..n |-> Slice(memory, bx, i - 1)])]
       /\ memory' = IF op # "read" THEN memory
                    ELSE Fetched(memory, media[d], lba, done, bx)
       /\ Answer(op, d, [i \in 1..n |-> Place(d, <<c, h, s>>) + i - 1], bx, done = n)
  /\ Still

(* Read by block address, which names nothing.                             *)
ExtendedRead(d, lba, n, bx) ==
  /\ Ready /\ d \in attached
  /\ \E done \in {Done(d, lba, n)} :
       /\ memory' = Fetched(memory, media[d], lba, done, bx)
       /\ Answer("extended", d, [i \in 1..n |-> lba + i], bx, done = n)
  /\ UNCHANGED media /\ Still

(* Format the sectors of a table up to the first that is out of range; a   *)
(* protected disk keeps its data, and its guest is told nothing.           *)
Format(d, table) ==
  LET good == {i \in 1..Len(table) :
                 \A j \in 1..i : InRange(d, table[j][1], table[j][2], table[j][3])}
      blanked == {Lba(d, table[i][1], table[i][2], table[i][3]) + 1 : i \in good}
  IN
  /\ Ready /\ d \in attached
  /\ media' = IF d \in ReadOnly THEN media
              ELSE [media EXCEPT
                      ![d].data = [p \in DOMAIN @ |-> IF p \in blanked THEN Blank ELSE @[p]],
                      ![d].dirty = @ \/ good # {}]
  /\ Answer("format", d, [i \in 1..Cardinality(good) |-> Place(d, table[i])], 0,
            Cardinality(good) = Len(table))
  /\ UNCHANGED memory /\ Still

(* Whether the disk was changed, which is forgotten by asking.             *)
MediaChange(d) ==
  /\ session.runs /\ d \in attached /\ media[d].changed
  /\ media' = [media EXCEPT ![d].changed = FALSE]
  /\ UNCHANGED <<memory, calls, call>> /\ Still

-----------------------------------------------------------------------------
(* Sessions.                                                               *)

(* A floppy is loaded through write_sector, which leaves it dirty.         *)
Loaded(d, img) ==
  [data |-> [i \in 1..Size(d) |-> IF i <= Len(img) THEN img[i] ELSE Blank],
   dirty |-> Kind[d] = "floppy", changed |-> FALSE]

PowerOn == [x \in 0..Segment - 1 |-> <<"memory", x>>]

(* An image is written from its start, as far as the host lets it: not at  *)
(* all, in part, or whole. Only the hard disk is then clean.               *)
Reached(d) == {0, 1, Named(d)}
Persist(d, k) ==
  [img |-> [i \in 1..Named(d) |-> IF i <= k THEN media[d].data[i] ELSE file[d][i]],
   dirty |-> media[d].dirty /\ ~(Kind[d] = "hard" /\ k = Named(d))]

Stop ==
  /\ session.runs /\ session.by = "emulator"
  /\ \E saved \in {{d \in Drives : FromFile(d) /\ session.persist /\ media[d].dirty}} :
     \E upto \in [saved -> UNION {Reached(d) : d \in saved}] :
       /\ \A d \in saved : upto[d] \in Reached(d)
       /\ file' = [d \in Drives |-> IF d \in saved THEN Persist(d, upto[d]).img ELSE file[d]]
       /\ media' = [d \in Drives |-> IF d \in saved
                      THEN [media[d] EXCEPT !.dirty = Persist(d, upto[d]).dirty]
                      ELSE media[d]]
       /\ session' = [session EXCEPT !.runs = FALSE,
                                     !.failed = {d \in saved : upto[d] < Named(d)}]
  /\ call' = NoCall
  /\ UNCHANGED <<attached, memory, calls>>

Restart ==
  /\ ~session.runs
  /\ media' = [d \in Drives |-> Loaded(d, file[d])]
  /\ attached' = Drives
  /\ memory' = PowerOn
  /\ session' = [session EXCEPT !.runs = TRUE, !.failed = {}]
  /\ UNCHANGED <<file, calls, call>>

(* The window ejects the folder; the harness puts another floppy in.       *)
Eject(d) ==
  /\ session.runs /\ Kind[d] = "folder" /\ d \in attached
  /\ attached' = attached \ {d}
  /\ UNCHANGED <<media, file, memory, session, calls, call>>

SwapDisk(d) ==
  /\ session.runs /\ session.by = "harness" /\ Kind[d] = "floppy"
  /\ media' = [media EXCEPT ![d].data = [i \in 1..Size(d) |-> Image("other", i)],
                               ![d].changed = TRUE]
  /\ UNCHANGED <<attached, file, memory, session, calls, call>>

-----------------------------------------------------------------------------
Init ==
  /\ file = [d \in Drives |-> [i \in 1..Named(d) |-> Image(d, i)]]
  /\ media = [d \in Drives |-> Loaded(d, file[d])]
  /\ attached = Drives
  /\ memory = PowerOn
  /\ session \in [runs : {TRUE}, by : {"emulator"}, persist : BOOLEAN, failed : {{}}]
                 \cup [runs : {TRUE}, by : {"harness"}, persist : {FALSE}, failed : {{}}]
  /\ calls = 0 /\ call = NoCall

Int13 ==
  \E d \in Drives, bx \in Offsets, n \in Counts :
    \/ \E c \in 0..Geometry[d].cyls, h \in 0..Geometry[d].heads, s \in 0..Geometry[d].spt + 1,
          op \in {"read", "write", "verify"} :
         Refused(d, op, c, h, s, n) \/ Transfer(d, op, c, h, s, n, bx)
    \/ \E lba \in 0..Size(d) : ExtendedRead(d, lba, n, bx)

(* A track, whole or with an entry that is not on the disk.                *)
Tables(d) ==
  {[s \in 1..Geometry[d].spt |-> <<c, h, s + shift>>] :
     c \in 0..Geometry[d].cyls, h \in 0..Geometry[d].heads - 1, shift \in {0, 1}}

Next ==
  \/ Int13
  \/ \E d \in Drives : \/ \E table \in Tables(d) : Format(d, table)
                       \/ MediaChange(d) \/ Eject(d) \/ SwapDisk(d)
  \/ Stop \/ Restart

Spec == Init /\ [][Next]_vars

-----------------------------------------------------------------------------
(* Properties.                                                             *)

Places(d) == 1..Size(d)
InCall(k, d, p) == k.op # "refused" /\ d = k.drive /\ p \in {k.places[i] : i \in DOMAIN k.places}

(* A call does what it answers.  It asks for sectors one after the other,  *)
(* from the block its name has among the names of the disk, or from the    *)
(* block it gives.  A transfer that succeeded asked for sectors the disk   *)
(* in memory has: those with a name, and behind the last one those of the  *)
(* padding, although the text at bios.py:785-787 has a request out of      *)
(* range fail.  All of them then equal the buffer, wrapped in its segment, *)
(* where the last half that comes to a cell stays; after a format of a     *)
(* disk that is not protected they are blank; and whatever the answer,     *)
(* nothing that was not asked for changes, on this or another drive, or in *)
(* memory.                                                                 *)
FromDisk(k) == k.op \in {"read", "extended"}
Halves(k) == 0..2 * Len(k.places) - 1

Carried(k) ==
  /\ \A i \in DOMAIN k.places : k.places[i] \in Places(k.drive)
  /\ FromDisk(k) =>
       \A q \in Halves(k) :
         (\A j \in Halves(k) : j > q => Cell(k.bx, j) # Cell(k.bx, q)) =>
           memory'[Cell(k.bx, q)] = media[k.drive].data[k.places[(q \div 2) + 1]][(q % 2) + 1]
  /\ \A i \in DOMAIN k.places :
       /\ k.op = "write" => media'[k.drive].data[k.places[i]] = Slice(memory, k.bx, i - 1)
       /\ k.op = "format" /\ k.drive \notin ReadOnly =>
            media'[k.drive].data[k.places[i]] = Blank

Spared(k) ==
  /\ \A d \in Drives : \A p \in Places(d) :
       (k.op \notin {"write", "format"} \/ ~InCall(k, d, p)) =>
         media'[d].data[p] = media[d].data[p]
  /\ \A x \in 0..Segment - 1 :
       (~FromDisk(k) \/ \A q \in Halves(k) : Cell(k.bx, q) # x) =>
         memory'[x] = memory[x]

TransfersExact ==
  [][calls' # calls => (call'.ok => Carried(call')) /\ Spared(call')]_vars

(* At the end of a session that persists, the image files hold the disks   *)
(* as the guest left them, also after calls that failed half way, unless   *)
(* the host refused; a disk whose file differs from it is known as dirty.  *)
WorkSaved ==
  \A d \in Drives : FromFile(d) =>
    LET same == file[d] = SubSeq(media[d].data, 1, Named(d)) IN
    /\ session.by = "emulator" => same \/ media[d].dirty
    /\ ~session.runs /\ session.persist /\ d \notin session.failed => same
=============================================================================
