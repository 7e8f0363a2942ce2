------------------------- MODULE IRQDispatchProofs -------------------------
(***************************************************************************)
(* Proofs about IRQDispatch.tla, for any number of lines and any depth of  *)
(* nested handlers, under the discipline that handlers keep IF clear until *)
(* they have ended their line, and with the two devices of the program.    *)
(***************************************************************************)
EXTENDS IRQDispatch, SequenceTheorems, TLAPS

---------------------------------------------------------------------------
(* The controllers.                                                        *)

\* A chip that powers on is a chip.
LEMMA PowerOnType == \A b \in Bases : PowerOnChip(b) \in Chip
<1>1. 0 \in 0 .. 3 /\ {} \in SUBSET Lines /\ TRUE \in Flag /\ FALSE \in Flag
  BY DEF Flag
<1> QED BY Zenon, <1>1 DEF PowerOnChip, Chip

\* The command word that ends an interrupt, and a mask, make a chip of a chip.
LEMMA ChipWrites ==
  ASSUME NEW c \in Chip
  PROVE  /\ EndLowest(c) \in Chip
         /\ \A m \in SUBSET Lines : SetMask(c, m) \in Chip
<1>1. /\ c.ims \ LowestOf(c.ims) \in SUBSET Lines
      /\ c.irr \ LowestOf(c.ims) \in SUBSET Lines
  BY DEF Chip
<1>2. EndLowest(c) \in Chip
  BY Zenon, <1>1 DEF Chip, EndLowest
<1>3. \A m \in SUBSET Lines : SetMask(c, m) \in Chip
  BY DEF Chip, SetMask
<1> QED BY <1>2, <1>3

\* Raising, claiming and ending a line of the master keep the pair's type.
LEMMA PairCalls ==
  ASSUME NEW p \in PICPair, NEW irq \in IRQs, irq < Width
  PROVE  /\ RaiseIRQ(p, irq) \in PICPair
         /\ Claimed(p, irq) \in PICPair
         /\ SendEOI(p, irq) \in PICPair
<1>1. irq \in Lines
  BY PICAssumption DEF IRQs, Lines
<1>2. RaiseIRQ(p, irq) \in PICPair
  BY <1>1 DEF RaiseIRQ, PICPair, Chip
<1>3. Claimed(p, irq) \in PICPair
  BY <1>1 DEF Claimed, PICPair, Chip
<1>4. EndLine(p.master, irq) \in Chip
  BY DEF EndLine, PICPair, Chip
<1>5. SendEOI(p, irq) \in PICPair
  BY <1>4 DEF SendEOI, PICPair
<1> QED BY <1>2, <1>3, <1>5

\* Handlers are disciplined, and only the lines with a built-in handler that
\* ends them are raised.
Disciplined == ~EarlySti /\ DeviceIRQs \subseteq {0, 1}

---------------------------------------------------------------------------
(* The stack of handlers as a value.                                       *)

\* Of the handlers in progress only the innermost can owe its end of
\* interrupt, and then interrupts are off and its line is the only one in
\* service; the outermost interrupted code that had interrupts on.
Shape(s, ims, if) ==
  /\ Len(s) <= MaxDepth
  /\ if => Len(s) < MaxDepth
  /\ \A i \in 1 .. Len(s) - 1 : ~s[i].owes
  /\ (s # <<>> /\ s[Len(s)].owes) => (~if /\ ims = {s[Len(s)].irq})
  /\ (s = <<>> \/ ~s[Len(s)].owes) => ims = {}
  /\ s # <<>> => s[1].savedIF

\* Arithmetic of positions in the stack.
LEMMA Positions ==
  \A n \in Nat \ {0} : /\ n # 1 => 1 \in 1 .. n - 1
                       /\ (IF 1 <= n - 1 THEN n - 1 ELSE 0) = n - 1
OBVIOUS

\* Entering a handler.
LEMMA Pushed ==
  ASSUME NEW s \in Seq(Frame), NEW f \in Frame
  PROVE  /\ Append(s, f) \in Seq(Frame) /\ Append(s, f) # <<>>
         /\ Len(Append(s, f)) = Len(s) + 1
         /\ \A i \in 1 .. Len(s) : Append(s, f)[i] = s[i]
         /\ Append(s, f)[Len(s) + 1] = f
         /\ s \o <<f>> = Append(s, f)
OBVIOUS

\* Leaving one.
LEMMA Popped ==
  ASSUME NEW s \in Seq(Frame), s # <<>>
  PROVE  /\ SubSeq(s, 1, Len(s) - 1) \in Seq(Frame)
         /\ Len(SubSeq(s, 1, Len(s) - 1)) = Len(s) - 1
         /\ \A i \in 1 .. Len(s) - 1 : SubSeq(s, 1, Len(s) - 1)[i] = s[i]
<1>1. Len(s) \in Nat \ {0} /\ \A i \in 1 .. Len(s) - 1 : s[i] \in Frame
  OBVIOUS
<1>2. /\ SubSeq(s, 1, Len(s) - 1) \in Seq(Frame)
      /\ Len(SubSeq(s, 1, Len(s) - 1))
           = IF 1 <= Len(s) - 1 THEN Len(s) - 1 - 1 + 1 ELSE 0
      /\ \A i \in 1 .. Len(s) - 1 - 1 + 1 :
           SubSeq(s, 1, Len(s) - 1)[i] = s[1 + i - 1]
  BY <1>1, SubSeqProperties
<1>3. Len(s) - 1 - 1 + 1 = Len(s) - 1
  BY <1>1
<1>4. (IF 1 <= Len(s) - 1 THEN Len(s) - 1 ELSE 0) = Len(s) - 1
  BY <1>1, Positions
<1>5. \A i \in 1 .. Len(s) - 1 : 1 + i - 1 = i
  OBVIOUS
<1> QED BY Zenon, <1>2, <1>3, <1>4, <1>5

\* Paying what the innermost handler owes.
Paid(s) == [s EXCEPT ![Len(s)].owes = FALSE]

\* The innermost frame pays its end of interrupt; the others stay.
LEMMA PaidFrames ==
  ASSUME NEW s \in Seq(Frame), s # <<>>
  PROVE  /\ Paid(s) \in Seq(Frame) /\ Len(Paid(s)) = Len(s) /\ Paid(s) # <<>>
         /\ \A i \in 1 .. Len(s) - 1 : Paid(s)[i] = s[i]
         /\ Paid(s)[Len(s)].owes = FALSE
         /\ Paid(s)[Len(s)].irq = s[Len(s)].irq
         /\ Paid(s)[Len(s)].savedIF = s[Len(s)].savedIF
<1>1. Len(s) \in 1 .. Len(s) /\ s[Len(s)] \in Frame
  OBVIOUS
<1>2. [s[Len(s)] EXCEPT !.owes = FALSE] \in Frame
  BY <1>1 DEF Frame
<1> QED BY <1>1, <1>2 DEF Paid, Frame

---------------------------------------------------------------------------
(* The shape of the stack through the four things that happen to it.       *)

\* Interrupting code that runs with interrupts on: nothing is in service, and
\* the new handler finds room.
LEMMA ShapeOpen ==
  ASSUME NEW s \in Seq(Frame), NEW ims, Shape(s, ims, TRUE)
  PROVE  ims = {} /\ Len(s) < MaxDepth
BY DEF Shape

\* Entering a handler from such code.
LEMMA ShapeEnter ==
  ASSUME NEW s \in Seq(Frame), NEW f \in Frame, Shape(s, {}, TRUE),
         f.savedIF, NEW ims, ims = (IF f.owes THEN {f.irq} ELSE {})
  PROVE  Shape(Append(s, f), ims, FALSE)
<1>1. Len(s) \in Nat /\ Len(s) + 1 - 1 = Len(s) /\ MaxDepth \in Nat
  BY DispatchAssumption
<1>2. \A i \in 1 .. Len(s) : ~s[i].owes
  <2> SUFFICES ASSUME NEW i \in 1 .. Len(s), s[i].owes PROVE FALSE
    OBVIOUS
  <2>1. i \notin 1 .. Len(s) - 1
    BY Zenon DEF Shape
  <2>2. i = Len(s) /\ s # <<>>
    BY <2>1
  <2>3. s[Len(s)].owes
    BY Zenon, <2>2
  <2> QED BY Zenon, <2>2, <2>3 DEF Shape
<1>3. Append(s, f)[1].savedIF
  <2>1. CASE s = <<>>
    BY <2>1, Pushed
  <2>2. CASE s # <<>>
    BY <2>2, <1>1, Pushed DEF Shape
  <2> QED BY <2>1, <2>2
<1>4. Len(s) + 1 <= MaxDepth
  BY <1>1 DEF Shape
<1> QED BY <1>1, <1>2, <1>3, <1>4, Pushed DEF Shape

\* The innermost handler pays.
LEMMA ShapePay ==
  ASSUME NEW s \in Seq(Frame), s # <<>>, s[Len(s)].owes,
         NEW ims, NEW if \in BOOLEAN, Shape(s, ims, if)
  PROVE  Shape(Paid(s), {}, FALSE) /\ ~if /\ ims = {s[Len(s)].irq}
<1>1. Len(s) \in Nat \ {0}
  OBVIOUS
<1>2. Paid(s)[1].savedIF
  <2>1. CASE Len(s) = 1
    BY <2>1, PaidFrames DEF Shape
  <2>2. CASE Len(s) # 1
    <3>1. 1 \in 1 .. Len(s) - 1
      BY <1>1, <2>2, Positions
    <3>2. Paid(s)[1] = s[1]
      BY <3>1, PaidFrames
    <3> QED BY Zenon, <3>2 DEF Shape
  <2> QED BY <2>1, <2>2
<1> QED BY <1>1, <1>2, PaidFrames DEF Shape

\* A handler that owes nothing is resumed by one called with interrupts off.
LEMMA ShapeCall ==
  ASSUME NEW s \in Seq(Frame), NEW f \in Frame, s # <<>>,
         Shape(s, {}, FALSE), ~s[Len(s)].owes, ~f.owes, Len(s) < MaxDepth
  PROVE  Shape(Append(s, f), {}, FALSE)
<1>1. Len(s) \in Nat \ {0} /\ Len(s) + 1 - 1 = Len(s) /\ MaxDepth \in Nat
  BY DispatchAssumption
<1>2. \A i \in 1 .. Len(s) : ~s[i].owes
  BY <1>1 DEF Shape
<1>3. Append(s, f)[1].savedIF
  BY <1>1, Pushed DEF Shape
<1> QED BY <1>1, <1>2, <1>3, Pushed DEF Shape

\* A handler that owes nothing returns.
LEMMA ShapeReturn ==
  ASSUME NEW s \in Seq(Frame), s # <<>>, ~s[Len(s)].owes,
         NEW ims, NEW if \in BOOLEAN, Shape(s, ims, if)
  PROVE  Shape(SubSeq(s, 1, Len(s) - 1), ims, s[Len(s)].savedIF)
<1> DEFINE r == SubSeq(s, 1, Len(s) - 1)
<1>1. Len(s) \in Nat \ {0} /\ MaxDepth \in Nat
  BY DispatchAssumption
<1>2. /\ r \in Seq(Frame) /\ Len(r) = Len(s) - 1
      /\ \A i \in 1 .. Len(r) : r[i] = s[i]
  BY Popped
<1> HIDE DEF r
<1>3. ims = {} /\ Len(s) <= MaxDepth
  BY DEF Shape
<1>4. r # <<>> => Len(r) \in Nat \ {0}
  BY <1>2
<1>5. \A i \in 1 .. Len(r) : ~r[i].owes
  BY <1>1, <1>2 DEF Shape
<1>6. r # <<>> => r[1].savedIF
  BY <1>1, <1>2, <1>4 DEF Shape
<1>7. Len(r) < MaxDepth
  BY <1>1, <1>2, <1>3
<1> QED BY <1>1, <1>2, <1>3, <1>4, <1>5, <1>6, <1>7 DEF Shape, r

---------------------------------------------------------------------------
(* The inductive invariant.                                                *)

OnlyDevices(p) == p.slave.irr = {} /\ p.master.irr \subseteq DeviceIRQs

\* What the guest and the loop share.
Sound(p, s, if) ==
  /\ p \in PICPair /\ OnlyDevices(p)
  /\ s \in Seq(Frame) /\ if \in BOOLEAN
  /\ Shape(s, p.master.ims, if)

Others ==
  /\ turn \in {"guest", "pump"}
  /\ shadow \in BOOLEAN /\ halted \in BOOLEAN
  /\ hooked \subseteq DeviceIRQs /\ tickHooked \in BOOLEAN

IInv == Sound(pic, frames, ifFlag) /\ Others

\* The device lines are master lines, and never the cascade line.
LEMMA DeviceLines ==
  \A irq \in DeviceIRQs :
    irq \in Lines /\ irq \in IRQs /\ irq < Width /\ irq # CascadeIRQ
BY PICAssumption, DispatchAssumption DEF Lines, IRQs

\* What the calls do to the master, for a master line.
LEMMA MasterCalls ==
  ASSUME NEW p \in PICPair, OnlyDevices(p), NEW irq \in DeviceIRQs
  PROVE  /\ RaiseIRQ(p, irq) \in PICPair /\ OnlyDevices(RaiseIRQ(p, irq))
         /\ RaiseIRQ(p, irq).master.ims = p.master.ims
         /\ Claimed(p, irq) \in PICPair /\ OnlyDevices(Claimed(p, irq))
         /\ Claimed(p, irq).master.ims = p.master.ims \cup {irq}
         /\ SendEOI(p, irq) \in PICPair /\ OnlyDevices(SendEOI(p, irq))
         /\ SendEOI(p, irq).master.ims = p.master.ims \ {irq}
<1>1. irq \in IRQs /\ irq < Width
  BY DeviceLines
<1>2. /\ RaiseIRQ(p, irq) \in PICPair /\ Claimed(p, irq) \in PICPair
      /\ SendEOI(p, irq) \in PICPair
  BY <1>1, PairCalls
<1>3. OnlyDevices(RaiseIRQ(p, irq)) /\ RaiseIRQ(p, irq).master.ims = p.master.ims
  BY <1>1 DEF RaiseIRQ, OnlyDevices, PICPair, Chip
<1>4. /\ OnlyDevices(Claimed(p, irq))
      /\ Claimed(p, irq).master.ims = p.master.ims \cup {irq}
  BY <1>1 DEF Claimed, OnlyDevices, PICPair, Chip
<1>5. /\ OnlyDevices(SendEOI(p, irq))
      /\ SendEOI(p, irq).master.ims = p.master.ims \ {irq}
  BY <1>1 DEF SendEOI, EndLine, OnlyDevices, PICPair, Chip
<1> QED BY <1>2, <1>3, <1>4, <1>5

\* What a mask and a non-specific end of interrupt do to the master.
LEMMA MasterWrites ==
  ASSUME NEW p \in PICPair, OnlyDevices(p),
         NEW c \in Chip, c.irr \subseteq p.master.irr
  PROVE  /\ [p EXCEPT !.master = c] \in PICPair
         /\ OnlyDevices([p EXCEPT !.master = c])
         /\ [p EXCEPT !.master = c].master = c
BY DEF OnlyDevices, PICPair

\* Only lines of the devices are claimed.
LEMMA ClaimedDevice ==
  ASSUME NEW p \in PICPair, OnlyDevices(p), NEW irq \in HighestIRQ(p)
  PROVE  irq \in DeviceIRQs
<1>1. ~SlaveReady(p)
  BY DEF SlaveReady, OnlyDevices
<1>2. irq \in p.master.irr
  BY <1>1 DEF HighestIRQ, LowestOf
<1> QED BY <1>2 DEF OnlyDevices

\* The invariant gives the properties of the runs.
LEMMA SoundMeans ==
  ASSUME Sound(pic, frames, ifFlag)
  PROVE  ServiceOwned /\ Len(frames) <= MaxDepth
<1>1. Len(frames) \in Nat
  BY DEF Sound
<1>2. CASE frames # <<>> /\ frames[Len(frames)].owes
  <2>1. Owing = {Len(frames)}
    <3>1. Len(frames) \in 1 .. Len(frames)
      BY <1>1, <1>2 DEF Sound
    <3>2. \A i \in 1 .. Len(frames) : i # Len(frames) => i \in 1 .. Len(frames) - 1
      BY <1>1
    <3> QED BY Zenon, <1>2, <3>1, <3>2 DEF Owing, Depth, Sound, Shape
  <2>2. pic.master.ims = {frames[Len(frames)].irq}
    BY Zenon, <1>2 DEF Sound, Shape
  <2> QED BY Zenon, <2>1, <2>2 DEF ServiceOwned, Sound, Shape
<1>3. CASE frames = <<>> \/ ~frames[Len(frames)].owes
  <2>1. Owing = {}
    <3>1. frames = <<>> => 1 .. Len(frames) = {}
      BY <1>1
    <3>2. \A i \in 1 .. Len(frames) : i # Len(frames) => i \in 1 .. Len(frames) - 1
      BY <1>1
    <3> QED BY Zenon, <1>3, <3>1, <3>2 DEF Owing, Depth, Sound, Shape
  <2>2. pic.master.ims = {}
    BY Zenon, <1>3 DEF Sound, Shape
  <2> QED BY Zenon, <2>1, <2>2 DEF ServiceOwned, Sound, Shape
<1> QED BY <1>2, <1>3

---------------------------------------------------------------------------
(* Init and Next.                                                          *)

\* The power-on state satisfies the invariant.
LEMMA InitInvariant == Init => IInv
<1> SUFFICES ASSUME Init PROVE IInv
  OBVIOUS
<1>1. PICK b \in Bases : pic = [master |-> PowerOnChip(b), slave |-> PowerOnChip(b)]
  BY DEF Init
<1>2. PowerOnChip(b) \in Chip
  BY PowerOnType
<1>3. pic \in PICPair
  BY <1>1, <1>2 DEF PICPair
<1>4. pic.master.ims = {} /\ OnlyDevices(pic)
  BY <1>1 DEF PowerOnChip, OnlyDevices
<1>5. frames = <<>> /\ frames \in Seq(Frame) /\ Len(frames) = 0
  BY DEF Init
<1>6. ifFlag = FALSE /\ MaxDepth \in Nat
  BY DispatchAssumption DEF Init
<1>7. Shape(frames, pic.master.ims, ifFlag)
  <2>1. 0 <= MaxDepth /\ 1 .. 0 - 1 = {}
    BY <1>6
  <2> QED BY Zenon, <2>1, <1>4, <1>5, <1>6 DEF Shape
<1>8. Others
  BY Zenon DEF Init, Others
<1> QED BY Zenon, <1>3, <1>4, <1>5, <1>6, <1>7, <1>8 DEF IInv, Sound

\* Actions that leave the stack alone and do not open interrupts.
LEMMA KeepsStack ==
  ASSUME NEW p \in PICPair, NEW s, NEW if, Sound(p, s, if),
         NEW q \in PICPair, OnlyDevices(q), q.master.ims = p.master.ims
  PROVE  Sound(q, s, if) /\ Sound(q, s, FALSE)
BY Zenon DEF Sound, Shape

\* A handler that has ended its line, or the main program, opens interrupts.
LEMMA StiSound ==
  ASSUME Disciplined, Sound(pic, frames, ifFlag), GuestSti
  PROVE  Sound(pic, frames, TRUE)
<1>1. frames # <<>> => ~frames[Len(frames)].owes
  BY Zenon DEF GuestSti, Disciplined, InHandler, Running, Depth
<1>2. Len(frames) < MaxDepth
  BY DEF GuestSti, Depth
<1> QED BY Zenon, <1>1, <1>2 DEF Sound, Shape

\* The end of an interrupt by a guest keeps frames and controllers in step.
LEMMA EoiSound ==
  ASSUME Sound(pic, frames, ifFlag), GuestEoi
  PROVE  Sound(pic', frames', ifFlag')
<1>1. /\ frames # <<>> /\ frames[Len(frames)].owes /\ frames \in Seq(Frame)
      /\ pic \in PICPair /\ OnlyDevices(pic)
      /\ Shape(frames, pic.master.ims, ifFlag) /\ ifFlag \in BOOLEAN
  BY Zenon DEF GuestEoi, InHandler, Running, Depth, Sound
<1>2. /\ frames' = Paid(frames) /\ ifFlag' = ifFlag
      /\ pic' = [pic EXCEPT !.master = EndLowest(pic.master)]
  BY Zenon DEF GuestEoi, Paid, Depth
<1>3. /\ Shape(Paid(frames), {}, FALSE) /\ ~ifFlag
      /\ pic.master.ims = {frames[Len(frames)].irq}
  BY Zenon, <1>1, ShapePay
<1>4. pic.master \in Chip
  BY <1>1 DEF PICPair
<1>5. EndLowest(pic.master) \in Chip
  BY <1>4, ChipWrites
<1>6. EndLowest(pic.master).irr \subseteq pic.master.irr
  BY <1>4 DEF EndLowest, Chip
<1>7. EndLowest(pic.master).ims = {}
  <2>1. frames[Len(frames)].irq \in Lines
    <3>1. frames[Len(frames)] \in Frame
      BY <1>1
    <3> QED BY <3>1, DeviceLines DEF Frame
  <2>2. LowestOf(pic.master.ims) = pic.master.ims
    BY <1>3, <2>1 DEF LowestOf, Lines
  <2> QED BY <1>4, <2>2 DEF EndLowest, Chip
<1>8. pic' \in PICPair /\ OnlyDevices(pic') /\ pic'.master.ims = {}
  BY <1>1, <1>2, <1>5, <1>6, <1>7, MasterWrites
<1>9. Paid(frames) \in Seq(Frame)
  BY <1>1, PaidFrames
<1> QED BY Zenon, <1>1, <1>2, <1>3, <1>8, <1>9 DEF Sound

\* Entering a handler that the loop or INT 1Ch calls.
LEMMA TickFrames ==
  ASSUME NEW irq \in DeviceIRQs, NEW if \in BOOLEAN
  PROVE  \/ TickFrame(irq, if) = <<>>
         \/ \E f \in Frame : TickFrame(irq, if) = <<f>> /\ ~f.owes /\ f.savedIF = if
<1> DEFINE f == [irq |-> irq, owes |-> FALSE, savedIF |-> if]
<1>1. f \in Frame /\ ~f.owes /\ f.savedIF = if
  BY Zenon DEF Frame
<1> HIDE DEF f
<1>2. TickFrame(irq, if) = <<>> \/ TickFrame(irq, if) = <<f>>
  BY Zenon DEF TickFrame, f
<1> QED BY Zenon, <1>1, <1>2

\* A guest handler that chains to the BIOS keeps frames and controllers in step.
LEMMA ChainSound ==
  ASSUME Disciplined, Sound(pic, frames, ifFlag), GuestChain
  PROVE  Sound(pic', frames', ifFlag')
<1> DEFINE irq == frames[Len(frames)].irq
           tf == TickFrame(irq, ifFlag)
<1>1. /\ frames # <<>> /\ frames[Len(frames)].owes /\ frames \in Seq(Frame)
      /\ pic \in PICPair /\ OnlyDevices(pic)
      /\ Shape(frames, pic.master.ims, ifFlag) /\ ifFlag \in BOOLEAN
  BY Zenon DEF GuestChain, InHandler, Running, Depth, Sound
<1>2. /\ frames' = Paid(frames) \o tf
      /\ ifFlag' = (ifFlag /\ tf = <<>>)
      /\ pic' = BiosEnds(pic, irq)
      /\ tf # <<>> => Len(frames) < MaxDepth
  BY Zenon DEF GuestChain, Paid, Depth, Running
<1>3. /\ Shape(Paid(frames), {}, FALSE) /\ ~ifFlag
      /\ pic.master.ims = {irq}
  BY Zenon, <1>1, ShapePay
<1>4. irq \in DeviceIRQs
  <2>1. frames[Len(frames)] \in Frame
    BY <1>1
  <2> QED BY <2>1 DEF Frame
<1>5. pic' \in PICPair /\ OnlyDevices(pic') /\ pic'.master.ims = {}
  <2>1. pic' = SendEOI(pic, irq)
    BY Zenon, <1>2, <1>4 DEF BiosEnds, Disciplined
  <2>2. SendEOI(pic, irq).master.ims = pic.master.ims \ {irq}
    BY <1>1, <1>4, MasterCalls
  <2> QED BY Zenon, <1>1, <1>3, <1>4, <2>1, <2>2, MasterCalls
<1>6. /\ Paid(frames) \in Seq(Frame) /\ Paid(frames) # <<>>
      /\ Len(Paid(frames)) = Len(frames) /\ ~Paid(frames)[Len(frames)].owes
  BY Zenon, <1>1, PaidFrames
<1>7. ifFlag' = FALSE
  BY Zenon, <1>2, <1>3
<1>8. CASE tf = <<>>
  <2>1. frames' = Paid(frames)
    BY <1>2, <1>6, <1>8
  <2> QED BY Zenon, <2>1, <1>3, <1>5, <1>6, <1>7 DEF Sound
<1>9. CASE tf # <<>>
  <2>1. PICK f \in Frame : tf = <<f>> /\ ~f.owes
    BY Zenon, <1>1, <1>4, <1>9, TickFrames
  <2>2. frames' = Append(Paid(frames), f)
    BY Zenon, <1>2, <1>6, <2>1, Pushed
  <2>3. Shape(Append(Paid(frames), f), {}, FALSE)
    BY Zenon, <1>2, <1>3, <1>6, <1>9, <2>1, ShapeCall
  <2>4. Append(Paid(frames), f) \in Seq(Frame)
    BY Zenon, <1>6, Pushed
  <2> QED BY Zenon, <2>2, <2>3, <2>4, <1>5, <1>7 DEF Sound
<1> QED BY <1>8, <1>9

\* The return from a handler keeps frames and controllers in step.
LEMMA IretSound ==
  ASSUME Sound(pic, frames, ifFlag), GuestIret
  PROVE  /\ Sound(pic', frames', ifFlag')
         /\ frames' = <<>> => ifFlag'
<1>1. /\ frames # <<>> /\ ~frames[Len(frames)].owes /\ frames \in Seq(Frame)
      /\ pic \in PICPair /\ OnlyDevices(pic)
      /\ Shape(frames, pic.master.ims, ifFlag) /\ ifFlag \in BOOLEAN
  BY Zenon DEF GuestIret, InHandler, Running, Depth, Sound
<1>2. /\ frames' = SubSeq(frames, 1, Len(frames) - 1) /\ pic' = pic
      /\ ifFlag' = frames[Len(frames)].savedIF
  BY Zenon DEF GuestIret, Running, Depth
<1>3. Shape(frames', pic'.master.ims, ifFlag')
  BY Zenon, <1>1, <1>2, ShapeReturn
<1>4. frames' \in Seq(Frame) /\ Len(frames') = Len(frames) - 1
  BY Zenon, <1>1, <1>2, Popped
<1>5. ifFlag' \in BOOLEAN
  <2>1. frames[Len(frames)] \in Frame
    BY <1>1
  <2> QED BY Zenon, <1>2, <2>1 DEF Frame
<1>6. frames' = <<>> => ifFlag'
  <2>1. frames' = <<>> => Len(frames) = 1
    BY <1>1, <1>4
  <2> QED BY Zenon, <1>1, <1>2, <2>1 DEF Shape
<1> QED BY Zenon, <1>1, <1>2, <1>3, <1>4, <1>5, <1>6 DEF Sound

\* The dispatch of an interrupt keeps frames and controllers in step.
LEMMA DispatchSound ==
  ASSUME Disciplined, Sound(pic, frames, ifFlag), Dispatch
  PROVE  /\ Sound(pic', frames', ifFlag')
         /\ frames # <<>> => frames' # <<>>
<1>1. /\ frames \in Seq(Frame) /\ pic \in PICPair /\ OnlyDevices(pic)
      /\ Shape(frames, pic.master.ims, TRUE) /\ ifFlag = TRUE
  BY Zenon DEF Sound, Dispatch, Accepts
<1>2. PICK irq \in HighestIRQ(pic) :
        IF irq \in hooked
        THEN /\ pic' = Claimed(pic, irq)
             /\ frames' = Append(frames, [irq |-> irq, owes |-> TRUE,
                                          savedIF |-> ifFlag])
             /\ ifFlag' = FALSE
        ELSE /\ pic' = BiosEnds(Claimed(pic, irq), irq)
             /\ frames' = frames \o TickFrame(irq, ifFlag)
             /\ ifFlag' = (ifFlag /\ TickFrame(irq, ifFlag) = <<>>)
  BY Zenon DEF Dispatch
<1>3. irq \in DeviceIRQs
  BY <1>1, ClaimedDevice
<1>4. pic.master.ims = {} /\ Shape(frames, {}, TRUE)
  BY Zenon, <1>1, ShapeOpen
<1>5. /\ Claimed(pic, irq) \in PICPair /\ OnlyDevices(Claimed(pic, irq))
      /\ Claimed(pic, irq).master.ims = {irq}
  <2>1. /\ Claimed(pic, irq) \in PICPair /\ OnlyDevices(Claimed(pic, irq))
        /\ Claimed(pic, irq).master.ims = pic.master.ims \cup {irq}
    BY <1>1, <1>3, MasterCalls
  <2> QED BY <1>4, <2>1
<1>6. CASE irq \in hooked
  <2> DEFINE f == [irq |-> irq, owes |-> TRUE, savedIF |-> TRUE]
  <2>1. f \in Frame /\ f.owes /\ f.savedIF /\ f.irq = irq
    BY Zenon, <1>3 DEF Frame
  <2>2. /\ frames' = Append(frames, f) /\ pic' = Claimed(pic, irq)
        /\ ifFlag' = FALSE
    BY Zenon, <1>1, <1>2, <1>6
  <2> HIDE DEF f
  <2>3. {irq} = (IF f.owes THEN {f.irq} ELSE {})
    BY Zenon, <2>1
  <2>4. Shape(Append(frames, f), {irq}, FALSE)
    BY Zenon, <1>1, <1>4, <2>1, <2>3, ShapeEnter
  <2>5. Append(frames, f) \in Seq(Frame) /\ Append(frames, f) # <<>>
    BY Zenon, <1>1, <2>1, Pushed
  <2> QED BY Zenon, <1>5, <2>2, <2>4, <2>5 DEF Sound
<1>7. CASE irq \notin hooked
  <2> DEFINE q == Claimed(pic, irq)
             tf == TickFrame(irq, ifFlag)
  <2>1. /\ pic' = SendEOI(q, irq) /\ frames' = frames \o tf
        /\ ifFlag' = (ifFlag /\ tf = <<>>)
    BY Zenon, <1>2, <1>3, <1>7 DEF BiosEnds, Disciplined
  <2>2. /\ SendEOI(q, irq) \in PICPair /\ OnlyDevices(SendEOI(q, irq))
        /\ SendEOI(q, irq).master.ims = q.master.ims \ {irq}
    BY Zenon, <1>3, <1>5, MasterCalls
  <2>3. q.master.ims \ {irq} = {}
    BY <1>5
  <2>4. pic' \in PICPair /\ OnlyDevices(pic') /\ pic'.master.ims = {}
    BY Zenon, <2>1, <2>2, <2>3
  <2>5. CASE tf = <<>>
    <3>1. frames \o <<>> = frames
      BY <1>1
    <3>2. frames' = frames /\ ifFlag' = TRUE
      BY Zenon, <1>1, <2>1, <2>5, <3>1
    <3> QED BY Zenon, <1>1, <1>4, <2>4, <3>2 DEF Sound
  <2>6. CASE tf # <<>>
    <3>1. PICK f \in Frame : tf = <<f>> /\ ~f.owes /\ f.savedIF = ifFlag
      BY Zenon, <1>1, <1>3, <2>6, TickFrames
    <3>2. /\ frames \o <<f>> = Append(frames, f)
          /\ Append(frames, f) \in Seq(Frame) /\ Append(frames, f) # <<>>
      BY Zenon, <1>1, <3>1, Pushed
    <3>3. f.savedIF /\ {} = (IF f.owes THEN {f.irq} ELSE {})
      BY Zenon, <1>1, <3>1
    <3>4. Shape(Append(frames, f), {}, FALSE)
      BY Zenon, <1>1, <1>4, <3>3, ShapeEnter
    <3>5. frames' = Append(frames, f) /\ ifFlag' = FALSE
      BY Zenon, <2>1, <2>6, <3>1, <3>2
    <3> QED BY Zenon, <2>4, <3>2, <3>4, <3>5 DEF Sound
  <2> QED BY <2>5, <2>6
<1> QED BY <1>6, <1>7

\* A mask the guest writes keeps frames and controllers in step.
LEMMA MaskSound ==
  ASSUME Sound(pic, frames, ifFlag), GuestMask
  PROVE  Sound(pic', frames', ifFlag')
<1>1. PICK m \in GuestMasks : pic' = [pic EXCEPT !.master = SetMask(pic.master, m)]
  BY DEF GuestMask
<1>2. pic \in PICPair /\ OnlyDevices(pic) /\ pic.master \in Chip
  BY DEF Sound, PICPair
<1>3. m \in SUBSET Lines
  BY DispatchAssumption
<1>4. SetMask(pic.master, m) \in Chip
  BY <1>2, <1>3, ChipWrites
<1>5. /\ SetMask(pic.master, m).irr = pic.master.irr
      /\ SetMask(pic.master, m).ims = pic.master.ims
  BY <1>2 DEF SetMask, Chip
<1>6. /\ pic' \in PICPair /\ OnlyDevices(pic')
      /\ pic'.master.ims = pic.master.ims
  BY <1>1, <1>2, <1>4, <1>5, MasterWrites
<1>7. frames' = frames /\ ifFlag' = ifFlag
  BY DEF GuestMask
<1> QED BY Zenon, <1>2, <1>6, <1>7, KeepsStack

\* A device request keeps frames and controllers in step.
LEMMA RaiseSound ==
  ASSUME Sound(pic, frames, ifFlag), Raise
  PROVE  Sound(pic', frames', ifFlag')
<1>1. PICK irq \in DeviceIRQs : pic' = RaiseIRQ(pic, irq)
  BY Zenon DEF Raise
<1>2. pic \in PICPair /\ OnlyDevices(pic)
  BY Zenon DEF Sound
<1>3. /\ pic' \in PICPair /\ OnlyDevices(pic')
      /\ pic'.master.ims = pic.master.ims
  BY <1>1, <1>2, MasterCalls
<1>4. frames' = frames /\ ifFlag' = ifFlag
  BY Zenon DEF Raise, cpu
<1> QED BY Zenon, <1>2, <1>3, <1>4, KeepsStack

\* What a step does to the three; the second part is ReturnsEnabled.
LEMMA StepSound ==
  ASSUME Disciplined, Sound(pic, frames, ifFlag), [Next]_vars
  PROVE  /\ Sound(pic', frames', ifFlag')
         /\ InHandler /\ frames' = <<>> /\ vars' # vars => ifFlag'
<1>0. pic \in PICPair /\ OnlyDevices(pic)
  BY Zenon DEF Sound
<1>1. CASE GuestSti
  <2>1. Sound(pic, frames, TRUE)
    BY Zenon, <1>1, StiSound
  <2>2. pic' = pic /\ frames' = frames /\ ifFlag' = TRUE
    BY Zenon, <1>1 DEF GuestSti
  <2> QED BY Zenon, <2>1, <2>2 DEF InHandler
<1>2. CASE GuestCli
  <2>1. pic' = pic /\ frames' = frames /\ ifFlag' = FALSE
    BY Zenon, <1>2 DEF GuestCli
  <2>2. Sound(pic, frames, FALSE)
    BY Zenon, <1>0, KeepsStack
  <2> QED BY Zenon, <2>1, <2>2 DEF InHandler
<1>3. CASE GuestLoadSS \/ GuestOther \/ GuestHlt \/ GuestSetVector
           \/ PumpIdle \/ HaltedTurn \/ UNCHANGED vars
  <2>1. pic' = pic /\ frames' = frames /\ ifFlag' = ifFlag
    BY Zenon, <1>3 DEF GuestLoadSS, GuestOther, GuestHlt, GuestSetVector,
                       PumpIdle, HaltedTurn, vars, cpu
  <2> QED BY Zenon, <2>1 DEF InHandler
<1>4. CASE GuestMask
  <2>1. frames' = frames
    BY Zenon, <1>4 DEF GuestMask
  <2> QED BY Zenon, <1>4, <2>1, MaskSound DEF InHandler
<1>5. CASE GuestEoi
  <2>1. frames' = Paid(frames) /\ frames # <<>> /\ frames \in Seq(Frame)
    BY Zenon, <1>5 DEF GuestEoi, Paid, Depth, InHandler, Sound
  <2>2. frames' # <<>>
    BY Zenon, <2>1, PaidFrames
  <2> QED BY Zenon, <1>5, <2>2, EoiSound DEF InHandler
<1>6. CASE GuestChain
  <2>1. frames' # <<>>
    <3>1. /\ frames' = Paid(frames) \o TickFrame(Running.irq, ifFlag)
          /\ frames # <<>> /\ frames \in Seq(Frame) /\ ifFlag \in BOOLEAN
          /\ frames[Len(frames)] \in Frame
      <4>1. frames # <<>> /\ frames \in Seq(Frame)
        BY Zenon, <1>6 DEF GuestChain, InHandler, Sound
      <4>2. frames[Len(frames)] \in Frame
        BY <4>1
      <4> QED BY Zenon, <1>6, <4>1, <4>2 DEF GuestChain, Paid, Depth, Sound
    <3>2. Running.irq \in DeviceIRQs
      BY <3>1 DEF Frame, Running, Depth
    <3>3. Paid(frames) \in Seq(Frame) /\ Paid(frames) # <<>>
      BY Zenon, <3>1, PaidFrames
    <3>4. TickFrame(Running.irq, ifFlag) \in Seq(Frame)
      <4>1. <<>> \in Seq(Frame) /\ \A f \in Frame : <<f>> \in Seq(Frame)
        OBVIOUS
      <4> QED BY Zenon, <3>1, <3>2, <4>1, TickFrames
    <3> QED BY <3>1, <3>3, <3>4
  <2> QED BY Zenon, <1>6, <2>1, ChainSound DEF InHandler
<1>7. CASE GuestIret
  BY Zenon, <1>7, IretSound DEF InHandler
<1>8. CASE Raise
  <2>1. frames' = frames
    BY Zenon, <1>8 DEF Raise, cpu
  <2> QED BY Zenon, <1>8, <2>1, RaiseSound DEF InHandler
<1>9. CASE Dispatch
  BY Zenon, <1>9, DispatchSound DEF InHandler
<1> QED BY Zenon, <1>1, <1>2, <1>3, <1>4, <1>5, <1>6, <1>7, <1>8, <1>9
        DEF Next, Guest, InHandler

\* Every step keeps the invariant.
LEMMA StepInvariant ==
  ASSUME Disciplined, IInv, [Next]_vars PROVE IInv'
<1>1. Sound(pic, frames, ifFlag)
  BY Zenon DEF IInv
<1>2. Sound(pic', frames', ifFlag')
  BY Zenon, <1>1, StepSound
<1>3. Others'
  <2>1. CASE UNCHANGED vars
    BY Zenon, <2>1 DEF IInv, Others, vars, cpu, vectors
  <2>2. CASE Raise \/ PumpIdle \/ Dispatch \/ HaltedTurn
    BY Zenon, <2>2 DEF IInv, Others, Raise, PumpIdle, Dispatch, HaltedTurn,
                       cpu, vectors
  <2>3. CASE Guest
    <3>1. CASE GuestSetVector
      BY Zenon, <3>1 DEF IInv, Others, GuestSetVector, Executes
    <3>2. CASE ~GuestSetVector
      BY Zenon, <2>3, <3>2 DEF IInv, Others, Guest, GuestSti, GuestLoadSS,
           GuestCli, GuestOther, GuestHlt, GuestMask, GuestEoi, GuestChain,
           GuestIret, Executes, vectors
    <3> QED BY <3>1, <3>2
  <2> QED BY Zenon, <2>1, <2>2, <2>3 DEF Next
<1> QED BY Zenon, <1>2, <1>3 DEF IInv, Sound

---------------------------------------------------------------------------
(* The theorems.                                                           *)

\* The invariant holds always.
LEMMA Invariance ==
  ASSUME Disciplined PROVE Spec => []IInv
<1>1. Init => IInv
  BY Zenon, InitInvariant
<1>2. IInv /\ [Next]_vars => IInv'
  BY Zenon, StepInvariant
<1> QED BY <1>1, <1>2, PTL DEF Spec

\* Type correctness: in particular the stack of handlers never exceeds the
\* bound under which interrupts are opened again, whatever is delivered.
THEOREM TypeCorrect ==
  ASSUME Disciplined PROVE Spec => []TypeOK
<1>1. IInv => TypeOK
  BY Zenon, SoundMeans DEF IInv, TypeOK, Others, Sound
<1> QED BY <1>1, Invariance, PTL

\* A line in service belongs to exactly one handler that will end it, for
\* every number of lines, every nesting and every use of masks and vectors.
THEOREM ServiceIsOwned ==
  ASSUME Disciplined PROVE Spec => []ServiceOwned
<1>1. IInv => ServiceOwned
  BY Zenon, SoundMeans DEF IInv
<1> QED BY <1>1, Invariance, PTL

\* The return to the main program leaves interrupts enabled.
THEOREM ReturnsWithInterrupts ==
  ASSUME Disciplined PROVE Spec => ReturnsEnabled
<1>1. IInv /\ [Next]_vars => [InHandler /\ frames' = <<>> => ifFlag']_vars
  BY Zenon, StepSound DEF IInv
<1> QED BY <1>1, Invariance, PTL DEF Spec, ReturnsEnabled
=============================================================================
