----------------------------- MODULE PICProofs -----------------------------
(***************************************************************************)
(* Proofs about PIC.tla, for any number of lines, any cascade line, any    *)
(* vector bases and any devices, masks and initialisation words.           *)
(***************************************************************************)
EXTENDS PIC, TLAPS

---------------------------------------------------------------------------
(* The operators keep the type.                                            *)

\* The scan of a register returns lines of that register.
LEMMA LowestSubset ==
  ASSUME NEW S PROVE LowestOf(S) \subseteq S
BY DEF LowestOf

\* The values the code stores in a chip's fields have the fields' types.
LEMMA FieldValues ==
  /\ 0 \in 0 .. 3 /\ 1 \in 0 .. 3 /\ 2 \in 0 .. 3 /\ 3 \in 0 .. 3
  /\ {} \in SUBSET Lines
  /\ TRUE \in Flag /\ FALSE \in Flag
BY DEF Flag

\* A chip with new registers is a chip.
LEMMA ChipWrites ==
  ASSUME NEW c \in Chip
  PROVE  /\ \A n4, s \in Flag : StartInit(c, n4, s) \in Chip
         /\ \A b \in Bases : TakeIcw2(c, b) \in Chip
         /\ TakeIcw3(c) \in Chip
         /\ \A auto \in Flag : TakeIcw4(c, auto) \in Chip
         /\ \A m \in SUBSET Lines : SetMask(c, m) \in Chip
         /\ EndLowest(c) \in Chip
         /\ \A l \in Lines : EndLine(c, l) \in Chip
<1>0. AfterIcw3(c) \in 0 .. 3
  BY DEF AfterIcw3
<1>1. \A n4, s \in Flag : StartInit(c, n4, s) \in Chip
  BY Zenon, FieldValues DEF Chip, StartInit
<1>2. \A b \in Bases : TakeIcw2(c, b) \in Chip
  <2>1. (IF c.single THEN AfterIcw3(c) ELSE 2) \in 0 .. 3
    BY <1>0
  <2> QED BY Zenon, <2>1 DEF Chip, TakeIcw2
<1>3. TakeIcw3(c) \in Chip
  BY <1>0 DEF Chip, TakeIcw3
<1>4. \A auto \in Flag : TakeIcw4(c, auto) \in Chip
  BY Zenon, FieldValues DEF Chip, TakeIcw4
<1>5. \A m \in SUBSET Lines : SetMask(c, m) \in Chip
  BY DEF Chip, SetMask
<1>6. EndLowest(c) \in Chip
  <2>1. /\ c.ims \ LowestOf(c.ims) \in SUBSET Lines
        /\ c.irr \ LowestOf(c.ims) \in SUBSET Lines
    BY DEF Chip
  <2> QED BY Zenon, <2>1 DEF Chip, EndLowest
<1>7. \A l \in Lines : EndLine(c, l) \in Chip
  BY DEF Chip, EndLine
<1> QED BY <1>1, <1>2, <1>3, <1>4, <1>5, <1>6, <1>7

\* A chip that powers on is a chip.
LEMMA PowerOnType == \A b \in Bases : PowerOnChip(b) \in Chip
BY Zenon, FieldValues DEF PowerOnChip, Chip

\* The four words of POST make a chip out of a chip.
LEMMA PostInitType == ASSUME NEW c \in Chip PROVE PostInitChip(c) \in Chip
<1> DEFINE c1 == StartInit(c, TRUE, FALSE)
           c2 == TakeIcw2(c1, c.base)
           c3 == TakeIcw3(c2)
           c4 == TakeIcw4(c3, FALSE)
<1>1. c.base \in Bases /\ c.mask \in SUBSET Lines
  BY DEF Chip
<1>2. c1 \in Chip
  BY Zenon, FieldValues, ChipWrites
<1> HIDE DEF c1
<1>3. c2 \in Chip
  BY <1>1, <1>2, ChipWrites
<1> HIDE DEF c2
<1>4. c3 \in Chip
  BY <1>3, ChipWrites
<1> HIDE DEF c3
<1>5. c4 \in Chip
  BY Zenon, <1>4, FieldValues, ChipWrites
<1> HIDE DEF c4
<1>6. SetMask(c4, c.mask) \in Chip
  BY <1>1, <1>5, ChipWrites
<1> QED BY <1>6 DEF PostInitChip, c4, c3, c2, c1

\* Raising, claiming and ending an interrupt keep the pair's type.
LEMMA PairCalls ==
  ASSUME NEW p \in PICPair, NEW irq \in IRQs
  PROVE  /\ RaiseIRQ(p, irq) \in PICPair
         /\ Claimed(p, irq) \in PICPair
         /\ SendEOI(p, irq) \in PICPair
<1>1. irq < Width => irq \in Lines
  BY PICAssumption DEF IRQs, Lines
<1>2. ~(irq < Width) => irq - Width \in Lines
  BY PICAssumption DEF IRQs, Lines
<1>3. CascadeIRQ \in Lines
  BY PICAssumption DEF Lines
<1>4. RaiseIRQ(p, irq) \in PICPair
  BY <1>1, <1>2, <1>3 DEF RaiseIRQ, PICPair, Chip
<1>5. Claimed(p, irq) \in PICPair
  BY <1>1, <1>2, <1>3 DEF Claimed, PICPair, Chip
<1>6. SendEOI(p, irq) \in PICPair
  <2>1. EndLine(p.master, CascadeIRQ) \in Chip
    BY <1>3, ChipWrites DEF PICPair
  <2>2. CASE irq < Width
    BY <2>2, <1>1, ChipWrites DEF SendEOI, PICPair
  <2>3. CASE ~(irq < Width)
    BY <2>1, <2>3, <1>2, ChipWrites DEF SendEOI, PICPair
  <2> QED BY <2>2, <2>3
<1> QED BY <1>4, <1>5, <1>6

\* The pump claims interrupt numbers, and a claimed line has its request set.
LEMMA HighestRequested ==
  ASSUME NEW p \in PICPair, NEW irq \in HighestIRQ(p)
  PROVE  /\ irq \in IRQs
         /\ irq < Width => irq \in p.master.irr \ p.master.mask
         /\ ~(irq < Width) => irq - Width \in p.slave.irr \ p.slave.mask
<1>1. CASE SlaveReady(p)
  <2>1. PICK l \in LowestOf(p.slave.irr \ p.slave.mask) : irq = SlaveIRQ(l)
    BY <1>1 DEF HighestIRQ
  <2>2. l \in p.slave.irr \ p.slave.mask
    BY <2>1, LowestSubset
  <2>3. l \in Lines
    BY <2>2 DEF PICPair, Chip
  <2>4. irq = l + Width /\ l \in 0 .. Width - 1 /\ Width \in Nat
    BY <2>1, <2>3, PICAssumption DEF SlaveIRQ, Lines
  <2>5. irq \in IRQs /\ ~(irq < Width) /\ irq - Width = l
    BY <2>4 DEF IRQs
  <2> QED BY <2>2, <2>5
<1>2. CASE ~SlaveReady(p)
  <2>1. irq \in (p.master.irr \ p.master.mask) \ p.master.ims
    BY <1>2, LowestSubset DEF HighestIRQ
  <2>2. irq \in Lines
    BY <2>1 DEF PICPair, Chip
  <2>3. irq \in IRQs /\ irq < Width
    BY <2>2, PICAssumption DEF IRQs, Lines
  <2> QED BY <2>1, <2>3
<1> QED BY <1>1, <1>2

---------------------------------------------------------------------------
(* Type correctness.                                                       *)

\* Every access to a chip by name is an access to one of the pair.
LEMMA ChipUpdate ==
  ASSUME NEW p \in PICPair, NEW chip \in Chips, NEW c \in Chip
  PROVE  [p EXCEPT ![chip] = c] \in PICPair
BY DEF PICPair, Chips

\* Either chip of a pair is a chip.
LEMMA ChipSelect ==
  ASSUME NEW p \in PICPair, NEW chip \in Chips PROVE p[chip] \in Chip
BY DEF PICPair, Chips

\* Whatever the callers do, in whatever order, the registers stay sets of
\* lines and the initialisation counters of both chips stay in range.
THEOREM TypeCorrect == Spec => []TypeOK
<1>1. Init => TypeOK
  BY PowerOnType DEF Init, TypeOK, PICPair
<1>2. TypeOK /\ [Next]_pic => TypeOK'
  <2> SUFFICES ASSUME TypeOK, [Next]_pic PROVE TypeOK'
    OBVIOUS
  <2>0. pic \in PICPair
    BY DEF TypeOK
  <2>1. CASE Raise
    BY <2>0, <2>1, PairCalls, PICEnvAssumption DEF Raise, TypeOK
  <2>2. CASE Claim
    BY <2>0, <2>2, PairCalls, HighestRequested DEF Claim, TypeOK
  <2>3. CASE BiosEOI
    BY <2>0, <2>3, PairCalls DEF BiosEOI, TypeOK
  <2>4. CASE MasterEOI
    <3>1. EndLowest(pic.master) \in Chip
      BY <2>0, ChipWrites DEF PICPair
    <3> QED BY <3>1, <2>0, <2>4 DEF MasterEOI, TypeOK, PICPair
  <2>5. CASE Initialize
    BY <2>0, <2>5, PostInitType DEF Initialize, Initialized, TypeOK, PICPair
  <2>6. ASSUME NEW chip \in Chips,
               ICW1(chip) \/ ICW2(chip) \/ ICW3(chip) \/ ICW4(chip)
                 \/ WriteMask(chip)
        PROVE  TypeOK'
    <3>0. pic[chip] \in Chip
      BY <2>0, ChipSelect
    <3>1. CASE ICW1(chip)
      <4>1. PICK w \in InitWords :
              pic' = [pic EXCEPT ![chip] =
                        StartInit(pic[chip], w.needIcw4, w.single)]
        BY <3>1 DEF ICW1
      <4>2. w.needIcw4 \in Flag /\ w.single \in Flag
        BY PICEnvAssumption
      <4> QED BY <4>1, <4>2, <3>0, <2>0, ChipWrites, ChipUpdate DEF TypeOK
    <3>2. CASE ICW2(chip)
      BY <3>2, <3>0, <2>0, ChipWrites, ChipUpdate DEF ICW2, TypeOK
    <3>3. CASE ICW3(chip)
      BY <3>3, <3>0, <2>0, ChipWrites, ChipUpdate DEF ICW3, TypeOK
    <3>4. CASE ICW4(chip)
      BY <3>4, <3>0, <2>0, ChipWrites, ChipUpdate, ZenonT(60) DEF ICW4, TypeOK
    <3>5. CASE WriteMask(chip)
      <4>1. PICK m \in MasksFor(chip) :
              pic' = [pic EXCEPT ![chip] = SetMask(pic[chip], m)]
        BY <3>5 DEF WriteMask
      <4>2. m \in SUBSET Lines
        BY PICEnvAssumption DEF MasksFor
      <4>3. SetMask(pic[chip], m) \in Chip
        BY <4>2, <3>0, ChipWrites
      <4> QED BY <4>1, <4>3, <2>0, ChipUpdate DEF TypeOK
    <3> QED BY <2>6, <3>1, <3>2, <3>3, <3>4, <3>5
  <2>7. CASE UNCHANGED pic
    BY <2>7 DEF TypeOK
  <2> QED BY <2>1, <2>2, <2>3, <2>4, <2>5, <2>6, <2>7 DEF Next
<1> QED BY <1>1, <1>2, PTL DEF Spec

---------------------------------------------------------------------------
(* A line in service has its request bit.                                  *)

\* The chips' share of ServiceRequested: exempt is what the request register
\* need not cover (the cascade on the master, nothing on the slave).
Covered(c, exempt) == c.ims \ exempt \subseteq c.irr

\* No word written to a chip uncovers a line: an initialisation clears both
\* registers, an end of interrupt clears the same line in both.
LEMMA ChipCovered ==
  ASSUME NEW c \in Chip, NEW exempt, Covered(c, exempt)
  PROVE  /\ \A n4, s \in Flag : Covered(StartInit(c, n4, s), exempt)
         /\ \A b \in Bases : Covered(TakeIcw2(c, b), exempt)
         /\ Covered(TakeIcw3(c), exempt)
         /\ \A auto \in Flag : Covered(TakeIcw4(c, auto), exempt)
         /\ \A m \in SUBSET Lines : Covered(SetMask(c, m), exempt)
         /\ Covered(EndLowest(c), exempt)
         /\ \A l \in Lines : Covered(EndLine(c, l), exempt)
<1>1. \A n4, s \in Flag : Covered(StartInit(c, n4, s), exempt)
  BY DEF Chip, Covered, StartInit
<1>2. \A b \in Bases : Covered(TakeIcw2(c, b), exempt)
  BY DEF Chip, Covered, TakeIcw2
<1>3. Covered(TakeIcw3(c), exempt)
  BY DEF Chip, Covered, TakeIcw3
<1>4. \A auto \in Flag : Covered(TakeIcw4(c, auto), exempt)
  BY DEF Chip, Covered, TakeIcw4
<1>5. \A m \in SUBSET Lines : Covered(SetMask(c, m), exempt)
  BY DEF Chip, Covered, SetMask
<1>6. Covered(EndLowest(c), exempt)
  BY DEF Chip, Covered, EndLowest
<1>7. \A l \in Lines : Covered(EndLine(c, l), exempt)
  BY DEF Chip, Covered, EndLine
<1> QED BY <1>1, <1>2, <1>3, <1>4, <1>5, <1>6, <1>7

\* The initialisation by the POST leaves nothing in service.
LEMMA PostInitCovered ==
  ASSUME NEW c \in Chip, NEW exempt PROVE Covered(PostInitChip(c), exempt)
<1> DEFINE c1 == StartInit(c, TRUE, FALSE)
           c2 == TakeIcw2(c1, c.base)
           c3 == TakeIcw3(c2)
           c4 == TakeIcw4(c3, FALSE)
<1>1. c.base \in Bases /\ c.mask \in SUBSET Lines
  BY DEF Chip
<1>2. c1 \in Chip /\ Covered(c1, exempt)
  <2>1. c1 \in Chip
    BY Zenon, FieldValues, ChipWrites
  <2>2. c1.ims = {}
    BY DEF StartInit, Chip
  <2> QED BY <2>1, <2>2 DEF Covered
<1> HIDE DEF c1
<1>3. c2 \in Chip /\ Covered(c2, exempt)
  BY <1>1, <1>2, ChipWrites, ChipCovered
<1> HIDE DEF c2
<1>4. c3 \in Chip /\ Covered(c3, exempt)
  BY <1>3, ChipWrites, ChipCovered
<1> HIDE DEF c3
<1>5. c4 \in Chip /\ Covered(c4, exempt)
  BY Zenon, <1>4, FieldValues, ChipWrites, ChipCovered
<1> HIDE DEF c4
<1>6. Covered(SetMask(c4, c.mask), exempt)
  BY <1>1, <1>5, ChipCovered
<1> QED BY <1>6 DEF PostInitChip, c4, c3, c2, c1

PairCovered(p) == Covered(p.master, {CascadeIRQ}) /\ Covered(p.slave, {})

\* The calls keep the pair covered: a request only adds to the requests, a
\* claim is of a requested line, send_eoi ends both bits.
LEMMA CallsCovered ==
  ASSUME NEW p \in PICPair, PairCovered(p)
  PROVE  /\ \A irq \in IRQs : PairCovered(RaiseIRQ(p, irq))
         /\ \A irq \in HighestIRQ(p) : PairCovered(Claimed(p, irq))
         /\ \A irq \in IRQs : PairCovered(SendEOI(p, irq))
<1>1. ASSUME NEW irq \in IRQs PROVE PairCovered(RaiseIRQ(p, irq))
  BY DEF RaiseIRQ, PairCovered, Covered, PICPair, Chip
<1>2. ASSUME NEW irq \in HighestIRQ(p) PROVE PairCovered(Claimed(p, irq))
  BY HighestRequested DEF Claimed, PairCovered, Covered, PICPair, Chip
<1>3. ASSUME NEW irq \in IRQs PROVE PairCovered(SendEOI(p, irq))
  BY DEF SendEOI, EndLine, PairCovered, Covered, PICPair, Chip
<1> QED BY <1>1, <1>2, <1>3

\* A write to one chip by name, from the chip's own lemma.
LEMMA ChipUpdateCovered ==
  ASSUME NEW p \in PICPair, PairCovered(p), NEW chip \in Chips, NEW c \in Chip,
         \A exempt : Covered(p[chip], exempt) => Covered(c, exempt)
  PROVE  PairCovered([p EXCEPT ![chip] = c])
BY DEF PICPair, Chips, PairCovered

\* What it means for both chips that lines in service are requested.
LEMMA ServiceRequestedCovers ==
  ASSUME NEW p \in PICPair
  PROVE  PairCovered(p) <=>
           /\ p.slave.ims \subseteq p.slave.irr
           /\ p.master.ims \ {CascadeIRQ} \subseteq p.master.irr
BY DEF PairCovered, Covered

\* No line is ever in service without its request bit, whatever the devices,
\* the pump, the BIOS handlers and the guest's port writes do.
THEOREM ServiceIsRequested == Spec => []ServiceRequested
<1> DEFINE IInv == TypeOK /\ PairCovered(pic)
<1>1. Init => IInv
  <2> SUFFICES ASSUME Init PROVE IInv
    OBVIOUS
  <2>1. TypeOK
    BY PowerOnType DEF Init, TypeOK, PICPair
  <2>2. pic.master.ims = {} /\ pic.slave.ims = {}
    BY DEF Init, PowerOnChip
  <2> QED BY <2>1, <2>2 DEF PairCovered, Covered
<1>2. IInv /\ TypeOK' /\ [Next]_pic => IInv'
  <2> SUFFICES ASSUME TypeOK, PairCovered(pic), [Next]_pic
               PROVE  PairCovered(pic')
    OBVIOUS
  <2>0. pic \in PICPair
    BY DEF TypeOK
  <2>1. CASE Raise
    BY <2>0, <2>1, CallsCovered, PICEnvAssumption DEF Raise
  <2>2. CASE Claim
    BY <2>0, <2>2, CallsCovered DEF Claim
  <2>3. CASE BiosEOI
    BY <2>0, <2>3, CallsCovered DEF BiosEOI
  <2>4. CASE MasterEOI
    <3>1. Covered(EndLowest(pic.master), {CascadeIRQ})
      BY <2>0, ChipCovered DEF PICPair, PairCovered
    <3> QED BY <3>1, <2>0, <2>4 DEF MasterEOI, PICPair, PairCovered
  <2>5. CASE Initialize
    BY <2>0, <2>5, PostInitCovered
       DEF Initialize, Initialized, PICPair, PairCovered
  <2>6. ASSUME NEW chip \in Chips,
               ICW1(chip) \/ ICW2(chip) \/ ICW3(chip) \/ ICW4(chip)
                 \/ WriteMask(chip)
        PROVE  PairCovered(pic')
    <3>0. pic[chip] \in Chip
      BY <2>0, ChipSelect
    <3>1. CASE ICW1(chip)
      <4>1. PICK w \in InitWords :
              pic' = [pic EXCEPT ![chip] =
                        StartInit(pic[chip], w.needIcw4, w.single)]
        BY <3>1 DEF ICW1
      <4>2. w.needIcw4 \in Flag /\ w.single \in Flag
        BY PICEnvAssumption
      <4> DEFINE c == StartInit(pic[chip], w.needIcw4, w.single)
      <4>3. c \in Chip
        BY <4>2, <3>0, ChipWrites
      <4>4. \A exempt : Covered(pic[chip], exempt) => Covered(c, exempt)
        BY <4>2, <3>0, ChipCovered
      <4> QED BY <4>1, <4>3, <4>4, <2>0, ChipUpdateCovered
    <3>2. CASE ICW2(chip)
      <4>1. PICK b \in Bases :
              pic' = [pic EXCEPT ![chip] = TakeIcw2(pic[chip], b)]
        BY <3>2 DEF ICW2
      <4> DEFINE c == TakeIcw2(pic[chip], b)
      <4>3. c \in Chip
        BY <3>0, ChipWrites
      <4>4. \A exempt : Covered(pic[chip], exempt) => Covered(c, exempt)
        BY <3>0, ChipCovered
      <4> QED BY <4>1, <4>3, <4>4, <2>0, ChipUpdateCovered
    <3>3. CASE ICW3(chip)
      <4> DEFINE c == TakeIcw3(pic[chip])
      <4>3. c \in Chip
        BY <3>0, ChipWrites
      <4>4. \A exempt : Covered(pic[chip], exempt) => Covered(c, exempt)
        BY <3>0, ChipCovered
      <4> QED BY <3>3, <4>3, <4>4, <2>0, ChipUpdateCovered DEF ICW3
    <3>4. CASE ICW4(chip)
      <4>1. PICK auto \in Flag :
              pic' = [pic EXCEPT ![chip] = TakeIcw4(pic[chip], auto)]
        BY <3>4 DEF ICW4
      <4> DEFINE c == TakeIcw4(pic[chip], auto)
      <4>3. c \in Chip
        BY <3>0, ChipWrites
      <4>4. \A exempt : Covered(pic[chip], exempt) => Covered(c, exempt)
        BY <3>0, ChipCovered
      <4> QED BY <4>1, <4>3, <4>4, <2>0, ChipUpdateCovered
    <3>5. CASE WriteMask(chip)
      <4>1. PICK m \in MasksFor(chip) :
              pic' = [pic EXCEPT ![chip] = SetMask(pic[chip], m)]
        BY <3>5 DEF WriteMask
      <4>2. m \in SUBSET Lines
        BY PICEnvAssumption DEF MasksFor
      <4> DEFINE c == SetMask(pic[chip], m)
      <4>3. c \in Chip
        BY <4>2, <3>0, ChipWrites
      <4>4. \A exempt : Covered(pic[chip], exempt) => Covered(c, exempt)
        BY <4>2, <3>0, ChipCovered
      <4> QED BY <4>1, <4>3, <4>4, <2>0, ChipUpdateCovered
    <3> QED BY <2>6, <3>1, <3>2, <3>3, <3>4, <3>5
  <2>7. CASE UNCHANGED pic
    BY <2>7
  <2> QED BY <2>1, <2>2, <2>3, <2>4, <2>5, <2>6, <2>7 DEF Next
<1>3. IInv => ServiceRequested
  BY ServiceRequestedCovers DEF TypeOK, ServiceRequested
<1> QED BY <1>1, <1>2, <1>3, TypeCorrect, PTL DEF Spec

---------------------------------------------------------------------------
(* Initialisation words and masks are kept apart.                          *)

\* One chip's share of InitWordsAreNotMasks.
Sequenced(c) ==
  /\ c.icw # 0 => c.mask = {}
  /\ c.icw = 2 => ~c.single
  /\ c.icw = 3 => c.needIcw4

\* A chip stays in sequence whatever is done to it; a word that takes it out
\* of the sequence leaves it there only with an empty mask.
LEMMA ChipSequenced ==
  ASSUME NEW c \in Chip, Sequenced(c)
  PROVE  /\ \A n4, s \in Flag : Sequenced(StartInit(c, n4, s))
         /\ \A b \in Bases : c.icw = 1 => Sequenced(TakeIcw2(c, b))
         /\ c.icw = 2 => Sequenced(TakeIcw3(c))
         /\ \A auto \in Flag : Sequenced(TakeIcw4(c, auto))
         /\ \A m \in SUBSET Lines : c.icw = 0 => Sequenced(SetMask(c, m))
         /\ Sequenced(EndLowest(c))
         /\ \A l \in Lines : Sequenced(EndLine(c, l))
<1>1. \A n4, s \in Flag : Sequenced(StartInit(c, n4, s))
  BY DEF Chip, Sequenced, StartInit
<1>2. \A b \in Bases : c.icw = 1 => Sequenced(TakeIcw2(c, b))
  BY DEF Chip, Sequenced, TakeIcw2, AfterIcw3
<1>3. c.icw = 2 => Sequenced(TakeIcw3(c))
  BY DEF Chip, Sequenced, TakeIcw3, AfterIcw3
<1>4. \A auto \in Flag : Sequenced(TakeIcw4(c, auto))
  BY DEF Chip, Sequenced, TakeIcw4
<1>5. \A m \in SUBSET Lines : c.icw = 0 => Sequenced(SetMask(c, m))
  BY DEF Chip, Sequenced, SetMask
<1>6. Sequenced(EndLowest(c))
  BY DEF Chip, Sequenced, EndLowest
<1>7. \A l \in Lines : Sequenced(EndLine(c, l))
  BY DEF Chip, Sequenced, EndLine
<1> QED BY <1>1, <1>2, <1>3, <1>4, <1>5, <1>6, <1>7

\* Raising, claiming and ending touch no field of the sequences.
LEMMA CallsSequenced ==
  ASSUME NEW p \in PICPair, NEW irq \in IRQs, NEW k \in Chips,
         Sequenced(p[k])
  PROVE  /\ Sequenced(RaiseIRQ(p, irq)[k])
         /\ Sequenced(Claimed(p, irq)[k])
         /\ Sequenced(SendEOI(p, irq)[k])
<1> DEFINE same(q) == /\ q[k].icw = p[k].icw /\ q[k].mask = p[k].mask
                      /\ q[k].single = p[k].single
                      /\ q[k].needIcw4 = p[k].needIcw4
<1>0. k = "master" \/ k = "slave"
  BY DEF Chips
<1>1. same(RaiseIRQ(p, irq))
  BY <1>0 DEF RaiseIRQ, PICPair, Chip
<1>2. same(Claimed(p, irq))
  BY <1>0 DEF Claimed, PICPair, Chip
<1>3. same(SendEOI(p, irq))
  BY <1>0 DEF SendEOI, EndLine, PICPair, Chip
<1> QED BY <1>1, <1>2, <1>3 DEF Sequenced

\* What POST leaves in a chip: no requests, no service, its mask.
LEMMA PostInitFields ==
  ASSUME NEW c \in Chip
  PROVE  /\ PostInitChip(c).icw = 0
         /\ PostInitChip(c).irr = {}
         /\ PostInitChip(c).ims = {}
         /\ PostInitChip(c).mask = c.mask
<1> DEFINE c1 == StartInit(c, TRUE, FALSE)
           c2 == TakeIcw2(c1, c.base)
           c3 == TakeIcw3(c2)
           c4 == TakeIcw4(c3, FALSE)
<1>1. c.base \in Bases
  BY DEF Chip
<1>2. c1 \in Chip /\ c1.irr = {} /\ c1.ims = {}
  <2>1. c1 \in Chip
    BY Zenon, FieldValues, ChipWrites
  <2> QED BY <2>1 DEF StartInit, Chip
<1> HIDE DEF c1
<1>3. c2 \in Chip /\ c2.irr = {} /\ c2.ims = {}
  <2>1. c2 \in Chip
    BY <1>1, <1>2, ChipWrites
  <2> QED BY <2>1, <1>2 DEF TakeIcw2, Chip
<1> HIDE DEF c2
<1>4. c3 \in Chip /\ c3.irr = {} /\ c3.ims = {}
  <2>1. c3 \in Chip
    BY <1>3, ChipWrites
  <2> QED BY <2>1, <1>3 DEF TakeIcw3, Chip
<1> HIDE DEF c3
<1>5. c4 \in Chip /\ c4.irr = {} /\ c4.ims = {} /\ c4.icw = 0
  <2>1. c4 \in Chip
    BY Zenon, <1>4, FieldValues, ChipWrites
  <2> QED BY <2>1, <1>4 DEF TakeIcw4, Chip
<1> HIDE DEF c4
<1>6. PostInitChip(c) = [c4 EXCEPT !.mask = c.mask]
  BY DEF PostInitChip, SetMask, c4, c3, c2, c1
<1> QED BY <1>5, <1>6 DEF Chip

\* For both chips, in any interleaving of the words of the two sequences with
\* each other, with new ICW1s and with interrupts: while a sequence runs the
\* mask is empty, and only a chip that asked for a word waits for it.
THEOREM SequencesKeptApart == Spec => []InitWordsAreNotMasks
<1> DEFINE Inv == \A chip \in Chips : Sequenced(pic[chip])
<1>1. Init => Inv
  <2> SUFFICES ASSUME Init PROVE Inv
    OBVIOUS
  <2>1. pic.master.icw = 0 /\ pic.slave.icw = 0
    BY DEF Init, PowerOnChip
  <2> QED BY <2>1 DEF Sequenced, Chips
<1>2. Inv /\ TypeOK /\ [Next]_pic => Inv'
  <2> SUFFICES ASSUME TypeOK, Inv, [Next]_pic, NEW k \in Chips
               PROVE  Sequenced(pic'[k])
    OBVIOUS
  <2>0. pic \in PICPair /\ pic[k] \in Chip /\ Sequenced(pic[k])
    BY ChipSelect DEF TypeOK
  <2>00. k = "master" \/ k = "slave"
    BY DEF Chips
  <2>1. CASE Raise
    BY <2>0, <2>1, CallsSequenced, PICEnvAssumption DEF Raise
  <2>2. CASE Claim
    BY <2>0, <2>2, CallsSequenced, HighestRequested DEF Claim
  <2>3. CASE BiosEOI
    BY <2>0, <2>3, CallsSequenced DEF BiosEOI
  <2>4. CASE MasterEOI
    BY <2>0, <2>00, <2>4, ChipSequenced DEF MasterEOI, PICPair
  <2>5. CASE Initialize
    BY <2>0, <2>00, <2>5, PostInitFields
       DEF Initialize, Initialized, PICPair, Sequenced
  <2>6. ASSUME NEW chip \in Chips,
               ICW1(chip) \/ ICW2(chip) \/ ICW3(chip) \/ ICW4(chip)
                 \/ WriteMask(chip)
        PROVE  Sequenced(pic'[k])
    <3>0. \A c : pic' = [pic EXCEPT ![chip] = c] =>
                   pic'[k] = IF chip = k THEN c ELSE pic[k]
      BY <2>0 DEF PICPair, Chips
    <3>1. CASE ICW1(chip)
      <4>1. PICK w \in InitWords :
              pic' = [pic EXCEPT ![chip] =
                        StartInit(pic[chip], w.needIcw4, w.single)]
        BY <3>1 DEF ICW1
      <4>2. w.needIcw4 \in Flag /\ w.single \in Flag
        BY PICEnvAssumption
      <4> QED BY <4>1, <4>2, <3>0, <2>0, ChipSequenced
    <3>2. CASE ICW2(chip)
      BY <3>2, <3>0, <2>0, ChipSequenced DEF ICW2
    <3>3. CASE ICW3(chip)
      BY <3>3, <3>0, <2>0, ChipSequenced DEF ICW3
    <3>4. CASE ICW4(chip)
      BY <3>4, <3>0, <2>0, ChipSequenced DEF ICW4
    <3>5. CASE WriteMask(chip)
      <4>1. PICK m \in MasksFor(chip) :
              /\ pic[chip].icw = 0
              /\ pic' = [pic EXCEPT ![chip] = SetMask(pic[chip], m)]
        BY <3>5 DEF WriteMask
      <4>2. m \in SUBSET Lines
        BY PICEnvAssumption DEF MasksFor
      <4> QED BY <4>1, <4>2, <3>0, <2>0, ChipSequenced
    <3> QED BY <2>6, <3>1, <3>2, <3>3, <3>4, <3>5
  <2>7. CASE UNCHANGED pic
    BY <2>7, <2>0
  <2> QED BY <2>1, <2>2, <2>3, <2>4, <2>5, <2>6, <2>7 DEF Next
<1>3. Inv => InitWordsAreNotMasks
  BY DEF Sequenced, InitWordsAreNotMasks
<1> QED BY <1>1, <1>2, <1>3, TypeCorrect, PTL DEF Spec

---------------------------------------------------------------------------
(* The direct lines of the master implement InterruptLatch.                *)

\* What the latch sees of a chip, that is, of the master.
Wanted(c) == (c.irr \ c.ims) \ {CascadeIRQ}
Served(c) == c.ims \ {CascadeIRQ}
Hidden(c) == c.mask \ {CascadeIRQ}

\* One request, one claim and one end, as the latch sees them on any chip.
LEMMA LatchRaise ==
  ASSUME NEW c \in Chip, NEW l \in Lines, NEW d \in Chip,
         d.irr = c.irr \cup {l}, d.ims = c.ims, d.mask = c.mask
  PROVE  /\ Served(d) = Served(c) /\ Hidden(d) = Hidden(c)
         /\ l = CascadeIRQ => Wanted(d) = Wanted(c)
         /\ l # CascadeIRQ => Wanted(d) = Wanted(c) \cup ({l} \ Served(c))
BY DEF Wanted, Served, Hidden

\* A line that is taken is no longer wanted but served, unless it is the cascade.
LEMMA LatchClaim ==
  ASSUME NEW c \in Chip, NEW l \in Lines, NEW d \in Chip,
         d.irr = c.irr, d.ims = c.ims \cup {l}, d.mask = c.mask
  PROVE  /\ Hidden(d) = Hidden(c)
         /\ l = CascadeIRQ => Wanted(d) = Wanted(c) /\ Served(d) = Served(c)
         /\ l # CascadeIRQ => /\ Wanted(d) = Wanted(c) \ {l}
                              /\ Served(d) = Served(c) \cup {l}
BY DEF Wanted, Served, Hidden

\* A line that is ended is no longer served, unless it is the cascade.
LEMMA LatchEnd ==
  ASSUME NEW c \in Chip, NEW l \in Lines, NEW d \in Chip,
         d.irr = c.irr \ {l}, d.ims = c.ims \ {l}, d.mask = c.mask
  PROVE  /\ Hidden(d) = Hidden(c)
         /\ l = CascadeIRQ => Wanted(d) = Wanted(c) /\ Served(d) = Served(c)
         /\ l # CascadeIRQ => /\ Wanted(d) = Wanted(c) \ {l}
                              /\ Served(d) = Served(c) \ {l}
BY DEF Wanted, Served, Hidden

\* Every behaviour of the pair is one of the latch on the master's direct
\* lines: a request survives until it is claimed or ended, is claimed once,
\* unmasked and lowest first, and nothing the slave, the cascade or an
\* initialisation of the slave does is visible on those lines.
THEOREM LatchImplemented == Spec => ImplementsLatch
<1>1. Init => Latch!Init
  <2> SUFFICES ASSUME Init PROVE Latch!Init
    OBVIOUS
  <2>1. pic.master.irr = {} /\ pic.master.ims = {} /\ pic.master.mask = {}
    BY DEF Init, PowerOnChip
  <2> QED BY <2>1 DEF Latch!Init
<1>2. TypeOK /\ TypeOK' /\ [Next]_pic => [Latch!Next]_(Latch!latch)
  <2> SUFFICES ASSUME TypeOK, TypeOK', [Next]_pic
               PROVE  Latch!Next \/ UNCHANGED Latch!latch
    OBVIOUS
  <2> DEFINE m == pic.master
             n == pic'.master
  <2>0. /\ pic \in PICPair /\ m \in Chip
        /\ pic' \in PICPair /\ n \in Chip
    BY DEF TypeOK, PICPair
  \* The latch's next state in terms of the view.
  <2>u. ASSUME Wanted(n) = Wanted(m), Served(n) = Served(m),
               Hidden(n) = Hidden(m)
        PROVE  UNCHANGED Latch!latch
    BY <2>u DEF Latch!latch, Wanted, Served, Hidden
  <2>r. ASSUME NEW l \in Lines, l # CascadeIRQ, Hidden(n) = Hidden(m),
               Served(n) = Served(m) \ {l}, Wanted(n) = Wanted(m) \ {l}
        PROVE  Latch!Next
    <3>1. l \in Direct
      BY <2>r DEF Direct
    <3>2. Latch!Retire(l)
      BY <2>r DEF Latch!Retire, Wanted, Served, Hidden
    <3> QED BY <3>1, <3>2 DEF Latch!Next
  <2>e. ASSUME NEW l \in Lines, n.irr = m.irr \ {l}, n.ims = m.ims \ {l},
               n.mask = m.mask
        PROVE  Latch!Next \/ UNCHANGED Latch!latch
    BY <2>0, <2>e, <2>u, <2>r, LatchEnd
  <2>c. CascadeIRQ \in Lines
    BY PICAssumption DEF Lines
  <2>1. CASE Raise
    <3>1. PICK irq \in IRQs : pic' = RaiseIRQ(pic, irq)
      BY <2>1, PICEnvAssumption DEF Raise
    <3> DEFINE l == IF irq < Width THEN irq ELSE CascadeIRQ
    <3>2. l \in Lines
      BY <2>c, PICAssumption DEF IRQs, Lines
    <3>3. n.irr = m.irr \cup {l} /\ n.ims = m.ims /\ n.mask = m.mask
      BY <2>0, <3>1 DEF RaiseIRQ, PICPair, Chip
    <3> HIDE DEF l
    <3>4. CASE l = CascadeIRQ
      BY <2>0, <3>2, <3>3, <3>4, <2>u, LatchRaise
    <3>5. CASE l # CascadeIRQ
      <4>1. /\ Served(n) = Served(m) /\ Hidden(n) = Hidden(m)
            /\ Wanted(n) = Wanted(m) \cup ({l} \ Served(m))
        BY <2>0, <3>2, <3>3, <3>5, LatchRaise
      <4>2. Latch!Request(l)
        BY <4>1 DEF Latch!Request, Wanted, Served, Hidden
      <4>3. l \in Direct
        BY <3>2, <3>5 DEF Direct
      <4> QED BY <4>2, <4>3 DEF Latch!Next
    <3> QED BY <3>4, <3>5
  <2>2. CASE Claim
    <3>1. PICK irq \in HighestIRQ(pic) : pic' = Claimed(pic, irq)
      BY <2>2 DEF Claim
    <3>2. irq \in IRQs
      BY <2>0, HighestRequested
    <3> DEFINE l == IF irq < Width THEN irq ELSE CascadeIRQ
    <3>3. l \in Lines
      BY <2>c, <3>2, PICAssumption DEF IRQs, Lines
    <3>4. n.irr = m.irr /\ n.ims = m.ims \cup {l} /\ n.mask = m.mask
      BY <2>0, <3>1 DEF Claimed, PICPair, Chip
    <3>5. l # CascadeIRQ => l \in LowestOf((m.irr \ m.mask) \ m.ims)
      <4>1. ASSUME irq < Width, SlaveReady(pic) PROVE FALSE
        <5>1. PICK k \in LowestOf(pic.slave.irr \ pic.slave.mask) :
                irq = SlaveIRQ(k)
          BY <4>1 DEF HighestIRQ
        <5>2. k \in Lines
          BY <2>0, LowestSubset DEF PICPair, Chip
        <5> QED BY <4>1, <5>1, <5>2, PICAssumption DEF Lines, SlaveIRQ
      <4> QED BY <4>1 DEF HighestIRQ
    <3> HIDE DEF l
    <3>6. CASE l = CascadeIRQ
      BY <2>0, <3>3, <3>4, <3>6, <2>u, LatchClaim
    <3>7. CASE l # CascadeIRQ
      <4>1. /\ Served(n) = Served(m) \cup {l} /\ Hidden(n) = Hidden(m)
            /\ Wanted(n) = Wanted(m) \ {l}
        BY <2>0, <3>3, <3>4, <3>7, LatchClaim
      <4>2. /\ l \in Wanted(m) \ Hidden(m)
            /\ \A j \in Wanted(m) \ Hidden(m) : l <= j
        BY <3>5, <3>7 DEF LowestOf, Wanted, Hidden
      <4>3. Latch!Deliver(l)
        BY <4>1, <4>2 DEF Latch!Deliver, Wanted, Served, Hidden
      <4>4. l \in Direct
        BY <3>3, <3>7 DEF Direct
      <4> QED BY <4>3, <4>4 DEF Latch!Next
    <3> QED BY <3>6, <3>7
  <2>3. CASE BiosEOI
    <3>1. PICK irq \in IRQs : pic' = SendEOI(pic, irq)
      BY <2>3 DEF BiosEOI
    <3> DEFINE l == IF irq < Width THEN irq ELSE CascadeIRQ
    <3>2. l \in Lines
      BY <2>c, PICAssumption DEF IRQs, Lines
    <3>3. n.irr = m.irr \ {l} /\ n.ims = m.ims \ {l} /\ n.mask = m.mask
      BY <2>0, <3>1 DEF SendEOI, EndLine, PICPair, Chip
    <3> QED BY <3>2, <3>3, <2>e
  <2>4. CASE MasterEOI
    <3>1. /\ n.irr = m.irr \ LowestOf(m.ims)
          /\ n.ims = m.ims \ LowestOf(m.ims)
          /\ n.mask = m.mask
      BY <2>0, <2>4 DEF MasterEOI, EndLowest, PICPair, Chip
    <3>2. CASE LowestOf(m.ims) = {}
      BY <3>1, <3>2, <2>u DEF Wanted, Served, Hidden
    <3>3. CASE LowestOf(m.ims) # {}
      <4>1. PICK l \in LowestOf(m.ims) : TRUE
        BY <3>3
      <4>2. l \in Lines /\ m.ims \subseteq Lines
        BY <2>0, <4>1, LowestSubset DEF Chip
      <4>3. LowestOf(m.ims) = {l}
        BY <4>1, <4>2 DEF LowestOf, Lines
      <4> QED BY <3>1, <4>2, <4>3, <2>e
    <3> QED BY <3>2, <3>3
  <2>5. CASE Initialize
    <3>1. n.irr = {} /\ n.ims = {} /\ n.mask = m.mask
      BY <2>0, <2>5, PostInitFields DEF Initialize, Initialized, PICPair
    <3>2. Latch!PostReset
      BY <3>1 DEF Latch!PostReset
    <3> QED BY <3>2 DEF Latch!Next
  <2>6. ASSUME NEW chip \in Chips,
               ICW1(chip) \/ ICW2(chip) \/ ICW3(chip) \/ ICW4(chip)
                 \/ WriteMask(chip)
        PROVE  Latch!Next \/ UNCHANGED Latch!latch
    <3>1. CASE chip = "slave"
      <4>1. n = m
        BY <2>0, <2>6, <3>1
           DEF ICW1, ICW2, ICW3, ICW4, WriteMask, PICPair
      <4> QED BY <4>1, <2>u
    <3>2. CASE chip = "master" /\ ICW1(chip)
      <4>1. n.irr = {} /\ n.ims = {} /\ n.mask = {}
        BY <2>0, <3>2 DEF ICW1, StartInit, PICPair, Chip
      <4>2. Latch!Reset
        BY <4>1 DEF Latch!Reset
      <4> QED BY <4>2 DEF Latch!Next
    <3>3. CASE chip = "master" /\ (ICW2(chip) \/ ICW3(chip) \/ ICW4(chip))
      <4> DEFINE same(c) == c.irr = m.irr /\ c.ims = m.ims /\ c.mask = m.mask
      <4>2. \A b \in Bases : same(TakeIcw2(m, b))
        BY <2>0 DEF TakeIcw2, Chip
      <4>3. same(TakeIcw3(m))
        BY <2>0 DEF TakeIcw3, Chip
      <4>4. \A auto \in Flag : same(TakeIcw4(m, auto))
        BY <2>0 DEF TakeIcw4, Chip
      <4>1. same(n)
        BY <2>0, <3>3, <4>2, <4>3, <4>4 DEF ICW2, ICW3, ICW4, PICPair
      <4> QED BY <4>1, <2>u DEF Wanted, Served, Hidden
    <3>4. CASE chip = "master" /\ WriteMask(chip)
      <4>1. PICK mask \in MasksFor(chip) :
              pic' = [pic EXCEPT ![chip] = SetMask(pic[chip], mask)]
        BY <3>4 DEF WriteMask
      <4>2. mask \in SUBSET Lines
        BY PICEnvAssumption DEF MasksFor
      <4>3. n.irr = m.irr /\ n.ims = m.ims /\ n.mask = mask
        BY <2>0, <3>4, <4>1 DEF SetMask, PICPair, Chip
      <4>4. Latch!SetMask(mask \ {CascadeIRQ})
        BY <4>3 DEF Latch!SetMask
      <4>5. mask \ {CascadeIRQ} \in SUBSET Direct
        BY <4>2 DEF Direct
      <4> QED BY <4>4, <4>5 DEF Latch!Next
    <3> QED BY <2>6, <3>1, <3>2, <3>3, <3>4 DEF Chips
  <2>7. CASE UNCHANGED pic
    BY <2>7, <2>u
  <2> QED BY <2>1, <2>2, <2>3, <2>4, <2>5, <2>6, <2>7 DEF Next
<1> QED BY <1>1, <1>2, TypeCorrect, PTL DEF Spec, ImplementsLatch, Latch!Spec
=============================================================================
