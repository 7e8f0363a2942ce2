------------------------------ MODULE PIC8259 ------------------------------
(***************************************************************************)
(* The pair of 8259A interrupt controllers of hardware.py, class PIC, as   *)
(* operators on one value: pic.master and pic.slave are the two chips, and *)
(* every method of the class is an operator that returns the new pair.     *)
(* A register (an 8-bit integer in the code) is the set of the lines whose *)
(* bit is set.  PIC.tla is the state machine over these operators;         *)
(* IRQDispatch.tla and KeyboardSystem.tla compose them with the processor. *)
(***************************************************************************)
EXTENDS Integers

CONSTANTS
  Width,       \* lines of one chip; 8 in the code
  CascadeIRQ,  \* the master line the slave is wired to; 2 in the code
  Bases        \* vector bases a guest may program with ICW2

ASSUME PICAssumption ==
  /\ Width \in Nat \ {0}
  /\ CascadeIRQ \in 0 .. Width - 1
  /\ Bases # {}

Lines == 0 .. Width - 1

\* Interrupt numbers: the master's lines, then the slave's.
IRQs == 0 .. 2 * Width - 1

SlaveIRQ(l) == l + Width

\* A single bit that the code keeps as a Python bool.
Flag == BOOLEAN

\* icw is the number of the initialisation word the data port expects next,
\* minus one; 0 outside an initialisation, when the data port is the mask.
Chip == [mask : SUBSET Lines, irr : SUBSET Lines, ims : SUBSET Lines,
         icw : 0 .. 3, needIcw4 : Flag, single : Flag,
         autoEoi : Flag, base : Bases]

PICPair == [master : Chip, slave : Chip]

PowerOnChip(b) ==
  [mask |-> {}, irr |-> {}, ims |-> {}, icw |-> 0, needIcw4 |-> FALSE,
   single |-> FALSE, autoEoi |-> FALSE, base |-> b]

\* Mutant: the scan goes from the highest line down.
HighestOf(S) == {l \in S : \A m \in S : m <= l}

\* The scan "for i in range(8): if bits & (1 << i)" stops at the lowest line.
LowestOf(S) == {l \in S : \A m \in S : l <= m}

---------------------------------------------------------------------------
(* Ports: command and data words of one chip.                              *)

\* Mutant: ICW1 leaves the mask.
StartInitMasked(c, needIcw4, single) ==
  [c EXCEPT !.icw = 1, !.needIcw4 = needIcw4, !.single = single,
            !.autoEoi = FALSE, !.irr = {}, !.ims = {}]

\* ICW1 starts an initialisation and clears the mask, the requests and the
\* in-service bits.  The other fields of the chip stay.
StartInit(c, needIcw4, single) ==
  [c EXCEPT !.icw = 1, !.needIcw4 = needIcw4, !.single = single,
            !.autoEoi = FALSE, !.mask = {}, !.irr = {}, !.ims = {}]

AfterIcw3(c) == IF c.needIcw4 THEN 3 ELSE 0

\* ICW2: the vector base; the word that follows depends on ICW1.
TakeIcw2(c, b) ==
  [c EXCEPT !.base = b, !.icw = IF c.single THEN AfterIcw3(c) ELSE 2]

\* ICW3 describes the cascade wiring, which is fixed: the word is dropped.
TakeIcw3(c) == [c EXCEPT !.icw = AfterIcw3(c)]

TakeIcw4(c, auto) == [c EXCEPT !.autoEoi = auto, !.icw = 0]

SetMask(c, m) == [c EXCEPT !.mask = m]

\* Mutant: an end of interrupt clears the request and not the service.
EndRequestOnly(c) == [c EXCEPT !.irr = @ \ LowestOf(c.ims)]

\* Every master command word that is neither ICW1 nor below 8 ends here, be
\* it a non-specific EOI, a specific EOI for some line, or a read command.
EndLowest(c) ==
  [c EXCEPT !.ims = @ \ LowestOf(c.ims), !.irr = @ \ LowestOf(c.ims)]

---------------------------------------------------------------------------
(* Calls of the devices, of the BIOS handlers and of the interrupt pump.   *)

EndLine(c, l) == [c EXCEPT !.ims = @ \ {l}, !.irr = @ \ {l}]

\* send_eoi(irq), which the BIOS handlers call with their own number.
SendEOI(p, irq) ==
  IF irq < Width
  THEN [p EXCEPT !.master = EndLine(@, irq)]
  ELSE [p EXCEPT !.slave = EndLine(@, irq - Width),
                 !.master = EndLine(@, CascadeIRQ)]

\* Mutant: the test that tells the two chips apart is the wrong way round.
RaiseSwapped(p, irq) ==
  IF irq >= Width
  THEN [p EXCEPT !.master.irr = @ \cup {irq}]
  ELSE [p EXCEPT !.slave.irr = @ \cup {irq - Width},
                 !.master.irr = @ \cup {CascadeIRQ}]

RaiseIRQ(p, irq) ==
  IF irq < Width
  THEN [p EXCEPT !.master.irr = @ \cup {irq}]
  ELSE [p EXCEPT !.slave.irr = @ \cup {irq - Width},
                 !.master.irr = @ \cup {CascadeIRQ}]

IsIRQPending(p, irq) ==
  IF irq < Width
  THEN irq \in p.master.irr \cup p.master.ims
  ELSE irq - Width \in p.slave.irr \cup p.slave.ims

\* get_highest_irq: an unmasked slave request goes first, unless the cascade
\* line is in service; a master line is refused only by its own in-service
\* bit.  The set is empty (the code's -1) or has one member.
SlaveReady(p) ==
  /\ p.slave.irr \ p.slave.mask # {}
  /\ CascadeIRQ \notin p.master.ims

\* Mutant: the mask of the master is not looked at.
HighestUnchecked(p) ==
  IF SlaveReady(p)
  THEN {SlaveIRQ(l) : l \in LowestOf(p.slave.irr \ p.slave.mask)}
  ELSE LowestOf(p.master.irr \ p.master.ims)

\* Mutant: the search ends at the first request, masked or not.
HighestFirst(p) ==
  IF SlaveReady(p)
  THEN {SlaveIRQ(l) : l \in LowestOf(p.slave.irr \ p.slave.mask)}
  ELSE LowestOf(p.master.irr \ p.master.ims) \ p.master.mask

HighestIRQ(p) ==
  IF SlaveReady(p)
  THEN {SlaveIRQ(l) : l \in LowestOf(p.slave.irr \ p.slave.mask)}
  ELSE LowestOf((p.master.irr \ p.master.mask) \ p.master.ims)

\* What claiming does to the registers: the request bit stays set.
Claimed(p, irq) ==
  IF irq < Width
  THEN [p EXCEPT !.master.ims = @ \cup {irq}]
  ELSE [p EXCEPT !.slave.ims = @ \cup {irq - Width},
                 !.master.ims = @ \cup {CascadeIRQ}]

\* initialize(): the four words each chip gets at POST, with the bases and
\* the masks the chips had.
PostInitChip(c) ==
  SetMask(TakeIcw4(TakeIcw3(TakeIcw2(StartInit(c, TRUE, FALSE), c.base)),
                   FALSE), c.mask)

Initialized(p) ==
  [master |-> PostInitChip(p.master), slave |-> PostInitChip(p.slave)]
=============================================================================
