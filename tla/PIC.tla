-------------------------------- MODULE PIC --------------------------------
(***************************************************************************)
(* State machine of hardware.py, class PIC: devices raise lines, the       *)
(* interrupt pump of main.py claims them, BIOS handlers and guest port     *)
(* writes end them, and the guest may reprogram either chip at any time.   *)
(* Nothing is assumed of the order in which these callers come.            *)
(***************************************************************************)
EXTENDS PIC8259

CONSTANTS
  DeviceIRQs,  \* the interrupt numbers some device raises
  InitWords,   \* ICW1 words the guest writes: records [needIcw4, single]
  MasterMasks, \* masks the guest writes to port 21h
  SlaveMasks   \* masks the guest writes to port A1h

ASSUME PICEnvAssumption ==
  /\ DeviceIRQs \subseteq IRQs
  /\ InitWords \subseteq [needIcw4 : Flag, single : Flag]
  /\ MasterMasks \subseteq SUBSET Lines
  /\ SlaveMasks \subseteq SUBSET Lines

VARIABLE pic

Init == \E bm, bs \in Bases :
          pic = [master |-> PowerOnChip(bm), slave |-> PowerOnChip(bs)]

Raise == \E irq \in DeviceIRQs : pic' = RaiseIRQ(pic, irq)

\* The pump asks for the highest line and claims it with the same call.
Claim == \E irq \in HighestIRQ(pic) : pic' = Claimed(pic, irq)

\* A BIOS handler ends its own line, also when it runs because a guest issued
\* the software interrupt and nothing is in service.
BiosEOI == \E irq \in IRQs : pic' = SendEOI(pic, irq)

\* Port 20h, any word with bit 4 clear that is not below 8.
MasterEOI == pic' = [pic EXCEPT !.master = EndLowest(@)]

Chips == {"master", "slave"}

MasksFor(chip) == IF chip = "master" THEN MasterMasks ELSE SlaveMasks

\* A command word with bit 4 set starts over, whatever the chip was doing.
ICW1(chip) == \E w \in InitWords :
  pic' = [pic EXCEPT ![chip] = StartInit(@, w.needIcw4, w.single)]

\* A word at the data port (21h, A1h) is the initialisation word the chip
\* expects, and the mask when it expects none.
ICW2(chip) == /\ pic[chip].icw = 1
              /\ \E b \in Bases : pic' = [pic EXCEPT ![chip] = TakeIcw2(@, b)]

ICW3(chip) == /\ pic[chip].icw = 2
              /\ pic' = [pic EXCEPT ![chip] = TakeIcw3(@)]

ICW4(chip) == /\ pic[chip].icw = 3
              /\ \E auto \in Flag :
                   pic' = [pic EXCEPT ![chip] = TakeIcw4(@, auto)]

WriteMask(chip) == /\ pic[chip].icw = 0
                   /\ \E m \in MasksFor(chip) :
                        pic' = [pic EXCEPT ![chip] = SetMask(@, m)]

\* POST, at power-on and at every cold reset.
Initialize == pic' = Initialized(pic)

Next ==
  \/ Raise \/ Claim \/ BiosEOI \/ MasterEOI \/ Initialize
  \/ \E chip \in Chips :
       ICW1(chip) \/ ICW2(chip) \/ ICW3(chip) \/ ICW4(chip) \/ WriteMask(chip)

Spec == Init /\ [][Next]_pic

---------------------------------------------------------------------------
(* Properties.                                                             *)

\* Type invariant: the registers are sets of lines and the initialisation
\* counters stay in range.
TypeOK == pic \in PICPair

\* No service without a request: a bit set in an in-service register has its
\* request bit set too, on every line but the cascade.  get_highest_irq
\* leaves the request set, so both ends of an interrupt (send_eoi and the
\* command port) must clear the two bits together; a handler that reads port
\* 20h or is_irq_pending relies on it.
ServiceRequested ==
  /\ pic.slave.ims \subseteq pic.slave.irr
  /\ pic.master.ims \ {CascadeIRQ} \subseteq pic.master.irr

\* While a chip is being initialised its mask is empty: no data word of the
\* sequence (ICW2, ICW3, ICW4) is ever taken for a mask, and a mask written
\* afterwards is never taken for an initialisation word.
InitWordsAreNotMasks ==
  \A chip \in Chips :
    /\ pic[chip].icw # 0 => pic[chip].mask = {}
    /\ pic[chip].icw = 2 => ~pic[chip].single
    /\ pic[chip].icw = 3 => pic[chip].needIcw4

\* The direct lines of the master keep the promises of InterruptLatch, with
\* the slave, the cascade and the initialisation sequences all running.
Direct == Lines \ {CascadeIRQ}
Latch == INSTANCE InterruptLatch WITH
  Sources <- Direct,
  requested <- (pic.master.irr \ pic.master.ims) \ {CascadeIRQ},
  inService <- pic.master.ims \ {CascadeIRQ},
  masked <- pic.master.mask \ {CascadeIRQ}
ImplementsLatch == Latch!Spec
=============================================================================
