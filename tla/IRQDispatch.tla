---------------------------- MODULE IRQDispatch ----------------------------
(***************************************************************************)
(* Delivery of hardware interrupts: main.py's run loop executes one guest  *)
(* instruction, then calls _check_and_dispatch_irq once; the interrupt     *)
(* goes to the built-in BIOS handler or, if the guest replaced the vector, *)
(* to guest code that later ends it at port 20h or chains to the BIOS      *)
(* stub, and returns with IRET.  Only master lines are raised, as in the   *)
(* program, where video.py raises 0 and main.py raises 1.                  *)
(***************************************************************************)
EXTENDS PIC8259, Sequences

CONSTANTS
  DeviceIRQs,   \* master lines the devices raise
  GuestMasks,   \* masks the guest writes to port 21h
  EarlySti,     \* may a guest handler set IF before it has ended its line?
  MaxDepth      \* bound on nested guest handlers

ASSUME DispatchAssumption ==
  /\ DeviceIRQs \subseteq Lines \ {CascadeIRQ}
  /\ GuestMasks \subseteq SUBSET Lines
  /\ EarlySti \in BOOLEAN
  /\ MaxDepth \in Nat

Timer == 0

VARIABLES
  pic,
  turn,        \* "guest": the processor runs; "pump": the loop polls the PIC
  ifFlag,      \* cpu.if_flag
  shadow,      \* cpu._irq_shadow # 0: the instruction before was STI or SS's
  halted,      \* cpu.halted
  frames,      \* guest interrupt handlers in progress, oldest first
  hooked,      \* lines whose vector the guest has replaced
  tickHooked   \* INT 1Ch has been replaced

cpu == <<ifFlag, shadow, halted, frames>>
vectors == <<hooked, tickHooked>>
vars == <<pic, turn, cpu, vectors>>

\* A guest handler: the line it serves, whether its end of interrupt is still
\* to come, and IF as its IRET will restore it.
Frame == [irq : DeviceIRQs, owes : BOOLEAN, savedIF : BOOLEAN]

Init ==
  /\ \E b \in Bases : pic = [master |-> PowerOnChip(b), slave |-> PowerOnChip(b)]
  /\ turn = "guest"
  /\ ifFlag = FALSE /\ shadow = FALSE /\ halted = FALSE
  /\ frames = <<>>
  /\ hooked = {} /\ tickHooked = FALSE

InHandler == frames # <<>>
Depth == Len(frames)
Running == frames[Depth]

---------------------------------------------------------------------------
(* The guest: one instruction, then the pump.                              *)

Executes == turn = "guest" /\ ~halted /\ turn' = "pump"

\* IF cannot be raised in a handler that still owes its end of interrupt,
\* unless EarlySti.  The bound MaxDepth on nested handlers is kept here: the
\* innermost handler does not open interrupts again.
GuestSti ==
  /\ Executes
  /\ InHandler /\ Running.owes => EarlySti
  /\ Depth < MaxDepth
  /\ ifFlag' = TRUE /\ shadow' = TRUE
  /\ UNCHANGED <<pic, halted, frames, vectors>>

\* A load of SS, which the next instruction's load of SP must follow at once.
GuestLoadSS ==
  /\ Executes
  /\ shadow' = TRUE
  /\ UNCHANGED <<pic, ifFlag, halted, frames, vectors>>

GuestCli ==
  /\ Executes
  /\ ifFlag' = FALSE /\ shadow' = FALSE
  /\ UNCHANGED <<pic, halted, frames, vectors>>

\* Any instruction that touches none of this.
GuestOther ==
  /\ Executes
  /\ shadow' = FALSE
  /\ UNCHANGED <<pic, ifFlag, halted, frames, vectors>>

GuestHlt ==
  /\ Executes
  /\ ~InHandler
  /\ halted' = TRUE /\ shadow' = FALSE
  /\ UNCHANGED <<pic, ifFlag, frames, vectors>>

GuestMask ==
  /\ Executes
  /\ \E m \in GuestMasks : pic' = [pic EXCEPT !.master = SetMask(@, m)]
  /\ shadow' = FALSE
  /\ UNCHANGED <<ifFlag, halted, frames, vectors>>

\* INT 21h AH=25h, or a store into the vector table.
GuestSetVector ==
  /\ Executes
  /\ ~InHandler
  /\ \/ \E h \in SUBSET DeviceIRQs : hooked' = h /\ UNCHANGED tickHooked
     \/ tickHooked' = ~tickHooked /\ UNCHANGED hooked
  /\ shadow' = FALSE
  /\ UNCHANGED <<pic, ifFlag, halted, frames>>

\* The handler writes its end of interrupt to port 20h.
GuestEoi ==
  /\ Executes
  /\ InHandler /\ Running.owes
  /\ pic' = [pic EXCEPT !.master = EndLowest(@)]
  /\ frames' = [frames EXCEPT ![Depth].owes = FALSE]
  /\ shadow' = FALSE
  /\ UNCHANGED <<ifFlag, halted, vectors>>

\* Mutant: the keyboard handler forgets its end of interrupt.
BiosEndsTimer(p, irq) == IF irq = 0 THEN SendEOI(p, irq) ELSE p

\* The built-in handlers of INT 08h and 09h end their line; those of the
\* reserved lines do nothing.
BiosEnds(p, irq) == IF irq \in {0, 1} THEN SendEOI(p, irq) ELSE p

\* Mutant: the flags are saved after IF has been cleared.
TickFrameLate(irq, if) ==
  IF irq = Timer /\ tickHooked
  THEN <<[irq |-> irq, owes |-> FALSE, savedIF |-> FALSE]>>
  ELSE <<>>

\* After the built-in timer handler a hooked INT 1Ch runs with IF clear, on
\* the frame of the interrupt; the line has been ended before it starts.
TickFrame(irq, if) ==
  IF irq = Timer /\ tickHooked
  THEN <<[irq |-> irq, owes |-> FALSE, savedIF |-> if]>>
  ELSE <<>>

\* The handler calls the vector it replaced: PUSHF, CALL FAR to the stub
\* "INT n; IRET", which runs the built-in handler.
GuestChain ==
  /\ Executes
  /\ InHandler /\ Running.owes
  /\ TickFrame(Running.irq, ifFlag) # <<>> => Depth < MaxDepth
  /\ pic' = BiosEnds(pic, Running.irq)
  /\ frames' = [frames EXCEPT ![Depth].owes = FALSE]
                 \o TickFrame(Running.irq, ifFlag)
  /\ ifFlag' = (ifFlag /\ TickFrame(Running.irq, ifFlag) = <<>>)
  /\ shadow' = FALSE
  /\ UNCHANGED <<halted, vectors>>

GuestIret ==
  /\ Executes
  /\ InHandler /\ ~Running.owes
  /\ ifFlag' = Running.savedIF
  /\ frames' = SubSeq(frames, 1, Depth - 1)
  /\ shadow' = FALSE
  /\ UNCHANGED <<pic, halted, vectors>>

Guest == \/ GuestSti \/ GuestLoadSS \/ GuestCli \/ GuestOther \/ GuestHlt \/ GuestMask
         \/ GuestSetVector \/ GuestEoi \/ GuestChain \/ GuestIret

---------------------------------------------------------------------------
(* The loop.                                                               *)

\* A device raises its line between two instructions; a halted processor
\* does not keep the loop from ticking.
Raise ==
  /\ \E irq \in DeviceIRQs : pic' = RaiseIRQ(pic, irq)
  /\ UNCHANGED <<turn, cpu, vectors>>

Accepts == ifFlag /\ ~shadow

\* _check_and_dispatch_irq with an interrupt to deliver.
Dispatch ==
  /\ turn = "pump" /\ turn' = "guest"
  /\ Accepts
  /\ \E irq \in HighestIRQ(pic) :
       IF irq \in hooked
       THEN /\ pic' = Claimed(pic, irq)
            /\ frames' = Append(frames, [irq |-> irq, owes |-> TRUE,
                                         savedIF |-> ifFlag])
            /\ ifFlag' = FALSE
       ELSE /\ pic' = BiosEnds(Claimed(pic, irq), irq)
            /\ frames' = frames \o TickFrame(irq, ifFlag)
            /\ ifFlag' = (ifFlag /\ TickFrame(irq, ifFlag) = <<>>)
  /\ halted' = FALSE
  /\ UNCHANGED <<shadow, vectors>>

\* The early returns: interrupts off, in the shadow of STI, or nothing to do.
PumpIdle ==
  /\ turn = "pump" /\ turn' = "guest"
  /\ ~Accepts \/ HighestIRQ(pic) = {}
  /\ UNCHANGED <<pic, cpu, vectors>>

\* Mutant: the loop starts over before it polls when nothing was executed.
HaltedSkipsPump ==
  turn = "guest" /\ halted /\ UNCHANGED vars

\* A halted processor executes nothing; the loop goes on polling.
HaltedTurn ==
  /\ turn = "guest" /\ halted /\ turn' = "pump"
  /\ UNCHANGED <<pic, cpu, vectors>>

Next == Guest \/ Raise \/ Dispatch \/ PumpIdle \/ HaltedTurn

Spec == Init /\ [][Next]_vars

---------------------------------------------------------------------------
(* Fairness.  The loop never stops; a guest handler ends its line and      *)
(* returns; the main program, whatever it does, opens interrupts again and *)
(* again and executes something after the STI.                             *)

Finishes == GuestEoi \/ GuestChain \/ GuestIret
RunsOpen == GuestOther /\ ifFlag

Fairness ==
  /\ WF_vars(Dispatch) /\ WF_vars(PumpIdle) /\ WF_vars(HaltedTurn)
  /\ WF_vars(Guest)
  /\ SF_vars(Finishes)
  /\ SF_vars(GuestSti /\ ~InHandler)
  /\ SF_vars(RunsOpen /\ ~InHandler)

FairSpec == Spec /\ Fairness

---------------------------------------------------------------------------
(* Properties.                                                             *)

\* Type invariant, with the bound on the handlers' stack.
TypeOK ==
  /\ pic \in PICPair
  /\ turn \in {"guest", "pump"}
  /\ ifFlag \in BOOLEAN /\ shadow \in BOOLEAN /\ halted \in BOOLEAN
  /\ frames \in Seq(Frame) /\ Len(frames) <= MaxDepth
  /\ hooked \subseteq DeviceIRQs
  /\ tickHooked \in BOOLEAN

Owing == {i \in 1 .. Depth : frames[i].owes}

\* Every line in service belongs to one handler that is still going to end
\* it, and to no other: no end of interrupt hits a line that is not its
\* own, and no line stays in service with nobody left to end it, which would
\* silence it for good (_schedule_keyboard_irq waits for line 1 to be idle).
\* Holds while handlers keep IF clear until they have ended their line.
ServiceOwned ==
  /\ pic.master.ims = {frames[i].irq : i \in Owing}
  /\ \A i, j \in Owing : frames[i].irq = frames[j].irq => i = j

\* A handler's return to the main program leaves interrupts enabled, however
\* deep handlers nested and whatever they did to IF: only code with IF set
\* is interrupted, and both the IRET of a guest handler and
\* _finish_interrupt_return restore the flags of the code they interrupted.
ReturnsEnabled == [][InHandler /\ frames' = <<>> => ifFlag']_vars

\* A halted processor with interrupts on and an unmasked request wakes up.
HaltWakes ==
  (halted /\ ifFlag /\ HighestIRQ(pic) # {}) ~> ~halted

Requests(irq) == irq \in pic.master.irr \ pic.master.mask

\* The guest never halts the processor with interrupts off, which is how a
\* program stops the machine on purpose.
NeverStopped == [](halted => ifFlag)

\* In a guest that does not stop the machine, the first line is served
\* whatever the others do, unless the guest masks it.
TimerServed ==
  NeverStopped =>
    ((Requests(Timer) /\ Timer \notin pic.master.ims)
        ~> (Timer \in pic.master.ims \/ ~Requests(Timer)))

\* The loop claims one interrupt per turn, the lowest line first, so a timer
\* that fires before every turn starves the other lines.  Nothing else does: a
\* line that waits for ever, unmasked, waits behind a timer that is delivered
\* again and again, never behind one that is masked or in service, a handler
\* that returned with interrupts off, or a turn that was lost.
TimerTaken == Dispatch /\ HighestIRQ(pic) = {Timer}

OnlyTimerStarves ==
  NeverStopped =>
    \A irq \in DeviceIRQs \ {Timer} :
      \/ []<><<TimerTaken>>_vars
      \/ (Requests(irq) /\ irq \notin pic.master.ims)
            ~> (irq \in pic.master.ims \/ ~Requests(irq))
=============================================================================
