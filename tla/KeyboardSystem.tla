--------------------------- MODULE KeyboardSystem ---------------------------
(***************************************************************************)
(* A key's way from the host to a program that reads INT 16h: main.py's    *)
(* loop (execute, tick and dispatch an interrupt, read the host, schedule  *)
(* IRQ 1), the controller of I8042.tla, the interrupt controller of        *)
(* PIC8259.tla, the BIOS handlers of INT 09h and 16h in bios.py, and a     *)
(* guest that reads, polls, hooks INT 08h and 09h and toggles IF.          *)
(* A key waits in kbd.queue, then in the hands of a guest's INT 09h        *)
(* handler, then in the BIOS's buffer or, if the handler is a keyboard     *)
(* driver of its own, in the ring of the BIOS data area.                   *)
(***************************************************************************)
EXTENDS I8042, PIC8259

CONSTANTS
  Modes,       \* how the emulator is run: records [gtk, paste, driver]
  IdleLimit,   \* _STDIN_EOF_IDLE_CALLS
  MaxKeys,     \* bound on the keys on their way
  MaxDepth     \* bound on nested guest handlers

Mode == [gtk : BOOLEAN, paste : BOOLEAN, driver : BOOLEAN]

ASSUME SystemAssumption ==
  /\ Modes \subseteq Mode
  /\ IdleLimit \in Nat \ {0}
  /\ MaxKeys \in Nat /\ MaxDepth \in Nat

VARIABLES
  mode,        \* one of Modes, fixed at start
  turn,        \* where the loop stands
  kbd, pic,
  buffer,      \* Keyboard.buffer, the BIOS's type-ahead keys
  ring,        \* the ring buffer of the BIOS data area
  hook,        \* who serves INT 09h: "bios", "chain" or "driver"
  timerHooked, \* does the guest serve INT 08h?
  ifFlag, frames,
  waiting,     \* INT 16h AH=00h is being repeated (_retry_interrupt_state)
  callerIF,    \* the IF the repeated call will restore
  eof, idle,   \* standard input is exhausted; INT 28h calls since
  seen, got    \* the guest's AX: of its last look, of its last read

guest == <<hook, timerHooked, frames, waiting, callerIF, idle>>
keys == <<kbd, buffer, ring>>
vars == <<mode, turn, pic, keys, guest, ifFlag, eof, seen, got>>

Timer == 0
Keyboard == 1
NoKey == "none"

\* The slave is wired above the timer's and the keyboard's lines of the master.
ASSUME WiringAssumption == CascadeIRQ > Keyboard

Frame == [irq : {Timer, Keyboard}, stage : {"start", "read", "done"},
          savedIF : BOOLEAN]

Init ==
  /\ mode \in Modes
  /\ turn = "exec"
  /\ kbd = PowerOnKbd({})
  /\ \E b \in Bases : pic = [master |-> PowerOnChip(b), slave |-> PowerOnChip(b)]
  /\ buffer = <<>> /\ ring = <<>>
  /\ hook = "bios" /\ timerHooked = FALSE
  /\ ifFlag = TRUE /\ frames = <<>>
  /\ waiting = FALSE /\ callerIF = FALSE
  /\ eof = FALSE /\ idle = 0
  /\ seen = NoKey /\ got = NoKey

---------------------------------------------------------------------------
(* INT 16h.  The call empties the controller itself, unless the guest owns *)
(* INT 09h and bytes of a physical keyboard are queued: those must reach   *)
(* the guest's handler (_drain_unserviced_controller_data).                *)

Drains == HasData(kbd) /\ ~(hook # "bios" /\ HasPhysicalData(kbd))
Drained == IF Drains THEN buffer \o KeysOf(kbd.queue) ELSE buffer
Emptied == IF Drains THEN ReadAll(kbd) ELSE kbd

InHandler == frames # <<>>
Running == frames[Len(frames)]
Executes == turn = "exec" /\ turn' = "pump"
InMain == Executes /\ ~InHandler /\ ~waiting

\* AH=00h with a key: the BIOS's buffer first, then the ring.
ReadKey ==
  /\ Executes /\ ~InHandler
  /\ kbd' = Emptied
  /\ \/ /\ Drained # <<>>
        /\ got' = Head(Drained) /\ buffer' = Tail(Drained)
        /\ UNCHANGED ring
     \/ /\ Drained = <<>> /\ ring # <<>>
        /\ got' = Head(ring) /\ ring' = Tail(ring)
        /\ buffer' = <<>>
  /\ seen' = NoKey
  /\ waiting' = FALSE
  /\ ifFlag' = IF waiting THEN callerIF ELSE ifFlag
  /\ UNCHANGED <<mode, pic, hook, timerHooked, frames, callerIF, idle, eof>>

\* Mutant: the repeated call keeps the caller's IF.
ReadWaitsClosed ==
  /\ Executes /\ ~InHandler
  /\ Drained = <<>> /\ ring = <<>>
  /\ kbd' = Emptied /\ buffer' = <<>>
  /\ waiting' = TRUE
  /\ callerIF' = IF waiting THEN callerIF ELSE ifFlag
  /\ UNCHANGED <<mode, pic, ring, hook, timerHooked, frames, idle, ifFlag,
                 eof, seen, got>>

\* AH=00h without: the instruction is going to be repeated, with IF set.
ReadWaits ==
  /\ Executes /\ ~InHandler
  /\ Drained = <<>> /\ ring = <<>>
  /\ kbd' = Emptied /\ buffer' = <<>>
  /\ waiting' = TRUE
  /\ callerIF' = IF waiting THEN callerIF ELSE ifFlag
  /\ ifFlag' = TRUE
  /\ UNCHANGED <<mode, pic, ring, hook, timerHooked, frames, idle, eof,
                 seen, got>>

\* AH=01h, by the main program or by a handler that is done with its byte.
Polls ==
  /\ kbd' = Emptied /\ buffer' = Drained
  /\ seen' = IF Drained # <<>> THEN Head(Drained)
             ELSE IF ring # <<>> THEN Head(ring) ELSE NoKey
  /\ UNCHANGED <<mode, pic, ring, guest, ifFlag, eof, got>>

PollKey == InMain /\ Polls
HandlerPolls == Executes /\ InHandler /\ Running.stage = "done" /\ Polls

---------------------------------------------------------------------------
(* The rest of the guest's main program.                                   *)

SetIF ==
  /\ InMain
  /\ ifFlag' = ~ifFlag
  /\ UNCHANGED <<mode, pic, keys, guest, eof, seen, got>>

\* A driver stays; a program may hook INT 09h to chain to the BIOS.
SetVector ==
  /\ InMain
  /\ \/ hook' = (IF mode.driver THEN "driver"
                 ELSE IF hook = "bios" THEN "chain" ELSE "bios")
        /\ UNCHANGED timerHooked
     \/ timerHooked' = ~timerHooked /\ UNCHANGED hook
  /\ UNCHANGED <<mode, pic, keys, frames, waiting, callerIF, idle, ifFlag,
                 eof, seen, got>>

\* INT 28h, counted once standard input is exhausted and never reset.
IdleCall ==
  /\ InMain
  /\ eof /\ idle < IdleLimit
  /\ idle' = idle + 1
  /\ UNCHANGED <<mode, pic, keys, hook, timerHooked, frames, waiting,
                 callerIF, ifFlag, eof, seen, got>>

---------------------------------------------------------------------------
(* The guest's interrupt handlers, which keep IF clear until they have     *)
(* ended their line.                                                       *)

Serves(irq, stages) ==
  Executes /\ InHandler /\ Running.irq = irq /\ Running.stage \in stages

MoveTo(stage) == frames' = [frames EXCEPT ![Len(frames)].stage = stage]
SameFrameVars ==
  UNCHANGED <<mode, hook, timerHooked, waiting, callerIF, idle, eof, seen, got>>

\* The timer handler ends its line at port 20h, may open interrupts and
\* returns.  The same word ends the line of a keyboard driver.
HandlerEoi ==
  /\ \/ Serves(Timer, {"start"})
     \/ Serves(Keyboard, {"read"}) /\ hook = "driver"
  /\ pic' = [pic EXCEPT !.master = EndLowest(@)]
  /\ MoveTo("done")
  /\ UNCHANGED <<keys, ifFlag>> /\ SameFrameVars

TimerSti ==
  /\ Serves(Timer, {"done"})
  /\ Len(frames) < MaxDepth
  /\ ~ifFlag /\ ifFlag' = TRUE
  /\ UNCHANGED <<pic, keys, frames>> /\ SameFrameVars

\* The keyboard handler reads port 60h; a driver stores a make in the ring.
HandlerReadsPort ==
  /\ Serves(Keyboard, {"start"})
  /\ kbd' = ReadPortData(kbd)
  /\ ring' = IF hook = "driver" THEN ring \o KeysOf(<<ReadEventValue(kbd)>>)
             ELSE ring
  /\ MoveTo("read")
  /\ UNCHANGED <<pic, buffer, ifFlag>> /\ SameFrameVars

\* Mutant: the handler forgets its end of interrupt.
BiosKeyboardNoEoi(k, p) ==
  /\ kbd' = ReadBiosEvent(k, TRUE)
  /\ buffer' = buffer \o KeysOf(<<BiosEventValue(k, TRUE)>>)
  /\ pic' = p

\* _irq1_keyboard: one event to the buffer, end of interrupt.
BiosKeyboard(k, p) ==
  /\ kbd' = ReadBiosEvent(k, TRUE)
  /\ buffer' = buffer \o KeysOf(<<BiosEventValue(k, TRUE)>>)
  /\ pic' = SendEOI(p, Keyboard)

HandlerChains ==
  /\ Serves(Keyboard, {"start", "read"})
  /\ hook = "chain"
  /\ BiosKeyboard(kbd, pic)
  /\ MoveTo("done")
  /\ UNCHANGED <<ring, ifFlag>> /\ SameFrameVars

HandlerReturns ==
  /\ Serves(Running.irq, {"done"})
  /\ ifFlag' = Running.savedIF
  /\ frames' = SubSeq(frames, 1, Len(frames) - 1)
  /\ UNCHANGED <<pic, keys>> /\ SameFrameVars

Exec ==
  \/ ReadKey \/ ReadWaits \/ PollKey \/ HandlerPolls \/ SetIF \/ SetVector
  \/ IdleCall \/ HandlerEoi \/ TimerSti \/ HandlerReadsPort \/ HandlerChains
  \/ HandlerReturns

---------------------------------------------------------------------------
(* The loop.                                                               *)

Outside == <<mode, hook, timerHooked, waiting, callerIF, idle, eof, seen, got>>

\* io.tick, just before the dispatch.
Tick ==
  /\ turn = "pump"
  /\ pic' = RaiseIRQ(pic, Timer)
  /\ UNCHANGED <<turn, keys, frames, ifFlag, Outside>>

Enter(irq) ==
  /\ frames' = Append(frames, [irq |-> irq, stage |-> "start", savedIF |-> ifFlag])
  /\ ifFlag' = FALSE

DispatchTimer ==
  /\ turn = "pump" /\ turn' = "host"
  /\ ifFlag /\ Timer \in HighestIRQ(pic)
  /\ IF timerHooked
     THEN pic' = Claimed(pic, Timer) /\ Enter(Timer)
     ELSE pic' = SendEOI(Claimed(pic, Timer), Timer)
          /\ UNCHANGED <<frames, ifFlag>>
  /\ UNCHANGED <<keys, Outside>>

DispatchKeyboard ==
  /\ turn = "pump" /\ turn' = "host"
  /\ ifFlag /\ Keyboard \in HighestIRQ(pic)
  /\ IF hook # "bios"
     THEN /\ kbd' = BeginIRQ(kbd)
          /\ pic' = Claimed(pic, Keyboard) /\ Enter(Keyboard)
          /\ UNCHANGED buffer
     ELSE /\ BiosKeyboard(BeginIRQ(kbd), Claimed(pic, Keyboard))
          /\ UNCHANGED <<frames, ifFlag>>
  /\ UNCHANGED <<ring, Outside>>

NoDispatch ==
  /\ turn = "pump" /\ turn' = "host"
  /\ ~ifFlag \/ HighestIRQ(pic) = {}
  /\ UNCHANGED <<pic, keys, frames, ifFlag, Outside>>

\* The keys on their way, oldest first.
InHand ==
  IF /\ hook = "chain"
     /\ \E i \in DOMAIN frames : frames[i].irq = Keyboard /\ frames[i].stage = "read"
  THEN KeysOf(<<kbd.irqEvent>>) ELSE <<>>
OnTheWay == buffer \o ring \o InHand \o KeysOf(kbd.queue)

\* A terminal injects ready-made keys, a window the scan codes of its
\* keyboard and, if the user pastes, ready-made keys as well.
HostTypes ==
  /\ turn = "host" /\ ~eof
  /\ Len(OnTheWay) < MaxKeys /\ Len(kbd.queue) < MaxKeys
  /\ \/ /\ ~mode.gtk \/ mode.paste
        /\ \E key \in HostKeys : kbd' = InjectKey(kbd, key)
     \/ /\ mode.gtk
        /\ \E code \in PlainCodes, break \in BOOLEAN :
             kbd' = InjectScanCode(kbd, code, break)
  /\ UNCHANGED <<turn, pic, buffer, ring, frames, ifFlag, Outside>>

HostEof ==
  /\ turn = "host" /\ ~mode.gtk /\ ~eof
  /\ eof' = TRUE
  /\ UNCHANGED <<mode, turn, pic, keys, guest, ifFlag, seen, got>>

\* _stdin_session_complete.
SessionComplete == ~HasOutputData(kbd) /\ (waiting \/ idle = IdleLimit)

HostDone ==
  /\ turn = "host"
  /\ turn' = IF eof /\ SessionComplete THEN "ended" ELSE "schedule"
  /\ UNCHANGED <<pic, keys, frames, ifFlag, Outside>>

FrameElapses ==
  /\ turn = "schedule" /\ kbd.gap
  /\ kbd' = [kbd EXCEPT !.gap = FALSE]
  /\ UNCHANGED <<turn, pic, buffer, ring, frames, ifFlag, Outside>>

\* _schedule_keyboard_irq: nothing while IRQ 1 is requested or in service.
Schedule ==
  /\ turn = "schedule" /\ turn' = "exec"
  /\ LET k == ServiceInput(kbd, FALSE)
     IN  IF IsIRQPending(pic, Keyboard) THEN UNCHANGED <<kbd, pic>>
         ELSE IF HasOutputData(k)
         THEN kbd' = [k EXCEPT !.irqPending = TRUE]
              /\ pic' = RaiseIRQ(pic, Keyboard)
         ELSE kbd' = k /\ UNCHANGED pic
  /\ UNCHANGED <<buffer, ring, frames, ifFlag, Outside>>

\* The run loop has been left.
Ended == turn = "ended" /\ UNCHANGED vars

Dispatch == DispatchTimer \/ DispatchKeyboard \/ NoDispatch
Host == HostTypes \/ HostEof \/ HostDone

Next == Exec \/ Tick \/ Dispatch \/ Host \/ FrameElapses \/ Schedule \/ Ended

Spec == Init /\ [][Next]_vars

\* The loop goes on, a handler comes to its end, serial frames end, and the
\* timer leaves the keyboard turns.
Fairness ==
  /\ WF_vars(Exec) /\ WF_vars(Dispatch) /\ WF_vars(HostDone)
  /\ WF_vars(Schedule)
  /\ SF_vars(HandlerReturns) /\ SF_vars(FrameElapses)
  /\ SF_vars(DispatchKeyboard)

FairSpec == Spec /\ Fairness

---------------------------------------------------------------------------
(* Properties.                                                             *)

KeyNames == PlainCodes \cup HostKeys
\* The keys typed reach the program's reads once each and in order, and a
\* look (AH=01h) shows the key the next read returns, through every hand-over
\* between the controller, a chaining handler, the buffer and the ring, with
\* spurious interrupts and drained controllers in between.
Promise == INSTANCE TypeAhead WITH
  Keys <- KeyNames, pending <- OnTheWay
KeysInOrder == Promise!Spec

\* IRQ 1 and the bytes agree: while a keyboard handler of the guest runs, or
\* an interrupt is requested, nothing raises a second one, and a handler that
\* has not read its byte can still be given it.
OneKeyboardHandler ==
  /\ \A i, j \in DOMAIN frames :
       frames[i].irq = Keyboard /\ frames[j].irq = Keyboard
         /\ frames[i].stage # "done" /\ frames[j].stage # "done" => i = j
  /\ Keyboard \in pic.master.ims <=>
       \E i \in DOMAIN frames :
         frames[i].irq = Keyboard /\ frames[i].stage # "done"

\* A program that waits for a key (AH=00h, repeated by the loop) gets one once
\* one has been typed, also if it called with IF clear or owns INT 09h, as
\* long as the timer's interrupts leave it turns at all.
MainRuns == turn = "exec" /\ ~InHandler
WaitEnds == []<>MainRuns => ((waiting /\ OnTheWay # <<>>) ~> ~waiting)

=============================================================================
