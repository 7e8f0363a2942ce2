------------------------- MODULE KeyboardController -------------------------
(***************************************************************************)
(* State machine of hardware.py, class KeyboardController: the host types, *)
(* the loop exposes bytes, the guest's main program talks to ports 60h and *)
(* 64h, and IRQ 1 (a guest handler or the BIOS) reads bytes in between.    *)
(* asked is history: the command whose data byte the guest owes.           *)
(***************************************************************************)
EXTENDS I8042

CONSTANTS
  Sessions,       \* what takes part: records [typed, ports], see Session
  Interruptible,  \* may a byte be read between a command and its data byte?
  MaxQueue        \* bound on the bytes queued

\* typed: the scan codes that arrive as a stream (inject_scan_code);
\* ports: does the guest's main program write to ports 60h and 64h?
Session == [typed : SUBSET ScanCodes, ports : BOOLEAN]

ASSUME KeyboardEnvAssumption ==
  /\ Sessions \subseteq Session
  /\ Interruptible \in BOOLEAN
  /\ MaxQueue \in Nat

VARIABLES
  session,  \* one of Sessions, fixed at start
  kbd,    \* the controller
  a20,    \* the processor's A20 gate, driven through on_a20
  reset,  \* the processor reset the last step requested through on_reset
  asked   \* "none", or the command whose data byte is due

vars == <<session, kbd, a20, reset, asked>>

Init ==
  /\ session \in Sessions
  /\ \E numLock \in SUBSET LockCodes : kbd = PowerOnKbd(numLock)
  /\ a20 = FALSE /\ reset = "none" /\ asked = "none"

Room == Len(kbd.queue) < MaxQueue

Wires == <<session, a20, asked>>
Quiet == reset' = "none" /\ UNCHANGED Wires

---------------------------------------------------------------------------
(* The host and the loop.                                                  *)

HostKey == \E key \in HostKeys :
  Room /\ kbd' = InjectKey(kbd, key) /\ Quiet

HostPrefix ==
  session.typed # {} /\ Room /\ kbd' = InjectPrefix(kbd) /\ Quiet

HostScanCode == \E code \in session.typed, break \in BOOLEAN :
  Room /\ kbd' = InjectScanCode(kbd, code, break) /\ Quiet

\* The serial frame of the next byte ends.
FrameElapses == kbd.gap /\ kbd' = [kbd EXCEPT !.gap = FALSE] /\ Quiet

Service == Exposes(kbd, FALSE) /\ kbd' = ServiceInput(kbd, FALSE) /\ Quiet

---------------------------------------------------------------------------
(* Reads.  A guest that owes a data byte is interrupted only if allowed.   *)

MayRead == asked = "none" \/ Interruptible

PortRead == MayRead /\ kbd' = ReadPortData(kbd) /\ Quiet

BiosRead == \E replay \in BOOLEAN :
  MayRead /\ kbd' = ReadBiosEvent(kbd, replay) /\ Quiet

DeliverIRQ1 == MayRead /\ kbd' = BeginIRQ(kbd) /\ Quiet

---------------------------------------------------------------------------
(* Command port 64h.                                                       *)

Free == session.ports /\ asked = "none"

CommandAnswer == Free /\ Room /\ kbd' = Reply(kbd) /\ Quiet

\* A8h and A7h gate A20 without going through the output port.
CommandA20 == \E on \in BOOLEAN :
  /\ Free
  /\ a20' = on
  /\ reset' = "none"
  /\ UNCHANGED <<session, kbd, asked>>

CommandAD == Free /\ kbd' = CommandDisable(kbd) /\ Quiet

\* FEh and FCh pulse the reset line.
CommandPulse ==
  /\ Free
  /\ reset' = "keyboard-pulse"
  /\ UNCHANGED <<session, kbd, a20, asked>>

CommandData == \E isD1 \in BOOLEAN :
  /\ Free
  /\ kbd' = CommandTakesData(kbd, isD1)
  /\ asked' = IF isD1 THEN "D1" ELSE "60"
  /\ reset' = "none"
  /\ UNCHANGED <<session, a20>>

---------------------------------------------------------------------------
(* Data port 60h.                                                          *)

\* Every byte can be read in two ways: as lock lights and as an output port.
DataByte == [locks : SUBSET LockCodes, port : OutputPort]

\* asked may be "none": a byte nobody expects.
WriteData(d) ==
  /\ session.ports
  /\ asked' = "none"
  /\ UNCHANGED session
  /\ \/ /\ DataForLeds(kbd)
        /\ kbd' = TakeLeds(kbd, d.locks)
        /\ reset' = "none"
        /\ UNCHANGED a20
     \/ /\ DataForPort(kbd)
        /\ kbd' = TakeOutputPort(kbd, d.port)
        /\ a20' = OpensA20(d.port)
        /\ reset' = IF Releases(d.port) THEN "none" ELSE "keyboard-output"
     \/ /\ kbd.cmdMode /\ ~DataForLeds(kbd) /\ ~DataForPort(kbd)
        /\ kbd' = DropData(kbd)
        /\ reset' = "none"
        /\ UNCHANGED a20
     \* No byte is expected (any more): it is taken for a keyboard command,
     \* and most of its values are none.
     \/ /\ ~kbd.cmdMode
        /\ reset' = "none"
        /\ UNCHANGED <<kbd, a20>>

\* EDh and F3h, and FFh, which answers at once.
KeyboardCommand ==
  /\ Free
  /\ reset' = "none" /\ UNCHANGED <<session, a20>>
  /\ \/ kbd' = KeyboardLeds(kbd) /\ asked' = "ED"
     \/ kbd' = KeyboardRate(kbd) /\ asked' = "F3"
     \/ Room /\ kbd' = Reply(kbd) /\ UNCHANGED asked

Next ==
  \/ HostKey \/ HostPrefix \/ HostScanCode \/ FrameElapses \/ Service
  \/ PortRead \/ BiosRead \/ DeliverIRQ1
  \/ CommandAnswer \/ CommandA20 \/ CommandAD \/ CommandPulse \/ CommandData
  \/ KeyboardCommand
  \/ \E d \in DataByte : WriteData(d)

Spec == Init /\ [][Next]_vars

---------------------------------------------------------------------------
(* Properties.                                                             *)

\* The bytes carry the modifier state of their arrival (_state_buffer): the
\* keys held after the newest byte are those the newest byte was queued
\* with, so a reader who works through the queue ends with the true state
\* and no modifier change lacks a byte that reports it.
SnapshotsCurrent ==
  kbd.queue # <<>> =>
    LET last == kbd.queue[Len(kbd.queue)].mods
    IN  /\ last.held = kbd.mods.held
        /\ last.pressed = kbd.mods.pressed
        /\ last.prefix = kbd.mods.prefix

\* hardware.py:160 "Next byte written to port 60h becomes the controller
\* command byte (0x60) or the output port latch (0xD1)": the data byte the
\* guest writes after a command reaches the register the command names, and
\* after 60h and F3h it reaches neither the output port nor the lock lights.
DataReachesItsTarget ==
  [][\A d \in DataByte : WriteData(d) =>
       /\ asked = "D1" => kbd'.port = d.port /\ a20' = OpensA20(d.port)
       /\ asked = "ED" => kbd'.mods.locks = d.locks
       /\ asked \in {"60", "F3"} =>
            UNCHANGED <<a20, kbd.port, kbd.mods>> /\ reset' = "none"]_vars
=============================================================================
