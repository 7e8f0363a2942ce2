------------------------------- MODULE I8042 -------------------------------
(***************************************************************************)
(* The keyboard controller of hardware.py, class KeyboardController, as    *)
(* operators on one value.  The seven parallel lists of the code           *)
(* (_out_buffer, _scan_buffer, ..., _state_buffer) are one sequence of     *)
(* entries here, as they are between two calls.  A byte is known by        *)
(* where it comes from and which key it stands for, never by its value:    *)
(* the translation tables are outside this module.                         *)
(***************************************************************************)
EXTENDS Integers, Sequences

CONSTANTS
  ShiftCodes,  \* scan codes of the two Shift keys (2Ah, 36h)
  SidedCodes,  \* Ctrl and Alt (1Dh, 38h): with an E0 prefix, the right key
  LockCodes,   \* Caps, Num and Scroll Lock (3Ah, 45h, 46h)
  PlainCodes,  \* every other scan code
  HostKeys     \* keys injected ready-made by the host (inject_key)

ModCodes == ShiftCodes \cup SidedCodes \cup LockCodes
ScanCodes == ModCodes \cup PlainCodes

ASSUME I8042Assumption ==
  /\ ShiftCodes \cap SidedCodes = {}
  /\ ShiftCodes \cap LockCodes = {}
  /\ SidedCodes \cap LockCodes = {}
  /\ PlainCodes \cap ModCodes = {}

---------------------------------------------------------------------------
(* Modifier state: keys held, lock states, locks held down, E0 prefix.     *)

Held == (ShiftCodes \X {FALSE}) \cup (SidedCodes \X BOOLEAN)

NoModifiers == [held |-> {}, locks |-> {}, pressed |-> {}, prefix |-> FALSE]

\* _handle_modifier_make.  A lock toggles on its first make only; an E0
\* prefix makes Shift and the locks other keys (fake shifts, Break).
ModifierMake(m, code, ext) ==
  IF code \in LockCodes
  THEN IF ext \/ code \in m.pressed THEN m
       ELSE [m EXCEPT !.pressed = @ \cup {code},
                      !.locks = (@ \ {code}) \cup ({code} \ @)]
  ELSE [m EXCEPT !.held = @ \cup ({<<code, ext>>} \cap Held)]

\* _handle_modifier_release, called for the break of any key.
ModifierBreak(m, code, ext) ==
  [m EXCEPT !.held = @ \ {<<code, ext>>},
            !.pressed = IF ext THEN @ ELSE @ \ {code}]

---------------------------------------------------------------------------
(* The output queue.                                                       *)

\* src: "host" and "make" are keys for the type-ahead buffer; "other" are
\* prefixes, modifiers and breaks; "reply" are the controller's answers.
\* mods is the modifier state when the byte was queued.
Bufferable(e) == e.src \in {"host", "make"}
Physical(e) == e.src \in {"make", "other"}

\* _queue_output: a byte that enters an empty queue is visible at once.
QueueOutput(k, src, key) ==
  [k EXCEPT !.queue = Append(@, [src |-> src, key |-> key, mods |-> k.mods]),
            !.ready = @ \/ k.queue = <<>>]

\* service_input: expose the next byte when its serial frame is over (gap is
\* "now < _next_output_time"), or at once if forced.
Exposes(k, force) == ~k.ready /\ k.queue # <<>> /\ (force \/ ~k.gap)

ServiceInput(k, force) ==
  IF Exposes(k, force) THEN [k EXCEPT !.ready = TRUE, !.irqPending = TRUE]
                       ELSE k

\* What _read_event returns when nothing is queued.
EmptyEvent(k) == [src |-> "none", key |-> "none", mods |-> k.mods]

ReadEventValue(k) == IF k.queue = <<>> THEN EmptyEvent(k) ELSE Head(k.queue)

\* _read_event: it exposes the head if nothing is exposed, leaves the
\* "expects a data byte" mode of the command port, and takes the head.  The
\* next byte has to wait for its serial frame.
ReadEvent(k) ==
  LET s == ServiceInput(k, TRUE)
      rest == IF s.queue = <<>> THEN <<>> ELSE Tail(s.queue)
  IN  [s EXCEPT !.cmdMode = FALSE, !.irqPending = FALSE,
                !.queue = rest, !.ready = FALSE,
                !.gap = @ \/ rest # <<>>]

\* The keys a program will read among some entries, in their order.
KeysOf(entries) ==
  LET upTo[i \in 0 .. Len(entries)] ==
        IF i = 0 THEN <<>>
        ELSE upTo[i - 1] \o IF Bufferable(entries[i]) THEN <<entries[i].key>> ELSE <<>>
  IN  upTo[Len(entries)]

\* The loop "while has_data(): read_bios_event()": every entry is read; all
\* reads but the last leave another entry behind.
ReadAll(k) ==
  [k EXCEPT !.queue = <<>>, !.ready = FALSE, !.irqPending = FALSE,
            !.cmdMode = @ /\ k.queue = <<>>,
            !.gap = @ \/ Len(k.queue) > 1]

HasData(k) == k.queue # <<>>
HasOutputData(k) == k.ready /\ k.queue # <<>>
HasPhysicalData(k) == \E i \in 1 .. Len(k.queue) : Physical(k.queue[i])

---------------------------------------------------------------------------
(* Reads by the guest's IRQ 1 handler and by the BIOS.                     *)

NoEvent == [src |-> "void", key |-> "none", mods |-> NoModifiers]

\* read_port_data: port 60h; the event is kept for a chained BIOS handler.
ReadPortData(k) == [ReadEvent(k) EXCEPT !.irqEvent = ReadEventValue(k)]

\* read_bios_event(replay_port): the kept event first, if there is one.
\* Mutant: a chained BIOS handler always asks the controller.
NeverReplays(k, replay) == FALSE
Replays(k, replay) == replay /\ k.irqEvent # NoEvent
BiosEventValue(k, replay) ==
  IF Replays(k, replay) THEN k.irqEvent ELSE ReadEventValue(k)
ReadBiosEvent(k, replay) ==
  IF Replays(k, replay) THEN [k EXCEPT !.irqEvent = NoEvent] ELSE ReadEvent(k)

\* begin_irq, at the delivery of every IRQ 1.
BeginIRQ(k) == [k EXCEPT !.irqEvent = NoEvent]

---------------------------------------------------------------------------
(* Keys from the host.                                                     *)

\* inject_key and inject_extended_key.
InjectKey(k, key) == [QueueOutput(k, "host", key) EXCEPT !.irqPending = TRUE]

\* inject_scan_code with _process_fifo, which decodes the one code it has:
\* modifiers change when the code arrives, before its byte is queued.
WithMods(k, m) == [k EXCEPT !.mods = m]

InjectPrefix(k) ==
  [QueueOutput(WithMods(k, [k.mods EXCEPT !.prefix = TRUE]), "other", "E0")
     EXCEPT !.irqPending = TRUE]

\* Mutant: the byte is queued before the modifiers are brought up to date.
InjectThenDecode(k, code, break) ==
  LET ext == k.mods.prefix
      m == [k.mods EXCEPT !.prefix = FALSE]
      after == IF break THEN ModifierBreak(m, code, ext)
               ELSE IF code \in ModCodes THEN ModifierMake(m, code, ext)
               ELSE m
      src == IF break \/ code \in ModCodes THEN "other" ELSE "make"
  IN  [WithMods(QueueOutput(k, src, code), after) EXCEPT !.irqPending = TRUE]

InjectScanCode(k, code, break) ==
  LET ext == k.mods.prefix
      m == [k.mods EXCEPT !.prefix = FALSE]
      after == IF break THEN ModifierBreak(m, code, ext)
               ELSE IF code \in ModCodes THEN ModifierMake(m, code, ext)
               ELSE m
      src == IF break \/ code \in ModCodes THEN "other" ELSE "make"
  IN  [QueueOutput(WithMods(k, after), src, code) EXCEPT !.irqPending = TRUE]

---------------------------------------------------------------------------
(* The command and data ports, as far as they concern the controller.      *)

\* _output_port, its two low bits: bit 1 gates A20, bit 0 releases the
\* processor from reset.
OutputPort == {"00", "01", "10", "11"}
OpensA20(port) == port \in {"10", "11"}
Releases(port) == port \in {"01", "11"}

\* Commands AAh, 20h and D0h, and FFh at the data port, queue an answer.
Reply(k) == QueueOutput(k, "reply", "answer")

\* Command ADh.
CommandDisable(k) == [k EXCEPT !.irqPending = FALSE]

\* Commands D1h and 60h: the next data byte is theirs.
CommandTakesData(k, isD1) ==
  [k EXCEPT !.cmdMode = TRUE, !.awaitPort = isD1]

\* Port 60h while a data byte is expected: the lock lights if EDh came
\* before, else the output port if D1h did, else nothing.
DataForLeds(k) == k.cmdMode /\ k.ledSelect
DataForPort(k) == k.cmdMode /\ ~k.ledSelect /\ k.awaitPort

\* Mutant: the lights' byte leaves _led_select set.
TakeLedsAgain(k, locks) ==
  [k EXCEPT !.cmdMode = FALSE, !.mods.locks = locks]

TakeLeds(k, locks) ==
  [k EXCEPT !.cmdMode = FALSE, !.ledSelect = FALSE, !.mods.locks = locks]

TakeOutputPort(k, port) ==
  [k EXCEPT !.cmdMode = FALSE, !.awaitPort = FALSE, !.port = port]

DropData(k) == [k EXCEPT !.cmdMode = FALSE]

\* Port 60h otherwise: EDh and F3h expect one byte more.
KeyboardLeds(k) == [k EXCEPT !.ledSelect = TRUE, !.cmdMode = TRUE]
KeyboardRate(k) == [k EXCEPT !.cmdMode = TRUE]

---------------------------------------------------------------------------
\* The constructor, with Num Lock on.
PowerOnKbd(numLock) ==
  [queue |-> <<>>, ready |-> FALSE, gap |-> FALSE, irqEvent |-> NoEvent,
   irqPending |-> FALSE, cmdMode |-> FALSE, awaitPort |-> FALSE,
   ledSelect |-> FALSE, port |-> "01",
   mods |-> [NoModifiers EXCEPT !.locks = numLock]]
=============================================================================
