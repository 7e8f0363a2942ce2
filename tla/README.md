# Verification of x86-bios-emu

TLA+ models of the emulator's core - interrupts, keyboard, disks, and the parts
of the processor that carry state from one instruction to another -, their
model-checking runs and their machine-checked proofs. The reference is the Python source; a definition
names the code it stands for in `PROJECT.json` under `map`.

## 1. The system

One process emulates an AT-class PC. A single loop, `Emulator.run`
(`main.py:1812`), does in every turn:

1. execute one guest instruction (or, with the native backend, a batch);
2. advance the timer (`io.tick`), which raises IRQ 0;
3. deliver at most one interrupt (`_check_and_dispatch_irq`);
4. read the host: a GTK window, a terminal, or piped standard input;
5. expose a keyboard byte and raise IRQ 1 (`_schedule_keyboard_irq`);
6. look for reasons to stop.

What is concurrent is therefore not threads (except in the headless harness)
but actors that share the machine's state at instruction granularity: the guest
program, its interrupt handlers, the BIOS services (Python functions that run
in one step), the devices, the user, and the loop.

### Inventory

| part | state | operations | hard behaviour | what makes it correct |
|---|---|---|---|---|
| PIC (`hardware.py` 822) | masks, request and in-service bits, initialisation state of two chips | port writes, `raise_irq`, `get_highest_irq`, `send_eoi`, `initialize` | requests during service, reprogramming at any time, two kinds of end of interrupt | requests are not lost or delivered twice, service implies request, initialisation words are not masks |
| interrupt delivery (`main.py` 1056-1185, `cpu.py`) | IF, the STI/SS shadow, HLT, interrupt frames, vectors | dispatch, IRET, STI, CLI, HLT, hooking, chaining | nested handlers, built-in and guest handlers mixed, starvation | every line in service has an owner who ends it, IF is restored, HLT wakes, lines are served |
| i8042 (`hardware.py` 71) | seven parallel output lists, OBF, serial gap, modifiers, pending command, output port | ports 60h and 64h, injection of keys and scan codes, reads by IRQ 1 and by the BIOS | host, guest and handlers interleave on one data port | bytes keep their order and their modifier state, data bytes reach their command |
| keyboard path (`bios.py` 348, 1085; `main.py` 1092, 1548) | BIOS buffer, BDA ring, the retry record of a blocked INT 16h | INT 09h, INT 16h, the retry, draining | four places where a key waits, hooks that chain or replace | keys once and in order, a blocked reader wakes, one handler per byte |
| scripted sessions (`main.py` 568, 1897) | EOF flag, count of idle calls | end of session | judged while bytes are in their serial gap | no key is left behind |
| software interrupts (`main.py` 1131-1615, `bios.py` 92-154) | retry record, `int_no_return`, saved flags, the bridge from protected mode to DOS | `hooked_interrupt` for every INT, stubs, chains | nested calls while one is blocked, a service's flags against its caller's, stale latches | a wait gives its caller its flags back, a chained service its result |
| PIT (`hardware.py` 618) | counters, reload, latch, write phase | ports 40h-43h, `tick` | several periods in one call, half-written words | ticks are counted, counters stay in range |
| resets (`main.py` 508, 587-703) | everything | window reset, warm reset, cold reset | what is cleared differs between the three | no state of the old session acts in the new one |
| run loop | step counts, stuck timer | limits, stuck detection, exits | wall time against guest time | a live guest is not stopped, every exit persists |
| host folders (`main.py` 874-1027; `hostbridge.py` 138) | disks, dirty flags, snapshots of host directories | load, refresh, eject, persist | partial failure, host files that change meanwhile | guest writes are saved or reported, host changes are not overwritten |
| images (`main.py` 790-873, 1028-1054, 2021-2060) | sectors, dirty flags | load, persist | a write-back that fails half way | the guest's work is in the file or known not to be |
| INT 13h (`bios.py` 735-1070) | disk status, last error | read, write, verify, format, geometry | boundaries, wrapped buffers, write failure | a call does what it answers, and touches only the sectors and the memory it asks for |
| FAT12 (`fat12.py`; `hostbridge.py` 26) | table, root directory, data | build from a host folder, write, delete, read | full disk and full directory, nibble packing, empty files, replacing | chains stay disjoint, space is lost nowhere unseen, names map to contents |
| terminal decoder (`terminal_keyboard.py`), GTK keys (`gtdisplay.py` 296-495) | pending bytes; keys held, and no record of modifiers | feed, flush; press, release, modifiers, focus | split sequences and timeouts; auto-repeat; focus lost with keys and modifiers down | every sequence is decoded once; nothing stays down that nobody holds, but for modifiers at a loss of focus |
| harness and installer (`dosharness.py`, `install_dos622.py`) | worker thread, screen snapshots, stages | inject, wait, publish | a second thread on the lists of the i8042 | bytes stay whole |
| processor: instructions (`cpu.py` 670-1065, 2521-4487) | registers, flags | arithmetic, BCD, shifts, strings | flags that the next instruction uses; faults in the middle of a repeated instruction | programs of several instructions compute what they are for |
| processor: protected mode (`cpu.py` 1082-2045, 3386-3503, 4251) | descriptor caches and tables, rings, tasks | gates, returns, task switches, faults | each step of a transfer may fault; caches against tables | ring, code and stack agree; a return restores its call |
| video, CMOS, serial, tools | | | sequential | |

`PROJECT.json` lists the same parts with their modelling status, and under
`hazards` where each hard behaviour bites.

## 2. Modules

```
PIC8259 (operators)        InterruptLatch (abstract)
   |      \      \              ^ refines
   |       \      PIC ----------+        PICProofs (theorems)
   |        IRQDispatch                     IRQDispatchProofs
   |
   +---- KeyboardSystem ---- TypeAhead (abstract)
   |                  ^ refines             KeyboardSystemProofs
I8042 (operators)
   \---- KeyboardController

SoftwareInterrupts (loop, services, stubs, bridge, resets)
                                        SoftwareInterruptsProofs
KeySources (terminal decoder, window) - what arrives at I8042
                                        KeySourcesProofs

FATTable (operators) ---- FATVolume ----> refines FileMap (abstract)
                                        FATVolumeProofs
HostFolders (disks as maps, like FileMap)
                                        HostFoldersProofs
DiskService (INT 13h, sectors, images)
                                        DiskServiceProofs

Descriptors (operators) ---- ProtectedMode
Arithmetic (operators) ---- Calculation
```

* `PIC8259` - class `PIC` as operators on a pair of chips. A register is the
  set of the lines whose bit is set; `HighestIRQ` returns the set of the line
  the code would return (empty for -1) and `Claimed` what the same call does to
  the registers. `CascadeIRQ` is 2 and `Width` 8 in the code; both are
  parameters.
* `PIC` - the state machine: any order of callers. `InterruptLatch` - what the
  direct lines of the master promise. `MCPIC` - the small instance.
* Each of the modules `...Proofs` has the theorems about the module it is named
  for, for all values of its parameters (section 4).
* `IRQDispatch` - the loop and the processor around the PIC. `turn` says
  whether the guest or the loop moves next, `frames` are the guest handlers in
  progress. The built-in handlers of INT 08h and 09h run within `Dispatch`,
  as in the code; a hooked INT 1Ch continues on the frame of the timer
  interrupt. `MCIRQDispatch` is the instance.
* `I8042` - class `KeyboardController` as operators. The seven parallel lists
  are one sequence of entries: between two calls they have one length. A byte
  is known by its source and key, not by its value.
* `KeyboardController` - the controller with a host, a guest that uses both
  ports, and readers. `MCKeyboardController` is the instance.
* `KeyboardSystem` - the composition: loop, `I8042`, `PIC8259`, BIOS and a
  guest that may hook INT 08h and 09h. `turn` follows the order of the loop.
  `TypeAhead` is what it promises: a FIFO whose contents are spread over
  controller, handler, BIOS buffer and ring (`OnTheWay`).
  `MCKeyboardSystem` is the instance.
* `FATTable` - the allocation table of class `FAT12`: entries, chains,
  first-fit, release, and the packing of entries into bytes. `ChainSet` is the
  chain as a set (the smallest set with the first cluster that is closed under
  links), `Visited` the walk of `follow_chain` number by number, through the
  entries 0 and 1 if it comes there.
* `FATVolume` - a volume from its building (`BuildEntry`, `BuildDone`:
  `build_host_directory_disk`) through `write_file` (split by how it ends:
  `WriteFull`, `WriteRootless`, `WriteFile`) and `delete_file`. `fat` is the
  table as entries and `table` the same as the bytes the code keeps; `TableHolds`
  ties them, and `asked` and `result` remember the last call with its arguments
  and its answer. `FileMap` is what it promises: one action for each answer a
  call may get (`Put`, `DiskFull`, `RootFull`, `Remove`, `Absent`), which does to
  the name, and with the content, that the call was given what that answer
  says, and nothing else. `Stored` is the refinement mapping of the files and
  the number of free clusters that of `room`: a host entry still to be copied
  counts as stored, so that building changes no file (`Fill`), unless the host
  folder does not fit the root directory (`Overrun`, which promises nothing).
  An empty file is stored as the empty content although the code may not come
  to an end reading it (section 6).
* `HostFolders` - folders of the host mounted as drives: building and
  snapshotting a disk are two steps (`Load` or `Refresh`, then `TakeSnapshot`),
  the write-back of all mounts is one (`Persist`), with a choice of the mounts
  on which it fails and of how far it came there. A disk is a map from names to
  contents, as `FileMap` has it. A content is a pair of counts, the user's
  edits and the guest's writes it contains, so that "is made from" is a
  comparison of numbers; `dos` marks DOS line ends.

* `SoftwareInterrupts` - one machine record with the current code, the stack of
  frames, the retry record, the bridge and the vectors. Code is an owner and a
  name; `next` says whether it is free or about to execute the INT of a vector
  or the IRET of a stub. `HookedInterrupt` is `hooked_interrupt`,
  `HandleInterrupt` `BIOS.handle_interrupt`, `FinishReturn` and `MergeOuterFrame`
  the two ways in which a service's flags reach a frame, `Retire` the
  single-step trap at the end of `CPU.execute`, `CheckIrq` the delivery of the
  timer and the keyboard, `OpenBridge`, `BridgeReturn` and `BridgeExhausted` a
  DOS call of a protected-mode client, and `WarmReset`, `ColdReset`,
  `TripleFault` and `WindowReset` the resets. `ghost` remembers the
  flags of reads in progress and the results stubs owe.
  `MCSoftwareInterrupts` has three guests: DOS with a program, a debugger and a
  console filter.
* `KeySources` - where keys come from. A terminal's bytes go through `wire` to
  `Feed` and `Flush`, whose body is `Round` (one event) repeated by `Decode`;
  `decoder.age` says whether the timeout of an Escape may have passed, which is
  all the loop asks the clock. A window's events become make and break codes;
  `window.held` remembers the code each key was pressed as. Modifiers send
  their make and break and enter no record (`PressModifier`,
  `ReleaseModifier`), so that `FocusOut` leaves them down; `user.stranded` is
  history, the modifiers that were down then. `MCKeySources` has sequences with
  a common prefix, a key whose code Shift changes, and one that is a shortcut of the
  window with Ctrl and Shift.
* `Descriptors` - selectors, tables, the descriptor cache and its synthetic
  entries, `_load_sreg`, `_translate_selector`, the pushes and pops that check
  the stack; operators on one machine record that mark a fault in it. `Then`
  stops at the first fault, as an exception does in Python.
* `ProtectedMode` - the state machine: a guest program (a set of the operands
  it uses) executes any sequence of far transfers, interrupts, loads, returns
  and mode switches; faults are delivered through the IDT and return to the
  instruction that faulted. `calls` and `callers` are history: the contexts the
  frames on each task's stacks return to, and the tasks suspended by a call.
  `torn` is history too: a transfer has faulted after it moved CS, the ring,
  SS or SP, which the code does not take back. The guest's program goes no further
  then, since no frame says where it was: the properties of the run `cpu` reach
  as far as that fault, and `RingsAgree` also says what it leaves behind.
  `MCProtectedMode` has two rings, three tasks and thirteen programs.
* `Arithmetic` - the flags and results of the arithmetic instructions, on
  integers of a given width. `Calculation` - a processor that executes a short
  program chosen at the start; its properties compare the end of the program
  with what it is meant to compute. `MCCalculation` has the programs.
* `DiskService` - INT 13h over three drives. A sector is two cells, so that a
  buffer may begin in the middle of a segment and wrap; `Lba` and `InRange` are
  `_chs_to_lba`, `Stored` and `Done` `Disk.write_sector` over the sectors of a
  call, `Fetched` and `Slice` the copies to and from memory: sectors are fetched
  one after the other, so that of the halves that come to one cell the last
  stays. `Stop` writes the
  images back, as far as the host lets each, and `Restart` loads them.
  `Place` counts the names (cylinder, head, sector) in their order and is what
  the properties compare `Lba` with.

Operators whose comment starts with "Mutant" are plausible slips in the code,
one per property; putting one in the place of the operator it follows makes
the property fail (`PROJECT.json`, `mutants`).

## 3. Runs

| run | result | what it shows |
|---|---|---|
| `pic` | holds | in-service lines are requested, initialisation words are never masks, the direct lines refine `InterruptLatch`, with both chips being reprogrammed at any point |
| `irq` | holds | with handlers that keep IF clear until they ended their line: every line in service is owned by one handler that will end it; the main program gets IF back; HLT wakes; the timer is served, and a line that waits for ever does so behind a timer that is delivered for ever |
| `kbd_ports` | holds | a guest's data bytes reach the register their command names; queued bytes carry their modifier state |
| `keys` | holds | keys arrive once and in order, looks show the next key, one keyboard handler at a time, a blocked reader wakes |
| `folders` | holds | whatever fails, a clean mount has nothing unsaved and unreported; a write-back undoes no edit the guest has not seen |
| `folders_conflict` | violated | a second write-back of the same file takes the first one for a change by the user and drops the guest's work |
| `calls` | holds | the record of a blocked read means that a program is on that INT; a read that waited returns the interrupt and trap flags it was called with; a service reached by a chain answers its caller |
| `sources` | holds | keys are decoded as typed unless torn by a pause, no byte is swallowed or doubled, everything typed is heard in the end; no key of the window stays down, and of the modifiers only one that was held when the focus was lost |
| `cpu` | holds | after every transfer, fault and return ring, CS and SS agree, but for SS after a transfer that faulted half way, with which a program ends; DS and ES hold no inner data; exactly the nested tasks are busy; a return restores the context of its call, also for an instruction that is restarted |
| `arith` | holds | sums of several limbs, packed and unpacked decimal included, rotations and their inverses, all sixteen conditions (of two limbs in the byte and word forms except one borrow, section 6), divisions and their faults, and string instructions restarted after a fault are exact |
| `disk` | holds | transfers move the sectors they ask for, in the padding behind the last name too, and no other, failures included; at the end of a session that persists the images hold the guest's work unless the host refused |
| `fat` | holds | chains never share a cluster, names are unique, the packed table reads back, clusters are lost only by a write that finds the directory full, by replacing a folder or by an overfull host folder, and the volume refines `FileMap`: a call does to its own name, with its own content, what it answers |

### Bounds

* PIC: three lines per chip, with the cascade in the middle, give a line above
  and one below it. All lines are otherwise treated alike. Two ICW1 words:
  the shortest and the longest sequence.
* `irq`: timer and keyboard, three nested handlers (a timer handler with
  a tick frame, interrupted by the keyboard and again).
* `kbd_ports`: two queued bytes, so that the second waits for its serial frame,
  and two sessions: a guest that programs the controller while ready-made keys
  arrive, and a keyboard with a shift key, a two-sided key and a lock whose scan
  codes arrive while the guest reads. Order in longer queues is the business of
  `keys`.
* `keys`: two keys on their way and a queue of two bytes (the second has to
  wait for its serial frame), two nested handlers, one key of each kind. Three
  modes: a terminal, a window, and a window whose guest has a keyboard driver of
  its own. Into the last nobody pastes (`Orderly`): INT 16h looks
  into the BIOS's buffer first, where ready-made keys go, and then into the
  ring, where the driver puts its keys, so that pasted keys pass typed ones. Keys
  that cannot be told apart still show loss, duplication and, between the two
  kinds, order. `IdleLimit` is 4096 in the code and 1 here.
* `fat`: three clusters, so that chains of three, fragmented chains and a full
  disk occur; four names over two entries of one sector, so that the directory
  runs full, two more rows overwrite a cluster and one more is refused;
  contents of zero to three clusters, one of each length per name. `Media` is 3,
  a data cluster, as F0h (240) is one of a 1.44 MB disk. States in which the
  host folder did not fit are final, hence no check for deadlock.
* `folders`: B: and one letter, because only whether B: is clean matters for the
  others; one file in each, since files are compared one by one; one edit by the
  user and two writes by the guest, so that a write-back can come between
  them. The user does not edit between the build of a disk and its snapshot
  (`Patient`): with such an edit `UserEditsKept` fails, since the snapshot then
  has a version the disk has not.
* `calls`: three frames on a stack for which a guest's INT or a hardware
  interrupt adds one (a handler, its chain to a stub, an interrupt in between), two
  keys, one reset. Handlers return, and read no keyboard while a program waits
  in one (`NestedWaits = FALSE`); a bridged call is neither reset nor run out of
  steps inside a wait (`Interrupted = FALSE`). Section 6 says what happens
  otherwise.
* `sources`: three keys typed, reads of two bytes (64 in the code), sequences of
  three and four bytes with a common prefix, an Alt chord whose second byte also
  occurs inside the sequences. The keys a user holds are two, one of which means
  another code with Shift while the other is a shortcut with Ctrl and Shift, and
  two modifiers. A session may end at any point, hence no check for deadlock.
* `cpu`: two rings (0 and 3; the code compares rings only), three tasks, one of
  them with a local table, stacks of two items so that a push past the limit
  happens. What may be absent is a data segment, the stack of either ring, the
  outer ring's code, the inner code behind a gate, and a task's local table, so
  that faults come in the middle of `EnterRing`, `ReturnTo` and `LoadTask`. Each
  program has the operands of one topic; they are chosen at the start, so that
  the state space is the sum of the topics. A transfer that faults half way
  ends its program (`torn`). Far transfers carry the RPL of the ring (`AnyRPL =
  FALSE`, section 6); a machine after a triple fault stands still, hence no
  check for deadlock.
* `arith`: `W = 8`, the smallest width of the code, with the values around its
  boundaries; the doubleword forms differ in their flags and are executed as a
  form of their own, and so are the immediate forms, but for immediates of all
  ones (section 6). Comparisons of two limbs are by the signed and the unsigned
  jumps, with high limbs on both sides of the sign boundary. Eight cells stand
  for the 64 KiB of a segment, so that strings wrap; every cell is absent once.
  Programs end, hence no check for deadlock.
* `disk`: two calls per behaviour, so that what one reads another writes; drives
  of four, two and four named sectors, the first with a sector more in memory;
  calls of zero, two and four sectors; a segment of six cells with the buffer at
  offset five, so that two sectors wrap and four come back over their own
  buffer, as more than 128 do in the code. A write-back gets nowhere, one sector
  far, or to the end.
* Counters without a bound in the code (queues, nesting) are bounded by
  `MaxKeys`, `MaxQueue` and `MaxDepth` in the guards.

### Fairness

* The loop never blocks: weak fairness of its own steps (`Dispatch`,
  `PumpIdle`, `HaltedTurn`; in `KeyboardSystem` `Exec`, `Dispatch`, `HostDone`,
  `Schedule`).
* A guest handler comes to its end (strong fairness of `Finishes`,
  `HandlerReturns`): an assumption about guest programs, without which no
  interrupt controller can promise anything.
* `irq`: the main program opens interrupts again and again and executes
  something after STI. `TimerServed` and `OnlyTimerStarves` further exclude, as a
  premise, a guest that halts with interrupts off. The loop delivers one interrupt
  per turn, lowest line first, so a timer programmed to a very short period does
  starve the keyboard: `OnlyTimerStarves` does not exclude such a timer, it says
  that a line which waits for ever waits behind a timer that is delivered again and
  again, not behind one that is masked, or in service, or a handler that lost IF.
* `sources`: bytes the terminal has sent arrive, the loop turns, and the host's
  clock goes on (weak fairness of `Arrive`, `Poll`, `Pause`); nobody has to type.
* `keys`: the serial gap ends, and the keyboard is delivered if it can be again
  and again. The user is never fair.

## 4. Proofs

`PICProofs` proves for all values of the constants that satisfy `PICAssumption`
and `PICEnvAssumption`:

* `TypeCorrect` - `Spec => []TypeOK`, by one lemma per group of operators.
* `ServiceIsRequested` - `Spec => []ServiceRequested`. The invariant is
  inductive given `TypeOK`. The proof works chip by chip: `ChipUpdate` reduces a
  step to what it does to one chip, and `Covered` is preserved by every write.
  The cascade line is the exception in the statement because claiming a slave
  line puts the cascade in service without looking at its request.
* `SequencesKeptApart` - `Spec => []InitWordsAreNotMasks`.
* `LatchImplemented` - every step of `PIC` is a step or a stutter of
  `InterruptLatch` on the direct lines: `LatchRaise`, `LatchClaim` and
  `LatchEnd` give the steps, an ICW1 is a reset, POST a reset that keeps the
  mask. It needs `ServiceRequested`: a retired line must lose both bits.

`IRQDispatchProofs` proves, for any number of lines, any masks and any bound on
nesting, under `Disciplined` (handlers keep IF clear until they have ended their
line, which is how interrupt handlers are normally written, and only lines 0 and 1 are raised,
as in the program):

* `TypeCorrect`, `ServiceIsOwned` (`ServiceOwned`) and `ReturnsWithInterrupts`
  (`ReturnsEnabled`). None of them is inductive. The invariant `IInv` describes
  the stack of handlers: only the innermost handler can owe its end of
  interrupt, and then interrupts are off and its line is the only one in
  service; otherwise nothing is in service; with interrupts on there is room for
  one more handler; the outermost handler was entered with interrupts on; and
  only lines of devices are requested. `ShapeEnter`, `ShapeCall`, `ShapePay` and
  `ShapeReturn` say what entering, chaining into INT 1Ch, ending the line and
  IRET do to that shape, one lemma per action (`EoiSound`, `ChainSound`, ...)
  applies them. Without `Disciplined` the properties are false: a
  handler that opens interrupts before its end of interrupt (`EarlySti`) may be
  preempted by a line of lower priority, because `get_highest_irq` looks only at
  the in-service bit of the line it is about to return.

`KeyboardSystemProofs` proves about the composition, for any modes, chips, kinds
of keys, depth of nesting and length of queue,

* `OneHandler` - `FairSpec => []OneKeyboardHandler`. The inductive invariant
  `Handlers` describes the stack (`Nested`: only a timer handler that has ended
  its line can be interrupted, and the others run with IF off) and ties it to
  the PIC (`InService`: a line is in service exactly while the innermost handler
  is its own and has not ended it).
* `KeysArriveInOrder` - `FairSpec => KeysInOrder`, the refinement of `TypeAhead`,
  under `Orderly`. The refinement mapping concatenates the four places a key can
  be in; `HandOnTop` shows that only the innermost handler can have one in
  hand, `Paths` that the ring is used by the driver alone and that a handler that
  chains leaves the byte it read to the BIOS. The lemmas about `KeysOf` say what
  filtering a queue of bytes for keys does when a byte is appended, taken or
  drained.

`KeySourcesProofs` proves, for any keys, codes, sequences and bounds,

* `KeysComeUp` - `Spec => []NoKeyStuck`. The inductive invariant `Agree` adds
  what the window knows: it holds only keys the user holds, none without the
  focus, each under a code of that key, repeats only held keys, and the guest
  sees nothing down that is not in this record, but modifiers, held or stranded
  by a loss of focus. `HoldSound` and `ReleaseSound`
  say that a press and a release keep it; a release takes the code from the
  record, for the key may mean another one by then. Of the constants it uses only
  `FacesAssumption`: every key has a code without and with Shift, and
  `ModifiersAssumption`: no modifier has the code of a key.
* `BytesComeThrough` - `Spec => []NothingSwallowed`. The invariant `Streams` adds
  to it what the bytes are sequences of. `RoundKeeps` says that one round of the
  decoder's loop takes from the buffer exactly the bytes of the event it makes,
  `DecodeKeeps` that so does any number of rounds: the first round that did not
  would be a least counterexample. It uses `StreamsAssumption` (a sequence of the
  terminal is a sequence of bytes), `EscapesAssumption` and `SizesAssumption`.
* `KeysComeWhole` - `Spec => []KeysDecoded`, under `ChordsApart`: no key is an Alt
  chord with `[` or `O`, which sends what the sequences begin with, so that only
  time tells it from them. The invariant `Clear` adds to `Streams`, for sessions in
  which no key was torn (`Fitting`), that an Escape not yet heard is the last
  key typed, that an Escape whose age is taken is in front and waits for its key,
  and that an old one is alone, with nothing under way. `NextAhead` says that the
  bytes in the buffer are then those of the next key and what follows it;
  `TakesKey`, that what the decoder decides about is that key and all of it;
  `Waiting`, that what it does not decide about is a lone Escape or not yet
  the whole key, so that a pause that tears nothing finds a lone Escape;
  `RoundFits` and `DecodeFits` carry this through the rounds of the loop. Besides
  the assumptions above it uses `ApartAssumption`: no sequence of the table begins
  another, since each ends in its only letter or tilde after the introducer.

`SoftwareInterruptsProofs` proves, for any vectors, depth of stack, number of
keys and resets, under `~ NestedWaits` and `~ Interrupted` (section 6 says what
happens otherwise),

* `OneWait`, `RecordStandsForAWait` (`RecordMeansWaiting`) and `WaitsKeepFlags`
  (`WaitKeepsFlags`). The inductive invariant `Kept` says where the one wait is: a
  record belongs to the current code, which repeats its INT, or to a frame of
  the stack above which nothing that reads is active; a client in protected mode
  has an empty stack and no record; and the reads in progress are none or the
  one of the record. `RecordMeansWaiting` alone is not inductive, since an IRET
  could uncover a second reader. The lemmas follow one machine record through
  the parts of a step (`HandleInterrupt`, `FinishReturn`, `Retire`, `CheckIrq`,
  the bridge, the resets).

and, without those hypotheses,

* `AnswersReachCallers` - `Spec => ChainedResult`. The invariant `Honest` says of
  every result a stub owes (`Due`) that it is in the frame the stub's IRET will
  pop: the top of the stack while the stub runs, the frame under the innermost
  suspended one of that stub otherwise (`Answered`). Pushing a frame, popping
  one and changing the flags of the innermost keep it (`AnsweredPush`,
  `AnsweredPop`, `AnsweredHead`). `Installed` adds that the stub of INT 29h, which
  passes the call on to a guest and answers nothing, runs only once its vector is
  taken.

`FATVolumeProofs` proves, for any number of clusters, contents, host folder and
size of the root directory,

* `VolumeWellFormed`, `ChainsApart` (`SingleOwner`) and `NamesStayUnique`
  (`NamesUnique`). The inductive invariant `Volume` adds to them that every chain
  follows the table to an end mark (so that releasing it meets no free cluster),
  that folders have a cluster, that rows are used from the front, and during the
  building that every row is that of a copied entry. `Sound(fat, owners)` states it
  for any set of owners of first clusters, and `Linked`, `Freed` and what
  an operation does to the owners keep it.
* `TableAlwaysHolds` - `Spec => []TableHolds`. `PackedWrite` says that writing an
  entry changes no other, although it shares a byte with a neighbour; `Held` is
  kept by a fold of such writes over any finite set of entries.
* `MapImplemented` - `Spec => ImplementsFileMap`: each step of the volume is the
  step of `FileMap` for that very call, with its name, content and answer, and the
  space it takes or gives back. It needs `Whole`: `Volume`, and
  that a row's size fits what can be read, and that nothing of the host waits once
  the volume is ready. A walk along a chain is the least set with its first
  cluster closed under links (`ReachedInUse`), reading back a chain just
  filled gives the content (`FilledRead`), and a row whose clusters are left
  alone reads as before (`ReadSame`); `WriteStored`, `DeleteStored` and
  `CopiedStored` are the three operations, `NextMapped` the step.
* `NothingElseLost` - `Spec => ClustersKept`, from the same invariant: `NextLoses`
  shows for each operation that what a row led to is led to afterwards or free.

`HostFoldersProofs` proves, for any mounts, names, edits, writes and failures,

* `MountsWellFormed` and `CleanIsSaved` (`CleanMeansSaved`). The invariant `Mounted`
  adds types, that no version has more edits than the user made (`EditsCounted`),
  and `Saved`, which says the same of a disk that is built but has no snapshot yet.
* `EditsSurvive` - `Spec => UserEditsKept`, under `Patient`, from `Mounted` and
  `Compared`: a disk contains the edits of its snapshot.

`DiskServiceProofs` proves, for any drives, geometries, padding, buffers and calls,

* `FilesFollow` and `WorkReachesFiles` (`WorkSaved`). `WorkSaved` is inductive but
  for types: the invariant `Kept` adds those, with the files as long as a drive
  has names and the disks as long as `Size`, and that the harness never ends a
  session. `OneDisk` is what a call may do to a disk of a session: leave it as it
  is, or leave it dirty; `StopKeeps` follows each image as far as the host let it
  be written.
* `CallsDoWhatTheyAnswer` - `Spec => TransfersExact`. What a call names is
  counted by `Place`, a number of names, and what the code touches is computed
  by `Lba`, so the two must be shown to agree for every geometry: cylinder, head
  and sector are the digits of the block (`Digits`, `Divided`), in the order of
  the names (`NamesInOrder`), none left out (`NamesReach`), hence as many names
  come before a name as blocks before its block (`Counted`, `PlaceIsBlock`).
  `FetchedShape` and `StoredShape` are what a transfer makes of buffer and disk,
  `FetchedExact` that of the halves that come to one cell of the wrapped buffer
  the last stays (`GreatestNumber`: there is a last), `FormatShape` that a table
  is blanked up to its first entry out of range (`FirstNumbers`). It uses
  `GeometryAssumption`, `PaddingAssumption` and `SegmentAssumption`, of which
  the last only says that there is a segment: a call may be for more sectors
  than fit it, as it may in the code (more than 128). Sectors behind the last
  name, in the padding, belong to a call that runs on into them; that the code
  lets it is in section 6.

### Assumptions

The constants of the passing runs satisfy the assumptions the modules name
(`PICAssumption`, `PICEnvAssumption`, `WiringAssumption`, `FacesAssumption`,
`VolumeAssumption`, `FoldersAssumption`, ...), which TLC evaluates, and the
hypotheses of the theorems: `Disciplined` in `irq`, `Orderly` in `keys`,
`~ NestedWaits` and `~ Interrupted` in `calls`, `Patient` in `folders`,
`ChordsApart` in `sources`. The
inductive invariants were checked by TLC on the instances of the runs before they
were proved.

### Only model-checked

* Liveness, which the prover does not reach: `HaltWakes`, `TimerServed`,
  `OnlyTimerStarves`, `WaitEnds`, `AllHeard`.
* What a recursive function or a fold computes can be proved where the fact has a
  least counterexample (`LeastNumber` in four of the modules); that is how chains,
  packed tables, filtered queues and the rounds of the decoder are treated above.
  What has none stays with the runs.
* `SnapshotsCurrent`, `DataReachesItsTarget`; the properties of `ProtectedMode` and
  `Calculation`. Those of `Calculation` are about the programs of the instance.

## 5. Not modelled, and why

* Values: translation tables, scan codes and ASCII, port words beyond the bits
  that steer control.
* The native backend executes batches of up to 4096 instructions between two
  polls: interrupts are then delivered at fewer points; the models interleave
  at every instruction, as the reference processor does. `KeyboardSystem` and
  `SoftwareInterrupts` leave out the one-instruction shadow of STI and SS loads,
  which `IRQDispatch` has.
* The timer's counters, latches and modes: the models take an IRQ 0 at any time.
  Wall-clock limits and stuck detection: only what the loop reads of the machine
  to decide.
* The slave's interrupts are raised by no device of the emulator; `PIC` has
  them, the compositions do not.
* `FATVolume` has clusters of one sector and folders with one file; the geometry
  of the boot sector, DOS 1.x tables, time stamps and attributes are left out,
  and so is the guest, which changes the same sectors by INT 13h while no
  `FAT12` object is in use.
* `HostFolders` does not interleave the user with the files of one write-back,
  and has no folders in folders.
* `SoftwareInterrupts`: services that neither wait nor chain nor answer in a
  flag are one (`disk`); DOS calls the emulator answers for a bridged client
  (AH = 25h, 35h, 4Ah) and the saved vector of a nested DOS are part of `dos`;
  a protected-mode client runs with IF off and without a gate of its own for
  INT 21h, which is `ProtectedMode`'s matter.
* `ProtectedMode`: operand and address widths, the accessed bit, limits other
  than the stack's, and instructions that only read descriptors (VERR, LAR, LSL,
  ARPL). Stacks of inner rings begin empty at every entry. Interrupt gates of
  hardware lines are usable, and a return instruction is used on the frame it
  belongs to: other guests are possible, but nothing is promised to them.
* `Calculation`: moves, stack and port instructions, XLAT, ENTER, PUSHA.
* `KeySources`: an Alt chord whose second byte is `[` or `O` (such bytes begin a
  sequence), and physical keys that share a make code.
* `DiskService`: drive B: from an image file, which is loaded like A: and never
  written back; the recognition of formats by size and media byte; answers of
  INT 13h that come from constants.
* The harness's worker thread, which appends to the seven lists of the i8042
  while the loop's thread pops them; video, CMOS, serial port, tools and image
  builders.
* A port 20h read (in service or requested) and the status byte of port 64h
  change nothing.

## 6. Where the code and its texts part, or where it surprises

`folders_conflict` shows the first; the others were met while modelling and are
kept out of the runs by a constant, or named as an exception by a property.

* Host folders: a file that was written back and changed again is taken for a
  conflict (`folders_conflict`). A clean drive B: returns early and leaves the
  letters from D: on unwritten (main.py:976, against the docstring at 1008).
  An edit between the build of a disk and its snapshot is overwritten without a
  conflict (`Patient = FALSE` makes `UserEditsKept` fail). Text files are written
  back with DOS line ends (`ForGuest`, `Updates`; README.md:375).
* FAT12: an empty file has cluster 0, whose entry is the media descriptor;
  `read_file` may walk 0, 240, 0, ... for ever (fat12.py:443, 477). A host
  folder with more entries than the root directory, in whole sectors, is built
  over the first data clusters (hostbridge.py:126, `Overwritten`).
* Keyboard controller: a byte read by IRQ 1 between a command and its data byte
  cancels the command (hardware.py:244; `Interruptible = TRUE` makes
  `DataReachesItsTarget` fail). D0h answers from a latch that A7h, A8h and port
  92h do not update.
* Scripted sessions: the end is judged while the next byte waits for its serial
  frame (main.py:578, against 574-575); the count of idle calls is never reset,
  and a cold reset clears an attribute of the processor instead.
* Waiting reads: a keyboard read by an interrupt's handler, or by a second
  program, while one waits overwrites the one record (`NestedWaits = TRUE` makes
  `WaitKeepsFlags` fail; the comment at main.py:1607-1610 expects nesting). A
  bridged call that is reset or runs out of steps in a wait leaves the record
  (`Interrupted = TRUE` makes `RecordMeansWaiting` fail). What the bridge saved is
  put back even if the machine was reset meanwhile.
* Stubs and traps: a handler of INT 29h that chains to its stub is called again
  by the stub (bios.py:117-119 against 126). A single-step trap is lost when
  an INT goes to a guest handler (cpu.py:2135-2139 against 2225).
* Protected mode: a fault that comes after an instruction has moved CS, the
  ring, SS or SP takes none of it back (cpu.py:2036-2037 restores IP, if CS is
  as it was). A gate or an interrupt to a ring whose stack is absent thus enters
  that ring on the outer stack (cpu.py:1685-1691, against PLAN.md:716-718, "TSS
  SSn:SPn stack switch"); a RETF or IRET to an absent segment has consumed part
  of its frame when the handler returns to it, a task switch has changed tasks;
  only POP of a segment register can be restarted (cpu.py:1082-1096).
  `RingsAgree` names this exception for the stack, and without it fails; the
  programs of the run `cpu` end there. A far JMP with an RPL other than the ring
  changes the ring (cpu.py:1909, PLAN.md:716; `AnyRPL`); an interrupt through a
  task gate clears the busy bit of the task it leaves (as PLAN.md:731 has it,
  unlike the processor), and a nested caller loses NT on the way back
  (PLAN.md:733, "Back-link + NT record nesting"); busy 386 tasks are not
  rejected; interrupt gates keep NT; the cache is shared by all loads of a
  selector; a system descriptor may be loaded into DS.
* Arithmetic: OF of 8 and 16 bit ADC and SBB is wrong when operand plus carry
  crosses the sign boundary (cpu.py:849-861, against the comment at 1002-1003),
  so that a signed jump goes wrong after the borrow from a high limb 7Fh or
  7FFFh: `JumpsDecide` names that borrow (`SignCrossed`) and without it fails;
  the immediate forms also lose the carry of an operand of all ones
  (cpu.py:981-984, 1050-1053), which `ChainsExact` therefore leaves out; CF of
  IMUL is wrong for negative products (cpu.py:4080).
* Window: a modifier that is held as the focus is lost, as Alt is by Alt+Tab,
  stays down for the guest until its next release in the window, because it has
  no record in `_held_physical_keys` (gtdisplay.py:429-431, 488-495, whose
  docstring speaks of typematic keys); `NoKeyStuck` names the exception.
* INT 13h: a transfer past the last cylinder of a small floppy goes into the
  padding of the disk in memory and succeeds (bios.py:785: "Returns None when
  the request is out of range"), as `TransfersExact` says of it, and is lost at
  the end; formatting a protected disk answers success and changes nothing
  (bios.py:951). Drive A: is dirty from its loading, so that discarded writes
  are always reported. An image in B: is never persisted, though README.md:382
  says "attached floppy/hard-disk images".

## 7. Plan

1. Proofs: `SnapshotsCurrent` of `KeyboardController`.
2. `PIT`: counters, write phases, latches, ticks against requests.
3. `KeyboardRace`: the harness's thread against the loop, statement by
   statement, over the parallel lists of the i8042.
4. The resets over devices: controller, A20, PIT; what one session leaves to the
   next.
