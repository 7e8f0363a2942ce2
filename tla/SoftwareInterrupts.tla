------------------------- MODULE SoftwareInterrupts -------------------------
(***************************************************************************)
(* Interrupts of a guest as the emulator's loop serves them: INT n routed  *)
(* to a Python service, to a guest's handler or, from protected mode, to   *)
(* DOS over a bridge; a keyboard read that waits by being repeated; the    *)
(* ROM stubs a handler chains to; hardware interrupts in between; the      *)
(* single-step trap; and the resets.                                       *)
(*                                                                         *)
(* Code is a pair of an owner and a vector or a name; what it does next is *)
(* free ("any"), the INT of a vector (a stub, or an INT that is repeated)  *)
(* or the IRET of a stub. A return frame is what INT pushes.               *)
(***************************************************************************)
EXTENDS Naturals, Sequences, FiniteSets

CONSTANTS Installs,       \* sets of vectors a guest takes over at once
          MaxDepth,       \* frames on a stack for which a guest or an IRQ adds one
          MaxKeys,        \* keys between the keyboard and the guest
          MaxResets,      \* reset requests
          NestedWaits,    \* handlers of interrupts read the keyboard too
          Interrupted     \* a bridged call may be reset, or run out of steps in a wait

Vectors == {"read", "disk", "dos", "putc", "key", "tick", "trap"}

ASSUME InstallsAssumption ==
  Installs \subseteq SUBSET {"dos", "putc", "key", "tick", "trap"}
ASSUME BoundsAssumption == MaxDepth \in Nat /\ MaxKeys \in Nat /\ MaxResets \in Nat

VARIABLES cpu,      \* mode, code, flags and the no-return latch
          stack,    \* frames on the current stack
          retry,    \* the keyboard read that is being repeated
          bridge,   \* what a bridged call from protected mode will restore
          hooked,   \* vectors that point at a guest's handler
          keys,     \* keys in the controller, in service, in the BIOS's buffer
          resets,   \* reset requests so far
          ghost     \* history: reads not finished, results owed by stubs

vars == <<cpu, stack, retry, bridge, hooked, keys, resets, ghost>>
machine == [cpu |-> cpu, stack |-> stack, retry |-> retry, bridge |-> bridge,
            hooked |-> hooked, keys |-> keys, ghost |-> ghost]

Program == <<"program", "main">>
Client == <<"program", "client">>
Handler(n) == <<"handler", n>>
Stub(n) == <<"stub", n>>
NoWait == [n |-> "none"]
NoBridge == [open |-> FALSE]
Owner(m) == m.cpu.code[1]

-----------------------------------------------------------------------------
(* The frame of an interrupt, and the return from a Python service.        *)

Frame(m) == [code |-> m.cpu.code, next |-> m.cpu.next, flags |-> m.cpu.flags]

(* The service's result flags, the interrupted code's control flags.       *)
Merge(saved, live) == [saved EXCEPT !.res = live.res]

Enter(m) ==
  [m EXCEPT !.stack = <<Frame(m)>> \o @,
            !.cpu.flags.iff = FALSE, !.cpu.flags.tf = FALSE, !.cpu.latch = FALSE]

FinishReturn(m, saved) ==
  [m EXCEPT !.stack = Tail(@),
            !.cpu.code = Head(m.stack).code, !.cpu.next = Head(m.stack).next,
            !.cpu.flags = Merge(saved, @)]

(* A stub's IRET will pop the frame of the call that chained to it.        *)
\* Mutant: the caller of the stub keeps the flags it pushed.
LeaveOuterFrame(m) == m
MergeOuterFrame(m) ==
  IF m.stack = <<>> THEN m
  ELSE [m EXCEPT !.stack[1].flags = Merge(@, m.cpu.flags)]

-----------------------------------------------------------------------------
(* Services.                                                               *)

Transfer(m, code) ==
  [m EXCEPT !.cpu.code = code, !.cpu.next = "any", !.cpu.latch = TRUE]

(* A read drains the controller itself, unless a guest owns the IRQ.       *)
Drains(m) == "key" \notin m.hooked /\ m.keys.line > 0
Blocks(m, n) == n = "read" /\ m.keys.buf = 0 /\ ~Drains(m)
TakeKey(m) ==
  LET k == IF Drains(m) THEN [m.keys EXCEPT !.buf = @ + m.keys.line, !.line = 0]
                        ELSE m.keys
  IN  [m EXCEPT !.keys = [k EXCEPT !.buf = @ - 1], !.cpu.flags.res = FALSE]

(* The BIOS's own IRQ 1 handler buffers the byte and ends the interrupt.   *)
Irq1Keyboard(m) ==
  LET k == m.keys IN
  [m EXCEPT !.keys = IF k.line = 0 THEN [k EXCEPT !.serving = FALSE]
                     ELSE [k EXCEPT !.line = @ - 1, !.buf = @ + 1, !.serving = FALSE]]

(* Only the vectors of debugging, of DOS and of console output go to a     *)
(* guest; the other services are the BIOS's, whatever their vector says.   *)
HandleInterrupt(m, n, r) ==
  CASE n \in {"trap", "dos", "putc"} /\ n \in m.hooked -> Transfer(m, Handler(n))
    [] n = "read" -> IF Blocks(m, n) THEN m ELSE TakeKey(m)
    [] n = "disk" -> [m EXCEPT !.cpu.flags.res = r]
    [] n = "key"  -> Irq1Keyboard(m)
    [] OTHER -> m

(* INT n. The wait of a read that finds no key is recorded, and the        *)
(* instruction is repeated with interrupts on; the flags of its first      *)
(* attempt come back when it ends.                                         *)
Waiting(m, n) == m.retry # NoWait /\ m.retry.n = n /\ m.retry.code = m.cpu.code
\* Mutant: the flags of the last attempt, which interrupts were opened for.
SavedNow(m, n) == m.cpu.flags
SavedFlags(m, n) == IF Waiting(m, n) THEN m.retry.flags ELSE m.cpu.flags

Wait(m, n, saved) ==
  [m EXCEPT !.retry = [n |-> n, code |-> m.cpu.code, flags |-> saved],
            !.cpu.next = n, !.cpu.flags.iff = TRUE]

ForgetWait(m, n) == IF Waiting(m, n) THEN [m EXCEPT !.retry = NoWait] ELSE m

AtStub(m, n) == m.cpu.code = Stub(n)

(* History: the flags a read began with, and the result a stub owes.       *)
Begun(m) ==
  [m EXCEPT !.ghost.reads =
     IF \E g \in @ : g.code = m.cpu.code THEN @
     ELSE @ \cup {[code |-> m.cpu.code, flags |-> m.cpu.flags]}]
Finished(m, n) ==
  [m EXCEPT
     !.ghost.reads = IF n = "read" THEN {g \in @ : g.code # m.cpu.code} ELSE @,
     !.ghost.owed = IF AtStub(m, n)
                    THEN {g \in @ : g.stub # n} \cup {[stub |-> n, res |-> m.cpu.flags.res]}
                    ELSE @]

HookedInterrupt(m, n, r) ==
  LET saved == SavedFlags(m, n)
      served == HandleInterrupt(Enter(m), n, r)
      done == FinishReturn(served, saved)
      chained == IF AtStub(m, n) THEN MergeOuterFrame(done) ELSE done
  IN  IF served.cpu.latch THEN served
      ELSE IF Blocks(m, n) THEN Wait(FinishReturn(served, saved), n, saved)
      ELSE Finished(ForgetWait(chained, n), n)

(* The trap of an instruction that began and ended with TF set, unless the *)
(* latch still says that an interrupt took the processor away.             *)
Retire(m, tf) ==
  IF tf /\ m.cpu.flags.tf /\ ~m.cpu.latch THEN HookedInterrupt(m, "trap", FALSE) ELSE m

-----------------------------------------------------------------------------
(* Instructions of a guest in real mode.                                   *)

Calls(code) ==
  CASE code = Program -> {"read", "disk", "dos", "putc"}
    [] code = Handler("dos") -> {"read", "disk", "putc"}
    [] code = Handler("putc") -> {}
    [] OTHER -> {"disk"} \cup (IF NestedWaits THEN {"read"} ELSE {})

Chains(code) ==
  CASE code = Program -> {"read"}
    [] code \in {Handler("key"), Handler("putc")} -> {code[2]}
    [] OTHER -> {}

Running(code) == ~cpu.pm /\ cpu.code = code /\ code # Client

Become(m) ==
  /\ cpu' = m.cpu /\ stack' = m.stack /\ retry' = m.retry /\ bridge' = m.bridge
  /\ hooked' = m.hooked /\ keys' = m.keys /\ ghost' = m.ghost

(* INT n, by choice, or because a stub or a wait repeats it.               *)
IntN(n) ==
  /\ Running(cpu.code)
  /\ \/ cpu.next = n
     \/ cpu.next = "any" /\ n \in Calls(cpu.code) /\ Len(stack) < MaxDepth
  /\ n = "dos" => "dos" \in hooked
  /\ \E r \in IF n = "disk" THEN BOOLEAN ELSE {FALSE} :
       LET m == [machine EXCEPT !.cpu.next = IF AtStub(machine, n) THEN "iret" ELSE "any"]
           first == IF Blocks(m, n) THEN Begun(m) ELSE m
       IN  Become(Retire(HookedInterrupt(first, n, r), cpu.flags.tf))
  /\ UNCHANGED resets

(* PUSHF; CALL FAR of a vector that was read before it was taken over.     *)
FarCall(n) ==
  /\ Running(cpu.code) /\ cpu.next = "any" /\ n \in Chains(cpu.code) /\ Len(stack) < MaxDepth
  /\ n = "key" => keys.serving
  /\ Become(Retire([machine EXCEPT !.stack = <<Frame(machine)>> \o @,
                                   !.cpu.code = Stub(n), !.cpu.next = n],
                   cpu.flags.tf))
  /\ UNCHANGED resets

(* IRET of a handler that has ended its interrupt, or of a stub.           *)
Iret ==
  /\ Running(cpu.code) /\ stack # <<>>
  /\ \/ cpu.next = "iret"
     \/ cpu.next = "any" /\ Owner(machine) = "handler"
  /\ cpu.code = Handler("key") => ~keys.serving
  /\ LET f == Head(stack) IN
     Become(Retire([machine EXCEPT
                      !.stack = Tail(@), !.cpu.code = f.code, !.cpu.next = f.next,
                      !.cpu.flags = f.flags,
                      !.ghost.owed = {g \in @ : Stub(g.stub) # cpu.code}],
                   cpu.flags.tf))
  /\ UNCHANGED resets

(* CLI and STI, and the read of port 60h with the end of its interrupt.    *)
SetIF(on) ==
  /\ Running(cpu.code) /\ cpu.next = "any"
  /\ cpu.flags.iff # on /\ (on \/ cpu.code = Program)
  /\ Become(Retire([machine EXCEPT !.cpu.flags.iff = on], cpu.flags.tf))
  /\ UNCHANGED resets

ReadPort ==
  /\ Running(Handler("key")) /\ cpu.next = "any" /\ keys.serving
  /\ Become(Retire([machine EXCEPT !.keys.line = IF @ = 0 THEN 0 ELSE @ - 1,
                                   !.keys.serving = FALSE], cpu.flags.tf))
  /\ UNCHANGED resets

(* A debugger's IRET puts TF into the flags of the program.                *)
Trace ==
  /\ Running(Program) /\ cpu.next = "any" /\ "trap" \in hooked /\ ~cpu.flags.tf
  /\ Become([machine EXCEPT !.cpu.flags.tf = TRUE])
  /\ UNCHANGED resets

(* A guest installs its handlers.                                          *)
SetVectors(set) ==
  /\ Running(Program) /\ cpu.next = "any" /\ stack = <<>> /\ ~bridge.open /\ hooked = {}
  /\ Become([machine EXCEPT !.hooked = set])
  /\ UNCHANGED resets

-----------------------------------------------------------------------------
(* Hardware interrupts.                                                    *)

TypeKey ==
  /\ keys.line + keys.buf < MaxKeys
  /\ Become([machine EXCEPT !.keys.line = @ + 1])
  /\ UNCHANGED resets

Requested(irq) ==
  IF irq = "key" THEN keys.line > 0 /\ ~keys.serving ELSE TRUE

(* IRQ 1 goes to the guest that took its vector; IRQ 0 is the BIOS's, and  *)
(* ends in the guest's tick handler if there is one.                       *)
DispatchHardware(m, irq) ==
  LET n == IF irq = "key" THEN "key" ELSE "tick"
      held == IF irq = "key" THEN [m EXCEPT !.keys.serving = TRUE] ELSE m
  IN  IF n \in m.hooked THEN Transfer(held, Handler(n))
      ELSE IF irq = "key" THEN Irq1Keyboard(held) ELSE m

CheckIrq(irq) ==
  /\ cpu.flags.iff /\ ~cpu.pm /\ Requested(irq) /\ Len(stack) < MaxDepth
  /\ LET m == DispatchHardware(Enter(machine), irq)
     IN  Become(IF m.cpu.latch THEN m ELSE FinishReturn(m, cpu.flags))
  /\ UNCHANGED resets

-----------------------------------------------------------------------------
(* Protected mode, and the bridge to the DOS of real mode.                 *)

EnterProtected ==
  /\ Running(Program) /\ cpu.next = "any" /\ stack = <<>> /\ ~bridge.open
  /\ Become([machine EXCEPT !.cpu.pm = TRUE, !.cpu.code = Client,
                            !.cpu.flags.iff = FALSE, !.cpu.flags.tf = FALSE])
  /\ UNCHANGED resets

LeaveProtected ==
  /\ cpu.pm
  /\ Become([machine EXCEPT !.cpu.pm = FALSE, !.cpu.code = Program])
  /\ UNCHANGED resets

(* INT 21h without a gate: DOS runs on a stack of its own, in a loop of    *)
(* its own, until it is back at the instruction after the INT.             *)
OpenBridge ==
  /\ cpu.pm /\ "dos" \in hooked
  /\ Become([machine EXCEPT
               !.bridge = [open |-> TRUE, since |-> resets, cpu |-> cpu, stack |-> stack],
               !.stack = <<Frame(machine)>>, !.cpu.pm = FALSE,
               !.cpu.code = Handler("dos"), !.cpu.next = "any",
               !.cpu.flags.iff = FALSE, !.cpu.flags.tf = FALSE])
  /\ UNCHANGED resets

Restored(m) ==
  [m EXCEPT !.cpu.pm = TRUE, !.cpu.code = m.bridge.cpu.code, !.cpu.next = m.bridge.cpu.next,
            !.stack = m.bridge.stack, !.bridge = NoBridge]

BridgeReturn ==
  /\ bridge.open /\ ~cpu.pm /\ cpu.code = bridge.cpu.code /\ cpu.next = "any"
  /\ Become(Restored(machine))
  /\ UNCHANGED resets

(* The steps of the loop are used up, while DOS computes or waits for a    *)
(* key.                                                                    *)
BridgeExhausted ==
  /\ bridge.open /\ (retry # NoWait => Interrupted)
  /\ Become([Restored(machine) EXCEPT !.cpu.flags = [bridge.cpu.flags EXCEPT !.res = TRUE]])
  /\ UNCHANGED resets

-----------------------------------------------------------------------------
(* Resets.                                                                 *)

(* The processor's side: real mode, flags, and what was in flight.         *)
\* Mutant: the record of a wait survives.
RealModeKeeping(m) ==
  [m EXCEPT !.cpu.pm = FALSE, !.cpu.flags = [iff |-> FALSE, tf |-> FALSE, res |-> FALSE],
            !.cpu.latch = FALSE, !.ghost = [reads |-> {}, owed |-> {}]]
RealModeReset(m) ==
  [m EXCEPT !.cpu.pm = FALSE, !.cpu.flags = [iff |-> FALSE, tf |-> FALSE, res |-> FALSE],
            !.cpu.latch = FALSE, !.retry = NoWait,
            !.ghost = [reads |-> {}, owed |-> {}]]

AtStart(m) == [m EXCEPT !.cpu.code = Program, !.cpu.next = "any", !.stack = <<>>]

ColdReset(m) ==
  [AtStart(RealModeReset(m)) EXCEPT
     !.hooked = {}, !.keys = [@ EXCEPT !.line = 0, !.buf = 0, !.serving = FALSE]]

(* A reset pulse: without a shutdown code the program goes on where it is, *)
(* with one it continues at the vector the guest left.                     *)
WarmReset ==
  /\ resets < MaxResets /\ (bridge.open => Interrupted)
  /\ \/ ~cpu.pm /\ cpu.code # Client /\ cpu.next = "any" /\ Become(RealModeReset(machine))
     \/ cpu.next = "any" /\ Become(AtStart(RealModeReset(machine)))
  /\ resets' = resets + 1

(* An interrupt protected mode cannot deliver.                             *)
TripleFault ==
  /\ resets < MaxResets /\ cpu.pm
  /\ Become(ColdReset(machine)) \/ Become(AtStart(RealModeReset(machine)))
  /\ resets' = resets + 1

(* The reset button of the window, between two instructions of the loop.   *)
WindowReset ==
  /\ ~bridge.open
  /\ Become(ColdReset(machine))
  /\ UNCHANGED resets

-----------------------------------------------------------------------------
Init ==
  /\ cpu = [pm |-> FALSE, code |-> Program, next |-> "any", latch |-> FALSE,
            flags |-> [iff |-> FALSE, tf |-> FALSE, res |-> FALSE]]
  /\ stack = <<>> /\ retry = NoWait /\ bridge = NoBridge /\ hooked = {}
  /\ keys = [line |-> 0, serving |-> FALSE, buf |-> 0]
  /\ resets = 0
  /\ ghost = [reads |-> {}, owed |-> {}]

Execute ==
  \/ \E n \in Vectors : IntN(n) \/ FarCall(n)
  \/ Iret \/ ReadPort \/ \E on \in BOOLEAN : SetIF(on)

Next ==
  \/ Execute
  \/ Trace \/ \E set \in Installs : SetVectors(set)
  \/ TypeKey \/ \E irq \in {"timer", "key"} : CheckIrq(irq)
  \/ EnterProtected \/ LeaveProtected \/ OpenBridge \/ BridgeReturn \/ BridgeExhausted
  \/ WarmReset \/ TripleFault \/ WindowReset

Spec == Init /\ [][Next]_vars

-----------------------------------------------------------------------------
(* Properties.                                                             *)

Frames == {stack[i] : i \in 1..Len(stack)}
FlagsAfter(code) == IF cpu'.code = code THEN cpu'.flags ELSE Head(stack').flags

(* The record of a blocking read means that a program is on that very INT, *)
(* running or interrupted: the loop takes the record for a guest that      *)
(* waits, exempts it from the stuck detection and lets a session end on it.*)
RecordMeansWaiting ==
  retry # NoWait =>
    \E f \in Frames \cup {Frame(machine)} : f.code = retry.code /\ f.next = retry.n

(* A keyboard read that had to wait gives its caller back the interrupt    *)
(* and trap flags it was called with, however often it was repeated with   *)
(* interrupts open and whatever ran in between.                            *)
WaitKeepsFlags ==
  [][Execute => \A g \in ghost.reads \ ghost'.reads :
       /\ FlagsAfter(g.code).iff = g.flags.iff
       /\ FlagsAfter(g.code).tf = g.flags.tf]_vars

(* What a service answers in the flags is what the caller of its ROM stub  *)
(* sees after the stub's IRET, which pops the flags the caller pushed.     *)
ChainedResult ==
  [][Iret => \A g \in ghost.owed \ ghost'.owed : FlagsAfter(Head(stack).code).res = g.res]_vars

=============================================================================
