--------------------------- MODULE ProtectedMode ---------------------------
(***************************************************************************)
(* The 80286/386 protected mode of cpu.py: privilege rings, gates,         *)
(* interrupts, faults that restart their instruction, hardware tasks and   *)
(* the switch to and from real mode.  A guest program, bound only by the   *)
(* instructions it may execute (constants) and by using return             *)
(* instructions on the frames they belong to, runs any sequence of them.   *)
(***************************************************************************)
EXTENDS Descriptors

CONSTANTS GDT,         \* initial global descriptors, by index
          IDT,         \* gates, by vector
          Stacks,      \* the indexes of stack segments
          Images,      \* initial task images, by TSS index
          InnerStack,  \* the ring-0 stack selector of each task
          Programs,    \* the programs a guest may be
          Paras,       \* real-mode paragraphs
          AnyRPL       \* far transfers may carry an RPL other than CPL

VARIABLES machine,     \* the processor, its descriptor tables and stacks
          prog,        \* the program that runs: the operands it uses
          pending,     \* the instruction whose fault is to be delivered
          calls,       \* history: per task, the contexts its frames return to
          callers,     \* history: tasks suspended by a CALL, oldest first
          torn         \* history: an instruction faulted half way

vars == <<machine, prog, pending, calls, callers, torn>>

Ring0 == 0
(* Where execution stands: an instruction to restart, or Run, the next one *)
(* being the guest's choice.                                               *)
Instr(op, reg, sel, v) == [op |-> op, reg |-> reg, sel |-> sel, v |-> v]
Run == Instr("run", "cs", NullSel, 0)
NoPending == [i |-> Run, ctx |-> [cs |-> NullSel, ss |-> NullSel, sp |-> 0, cpl |-> 0],
              delivering |-> FALSE]

Frame(m, kind, ss, sp) ==
  [kind |-> kind, ip |-> m.ip, cs |-> m.seg.cs, fl |-> m.fl,
   ss |-> ss, sp |-> sp, sel |-> NullSel]
Word(s) == [kind |-> "word", ip |-> Run, cs |-> NullSel,
            fl |-> [ie |-> FALSE, nt |-> FALSE, iopl |-> 0],
            ss |-> NullSel, sp |-> 0, sel |-> s]

\* Mutant: the ring changes and the stack does not.
EnterRingOneStack(m, cs) == LoadSreg(m, "cs", cs)

(* _enter_ring: the code segment first, then the ring's stack of the TSS.  *)
EnterRing(m, cs) ==
  LET SwitchStack(k) == LoadSreg(k, "ss", InnerStack[m.tr.ix])
      Empty(k) == [k EXCEPT !.sp = 0, !.stk[k.seg.ss.ix] = <<>>]
  IN  IF ~Cached(m, m.tr) THEN Raise(m, GP)
      ELSE Then(Then(LoadSreg(m, "cs", cs), SwitchStack), Empty)

-----------------------------------------------------------------------------
(* Hardware tasks.                                                         *)

\* Mutant: the busy bit changes in the cache and not in the table.
SetBusyCached(m, t, b) ==
  IF ~Peekable(m, t) THEN m
  ELSE [m EXCEPT !.cache = Put(@, t, [Entry(m, t) EXCEPT !.busy = b])]
SetBusy(m, t, b) ==
  IF ~Peekable(m, t) THEN m
  ELSE LET d == [Entry(m, t) EXCEPT !.busy = b]
       IN  [m EXCEPT !.gdt[t.ix] = d, !.cache = Put(@, t, d)]

SaveTask(m) ==
  [m EXCEPT !.tss[m.tr.ix].regs =
     [ip |-> m.ip, fl |-> m.fl, sp |-> m.sp, seg |-> m.seg, ldtr |-> m.ldtr]]

(* The registers of the image; a selector with no hidden cache yet gets    *)
(* one from the table, or a real-mode style one.                           *)
LoadTask(m) ==
  LET r == m.tss[m.tr.ix].regs
      d286 == m.gdt[m.tr.ix].kind = "tss"
      ldtOK == Null(r.ldtr) \/ (Peekable(m, r.ldtr) /\ Entry(m, r.ldtr).kind = "ldt")
      loaded == [m EXCEPT !.ip = r.ip, !.fl = r.fl, !.sp = r.sp, !.seg = r.seg]
      withLDT == [loaded EXCEPT !.ldtr = r.ldtr, !.cpl = r.seg.cs.rpl,
                    !.cache = IF d286 /\ ~Null(r.ldtr) THEN Put(@, r.ldtr, Entry(m, r.ldtr)) ELSE @]
      refreshed(k) == LET missing == {k.seg[x] : x \in DOMAIN k.seg} \ DOMAIN k.cache
                      IN  [s \in DOMAIN k.cache \cup missing |->
                             IF s \notin missing THEN k.cache[s]
                             ELSE IF Peekable(k, s) THEN Entry(k, s) ELSE Synthetic("data", 0)]
  IN  IF d286 /\ ~ldtOK THEN Raise(loaded, GP)
      ELSE [withLDT EXCEPT !.cache = refreshed(withLDT)]

(* The checks of _do_task_switch: only a 286 TSS is refused for being busy.*)
SwitchRefused(m, t, source) ==
  \/ ~Peekable(m, t)
  \/ ~IsTSS(Entry(m, t))
  \/ TI(t) /\ Entry(m, t).kind = "tss"
  \/ source # "iret" /\ Entry(m, t).kind = "tss" /\ Entry(m, t).busy
  \/ source # "iret" /\ Entry(m, t).dpl < Max2(m.cpl, t.rpl)

TaskSwitch(m, t, source) ==
  LET old == m.tr
      known == Cached(m, old)
      saved == IF known THEN SaveTask(m) ELSE m
      freed == IF known /\ source \in {"jmp", "int", "iret"}
               THEN SetBusy(saved, old, FALSE) ELSE saved
      taken == [SetBusy(freed, t, TRUE) EXCEPT !.tr = t]
      Nest(k) == CASE source \in {"call", "int"} ->
                        [k EXCEPT !.tss[t.ix].back = old, !.fl.nt = TRUE]
                   [] source = "iret" -> [k EXCEPT !.fl.nt = FALSE]
                   [] OTHER -> k
  IN  IF SwitchRefused(m, t, source) THEN Raise(m, GP)
      ELSE Then(LoadTask(taken), Nest)

-----------------------------------------------------------------------------
(* Far transfers.                                                          *)

GateFault(m, s, g) ==
  CASE ~g.p -> NP
    [] g.p /\ g.dpl < Max2(m.cpl, s.rpl) -> GP
    [] OTHER -> NoFault

(* A 286 call gate g named by s.                                           *)
ThroughGate(m, g, call) ==
  LET t == g.to
      d == Translated(m, t)
      inner == call /\ ~Conforming(d) /\ d.dpl < m.cpl
      cs == IF Conforming(d) THEN t ELSE [t EXCEPT !.rpl = d.dpl]
      refused == \/ ~IsCode(d)
                 \/ ~Conforming(d) /\ t.rpl # 0 /\ t.rpl # d.dpl
                 \/ ~Conforming(d) /\ call /\ d.dpl > g.dpl
                 \/ ~Conforming(d) /\ ~call /\ d.dpl # g.dpl
      PushFar(k) == IF inner THEN Push(k, Frame(m, "far", m.seg.ss, m.sp))
                    ELSE IF call THEN Push(k, Frame(m, "far", NullSel, 0)) ELSE k
  IN  IF TranslateFault(m, t) # NoFault THEN Raise(m, TranslateFault(m, t))
      ELSE IF refused THEN Raise(m, GP)
      ELSE Then(IF inner THEN EnterRing(m, cs) ELSE LoadSreg(m, "cs", cs), PushFar)

PushReturn(m, call) == IF call THEN Push(m, Frame(m, "far", NullSel, 0)) ELSE m

(* A direct transfer stays in its ring: DPL must equal CPL, or be at most  *)
(* CPL for conforming code.                                                *)
ToCode(m, s, call) ==
  LET d == Translated(m, s)
      Load(k) == LoadSreg(k, "cs", s)
      refused == \/ ~IsCode(d)
                 \/ ~Conforming(d) /\ d.dpl # m.cpl
                 \/ Conforming(d) /\ d.dpl > m.cpl
  IN  IF TranslateFault(m, s) # NoFault THEN Raise(m, TranslateFault(m, s))
      ELSE IF refused THEN Raise(m, GP)
      ELSE Then(PushReturn(m, call), Load)

(* A transfer to an LDT selector while LDTR is zero: the cached code, or   *)
(* an invented segment, with no check of rings.                            *)
ToTransient(m, s, call) ==
  LET Enter(k) == [k EXCEPT !.seg.cs = s, !.cpl = s.rpl,
                            !.cache = IF CachedCode(m, s) THEN @ ELSE Put(@, s, SyntheticCode)]
  IN  Then(PushReturn(m, call), Enter)

FarTransfer(m0, s, call) ==
  LET m == IF Unlatched(m0) /\ ~CachedCode(m0, m0.seg.cs)
           THEN [m0 EXCEPT !.cache = Put(@, m0.seg.cs, SyntheticCode)] ELSE m0
      d == Entry(m, s)
      how == IF call THEN "call" ELSE "jmp"
      Load(k) == LoadSreg(k, "cs", s)
  IN  CASE ~m0.pm -> Then(PushReturn(m0, call), Load)
        [] m0.pm /\ Null(s) -> Raise(m, GP)
        [] m0.pm /\ TI(s) /\ ~Latched(m) -> ToTransient(m, s, call)
        [] m0.pm /\ ~Null(s) /\ ~(TI(s) /\ ~Latched(m)) ->
             IF ~InTable(m, s) THEN Raise(m, GP)
             ELSE CASE d.kind = "taskgate" ->
                         IF GateFault(m, s, d) # NoFault THEN Raise(m, GateFault(m, s, d))
                         ELSE TaskSwitch(m, d.to, how)
                    [] IsTSS(d) -> TaskSwitch(m, s, how)
                    [] d.kind = "callgate" ->
                         IF GateFault(m, s, d) # NoFault THEN Raise(m, GateFault(m, s, d))
                         ELSE ThroughGate(m, d, call)
                    [] OTHER -> ToCode(m, s, call)

-----------------------------------------------------------------------------
(* Interrupts, exceptions and returns.                                     *)

(* _do_interrupt.  An absent or unusable gate shuts the processor down.    *)
Interrupt(m, v, software) ==
  LET g == IDT[v]
      hidden == TI(g.to) /\ ~Latched(m) /\ TI(m.seg.cs)
      m1 == IF hidden /\ ~CachedCode(m, g.to)
            THEN [m EXCEPT !.cache = Put(@, g.to, SyntheticCode)] ELSE m
      err == IF hidden THEN NoFault ELSE TranslateFault(m, g.to)
      d == IF hidden THEN m1.cache[g.to] ELSE Translated(m, g.to)
      cs == [g.to EXCEPT !.rpl = d.dpl]
      inner == d.dpl < m.cpl
      PushInt(k) == Push(k, IF inner THEN Frame(m, "int", m.seg.ss, m.sp)
                            ELSE Frame(m, "int", NullSel, 0))
      Mask(k) == [k EXCEPT !.fl.ie = IF g.kind = "intgate" THEN FALSE ELSE @, !.ip = Run]
      Enter(k) == IF inner THEN k ELSE LoadSreg(k, "cs", cs)
      EnterReal(k) == [k EXCEPT !.seg.cs = CHOOSE s \in Paras : TRUE, !.fl.ie = FALSE, !.ip = Run]
  IN  IF ~m.pm THEN Then(Push(m, Frame(m, "int", NullSel, 0)), EnterReal)
      ELSE IF v \notin DOMAIN IDT THEN Raise(m, GP)
      ELSE IF g.kind = "taskgate" /\ g.p THEN TaskSwitch(m, g.to, "int")
      ELSE IF ~g.p \/ g.kind \notin {"intgate", "trapgate"} THEN [m EXCEPT !.down = TRUE]
      ELSE IF software /\ g.dpl < m.cpl THEN Raise(m, GP)
      ELSE IF err # NoFault THEN Raise(m, err)
      ELSE Then(Then(Then(IF inner THEN EnterRing(m1, cs) ELSE m1, PushInt), Mask), Enter)

(* The common part of RETF and IRET: f is the frame just popped.           *)
ReturnTo(m, f) ==
  LET outer == m.pm /\ f.cs.rpl > m.cpl
      popped == IF f.kind = "int" THEN [m EXCEPT !.ip = f.ip] ELSE m
      Flags(k) == IF f.kind = "int" THEN PopFlags(k, f.fl) ELSE k
      Outer(k) == LoadSreg(k, "ss", f.ss)
      Settle(k) == [k EXCEPT !.ip = f.ip]
      Leave(k) == ClearOuter([k EXCEPT !.sp = f.sp, !.stk[m.seg.ss.ix] = <<>>])
      returned == Then(SetCsReturn(popped, f.cs), Flags)
  IN  Then(IF outer THEN Then(Then(returned, Outer), Leave) ELSE returned, Settle)

Return(m) == LET To(k) == ReturnTo(k, Top(m)) IN Then(Popped(m), To)

Iret(m) ==
  IF m.pm /\ m.fl.nt
  THEN IF ~Cached(m, m.tr) THEN Raise(m, GP)
       ELSE TaskSwitch(m, [m.tss[m.tr.ix].back EXCEPT !.rpl = 0], "iret")
  ELSE Return(m)

Allowed(m, n) == IF m.pm /\ m.cpl > m.fl.iopl THEN Raise(m, GP) ELSE n

Lldt(m, s) ==
  IF Null(s) THEN [m EXCEPT !.ldtr = s]
  ELSE IF TranslateFault(m, s) # NoFault THEN Raise(m, TranslateFault(m, s))
  ELSE IF Translated(m, s).kind # "ldt" THEN Raise(m, GP)
  ELSE [m EXCEPT !.cache = Put(@, s, Translated(m, s)), !.ldtr = s]

Ltr(m, s) ==
  IF TranslateFault(m, s) # NoFault THEN Raise(m, TranslateFault(m, s))
  ELSE IF Translated(m, s).kind # "tss" THEN Raise(m, GP)
  ELSE LET d == [Translated(m, s) EXCEPT !.busy = TRUE]
       IN  [m EXCEPT !.gdt[s.ix] = d, !.cache = Put(@, s, d), !.tr = s]

(* One instruction.                                                        *)
Do(m, i) ==
  CASE i.op = "mov"  -> LoadSreg(m, i.reg, i.sel)
    [] i.op = "push" -> Push(m, Word(i.sel))
    [] i.op = "pop"  -> PopSreg(m, i.reg)
    [] i.op = "jmp"  -> FarTransfer(m, i.sel, FALSE)
    [] i.op = "call" -> FarTransfer(m, i.sel, TRUE)
    [] i.op = "int"  -> Interrupt(m, i.v, TRUE)
    [] i.op = "iret" -> Iret(m)
    [] i.op = "retf" -> Return(m)
    [] i.op = "sti"  -> Allowed(m, [m EXCEPT !.fl.ie = TRUE])
    [] i.op = "cli"  -> Allowed(m, [m EXCEPT !.fl.ie = FALSE])
    [] i.op = "lldt" -> Lldt(m, i.sel)
    [] i.op = "ltr"  -> Ltr(m, i.sel)
    [] i.op = "lmsw" -> SetPE(m, i.reg = "on")

-----------------------------------------------------------------------------
(* The guest.  It executes the instruction a fault left to restart, or any *)
(* of its program that fits the state: a return meets the frame it is for, *)
(* far selectors carry the current ring unless AnyRPL, call gates are used *)
(* from the outer ring, a task is named directly outside handlers only,    *)
(* and the mode is switched with no frame pending.                         *)

TopIs(m, kind) == m.sp > 0 /\ Top(m).kind = kind
Idle(m) == calls[m.tr.ix] = <<>> /\ callers = <<>> /\ m.sp = 0

(* After a mode switch a far jump reloads CS before anything stores it:    *)
(* the guest switches with interrupts off.                                 *)
Settled(m) == m.pm <=> m.seg.cs \notin Paras

FarUse(m, s) ==
  /\ m.pm <=> s \notin Paras
  /\ AnyRPL \/ s.rpl = m.cpl \/ ~m.pm
  /\ InTable(m, s) /\ Entry(m, s).kind = "callgate" => m.cpl > Ring0
  /\ InTable(m, s) /\ IsTSS(Entry(m, s)) => m.sp = 0

Program(m) ==
  LET loads == {d \in prog.data : /\ Null(d.sel) \/ (m.pm <=> d.sel \notin Paras)
                                  /\ d.reg = "ss" => Idle(m)}
      room == Settled(m) /\ (m.pm \/ m.sp < StackLimit)
      ret(kind, op) == IF TopIs(m, kind) THEN {Instr(op, "cs", NullSel, 0)} ELSE {}
      plain(op, S) == {Instr(op, "cs", s, 0) : s \in S}
  IN  {Instr("mov", d.reg, d.sel, 0) : d \in loads}
      \cup {Instr("push", "ds", d.sel, 0) : d \in {x \in loads : prog.pops /\ m.pm /\ x.reg = "ds"}}
      \cup {Instr("pop", "ds", NullSel, 0) : x \in ret("word", "pop")}
      \cup {Instr(op, "cs", s, 0) : op \in IF room THEN {"jmp", "call"} ELSE {"jmp"}, s \in {t \in prog.far : FarUse(m, t)}}
      \cup {Instr("int", "cs", NullSel, v) : v \in IF room THEN prog.vectors ELSE {}}
      \cup (IF m.pm /\ m.fl.nt THEN plain("iret", {NullSel}) ELSE ret("int", "iret"))
      \cup ret("far", "retf")
      \cup UNION {plain(op, {NullSel}) : op \in IF prog.flags THEN {"sti", "cli"} ELSE {}}
      \cup plain("lldt", IF m.pm THEN prog.ldts ELSE {})
      \cup plain("ltr", IF m.pm /\ ~Cached(m, m.tr) THEN {m.tr} ELSE {})
      \cup {Instr("lmsw", IF m.pm THEN "off" ELSE "on", NullSel, 0) :
              x \in IF prog.mode /\ m.cpl = Ring0 /\ Idle(m) THEN {0} ELSE {}}

Context(m) == [cs |-> m.seg.cs, ss |-> m.seg.ss, sp |-> m.sp, cpl |-> m.cpl]

(* The histories after a step: entered when a frame may have been pushed,  *)
(* with ctx the context it returns to; returned when one was popped; how a *)
(* task was left.                                                          *)
Record(entered, ctx, returned, how) ==
  LET same == machine'.tr = machine.tr
      drop(q) == IF q = <<>> THEN q ELSE SubSeq(q, 1, Len(q) - 1)
  IN  /\ UNCHANGED prog
      /\ calls' = [calls EXCEPT ![machine.tr.ix] =
                     IF ~same \/ machine'.down \/ machine'.fault # NoFault THEN @
                     ELSE IF entered THEN Append(@, ctx)
                     ELSE IF returned THEN drop(@) ELSE @]
      /\ callers' = IF same THEN callers
                    ELSE CASE how \in {"call", "int"} -> Append(callers, machine.tr.ix)
                           [] how = "iret"            -> drop(callers)
                           [] OTHER                   -> callers

Ready == ~machine.down /\ machine.fault = NoFault
Goes == Ready /\ ~torn

(* The fault of a transfer tears it if the code segment, the ring or the   *)
(* stack has moved by then, which nothing puts back: the model ends where  *)
(* the handler is entered, the frame or the stack of the transfer is lost. *)
Torn(i, m, next) ==
  /\ i.op \in {"jmp", "call", "int", "iret", "retf"}
  /\ next.fault # NoFault /\ Context(next) # Context(m)

(* One instruction; its fault, if any, is delivered by the next step.      *)
Execute ==
  /\ Goes
  /\ \E i \in IF machine.ip # Run THEN {machine.ip} ELSE Program(machine) :
       /\ machine' = Do([machine EXCEPT !.ip = Run], i)
       /\ pending' = IF machine'.fault = NoFault THEN NoPending
                     ELSE [i |-> i, ctx |-> Context(machine), delivering |-> FALSE]
       /\ torn' = (torn \/ Torn(i, machine, machine'))
       /\ Record(i.op \in {"call", "int"}, Context(machine), i.op \in {"iret", "retf"}, i.op)

(* _do_exception: the instruction is restarted if CS is still its own.     *)
DeliverFault ==
  /\ ~machine.down /\ machine.fault # NoFault /\ ~pending.delivering
  /\ machine' = Interrupt([machine EXCEPT !.fault = NoFault,
                             !.ip = IF machine.seg.cs = pending.ctx.cs THEN pending.i ELSE @],
                          machine.fault, FALSE)
  /\ pending' = IF machine'.fault = NoFault THEN NoPending
                ELSE [pending EXCEPT !.delivering = TRUE]
  /\ UNCHANGED torn
  /\ Record(TRUE, pending.ctx, FALSE, "int")

(* A fault raised by the delivery of a fault: the processor parks (or the  *)
(* machine resets).                                                        *)
TripleFault ==
  /\ ~machine.down /\ machine.fault # NoFault /\ pending.delivering
  /\ machine' = [machine EXCEPT !.down = TRUE, !.fault = NoFault]
  /\ pending' = NoPending
  /\ UNCHANGED <<prog, calls, callers, torn>>

(* A hardware interrupt, between two instructions and outside any fault    *)
(* context; its gates are usable, and there is room for its frame.         *)
Irq(v) ==
  /\ Goes /\ machine.fl.ie
  /\ Settled(machine) /\ (~machine.pm => machine.sp < StackLimit)
  /\ machine' = Interrupt(machine, v, FALSE)
  /\ machine'.fault = NoFault
  /\ UNCHANGED <<pending, torn>>
  /\ Record(TRUE, Context(machine), FALSE, "int")

(* Ring-0 code marks a segment absent, or brings it back.                  *)
Page(ix) ==
  /\ Goes /\ machine.pm /\ machine.cpl = Ring0 /\ machine.ip = Run
  /\ machine' = [machine EXCEPT !.gdt[ix].p = ~@]
  /\ UNCHANGED <<prog, pending, calls, callers, torn>>

Init ==
  /\ prog \in Programs
  /\ LET boot == prog.boot
         loaded == ({boot.seg[r] : r \in DOMAIN boot.seg} \cup {boot.tr}) \ {NullSel}
     IN machine = [pm |-> TRUE, cpl |-> boot.seg.cs.rpl, seg |-> boot.seg,
                   cache |-> [s \in loaded |-> GDT[s.ix]],
                   gdt |-> GDT, ldtr |-> NullSel, tr |-> boot.tr,
                   fl |-> [ie |-> TRUE, nt |-> FALSE, iopl |-> 0], sp |-> 0,
                   stk |-> [s \in Stacks |-> <<>>], tss |-> Images,
                   ip |-> Run, fault |-> NoFault, down |-> FALSE]
  /\ pending = NoPending
  /\ calls = [t \in DOMAIN Images |-> <<>>]
  /\ callers = <<>>
  /\ torn = FALSE

Next ==
  \/ Execute
  \/ DeliverFault
  \/ TripleFault
  \/ \E v \in prog.irqs : Irq(v)
  \/ \E ix \in prog.pageable : Page(ix)

Spec == Init /\ [][Next]_vars
-----------------------------------------------------------------------------
(* Properties.                                                             *)

Alive == machine.pm /\ Ready

(* The privilege level, the RPL of CS, the code descriptor and the stack   *)
(* descriptor name one ring, after every gate, interrupt, fault, return    *)
(* and task switch (LoadSreg, EnterRing and ReturnTo change them one by    *)
(* one, and each may fault). Only the stack may lag behind, and only after *)
(* a fault between those changes: the code takes CS and the ring not back. *)
RingsAgree ==
  Alive =>
    LET m == machine
    IN  /\ Cached(m, m.seg.cs) /\ Cached(m, m.seg.ss)
        /\ LET c == m.cache[m.seg.cs]
               s == m.cache[m.seg.ss]
           IN  /\ c.synth \/ (IsCode(c) /\ m.seg.cs.rpl = m.cpl)
               /\ c.synth \/ Conforming(c) \/ c.dpl = m.cpl
               /\ Conforming(c) => c.dpl <= m.cpl
               /\ s.synth \/ s.dpl = m.cpl \/ torn

(* A RETF or IRET gives the context that its CALL, INT, interrupt or       *)
(* faulting instruction had: code segment, ring, stack segment and the     *)
(* stack pointer before that instruction, so that a restarted POP reads    *)
(* the same word again.                                                    *)
ReturnsRestore ==
  [][\A t \in DOMAIN calls :
       Len(calls'[t]) < Len(calls[t]) =>
         Context(machine') = calls[t][Len(calls[t])]]_vars

(* DS and ES never hold a data segment of a more privileged ring than the  *)
(* one running, whichever way that ring was reached.                       *)
DataReachable ==
  Alive =>
    \A r \in {"ds", "es"} :
      LET s == machine.seg[r]
      IN  Cached(machine, s) /\ machine.cache[s].kind = "data" =>
            machine.cache[s].synth \/ machine.cache[s].dpl >= machine.cpl

(* The busy tasks are the one that runs and those it was called from: a    *)
(* called task cannot be entered a second time, a finished one can.        *)
BusyTasks ==
  {t \in DOMAIN Images : machine.gdt[t].busy}
    = {machine.tr.ix} \cup {callers[k] : k \in DOMAIN callers}

=============================================================================
