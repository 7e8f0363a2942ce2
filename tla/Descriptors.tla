---------------------------- MODULE Descriptors ----------------------------
(***************************************************************************)
(* Selectors, descriptors and segment loads of the protected-mode          *)
(* processor (cpu.py).  A machine state m is a record; every operator here *)
(* returns the state after the step, with m.fault set to the vector of the *)
(* exception the step raised, in which case the rest of the instruction    *)
(* does not run (_InstructionFault).                                       *)
(*                                                                         *)
(* A selector is [ix, rpl]: the descriptor it names and its low two bits.  *)
(* Base addresses, limits and operand widths are data the properties do    *)
(* not tell apart; a stack's limit is the number of items it holds.  The   *)
(* real-mode callback mode (_allow_dos_rm_callbacks) is off.               *)
(***************************************************************************)
EXTENDS Naturals, Sequences

CONSTANTS LDT,         \* local descriptors, by index
          StackLimit   \* items a stack segment holds

NoFault == 0
NP == 11
SS == 12
GP == 13

NullSel == [ix |-> "null", rpl |-> 0]
Null(s) == s.ix = "null"
TI(s) == s.ix \in DOMAIN LDT

IsCode(d) == d.kind \in {"code", "exec", "conforming"}
Conforming(d) == d.kind = "conforming"
IsTSS(d) == d.kind \in {"tss", "tss386"}

Max2(a, b) == IF a > b THEN a ELSE b
Put(f, k, v) == [x \in DOMAIN f \cup {k} |-> IF x = k THEN v ELSE f[x]]
Drop(f, k) == [x \in DOMAIN f \ {k} |-> f[x]]

Raise(m, v) == [m EXCEPT !.fault = v]
Then(m, Op(_)) == IF m.fault = NoFault THEN Op(m) ELSE m

(* A translation the emulator invents, with no entry in any table.         *)
Synthetic(kind, dpl) == [kind |-> kind, dpl |-> dpl, p |-> TRUE,
                         busy |-> FALSE, to |-> NullSel, synth |-> TRUE]
SyntheticData(m) == Synthetic("data", IF m.cpl = 3 THEN 3 ELSE 0)
SyntheticCode == Synthetic("code", 0)

Cached(m, s) == s \in DOMAIN m.cache
CachedCode(m, s) == Cached(m, s) /\ IsCode(m.cache[s])
Latched(m) == ~Null(m.ldtr)

(* Code of an LDT runs while LDTR is zero.                                 *)
Unlatched(m) == TI(m.seg.cs) /\ ~Latched(m)

InTable(m, s) ==
  IF TI(s) THEN Cached(m, m.ldtr) /\ Latched(m) ELSE s.ix \in DOMAIN m.gdt
Entry(m, s) == IF TI(s) THEN LDT[s.ix] ELSE m.gdt[s.ix]

(* _translate_selector: the fault it raises, and the descriptor.           *)
HiddenCode(m, s) == TI(s) /\ ~Latched(m) /\ CachedCode(m, s)
TranslateFault(m, s) ==
  CASE HiddenCode(m, s)                           -> NoFault
    [] ~HiddenCode(m, s) /\ InTable(m, s)         -> IF Entry(m, s).p THEN NoFault ELSE NP
    [] ~HiddenCode(m, s) /\ ~InTable(m, s)        ->
         IF Unlatched(m) /\ ~Null(s) THEN NoFault ELSE GP
Translated(m, s) ==
  CASE HiddenCode(m, s)                    -> m.cache[s]
    [] ~HiddenCode(m, s) /\ InTable(m, s)  -> Entry(m, s)
    [] OTHER                               -> SyntheticData(m)

(* _peek_descriptor_for: usable without faulting.                          *)
Peekable(m, s) == ~Null(s) /\ InTable(m, s) /\ Entry(m, s).p

(* The type and privilege rules of _load_sreg for register r.              *)
Loadable(m, r, s, d, compat) ==
  CASE r = "cs" -> IsCode(d)
    [] r = "ss" -> compat \/ (d.kind = "data" /\ d.dpl = m.cpl /\ s.rpl = m.cpl)
    [] r \in {"ds", "es"} ->
         /\ d.kind # "exec"
         /\ compat \/ IsCode(d) \/ d.dpl >= Max2(m.cpl, s.rpl)

(* The load has passed its checks: register, hidden cache and CPL.         *)
Install(m, r, s, d, compat) ==
  LET keepCode == compat /\ s = m.seg.cs /\ CachedCode(m, s)
  IN  [m EXCEPT !.seg[r] = s,
                !.cache = IF keepCode THEN @ ELSE Put(@, s, d),
                !.cpl = IF r = "cs" /\ ~Conforming(d) THEN s.rpl ELSE @]

LoadSreg(m, r, s) ==
  LET compat == r # "cs" /\ Unlatched(m) /\ ~Null(s)
      hidden == r = "cs" /\ Unlatched(m) /\ TI(s) /\ CachedCode(m, s)
      err == IF compat \/ hidden THEN NoFault ELSE TranslateFault(m, s)
      d == IF hidden THEN m.cache[s]
           ELSE IF compat THEN SyntheticData(m) ELSE Translated(m, s)
  IN  CASE ~m.pm -> [m EXCEPT !.seg[r] = s, !.cpl = IF r = "cs" THEN 0 ELSE @]
        [] m.pm /\ r \in {"ds", "es"} /\ Null(s) ->
             [m EXCEPT !.seg[r] = s, !.cache = Drop(@, s)]
        [] m.pm /\ ~(r \in {"ds", "es"} /\ Null(s)) ->
             IF err # NoFault THEN Raise(m, err)
             ELSE IF Loadable(m, r, s, d, compat) THEN Install(m, r, s, d, compat)
             ELSE Raise(m, GP)

(* _set_cs(compat_return=True): a return through an LDT that is gone.      *)
SetCsReturn(m, s) ==
  LET gone == m.pm /\ ~Latched(m) /\ TI(s) /\ ~CachedCode(m, s)
  IN  LoadSreg(IF gone THEN [m EXCEPT !.cache = Put(@, s, SyntheticCode)] ELSE m,
               "cs", s)

(* One item on the stack of the current SS, and one item off it; what lies *)
(* beyond the stack pointer is dead and dropped.                           *)
StackFault(m) == m.pm /\ ~Cached(m, m.seg.ss)
Push(m, item) ==
  IF StackFault(m) \/ (m.pm /\ m.sp = StackLimit) THEN Raise(m, SS)
  ELSE [m EXCEPT !.stk[m.seg.ss.ix] = Append(@, item), !.sp = @ + 1]
Top(m) == m.stk[m.seg.ss.ix][m.sp]
Popped(m) == IF StackFault(m) THEN Raise(m, SS)
             ELSE [m EXCEPT !.stk[m.seg.ss.ix] = SubSeq(@, 1, m.sp - 1), !.sp = @ - 1]

(* _pop_sreg: the stack moves only once the load has succeeded.            *)
\* Mutant: the stack pointer moves before the load is known to succeed.
PopSregEarly(m, r) ==
  LET Load(k) == LoadSreg(k, r, Top(m).sel)
  IN  Then(Popped(m), Load)
PopSreg(m, r) ==
  LET next == Popped(m)
      Load(k) == LoadSreg([k EXCEPT !.sp = m.sp, !.stk = m.stk], r, Top(m).sel)
      Commit(k) == [k EXCEPT !.sp = next.sp, !.stk[m.seg.ss.ix] = SubSeq(@, 1, next.sp)]
  IN  Then(Then(next, Load), Commit)

(* _clear_outer_data_segments                                              *)
\* Mutant: the data segments of the inner ring stay loaded.
ClearOuterNone(m) == m
ClearOuter(m) ==
  LET inner(r) == /\ Cached(m, m.seg[r])
                  /\ ~Conforming(m.cache[m.seg[r]])
                  /\ m.cache[m.seg[r]].dpl < m.cpl
  IN  [m EXCEPT !.seg = [r \in DOMAIN @ |-> IF r \in {"ds", "es"} /\ inner(r)
                                            THEN NullSel ELSE @[r]]]

(* _pop_flags: only ring 0 loads IOPL, only CPL <= IOPL loads IF.          *)
PopFlags(m, fl) ==
  IF ~m.pm THEN [m EXCEPT !.fl = [ie |-> fl.ie, nt |-> FALSE, iopl |-> 0]]
  ELSE [m EXCEPT !.fl = [ie   |-> IF m.cpl > m.fl.iopl THEN m.fl.ie ELSE fl.ie,
                         nt   |-> fl.nt,
                         iopl |-> IF m.cpl = 0 THEN fl.iopl ELSE m.fl.iopl]]

(* _set_msw: entering protected mode seeds the caches from the paragraph   *)
(* registers, leaving it drops every cache.                                *)
SetPE(m, pe) ==
  LET seeded == {m.seg[r] : r \in {"cs", "ds", "es", "ss"}}
      kind(s) == IF s \in {m.seg[r] : r \in {"ds", "es", "ss"}} THEN "data" ELSE "code"
  IN  CASE pe /\ ~m.pm ->
             [m EXCEPT !.pm = TRUE,
                       !.cache = [s \in DOMAIN @ \cup seeded |->
                                    IF s \in seeded THEN Synthetic(kind(s), 0) ELSE @[s]]]
        [] ~pe /\ m.pm -> [m EXCEPT !.pm = FALSE, !.cpl = 0, !.cache = <<>>]
        [] OTHER -> m
=============================================================================
