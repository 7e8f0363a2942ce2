-------------------------- MODULE MCProtectedMode --------------------------
(* Tables and programs for ProtectedMode: two rings, three tasks.   *)
EXTENDS ProtectedMode

D(kind, dpl, busy, to) == [kind |-> kind, dpl |-> dpl, p |-> TRUE, busy |-> busy,
                           to |-> to, synth |-> FALSE]
Seg(kind, dpl) == D(kind, dpl, FALSE, NullSel)
S(ix, rpl) == [ix |-> ix, rpl |-> rpl]

MCLDT == [x \in {"lcode", "ldata"} |-> Seg(IF x = "lcode" THEN "code" ELSE "data", 3)]

MCGDT ==
  [x \in {"code0", "codeB", "code3", "conf0", "data0", "data3", "stk0", "stk3", "stkB", "stkC", "ldtA",
          "gate", "gateB", "tgate", "tssA", "tssB", "tssC"} |->
     CASE x \in {"code0", "codeB"} -> Seg("code", 0)
       [] x = "code3" -> Seg("code", 3)
       [] x = "conf0" -> Seg("conforming", 0)
       [] x \in {"data0", "stk0", "stkB", "stkC"} -> Seg("data", 0)
       [] x \in {"data3", "stk3"} -> Seg("data", 3)
       [] x = "ldtA" -> Seg("ldt", 0)
       [] x = "gate" -> D("callgate", 3, FALSE, S("code0", 0))
       [] x = "gateB" -> D("callgate", 3, FALSE, S("codeB", 0))
       [] x = "tgate" -> D("taskgate", 3, FALSE, S("tssB", 0))
       [] x = "tssA" -> D("tss", 0, TRUE, NullSel)
       [] x = "tssB" -> D("tss", 0, FALSE, NullSel)
       [] x = "tssC" -> D("tss", 0, FALSE, NullSel)]

Gate(kind, dpl) == D(kind, dpl, FALSE, S("code0", 0))
MCIDT == [v \in {NP, GP, 8, 33} |->
            CASE v = NP -> Gate("trapgate", 0)
              [] v = GP -> Gate("trapgate", 0)
              [] v = 8  -> Gate("intgate", 0)
              [] v = 33 -> Gate("trapgate", 3)]

Segs(cs, ss, ds) == [cs |-> cs, ss |-> ss, ds |-> ds, es |-> NullSel]
Image(seg, ldtr) ==
  [back |-> NullSel,
   regs |-> [ip |-> Run, fl |-> [ie |-> FALSE, nt |-> FALSE, iopl |-> 0], sp |-> 0,
             seg |-> seg, ldtr |-> ldtr]]
MCImages ==
  [t \in {"tssA", "tssB", "tssC"} |->
     CASE t = "tssA" -> Image(Segs(S("code3", 3), S("stk3", 3), S("data3", 3)), NullSel)
       [] t = "tssB" -> Image(Segs(S("code0", 0), S("stkB", 0), S("data0", 0)), NullSel)
       [] t = "tssC" -> Image(Segs(S("code0", 0), S("stkC", 0), S("data0", 0)), S("ldtA", 0))]

MCInnerStack == [t \in DOMAIN MCImages |-> CASE t = "tssA" -> S("stk0", 0)
                                             [] t = "tssB" -> S("stkB", 0)
                                             [] t = "tssC" -> S("stkC", 0)]
MCStacks == {"stk0", "stk3", "stkB", "stkC", "para"}
MCParas == {S("para", 0)}

Outer == [seg |-> Segs(S("code3", 3), S("stk3", 3), S("data3", 3)), tr |-> S("tssA", 0)]
Inner == [seg |-> Segs(S("code0", 0), S("stk0", 0), S("data0", 0)), tr |-> S("tssA", 0)]
Quiet == [boot |-> Outer, data |-> {}, far |-> {}, vectors |-> {}, irqs |-> {},
          pageable |-> {}, ldts |-> {}, pops |-> FALSE, flags |-> FALSE, mode |-> FALSE]
DS(sels) == {[reg |-> "ds", sel |-> s] : s \in sels}

MCPrograms ==
  { \* gates and interrupts from the outer ring, and back
    [Quiet EXCEPT !.data = DS({S("data0", 0), S("data3", 3)}),
                  !.far = {S("gate", 3)}, !.vectors = {33}],
    [Quiet EXCEPT !.far = {S("code3", 3), S("conf0", 3)}, !.vectors = {}],
    \* interrupts and privileged flags; vector 34 has no gate
    [Quiet EXCEPT !.flags = TRUE, !.vectors = {33, 34}, !.irqs = {8}],
    \* loads of absent segments, restarted after the handler brings them in
    [Quiet EXCEPT !.data = DS({S("data3", 3), NullSel}), !.pops = TRUE,
                  !.pageable = {"data3"}, !.irqs = {8}],
    \* a segment that a gate, a return or a task needs goes absent
    [Quiet EXCEPT !.vectors = {33}, !.far = {S("gate", 3)}, !.pageable = {"stk0", "stk3"}],
    [Quiet EXCEPT !.vectors = {33}, !.far = {S("gateB", 3)}, !.pageable = {"codeB"}],
    [Quiet EXCEPT !.vectors = {33}, !.far = {S("gate", 3)}, !.pageable = {"code3"}],
    [Quiet EXCEPT !.boot = Inner, !.far = {S("tssC", 0), S("tssA", 0)}, !.pageable = {"ldtA"}],
    \* tasks entered by jump, by call and through a task gate
    [Quiet EXCEPT !.boot = Inner, !.far = {S("tssA", 0), S("tssB", 0)}],
    [Quiet EXCEPT !.boot = Inner, !.far = {S("tgate", 0)}, !.irqs = {8},
                  !.data = DS({S("data3", 0)})],
    [Quiet EXCEPT !.far = {S("gate", 3), S("tgate", 3), S("tssA", 0)}],
    \* to real mode and back
    [Quiet EXCEPT !.boot = Inner, !.mode = TRUE, !.vectors = {33},
                  !.far = {S("para", 0), S("code0", 0)},
                  !.data = {[reg |-> r, sel |-> s] : r \in {"ds", "ss"}, s \in {S("para", 0)}}
                           \cup {[reg |-> "ss", sel |-> S("stk0", 0)]}],
    \* a local descriptor table, latched or not
    [Quiet EXCEPT !.ldts = {S("ldtA", 0), NullSel}, !.vectors = {33},
                  !.far = {S("lcode", 3), S("code3", 3)},
                  !.data = DS({S("ldata", 3)})] }
=============================================================================
