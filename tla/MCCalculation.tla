--------------------------- MODULE MCCalculation ---------------------------
(* Programs and operands for Calculation: limbs of one and two cells with  *)
(* the values around each boundary.                                        *)
EXTENDS Calculation

I(op, f, n) == [op |-> op, f |-> f, form |-> "reg", rep |-> "none", n |-> n]
Form(i, form) == [i EXCEPT !.form = form]
Rep(f, rep) == [I("str", f, 0) EXCEPT !.rep = rep]

AllFlags == [f \in {"cf", "zf", "sf", "of", "af", "pf"} |-> TRUE]
NoFlags == [cf |-> FALSE, zf |-> FALSE, sf |-> FALSE, of |-> FALSE, af |-> FALSE, pf |-> FALSE]
Start(ax, cx, mem) ==
  [ax |-> ax, bx |-> 0, cx |-> cx, si |-> 0, di |-> 0, fl |-> NoFlags, df |-> FALSE,
   mem |-> [a \in 0..N - 1 |-> IF a + 1 \in DOMAIN mem THEN mem[a + 1] ELSE 0],
   pc |-> 0, fault |-> FALSE, de |-> FALSE, absent |-> {}]
Job(kind, n, base, code, start) ==
  [kind |-> kind, n |-> n, base |-> base, code |-> code, start |-> start, cc |-> 0]

Lods == I("str", "lods", 0)
Stos == I("str", "stos", 0)
Bump == I("count", "inc", 0)
Again == I("loop", "loop", 1)

Edges == {0, 1, 15, 127, 128, 255}
Few == {0, 1, 128, 255}
Digits == {0, 4, 5, 9}

(* x, y and the result of n limbs, one operation per limb.                 *)
Limbs(kind, n, base, alu, adjust, values) ==
  {Job(kind, n, base, <<Lods, alu>> \o adjust \o <<Stos, Bump, Again>>,
       [Start(0, n, v) EXCEPT !.bx = n, !.di = 2 * n]) : v \in [1..2 * n -> values]}
\* With the pointer moved by an ADD, the flags kept in AH meanwhile.
Saved(kind, alu) ==
  {Job(kind, 2, 2^W, <<Lods, I("sahf", "", 0), alu, Stos, I("lahf", "", 0), I("addbx", "", 1), Again, I("sahf", "", 0)>>,
       [Start(0, 2, v) EXCEPT !.bx = 2, !.di = 4]) : v \in [1..4 -> Few]}

\* The immediate forms, a program for each pair of operands.
Immediate(kind, first, next) ==
  {Job(kind, 2, 2^W, <<Lods, first, Stos, Bump, Lods, Form(next, "imm"), Stos>>,
       [Start(0, 0, v) EXCEPT !.bx = 2, !.di = 4]) : v \in {u \in [1..4 -> Few] : u[4] # 255}}

\* Subtraction by adding the complement, and by the negation of one limb.
Complements ==
  {Job("sub", 2, 2^W, <<I("stc", "", 0), Lods, I("not", "", 0), I("alu", "adc", 0), Stos, Bump, I("loop", "loop", 2), I("cmc", "", 0)>>,
       [Start(0, 2, v) EXCEPT !.si = 2, !.di = 4]) : v \in [1..4 -> Few]}
  \cup {Job("sub", 1, 2^W, <<Lods, I("neg", "", 0), Stos>>,
            [Start(0, 0, <<0, v>>) EXCEPT !.si = 1, !.di = 2]) : v \in Edges}

Adc(form) == Form(I("alu", "adc", 0), form)
Sbb(form) == Form(I("alu", "sbb", 0), form)
MCChains ==
  Limbs("add", 1, 2^W, Adc("reg"), <<>>, Edges) \cup Limbs("sub", 1, 2^W, Sbb("reg"), <<>>, Edges)
  \cup Limbs("add", 2, 2^W, Adc("reg"), <<>>, Few) \cup Limbs("sub", 2, 2^W, Sbb("dword"), <<>>, Few)
  \cup Complements \cup Saved("add", Adc("dword"))
  \cup Immediate("add", I("alu", "add", 0), I("alu", "adc", 0))
  \cup Immediate("sub", I("alu", "sub", 0), I("alu", "sbb", 0))
  \cup Limbs("add", 1, 100, Adc("reg"), <<I("daa", "", 0)>>, {10 * a + b + 6 * a : a, b \in {0, 1, 4, 5, 8, 9}})
  \cup Limbs("sub", 1, 100, Sbb("reg"), <<I("das", "", 0)>>, {10 * a + b + 6 * a : a, b \in {0, 1, 4, 5, 8, 9}})
  \cup Limbs("add", 2, 100, Adc("reg"), <<I("daa", "", 0)>>, {0, 1, 73, 153})
  \cup Limbs("sub", 2, 100, Sbb("reg"), <<I("das", "", 0)>>, {0, 1, 73, 153})
  \cup Limbs("add", 2, 10, Adc("reg"), <<I("aaa", "", 0)>>, Digits)
  \cup Limbs("sub", 2, 10, Sbb("reg"), <<I("aas", "", 0)>>, Digits)
  \cup Limbs("shl", 2, 2^W, I("shift", "rcl", 1), <<>>, Few)
  \cup {Job("shr", 2, 2^W, <<Lods, I("shift", "rcr", 1), Stos, Again>>,
            [Start(0, 2, v) EXCEPT !.si = 1, !.di = 5, !.df = TRUE]) : v \in [1..2 -> Edges]}

Inverse(f) == CASE f = "rol" -> "ror" [] f = "ror" -> "rol" [] f = "rcl" -> "rcr" [] f = "rcr" -> "rcl"
MCRings ==
  {Job("ring", 1, 2^W, <<I("shift", f, n), I("shift", Inverse(f), n)>>,
       [Start(a, 0, <<>>) EXCEPT !.fl.cf = c]) :
     f \in {"rol", "ror", "rcl", "rcr"}, n \in 0..31, a \in {0, 1, 90, 128, 201}, c \in BOOLEAN}
  \cup {Job("shift", 1, 2^W, <<I("shift", f, n)>>, [Start(a, 0, <<>>) EXCEPT !.fl = fl]) :
          f \in {"shl", "shr", "sar"}, n \in {0, 1, 2, 7, 8, 9, 20, 32, 33}, a \in Edges,
          fl \in {NoFlags, AllFlags}}

\* The low limbs with CMP, the high ones with SBB.
TwoLimbs(form) ==
  {[Job("cmp", 2, 2^W, <<Lods, I("alu", "cmp", 0), Bump, Lods, Sbb(form), I("jcc", "", cc), Stos>>,
        [Start(0, 0, v) EXCEPT !.bx = 2, !.di = 4]) EXCEPT !.cc = cc] :
     cc \in {2, 3, 12, 13}, v \in [1..4 -> {0, 127, 128, 255}]}

MCCompares ==
  {[Job("cmp", 1, 2^W, <<Lods, I("alu", "cmp", 0), I("jcc", "", cc), Stos>>,
        [Start(0, 0, v) EXCEPT !.bx = 1, !.di = 2]) EXCEPT !.cc = cc] :
     cc \in 0..15, v \in [1..2 -> {0, 1, 2, 126, 127, 128, 129, 254, 255}]}
  \cup TwoLimbs("dword") \cup TwoLimbs("reg")

\* A logic instruction on a value and itself compares it with zero.
MCTests ==
  {[Job("cmp", 1, 2^W, <<Lods, I("alu", f, 0), I("jcc", "", cc), Stos>>,
        [Start(0, 0, <<v, 0>>) EXCEPT !.bx = 0, !.di = 2]) EXCEPT !.cc = cc] :
     f \in {"and", "or"}, cc \in 0..15, v \in Edges}
  \cup {[Job("cmp", 1, 2^W, <<Lods, I("alu", "xor", 0), I("jcc", "", cc), Stos>>,
             [Start(0, 0, v) EXCEPT !.bx = 1, !.di = 2]) EXCEPT !.cc = cc] :
          cc \in {4, 5}, v \in [1..2 -> Few]}

MCDivisions ==
  {Job("div", 2, 2^W, <<Lods, I("div", "div", 0), Stos, Again>>,
       [Start(0, 2, <<v[1], v[2], v[3]>>) EXCEPT !.si = 1, !.di = 5, !.bx = 2, !.df = TRUE]) :
     v \in [1..3 -> Edges \cup {3, 10}]}
  \cup {Job("idiv", 1, 2^W, <<I("div", "idiv", 0)>>, Start(256 * h + l, 0, <<d>>)) :
          h \in {0, 1, 63, 64, 127, 128, 192, 254, 255}, l \in Edges, d \in Edges \cup {2, 3, 254}}
  \cup {Job(f, 1, 2^W, <<I("mul", f, 0)>>, Start(a, 0, <<d>>)) : f \in {"mul", "imul"}, a, d \in Edges}
  \cup {Job("aam", 1, 2^W, <<I("aam", "", n), I("aad", "", n)>>, Start(a, 0, <<>>)) :
          n \in {1, 10, 16, 255}, a \in Edges}

(* Blocks of up to four of eight cells, with every cell absent in turn,    *)
(* moved away from the overlap.                                            *)
Absent == {{}} \cup {{a} : a \in 0..N - 1}
Text == <<1, 2, 3, 1, 2, 2, 3, 1>>
MCStrings ==
  {Job("move", 1, 2^W, <<Rep("movs", "rep")>>,
       [Start(0, c, Text) EXCEPT !.si = IF t.df THEN (t.s + c - 1) % N ELSE t.s,
                                 !.di = IF t.df THEN (t.d + c - 1) % N ELSE t.d,
                                 !.df = t.df, !.absent = ab]) :
     c \in 1..3, ab \in Absent,
     t \in {[s |-> 2, d |-> 1, df |-> FALSE], [s |-> 2, d |-> 3, df |-> TRUE],
            [s |-> 2, d |-> 6, df |-> TRUE], [s |-> 2, d |-> 6, df |-> FALSE]}}
  \cup {Job(f, 1, 2^W, <<IF f = "fill" THEN Rep("stos", "rep") ELSE Rep("scas", "repne")>>,
            [Start(a, c, Text) EXCEPT !.di = d, !.df = df, !.absent = ab]) :
          f \in {"fill", "scan"}, a \in {2, 3}, c \in 0..4, d \in {0, 6}, df \in BOOLEAN, ab \in Absent}
  \cup {Job("compare", 1, 2^W, <<Rep("cmps", "rep")>>,
            [Start(0, c, Text) EXCEPT !.si = s, !.di = d, !.absent = ab]) :
          c \in 0..4, s \in {0, 1}, d \in {3, 4, 6}, ab \in Absent}

(* The same searches and fills written as loops.                           *)
MCLoops ==
  {Job(f, 1, 2^W, IF f = "fill" THEN <<I("jcxz", "", 4), Stos, I("loop", "loop", 2)>>
                  ELSE <<I("jcxz", "", 4), I("str", IF f = "scan" THEN "scas" ELSE "cmps", 0),
                         I("loop", IF f = "scan" THEN "loopne" ELSE "loope", 2)>>,
       [Start(a, c, Text) EXCEPT !.si = 1, !.di = d]) :
     f \in {"fill", "scan", "compare"}, a \in {2, 3}, c \in 0..4, d \in {3, 4, 6}}

MCJobs == MCChains \cup MCRings \cup MCCompares \cup MCTests \cup MCDivisions \cup MCStrings \cup MCLoops
=============================================================================
