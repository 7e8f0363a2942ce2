---------------------------- MODULE Calculation ----------------------------
(***************************************************************************)
(* Guest programs made of the arithmetic and string instructions of        *)
(* cpu.py: long addition and subtraction, binary, packed and unpacked      *)
(* decimal, long shifts, long division, comparisons followed by a jump,    *)
(* and repeated string instructions that fault half way and are restarted. *)
(* The program and its operands are chosen at the start.                   *)
(*                                                                         *)
(* Registers hold W bits, AX twice as many; a segment has N cells, each    *)
(* one element of a string, and offsets wrap at its end.                   *)
(***************************************************************************)
EXTENDS Arithmetic, Sequences

CONSTANTS W,      \* width of AL and of a cell
          N,      \* cells of a segment
          Jobs    \* programs with their operands

VARIABLES cpu,    \* registers, flags, memory, place in the program
          job     \* the program and the machine it started on

vars == <<cpu, job>>

Al(c) == c.ax % 2^W
Ah(c) == c.ax \div 2^W
WithAl(c, v) == [c EXCEPT !.ax = Ah(c) * 2^W + v]
Operand(c) == c.mem[c.bx]

-----------------------------------------------------------------------------
(* String instructions.                                                    *)

Reads(f) == f \in {"movs", "cmps", "lods"}
Writes(f) == f # "lods"
Touched(c, f) == (IF Reads(f) THEN {c.si} ELSE {}) \cup (IF Writes(f) THEN {c.di} ELSE {})

(* One element: the access, the offsets, and CX if there is a prefix.      *)
Element(c, i) ==
  LET inc == IF c.df THEN -1 ELSE 1
      moved == [c EXCEPT !.si = IF Reads(i.f) THEN (@ + inc) % N ELSE @,
                         !.di = IF Writes(i.f) THEN (@ + inc) % N ELSE @,
                         !.cx = IF i.rep # "none" THEN (@ - 1) % 65536 ELSE @]
  IN  CASE i.f = "movs" -> [moved EXCEPT !.mem[c.di] = c.mem[c.si]]
        [] i.f = "stos" -> [moved EXCEPT !.mem[c.di] = Al(c)]
        [] i.f = "lods" -> WithAl(moved, c.mem[c.si])
        [] i.f = "cmps" -> [moved EXCEPT !.fl = FlagsSub(W, c.mem[c.si], c.mem[c.di], @).fl]
        [] i.f = "scas" -> [moved EXCEPT !.fl = FlagsSub(W, Al(c), c.mem[c.di], @).fl]

(* The loop ends with the count, or at the comparison the prefix names.    *)
\* Mutant: a comparison ends the loop only after the count.
StopsLate(c, i) == i.rep = "none" \/ c.cx = 0
Stops(c, i) ==
  \/ i.rep = "none" \/ c.cx = 0
  \/ i.f \in {"cmps", "scas"} /\ c.fl.zf = (i.rep = "repne")

(* An element that cannot be reached raises a fault: what was done stays   *)
(* done, and the instruction is restarted.                                 *)
Faults(c, i) == Touched(c, i.f) \cap c.absent # {}
Repeat(c, i) ==
  LET most == IF i.rep = "none" THEN 1 ELSE c.cx
      run[k \in 0..most] ==
        IF k = 0 THEN [c |-> c, on |-> TRUE]
        ELSE LET p == run[k - 1]
             IN  CASE ~p.on -> p
                   [] p.on /\ Faults(p.c, i) -> [c |-> [p.c EXCEPT !.fault = TRUE], on |-> FALSE]
                   [] p.on /\ ~Faults(p.c, i) ->
                        LET n == Element(p.c, i) IN [c |-> n, on |-> ~Stops(n, i)]
  IN  run[most].c

-----------------------------------------------------------------------------
(* The other instructions.                                                 *)

FlagByte(fl) == 128 * Num(fl.sf) + 64 * Num(fl.zf) + 16 * Num(fl.af) + 4 * Num(fl.pf) + 2 + Num(fl.cf)
FromFlagByte(b, fl) ==
  [fl EXCEPT !.sf = Bit(b, 7) = 1, !.zf = Bit(b, 6) = 1, !.af = Bit(b, 4) = 1,
             !.pf = Bit(b, 2) = 1, !.cf = Bit(b, 0) = 1]

InAl(c, r, keep) == [(IF keep THEN c ELSE WithAl(c, r.val)) EXCEPT !.fl = r.fl]
InAx(c, r) == [c EXCEPT !.ax = r.val, !.fl = r.fl]

(* LOOP, LOOPE, LOOPNE.                                                    *)
Loop(c, i) ==
  LET cx == (c.cx - 1) % 65536
      again == /\ cx # 0
               /\ i.f = "loope" => c.fl.zf
               /\ i.f = "loopne" => ~c.fl.zf
  IN  [c EXCEPT !.cx = cx, !.pc = IF again THEN i.n ELSE @]

(* The divide error goes to INT 0, which ends the program.                 *)
Divide(c, i) ==
  IF DivideError(W, i.f, c.ax, Operand(c))
  THEN [c EXCEPT !.de = TRUE, !.pc = Len(job.code) + 1]
  ELSE [c EXCEPT !.ax = Divided(W, i.f, c.ax, Operand(c))]

Do(c, i) ==
  CASE i.op = "str" -> Repeat(c, i)
    [] i.op = "alu" -> InAl(c, Alu(W, i.form, i.f, Al(c), Operand(c), c.fl), i.f = "cmp")
    [] i.op = "neg" -> InAl(c, Negated(W, Al(c), c.fl), FALSE)
    [] i.op = "not" -> InAl(c, Inverted(W, Al(c), c.fl), FALSE)
    [] i.op = "daa" -> InAl(c, Daa(Al(c), c.fl), FALSE)
    [] i.op = "das" -> InAl(c, Das(Al(c), c.fl), FALSE)
    [] i.op = "aaa" -> InAx(c, Ascii(c.ax, c.fl, 1))
    [] i.op = "aas" -> InAx(c, Ascii(c.ax, c.fl, -1))
    [] i.op = "aam" -> IF i.n = 0 THEN [c EXCEPT !.de = TRUE, !.pc = Len(job.code) + 1]
                       ELSE InAx(c, Aam(c.ax, i.n, c.fl))
    [] i.op = "aad" -> InAx(c, Aad(c.ax, i.n, c.fl))
    [] i.op = "shift" -> InAl(c, Shift(W, i.f, i.n, Al(c), c.fl), FALSE)
    [] i.op = "div" -> Divide(c, i)
    [] i.op = "mul" -> InAx(c, IF i.f = "mul" THEN Mul(W, Al(c), Operand(c), c.fl)
                               ELSE Imul(W, Al(c), Operand(c), c.fl))
    [] i.op = "count" -> LET r == Counted(W, i.f, c.bx, c.fl)
                         IN  [c EXCEPT !.bx = r.val, !.fl = r.fl]
    [] i.op = "addbx" -> LET r == FlagsAdd(W, c.bx, i.n, c.fl)
                         IN  [c EXCEPT !.bx = r.val, !.fl = r.fl]
    [] i.op = "loop" -> Loop(c, i)
    [] i.op = "jcc" -> IF Condition(i.n, c.fl) THEN [c EXCEPT !.pc = @ + 1] ELSE c
    [] i.op = "jcxz" -> IF c.cx = 0 THEN [c EXCEPT !.pc = i.n] ELSE c
    [] i.op = "lahf" -> [c EXCEPT !.ax = FlagByte(c.fl) * 2^W + Al(c)]
    [] i.op = "sahf" -> [c EXCEPT !.fl = FromFlagByte(Ah(c), @)]
    [] i.op = "cmc" -> [c EXCEPT !.fl.cf = ~@]
    [] i.op = "stc" -> [c EXCEPT !.fl.cf = TRUE]

Finished == cpu.pc > Len(job.code)

(* One instruction; after a fault the same one again.                      *)
Execute ==
  /\ ~Finished /\ ~cpu.fault
  /\ cpu' = LET i == job.code[cpu.pc]
                c == Do([cpu EXCEPT !.pc = @ + 1], i)
            IN  IF c.fault THEN [c EXCEPT !.pc = cpu.pc] ELSE c
  /\ UNCHANGED job

(* The handler of the fault makes the element reachable.                   *)
BringIn ==
  /\ cpu.fault
  /\ cpu' = [cpu EXCEPT !.fault = FALSE, !.absent = {}]
  /\ UNCHANGED job

Init ==
  /\ job \in Jobs
  /\ cpu = [job.start EXCEPT !.pc = 1]

Next == Execute \/ BringIn
Spec == Init /\ [][Next]_vars

-----------------------------------------------------------------------------
(* Properties.  A job has the number n of limbs, of x at 0, of y at n, and *)
(* the result is stored from 2n; digits names their base.                  *)

Digit(base, v) ==
  CASE base = 100 -> 10 * (v \div 16) + (v % 16)
    [] OTHER      -> v
Numeral(base, mem, from, n) ==
  LET sum[k \in 0..n] == IF k = 0 THEN 0
                         ELSE sum[k - 1] + Digit(base, mem[from + k - 1]) * base^(k - 1)
  IN  sum[n]
X == Numeral(job.base, job.start.mem, 0, job.n)
Y == Numeral(job.base, job.start.mem, job.n, job.n)
Result == Numeral(job.base, cpu.mem, 2 * job.n, job.n)
Whole == job.base^job.n
Carry == Num(cpu.fl.cf)
Decimal(v) == CASE job.base = 100 -> v \div 16 < 10 /\ v % 16 < 10
                [] job.base = 10  -> v < 10
                [] OTHER          -> v < 2^W

(* A number of several limbs, binary, packed or unpacked decimal, is added *)
(* to or subtracted from another exactly, and shifted exactly, the carry   *)
(* passing from limb to limb through the flags, over the pointer updates   *)
(* and the LOOP in between; the last carry is the carry of the whole.  The *)
(* immediate forms of ADC and SBB are among them, but for an immediate of  *)
(* all ones with the carry set, whose carry out the code loses.            *)
ChainsExact ==
  Finished =>
    /\ job.kind = "add" => Result + Carry * Whole = X + Y
    /\ job.kind = "sub" => Result - Carry * Whole = X - Y
    /\ job.kind = "shl" => Result + Carry * Whole = 2 * X
    /\ job.kind = "shr" => 2 * Result + Carry = X
    /\ job.kind \in {"add", "sub", "shl", "shr"} =>
         \A k \in 0..job.n - 1 : Decimal(cpu.mem[2 * job.n + k])

(* A rotate by any count and its inverse give back operand and carry; a    *)
(* rotate through carry is one of the ring with the carry in it; shifts    *)
(* multiply or divide by the power of two, rounding down.  A count that    *)
(* comes to zero leaves the operand and every flag.                        *)
Ring(v, n, size) == (v * 2^n + (v \div 2^(size - n))) % 2^size
RotatesInvert ==
  LET c0 == job.start
      i == job.code[1]
      size == IF i.f \in {"rcl", "rcr"} THEN W + 1 ELSE W
      whole(c) == Al(c) + IF size = W THEN 0 ELSE Num(c.fl.cf) * 2^W
      left == (i.n % 32) % size
      zero == IF job.kind = "ring" THEN left = 0 ELSE i.n % 32 = 0
  IN  job.kind \in {"ring", "shift"} =>
        /\ cpu.pc = 2 /\ zero => Al(cpu) = Al(c0) /\ cpu.fl = c0.fl
        /\ job.kind = "ring" /\ Finished => Al(cpu) = Al(c0) /\ (size # W => cpu.fl.cf = c0.fl.cf)
        /\ job.kind = "ring" /\ cpu.pc = 2 =>
             whole(cpu) = Ring(whole(c0), IF i.f \in {"rol", "rcl"} THEN left
                                          ELSE (size - left) % size, size)
        /\ job.kind = "shift" /\ Finished =>
             LET p == 2^(i.n % 32)
             IN  CASE i.f = "shl" -> Al(cpu) = (Al(c0) * p) % 2^W
                   [] i.f = "shr" -> Al(cpu) = Al(c0) \div p
                   [] i.f = "sar" -> Signed(W, Al(cpu)) = Signed(W, Al(c0)) \div p

(* After a comparison of one limb, or of two by CMP and then SBB, each of  *)
(* the conditional jumps is taken exactly when its relation holds between  *)
(* the numbers, unsigned and signed. A comment (cpu.py:1002-1003) says OF  *)
(* is right also when operand plus borrow crosses the sign boundary; in    *)
(* the byte and word forms it is not, so that a signed jump may go wrong   *)
(* after a borrow from the greatest positive limb, and only then.          *)
SignCrossed ==
  /\ job.n > 1 /\ job.cc \div 2 \in {6, 7} /\ ~\E i \in DOMAIN job.code : job.code[i].form = "dword"
  /\ job.start.mem[2 * job.n - 1] = 2^(W - 1) - 1
  /\ X % job.base^(job.n - 1) < Y % job.base^(job.n - 1)

Relation(cc, x, y, bits) ==
  LET sx == Signed(bits, x)
      sy == Signed(bits, y)
      even == CASE cc \div 2 = 0 -> sx - sy \notin -(2^(bits - 1)) .. 2^(bits - 1) - 1
                [] cc \div 2 = 1 -> x < y
                [] cc \div 2 = 2 -> x = y
                [] cc \div 2 = 3 -> x <= y
                [] cc \div 2 = 4 -> Signed(bits, (x - y) % 2^bits) < 0
                [] cc \div 2 = 5 -> Parity((x - y) % 2^bits)
                [] cc \div 2 = 6 -> sx < sy
                [] cc \div 2 = 7 -> sx <= sy
  IN  even # (cc % 2 = 1)
JumpsDecide ==
  job.kind = "cmp" /\ Finished /\ ~SignCrossed =>
    ((cpu.di = job.start.di) = Relation(job.cc, X, Y, W * job.n))

(* A long division from the top limb down gives quotient and remainder; a  *)
(* signed one truncates; a quotient that does not fit, and only that,      *)
(* raises the divide error and leaves the accumulator and the flags as     *)
(* they were; products are exact, AAM splits and AAD joins.                *)
DivisionsExact ==
  Finished =>
    LET d == job.start.mem[job.start.bx]
        sd == Signed(W, d)
        ax == Signed(2 * W, job.start.ax)
        q == Signed(W, Al(cpu))
        r == Signed(W, Ah(cpu))
        fits == sd # 0 /\ \E k \in -(2^(W - 1)) .. 2^(W - 1) - 1 :
                            /\ Magnitude(ax - k * sd) < Magnitude(sd)
                            /\ ax # k * sd => (ax - k * sd < 0) = (ax < 0)
    IN  /\ job.kind = "div" =>
             IF d = 0 THEN cpu.de /\ cpu.ax = job.start.mem[job.start.si] /\ cpu.fl = job.start.fl
             ELSE ~cpu.de /\ X = Result * d + Ah(cpu) /\ Ah(cpu) < d
        /\ job.kind = "idiv" =>
             /\ cpu.de = ~fits
             /\ ~fits => cpu.ax = job.start.ax /\ cpu.fl = job.start.fl
             /\ fits => /\ ax = q * sd + r
                        /\ Magnitude(r) < Magnitude(sd)
                        /\ r # 0 => (r < 0) = (ax < 0)
        /\ job.kind = "mul" => cpu.ax = Al(job.start) * d
        /\ job.kind = "imul" => Signed(2 * W, cpu.ax) = Signed(W, Al(job.start)) * sd
        /\ job.kind = "aam" => cpu.ax = Al(job.start)

(* A repeated string instruction, faulting or not, moves a block as if at  *)
(* once, fills it, and stops a search right behind the first element that  *)
(* ends it, with the count of what is left.                                *)
StringsExact ==
  Finished =>
    LET s == job.start
        step == IF s.df THEN -1 ELSE 1
        at(from, k) == (from + step * k) % N
        block == {at(s.di, k) : k \in 0..s.cx - 1}
        ends(k) == IF job.kind = "scan" THEN s.mem[at(s.di, k)] = Al(s)
                   ELSE s.mem[at(s.si, k)] # s.mem[at(s.di, k)]
        hits == {k \in 0..s.cx - 1 : ends(k)}
        done == IF hits = {} THEN s.cx
                ELSE 1 + CHOOSE k \in hits : \A h \in hits : k <= h
    IN  /\ job.kind \in {"move", "fill"} =>
             /\ cpu.cx = 0 /\ cpu.di = at(s.di, s.cx)
             /\ \A c \in DOMAIN s.mem \ block : cpu.mem[c] = s.mem[c]
             /\ \A k \in 0..s.cx - 1 :
                  cpu.mem[at(s.di, k)] = IF job.kind = "fill" THEN Al(s) ELSE s.mem[at(s.si, k)]
        /\ job.kind \in {"scan", "compare"} =>
             /\ cpu.cx = s.cx - done /\ cpu.di = at(s.di, done)
             /\ s.cx > 0 => cpu.fl.zf = ((hits # {}) = (job.kind = "scan"))
=============================================================================
