----------------------------- MODULE Arithmetic -----------------------------
(***************************************************************************)
(* The arithmetic of cpu.py: results and flags of the ALU, the decimal     *)
(* adjustments, shifts and rotates, multiplication and division.           *)
(*                                                                         *)
(* The byte, word and doubleword forms of the code are the same text with  *)
(* another mask; here the width w is a parameter.  An operator returns     *)
(* [val, fl], the result and the flags after it.                           *)
(***************************************************************************)
EXTENDS Integers, FiniteSets

Bit(v, k) == (v \div 2^k) % 2
Sign(w, v) == Bit(v, w - 1)
Signed(w, v) == IF Sign(w, v) = 1 THEN v - 2^w ELSE v
Parity(v) == Cardinality({k \in 0..7 : Bit(v, k) = 1}) % 2 = 0
Num(b) == IF b THEN 1 ELSE 0
XorBit(a, b, r, k) == (Bit(a, k) + Bit(b, k) + Bit(r, k)) % 2 = 1

(* ZF, SF and PF of a result (_set_szp8); the other flags stay.            *)
SetSZP(w, r, fl) ==
  [fl EXCEPT !.zf = (r = 0), !.sf = (Sign(w, r) = 1), !.pf = Parity(r)]

(* _flags_add and _flags_sub; b may be one more than the width holds.      *)
FlagsAdd(w, a, b, fl) ==
  LET r == (a + b) % 2^w
  IN  [val |-> r,
       fl |-> [SetSZP(w, r, fl) EXCEPT
                 !.cf = a + b >= 2^w,
                 !.af = XorBit(a, b, r, 4),
                 !.of = Sign(w, a) = Bit(b, w - 1) /\ Sign(w, a) # Sign(w, r)]]
FlagsSub(w, a, b, fl) ==
  LET r == (a - b) % 2^w
  IN  [val |-> r,
       fl |-> [SetSZP(w, r, fl) EXCEPT
                 !.cf = a < b,
                 !.af = XorBit(a, b, r, 4),
                 !.of = Sign(w, a) # Bit(b, w - 1) /\ Sign(w, a) # Sign(w, r)]]

(* AND, OR, XOR, bit by bit; TEST is AND without the result.               *)
Logic(w, f, a, b, fl) ==
  LET bit(x, y) == CASE f = "and" -> x * y
                     [] f = "or"  -> x + y - x * y
                     [] f = "xor" -> (x + y) % 2
      upTo[k \in 0..w] == IF k = 0 THEN 0
                          ELSE upTo[k - 1] + 2^(k - 1) * bit(Bit(a, k - 1), Bit(b, k - 1))
      r == upTo[w]
  IN  [val |-> r, fl |-> [SetSZP(w, r, fl) EXCEPT !.cf = FALSE, !.of = FALSE, !.af = FALSE]]

(* The operand with the carry in it: the register forms add the carry to   *)
(* the operand, the immediate forms cut the sum to the width.              *)
WithCarry(w, form, b, fl) ==
  IF form = "imm" THEN (b + Num(fl.cf)) % 2^w ELSE b + Num(fl.cf)

(* The doubleword form takes AF and OF from the operand without the carry. *)
Alu(w, form, f, a, b, fl) ==
  LET c == WithCarry(w, form, b, fl)
      own(r) == IF form # "dword" THEN r
                ELSE [r EXCEPT !.fl.af = XorBit(a, b, r.val, 4),
                               !.fl.of = /\ Sign(w, a) # Sign(w, r.val)
                                         /\ IF f = "adc" THEN Sign(w, a) = Sign(w, b)
                                            ELSE Sign(w, a) # Sign(w, b)]
  IN  CASE f = "add" -> FlagsAdd(w, a, b, fl)
        [] f = "adc" -> own(FlagsAdd(w, a, c, fl))
        [] f = "sbb" -> own(FlagsSub(w, a, c, fl))
        [] f \in {"sub", "cmp"} -> FlagsSub(w, a, b, fl)
        [] f \in {"and", "or", "xor"} -> Logic(w, f, a, b, fl)

(* INC, DEC and NEG: the first two leave the carry alone.                  *)
\* Mutant: INC and DEC set the carry as ADD and SUB do.
CountedCarry(w, f, a, fl) ==
  IF f = "inc" THEN FlagsAdd(w, a, 1, fl) ELSE FlagsSub(w, a, 1, fl)
Counted(w, f, a, fl) ==
  LET r == (IF f = "inc" THEN a + 1 ELSE a - 1) % 2^w
      edge == IF f = "inc" THEN 2^(w - 1) ELSE 2^(w - 1) - 1
  IN  [val |-> r,
       fl |-> [SetSZP(w, r, fl) EXCEPT !.of = (r = edge),
                                       !.af = (a % 16 = IF f = "inc" THEN 15 ELSE 0)]]
Negated(w, a, fl) == FlagsSub(w, 0, a, fl)
Inverted(w, a, fl) == [val |-> 2^w - 1 - a, fl |-> fl]

(* The sixteen conditions of a jump, in the order of their opcodes.        *)
\* Mutant: the signed conditions look at the sign alone.
ConditionSign(cc, fl) ==
  LET even == CASE cc \div 2 = 0 -> fl.of
                [] cc \div 2 = 1 -> fl.cf
                [] cc \div 2 = 2 -> fl.zf
                [] cc \div 2 = 3 -> fl.zf \/ fl.cf
                [] cc \div 2 = 4 -> fl.sf
                [] cc \div 2 = 5 -> fl.pf
                [] cc \div 2 = 6 -> fl.sf
                [] cc \div 2 = 7 -> fl.zf \/ fl.sf
  IN  even # (cc % 2 = 1)
Condition(cc, fl) ==
  LET even == CASE cc \div 2 = 0 -> fl.of
                [] cc \div 2 = 1 -> fl.cf
                [] cc \div 2 = 2 -> fl.zf
                [] cc \div 2 = 3 -> fl.zf \/ fl.cf
                [] cc \div 2 = 4 -> fl.sf
                [] cc \div 2 = 5 -> fl.pf
                [] cc \div 2 = 6 -> fl.sf # fl.of
                [] cc \div 2 = 7 -> fl.zf \/ fl.sf # fl.of
  IN  even # (cc % 2 = 1)

-----------------------------------------------------------------------------
(* Decimal adjustments of AL (bytes).                                      *)

LowDigitOver(al, fl) == al % 16 > 9 \/ fl.af
Daa(al, fl) ==
  LET low == LowDigitOver(al, fl)
      high == al > 153 \/ fl.cf
      r == (al + 6 * Num(low) + 96 * Num(high)) % 256
  IN  [val |-> r, fl |-> [SetSZP(8, r, fl) EXCEPT !.af = low, !.cf = high]]
Das(al, fl) ==
  LET low == LowDigitOver(al, fl)
      high == al > 153 \/ fl.cf
      r == (al - 6 * Num(low) - 96 * Num(high)) % 256
  IN  [val |-> r,
       fl |-> [SetSZP(8, r, fl) EXCEPT !.af = low, !.cf = high \/ (low /\ (fl.cf \/ al < 6))]]

(* AAA and AAS correct AX as one word, then keep one digit in AL.          *)
Ascii(ax, fl, step) ==
  LET over == LowDigitOver(ax % 256, fl)
      r == (IF over THEN ax + step * 262 ELSE ax) % 65536
  IN  [val |-> 256 * (r \div 256) + (r % 16), fl |-> [fl EXCEPT !.af = over, !.cf = over]]

(* AAM and AAD; AAM by zero is a divide error.                             *)
Aam(ax, factor, fl) ==
  LET al == ax % 256
  IN  [val |-> 256 * (al \div factor) + (al % factor), fl |-> SetSZP(8, al % factor, fl)]
Aad(ax, factor, fl) ==
  LET r == ((ax \div 256) * factor + (ax % 256)) % 256
  IN  [val |-> r, fl |-> SetSZP(8, r, fl)]

-----------------------------------------------------------------------------
(* Shifts and rotates.                                                     *)

(* The count of the code: five bits, then the length of the ring.          *)
\* Mutant: a rotate through carry wraps at the width of the operand.
CountNarrow(w, f, n) == IF f \in {"rol", "ror", "rcl", "rcr"} THEN (n % 32) % w ELSE n % 32
Count(w, f, n) ==
  CASE f \in {"rol", "ror"} -> (n % 32) % w
    [] f \in {"rcl", "rcr"} -> (n % 32) % (w + 1)
    [] OTHER                -> n % 32

(* One place; single is the case in which OF is defined.                   *)
ShiftOne(w, f, s, single) ==
  LET v == s.val
      left == f \in {"rol", "rcl", "shl"}
      out == IF left THEN Sign(w, v) ELSE v % 2
      in == CASE f \in {"rol", "ror"} -> out
              [] f \in {"rcl", "rcr"} -> Num(s.fl.cf)
              [] f = "sar"            -> Sign(w, v)
              [] OTHER                -> 0
      r == IF left THEN (2 * v + in) % 2^w ELSE v \div 2 + in * 2^(w - 1)
      of == CASE left                 -> (Sign(w, r) = 1) # (out = 1)
              [] f \in {"ror", "rcr"} -> Sign(w, r) # Bit(r, w - 2)
              [] f = "shr"            -> Sign(w, v) = 1
              [] OTHER                -> FALSE
  IN  [val |-> r, fl |-> [s.fl EXCEPT !.cf = (out = 1), !.of = of /\ single]]

Shift(w, f, n, a, fl) ==
  LET count == Count(w, f, n)
      after[k \in 0..count] == IF k = 0 THEN [val |-> a, fl |-> fl]
                               ELSE ShiftOne(w, f, after[k - 1], count = 1)
      r == after[count]
  IN  IF f \in {"shl", "shr", "sar"} /\ count # 0
      THEN [r EXCEPT !.fl = [SetSZP(w, r.val, @) EXCEPT !.af = FALSE]]
      ELSE r

-----------------------------------------------------------------------------
(* Multiplication and division of the double-width accumulator.            *)

Mul(w, a, b, fl) ==
  [val |-> a * b, fl |-> [fl EXCEPT !.cf = a * b >= 2^w, !.of = a * b >= 2^w]]

(* The carry compares the product with its lower half read as unsigned.    *)
Imul(w, a, b, fl) ==
  LET r == (Signed(w, a) * Signed(w, b)) % 2^(2 * w)
  IN  [val |-> r, fl |-> [fl EXCEPT !.cf = r >= 2^w, !.of = r >= 2^w]]

Magnitude(x) == IF x < 0 THEN -x ELSE x
(* _idiv_trunc: toward zero, the remainder with the sign of the dividend.  *)
\* Mutant: the quotient is rounded down.
IdivFloor(n, d) ==
  LET q == IF d > 0 THEN n \div d ELSE (-n) \div (-d)
  IN  [q |-> q, r |-> n - q * d]
Idiv(n, d) ==
  LET m == Magnitude(n) \div Magnitude(d)
      q == IF (n < 0) # (d < 0) THEN -m ELSE m
  IN  [q |-> q, r |-> n - q * d]

(* DIV and IDIV raise the divide error by zero, or when the quotient does  *)
(* not fit; nothing has changed then.                                      *)
Quotient(w, f, n, d) ==
  IF f = "div" THEN [q |-> n \div d, r |-> n % d]
  ELSE Idiv(Signed(2 * w, n), Signed(w, d))
DivideError(w, f, n, d) ==
  \/ d = 0
  \/ f = "div" /\ n \div d >= 2^w
  \/ f = "idiv" /\ Quotient(w, f, n, d).q \notin -(2^(w - 1)) .. 2^(w - 1) - 1
Divided(w, f, n, d) ==
  LET x == Quotient(w, f, n, d) IN (x.q % 2^w) + 2^w * (x.r % 2^w)
=============================================================================
