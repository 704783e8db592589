------------------------------ MODULE Int64Emul ------------------------------
(***************************************************************************)
(* byterun/int64_emul.h: 64-bit integers as two words, for compilers that  *)
(* have none, and the division and remainder of ints.c on them.  A word    *)
(* has H bits; each step is one round of a loop of I64_udivmod.            *)
(***************************************************************************)
EXTENDS Integers, Bitwise

CONSTANTS H,             \* 32; the products of halves of words need it even
          Xs, Ys         \* operands: numbers of 2 * H bits

EmulAssumption == H \in Nat \ {0} /\ H % 2 = 0

VARIABLES x, y, op,      \* what is asked: x op y
          pc, modulus, divisor, quotient, mask, res
vars == <<x, y, op, pc, modulus, divisor, quotient, mask, res>>

U == 2^H
Half == 2^(H \div 2)
Word(n) == n % U                                    \* uint32
Signed(w) == IF w >= U \div 2 THEN w - U ELSE w     \* (int32)
I(h, l) == [h |-> Word(h), l |-> Word(l)]
Pair(n) == I(n \div U, n)
Val(p) == p.h * U + p.l
SVal(p) == Signed(p.h) * U + p.l

Bit(c) == IF c THEN 1 ELSE 0
Ucompare(a, b) == CASE a.h > b.h -> 1 [] a.h < b.h -> -1 [] a.h = b.h -> Bit(a.l > b.l) - Bit(a.l < b.l)
CompareUnsigned(a, b) == Ucompare(a, b)                \* the casts to int32 forgotten
Compare(a, b) == CASE Signed(a.h) > Signed(b.h) -> 1 [] Signed(a.h) < Signed(b.h) -> -1
                   [] a.h = b.h -> Bit(a.l > b.l) - Bit(a.l < b.l)
Neg(a) == LET l == Word(-a.l) IN I((U - 1 - a.h) + Bit(l = 0), l)
Add(a, b) == LET l == Word(a.l + b.l) IN I(a.h + b.h + Bit(l < a.l), l)
Sub(a, b) == I(a.h - b.h - Bit(a.l < b.l), a.l - b.l)
CarryAlsoEqual(sum, part) == Bit(sum <= part)          \* a carry also where nothing wrapped
\* The carries of the two middle products are seen where they wrap the low word.
Carry(sum, part) == Bit(sum < part)
Mul(a, b) ==
  LET prod00 == (a.l % Half) * (b.l % Half)
      prod10 == (a.l \div Half) * (b.l % Half)
      prod01 == (a.l % Half) * (b.l \div Half)
      prod11 == (a.l \div Half) * (b.l \div Half)
      p01 == Word(prod01 * Half)
      l1 == Word(prod00 + p01)
      p10 == Word(prod10 * Half)
      l2 == Word(l1 + p10)
      h == prod11 + prod01 \div Half + prod10 \div Half + Carry(l1, p01) + Carry(l2, p10)
  IN I(h + a.l * b.h + a.h * b.l, l2)

Times(w, s) == Word(w * 2^s)
Over(w, s) == w \div 2^s
Lsl(a, s) == IF s = 0 THEN a
             ELSE IF s < H THEN I(Times(a.h, s) | Over(a.l, H - s), Times(a.l, s))
             ELSE I(Times(a.l, s - H), 0)
LowAfterSigned(a, s) == Over(a.l, s) | Word(Over(Signed(a.h), s))  \* the wrong bits cross
LowAfter(a, s) == Over(a.l, s) | Times(a.h, H - s)
Lsr(a, s) == IF s = 0 THEN a
             ELSE IF s < H THEN I(Over(a.h, s), LowAfter(a, s))
             ELSE I(0, Over(a.h, s - H))
Asr(a, s) == IF s = 0 THEN a
             ELSE IF s < H THEN I(Over(Signed(a.h), s), LowAfter(a, s))
             ELSE I(Over(Signed(a.h), H - 1), Over(Signed(a.h), s - H))
Shl1(a) == I(Times(a.h, 1) | Over(a.l, H - 1), Times(a.l, 1))
Shr1(a) == I(Over(a.h, 1), Over(a.l, 1) | Times(a.h, H - 1))
Or64(a, b) == I(a.h | b.h, a.l | b.l)
OfInt32(w) == I(Over(Signed(w), H - 1), w)
ToInt32(a) == a.l

(* ------------------------- Division and remainder ----------------------- *)
Zero == I(0, 0)
Negative(a) == Signed(a.h) < 0
Abs(a) == IF Negative(a) THEN Neg(a) ELSE a

Init == /\ x \in {Pair(n) : n \in Xs} /\ y \in {Pair(n) : n \in Ys} /\ op \in {"div", "mod"}
        /\ pc = "start" /\ modulus = Zero /\ divisor = Zero /\ quotient = Zero /\ mask = Zero /\ res = Zero
Start == /\ pc = "start"
         /\ pc' = IF y = Zero THEN "raised" ELSE "scale"             \* Division_by_zero
         /\ modulus' = Abs(x) /\ divisor' = Abs(y) /\ quotient' = Zero /\ mask' = I(0, 1)
         /\ UNCHANGED <<x, y, op, res>>
\* The divisor is doubled until it is larger than the modulus, or can be doubled no more.
Fitting == Ucompare(divisor, modulus) < 0
ScaleMasked == /\ pc = "scale" /\ ~Negative(divisor)   \* the mask is doubled, the divisor is not
               /\ mask' = Shl1(mask)
               /\ pc' = IF Fitting THEN "scale" ELSE "subtract"
               /\ UNCHANGED <<x, y, op, modulus, divisor, quotient, res>>
Scale == /\ pc = "scale" /\ ~Negative(divisor)
         /\ divisor' = Shl1(divisor) /\ mask' = Shl1(mask)
         /\ pc' = IF Fitting THEN "scale" ELSE "subtract"
         /\ UNCHANGED <<x, y, op, modulus, quotient, res>>
Scaled == /\ pc = "scale" /\ Negative(divisor) /\ pc' = "subtract"
          /\ UNCHANGED <<x, y, op, modulus, divisor, quotient, mask, res>>
SubtractsAbove == Ucompare(modulus, divisor) > 0
Subtracts == Ucompare(modulus, divisor) >= 0
Subtract == /\ pc = "subtract" /\ mask # Zero
            /\ IF Subtracts THEN quotient' = Or64(quotient, mask) /\ modulus' = Sub(modulus, divisor)
               ELSE UNCHANGED <<quotient, modulus>>
            /\ mask' = Shr1(mask) /\ divisor' = Shr1(divisor)
            /\ UNCHANGED <<x, y, op, pc, res>>
SignOfBoth == Negative(x) # Negative(y)                \* also for the remainder
\* The quotient has the sign of x ^ y, the remainder that of x.
SignOfResult == IF op = "div" THEN Negative(x) # Negative(y) ELSE Negative(x)
Finish == /\ pc = "subtract" /\ mask = Zero /\ pc' = "done"
          /\ LET r == IF op = "div" THEN quotient ELSE modulus
             IN res' = IF SignOfResult THEN Neg(r) ELSE r
          /\ UNCHANGED <<x, y, op, modulus, divisor, quotient, mask>>
Next == Start \/ Scale \/ Scaled \/ Subtract \/ Finish
Spec == Init /\ [][Next]_vars /\ WF_vars(Next)

(* ------------------------------ Properties ------------------------------ *)
All == U * U
Size(n) == IF n < 0 THEN -n ELSE n

\* The carries between the words make the arithmetic that of one word of 2 * H bits.
ArithmeticIsModular ==
  pc = "start" => /\ Val(Neg(x)) = (-Val(x)) % All
                  /\ Val(Add(x, y)) = (Val(x) + Val(y)) % All
                  /\ Val(Sub(x, y)) = (Val(x) - Val(y)) % All
                  /\ Val(Mul(x, y)) = (Val(x) * Val(y)) % All

\* A shift by any distance, also over the boundary of the words, is that of one word.
ShiftsCrossWords ==
  pc = "start" => \A s \in 0..2 * H - 1 : /\ Val(Lsl(x, s)) = (Val(x) * 2^s) % All
                                          /\ Val(Lsr(x, s)) = Val(x) \div 2^s
                                          /\ SVal(Asr(x, s)) = SVal(x) \div 2^s

\* The orders are those of the numbers, and coercions keep the number.
ComparisonsAgree ==
  pc = "start" => /\ Ucompare(x, y) = Bit(Val(x) > Val(y)) - Bit(Val(x) < Val(y))
                  /\ Compare(x, y) = Bit(SVal(x) > SVal(y)) - Bit(SVal(x) < SVal(y))
                  /\ SVal(OfInt32(x.l)) = Signed(x.l) /\ ToInt32(OfInt32(x.l)) = x.l

\* While it subtracts: what is found times the divisor and what is left make the modulus, and what
\* is left is within the bits still to be found.
LoopDivides ==
  pc = "subtract" =>
    /\ Val(quotient) * Val(Abs(y)) + Val(modulus) = Val(Abs(x))
    /\ mask # Zero => Val(divisor) = Val(mask) * Val(Abs(y)) /\ Val(modulus) < 2 * Val(divisor)

\* The result is the quotient rounded towards zero, with its remainder, modulo the word size.
QuotientIsRounded ==
  pc = "done" =>
    LET q == Size(SVal(x)) \div Size(SVal(y))
        exact == IF op = "div" THEN (IF (SVal(x) < 0) # (SVal(y) < 0) THEN -q ELSE q)
                 ELSE (IF SVal(x) < 0 THEN -1 ELSE 1) * (Size(SVal(x)) % Size(SVal(y)))
    IN Val(res) = exact % All

=============================================================================
