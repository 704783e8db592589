--------------------------------- MODULE Arith ---------------------------------
(***************************************************************************)
(* Integer arithmetic: the tagged integers of byterun/interp.c and the     *)
(* boxed int32 and nativeint of byterun/ints.c, on machine words.  A       *)
(* register holds a word of one kind; any operation may follow any other,  *)
(* and beside it goes the number it stands for.                            *)
(***************************************************************************)
EXTENDS Integers, Bitwise

CONSTANTS Archs,         \* machines: [word, i32], the bits of a word and of an int32
          Operands       \* of the two-operand operations: numbers

ArithAssumption == \A m \in Archs : m.i32 >= 3 /\ m.word >= m.i32

VARIABLES arch, safe,    \* the machine; NONSTANDARD_DIV_MOD
          kind, reg,     \* "int", "int32" or "native"; the word
          number,        \* what it stands for
          state          \* "runs", "raised" or "trapped" (a division the machine cannot do)
vars == <<arch, safe, kind, reg, number, state>>

Bits(k) == IF k = "int32" THEN arch.i32 ELSE arch.word
Wrap(w, n) == LET m == n % 2^w IN IF m >= 2^(w - 1) THEN m - 2^w ELSE m
W == arch.word
Word(n) == n % 2^W
SInt(w) == Wrap(W, w)                                       \* (intnat)
ValLong(n) == Word(2 * n + 1)
LongVal(w) == SInt(w) \div 2

\* What a register of a kind stands for, and how many bits that has.
Width(k) == IF k = "int" THEN W - 1 ELSE Bits(k)
Value(k, w) == IF k = "int" THEN LongVal(w) ELSE Wrap(Bits(k), w)
Box(k, n) == IF k = "int" THEN ValLong(n) ELSE n % 2^Bits(k)

(* ---------------------------- Tagged integers --------------------------- *)
Size(n) == IF n < 0 THEN -n ELSE n
\* C's division and remainder round towards zero.
CDiv(p, q) == IF (p < 0) = (q < 0) THEN Size(p) \div Size(q) ELSE -(Size(p) \div Size(q))
CMod(p, q) == IF p < 0 THEN -(Size(p) % Size(q)) ELSE Size(p) % Size(q)
\* caml_safe_div and caml_safe_mod: by absolute values, as unsigned words.
SafeDiv(p, q) == LET ar == Word(Size(p)) \div Word(Size(q)) IN IF (p < 0) = (q < 0) THEN ar ELSE -ar
SafeMod(p, q) == LET ar == Word(Size(p)) % Word(Size(q)) IN IF p >= 0 THEN ar ELSE -ar
Div(p, q) == IF safe THEN SafeDiv(p, q) ELSE CDiv(p, q)
Mod(p, q) == IF safe THEN SafeMod(p, q) ELSE CMod(p, q)

NegInt(a) == Word(2 - a)
AddInt(a, b) == Word(a + b - 1)
SubInt(a, b) == Word(a - b + 1)
MulInt(a, b) == ValLong(LongVal(a) * LongVal(b))
DivInt(a, b) == ValLong(Div(LongVal(a), LongVal(b)))
ModInt(a, b) == ValLong(Mod(LongVal(a), LongVal(b)))
AndInt(a, b) == a & b
OrInt(a, b) == a | b
XorInt(a, b) == (a ^^ b) | 1
LslInt(a, s) == Word((a - 1) * 2^s + 1)
LsrIntSigned(a, s) == Word((SInt(a) - 1) \div 2^s) | 1   \* mutant: the shift of intnat
LsrInt(a, s) == (Word(a - 1) \div 2^s) | 1
AsrInt(a, s) == Word((SInt(a) - 1) \div 2^s) | 1
OffsetInt(a, n) == Word(a + 2 * n)

(* ----------------------------- Boxed integers --------------------------- *)
Unsigned(k, a) == a % 2^Bits(k)
Boxed(op, k, a, b) ==
  LET p == Value(k, a)
      q == Value(k, b)
  IN Box(k, CASE op = "add" -> p + q [] op = "sub" -> p - q [] op = "mul" -> p * q
              [] op = "div" -> Div(p, q) [] op = "mod" -> Mod(p, q)
              [] op = "and" -> a & b [] op = "or" -> a | b [] op = "xor" -> a ^^ b
              [] op = "lsl" -> a * 2^q [] op = "lsr" -> Unsigned(k, a) \div 2^q [] op = "asr" -> p \div 2^q)
Tagged(op, a, b) ==
  CASE op = "add" -> AddInt(a, b) [] op = "sub" -> SubInt(a, b) [] op = "mul" -> MulInt(a, b)
    [] op = "div" -> DivInt(a, b) [] op = "mod" -> ModInt(a, b)
    [] op = "and" -> AndInt(a, b) [] op = "or" -> OrInt(a, b) [] op = "xor" -> XorInt(a, b)
    [] op = "lsl" -> LslInt(a, LongVal(b)) [] op = "lsr" -> LsrInt(a, LongVal(b)) [] op = "asr" -> AsrInt(a, LongVal(b))

\* The number an operation should give, modulo the width: integers, not words.
Exact(op, w, p, q) ==
  CASE op = "add" -> p + q [] op = "sub" -> p - q [] op = "mul" -> p * q
    [] op = "div" -> CDiv(p, q) [] op = "mod" -> p - q * CDiv(p, q)
    [] op \in {"and", "or", "xor"} -> LET bit(n, i) == (n \div 2^i) % 2
                                          both(x, y) == IF op = "and" THEN x * y ELSE IF op = "or" THEN x + y - x * y ELSE (x + y) % 2
                                          sum[i \in 0..w] == IF i = 0 THEN 0 ELSE sum[i - 1] + 2^(i - 1) * both(bit(p, i - 1), bit(q, i - 1))
                                      IN sum[w]
    [] op = "lsl" -> p * 2^q [] op = "lsr" -> (p % 2^w) \div 2^q [] op = "asr" -> p \div 2^q

Init == /\ arch \in Archs /\ safe \in BOOLEAN /\ kind = "int" /\ number = 0 /\ reg = ValLong(0) /\ state = "runs"

Runs == state = "runs"
Set(k, w, n) == kind' = k /\ reg' = w /\ number' = n /\ UNCHANGED <<arch, safe, state>>
Dividing(op) == op \in {"div", "mod"}
\* The smallest number by -1 has a quotient beyond a word: with the machine's division no C
\* program has a result, and common processors trap.
Overflows(op, b) == Dividing(op) /\ ~safe /\ kind # "int" /\ number = -(2^(Bits(kind) - 1)) /\ b = -1
Operate(op, b) ==
  /\ Runs /\ b \in -(2^(Width(kind) - 1))..2^(Width(kind) - 1) - 1
  /\ op \in {"lsl", "lsr", "asr"} => b \in 0..Width(kind) - 1      \* others are unspecified
  /\ (b = 0 => ~Dividing(op)) /\ ~Overflows(op, b)
  /\ Set(kind, IF kind = "int" THEN Tagged(op, reg, ValLong(b)) ELSE Boxed(op, kind, reg, Box(kind, b)),
         Wrap(Width(kind), Exact(op, Width(kind), number, b)))
ZeroDivide == Runs /\ state' = "raised" /\ UNCHANGED <<arch, safe, kind, reg, number>>
Overflow(op, b) == /\ Runs /\ Overflows(op, b)
                   /\ \/ state' = "trapped" /\ UNCHANGED <<arch, safe, kind, reg, number>>
                      \/ Set(kind, IF op = "div" THEN reg ELSE Box(kind, 0), IF op = "div" THEN number ELSE 0)
Negate == Runs /\ Set(kind, IF kind = "int" THEN NegInt(reg) ELSE Box(kind, -Value(kind, reg)), Wrap(Width(kind), -number))
Offset(b) == Runs /\ kind = "int" /\ Set(kind, OffsetInt(reg, b), Wrap(Width(kind), number + b))
\* caml_int32_of_int, caml_nativeint_to_int32 and the others: each keeps the low bits.
Convert(k) == Runs /\ k # kind /\ Set(k, Box(k, Value(kind, reg)), Wrap(Width(k), number))

Ops == {"add", "sub", "mul", "div", "mod", "and", "or", "xor", "lsl", "lsr", "asr"}
Next == \/ \E op \in Ops, b \in Operands : Operate(op, b) \/ Overflow(op, b)
        \/ ZeroDivide \/ Negate \/ \E b \in Operands : Offset(b)
        \/ \E k \in {"int", "int32", "native"} : Convert(k)
Spec == Init /\ [][Next]_vars

(* Comparisons of words. *)
Less(k, a, b) == IF k = "int" THEN SInt(a) < SInt(b) ELSE Wrap(Bits(k), a) < Wrap(Bits(k), b)
UnsignedLessSigned(a, b) == SInt(a) < SInt(b)               \* mutant: the typ of LTINT
UnsignedLess(a, b) == a < b                                \* ULTINT

(* ------------------------------ Properties ------------------------------ *)
\* Through any sequence of operations and conversions the word stands for the number computed
\* modulo the width of its kind, and a tagged integer keeps its tag.
StandsForItsNumber == /\ Value(kind, reg) = number
                      /\ kind = "int" => reg % 2 = 1

\* Nothing traps but the smallest boxed number, divided by -1 where the machine divides: int32.mli:21
\* says that all arithmetic is modular.
TrapsAtSmallest == state = "trapped" => ~safe /\ kind # "int" /\ number = -(2^(Bits(kind) - 1))

\* Words compare as their numbers; tagged ones, unsigned, as the numbers modulo their width.
WordsCompare ==
  \A b \in Operands : b \in -(2^(Width(kind) - 1))..2^(Width(kind) - 1) - 1 =>
    /\ Less(kind, reg, Box(kind, b)) = (number < b)
    /\ kind = "int" => UnsignedLess(reg, ValLong(b)) = (number % 2^(W - 1) < b % 2^(W - 1))

================================================================================
