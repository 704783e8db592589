-------------------------------- MODULE IntText --------------------------------
(***************************************************************************)
(* Integers as text: the conversions of byterun/ints.c from text, and the  *)
(* formatting of 64-bit integers of byterun/int64_format.h, whose results  *)
(* are read back.  A character is a number: 0..15 a digit (its value, 11   *)
(* also the b of 0b), the others named below.                              *)
(***************************************************************************)
EXTENDS Integers, Sequences

CONSTANTS W,             \* the bits of a machine word, and of the 64-bit integers
          Widths,        \* of int32, int and nativeint
          Texts,         \* what is parsed
          Formats        \* what integers are printed with

TextAssumption == W \in Nat \ {0} /\ \A n \in Widths : n \in 1..W

VARIABLES pc, nbits, text, p, base, sign, res, \* the parser: res is a word
          fmt, x, width, alternate, plus, minus, conv \* the formatter
vars == <<pc, nbits, text, p, base, sign, res, fmt, x, width, alternate, plus, minus, conv>>
formatter == <<fmt, x, width, alternate, plus, minus, conv>>

Underscore == 16
Minus == 17
LetterX == 18
LetterO == 19
Plus == 20
Space == 21
Other == 22
LetterB == 11
Hash == 23
Digit == 24              \* of a width, 1..9: the width of a format is one such character
LetterD == 25
LetterU == 26

Word(n) == n % 2^W
Signed(n, w) == LET m == n % 2^w IN IF m >= 2^(w - 1) THEN m - 2^w ELSE m
At(i) == IF i <= Len(text) THEN text[i] ELSE Other        \* the NUL behind the text

Idle == /\ width = 0 /\ alternate = FALSE /\ plus = FALSE /\ minus = FALSE /\ conv = 0
Init == /\ p = 1 /\ base = 10 /\ sign = 1 /\ res = 0 /\ Idle
        /\ \/ /\ pc = "sign" /\ text \in Texts /\ nbits \in Widths /\ fmt = <<>> /\ x = 0
           \/ /\ pc = "format" /\ text = <<>> /\ nbits = W /\ fmt \in Formats
              /\ x \in -(2^(W - 1))..2^(W - 1) - 1

(* ------------------------------- Parsing -------------------------------- *)
Fail == pc' = "failed" /\ UNCHANGED <<nbits, text, p, base, sign, res, formatter>>

\* parse_sign_and_base: in order, a sign and a prefix.
Prefix(i) == IF At(i) # 0 THEN 10
             ELSE CASE At(i + 1) = LetterX -> 16 [] At(i + 1) = LetterO -> 8
                    [] At(i + 1) = LetterB -> 2 [] OTHER -> 10
ParseSignAndBase ==
  /\ pc = "sign"
  /\ LET q == IF At(1) = Minus THEN 2 ELSE 1
     IN /\ sign' = IF At(1) = Minus THEN -1 ELSE 1
        /\ base' = Prefix(q)
        /\ p' = IF Prefix(q) = 10 THEN q ELSE q + 2
  /\ pc' = "first" /\ UNCHANGED <<nbits, text, res, formatter>>

IsDigit(c) == c < base
FirstDigit == /\ pc = "first" /\ IsDigit(At(p))
              /\ pc' = "digits" /\ res' = At(p) /\ p' = p + 1
              /\ UNCHANGED <<nbits, text, base, sign, formatter>>
NoDigit == pc = "first" /\ ~IsDigit(At(p)) /\ Fail

Threshold == (2^W - 1) \div base
MultiplyOverflowsAt == res > Threshold + 1
MultiplyOverflows == res > Threshold
AddOverflows(r, d) == r < d
SkipNothing == /\ pc = "digits" /\ At(p) = Underscore   \* the continue without its p++
               /\ UNCHANGED vars
Skip == /\ pc = "digits" /\ At(p) = Underscore /\ p' = p + 1
        /\ UNCHANGED <<pc, nbits, text, base, sign, res, formatter>>
NextDigit == /\ pc = "digits" /\ IsDigit(At(p)) /\ ~MultiplyOverflows
             /\ ~AddOverflows(Word(base * res + At(p)), At(p))
             /\ res' = Word(base * res + At(p)) /\ p' = p + 1
             /\ UNCHANGED <<pc, nbits, text, base, sign, formatter>>
Overflow == /\ pc = "digits" /\ IsDigit(At(p))
            /\ ~MultiplyOverflows => AddOverflows(Word(base * res + At(p)), At(p))
            /\ Fail

TooLarge == IF base = 10 THEN res > 2^(nbits - 1) ELSE nbits < W /\ res >= 2^nbits
Finish == /\ pc = "digits" /\ At(p) # Underscore /\ ~IsDigit(At(p))
          /\ IF p # Len(text) + 1 \/ TooLarge THEN Fail
             ELSE /\ pc' = "done" /\ res' = IF sign < 0 THEN Word(-res) ELSE res
                  /\ UNCHANGED <<nbits, text, p, base, sign, formatter>>
\* Val_long and caml_copy_int32 keep the low bits.
Result == Signed(res, nbits)

(* ------------------------------ Formatting ------------------------------ *)
\* One character of the format; the digits of a width take the character behind them along.
Format ==
  /\ pc = "format" /\ p <= Len(fmt)
  /\ LET c == fmt[p]
     IN /\ minus' = (minus \/ c = Minus)
        /\ plus' = (plus \/ c = Plus)
        /\ alternate' = (alternate \/ c = Hash)
        /\ width' = IF c = Digit THEN W ELSE width
        /\ conv' = IF c \in {LetterD, LetterU, LetterX, LetterO} THEN c ELSE conv
        /\ p' = IF c = Digit THEN p + 2 ELSE p + 1
  /\ UNCHANGED <<pc, nbits, text, base, sign, res, fmt, x>>

FormatBase == CASE conv = LetterX -> 16 [] conv = LetterO -> 8 [] OTHER -> 10
\* The conversion: a negative number of a signed one is negated and stays below 2^W.
Begin == /\ pc = "format" /\ p > Len(fmt)
         /\ IF conv = 0 THEN pc' = "sign" /\ UNCHANGED <<base, sign, res>>
            ELSE /\ pc' = "write" /\ base' = FormatBase
                 /\ sign' = IF conv = LetterD /\ x < 0 THEN -1 ELSE 1
                 /\ res' = Word(IF conv = LetterD /\ x < 0 THEN -x ELSE x)
         /\ UNCHANGED <<nbits, text, p, formatter>>

WriteWhile == /\ pc = "write"                           \* while ... do: zero has no digit
              /\ IF res = 0 THEN pc' = "layout" /\ UNCHANGED <<text, res>>
                 ELSE pc' = "write" /\ text' = <<res % base>> \o text /\ res' = res \div base
              /\ UNCHANGED <<nbits, p, base, sign, formatter>>
\* do ... while: zero has one digit.
Write == /\ pc = "write"
         /\ text' = <<res % base>> \o text /\ res' = res \div base
         /\ pc' = IF res \div base = 0 THEN "layout" ELSE "write"
         /\ UNCHANGED <<nbits, p, base, sign, formatter>>

SignText == IF sign < 0 THEN <<Minus>> ELSE IF conv = LetterD /\ plus THEN <<Plus>> ELSE <<>>
BaseText == IF ~alternate THEN <<>> ELSE IF base = 16 THEN <<0, LetterX>> ELSE IF base = 8 THEN <<0>> ELSE <<>>
Padding(n) == [i \in 1..(IF n < width THEN width - n ELSE 0) |-> Space]
Laid == LET body == SignText \o BaseText \o text
        IN IF minus THEN body \o Padding(Len(body)) ELSE Padding(Len(body)) \o body
Layout == /\ pc = "layout" /\ text' = Laid
          /\ pc' = "sign" /\ p' = 1 /\ res' = 0 /\ base' = 10 /\ sign' = 1
          /\ UNCHANGED <<nbits, formatter>>

Next == \/ ParseSignAndBase \/ FirstDigit \/ NoDigit \/ Skip \/ NextDigit \/ Overflow \/ Finish
        \/ Format \/ Begin \/ Write \/ Layout
Spec == Init /\ [][Next]_vars /\ WF_vars(Next)

(* ------------------------------ Properties ------------------------------ *)
\* The number a text stands for, by itself: its sign, its base and its digits, not its steps.
Start == IF At(1) = Minus THEN 2 ELSE 1
Body == LET q == IF Prefix(Start) = 10 THEN Start ELSE Start + 2
        IN SubSeq(text, q, Len(text))
IsLegal == /\ Body # <<>> /\ Body[1] # Underscore
           /\ \A i \in DOMAIN Body : Body[i] = Underscore \/ Body[i] < Prefix(Start)
Digits == SelectSeq(Body, LAMBDA c : c # Underscore)
Magnitude == LET v[i \in 0..Len(Digits)] == IF i = 0 THEN 0 ELSE v[i - 1] * Prefix(Start) + Digits[i]
             IN v[Len(Digits)]
Exact == IF At(1) = Minus THEN -Magnitude ELSE Magnitude
InRange == IF Prefix(Start) = 10 THEN Magnitude <= 2^(nbits - 1) ELSE Magnitude < 2^nbits

\* A text is accepted iff it is legal and in the range its base allows, whatever overflowed on the
\* way, and the result is its number modulo the width.
ParsesExactly ==
  /\ pc = "done" => IsLegal /\ InRange /\ Result = Signed(Exact, nbits)
  /\ pc = "failed" => ~(IsLegal /\ InRange)

\* What a format without width, forced sign and octal prints is read back as the same integer.
ReadsBack == /\ fmt # <<>> /\ width = 0 /\ ~plus /\ conv # LetterO
             /\ (conv = LetterX => alternate) /\ (conv = LetterU => x >= 0)
RoundTrips == pc \in {"done", "failed"} /\ ReadsBack => pc = "done" /\ Result = x

\* The conversion is over.
Ended == pc \in {"done", "failed"}
================================================================================
