------------------------------- MODULE Md5Buffer ------------------------------
(***************************************************************************)
(* The blocks that MD5 digests, cut from a message that comes in parts     *)
(* (byterun/md5.c): caml_MD5Update keeps the odd bytes and a count of bits *)
(* in two words, caml_MD5Final pads.  A byte of the message is its place   *)
(* in it; caml_MD5Transform takes a block.                                 *)
(***************************************************************************)
EXTENDS Naturals, Sequences

CONSTANTS Block,         \* 64 bytes; the count at the end takes 2 of them here
          Bits,          \* 8 bits
          Word,          \* 2^32, the range of half the count
          MaxPart, MaxLength

\* A word counts whole blocks, so the place in the block can be told from the low word.
Md5Assumption == /\ Block \in Nat \ {0} /\ Bits \in Nat \ {0} /\ Word \in Nat \ {0}
                        /\ Block > 2 /\ MaxPart \in Nat /\ MaxLength \in Nat
                        /\ Word % (Bits * Block) = 0

VARIABLES in,            \* the block being filled
          low, high,     \* bits[0], bits[1]
          done,          \* the blocks transformed
          length,        \* history: the bytes that came
          final
vars == <<in, low, high, done, length, final>>

Zero == 0
End == MaxLength + 1                              \* 0x80
Counted(l, h) == <<MaxLength + 2 + l, MaxLength + 2 + h>>
Zeros(n) == [i \in 1..n |-> Zero]
Part(n) == [i \in 1..n |-> length + i]
\* memcpy of s into the block after its first n bytes.
Put(n, s) == [i \in 1..Block |-> IF i > n /\ i <= n + Len(s) THEN s[i - n] ELSE in[i]]

Init == in = Zeros(Block) /\ low = 0 /\ high = 0 /\ done = <<>> /\ length = 0 /\ final = FALSE

Held == (low \div Bits) % Block
\* The count in two words: the carry is seen by the low word getting smaller.
CountUncarried(n) == /\ low' = (low + n * Bits) % Word
                     /\ high' = (high + (n * Bits) \div Word) % Word
Count(n) == /\ low' = (low + n * Bits) % Word
            /\ high' = (high + (IF low' < low THEN 1 ELSE 0) + (n * Bits) \div Word) % Word
\* Part s, its first bytes filling up the block, then whole blocks, then a rest.
FilledFromStart(s) == Put(0, SubSeq(s, 1, Block - Held))
Filled(s) == Put(Held, SubSeq(s, 1, Block - Held))
Whole(s) == [k \in 1..Len(s) \div Block |-> SubSeq(s, (k - 1) * Block + 1, k * Block)]
Rest(s) == SubSeq(s, (Len(s) \div Block) * Block + 1, Len(s))
LastWhole(s, else) == IF Whole(s) = <<>> THEN else ELSE Whole(s)[Len(Whole(s))]
Over(block, s) == [i \in 1..Block |-> IF i <= Len(s) THEN s[i] ELSE block[i]]

\* caml_MD5Update.
UpdateShort(n) == /\ Held > 0 /\ n < Block - Held
                  /\ in' = Put(Held, Part(n)) /\ UNCHANGED done
UpdateLong(n) ==
  LET first == IF Held = 0 THEN 0 ELSE Block - Held
      s == SubSeq(Part(n), first + 1, n)
      head == IF Held = 0 THEN <<>> ELSE <<Filled(Part(n))>>
  IN /\ n >= first
     /\ done' = done \o head \o Whole(s)
     /\ in' = Over(LastWhole(s, IF head = <<>> THEN in ELSE head[1]), Rest(s))
Update(n) == /\ ~final /\ length + n <= MaxLength /\ Count(n)
             /\ UpdateShort(n) \/ UpdateLong(n)
             /\ length' = length + n /\ UNCHANGED final
TwoBlocksRarely == Block - 1 - Held < 1
TwoBlocks == Block - 1 - Held < 2
\* caml_MD5Final: one block or two.
Final ==
  LET start == Put(Held, <<End>>)
      blank(block, from, to) == [i \in 1..Block |-> IF i >= from /\ i <= to THEN Zero ELSE block[i]]
      counted(block) == [i \in 1..Block |-> IF i > Block - 2 THEN Counted(low, high)[i - (Block - 2)] ELSE block[i]]
  IN /\ ~final /\ final' = TRUE
     /\ done' = done \o (IF TwoBlocks THEN <<blank(start, Held + 2, Block), counted(blank(in, 1, Block - 2))>>
                         ELSE <<counted(blank(start, Held + 2, Block - 2))>>)
     /\ UNCHANGED <<in, low, high, length>>

Next == (\E n \in 0..MaxPart : Update(n)) \/ Final
Spec == Init /\ [][Next]_vars

(* ------------------------------ Properties ------------------------------ *)
\* The bytes digested and those held are the message, however it was cut into parts, and the
\* count of bits in two words is that of the message.
Message == [i \in 1..length |-> i]
Digested(n) == [i \in 1..n |-> done[(i - 1) \div Block + 1][((i - 1) % Block) + 1]]
PartsAreTheMessage == ~final => /\ Digested(Block * Len(done)) \o SubSeq(in, 1, length - Block * Len(done)) = Message
                                /\ length - Block * Len(done) \in 0..Block - 1
CountIsRight == low + Word * high = (Bits * length) % (Word * Word)
\* What is digested in the end is the padded message: the end mark, zeros up to the place of the
\* count, the count, in the least number of blocks.
Padding == CHOOSE k \in 0..Block - 1 : (length + 1 + k + 2) % Block = 0
PaddingIsRight == final => Digested(Block * Len(done)) = Message \o <<End>> \o Zeros(Padding) \o Counted(low, high)

================================================================================
