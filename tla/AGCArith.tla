------------------------------ MODULE AGCArith ------------------------------
(***************************************************************************)
(* The ones'-complement word arithmetic of the Block I AGC (spec 4.5, 4.7, *)
(* 8 "Laws").  A memory word has WordBits data bits (15 in the machine);   *)
(* the adder and the bus are one bit wider (bit 16): a word is sign-       *)
(* extended onto the bus, added with end-around carry, overflow is bit 16  *)
(* differing from bit 15, and a value written back to memory takes bit 16  *)
(* as its sign ("overflow-corrected"), which is how an involuntary counter *)
(* wraps to +0 and passes the overflow on to the next counter.             *)
(*                                                                         *)
(* The ALU is not under src/: these operators are modelled from the spec.  *)
(***************************************************************************)
EXTENDS Integers

CONSTANT WordBits       \* data bits of a memory word (15 in the AGC)

(* A word has at least a sign and one magnitude bit.  The powers of two   *)
(* are stated as facts of the width, since the provers know nothing of ^.  *)
ASSUME WordBitsAssumption ==
  /\ WordBits \in Nat /\ WordBits >= 2
  /\ 2^(WordBits - 1) \in Nat /\ 2^(WordBits - 1) >= 2
  /\ 2^WordBits = 2 * 2^(WordBits - 1)

WordMod  == 2^WordBits                  \* number of memory words
BusMod   == 2 * WordMod                 \* number of bus (adder) values
SignBit  == WordMod \div 2              \* bit 15 of a word
Word     == 0 .. WordMod - 1
BusWord  == 0 .. BusMod - 1

\* Copy bit 15 of a memory word into bit 16 of the bus.
SignExt(w) == IF w >= SignBit THEN w + WordMod ELSE w

\* A mutant of the adder that drops the end-around carry.
AddNoCarry(x, y) == (x + y) % BusMod

\* The adder: U = X + Y with the carry out of bit 16 added back into bit 1.
Add(x, y) == IF x + y >= BusMod THEN x + y - BusMod + 1 ELSE x + y

\* Bits 16 and 15 of an adder result disagree.
Overflow(u) == (u \div WordMod) # ((u \div SignBit) % 2)

\* +1 when the result overflowed positively, -1 negatively, 0 otherwise.
OvfSign(u) == IF ~Overflow(u) THEN 0 ELSE IF u < WordMod THEN 1 ELSE -1

\* The word written to memory: bit 16 becomes the sign, bits 14..1 kept.
Store(u) == (u \div WordMod) * SignBit + (u % SignBit)

\* The involuntary counter updates PINC and MINC on the bus.
MinusOne == BusMod - 2
PINCSum(w) == Add(SignExt(w), 1)
MINCSum(w) == Add(SignExt(w), MinusOne)

-----------------------------------------------------------------------------
(* Reference definitions: the integer a ones'-complement word stands for.  *)
WordVal(w) == IF w >= SignBit THEN w - (WordMod - 1) ELSE w
BusVal(u)  == IF u >= WordMod THEN u - (BusMod - 1) ELSE u

(***************************************************************************)
(* The adder computes the integer sum of its sign-extended operands a and  *)
(* b; it signals overflow exactly when that sum leaves the range of a      *)
(* word, and the overflow-corrected word written back differs from the sum *)
(* by one overflow unit (SignBit), which is what a counter passes to the   *)
(* next (spec 4.5; the law 077777 + 1 = 00001 of spec 8).                  *)
(***************************************************************************)
AdderCorrect(a, b) ==
  LET u == Add(SignExt(a), SignExt(b)) IN
  /\ u \in BusWord
  /\ BusVal(u) = WordVal(a) + WordVal(b)
  /\ Overflow(u) <=> (WordVal(a) + WordVal(b) >= SignBit
                       \/ WordVal(a) + WordVal(b) <= -SignBit)
  /\ WordVal(Store(u)) + OvfSign(u) * SignBit = WordVal(a) + WordVal(b)
=============================================================================
