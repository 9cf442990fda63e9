--------------------------- MODULE AGCArithProofs ---------------------------
(***************************************************************************)
(* Proofs about the ones'-complement arithmetic, for every word width: the *)
(* operators keep words and bus values in range, and the adder agrees with *)
(* integer arithmetic.                                                      *)
(***************************************************************************)
EXTENDS AGCArith, TLAPS

(* The sizes the width gives, as plain integers.                           *)
LEMMA Sizes ==
  /\ SignBit \in Nat /\ SignBit >= 2
  /\ WordMod = 2 * SignBit /\ BusMod = 2 * WordMod
<1>1. SignBit = 2^(WordBits - 1)
  <2>1. WordMod \div 2 = 2^(WordBits - 1)
    BY WordBitsAssumption DEF WordMod
  <2>. QED  BY <2>1 DEF SignBit
<1>. QED  BY <1>1, WordBitsAssumption DEF WordMod, BusMod

(* Sign extension puts a word on the bus.                                  *)
LEMMA SignExtType == \A w \in Word : SignExt(w) \in BusWord
BY Sizes DEF SignExt, Word, BusWord

(* The adder with end-around carry keeps bus values on the bus.            *)
LEMMA AddType == \A x, y \in BusWord : Add(x, y) \in BusWord
BY Sizes DEF Add, BusWord

(* The overflow-corrected write-back of a bus value is a word.             *)
LEMMA StoreType == \A u \in BusWord : Store(u) \in Word
<1>. SUFFICES ASSUME NEW u \in BusWord PROVE Store(u) \in Word
  OBVIOUS
<1>1. u \div WordMod \in 0 .. 1
  BY Sizes DEF BusWord
<1>2. u % SignBit \in 0 .. SignBit - 1
  BY Sizes DEF BusWord
<1>. QED  BY <1>1, <1>2, Sizes DEF Store, Word

(* The counter updates PINC and MINC give bus values.                      *)
LEMMA CounterSumsType ==
  \A w \in Word : PINCSum(w) \in BusWord /\ MINCSum(w) \in BusWord
<1>. SUFFICES ASSUME NEW w \in Word
              PROVE PINCSum(w) \in BusWord /\ MINCSum(w) \in BusWord
  OBVIOUS
<1>1. 1 \in BusWord /\ MinusOne \in BusWord
  BY Sizes DEF BusWord, MinusOne
<1>. QED  BY <1>1, SignExtType, AddType DEF PINCSum, MINCSum

(* Overflow correction: the word written back plus the overflow passed on *)
(* is the value the bus held.                                              *)
LEMMA StoreCorrection ==
  \A u \in BusWord : WordVal(Store(u)) + OvfSign(u) * SignBit = BusVal(u)
<1>. SUFFICES ASSUME NEW u \in BusWord
              PROVE WordVal(Store(u)) + OvfSign(u) * SignBit = BusVal(u)
  OBVIOUS
<1>. USE Sizes DEF BusWord
<1>1. CASE u < SignBit
  <2>1. Store(u) = u /\ ~Overflow(u)
    BY <1>1 DEF Store, Overflow
  <2>. QED  BY <1>1, <2>1 DEF WordVal, BusVal, OvfSign
<1>2. CASE SignBit <= u /\ u < WordMod
  <2>1. u \div WordMod = 0 /\ u \div SignBit = 1 /\ u % SignBit = u - SignBit
    BY <1>2
  <2>2. Store(u) = u - SignBit /\ Overflow(u)
    BY <2>1 DEF Store, Overflow
  <2>. QED  BY <1>2, <2>2 DEF WordVal, BusVal, OvfSign
<1>3. CASE WordMod <= u /\ u < WordMod + SignBit
  <2>1. Store(u) = u - WordMod + SignBit /\ Overflow(u)
    BY <1>3 DEF Store, Overflow
  <2>. QED  BY <1>3, <2>1 DEF WordVal, BusVal, OvfSign
<1>4. CASE WordMod + SignBit <= u
  <2>1. Store(u) = u - WordMod /\ ~Overflow(u)
    BY <1>4 DEF Store, Overflow
  <2>. QED  BY <1>4, <2>1 DEF WordVal, BusVal, OvfSign
<1>. QED  BY <1>1, <1>2, <1>3, <1>4

(***************************************************************************)
(* The adder of spec 4.5 computes the ones'-complement sum for words of    *)
(* every width: the sum, the overflow signal and the overflow-corrected    *)
(* word agree with the integers the operands stand for.                    *)
(***************************************************************************)
THEOREM AdderCorrectAllWidths == \A a, b \in Word : AdderCorrect(a, b)
<1>. SUFFICES ASSUME NEW a \in Word, NEW b \in Word PROVE AdderCorrect(a, b)
  OBVIOUS
<1>. DEFINE u == Add(SignExt(a), SignExt(b))
<1>1. u \in BusWord
  BY SignExtType, AddType
<1>2. BusVal(u) = WordVal(a) + WordVal(b)
  BY Sizes DEF Add, SignExt, BusVal, WordVal, Word
<1>3. Overflow(u) <=> (WordVal(a) + WordVal(b) >= SignBit
                        \/ WordVal(a) + WordVal(b) <= -SignBit)
  BY Sizes DEF Add, SignExt, Overflow, WordVal, Word
<1>4. WordVal(Store(u)) + OvfSign(u) * SignBit = WordVal(a) + WordVal(b)
  BY <1>1, <1>2, StoreCorrection
<1>. QED  BY <1>1, <1>2, <1>3, <1>4 DEF AdderCorrect
=============================================================================
