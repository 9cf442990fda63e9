-------------------------- MODULE MC_AGCArithProofs -------------------------
(***************************************************************************)
(* The property run MC_arith checks for 4-bit words, proved for every      *)
(* width from AdderCorrectAllWidths.                                       *)
(***************************************************************************)
EXTENDS MC_AGCArith, AGCArithProofs

(* The operands the run enumerates are words.                              *)
OperandsOK == augend \in Word /\ addend \in Word

(***************************************************************************)
(* The invariant AdderMatchesReference that run MC_arith checks for 4-bit  *)
(* words holds in every behaviour of ArithSpec, whatever the width.        *)
(***************************************************************************)
THEOREM AdderReference == ArithSpec => []AdderMatchesReference
<1>1. ArithInit => OperandsOK
  BY DEF ArithInit, OperandsOK
<1>2. OperandsOK /\ [ArithNext]_<<augend, addend>> => OperandsOK'
  BY DEF OperandsOK, ArithNext
<1>3. OperandsOK => AdderMatchesReference
  BY AdderCorrectAllWidths DEF OperandsOK, AdderMatchesReference
<1>. QED  BY <1>1, <1>2, <1>3, PTL DEF ArithSpec
=============================================================================
