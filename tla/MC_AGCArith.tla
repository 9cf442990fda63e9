---------------------------- MODULE MC_AGCArith -----------------------------
(***************************************************************************)
(* Checks the adder against the integer reference over every pair of      *)
(* words: the state is the pair of operands, and every step picks another. *)
(***************************************************************************)
EXTENDS AGCArith

VARIABLES augend, addend

ArithInit == augend \in Word /\ addend \in Word
ArithNext == augend' \in Word /\ addend' \in Word
ArithSpec == ArithInit /\ [][ArithNext]_<<augend, addend>>

(* The adder, overflow detection and overflow correction agree with the   *)
(* integer arithmetic of ones'-complement words for the two operands.     *)
AdderMatchesReference == AdderCorrect(augend, addend)
=============================================================================
