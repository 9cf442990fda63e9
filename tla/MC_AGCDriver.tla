---------------------------- MODULE MC_AGCDriver ----------------------------
(***************************************************************************)
(* Model-checking instances of AGCDriver.  Addresses are small integers;   *)
(* the counters are TIME1 (cell 0) and TIME2 (cell 1): TIME1 overflowing   *)
(* requests TIME2, TIME2 overflowing requests interrupt 0.                 *)
(***************************************************************************)
EXTENDS AGCDriver

MCCtrAddr   == [c \in Cells |-> 30 + c]
MCRuptVec   == [q \in Rupts |-> 2]
MCCtrChain  == [c \in Cells |-> IF c = 0 THEN {1} ELSE {}]
MCCtrRupt   == [c \in Cells |-> IF c = 1 THEN {0} ELSE {}]

(* Programs: three ADs and a TC back to the first.                        *)
HaltLoop == [a \in Addrs |->
               IF a = 3 THEN [op |-> "TC", k |-> 0] ELSE [op |-> "AD", k |-> 3]]
(* A loop that inhibits interrupts, then releases them.                    *)
InhLoop == [a \in Addrs |->
            CASE a = 0 -> [op |-> "INHINT", k |-> 3]
              [] a = 1 -> [op |-> "RELINT", k |-> 3]
              [] a = 2 -> [op |-> "RESUME", k |-> 3]
              [] OTHER -> [op |-> "TC", k |-> 0]]

HaltProgs    == {HaltLoop}
CounterProgs == {InhLoop}
=============================================================================
