------------------------------ MODULE ObjFormat ------------------------------
(***************************************************************************)
(* The meaning of an .obj file (spec 7): a sequence of whole records, an  *)
(* address followed by its data word; loading it stores each record's      *)
(* word at its address, so the last record for an address wins.  What    *)
(* the loop of loadMemory() (module Loader) leaves in memory is stated    *)
(* against these definitions.                                              *)
(***************************************************************************)
EXTENDS Integers, Sequences, FiniteSetsExt

(* The records of file f that name address a: record i is the pair of     *)
(* tokens 2i-1 and 2i; a trailing odd token is no record.                 *)
RecordsAt(f, a) == {i \in 1 .. Len(f) \div 2 : f[2 * i - 1] = a}

(* Memory m after loading the records of f.                               *)
Loaded(m, f) ==
  [a \in DOMAIN m |-> IF RecordsAt(f, a) = {} THEN m[a]
                      ELSE f[2 * Max(RecordsAt(f, a))]]
=============================================================================
