------------------------------ MODULE MC_Loader -----------------------------
(* Instances of the loader: files of up to two records over three values, *)
(* one of which is no address of MEM.                                      *)
EXTENDS Loader

FilesOfLen(n) == [1 .. n -> Vals \cup {Bad}]

(* Whole records of numbers: what an .obj file written to spec holds.     *)
WellFormedFiles == UNION {[1 .. 2 * n -> Vals] : n \in 0 .. 2}

(* A last record cut short after its address.                             *)
TruncatedFiles == UNION {[1 .. n -> Vals] : n \in {1, 3}}

(* A character %o cannot read somewhere in the file.                      *)
GarbledFiles ==
  {f \in UNION {FilesOfLen(n) : n \in 1 .. 3} : \E i \in DOMAIN f : f[i] = Bad}
=============================================================================
