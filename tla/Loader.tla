------------------------------- MODULE Loader -------------------------------
(***************************************************************************)
(* The 'l' key: loadMemory() (AGCmain.cpp 355-381).  It opens the .obj    *)
(* file named at the prompt and runs                                       *)
(*                                                                         *)
(*    while (fscanf(fp, "%o %o", &addr, &data) != EOF)                     *)
(*      MEM::writeMemory(addr, data);                                      *)
(*                                                                         *)
(* A file is the sequence of its tokens: an octal number (its value) or a  *)
(* character %o cannot read (Bad).  Whitespace and the digits themselves   *)
(* are abstracted away: "%o" skips blanks and reads one number.            *)
(***************************************************************************)
EXTENDS ObjFormat

CONSTANTS
  Bad,        \* a token at which %o fails (a non-octal character)
  NoFile,     \* fopen() fails: no file of the typed name
  Vals,       \* the unsigned values numbers in a file and on the stack take
  MemAddrs,   \* the addresses MEM holds words at
  Files       \* the token sequences of the .obj files that may be opened

ASSUME LoaderAssumption ==
  /\ Vals \subseteq Nat /\ MemAddrs \subseteq Vals /\ Vals # {}
  /\ Bad \notin Vals
  /\ Files \subseteq Seq(Vals \cup {Bad})

EOF == -1

VARIABLES
  mem,     \* MEM's words
  mem0,    \* history: the words before the load
  file,    \* the file on disk (NoFile if fopen fails)
  in,      \* the tokens fscanf() has not consumed
  pc,      \* "open", "scan" (in the while loop) or "done" (returned)
  addr,    \* the local unsigned addr
  data     \* the local unsigned data

vars == <<mem, mem0, file, in, pc, addr, data>>

(* MEM::writeMemory(): stores the word; MEM keeps no word at any other     *)
(* address.                                                                *)
WriteMemory(m, a, d) == IF a \in DOMAIN m THEN [m EXCEPT ![a] = d] ELSE m

(* fscanf(fp, "%o %o", &addr, &data) on the unread tokens t, with a and d *)
(* the values addr and data hold: the count of conversions (EOF if the    *)
(* input ends before the first), the new addr and data, the tokens left.  *)
(* A token %o cannot read ends the scan and stays unread.                 *)
FScanf(t, a, d) ==
  CASE t = <<>>      -> [ret |-> EOF, a |-> a, d |-> d, rest |-> t]
    [] t # <<>> /\ Head(t) = Bad
                     -> [ret |-> 0, a |-> a, d |-> d, rest |-> t]
    [] t # <<>> /\ Head(t) # Bad /\ (Len(t) = 1 \/ t[2] = Bad)
                     -> [ret |-> 1, a |-> t[1], d |-> d, rest |-> Tail(t)]
    [] OTHER         -> [ret |-> 2, a |-> t[1], d |-> t[2],
                         rest |-> SubSeq(t, 3, Len(t))]

(* The locals addr and data are uninitialised: any value the stack holds. *)
Init ==
  /\ mem \in [MemAddrs -> Vals]
  /\ mem0 = mem
  /\ file \in Files \cup {NoFile}
  /\ in = <<>>
  /\ pc = "open"
  /\ addr \in Vals /\ data \in Vals

(* fopen(fname, "r"): on failure report and return.                       *)
Open ==
  /\ pc = "open"
  /\ IF file = NoFile
       THEN pc' = "done" /\ UNCHANGED in
       ELSE pc' = "scan" /\ in' = file
  /\ UNCHANGED <<mem, mem0, file, addr, data>>

\* A mutant that swaps the arguments: MEM::writeMemory(data, addr).
ScanSwapped ==
  /\ pc = "scan"
  /\ LET r == FScanf(in, addr, data) IN
       /\ addr' = r.a /\ data' = r.d /\ in' = r.rest
       /\ IF r.ret = EOF
            THEN pc' = "done" /\ UNCHANGED mem
            ELSE mem' = WriteMemory(mem, r.d, r.a) /\ UNCHANGED pc
  /\ UNCHANGED <<mem0, file>>

\* A mutant whose loop condition tests != 0 instead of != EOF.
ScanUntilZero ==
  /\ pc = "scan"
  /\ LET r == FScanf(in, addr, data) IN
       /\ addr' = r.a /\ data' = r.d /\ in' = r.rest
       /\ IF r.ret = 0
            THEN pc' = "done" /\ UNCHANGED mem
            ELSE mem' = WriteMemory(mem, r.a, r.d) /\ UNCHANGED pc
  /\ UNCHANGED <<mem0, file>>

(* One pass of the while loop: the fscanf() of its condition and, unless  *)
(* it returned EOF, the writeMemory() of its body; at EOF, fclose() and    *)
(* return.                                                                 *)
Scan ==
  /\ pc = "scan"
  /\ LET r == FScanf(in, addr, data) IN
       /\ addr' = r.a /\ data' = r.d /\ in' = r.rest
       /\ IF r.ret = EOF
            THEN pc' = "done" /\ UNCHANGED mem
            ELSE mem' = WriteMemory(mem, r.a, r.d) /\ UNCHANGED pc
  /\ UNCHANGED <<mem0, file>>

Next == Open \/ Scan

(* The loader is a plain loop with no input: nothing but the loop itself  *)
(* runs until it returns.                                                  *)
Spec == Init /\ [][Next]_vars /\ WF_vars(Next)

-----------------------------------------------------------------------------
TypeOK ==
  /\ mem \in [MemAddrs -> Vals] /\ mem0 \in [MemAddrs -> Vals]
  /\ file \in Files \cup {NoFile}
  /\ in \in Seq(Vals \cup {Bad})
  /\ pc \in {"open", "scan", "done"}
  /\ addr \in Vals /\ data \in Vals

(***************************************************************************)
(* A finished load leaves exactly the file's records in memory (spec 7,   *)
(* the .obj format; spec 9, round trip): every address a record names     *)
(* holds the word of its last record, every other word is as it was, and *)
(* nothing is written that the file did not pair with its address.        *)
(***************************************************************************)
LoadMatchesFile ==
  pc = "done" /\ file # NoFile => mem = Loaded(mem0, file)

(***************************************************************************)
(* loadMemory() returns: the fscanf() loop ends on every file (spec 7:    *)
(* "Bad input file: the loader reports and returns without mutating       *)
(* memory").                                                               *)
(***************************************************************************)
LoadTerminates == <>(pc = "done")

=============================================================================
