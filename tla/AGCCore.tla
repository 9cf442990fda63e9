------------------------------ MODULE AGCCore -------------------------------
(***************************************************************************)
(* The AGC core as genAGCStates() drives it: one evaluation of the control *)
(* pulses of the current timing pulse, computed from the latched (master)  *)
(* registers and written into the registers' inputs (slaves), which the    *)
(* next CLK::clkAGC() latches.  Memory words and the request lines         *)
(* pcUp[]/pcDn[]/rupt[] are not latched: an evaluation writes them at once.*)
(*                                                                         *)
(* The subsystems (TPG, SEQ, CPM, CTR, INT, ALU, MEM) are not under src/;  *)
(* they are modelled from the spec at memory-cycle (MCT) granularity:      *)
(*   - TPG: the timing-pulse state machine of spec 4.1;                    *)
(*   - SEQ/CPM: subsequences of one or two MCTs, SNI set on the last MCT,  *)
(*     CLISQ at TP1, the next subsequence chosen at TP12 with SNI (4.2,    *)
(*     4.3, 4.7): counters first, then an enabled interrupt, else the next *)
(*     instruction;                                                        *)
(*   - CTR/INT: request lines latched into UpCELL/DnCELL/RPCELL at the     *)
(*     synchronising pulse, lines cleared on capture (spec 5);             *)
(*   - PINC/MINC: the counter word read and summed into G at one TP and    *)
(*     written back from G at a later TP, overflow raising the chained     *)
(*     counter or interrupt requests (spec 4.7, 7).                        *)
(* Data is abstracted: an instruction is an opcode class and an address;   *)
(* whether an AD overflows is part of the program (opcode ADOVF).          *)
(***************************************************************************)
EXTENDS AGCArith

CONSTANTS
  NTP,        \* timing pulses per memory cycle (TP1..TP12 in the AGC)
  SyncTP,     \* TP whose WPCTR/WPINT pulse latches the request lines
  RdTP,       \* TP at which a counter word is read and summed into G
  WrTP,       \* TP at which G is written back to the counter word
  Cells,      \* involuntary counter cells (bits of UpCELL and DnCELL)
  Rupts,      \* interrupt priorities (bits of RPCELL); lower is higher
  Addrs,      \* addresses of the program words the model distinguishes
  StartAddr,  \* Z after GENRST
  CtrAddr,    \* CtrAddr[c]: CADR of the word of counter c
  ZRUPTAddr,  \* CADR of ZRUPT, written by the interrupt subsequence
  RuptVec,    \* RuptVec[p]: address of the handler of priority p
  CtrChain,   \* CtrChain[c]: counters requested when counter c overflows
  CtrRupt     \* CtrRupt[c]: interrupts requested when counter c overflows

(* The opcode classes the model distinguishes, and the subsequences.      *)
Ops      == {"TC", "AD", "ADOVF", "INHINT", "RELINT", "RESUME"}
Counters == {"PINC", "MINC"}
Subseqs  == Ops \cup Counters \cup {"GOJ", "RUPT"}
Instr    == [op : Ops, k : Addrs]
CADRs    == Addrs \cup {CtrAddr[c] : c \in Cells} \cup {ZRUPTAddr}

ASSUME CoreAssumption ==
  /\ NTP \in Nat /\ Addrs \subseteq Nat /\ StartAddr \in Addrs
  /\ {1, RdTP, WrTP, SyncTP, NTP - 1, NTP} \subseteq 1 .. NTP
  /\ 1 < RdTP /\ RdTP < WrTP /\ WrTP < NTP - 1
  /\ SyncTP \notin {1, RdTP, WrTP, NTP - 1, NTP}
  /\ Cells \subseteq Nat /\ Cells # {} /\ Rupts \subseteq Nat
  /\ CtrAddr \in [Cells -> Nat] /\ ZRUPTAddr \in Nat
  /\ RuptVec \in [Rupts -> Addrs]
  /\ CtrChain \in [Cells -> SUBSET Cells] /\ CtrRupt \in [Cells -> SUBSET Rupts]

(* A program is the fixed memory: every address holds an instruction, and *)
(* a word that is not a TC is followed by another word of the program.    *)
Programs ==
  {p \in [Addrs -> Instr] : \A a \in Addrs : p[a].op # "TC" => a + 1 \in Addrs}

-----------------------------------------------------------------------------
(* TPG states: STBY is register value 0, then TP1..TPn, PWRON and WAIT.   *)
STBY     == 0
PWRON    == NTP + 1
WAIT     == NTP + 2
TPs      == 1 .. NTP
SGStates == 0 .. NTP + 2

Lowest(S) == CHOOSE x \in S : \A y \in S : x <= y

Monitor == [purst : BOOLEAN, run : BOOLEAN, step : BOOLEAN, inst : BOOLEAN,
            fclk : BOOLEAN, sa : BOOLEAN, sclEnab : BOOLEAN]

Regs == [sg : SGStates, sni : BOOLEAN, seq : Subseqs, stage : 0 .. 1,
         k : Addrs, cell : Cells, z : Addrs, s : CADRs, zrupt : Addrs,
         g : BusWord, inhint : BOOLEAN, inhint1 : BOOLEAN,
         upCell : SUBSET Cells, dnCell : SUBSET Cells, rpCell : SUBSET Rupts]

Lines == [up : SUBSET Cells, dn : SUBSET Cells, rupt : SUBSET Rupts]
NoLines == [up |-> {}, dn |-> {}, rupt |-> {}]

(* TPG::doexecWP_TPG: the next timing state (spec 4.1; STEP and INST from  *)
(* spec 6: a step runs one MCT, or with INST up to the end of an          *)
(* instruction, SNI).                                                      *)
NextSG(r, m) ==
  CASE m.purst        -> PWRON
    [] r.sg = PWRON   -> WAIT
    [] r.sg = STBY    -> STBY
    [] r.sg = WAIT    -> IF m.sa THEN STBY
                         ELSE IF m.run \/ m.step THEN 1 ELSE WAIT
    [] r.sg < NTP     -> r.sg + 1
    [] OTHER          -> IF m.run \/ (m.inst /\ ~r.sni) THEN 1 ELSE WAIT

(* GENRST, issued in STBY and PWRON: clears the sequencer, the priority   *)
(* cells and the inhibits; memory (ZRUPT) survives.                        *)
GENRST(r) ==
  [r EXCEPT !.sni = FALSE, !.seq = "GOJ", !.stage = 0, !.k = StartAddr,
            !.z = StartAddr, !.s = StartAddr, !.g = 0, !.inhint = FALSE,
            !.inhint1 = FALSE, !.upCell = {}, !.dnCell = {}, !.rpCell = {}]

MCTs(q) == IF q \in {"TC", "GOJ"} \cup Counters THEN 1 ELSE 2
LastMCT(r) == r.stage = MCTs(r.seq) - 1

(* What the first MCT of an instruction does to the control registers.    *)
EndMCT(r) ==
  IF r.stage # 0 THEN r
  ELSE CASE r.seq = "INHINT" -> [r EXCEPT !.inhint = TRUE]
         [] r.seq = "RELINT" -> [r EXCEPT !.inhint = FALSE]
         [] r.seq = "RESUME" -> [r EXCEPT !.z = r.zrupt, !.inhint = FALSE]
         [] r.seq = "ADOVF"  -> [r EXCEPT !.inhint1 = TRUE]
         [] OTHER            -> r

(* The next MCT of the same subsequence fetches the next instruction.     *)
Advance(r) == LET e == EndMCT(r) IN [e EXCEPT !.stage = 1, !.s = e.z]

(* Fetch of instruction word w when Z held z: SQ and S take its opcode and *)
(* address; Z is incremented, or loaded with the address of a TC.          *)
\* A mutant that never takes the branch of a TC.
FetchNoJump(b, w, z) == [b EXCEPT !.seq = w.op, !.k = w.k, !.s = w.k, !.z = z + 1]

Fetch(b, w, z) ==
  [b EXCEPT !.seq = w.op, !.k = w.k, !.s = w.k,
            !.z = IF w.op = "TC" THEN w.k ELSE z + 1]

(* TP12 with SNI: the priority arbitration of spec 4.7, and INHINT1       *)
(* cleared at the end of an instruction, not of a counter subsequence     *)
(* (spec 3.5 and the v1.15 fix noted at AGCmain.cpp 81-84).               *)
Select(r, p) ==
  LET b == [r EXCEPT !.stage = 0, !.inhint1 = r.inhint1 /\ r.seq \in Counters] IN
  CASE r.upCell # {} ->
         LET c == Lowest(r.upCell) IN
         [b EXCEPT !.seq = "PINC", !.cell = c, !.upCell = @ \ {c}, !.s = CtrAddr[c]]
    [] r.dnCell # {} ->
         LET c == Lowest(r.dnCell) IN
         [b EXCEPT !.seq = "MINC", !.cell = c, !.dnCell = @ \ {c}, !.s = CtrAddr[c]]
    [] r.rpCell # {} /\ ~r.inhint /\ ~r.inhint1 ->
         LET q == Lowest(r.rpCell) IN
         [b EXCEPT !.seq = "RUPT", !.rpCell = @ \ {q}, !.zrupt = r.z,
                   !.z = RuptVec[q], !.inhint = TRUE, !.s = ZRUPTAddr]
    [] OTHER -> Fetch(b, p[r.z], r.z)

CounterSum(q, w) == IF q = "PINC" THEN PINCSum(w) ELSE MINCSum(w)

(* The write-back of a counter word from G.                                *)
CounterWrite(r) == r.sg = WrTP /\ r.seq \in Counters

(* WPCTR and WPINT: the priority cells take the request lines.            *)
\* A mutant that loads the cells instead of or-ing the lines into them.
CaptureOverwrite(r, ln) ==
  [r EXCEPT !.upCell = ln.up, !.dnCell = ln.dn, !.rpCell = ln.rupt]

Capture(r, ln) ==
  [r EXCEPT !.upCell = @ \cup ln.up, !.dnCell = @ \cup ln.dn,
            !.rpCell = @ \cup ln.rupt]

(* The control pulses of the current TP acting on the registers.           *)
Pulses(r, ln, c, p) ==
  CASE r.sg = 1      -> [r EXCEPT !.sni = FALSE]                   \* CLISQ
    [] r.sg = NTP - 1 -> [r EXCEPT !.sni = LastMCT(r)]             \* NISQ
    [] r.sg = SyncTP -> Capture(r, ln)                             \* WPCTR, WPINT
    [] r.sg = RdTP /\ r.seq \in Counters ->
                        [r EXCEPT !.g = CounterSum(r.seq, c[r.cell])]
    [] CounterWrite(r) /\ Overflow(r.g) ->
                        [r EXCEPT !.inhint1 = TRUE]   \* overflow arms INHINT1
    [] r.sg = NTP    -> IF r.sni THEN Select(EndMCT(r), p) ELSE Advance(r)
    [] OTHER         -> r

(* The request lines after the pulses: cleared on capture, set by a       *)
(* counter overflow at write-back.                                         *)
LinesAfter(r, ln) ==
  CASE r.sg = SyncTP -> NoLines
    [] CounterWrite(r) /\ Overflow(r.g) ->
         [up   |-> ln.up \cup (IF OvfSign(r.g) = 1 THEN CtrChain[r.cell] ELSE {}),
          dn   |-> ln.dn \cup (IF OvfSign(r.g) = -1 THEN CtrChain[r.cell] ELSE {}),
          rupt |-> ln.rupt \cup CtrRupt[r.cell]]
    [] OTHER -> ln

\* A mutant that writes the adder output back without overflow correction.
CtrAfterUncorrected(r, c) ==
  IF CounterWrite(r) THEN [c EXCEPT ![r.cell] = r.g] ELSE c

CtrAfter(r, c) == IF CounterWrite(r) THEN [c EXCEPT ![r.cell] = Store(r.g)] ELSE c

(***************************************************************************)
(* One evaluation of genAGCStates() on latched registers r, monitor        *)
(* switches m, request lines ln, counter words c and program p: the values *)
(* the registers will latch, and the lines and memory it writes.           *)
(***************************************************************************)
Gen(r, m, ln, c, p) ==
  LET sg2 == NextSG(r, m) IN
  CASE r.sg \in {STBY, PWRON} ->
         [reg |-> [GENRST(r) EXCEPT !.sg = sg2], ln |-> ln, ctr |-> c]
    [] r.sg = WAIT ->
         [reg |-> [r EXCEPT !.sg = sg2], ln |-> ln, ctr |-> c]
    [] OTHER ->
         [reg |-> [Pulses(r, ln, c, p) EXCEPT !.sg = sg2],
          ln  |-> LinesAfter(r, ln),
          ctr |-> CtrAfter(r, c)]
=============================================================================
