--------------------------- MODULE AGCDriverProofs --------------------------
(***************************************************************************)
(* Type correctness of the driver and core model for every value of the    *)
(* constants: the lemmas say that each operator genAGCStates() is built    *)
(* from maps typed registers, lines and counters to typed values, and the  *)
(* theorem that every action of main() preserves TypeOK.                   *)
(***************************************************************************)
EXTENDS AGCDriver, AGCArithProofs, WellFoundedInduction

USE CoreAssumption, DriverAssumption

(* A nonempty set of naturals has a least element: the priority chains    *)
(* of CTR and INT always pick a cell that is requested.                    *)
LEMMA LowestIn ==
  ASSUME NEW S \in SUBSET Nat, S # {}
  PROVE  Lowest(S) \in S
<1>1. \E x \in S : \A y \in S : ~(<<y, x>> \in OpToRel(<, Nat))
  BY NatLessThanWellFounded, WFMin
<1>2. \A x, y \in Nat : y < x => <<y, x>> \in OpToRel(<, Nat)
  BY Zenon DEF OpToRel
<1>3. \E x \in S : \A y \in S : ~(y < x)
  BY <1>1, <1>2, Zenon
<1>4. \E x \in S : \A y \in S : x <= y
  BY <1>3
<1>. QED  BY <1>4 DEF Lowest

LEMMA AddrsInCADRs == Addrs \subseteq CADRs /\ ZRUPTAddr \in CADRs
BY DEF CADRs

(* TPG: the next timing state is a timing state.                           *)
LEMMA NextSGType ==
  ASSUME NEW r \in Regs, NEW m \in Monitor
  PROVE  NextSG(r, m) \in SGStates
BY DEF NextSG, Regs, SGStates, PWRON, WAIT, STBY, Monitor

(* Values the register updates of the core write.                        *)
LEMMA Constants ==
  /\ 0 \in 0 .. 1 /\ 1 \in 0 .. 1 /\ 0 \in BusWord
  /\ {"GOJ", "PINC", "MINC", "RUPT"} \subseteq Subseqs /\ Ops \subseteq Subseqs
  /\ StartAddr \in CADRs /\ ZRUPTAddr \in CADRs
  /\ \A c \in Cells : CtrAddr[c] \in CADRs
  /\ Cells \subseteq Nat /\ Rupts \subseteq Nat
<1>1. 0 \in BusWord
  BY Sizes DEF BusWord
<1>. QED  BY <1>1 DEF Subseqs, Ops, Counters, CADRs

(* GENRST leaves typed registers.                                          *)
LEMMA GENRSTType ==
  ASSUME NEW r \in Regs PROVE GENRST(r) \in Regs
BY Constants, Zenon DEF GENRST, Regs

(* The end of the first MCT of an instruction.                             *)
LEMMA EndMCTType ==
  ASSUME NEW r \in Regs PROVE EndMCT(r) \in Regs
BY Zenon DEF EndMCT, Regs

LEMMA AdvanceType ==
  ASSUME NEW r \in Regs PROVE Advance(r) \in Regs
<1>1. EndMCT(r) \in Regs
  BY EndMCTType
<1>2. EndMCT(r).z \in CADRs
  BY <1>1, AddrsInCADRs DEF Regs
<1>. QED  BY <1>1, <1>2, Constants, Zenon DEF Advance, Regs

(* A fetch from a program keeps Z on a program word.                       *)
LEMMA FetchType ==
  ASSUME NEW b \in Regs, NEW p \in Programs, NEW z \in Addrs
  PROVE  Fetch(b, p[z], z) \in Regs
<1>1. p[z] \in Instr /\ (p[z].op # "TC" => z + 1 \in Addrs)
  BY DEF Programs
<1>2. p[z].op \in Subseqs /\ p[z].k \in Addrs /\ p[z].k \in CADRs
  BY <1>1, Constants, AddrsInCADRs DEF Instr
<1>3. (IF p[z].op = "TC" THEN p[z].k ELSE z + 1) \in Addrs
  BY <1>1, <1>2
<1>. QED  BY <1>2, <1>3, Zenon DEF Fetch, Regs
(* The TP12 arbitration: whichever subsequence it selects, the registers  *)
(* stay typed; the chosen cell is one that was requested.                  *)
LEMMA SelectType ==
  ASSUME NEW r \in Regs, NEW p \in Programs
  PROVE  Select(r, p) \in Regs
<1>. DEFINE b == [r EXCEPT !.stage = 0, !.inhint1 = r.inhint1 /\ r.seq \in Counters]
<1>1. b \in Regs
  BY Constants, Zenon DEF Regs
<1>. HIDE DEF b
<1>2. r.upCell # {} =>
        LET c == Lowest(r.upCell) IN
        [b EXCEPT !.seq = "PINC", !.cell = c, !.upCell = @ \ {c}, !.s = CtrAddr[c]] \in Regs
  <2>. SUFFICES ASSUME r.upCell # {} PROVE
         LET c == Lowest(r.upCell) IN
         [b EXCEPT !.seq = "PINC", !.cell = c, !.upCell = @ \ {c}, !.s = CtrAddr[c]] \in Regs
    OBVIOUS
  <2>1. Lowest(r.upCell) \in Cells
    BY LowestIn, Constants DEF Regs
  <2>2. CtrAddr[Lowest(r.upCell)] \in CADRs
    BY <2>1, Constants
  <2>. QED  BY <1>1, <2>1, <2>2, Constants DEF Regs
<1>3. r.dnCell # {} =>
        LET c == Lowest(r.dnCell) IN
        [b EXCEPT !.seq = "MINC", !.cell = c, !.dnCell = @ \ {c}, !.s = CtrAddr[c]] \in Regs
  <2>. SUFFICES ASSUME r.dnCell # {} PROVE
         LET c == Lowest(r.dnCell) IN
         [b EXCEPT !.seq = "MINC", !.cell = c, !.dnCell = @ \ {c}, !.s = CtrAddr[c]] \in Regs
    OBVIOUS
  <2>1. Lowest(r.dnCell) \in Cells
    BY LowestIn, Constants DEF Regs
  <2>2. CtrAddr[Lowest(r.dnCell)] \in CADRs
    BY <2>1, Constants
  <2>. QED  BY <1>1, <2>1, <2>2, Constants DEF Regs
<1>4. r.rpCell # {} =>
        LET q == Lowest(r.rpCell) IN
        [b EXCEPT !.seq = "RUPT", !.rpCell = @ \ {q}, !.zrupt = r.z,
                  !.z = RuptVec[q], !.inhint = TRUE, !.s = ZRUPTAddr] \in Regs
  <2>. SUFFICES ASSUME r.rpCell # {} PROVE
         LET q == Lowest(r.rpCell) IN
         [b EXCEPT !.seq = "RUPT", !.rpCell = @ \ {q}, !.zrupt = r.z,
                   !.z = RuptVec[q], !.inhint = TRUE, !.s = ZRUPTAddr] \in Regs
    OBVIOUS
  <2>1. RuptVec[Lowest(r.rpCell)] \in Addrs
    BY LowestIn, Constants DEF Regs
  <2>. QED  BY <1>1, <2>1, Constants DEF Regs
<1>5. Fetch(b, p[r.z], r.z) \in Regs
  BY <1>1, FetchType DEF Regs
<1>. QED  BY <1>2, <1>3, <1>4, <1>5, Zenon DEF Select, b

(* WPCTR and WPINT or the request lines into the cells.                    *)
LEMMA CaptureType ==
  ASSUME NEW r \in Regs, NEW ln \in Lines PROVE Capture(r, ln) \in Regs
BY Zenon DEF Capture, Regs, Lines
(* The control pulses of any TP keep the registers typed.                 *)
LEMMA PulsesType ==
  ASSUME NEW r \in Regs, NEW ln \in Lines, NEW c \in [Cells -> Word],
         NEW p \in Programs
  PROVE  Pulses(r, ln, c, p) \in Regs
<1>1. /\ [r EXCEPT !.sni = FALSE] \in Regs /\ [r EXCEPT !.sni = LastMCT(r)] \in Regs
      /\ [r EXCEPT !.inhint1 = TRUE] \in Regs
  BY Zenon DEF Regs, LastMCT
<1>2. Capture(r, ln) \in Regs
  BY CaptureType
<1>3. r.seq \in Counters => [r EXCEPT !.g = CounterSum(r.seq, c[r.cell])] \in Regs
  <2>. SUFFICES ASSUME r.seq \in Counters
                PROVE  [r EXCEPT !.g = CounterSum(r.seq, c[r.cell])] \in Regs
    OBVIOUS
  <2>1. c[r.cell] \in Word
    BY DEF Regs
  <2>2. CounterSum(r.seq, c[r.cell]) \in BusWord
    BY <2>1, CounterSumsType DEF CounterSum
  <2>. QED  BY <2>2, Zenon DEF Regs
<1>4. Select(EndMCT(r), p) \in Regs /\ Advance(r) \in Regs
  BY EndMCTType, SelectType, AdvanceType
<1>. QED  BY <1>1, <1>2, <1>3, <1>4, Zenon DEF Pulses

(* The request lines stay request lines: capture clears them, a counter   *)
(* overflow adds the chained counters and interrupts.                      *)
LEMMA LinesAfterType ==
  ASSUME NEW r \in Regs, NEW ln \in Lines PROVE LinesAfter(r, ln) \in Lines
<1>1. CtrChain[r.cell] \subseteq Cells /\ CtrRupt[r.cell] \subseteq Rupts
  BY DEF Regs
<1>2. NoLines \in Lines
  BY DEF NoLines, Lines
<1>. QED  BY <1>1, <1>2, Zenon DEF LinesAfter, Lines

(* A counter write-back stores a word.                                     *)
LEMMA CtrAfterType ==
  ASSUME NEW r \in Regs, NEW c \in [Cells -> Word] PROVE CtrAfter(r, c) \in [Cells -> Word]
<1>1. Store(r.g) \in Word
  BY StoreType DEF Regs
<1>. QED  BY <1>1 DEF CtrAfter, Regs

(***************************************************************************)
(* One evaluation of genAGCStates() maps typed registers, switches, lines, *)
(* counters and program to typed register inputs, lines and counters.      *)
(***************************************************************************)
LEMMA GenType ==
  ASSUME NEW r \in Regs, NEW m \in Monitor, NEW ln \in Lines,
         NEW c \in [Cells -> Word], NEW p \in Programs
  PROVE  /\ Gen(r, m, ln, c, p).reg \in Regs
         /\ Gen(r, m, ln, c, p).ln \in Lines
         /\ Gen(r, m, ln, c, p).ctr \in [Cells -> Word]
<1>1. NextSG(r, m) \in SGStates
  BY NextSGType
<1>2. [GENRST(r) EXCEPT !.sg = NextSG(r, m)] \in Regs
  BY <1>1, GENRSTType, Zenon DEF Regs
<1>3. [r EXCEPT !.sg = NextSG(r, m)] \in Regs
  BY <1>1, Zenon DEF Regs
<1>4. [Pulses(r, ln, c, p) EXCEPT !.sg = NextSG(r, m)] \in Regs
  <2>1. Pulses(r, ln, c, p) \in Regs
    BY PulsesType
  <2>. QED  BY <1>1, <2>1, Zenon DEF Regs
<1>5. LinesAfter(r, ln) \in Lines /\ CtrAfter(r, c) \in [Cells -> Word]
  BY LinesAfterType, CtrAfterType
<1>. QED  BY <1>2, <1>3, <1>4, <1>5, Zenon DEF Gen
-----------------------------------------------------------------------------
(* The start states of main(): the first genAGCStates() on typed          *)
(* registers and switches gives a typed state.                             *)
LEMMA InitFromType ==
  ASSUME NEW r0 \in Regs, NEW m0 \in Monitor, InitFrom(r0, m0)
  PROVE  TypeOK
<1>1. prog \in Programs /\ NoLines \in Lines /\ ZeroCounters \in [Cells -> Word]
  BY Sizes DEF InitFrom, NoLines, Lines, ZeroCounters, Word
<1>2. nxt \in Regs
  BY <1>1, GenType DEF InitFrom
<1>3. 0 \in 0 .. BatchSize /\ 0 \in Word
  BY Sizes DEF Word
<1>. QED  BY <1>1, <1>2, <1>3, Zenon DEF InitFrom, TypeOK

LEMMA PowerOnType ==
  /\ PowerOnRegs \in Regs /\ PowerOnMon \in Monitor
  /\ [GENRST(PowerOnRegs) EXCEPT !.sg = WAIT] \in Regs /\ RunningMon \in Monitor
<1>1. Lowest(Cells) \in Cells /\ STBY \in SGStates /\ WAIT \in SGStates
  BY LowestIn, Constants DEF STBY, WAIT, SGStates
<1>2. PowerOnRegs \in Regs
  BY <1>1, Constants, AddrsInCADRs, Zenon DEF PowerOnRegs, Regs
<1>3. GENRST(PowerOnRegs) \in Regs
  BY <1>2, GENRSTType
<1>4. PowerOnMon \in Monitor
  BY DEF PowerOnMon, Monitor
<1>5. [GENRST(PowerOnRegs) EXCEPT !.sg = WAIT] \in Regs
  BY <1>1, <1>3, Zenon DEF Regs
<1>6. RunningMon \in Monitor
  BY DEF RunningMon, PowerOnMon, Monitor
<1>. QED  BY <1>2, <1>4, <1>5, <1>6

(* MEM::readMemory() of typed counters is a word.                          *)
LEMMA ReadMemoryType ==
  ASSUME NEW c \in [Cells -> Word], NEW a
  PROVE  ReadMemory(c, a) \in Word
<1>1. CASE \E x \in Cells : CtrAddr[x] = a
  <2>1. (CHOOSE x \in Cells : CtrAddr[x] = a) \in Cells
    BY <1>1
  <2>. QED  BY <1>1, <2>1 DEF ReadMemory
<1>2. CASE ~\E x \in Cells : CtrAddr[x] = a
  BY <1>2, Sizes DEF ReadMemory, Word
<1>. QED  BY <1>1, <1>2

(* A call of genAGCStates() from a key handler keeps the state typed.     *)
LEMMA RefreshType ==
  ASSUME TypeOK, NEW m \in Monitor, Refresh(m)
  PROVE  nxt' \in Regs /\ lines' \in Lines /\ ctr' \in [Cells -> Word] /\ owed' \in Lines
<1>1. /\ Gen(reg, m, lines, ctr, prog).reg \in Regs
      /\ Gen(reg, m, lines, ctr, prog).ln \in Lines
      /\ Gen(reg, m, lines, ctr, prog).ctr \in [Cells -> Word]
  BY GenType DEF TypeOK
<1>. QED  BY <1>1, Zenon DEF Refresh, TypeOK, Lines
(* A pass of the batch loop keeps the state typed; the batch counter     *)
(* stays within 0 .. BatchSize because the loop only goes on while it is   *)
(* positive.                                                                *)
LEMMA ClockType ==
  ASSUME TypeOK, Clock PROVE TypeOK'
<1>. DEFINE n    == IF loc = "idle" THEN BatchSize ELSE cntr
            e    == Gen(nxt, mon, lines, ctr, prog)
            hit  == bpEnab /\ breakpoint = nxt.s
            w    == ReadMemory(e.ctr, watchAddr)
            trip == watchEnab /\ w # oldWatch
            run2 == mon.run /\ ~hit /\ ~trip
            more == mon.fclk /\ run2 /\ n - 1 > 0
<1>1. /\ reg' = nxt /\ nxt' = e.reg /\ lines' = e.ln /\ ctr' = e.ctr
      /\ singleClock' = FALSE
      /\ mon' = [mon EXCEPT !.run = run2, !.step = @ /\ (more \/ nxt.sg # 1)]
      /\ loc' = IF more THEN "batch" ELSE "idle"
      /\ cntr' = IF more THEN n - 1 ELSE 0
      /\ owed' = Settle(owed, e)
      /\ oldWatch' = IF watchEnab THEN w ELSE oldWatch
      /\ UNCHANGED <<prog, bpEnab, breakpoint, watchEnab, watchAddr, wild>>
  BY DEF Clock
<1>2. e.reg \in Regs /\ e.ln \in Lines /\ e.ctr \in [Cells -> Word]
  BY GenType DEF TypeOK
<1>3. cntr' \in 0 .. BatchSize
  BY <1>1 DEF TypeOK
<1>4. mon' \in Monitor
  BY <1>1, Zenon DEF TypeOK, Monitor
<1>5. owed' \in Lines
  BY <1>1, <1>2, Zenon DEF Settle, TypeOK, Lines
<1>6. loc' \in {"idle", "batch"}
  BY <1>1
<1>7. oldWatch' \in Word
  <2>1. w \in Word
    BY <1>2, ReadMemoryType
  <2>. QED  BY <1>1, <2>1 DEF TypeOK
<1>. QED  BY <1>1, <1>2, <1>3, <1>4, <1>5, <1>6, <1>7, Zenon DEF TypeOK
(* The switch keys: a switch is flipped and genAGCStates() called.        *)
LEMMA ToggleType ==
  ASSUME TypeOK, NEW k, NEW f \in {"run", "step", "inst", "purst", "sa", "sclEnab"},
         Toggle(k, f)
  PROVE  TypeOK'
<1>1. mon' \in Monitor
  BY Zenon DEF Toggle, TypeOK, Monitor, watch
<1>2. nxt' \in Regs /\ lines' \in Lines /\ ctr' \in [Cells -> Word] /\ owed' \in Lines
  BY <1>1, RefreshType DEF Toggle
<1>. QED  BY <1>1, <1>2, Zenon DEF Toggle, TypeOK, watch

LEMMA ClockModeType ==
  ASSUME TypeOK, NEW k, NEW v \in BOOLEAN, ClockMode(k, v) PROVE TypeOK'
<1>1. mon' \in Monitor
  BY Zenon DEF ClockMode, TypeOK, Monitor, watch
<1>2. nxt' \in Regs /\ lines' \in Lines /\ ctr' \in [Cells -> Word] /\ owed' \in Lines
  BY <1>1, RefreshType DEF ClockMode
<1>. QED  BY <1>1, <1>2, Zenon DEF ClockMode, TypeOK, watch

LEMMA RedisplayType ==
  ASSUME TypeOK, NEW k, Redisplay(k) PROVE TypeOK'
<1>1. nxt' \in Regs /\ lines' \in Lines /\ ctr' \in [Cells -> Word] /\ owed' \in Lines
  BY RefreshType DEF Redisplay, TypeOK, watch
<1>. QED  BY <1>1, Zenon DEF Redisplay, TypeOK, watch

(* The request keys add an index to a line, or only set wild.              *)
LEMMA RaiseLineType ==
  ASSUME TypeOK, NEW k, NEW f, NEW idx, NEW valid,
         \/ f \in {"up", "dn"} /\ valid = Cells
         \/ f = "rupt" /\ valid = Rupts,
         RaiseLine(k, f, idx, valid)
  PROVE  TypeOK'
<1>1. CASE idx \in valid
  <2>1. lines' = [lines EXCEPT ![f] = @ \cup {idx}] /\ owed' = [owed EXCEPT ![f] = @ \cup {idx}]
    BY <1>1 DEF RaiseLine
  <2>2. lines' \in Lines /\ owed' \in Lines
    <3>1. CASE f = "up"
      BY <1>1, <2>1, <3>1, Zenon DEF TypeOK, Lines, watch
    <3>2. CASE f = "dn"
      BY <1>1, <2>1, <3>2, Zenon DEF TypeOK, Lines, watch
    <3>3. CASE f = "rupt"
      BY <1>1, <2>1, <3>3, Zenon DEF TypeOK, Lines, watch
    <3>. QED  BY <3>1, <3>2, <3>3
  <2>. QED  BY <2>2, Zenon DEF RaiseLine, TypeOK, watch
<1>2. CASE idx \notin valid
  BY <1>2, Zenon DEF RaiseLine, TypeOK, watch
<1>. QED  BY <1>1, <1>2

LEMMA OtherKeysType ==
  ASSUME TypeOK, ReleaseStep \/ SingleClock \/ ToggleBreakpoint \/ ToggleWatch
  PROVE  TypeOK'
<1>1. CASE ReleaseStep
  BY <1>1, Zenon DEF ReleaseStep, TypeOK, Monitor, watch
<1>2. CASE SingleClock
  BY <1>2, Zenon DEF SingleClock, TypeOK, watch
<1>3. CASE ToggleBreakpoint
  BY <1>3, Zenon DEF ToggleBreakpoint, TypeOK, watch
<1>4. CASE ToggleWatch
  <2>1. CASE watchEnab
    BY <1>4, <2>1, Zenon DEF ToggleWatch, TypeOK
  <2>2. CASE ~watchEnab
    <3>1. watchAddr' \in WatchAddrs /\ oldWatch' = ReadMemory(ctr, watchAddr')
      BY <1>4, <2>2 DEF ToggleWatch
    <3>2. oldWatch' \in Word
      BY <3>1, ReadMemoryType DEF TypeOK, watch
    <3>. QED  BY <1>4, <2>2, <3>1, <3>2, Zenon DEF ToggleWatch, TypeOK
  <2>. QED  BY <2>1, <2>2
<1>. QED  BY <1>1, <1>2, <1>3, <1>4

(* Every step of main() keeps the state typed.                            *)
LEMMA NextType == TypeOK /\ [Next]_vars => TypeOK'
<1>. SUFFICES ASSUME TypeOK, [Next]_vars PROVE TypeOK'
  OBVIOUS
<1>1. CASE Clock
  BY <1>1, ClockType
<1>2. CASE \E f \in {"run", "step", "inst", "purst", "sa", "sclEnab"} :
             \E k : Toggle(k, f)
  BY <1>2, ToggleType
<1>3. CASE \E k : Redisplay(k)
  BY <1>3, RedisplayType
<1>4. CASE ClockMode("F2", FALSE) \/ ClockMode("F4", TRUE)
  BY <1>4, ClockModeType
<1>5. CASE IncrCntr \/ DecrCntr \/ Interrupt
  BY <1>5, RaiseLineType DEF IncrCntr, DecrCntr, Interrupt
<1>6. CASE ReleaseStep \/ SingleClock \/ ToggleBreakpoint \/ ToggleWatch
  BY <1>6, OtherKeysType
<1>7. CASE UNCHANGED vars
  BY <1>7 DEF TypeOK, vars, watch
<1>. QED  BY <1>1, <1>2, <1>3, <1>4, <1>5, <1>6, <1>7 DEF Next

(***************************************************************************)
(* Type correctness, the invariant run MC_halt checks: from the power-on   *)
(* state of main(), every pass of the polling and batch loops and every    *)
(* key handler keeps registers, lines, counters and switches typed, for    *)
(* every word width, timing, counter and interrupt set and program.        *)
(***************************************************************************)
THEOREM TypeCorrect == Spec => []TypeOK
<1>1. Init => TypeOK
  BY PowerOnType, InitFromType DEF Init
<1>. QED  BY <1>1, NextType, PTL DEF Spec

(* The same from the running state InitRunning that run MC_counters starts *)
(* from (GENRST done, RUN and the fast clock on).                          *)
THEOREM TypeCorrectRunning == SpecRunning => []TypeOK
<1>1. InitRunning => TypeOK
  BY PowerOnType, InitFromType DEF InitRunning
<1>. QED  BY <1>1, NextType, PTL DEF SpecRunning
=============================================================================
