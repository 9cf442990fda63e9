------------------------------ MODULE AGCDriver -----------------------------
(***************************************************************************)
(* The simulator's driver (AGCmain.cpp main()) around the AGC core.        *)
(*                                                                         *)
(* The registers are master/slave: CLK::clkAGC() latches into the masters  *)
(* (reg) the values the last genAGCStates() computed (nxt).  main() clocks *)
(* in batches of up to 100 ticks while FCLK and RUN are up, checking the   *)
(* breakpoint after every tick, and polls the keyboard between batches.   *)
(* Every front-panel switch handler toggles its MON switch and calls       *)
(* genAGCStates() again, so that the next clkAGC() latches values computed *)
(* with the new switch; the request keys ']', '[' and 'i' only raise a     *)
(* line.                                                                   *)
(*                                                                         *)
(* Left out: display and listing output ('m', 'e', 'f', 'd' is kept for   *)
(* its genAGCStates() call), memory load ('l', module Loader), the parity *)
(* alarm (';'), the DSKY keys and 'q'.                                     *)
(***************************************************************************)
EXTENDS AGCCore

CONSTANTS
  BatchSize,    \* ticks per keyboard poll while running (genStateCntr, 100)
  Keys,         \* front-panel keys the operator may press in a run
  CellInputs,   \* integers atoi() may return for the ']' and '[' prompts
  RuptInputs,   \* integers atoi() may return for the 'i' prompt
  BreakAddrs,   \* CADRs strtol() may return for the 'b' prompt
  WatchAddrs,   \* CADRs strtol() may return for the 'y' prompt
  Progs         \* fixed-memory contents the run starts from

PanelKeys == {"r", "s", "n", "p", "a", "c", "d", "z", "x",
              "F1", "F2", "F4", "]", "[", "i", "b", "y"}

ASSUME DriverAssumption ==
  /\ BatchSize \in Nat \ {0}
  /\ Keys \subseteq PanelKeys
  /\ CellInputs \subseteq Int /\ RuptInputs \subseteq Int
  /\ BreakAddrs \subseteq Nat /\ WatchAddrs \subseteq Nat
  /\ Progs \subseteq Programs /\ Progs # {}

VARIABLES
  reg,          \* master registers (what the display and ADR read)
  nxt,          \* slave registers: the inputs computed by genAGCStates()
  lines,        \* request lines CTR::pcUp[], CTR::pcDn[], INT::rupt[]
  ctr,          \* the involuntary counter words in erasable memory
  prog,         \* fixed memory
  mon,          \* MON:: switches
  loc,          \* "idle": polling the keyboard; "batch": inside do { } while
  cntr,         \* genStateCntr
  singleClock,  \* F1 pressed, one tick pending
  bpEnab,       \* breakpointEnab
  breakpoint,   \* breakpoint
  watchEnab,    \* watchEnab
  watchAddr,    \* watchAddr
  oldWatch,     \* oldWatchValue
  wild,         \* an out-of-bounds request index has been written
  owed          \* history: requests raised and not yet served or reset

vars == <<reg, nxt, lines, ctr, prog, mon, loc, cntr, singleClock,
          bpEnab, breakpoint, watchEnab, watchAddr, oldWatch, wild, owed>>

watch == <<watchEnab, watchAddr, oldWatch>>

-----------------------------------------------------------------------------
(* MON.cpp: the switches at start-up.                                       *)
PowerOnMon == [purst |-> TRUE, run |-> FALSE, step |-> FALSE, inst |-> TRUE,
               fclk |-> FALSE, sa |-> FALSE, sclEnab |-> TRUE]

(* Registers at power-on: zero, which for SG is STBY.                       *)
PowerOnRegs ==
  [sg |-> STBY, sni |-> FALSE, seq |-> "GOJ", stage |-> 0, k |-> StartAddr,
   cell |-> Lowest(Cells), z |-> StartAddr, s |-> StartAddr,
   zrupt |-> StartAddr, g |-> 0, inhint |-> FALSE, inhint1 |-> FALSE,
   upCell |-> {}, dnCell |-> {}, rpCell |-> {}]

ZeroCounters == [c \in Cells |-> 0]

(* main(): the first genAGCStates() before the loop, from registers r0   *)
(* and switches m0.                                                         *)
InitFrom(r0, m0) ==
  /\ reg = r0
  /\ mon = m0
  /\ prog \in Progs
  /\ lines = NoLines
  /\ ctr = ZeroCounters
  /\ nxt = Gen(r0, m0, NoLines, ZeroCounters, prog).reg
  /\ loc = "idle" /\ cntr = 0 /\ singleClock = FALSE
  /\ bpEnab = FALSE /\ breakpoint = 0 /\ wild = FALSE
  /\ watchEnab = FALSE /\ watchAddr = 0 /\ oldWatch = 0
  /\ owed = NoLines

Init == InitFrom(PowerOnRegs, PowerOnMon)

(* The state main() reaches once the operator has released PURST ('p'),  *)
(* set RUN ('r') and the fast clock (F4): GENRST done, TPG in WAIT.       *)
RunningMon == [PowerOnMon EXCEPT !.purst = FALSE, !.run = TRUE, !.fclk = TRUE]
InitRunning == InitFrom([GENRST(PowerOnRegs) EXCEPT !.sg = WAIT], RunningMon)

-----------------------------------------------------------------------------
(* History: a latch discharges the requests that leave the master cells   *)
(* only where the core may take them away: the TP12 arbitration with SNI,  *)
(* which serves one, and GENRST in STBY or PWRON, which clears the cells.  *)
Settle(o, e) ==
  LET disch == reg.sg \in {STBY, PWRON} \/ (reg.sg = NTP /\ reg.sni)
      gone(x, y) == IF disch THEN x \ y ELSE {}
  IN [up   |-> (o.up \cup e.ln.up) \ gone(reg.upCell, nxt.upCell),
      dn   |-> (o.dn \cup e.ln.dn) \ gone(reg.dnCell, nxt.dnCell),
      rupt |-> (o.rupt \cup e.ln.rupt) \ gone(reg.rpCell, nxt.rpCell)]

(* MEM::readMemory() of the words the model keeps: a counter's word at    *)
(* its address; every other word is one the modelled instructions never   *)
(* write, taken as 0.                                                     *)
ReadMemory(c, a) ==
  IF \E x \in Cells : CtrAddr[x] = a
    THEN c[CHOOSE x \in Cells : CtrAddr[x] = a] ELSE 0

\* A mutant whose batch loop tests only FCLK and the counter, not RUN.
ClockBatchIgnoresRun ==
  /\ \/ loc = "batch"
     \/ loc = "idle" /\ (mon.fclk \/ singleClock)
  /\ LET n    == IF loc = "idle" THEN BatchSize ELSE cntr
         e    == Gen(nxt, mon, lines, ctr, prog)
         hit  == bpEnab /\ breakpoint = nxt.s
         w    == ReadMemory(e.ctr, watchAddr)
         trip == watchEnab /\ w # oldWatch
         run2 == mon.run /\ ~hit /\ ~trip
         more == mon.fclk /\ n - 1 > 0
     IN /\ reg' = nxt
        /\ nxt' = e.reg
        /\ lines' = e.ln
        /\ ctr' = e.ctr
        /\ singleClock' = FALSE
        /\ mon' = [mon EXCEPT !.run = run2,
                              !.step = @ /\ (more \/ nxt.sg # 1)]
        /\ loc' = IF more THEN "batch" ELSE "idle"
        /\ cntr' = IF more THEN n - 1 ELSE 0
        /\ owed' = Settle(owed, e)
        /\ oldWatch' = IF watchEnab THEN w ELSE oldWatch
  /\ UNCHANGED <<prog, bpEnab, breakpoint, watchEnab, watchAddr, wild>>

(* One pass of the do { } while loop: clkAGC(); singleClock = false;       *)
(* genAGCStates(); the breakpoint check; the watch check, which reads the *)
(* watched word and halts if it differs from oldWatchValue; the loop      *)
(* condition; and, when the batch ends, the release of STEP on TP1.       *)
Clock ==
  /\ \/ loc = "batch"
     \/ loc = "idle" /\ (mon.fclk \/ singleClock)
  /\ LET n    == IF loc = "idle" THEN BatchSize ELSE cntr
         e    == Gen(nxt, mon, lines, ctr, prog)
         hit  == bpEnab /\ breakpoint = nxt.s
         w    == ReadMemory(e.ctr, watchAddr)
         trip == watchEnab /\ w # oldWatch
         run2 == mon.run /\ ~hit /\ ~trip
         more == mon.fclk /\ run2 /\ n - 1 > 0
     IN /\ reg' = nxt
        /\ nxt' = e.reg
        /\ lines' = e.ln
        /\ ctr' = e.ctr
        /\ singleClock' = FALSE
        /\ mon' = [mon EXCEPT !.run = run2,
                              !.step = @ /\ (more \/ nxt.sg # 1)]
        /\ loc' = IF more THEN "batch" ELSE "idle"
        /\ cntr' = IF more THEN n - 1 ELSE 0
        /\ owed' = Settle(owed, e)
        /\ oldWatch' = IF watchEnab THEN w ELSE oldWatch
  /\ UNCHANGED <<prog, bpEnab, breakpoint, watchEnab, watchAddr, wild>>

(* A pass of the polling loop that does not clock: only the STEP release. *)
ReleaseStep ==
  /\ loc = "idle" /\ ~mon.fclk /\ ~singleClock
  /\ mon.step /\ reg.sg = 1
  /\ mon' = [mon EXCEPT !.step = FALSE]
  /\ UNCHANGED <<reg, nxt, lines, ctr, prog, loc, cntr, singleClock,
                 bpEnab, breakpoint, watch, wild, owed>>

(* genAGCStates() called from a key handler, on the latched registers.     *)
Refresh(m) ==
  LET e == Gen(reg, m, lines, ctr, prog) IN
  /\ nxt' = e.reg
  /\ lines' = e.ln
  /\ ctr' = e.ctr
  /\ owed' = [up |-> owed.up \cup e.ln.up, dn |-> owed.dn \cup e.ln.dn,
              rupt |-> owed.rupt \cup e.ln.rupt]

KeyPressed(k) == loc = "idle" /\ k \in Keys

\* A mutant of a switch key that does not call genAGCStates().
ToggleNoRefresh(k, f) ==
  /\ KeyPressed(k)
  /\ mon' = [mon EXCEPT ![f] = ~@]
  /\ UNCHANGED <<reg, nxt, lines, ctr, owed, prog, loc, cntr, singleClock,
                 bpEnab, breakpoint, watch, wild>>

(* 'r', 's', 'n', 'p', 'a', 'c': MON::X = (MON::X + 1) % 2; genAGCStates(); *)
Toggle(k, f) ==
  /\ KeyPressed(k)
  /\ mon' = [mon EXCEPT ![f] = ~@]
  /\ Refresh(mon')
  /\ UNCHANGED <<reg, prog, loc, cntr, singleClock, bpEnab, breakpoint, watch, wild>>

(* 'd', 'z', 'x': genAGCStates(); and a display.                            *)
Redisplay(k) ==
  /\ KeyPressed(k)
  /\ Refresh(mon)
  /\ UNCHANGED <<reg, prog, mon, loc, cntr, singleClock, bpEnab, breakpoint, watch, wild>>

(* F2 and F4: MON::FCLK = 0 or 1; genAGCStates();                           *)
ClockMode(k, v) ==
  /\ KeyPressed(k)
  /\ mon' = [mon EXCEPT !.fclk = v]
  /\ Refresh(mon')
  /\ UNCHANGED <<reg, prog, loc, cntr, singleClock, bpEnab, breakpoint, watch, wild>>

(* F1: singleClock = true.                                                  *)
SingleClock ==
  /\ KeyPressed("F1")
  /\ singleClock' = TRUE
  /\ UNCHANGED <<reg, nxt, lines, ctr, prog, mon, loc, cntr,
                 bpEnab, breakpoint, watch, wild, owed>>

(* incrCntr(), decrCntr(), interrupt(): set one request line at the index  *)
(* atoi() returns, with no genAGCStates(); an index outside the array is a *)
(* write outside it (undefined behaviour), recorded in wild.               *)
RaiseLine(k, f, idx, valid) ==
  /\ KeyPressed(k)
  /\ IF idx \in valid
       THEN /\ lines' = [lines EXCEPT ![f] = @ \cup {idx}]
            /\ owed' = [owed EXCEPT ![f] = @ \cup {idx}]
            /\ UNCHANGED wild
       ELSE /\ wild' = TRUE
            /\ UNCHANGED <<lines, owed>>
  /\ UNCHANGED <<reg, nxt, ctr, prog, mon, loc, cntr, singleClock,
                 bpEnab, breakpoint, watch>>

IncrCntr  == \E pc \in CellInputs : RaiseLine("]", "up", pc, Cells)
DecrCntr  == \E pc \in CellInputs : RaiseLine("[", "dn", pc, Cells)
Interrupt == \E i \in RuptInputs : RaiseLine("i", "rupt", i - 1, Rupts)

(* 'b': toggleBreakpoint().                                                 *)
ToggleBreakpoint ==
  /\ KeyPressed("b")
  /\ IF bpEnab
       THEN bpEnab' = FALSE /\ UNCHANGED breakpoint
       ELSE bpEnab' = TRUE /\ breakpoint' \in BreakAddrs
  /\ UNCHANGED <<reg, nxt, lines, ctr, prog, mon, loc, cntr, singleClock,
                 watch, wild, owed>>

\* A mutant that sets the watch without reading the word it watches.
ToggleWatchNoRead ==
  /\ KeyPressed("y")
  /\ IF watchEnab
       THEN watchEnab' = FALSE /\ UNCHANGED <<watchAddr, oldWatch>>
       ELSE /\ watchEnab' = TRUE
            /\ watchAddr' \in WatchAddrs
            /\ UNCHANGED oldWatch
  /\ UNCHANGED <<reg, nxt, lines, ctr, prog, mon, loc, cntr, singleClock,
                 bpEnab, breakpoint, wild, owed>>

(* 'y': toggleWatch(); setting the watch reads the word it watches.        *)
ToggleWatch ==
  /\ KeyPressed("y")
  /\ IF watchEnab
       THEN watchEnab' = FALSE /\ UNCHANGED <<watchAddr, oldWatch>>
       ELSE /\ watchEnab' = TRUE
            /\ watchAddr' \in WatchAddrs
            /\ oldWatch' = ReadMemory(ctr, watchAddr')
  /\ UNCHANGED <<reg, nxt, lines, ctr, prog, mon, loc, cntr, singleClock,
                 bpEnab, breakpoint, wild, owed>>

Next ==
  \/ Clock
  \/ ReleaseStep
  \/ Toggle("r", "run") \/ Toggle("s", "step") \/ Toggle("n", "inst")
  \/ Toggle("p", "purst") \/ Toggle("a", "sa") \/ Toggle("c", "sclEnab")
  \/ \E k \in {"d", "z", "x"} : Redisplay(k)
  \/ ClockMode("F2", FALSE) \/ ClockMode("F4", TRUE)
  \/ SingleClock
  \/ IncrCntr \/ DecrCntr \/ Interrupt
  \/ ToggleBreakpoint
  \/ ToggleWatch

Spec == Init /\ [][Next]_vars
SpecRunning == InitRunning /\ [][Next]_vars

-----------------------------------------------------------------------------
TypeOK ==
  /\ reg \in Regs /\ nxt \in Regs
  /\ lines \in Lines /\ owed \in Lines
  /\ ctr \in [Cells -> Word]
  /\ prog \in Programs
  /\ mon \in Monitor
  /\ loc \in {"idle", "batch"} /\ cntr \in 0 .. BatchSize
  /\ singleClock \in BOOLEAN /\ bpEnab \in BOOLEAN /\ wild \in BOOLEAN
  /\ breakpoint \in BreakAddrs \cup {0}
  /\ watchEnab \in BOOLEAN /\ watchAddr \in WatchAddrs \cup {0}
  /\ oldWatch \in Word

(***************************************************************************)
(* A halted AGC stays halted: when the latched state is at a stopping      *)
(* point (WAIT, or TP12 at the end of an instruction, or of any MCT when   *)
(* INST is off) while RUN and STEP are off, the next clkAGC() does not     *)
(* start a memory cycle.  This holds only if every change of RUN or STEP   *)
(* is followed by genAGCStates() before the next clkAGC().                 *)
(***************************************************************************)
AtStop == \/ reg.sg = WAIT
          \/ reg.sg = NTP /\ (~mon.inst \/ reg.sni)

HaltRespected ==
  [][AtStop /\ ~mon.run /\ ~mon.step => reg'.sg # 1]_vars

(***************************************************************************)
(* A single step starts one memory cycle: with RUN off, the pass of       *)
(* main()'s loop whose clkAGC() latches TP1 also releases STEP, because   *)
(* the batch ends as soon as RUN is off and STEP is cleared on TP1        *)
(* (AGCmain.cpp 706-714).  With HaltRespected, the AGC then stops at the  *)
(* next stopping point instead of stepping through further instructions  *)
(* in the same batch.                                                     *)
(***************************************************************************)
StepReleasedOnTP1 ==
  [][~mon'.run /\ reg.sg # 1 /\ reg'.sg = 1 => ~mon'.step]_vars

(***************************************************************************)
(* No counter or interrupt request is lost: one raised by a key (incrCntr, *)
(* decrCntr, interrupt) or by a counter overflow stays on its line, in a   *)
(* priority cell, or in the cell genAGCStates() has computed, until the    *)
(* TP12 arbitration serves it or GENRST clears the cells (spec 5: the      *)
(* lines are one-shots cleared by the synchroniser on capture).            *)
(***************************************************************************)
NoLostRequest ==
  /\ owed.up   \subseteq lines.up \cup reg.upCell \cup nxt.upCell
  /\ owed.dn   \subseteq lines.dn \cup reg.dnCell \cup nxt.dnCell
  /\ owed.rupt \subseteq lines.rupt \cup reg.rpCell \cup nxt.rpCell

(***************************************************************************)
(* The watch compares with a current value: while a watch is set,         *)
(* oldWatchValue is the word at watchAddr, so the check after each tick   *)
(* (AGCmain.cpp 695-703) halts exactly on the tick that changed the word, *)
(* whatever the key handlers' genAGCStates() calls did in between.        *)
(***************************************************************************)
WatchCacheCurrent == watchEnab => oldWatch = ReadMemory(ctr, watchAddr)
=============================================================================
