------------------------- MODULE DriverSafetyProofs -------------------------
(***************************************************************************)
(* Safety of the driver loop of main() for every value of the constants:  *)
(* the watch compares with the current word (WatchCacheCurrent), and a     *)
(* halted AGC stays halted (HaltRespected) when no breakpoint can hit,    *)
(* no request is lost without the redisplay keys, and a single step      *)
(* releases STEP on TP1 (StepReleasedOnTP1).                              *)
(*                                                                         *)
(* Both rest on one fact about genAGCStates(): a key handler calls it on   *)
(* the latched registers, and if those are at a counter write-back, the    *)
(* clkAGC() that latched them has already stored that word.  The second   *)
(* write-back stores the same word again, so the key handlers never       *)
(* change memory (CtrInv).                                                  *)
(***************************************************************************)
EXTENDS AGCDriverProofs

USE CoreAssumption, DriverAssumption

(* The counter word of a latched write-back has already been stored.       *)
CtrInv == CounterWrite(reg) => ctr[reg.cell] = Store(reg.g)

(* The inductive invariant behind WatchCacheCurrent.                       *)
WInv == TypeOK /\ CtrInv /\ WatchCacheCurrent

(* The latched state is at a stopping point with RUN and STEP off.         *)
Stopped == AtStop /\ ~mon.run /\ ~mon.step

(* A set breakpoint is one the 'b' prompt gave.                            *)
BpInv == bpEnab => breakpoint \in BreakAddrs

(* When stopped, the inputs genAGCStates() last computed do not start a   *)
(* memory cycle.                                                            *)
HaltInv == Stopped => nxt.sg # 1

(* The inductive invariant behind HaltRespected.                          *)
HInv == WInv /\ BpInv /\ HaltInv

-----------------------------------------------------------------------------
(* A write-back happens at WrTP, a timing pulse: never in STBY, PWRON or   *)
(* WAIT.                                                                    *)
LEMMA WrTPIsPulse ==
  /\ WrTP \in 1 .. NTP /\ WrTP # STBY /\ WrTP # PWRON /\ WrTP # WAIT
  /\ WrTP # NTP /\ 1 # NTP /\ WAIT # NTP /\ WAIT # 1
BY DEF STBY, PWRON, WAIT

(* genAGCStates() writes a counter word only at a write-back.              *)
LEMMA GenCtrKeep ==
  ASSUME NEW r \in Regs, NEW m, NEW ln, NEW c, NEW p, ~CounterWrite(r)
  PROVE  Gen(r, m, ln, c, p).ctr = c
<1>1. CtrAfter(r, c) = c
  BY DEF CtrAfter
<1>. QED  BY <1>1 DEF Gen

(* At a write-back, it stores the overflow-corrected G into the cell.     *)
LEMMA GenCtrWrite ==
  ASSUME NEW r \in Regs, NEW m, NEW ln, NEW c, NEW p, CounterWrite(r)
  PROVE  Gen(r, m, ln, c, p).ctr = [c EXCEPT ![r.cell] = Store(r.g)]
<1>1. r.sg = WrTP
  BY DEF CounterWrite
<1>2. r.sg \notin {STBY, PWRON} /\ r.sg # WAIT
  BY <1>1, WrTPIsPulse
<1>3. CtrAfter(r, c) = [c EXCEPT ![r.cell] = Store(r.g)]
  BY DEF CtrAfter
<1>. QED  BY <1>2, <1>3 DEF Gen

(* A key handler's genAGCStates() leaves memory as it is.                  *)
LEMMA RefreshKeepsCtr ==
  ASSUME TypeOK, CtrInv, NEW m, Refresh(m)
  PROVE  ctr' = ctr
<1>1. ctr' = Gen(reg, m, lines, ctr, prog).ctr /\ reg \in Regs
  BY DEF Refresh, TypeOK
<1>2. CASE CounterWrite(reg)
  <2>1. ctr' = [ctr EXCEPT ![reg.cell] = Store(reg.g)]
    BY <1>1, <1>2, GenCtrWrite
  <2>2. ctr[reg.cell] = Store(reg.g) /\ reg.cell \in Cells /\ ctr \in [Cells -> Word]
    BY <1>1, <1>2 DEF CtrInv, TypeOK, Regs
  <2>. QED  BY <2>1, <2>2
<1>3. CASE ~CounterWrite(reg)
  BY <1>1, <1>3, GenCtrKeep
<1>. QED  BY <1>2, <1>3

(* A clock tick latches the registers whose write-back it has just done.  *)
LEMMA ClockCtrInv ==
  ASSUME TypeOK, Clock
  PROVE  CtrInv'
<1>. DEFINE e == Gen(nxt, mon, lines, ctr, prog)
<1>1. reg' = nxt /\ ctr' = e.ctr /\ nxt \in Regs /\ ctr \in [Cells -> Word]
  BY DEF Clock, TypeOK
<1>2. CASE CounterWrite(nxt)
  <2>0. Gen(nxt, mon, lines, ctr, prog).ctr = [ctr EXCEPT ![nxt.cell] = Store(nxt.g)]
    <3>1. nxt.sg \notin {STBY, PWRON} /\ nxt.sg # WAIT
      BY <1>2, WrTPIsPulse DEF CounterWrite
    <3>2. CtrAfter(nxt, ctr) = [ctr EXCEPT ![nxt.cell] = Store(nxt.g)]
      BY <1>2 DEF CtrAfter
    <3>. QED  BY <3>1, <3>2 DEF Gen
  <2>1. ctr' = [ctr EXCEPT ![nxt.cell] = Store(nxt.g)]
    BY <1>1, <2>0
  <2>2. nxt.cell \in Cells
    BY <1>1 DEF Regs
  <2>. QED  BY <1>1, <2>1, <2>2 DEF CtrInv
<1>3. CASE ~CounterWrite(nxt)
  BY <1>1, <1>3 DEF CtrInv
<1>. QED  BY <1>2, <1>3

(* The clock refreshes oldWatchValue from the word it has just written.    *)
LEMMA ClockWInv ==
  ASSUME WInv, Clock
  PROVE  WInv'
<1>1. TypeOK'
  BY ClockType DEF WInv
<1>2. CtrInv'
  BY ClockCtrInv DEF WInv
<1>3. WatchCacheCurrent'
  <2>. DEFINE e == Gen(nxt, mon, lines, ctr, prog)
  <2>1. ctr' = e.ctr /\ UNCHANGED <<watchEnab, watchAddr>>
        /\ oldWatch' = IF watchEnab THEN ReadMemory(e.ctr, watchAddr) ELSE oldWatch
    BY DEF Clock
  <2>. QED  BY <2>1 DEF WatchCacheCurrent
<1>. QED  BY <1>1, <1>2, <1>3 DEF WInv

(* The keys that call genAGCStates(): memory and the watch are unchanged. *)
LEMMA RefreshWInv ==
  ASSUME WInv, NEW m, Refresh(m), UNCHANGED <<reg, watch>>, TypeOK'
  PROVE  WInv'
<1>1. ctr' = ctr
  BY RefreshKeepsCtr DEF WInv
<1>. QED  BY <1>1 DEF WInv, CtrInv, WatchCacheCurrent, watch

(* 'y' reads the word it starts to watch; no other key touches memory.     *)
LEMMA OtherKeysWInv ==
  ASSUME WInv, TypeOK',
         \/ ReleaseStep \/ SingleClock \/ ToggleBreakpoint \/ ToggleWatch
         \/ IncrCntr \/ DecrCntr \/ Interrupt
  PROVE  WInv'
<1>1. UNCHANGED <<reg, ctr>>
  BY DEF ReleaseStep, SingleClock, ToggleBreakpoint, ToggleWatch,
         IncrCntr, DecrCntr, Interrupt, RaiseLine
<1>2. CtrInv'
  BY <1>1 DEF WInv, CtrInv
<1>3. WatchCacheCurrent'
  <2>1. CASE ToggleWatch /\ watchEnab
    <3>1. ~watchEnab'
      BY <2>1, Zenon DEF ToggleWatch
    <3>. QED  BY <3>1 DEF WatchCacheCurrent
  <2>2. CASE ToggleWatch /\ ~watchEnab
    <3>1. oldWatch' = ReadMemory(ctr, watchAddr')
      BY <2>2, Zenon DEF ToggleWatch
    <3>2. ctr' = ctr
      BY <1>1
    <3>. QED  BY <3>1, <3>2, Zenon DEF WatchCacheCurrent
  <2>3. CASE ~ToggleWatch
    <3>1. UNCHANGED <<watchEnab, watchAddr, oldWatch>>
      BY <2>3 DEF ReleaseStep, SingleClock, ToggleBreakpoint,
                  IncrCntr, DecrCntr, Interrupt, RaiseLine, watch
    <3>. QED  BY <1>1, <3>1 DEF WInv, WatchCacheCurrent
  <2>. QED  BY <2>1, <2>2, <2>3
<1>. QED  BY <1>2, <1>3 DEF WInv

LEMMA NextWInv ==
  ASSUME WInv, [Next]_vars
  PROVE  WInv'
<1>0. TypeOK'
  BY NextType DEF WInv
<1>1. CASE Clock
  BY <1>1, ClockWInv
<1>2. CASE \E f \in {"run", "step", "inst", "purst", "sa", "sclEnab"} :
             \E k : Toggle(k, f)
  BY <1>0, <1>2, RefreshWInv DEF Toggle
<1>3. CASE \E k : Redisplay(k)
  BY <1>0, <1>3, RefreshWInv DEF Redisplay
<1>4. CASE ClockMode("F2", FALSE) \/ ClockMode("F4", TRUE)
  BY <1>0, <1>4, RefreshWInv DEF ClockMode
<1>5. CASE \/ ReleaseStep \/ SingleClock \/ ToggleBreakpoint \/ ToggleWatch
           \/ IncrCntr \/ DecrCntr \/ Interrupt
  BY <1>0, <1>5, OtherKeysWInv
<1>6. CASE UNCHANGED vars
  BY <1>6 DEF WInv, TypeOK, CtrInv, WatchCacheCurrent, vars
<1>. QED  BY <1>1, <1>2, <1>3, <1>4, <1>5, <1>6 DEF Next

(* main() starts in STBY (power-on) or WAIT (the running start): not at a *)
(* write-back, and with no watch set.                                      *)
LEMMA InitWInv ==
  ASSUME NEW r0 \in Regs, NEW m0 \in Monitor, InitFrom(r0, m0), r0.sg \in {STBY, WAIT}
  PROVE  WInv
<1>1. TypeOK
  BY InitFromType
<1>2. ~watchEnab /\ reg = r0
  BY DEF InitFrom
<1>3. ~CounterWrite(reg)
  BY <1>2, WrTPIsPulse DEF CounterWrite
<1>. QED  BY <1>1, <1>2, <1>3 DEF WInv, CtrInv, WatchCacheCurrent

LEMMA StartStates ==
  /\ Init => \E r0 \in Regs, m0 \in Monitor : InitFrom(r0, m0) /\ r0.sg \in {STBY, WAIT}
  /\ InitRunning => \E r0 \in Regs, m0 \in Monitor : InitFrom(r0, m0) /\ r0.sg \in {STBY, WAIT}
<1>1. PowerOnRegs.sg = STBY /\ [GENRST(PowerOnRegs) EXCEPT !.sg = WAIT].sg = WAIT
  <2>1. GENRST(PowerOnRegs) \in Regs
    BY PowerOnType, GENRSTType
  <2>. QED  BY <2>1 DEF PowerOnRegs, Regs
<1>. QED  BY <1>1, PowerOnType DEF Init, InitRunning

(***************************************************************************)
(* The watch compares with a current value, the invariant run watch       *)
(* checks: while a watch is set, oldWatchValue is the word at watchAddr,   *)
(* after every tick and every key (AGCmain.cpp 695-703, toggleWatch()),    *)
(* for every width, timing, counter set and program.                       *)
(***************************************************************************)
THEOREM WatchCacheCorrect == Spec => []WatchCacheCurrent
<1>1. Init => WInv
  BY StartStates, InitWInv
<1>2. WInv /\ [Next]_vars => WInv'
  BY NextWInv
<1>. QED  BY <1>1, <1>2, PTL DEF Spec, WInv

(* The same from the running start state that run watch starts from.       *)
THEOREM WatchCacheCorrectRunning == SpecRunning => []WatchCacheCurrent
<1>1. InitRunning => WInv
  BY StartStates, InitWInv
<1>2. WInv /\ [Next]_vars => WInv'
  BY NextWInv
<1>. QED  BY <1>1, <1>2, PTL DEF SpecRunning, WInv
-----------------------------------------------------------------------------
(* TPG: from a stopping point, with RUN and STEP off, the next timing      *)
(* state is not TP1, whichever of PURST and SA is set.                     *)
LEMMA NextSGStop ==
  ASSUME NEW r \in Regs, NEW m \in Monitor, ~m.run, ~m.step,
         \/ r.sg = WAIT
         \/ r.sg = NTP /\ (~m.inst \/ r.sni)
  PROVE  NextSG(r, m) # 1
<1>1. PWRON # 1 /\ STBY # 1 /\ WAIT # 1 /\ r.sg # PWRON /\ r.sg # STBY /\ ~(r.sg < NTP)
  BY WrTPIsPulse DEF PWRON, STBY, WAIT
<1>2. m.purst \in BOOLEAN /\ m.sa \in BOOLEAN /\ m.inst \in BOOLEAN /\ r.sni \in BOOLEAN
  BY DEF Monitor, Regs
<1>. QED  BY <1>1, <1>2 DEF NextSG

(* genAGCStates() sets the timing state the TPG computes.                  *)
LEMMA GenSG ==
  ASSUME NEW r \in Regs, NEW m \in Monitor, NEW ln \in Lines,
         NEW c \in [Cells -> Word], NEW p \in Programs
  PROVE  Gen(r, m, ln, c, p).reg.sg = NextSG(r, m)
<1>1. GENRST(r) \in Regs /\ Pulses(r, ln, c, p) \in Regs
  BY GENRSTType, PulsesType
<1>. QED  BY <1>1 DEF Gen, Regs

(* A stopping point is never TP1.                                          *)
LEMMA StopNotTP1 ==
  ASSUME AtStop PROVE reg.sg # 1 /\ reg.sg # WrTP
BY WrTPIsPulse DEF AtStop, WAIT

(* A tick: the registers it latches were computed from the stopped       *)
(* state only if RUN was already off, since neither the breakpoint nor    *)
(* the watch can clear RUN there.                                          *)
LEMMA ClockHaltInv ==
  ASSUME HInv, Clock, BreakAddrs \cap CADRs = {}
  PROVE  HaltInv'
<1>. DEFINE e    == Gen(nxt, mon, lines, ctr, prog)
            hit  == bpEnab /\ breakpoint = nxt.s
            trip == watchEnab /\ ReadMemory(e.ctr, watchAddr) # oldWatch
            n    == IF loc = "idle" THEN BatchSize ELSE cntr
            run2 == mon.run /\ ~hit /\ ~trip
            more == mon.fclk /\ run2 /\ n - 1 > 0
<1>1. /\ reg' = nxt /\ nxt' = e.reg
      /\ mon' = [mon EXCEPT !.run = run2, !.step = @ /\ (more \/ nxt.sg # 1)]
  BY DEF Clock
<1>2. nxt \in Regs /\ mon \in Monitor /\ lines \in Lines /\ ctr \in [Cells -> Word]
      /\ prog \in Programs
  BY DEF HInv, WInv, TypeOK
<1>. SUFFICES ASSUME Stopped' PROVE nxt'.sg # 1
  BY DEF HaltInv
<1>3. (nxt.sg = WAIT \/ (nxt.sg = NTP /\ (~mon.inst \/ nxt.sni))) /\ ~run2
      /\ ~(mon.step /\ (more \/ nxt.sg # 1))
  BY <1>1, <1>2 DEF Stopped, AtStop, Monitor
<1>4. nxt.sg # 1 /\ nxt.sg # WrTP
  BY <1>3, WrTPIsPulse DEF WAIT
<1>5. ~hit
  <2>1. nxt.s \in CADRs
    BY <1>2 DEF Regs
  <2>. QED  BY <2>1 DEF HInv, BpInv
<1>6. ~trip
  <2>1. ~CounterWrite(nxt)
    BY <1>4 DEF CounterWrite
  <2>2. e.ctr = ctr
    <3>1. CtrAfter(nxt, ctr) = ctr
      BY <2>1 DEF CtrAfter
    <3>. QED  BY <3>1 DEF Gen
  <2>. QED  BY <2>2 DEF HInv, WInv, WatchCacheCurrent
<1>7. ~mon.run /\ ~mon.step
  BY <1>3, <1>4, <1>5, <1>6
<1>8. NextSG(nxt, mon) # 1
  BY <1>2, <1>3, <1>7, NextSGStop
<1>9. e.reg.sg = NextSG(nxt, mon)
  BY <1>2, GenSG
<1>. QED  BY <1>1, <1>8, <1>9

(* A key that calls genAGCStates() recomputes the inputs from the new      *)
(* switches: stopped under them, the TPG stays off TP1.                    *)
LEMMA RefreshHaltInv ==
  ASSUME HInv, NEW m \in Monitor, Refresh(m), mon' = m, UNCHANGED reg
  PROVE  HaltInv'
<1>1. reg \in Regs /\ lines \in Lines /\ ctr \in [Cells -> Word] /\ prog \in Programs
  BY DEF HInv, WInv, TypeOK
<1>2. nxt'.sg = NextSG(reg, m)
  <2>1. nxt' = Gen(reg, m, lines, ctr, prog).reg
    BY DEF Refresh
  <2>. QED  BY <1>1, <2>1, GenSG
<1>. SUFFICES ASSUME Stopped' PROVE nxt'.sg # 1
  BY DEF HaltInv
<1>3. ~m.run /\ ~m.step /\ (reg.sg = WAIT \/ (reg.sg = NTP /\ (~m.inst \/ reg.sni)))
  BY DEF Stopped, AtStop
<1>. QED  BY <1>1, <1>2, <1>3, NextSGStop

LEMMA NextHInv ==
  ASSUME HInv, [Next]_vars, BreakAddrs \cap CADRs = {}
  PROVE  HInv'
<1>0. WInv'
  BY NextWInv DEF HInv
<1>0a. TypeOK'
  BY <1>0 DEF WInv
<1>1. BpInv'
  <2>1. CASE ToggleBreakpoint
    BY <2>1, Zenon DEF ToggleBreakpoint, BpInv, HInv
  <2>2. CASE ~ToggleBreakpoint
    <3>1. UNCHANGED <<bpEnab, breakpoint>>
      BY <2>2 DEF Next, vars, Clock, ReleaseStep, Toggle, Redisplay, ClockMode,
                  SingleClock, IncrCntr, DecrCntr, Interrupt, RaiseLine, ToggleWatch
    <3>. QED  BY <3>1 DEF BpInv, HInv
  <2>. QED  BY <2>1, <2>2
<1>2. HaltInv'
  <2>1. CASE Clock
    BY <2>1, ClockHaltInv
  <2>2. CASE \E f \in {"run", "step", "inst", "purst", "sa", "sclEnab"} :
               \E k : Toggle(k, f)
    BY <1>0a, <2>2, RefreshHaltInv DEF Toggle, TypeOK
  <2>3. CASE \E k : Redisplay(k)
    BY <1>0a, <2>3, RefreshHaltInv DEF Redisplay, TypeOK
  <2>4. CASE ClockMode("F2", FALSE) \/ ClockMode("F4", TRUE)
    BY <1>0a, <2>4, RefreshHaltInv DEF ClockMode, TypeOK
  <2>5. CASE ReleaseStep
    <3>1. reg.sg = 1 /\ UNCHANGED reg
      BY <2>5 DEF ReleaseStep
    <3>. QED  BY <3>1, WrTPIsPulse DEF HaltInv, Stopped, AtStop
  <2>6. CASE \/ SingleClock \/ ToggleBreakpoint \/ ToggleWatch
             \/ IncrCntr \/ DecrCntr \/ Interrupt \/ UNCHANGED vars
    <3>1. UNCHANGED <<reg, nxt, mon>>
      BY <2>6 DEF SingleClock, ToggleBreakpoint, ToggleWatch,
                  IncrCntr, DecrCntr, Interrupt, RaiseLine, vars
    <3>. QED  BY <3>1 DEF HaltInv, Stopped, AtStop, HInv
  <2>. QED  BY <2>1, <2>2, <2>3, <2>4, <2>5, <2>6 DEF Next
<1>. QED  BY <1>0, <1>1, <1>2 DEF HInv

(* Only a tick latches registers, and it latches the ones HaltInv speaks   *)
(* of; every other step leaves a stopping point where it is.               *)
LEMMA StepHalts ==
  ASSUME HInv, [Next]_vars
  PROVE  [Stopped => reg'.sg # 1]_vars
<1>1. CASE Clock
  <2>1. reg' = nxt
    BY <1>1 DEF Clock
  <2>. QED  BY <2>1 DEF HInv, HaltInv
<1>2. CASE ~Clock
  <2>1. UNCHANGED reg
    BY <1>2 DEF Next, vars, ReleaseStep, Toggle, Redisplay, ClockMode,
                SingleClock, IncrCntr, DecrCntr, Interrupt, RaiseLine,
                ToggleBreakpoint, ToggleWatch
  <2>. QED  BY <2>1, StopNotTP1 DEF Stopped
<1>. QED  BY <1>1, <1>2

LEMMA InitHInv ==
  ASSUME Init \/ InitRunning
  PROVE  HInv
<1>1. WInv
  BY StartStates, InitWInv
<1>2. ~bpEnab
  BY DEF Init, InitRunning, InitFrom
<1>3. ~Stopped
  <2>1. CASE Init
    <3>1. reg.sg = STBY
      BY <2>1, StartStates DEF Init, InitFrom, PowerOnRegs
    <3>. QED  BY <3>1, WrTPIsPulse DEF Stopped, AtStop, STBY, WAIT
  <2>2. CASE InitRunning
    <3>1. mon.run
      BY <2>2 DEF InitRunning, InitFrom, RunningMon, PowerOnMon
    <3>. QED  BY <3>1 DEF Stopped
  <2>. QED  BY <2>1, <2>2
<1>. QED  BY <1>1, <1>2, <1>3 DEF HInv, BpInv, HaltInv

(***************************************************************************)
(* A halted AGC stays halted, the action property runs halt and watch     *)
(* check: at a stopping point with RUN and STEP off, the next clkAGC()     *)
(* does not start a memory cycle, for every width, timing, batch size,    *)
(* program and set of keys, watch included, whenever no breakpoint        *)
(* address is one the core can reach.  Every switch key calls             *)
(* genAGCStates() (AGCmain.cpp 722-790), and a watch trip (695-703) only  *)
(* happens at a counter write-back, never at a stopping point.  Run       *)
(* breakpoint shows that a breakpoint that hits breaks it.                *)
(***************************************************************************)
THEOREM HaltCorrect ==
  ASSUME BreakAddrs \cap CADRs = {}
  PROVE  Spec => HaltRespected
<1>1. Init => HInv
  BY InitHInv
<1>2. HInv /\ [Next]_vars => HInv'
  BY NextHInv
<1>3. HInv /\ [Next]_vars => [Stopped => reg'.sg # 1]_vars
  BY StepHalts
<1>. QED  BY <1>1, <1>2, <1>3, PTL DEF Spec, HaltRespected, Stopped

(* The same from the running start state of run watch.                    *)
THEOREM HaltCorrectRunning ==
  ASSUME BreakAddrs \cap CADRs = {}
  PROVE  SpecRunning => HaltRespected
<1>1. InitRunning => HInv
  BY InitHInv
<1>2. HInv /\ [Next]_vars => HInv'
  BY NextHInv
<1>3. HInv /\ [Next]_vars => [Stopped => reg'.sg # 1]_vars
  BY StepHalts
<1>. QED  BY <1>1, <1>2, <1>3, PTL DEF SpecRunning, HaltRespected, Stopped
-----------------------------------------------------------------------------
(***************************************************************************)
(* No request is lost.  A request the keys or an overflow raise sits on a  *)
(* line until the synchronising pulse moves it into the priority cells of *)
(* the inputs genAGCStates() computes; the next clkAGC() latches those     *)
(* into the masters, and only the TP12 arbitration (SNI) and GENRST take a *)
(* cell away.                                                              *)
(***************************************************************************)

(* The keys whose handlers call genAGCStates() on the latched registers.  *)
RefreshKeys == {"r", "s", "n", "p", "a", "c", "d", "z", "x", "F2", "F4"}

(* The latched states in which a tick may take a priority cell away.     *)
Disch(r) == r.sg \in {STBY, PWRON} \/ (r.sg = NTP /\ r.sni)

(* The priority cells of a are among those of b.                           *)
CellsWithin(a, b) ==
  /\ a.upCell \subseteq b.upCell /\ a.dnCell \subseteq b.dnCell
  /\ a.rpCell \subseteq b.rpCell

(* Outside GENRST and the arbitration, the inputs keep the masters' cells. *)
CellsKept == ~Disch(reg) => CellsWithin(reg, nxt)

(* The inductive invariant behind NoLostRequest.                          *)
LInv == TypeOK /\ CellsKept /\ NoLostRequest

LEMMA SyncTPIsPulse ==
  /\ SyncTP \in 1 .. NTP
  /\ SyncTP \notin {STBY, PWRON, WAIT, 1, NTP - 1, RdTP, WrTP, NTP}
BY DEF STBY, PWRON, WAIT

(* The first MCT of an instruction leaves the priority cells alone.       *)
LEMMA EndMCTCells ==
  ASSUME NEW r \in Regs
  PROVE  /\ EndMCT(r).upCell = r.upCell /\ EndMCT(r).dnCell = r.dnCell
         /\ EndMCT(r).rpCell = r.rpCell
BY DEF EndMCT, Regs

(* The pulses of any TP but TP12 with SNI keep the priority cells; the    *)
(* synchronising pulse adds the request lines to them.                    *)
LEMMA PulsesKeepCells ==
  ASSUME NEW r \in Regs, NEW ln \in Lines, NEW c \in [Cells -> Word],
         NEW p \in Programs, ~(r.sg = NTP /\ r.sni)
  PROVE  CellsWithin(r, Pulses(r, ln, c, p))
<1>1. /\ CellsWithin(r, [r EXCEPT !.sni = FALSE])
      /\ CellsWithin(r, [r EXCEPT !.sni = LastMCT(r)])
      /\ CellsWithin(r, [r EXCEPT !.inhint1 = TRUE])
      /\ CellsWithin(r, [r EXCEPT !.g = CounterSum(r.seq, c[r.cell])])
      /\ CellsWithin(r, Capture(r, ln))
      /\ CellsWithin(r, r)
  BY DEF CellsWithin, Capture, Regs
<1>2. CellsWithin(r, Advance(r))
  BY EndMCTCells DEF Advance, CellsWithin, Regs
<1>3. r.sg = NTP => ~r.sni
  OBVIOUS
<1>. QED  BY <1>1, <1>2, <1>3, Zenon DEF Pulses

(* A latched state outside GENRST and the arbitration passes its cells on *)
(* to the inputs genAGCStates() computes.                                  *)
LEMMA GenKeepsCells ==
  ASSUME NEW r \in Regs, NEW m \in Monitor, NEW ln \in Lines,
         NEW c \in [Cells -> Word], NEW p \in Programs, ~Disch(r)
  PROVE  CellsWithin(r, Gen(r, m, ln, c, p).reg)
<1>1. r.sg \notin {STBY, PWRON}
  BY DEF Disch
<1>2. CASE r.sg = WAIT
  BY <1>1, <1>2 DEF Gen, CellsWithin, Regs
<1>3. CASE r.sg # WAIT
  <2>1. Gen(r, m, ln, c, p).reg = [Pulses(r, ln, c, p) EXCEPT !.sg = NextSG(r, m)]
    BY <1>1, <1>3 DEF Gen
  <2>2. Pulses(r, ln, c, p) \in Regs /\ CellsWithin(r, Pulses(r, ln, c, p))
    BY PulsesType, PulsesKeepCells DEF Disch
  <2>. QED  BY <2>1, <2>2 DEF CellsWithin, Regs
<1>. QED  BY <1>2, <1>3

(* Every request line genAGCStates() reads is still on a line afterwards, *)
(* or, at the synchronising pulse, in the priority cells it computes.     *)
LEMMA GenKeepsLines ==
  ASSUME NEW r \in Regs, NEW m \in Monitor, NEW ln \in Lines,
         NEW c \in [Cells -> Word], NEW p \in Programs
  PROVE  LET e == Gen(r, m, ln, c, p) IN
         /\ ln.up \subseteq e.ln.up \cup e.reg.upCell
         /\ ln.dn \subseteq e.ln.dn \cup e.reg.dnCell
         /\ ln.rupt \subseteq e.ln.rupt \cup e.reg.rpCell
<1>. DEFINE e == Gen(r, m, ln, c, p)
<1>1. CASE r.sg \in {STBY, PWRON, WAIT}
  <2>1. e.ln = ln
    BY <1>1 DEF Gen
  <2>. QED  BY <2>1
<1>2. CASE r.sg = SyncTP
  <2>1. r.sg \notin {STBY, PWRON, WAIT}
    BY <1>2, SyncTPIsPulse
  <2>2. Pulses(r, ln, c, p) = Capture(r, ln)
    BY <1>2, SyncTPIsPulse DEF Pulses, CounterWrite
  <2>3. e.reg = [Capture(r, ln) EXCEPT !.sg = NextSG(r, m)]
    BY <2>1, <2>2 DEF Gen
  <2>4. Capture(r, ln) \in Regs
    BY CaptureType
  <2>. QED  BY <2>3, <2>4 DEF Capture, Regs, Lines
<1>3. CASE r.sg \notin {STBY, PWRON, WAIT, SyncTP}
  <2>1. e.ln = LinesAfter(r, ln)
    BY <1>3 DEF Gen
  <2>2. /\ ln.up \subseteq LinesAfter(r, ln).up
        /\ ln.dn \subseteq LinesAfter(r, ln).dn
        /\ ln.rupt \subseteq LinesAfter(r, ln).rupt
    BY <1>3 DEF LinesAfter, Lines
  <2>. QED  BY <2>1, <2>2
<1>. QED  BY <1>1, <1>2, <1>3
(* A tick: the masters take the inputs, whose cells hold every request   *)
(* captured; a master cell that the inputs dropped was served or reset,   *)
(* and Settle discharges it.                                               *)
LEMMA ClockLInv ==
  ASSUME LInv, Clock, TypeOK'
  PROVE  LInv'
<1>. DEFINE e == Gen(nxt, mon, lines, ctr, prog)
            disch == reg.sg \in {STBY, PWRON} \/ (reg.sg = NTP /\ reg.sni)
            gone(x, y) == IF disch THEN x \ y ELSE {}
<1>1. /\ reg' = nxt /\ nxt' = e.reg /\ lines' = e.ln
      /\ owed' = [up   |-> (owed.up \cup e.ln.up) \ gone(reg.upCell, nxt.upCell),
                  dn   |-> (owed.dn \cup e.ln.dn) \ gone(reg.dnCell, nxt.dnCell),
                  rupt |-> (owed.rupt \cup e.ln.rupt) \ gone(reg.rpCell, nxt.rpCell)]
  BY DEF Clock, Settle
<1>2. nxt \in Regs /\ mon \in Monitor /\ lines \in Lines /\ ctr \in [Cells -> Word]
      /\ prog \in Programs
  BY DEF LInv, TypeOK
<1>3. CellsKept'
  <2>1. ~Disch(nxt) => CellsWithin(nxt, e.reg)
    BY <1>2, GenKeepsCells
  <2>. QED  BY <1>1, <2>1 DEF CellsKept
<1>4. /\ lines.up \subseteq e.ln.up \cup e.reg.upCell
      /\ lines.dn \subseteq e.ln.dn \cup e.reg.dnCell
      /\ lines.rupt \subseteq e.ln.rupt \cup e.reg.rpCell
  BY <1>2, GenKeepsLines
<1>5. ~disch => CellsWithin(reg, nxt)
  BY DEF LInv, CellsKept, Disch
<1>6. /\ owed.up   \subseteq lines.up \cup reg.upCell \cup nxt.upCell
      /\ owed.dn   \subseteq lines.dn \cup reg.dnCell \cup nxt.dnCell
      /\ owed.rupt \subseteq lines.rupt \cup reg.rpCell \cup nxt.rpCell
  BY DEF LInv, NoLostRequest
<1>7. NoLostRequest'
  BY <1>1, <1>4, <1>5, <1>6 DEF NoLostRequest, CellsWithin
<1>. QED  BY <1>3, <1>7 DEF LInv

(* A request key puts its index on the line and in the history at once.  *)
LEMMA RaiseLineLInv ==
  ASSUME LInv, NEW k, NEW f \in {"up", "dn", "rupt"}, NEW idx, NEW valid,
         RaiseLine(k, f, idx, valid), TypeOK'
  PROVE  LInv'
<1>1. UNCHANGED <<reg, nxt>>
  BY DEF RaiseLine
<1>2. lines \in Lines /\ owed \in Lines
  BY DEF LInv, TypeOK
<1>3. CASE idx \in valid
  <2>1. lines' = [lines EXCEPT ![f] = @ \cup {idx}] /\ owed' = [owed EXCEPT ![f] = @ \cup {idx}]
    BY <1>3 DEF RaiseLine
  <2>. QED  BY <1>1, <1>2, <2>1 DEF LInv, CellsKept, NoLostRequest, Lines
<1>4. CASE idx \notin valid
  <2>1. UNCHANGED <<lines, owed>>
    BY <1>4 DEF RaiseLine
  <2>. QED  BY <1>1, <2>1 DEF LInv, CellsKept, NoLostRequest, Disch, CellsWithin
<1>. QED  BY <1>3, <1>4

(* With no key that calls genAGCStates(), every step keeps LInv.          *)
LEMMA NextLInv ==
  ASSUME LInv, [Next]_vars, Keys \cap RefreshKeys = {}
  PROVE  LInv'
<1>0. TypeOK'
  BY NextType DEF LInv
<1>1. CASE Clock
  BY <1>0, <1>1, ClockLInv
<1>2. CASE IncrCntr \/ DecrCntr \/ Interrupt
  BY <1>0, <1>2, RaiseLineLInv DEF IncrCntr, DecrCntr, Interrupt
<1>3. CASE \/ ReleaseStep \/ SingleClock \/ ToggleBreakpoint \/ ToggleWatch
           \/ UNCHANGED vars
  <2>1. UNCHANGED <<reg, nxt, lines, owed>>
    BY <1>3 DEF ReleaseStep, SingleClock, ToggleBreakpoint, ToggleWatch, vars
  <2>. QED  BY <1>0, <2>1 DEF LInv, CellsKept, NoLostRequest, Disch, CellsWithin
<1>4. ~\E k \in RefreshKeys : KeyPressed(k)
  BY DEF KeyPressed
<1>5. ~(\/ Toggle("r", "run") \/ Toggle("s", "step") \/ Toggle("n", "inst")
        \/ Toggle("p", "purst") \/ Toggle("a", "sa") \/ Toggle("c", "sclEnab")
        \/ \E k \in {"d", "z", "x"} : Redisplay(k)
        \/ ClockMode("F2", FALSE) \/ ClockMode("F4", TRUE))
  BY <1>4 DEF Toggle, Redisplay, ClockMode, RefreshKeys
<1>. QED  BY <1>1, <1>2, <1>3, <1>5 DEF Next

LEMMA InitLInv ==
  ASSUME NEW r0 \in Regs, NEW m0 \in Monitor, InitFrom(r0, m0),
         r0.upCell = {}, r0.dnCell = {}, r0.rpCell = {}
  PROVE  LInv
<1>1. TypeOK
  BY InitFromType
<1>2. owed = NoLines /\ reg = r0
  BY DEF InitFrom
<1>3. CellsKept
  BY <1>2 DEF CellsKept, CellsWithin
<1>. QED  BY <1>1, <1>2, <1>3 DEF LInv, NoLostRequest, NoLines
(* main() starts with empty priority cells, power-on or running.          *)
LEMMA StartCells ==
  /\ Init \/ InitRunning => LInv
<1>1. /\ PowerOnRegs.upCell = {} /\ PowerOnRegs.dnCell = {} /\ PowerOnRegs.rpCell = {}
  BY DEF PowerOnRegs
<1>2. LET r == [GENRST(PowerOnRegs) EXCEPT !.sg = WAIT] IN
      /\ r \in Regs /\ r.upCell = {} /\ r.dnCell = {} /\ r.rpCell = {}
  <2>1. GENRST(PowerOnRegs) \in Regs
    BY PowerOnType, GENRSTType
  <2>2. /\ GENRST(PowerOnRegs).upCell = {} /\ GENRST(PowerOnRegs).dnCell = {}
        /\ GENRST(PowerOnRegs).rpCell = {}
    BY PowerOnType DEF GENRST, Regs
  <2>3. WAIT \in SGStates
    BY DEF WAIT, SGStates
  <2>. QED  BY <2>1, <2>2, <2>3 DEF Regs
<1>3. PowerOnRegs \in Regs /\ PowerOnMon \in Monitor /\ RunningMon \in Monitor
  BY PowerOnType DEF RunningMon, Monitor
<1>. QED  BY <1>1, <1>2, <1>3, InitLInv DEF Init, InitRunning

(***************************************************************************)
(* No counter or interrupt request is lost, the invariant run counters     *)
(* checks: a request incrCntr(), decrCntr(), interrupt() or a counter      *)
(* overflow raises stays on its line, in a priority cell, or in the cell   *)
(* genAGCStates() has computed, until the TP12 arbitration serves it or    *)
(* GENRST clears the cells, for every width, timing, batch size, counter  *)
(* chain and program, as long as no key that calls genAGCStates() on the  *)
(* latched registers (AGCmain.cpp 722-790) is pressed.  Run lost_request  *)
(* shows that such a key, pressed just after a capture, loses it.  The    *)
(* start is the running state run counters starts from (PURST released,   *)
(* RUN and FCLK on): from power-on, releasing PURST takes 'p', itself a   *)
(* key of that kind, so without them the AGC would never leave reset.     *)
(***************************************************************************)
THEOREM NoLostRequestCorrectRunning ==
  ASSUME Keys \cap RefreshKeys = {}
  PROVE  SpecRunning => []NoLostRequest
<1>1. InitRunning => LInv
  BY StartCells
<1>2. LInv /\ [Next]_vars => LInv'
  BY NextLInv
<1>3. LInv => NoLostRequest
  BY DEF LInv
<1>. QED  BY <1>1, <1>2, <1>3, PTL DEF SpecRunning
-----------------------------------------------------------------------------
(* Only a tick changes the latched registers.                              *)
LEMMA OnlyClockLatches ==
  ASSUME [Next]_vars, ~Clock PROVE reg' = reg
BY Zenon DEF Next, vars, ReleaseStep, Toggle, Redisplay, ClockMode, SingleClock,
             IncrCntr, DecrCntr, Interrupt, RaiseLine, ToggleBreakpoint, ToggleWatch

(* A tick with RUN off after it releases STEP when it latches TP1.         *)
LEMMA ClockReleasesStep ==
  ASSUME TypeOK, Clock, ~mon'.run, reg'.sg = 1 PROVE ~mon'.step
<1>. DEFINE n    == IF loc = "idle" THEN BatchSize ELSE cntr
            e    == Gen(nxt, mon, lines, ctr, prog)
            hit  == bpEnab /\ breakpoint = nxt.s
            w    == ReadMemory(e.ctr, watchAddr)
            trip == watchEnab /\ w # oldWatch
            run2 == mon.run /\ ~hit /\ ~trip
            more == mon.fclk /\ run2 /\ n - 1 > 0
<1>1. /\ reg' = nxt
      /\ mon' = [mon EXCEPT !.run = run2, !.step = @ /\ (more \/ nxt.sg # 1)]
  BY DEF Clock
<1>2. mon \in Monitor
  BY DEF TypeOK
<1>3. mon'.run = run2 /\ mon'.step = (mon.step /\ (more \/ nxt.sg # 1))
  BY <1>1, <1>2 DEF Monitor
<1>4. ~more
  BY <1>3
<1>. QED  BY <1>1, <1>3, <1>4

(* Every step keeps the release: the step half of StepReleasedOnTP1.      *)
LEMMA StepReleaseStep ==
  ASSUME TypeOK, [Next]_vars
  PROVE  [~mon'.run /\ reg.sg # 1 /\ reg'.sg = 1 => ~mon'.step]_vars
<1>. SUFFICES ASSUME ~mon'.run, reg.sg # 1, reg'.sg = 1 PROVE ~mon'.step
  OBVIOUS
<1>1. CASE Clock
  BY <1>1, ClockReleasesStep
<1>2. CASE ~Clock
  BY <1>2, OnlyClockLatches
<1>. QED  BY <1>1, <1>2

(***************************************************************************)
(* A single step runs one memory cycle: with RUN off, the pass of main()'s *)
(* loop whose clkAGC() latches TP1 releases STEP (AGCmain.cpp 706-714),   *)
(* from either start state and for every batch size, so that with         *)
(* HaltRespected the AGC stops at the next stopping point.                *)
(***************************************************************************)
THEOREM StepReleaseCorrect == Spec => StepReleasedOnTP1
<1>1. TypeOK /\ [Next]_vars =>
        [~mon'.run /\ reg.sg # 1 /\ reg'.sg = 1 => ~mon'.step]_vars
  BY StepReleaseStep
<1>. QED  BY <1>1, TypeCorrect, PTL DEF Spec, StepReleasedOnTP1

(* The same from the running start state.                                  *)
THEOREM StepReleaseCorrectRunning == SpecRunning => StepReleasedOnTP1
<1>1. TypeOK /\ [Next]_vars =>
        [~mon'.run /\ reg.sg # 1 /\ reg'.sg = 1 => ~mon'.step]_vars
  BY StepReleaseStep
<1>. QED  BY <1>1, TypeCorrectRunning, PTL DEF SpecRunning, StepReleasedOnTP1
=============================================================================
