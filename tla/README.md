# Verification of the Block I AGC simulator (yaAGC-Block1-Pultorak)

This directory holds TLA+ models of the Block I simulator under
`src/yaAGC-Block1-Pultorak/`, TLC configurations that model-check them, and
TLAPS proofs.

## The system

Only two files of the simulator are under `src/`:

- `AGCmain.cpp` is the driver.
  - `genAGCStates()` (181-238) evaluates the control pulses of the current
    timing pulse. It runs the read, ALU and write passes and then the scaler
    and TPG steps.
  - `main()` (640-909):
    - makes one `genAGCStates()` call at start-up (653);
    - then loops forever, polling the keyboard. While `MON::FCLK` (or a single
      clock from F1) is set, it runs batches of up to 100 ticks
      (`clkAGC(); genAGCStates();`), checking the breakpoint (687) and the
      watch (695) after every tick;
    - clears STEP on TP1 (713);
    - dispatches the front-panel keys (716-908).
  - The key helpers:
    - `getCommand` (247) edits a prompt line;
    - `toggleBreakpoint` (276) and `toggleWatch` (298);
    - `incrCntr`, `decrCntr` and `interrupt` (320-351) raise a counter or
      interrupt request line at an index typed by the operator;
    - `loadMemory` (355) reads a `.obj` file of octal address/word pairs;
    - `examineMemory` (405) and `showSourceCode` (557), which lists the
      `.lst` lines around the current address;
    - the display routines.
- `MON.cpp` holds the monitor switches and their power-on values (44-52),
  and the register display.

The registers are master/slave. `clkAGC()` latches into the masters the values
that the last `genAGCStates()` wrote into the slaves. Memory and the request
lines `pcUp[]`, `pcDn[]` and `rupt[]` are not latched: `genAGCStates()` writes
them at once.

The other subsystems that `genAGCStates()` drives are not under `src/`:

- TPG: the timing pulse generator;
- SEQ and CPM: the sequencer and the control pulse matrix;
- CTR and INT: counters and interrupts;
- ALU, MEM, PAR and SCL.

They are modelled from `spec.md` and marked `spec_modelled` in `PROJECT.json`.

## Modules

| Module | Models | Source |
|---|---|---|
| `AGCArith` | ones'-complement words, the adder with end-around carry, overflow, the overflow-corrected store, PINC/MINC | spec 4.5, 8 |
| `AGCCore` | one `genAGCStates()` evaluation, `Gen(r, m, ln, c, p)`: TPG step `NextSG`, GENRST, subsequences at memory-cycle (MCT) granularity, CLISQ/NISQ, request capture (`Capture`), counter read/sum/write-back, overflow chaining and INHINT1, the TP12 arbitration (`Select`: counters, then an enabled interrupt, then `Fetch`) | `genAGCStates` (source), subsystems (spec) |
| `AGCDriver` | `main()`: the variables, `Init`, one action per loop pass and key handler | `AGCmain.cpp`, `MON.cpp` |
| `Loader` | `loadMemory()`: the `fopen` failure, the `fscanf("%o %o")` loop with each of its return values, `writeMemory` | `AGCmain.cpp` 355-381 |
| `ObjFormat` | `RecordsAt` and `Loaded`: what a `.obj` file of records does to memory (the reference both loader modules share) | |
| `CommandLine` | `getCommand()` key by key, and the buffers its callers `strcpy` the line into | `AGCmain.cpp` 247-272, 404-408 |
| `SourceListing` | `showSourceCode()`: the `feof`/`fgets` loop, the ring `foffset[noffset]`, the seek back, the `maxLines` cut-off | `AGCmain.cpp` 556-637 |
| `MC_AGCDriver` | the instances: programs, counter chain TIME1→TIME2→interrupt 0 | |
| `MC_AGCArith` | every pair of words as the state, for the reference check | |
| `MC_Loader`, `MC_SourceListing` | the sets of files the loader and the listing runs enumerate | |
| `AGCArithProofs`, `MC_AGCArithProofs`, `AGCDriverProofs`, `DriverSafetyProofs`, `LoaderProofs`, `SourceListingProofs`, `CommandLineProofs` | TLAPS proofs | |

The components interact through the driver. A key handler runs to
completion inside the polling loop of `main()`, so the loader, the prompt
and the listing never interleave with a clock tick. They are therefore
modules of their own, each with the state its function touches. Loading
changes memory, which the core reads. `getCommand()` is the prompt of every
key that asks for input. The listing reads the file name that the last load
set.

### How `AGCDriver` corresponds to the code

The variables:

- `reg` and `nxt` are the master and slave registers.
- `lines` are the request lines.
- `ctr` are the counter words.
- `prog` is fixed memory.
- `mon` are the `MON::` switches.
- `loc`, `cntr` and `singleClock` are the loop position, `genStateCntr` and
  `singleClock`.
- `bpEnab` and `breakpoint` are the breakpoint.
- `watchEnab`, `watchAddr` and `oldWatch` are the watch (`oldWatchValue`).
- Two variables are history only:
  - `wild` records a write outside a request array;
  - `owed` holds the requests raised and not yet served or reset.

The actions:

- `Clock` is one pass of the do/while loop:
  - latch `nxt` into `reg` and evaluate `Gen` on the new masters;
  - check the breakpoint against the latched S, and compare the watched
    word with `oldWatchValue`, clearing RUN on a hit or a change;
  - evaluate the loop condition;
  - release STEP at the end of a batch.
- `ReleaseStep` is a polling pass that does not clock.
- `Toggle`, `Redisplay` and `ClockMode` change a switch (or none) and call
  `Refresh`, which is `genAGCStates()` on the latched registers.
- `SingleClock` is F1.
- `IncrCntr`, `DecrCntr` and `Interrupt` raise a line through `RaiseLine`,
  with no `genAGCStates()`, exactly as the code does.
  - The index is an input from the set `atoi()` may return.
  - An index outside the array is undefined behaviour, recorded in `wild`.
- `ToggleBreakpoint` is the `b` key. `ToggleWatch` is the `y` key: it reads
  the watched word into `oldWatch` when it sets the watch.

Data is abstracted:

- An instruction is an opcode class (TC, AD, ADOVF, INHINT, RELINT, RESUME)
  and an address. Whether an AD overflows is part of the program.
- A memory cycle is the unit of a subsequence step: one MCT for TC, GOJ and
  the counter subsequences, two for the others.

### The other modules

- `Loader`:
  - A file is a sequence of tokens. A token is a number (its value) or `Bad`,
    a character `%o` cannot read. `FScanf` returns what `fscanf` does:
    - `EOF` when no token is left;
    - 0, without consuming anything, at `Bad`;
    - 1 when the file ends, or `Bad` follows, after an address;
    - otherwise 2, with both numbers.
  - `Scan` is one pass of the `while`: the `fscanf` of its condition and the
    `writeMemory` of its body. The locals `addr` and `data` start at any value
    (they are uninitialised).
  - `mem0` is history: memory before the load. `Loaded(m, f)` (in
    `ObjFormat`) is the reference, where each address gets the word of its
    last record.
  - No abstract one-step contract is kept. The simulator is single-threaded
    and nothing reads memory while `loadMemory()` runs, so such a contract
    would only restate `LoadMatchesFile` at the return and
    `LoadTerminates`.
- `CommandLine`:
  - `s` is the static `s[80]` and `sp` is `sp - s`.
  - `Printable`, `Backspace` and `Ignored` are the branches of the `while`.
    `Enter` is `'\n'`, with the caller's `strcpy` (and `strcat` of `.obj`
    for `l`).
  - A store outside a buffer sets `wild`.
  - `Edited` is the reference editor, a fold over the keys.
- `SourceListing`:
  - A line is its CADR column. A file position is a line number.
  - `eof` is the stream's end-of-file indicator. It is set by a failed
    `fgets`, or by one that reads a last line without `'\n'`, and cleared
    by `fseek`.
  - `Remember` is the `foffset[op] = ftell(fp)` at the top of each pass.
    `SeekBack`, `SkipLine`, `PrintLine` and `ReadFails` are the outcomes of
    the `fgets`.
  - `Window` is the reference: the `noffset` lines up to the first line of
    the CADR, then on to `maxLines` lines.

## Runs

| Run | Checks | Result |
|---|---|---|
| `halt` | `TypeOK`, `HaltRespected`, `StepReleasedOnTP1` from power-on. The keys are `r s n p a c d z x F1 F2 F4 b`; the batch has 3 ticks; the breakpoint is on an address the program never reaches. | pass, about 108k states. With RUN off, the tick that latches TP1 also releases STEP, because the batch ends as RUN is off (706-714). Together with `HaltRespected`, a single step therefore runs one memory cycle and stops. |
| `breakpoint` | `HaltRespected` with a reachable breakpoint | **violated**: the breakpoint clears RUN after the next state was computed with RUN set, so one more memory cycle starts (the "stops at the instruction afterwards" of the comment at 684-686) |
| `counters` | `NoLostRequest` while running a program that inhibits and releases interrupts. The keys `] [ i` can be pressed at every tick, on TIME1 and interrupt 1, with the TIME1→TIME2→interrupt 0 chain on 2-bit words, so that overflow happens. | pass, about 1.6M states |
| `lost_request` | `NoLostRequest` with the `d` key | **violated**: `d` re-runs `genAGCStates()` after the capture cleared a line, and the request is lost |
| `watch` | `WatchCacheCurrent`, `HaltRespected`. A watch is set on TIME1 while `]` pulses it, with `d` and `r`. | pass, about 403k states: the cached word is current between ticks, and a watch trip (at a counter write-back, in the middle of an MCT) halts before another memory cycle |
| `arith` | `AdderMatchesReference` for all pairs of 4-bit words | pass, 256 states |
| `load` | `LoadMatchesFile`, `LoadTerminates` for every file of 0 to 2 whole records over the values 0-2 and addresses 0-1 (an address outside memory is ignored), and a missing file | pass, about 17k states |
| `load_truncated` | `LoadMatchesFile` for files of 1 or 3 tokens | **violated**: `fscanf` returns 1 and the body writes the uninitialised `data` |
| `load_garbled` | `LoadTerminates` for files with a token `%o` cannot read | **violated**: `fscanf` returns 0 forever and `loadMemory()` never returns |
| `prompt` | `TypeOK`, `ReturnsEditedLine` for up to 4 keys of `a b`, backspace and a control key, after a stale earlier line, at the `i`, `l` and `e` prompts | pass, about 2k states |
| `prompt_overrun` | `NoBufferOverrun` at the `e` prompt with up to 20 keys | **violated** at 20 characters: `strcpy` into `theAddress[20]` |
| `listing` | `TypeOK`, `ShowsWindow`, `ListingTerminates` for every listing of up to 7 lines over two CADRs, with and without a final newline, with `noffset` 3 and `maxLines` 4 | pass, about 4k states |

Why the bounds are enough:

- The core is checked at the real 12 timing pulses.
- The capture, read and write pulses are at distinct TPs, in the order the
  spec gives.
- Two counter cells and one interrupt are enough for chaining (TIME1 into
  TIME2, TIME2 into an interrupt).
- 2-bit words make a counter overflow within four pulses.
- Four program addresses cover a fetch, a branch, an interrupt vector and
  RESUME.
- A batch of 3 ticks (1 in `counters` and `watch`) lets a batch end by the
  counter, by RUN and by FCLK.
- In `counters`, the keys can be pressed at every tick. That gives every
  interleaving of a raised line with the capture and the arbitration.
- The loader files have two records, so that an address is written twice.
  Three values include an address outside memory.
- The prompt runs 4 keys: enough for a backspace at the start, and for one
  after two characters, over a line left by a stale command. The overrun
  needs the buffer's own size, 20.
- The listings are longer than `noffset` + 1. So the window can start after
  line 1, the ring wraps, the `maxLines` cut-off cuts, and the CADR can be
  on the last line with or without a newline.

### Mutants

Each property of a passing run is shown to fail when a mapped definition is
replaced by a plausible bug:

| Property | Mutant | Effect |
|---|---|---|
| `TypeOK` (`halt`) | `FetchNoJump` | a TC that does not branch runs Z off the program |
| `HaltRespected` (`halt`, `watch`) | `ToggleNoRefresh` | a switch key that does not call `genAGCStates()` |
| `StepReleasedOnTP1` | `ClockBatchIgnoresRun` | the batch loop tests FCLK and the counter but not RUN, so STEP is not released on TP1 |
| `NoLostRequest` | `CaptureOverwrite` | the capture loads the cells instead of or-ing the lines in |
| `WatchCacheCurrent` | `ToggleWatchNoRead` | `toggleWatch()` without the `readMemory` |
| `AdderMatchesReference` | `AddNoCarry` | no end-around carry |
| `LoadMatchesFile` | `ScanSwapped` | `writeMemory(data, addr)` |
| `LoadTerminates` | `ScanUntilZero` | the loop tests `!= 0` instead of `!= EOF` |
| `TypeOK`, `ReturnsEditedLine` (`prompt`) | `BackspaceUnguarded` | no `sp != s` test |
| `TypeOK` (`listing`) | `RememberNoWrap` | no `% noffset` |
| `ShowsWindow` | `RememberAdvanceFirst` | the index advances before the store |
| `ListingTerminates` | `SeekBackNoFlag` | the seek back without `foundit = true` |

## Fairness

- `Loader` and `SourceListing` assume weak fairness of their next-state
  relation. Each is one C function with no input, whose loop runs until it
  returns. So `LoadTerminates` and `ListingTerminates` ask only whether the
  loop ends.
- The driver assumes none. Its actions are operator input or the polling
  loop. The loop clocks only while FCLK (or F1) is set, so a liveness
  property of the driver would need weak fairness of `Clock` only while
  FCLK is on.

## Proofs (TLAPS)

- `AGCArithProofs`:
  - the type lemmas for the arithmetic;
  - `StoreCorrection`;
  - `AdderCorrectAllWidths`: for every word width, the adder, the overflow
    signal and the overflow-corrected store agree with integer
    ones'-complement arithmetic.
- `MC_AGCArithProofs`: `AdderReference`, i.e. `ArithSpec => []AdderMatchesReference`
  for every width. This is the invariant that run `arith` checks for 4 bits.
- `AGCDriverProofs`:
  - `TypeCorrect` (`Spec => []TypeOK`) and `TypeCorrectRunning`, for every
    value of the constants that satisfies `CoreAssumption` and
    `DriverAssumption`.
  - `TypeOK` is inductive as it stands. The argument is a chain of lemmas,
    one per operator `Gen` is built from: `NextSGType`, `GENRSTType`,
    `EndMCTType`, `AdvanceType`, `FetchType`, `SelectType`, `CaptureType`,
    `PulsesType`, `LinesAfterType`, `CtrAfterType`, then `GenType`, then one
    lemma per action.
  - `FetchType` uses the constraint on `Programs`: a non-TC word is followed
    by another word.
  - `SelectType` uses `LowestIn`: a nonempty set of naturals has a least
    element, from `WFMin` and `NatLessThanWellFounded`. The arbitration
    therefore picks a requested cell.

Assumptions:

- `WordBitsAssumption` states the power-of-two facts of the width, which the
  provers do not know for `^`.
- `CoreAssumption` orders the timing pulses and gives the constants their
  types.

- `DriverSafetyProofs` (extends `AGCDriverProofs`):
  - `WatchCacheCorrect` and `WatchCacheCorrectRunning`: `WatchCacheCurrent`
    holds in every state, from either start state, for every value of the
    constants.
    - `WatchCacheCurrent` is not inductive by itself. A key handler such as
      'r' or 'd' calls `genAGCStates()` from the latched registers, and at a
      counter write-back (TP `WrTP`) that call writes a counter again. The
      strengthening `CtrInv` says: whenever the latched registers are at a
      write-back, the counter already holds the word being written. So the
      repeated write changes nothing (`RefreshKeepsCtr`).
    - `ClockCtrInv` shows that a tick re-establishes `CtrInv`, since the next
      registers are at a write-back only if the tick just wrote that word.
    - The inductive invariant is `WInv == TypeOK /\ CtrInv /\
      WatchCacheCurrent`.
    - TLC checked `CtrInv` on the `halt`, `watch` and `counters` instances
      before the proof.
  - `HaltCorrect` and `HaltCorrectRunning`: the action property
    `HaltRespected`, under the hypothesis `BreakAddrs \cap CADRs = {}`. This
    means no breakpoint can ever be hit.
    - The hypothesis is exactly the boundary that run `breakpoint` shows.
      There, a hit clears RUN after `genAGCStates()` has already computed a
      TP1.
    - The inductive invariant is `HInv == WInv /\ BpInv /\ HaltInv`.
      - `HaltInv` says the latched inputs `nxt` are not at TP1 whenever the
        state is stopped.
      - `BpInv` keeps the breakpoint inside `BreakAddrs`.
    - A tick (`ClockHaltInv`) reaches a stopped state only with RUN already
      off:
      - the breakpoint cannot hit;
      - a watch trip needs the counters to change, so the tick would be at
        a write-back (by `WInv`), which is not a stopping point.
      `NextSGStop` then shows that the TPG does not go to TP1.
    - A switch key (`RefreshHaltInv`) recomputes `nxt` from the new switches,
      and `NextSGStop` applies again.
    - This is why the proof needs `WInv`: without `WatchCacheCurrent`, a
      stale `oldWatch` would let a trip clear RUN at any tick.
  - `NoLostRequestCorrectRunning`: `NoLostRequest` holds in every state
    from the running start state (`SpecRunning`, the start of run
    `counters`), under the hypothesis `Keys \cap RefreshKeys = {}`. That is, none of the keys
    `r s n p a c d z x F2 F4`, whose handlers call `genAGCStates()`, is
    pressed.
    - The hypothesis is exactly the boundary that run `lost_request` shows.
      When the latched registers are at the sync TP, such a key recomputes
      `nxt` with an empty capture after the clock has already moved the
      request lines into `nxt`'s cells, and the request is lost.
    - The theorem is stated from the running state only. From power-on,
      releasing PURST takes `p` (and the fast clock F4), both keys of this
      kind. So under the hypothesis the AGC would stay in reset, and the
      property would hold vacuously.
    - `NoLostRequest` is not inductive by itself, because it only speaks of
      the lines and of `nxt`. The strengthening `CellsKept` says that unless
      the latched registers discharge the cells (`Disch`: standby, power-on
      or the NTP that services an interrupt), every cell of `reg` is also a
      cell of `nxt`.
    - The inductive invariant is `LInv == TypeOK /\ CellsKept /\
      NoLostRequest`. A tick settles `reg` to `nxt` and computes a new `nxt`
      with `Gen`:
      - `GenKeepsCells` shows that `Gen` keeps every cell unless it
        discharges them;
      - `GenKeepsLines` shows that a request line `Gen` clears has moved
        into the cells of `nxt`.
      `ClockLInv` and `RaiseLineLInv` combine these facts, and `NextLInv`
      rules out the refresh keys by the hypothesis.
    - TLC checked `CellsKept` on the `counters`, `lost_request` and `halt`
      instances before the proof.
  - `StepReleaseCorrect` and `StepReleaseCorrectRunning`: the action
    property `StepReleasedOnTP1` from either start state, for every batch
    size and every set of keys, with no hypothesis.
    - Only a tick changes the latched registers (`OnlyClockLatches`).
    - In a tick that leaves RUN off, the loop condition is false, so the
      batch ends. STEP is then cleared exactly when the latched SG is TP1
      (`ClockReleasesStep`).
    - `TypeOK` (from `TypeCorrect`) is the only invariant needed.
- `CommandLineProofs`:
  - `PromptTypeCorrect`: `Spec => []TypeOK`. The strengthening `CInv` adds
    `sp <= Len(keys) <= KeyBound`, since a backspace at `s` leaves `sp` at
    0.
  - `OverrunOnlyLongLines`: `Spec => []OverrunNeedsLongLine` for every
    `KeyBound`. A write outside `s[80]` or the caller's buffer needs at
    least `cap - sfx` keys: 20 at 'e', 76 at 'l' and 80 at the others.
    - This bounds the overrun that run `prompt_overrun` finds. With fewer
      keys than the room, no prompt overruns, whatever the backspaces.
  - `PromptNoStaleByte`: `Spec => []NoStaleByte` for every `KeyBound`.
    Every byte of `s[]` below `sp` is a printable key typed for this
    command. The returned line therefore never holds a byte left in the
    static `s[80]` by an earlier command, nor a NUL, whatever the
    backspaces.
    - This is the half of `ReturnsEditedLine` that needs no fold. A
      printable key stores at `sp` and then increments it. A backspace only
      lowers `sp`. Enter writes at `sp` itself, never below it
      (`StoreKeepsBelow`).
    - The inductive invariant is `CInv /\ NoStaleByte`. TLC checked
      `NoStaleByte` on the `prompt` instance and on a run with 84 keys
      before the proof.
- `LoaderProofs`: `LoadCorrect`, i.e. `Spec => []LoadMatchesFile` for every
  set of values and addresses, when every file is whole records (`Files \subseteq
  WholeRecords`).
  - The invariant `LoadMatchesFile` only speaks of the end of the loop. The
    inductive `IInv` says, for every pass:
    - the number of consumed tokens is even;
    - the unread tokens are the rest of the file after them;
    - memory is `Loaded(mem0, ...)` of the consumed prefix.
    TLC checked `IInv` on the `load` instance before the proof.
  - The step rests on three lemmas:
    - `ScanOfRecords`: after an even prefix of whole records, `fscanf`
      returns EOF at the end and both numbers of the next record otherwise;
    - `LoadedStep`: loading two more tokens is one `writeMemory` more;
    - `MaxOfBounded` and `MaxOfTop`: facts about `Max` of a set of record
      numbers, from `WFMin`.
  - The hypothesis is needed: runs `load_truncated` and `load_garbled` show
    what happens without it.

- `SourceListingProofs`: `ListingShowsWindow`, i.e. `Spec => []ShowsWindow`
  for every `noffset >= 1`, `maxLines >= 1` and listing
  (`ListingAssumption`).
  - `ShowsWindow` speaks only of the return. The inductive `IInv` is the
    loop invariant of `while (!feof(fp))`. It has the following parts:
    - `OpenInv`: the values before `fopen`.
    - `FileInv`: the read position is at most one past the last line, and
      it is past the last line exactly when `eof` is set.
    - `SearchInv`, while the CADR is sought:
      - no earlier line has the CADR;
      - the ring invariant: slot `i` of `foffset` holds line
        `max(1, pos - Back(op, i))`, where `Back(op, i)` is
        `(op - i) % noffset`, or `noffset` for the slot `op` about to be
        overwritten.
    - `PrintInv`, once the CADR is found: the lines printed are the first
      `lineCount` lines of the window, and the position is the next one.
  - The ring invariant is what makes the proof work. The seek back reads
    `foffset[op]` after the store and the `op++`. By `RememberRing`, that
    slot holds the line `noffset - 1` lines before the first line of the
    CADR, or line 1. That line is `WindowStart`.
  - The modular arithmetic rests on `ModDiff` and `ModSucc`, which turn
    `% noffset` of ring indices into linear cases.
  - TLC checked `IInv` for `noffset` 1-3 and `maxLines` 1 and 4 before
    the proof.
  - `ListingTypeCorrect`: `Spec => []TypeOK` follows from the same `IInv`.

What stays with TLC:

- `ReturnsEditedLine` (the full equality with the edited keys) and the
  violated properties are model-checked only.
- `NoLostRequest` is proved only when no redisplay key is pressed. Run
  `lost_request` shows that it fails otherwise.
- `HaltRespected` is proved only when no breakpoint address is a CADR. Run
  `breakpoint` shows that it fails otherwise.
- `LoadTerminates` and `ListingTerminates` are liveness properties. TLAPS
  does not handle liveness under fairness here.
- `Edited` is a fold over the keys. What a recursive or folded definition
  computes for every input is induction over data, which the installed
  provers cannot instantiate.

## Not modelled, and the plan

Not modelled, and why:

- The display routines, the printing of `examineMemory` and the wall-clock
  helpers only print or wait.
- `saveMemory` (386-402) is never called.
- The DSKY keys call `KBD::keypress`, which is not under `src/`.
- MEM, PAR and SCL are not under `src/`. They are planned from the spec.
- Three questions explored in development are not kept as runs:
  - the out-of-range indices of `incrCntr`, `decrCntr` and `interrupt` (328,
    339, 350), which the model records in `wild`;
  - the INHINT1 window of the v1.15 note (81);
  - the spec's TIME1 wrap scenario.
  The first is plain in the code. The other two concern code that is not
  under `src/`. `Select` follows the v1.15 fix (and spec §3): INHINT1 is
  cleared at the TP12 that ends an instruction, not at the end of a
  counter subsequence.
- The F-keys are taken as plain keys. The code decodes them as a NUL
  followed by a scan code (886-888). Under ncurses `getch()` without
  `keypad()`, they arrive as escape sequences instead, so on that build
  F1, F2 and F4 may never reach these cases.
- `ReadMemory` keeps only the counter words. Every other address reads 0,
  including `ZRUPTAddr`, which RUPT writes, and the words `loadMemory()`
  writes. So a watch is modelled only on a counter.

Plan for the next sittings, in order:

1. An abstract instruction-level specification of the core (one step per
   instruction, counter or interrupt). `AGCCore`/`AGCDriver` will be shown to
   refine it with `INSTANCE ... WITH`, while RUN is on and no key intervenes.
2. Liveness: a raised request is eventually served while RUN and FCLK are on
   and interrupts are enabled.
3. MEM with PAR from the spec, so that the loader writes the real memory
   the core reads.
