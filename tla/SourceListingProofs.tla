------------------------ MODULE SourceListingProofs ------------------------
(***************************************************************************)
(* showSourceCode() prints the window its comments describe, for every    *)
(* noffset, maxLines and listing.  Until the CADR is found the ring       *)
(* foffset[] holds, slot by slot, where each of the last noffset lines    *)
(* began (line 1 for a slot not yet written), so the seek back lands on   *)
(* the window's first line; from then on the lines printed are the        *)
(* window's, one per pass.                                                *)
(***************************************************************************)
EXTENDS SourceListing, TLAPS

USE ListingAssumption

(* With the ring index at o, slot o - t (mod noffset) was written t       *)
(* passes ago, and slot o itself noffset passes ago.                       *)
Back(o, i) == IF i = o THEN NOffset ELSE (o - i) % NOffset

(* A line number, or line 1 for a position before the file's start.       *)
Clamp(x) == IF x >= 1 THEN x ELSE 1

(* What the lines printed so far must be: the start of the window.        *)
WindowPrefix(f, n) == [i \in 1 .. n |-> <<WindowStart(f) + i - 1,
                                          f[WindowStart(f) + i - 1] = Target>>]

(* Before fopen(): the values main() starts the listing with.             *)
OpenInv ==
  pc = "open" =>
    /\ pos = 1 /\ ~eof /\ ~foundit /\ op = 0 /\ lineCount = 0 /\ shown = <<>>
    /\ foffset = [i \in 0 .. NOffset - 1 |-> 1]

(* While the CADR is sought: no earlier line has it, and slot i of the    *)
(* ring holds the line Back(op, i) lines before the next one to be read.  *)
SearchInv(f) ==
  /\ \A j \in 1 .. pos - 1 : f[j] # Target
  /\ ~eof => \A i \in 0 .. NOffset - 1 : foffset[i] = Clamp(pos - Back(op, i))
  /\ shown = <<>> /\ lineCount = 0
  /\ pc = "done" => eof

(* Once found: the lines printed are the start of the window.            *)
PrintInv(f) ==
  /\ \E p \in 1 .. Len(f) : f[p] = Target /\ \A j \in 1 .. p - 1 : f[j] # Target
  /\ lineCount = Len(shown) /\ lineCount <= WindowLen(f)
  /\ pos = WindowStart(f) + lineCount
  /\ shown = WindowPrefix(f, lineCount)
  /\ pc = "loop" => lineCount < MaxLines
  /\ pc = "done" => eof \/ lineCount = MaxLines

(* The position in the open file, and the phase of the loop.              *)
FileInv(f) ==
  /\ pos <= Len(f) + 1
  /\ eof => pos = Len(f) + 1
  /\ ~foundit => SearchInv(f)
  /\ foundit => PrintInv(f)

(* The loop invariant of the while (!feof(fp)) loop.                       *)
IInv ==
  /\ TypeOK
  /\ OpenInv
  /\ pc = "loop" => file # NoFile
  /\ file = NoFile => shown = <<>>
  /\ pc # "open" /\ file # NoFile => FileInv(file.lines)
-----------------------------------------------------------------------------
(* The first line of the CADR is the one before which no line has it.     *)
LEMMA FirstAtIs ==
  ASSUME NEW f \in Seq(Tags), NEW p \in 1 .. Len(f), f[p] = Target,
         \A j \in 1 .. p - 1 : f[j] # Target
  PROVE  FirstAt(f) = p
<1>1. p \in DOMAIN f /\ f[p] = Target /\ \A j \in 1 .. p - 1 : f[j] # Target
  OBVIOUS
<1>2. \A k \in DOMAIN f : f[k] = Target /\ (\A j \in 1 .. k - 1 : f[j] # Target) => k = p
  <2>. SUFFICES ASSUME NEW k \in DOMAIN f, f[k] = Target,
                       \A j \in 1 .. k - 1 : f[j] # Target
                PROVE  k = p
    OBVIOUS
  <2>1. k \in 1 .. Len(f)
    OBVIOUS
  <2>2. ~(k < p) /\ ~(p < k)
    BY <2>1
  <2>. QED  BY <2>1, <2>2
<1>. QED  BY <1>1, <1>2 DEF FirstAt

(* The file's lines, whenever there is a file.                            *)
LEMMA LinesType ==
  ASSUME TypeOK, file # NoFile
  PROVE  file.lines \in Seq(Tags) /\ file.nl \in BOOLEAN
BY DEF TypeOK

LEMMA InitIInv ==
  ASSUME Init
  PROVE  IInv
<1>1. TypeOK
  <2>1. <<>> \in Seq(Nat \X BOOLEAN)
    OBVIOUS
  <2>2. [i \in 0 .. NOffset - 1 |-> 1] \in [0 .. NOffset - 1 -> Nat \ {0}]
    OBVIOUS
  <2>3. 0 \in 0 .. NOffset - 1 /\ 0 \in 0 .. MaxLines /\ 1 \in Nat \ {0}
    OBVIOUS
  <2>. QED  BY <2>1, <2>2, <2>3, Zenon DEF Init, TypeOK
<1>2. pc = "open" /\ pos = 1 /\ ~eof /\ ~foundit /\ op = 0 /\ lineCount = 0
      /\ shown = <<>> /\ foffset = [i \in 0 .. NOffset - 1 |-> 1]
  BY DEF Init
<1>. QED  BY <1>1, <1>2, Zenon DEF IInv, OpenInv, FileInv, SearchInv, PrintInv

LEMMA OpenIInv ==
  ASSUME IInv, Open
  PROVE  IInv'
<1>1. pc' \in {"loop", "done"} /\ (pc' = "loop" <=> file # NoFile)
      /\ UNCHANGED <<file, pos, eof, foffset, op, foundit, lineCount, shown>>
  BY DEF Open
<1>2. pc = "open"
  BY DEF Open
<1>3. TypeOK'
  BY <1>1 DEF IInv, OpenInv, FileInv, SearchInv, PrintInv, TypeOK
<1>4. ASSUME file # NoFile
      PROVE  /\ pos = 1 /\ ~eof /\ ~foundit /\ shown = <<>>
             /\ \A i \in 0 .. NOffset - 1 : foffset[i] = Clamp(pos - Back(op, i))
  <2>1. pos = 1 /\ ~eof /\ ~foundit /\ shown = <<>> /\ op = 0
        /\ foffset = [i \in 0 .. NOffset - 1 |-> 1]
    BY <1>2 DEF IInv, OpenInv, FileInv, SearchInv, PrintInv
  <2>2. \A i \in 0 .. NOffset - 1 : 1 - Back(op, i) < 1
    BY <2>1 DEF Back
  <2>. QED  BY <2>1, <2>2 DEF Clamp
<1>5. file # NoFile => Len(file.lines) \in Nat
  BY LinesType DEF IInv, OpenInv, FileInv, SearchInv, PrintInv
<1>. QED  BY <1>1, <1>2, <1>3, <1>4, <1>5 DEF IInv, OpenInv, FileInv, SearchInv, PrintInv

LEMMA CloseIInv ==
  ASSUME IInv, Close
  PROVE  IInv'
<1>1. pc = "loop" /\ eof /\ pc' = "done"
      /\ UNCHANGED <<file, pos, eof, foffset, op, foundit, lineCount, shown>>
  BY DEF Close
<1>. QED  BY <1>1 DEF IInv, OpenInv, FileInv, SearchInv, PrintInv, TypeOK
(* Remember keeps the ring typed.                                          *)
LEMMA RememberType ==
  ASSUME TypeOK, Remember
  PROVE  foffset' \in [0 .. NOffset - 1 -> Nat \ {0}] /\ op' \in 0 .. NOffset - 1
<1>1. foffset \in [0 .. NOffset - 1 -> Nat \ {0}] /\ op \in 0 .. NOffset - 1
      /\ pos \in Nat \ {0}
  BY DEF TypeOK
<1>2. CASE foundit
  BY <1>1, <1>2 DEF Remember
<1>3. CASE ~foundit
  <2>1. foffset' = [foffset EXCEPT ![op] = pos] /\ op' = (op + 1) % NOffset
    BY <1>3 DEF Remember
  <2>. QED  BY <1>1, <2>1
<1>. QED  BY <1>2, <1>3

(* Differences and successors of ring indices modulo noffset.             *)
LEMMA ModDiff ==
  ASSUME NEW N \in Nat \ {0}, NEW a \in 0 .. N - 1, NEW b \in 0 .. N - 1
  PROVE  (a - b) % N = IF a >= b THEN a - b ELSE a - b + N
<1>1. CASE a >= b
  <2>1. a - b \in 0 .. N - 1
    BY <1>1
  <2>. QED  BY <1>1, <2>1
<1>2. CASE a < b
  <2>1. a - b + N \in 0 .. N - 1 /\ a - b = (a - b + N) + (-1) * N
    BY <1>2
  <2>. QED  BY <1>2, <2>1
<1>. QED  BY <1>1, <1>2

LEMMA ModSucc ==
  ASSUME NEW N \in Nat \ {0}, NEW a \in 0 .. N - 1
  PROVE  (a + 1) % N = IF a = N - 1 THEN 0 ELSE a + 1
<1>1. CASE a = N - 1
  BY <1>1
<1>2. CASE a # N - 1
  BY <1>2
<1>. QED  BY <1>1, <1>2

(* Remember before line pos is read: the ring is the one for line pos + 1. *)
LEMMA RememberRing ==
  ASSUME TypeOK, ~foundit, Remember,
         \A i \in 0 .. NOffset - 1 : foffset[i] = Clamp(pos - Back(op, i))
  PROVE  \A i \in 0 .. NOffset - 1 : foffset'[i] = Clamp((pos + 1) - Back(op', i))
<1>1. foffset' = [foffset EXCEPT ![op] = pos] /\ op' = (op + 1) % NOffset
  BY DEF Remember
<1>2. op \in 0 .. NOffset - 1 /\ pos \in Nat \ {0}
      /\ foffset \in [0 .. NOffset - 1 -> Nat \ {0}]
  BY DEF TypeOK
<1>. SUFFICES ASSUME NEW i \in 0 .. NOffset - 1
              PROVE  foffset'[i] = Clamp((pos + 1) - Back(op', i))
  OBVIOUS
<1>0. /\ op' = IF op = NOffset - 1 THEN 0 ELSE op + 1
      /\ (op - i) % NOffset = IF op >= i THEN op - i ELSE op - i + NOffset
      /\ op' \in 0 .. NOffset - 1
  <2>1. op' = IF op = NOffset - 1 THEN 0 ELSE op + 1
    BY <1>1, <1>2, ModSucc
  <2>2. (op - i) % NOffset = IF op >= i THEN op - i ELSE op - i + NOffset
    BY <1>2, ModDiff
  <2>. QED  BY <2>1, <2>2, <1>2
<1>0a. (op' - i) % NOffset = IF op' >= i THEN op' - i ELSE op' - i + NOffset
  BY <1>0, ModDiff
<1>3. CASE NOffset = 1
  <2>1. i = op /\ op' = op
    BY <1>1, <1>2, <1>3
  <2>. QED  BY <1>1, <1>2, <2>1, <1>3 DEF Back, Clamp
<1>4. CASE NOffset > 1 /\ i = op
  <2>1. op' # op /\ (op' - op) % NOffset = 1
    BY <1>1, <1>2, <1>4
  <2>. QED  BY <1>1, <1>2, <2>1, <1>4 DEF Back, Clamp
<1>5. CASE NOffset > 1 /\ i # op
  <2>1. Back(op, i) = (op - i) % NOffset /\ Back(op, i) \in 1 .. NOffset - 1
    BY <1>0, <1>2, <1>5 DEF Back
  <2>2. Back(op', i) = Back(op, i) + 1
    <3>1. CASE i = op'
      <4>1. (op - i) % NOffset = NOffset - 1
        BY <1>0, <1>2, <1>5, <3>1
      <4>. QED  BY <3>1, <2>1, <4>1 DEF Back
    <3>2. CASE i # op'
      <4>1. (op' - i) % NOffset = ((op - i) % NOffset) + 1
        <5>1. op' = (IF op = NOffset - 1 THEN 0 ELSE op + 1) /\ op' \in 0 .. NOffset - 1
          BY <1>0
        <5>2. (IF op' >= i THEN op' - i ELSE op' - i + NOffset)
                = (IF op >= i THEN op - i ELSE op - i + NOffset) + 1
          BY <5>1, <1>2, <1>5, <3>2
        <5>. QED  BY <5>2, <1>0, <1>0a
      <4>. QED  BY <3>2, <2>1, <4>1 DEF Back
    <3>. QED  BY <3>1, <3>2
  <2>3. foffset'[i] = foffset[i]
    BY <1>1, <1>2, <1>5
  <2>. QED  BY <2>2, <2>3, <2>1, <1>2 DEF Clamp
<1>. QED  BY <1>3, <1>4, <1>5
(* A line of another CADR before the one sought: one more line read, the  *)
(* ring moved on by one.                                                   *)
LEMMA SkipLineIInv ==
  ASSUME IInv, SkipLine
  PROVE  IInv'
<1>. DEFINE f == file.lines
<1>1. pc = "loop" /\ ~eof /\ ~foundit /\ file # NoFile /\ pos <= Len(f)
      /\ f[pos] # Target /\ Remember /\ pos' = pos + 1
      /\ eof' = (pos = Len(f) /\ ~file.nl)
      /\ UNCHANGED <<file, foundit, lineCount, shown, pc>>
  BY DEF SkipLine, Reading, ReadsLine, EofAfterRead, IInv
<1>2. f \in Seq(Tags) /\ pos \in Nat \ {0}
  BY <1>1, LinesType DEF IInv, OpenInv, FileInv, SearchInv, PrintInv, TypeOK
<1>3. /\ \A j \in 1 .. pos - 1 : f[j] # Target
      /\ \A i \in 0 .. NOffset - 1 : foffset[i] = Clamp(pos - Back(op, i))
      /\ shown = <<>> /\ lineCount = 0
  BY <1>1 DEF IInv, OpenInv, FileInv, SearchInv, PrintInv
<1>4. \A i \in 0 .. NOffset - 1 : foffset'[i] = Clamp((pos + 1) - Back(op', i))
  BY <1>1, <1>3, RememberRing DEF IInv, OpenInv, FileInv, SearchInv, PrintInv
<1>5. TypeOK'
  BY <1>1, <1>2, RememberType DEF IInv, OpenInv, FileInv, SearchInv, PrintInv, TypeOK
<1>6. \A j \in 1 .. pos' - 1 : file'.lines[j] # Target
  BY <1>1, <1>2, <1>3
<1>7. pos' <= Len(file'.lines) + 1 /\ (eof' => pos' = Len(file'.lines) + 1)
  <2>1. file'.lines = f /\ pos' = pos + 1 /\ pos <= Len(f) /\ Len(f) \in Nat /\ pos \in Nat
    BY <1>1, <1>2
  <2>2. eof' => pos = Len(f)
    BY <1>1, Zenon
  <2>. QED  BY <2>1, <2>2
<1>8. pc' = "loop" /\ file' # NoFile /\ ~foundit' /\ shown' = <<>> /\ lineCount' = 0
  BY <1>1, <1>3
<1>9. SearchInv(file.lines)'
  <2>1. pos' = pos + 1
    BY <1>1
  <2>. QED  BY <1>4, <1>6, <1>8, <2>1 DEF SearchInv
<1>10. FileInv(file.lines)'
  BY <1>7, <1>8, <1>9 DEF FileInv
<1>11. OpenInv'
  BY <1>8 DEF OpenInv
<1>. QED  BY <1>5, <1>8, <1>10, <1>11 DEF IInv

(* fgets() fails: the end of the file is reached.                         *)
LEMMA ReadFailsIInv ==
  ASSUME IInv, ReadFails
  PROVE  IInv'
<1>. DEFINE f == file.lines
<1>1. pc = "loop" /\ ~eof /\ file # NoFile /\ ~(pos <= Len(f))
      /\ Remember /\ eof' = TRUE
      /\ UNCHANGED <<file, pos, foundit, lineCount, shown, pc>>
  BY DEF ReadFails, Reading, ReadsLine, IInv
<1>2. f \in Seq(Tags) /\ pos = Len(f) + 1
  <2>1. FileInv(f)
    BY <1>1 DEF IInv
  <2>2. f \in Seq(Tags) /\ pos \in Nat
    BY <1>1, LinesType DEF IInv, TypeOK
  <2>. QED  BY <1>1, <2>1, <2>2 DEF FileInv
<1>3. TypeOK'
  BY <1>1, RememberType DEF IInv, TypeOK
<1>4. ~foundit' => SearchInv(file.lines)'
  <2>. SUFFICES ASSUME ~foundit PROVE SearchInv(file.lines)'
    BY <1>1
  <2>1. SearchInv(f)
    BY <1>1 DEF IInv, FileInv
  <2>. QED  BY <1>1, <2>1 DEF SearchInv
<1>5. foundit' => PrintInv(file.lines)'
  <2>. SUFFICES ASSUME foundit PROVE PrintInv(file.lines)'
    BY <1>1
  <2>1. PrintInv(f)
    BY <1>1 DEF IInv, FileInv
  <2>. QED  BY <1>1, <2>1 DEF PrintInv
<1>6. FileInv(file.lines)'
  BY <1>1, <1>2, <1>4, <1>5 DEF FileInv
<1>7. OpenInv'
  BY <1>1 DEF OpenInv
<1>. QED  BY <1>1, <1>3, <1>6, <1>7 DEF IInv

(* The first line of the CADR: the seek back lands on the first line of   *)
(* the window.                                                             *)
LEMMA SeekBackIInv ==
  ASSUME IInv, SeekBack
  PROVE  IInv'
<1>. DEFINE f == file.lines
<1>1. pc = "loop" /\ ~eof /\ ~foundit /\ file # NoFile /\ pos <= Len(f)
      /\ f[pos] = Target /\ Remember /\ foundit' /\ pos' = foffset'[op']
      /\ eof' = FALSE /\ UNCHANGED <<file, lineCount, shown, pc>>
  BY DEF SeekBack, Reading, ReadsLine, IInv
<1>2. f \in Seq(Tags) /\ pos \in 1 .. Len(f)
  BY <1>1, LinesType DEF IInv, TypeOK
<1>3. /\ \A j \in 1 .. pos - 1 : f[j] # Target
      /\ \A i \in 0 .. NOffset - 1 : foffset[i] = Clamp(pos - Back(op, i))
      /\ shown = <<>> /\ lineCount = 0
  <2>1. FileInv(f)
    BY <1>1 DEF IInv
  <2>. QED  BY <1>1, <2>1 DEF FileInv, SearchInv
<1>4. FirstAt(f) = pos
  BY <1>1, <1>2, <1>3, FirstAtIs
<1>5. op' \in 0 .. NOffset - 1 /\ foffset' \in [0 .. NOffset - 1 -> Nat \ {0}]
  BY <1>1, RememberType DEF IInv, OpenInv, FileInv, SearchInv, PrintInv
<1>6. pos' = Clamp((pos + 1) - NOffset)
  <2>1. foffset'[op'] = Clamp((pos + 1) - Back(op', op'))
    BY <1>1, <1>3, <1>5, RememberRing DEF IInv, OpenInv, FileInv, SearchInv, PrintInv
  <2>2. Back(op', op') = NOffset
    BY DEF Back
  <2>. QED  BY <1>1, <2>1, <2>2
<1>7. pos' = WindowStart(f)
  BY <1>2, <1>4, <1>6 DEF WindowStart, Clamp
<1>8. WindowStart(f) \in 1 .. pos
  BY <1>2, <1>4 DEF WindowStart
<1>9. shown = WindowPrefix(f, 0)
  BY <1>3 DEF WindowPrefix
<1>10. TypeOK'
  <2>1. pos' \in Nat \ {0}
    BY <1>1, <1>5
  <2>2. UNCHANGED <<file, lineCount, shown, pc>> /\ eof' \in BOOLEAN /\ foundit' \in BOOLEAN
    BY <1>1
  <2>. QED  BY <2>1, <2>2, <1>5, Zenon DEF IInv, TypeOK
<1>11. 0 <= WindowLen(f)
  BY <1>2, <1>8 DEF WindowLen
<1>12. PrintInv(file.lines)'
  <2>1. lineCount' = 0 /\ shown' = <<>> /\ Len(shown') = 0 /\ file' = file
    BY <1>1, <1>3
  <2>2. \E p \in 1 .. Len(f) : f[p] = Target /\ \A j \in 1 .. p - 1 : f[j] # Target
    BY <1>1, <1>2, <1>3
  <2>3. pc' = "loop" /\ 0 < MaxLines
    BY <1>1
  <2>4. pos' = WindowStart(f) + 0
    BY <1>2, <1>7, <1>8
  <2>5. /\ lineCount' <= WindowLen(file'.lines)
        /\ pos' = WindowStart(file'.lines) + lineCount'
        /\ shown' = WindowPrefix(file'.lines, lineCount')
    <3>1. file'.lines = f /\ lineCount' = 0
      BY <2>1
    <3>2. shown' = WindowPrefix(f, 0)
      BY <1>1, <1>9
    <3>. QED  BY <3>1, <3>2, <2>4, <1>11, Zenon
  <2>6. \E p \in 1 .. Len(file'.lines) : file'.lines[p] = Target
                                        /\ \A j \in 1 .. p - 1 : file'.lines[j] # Target
    <3>1. file'.lines = f
      BY <2>1
    <3>. QED  BY <3>1, <2>2, Zenon
  <2>. QED  BY <2>1, <2>3, <2>5, <2>6 DEF PrintInv
<1>13. FileInv(file.lines)'
  <2>1. pos' <= Len(f) + 1 /\ ~eof' /\ foundit' /\ file' = file
    BY <1>1, <1>2, <1>7, <1>8
  <2>. QED  BY <2>1, <1>12 DEF FileInv
<1>14. OpenInv'
  BY <1>1 DEF OpenInv
<1>. QED  BY <1>1, <1>10, <1>13, <1>14 DEF IInv

(* Once found, a pass prints the next line of the window.                 *)
LEMMA PrintLineIInv ==
  ASSUME IInv, PrintLine
  PROVE  IInv'
<1>. DEFINE f == file.lines
            n == lineCount
<1>1. pc = "loop" /\ ~eof /\ foundit /\ file # NoFile /\ pos <= Len(f)
      /\ shown' = Append(shown, <<pos, f[pos] = Target>>)
      /\ lineCount' = n + 1
      /\ pc' = (IF n + 1 >= MaxLines THEN "done" ELSE "loop")
      /\ pos' = pos + 1 /\ eof' = (pos = Len(f) /\ ~file.nl)
      /\ UNCHANGED <<file, foffset, op, foundit>>
  BY DEF PrintLine, Reading, ReadsLine, EofAfterRead, IInv
<1>2. f \in Seq(Tags) /\ n \in Nat /\ pos \in Nat /\ shown \in Seq(Nat \X BOOLEAN)
  BY <1>1, LinesType DEF IInv, TypeOK
<1>3. /\ \E p \in 1 .. Len(f) : f[p] = Target /\ \A j \in 1 .. p - 1 : f[j] # Target
      /\ n = Len(shown) /\ n <= WindowLen(f)
      /\ pos = WindowStart(f) + n
      /\ shown = WindowPrefix(f, n)
      /\ n < MaxLines
  <2>1. FileInv(f)
    BY <1>1 DEF IInv
  <2>. QED  BY <1>1, <2>1 DEF FileInv, PrintInv
<1>3a. n < MaxLines /\ pos = WindowStart(f) + n /\ n = Len(shown)
  BY <1>3
<1>3b. shown = WindowPrefix(f, n)
  BY <1>3
<1>4. WindowStart(f) \in 1 .. Len(f)
  <2>1. PICK p \in 1 .. Len(f) : f[p] = Target /\ \A j \in 1 .. p - 1 : f[j] # Target
    BY <1>3
  <2>2. FirstAt(f) = p
    BY <2>1, <1>2, FirstAtIs
  <2>. QED  BY <2>1, <2>2 DEF WindowStart
<1>5. n + 1 <= WindowLen(f)
  <2>1. pos <= Len(f) /\ Len(f) \in Nat /\ MaxLines \in Nat
    BY <1>1, <1>2
  <2>. QED  BY <2>1, <1>2, <1>3a, <1>4 DEF WindowLen
<1>6. shown' = WindowPrefix(f, n + 1)
  <2>1. /\ shown' \in Seq(Nat \X BOOLEAN) /\ Len(shown') = n + 1
        /\ shown'[n + 1] = <<pos, f[pos] = Target>>
        /\ \A i \in 1 .. n : shown'[i] = shown[i]
    <3>1. shown' = Append(shown, <<pos, f[pos] = Target>>)
      BY <1>1
    <3>2. <<pos, f[pos] = Target>> \in Nat \X BOOLEAN
      BY <1>2
    <3>. QED  BY <3>1, <3>2, <1>2, <1>3a
  <2>2. \A i \in 1 .. n : shown[i] = <<WindowStart(f) + i - 1, f[WindowStart(f) + i - 1] = Target>>
    BY <1>3b DEF WindowPrefix
  <2>3. DOMAIN shown' = 1 .. n + 1
    BY <2>1
  <2>4. pos = WindowStart(f) + (n + 1) - 1 /\ WindowStart(f) \in Nat
    BY <1>3a, <1>4, <1>2
  <2>5. \A i \in 1 .. n + 1 : shown'[i] = WindowPrefix(f, n + 1)[i]
    <3>. SUFFICES ASSUME NEW i \in 1 .. n + 1
                  PROVE  shown'[i] = WindowPrefix(f, n + 1)[i]
      OBVIOUS
    <3>1. WindowPrefix(f, n + 1)[i]
            = <<WindowStart(f) + i - 1, f[WindowStart(f) + i - 1] = Target>>
      BY DEF WindowPrefix
    <3>2. CASE i \in 1 .. n
      BY <3>1, <3>2, <2>1, <2>2
    <3>3. CASE i = n + 1
      BY <3>1, <3>3, <2>1, <2>4
    <3>. QED  BY <3>2, <3>3, <1>2
  <2>7. DOMAIN WindowPrefix(f, n + 1) = 1 .. n + 1
    BY DEF WindowPrefix
  <2>. QED  BY <2>1, <2>3, <2>5, <2>7 DEF WindowPrefix
<1>7. TypeOK'
  <2>1. <<pos, f[pos] = Target>> \in Nat \X BOOLEAN
    BY <1>2
  <2>2. shown' \in Seq(Nat \X BOOLEAN)
    BY <1>1, <1>2, <2>1
  <2>3. lineCount' \in 0 .. MaxLines /\ pos' \in Nat \ {0}
    BY <1>1, <1>2, <1>3
  <2>4. eof' \in BOOLEAN /\ pc' \in {"open", "loop", "done"}
    BY <1>1
  <2>. QED  BY <1>1, <2>2, <2>3, <2>4, Zenon DEF IInv, TypeOK
<1>8. PrintInv(file.lines)'
  <2>1. file'.lines = f /\ lineCount' = n + 1
    BY <1>1
  <2>2. \E p \in 1 .. Len(file'.lines) : file'.lines[p] = Target
                                        /\ \A j \in 1 .. p - 1 : file'.lines[j] # Target
    BY <2>1, <1>3, Zenon
  <2>3. /\ lineCount' = Len(shown') /\ lineCount' <= WindowLen(file'.lines)
        /\ pos' = WindowStart(file'.lines) + lineCount'
        /\ shown' = WindowPrefix(file'.lines, lineCount')
    <3>1. Len(shown') = n + 1 /\ pos' = WindowStart(f) + (n + 1)
      BY <1>1, <1>2, <1>3, <1>4
    <3>. QED  BY <2>1, <3>1, <1>5, <1>6, Zenon
  <2>4. /\ pc' = "loop" => lineCount' < MaxLines
        /\ pc' = "done" => eof' \/ lineCount' = MaxLines
    BY <1>1, <1>2, <1>3
  <2>. QED  BY <2>2, <2>3, <2>4 DEF PrintInv
<1>9. FileInv(file.lines)'
  <2>1. pos' <= Len(file'.lines) + 1 /\ (eof' => pos' = Len(file'.lines) + 1)
    <3>1. file'.lines = f /\ pos' = pos + 1 /\ pos <= Len(f) /\ Len(f) \in Nat
      BY <1>1, <1>2
    <3>2. eof' => pos = Len(f)
      BY <1>1, Zenon
    <3>. QED  BY <3>1, <3>2, <1>2
  <2>2. foundit'
    BY <1>1
  <2>. QED  BY <2>1, <2>2, <1>8 DEF FileInv
<1>10. OpenInv'
  BY <1>1 DEF OpenInv
<1>11. file' # NoFile /\ (pc' = "loop" => file' # NoFile) /\ pc' # "open"
  BY <1>1
<1>. QED  BY <1>7, <1>9, <1>10, <1>11 DEF IInv

(* The loop invariant is inductive.                                       *)
LEMMA NextIInv ==
  ASSUME IInv, [Next]_vars
  PROVE  IInv'
<1>1. CASE Open      BY <1>1, OpenIInv
<1>2. CASE ReadFails BY <1>2, ReadFailsIInv
<1>3. CASE PrintLine BY <1>3, PrintLineIInv
<1>4. CASE SeekBack  BY <1>4, SeekBackIInv
<1>5. CASE SkipLine  BY <1>5, SkipLineIInv
<1>6. CASE Close     BY <1>6, CloseIInv
<1>7. CASE UNCHANGED vars
  BY <1>7 DEF IInv, OpenInv, FileInv, SearchInv, PrintInv, vars, TypeOK
<1>. QED  BY <1>1, <1>2, <1>3, <1>4, <1>5, <1>6, <1>7 DEF Next

(* When showSourceCode() has returned, the lines printed are the window.  *)
LEMMA IInvShows ==
  ASSUME IInv
  PROVE  ShowsWindow
<1>. SUFFICES ASSUME pc = "done", file # NoFile
              PROVE  shown = Window(file.lines)
  BY DEF ShowsWindow
<1>. DEFINE f == file.lines
<1>1. f \in Seq(Tags) /\ lineCount \in Nat
  BY LinesType DEF IInv, OpenInv, FileInv, SearchInv, PrintInv, TypeOK
<1>2. CASE ~foundit
  <2>1. eof /\ pos = Len(f) + 1 /\ shown = <<>>
        /\ \A j \in 1 .. pos - 1 : f[j] # Target
    BY <1>2 DEF IInv, OpenInv, FileInv, SearchInv, PrintInv
  <2>2. \A k \in DOMAIN f : f[k] # Target
    BY <1>1, <2>1
  <2>. QED  BY <2>1, <2>2 DEF Window
<1>3. CASE foundit
  <2>1. /\ \E p \in 1 .. Len(f) : f[p] = Target /\ \A j \in 1 .. p - 1 : f[j] # Target
        /\ lineCount <= WindowLen(f)
        /\ pos = WindowStart(f) + lineCount
        /\ shown = WindowPrefix(f, lineCount)
        /\ eof \/ lineCount = MaxLines
        /\ eof => pos = Len(f) + 1
    BY <1>3 DEF IInv, OpenInv, FileInv, SearchInv, PrintInv
  <2>2. PICK p \in 1 .. Len(f) : f[p] = Target /\ \A j \in 1 .. p - 1 : f[j] # Target
    BY <2>1
  <2>3. FirstAt(f) = p /\ WindowStart(f) \in 1 .. Len(f)
    BY <2>2, <1>1, FirstAtIs DEF WindowStart
  <2>4. lineCount = WindowLen(f)
    BY <2>1, <2>3, <1>1 DEF WindowLen
  <2>5. ~\A k \in DOMAIN f : f[k] # Target
    BY <2>2
  <2>. QED  BY <2>1, <2>4, <2>5 DEF Window, WindowPrefix
<1>. QED  BY <1>2, <1>3

-----------------------------------------------------------------------------
(***************************************************************************)
(* showSourceCode() prints the window the comments at AGCmain.cpp 551-552 *)
(* and 614-615 name, for every noffset, maxLines and listing: the noffset *)
(* lines up to and including the first line of the current CADR, then on  *)
(* to maxLines lines or the end of the file, each marked '>' exactly when *)
(* it is a line of that CADR, and nothing when the CADR is absent.  Run   *)
(* listing checks it for noffset 3 and maxLines 4.                        *)
(***************************************************************************)
THEOREM ListingShowsWindow == Spec => []ShowsWindow
<1>1. Init => IInv
  BY InitIInv
<1>2. IInv /\ [Next]_vars => IInv'
  BY NextIInv
<1>3. IInv => ShowsWindow
  BY IInvShows
<1>. QED  BY <1>1, <1>2, <1>3, PTL DEF Spec

(* Every state of showSourceCode() is well typed: the window stays within *)
(* its maxLines counter and the noffset ring, for every constant.          *)
THEOREM ListingTypeCorrect == Spec => []TypeOK
<1>1. Init => IInv
  BY InitIInv
<1>2. IInv /\ [Next]_vars => IInv'
  BY NextIInv
<1>3. IInv => TypeOK
  BY DEF IInv
<1>. QED  BY <1>1, <1>2, <1>3, PTL DEF Spec
=============================================================================
