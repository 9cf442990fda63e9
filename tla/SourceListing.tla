--------------------------- MODULE SourceListing ---------------------------
(***************************************************************************)
(* The 'f' key: showSourceCode() (AGCmain.cpp 548-638).  It reads the     *)
(* .lst file line by line, remembering in the ring foffset[noffset] where  *)
(* each of the last noffset lines began, until a line whose first five    *)
(* columns equal the CADR of the current address; it then seeks back to   *)
(* the oldest remembered line and prints up to maxLines lines, marking     *)
(* with '>' every line of that CADR.                                       *)
(*                                                                         *)
(* A line is its CADR column (a tag); its text, the truncation to 79       *)
(* columns and the printing are left out.  A file position is the number   *)
(* of the line that starts there (ftell() is only used for fseek()).      *)
(* Lines are shorter than the 256 bytes fgets() reads at a time.          *)
(***************************************************************************)
EXTENDS Integers, Sequences

CONSTANTS
  Tags,       \* CADR columns a line may carry (and blanks)
  Target,     \* the CADR of ADR::getEffectiveAddress(), as "%05o"
  NoFile,     \* fopen() fails
  Files,      \* the .lst files, as sequences of tags
  NOffset,    \* noffset (10)
  MaxLines    \* maxLines (23)

ASSUME ListingAssumption ==
  /\ Target \in Tags
  /\ Files \subseteq Seq(Tags)
  /\ NOffset \in Nat \ {0} /\ MaxLines \in Nat \ {0}

VARIABLES
  file,       \* the file on disk and whether its last line ends in '\n'
  pos,        \* the file position: the number of the next line to read
  eof,        \* the stream's end-of-file indicator, feof(fp)
  foffset,    \* long foffset[noffset]
  op,         \* the ring index
  foundit,    \* the CADR's line has been found
  lineCount,  \* lines printed
  shown,      \* the printed lines: <<line number, marked with '>'>>
  pc          \* "open", "loop" or "done"

vars == <<file, pos, eof, foffset, op, foundit, lineCount, shown, pc>>

Init ==
  /\ file \in ([lines : Files, nl : BOOLEAN] \cup {NoFile})
  /\ pos = 1 /\ eof = FALSE
  /\ foffset = [i \in 0 .. NOffset - 1 |-> 1]
  /\ op = 0 /\ foundit = FALSE /\ lineCount = 0 /\ shown = <<>>
  /\ pc = "open"

(* fopen(fname, "r"): on failure report and return.                       *)
Open ==
  /\ pc = "open"
  /\ pc' = IF file = NoFile THEN "done" ELSE "loop"
  /\ UNCHANGED <<file, pos, eof, foffset, op, foundit, lineCount, shown>>

(* fgets() reads line pos, or fails at the end of the file; it sets the   *)
(* end-of-file indicator when it fails, or when it reads the last line    *)
(* and that line has no '\n'.                                             *)
ReadsLine == pos <= Len(file.lines)
EofAfterRead == ~ReadsLine \/ (pos = Len(file.lines) /\ ~file.nl)

\* A mutant that advances the ring index before the store.
RememberAdvanceFirst ==
  IF foundit THEN UNCHANGED <<foffset, op>>
  ELSE /\ foffset' = [foffset EXCEPT ![(op + 1) % NOffset] = pos]
       /\ op' = (op + 1) % NOffset

\* A mutant without the % noffset.
RememberNoWrap ==
  IF foundit THEN UNCHANGED <<foffset, op>>
  ELSE /\ foffset' = [foffset EXCEPT ![op] = pos]
       /\ op' = op + 1

(* A pass of while (!feof(fp)) starts, before fgets(), with               *)
(*   if (!foundit) { foffset[op] = ftell(fp); op = (op + 1) % noffset; }  *)
Remember ==
  IF foundit THEN UNCHANGED <<foffset, op>>
  ELSE /\ foffset' = [foffset EXCEPT ![op] = pos]
       /\ op' = (op + 1) % NOffset

Reading == pc = "loop" /\ ~eof

(* fgets() returns NULL at the end of the file.                           *)
ReadFails ==
  /\ Reading /\ ~ReadsLine
  /\ Remember
  /\ eof' = TRUE
  /\ UNCHANGED <<file, pos, foundit, lineCount, shown, pc>>

(* Once found: print the line, '>' if its CADR is the one sought, and     *)
(* break after maxLines lines.                                            *)
PrintLine ==
  /\ Reading /\ ReadsLine /\ foundit
  /\ shown' = Append(shown, <<pos, file.lines[pos] = Target>>)
  /\ lineCount' = lineCount + 1
  /\ pc' = IF lineCount + 1 >= MaxLines THEN "done" ELSE "loop"
  /\ pos' = pos + 1 /\ eof' = EofAfterRead
  /\ UNCHANGED <<file, foffset, op, foundit>>

\* A mutant that seeks back without setting foundit.
SeekBackNoFlag ==
  /\ Reading /\ ReadsLine /\ ~foundit
  /\ file.lines[pos] = Target
  /\ Remember
  /\ pos' = foffset'[op'] /\ eof' = FALSE
  /\ UNCHANGED <<file, foundit, lineCount, shown, pc>>

(* The first line of the CADR: foundit = true; fseek(fp, foffset[op], 0), *)
(* which also clears the end-of-file indicator.                          *)
SeekBack ==
  /\ Reading /\ ReadsLine /\ ~foundit
  /\ file.lines[pos] = Target
  /\ Remember
  /\ foundit' = TRUE
  /\ pos' = foffset'[op'] /\ eof' = FALSE
  /\ UNCHANGED <<file, lineCount, shown, pc>>

(* A line of another CADR before the one sought.                          *)
SkipLine ==
  /\ Reading /\ ReadsLine /\ ~foundit
  /\ file.lines[pos] # Target
  /\ Remember
  /\ pos' = pos + 1 /\ eof' = EofAfterRead
  /\ UNCHANGED <<file, foundit, lineCount, shown, pc>>

(* The loop condition fails: fclose() and return.                         *)
Close ==
  /\ pc = "loop" /\ eof
  /\ pc' = "done"
  /\ UNCHANGED <<file, pos, eof, foffset, op, foundit, lineCount, shown>>

Next == Open \/ ReadFails \/ PrintLine \/ SeekBack \/ SkipLine \/ Close

(* showSourceCode() runs to its return with no input.                     *)
Spec == Init /\ [][Next]_vars /\ WF_vars(Next)

-----------------------------------------------------------------------------
(* The reference: the comment's window.  With k the first line of the     *)
(* CADR, show noffset lines up to and including line k, then on to        *)
(* maxLines lines or the end of the file, marking the lines of the CADR.  *)
FirstAt(f) == CHOOSE k \in DOMAIN f : f[k] = Target /\ \A j \in 1 .. k - 1 : f[j] # Target
WindowStart(f) == IF FirstAt(f) > NOffset THEN FirstAt(f) - NOffset + 1 ELSE 1
WindowLen(f) ==
  IF Len(f) - WindowStart(f) + 1 < MaxLines THEN Len(f) - WindowStart(f) + 1
  ELSE MaxLines
Window(f) ==
  IF \A k \in DOMAIN f : f[k] # Target THEN <<>>
  ELSE [i \in 1 .. WindowLen(f) |->
          <<WindowStart(f) + i - 1, f[WindowStart(f) + i - 1] = Target>>]

TypeOK ==
  /\ file \in ([lines : Files, nl : BOOLEAN] \cup {NoFile})
  /\ pos \in Nat \ {0} /\ eof \in BOOLEAN
  /\ foffset \in [0 .. NOffset - 1 -> Nat \ {0}] /\ op \in 0 .. NOffset - 1
  /\ foundit \in BOOLEAN /\ lineCount \in 0 .. MaxLines
  /\ shown \in Seq(Nat \X BOOLEAN)
  /\ pc \in {"open", "loop", "done"}

(***************************************************************************)
(* The listing shows the window the comments at 551-552 and 614-615 name: *)
(* the noffset lines up to and including the first line of the current    *)
(* CADR, then the lines after it up to maxLines in all, each marked if    *)
(* and only if it is a line of that CADR; nothing if the CADR is absent.  *)
(***************************************************************************)
ShowsWindow == pc = "done" /\ file # NoFile => shown = Window(file.lines)

(***************************************************************************)
(* showSourceCode() returns on every file: the seek back does not make    *)
(* the loop read the same lines forever.                                  *)
(***************************************************************************)
ListingTerminates == <>(pc = "done")
=============================================================================
