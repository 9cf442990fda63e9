---------------------------- MODULE CommandLine ----------------------------
(***************************************************************************)
(* getCommand() (AGCmain.cpp 247-272) and the buffers its callers copy    *)
(* the line into.  getCommand() reads keys into the static char s[80]      *)
(* until '\n': a printable key is stored at sp and sp advances; key 8      *)
(* (backspace) moves sp back unless it is at s; any other key (DEL, the    *)
(* ERR of the non-blocking getch()) is ignored.  Then *sp = '\0'.  The     *)
(* caller strcpy()s s into a local buffer and, for 'l', appends ".obj".   *)
(***************************************************************************)
EXTENDS Integers, Sequences, SequencesExt

CONSTANTS
  Chars,      \* printable keys the operator types
  BS,         \* key 8
  Ctl,        \* a key that is neither printable nor 8
  Stale,      \* what s[] holds from an earlier command
  Nul,        \* '\0'
  KeyBound,   \* the most keys the operator types before '\n'
  Typed,      \* the keys the operator may press: Chars, BS and Ctl
  Prompts     \* the callers that may prompt: "b" "y" "]" "[" "i" "l" "e"

SCap == 80    \* static char s[80]

(* The buffer each caller strcpy()s the line into, and what it appends:   *)
(* char b[80] (toggleBreakpoint, toggleWatch), cntrname[80] (incrCntr,     *)
(* decrCntr), iname[80] (interrupt), fname[80] with ".obj" (loadMemory,    *)
(* after filename[80]), theAddress[20] (examineMemory).                    *)
CallerBuf ==
  [p \in {"b", "y", "]", "[", "i", "l", "e"} |->
     CASE p = "e" -> [cap |-> 20, sfx |-> 0]
       [] p = "l" -> [cap |-> 80, sfx |-> 4]
       [] OTHER   -> [cap |-> 80, sfx |-> 0]]

ASSUME CommandLineAssumption ==
  /\ Chars # {} /\ BS \notin Chars /\ Ctl \notin Chars
  /\ KeyBound \in Nat
  /\ Typed \subseteq Chars \cup {BS, Ctl}
  /\ Prompts \subseteq DOMAIN CallerBuf /\ Prompts # {}

VARIABLES
  s,        \* static char s[80]
  sp,       \* sp - s
  keys,     \* history: the keys read before '\n'
  done,     \* '\n' read and the line copied to the caller
  prompt,   \* the caller
  wild      \* a byte was written outside s[] or the caller's buffer

vars == <<s, sp, keys, done, prompt, wild>>

Init ==
  /\ s = [i \in 0 .. SCap - 1 |-> Stale]
  /\ sp = 0
  /\ keys = <<>>
  /\ done = FALSE
  /\ prompt \in Prompts
  /\ wild = FALSE

(* *p = c for p = s + i: a byte outside s[] is undefined behaviour.       *)
Store(i, c) ==
  IF i \in 0 .. SCap - 1
    THEN s' = [s EXCEPT ![i] = c] /\ UNCHANGED wild
    ELSE wild' = TRUE /\ UNCHANGED s

ReadKey(k) == ~done /\ k \in Typed /\ Len(keys) < KeyBound /\ keys' = Append(keys, k)

(* if (isprint(key)) { *sp = key; sp++; }                                  *)
Printable ==
  \E c \in Chars :
    /\ ReadKey(c)
    /\ Store(sp, c)
    /\ sp' = sp + 1
    /\ UNCHANGED <<done, prompt>>

\* A mutant without the sp != s guard.
BackspaceUnguarded ==
  /\ ReadKey(BS)
  /\ sp' = sp - 1
  /\ UNCHANGED <<s, done, prompt, wild>>

(* else if (key == 8 && sp != s) sp--;                                     *)
Backspace ==
  /\ ReadKey(BS)
  /\ sp' = IF sp # 0 THEN sp - 1 ELSE sp
  /\ UNCHANGED <<s, done, prompt, wild>>

(* Any other key falls through both tests.                                 *)
Ignored ==
  /\ ReadKey(Ctl)
  /\ UNCHANGED <<s, sp, done, prompt, wild>>

(* '\n': *sp = '\0'; return s; and the caller's strcpy() (with strcat()   *)
(* of ".obj" for 'l'), which writes sp + 1 (+ 4) bytes into its buffer.   *)
Enter ==
  /\ ~done
  /\ done' = TRUE
  /\ IF sp \in 0 .. SCap - 1 /\ sp + CallerBuf[prompt].sfx < CallerBuf[prompt].cap
       THEN s' = [s EXCEPT ![sp] = Nul] /\ UNCHANGED wild
       ELSE wild' = TRUE /\ UNCHANGED s
  /\ UNCHANGED <<sp, keys, prompt>>

Next == Printable \/ Backspace \/ Ignored \/ Enter

Spec == Init /\ [][Next]_vars

-----------------------------------------------------------------------------
(* The string getCommand() returns: s[0] .. s[sp - 1].                    *)
Line == [i \in 1 .. sp |-> s[i - 1]]

(* The reference line editor: a printable key is appended, backspace      *)
(* erases the last character if there is one, other keys do nothing.      *)
EditKey(l, k) ==
  CASE k \in Chars -> Append(l, k)
    [] k = BS      -> IF l = <<>> THEN l ELSE SubSeq(l, 1, Len(l) - 1)
    [] OTHER       -> l

Edited(ks) == FoldLeft(EditKey, <<>>, ks)

TypeOK ==
  /\ s \in [0 .. SCap - 1 -> Chars \cup {Stale, Nul}]
  /\ sp \in 0 .. KeyBound
  /\ keys \in Seq(Chars \cup {BS, Ctl})
  /\ done \in BOOLEAN /\ prompt \in Prompts /\ wild \in BOOLEAN

(***************************************************************************)
(* getCommand() returns the line the operator typed, as edited with       *)
(* backspace, and nothing left in the static s[] by an earlier command;   *)
(* no byte is written outside s[].                                        *)
(***************************************************************************)
ReturnsEditedLine == done => ~wild /\ Line = Edited(keys)

(***************************************************************************)
(* The line a prompt returns fits the buffer its caller copies it into,   *)
(* with the ".obj" loadMemory() appends: no prompt overruns a buffer.     *)
(***************************************************************************)
NoBufferOverrun == ~wild
=============================================================================
