------------------------- MODULE CommandLineProofs -------------------------
(***************************************************************************)
(* Proofs about getCommand() (AGCmain.cpp 247-272) and its callers: the   *)
(* state stays well typed, and a caller's buffer is overrun only by a     *)
(* line at least as long as the buffer, for every KeyBound and prompt.    *)
(***************************************************************************)
EXTENDS CommandLine, TLAPS

USE CommandLineAssumption

(* The bytes a prompt can take without overrunning its caller's buffer.   *)
Room(p) == CallerBuf[p].cap - CallerBuf[p].sfx

(* A buffer is overrun only after the operator typed at least as many     *)
(* keys as the caller's buffer has room for: 20 for 'e', 76 for 'l'.      *)
OverrunNeedsLongLine == wild => Len(keys) >= Room(prompt)

(* sp never passes the keys read, which never pass KeyBound.              *)
CInv ==
  /\ TypeOK
  /\ sp <= Len(keys) /\ Len(keys) <= KeyBound
  /\ OverrunNeedsLongLine

LEMMA RoomBounds ==
  ASSUME NEW p \in DOMAIN CallerBuf
  PROVE  /\ CallerBuf[p].cap \in {20, 80} /\ CallerBuf[p].sfx \in {0, 4}
         /\ Room(p) \in 0 .. 80
BY DEF CallerBuf, Room

(* One more key keeps a line at least as long as a room.                  *)
LEMMA LongerLine ==
  ASSUME NEW n \in Nat, NEW r \in 0 .. 80, n >= r PROVE n + 1 >= r
OBVIOUS

(* A line past s[80] is longer than any room.                             *)
LEMMA PastBuffer ==
  ASSUME NEW i \in Nat, NEW n \in Nat, NEW r \in 0 .. 80, i >= 80, i <= n
  PROVE  n + 1 >= r
OBVIOUS

(* A line at least as long as sp is as long as any room sp fills.          *)
LEMMA CoversRoom ==
  ASSUME NEW i \in Nat, NEW n \in Nat, NEW r \in 0 .. 80, i >= r, i <= n
  PROVE  n >= r
OBVIOUS

LEMMA InitCInv == Init => CInv
<1>. SUFFICES ASSUME Init PROVE CInv
  OBVIOUS
<1>1. s \in [0 .. SCap - 1 -> Chars \cup {Stale, Nul}]
  BY DEF Init
<1>2. keys = << >> /\ sp = 0
  BY DEF Init
<1>2a. keys \in Seq(Chars \cup {BS, Ctl}) /\ Len(keys) = 0
  BY <1>2
<1>3. ~wild /\ wild \in BOOLEAN /\ done \in BOOLEAN /\ prompt \in Prompts
  BY Zenon DEF Init
<1>. QED  BY <1>1, <1>2, <1>2a, <1>3 DEF CInv, TypeOK, OverrunNeedsLongLine

(* CInv of the next state, from its parts.                                 *)
LEMMA CInvPrime ==
  ASSUME s' \in [0 .. SCap - 1 -> Chars \cup {Stale, Nul}],
         sp' \in Nat, sp' <= Len(keys'), Len(keys') <= KeyBound,
         keys' \in Seq(Chars \cup {BS, Ctl}),
         done' \in BOOLEAN, prompt' \in Prompts, wild' \in BOOLEAN,
         wild' => Len(keys') >= Room(prompt')
  PROVE  CInv'
<1>1. sp' \in 0 .. KeyBound
  OBVIOUS
<1>2. TypeOK'
  BY <1>1, Zenon DEF TypeOK
<1>. QED  BY <1>2, Zenon DEF CInv, OverrunNeedsLongLine

(* The facts of CInv the steps use, with the Booleans named.              *)
LEMMA CInvFacts ==
  ASSUME CInv
  PROVE  /\ s \in [0 .. SCap - 1 -> Chars \cup {Stale, Nul}]
         /\ sp \in Nat /\ sp <= Len(keys) /\ Len(keys) <= KeyBound
         /\ keys \in Seq(Chars \cup {BS, Ctl})
         /\ done \in BOOLEAN /\ prompt \in Prompts /\ wild \in BOOLEAN
         /\ wild => Len(keys) >= Room(prompt)
         /\ prompt \in DOMAIN CallerBuf
<1>1. /\ s \in [0 .. SCap - 1 -> Chars \cup {Stale, Nul}]
      /\ sp \in 0 .. KeyBound /\ sp <= Len(keys) /\ Len(keys) <= KeyBound
      /\ keys \in Seq(Chars \cup {BS, Ctl})
      /\ done \in BOOLEAN /\ prompt \in Prompts /\ wild \in BOOLEAN
      /\ wild => Len(keys) >= Room(prompt)
  BY Zenon DEF CInv, TypeOK, OverrunNeedsLongLine
<1>2. sp \in Nat
  BY <1>1
<1>3. prompt \in DOMAIN CallerBuf
  BY <1>1
<1>. QED  BY <1>1, <1>2, <1>3, Zenon

(* ReadKey appends one typed key, below KeyBound.                          *)
LEMMA ReadKeyLen ==
  ASSUME CInv, NEW k, ReadKey(k)
  PROVE  /\ Len(keys') = Len(keys) + 1 /\ Len(keys') <= KeyBound
         /\ keys' \in Seq(Chars \cup {BS, Ctl})
<1>1. k \in Chars \cup {BS, Ctl} /\ keys' = Append(keys, k) /\ Len(keys) < KeyBound
  BY DEF ReadKey
<1>. QED  BY <1>1, CInvFacts

LEMMA PrintableCInv ==
  ASSUME CInv, Printable PROVE CInv'
<1>1. PICK c \in Chars : /\ ReadKey(c) /\ Store(sp, c) /\ sp' = sp + 1
                         /\ UNCHANGED <<done, prompt>>
  BY DEF Printable
<1>2. Len(keys') = Len(keys) + 1 /\ Len(keys') <= KeyBound
      /\ keys' \in Seq(Chars \cup {BS, Ctl})
  BY <1>1, ReadKeyLen
<1>4. CASE sp \in 0 .. SCap - 1
  <2>1. s' = [s EXCEPT ![sp] = c] /\ wild' = wild
    BY <1>1, <1>4, Zenon DEF Store
  <2>2. s' \in [0 .. SCap - 1 -> Chars \cup {Stale, Nul}]
    BY <1>1, <1>4, <2>1, CInvFacts
  <2>4. Room(prompt) \in 0 .. 80 /\ (wild => Len(keys) >= Room(prompt))
    BY CInvFacts, RoomBounds
  <2>5. wild' => Len(keys') >= Room(prompt')
    <3>1. SUFFICES ASSUME wild' PROVE Len(keys') >= Room(prompt')
      OBVIOUS
    <3>2. Len(keys) >= Room(prompt)
      BY <2>1, <2>4, <3>1, Zenon
    <3>3. Len(keys) \in Nat /\ prompt' = prompt
      BY <1>1, CInvFacts
    <3>4. Len(keys') >= Room(prompt)
      BY <1>2, <2>4, <3>2, <3>3, LongerLine, Zenon
    <3>. QED  BY <3>3, <3>4, Zenon
  <2>6. done' \in BOOLEAN /\ prompt' \in Prompts /\ wild' \in BOOLEAN
    BY <1>1, <2>1, CInvFacts, Zenon
  <2>. QED  BY <1>1, <1>2, <2>2, <2>5, <2>6, CInvFacts, CInvPrime
<1>5. CASE sp \notin 0 .. SCap - 1
  <2>1. s' = s /\ wild' = TRUE
    BY <1>1, <1>5, Zenon DEF Store
  <2>2. sp \in Nat /\ sp >= 80
    <3>1. sp \in Nat
      BY CInvFacts
    <3>. QED  BY <1>5, <3>1 DEF SCap
  <2>3. Room(prompt) \in 0 .. 80
    BY CInvFacts, RoomBounds
  <2>4. /\ sp <= Len(keys) /\ Len(keys) \in Nat
        /\ Len(keys') = Len(keys) + 1 /\ prompt' = prompt
    BY <1>1, <1>2, CInvFacts
  <2>5. Len(keys') >= Room(prompt)
    BY <2>2, <2>3, <2>4, PastBuffer, Zenon
  <2>6. /\ done' \in BOOLEAN /\ prompt' \in Prompts /\ wild' \in BOOLEAN
        /\ (wild' => Len(keys') >= Room(prompt'))
    BY <1>1, <2>1, <2>5, CInvFacts, Zenon
  <2>. QED  BY <1>1, <1>2, <2>1, <2>6, CInvFacts, CInvPrime
<1>. QED  BY <1>4, <1>5

LEMMA BackspaceCInv ==
  ASSUME CInv, Backspace PROVE CInv'
<1>1. /\ ReadKey(BS) /\ sp' = IF sp # 0 THEN sp - 1 ELSE sp
      /\ UNCHANGED <<s, done, prompt, wild>>
  BY DEF Backspace
<1>2. Len(keys') = Len(keys) + 1 /\ Len(keys') <= KeyBound
      /\ keys' \in Seq(Chars \cup {BS, Ctl})
  BY <1>1, ReadKeyLen
<1>3. sp' \in Nat /\ sp' <= Len(keys')
  BY <1>1, <1>2, CInvFacts
<1>4. /\ done' \in BOOLEAN /\ prompt' \in Prompts /\ wild' \in BOOLEAN
      /\ (wild' => Len(keys') >= Room(prompt'))
  <2>0. /\ Len(keys) \in Nat /\ Room(prompt) \in 0 .. 80
        /\ (wild => Len(keys) >= Room(prompt))
    BY CInvFacts, RoomBounds
  <2>1. wild => Len(keys') >= Room(prompt)
    BY <1>2, <2>0, LongerLine, Zenon
  <2>. QED  BY <1>1, <2>1, CInvFacts, Zenon
<1>. QED  BY <1>1, <1>2, <1>3, <1>4, CInvFacts, CInvPrime

LEMMA IgnoredCInv ==
  ASSUME CInv, Ignored PROVE CInv'
<1>1. ReadKey(Ctl) /\ UNCHANGED <<s, sp, done, prompt, wild>>
  BY DEF Ignored
<1>2. Len(keys') = Len(keys) + 1 /\ Len(keys') <= KeyBound
      /\ keys' \in Seq(Chars \cup {BS, Ctl})
  BY <1>1, ReadKeyLen
<1>3. sp \in Nat /\ sp <= Len(keys')
  BY <1>2, CInvFacts
<1>4. /\ done' \in BOOLEAN /\ prompt' \in Prompts /\ wild' \in BOOLEAN
      /\ (wild' => Len(keys') >= Room(prompt'))
  <2>0. /\ Len(keys) \in Nat /\ Room(prompt) \in 0 .. 80
        /\ (wild => Len(keys) >= Room(prompt))
    BY CInvFacts, RoomBounds
  <2>1. wild => Len(keys') >= Room(prompt)
    BY <1>2, <2>0, LongerLine, Zenon
  <2>. QED  BY <1>1, <2>1, CInvFacts, Zenon
<1>. QED  BY <1>1, <1>2, <1>3, <1>4, CInvFacts, CInvPrime

LEMMA EnterCInv ==
  ASSUME CInv, Enter PROVE CInv'
<1>1. UNCHANGED <<sp, keys, prompt>> /\ done' = TRUE
  BY DEF Enter
<1>2. CASE sp \in 0 .. SCap - 1 /\ sp + CallerBuf[prompt].sfx < CallerBuf[prompt].cap
  <2>1. s' = [s EXCEPT ![sp] = Nul] /\ wild' = wild
    BY <1>2, Zenon DEF Enter
  <2>2. s' \in [0 .. SCap - 1 -> Chars \cup {Stale, Nul}]
    BY <1>2, <2>1, CInvFacts
  <2>3. /\ done' \in BOOLEAN /\ prompt' \in Prompts /\ wild' \in BOOLEAN
        /\ (wild' => Len(keys') >= Room(prompt'))
    BY <1>1, <2>1, CInvFacts, Zenon
  <2>. QED  BY <1>1, <2>2, <2>3, CInvFacts, CInvPrime
<1>3. CASE ~(sp \in 0 .. SCap - 1 /\ sp + CallerBuf[prompt].sfx < CallerBuf[prompt].cap)
  <2>1. s' = s /\ wild' = TRUE
    BY <1>3, Zenon DEF Enter
  <2>2. sp >= Room(prompt)
    <3>1. sp \in Nat /\ prompt \in DOMAIN CallerBuf
      BY CInvFacts
    <3>2. CallerBuf[prompt].cap \in {20, 80} /\ CallerBuf[prompt].sfx \in {0, 4}
      BY <3>1, RoomBounds
    <3>. QED  BY <1>3, <3>1, <3>2 DEF SCap, Room
  <2>3. Len(keys) >= Room(prompt)
    <3>1. sp \in Nat /\ Len(keys) \in Nat /\ sp <= Len(keys) /\ Room(prompt) \in 0 .. 80
      BY CInvFacts, RoomBounds
    <3>. QED  BY <2>2, <3>1, CoversRoom, Zenon
  <2>4. /\ done' \in BOOLEAN /\ prompt' \in Prompts /\ wild' \in BOOLEAN
        /\ (wild' => Len(keys') >= Room(prompt'))
    BY <1>1, <2>1, <2>3, CInvFacts, Zenon
  <2>. QED  BY <1>1, <2>1, <2>4, CInvFacts, CInvPrime
<1>. QED  BY <1>2, <1>3

LEMMA NextCInv ==
  ASSUME CInv, [Next]_vars PROVE CInv'
<1>1. CASE UNCHANGED vars
  BY <1>1, CInvFacts, CInvPrime DEF vars
<1>. QED  BY <1>1, PrintableCInv, BackspaceCInv, IgnoredCInv, EnterCInv DEF Next

(***************************************************************************)
(* Every state of getCommand() is well typed: sp stays within the keys    *)
(* read, whatever the backspaces, and s[] only ever holds typed           *)
(* characters, '\0' and what an earlier command left.                     *)
(***************************************************************************)
THEOREM PromptTypeCorrect == Spec => []TypeOK
<1>1. CInv => TypeOK
  BY DEF CInv
<1>. QED  BY <1>1, InitCInv, NextCInv, PTL DEF Spec

(***************************************************************************)
(* getCommand() has no bound on sp, so a long enough line overruns s[80]   *)
(* or the caller's buffer (run prompt_overrun); but no shorter line does: *)
(* a write outside a buffer needs at least 20 keys at the 'e' prompt, 76  *)
(* at 'l' and 80 at the others, for every KeyBound.                       *)
(***************************************************************************)
THEOREM OverrunOnlyLongLines == Spec => []OverrunNeedsLongLine
<1>1. CInv => OverrunNeedsLongLine
  BY DEF CInv
<1>. QED  BY <1>1, InitCInv, NextCInv, PTL DEF Spec
-----------------------------------------------------------------------------
(* The line so far, s[0] .. s[sp - 1], holds only printable keys the      *)
(* operator typed: no byte an earlier command left in the static s[]      *)
(* (Stale) and no '\0'.                                                   *)
NoStaleByte == \A i \in 0 .. sp - 1 : i < SCap => s[i] \in Chars

(* A store at sp, or none past s[80], keeps the bytes below sp.            *)
LEMMA StoreKeepsBelow ==
  ASSUME CInv, NEW c, Store(sp, c)
  PROVE  /\ \A i \in 0 .. sp - 1 : i < SCap => s'[i] = s[i]
         /\ sp < SCap => s'[sp] = c
<1>1. sp \in Nat /\ s \in [0 .. SCap - 1 -> Chars \cup {Stale, Nul}]
  BY CInvFacts
<1>2. CASE sp \in 0 .. SCap - 1
  <2>1. s' = [s EXCEPT ![sp] = c]
    BY <1>2 DEF Store
  <2>. QED  BY <1>1, <1>2, <2>1 DEF SCap
<1>3. CASE sp \notin 0 .. SCap - 1
  <2>1. s' = s
    BY <1>3 DEF Store
  <2>. QED  BY <1>1, <1>3, <2>1 DEF SCap
<1>. QED  BY <1>2, <1>3

LEMMA PrintableNoStale ==
  ASSUME CInv, NoStaleByte, Printable PROVE NoStaleByte'
<1>1. PICK c \in Chars : /\ ReadKey(c) /\ Store(sp, c) /\ sp' = sp + 1
  BY DEF Printable
<1>2. /\ \A i \in 0 .. sp - 1 : i < SCap => s'[i] = s[i]
      /\ sp < SCap => s'[sp] = c
  BY <1>1, StoreKeepsBelow
<1>3. sp \in Nat
  BY CInvFacts
<1>. QED  BY <1>1, <1>2, <1>3 DEF NoStaleByte, SCap

LEMMA EnterNoStale ==
  ASSUME CInv, NoStaleByte, Enter PROVE NoStaleByte'
<1>1. sp' = sp /\ sp \in Nat /\ s \in [0 .. SCap - 1 -> Chars \cup {Stale, Nul}]
  BY CInvFacts DEF Enter
<1>2. \A i \in 0 .. sp - 1 : i < SCap => s'[i] = s[i]
  <2>1. CASE sp \in 0 .. SCap - 1 /\ sp + CallerBuf[prompt].sfx < CallerBuf[prompt].cap
    <3>1. s' = [s EXCEPT ![sp] = Nul]
      BY <2>1 DEF Enter
    <3>. QED  BY <1>1, <3>1 DEF SCap
  <2>2. CASE ~(sp \in 0 .. SCap - 1 /\ sp + CallerBuf[prompt].sfx < CallerBuf[prompt].cap)
    <3>1. s' = s
      BY <2>2 DEF Enter
    <3>. QED  BY <3>1
  <2>. QED  BY <2>1, <2>2
<1>. QED  BY <1>1, <1>2 DEF NoStaleByte

LEMMA NextNoStale ==
  ASSUME CInv, NoStaleByte, [Next]_vars PROVE NoStaleByte'
<1>1. CASE Printable
  BY <1>1, PrintableNoStale
<1>2. CASE Enter
  BY <1>2, EnterNoStale
<1>3. CASE Backspace
  <2>1. s' = s /\ sp' = (IF sp # 0 THEN sp - 1 ELSE sp) /\ sp \in Nat
    BY <1>3, CInvFacts DEF Backspace
  <2>. QED  BY <2>1 DEF NoStaleByte
<1>4. CASE Ignored \/ UNCHANGED vars
  <2>1. s' = s /\ sp' = sp
    BY <1>4 DEF Ignored, vars
  <2>. QED  BY <2>1 DEF NoStaleByte
<1>. QED  BY <1>1, <1>2, <1>3, <1>4 DEF Next

(***************************************************************************)
(* getCommand() never returns a byte an earlier command left in its static *)
(* s[80], nor a '\0' inside the line: every byte below sp is a printable  *)
(* key of this command, whatever the backspaces, for every KeyBound       *)
(* (AGCmain.cpp 247-272: *sp = key before sp++, sp-- only, *sp = '\0' at *)
(* the end).  This is the half of ReturnsEditedLine that does not need    *)
(* the fold; run prompt checks the whole of it for four keys.             *)
(***************************************************************************)
THEOREM PromptNoStaleByte == Spec => []NoStaleByte
<1>1. Init => CInv /\ NoStaleByte
  <2>1. Init => sp = 0
    BY DEF Init
  <2>. QED  BY <2>1, InitCInv DEF NoStaleByte
<1>2. CInv /\ NoStaleByte /\ [Next]_vars => CInv' /\ NoStaleByte'
  BY NextCInv, NextNoStale
<1>. QED  BY <1>1, <1>2, PTL DEF Spec
=============================================================================
