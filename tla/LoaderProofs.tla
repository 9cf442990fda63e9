---------------------------- MODULE LoaderProofs ----------------------------
(***************************************************************************)
(* loadMemory() loads exactly the records of a well-formed file, for every *)
(* set of addresses and values: the loop invariant says that the tokens    *)
(* fscanf() has consumed are whole records and that memory holds what      *)
(* loading those records gives.                                            *)
(***************************************************************************)
EXTENDS Loader, WellFoundedInduction, SequenceTheorems, TLAPS

USE LoaderAssumption

(* The files the spec's .obj format describes: whole records of numbers.  *)
WholeRecords == {f \in Seq(Vals) : Len(f) % 2 = 0}

(* The tokens consumed so far.                                             *)
Consumed == Len(file) - Len(in)

(* The loop invariant of the while loop, with the type invariant.          *)
IInv ==
  /\ TypeOK
  /\ file # NoFile => file \in WholeRecords
  /\ pc = "open" => mem = mem0
  /\ file = NoFile => mem = mem0
  /\ pc \in {"scan", "done"} /\ file # NoFile =>
       /\ Len(in) <= Len(file) /\ Consumed % 2 = 0
       /\ in = SubSeq(file, Consumed + 1, Len(file))
       /\ mem = Loaded(mem0, SubSeq(file, 1, Consumed))
  /\ pc = "done" /\ file # NoFile => in = <<>>
  /\ pc = "scan" => file # NoFile

-----------------------------------------------------------------------------
(* A nonempty set of naturals below a bound has a greatest element, which  *)
(* Max picks.                                                              *)
LEMMA MaxOfBounded ==
  ASSUME NEW S \in SUBSET Nat, NEW h \in Nat, S \subseteq 0 .. h, S # {}
  PROVE  Max(S) \in S /\ \A y \in S : y <= Max(S)
<1>. DEFINE T == {h - x : x \in S}
<1>1. T \subseteq Nat /\ T # {}
  <2>1. \A x \in S : h - x \in Nat
    OBVIOUS
  <2>2. PICK x0 \in S : TRUE
    OBVIOUS
  <2>. QED  BY <2>1, <2>2, Zenon
<1>2. \E t \in T : \A u \in T : ~(<<u, t>> \in OpToRel(<, Nat))
  BY <1>1, NatLessThanWellFounded, WFMin
<1>3. \A x, y \in Nat : y < x => <<y, x>> \in OpToRel(<, Nat)
  BY Zenon DEF OpToRel
<1>4. \E t \in T : \A u \in T : ~(u < t)
  BY <1>1, <1>2, <1>3, Zenon
<1>5. \E x \in S : \A y \in S : x >= y
  <2>1. PICK x0 \in S : \A u \in T : ~(u < h - x0)
    BY <1>4, Zenon
  <2>2. \A y \in S : ~(h - y < h - x0)
    BY <2>1, Zenon
  <2>3. \A y \in S : x0 >= y
    BY <2>2
  <2>. QED  BY <2>3
<1>. QED  BY <1>5 DEF Max

(* Adding a number above all of a set makes it the greatest.              *)
LEMMA MaxOfTop ==
  ASSUME NEW S \in SUBSET Nat, NEW n \in Nat, \A y \in S : y < n
  PROVE  Max(S \cup {n}) = n
<1>1. \A y \in S \cup {n} : n >= y
  OBVIOUS
<1>2. \A x \in S \cup {n} : (\A y \in S \cup {n} : x >= y) => x = n
  OBVIOUS
<1>. QED  BY <1>1, <1>2, Zenon DEF Max

(* What loading a record adds: the prefix of a file two tokens longer     *)
(* loads what the shorter prefix loads followed by one writeMemory() of   *)
(* that record.                                                           *)
LEMMA LoadedStep ==
  ASSUME NEW f \in Seq(Vals), NEW j \in Nat, j % 2 = 0, j + 2 <= Len(f),
         NEW m \in [MemAddrs -> Vals]
  PROVE  Loaded(m, SubSeq(f, 1, j + 2))
           = WriteMemory(Loaded(m, SubSeq(f, 1, j)), f[j + 1], f[j + 2])
<1>. DEFINE g == SubSeq(f, 1, j)
            g2 == SubSeq(f, 1, j + 2)
            k == j \div 2
            R(a) == RecordsAt(g, a)
<1>1. /\ Len(g) = j /\ Len(g2) = j + 2
      /\ \A i \in 1 .. j : g[i] = f[i]
      /\ \A i \in 1 .. j + 2 : g2[i] = f[i]
  OBVIOUS
<1>2. k \in Nat /\ j = 2 * k /\ (j + 2) \div 2 = k + 1
  OBVIOUS
<1>3. \A a : RecordsAt(g2, a) = R(a) \cup (IF f[j + 1] = a THEN {k + 1} ELSE {})
  <2>. SUFFICES ASSUME NEW a
                PROVE  RecordsAt(g2, a) = R(a) \cup (IF f[j + 1] = a THEN {k + 1} ELSE {})
    OBVIOUS
  <2>1. \A i \in 1 .. k : g2[2 * i - 1] = g[2 * i - 1]
    BY <1>1, <1>2
  <2>2. g2[2 * (k + 1) - 1] = f[j + 1] /\ Len(g2) \div 2 = k + 1 /\ Len(g) \div 2 = k
    BY <1>1, <1>2
  <2>. QED  BY <2>1, <2>2, <1>2 DEF RecordsAt
<1>4. \A a : R(a) \subseteq 1 .. k /\ R(a) \subseteq Nat
  BY <1>1, <1>2 DEF RecordsAt
<1>5. DOMAIN Loaded(m, g) = MemAddrs /\ DOMAIN Loaded(m, g2) = MemAddrs
  BY DEF Loaded
<1>6. Loaded(m, g) = [x \in MemAddrs |-> Loaded(m, g)[x]]
      /\ Loaded(m, g2) = [x \in MemAddrs |-> Loaded(m, g2)[x]]
  BY Zenon DEF Loaded
<1>7. WriteMemory(Loaded(m, g), f[j + 1], f[j + 2])
        = [x \in MemAddrs |-> WriteMemory(Loaded(m, g), f[j + 1], f[j + 2])[x]]
  <2>1. CASE f[j + 1] \in MemAddrs
    BY <1>6, <2>1, <1>5 DEF WriteMemory
  <2>2. CASE f[j + 1] \notin MemAddrs
    BY <1>6, <2>2, <1>5 DEF WriteMemory
  <2>. QED  BY <2>1, <2>2
<1>8. SUFFICES ASSUME NEW a \in MemAddrs
               PROVE  Loaded(m, g2)[a]
                        = WriteMemory(Loaded(m, g), f[j + 1], f[j + 2])[a]
  BY <1>6, <1>7
<1>9. CASE a = f[j + 1]
  <2>1. RecordsAt(g2, a) = R(a) \cup {k + 1}
    BY <1>3, <1>9
  <2>2. R(a) \in SUBSET Nat /\ k + 1 \in Nat /\ \A y \in R(a) : y < k + 1
    BY <1>4, <1>2
  <2>3. Max(R(a) \cup {k + 1}) = k + 1
    BY <2>2, MaxOfTop
  <2>4. Loaded(m, g2)[a] = g2[2 * Max(RecordsAt(g2, a))]
    BY <2>1 DEF Loaded
  <2>5. g2[2 * (k + 1)] = f[j + 2]
    BY <1>1, <1>2
  <2>6. WriteMemory(Loaded(m, g), f[j + 1], f[j + 2])[a] = f[j + 2]
    BY <1>5, <1>9 DEF WriteMemory
  <2>. QED  BY <2>1, <2>3, <2>4, <2>5, <2>6
<1>10. CASE a # f[j + 1]
  <2>1. RecordsAt(g2, a) = R(a)
    BY <1>3, <1>10
  <2>2. WriteMemory(Loaded(m, g), f[j + 1], f[j + 2])[a] = Loaded(m, g)[a]
    BY <1>5, <1>10 DEF WriteMemory
  <2>3. CASE R(a) = {}
    BY <2>1, <2>2, <2>3 DEF Loaded
  <2>4. CASE R(a) # {}
    <3>1. R(a) \in SUBSET Nat /\ k \in Nat /\ R(a) \subseteq 0 .. k
      BY <1>4, <1>2
    <3>2. PICK x \in 1 .. k : x = Max(R(a))
      BY <3>1, <2>4, <1>4, MaxOfBounded
    <3>3. g2[2 * x] = g[2 * x]
      BY <3>2, <1>1, <1>2
    <3>4. Loaded(m, g2)[a] = g2[2 * x] /\ Loaded(m, g)[a] = g[2 * x]
      BY <2>1, <2>4, <3>2 DEF Loaded
    <3>. QED  BY <2>2, <3>3, <3>4
  <2>. QED  BY <2>3, <2>4
<1>. QED  BY <1>9, <1>10

(* Loading no record leaves memory as it was.                             *)
LEMMA LoadedEmpty ==
  ASSUME NEW m \in [MemAddrs -> Vals]
  PROVE  Loaded(m, <<>>) = m
<1>1. \A a : RecordsAt(<<>>, a) = {}
  BY DEF RecordsAt
<1>. QED  BY <1>1, Zenon DEF Loaded

(* fscanf(fp, "%o %o") on the rest of a file of whole records, after an   *)
(* even number c of tokens: EOF at the end, else both numbers of the next *)
(* record.                                                                *)
LEMMA ScanOfRecords ==
  ASSUME NEW f \in WholeRecords, NEW c \in Nat, c % 2 = 0, c <= Len(f),
         NEW a, NEW d
  PROVE  /\ c = Len(f) =>
              FScanf(SubSeq(f, c + 1, Len(f)), a, d)
                = [ret |-> EOF, a |-> a, d |-> d, rest |-> <<>>]
         /\ c # Len(f) =>
              /\ c + 2 <= Len(f)
              /\ FScanf(SubSeq(f, c + 1, Len(f)), a, d)
                   = [ret |-> 2, a |-> f[c + 1], d |-> f[c + 2],
                      rest |-> SubSeq(f, c + 3, Len(f))]
<1>. DEFINE t == SubSeq(f, c + 1, Len(f))
<1>1. f \in Seq(Vals) /\ Len(f) % 2 = 0
  BY DEF WholeRecords
<1>2. ASSUME c = Len(f) PROVE t = <<>>
  BY <1>1, <1>2
<1>3. ASSUME c # Len(f)
      PROVE  /\ c + 2 <= Len(f) /\ Len(t) = Len(f) - c
             /\ t # <<>> /\ Head(t) = f[c + 1] /\ t[2] = f[c + 2]
             /\ f[c + 1] \in Vals /\ f[c + 2] \in Vals
             /\ SubSeq(t, 3, Len(t)) = SubSeq(f, c + 3, Len(f))
  <2>1. c + 2 <= Len(f)
    BY <1>1, <1>3
  <2>2. t \in Seq(Vals) /\ Len(t) = Len(f) - c /\ \A i \in 1 .. Len(t) : t[i] = f[c + i]
    BY <2>1, <1>1
  <2>3. t # <<>> /\ Head(t) = f[c + 1] /\ t[2] = f[c + 2]
    <3>1. Len(t) >= 2
      BY <2>1, <2>2
    <3>2. t # <<>>
      <4>1. SUFFICES ASSUME t = <<>> PROVE FALSE
        OBVIOUS
      <4>2. Len(t) = 0
        BY <4>1
      <4>. QED  BY <3>1, <4>2
    <3>3. Head(t) = t[1]
      BY <3>2, <2>2, HeadTailProperties
    <3>. QED  BY <3>1, <3>2, <3>3, <2>2
  <2>4. f[c + 1] \in Vals /\ f[c + 2] \in Vals
    BY <2>1, <1>1
  <2>5. SubSeq(t, 3, Len(t)) = SubSeq(f, c + 3, Len(f))
    BY <2>1, <2>2
  <2>. QED  BY <2>1, <2>2, <2>3, <2>4, <2>5
<1>4. c = Len(f) => FScanf(t, a, d) = [ret |-> EOF, a |-> a, d |-> d, rest |-> <<>>]
  BY <1>2, Zenon DEF FScanf
<1>5. ASSUME c # Len(f)
      PROVE  FScanf(t, a, d) = [ret |-> 2, a |-> f[c + 1], d |-> f[c + 2],
                                rest |-> SubSeq(f, c + 3, Len(f))]
  <2>1. ~(t = <<>>) /\ ~(Head(t) = Bad) /\ ~(Len(t) = 1 \/ t[2] = Bad)
    BY <1>3, <1>5, LoaderAssumption
  <2>2. t[1] = f[c + 1]
    BY <1>3, <1>5
  <2>. QED  BY <2>1, <2>2, <1>3, <1>5, Zenon DEF FScanf
<1>. QED  BY <1>3, <1>4, <1>5

-----------------------------------------------------------------------------
(* What the loop invariant gives in the while loop: the consumed tokens   *)
(* are an even count c, the unread ones the rest of the file after c, and *)
(* memory what the first c tokens load.                                   *)
LEMMA InLoop ==
  ASSUME IInv, pc \in {"scan", "done"}, file # NoFile
  PROVE  /\ file \in WholeRecords /\ file \in Seq(Vals)
         /\ Consumed \in Nat /\ Consumed % 2 = 0 /\ Consumed <= Len(file)
         /\ in = SubSeq(file, Consumed + 1, Len(file))
         /\ mem = Loaded(mem0, SubSeq(file, 1, Consumed))
         /\ mem0 \in [MemAddrs -> Vals]
<1>1. file \in WholeRecords /\ file \in Seq(Vals) /\ in \in Seq(Vals \cup {Bad})
  BY DEF IInv, WholeRecords, TypeOK
<1>2. Len(in) <= Len(file) /\ Consumed % 2 = 0
      /\ in = SubSeq(file, Consumed + 1, Len(file))
      /\ mem = Loaded(mem0, SubSeq(file, 1, Consumed))
      /\ mem0 \in [MemAddrs -> Vals]
  BY DEF IInv, TypeOK
<1>3. Consumed \in Nat /\ Consumed <= Len(file)
  <2>1. Len(in) \in Nat /\ Len(file) \in Nat
    BY <1>1, LenProperties
  <2>2. Len(in) <= Len(file)
    BY DEF IInv
  <2>. QED  BY <2>1, <2>2 DEF Consumed
<1>. QED  BY <1>1, <1>2, <1>3, Zenon

(* The loop invariant holds in the initial states, for files of whole     *)
(* records.                                                                *)
LEMMA InitIInv ==
  ASSUME Files \subseteq WholeRecords, Init
  PROVE  IInv
  BY DEF Init, IInv, TypeOK

(* fopen(): the loop starts with nothing consumed.                        *)
LEMMA OpenIInv ==
  ASSUME IInv, Open
  PROVE  IInv'
<1>1. CASE file = NoFile
  BY <1>1 DEF IInv, Open, TypeOK
<1>2. CASE file # NoFile
  <2>1. file \in Seq(Vals) /\ mem0 \in [MemAddrs -> Vals] /\ mem = mem0
    BY <1>2 DEF IInv, Open, TypeOK, WholeRecords
  <2>2. in' = file /\ pc' = "scan" /\ UNCHANGED <<mem, mem0, file, addr, data>>
    BY <1>2 DEF Open
  <2>3. Consumed' = 0 /\ SubSeq(file, 1, Len(file)) = file
        /\ SubSeq(file, 1, 0) = <<>>
    BY <2>1, <2>2 DEF Consumed
  <2>4. mem' = Loaded(mem0', SubSeq(file', 1, Consumed'))
    BY <2>1, <2>2, <2>3, LoadedEmpty
  <2>5. TypeOK'
    BY <2>2, <1>2 DEF IInv, TypeOK
  <2>. QED  BY <1>2, <2>1, <2>2, <2>3, <2>4, <2>5 DEF IInv
<1>. QED  BY <1>1, <1>2

(* One pass of the while loop: at the end of the file it returns with all *)
(* of it loaded; otherwise it consumes and writes one whole record.       *)
LEMMA ScanIInv ==
  ASSUME IInv, Scan
  PROVE  IInv'
<1>. DEFINE c == Consumed
            r == FScanf(in, addr, data)
<1>1. pc = "scan" /\ file # NoFile
  BY DEF IInv, Scan
<1>2. /\ file \in WholeRecords /\ file \in Seq(Vals)
      /\ c \in Nat /\ c % 2 = 0 /\ c <= Len(file)
      /\ in = SubSeq(file, c + 1, Len(file))
      /\ mem0 \in [MemAddrs -> Vals]
  BY <1>1, InLoop
<1>2a. mem = Loaded(mem0, SubSeq(file, 1, c))
  BY <1>1, InLoop
<1>3. /\ addr' = r.a /\ data' = r.d /\ in' = r.rest
      /\ r.ret = EOF => pc' = "done" /\ mem' = mem
      /\ r.ret # EOF => mem' = WriteMemory(mem, r.a, r.d) /\ pc' = pc
      /\ mem0' = mem0 /\ file' = file
  BY Zenon DEF Scan
<1>4. addr \in Vals /\ data \in Vals
  BY DEF IInv, TypeOK
<1>4a. r = FScanf(SubSeq(file, c + 1, Len(file)), addr, data)
  BY <1>2, Zenon
<1>4b. /\ c = Len(file) =>
          FScanf(SubSeq(file, c + 1, Len(file)), addr, data)
            = [ret |-> EOF, a |-> addr, d |-> data, rest |-> <<>>]
       /\ c # Len(file) =>
          /\ c + 2 <= Len(file)
          /\ FScanf(SubSeq(file, c + 1, Len(file)), addr, data)
               = [ret |-> 2, a |-> file[c + 1], d |-> file[c + 2],
                  rest |-> SubSeq(file, c + 3, Len(file))]
  <2>1. /\ file \in WholeRecords /\ c \in Nat /\ c % 2 = 0 /\ c <= Len(file)
    BY <1>2, Zenon
  <2>. QED  BY <2>1, ScanOfRecords
<1>5. CASE c = Len(file)
  <2>1. r = [ret |-> EOF, a |-> addr, d |-> data, rest |-> <<>>]
    BY <1>4a, <1>4b, <1>5, Zenon
  <2>2. pc' = "done" /\ mem' = mem /\ in' = <<>> /\ addr' = addr /\ data' = data
    BY <2>1, <1>3
  <2>3. Len(in') <= Len(file') /\ Consumed' = c /\ c % 2 = 0
        /\ in' = SubSeq(file', Consumed' + 1, Len(file'))
    BY <2>2, <1>2, <1>3, <1>5 DEF Consumed
  <2>4. mem' = Loaded(mem0', SubSeq(file', 1, Consumed'))
    BY <2>2, <2>3, <1>2a, <1>3, Zenon
  <2>5. TypeOK'
    BY <2>2, <1>3, <1>4 DEF IInv, TypeOK
  <2>. QED  BY <2>2, <2>3, <2>4, <2>5, <1>1, <1>3, Zenon DEF IInv
<1>6. CASE c # Len(file)
  <2>1. /\ c + 2 <= Len(file)
        /\ r = [ret |-> 2, a |-> file[c + 1], d |-> file[c + 2],
                rest |-> SubSeq(file, c + 3, Len(file))]
    BY <1>4a, <1>4b, <1>6, Zenon
  <2>2. file[c + 1] \in Vals /\ file[c + 2] \in Vals
    BY <2>1, <1>2
  <2>3. /\ pc' = "scan" /\ addr' = file[c + 1] /\ data' = file[c + 2]
        /\ in' = SubSeq(file, c + 3, Len(file))
        /\ mem' = WriteMemory(mem, file[c + 1], file[c + 2])
    <3>1. r.ret # EOF
      BY <2>1 DEF EOF
    <3>2. r.a = file[c + 1] /\ r.d = file[c + 2] /\ r.rest = SubSeq(file, c + 3, Len(file))
      <4>1. r = [ret |-> 2, a |-> file[c + 1], d |-> file[c + 2],
                 rest |-> SubSeq(file, c + 3, Len(file))]
        BY <2>1
      <4>. QED  BY <4>1 DEF Consumed
    <3>3. mem' = WriteMemory(mem, r.a, r.d) /\ pc' = pc
      BY <3>1, <1>3
    <3>. QED  BY <3>2, <3>3, <1>1, <1>3
  <2>4. /\ in' \in Seq(Vals) /\ Len(in') = Len(file) - (c + 2)
        /\ Consumed' = c + 2 /\ (c + 2) % 2 = 0 /\ Len(in') <= Len(file')
        /\ in' = SubSeq(file', Consumed' + 1, Len(file'))
    <3>1. in' \in Seq(Vals) /\ Len(in') = Len(file) - (c + 2)
      BY <2>1, <2>3, <1>2
    <3>2. Consumed' = c + 2
      BY <3>1, <1>2, <1>3 DEF Consumed
    <3>. QED  BY <3>1, <3>2, <2>1, <2>3, <1>2, <1>3
  <2>5. mem' = Loaded(mem0', SubSeq(file', 1, Consumed'))
    <3>1. Loaded(mem0, SubSeq(file, 1, c + 2))
            = WriteMemory(Loaded(mem0, SubSeq(file, 1, c)), file[c + 1], file[c + 2])
      BY <1>2, <2>1, LoadedStep
    <3>. QED  BY <3>1, <2>3, <2>4, <1>2a, <1>3, Zenon
  <2>6. mem' \in [MemAddrs -> Vals]
    <3>1. mem \in [MemAddrs -> Vals]
      BY DEF IInv, TypeOK
    <3>. QED  BY <3>1, <2>2, <2>3 DEF WriteMemory
  <2>7. in' \in Seq(Vals \cup {Bad})
    BY <2>4, SeqMonotonic
  <2>8. TypeOK'
    BY <2>2, <2>3, <2>6, <2>7, <1>3 DEF IInv, TypeOK
  <2>. QED  BY <2>3, <2>4, <2>5, <2>8, <1>1, <1>3, Zenon DEF IInv
<1>. QED  BY <1>5, <1>6

(* The loop invariant is inductive.                                       *)
LEMMA NextIInv ==
  ASSUME IInv, [Next]_vars
  PROVE  IInv'
<1>1. CASE Open
  BY <1>1, OpenIInv
<1>2. CASE Scan
  BY <1>2, ScanIInv
<1>3. CASE UNCHANGED vars
  BY <1>3, Zenon DEF IInv, vars, TypeOK, Consumed
<1>. QED  BY <1>1, <1>2, <1>3 DEF Next

(* Once loadMemory() has returned, it has consumed the whole file.        *)
LEMMA IInvLoad ==
  ASSUME IInv
  PROVE  LoadMatchesFile
<1>. SUFFICES ASSUME pc = "done", file # NoFile
              PROVE  mem = Loaded(mem0, file)
  BY DEF LoadMatchesFile
<1>1. in = <<>> /\ file \in Seq(Vals) /\ in \in Seq(Vals \cup {Bad})
  BY DEF IInv, TypeOK, WholeRecords
<1>2. Consumed = Len(file) /\ SubSeq(file, 1, Len(file)) = file
  BY <1>1, EmptySeq DEF Consumed
<1>3. mem = Loaded(mem0, SubSeq(file, 1, Consumed))
  BY InLoop
<1>. QED  BY <1>2, <1>3, Zenon

-----------------------------------------------------------------------------
(***************************************************************************)
(* loadMemory() loads exactly the records of the file (spec 7, the .obj   *)
(* format; spec 9, round trip), for every set of addresses and values,    *)
(* when the file is whole records of octal numbers: each address a       *)
(* record names ends with the word of its last record, and every other    *)
(* word keeps its value.  The files that break this are the ones run      *)
(* load_truncated and load_garbled exhibit.                               *)
(***************************************************************************)
THEOREM LoadCorrect ==
  ASSUME Files \subseteq WholeRecords
  PROVE  Spec => []LoadMatchesFile
<1>1. Init => IInv
  BY InitIInv
<1>2. IInv /\ [Next]_vars => IInv'
  BY NextIInv
<1>3. IInv => LoadMatchesFile
  BY IInvLoad
<1>. QED  BY <1>1, <1>2, <1>3, PTL DEF Spec

=============================================================================
