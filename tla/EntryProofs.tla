---------------------------- MODULE EntryProofs ----------------------------
(***************************************************************************)
(* Proofs about Entry, for any threads, lines and exceptions of the        *)
(* processor: what every stack holds at every step, word by word, and so   *)
(* that every thread goes on with the registers it was interrupted with.   *)
(***************************************************************************)
EXTENDS Entry, SequenceTheorems, TLAPS

-----------------------------------------------------------------------------
(* Stacks hold words of many kinds.                                        *)
Stack(s) == \E S : s \in Seq(S)

LEMMA Lengths == \A s : Stack(s) => Len(s) \in Nat
BY DEF Stack

(* A function on the first numbers is a sequence.                          *)
LEMMA Built ==
  ASSUME NEW n \in Nat, NEW S, NEW f \in [1 .. n -> S]
  PROVE  f \in Seq(S) /\ Len(f) = n
<1>1. f \in Seq(S)
  BY SeqDef
<1>2. Len(f) \in Nat /\ DOMAIN f = 1 .. Len(f) /\ DOMAIN f = 1 .. n
  BY <1>1, LenProperties
<1>3. \A i \in Int : i \in 1 .. Len(f) <=> i \in 1 .. n
  BY <1>2
<1>4. ~(Len(f) < n)
  BY <1>2, <1>3
<1>5. ~(n < Len(f))
  BY <1>2, <1>3
<1> QED
  BY <1>1, <1>2, <1>4, <1>5

LEMMA Joined ==
  ASSUME NEW s, NEW q, Stack(s), Stack(q)
  PROVE  /\ Stack(s \o q) /\ Len(s \o q) = Len(s) + Len(q)
         /\ \A i \in 0 .. Len(q) - 1 : Word(s \o q, i) = q[Len(q) - i]
         /\ \A i \in Nat : i >= Len(q) => Word(s \o q, i) = Word(s, i - Len(q))
<1>1. PICK S : s \in Seq(S)
  BY DEF Stack
<1>2. PICK Q : q \in Seq(Q)
  BY DEF Stack
<1>3. s \in Seq(S \cup Q) /\ q \in Seq(S \cup Q)
  BY <1>1, <1>2, SeqMonotonic
<1>4. /\ s \o q \in Seq(S \cup Q) /\ Len(s \o q) = Len(s) + Len(q)
      /\ \A i \in 1 .. Len(s) + Len(q) :
           (s \o q)[i] = IF i <= Len(s) THEN s[i] ELSE q[i - Len(s)]
  BY <1>3, ConcatProperties
<1>5. Len(s) \in Nat /\ Len(q) \in Nat
  BY <1>3
<1>6. Stack(s \o q)
  BY <1>4 DEF Stack
<1>7. ASSUME NEW i \in 0 .. Len(q) - 1 PROVE Word(s \o q, i) = q[Len(q) - i]
  <2>1. Len(s \o q) - i \in 1 .. Len(s) + Len(q) /\ ~(Len(s \o q) - i <= Len(s))
        /\ Len(s \o q) - i - Len(s) = Len(q) - i /\ i < Len(s \o q)
    BY <1>4, <1>5
  <2> QED
    BY <2>1, <1>4 DEF Word
<1>8. ASSUME NEW i \in Nat, i >= Len(q) PROVE Word(s \o q, i) = Word(s, i - Len(q))
  <2>1. CASE i < Len(s) + Len(q)
    <3>1. /\ Len(s \o q) - i \in 1 .. Len(s) + Len(q) /\ Len(s \o q) - i <= Len(s)
          /\ Len(s \o q) - i = Len(s) - (i - Len(q)) /\ i < Len(s \o q)
          /\ i - Len(q) < Len(s)
      BY <1>4, <1>5, <1>8, <2>1
    <3> QED
      BY <3>1, <1>4 DEF Word
  <2>2. CASE ~(i < Len(s) + Len(q))
    <3>1. ~(i < Len(s \o q)) /\ ~(i - Len(q) < Len(s))
      BY <1>4, <1>5, <1>8, <2>2
    <3> QED
      BY <3>1 DEF Word
  <2> QED
    BY <2>1, <2>2
<1> QED
  BY <1>4, <1>6, <1>7, <1>8

(* Registers that are pushed.                                              *)
PushedOn(p, s, rs, names, n) ==
  /\ Stack(p) /\ Len(p) = Len(s) + n
  /\ \A i \in 0 .. n - 1 : Word(p, i) = rs[names[n - i]]
  /\ \A i \in Nat : i >= n => Word(p, i) = Word(s, i - n)

LEMMA Pushed ==
  ASSUME NEW s, Stack(s), NEW rs, NEW names, NEW n \in Nat, Len(names) = n
  PROVE  PushedOn(PushAll(s, rs, names), s, rs, names, n)
<1> DEFINE q == [i \in 1 .. Len(names) |-> rs[names[i]]]
<1>1. q \in Seq({rs[names[i]] : i \in 1 .. n}) /\ Len(q) = n
  <2>1. q \in [1 .. n -> {rs[names[i]] : i \in 1 .. n}]
    OBVIOUS
  <2> QED
    BY <2>1, Built
<1>2. Stack(q)
  BY <1>1 DEF Stack
<1>3. \A i \in 0 .. n - 1 : q[n - i] = rs[names[n - i]]
  OBVIOUS
<1>4. PushAll(s, rs, names) = s \o q
  BY DEF PushAll
<1> HIDE DEF q
<1>5. /\ Stack(s \o q) /\ Len(s \o q) = Len(s) + Len(q)
      /\ \A i \in 0 .. Len(q) - 1 : Word(s \o q, i) = q[Len(q) - i]
      /\ \A i \in Nat : i >= Len(q) => Word(s \o q, i) = Word(s, i - Len(q))
  BY <1>2, Joined
<1> QED
  BY <1>1, <1>3, <1>4, <1>5 DEF PushedOn

(* Words that are dropped.                                                 *)
LEMMA Dropped ==
  ASSUME NEW s, Stack(s), NEW n \in 0 .. Len(s)
  PROVE  /\ Stack(Drop(s, n)) /\ Len(Drop(s, n)) = Len(s) - n
         /\ \A i \in Nat : Word(Drop(s, n), i) = Word(s, i + n)
<1>1. PICK S : s \in Seq(S)
  BY DEF Stack
<1>2. Len(s) \in Nat /\ Len(s) - n \in 0 .. Len(s)
  BY <1>1
<1>3. /\ Drop(s, n) \in Seq(S) /\ Len(Drop(s, n)) = Len(s) - n
      /\ \A i \in 1 .. Len(s) - n : Drop(s, n)[i] = s[i]
  BY <1>1, <1>2, SubSeqProperties DEF Drop
<1>4. ASSUME NEW i \in Nat PROVE Word(Drop(s, n), i) = Word(s, i + n)
  <2>1. CASE i + n < Len(s)
    <3>1. /\ Len(s) - n - i \in 1 .. Len(s) - n /\ i < Len(s) - n
          /\ Len(s) - (i + n) = Len(s) - n - i
      BY <1>2, <2>1
    <3> QED
      BY <3>1, <2>1, <1>3 DEF Word
  <2>2. CASE ~(i + n < Len(s))
    <3>1. ~(i < Len(s) - n)
      BY <1>2, <2>2
    <3> QED
      BY <3>1, <2>2, <1>3 DEF Word
  <2> QED
    BY <2>1, <2>2
<1> QED
  BY <1>3, <1>4 DEF Stack

LEMMA Whole == ASSUME NEW s, Stack(s) PROVE SubSeq(s, 1, Len(s)) = s
<1>1. PICK S : s \in Seq(S)
  BY DEF Stack
<1> QED
  BY <1>1, SubSeqFull

-----------------------------------------------------------------------------
(* The lists of registers that are pushed and popped, one by one.          *)
LEMMA RegisterNames ==
  /\ ToSet(Segments) = {"ds", "es", "fs", "gs"}
  /\ Register = {"ds", "es", "fs", "gs", "eax", "ecx", "edx", "ebx", "esi", "edi", "ebp",
                 "eip", "cs", "eflags", "esp", "ss"}
<1>1. ToSet(Segments) = {"ds", "es", "fs", "gs"}
  BY DEF ToSet, Segments
<1> QED
  BY <1>1 DEF Register, Scratch, Callee

LEMMA PushedSegments ==
  ASSUME NEW s, Stack(s), NEW rs
  PROVE  LET p == PushAll(s, rs, Segments) IN
         /\ Stack(p) /\ Len(p) = Len(s) + 4
         /\ Word(p, 0) = rs["gs"] /\ Word(p, 1) = rs["fs"]
         /\ Word(p, 2) = rs["es"] /\ Word(p, 3) = rs["ds"]
         /\ \A i \in Nat : i >= 4 => Word(p, i) = Word(s, i - 4)
<1>1. /\ Len(Segments) = 4 /\ Segments[1] = "ds" /\ Segments[2] = "es"
      /\ Segments[3] = "fs" /\ Segments[4] = "gs"
  BY DEF Segments
<1> DEFINE p == PushAll(s, rs, Segments)
<1>2. PushedOn(p, s, rs, Segments, 4)
  BY <1>1, Pushed
<1> HIDE DEF p
<1> QED
  BY <1>1, <1>2 DEF p, PushedOn

LEMMA PushedAll ==
  ASSUME NEW s, Stack(s), NEW rs
  PROVE  LET p == PushAll(s, rs, pushad) IN
         /\ Stack(p) /\ Len(p) = Len(s) + 8
         /\ Word(p, 0) = rs["edi"] /\ Word(p, 1) = rs["esi"] /\ Word(p, 2) = rs["ebp"]
         /\ Word(p, 3) = rs["esp"] /\ Word(p, 4) = rs["ebx"] /\ Word(p, 5) = rs["edx"]
         /\ Word(p, 6) = rs["ecx"] /\ Word(p, 7) = rs["eax"]
         /\ \A i \in Nat : i >= 8 => Word(p, i) = Word(s, i - 8)
<1>1. /\ Len(pushad) = 8 /\ pushad[1] = "eax" /\ pushad[2] = "ecx" /\ pushad[3] = "edx"
      /\ pushad[4] = "ebx" /\ pushad[5] = "esp" /\ pushad[6] = "ebp"
      /\ pushad[7] = "esi" /\ pushad[8] = "edi"
  BY DEF pushad
<1> DEFINE p == PushAll(s, rs, pushad)
<1>2. PushedOn(p, s, rs, pushad, 8)
  BY <1>1, Pushed
<1> HIDE DEF p
<1> QED
  BY <1>1, <1>2 DEF p, PushedOn

\* One word.
LEMMA PushedWord ==
  ASSUME NEW s, Stack(s), NEW w
  PROVE  /\ Stack(s \o <<w>>) /\ Len(s \o <<w>>) = Len(s) + 1
         /\ Word(s \o <<w>>, 0) = w
         /\ \A i \in Nat : i >= 1 => Word(s \o <<w>>, i) = Word(s, i - 1)
<1>1. <<w>> \in Seq({w}) /\ Len(<<w>>) = 1
  OBVIOUS
<1>2. Stack(<<w>>)
  BY <1>1 DEF Stack
<1>3. /\ Stack(s \o <<w>>) /\ Len(s \o <<w>>) = Len(s) + Len(<<w>>)
      /\ \A i \in 0 .. Len(<<w>>) - 1 : Word(s \o <<w>>, i) = <<w>>[Len(<<w>>) - i]
      /\ \A i \in Nat : i >= Len(<<w>>) => Word(s \o <<w>>, i) = Word(s, i - Len(<<w>>))
  BY <1>2, Joined
<1> QED
  BY <1>1, <1>3

(* What the processor pushes.                                              *)
LEMMA PushedByProcessor ==
  ASSUME NEW s, Stack(s), NEW rs
  PROVE  /\ LET p == PushAll(s, rs, <<"ss", "esp">> \o <<"eflags", "cs", "eip">>) IN
            /\ Stack(p) /\ Len(p) = Len(s) + 5
            /\ Word(p, 0) = rs["eip"] /\ Word(p, 1) = rs["cs"] /\ Word(p, 2) = rs["eflags"]
            /\ Word(p, 3) = rs["esp"] /\ Word(p, 4) = rs["ss"]
         /\ LET p == PushAll(s, rs, <<>> \o <<"eflags", "cs", "eip">>) IN
            /\ Stack(p) /\ Len(p) = Len(s) + 3
            /\ Word(p, 0) = rs["eip"] /\ Word(p, 1) = rs["cs"] /\ Word(p, 2) = rs["eflags"]
<1> DEFINE five == <<"ss", "esp">> \o <<"eflags", "cs", "eip">>
           three == <<>> \o <<"eflags", "cs", "eip">>
           p == PushAll(s, rs, five)
           q == PushAll(s, rs, three)
<1>2. /\ Len(five) = 5 /\ five[1] = "ss" /\ five[2] = "esp" /\ five[3] = "eflags"
      /\ five[4] = "cs" /\ five[5] = "eip"
      /\ Len(three) = 3 /\ three[1] = "eflags" /\ three[2] = "cs" /\ three[3] = "eip"
  <2> DEFINE a == <<"ss", "esp">>
             b == <<"eflags", "cs", "eip">>
             N == {"ss", "esp", "eflags", "cs", "eip"}
  <2>1. /\ a \in Seq(N) /\ Len(a) = 2 /\ a[1] = "ss" /\ a[2] = "esp"
        /\ b \in Seq(N) /\ Len(b) = 3 /\ b[1] = "eflags" /\ b[2] = "cs" /\ b[3] = "eip"
    OBVIOUS
  <2> HIDE DEF a, b, N
  <2>a. /\ Len(a \o b) = Len(a) + Len(b)
        /\ \A i \in 1 .. Len(a) + Len(b) :
             (a \o b)[i] = IF i <= Len(a) THEN a[i] ELSE b[i - Len(a)]
    BY <2>1, ConcatProperties
  <2>2. /\ Len(a \o b) = 5
        /\ \A i \in 1 .. 5 : (a \o b)[i] = IF i <= 2 THEN a[i] ELSE b[i - 2]
    BY <2>1, <2>a
  <2>3. <<>> \o b = b
    BY <2>1, ConcatEmptySeq
  <2> QED
    BY <2>1, <2>2, <2>3 DEF a, b
<1>3. PushedOn(p, s, rs, five, 5)
  <2> HIDE DEF five
  <2> QED BY <1>2, Pushed
<1>4. PushedOn(q, s, rs, three, 3)
  <2> HIDE DEF three
  <2> QED BY <1>2, Pushed
<1>5. /\ Word(p, 0) = rs["eip"] /\ Word(p, 1) = rs["cs"] /\ Word(p, 2) = rs["eflags"]
      /\ Word(p, 3) = rs["esp"] /\ Word(p, 4) = rs["ss"]
  <2> HIDE DEF p, five
  <2> QED BY <1>2, <1>3 DEF PushedOn
<1>6. Word(q, 0) = rs["eip"] /\ Word(q, 1) = rs["cs"] /\ Word(q, 2) = rs["eflags"]
  <2> HIDE DEF q, three
  <2> QED BY <1>2, <1>4 DEF PushedOn
<1> QED
  BY <1>3, <1>4, <1>5, <1>6 DEF PushedOn

LEMMA NothingJoined == ASSUME NEW s, Stack(s) PROVE s \o <<>> = s
<1>1. PICK S : s \in Seq(S)
  BY DEF Stack
<1> QED
  BY <1>1, ConcatEmptySeq

-----------------------------------------------------------------------------
(* A frame of t as VECTOR leaves it: over base words, every register of    *)
(* rs where struct intr_stack has it.                                      *)
Size(t) == IF t \in User THEN 19 ELSE 17

RegisterWords(s, rs) ==
  /\ Word(s, 1) = rs["edi"] /\ Word(s, 2) = rs["esi"] /\ Word(s, 3) = rs["ebp"]
  /\ Word(s, 5) = rs["ebx"] /\ Word(s, 6) = rs["edx"] /\ Word(s, 7) = rs["ecx"]
  /\ Word(s, 8) = rs["eax"] /\ Word(s, 9) = rs["gs"] /\ Word(s, 10) = rs["fs"]
  /\ Word(s, 11) = rs["es"] /\ Word(s, 12) = rs["ds"]
  /\ Word(s, 14) = rs["eip"] /\ Word(s, 15) = rs["cs"] /\ Word(s, 16) = rs["eflags"]

FrameOn(t, s, base, rs) ==
  /\ Stack(s) /\ Len(s) = base + Size(t)
  /\ RegisterWords(s, rs)
  /\ t \in User => Word(s, 17) = rs["esp"] /\ Word(s, 18) = rs["ss"]

\* The words of a frame that are not registers.
Marks(s, v) ==
  /\ Word(s, 0) = <<"vector", v>> /\ Word(s, 4) = <<"dummy">>
  /\ Word(s, 13) = <<"zero">> \/ Word(s, 13) = <<"error", v>>

\* One word for an error code, the processor's or that of kernel.S.
OneWord(v) == v \in ErrorCode <=> v \in ERROR_CODE

LEMMA Accepted ==
  ASSUME NEW s, Stack(s), NEW v, OneWord(v), cur \in Thread
  PROVE  LET p == Accept(s, v) \o Pad(v) IN
         /\ Stack(p) /\ Len(p) = Len(s) + (Size(cur) - 13)
         /\ Word(p, 0) = <<"zero">> \/ Word(p, 0) = <<"error", v>>
         /\ Word(p, 1) = regs["eip"] /\ Word(p, 2) = regs["cs"] /\ Word(p, 3) = regs["eflags"]
         /\ cur \in User => Word(p, 4) = regs["esp"] /\ Word(p, 5) = regs["ss"]
<1> DEFINE a == PushAll(s, regs, (IF cur \in User THEN <<"ss", "esp">> ELSE <<>>)
                                   \o <<"eflags", "cs", "eip">>)
           w == IF v \in ErrorCode THEN <<"error", v>> ELSE <<"zero">>
<1>1. /\ Stack(a) /\ Len(a) = Len(s) + (Size(cur) - 14)
      /\ Word(a, 0) = regs["eip"] /\ Word(a, 1) = regs["cs"] /\ Word(a, 2) = regs["eflags"]
      /\ cur \in User => Word(a, 3) = regs["esp"] /\ Word(a, 4) = regs["ss"]
  <2> DEFINE five == PushAll(s, regs, <<"ss", "esp">> \o <<"eflags", "cs", "eip">>)
             three == PushAll(s, regs, <<>> \o <<"eflags", "cs", "eip">>)
  <2>a. /\ Stack(five) /\ Len(five) = Len(s) + 5
        /\ Word(five, 0) = regs["eip"] /\ Word(five, 1) = regs["cs"]
        /\ Word(five, 2) = regs["eflags"]
        /\ Word(five, 3) = regs["esp"] /\ Word(five, 4) = regs["ss"]
        /\ Stack(three) /\ Len(three) = Len(s) + 3
        /\ Word(three, 0) = regs["eip"] /\ Word(three, 1) = regs["cs"]
        /\ Word(three, 2) = regs["eflags"]
    BY PushedByProcessor
  <2>b. a = IF cur \in User THEN five ELSE three
    OBVIOUS
  <2> HIDE DEF a, five, three
  <2>1. CASE cur \in User
    BY <2>1, <2>a, <2>b DEF Size
  <2>2. CASE cur \notin User
    BY <2>2, <2>a, <2>b DEF Size
  <2> QED
    BY <2>1, <2>2
<1>2. Accept(s, v) \o Pad(v) = a \o <<w>>
  <2>1. CASE v \in ErrorCode
    <3>1. Accept(s, v) = a \o <<w>> /\ Pad(v) = <<>>
      BY <2>1 DEF OneWord, Accept, Pad
    <3>2. Stack(a \o <<w>>)
      BY <1>1, PushedWord
    <3> HIDE DEF a, w
    <3> QED
      BY <3>1, <3>2, NothingJoined
  <2>2. CASE v \notin ErrorCode
    <3>1. Accept(s, v) = a \o <<>> /\ Pad(v) = <<w>>
      BY <2>2 DEF OneWord, Accept, Pad
    <3> HIDE DEF a, w
    <3> QED
      BY <3>1, <1>1, NothingJoined
  <2> QED
    BY <2>1, <2>2
<1>3. w = <<"zero">> \/ w = <<"error", v>>
  OBVIOUS
<1> HIDE DEF a, w
<1>4. /\ Stack(a \o <<w>>) /\ Len(a \o <<w>>) = Len(a) + 1
      /\ Word(a \o <<w>>, 0) = w
      /\ \A i \in Nat : i >= 1 => Word(a \o <<w>>, i) = Word(a, i - 1)
  BY <1>1, PushedWord
<1>5. /\ Word(a \o <<w>>, 1) = Word(a, 0) /\ Word(a \o <<w>>, 2) = Word(a, 1)
      /\ Word(a \o <<w>>, 3) = Word(a, 2) /\ Word(a \o <<w>>, 4) = Word(a, 3)
      /\ Word(a \o <<w>>, 5) = Word(a, 4)
  BY <1>4
<1>6. Len(a \o <<w>>) = Len(s) + (Size(cur) - 13)
  BY <1>1, <1>4, Lengths DEF Size
<1> QED
  BY <1>1, <1>2, <1>3, <1>4, <1>5, <1>6

LEMMA SavedFrame ==
  ASSUME NEW s, Stack(s), NEW v, OneWord(v), cur \in Thread, DOMAIN regs = Register
  PROVE  FrameOn(cur, Saved(Accept(s, v), v), Len(s), regs) /\ Marks(Saved(Accept(s, v), v), v)
<1> DEFINE b == Accept(s, v) \o Pad(v)
           c == PushAll(b, regs, Segments)
           dummy == [regs EXCEPT !["esp"] = <<"dummy">>]
           d == PushAll(c, dummy, pushad)
           e == d \o <<<<"vector", v>>>>
<1>1. /\ Stack(b) /\ Len(b) = Len(s) + (Size(cur) - 13)
      /\ Word(b, 0) = <<"zero">> \/ Word(b, 0) = <<"error", v>>
      /\ Word(b, 1) = regs["eip"] /\ Word(b, 2) = regs["cs"] /\ Word(b, 3) = regs["eflags"]
      /\ cur \in User => Word(b, 4) = regs["esp"] /\ Word(b, 5) = regs["ss"]
  BY Accepted
<1>2. Saved(Accept(s, v), v) = e
  BY DEF Saved
<1> HIDE DEF b
<1>3. /\ Stack(c) /\ Len(c) = Len(b) + 4
      /\ Word(c, 0) = regs["gs"] /\ Word(c, 1) = regs["fs"]
      /\ Word(c, 2) = regs["es"] /\ Word(c, 3) = regs["ds"]
      /\ \A i \in Nat : i >= 4 => Word(c, i) = Word(b, i - 4)
  BY <1>1, PushedSegments
<1>4. /\ Word(c, 4) = Word(b, 0) /\ Word(c, 5) = Word(b, 1) /\ Word(c, 6) = Word(b, 2)
      /\ Word(c, 7) = Word(b, 3) /\ Word(c, 8) = Word(b, 4) /\ Word(c, 9) = Word(b, 5)
  <2> HIDE DEF c
  <2> QED BY <1>3
<1>5. /\ dummy["esp"] = <<"dummy">> /\ dummy["edi"] = regs["edi"] /\ dummy["esi"] = regs["esi"]
      /\ dummy["ebp"] = regs["ebp"] /\ dummy["ebx"] = regs["ebx"] /\ dummy["edx"] = regs["edx"]
      /\ dummy["ecx"] = regs["ecx"] /\ dummy["eax"] = regs["eax"]
  BY RegisterNames
<1> HIDE DEF c, dummy
<1>6. /\ Stack(d) /\ Len(d) = Len(c) + 8
      /\ Word(d, 0) = dummy["edi"] /\ Word(d, 1) = dummy["esi"] /\ Word(d, 2) = dummy["ebp"]
      /\ Word(d, 3) = dummy["esp"] /\ Word(d, 4) = dummy["ebx"] /\ Word(d, 5) = dummy["edx"]
      /\ Word(d, 6) = dummy["ecx"] /\ Word(d, 7) = dummy["eax"]
      /\ \A i \in Nat : i >= 8 => Word(d, i) = Word(c, i - 8)
  BY <1>3, PushedAll
<1> HIDE DEF d
<1>7. /\ Word(d, 8) = Word(c, 0) /\ Word(d, 9) = Word(c, 1) /\ Word(d, 10) = Word(c, 2)
      /\ Word(d, 11) = Word(c, 3) /\ Word(d, 12) = Word(c, 4) /\ Word(d, 13) = Word(c, 5)
      /\ Word(d, 14) = Word(c, 6) /\ Word(d, 15) = Word(c, 7) /\ Word(d, 16) = Word(c, 8)
      /\ Word(d, 17) = Word(c, 9)
  BY <1>6
<1>8. /\ Stack(e) /\ Len(e) = Len(d) + 1 /\ Word(e, 0) = <<"vector", v>>
      /\ \A i \in Nat : i >= 1 => Word(e, i) = Word(d, i - 1)
  BY <1>6, PushedWord
<1> HIDE DEF e
<1>9. /\ Word(e, 1) = Word(d, 0) /\ Word(e, 2) = Word(d, 1) /\ Word(e, 3) = Word(d, 2)
      /\ Word(e, 4) = Word(d, 3) /\ Word(e, 5) = Word(d, 4) /\ Word(e, 6) = Word(d, 5)
      /\ Word(e, 7) = Word(d, 6) /\ Word(e, 8) = Word(d, 7) /\ Word(e, 9) = Word(d, 8)
      /\ Word(e, 10) = Word(d, 9) /\ Word(e, 11) = Word(d, 10) /\ Word(e, 12) = Word(d, 11)
      /\ Word(e, 13) = Word(d, 12) /\ Word(e, 14) = Word(d, 13) /\ Word(e, 15) = Word(d, 14)
      /\ Word(e, 16) = Word(d, 15) /\ Word(e, 17) = Word(d, 16) /\ Word(e, 18) = Word(d, 17)
  BY <1>8
<1>10. Len(e) = Len(s) + Size(cur)
  BY <1>1, <1>3, <1>6, <1>8, Lengths DEF Size
<1>11. RegisterWords(e, regs) /\ Marks(e, v)
  BY <1>1, <1>3, <1>4, <1>5, <1>6, <1>7, <1>8, <1>9 DEF RegisterWords, Marks
<1>12. cur \in User => Word(e, 17) = regs["esp"] /\ Word(e, 18) = regs["ss"]
  BY <1>1, <1>4, <1>7, <1>9
<1> QED
  BY <1>2, <1>8, <1>10, <1>11, <1>12 DEF FrameOn

-----------------------------------------------------------------------------
(* Registers that are popped.                                              *)
Registers(f) == f = [r \in Register |-> f[r]]

PoppedFrom(p, s, rs, names, n, skipped) ==
  /\ Registers(p)
  /\ \A i \in 1 .. n : names[i] \in Register \ skipped => p[names[i]] = Word(s, i - 1)
  /\ \A r \in Register : r \in skipped \/ (\A i \in 1 .. n : names[i] # r) => p[r] = rs[r]

LEMMA Popped ==
  ASSUME NEW s, NEW rs, NEW names, NEW n \in Nat, Len(names) = n, DOMAIN names = 1 .. n,
         \A i, j \in 1 .. n : names[i] = names[j] => i = j, NEW skipped
  PROVE  PoppedFrom(PopAll(s, rs, names, skipped), s, rs, names, n, skipped)
<1> DEFINE p == PopAll(s, rs, names, skipped)
           place(r) == CHOOSE i \in 1 .. Len(names) : names[i] = r
<1>1. p = [r \in Register |-> IF r \in ToSet(names) \ skipped THEN Word(s, place(r) - 1)
                                                               ELSE rs[r]]
  BY DEF PopAll
<1>2. \A r : r \in ToSet(names) <=> \E i \in 1 .. n : names[i] = r
  BY DEF ToSet
<1>3. \A i \in 1 .. n : place(names[i]) = i
  OBVIOUS
<1> HIDE DEF p, place
<1>4. Registers(p)
  BY <1>1 DEF Registers
<1>5. ASSUME NEW i \in 1 .. n, names[i] \in Register \ skipped
      PROVE  p[names[i]] = Word(s, i - 1)
  BY <1>1, <1>2, <1>3, <1>5
<1>6. ASSUME NEW r \in Register, r \in skipped \/ (\A i \in 1 .. n : names[i] # r)
      PROVE  p[r] = rs[r]
  BY <1>1, <1>2, <1>6
<1> QED
  BY <1>4, <1>5, <1>6 DEF p, PoppedFrom

\* The order of intr_exit: that of VECTOR, backwards.
LEMMA PopOrder ==
  LET names == Reverse(Segments \o pushad) IN
  /\ Len(names) = 12 /\ DOMAIN names = 1 .. 12
  /\ names[1] = "edi" /\ names[2] = "esi" /\ names[3] = "ebp" /\ names[4] = "esp"
  /\ names[5] = "ebx" /\ names[6] = "edx" /\ names[7] = "ecx" /\ names[8] = "eax"
  /\ names[9] = "gs" /\ names[10] = "fs" /\ names[11] = "es" /\ names[12] = "ds"
<1> DEFINE q == Segments \o pushad
           N == {"eax", "ecx", "edx", "ebx", "esp", "ebp", "esi", "edi", "ds", "es", "fs", "gs"}
<1>1. /\ Segments \in Seq(N) /\ Len(Segments) = 4
      /\ Segments[1] = "ds" /\ Segments[2] = "es" /\ Segments[3] = "fs" /\ Segments[4] = "gs"
  BY DEF Segments
<1>2. /\ pushad \in Seq(N) /\ Len(pushad) = 8
      /\ pushad[1] = "eax" /\ pushad[2] = "ecx" /\ pushad[3] = "edx" /\ pushad[4] = "ebx"
      /\ pushad[5] = "esp" /\ pushad[6] = "ebp" /\ pushad[7] = "esi" /\ pushad[8] = "edi"
  BY DEF pushad
<1> HIDE DEF N
<1>3. /\ q \in Seq(N) /\ Len(q) = Len(Segments) + Len(pushad)
      /\ \A i \in 1 .. Len(Segments) + Len(pushad) :
           q[i] = IF i <= Len(Segments) THEN Segments[i] ELSE pushad[i - Len(Segments)]
  BY <1>1, <1>2, ConcatProperties
<1> HIDE DEF q
<1>4. Len(q) = 12 /\ \A i \in 1 .. 12 : q[i] = IF i <= 4 THEN Segments[i] ELSE pushad[i - 4]
  BY <1>1, <1>2, <1>3
<1>5. Reverse(q) \in [1 .. 12 -> N]
  <2>a. \A i \in 1 .. 12 : q[i] \in N
    BY <1>3, <1>4, ElementOfSeq
  <2>1. \A i \in 1 .. 12 : q[12 - i + 1] \in N
    BY <2>a
  <2> QED
    BY <1>4, <2>1 DEF Reverse
<1>6. Len(Reverse(q)) = 12 /\ DOMAIN Reverse(q) = 1 .. 12
  BY <1>5, Built
<1>7. \A i \in 1 .. 12 : Reverse(q)[i] = q[13 - i]
  BY <1>4 DEF Reverse
<1>8. /\ q[12] = "edi" /\ q[11] = "esi" /\ q[10] = "ebp" /\ q[9] = "esp" /\ q[8] = "ebx"
      /\ q[7] = "edx" /\ q[6] = "ecx" /\ q[5] = "eax" /\ q[4] = "gs" /\ q[3] = "fs"
      /\ q[2] = "es" /\ q[1] = "ds"
  BY <1>1, <1>2, <1>4
<1> DEFINE r == Reverse(q)
<1>9. /\ r[1] = "edi" /\ r[2] = "esi" /\ r[3] = "ebp" /\ r[4] = "esp"
      /\ r[5] = "ebx" /\ r[6] = "edx" /\ r[7] = "ecx" /\ r[8] = "eax"
      /\ r[9] = "gs" /\ r[10] = "fs" /\ r[11] = "es" /\ r[12] = "ds"
  <2> HIDE DEF r
  <2> QED BY <1>7, <1>8 DEF r
<1> QED
  BY <1>6, <1>9 DEF q

\* A structure in memory, word by word.
IsStruct(s, t, fields, n) ==
  /\ Stack(s) /\ Len(s) = n
  /\ \A i \in 0 .. n - 1 : Word(s, i) = <<t, fields[i + 1]>>

LEMMA StructWords ==
  ASSUME NEW t, NEW fields, NEW n \in Nat, Len(fields) = n
  PROVE  IsStruct(Struct(t, fields), t, fields, n)
<1> DEFINE q == [i \in 1 .. n |-> <<t, fields[i]>>]
           S == {<<t, fields[i]>> : i \in 1 .. n}
<1>1. q \in [1 .. n -> S]
  OBVIOUS
<1>2. q \in Seq(S) /\ Len(q) = n
  <2> HIDE DEF q, S
  <2> QED BY <1>1, Built
<1>3. Struct(t, fields) = Reverse(q)
  BY DEF Struct
<1> HIDE DEF S
<1>4. Reverse(q) \in [1 .. n -> S] /\ \A i \in 1 .. n : Reverse(q)[i] = q[n - i + 1]
  <2>1. \A i \in 1 .. n : q[n - i + 1] \in S
    BY <1>1
  <2> HIDE DEF q
  <2> QED
    BY <1>2, <2>1 DEF Reverse
<1>5. Reverse(q) \in Seq(S) /\ Len(Reverse(q)) = n
  <2> HIDE DEF q
  <2> QED BY <1>4, Built
<1>6. ASSUME NEW i \in 0 .. n - 1 PROVE Word(Reverse(q), i) = <<t, fields[i + 1]>>
  <2>1. i < n /\ n - i \in 1 .. n /\ n - (n - i) + 1 = i + 1 /\ i + 1 \in 1 .. n
    OBVIOUS
  <2>2. Reverse(q)[n - i] = q[i + 1]
    BY <1>4, <2>1
  <2>3. q[i + 1] = <<t, fields[i + 1]>>
    BY <2>1
  <2> QED
    BY <1>5, <2>1, <2>2, <2>3 DEF Word
<1> QED
  BY <1>3, <1>5, <1>6 DEF Stack, IsStruct

(* intr_exit puts back every register of a frame and leaves what is below. *)
LEMMA Exits ==
  ASSUME cur \in Thread, NEW base \in Nat, NEW rs, Registers(rs), Registers(regs),
         FrameOn(cur, Here, base, rs), rs["cs"] = <<cur, "cs">>,
         cur \notin User => regs["esp"] = rs["esp"] /\ regs["ss"] = rs["ss"],
         IntrExit
  PROVE  /\ regs' = rs
         /\ \E s : Stack(s) /\ Len(s) = base /\ stack' = [stack EXCEPT ![cur] = s]
<1> DEFINE h == Here
           names == Reverse(Segments \o pushad)
           one == Drop(h, 1)
           rest == Drop(h, 14)
           p == PopAll(one, regs, names, {"esp"})
           top == IF cur \in User THEN <<"eip", "cs", "eflags", "esp", "ss">>
                                  ELSE <<"eip", "cs", "eflags">>
<1>1. /\ Stack(h) /\ Len(h) = base + Size(cur) /\ RegisterWords(h, rs)
      /\ cur \in User => Word(h, 17) = rs["esp"] /\ Word(h, 18) = rs["ss"]
  BY DEF FrameOn
<1>2. Size(cur) \in {17, 19} /\ (cur \in User <=> Size(cur) = 19)
  BY DEF Size
<1>3. /\ Len(names) = 12 /\ DOMAIN names = 1 .. 12
      /\ names[1] = "edi" /\ names[2] = "esi" /\ names[3] = "ebp" /\ names[4] = "esp"
      /\ names[5] = "ebx" /\ names[6] = "edx" /\ names[7] = "ecx" /\ names[8] = "eax"
      /\ names[9] = "gs" /\ names[10] = "fs" /\ names[11] = "es" /\ names[12] = "ds"
  BY PopOrder
<1>4. /\ Put(Drop(Drop(h, 1 + Len(names) + 1), Len(IF Word(Drop(h, 1 + Len(names) + 1), 1)[1] \in User
                                             THEN <<"eip", "cs", "eflags", "esp", "ss">>
                                             ELSE <<"eip", "cs", "eflags">>)))
      /\ regs' = PopAll(Drop(h, 1 + Len(names) + 1), p,
                        IF Word(Drop(h, 1 + Len(names) + 1), 1)[1] \in User
                        THEN <<"eip", "cs", "eflags", "esp", "ss">>
                        ELSE <<"eip", "cs", "eflags">>, {})
  BY DEF IntrExit, ExitPopping, IretFrom
<1>5. 1 + Len(names) + 1 = 14
  BY <1>3
<1> HIDE DEF h, names
<1>6. /\ Stack(one) /\ \A i \in Nat : Word(one, i) = Word(h, i + 1)
      /\ Stack(rest) /\ Len(rest) = base + Size(cur) - 14
      /\ \A i \in Nat : Word(rest, i) = Word(h, i + 14)
  <2>1. 1 \in 0 .. Len(h) /\ 14 \in 0 .. Len(h)
    BY <1>1, <1>2
  <2>2. /\ Stack(one) /\ \A i \in Nat : Word(one, i) = Word(h, i + 1)
    BY <1>1, <2>1, Dropped
  <2>3. /\ Stack(rest) /\ Len(rest) = Len(h) - 14
        /\ \A i \in Nat : Word(rest, i) = Word(h, i + 14)
    BY <1>1, <2>1, Dropped
  <2> HIDE DEF one, rest, p, top
  <2>4. Len(rest) = base + Size(cur) - 14
    <3>1. Size(cur) \in Int
      BY <1>2
    <3>2. Len(h) = base + Size(cur)
      BY <1>1
    <3>3. Len(rest) = Len(h) - 14
      BY <2>3
    <3> QED
      BY <3>1, <3>2, <3>3
  <2> QED
    BY <2>2, <2>3, <2>4
<1> HIDE DEF one, rest
<1>7. Word(rest, 1)[1] = cur
  <2>1. Word(rest, 1) = Word(h, 15)
    BY <1>6
  <2> QED
    BY <2>1, <1>1 DEF RegisterWords
<1>8. Put(Drop(rest, Len(top))) /\ regs' = PopAll(rest, p, top, {})
  BY <1>4, <1>5, <1>7 DEF rest
<1>9. /\ Registers(p)
      /\ p["edi"] = rs["edi"] /\ p["esi"] = rs["esi"] /\ p["ebp"] = rs["ebp"]
      /\ p["ebx"] = rs["ebx"] /\ p["edx"] = rs["edx"] /\ p["ecx"] = rs["ecx"]
      /\ p["eax"] = rs["eax"] /\ p["gs"] = rs["gs"] /\ p["fs"] = rs["fs"]
      /\ p["es"] = rs["es"] /\ p["ds"] = rs["ds"]
      /\ p["esp"] = regs["esp"] /\ p["ss"] = regs["ss"]
  <2>1. \A i, j \in 1 .. 12 : names[i] = names[j] => i = j
    BY <1>3
  <2>a. PoppedFrom(p, one, regs, names, 12, {"esp"})
    BY <1>3, <2>1, Popped
  <2> HIDE DEF p
  <2>2. /\ Registers(p)
        /\ \A i \in 1 .. 12 : names[i] \in Register \ {"esp"} => p[names[i]] = Word(one, i - 1)
        /\ \A r \in Register :
             r \in {"esp"} \/ (\A i \in 1 .. 12 : names[i] # r) => p[r] = regs[r]
    BY <2>a DEF PoppedFrom
  <2>3. ASSUME NEW i \in 1 .. 12 PROVE Word(one, i - 1) = Word(h, i)
    <3>1. i - 1 \in Nat /\ (i - 1) + 1 = i
      OBVIOUS
    <3>2. Word(one, i - 1) = Word(h, (i - 1) + 1)
      BY <3>1, <1>6
    <3> QED
      BY <3>1, <3>2
  <2>4. /\ p["edi"] = Word(h, 1) /\ p["esi"] = Word(h, 2) /\ p["ebp"] = Word(h, 3)
        /\ p["ebx"] = Word(h, 5) /\ p["edx"] = Word(h, 6) /\ p["ecx"] = Word(h, 7)
        /\ p["eax"] = Word(h, 8) /\ p["gs"] = Word(h, 9) /\ p["fs"] = Word(h, 10)
        /\ p["es"] = Word(h, 11) /\ p["ds"] = Word(h, 12)
    <3>1. \A i \in 1 .. 12 : i # 4 => names[i] \in Register \ {"esp"}
      BY <1>3, RegisterNames
    <3>2. \A i \in 1 .. 12 : i # 4 => p[names[i]] = Word(h, i)
      BY <3>1, <2>2, <2>3
    <3>3. /\ p[names[1]] = Word(h, 1) /\ p[names[2]] = Word(h, 2) /\ p[names[3]] = Word(h, 3)
          /\ p[names[5]] = Word(h, 5) /\ p[names[6]] = Word(h, 6) /\ p[names[7]] = Word(h, 7)
          /\ p[names[8]] = Word(h, 8) /\ p[names[9]] = Word(h, 9) /\ p[names[10]] = Word(h, 10)
          /\ p[names[11]] = Word(h, 11) /\ p[names[12]] = Word(h, 12)
      BY <3>2
    <3> QED
      BY <3>3, <1>3
  <2>5. p["esp"] = regs["esp"] /\ p["ss"] = regs["ss"]
    <3>1. \A i \in 1 .. 12 : names[i] # "ss"
      BY <1>3
    <3> QED
      BY <3>1, <2>2, RegisterNames
  <2> QED
    BY <2>2, <2>4, <2>5, <1>1 DEF RegisterWords
<1> HIDE DEF p
<1>10. /\ Registers(regs')
       /\ regs'["eip"] = rs["eip"] /\ regs'["cs"] = rs["cs"] /\ regs'["eflags"] = rs["eflags"]
       /\ regs'["esp"] = rs["esp"] /\ regs'["ss"] = rs["ss"]
       /\ \A r \in Register \ {"eip", "cs", "eflags", "esp", "ss"} : regs'[r] = p[r]
       /\ Len(top) = Size(cur) - 14
  <2>1. CASE cur \in User
    <3>1. /\ Len(top) = 5 /\ DOMAIN top = 1 .. 5 /\ top[1] = "eip" /\ top[2] = "cs"
          /\ top[3] = "eflags" /\ top[4] = "esp" /\ top[5] = "ss"
      BY <2>1
    <3> HIDE DEF top
    <3>2. \A i, j \in 1 .. 5 : top[i] = top[j] => i = j
      BY <3>1
    <3> DEFINE q == PopAll(rest, p, top, {})
    <3>a. PoppedFrom(q, rest, p, top, 5, {})
      BY <3>1, <3>2, Popped
    <3> HIDE DEF q
    <3>3. /\ Registers(q)
          /\ \A i \in 1 .. 5 : top[i] \in Register => q[top[i]] = Word(rest, i - 1)
          /\ \A r \in Register : (\A i \in 1 .. 5 : top[i] # r) => q[r] = p[r]
      BY <3>a DEF PoppedFrom
    <3>4. /\ Word(rest, 0) = Word(h, 14) /\ Word(rest, 1) = Word(h, 15)
          /\ Word(rest, 2) = Word(h, 16) /\ Word(rest, 3) = Word(h, 17)
          /\ Word(rest, 4) = Word(h, 18)
      BY <1>6
    <3>5. /\ q["eip"] = Word(h, 14) /\ q["cs"] = Word(h, 15) /\ q["eflags"] = Word(h, 16)
          /\ q["esp"] = Word(h, 17) /\ q["ss"] = Word(h, 18)
      BY <3>1, <3>3, <3>4, RegisterNames
    <3>6. \A r \in Register \ {"eip", "cs", "eflags", "esp", "ss"} : q[r] = p[r]
      BY <3>1, <3>3
    <3>7. regs' = q
      BY <1>8 DEF q
    <3> QED
      BY <2>1, <3>1, <3>3, <3>5, <3>6, <3>7, <1>1, <1>2 DEF RegisterWords
  <2>2. CASE cur \notin User
    <3>1. /\ Len(top) = 3 /\ DOMAIN top = 1 .. 3 /\ top[1] = "eip" /\ top[2] = "cs"
          /\ top[3] = "eflags"
      BY <2>2
    <3> HIDE DEF top
    <3>2. \A i, j \in 1 .. 3 : top[i] = top[j] => i = j
      BY <3>1
    <3> DEFINE q == PopAll(rest, p, top, {})
    <3>a. PoppedFrom(q, rest, p, top, 3, {})
      BY <3>1, <3>2, Popped
    <3> HIDE DEF q
    <3>3. /\ Registers(q)
          /\ \A i \in 1 .. 3 : top[i] \in Register => q[top[i]] = Word(rest, i - 1)
          /\ \A r \in Register : (\A i \in 1 .. 3 : top[i] # r) => q[r] = p[r]
      BY <3>a DEF PoppedFrom
    <3>4. /\ Word(rest, 0) = Word(h, 14) /\ Word(rest, 1) = Word(h, 15)
          /\ Word(rest, 2) = Word(h, 16) /\ Word(rest, 3) = Word(h, 17)
          /\ Word(rest, 4) = Word(h, 18)
      BY <1>6
    <3>5. /\ q["eip"] = Word(h, 14) /\ q["cs"] = Word(h, 15) /\ q["eflags"] = Word(h, 16)
      BY <3>1, <3>3, <3>4, RegisterNames
    <3>6. \A r \in Register \ {"eip", "cs", "eflags"} : q[r] = p[r]
      BY <3>1, <3>3
    <3>7. regs' = q
      BY <1>8 DEF q
    <3>8. q["esp"] = rs["esp"] /\ q["ss"] = rs["ss"]
      BY <2>2, <3>6, <1>9, RegisterNames
    <3> QED
      BY <2>2, <3>1, <3>3, <3>5, <3>6, <3>7, <3>8, <1>1, <1>2 DEF RegisterWords
  <2> QED
    BY <2>1, <2>2
<1> HIDE DEF top
<1>11. \A r \in Register : regs'[r] = rs[r]
  BY <1>9, <1>10, RegisterNames
<1>12. regs' = rs
  BY <1>10, <1>11 DEF Registers
<1>13. Stack(Drop(rest, Len(top))) /\ Len(Drop(rest, Len(top))) = base
  <2>a. Size(cur) - 14 \in Nat /\ Len(rest) = base + (Size(cur) - 14) /\ Len(top) = Size(cur) - 14
    BY <1>2, <1>6, <1>10
  <2>1. Len(top) \in 0 .. Len(rest) /\ Len(rest) - Len(top) = base
    BY <2>a
  <2>2. Stack(Drop(rest, Len(top))) /\ Len(Drop(rest, Len(top))) = Len(rest) - Len(top)
    BY <2>1, <1>6, Dropped
  <2> QED
    BY <2>1, <2>2
<1> QED
  BY <1>8, <1>12, <1>13 DEF Put

-----------------------------------------------------------------------------
(* Where every thread is, and what its stack holds there.                  *)

\* How many words were on it when the kernel was entered.
Base(t) == IF t \in User THEN 0 ELSE height[t]

\* What eax is on the way in and on the way out.
WasOK(t) ==
  /\ Registers(was[t])
  /\ t \in User \/ kind[t] # Yield =>
       /\ \A r \in Register : r \notin ToSet(Segments) \cup {"eax"} => was[t][r] = Own(t)[r]
       /\ was[t]["eax"] = IF kind[t] = Syscall THEN Answer(Own(t)) ELSE Own(t)["eax"]

\* At the call of a handler: a frame, under the arguments of a system call.
Called(t, s) ==
  /\ Stack(s)
  /\ kind[t] = Syscall =>
       /\ t \in User /\ Len(s) = 22
       /\ Word(s, 0) = <<t, "ebx">> /\ Word(s, 1) = <<t, "ecx">> /\ Word(s, 2) = <<t, "edx">>
       /\ FrameOn(t, Drop(s, 3), Base(t), [was[t] EXCEPT !["eax"] = Own(t)["eax"]])
  /\ kind[t] \notin {Syscall, StackFault} => FrameOn(t, s, Base(t), was[t])
  /\ kind[t] = StackFault => Len(s) <= 22

\* In a handler, or in thread_yield: what the C function has pushed.
InHandler(t, s) ==
  /\ Stack(s) /\ Len(s) >= 5
  /\ kind[t] = Yield =>
       /\ t \notin User /\ Len(s) = height[t] + 5
       /\ Word(s, 0) = Own(t)["ebx"] /\ Word(s, 1) = Own(t)["esi"]
       /\ Word(s, 2) = Own(t)["edi"] /\ Word(s, 3) = Own(t)["ebp"]
  /\ kind[t] # Yield => kind[t] >= Timer /\ Called(t, Drop(s, 5))

\* In switch_to: what it has pushed, over that.
SwitchedOut(t, s) ==
  /\ Stack(s) /\ Len(s) >= 12
  /\ Word(s, 0) = Temp(t)["ebp"] /\ Word(s, 1) = Temp(t)["ebx"]
  /\ Word(s, 2) = Temp(t)["edi"] /\ Word(s, 3) = Temp(t)["esi"]
  /\ InHandler(t, Drop(s, 7))

At(t) ==
  /\ at[t] \notin {"new", "handler"} => t = cur
  /\ at[t] \in {"new", "start"} => kind[t] = Yield
  /\ at[t] = "new" =>
       /\ t # cur /\ kstack[t] = 8 /\ Len(stack[t]) = 8
       /\ Word(stack[t], 6) = <<t, "function">> /\ Word(stack[t], 7) = <<t, "func_arg">>
  /\ at[t] = "start" =>
       /\ Len(stack[t]) = 3
       /\ Word(stack[t], 1) = <<t, "function">> /\ Word(stack[t], 2) = <<t, "func_arg">>
  /\ at[t] = "own" => Len(stack[t]) <= 3 /\ (t \in User => Len(stack[t]) = 0)
  /\ at[t] = "call" => kind[t] # Yield /\ Called(t, stack[t])
                       /\ (kind[t] # StackFault => Marks(Frame(t), kind[t]))
  /\ at[t] = "handler" =>
       IF t = cur THEN InHandler(t, stack[t])
       ELSE kstack[t] = Len(stack[t]) /\ SwitchedOut(t, stack[t])
  /\ at[t] = "exit" => FrameOn(t, stack[t], Base(t), was[t])
                       /\ (t \in User \/ kind[t] # Yield)
  /\ at[t] = "back" => Len(stack[t]) = Base(t)
  /\ at[t] = "loop" => Len(stack[t]) <= 27

(* The registers, of the thread that runs.  In the kernel there is no      *)
(* user's esp.                                                             *)
RegsOK ==
  /\ Registers(regs)
  /\ at[cur] = "own" => \A r \in Register : r \notin ToSet(Segments) => regs[r] = Own(cur)[r]
  /\ at[cur] = "handler" => \A r \in Callee : regs[r] = Temp(cur)[r]
  /\ at[cur] = "back" => regs = was[cur]
  /\ cur \notin User \/ at[cur] \in {"call", "handler", "loop", "start"} =>
       regs["esp"] = <<"kernel", "esp">> /\ regs["ss"] = <<"kernel", "ss">>

Domains ==
  /\ cur \in Thread
  /\ DOMAIN stack = Thread /\ DOMAIN was = Thread
  /\ kstack \in [Thread -> 0 .. Deepest] /\ at \in [Thread -> Phase]
  /\ kind \in [Thread -> 0 .. Yield] /\ height \in [Thread -> 0 .. 3]
  /\ service = {}

EntryInv ==
  /\ Domains /\ RegsOK
  /\ \A t \in Thread : Stack(stack[t]) /\ WasOK(t) /\ At(t)

LEMMA OwnRegisters ==
  \A t : /\ Registers(Own(t))
         /\ \A r \in Register \ {"esp", "ss"} : Own(t)[r] = <<t, r>>
         /\ t \in User => Own(t)["esp"] = <<t, "esp">> /\ Own(t)["ss"] = <<t, "ss">>
         /\ t \notin User =>
              Own(t)["esp"] = <<"kernel", "esp">> /\ Own(t)["ss"] = <<"kernel", "ss">>
BY RegisterNames DEF Own, Registers

LEMMA TempRegisters == \A t : \A r \in Callee : Temp(t)[r] = <<"temp", t, r>>
BY DEF Temp

LEMMA NewStacks ==
  \A t : LET s == Struct(t, thread_stack) IN
         /\ Stack(s) /\ Len(s) = 8
         /\ Word(s, 6) = <<t, "function">> /\ Word(s, 7) = <<t, "func_arg">>
<1>1. /\ Len(thread_stack) = 8 /\ thread_stack[7] = "function" /\ thread_stack[8] = "func_arg"
  BY DEF thread_stack
<1> SUFFICES ASSUME NEW t
             PROVE  LET s == Struct(t, thread_stack) IN
                    /\ Stack(s) /\ Len(s) = 8
                    /\ Word(s, 6) = <<t, "function">> /\ Word(s, 7) = <<t, "func_arg">>
  OBVIOUS
<1>2. IsStruct(Struct(t, thread_stack), t, thread_stack, 8)
  BY <1>1, StructWords
<1> QED
  BY <1>1, <1>2 DEF IsStruct

LEMMA EntryInit == Init => EntryInv
<1> SUFFICES ASSUME Init PROVE EntryInv
  OBVIOUS
<1>0. Main \in Thread /\ Main \notin User /\ cur = Main /\ regs = Own(Main)
  BY EntryAssumption DEF Init
<1>1. \A t \in Thread : stack[t] = IF t = Main THEN <<>> ELSE Struct(t, thread_stack)
  BY DEF Init
<1>2. Stack(<<>>) /\ Len(<<>>) = 0
  <2>1. <<>> \in Seq({}) /\ Len(<<>>) = 0
    OBVIOUS
  <2> QED
    BY <2>1 DEF Stack
<1>3. \A t \in Thread : Len(stack[t]) = IF t = Main THEN 0 ELSE 8
  BY <1>1, <1>2, NewStacks
<1>4. Domains
  <2>1. kstack = [t \in Thread |-> Len(stack[t])] /\ Deepest = 34
    BY DEF Init, Deepest, intr_stack
  <2>a. \A t \in Thread : Len(stack[t]) \in 0 .. Deepest
    <3>1. ASSUME NEW t \in Thread PROVE Len(stack[t]) = 0 \/ Len(stack[t]) = 8
      BY <1>3
    <3> QED
      BY <2>1, <3>1
  <2>2. kstack \in [Thread -> 0 .. Deepest]
    BY <2>1, <2>a
  <2>3. at \in [Thread -> Phase] /\ kind \in [Thread -> 0 .. Yield] /\ height \in [Thread -> 0 .. 3]
    BY DEF Init, Phase, Yield
  <2> QED
    BY <1>0, <2>2, <2>3 DEF Domains, Init
<1>5. RegsOK
  <2>1. at[cur] = "own"
    BY <1>0 DEF Init
  <2> QED
    BY <1>0, <2>1, OwnRegisters DEF RegsOK
<1>6. ASSUME NEW t \in Thread PROVE Stack(stack[t]) /\ WasOK(t) /\ At(t)
  <2>1. Stack(stack[t])
    BY <1>1, <1>2, NewStacks
  <2>2. WasOK(t)
    <3>1. was[t] = Own(t) /\ kind[t] = Yield /\ Yield # Syscall
      BY DEF Init, Yield, Syscall
    <3> QED
      BY <3>1, OwnRegisters, RegisterNames DEF WasOK
  <2>3. At(t)
    <3>1. CASE t = Main
      <4>1. at[t] = "own" /\ t = cur /\ Len(stack[t]) = 0 /\ t \notin User
        BY <3>1, <1>0, <1>3 DEF Init
      <4> QED
        BY <4>1 DEF At
    <3>2. CASE t # Main
      <4>1. /\ at[t] = "new" /\ kind[t] = Yield /\ t # cur /\ kstack[t] = 8 /\ Len(stack[t]) = 8
            /\ stack[t] = Struct(t, thread_stack)
        BY <3>2, <1>0, <1>1, <1>3 DEF Init
      <4>2. Word(stack[t], 6) = <<t, "function">> /\ Word(stack[t], 7) = <<t, "func_arg">>
        BY <4>1, NewStacks
      <4> QED
        BY <4>1, <4>2 DEF At
    <3> QED
      BY <3>1, <3>2
  <2> QED
    BY <2>1, <2>2, <2>3
<1> QED
  BY <1>4, <1>5, <1>6 DEF EntryInv

(* A step of the thread that runs leaves the others where they are.        *)
LEMMA OthersStay ==
  ASSUME EntryInv, cur' = cur,
         \A t \in Thread : t # cur =>
           /\ stack'[t] = stack[t] /\ kstack'[t] = kstack[t] /\ at'[t] = at[t]
           /\ kind'[t] = kind[t] /\ was'[t] = was[t] /\ height'[t] = height[t]
  PROVE  \A t \in Thread : t # cur => (Stack(stack[t]) /\ WasOK(t) /\ At(t))'
<1> SUFFICES ASSUME NEW t \in Thread, t # cur
             PROVE  Stack(stack'[t]) /\ WasOK(t)' /\ At(t)'
  OBVIOUS
<1>1. Stack(stack[t]) /\ WasOK(t) /\ At(t)
  BY DEF EntryInv
<1>2. WasOK(t)'
  BY <1>1 DEF WasOK
<1>3. at[t] \in {"new", "handler"}
  BY <1>1 DEF At
<1>4. SwitchedOut(t, stack[t]) => SwitchedOut(t, stack[t])'
  BY DEF SwitchedOut, InHandler, Called, Base
<1>5. At(t)'
  BY <1>1, <1>3, <1>4 DEF At
<1> QED
  BY <1>1, <1>2, <1>5

(* The stack fault pushes one word more, and does not come back.           *)
LEMMA SavedFault ==
  ASSUME NEW s, Stack(s), cur \in Thread
  PROVE  LET f == Saved(Accept(s, StackFault), StackFault) IN
         Stack(f) /\ Len(f) = Len(s) + (Size(cur) + 1)
<1> DEFINE a == PushAll(s, regs, (IF cur \in User THEN <<"ss", "esp">> ELSE <<>>)
                                   \o <<"eflags", "cs", "eip">>)
           b == (a \o <<<<"error", StackFault>>>>) \o <<<<"zero">>>>
           c == PushAll(b, regs, Segments)
           dummy == [regs EXCEPT !["esp"] = <<"dummy">>]
           d == PushAll(c, dummy, pushad)
           e == d \o <<<<"vector", StackFault>>>>
<1>1. Saved(Accept(s, StackFault), StackFault) = e
  BY DEF Saved, Accept, Pad, StackFault, ErrorCode, ERROR_CODE
<1>2. Stack(a) /\ Len(a) = Len(s) + (Size(cur) - 14)
  <2> DEFINE five == PushAll(s, regs, <<"ss", "esp">> \o <<"eflags", "cs", "eip">>)
             three == PushAll(s, regs, <<>> \o <<"eflags", "cs", "eip">>)
  <2>a. /\ Stack(five) /\ Len(five) = Len(s) + 5
        /\ Stack(three) /\ Len(three) = Len(s) + 3
    BY PushedByProcessor
  <2>b. a = IF cur \in User THEN five ELSE three
    OBVIOUS
  <2> HIDE DEF a, five, three
  <2>1. CASE cur \in User
    BY <2>1, <2>a, <2>b DEF Size
  <2>2. CASE cur \notin User
    BY <2>2, <2>a, <2>b DEF Size
  <2> QED
    BY <2>1, <2>2
<1> HIDE DEF a
<1>3. Stack(b) /\ Len(b) = Len(a) + 1 + 1
  <2> DEFINE a1 == a \o <<<<"error", StackFault>>>>
  <2>1. Stack(a1) /\ Len(a1) = Len(a) + 1
    BY <1>2, PushedWord
  <2> HIDE DEF a1
  <2>2. Stack(a1 \o <<<<"zero">>>>) /\ Len(a1 \o <<<<"zero">>>>) = Len(a1) + 1
    BY <2>1, PushedWord
  <2> QED
    BY <2>1, <2>2 DEF a1
<1> HIDE DEF b
<1>4. Stack(c) /\ Len(c) = Len(b) + 4
  BY <1>3, PushedSegments
<1> HIDE DEF c, dummy
<1>5. Stack(d) /\ Len(d) = Len(c) + 8
  BY <1>4, PushedAll
<1> HIDE DEF d
<1>6. Stack(e) /\ Len(e) = Len(d) + 1
  BY <1>5, PushedWord
<1> HIDE DEF e
<1>7. Len(e) = Len(s) + (Size(cur) + 1)
  BY <1>2, <1>3, <1>4, <1>5, <1>6, Lengths DEF Size
<1> QED
  BY <1>1, <1>6, <1>7

\* What the processor does to the registers.
LEMMA EnteredRegisters ==
  ASSUME NEW v, NEW s, EntryInv, Enter(v, s), at'[cur] = "call", cur' = cur
  PROVE  RegsOK'
<1> DEFINE r == [x \in Register |->
                  IF x \in {"eip", "cs", "eflags", "esp", "ss"} THEN <<"kernel", x>> ELSE regs[x]]
<1>1. regs' = r
  BY DEF Enter
<1>2. Registers(r) /\ r["esp"] = <<"kernel", "esp">> /\ r["ss"] = <<"kernel", "ss">>
  BY RegisterNames DEF Registers
<1> HIDE DEF r
<1> QED
  BY <1>1, <1>2 DEF RegsOK

LEMMA VectorStep ==
  ASSUME EntryInv, NEW v \in 0 .. 19 \cup 32 .. 47, NEW accepted, Vector(v, accepted),
         service' = {}
  PROVE  EntryInv'
<1> DEFINE h == Here
           f == Saved(Accept(h, v), v)
<1>1. /\ at[cur] = "own" /\ stack' = [stack EXCEPT ![cur] = f]
      /\ at' = [at EXCEPT ![cur] = "call"] /\ kind' = [kind EXCEPT ![cur] = v]
      /\ height' = [height EXCEPT ![cur] = Len(h)]
      /\ was' = [was EXCEPT ![cur] = regs]
      /\ cur' = cur /\ kstack' = kstack
  BY DEF Vector, Enter, Running, Put, Becomes, Here
<1>2. /\ cur \in Thread /\ Stack(h) /\ Len(h) \in 0 .. 3 /\ (cur \in User => Len(h) = 0)
      /\ DOMAIN stack = Thread /\ DOMAIN was = Thread /\ DOMAIN regs = Register
      /\ Registers(regs)
      /\ \A r \in Register : r \notin ToSet(Segments) => regs[r] = Own(cur)[r]
  <2>1. /\ cur \in Thread /\ Stack(stack[cur]) /\ At(cur)
        /\ DOMAIN stack = Thread /\ DOMAIN was = Thread
        /\ Registers(regs)
        /\ \A r \in Register : r \notin ToSet(Segments) => regs[r] = Own(cur)[r]
    BY <1>1 DEF EntryInv, Domains, RegsOK
  <2>2. Stack(h) /\ Len(h) \in Nat /\ Len(h) <= 3 /\ (cur \in User => Len(h) = 0)
    BY <1>1, <2>1, Lengths DEF At, Here
  <2>3. DOMAIN regs = Register
    BY <2>1 DEF Registers
  <2> HIDE DEF h, f
  <2>a. Len(h) \in Nat /\ Len(h) <= 3
    BY <2>2
  <2>b. \A x : x \in Nat /\ x <= 3 => x \in 0 .. 3
    OBVIOUS
  <2>4. Len(h) \in 0 .. 3
    BY <2>a, <2>b
  <2> QED
    BY <2>1, <2>2, <2>3, <2>4
<1>3. v \in 0 .. Yield /\ v # Syscall /\ v # Yield
  BY DEF Yield, Syscall
<1> HIDE DEF f, h
<1>4. /\ stack'[cur] = f /\ at'[cur] = "call" /\ kind'[cur] = v /\ was'[cur] = regs
      /\ height'[cur] = Len(h)
      /\ \A t \in Thread : t # cur =>
           /\ stack'[t] = stack[t] /\ kstack'[t] = kstack[t] /\ at'[t] = at[t]
           /\ kind'[t] = kind[t] /\ was'[t] = was[t] /\ height'[t] = height[t]
  BY <1>1, <1>2 DEF EntryInv, Domains
<1>5. Domains'
  BY <1>1, <1>2, <1>3 DEF EntryInv, Domains, Phase
<1>6. RegsOK'
  <2>1. Enter(v, f)
    BY DEF Vector, f, h
  <2> QED
    BY <1>1, <1>4, <2>1, EnteredRegisters
<1>7. Base(cur)' = Len(h)
  BY <1>1, <1>2, <1>4 DEF Base
<1>8. Stack(f) /\ (v = StackFault => Len(f) <= 22)
      /\ (v # StackFault => FrameOn(cur, f, Len(h), regs) /\ Marks(f, v))
  <2>1. CASE v = StackFault
    <3>1. Stack(f) /\ Len(f) = Len(h) + (Size(cur) + 1)
      BY <2>1, <1>2, SavedFault DEF f
    <3>2. Len(f) <= 22
      <4>1. Size(cur) = 17 \/ (Size(cur) = 19 /\ Len(h) = 0)
        BY <1>2 DEF Size
      <4>2. Len(h) \in 0 .. 3 /\ Len(f) = Len(h) + (Size(cur) + 1)
        BY <3>1, <1>2
      <4>3. \A x, y, z : y \in 0 .. 3 /\ (z = 17 \/ (z = 19 /\ y = 0)) /\ x = y + (z + 1) => x <= 22
        OBVIOUS
      <4> QED
        BY <4>1, <4>2, <4>3
    <3> QED
      BY <2>1, <3>1, <3>2
  <2>2. CASE v # StackFault
    <3>1. OneWord(v)
      BY <2>2 DEF OneWord, StackFault, ErrorCode, ERROR_CODE
    <3>2. FrameOn(cur, f, Len(h), regs) /\ Marks(f, v)
      BY <3>1, <1>2, SavedFrame DEF f
    <3> QED
      BY <2>2, <3>2 DEF FrameOn
  <2> QED
    BY <2>1, <2>2
<1>9. WasOK(cur)'
  BY <1>1, <1>2, <1>3, <1>4, RegisterNames DEF WasOK
<1>10. At(cur)'
  <2>2. Called(cur, stack[cur])'
    BY <1>1, <1>3, <1>4, <1>7, <1>8 DEF Called, FrameOn
  <2>3. (kind[cur] # StackFault => Marks(Frame(cur), kind[cur]))'
    BY <1>1, <1>3, <1>4, <1>8 DEF Frame, Marks
  <2> QED
    BY <1>1, <1>3, <1>4, <2>2, <2>3 DEF At
<1>11. Stack(stack'[cur])
  BY <1>4, <1>8
<1>12. \A t \in Thread : t # cur => (Stack(stack[t]) /\ WasOK(t) /\ At(t))'
  BY <1>1, <1>4, OthersStay
<1> QED
  BY <1>1, <1>5, <1>6, <1>9, <1>10, <1>11, <1>12 DEF EntryInv

(* With no line in service, the end of interrupt ends the new one, on the  *)
(* slave that on the master too.                                           *)
LEMMA InterruptStep ==
  ASSUME EntryInv, NEW i \in Irq, Interrupt(i)
  PROVE  EntryInv'
<1> DEFINE lines == IF i < 8 THEN {i} ELSE {2, i}
<1>1. i \in 0 .. 15 /\ service = {}
  BY EntryAssumption DEF EntryInv, Domains
<1>2. Eoi(lines) = {}
  <2>1. CASE i < 8
    <3>1. lines = {i} /\ i \notin 8 .. 15 /\ i \in 0 .. 7 /\ i <= i
      BY <1>1, <2>1
    <3> HIDE DEF lines
    <3>2. {i} \cap (8 .. 15) = {} /\ {i} \cap (0 .. 7) = {i}
      BY <3>1
    <3>3. Ended({i}, 8 .. 15) = {i} /\ Ended({i}, 0 .. 7) = {}
      BY <3>1, <3>2 DEF Ended
    <3> QED
      BY <3>1, <3>3 DEF Eoi
  <2>2. CASE ~(i < 8)
    <3>1. lines = {2, i} /\ i \in 8 .. 15 /\ 2 \notin 8 .. 15 /\ 2 \in 0 .. 7 /\ i <= i /\ i # 2
      BY <1>1, <2>2
    <3> HIDE DEF lines
    <3>2. {2, i} \cap (8 .. 15) = {i} /\ {2} \cap (0 .. 7) = {2} /\ {2, i} \ {i} = {2}
      BY <3>1
    <3>3. Ended({2, i}, 8 .. 15) = {2} /\ Ended({2}, 0 .. 7) = {}
      BY <3>1, <3>2 DEF Ended
    <3> QED
      BY <3>1, <3>3 DEF Eoi
  <2> QED
    BY <2>1, <2>2
<1>3. Vector(Timer + i, lines) /\ service' = {}
  <2>1. service \cup lines = lines
    BY <1>1
  <2>2. Vector(Timer + i, service \cup lines)
    BY DEF Interrupt
  <2>3. Vector(Timer + i, lines)
    BY <2>1, <2>2
  <2> HIDE DEF lines
  <2> QED
    BY <1>2, <2>3 DEF Vector
<1>4. Timer + i \in 0 .. 19 \cup 32 .. 47
  BY <1>1 DEF Timer
<1> HIDE DEF lines
<1> QED
  BY <1>3, <1>4, VectorStep

LEMMA QuietStep ==
  ASSUME EntryInv, NEW v \in 0 .. 19 \cup 32 .. 47, Vector(v, service)
  PROVE  EntryInv'
<1>1. service = {} /\ service' = Eoi(service)
  BY DEF EntryInv, Domains, Vector
<1>2. Eoi({}) = {}
  BY DEF Eoi, Ended
<1> QED
  BY <1>1, <1>2, VectorStep

LEMMA FaultStep ==
  ASSUME EntryInv, NEW v \in Exception, Fault(v)
  PROVE  EntryInv'
<1>1. v \in 0 .. 19 \cup 32 .. 47
  BY EntryAssumption
<1> QED
  BY <1>1, QuietStep DEF Fault

LEMMA SpuriousStep ==
  ASSUME EntryInv, SpuriousInterrupt
  PROVE  EntryInv'
<1>1. Min({39, 47}) \in {39, 47}
  <2>1. 39 \in {39, 47} /\ \A y \in {39, 47} : 39 <= y
    OBVIOUS
  <2> QED
    BY <2>1 DEF Min
<1>2. Min(Spurious) \in 0 .. 19 \cup 32 .. 47
  BY <1>1 DEF Spurious
<1> QED
  BY <1>2, QuietStep DEF SpuriousInterrupt

-----------------------------------------------------------------------------
(* The arguments of a system call lie over the frame.                      *)
LEMMA ThreePushed ==
  ASSUME NEW s, Stack(s), NEW rs
  PROVE  LET p == PushAll(s, rs, <<"edx", "ecx", "ebx">>) IN
         /\ Stack(p) /\ Len(p) = Len(s) + 3
         /\ Word(p, 0) = rs["ebx"] /\ Word(p, 1) = rs["ecx"] /\ Word(p, 2) = rs["edx"]
         /\ \A i \in Nat : i >= 3 => Word(p, i) = Word(s, i - 3)
<1> DEFINE names == <<"edx", "ecx", "ebx">>
           p == PushAll(s, rs, names)
<1>1. Len(names) = 3 /\ names[1] = "edx" /\ names[2] = "ecx" /\ names[3] = "ebx"
  OBVIOUS
<1> HIDE DEF names
<1>2. PushedOn(p, s, rs, names, 3)
  BY <1>1, Pushed
<1> HIDE DEF p
<1>3. /\ Stack(p) /\ Len(p) = Len(s) + 3
      /\ \A i \in 0 .. 3 - 1 : Word(p, i) = rs[names[3 - i]]
      /\ \A i \in Nat : i >= 3 => Word(p, i) = Word(s, i - 3)
  BY <1>2 DEF PushedOn
<1>4. Word(p, 0) = rs[names[3]] /\ Word(p, 1) = rs[names[2]] /\ Word(p, 2) = rs[names[1]]
  <2>1. /\ 0 \in 0 .. 3 - 1 /\ 1 \in 0 .. 3 - 1 /\ 2 \in 0 .. 3 - 1
        /\ 3 - 0 = 3 /\ 3 - 1 = 2 /\ 3 - 2 = 1
    OBVIOUS
  <2> QED
    BY <1>3, <2>1
<1> QED
  BY <1>1, <1>3, <1>4 DEF p, names

LEMMA SameStack ==
  ASSUME NEW s, Stack(s), NEW q, Stack(q), Len(s) = Len(q),
         \A i \in Nat : i < Len(s) => Word(s, i) = Word(q, i)
  PROVE  s = q
<1>1. PICK S : s \in Seq(S)
  BY DEF Stack
<1>2. PICK Q : q \in Seq(Q)
  BY DEF Stack
<1>3. Len(s) \in Nat
  BY <1>1
<1>4. ASSUME NEW i \in 1 .. Len(s) PROVE s[i] = q[i]
  <2>1. Len(s) - i \in Nat /\ Len(s) - i < Len(s) /\ Len(s) - (Len(s) - i) = i
    BY <1>3
  <2>2. Word(s, Len(s) - i) = Word(q, Len(s) - i)
    BY <2>1
  <2>3. Word(s, Len(s) - i) = s[i] /\ Word(q, Len(s) - i) = q[i]
    BY <2>1 DEF Word
  <2> QED
    BY <2>2, <2>3
<1>5. s \in Seq(S \cup Q) /\ q \in Seq(S \cup Q)
  BY <1>1, <1>2, SeqMonotonic
<1> QED
  BY <1>4, <1>5, SeqEqual

LEMMA PushedUndone ==
  ASSUME NEW p, Stack(p), NEW s, Stack(s), NEW n \in Nat, Len(p) = Len(s) + n,
         \A i \in Nat : i >= n => Word(p, i) = Word(s, i - n)
  PROVE  Drop(p, n) = s
<1>1. n \in 0 .. Len(p) /\ Len(s) \in Nat
  BY Lengths
<1>2. /\ Stack(Drop(p, n)) /\ Len(Drop(p, n)) = Len(p) - n
      /\ \A i \in Nat : Word(Drop(p, n), i) = Word(p, i + n)
  BY <1>1, Dropped
<1>3. Len(Drop(p, n)) = Len(s)
  BY <1>1, <1>2
<1>4. ASSUME NEW i \in Nat PROVE Word(Drop(p, n), i) = Word(s, i)
  <2>1. i + n \in Nat /\ i + n >= n /\ (i + n) - n = i
    OBVIOUS
  <2>2. Word(p, i + n) = Word(s, i)
    BY <2>1
  <2> QED
    BY <1>2, <2>2
<1> QED
  BY <1>2, <1>3, <1>4, SameStack

(* int 0x80: what VectorStep says of an interrupt, and the arguments.      *)
LEMMA SystemCallStep ==
  ASSUME EntryInv, SystemCall
  PROVE  EntryInv'
<1> DEFINE h == Here
           f == Saved(Accept(h, Syscall), Syscall)
           g == PushAll(f, regs, <<"edx", "ecx", "ebx">>)
           w == [regs EXCEPT !["eax"] = Answer(regs)]
<1>1. /\ cur \in User /\ at[cur] = "own" /\ stack' = [stack EXCEPT ![cur] = g]
      /\ at' = [at EXCEPT ![cur] = "call"] /\ kind' = [kind EXCEPT ![cur] = Syscall]
      /\ height' = [height EXCEPT ![cur] = Len(h)]
      /\ was' = [was EXCEPT ![cur] = w]
      /\ cur' = cur /\ kstack' = kstack /\ service' = service
  BY DEF SystemCall, SyscallArguments, Enter, Running, Put, Becomes, Here
<1>2. /\ cur \in Thread /\ Stack(h) /\ Len(h) = 0
      /\ DOMAIN stack = Thread /\ DOMAIN was = Thread /\ DOMAIN regs = Register
      /\ Registers(regs)
      /\ \A r \in Register : r \notin ToSet(Segments) => regs[r] = Own(cur)[r]
  <2>1. /\ cur \in Thread /\ Stack(stack[cur]) /\ At(cur)
        /\ DOMAIN stack = Thread /\ DOMAIN was = Thread
        /\ Registers(regs)
        /\ \A r \in Register : r \notin ToSet(Segments) => regs[r] = Own(cur)[r]
    BY <1>1 DEF EntryInv, Domains, RegsOK
  <2>2. Stack(h) /\ Len(h) = 0
    BY <1>1, <2>1 DEF At, Here
  <2>3. DOMAIN regs = Register
    BY <2>1 DEF Registers
  <2> QED
    BY <2>1, <2>2, <2>3
<1> HIDE DEF h, g, f, w
<1>3. /\ Syscall \in 0 .. Yield /\ Syscall # Yield /\ Syscall # StackFault
      /\ OneWord(Syscall)
  BY DEF Yield, Syscall, StackFault, OneWord, ErrorCode, ERROR_CODE
<1>4. /\ stack'[cur] = g /\ at'[cur] = "call" /\ kind'[cur] = Syscall /\ was'[cur] = w
      /\ height'[cur] = 0
      /\ \A t \in Thread : t # cur =>
           /\ stack'[t] = stack[t] /\ kstack'[t] = kstack[t] /\ at'[t] = at[t]
           /\ kind'[t] = kind[t] /\ was'[t] = was[t] /\ height'[t] = height[t]
  BY <1>1, <1>2 DEF EntryInv, Domains
<1>5. Domains'
  BY <1>1, <1>2, <1>3 DEF EntryInv, Domains, Phase
<1>6. RegsOK'
  <2>1. Enter(Syscall, g)
    BY DEF SystemCall, SyscallArguments, f, g, h
  <2> QED
    BY <1>1, <1>4, <2>1, EnteredRegisters
<1>7. FrameOn(cur, f, 0, regs) /\ Marks(f, Syscall)
  BY <1>2, <1>3, SavedFrame DEF f
<1>8. /\ Stack(g) /\ Len(g) = Len(f) + 3
      /\ Word(g, 0) = regs["ebx"] /\ Word(g, 1) = regs["ecx"] /\ Word(g, 2) = regs["edx"]
      /\ \A i \in Nat : i >= 3 => Word(g, i) = Word(f, i - 3)
  BY <1>7, ThreePushed DEF FrameOn, g
<1>9. Stack(f) /\ Len(f) = 19
  BY <1>1, <1>7 DEF FrameOn, Size
<1>10. Drop(g, 3) = f
  <2>1. 3 \in Nat /\ Stack(g) /\ Stack(f) /\ Len(g) = Len(f) + 3
    BY <1>8, <1>9
  <2>2. \A i \in Nat : i >= 3 => Word(g, i) = Word(f, i - 3)
    BY <1>8
  <2> QED
    BY <2>1, <2>2, PushedUndone
<1>11. Len(g) = 22
  BY <1>8, <1>9
<1>12. /\ regs["eax"] = Own(cur)["eax"] /\ regs["ebx"] = Own(cur)["ebx"]
       /\ regs["ecx"] = Own(cur)["ecx"] /\ regs["edx"] = Own(cur)["edx"]
       /\ Own(cur)["ebx"] = <<cur, "ebx">> /\ Own(cur)["ecx"] = <<cur, "ecx">>
       /\ Own(cur)["edx"] = <<cur, "edx">>
  <2>1. \A r \in {"eax", "ebx", "ecx", "edx"} :
          /\ r \in Register /\ r \notin ToSet(Segments) /\ r \in Register \ {"esp", "ss"}
    BY RegisterNames
  <2> QED
    BY <1>2, <2>1, OwnRegisters
<1>13. /\ Registers(w) /\ w["eax"] = Answer(Own(cur))
       /\ \A r \in Register : r # "eax" => w[r] = regs[r]
  <2>1. Answer(regs) = Answer(Own(cur))
    BY <1>12 DEF Answer
  <2> QED
    BY <1>2, <2>1, RegisterNames DEF Registers, w
<1>14. WasOK(cur)'
  <2>1. \A r \in Register : r \notin ToSet(Segments) \cup {"eax"} => w[r] = Own(cur)[r]
    BY <1>2, <1>13
  <2> QED
    BY <1>1, <1>3, <1>4, <1>13, <2>1 DEF WasOK
<1>15. FrameOn(cur, f, 0, [w EXCEPT !["eax"] = Own(cur)["eax"]])
  <2> DEFINE x == [w EXCEPT !["eax"] = Own(cur)["eax"]]
  <2>1. \A r \in Register : x[r] = regs[r]
    BY <1>12, <1>13, RegisterNames DEF Registers
  <2> HIDE DEF x
  <2>2. RegisterWords(f, regs) /\ (cur \in User => Word(f, 17) = regs["esp"] /\ Word(f, 18) = regs["ss"])
    BY <1>7 DEF FrameOn
  <2>3. RegisterWords(f, x) /\ (cur \in User => Word(f, 17) = x["esp"] /\ Word(f, 18) = x["ss"])
    BY <2>1, <2>2, RegisterNames DEF RegisterWords
  <2> QED
    BY <1>7, <2>3 DEF FrameOn, x
<1>16. Called(cur, stack[cur])'
  <2>1. Word(g, 0) = <<cur, "ebx">> /\ Word(g, 1) = <<cur, "ecx">> /\ Word(g, 2) = <<cur, "edx">>
    BY <1>8, <1>12
  <2>2. Base(cur)' = 0
    BY <1>1 DEF Base
  <2>3. FrameOn(cur, Drop(g, 3), 0, [w EXCEPT !["eax"] = Own(cur)["eax"]])
    BY <1>10, <1>15
  <2> QED
    BY <1>1, <1>3, <1>4, <1>8, <1>11, <2>1, <2>2, <2>3 DEF Called, FrameOn
<1>17. Marks(Frame(cur), kind[cur])'
  BY <1>1, <1>4, <1>7, <1>10 DEF Frame, Marks
<1>18. At(cur)'
  BY <1>1, <1>3, <1>4, <1>16, <1>17 DEF At
<1>19. Stack(stack'[cur])
  BY <1>4, <1>8
<1>20. \A t \in Thread : t # cur => (Stack(stack[t]) /\ WasOK(t) /\ At(t))'
  BY <1>1, <1>4, OthersStay
<1> QED
  BY <1>1, <1>5, <1>6, <1>14, <1>18, <1>19, <1>20 DEF EntryInv

-----------------------------------------------------------------------------
(* What a C function pushes, and that its registers are its own.           *)
LEMMA PrologueWords ==
  ASSUME NEW s, Stack(s)
  PROVE  LET p == Prologue(s) IN
         /\ Stack(p) /\ Len(p) = Len(s) + 5 /\ Drop(p, 5) = s
         /\ Word(p, 0) = regs["ebx"] /\ Word(p, 1) = regs["esi"]
         /\ Word(p, 2) = regs["edi"] /\ Word(p, 3) = regs["ebp"]
<1> DEFINE names == <<"ebp", "edi", "esi", "ebx">>
           a == s \o <<<<"return">>>>
           p == PushAll(a, regs, names)
<1>1. Prologue(s) = p
  <2>1. PICK S : s \in Seq(S)
    BY DEF Stack
  <2>2. s \in Seq(S \cup {<<"return">>}) /\ <<"return">> \in S \cup {<<"return">>}
    BY <2>1, SeqMonotonic
  <2>3. Append(s, <<"return">>) = a
    BY <2>2, AppendIsConcat
  <2> QED
    BY <2>3 DEF Prologue
<1>2. /\ Len(names) = 4 /\ names[1] = "ebp" /\ names[2] = "edi" /\ names[3] = "esi"
      /\ names[4] = "ebx"
  OBVIOUS
<1>3. /\ Stack(a) /\ Len(a) = Len(s) + 1
      /\ \A i \in Nat : i >= 1 => Word(a, i) = Word(s, i - 1)
  BY PushedWord
<1> HIDE DEF names, a
<1>4. PushedOn(p, a, regs, names, 4)
  BY <1>2, <1>3, Pushed
<1> HIDE DEF p
<1>5. /\ Stack(p) /\ Len(p) = Len(a) + 4
      /\ \A i \in 0 .. 4 - 1 : Word(p, i) = regs[names[4 - i]]
      /\ \A i \in Nat : i >= 4 => Word(p, i) = Word(a, i - 4)
  BY <1>4 DEF PushedOn
<1>6. /\ Word(p, 0) = regs[names[4]] /\ Word(p, 1) = regs[names[3]]
      /\ Word(p, 2) = regs[names[2]] /\ Word(p, 3) = regs[names[1]]
  <2>1. /\ 0 \in 0 .. 4 - 1 /\ 1 \in 0 .. 4 - 1 /\ 2 \in 0 .. 4 - 1 /\ 3 \in 0 .. 4 - 1
        /\ 4 - 0 = 4 /\ 4 - 1 = 3 /\ 4 - 2 = 2 /\ 4 - 3 = 1
    OBVIOUS
  <2> QED
    BY <1>5, <2>1
<1>7. Len(s) \in Nat /\ Len(p) = Len(s) + 5
  BY <1>3, <1>5, Lengths
<1>8. ASSUME NEW i \in Nat, i >= 5 PROVE Word(p, i) = Word(s, i - 5)
  <2>1. i >= 4 /\ i - 4 \in Nat /\ i - 4 >= 1 /\ (i - 4) - 1 = i - 5
    BY <1>8
  <2>2. Word(p, i) = Word(a, i - 4)
    BY <1>5, <2>1
  <2>3. Word(a, i - 4) = Word(s, (i - 4) - 1)
    BY <1>3, <2>1
  <2> QED
    BY <2>1, <2>2, <2>3
<1>9. Drop(p, 5) = s
  BY <1>5, <1>7, <1>8, PushedUndone
<1> QED
  BY <1>1, <1>2, <1>5, <1>6, <1>7, <1>9

LEMMA BusyRegisters ==
  ASSUME EntryInv, NEW ph \in {"handler", "loop"}, Busy(ph), at'[cur] = ph, cur' = cur,
         regs["esp"] = <<"kernel", "esp">>, regs["ss"] = <<"kernel", "ss">>
  PROVE  RegsOK'
<1> DEFINE r == [x \in Register |-> IF x \in Callee THEN Temp(cur)[x] ELSE regs[x]]
<1>1. regs' = r
  BY DEF Busy
<1>2. /\ Registers(r) /\ r["esp"] = regs["esp"] /\ r["ss"] = regs["ss"]
      /\ \A x \in Callee : r[x] = Temp(cur)[x]
  <2>1. Callee \subseteq Register /\ "esp" \notin Callee /\ "ss" \notin Callee
    BY RegisterNames DEF Callee
  <2> QED
    BY <2>1, RegisterNames DEF Registers
<1> HIDE DEF r
<1> QED
  BY <1>1, <1>2 DEF RegsOK

\* At the call of a handler the stack is not deep.
LEMMA CalledLength ==
  ASSUME EntryInv, cur \in Thread, NEW s, Called(cur, s), kind[cur] # Yield
  PROVE  Len(s) <= 22
<1>1. height[cur] \in 0 .. 3 /\ Base(cur) \in 0 .. 3 /\ (cur \in User => Base(cur) = 0)
  BY DEF EntryInv, Domains, Base
<1>2. CASE kind[cur] \in {Syscall, StackFault}
  <2>1. kind[cur] = Syscall => Len(s) = 22
    BY DEF Called
  <2>2. kind[cur] = StackFault => Len(s) <= 22
    BY DEF Called
  <2>3. \A x : x = 22 => x <= 22
    OBVIOUS
  <2> QED
    BY <1>2, <2>1, <2>2, <2>3
<1>3. CASE kind[cur] \notin {Syscall, StackFault}
  <2>1. Len(s) = Base(cur) + Size(cur)
    BY <1>3 DEF Called, FrameOn
  <2>2. Size(cur) = 17 \/ (Size(cur) = 19 /\ Base(cur) = 0)
    BY <1>1 DEF Size
  <2>3. \A x, y, z : y \in 0 .. 3 /\ (z = 17 \/ (z = 19 /\ y = 0)) /\ x = y + z => x <= 22
    OBVIOUS
  <2> QED
    BY <1>1, <2>1, <2>2, <2>3
<1> QED
  BY <1>2, <1>3

LEMMA CallStep ==
  ASSUME EntryInv, Call
  PROVE  EntryInv'
<1> DEFINE ph == IF kind[cur] < Timer THEN "loop" ELSE "handler"
           p == Prologue(Here)
<1>1. /\ at[cur] = "call" /\ Busy(ph)
      /\ stack' = [stack EXCEPT ![cur] = p] /\ at' = [at EXCEPT ![cur] = ph]
      /\ cur' = cur /\ kstack' = kstack /\ was' = was /\ service' = service
      /\ kind' = kind /\ height' = height
  BY DEF Call, Busy, Running, Put, Becomes
<1>2. /\ cur \in Thread /\ Stack(Here) /\ At(cur) /\ WasOK(cur)
      /\ kind[cur] # Yield /\ Called(cur, Here) /\ kind[cur] \in Nat
      /\ DOMAIN stack = Thread /\ at \in [Thread -> Phase]
      /\ regs["esp"] = <<"kernel", "esp">> /\ regs["ss"] = <<"kernel", "ss">>
  <2>1. /\ cur \in Thread /\ Stack(Here) /\ At(cur) /\ WasOK(cur)
        /\ DOMAIN stack = Thread /\ at \in [Thread -> Phase] /\ kind \in [Thread -> 0 .. Yield]
        /\ regs["esp"] = <<"kernel", "esp">> /\ regs["ss"] = <<"kernel", "ss">>
    BY <1>1 DEF EntryInv, Domains, RegsOK, Here
  <2>2. kind[cur] # Yield /\ Called(cur, Here)
    BY <1>1, <2>1 DEF At, Here
  <2>3. kind[cur] \in Nat
    BY <2>1 DEF Yield
  <2> QED
    BY <2>1, <2>2, <2>3
<1>3. ph \in {"handler", "loop"} /\ ph \in Phase
  BY DEF Phase
<1>4. /\ Stack(p) /\ Len(p) = Len(Here) + 5 /\ Drop(p, 5) = Here
  BY <1>2, PrologueWords
<1>5. Len(Here) \in Nat /\ Len(Here) <= 22
  BY <1>2, CalledLength, Lengths
<1>6. Len(p) >= 5 /\ Len(p) <= 27
  <2> HIDE DEF p
  <2> QED
    BY <1>4, <1>5
<1>7. (ph = "handler" <=> kind[cur] >= Timer) /\ (ph = "loop" <=> kind[cur] < Timer)
  BY <1>2 DEF Timer
<1> HIDE DEF ph, p
<1>8. /\ stack'[cur] = p /\ at'[cur] = ph
      /\ \A t \in Thread : t # cur =>
           /\ stack'[t] = stack[t] /\ kstack'[t] = kstack[t] /\ at'[t] = at[t]
           /\ kind'[t] = kind[t] /\ was'[t] = was[t] /\ height'[t] = height[t]
  BY <1>1, <1>2
<1>9. Domains'
  BY <1>1, <1>2, <1>3 DEF EntryInv, Domains
<1>10. RegsOK'
  BY <1>1, <1>2, <1>3, <1>8, BusyRegisters
<1>11. WasOK(cur)'
  BY <1>1, <1>2 DEF WasOK
<1>12. ph = "handler" => InHandler(cur, stack[cur])'
  <2>1. ph = "handler" => InHandler(cur, p)
    BY <1>2, <1>4, <1>6, <1>7 DEF InHandler
  <2> QED
    BY <1>1, <1>8, <2>1 DEF InHandler, Called, Base
<1>13. At(cur)'
  <2>1. CASE ph = "handler"
    BY <1>1, <1>8, <1>12, <2>1 DEF At
  <2>2. CASE ph = "loop"
    BY <1>1, <1>6, <1>8, <2>2 DEF At
  <2> QED
    BY <1>3, <2>1, <2>2
<1>14. Stack(stack'[cur])
  BY <1>4, <1>8
<1>15. \A t \in Thread : t # cur => (Stack(stack[t]) /\ WasOK(t) /\ At(t))'
  BY <1>1, <1>8, OthersStay
<1> QED
  BY <1>1, <1>9, <1>10, <1>11, <1>13, <1>14, <1>15 DEF EntryInv

LEMMA YieldCallStep ==
  ASSUME EntryInv, YieldCall
  PROVE  EntryInv'
<1> DEFINE p == Prologue(Here)
<1>1. /\ at[cur] = "own" /\ cur \notin User /\ Busy("handler")
      /\ stack' = [stack EXCEPT ![cur] = p] /\ at' = [at EXCEPT ![cur] = "handler"]
      /\ cur' = cur /\ kstack' = kstack /\ was' = was /\ service' = service
      /\ kind' = [kind EXCEPT ![cur] = Yield] /\ height' = [height EXCEPT ![cur] = Len(Here)]
  BY DEF YieldCall, Busy, Running, Put, Becomes
<1>2. /\ cur \in Thread /\ Stack(Here) /\ At(cur) /\ WasOK(cur) /\ Len(Here) <= 3
      /\ DOMAIN stack = Thread
      /\ regs["esp"] = <<"kernel", "esp">> /\ regs["ss"] = <<"kernel", "ss">>
      /\ \A r \in Register : r \notin ToSet(Segments) => regs[r] = Own(cur)[r]
  BY <1>1 DEF EntryInv, Domains, RegsOK, At, Here
<1>3. /\ Stack(p) /\ Len(p) = Len(Here) + 5 /\ Drop(p, 5) = Here
      /\ Word(p, 0) = regs["ebx"] /\ Word(p, 1) = regs["esi"]
      /\ Word(p, 2) = regs["edi"] /\ Word(p, 3) = regs["ebp"]
  BY <1>2, PrologueWords
<1>4. /\ regs["ebx"] = Own(cur)["ebx"] /\ regs["esi"] = Own(cur)["esi"]
      /\ regs["edi"] = Own(cur)["edi"] /\ regs["ebp"] = Own(cur)["ebp"]
  <2>1. \A r \in {"ebx", "esi", "edi", "ebp"} : r \in Register /\ r \notin ToSet(Segments)
    BY RegisterNames
  <2> QED
    BY <1>2, <2>1
<1>5. Len(Here) \in Nat /\ Len(Here) <= 3
  BY <1>2, Lengths
<1>6. Len(Here) \in 0 .. 3
  <2>1. \A x : x \in Nat /\ x <= 3 => x \in 0 .. 3
    OBVIOUS
  <2> QED
    BY <1>5, <2>1
<1> HIDE DEF p
<1>7. Len(p) >= 5
  BY <1>3, <1>5
<1>8. /\ stack'[cur] = p /\ at'[cur] = "handler" /\ kind'[cur] = Yield
      /\ height'[cur] = Len(Here)
      /\ \A t \in Thread : t # cur =>
           /\ stack'[t] = stack[t] /\ kstack'[t] = kstack[t] /\ at'[t] = at[t]
           /\ kind'[t] = kind[t] /\ was'[t] = was[t] /\ height'[t] = height[t]
  BY <1>1, <1>2 DEF EntryInv, Domains
<1>9. Domains'
  <2>1. Yield \in 0 .. Yield /\ "handler" \in Phase
    BY DEF Yield, Phase
  <2> QED
    BY <1>1, <1>6, <2>1 DEF EntryInv, Domains
<1>10. RegsOK'
  BY <1>1, <1>2, <1>8, BusyRegisters
<1>11. WasOK(cur)'
  BY <1>1, <1>2, <1>8 DEF WasOK
<1>12. InHandler(cur, stack[cur])'
  BY <1>1, <1>3, <1>4, <1>7, <1>8 DEF InHandler
<1>13. At(cur)'
  BY <1>1, <1>8, <1>12 DEF At
<1>14. Stack(stack'[cur])
  BY <1>3, <1>8
<1>15. \A t \in Thread : t # cur => (Stack(stack[t]) /\ WasOK(t) /\ At(t))'
  BY <1>1, <1>8, OthersStay
<1> QED
  BY <1>1, <1>9, <1>10, <1>11, <1>13, <1>14, <1>15 DEF EntryInv

-----------------------------------------------------------------------------
\* What switch_to and its call push.
LEMMA SwitchWords ==
  ASSUME NEW s, Stack(s), NEW t
  PROVE  LET p == PushAll(s \o <<<<t, "pcb">>, <<cur, "pcb">>, <<"return">>>>,
                          regs, <<"esi", "edi", "ebx", "ebp">>) IN
         /\ Stack(p) /\ Len(p) = Len(s) + 7 /\ Drop(p, 7) = s
         /\ Word(p, 0) = regs["ebp"] /\ Word(p, 1) = regs["ebx"]
         /\ Word(p, 2) = regs["edi"] /\ Word(p, 3) = regs["esi"]
         /\ Word(p, 5) = <<cur, "pcb">> /\ Word(p, 6) = <<t, "pcb">>
<1> DEFINE names == <<"esi", "edi", "ebx", "ebp">>
           q == <<<<t, "pcb">>, <<cur, "pcb">>, <<"return">>>>
           a == s \o q
           p == PushAll(a, regs, names)
<1>1. /\ Len(names) = 4 /\ names[1] = "esi" /\ names[2] = "edi" /\ names[3] = "ebx"
      /\ names[4] = "ebp"
  OBVIOUS
<1>2. Stack(q) /\ Len(q) = 3 /\ q[1] = <<t, "pcb">> /\ q[2] = <<cur, "pcb">>
  <2>1. q \in Seq({<<t, "pcb">>, <<cur, "pcb">>, <<"return">>})
    OBVIOUS
  <2> QED
    BY <2>1 DEF Stack
<1> HIDE DEF names, q
<1>3. /\ Stack(a) /\ Len(a) = Len(s) + 3
      /\ Word(a, 1) = q[2] /\ Word(a, 2) = q[1]
      /\ \A i \in Nat : i >= 3 => Word(a, i) = Word(s, i - 3)
  <2>1. /\ Stack(a) /\ Len(a) = Len(s) + Len(q)
        /\ \A i \in 0 .. Len(q) - 1 : Word(a, i) = q[Len(q) - i]
        /\ \A i \in Nat : i >= Len(q) => Word(a, i) = Word(s, i - Len(q))
    BY <1>2, Joined
  <2>2. 1 \in 0 .. 3 - 1 /\ 2 \in 0 .. 3 - 1 /\ 3 - 1 = 2 /\ 3 - 2 = 1
    OBVIOUS
  <2>3. Word(a, 1) = q[3 - 1] /\ Word(a, 2) = q[3 - 2]
    BY <1>2, <2>1, <2>2
  <2> HIDE DEF a
  <2> QED
    BY <1>2, <2>1, <2>2, <2>3
<1> HIDE DEF a
<1>4. PushedOn(p, a, regs, names, 4)
  BY <1>1, <1>3, Pushed
<1> HIDE DEF p
<1>5. /\ Stack(p) /\ Len(p) = Len(a) + 4
      /\ \A i \in 0 .. 4 - 1 : Word(p, i) = regs[names[4 - i]]
      /\ \A i \in Nat : i >= 4 => Word(p, i) = Word(a, i - 4)
  BY <1>4 DEF PushedOn
<1>6. /\ Word(p, 0) = regs[names[4]] /\ Word(p, 1) = regs[names[3]]
      /\ Word(p, 2) = regs[names[2]] /\ Word(p, 3) = regs[names[1]]
  <2>1. /\ 0 \in 0 .. 4 - 1 /\ 1 \in 0 .. 4 - 1 /\ 2 \in 0 .. 4 - 1 /\ 3 \in 0 .. 4 - 1
        /\ 4 - 0 = 4 /\ 4 - 1 = 3 /\ 4 - 2 = 2 /\ 4 - 3 = 1
    OBVIOUS
  <2> QED
    BY <1>5, <2>1
<1>7. Word(p, 5) = Word(a, 1) /\ Word(p, 6) = Word(a, 2)
  <2>1. 5 \in Nat /\ 6 \in Nat /\ 5 >= 4 /\ 6 >= 4 /\ 5 - 4 = 1 /\ 6 - 4 = 2
    OBVIOUS
  <2> QED
    BY <1>5, <2>1
<1>8. Len(s) \in Nat /\ Len(p) = Len(s) + 7
  BY <1>3, <1>5, Lengths
<1>9. ASSUME NEW i \in Nat, i >= 7 PROVE Word(p, i) = Word(s, i - 7)
  <2>1. i >= 4 /\ i - 4 \in Nat /\ i - 4 >= 3 /\ (i - 4) - 3 = i - 7
    BY <1>9
  <2>2. Word(p, i) = Word(a, i - 4)
    BY <1>5, <2>1
  <2>3. Word(a, i - 4) = Word(s, (i - 4) - 3)
    BY <1>3, <2>1
  <2> QED
    BY <2>1, <2>2, <2>3
<1>10. Drop(p, 7) = s
  BY <1>5, <1>8, <1>9, PushedUndone
<1> QED
  BY <1>1, <1>2, <1>3, <1>5, <1>6, <1>7, <1>8, <1>10 DEF p, a, names, q

LEMMA HandlerLength ==
  ASSUME EntryInv, InHandler(cur, Here), cur \in Thread
  PROVE  Len(Here) \in Nat /\ Len(Here) <= 27 /\ Len(Here) >= 5
<1>1. Stack(Here) /\ Len(Here) \in Nat /\ Len(Here) >= 5
  BY Lengths DEF InHandler
<1>2. CASE kind[cur] = Yield
  <2>1. height[cur] \in 0 .. 3
    BY DEF EntryInv, Domains
  <2>2. Len(Here) = height[cur] + 5
    BY <1>2 DEF InHandler
  <2> QED
    BY <1>1, <2>1, <2>2
<1>3. CASE kind[cur] # Yield
  <2>1. Called(cur, Drop(Here, 5))
    BY <1>3 DEF InHandler
  <2>2. 5 \in 0 .. Len(Here)
    BY <1>1
  <2>3. Len(Drop(Here, 5)) = Len(Here) - 5
    BY <1>1, <2>2, Dropped
  <2>4. Len(Drop(Here, 5)) <= 22
    BY <1>3, <2>1, CalledLength
  <2> QED
    BY <1>1, <2>3, <2>4
<1> QED
  BY <1>2, <1>3

(* The thread that switches stays in switch_to; the other one goes on from *)
(* there, or starts.                                                       *)
LEMMA SwitchStep ==
  ASSUME EntryInv, NEW t \in Thread, Switch(t)
  PROVE  EntryInv'
<1> DEFINE p == PushAll(Here \o <<<<t, "pcb">>, <<cur, "pcb">>, <<"return">>>>,
                        regs, <<"esi", "edi", "ebx", "ebp">>)
           q == stack[t]
           one == IF at[t] = "new" THEN Drop(q, 5) ELSE Drop(q, 7)
           r == [regs EXCEPT !["ebp"] = Word(q, 0), !["ebx"] = Word(q, 1),
                             !["edi"] = Word(q, 2), !["esi"] = Word(q, 3)]
           ph == IF at[t] = "new" THEN "start" ELSE at[t]
<1>1. /\ cur \in Thread /\ t # cur /\ at[cur] = "handler" /\ at[t] \in {"new", "handler"}
      /\ Stack(Here) /\ InHandler(cur, Here)
      /\ Stack(q) /\ At(t) /\ WasOK(t) /\ kstack[t] = Len(q)
      /\ DOMAIN stack = Thread /\ DOMAIN was = Thread
      /\ kstack \in [Thread -> 0 .. Deepest] /\ at \in [Thread -> Phase]
  BY DEF Switch, Running, EntryInv, Domains, At, Here
<1>2. /\ Stack(p) /\ Len(p) = Len(Here) + 7 /\ Drop(p, 7) = Here
      /\ Word(p, 0) = regs["ebp"] /\ Word(p, 1) = regs["ebx"]
      /\ Word(p, 2) = regs["edi"] /\ Word(p, 3) = regs["esi"]
      /\ Word(p, 5) = <<cur, "pcb">> /\ Word(p, 6) = <<t, "pcb">>
  BY <1>1, SwitchWords
<1>3. /\ kstack' = [kstack EXCEPT ![cur] = Len(p)]
      /\ stack' = [stack EXCEPT ![cur] = p, ![t] = one]
      /\ regs' = r /\ cur' = t
      /\ at' = [at EXCEPT ![t] = ph]
      /\ kind' = kind /\ was' = was /\ height' = height /\ service' = service
  <2>1. Word(p, 5)[1] = cur /\ Word(p, 6)[1] = t
    BY <1>2
  <2> DEFINE next == SubSeq(stack[Word(p, 6)[1]], 1, kstack'[Word(p, 6)[1]])
  <2>2. /\ kstack' = [kstack EXCEPT ![Word(p, 5)[1]] = Len(p)]
        /\ stack' = [stack EXCEPT ![cur] = p,
                                  ![Word(p, 6)[1]] = IF at[t] = "new" THEN Drop(next, 5)
                                                                      ELSE Drop(next, 7)]
        /\ regs' = [regs EXCEPT !["ebp"] = Word(next, 0), !["ebx"] = Word(next, 1),
                                !["edi"] = Word(next, 2), !["esi"] = Word(next, 3)]
        /\ cur' = t
        /\ at' = [at EXCEPT ![t] = IF @ = "new" THEN "start" ELSE @]
        /\ kind' = kind /\ was' = was /\ height' = height /\ service' = service
    BY DEF Switch
  <2>3. kstack'[t] = Len(q)
    <3> HIDE DEF p
    <3> QED
      BY <1>1, <2>1, <2>2
  <2>4. next = q
    BY <1>1, <2>1, <2>3, Whole
  <2> HIDE DEF next, p
  <2> QED
    BY <2>1, <2>2, <2>4
<1> HIDE DEF p
<1>4. Len(Here) \in Nat /\ Len(Here) <= 27 /\ Len(Here) >= 5
  BY <1>1, HandlerLength
<1>5. Len(p) \in 12 .. 34 /\ Len(p) >= 12
  <2>1. \A x, y : y \in Nat /\ y <= 27 /\ y >= 5 /\ x = y + 7 => x \in 12 .. 34 /\ x >= 12
    OBVIOUS
  <2> QED
    BY <1>2, <1>4, <2>1
<1>6. /\ stack'[cur] = p /\ stack'[t] = one /\ at'[cur] = "handler" /\ at'[t] = ph
      /\ kstack'[cur] = Len(p)
      /\ \A u \in Thread : u # cur => kstack'[u] = kstack[u]
      /\ \A u \in Thread : u # cur /\ u # t => stack'[u] = stack[u] /\ at'[u] = at[u]
  <2> HIDE DEF one, ph
  <2> QED
    BY <1>1, <1>3
<1>7. /\ Stack(one) /\ At(t)'
      /\ ph = "handler" => \A x \in Callee : r[x] = Temp(t)[x]
  <2>1. CASE at[t] = "new"
    <3>1. /\ ph = "start" /\ one = Drop(q, 5) /\ Len(q) = 8 /\ kind[t] = Yield
          /\ Word(q, 6) = <<t, "function">> /\ Word(q, 7) = <<t, "func_arg">>
      BY <1>1, <2>1 DEF At
    <3>2. 5 \in 0 .. Len(q) /\ Len(q) - 5 = 3
      BY <3>1
    <3> HIDE DEF q, one, ph
    <3>3. /\ Stack(one) /\ Len(one) = 3
          /\ \A i \in Nat : Word(one, i) = Word(q, i + 5)
      BY <1>1, <3>1, <3>2, Dropped
    <3>4. Word(one, 1) = Word(q, 6) /\ Word(one, 2) = Word(q, 7)
      <4>1. 1 \in Nat /\ 2 \in Nat /\ 1 + 5 = 6 /\ 2 + 5 = 7
        OBVIOUS
      <4> QED
        BY <3>3, <4>1
    <3>5. At(t)'
      BY <1>1, <1>3, <1>6, <3>1, <3>3, <3>4 DEF At
    <3> QED
      BY <3>1, <3>3, <3>5
  <2>2. CASE at[t] = "handler"
    <3>1. SwitchedOut(t, q) /\ ph = "handler" /\ one = Drop(q, 7)
      BY <1>1, <2>2 DEF At
    <3>2. /\ Len(q) >= 12 /\ Len(q) \in Nat /\ InHandler(t, one)
          /\ Word(q, 0) = Temp(t)["ebp"] /\ Word(q, 1) = Temp(t)["ebx"]
          /\ Word(q, 2) = Temp(t)["edi"] /\ Word(q, 3) = Temp(t)["esi"]
      BY <1>1, <3>1, Lengths DEF SwitchedOut
    <3>3. Stack(one)
      BY <3>2 DEF InHandler
    <3>4. InHandler(t, stack[t])'
      <4> HIDE DEF one, ph, q, r
      <4> QED
        BY <1>3, <1>6, <3>2 DEF InHandler, Called, Base
    <3>5. At(t)'
      <4> HIDE DEF one, ph, q, r
      <4> QED
        BY <1>1, <1>3, <1>6, <3>1, <3>4 DEF At
    <3>6. \A x \in Callee : r[x] = Temp(t)[x]
      <4> HIDE DEF q
      <4>1. /\ r["ebp"] = Word(q, 0) /\ r["ebx"] = Word(q, 1)
            /\ r["edi"] = Word(q, 2) /\ r["esi"] = Word(q, 3)
        BY RegisterNames DEF EntryInv, RegsOK, Registers
      <4> HIDE DEF r
      <4> QED
        BY <4>1, <3>2 DEF Callee
    <3> QED
      BY <3>3, <3>5, <3>6
  <2> QED
    BY <1>1, <2>1, <2>2
<1>8. ph \in {"start", "handler"}
  BY <1>1
<1> HIDE DEF one, ph, q
<1>9. Registers(r) /\ r["esp"] = <<"kernel", "esp">> /\ r["ss"] = <<"kernel", "ss">>
  BY <1>1, RegisterNames DEF EntryInv, RegsOK, Registers
<1> HIDE DEF r
<1>10. RegsOK'
  BY <1>3, <1>6, <1>7, <1>8, <1>9 DEF RegsOK
<1>11. SwitchedOut(cur, p)
  <2>1. Callee = {"ebx", "esi", "edi", "ebp"} /\ \A x \in Callee : regs[x] = Temp(cur)[x]
    BY <1>1 DEF EntryInv, RegsOK, Callee
  <2>2. /\ Word(p, 0) = Temp(cur)["ebp"] /\ Word(p, 1) = Temp(cur)["ebx"]
        /\ Word(p, 2) = Temp(cur)["edi"] /\ Word(p, 3) = Temp(cur)["esi"]
    BY <1>2, <2>1
  <2> QED
    BY <1>1, <1>2, <1>5, <2>2 DEF SwitchedOut
<1>12. ASSUME NEW u \in Thread PROVE Stack(stack'[u]) /\ WasOK(u)' /\ At(u)'
  <2>1. Stack(stack[u]) /\ WasOK(u) /\ At(u)
    BY DEF EntryInv
  <2>2. WasOK(u)'
    BY <1>3, <2>1 DEF WasOK
  <2>3. CASE u = t
    BY <1>6, <1>7, <2>2, <2>3
  <2>4. CASE u = cur
    <3>1. SwitchedOut(u, stack[u])'
      BY <1>3, <1>6, <1>11, <2>4 DEF SwitchedOut, InHandler, Called, Base
    <3>2. At(u)'
      BY <1>1, <1>3, <1>6, <2>4, <3>1 DEF At
    <3> QED
      BY <1>2, <1>6, <2>2, <2>4, <3>2
  <2>5. CASE u # t /\ u # cur
    <3>1. at[u] \in {"new", "handler"}
      BY <2>1, <2>5 DEF At
    <3>2. SwitchedOut(u, stack[u]) => SwitchedOut(u, stack[u])'
      BY <1>3, <1>6, <2>5 DEF SwitchedOut, InHandler, Called, Base
    <3>3. At(u)'
      BY <1>3, <1>6, <2>1, <2>5, <3>1, <3>2 DEF At
    <3> QED
      BY <1>6, <2>1, <2>2, <2>5, <3>3
  <2> QED
    BY <2>3, <2>4, <2>5
<1>13. Domains'
  <2>1. Len(p) \in 0 .. Deepest
    <3>1. Deepest = 34
      BY DEF Deepest, intr_stack
    <3>2. \A x : x \in 12 .. 34 => x \in 0 .. 34
      OBVIOUS
    <3> QED
      BY <1>5, <3>1, <3>2
  <2>2. kstack' \in [Thread -> 0 .. Deepest]
    BY <1>1, <1>3, <2>1
  <2>3. at' \in [Thread -> Phase]
    BY <1>1, <1>3, <1>8 DEF Phase
  <2> QED
    BY <1>1, <1>3, <2>2, <2>3 DEF EntryInv, Domains
<1> QED
  BY <1>10, <1>12, <1>13 DEF EntryInv

-----------------------------------------------------------------------------
(* The answer of a system call is written where eax will be popped from,   *)
(* and nowhere else.                                                       *)
LEMMA Answered ==
  ASSUME NEW s, Stack(s), Len(s) = 22, NEW t, cur = t,
         Word(s, 0) = <<t, "ebx">>, Word(s, 1) = <<t, "ecx">>, Word(s, 2) = <<t, "edx">>
  PROVE  LET a == Answering(s, 8) IN
         /\ Stack(a) /\ Len(a) = 19
         /\ Word(a, 8) = Answer(Own(t))
         /\ \A i \in 0 .. 18 : i # 8 => Word(a, i) = Word(Drop(s, 3), i)
<1> DEFINE args == [eax |-> <<cur, "eax">>, ebx |-> Word(s, 0), ecx |-> Word(s, 1),
                    edx |-> Word(s, 2)]
           rest == Drop(s, 3)
           a == [rest EXCEPT ![Len(rest) - 8] = Answer(args)]
<1>1. Answering(s, 8) = a
  BY DEF Answering
<1>2. Answer(args) = Answer(Own(t))
  <2>1. /\ Own(t)["eax"] = <<t, "eax">> /\ Own(t)["ebx"] = <<t, "ebx">>
        /\ Own(t)["ecx"] = <<t, "ecx">> /\ Own(t)["edx"] = <<t, "edx">>
    <3>1. \A r \in {"eax", "ebx", "ecx", "edx"} : r \in Register \ {"esp", "ss"}
      BY RegisterNames
    <3> QED
      BY <3>1, OwnRegisters
  <2>2. /\ args["eax"] = <<t, "eax">> /\ args["ebx"] = <<t, "ebx">>
        /\ args["ecx"] = <<t, "ecx">> /\ args["edx"] = <<t, "edx">>
    OBVIOUS
  <2> HIDE DEF args
  <2> QED
    BY <2>1, <2>2 DEF Answer
<1> HIDE DEF args
<1>3. Stack(rest) /\ Len(rest) = 19
  <2>1. 3 \in 0 .. Len(s) /\ Len(s) - 3 = 19
    OBVIOUS
  <2> QED
    BY <2>1, Dropped
<1> HIDE DEF rest
<1>4. a = [rest EXCEPT ![11] = Answer(args)]
  BY <1>3
<1>5. PICK S : rest \in Seq(S)
  BY <1>3 DEF Stack
<1>6. /\ a \in Seq(S \cup {Answer(args)}) /\ Len(a) = 19
      /\ a[11] = Answer(args) /\ \A i \in 1 .. 19 : i # 11 => a[i] = rest[i]
  <2>1. rest \in [1 .. 19 -> S] /\ 11 \in 1 .. 19
    <3>1. rest \in [1 .. Len(rest) -> S]
      BY <1>5, LenProperties
    <3>2. 11 \in 1 .. 19
      OBVIOUS
    <3> QED
      BY <1>3, <3>1, <3>2
  <2>a. \A x : LET b == [rest EXCEPT ![11] = x] IN
               /\ b \in [1 .. 19 -> S \cup {x}]
               /\ b[11] = x /\ \A i \in 1 .. 19 : i # 11 => b[i] = rest[i]
    BY <2>1
  <2>2. /\ a \in [1 .. 19 -> S \cup {Answer(args)}]
        /\ a[11] = Answer(args) /\ \A i \in 1 .. 19 : i # 11 => a[i] = rest[i]
    BY <1>4, <2>a
  <2> HIDE DEF a
  <2>3. 19 \in Nat
    OBVIOUS
  <2>4. a \in Seq(S \cup {Answer(args)}) /\ Len(a) = 19
    BY <2>2, <2>3, Built
  <2> QED
    BY <2>2, <2>4
<1> HIDE DEF a
<1>7. Stack(a)
  BY <1>6 DEF Stack
<1>8. Word(a, 8) = Answer(args)
  BY <1>6 DEF Word
<1>9. ASSUME NEW i \in 0 .. 18, i # 8 PROVE Word(a, i) = Word(rest, i)
  <2>1. 19 - i \in 1 .. 19 /\ 19 - i # 11 /\ i < 19
    BY <1>9
  <2> QED
    BY <1>3, <1>6, <2>1 DEF Word
<1> QED
  BY <1>1, <1>2, <1>6, <1>7, <1>8, <1>9 DEF a, rest

\* What a C function leaves in the registers.
LEMMA EpilogueRegisters ==
  ASSUME NEW result
  PROVE  LET r == Epilogue(result) IN
         /\ Registers(r) /\ r["esp"] = regs["esp"] /\ r["ss"] = regs["ss"]
         /\ r["ebx"] = Word(Here, 0) /\ r["esi"] = Word(Here, 1)
         /\ r["edi"] = Word(Here, 2) /\ r["ebp"] = Word(Here, 3)
BY RegisterNames DEF Epilogue, Registers

LEMMA HandlerReturnStep ==
  ASSUME EntryInv, HandlerReturn
  PROVE  EntryInv'
<1> DEFINE s == Drop(Here, 5)
           one == IF kind[cur] = Syscall THEN Answering(s, 8) ELSE s
           r == Epilogue(<<"scratch">>)
<1>1. /\ at[cur] = "handler" /\ kind[cur] # Yield
      /\ stack' = [stack EXCEPT ![cur] = one] /\ at' = [at EXCEPT ![cur] = "exit"]
      /\ regs' = r
      /\ cur' = cur /\ kstack' = kstack /\ was' = was /\ service' = service
      /\ kind' = kind /\ height' = height
  BY DEF HandlerReturn, HandlerReturns, Running, Put, Becomes
<1>2. /\ cur \in Thread /\ Stack(Here) /\ WasOK(cur) /\ InHandler(cur, Here)
      /\ DOMAIN stack = Thread /\ at \in [Thread -> Phase] /\ kind \in [Thread -> 0 .. Yield]
      /\ regs["esp"] = <<"kernel", "esp">> /\ regs["ss"] = <<"kernel", "ss">>
  BY <1>1 DEF EntryInv, Domains, RegsOK, At, Here
<1>3. Called(cur, s) /\ kind[cur] >= Timer
  BY <1>1, <1>2 DEF InHandler
<1>4. kind[cur] # StackFault
  <2>1. ~(StackFault >= Timer)
    BY DEF StackFault, Timer
  <2> QED
    BY <1>3, <2>1
<1>5. /\ Registers(r) /\ r["esp"] = <<"kernel", "esp">> /\ r["ss"] = <<"kernel", "ss">>
  BY <1>2, EpilogueRegisters
<1> HIDE DEF r, s
<1>6. FrameOn(cur, one, Base(cur), was[cur])
  <2>1. CASE kind[cur] = Syscall
    <3> DEFINE w == [was[cur] EXCEPT !["eax"] = Own(cur)["eax"]]
    <3>1. /\ cur \in User /\ Stack(s) /\ Len(s) = 22
          /\ Word(s, 0) = <<cur, "ebx">> /\ Word(s, 1) = <<cur, "ecx">>
          /\ Word(s, 2) = <<cur, "edx">>
          /\ FrameOn(cur, Drop(s, 3), Base(cur), w)
      BY <1>3, <2>1 DEF Called
    <3>2. /\ Stack(one) /\ Len(one) = 19
          /\ Word(one, 8) = Answer(Own(cur))
          /\ \A i \in 0 .. 18 : i # 8 => Word(one, i) = Word(Drop(s, 3), i)
      BY <2>1, <3>1, Answered
    <3>3. was[cur]["eax"] = Answer(Own(cur)) /\ Registers(was[cur])
      BY <1>2, <2>1, <3>1 DEF WasOK
    <3>4. \A x \in Register : x # "eax" => w[x] = was[cur][x]
      BY <3>3, RegisterNames DEF Registers
    <3>5. Base(cur) = 0 /\ Size(cur) = 19
      BY <3>1 DEF Base, Size
    <3> HIDE DEF one, w
    <3>6. /\ RegisterWords(Drop(s, 3), w)
          /\ Word(Drop(s, 3), 17) = w["esp"] /\ Word(Drop(s, 3), 18) = w["ss"]
      BY <3>1 DEF FrameOn
    <3>7. \A i \in {1, 2, 3, 5, 6, 7, 9, 10, 11, 12, 14, 15, 16, 17, 18} :
            Word(one, i) = Word(Drop(s, 3), i)
      BY <3>2
    <3>8. /\ Word(one, 1) = w["edi"] /\ Word(one, 2) = w["esi"] /\ Word(one, 3) = w["ebp"]
          /\ Word(one, 5) = w["ebx"] /\ Word(one, 6) = w["edx"] /\ Word(one, 7) = w["ecx"]
          /\ Word(one, 9) = w["gs"] /\ Word(one, 10) = w["fs"]
          /\ Word(one, 11) = w["es"] /\ Word(one, 12) = w["ds"]
          /\ Word(one, 14) = w["eip"] /\ Word(one, 15) = w["cs"] /\ Word(one, 16) = w["eflags"]
          /\ Word(one, 17) = w["esp"] /\ Word(one, 18) = w["ss"]
      BY <3>6, <3>7 DEF RegisterWords
    <3>9. /\ RegisterWords(one, was[cur])
          /\ Word(one, 17) = was[cur]["esp"] /\ Word(one, 18) = was[cur]["ss"]
      BY <3>2, <3>3, <3>4, <3>8, RegisterNames DEF RegisterWords
    <3> QED
      BY <3>2, <3>5, <3>9 DEF FrameOn
  <2>2. CASE kind[cur] # Syscall
    BY <1>3, <1>4, <2>2 DEF Called
  <2> QED
    BY <2>1, <2>2
<1> HIDE DEF one
<1>7. /\ stack'[cur] = one /\ at'[cur] = "exit"
      /\ \A t \in Thread : t # cur =>
           /\ stack'[t] = stack[t] /\ kstack'[t] = kstack[t] /\ at'[t] = at[t]
           /\ kind'[t] = kind[t] /\ was'[t] = was[t] /\ height'[t] = height[t]
  BY <1>1, <1>2
<1>8. Domains'
  BY <1>1, <1>2 DEF EntryInv, Domains, Phase
<1>9. RegsOK'
  BY <1>1, <1>5, <1>7 DEF RegsOK
<1>10. WasOK(cur)'
  BY <1>1, <1>2 DEF WasOK
<1>11. FrameOn(cur, stack[cur], Base(cur), was[cur])'
  BY <1>1, <1>6, <1>7 DEF FrameOn, Base, Size, RegisterWords
<1>12. At(cur)'
  BY <1>1, <1>7, <1>11 DEF At
<1>13. Stack(stack'[cur])
  BY <1>6, <1>7 DEF FrameOn
<1>14. \A t \in Thread : t # cur => (Stack(stack[t]) /\ WasOK(t) /\ At(t))'
  BY <1>1, <1>7, OthersStay
<1> QED
  BY <1>1, <1>8, <1>9, <1>10, <1>12, <1>13, <1>14 DEF EntryInv

LEMMA YieldReturnStep ==
  ASSUME EntryInv, YieldReturn
  PROVE  EntryInv'
<1> DEFINE s == Drop(Here, 5)
           r == Epilogue(<<"scratch">>)
           w == [x \in Register |-> IF x \in Callee THEN Own(cur)[x] ELSE r[x]]
<1>1. /\ at[cur] = "handler" /\ kind[cur] = Yield
      /\ stack' = [stack EXCEPT ![cur] = s] /\ at' = [at EXCEPT ![cur] = "back"]
      /\ regs' = r /\ was' = [was EXCEPT ![cur] = w]
      /\ cur' = cur /\ kstack' = kstack /\ service' = service
      /\ kind' = kind /\ height' = height
  BY DEF YieldReturn, Running, Put, Becomes
<1>2. /\ cur \in Thread /\ Stack(Here) /\ InHandler(cur, Here)
      /\ DOMAIN stack = Thread /\ DOMAIN was = Thread
      /\ at \in [Thread -> Phase] /\ height \in [Thread -> 0 .. 3]
      /\ regs["esp"] = <<"kernel", "esp">> /\ regs["ss"] = <<"kernel", "ss">>
  BY <1>1 DEF EntryInv, Domains, RegsOK, At, Here
<1>3. /\ cur \notin User /\ Len(Here) = height[cur] + 5
      /\ Word(Here, 0) = Own(cur)["ebx"] /\ Word(Here, 1) = Own(cur)["esi"]
      /\ Word(Here, 2) = Own(cur)["edi"] /\ Word(Here, 3) = Own(cur)["ebp"]
  BY <1>1, <1>2 DEF InHandler
<1>4. Stack(s) /\ Len(s) = height[cur]
  <2>1. height[cur] \in 0 .. 3
    BY <1>2
  <2>2. 5 \in 0 .. Len(Here) /\ Len(Here) - 5 = height[cur]
    BY <1>3, <2>1
  <2> QED
    BY <1>2, <2>2, Dropped
<1>5. /\ Registers(r) /\ r["esp"] = <<"kernel", "esp">> /\ r["ss"] = <<"kernel", "ss">>
      /\ \A x \in Callee : r[x] = Own(cur)[x]
  <2>1. Callee = {"ebx", "esi", "edi", "ebp"}
    BY DEF Callee
  <2>2. /\ Registers(r) /\ r["esp"] = regs["esp"] /\ r["ss"] = regs["ss"]
        /\ r["ebx"] = Word(Here, 0) /\ r["esi"] = Word(Here, 1)
        /\ r["edi"] = Word(Here, 2) /\ r["ebp"] = Word(Here, 3)
    BY EpilogueRegisters
  <2> HIDE DEF r
  <2> QED
    BY <1>2, <1>3, <2>1, <2>2
<1> HIDE DEF r, s
<1>6. w = r
  BY <1>5 DEF Registers
<1> HIDE DEF w
<1>7. /\ stack'[cur] = s /\ at'[cur] = "back" /\ was'[cur] = r
      /\ \A t \in Thread : t # cur =>
           /\ stack'[t] = stack[t] /\ kstack'[t] = kstack[t] /\ at'[t] = at[t]
           /\ kind'[t] = kind[t] /\ was'[t] = was[t] /\ height'[t] = height[t]
  BY <1>1, <1>2, <1>6
<1>8. Domains'
  BY <1>1, <1>2 DEF EntryInv, Domains, Phase
<1>9. RegsOK'
  BY <1>1, <1>5, <1>7 DEF RegsOK
<1>10. WasOK(cur)'
  BY <1>1, <1>3, <1>5, <1>7 DEF WasOK
<1>11. At(cur)'
  BY <1>1, <1>3, <1>4, <1>7 DEF At, Base
<1>12. Stack(stack'[cur])
  BY <1>4, <1>7
<1>13. \A t \in Thread : t # cur => (Stack(stack[t]) /\ WasOK(t) /\ At(t))'
  BY <1>1, <1>7, OthersStay
<1> QED
  BY <1>1, <1>8, <1>9, <1>10, <1>11, <1>12, <1>13 DEF EntryInv

(* intr_exit, from a frame of its own or one that start_process filled.    *)
LEMMA IntrExitStep ==
  ASSUME EntryInv, IntrExit
  PROVE  EntryInv'
<1>1. /\ at[cur] = "exit" /\ at' = [at EXCEPT ![cur] = "back"]
      /\ cur' = cur /\ kstack' = kstack /\ was' = was /\ service' = service
      /\ kind' = kind /\ height' = height
  BY DEF IntrExit, ExitPopping, Running, Becomes
<1>2. /\ cur \in Thread /\ Registers(regs) /\ WasOK(cur)
      /\ FrameOn(cur, Here, Base(cur), was[cur]) /\ (cur \in User \/ kind[cur] # Yield)
      /\ DOMAIN stack = Thread /\ at \in [Thread -> Phase] /\ height \in [Thread -> 0 .. 3]
      /\ cur \notin User => regs["esp"] = <<"kernel", "esp">> /\ regs["ss"] = <<"kernel", "ss">>
  BY <1>1 DEF EntryInv, Domains, RegsOK, At, Here
<1>3. /\ Registers(was[cur]) /\ was[cur]["cs"] = <<cur, "cs">>
      /\ cur \notin User => /\ was[cur]["esp"] = <<"kernel", "esp">>
                            /\ was[cur]["ss"] = <<"kernel", "ss">>
  <2>1. \A x \in Register : x \notin ToSet(Segments) \cup {"eax"} => was[cur][x] = Own(cur)[x]
    BY <1>2 DEF WasOK
  <2>2. \A x \in {"cs", "esp", "ss"} : x \in Register /\ x \notin ToSet(Segments) \cup {"eax"}
    BY RegisterNames
  <2>3. Own(cur)["cs"] = <<cur, "cs">>
    BY <2>2, OwnRegisters
  <2> QED
    BY <1>2, <2>1, <2>2, <2>3, OwnRegisters DEF WasOK
<1>4. Base(cur) \in 0 .. 3 /\ Base(cur) \in Nat
  BY <1>2 DEF Base
<1>5. PICK s : /\ regs' = was[cur]
               /\ Stack(s) /\ Len(s) = Base(cur) /\ stack' = [stack EXCEPT ![cur] = s]
  BY <1>2, <1>3, <1>4, Exits
<1>6. /\ stack'[cur] = s /\ at'[cur] = "back"
      /\ \A t \in Thread : t # cur =>
           /\ stack'[t] = stack[t] /\ kstack'[t] = kstack[t] /\ at'[t] = at[t]
           /\ kind'[t] = kind[t] /\ was'[t] = was[t] /\ height'[t] = height[t]
  BY <1>1, <1>2, <1>5
<1>7. Domains'
  BY <1>1, <1>2, <1>5 DEF EntryInv, Domains, Phase
<1>8. RegsOK'
  BY <1>1, <1>3, <1>5, <1>6 DEF RegsOK
<1>9. WasOK(cur)'
  BY <1>1, <1>2 DEF WasOK
<1>10. At(cur)'
  BY <1>1, <1>5, <1>6 DEF At, Base
<1>11. Stack(stack'[cur])
  BY <1>5, <1>6
<1>12. \A t \in Thread : t # cur => (Stack(stack[t]) /\ WasOK(t) /\ At(t))'
  BY <1>1, <1>6, OthersStay
<1> QED
  BY <1>1, <1>7, <1>8, <1>9, <1>10, <1>11, <1>12 DEF EntryInv

(* start_process fills a frame that intr_exit takes for one of VECTOR.     *)
LEMMA FilledFrame ==
  ASSUME NEW t, t \in User
  PROVE  FrameOn(t, Struct(t, intr_stack), 0, Own(t))
<1> DEFINE s == Struct(t, intr_stack)
<1>1. /\ Len(intr_stack) = 19
      /\ intr_stack[2] = "edi" /\ intr_stack[3] = "esi" /\ intr_stack[4] = "ebp"
      /\ intr_stack[6] = "ebx" /\ intr_stack[7] = "edx" /\ intr_stack[8] = "ecx"
      /\ intr_stack[9] = "eax" /\ intr_stack[10] = "gs" /\ intr_stack[11] = "fs"
      /\ intr_stack[12] = "es" /\ intr_stack[13] = "ds" /\ intr_stack[15] = "eip"
      /\ intr_stack[16] = "cs" /\ intr_stack[17] = "eflags" /\ intr_stack[18] = "esp"
      /\ intr_stack[19] = "ss"
  BY DEF intr_stack
<1>2. IsStruct(s, t, intr_stack, 19)
  BY <1>1, StructWords
<1> HIDE DEF s
<1>3. Stack(s) /\ Len(s) = 19 /\ \A i \in 0 .. 19 - 1 : Word(s, i) = <<t, intr_stack[i + 1]>>
  BY <1>2 DEF IsStruct
<1>4. /\ Word(s, 1) = <<t, "edi">> /\ Word(s, 2) = <<t, "esi">> /\ Word(s, 3) = <<t, "ebp">>
      /\ Word(s, 5) = <<t, "ebx">> /\ Word(s, 6) = <<t, "edx">> /\ Word(s, 7) = <<t, "ecx">>
      /\ Word(s, 8) = <<t, "eax">> /\ Word(s, 9) = <<t, "gs">> /\ Word(s, 10) = <<t, "fs">>
      /\ Word(s, 11) = <<t, "es">> /\ Word(s, 12) = <<t, "ds">> /\ Word(s, 14) = <<t, "eip">>
      /\ Word(s, 15) = <<t, "cs">> /\ Word(s, 16) = <<t, "eflags">>
      /\ Word(s, 17) = <<t, "esp">> /\ Word(s, 18) = <<t, "ss">>
  <2>1. \A i \in {1, 2, 3, 5, 6, 7, 8, 9, 10, 11, 12, 14, 15, 16, 17, 18} :
          Word(s, i) = <<t, intr_stack[i + 1]>>
    BY <1>3
  <2>2. /\ 1 + 1 = 2 /\ 2 + 1 = 3 /\ 3 + 1 = 4 /\ 5 + 1 = 6 /\ 6 + 1 = 7 /\ 7 + 1 = 8
        /\ 8 + 1 = 9 /\ 9 + 1 = 10 /\ 10 + 1 = 11 /\ 11 + 1 = 12 /\ 12 + 1 = 13
        /\ 14 + 1 = 15 /\ 15 + 1 = 16 /\ 16 + 1 = 17 /\ 17 + 1 = 18 /\ 18 + 1 = 19
    OBVIOUS
  <2> QED
    BY <1>1, <2>1, <2>2
<1>5. \A r \in Register : Own(t)[r] = <<t, r>>
  BY OwnRegisters
<1>6. RegisterWords(s, Own(t)) /\ Word(s, 17) = Own(t)["esp"] /\ Word(s, 18) = Own(t)["ss"]
  BY <1>4, <1>5, RegisterNames DEF RegisterWords
<1> QED
  BY <1>3, <1>6 DEF FrameOn, Size, s

LEMMA FirstRunStep ==
  ASSUME EntryInv, FirstRun
  PROVE  EntryInv'
<1> DEFINE one == IF cur \in User THEN Struct(cur, intr_stack) ELSE stack[cur]
           ph == IF cur \in User THEN "exit" ELSE "own"
<1>1. /\ cur \in Thread /\ at[cur] = "start" /\ DOMAIN stack = Thread /\ DOMAIN was = Thread
      /\ at \in [Thread -> Phase] /\ Stack(stack[cur]) /\ At(cur)
  BY DEF FirstRun, Running, EntryInv, Domains
<1>2. kind[cur] = Yield /\ Len(stack[cur]) = 3
  BY <1>1 DEF At
<1>3. /\ regs' = Own(cur) /\ was' = [was EXCEPT ![cur] = Own(cur)]
      /\ cur' = cur /\ kstack' = kstack /\ service' = service
      /\ kind' = kind /\ height' = height
      /\ at' = [at EXCEPT ![cur] = ph]
  BY DEF FirstRun, Becomes
<1>4. /\ DOMAIN stack' = Thread /\ stack'[cur] = one
      /\ \A t \in Thread : t # cur => stack'[t] = stack[t]
  BY <1>1 DEF FirstRun, Put
<1>5. /\ cur \in User => ph = "exit" /\ one = Struct(cur, intr_stack)
      /\ cur \notin User => ph = "own" /\ one = stack[cur]
  OBVIOUS
<1> HIDE DEF one, ph
<1>6. /\ at'[cur] = ph /\ was'[cur] = Own(cur)
      /\ \A t \in Thread : t # cur =>
           /\ stack'[t] = stack[t] /\ kstack'[t] = kstack[t] /\ at'[t] = at[t]
           /\ kind'[t] = kind[t] /\ was'[t] = was[t] /\ height'[t] = height[t]
  BY <1>1, <1>3, <1>4
<1>7. Domains'
  <2>1. ph \in Phase
    BY <1>5 DEF Phase
  <2>2. at' \in [Thread -> Phase] /\ DOMAIN was' = Thread
    BY <1>1, <1>3, <2>1
  <2> QED
    BY <1>1, <1>3, <1>4, <2>2 DEF EntryInv, Domains
<1>8. RegsOK'
  <2>1. ph \in {"exit", "own"}
    BY <1>5
  <2> QED
    BY <1>3, <1>6, <2>1, OwnRegisters DEF RegsOK
<1>9. WasOK(cur)'
  <2>1. Yield # Syscall
    BY DEF Yield, Syscall
  <2> QED
    BY <1>2, <1>3, <1>6, <2>1, OwnRegisters DEF WasOK
<1>10. Stack(stack'[cur]) /\ At(cur)'
  <2>1. CASE cur \in User
    <3>1. FrameOn(cur, one, 0, Own(cur))
      BY <1>5, <2>1, FilledFrame
    <3>2. FrameOn(cur, stack[cur], Base(cur), was[cur])'
      BY <1>3, <1>4, <1>6, <2>1, <3>1 DEF FrameOn, Base, Size, RegisterWords
    <3>3. Stack(stack'[cur])
      BY <1>4, <3>1 DEF FrameOn
    <3> QED
      BY <1>3, <1>5, <1>6, <2>1, <3>2, <3>3 DEF At
  <2>2. CASE cur \notin User
    <3>1. ph = "own" /\ stack'[cur] = stack[cur]
      BY <1>4, <1>5, <2>2
    <3>2. \A x : x = 3 => x <= 3
      OBVIOUS
    <3>3. Len(stack'[cur]) <= 3
      BY <1>2, <3>1, <3>2
    <3> QED
      BY <1>1, <1>3, <1>6, <2>2, <3>1, <3>3 DEF At
  <2> QED
    BY <2>1, <2>2
<1>11. \A t \in Thread : t # cur => (Stack(stack[t]) /\ WasOK(t) /\ At(t))'
  BY <1>3, <1>6, OthersStay
<1> QED
  BY <1>3, <1>7, <1>8, <1>9, <1>10, <1>11 DEF EntryInv

LEMMA RunStep ==
  ASSUME EntryInv, Run
  PROVE  EntryInv'
<1> DEFINE r == [x \in Register |-> IF x \in ToSet(Segments) THEN regs[x] ELSE Own(cur)[x]]
<1>1. /\ at[cur] = "back" /\ regs' = r /\ at' = [at EXCEPT ![cur] = "own"]
      /\ cur' = cur /\ stack' = stack /\ kstack' = kstack /\ was' = was /\ service' = service
      /\ kind' = kind /\ height' = height
  BY DEF Run, Running, Becomes
<1>2. /\ cur \in Thread /\ Stack(stack[cur]) /\ WasOK(cur) /\ Len(stack[cur]) = Base(cur)
      /\ at \in [Thread -> Phase] /\ height[cur] \in 0 .. 3
  BY <1>1 DEF EntryInv, Domains, At
<1>3. Len(stack[cur]) <= 3 /\ (cur \in User => Len(stack[cur]) = 0)
  <2>1. Base(cur) \in 0 .. 3 /\ (cur \in User => Base(cur) = 0)
    BY <1>2 DEF Base
  <2>2. \A x : x \in 0 .. 3 => x <= 3
    OBVIOUS
  <2> QED
    BY <1>2, <2>1, <2>2
<1>4. /\ Registers(r) /\ \A x \in Register : x \notin ToSet(Segments) => r[x] = Own(cur)[x]
      /\ cur \notin User => r["esp"] = <<"kernel", "esp">> /\ r["ss"] = <<"kernel", "ss">>
  BY RegisterNames, OwnRegisters DEF Registers
<1> HIDE DEF r
<1>5. /\ at'[cur] = "own"
      /\ \A t \in Thread : t # cur => at'[t] = at[t]
  BY <1>1, <1>2
<1>6. Domains'
  BY <1>1, <1>2 DEF EntryInv, Domains, Phase
<1>7. RegsOK'
  BY <1>1, <1>4, <1>5 DEF RegsOK
<1>8. WasOK(cur)'
  BY <1>1, <1>2 DEF WasOK
<1>9. At(cur)'
  BY <1>1, <1>3, <1>5 DEF At
<1>10. Stack(stack'[cur])
  BY <1>1, <1>2
<1>11. \A t \in Thread : t # cur => (Stack(stack[t]) /\ WasOK(t) /\ At(t))'
  BY <1>1, <1>5, OthersStay
<1> QED
  BY <1>1, <1>6, <1>7, <1>8, <1>9, <1>10, <1>11 DEF EntryInv

-----------------------------------------------------------------------------
(* Every step keeps the invariant.                                         *)
LEMMA EntryNext == EntryInv /\ [Next]_vars => EntryInv'
<1> SUFFICES ASSUME EntryInv, [Next]_vars PROVE EntryInv'
  OBVIOUS
<1>1. ASSUME NEW i \in Irq, Interrupt(i) PROVE EntryInv'
  BY <1>1, InterruptStep
<1>2. ASSUME NEW v \in Exception, Fault(v) PROVE EntryInv'
  BY <1>2, FaultStep
<1>3. CASE SpuriousInterrupt
  BY <1>3, SpuriousStep
<1>4. CASE SystemCall
  BY <1>4, SystemCallStep
<1>5. CASE YieldCall
  BY <1>5, YieldCallStep
<1>6. CASE Call
  BY <1>6, CallStep
<1>7. ASSUME NEW t \in Thread, Switch(t) PROVE EntryInv'
  BY <1>7, SwitchStep
<1>8. CASE HandlerReturn
  BY <1>8, HandlerReturnStep
<1>9. CASE YieldReturn
  BY <1>9, YieldReturnStep
<1>10. CASE IntrExit
  BY <1>10, IntrExitStep
<1>11. CASE FirstRun
  BY <1>11, FirstRunStep
<1>12. CASE Run
  BY <1>12, RunStep
<1>13. CASE UNCHANGED vars
  <2>1. Domains'
    BY <1>13 DEF vars, EntryInv, Domains
  <2>2. RegsOK'
    BY <1>13 DEF vars, EntryInv, RegsOK
  <2>3. ASSUME NEW t \in Thread PROVE Stack(stack'[t]) /\ WasOK(t)' /\ At(t)'
    <3>1. Stack(stack[t]) /\ WasOK(t) /\ At(t)
      BY DEF EntryInv
    <3>2. WasOK(t)'
      BY <1>13, <3>1 DEF vars, WasOK
    <3>3. At(t)'
      BY <1>13, <3>1
         DEF vars, At, Base, Called, InHandler, SwitchedOut, FrameOn, Marks, Frame
    <3> QED
      BY <1>13, <3>1, <3>2, <3>3 DEF vars
  <2> QED
    BY <2>1, <2>2, <2>3 DEF EntryInv
<1> QED
  BY <1>1, <1>2, <1>3, <1>4, <1>5, <1>6, <1>7, <1>8, <1>9, <1>10, <1>11, <1>12, <1>13 DEF Next

LEMMA EntryInductive == Spec => []EntryInv
<1>1. Init => EntryInv
  BY EntryInit
<1>2. EntryInv /\ [Next]_vars => EntryInv'
  BY EntryNext
<1> QED
  BY <1>1, <1>2, PTL DEF Spec

-----------------------------------------------------------------------------
(* What follows from the invariant.                                        *)

(* A frame whose words are the registers it was made of is one that struct *)
(* intr_stack describes.                                                   *)
LEMMA FrameFields ==
  ASSUME NEW t, NEW rs, NEW base, FrameOn(t, Frame(t), base, rs), Marks(Frame(t), kind[t]),
         \A r \in ToSet(Segments) : rs[r] = was[t][r],
         \A r \in Register : r \notin ToSet(Segments) => rs[r] = Own(t)[r]
  PROVE  FrameMatches(t)
<1> DEFINE s == Frame(t)
           n == Len(intr_stack) - IF t \in User THEN 0 ELSE 2
<1>1. Len(intr_stack) = 19
  BY DEF intr_stack
<1>2. n = (IF t \in User THEN 19 ELSE 17)
  BY <1>1
<1>3. /\ RegisterWords(s, rs) /\ Marks(s, kind[t])
      /\ t \in User => Word(s, 17) = rs["esp"] /\ Word(s, 18) = rs["ss"]
  BY DEF FrameOn
<1> HIDE DEF s, n
<1>4. /\ 1 - 1 = 0 /\ 2 - 1 = 1 /\ 3 - 1 = 2 /\ 4 - 1 = 3 /\ 5 - 1 = 4 /\ 6 - 1 = 5 /\ 7 - 1 = 6
      /\ 8 - 1 = 7 /\ 9 - 1 = 8 /\ 10 - 1 = 9 /\ 11 - 1 = 10 /\ 12 - 1 = 11 /\ 13 - 1 = 12
      /\ 14 - 1 = 13 /\ 15 - 1 = 14 /\ 16 - 1 = 15 /\ 17 - 1 = 16 /\ 18 - 1 = 17 /\ 19 - 1 = 18
  OBVIOUS
<1>5. ASSUME NEW i \in {10, 11, 12, 13} PROVE FieldIs(t, i)
  <2>1. intr_stack[i] \in ToSet(Segments) /\ Word(s, i - 1) = rs[intr_stack[i]]
    BY <1>3, <1>4, RegisterNames DEF intr_stack, RegisterWords
  <2> QED
    BY <2>1, RegisterNames DEF FieldIs, s
<1>6. ASSUME NEW i \in {2, 3, 4, 6, 7, 8, 9, 15, 16, 17} PROVE FieldIs(t, i)
  <2>1. /\ intr_stack[i] \in {"edi", "esi", "ebp", "ebx", "edx", "ecx", "eax", "eip", "cs", "eflags"}
        /\ Word(s, i - 1) = rs[intr_stack[i]]
    BY <1>3, <1>4 DEF intr_stack, RegisterWords
  <2> QED
    BY <2>1, RegisterNames DEF FieldIs, s
<1>7. ASSUME NEW i \in {18, 19}, t \in User PROVE FieldIs(t, i)
  <2>1. intr_stack[i] \in {"esp", "ss"} /\ Word(s, i - 1) = rs[intr_stack[i]]
    BY <1>3, <1>4, <1>7 DEF intr_stack
  <2> QED
    BY <2>1, RegisterNames DEF FieldIs, s
<1>8. FieldIs(t, 1) /\ FieldIs(t, 5) /\ FieldIs(t, 14)
  <2>1. intr_stack[1] = "vec_no" /\ intr_stack[5] = "esp_dummy" /\ intr_stack[14] = "err_code"
    BY DEF intr_stack
  <2>2. /\ Word(s, 1 - 1) = <<"vector", kind[t]>> /\ Word(s, 5 - 1) = <<"dummy">>
        /\ Word(s, 14 - 1) \in {<<"zero">>, <<"error", kind[t]>>}
    BY <1>3, <1>4 DEF Marks
  <2> QED
    BY <2>1, <2>2, RegisterNames DEF FieldIs, s
<1>9. ASSUME NEW i \in 1 .. n PROVE FieldIs(t, i)
  <2>1. i \in 1 .. 17 \/ (i \in {18, 19} /\ t \in User)
    <3>1. CASE t \in User
      BY <1>2, <3>1
    <3>2. CASE t \notin User
      BY <1>2, <3>2
    <3> QED
      BY <3>1, <3>2
  <2>2. i \in 1 .. 17 => \/ i \in {10, 11, 12, 13} \/ i \in {2, 3, 4, 6, 7, 8, 9, 15, 16, 17}
                          \/ i = 1 \/ i = 5 \/ i = 14
    OBVIOUS
  <2> QED
    BY <2>1, <2>2, <1>5, <1>6, <1>7, <1>8
<1> QED
  BY <1>9 DEF FrameMatches, n

LEMMA DepthBounded ==
  ASSUME EntryInv, NEW t \in Thread
  PROVE  Len(stack[t]) <= Deepest
<1>1. /\ Stack(stack[t]) /\ At(t) /\ at[t] \in Phase /\ cur \in Thread
      /\ kstack[t] \in 0 .. Deepest /\ height[t] \in 0 .. 3
  BY DEF EntryInv, Domains
<1>2. Deepest = 34
  BY DEF Deepest, intr_stack
<1>3. Base(t) \in 0 .. 3 /\ (Base(t) = 0 \/ Size(t) = 17) /\ Size(t) \in {17, 19}
  BY <1>1 DEF Base, Size
<1>4. \A x : (x \in {0, 1, 2, 3, 8, 22} \/ x \in 0 .. 3 \/ x <= 3 \/ x <= 22 \/ x <= 27) /\ x \in Nat => x <= 34
  OBVIOUS
<1>5. Len(stack[t]) \in Nat
  BY <1>1, Lengths
<1>6. CASE at[t] = "new"
  BY <1>1, <1>2, <1>4, <1>5, <1>6 DEF At
<1>7. CASE at[t] = "start"
  BY <1>1, <1>2, <1>4, <1>5, <1>7 DEF At
<1>8. CASE at[t] = "own"
  BY <1>1, <1>2, <1>4, <1>5, <1>8 DEF At
<1>9. CASE at[t] = "call"
  <2>1. t = cur /\ kind[t] # Yield /\ Called(t, stack[t])
    BY <1>1, <1>9 DEF At
  <2>2. Len(stack[t]) <= 22
    BY <1>1, <2>1, CalledLength
  <2> QED
    BY <1>2, <1>4, <1>5, <2>2
<1>10. CASE at[t] = "handler"
  <2>1. CASE t = cur
    <3>1. InHandler(cur, Here)
      BY <1>1, <1>10, <2>1 DEF At, Here
    <3>2. Len(stack[t]) <= 27
      BY <1>1, <2>1, <3>1, HandlerLength DEF Here
    <3> QED
      BY <1>2, <1>4, <1>5, <3>2
  <2>2. CASE t # cur
    <3>1. kstack[t] = Len(stack[t])
      BY <1>1, <1>10, <2>2 DEF At
    <3>2. \A x : x \in 0 .. 34 => x <= 34
      OBVIOUS
    <3> QED
      BY <1>1, <1>2, <3>1, <3>2
  <2> QED
    BY <2>1, <2>2
<1>11. CASE at[t] = "exit"
  <2>1. Len(stack[t]) = Base(t) + Size(t)
    BY <1>1, <1>11 DEF At, FrameOn
  <2>2. \A x, y, z : y \in 0 .. 3 /\ z \in {17, 19} /\ x = y + z => x <= 27
    OBVIOUS
  <2>3. Len(stack[t]) <= 27
    BY <1>3, <2>1, <2>2
  <2> QED
    BY <1>2, <1>4, <1>5, <2>3
<1>12. CASE at[t] = "back"
  BY <1>1, <1>2, <1>3, <1>4, <1>5, <1>12 DEF At
<1>13. CASE at[t] = "loop"
  BY <1>1, <1>2, <1>4, <1>5, <1>13 DEF At
<1> QED
  BY <1>1, <1>6, <1>7, <1>8, <1>9, <1>10, <1>11, <1>12, <1>13 DEF Phase

LEMMA FramesFollow == EntryInv => FramesRight
<1> SUFFICES ASSUME EntryInv PROVE FramesRight
  OBVIOUS
<1>1. /\ cur \in Thread /\ Registers(regs) /\ WasOK(cur) /\ At(cur)
      /\ kstack \in [Thread -> 0 .. Deepest] /\ Deepest = 34
  BY DEF EntryInv, Domains, RegsOK, Deepest, intr_stack
<1>2. TypeOK
  <2>1. DOMAIN regs = Register
    BY <1>1 DEF Registers
  <2>2. \A t \in Thread : Len(stack[t]) <= Deepest /\ kstack[t] <= Deepest
    <3>1. \A x : x \in 0 .. 34 => x <= 34
      OBVIOUS
    <3>2. \A t \in Thread : kstack[t] <= Deepest
      BY <1>1, <3>1
    <3> QED
      BY <3>2, DepthBounded
  <2> QED
    BY <2>1, <2>2 DEF TypeOK, EntryInv, Domains
<1>3. FramesReturnable
  <2> SUFFICES ASSUME at[cur] = "call", kind[cur] # StackFault PROVE FrameMatches(cur)
    BY DEF FramesReturnable, Running
  <2>1. kind[cur] # Yield /\ Called(cur, stack[cur]) /\ Marks(Frame(cur), kind[cur])
    BY <1>1 DEF At
  <2>2. /\ Registers(was[cur])
        /\ \A r \in Register : r \notin ToSet(Segments) \cup {"eax"} => was[cur][r] = Own(cur)[r]
        /\ was[cur]["eax"] = IF kind[cur] = Syscall THEN Answer(Own(cur)) ELSE Own(cur)["eax"]
    BY <1>1, <2>1 DEF WasOK
  <2>3. CASE kind[cur] = Syscall
    <3> DEFINE w == [was[cur] EXCEPT !["eax"] = Own(cur)["eax"]]
    <3>1. FrameOn(cur, Frame(cur), Base(cur), w)
      BY <2>1, <2>3 DEF Called, Frame
    <3>2. /\ \A r \in ToSet(Segments) : w[r] = was[cur][r]
          /\ \A r \in Register : r \notin ToSet(Segments) => w[r] = Own(cur)[r]
      BY <2>2, RegisterNames DEF Registers
    <3> HIDE DEF w
    <3> QED
      BY <2>1, <3>1, <3>2, FrameFields
  <2>4. CASE kind[cur] # Syscall
    <3>1. FrameOn(cur, Frame(cur), Base(cur), was[cur])
      BY <2>1, <2>4 DEF Called, Frame
    <3>2. \A r \in Register : r \notin ToSet(Segments) => was[cur][r] = Own(cur)[r]
      BY <2>2, <2>4
    <3> QED
      BY <2>1, <3>1, <3>2, FrameFields
  <2> QED
    BY <2>3, <2>4
<1>4. StartsItsFunction
  BY <1>1 DEF At, StartsItsFunction, Running, Here
<1> QED
  BY <1>2, <1>3, <1>4 DEF FramesRight

(* Every thread goes on with the registers and the stack it was            *)
(* interrupted with, whatever ran in between, and finds its own registers  *)
(* when switch_to returns (VECTOR, intr_exit, syscall_handler in kernel.S, *)
(* switch.S), for any number of threads and any interrupts and exceptions. *)
THEOREM GoesOnAsItWas == Spec => []RegistersKept
<1>1. EntryInv => RegistersKept
  BY DEF EntryInv, Domains, RegsOK, At, Base, RegistersKept, RegistersBack, SwitchTransparent,
         Running, Here
<1> QED
  BY <1>1, EntryInductive, PTL

(* A frame is what struct intr_stack says, a new thread finds its function *)
(* and argument, and no kernel stack is deeper than a frame, the arguments *)
(* of a system call, a C function and a switch.                            *)
THEOREM FramesAsDeclared == Spec => []FramesRight
BY FramesFollow, EntryInductive, PTL

(* The end of interrupt VECTOR sends ends what it was entered for, on both *)
(* controllers: no line stays in service when a thread goes on.            *)
THEOREM NoLineHeldBack == Spec => []NothingInService
<1>1. EntryInv => NothingInService
  BY DEF EntryInv, Domains, NothingInService
<1> QED
  BY <1>1, EntryInductive, PTL

=============================================================================
