---------------------------- MODULE MemoryProofs ----------------------------
(***************************************************************************)
(* Proofs about Library, with Bitmap and Strings, and about Memory.        *)
(*                                                                         *)
(* What bitmap_scan answers, for every bitmap, length and number of bits:  *)
(* the leftmost run of clear bits when there is one, and never a bit that  *)
(* is taken.  What the functions of string.c leave in a memory of any size *)
(* and answer from it.  A loop is a recursive function over its passes; a  *)
(* function that is given outright satisfies the same equation, and the    *)
(* first (or last) pass in which two solutions differ does not exist.      *)
(*                                                                         *)
(* Whatever the sizes of pools, tables and requests and wherever clients   *)
(* are preempted: no frame of user_pool is handed out twice, and no frame  *)
(* of kernel_pool is as long as kernel threads and processes do not both   *)
(* allocate.  From there on, whatever runs out: bitmaps mark what is in    *)
(* use and nothing else, what a call returns is mapped, locks are given    *)
(* back, and the allocator stops the machine only when memory has run out. *)
(***************************************************************************)
EXTENDS Memory, Library, WellFoundedInduction, FiniteSetTheorems, TLAPS

(* A set of numbers that is not empty has a least element.                 *)
LEMMA LeastElement ==
  ASSUME NEW S \in SUBSET Nat, S # {}
  PROVE  Min(S) \in S /\ \A x \in S : Min(S) <= x
<1> DEFINE R == OpToRel(<, Nat)
<1>1. IsWellFoundedOn(R, Nat)
  BY NatLessThanWellFounded
<1>2. \E x \in S : \A y \in S : ~ (<<y, x>> \in R)
  <2> HIDE DEF R
  <2> QED BY <1>1, WFMin
<1>3. PICK x \in S : \A y \in S : ~ (<<y, x>> \in R)
  BY <1>2
<1>4. \A y \in S : ~ (y < x)
  BY <1>3 DEF OpToRel
<1>5. \A y \in S : x <= y
  BY <1>4
<1> QED
  BY <1>5 DEF Min

-----------------------------------------------------------------------------
(* The number of clear bits in a row that end with bit i, from bit `first' *)
(* on: how far back the first set bit is, or the bit before `first'.       *)
Since(b, first, i) == {k \in Nat : i - k \in b \/ i - k = first - 1}
RunTo(b, first, i) == Min(Since(b, first, i))

LEMMA RunFacts ==
  ASSUME NEW b \in SUBSET Nat, NEW first \in Nat, NEW i \in Nat, first <= i
  PROVE  LET r == RunTo(b, first, i) IN
         /\ r \in 0 .. i - first + 1
         /\ i - r \in b \/ i - r = first - 1
         /\ \A j \in i - r + 1 .. i : j \notin b
<1> DEFINE r == RunTo(b, first, i)
<1>1. Since(b, first, i) \in SUBSET Nat /\ i - first + 1 \in Since(b, first, i)
  BY DEF Since
<1>2. r \in Since(b, first, i) /\ \A k \in Since(b, first, i) : r <= k
  BY <1>1, LeastElement DEF RunTo
<1> HIDE DEF r
<1>3. r \in 0 .. i - first + 1
  BY <1>1, <1>2
<1>4. i - r \in b \/ i - r = first - 1
  BY <1>2 DEF Since
<1>5. ASSUME NEW j \in i - r + 1 .. i PROVE j \notin b
  <2>1. i - j \in Nat /\ i - (i - j) = j /\ i - j < r
    BY <1>3
  <2>2. i - j \notin Since(b, first, i)
    BY <1>2, <1>3, <2>1
  <2> QED
    BY <2>1, <2>2 DEF Since
<1> QED
  BY <1>3, <1>4, <1>5 DEF r

(* No other number is as RunFacts says.                                    *)
LEMMA RunUnique ==
  ASSUME NEW b \in SUBSET Nat, NEW first \in Nat, NEW i \in Nat, first <= i,
         NEW r \in 0 .. i - first + 1,
         i - r \in b \/ i - r = first - 1,
         \A j \in i - r + 1 .. i : j \notin b
  PROVE  r = RunTo(b, first, i)
<1> DEFINE s == RunTo(b, first, i)
<1>1. /\ s \in 0 .. i - first + 1
      /\ i - s \in b \/ i - s = first - 1
      /\ \A j \in i - s + 1 .. i : j \notin b
  BY RunFacts
<1> HIDE DEF s
<1>2. ~ (r < s)
  <2> SUFFICES ASSUME r < s PROVE FALSE
    OBVIOUS
  <2>1. i - r \in i - s + 1 .. i
    BY <1>1
  <2> QED
    BY <1>1, <2>1
<1>3. ~ (s < r)
  <2> SUFFICES ASSUME s < r PROVE FALSE
    OBVIOUS
  <2>1. i - s \in i - r + 1 .. i
    BY <1>1
  <2> QED
    BY <1>1, <2>1
<1> QED
  BY <1>1, <1>2, <1>3 DEF s

(* It is what the loop counts.                                             *)
LEMMA RunStep ==
  ASSUME NEW b \in SUBSET Nat, NEW first \in Nat, first \notin b, NEW i \in Nat, first <= i
  PROVE  RunTo(b, first, i) = IF i = first THEN 1 ELSE Count(b, i, RunTo(b, first, i - 1))
<1>1. CASE i = first
  <2>1. /\ 1 \in 0 .. i - first + 1 /\ i - 1 = first - 1
        /\ \A j \in i - 1 + 1 .. i : j \notin b
    BY <1>1
  <2> QED
    BY <1>1, <2>1, RunUnique
<1>2. CASE i # first /\ i \in b
  BY <1>2, RunUnique DEF Count
<1>3. CASE i # first /\ i \notin b
  <2> DEFINE s == RunTo(b, first, i - 1)
  <2>1. /\ s \in 0 .. i - 1 - first + 1
        /\ i - 1 - s \in b \/ i - 1 - s = first - 1
        /\ \A j \in i - 1 - s + 1 .. i - 1 : j \notin b
    <3>1. i - 1 \in Nat /\ first <= i - 1
      BY <1>3
    <3> QED
      BY <3>1, RunFacts
  <2> HIDE DEF s
  <2>2. /\ s + 1 \in 0 .. i - first + 1
        /\ i - (s + 1) \in b \/ i - (s + 1) = first - 1
        /\ \A j \in i - (s + 1) + 1 .. i : j \notin b
    BY <1>3, <2>1
  <2>3. s + 1 = RunTo(b, first, i)
    BY <2>2, RunUnique
  <2> QED
    BY <1>3, <2>3 DEF Count, s
<1> QED
  BY <1>1, <1>2, <1>3

(* So the recursive function of ClearRun exists and is RunTo.              *)
LEMMA RunFunction ==
  ASSUME NEW b \in SUBSET Nat, NEW first \in Nat, first \notin b, NEW last \in Nat
  PROVE  LET run[i \in first .. last] == IF i = first THEN 1 ELSE Count(b, i, run[i - 1])
         IN  \A i \in first .. last : run[i] = RunTo(b, first, i)
<1> DEFINE run[i \in first .. last] == IF i = first THEN 1 ELSE Count(b, i, run[i - 1])
           Len == [i \in first .. last |-> RunTo(b, first, i)]
<1>1. Len = [i \in first .. last |-> IF i = first THEN 1 ELSE Count(b, i, Len[i - 1])]
  <2>1. ASSUME NEW i \in first .. last
        PROVE  RunTo(b, first, i) = IF i = first THEN 1 ELSE Count(b, i, Len[i - 1])
    <3>1. CASE i = first
      BY <3>1, RunStep
    <3>2. CASE i # first
      <4>1. Len[i - 1] = RunTo(b, first, i - 1)
        BY <3>2
      <4> QED
        BY <3>2, <4>1, RunStep
    <3> QED
      BY <3>1, <3>2
  <2> QED
    BY <2>1
<1>2. \E f : f = [i \in first .. last |-> IF i = first THEN 1 ELSE Count(b, i, f[i - 1])]
  <2> HIDE DEF Len
  <2> QED BY <1>1
<1>3. run = [i \in first .. last |-> IF i = first THEN 1 ELSE Count(b, i, run[i - 1])]
  BY <1>2
<1> DEFINE Bad == {i \in first .. last : run[i] # RunTo(b, first, i)}
<1> HIDE DEF run
<1>4. ASSUME Bad # {} PROVE FALSE
  <2> DEFINE m == Min(Bad)
  <2>1. m \in Bad /\ \A x \in Bad : m <= x
    <3>1. Bad \in SUBSET Nat
      OBVIOUS
    <3> HIDE DEF Bad
    <3> QED BY <1>4, <3>1, LeastElement
  <2> HIDE DEF m
  <2>2. CASE m = first
    BY <1>3, <2>1, <2>2, RunStep
  <2>3. CASE m # first
    <3>1. m - 1 \in first .. last /\ m - 1 \notin Bad
      BY <2>1, <2>3
    <3>2. run[m - 1] = RunTo(b, first, m - 1)
      BY <3>1
    <3>3. run[m] = Count(b, m, run[m - 1])
      BY <1>3, <2>1, <2>3
    <3> QED
      BY <2>1, <2>3, <3>2, <3>3, RunStep
  <2> QED
    BY <2>2, <2>3
<1>5. \A i \in first .. last : run[i] = RunTo(b, first, i)
  BY <1>4
<1> QED
  BY <1>5 DEF run

-----------------------------------------------------------------------------
Taken(b, j, cnt) == (j .. j + cnt - 1) \cap b # {}

(* What bitmap_scan answers is a run of cnt clear bits, whose last may be  *)
(* the one behind the bitmap; no run inside the bitmap begins before it;   *)
(* and when it answers -1 the bitmap has none.                             *)
THEOREM ScanFinds ==
  ASSUME NEW b \in SUBSET Nat, NEW n \in Nat, NEW cnt \in Nat \ {0}
  PROVE  LET i == bitmap_scan(b, n, cnt) IN
         /\ i = -1 => \A j \in 0 .. n - cnt : Taken(b, j, cnt)
         /\ i # -1 => /\ i \in 0 .. n - 1 /\ i + cnt - 1 <= n /\ ~ Taken(b, i, cnt)
                      /\ \A j \in 0 .. n - cnt : j < i => Taken(b, j, cnt)
<1> DEFINE first == Min(Clear(b, n))
           run[i \in first .. n] == IF i = first THEN 1 ELSE Count(b, i, run[i - 1])
           ends == {i \in first + 1 .. n : run[i] = cnt}
           Runs == {i \in first + 1 .. n : RunTo(b, first, i) = cnt}
<1>1. bitmap_scan(b, n, cnt) =
        IF Clear(b, n) = {} THEN -1
        ELSE IF cnt = 1 THEN first
        ELSE IF ends = {} THEN -1
        ELSE Min(ends) - cnt + 1
  BY DEF bitmap_scan, ClearRun
<1>2. CASE Clear(b, n) = {}
  BY <1>1, <1>2 DEF Taken, Clear
<1>3. CASE Clear(b, n) # {}
  <2>1. first \in Clear(b, n) /\ \A x \in Clear(b, n) : first <= x
    <3>1. Clear(b, n) \in SUBSET Nat
      BY DEF Clear
    <3> QED
      BY <1>3, <3>1, LeastElement
  <2>2. first \in Nat /\ first \notin b /\ first < n
    BY <2>1 DEF Clear
  <2>3. ends = Runs
    <3>1. \A i \in first .. n : run[i] = RunTo(b, first, i)
      <4> HIDE DEF first
      <4> QED BY <2>2, RunFunction
    <3> HIDE DEF first, run
    <3> QED BY <2>2, <3>1
  <2>. HIDE DEF first, ends
  <2>4. \A j \in 0 .. n - cnt : ~ Taken(b, j, cnt) => first <= j
    BY <2>1 DEF Taken, Clear
  <2>5. CASE cnt = 1
    <3>1. bitmap_scan(b, n, cnt) = first
      BY <1>1, <1>3, <2>5
    <3>2. ~ Taken(b, first, 1)
      BY <2>2 DEF Taken
    <3> QED
      BY <2>2, <2>4, <2>5, <3>1, <3>2
  <2>6. CASE cnt > 1
    <3>1. ASSUME NEW j \in 0 .. n - cnt, ~ Taken(b, j, cnt)
          PROVE  \E e \in Runs : e <= j + cnt - 1
      <4> DEFINE last == j + cnt - 1
                 r == RunTo(b, first, last)
                 e == last - r + cnt
      <4>1. first <= j /\ last \in Nat /\ first <= last /\ last < n
        BY <2>2, <2>4, <3>1
      <4>2. /\ r \in 0 .. last - first + 1
            /\ last - r \in b \/ last - r = first - 1
            /\ \A x \in last - r + 1 .. last : x \notin b
        BY <2>2, <4>1, RunFacts
      <4> HIDE DEF r
      <4>3. r >= cnt
        BY <2>2, <3>1, <4>1, <4>2 DEF Taken
      <4>4. /\ e \in first + 1 .. n /\ e <= last
            /\ cnt \in 0 .. e - first + 1
            /\ e - cnt \in b \/ e - cnt = first - 1
            /\ \A x \in e - cnt + 1 .. e : x \notin b
        BY <2>2, <2>6, <4>1, <4>2, <4>3
      <4>5. RunTo(b, first, e) = cnt
        <5>1. e \in Nat /\ first <= e
          BY <2>2, <4>4
        <5> HIDE DEF e
        <5> QED BY <2>2, <4>4, <5>1, RunUnique
      <4> QED
        BY <4>4, <4>5
    <3>2. CASE Runs = {}
      BY <1>1, <1>3, <2>3, <2>6, <3>1, <3>2
    <3>3. CASE Runs # {}
      <4> DEFINE e == Min(Runs)
      <4>1. e \in Runs /\ \A x \in Runs : e <= x
        <5>1. Runs \in SUBSET Nat
          BY <2>2
        <5> HIDE DEF Runs
        <5> QED BY <3>3, <5>1, LeastElement
      <4> HIDE DEF e
      <4>2. bitmap_scan(b, n, cnt) = e - cnt + 1
        BY <1>1, <1>3, <2>3, <2>6, <3>3 DEF e
      <4>3. /\ cnt \in 0 .. e - first + 1
            /\ \A x \in e - cnt + 1 .. e : x \notin b
        BY <2>2, <4>1, RunFacts
      <4>4. /\ e - cnt + 1 \in 0 .. n - 1 /\ e - cnt + 1 + cnt - 1 = e /\ e <= n
        BY <2>2, <2>6, <4>1, <4>3
      <4>5. ~ Taken(b, e - cnt + 1, cnt)
        BY <4>3, <4>4 DEF Taken
      <4>6. \A j \in 0 .. n - cnt : j < e - cnt + 1 => Taken(b, j, cnt)
        BY <2>2, <3>1, <4>1
      <4> QED
        BY <4>2, <4>4, <4>5, <4>6
    <3> QED
      BY <3>2, <3>3
  <2> QED
    BY <2>5, <2>6
<1> QED
  BY <1>2, <1>3

-----------------------------------------------------------------------------
(* The same against the reference definition of Library, whose bitmaps are  *)
(* in memory.                                                              *)
RunStarts(b, n, cnt) == {j \in 0 .. n - cnt : j .. j + cnt - 1 \subseteq Clear(b, n)}

LeftmostOrFree(b, n, cnt, i) ==
  /\ RunStarts(b, n, cnt) # {} => i = Min(RunStarts(b, n, cnt))
  /\ i # -1 => i .. i + cnt - 1 \subseteq 0 .. n /\ i .. i + cnt - 1 \intersect b = {}

LEMMA AnswerRight ==
  ASSUME NEW b \in SUBSET Nat, NEW n \in Nat, NEW cnt \in 1 .. n
  PROVE  LeftmostOrFree(b, n, cnt, bitmap_scan(b, n, cnt))
<1> DEFINE i == bitmap_scan(b, n, cnt)
           Begins == RunStarts(b, n, cnt)
<1>1. cnt \in Nat \ {0}
  OBVIOUS
<1>2. /\ i = -1 => \A j \in 0 .. n - cnt : Taken(b, j, cnt)
      /\ i # -1 => /\ i \in 0 .. n - 1 /\ i + cnt - 1 <= n /\ ~ Taken(b, i, cnt)
                   /\ \A j \in 0 .. n - cnt : j < i => Taken(b, j, cnt)
  BY <1>1, ScanFinds
<1> HIDE DEF i
<1>3. \A j : j \in Begins <=> j \in 0 .. n - cnt /\ ~ Taken(b, j, cnt)
  <2>1. ASSUME NEW j \in 0 .. n - cnt
        PROVE  j .. j + cnt - 1 \subseteq Clear(b, n) <=> ~ Taken(b, j, cnt)
    <3>1. j .. j + cnt - 1 \subseteq 0 .. n - 1
      BY <1>1
    <3> QED
      BY <3>1 DEF Clear, Taken
  <2> QED
    BY <2>1 DEF RunStarts
<1> HIDE DEF Begins
<1>4. ASSUME Begins # {} PROVE i = Min(Begins)
  <2>1. Begins \in SUBSET Nat
    BY <1>1, <1>3
  <2>2. Min(Begins) \in Begins /\ \A x \in Begins : Min(Begins) <= x
    BY <1>4, <2>1, LeastElement
  <2>3. PICK m : m = Min(Begins)
    OBVIOUS
  <2>4. m \in 0 .. n - cnt /\ ~ Taken(b, m, cnt) /\ i # -1
    BY <1>2, <1>3, <2>2, <2>3
  <2>5. ~ (m < i)
    BY <1>2, <2>4
  <2>6. ASSUME i < m PROVE FALSE
    <3>1. i \in Nat /\ i \in 0 .. n - cnt
      BY <1>1, <1>2, <2>4, <2>6
    <3>2. i \in Begins
      BY <1>2, <1>3, <2>4, <3>1
    <3>3. m <= i
      BY <2>2, <2>3, <3>2
    <3> QED
      BY <2>4, <2>6, <3>1, <3>3
  <2>7. i \in Nat /\ m \in Nat
    BY <1>1, <1>2, <2>4
  <2> QED
    BY <2>3, <2>5, <2>6, <2>7
<1>5. ASSUME i # -1
      PROVE  i .. i + cnt - 1 \subseteq 0 .. n /\ i .. i + cnt - 1 \intersect b = {}
  <2>1. i \in 0 .. n - 1 /\ i + cnt - 1 <= n /\ ~ Taken(b, i, cnt)
    BY <1>2, <1>5
  <2>2. i .. i + cnt - 1 \subseteq 0 .. n
    BY <1>1, <2>1
  <2> QED
    BY <2>1, <2>2 DEF Taken
<1> QED
  BY <1>4, <1>5 DEF LeftmostOrFree, i, Begins

(* Whatever is in memory, bitmap_scan finds the leftmost run of clear bits *)
(* when the bitmap has one, and never answers with a bit that is taken:    *)
(* for memories of any size, and so for bitmaps of any length.             *)
THEOREM ScansRight == LibrarySpec => []ScanRight
<1>1. SetBits \in SUBSET Nat /\ Length \in Nat
  <2>1. Length \in Nat
    BY StringsAssumption, LibraryAssumption DEF Length
  <2> QED
    BY <2>1 DEF SetBits
<1>2. ASSUME NEW cnt \in 1 .. Length
      PROVE  LeftmostOrFree(SetBits, Length, cnt, bitmap_scan(SetBits, Length, cnt))
  BY <1>1, AnswerRight
<1>3. ASSUME NEW cnt \in 1 .. Length PROVE Starts(cnt) = RunStarts(SetBits, Length, cnt)
  BY DEF Starts, RunStarts
<1>4. ScanRight
  BY <1>2, <1>3 DEF LeftmostOrFree, ScanRight, FindsLeftmost, NeverTaken
<1> QED
  BY <1>4, PTL

-----
(* bitmap_scan for one bit answers -1 or a clear bit of the bitmap.        *)
LEMMA ScanOne ==
  ASSUME NEW b \in SUBSET Nat, NEW n \in Nat, bitmap_scan(b, n, 1) # -1
  PROVE  bitmap_scan(b, n, 1) \in Clear(b, n)
<1>1. Clear(b, n) \in SUBSET Nat
  BY DEF Clear
<1>2. Clear(b, n) # {} /\ bitmap_scan(b, n, 1) = Min(Clear(b, n))
  BY DEF bitmap_scan, ClearRun
<1> QED
  BY <1>1, <1>2, LeastElement

(* Whatever bitmap_scan answers is a number.                               *)
LEMMA ScanInt ==
  ASSUME NEW b, NEW n \in Nat, NEW cnt \in Nat
  PROVE  bitmap_scan(b, n, cnt) \in Int
<1> DEFINE first == Min(Clear(b, n))
           run[i \in first .. n] == IF i = first THEN 1 ELSE Count(b, i, run[i - 1])
           ends == {i \in first + 1 .. n : run[i] = cnt}
<1>1. CASE Clear(b, n) = {}
  BY <1>1 DEF bitmap_scan, ClearRun
<1>2. CASE Clear(b, n) # {}
  <2>1. Clear(b, n) \in SUBSET Nat
    BY DEF Clear
  <2>2. first \in Nat
    BY <1>2, <2>1, LeastElement
  <2>3. ends \in SUBSET Nat
    <3> HIDE DEF first, run
    <3> QED BY <2>2
  <2>4. ends # {} => Min(ends) \in Nat
    <3> HIDE DEF ends
    <3> QED BY <2>3, LeastElement
  <2>5. bitmap_scan(b, n, cnt) =
          IF cnt = 1 THEN first ELSE IF ends = {} THEN -1 ELSE Min(ends) - cnt + 1
    BY <1>2 DEF bitmap_scan, ClearRun
  <2> QED
    <3> HIDE DEF first, ends
    <3> QED BY <2>2, <2>4, <2>5
<1> QED
  BY <1>1, <1>2

-----------------------------------------------------------------------------
-----------------------------------------------------------------------------
(* Induction up to N, and down from it.                                    *)
LEMMA UpTo ==
  ASSUME NEW N \in Nat, NEW T, 0 \in T, \A n \in 0 .. N - 1 : n \in T => n + 1 \in T
  PROVE  \A n \in 0 .. N : n \in T
<1> DEFINE Missed == {n \in 0 .. N : n \notin T}
<1>1. SUFFICES ASSUME Missed # {} PROVE FALSE
  OBVIOUS
<1>2. PICK n : n = Min(Missed)
  OBVIOUS
<1>3. n \in Missed /\ \A x \in Missed : n <= x
  <2>1. Missed \in SUBSET Nat
    OBVIOUS
  <2> HIDE DEF Missed
  <2> QED
    BY <1>1, <1>2, <2>1, LeastElement
<1>4. n \in 0 .. N /\ n \notin T /\ n # 0
  BY <1>3
<1>5. n - 1 \in 0 .. N - 1 /\ n - 1 + 1 = n /\ n - 1 \notin Missed
  BY <1>3, <1>4
<1> QED
  BY <1>4, <1>5

LEMMA DownFrom ==
  ASSUME NEW N \in Nat, NEW T, N \in T, \A n \in 0 .. N - 1 : n + 1 \in T => n \in T
  PROVE  \A n \in 0 .. N : n \in T
<1> DEFINE U == {k \in 0 .. N : N - k \in T}
<1>1. 0 \in U /\ \A k \in 0 .. N - 1 : k \in U => k + 1 \in U
  <2>1. ASSUME NEW k \in 0 .. N - 1, N - k \in T PROVE N - (k + 1) \in T
    <3>1. N - (k + 1) \in 0 .. N - 1 /\ N - (k + 1) + 1 = N - k
      OBVIOUS
    <3> QED
      BY <2>1, <3>1
  <2> QED
    BY <2>1
<1>2. \A k \in 0 .. N : k \in U
  <2> HIDE DEF U
  <2> QED BY <1>1, UpTo
<1>3. ASSUME NEW n \in 0 .. N PROVE n \in T
  <2>1. N - n \in 0 .. N /\ N - (N - n) = n
    OBVIOUS
  <2> QED
    BY <1>2, <2>1
<1> QED
  BY <1>3

(* A loop that goes on until it finds an element of P: what it answers     *)
(* depends on where that is, or that there is none.                        *)
From(P, k) == {j \in Nat : j \in P /\ k <= j}
Found(P, found, off, k) == IF From(P, k) = {} THEN off ELSE found[Min(From(P, k))]
Loop(N, P, found, off, f) ==
  [k \in 0 .. N |-> IF k = N THEN off ELSE IF k \in P THEN found[k] ELSE f[k + 1]]

LEMMA FoundStep ==
  ASSUME NEW N \in Nat, NEW P \in SUBSET (0 .. N - 1), NEW found, NEW off, NEW k \in 0 .. N
  PROVE  Found(P, found, off, k) =
           IF k = N THEN off ELSE IF k \in P THEN found[k] ELSE Found(P, found, off, k + 1)
<1>0. (\A j \in P : j \in Nat /\ j < N) /\ k \in Nat /\ k <= N
  OBVIOUS
<1>1. CASE k = N
  <2>1. From(P, k) = {}
    BY <1>0, <1>1 DEF From
  <2> QED
    BY <1>1, <2>1 DEF Found
<1>2. CASE k # N /\ k \in P
  <2>1. From(P, k) \in SUBSET Nat /\ k \in From(P, k) /\ \A j \in From(P, k) : k <= j
    BY <1>0, <1>2 DEF From
  <2>2. Min(From(P, k)) \in From(P, k) /\ Min(From(P, k)) <= k
    BY <2>1, LeastElement
  <2>3. Min(From(P, k)) = k
    BY <2>1, <2>2
  <2> QED
    BY <1>2, <2>1, <2>3 DEF Found
<1>3. CASE k # N /\ k \notin P
  <2>1. From(P, k) = From(P, k + 1)
    BY <1>0, <1>3 DEF From
  <2> QED
    BY <1>3, <2>1 DEF Found
<1> QED
  BY <1>1, <1>2, <1>3

LEMMA Search ==
  ASSUME NEW N \in Nat, NEW P \in SUBSET (0 .. N - 1), NEW found, NEW off
  PROVE  /\ \E f : f = Loop(N, P, found, off, f)
         /\ \A f : f = Loop(N, P, found, off, f) =>
                     \A k \in 0 .. N : f[k] = Found(P, found, off, k)
<1> DEFINE F == [k \in 0 .. N |-> Found(P, found, off, k)]
<1>1. F = Loop(N, P, found, off, F)
  <2>1. ASSUME NEW k \in 0 .. N
        PROVE  Found(P, found, off, k) = IF k = N THEN off ELSE IF k \in P THEN found[k] ELSE F[k + 1]
    <3>1. k # N => F[k + 1] = Found(P, found, off, k + 1)
      OBVIOUS
    <3> HIDE DEF F
    <3> QED
      BY <3>1, FoundStep
  <2> QED
    BY <2>1 DEF Loop
<1>2. ASSUME NEW f, f = Loop(N, P, found, off, f)
      PROVE  \A k \in 0 .. N : f[k] = Found(P, found, off, k)
  <2> DEFINE T == {k \in 0 .. N : f[k] = Found(P, found, off, k)}
  <2>1. \A k \in 0 .. N : f[k] = IF k = N THEN off ELSE IF k \in P THEN found[k] ELSE f[k + 1]
    BY <1>2 DEF Loop
  <2>2. N \in T
    BY <2>1, FoundStep
  <2>3. ASSUME NEW k \in 0 .. N - 1, k + 1 \in T PROVE k \in T
    BY <2>1, <2>3, FoundStep
  <2> HIDE DEF T
  <2>4. \A k \in 0 .. N : k \in T
    BY <2>2, <2>3, DownFrom
  <2> QED
    BY <2>4 DEF T
<1> HIDE DEF F
<1> QED
  BY <1>1, <1>2

LEMMA FoundAt ==
  ASSUME NEW P \in SUBSET Nat, NEW found, NEW off, NEW k \in Nat, NEW e \in P, k <= e,
         \A j \in P : k <= j => e <= j
  PROVE  Found(P, found, off, k) = found[e]
<1>1. From(P, k) \in SUBSET Nat /\ e \in From(P, k) /\ \A j \in From(P, k) : e <= j
  BY DEF From
<1>2. Min(From(P, k)) \in From(P, k) /\ Min(From(P, k)) <= e
  BY <1>1, LeastElement
<1>3. Min(From(P, k)) = e
  BY <1>1, <1>2
<1> QED
  BY <1>1, <1>3 DEF Found

LEMMA FoundNothing ==
  ASSUME NEW P \in SUBSET Nat, NEW found, NEW off, NEW k \in Nat, \A j \in P : j < k
  PROVE  Found(P, found, off, k) = off
<1>1. From(P, k) = {}
  BY DEF From
<1> QED
  BY <1>1 DEF Found

-----------------------------------------------------------------------------
(* The functions of string.c.                                              *)
LEMMA ByteSizes == Size \in Nat \ {0} /\ Values \in Nat \ {0} /\ Values % 2 = 0
BY StringsAssumption

\* The string at str ends at e.
Ends(m, str, e) == e \in Addr /\ str <= e /\ m[e] = 0 /\ \A i \in str .. e - 1 : m[i] # 0

LEMMA BehindIs ==
  ASSUME NEW m, NEW str \in Addr, NEW e, Ends(m, str, e)
  PROVE  Behind(m, str) = e
<1> DEFINE stop[p \in 0 .. Size] ==
             IF p = Size THEN Off ELSE IF m[p] = 0 THEN p ELSE stop[p + 1]
           P == {p \in 0 .. Size - 1 : m[p] = 0}
           found == [p \in 0 .. Size |-> p]
<1>1. ASSUME NEW f
      PROVE  [p \in 0 .. Size |-> IF p = Size THEN Off ELSE IF m[p] = 0 THEN p ELSE f[p + 1]]
               = Loop(Size, P, found, Off, f)
  <2>1. ASSUME NEW p \in 0 .. Size, p # Size PROVE (p \in P <=> m[p] = 0) /\ found[p] = p
    BY <2>1, ByteSizes
  <2> HIDE DEF P, found
  <2> QED
    BY <2>1 DEF Loop
<1>2. Size \in Nat /\ P \in SUBSET (0 .. Size - 1)
  BY ByteSizes
<1>3. stop = Loop(Size, P, found, Off, stop)
  <2> HIDE DEF P, found
  <2>1. PICK f : f = Loop(Size, P, found, Off, f)
    BY <1>2, Search
  <2>2. \E g : g = [p \in 0 .. Size |->
                      IF p = Size THEN Off ELSE IF m[p] = 0 THEN p ELSE g[p + 1]]
    BY <1>1, <2>1
  <2>3. stop = [p \in 0 .. Size |->
                  IF p = Size THEN Off ELSE IF m[p] = 0 THEN p ELSE stop[p + 1]]
    BY <2>2
  <2> HIDE DEF stop
  <2> QED
    BY <1>1, <2>3
<1>4. stop[str] = Found(P, found, Off, str)
  <2>1. str \in 0 .. Size
    BY ByteSizes DEF Addr
  <2> HIDE DEF P, found, stop
  <2> QED
    BY <1>2, <1>3, <2>1, Search
<1>5. Found(P, found, Off, str) = found[e]
  <2>1. e \in P /\ str \in Nat /\ str <= e /\ \A j \in P : str <= j => e <= j
    BY ByteSizes DEF Ends, Addr
  <2>2. P \in SUBSET Nat
    OBVIOUS
  <2> HIDE DEF P, found
  <2> QED
    BY <2>1, <2>2, FoundAt
<1>6. found[e] = e
  BY ByteSizes DEF Ends, Addr
<1>7. Behind(m, str) = stop[str]
  BY DEF Behind
<1> HIDE DEF stop, P, found
<1> QED
  BY <1>4, <1>5, <1>6, <1>7

LEMMA MinPair ==
  ASSUME NEW x \in Nat, NEW y \in Nat
  PROVE  Min({x, y}) \in Nat /\ Min({x, y}) <= x /\ Min({x, y}) <= y /\ Min({x, y}) \in {x, y}
<1>1. {x, y} \in SUBSET Nat /\ {x, y} # {}
  OBVIOUS
<1> QED
  BY <1>1, LeastElement

(* memcmp answers by the first place where the blocks differ.              *)
Differ(m, a, b, n) == {k \in 0 .. n - 1 : m[a + k] # m[b + k]}

OrderAt(m, a, b, k) == Order(char(m[a + k]), char(m[b + k]))

LEMMA MemcmpIs ==
  ASSUME NEW m, NEW a \in Addr, NEW b \in Addr, NEW size \in Nat
  PROVE  memcmp(m, a, b, size) =
           IF Differ(m, a, b, size) = {} THEN 0 ELSE OrderAt(m, a, b, Min(Differ(m, a, b, size)))
<1> DEFINE from[k \in 0 .. size] ==
             IF k = size THEN 0
             ELSE IF m[a + k] # m[b + k] THEN Order(char(m[a + k]), char(m[b + k]))
             ELSE from[k + 1]
           P == Differ(m, a, b, size)
           found == [k \in 0 .. size |-> OrderAt(m, a, b, k)]
<1>1. ASSUME NEW f
      PROVE  [k \in 0 .. size |->
                IF k = size THEN 0
                ELSE IF m[a + k] # m[b + k] THEN Order(char(m[a + k]), char(m[b + k]))
                ELSE f[k + 1]]
               = Loop(size, P, found, 0, f)
  <2>1. ASSUME NEW k \in 0 .. size, k # size
        PROVE  (k \in P <=> m[a + k] # m[b + k])
               /\ found[k] = Order(char(m[a + k]), char(m[b + k]))
    BY <2>1 DEF Differ, OrderAt
  <2> HIDE DEF P, found
  <2> QED
    BY <2>1 DEF Loop
<1>2. P \in SUBSET (0 .. size - 1) /\ P \in SUBSET Nat
  BY DEF Differ
<1>3. from = Loop(size, P, found, 0, from)
  <2> HIDE DEF P, found
  <2>1. PICK f : f = Loop(size, P, found, 0, f)
    BY <1>2, Search
  <2>2. \E g : g = [k \in 0 .. size |->
                IF k = size THEN 0
                ELSE IF m[a + k] # m[b + k] THEN Order(char(m[a + k]), char(m[b + k]))
                ELSE g[k + 1]]
    BY <1>1, <2>1
  <2>3. from = [k \in 0 .. size |->
                IF k = size THEN 0
                ELSE IF m[a + k] # m[b + k] THEN Order(char(m[a + k]), char(m[b + k]))
                ELSE from[k + 1]]
    BY <2>2
  <2> HIDE DEF from
  <2> QED
    BY <1>1, <2>3
<1>4. memcmp(m, a, b, size) = from[0]
  BY DEF memcmp
<1> HIDE DEF from
<1>5. from[0] = Found(P, found, 0, 0)
  <2>1. 0 \in 0 .. size
    OBVIOUS
  <2> HIDE DEF P, found
  <2> QED
    BY <1>2, <1>3, <2>1, Search
<1>6. CASE P = {}
  <2>1. Found(P, found, 0, 0) = 0
    BY <1>2, <1>6, FoundNothing
  <2> QED
    BY <1>4, <1>5, <1>6, <2>1
<1>7. CASE P # {}
  <2>1. PICK e : e = Min(P)
    OBVIOUS
  <2>2. e \in P /\ \A j \in P : e <= j
    <3> HIDE DEF P
    <3> QED BY <1>2, <1>7, <2>1, LeastElement
  <2>3. e \in 0 .. size /\ 0 <= e
    BY <1>2, <2>2
  <2>4. Found(P, found, 0, 0) = found[e]
    <3> HIDE DEF P, found
    <3> QED BY <1>2, <2>2, <2>3, FoundAt
  <2>5. found[e] = OrderAt(m, a, b, e)
    BY <2>3
  <2> HIDE DEF P, found
  <2> QED
    BY <1>4, <1>5, <1>7, <2>1, <2>4, <2>5 DEF P
<1> QED
  BY <1>6, <1>7

(* strcmp by the first place where the strings differ or the first ends.   *)
LEMMA StrcmpAt ==
  ASSUME NEW m, NEW a \in Addr, NEW b \in Addr, NEW e \in Nat, a + e \in Addr, b + e \in Addr,
         m[a + e] = 0 \/ m[a + e] # m[b + e],
         \A k \in 0 .. e - 1 : m[a + k] # 0 /\ m[a + k] = m[b + k]
  PROVE  strcmp(m, a, b) = OrderAt(m, a, b, e)
<1> DEFINE room == Min({Size - a, Size - b})
           from[k \in 0 .. room] ==
             IF k = room THEN Off
             ELSE IF m[a + k] # 0 /\ m[a + k] = m[b + k] THEN from[k + 1]
             ELSE Order(char(m[a + k]), char(m[b + k]))
           P == {k \in 0 .. room - 1 : ~ (m[a + k] # 0 /\ m[a + k] = m[b + k])}
           found == [k \in 0 .. room |-> OrderAt(m, a, b, k)]
<1>0. room \in Nat /\ e < room
  <2>1. Size - a \in Nat /\ Size - b \in Nat /\ e < Size - a /\ e < Size - b
    BY ByteSizes DEF Addr
  <2> QED
    BY <2>1, MinPair
<1>4. strcmp(m, a, b) = from[0]
  BY DEF strcmp, CompareWhile
<1> HIDE DEF room
<1>1. ASSUME NEW f
      PROVE  [k \in 0 .. room |->
                IF k = room THEN Off
                ELSE IF m[a + k] # 0 /\ m[a + k] = m[b + k] THEN f[k + 1]
                ELSE Order(char(m[a + k]), char(m[b + k]))]
               = Loop(room, P, found, Off, f)
  <2>1. ASSUME NEW k \in 0 .. room, k # room
        PROVE  (k \in P <=> ~ (m[a + k] # 0 /\ m[a + k] = m[b + k]))
               /\ found[k] = Order(char(m[a + k]), char(m[b + k]))
    BY <1>0, <2>1 DEF OrderAt
  <2> HIDE DEF P, found
  <2> QED
    BY <2>1 DEF Loop
<1>2. P \in SUBSET (0 .. room - 1) /\ P \in SUBSET Nat
  BY <1>0
<1>3. from = Loop(room, P, found, Off, from)
  <2> HIDE DEF P, found
  <2>0. room \in Nat
    BY <1>0
  <2>1. PICK f : f = Loop(room, P, found, Off, f)
    <3> HIDE DEF from
    <3> QED BY <1>2, <2>0, Search
  <2>2. \E g : g = [k \in 0 .. room |->
                IF k = room THEN Off
                ELSE IF m[a + k] # 0 /\ m[a + k] = m[b + k] THEN g[k + 1]
                ELSE Order(char(m[a + k]), char(m[b + k]))]
    BY <1>1, <2>1
  <2>3. from = [k \in 0 .. room |->
                IF k = room THEN Off
                ELSE IF m[a + k] # 0 /\ m[a + k] = m[b + k] THEN from[k + 1]
                ELSE Order(char(m[a + k]), char(m[b + k]))]
    BY <2>2
  <2> HIDE DEF from
  <2> QED
    BY <1>1, <2>3
<1> HIDE DEF from
<1>5. from[0] = Found(P, found, Off, 0)
  <2>1. 0 \in 0 .. room
    BY <1>0
  <2> HIDE DEF P, found
  <2> QED
    BY <1>0, <1>2, <1>3, <2>1, Search
<1>6. e \in P /\ 0 <= e /\ \A j \in P : 0 <= j => e <= j
  BY <1>0
<1>7. Found(P, found, Off, 0) = found[e]
  <2> HIDE DEF P, found
  <2> QED BY <1>2, <1>6, FoundAt
<1>8. found[e] = OrderAt(m, a, b, e)
  BY <1>0
<1> HIDE DEF P, found
<1> QED
  BY <1>4, <1>5, <1>7, <1>8

(* strchr finds the first.                                                 *)
Hits(m, str, e, ch) == {i \in str .. e - 1 : char(m[i]) = ch}

LEMMA StrchrIs ==
  ASSUME NEW m, NEW str \in Addr, NEW e, Ends(m, str, e), NEW ch
  PROVE  strchr(m, str, ch) = IF Hits(m, str, e, ch) = {} THEN NULL ELSE Min(Hits(m, str, e, ch))
<1> DEFINE from[p \in 0 .. Size] ==
             IF p = Size THEN Off
             ELSE IF m[p] = 0 THEN NULL ELSE IF char(m[p]) = ch THEN p ELSE from[p + 1]
           P == {p \in 0 .. Size - 1 : m[p] = 0 \/ char(m[p]) = ch}
           found == [p \in 0 .. Size |-> IF m[p] = 0 THEN NULL ELSE p]
           H == Hits(m, str, e, ch)
<1>1. ASSUME NEW f
      PROVE  [p \in 0 .. Size |->
                IF p = Size THEN Off
                ELSE IF m[p] = 0 THEN NULL ELSE IF char(m[p]) = ch THEN p ELSE f[p + 1]]
               = Loop(Size, P, found, Off, f)
  <2>1. ASSUME NEW p \in 0 .. Size, p # Size
        PROVE  (p \in P <=> m[p] = 0 \/ char(m[p]) = ch)
               /\ found[p] = IF m[p] = 0 THEN NULL ELSE p
    BY <2>1, ByteSizes
  <2> HIDE DEF P, found
  <2> QED
    BY <2>1 DEF Loop
<1>2. Size \in Nat /\ P \in SUBSET (0 .. Size - 1) /\ P \in SUBSET Nat
  BY ByteSizes
<1>3. from = Loop(Size, P, found, Off, from)
  <2> HIDE DEF P, found
  <2>1. PICK f : f = Loop(Size, P, found, Off, f)
    BY <1>2, Search
  <2>2. \E g : g = [p \in 0 .. Size |->
                IF p = Size THEN Off
                ELSE IF m[p] = 0 THEN NULL ELSE IF char(m[p]) = ch THEN p ELSE g[p + 1]]
    BY <1>1, <2>1
  <2>3. from = [p \in 0 .. Size |->
                IF p = Size THEN Off
                ELSE IF m[p] = 0 THEN NULL ELSE IF char(m[p]) = ch THEN p ELSE from[p + 1]]
    BY <2>2
  <2> HIDE DEF from
  <2> QED
    BY <1>1, <2>3
<1>4. strchr(m, str, ch) = from[str]
  BY DEF strchr
<1> HIDE DEF from
<1>5. from[str] = Found(P, found, Off, str)
  <2>1. str \in 0 .. Size
    BY ByteSizes DEF Addr
  <2> HIDE DEF P, found
  <2> QED
    BY <1>2, <1>3, <2>1, Search
<1>6. /\ e \in Nat /\ e < Size /\ str \in Nat /\ str <= e /\ m[e] = 0
      /\ \A i \in Nat : str <= i /\ i < e => m[i] # 0
  BY ByteSizes DEF Ends, Addr
<1>7. CASE H = {}
  <2>1. e \in P /\ \A j \in P : str <= j => e <= j
    <3>1. ASSUME NEW j \in P, str <= j, j < e PROVE FALSE
      BY <1>6, <1>7, <3>1 DEF Hits
    <3> QED
      BY <1>2, <1>6, <3>1
  <2>2. Found(P, found, Off, str) = found[e]
    <3> HIDE DEF P, found
    <3> QED BY <1>2, <1>6, <2>1, FoundAt
  <2>3. found[e] = NULL
    BY <1>2, <1>6
  <2> HIDE DEF P, found
  <2> QED
    BY <1>4, <1>5, <1>7, <2>2, <2>3
<1>8. CASE H # {}
  <2>1. PICK h : h = Min(H)
    OBVIOUS
  <2>2. h \in H /\ \A j \in H : h <= j
    <3>1. H \in SUBSET Nat
      BY <1>6 DEF Hits
    <3> HIDE DEF H
    <3> QED BY <1>8, <2>1, <3>1, LeastElement
  <2>3. h \in Nat /\ str <= h /\ h < e /\ char(m[h]) = ch
    BY <1>6, <2>2 DEF Hits
  <2>4. h \in P /\ \A j \in P : str <= j => h <= j
    <3>1. ASSUME NEW j \in P, str <= j, j < h PROVE FALSE
      <4>1. j \in Nat /\ j < e /\ m[j] # 0
        BY <1>2, <1>6, <2>3, <3>1
      <4>2. j \in H
        BY <1>6, <3>1, <4>1 DEF Hits
      <4> QED
        BY <2>2, <2>3, <3>1, <4>1, <4>2
    <3>2. h \in P
      BY <1>2, <1>6, <2>3
    <3> QED
      BY <1>2, <2>3, <3>1, <3>2
  <2>5. Found(P, found, Off, str) = found[h]
    <3> HIDE DEF P, found, H
    <3> QED BY <1>2, <1>6, <2>3, <2>4, FoundAt
  <2>6. found[h] = h
    BY <1>2, <1>6, <2>3
  <2> HIDE DEF P, found
  <2> QED
    BY <1>4, <1>5, <1>8, <2>1, <2>5, <2>6
<1> QED
  BY <1>7, <1>8

(* memset sets size bytes.                                                 *)
Filled(m, dst, value, k) == [x \in Addr |-> IF x - dst \in 0 .. k - 1 THEN value ELSE m[x]]

LEMMA FilledStep ==
  ASSUME NEW m \in Contents, NEW dst \in Addr, NEW value, NEW k \in Nat \ {0}, dst + k <= Size
  PROVE  Filled(m, dst, value, k) = [Filled(m, dst, value, k - 1) EXCEPT ![dst + k - 1] = value]
<1>1. ASSUME NEW x \in Addr
      PROVE  (x - dst \in 0 .. k - 1) <=> (x = dst + k - 1 \/ x - dst \in 0 .. k - 1 - 1)
  BY <1>1, ByteSizes DEF Addr
<1>2. PICK y : y = dst + k - 1
  OBVIOUS
<1>3. y \in Addr
  BY <1>2, ByteSizes DEF Addr
<1>4. \A x \in Addr : Filled(m, dst, value, k)[x] =
                        IF x = y THEN value ELSE Filled(m, dst, value, k - 1)[x]
  BY <1>1, <1>2 DEF Filled
<1>5. [Filled(m, dst, value, k - 1) EXCEPT ![y] = value] =
        [x \in Addr |-> IF x = y THEN value ELSE Filled(m, dst, value, k - 1)[x]]
  BY <1>3 DEF Filled
<1>6. Filled(m, dst, value, k) =
        [x \in Addr |-> IF x = y THEN value ELSE Filled(m, dst, value, k - 1)[x]]
  <2>1. Filled(m, dst, value, k) = [x \in Addr |-> Filled(m, dst, value, k)[x]]
    BY DEF Filled
  <2> QED
    BY <1>4, <2>1
<1> QED
  BY <1>2, <1>5, <1>6

LEMMA MemsetIs ==
  ASSUME NEW m \in Contents, NEW dst \in Addr, NEW value, NEW size \in Nat, dst + size <= Size
  PROVE  memset(m, dst, value, size) = Filled(m, dst, value, size)
<1> DEFINE set[k \in 0 .. size] ==
             IF k = 0 THEN m ELSE [set[k - 1] EXCEPT ![dst + k - 1] = value]
           F == [k \in 0 .. size |-> Filled(m, dst, value, k)]
<1>1. F = [k \in 0 .. size |-> IF k = 0 THEN m ELSE [F[k - 1] EXCEPT ![dst + k - 1] = value]]
  <2>1. Filled(m, dst, value, 0) = m
    BY ByteSizes DEF Filled, Contents, Addr
  <2>2. ASSUME NEW k \in 0 .. size, k # 0
        PROVE  Filled(m, dst, value, k) = [F[k - 1] EXCEPT ![dst + k - 1] = value]
    <3>1. k \in Nat \ {0} /\ dst + k <= Size /\ F[k - 1] = Filled(m, dst, value, k - 1)
      BY <2>2, ByteSizes DEF Addr
    <3> HIDE DEF F
    <3> QED
      BY <3>1, FilledStep
  <2> QED
    BY <2>1, <2>2
<1>2. \E f : f = [k \in 0 .. size |->
                    IF k = 0 THEN m ELSE [f[k - 1] EXCEPT ![dst + k - 1] = value]]
  <2> HIDE DEF F
  <2> QED BY <1>1
<1>3. set = [k \in 0 .. size |-> IF k = 0 THEN m ELSE [set[k - 1] EXCEPT ![dst + k - 1] = value]]
  BY <1>2
<1>4. memset(m, dst, value, size) = set[size]
  BY DEF memset
<1> HIDE DEF set, F
<1> DEFINE T == {k \in 0 .. size : set[k] = F[k]}
<1>5. 0 \in T
  BY <1>1, <1>3
<1>6. ASSUME NEW j \in 1 .. size, j - 1 \in T PROVE j \in T
  <2>1. j \in 0 .. size /\ j # 0
    OBVIOUS
  <2>2. /\ set[j] = [set[j - 1] EXCEPT ![dst + j - 1] = value]
        /\ F[j] = [F[j - 1] EXCEPT ![dst + j - 1] = value]
    BY <1>1, <1>3, <2>1
  <2> QED
    BY <1>6, <2>1, <2>2
<1> HIDE DEF T
<1>6b. ASSUME NEW k \in 0 .. size - 1, k \in T PROVE k + 1 \in T
  <2>1. k + 1 \in 1 .. size /\ k + 1 - 1 = k
    OBVIOUS
  <2> QED
    BY <1>6, <1>6b, <2>1
<1>7. \A k \in 0 .. size : k \in T
  BY <1>5, <1>6b, UpTo
<1> QED
  BY <1>4, <1>7 DEF T, F

(* Where the byte comes from that pass j of a copy stores: when dst is     *)
(* inside the source, from one that was stored before.                     *)
Source(dst, src, j) == IF src < dst THEN src + (j % (dst - src)) ELSE src + j

Moved(m, dst, src, k) ==
  [x \in Addr |-> IF x - dst \in 0 .. k - 1 THEN m[Source(dst, src, x - dst)] ELSE m[x]]

LEMMA Quotient ==
  ASSUME NEW n \in Nat, NEW c \in Nat \ {0}
  PROVE  n % c \in 0 .. c - 1 /\ n \div c \in Nat /\ n = (c * (n \div c)) + (n % c)
OBVIOUS

LEMMA RemainderIs ==
  ASSUME NEW c \in Nat \ {0}, NEW q \in Nat, NEW r \in 0 .. c - 1
  PROVE  ((c * q) + r) % c = r
OBVIOUS

LEMMA Remainder ==
  ASSUME NEW d \in Nat \ {0}, NEW j \in Nat
  PROVE  /\ j < d => j % d = j
         /\ d <= j => j % d = (j - d) % d
<1>1. PICK q \in Nat, r \in 0 .. d - 1 : j = (d * q) + r /\ j % d = r
  BY Quotient
<1>2. CASE q = 0
  <2>1. d * q = 0
    BY <1>2
  <2> QED
    BY <1>1, <2>1
<1>3. CASE q # 0
  <2>1. PICK p \in Nat : q = p + 1
    BY <1>3
  <2>2. d * q = (d * p) + d /\ d * p \in Nat
    BY <2>1
  <2>3. j - d = (d * p) + r /\ d <= j
    BY <1>1, <2>2
  <2>4. (j - d) % d = r
    BY <2>3, RemainderIs
  <2> QED
    BY <1>1, <2>3, <2>4
<1> QED
  BY <1>2, <1>3

(* What pass k + 1 reads.                                                  *)
LEMMA MovedByte ==
  ASSUME NEW m \in Contents, NEW dst \in Addr, NEW src \in Addr, NEW k \in Nat, src + k \in Addr
  PROVE  /\ Moved(m, dst, src, k)[src + k] = m[Source(dst, src, k)]
         /\ Source(dst, src, k) \in Addr
         /\ dst <= src \/ src + k < dst => Source(dst, src, k) = src + k
<1>1. PICK z : z = src + k
  OBVIOUS
<1>2. /\ dst \in Nat /\ src \in Nat /\ Size \in Nat /\ dst < Size /\ src < Size
      /\ z \in Addr /\ z \in Nat /\ z < Size
  BY <1>1, ByteSizes DEF Addr
<1>3. Moved(m, dst, src, k)[z] = IF z - dst \in 0 .. k - 1 THEN m[Source(dst, src, z - dst)] ELSE m[z]
  BY <1>2 DEF Moved
<1>4. CASE dst <= src
  <2>1. ~ (z - dst \in 0 .. k - 1) /\ Source(dst, src, k) = z
    BY <1>1, <1>2, <1>4 DEF Source
  <2> QED
    BY <1>1, <1>2, <1>3, <2>1
<1>5. CASE src < dst
  <2> DEFINE d == dst - src
  <2>1. d \in Nat \ {0} /\ z - dst = k - d
    BY <1>1, <1>2, <1>5
  <2>2. Source(dst, src, k) = src + (k % d)
    BY <1>5 DEF Source
  <2>3. CASE k < d
    <3>1. k % d = k
      <4> HIDE DEF d
      <4> QED BY <2>1, <2>3, Remainder
    <3>2. ~ (z - dst \in 0 .. k - 1) /\ src + k = z
      BY <1>1, <1>2, <2>1, <2>3
    <3> QED
      BY <1>1, <1>2, <1>3, <2>2, <3>1, <3>2
  <2>4. CASE d <= k
    <3>1. k % d = (k - d) % d
      <4> HIDE DEF d
      <4> QED BY <2>1, <2>4, Remainder
    <3>2. Source(dst, src, z - dst) = src + ((k - d) % d)
      BY <1>5, <2>1 DEF Source
    <3>3. z - dst \in 0 .. k - 1
      BY <1>2, <2>1, <2>4
    <3>4. PICK q \in Nat, r \in 0 .. d - 1 : k = (d * q) + r /\ k % d = r
      <4> HIDE DEF d
      <4> QED BY <2>1, Quotient
    <3>5. src + r \in Addr
      BY <1>2, <1>5, <3>4 DEF Addr
    <3>6. ~ (src + k < dst) /\ ~ (dst <= src)
      BY <1>2, <1>5, <2>4
    <3> HIDE DEF d
    <3> QED
      BY <1>1, <1>3, <2>1, <2>2, <3>1, <3>2, <3>3, <3>4, <3>5, <3>6
  <2> HIDE DEF d
  <2> QED
    BY <2>1, <2>3, <2>4
<1> QED
  BY <1>2, <1>4, <1>5

LEMMA MovedStep ==
  ASSUME NEW m \in Contents, NEW dst \in Addr, NEW src \in Addr, NEW k \in Nat \ {0},
         dst + k <= Size, src + k <= Size
  PROVE  Moved(m, dst, src, k) =
           [Moved(m, dst, src, k - 1) EXCEPT ![dst + k - 1] = Moved(m, dst, src, k - 1)[src + k - 1]]
<1> DEFINE M == Moved(m, dst, src, k - 1)
<1>1. PICK y, z : y = dst + k - 1 /\ z = src + k - 1
  OBVIOUS
<1>2. /\ dst \in Nat /\ src \in Nat /\ Size \in Nat /\ dst < Size /\ src < Size
      /\ y \in Addr /\ z \in Addr /\ y - dst = k - 1 /\ k - 1 \in Nat /\ z = src + (k - 1)
  BY <1>1, ByteSizes DEF Addr
<1>3. M[z] = m[Source(dst, src, k - 1)]
  BY <1>2, MovedByte
<1>4. ASSUME NEW x \in Addr
      PROVE  (x - dst \in 0 .. k - 1) <=> (x = y \/ x - dst \in 0 .. k - 1 - 1)
  BY <1>1, <1>2, <1>4 DEF Addr
<1>5. \A x \in Addr : Moved(m, dst, src, k)[x] = IF x = y THEN M[z] ELSE M[x]
  <2>1. ASSUME NEW x \in Addr, x = y PROVE Moved(m, dst, src, k)[x] = M[z]
    <3>1. x - dst = k - 1 /\ x - dst \in 0 .. k - 1
      BY <1>2, <1>4, <2>1
    <3> QED
      BY <1>3, <3>1 DEF Moved
  <2>2. ASSUME NEW x \in Addr, x # y PROVE Moved(m, dst, src, k)[x] = M[x]
    BY <1>4, <2>2 DEF Moved
  <2> QED
    BY <2>1, <2>2
<1>6. [M EXCEPT ![y] = M[z]] = [x \in Addr |-> IF x = y THEN M[z] ELSE M[x]]
  BY <1>2 DEF Moved
<1>7. Moved(m, dst, src, k) = [x \in Addr |-> Moved(m, dst, src, k)[x]]
  BY DEF Moved
<1>8. Moved(m, dst, src, k) = [x \in Addr |-> IF x = y THEN M[z] ELSE M[x]]
  <2> HIDE DEF M
  <2> QED BY <1>5, <1>7
<1> HIDE DEF M
<1>9. Moved(m, dst, src, k) = [M EXCEPT ![y] = M[z]]
  BY <1>6, <1>8
<1> QED
  BY <1>1, <1>9 DEF M

LEMMA CopiedIs ==
  ASSUME NEW m \in Contents, NEW dst \in Addr, NEW src \in Addr, NEW n \in Nat,
         dst + n <= Size, src + n <= Size
  PROVE  \A k \in 0 .. n : Copied(m, dst, src, n)[k] = Moved(m, dst, src, k)
<1> DEFINE copy[k \in 0 .. n] ==
             IF k = 0 THEN m ELSE [copy[k - 1] EXCEPT ![dst + k - 1] = copy[k - 1][src + k - 1]]
           F == [k \in 0 .. n |-> Moved(m, dst, src, k)]
<1>1. F = [k \in 0 .. n |->
             IF k = 0 THEN m ELSE [F[k - 1] EXCEPT ![dst + k - 1] = F[k - 1][src + k - 1]]]
  <2>1. Moved(m, dst, src, 0) = m
    BY ByteSizes DEF Moved, Contents, Addr
  <2>2. ASSUME NEW k \in 0 .. n, k # 0
        PROVE  Moved(m, dst, src, k) = [F[k - 1] EXCEPT ![dst + k - 1] = F[k - 1][src + k - 1]]
    <3>1. /\ k \in Nat \ {0} /\ dst + k <= Size /\ src + k <= Size
          /\ F[k - 1] = Moved(m, dst, src, k - 1)
      BY <2>2, ByteSizes DEF Addr
    <3> HIDE DEF F
    <3> QED
      BY <3>1, MovedStep
  <2> QED
    BY <2>1, <2>2
<1>2. \E f : f = [k \in 0 .. n |->
             IF k = 0 THEN m ELSE [f[k - 1] EXCEPT ![dst + k - 1] = f[k - 1][src + k - 1]]]
  <2> HIDE DEF F
  <2> QED BY <1>1
<1>3. copy = [k \in 0 .. n |->
             IF k = 0 THEN m ELSE [copy[k - 1] EXCEPT ![dst + k - 1] = copy[k - 1][src + k - 1]]]
  BY <1>2
<1>4. Copied(m, dst, src, n) = copy
  BY DEF Copied
<1> HIDE DEF copy, F
<1> DEFINE T == {k \in 0 .. n : copy[k] = F[k]}
<1>5. 0 \in T
  BY <1>1, <1>3
<1>6. ASSUME NEW j \in 1 .. n, j - 1 \in T PROVE j \in T
  <2>1. j \in 0 .. n /\ j # 0
    OBVIOUS
  <2>2. /\ copy[j] = [copy[j - 1] EXCEPT ![dst + j - 1] = copy[j - 1][src + j - 1]]
        /\ F[j] = [F[j - 1] EXCEPT ![dst + j - 1] = F[j - 1][src + j - 1]]
    BY <1>1, <1>3, <2>1
  <2> QED
    BY <1>6, <2>1, <2>2
<1> HIDE DEF T
<1>6b. ASSUME NEW k \in 0 .. n - 1, k \in T PROVE k + 1 \in T
  <2>1. k + 1 \in 1 .. n /\ k + 1 - 1 = k
    OBVIOUS
  <2> QED
    BY <1>6, <1>6b, <2>1
<1>7. \A k \in 0 .. n : k \in T
  BY <1>5, <1>6b, UpTo
<1> QED
  BY <1>4, <1>7 DEF T, F

(* strcpy and strcat copy up to and with the first 0 that they read.       *)
Room(dst, src) == Min({Size - dst, Size - src})

ZeroRead(m, dst, src) == {k \in 0 .. Room(dst, src) - 1 : m[Source(dst, src, k)] = 0}

After(m, dst, src) == [k \in 0 .. Room(dst, src) |-> Moved(m, dst, src, k + 1)]

LEMMA RoomIs ==
  ASSUME NEW dst \in Addr, NEW src \in Addr
  PROVE  /\ Room(dst, src) \in Nat /\ dst + Room(dst, src) <= Size /\ src + Room(dst, src) <= Size
         /\ \A n \in Nat : dst + n <= Size /\ src + n <= Size => n <= Room(dst, src)
<1>1. PICK x \in Nat, y \in Nat : x = Size - dst /\ y = Size - src /\ x \in Nat /\ y \in Nat
  BY ByteSizes DEF Addr
<1>2. PICK r : r = Room(dst, src)
  OBVIOUS
<1>3. r \in Nat /\ r <= x /\ r <= y /\ r \in {x, y}
  BY <1>1, <1>2, MinPair DEF Room
<1> QED
  BY <1>1, <1>2, <1>3, ByteSizes DEF Addr

LEMMA CopyFinds ==
  ASSUME NEW m \in Contents, NEW dst \in Addr, NEW src \in Addr
  PROVE  Copy(m, dst, src) = Found(ZeroRead(m, dst, src), After(m, dst, src), Off, 0)
<1> DEFINE room == Room(dst, src)
           copy == Copied(m, dst, src, room)
           stop[k \in 0 .. room] ==
             IF k = room THEN Off ELSE IF copy[k][src + k] = 0 THEN copy[k + 1] ELSE stop[k + 1]
           P == ZeroRead(m, dst, src)
           found == After(m, dst, src)
<1>1. Copy(m, dst, src) = stop[0]
  BY DEF Copy, Room
<1>2. room \in Nat /\ dst + room <= Size /\ src + room <= Size
  BY RoomIs
<1> HIDE DEF room
<1>3. \A k \in 0 .. room : copy[k] = Moved(m, dst, src, k)
  BY <1>2, CopiedIs
<1> HIDE DEF copy
<1>4. ASSUME NEW k \in 0 .. room, k # room
      PROVE  (k \in P <=> copy[k][src + k] = 0) /\ found[k] = copy[k + 1]
  <2>1. k \in Nat /\ src + k \in Addr /\ k + 1 \in 0 .. room /\ k \in 0 .. room - 1
    BY <1>2, <1>4, ByteSizes DEF Addr
  <2>2. copy[k][src + k] = m[Source(dst, src, k)]
    BY <1>3, <2>1, MovedByte
  <2>3. found[k] = copy[k + 1]
    BY <1>3, <2>1 DEF After, room
  <2> QED
    BY <2>1, <2>2, <2>3 DEF ZeroRead, room
<1>5. ASSUME NEW f
      PROVE  [k \in 0 .. room |->
                IF k = room THEN Off ELSE IF copy[k][src + k] = 0 THEN copy[k + 1] ELSE f[k + 1]]
               = Loop(room, P, found, Off, f)
  <2> HIDE DEF P, found
  <2> QED
    BY <1>4 DEF Loop
<1>6. P \in SUBSET (0 .. room - 1)
  BY DEF ZeroRead, room
<1>7. stop = Loop(room, P, found, Off, stop)
  <2> HIDE DEF P, found
  <2>1. PICK f : f = Loop(room, P, found, Off, f)
    <3> HIDE DEF stop
    <3> QED BY <1>2, <1>6, Search
  <2>2. \E g : g = [k \in 0 .. room |->
                IF k = room THEN Off ELSE IF copy[k][src + k] = 0 THEN copy[k + 1] ELSE g[k + 1]]
    BY <1>5, <2>1
  <2>3. stop = [k \in 0 .. room |->
                IF k = room THEN Off ELSE IF copy[k][src + k] = 0 THEN copy[k + 1] ELSE stop[k + 1]]
    BY <2>2
  <2> HIDE DEF stop
  <2> QED
    BY <1>5, <2>3
<1> HIDE DEF stop
<1>8. 0 \in 0 .. room
  BY <1>2
<1>9. stop[0] = Found(P, found, Off, 0)
  <2> HIDE DEF P, found
  <2> QED
    BY <1>2, <1>6, <1>7, <1>8, Search
<1> QED
  BY <1>1, <1>9

LEMMA CopyIs ==
  ASSUME NEW m \in Contents, NEW dst \in Addr, NEW src \in Addr, NEW e, Ends(m, src, e),
         dst + (e - src + 1) <= Size, dst <= src \/ dst >= src + (e - src + 1)
  PROVE  Copy(m, dst, src) = Moved(m, dst, src, e - src + 1)
<1> DEFINE P == ZeroRead(m, dst, src)
           room == Room(dst, src)
<1>1. PICK n \in Nat : n = e - src /\ e = src + n
  BY ByteSizes DEF Ends, Addr
<1>2. room \in Nat /\ n + 1 <= room /\ src + room <= Size
  <2>1. /\ n + 1 \in Nat /\ dst + (n + 1) <= Size /\ src + (n + 1) <= Size
    BY <1>1, ByteSizes DEF Ends, Addr
  <2> QED
    BY <2>1, RoomIs
<1> HIDE DEF room
<1>3. ASSUME NEW k \in 0 .. n PROVE Source(dst, src, k) = src + k
  <2>1. k \in Nat /\ src + k \in Addr /\ (dst <= src \/ src + k < dst)
    BY <1>1, <1>2, ByteSizes DEF Addr
  <2> QED
    BY <2>1, MovedByte, Zenon DEF Source
<1>4. P = {k \in 0 .. room - 1 : m[Source(dst, src, k)] = 0}
  BY DEF ZeroRead, room
<1>5. n \in P
  BY <1>1, <1>2, <1>3, <1>4 DEF Ends
<1>6. ASSUME NEW k \in P, k < n PROVE FALSE
  <2>1. k \in 0 .. n /\ src + k \in src .. e - 1
    BY <1>1, <1>2, <1>4, <1>6, ByteSizes DEF Addr
  <2>2. m[src + k] = 0
    BY <1>3, <1>4, <1>6, <2>1
  <2> QED
    BY <2>1, <2>2 DEF Ends
<1>7. P \in SUBSET Nat /\ \A j \in P : 0 <= j => n <= j
  BY <1>2, <1>4, <1>6
<1>8. Copy(m, dst, src) = After(m, dst, src)[n]
  <2>1. Copy(m, dst, src) = Found(P, After(m, dst, src), Off, 0)
    BY CopyFinds
  <2> HIDE DEF P
  <2> QED
    BY <1>5, <1>7, <2>1, FoundAt
<1>9. After(m, dst, src)[n] = Moved(m, dst, src, n + 1)
  BY <1>2 DEF After, room
<1> QED
  BY <1>1, <1>8, <1>9

LEMMA MovedType ==
  ASSUME NEW m \in Contents, NEW dst \in Addr, NEW src \in Addr, NEW k \in Nat, src + k <= Size
  PROVE  Moved(m, dst, src, k) \in Contents
<1>1. ASSUME NEW x \in Addr, x - dst \in 0 .. k - 1 PROVE Source(dst, src, x - dst) \in Addr
  <2>1. x - dst \in Nat /\ src + (x - dst) \in Addr
    BY <1>1, ByteSizes DEF Addr
  <2> QED
    BY <2>1, MovedByte
<1> QED
  BY <1>1 DEF Moved, Contents

LEMMA CopyType ==
  ASSUME NEW m \in Contents, NEW dst \in Addr, NEW src \in Addr, Copy(m, dst, src) # Off
  PROVE  Copy(m, dst, src) \in Contents
<1> DEFINE P == ZeroRead(m, dst, src)
           found == After(m, dst, src)
           room == Room(dst, src)
<1>1. Copy(m, dst, src) = Found(P, found, Off, 0)
  BY CopyFinds
<1>2. room \in Nat /\ src + room <= Size
  BY RoomIs
<1>3. P \in SUBSET Nat /\ P \in SUBSET (0 .. room - 1)
  BY <1>2 DEF ZeroRead
<1>4. P # {}
  <2>1. P = {} => Found(P, found, Off, 0) = Off
    BY <1>3, FoundNothing
  <2> QED
    BY <1>1, <2>1
<1>5. PICK k \in P : \A j \in P : k <= j
  <2> HIDE DEF P
  <2> QED BY <1>3, <1>4, LeastElement
<1>6. k \in 0 .. room - 1 /\ 0 <= k
  BY <1>2, <1>3
<1>7. Found(P, found, Off, 0) = found[k]
  <2> HIDE DEF P, found
  <2> QED BY <1>3, <1>5, <1>6, FoundAt
<1>8. found[k] = Moved(m, dst, src, k + 1)
  BY <1>2, <1>6 DEF After
<1>9. k + 1 \in Nat /\ src + (k + 1) <= Size
  <2> HIDE DEF room, P
  <2> QED BY <1>2, <1>6, ByteSizes DEF Addr
<1>10. found[k] \in Contents
  <2> HIDE DEF found
  <2> QED BY <1>8, <1>9, MovedType
<1> QED
  BY <1>1, <1>7, <1>10

(* strrchr finds the last, strchrs counts them.                            *)
LastHit(m, str, p, ch) ==
  IF Hits(m, str, p, ch) = {} THEN NULL ELSE Max(Hits(m, str, p, ch))

LEMMA LastHitNext ==
  ASSUME NEW m, NEW str \in Nat, NEW p \in Nat, str <= p, NEW ch
  PROVE  LastHit(m, str, p + 1, ch) = IF char(m[p]) = ch THEN p ELSE LastHit(m, str, p, ch)
<1> DEFINE H == Hits(m, str, p, ch)
           I == Hits(m, str, p + 1, ch)
<1> HIDE DEF H, I
<1>1. H \in SUBSET (str .. p - 1) /\ I = IF char(m[p]) = ch THEN H \union {p} ELSE H
  BY DEF Hits, H, I
<1>2. CASE char(m[p]) = ch
  <2>1. p \in I /\ \A i \in I : i \in Nat /\ p >= i
    BY <1>1, <1>2
  <2>2. PICK x : x = Max(I)
    OBVIOUS
  <2>3. x \in I /\ \A i \in I : x >= i
    BY <2>1, <2>2 DEF Max
  <2>4. x = p
    BY <2>1, <2>3
  <2> QED
    BY <1>2, <2>1, <2>2, <2>4 DEF LastHit, I
<1>3. CASE char(m[p]) # ch
  BY <1>1, <1>3 DEF LastHit, H, I
<1> QED
  BY <1>2, <1>3

LEMMA StrrchrIs ==
  ASSUME NEW m, NEW str \in Addr, NEW e, Ends(m, str, e), NEW ch
  PROVE  strrchr(m, str, ch) = LastHit(m, str, e, ch)
<1> DEFINE last[p \in str .. e] ==
             IF p = str THEN NULL ELSE IF char(m[p - 1]) = ch THEN p - 1 ELSE last[p - 1]
           F == [p \in str .. e |-> LastHit(m, str, p, ch)]
<1>1. str \in Nat /\ e \in Nat /\ str <= e
  BY ByteSizes DEF Ends, Addr
<1>2. F = [p \in str .. e |->
             IF p = str THEN NULL ELSE IF char(m[p - 1]) = ch THEN p - 1 ELSE F[p - 1]]
  <2>1. LastHit(m, str, str, ch) = NULL
    BY <1>1 DEF LastHit, Hits
  <2>2. ASSUME NEW p \in str .. e, p # str
        PROVE  LastHit(m, str, p, ch) = IF char(m[p - 1]) = ch THEN p - 1 ELSE F[p - 1]
    <3>1. PICK q : q = p - 1
      OBVIOUS
    <3>2. q \in Nat /\ str <= q /\ p = q + 1 /\ F[q] = LastHit(m, str, q, ch)
      BY <1>1, <2>2, <3>1
    <3> HIDE DEF F
    <3> QED
      BY <1>1, <3>1, <3>2, LastHitNext
  <2> QED
    BY <2>1, <2>2
<1>3. \E f : f = [p \in str .. e |->
             IF p = str THEN NULL ELSE IF char(m[p - 1]) = ch THEN p - 1 ELSE f[p - 1]]
  <2> HIDE DEF F
  <2> QED BY <1>2
<1>4. last = [p \in str .. e |->
             IF p = str THEN NULL ELSE IF char(m[p - 1]) = ch THEN p - 1 ELSE last[p - 1]]
  BY <1>3
<1>5. strrchr(m, str, ch) = last[e]
  <2>1. Behind(m, str) = e
    BY BehindIs
  <2> QED
    BY <2>1 DEF strrchr
<1> HIDE DEF last, F
<1> DEFINE T == {k \in 0 .. e - str : last[str + k] = F[str + k]}
<1>6. 0 \in T
  BY <1>1, <1>2, <1>4
<1>7. ASSUME NEW k \in 0 .. e - str - 1, k \in T PROVE k + 1 \in T
  <2>1. PICK p : p = str + (k + 1)
    OBVIOUS
  <2>2. p \in str .. e /\ p # str /\ p - 1 = str + k /\ k + 1 \in 0 .. e - str
    BY <1>1, <1>7, <2>1
  <2>3. last[p] = F[p]
    BY <1>2, <1>4, <1>7, <2>2
  <2> QED
    BY <2>1, <2>2, <2>3
<1>8. e - str \in Nat /\ str + (e - str) = e
  BY <1>1
<1> HIDE DEF T
<1>9. e - str \in T
  <2>1. \A k \in 0 .. e - str : k \in T
    BY <1>6, <1>7, <1>8, UpTo
  <2> QED
    BY <1>8, <2>1
<1>10. F[e] = LastHit(m, str, e, ch)
  BY <1>1 DEF F
<1> QED
  BY <1>5, <1>8, <1>9, <1>10 DEF T

LEMMA CountNext ==
  ASSUME NEW m, NEW str \in Nat, NEW p \in Nat, str <= p, NEW ch
  PROVE  Cardinality(Hits(m, str, p + 1, ch)) =
           Cardinality(Hits(m, str, p, ch)) + IF char(m[p]) = ch THEN 1 ELSE 0
<1> DEFINE H == Hits(m, str, p, ch)
           I == Hits(m, str, p + 1, ch)
<1> HIDE DEF H, I
<1>1. H \in SUBSET (str .. p - 1) /\ I = IF char(m[p]) = ch THEN H \union {p} ELSE H
  BY DEF Hits, H, I
<1>2. IsFiniteSet(H) /\ Cardinality(H) \in Nat /\ p \notin H
  <2>1. IsFiniteSet(str .. p - 1)
    BY FS_Interval
  <2>2. IsFiniteSet(H)
    BY <1>1, <2>1, FS_Subset
  <2>3. p \notin H
    BY <1>1
  <2> QED
    BY <2>2, <2>3, FS_CardinalityType
<1>3. CASE char(m[p]) = ch
  <2>1. Cardinality(I) = Cardinality(H) + 1
    BY <1>1, <1>2, <1>3, FS_AddElement
  <2> QED
    BY <1>3, <2>1 DEF H, I
<1>4. CASE char(m[p]) # ch
  <2>1. Cardinality(I) = Cardinality(H) + 0
    BY <1>1, <1>2, <1>4
  <2> QED
    BY <1>4, <2>1 DEF H, I
<1> QED
  BY <1>3, <1>4

LEMMA StrchrsIs ==
  ASSUME NEW m, NEW str \in Addr, NEW e, Ends(m, str, e), NEW ch
  PROVE  strchrs(m, str, ch) = Cardinality(Hits(m, str, e, ch))
<1> DEFINE cnt[p \in str .. e] ==
             IF p = str THEN 0 ELSE cnt[p - 1] + IF char(m[p - 1]) = ch THEN 1 ELSE 0
           F == [p \in str .. e |-> Cardinality(Hits(m, str, p, ch))]
<1>1. str \in Nat /\ e \in Nat /\ str <= e
  BY ByteSizes DEF Ends, Addr
<1>2. F = [p \in str .. e |->
             IF p = str THEN 0 ELSE F[p - 1] + IF char(m[p - 1]) = ch THEN 1 ELSE 0]
  <2>1. Cardinality(Hits(m, str, str, ch)) = 0
    <3>1. Hits(m, str, str, ch) = {}
      BY <1>1 DEF Hits
    <3> QED
      BY <3>1, FS_EmptySet
  <2>2. ASSUME NEW p \in str .. e, p # str
        PROVE  Cardinality(Hits(m, str, p, ch)) = F[p - 1] + IF char(m[p - 1]) = ch THEN 1 ELSE 0
    <3>1. PICK q : q = p - 1
      OBVIOUS
    <3>2. q \in Nat /\ str <= q /\ p = q + 1 /\ F[q] = Cardinality(Hits(m, str, q, ch))
      BY <1>1, <2>2, <3>1
    <3> HIDE DEF F
    <3> QED
      BY <1>1, <3>1, <3>2, CountNext
  <2> QED
    BY <2>1, <2>2
<1>3. \E f : f = [p \in str .. e |->
             IF p = str THEN 0 ELSE f[p - 1] + IF char(m[p - 1]) = ch THEN 1 ELSE 0]
  <2> HIDE DEF F
  <2> QED BY <1>2
<1>4. cnt = [p \in str .. e |->
             IF p = str THEN 0 ELSE cnt[p - 1] + IF char(m[p - 1]) = ch THEN 1 ELSE 0]
  BY <1>3
<1>5. strchrs(m, str, ch) = cnt[e]
  <2>1. Behind(m, str) = e
    BY BehindIs
  <2> QED
    BY <2>1 DEF strchrs, CountFrom
<1> HIDE DEF cnt, F
<1> DEFINE T == {k \in 0 .. e - str : cnt[str + k] = F[str + k]}
<1>6. 0 \in T
  BY <1>1, <1>2, <1>4
<1>7. ASSUME NEW k \in 0 .. e - str - 1, k \in T PROVE k + 1 \in T
  <2>1. PICK p : p = str + (k + 1)
    OBVIOUS
  <2>2. p \in str .. e /\ p # str /\ p - 1 = str + k /\ k + 1 \in 0 .. e - str
    BY <1>1, <1>7, <2>1
  <2>3. /\ cnt[p] = cnt[p - 1] + IF char(m[p - 1]) = ch THEN 1 ELSE 0
        /\ F[p] = F[p - 1] + IF char(m[p - 1]) = ch THEN 1 ELSE 0
    <3>1. cnt[p] = cnt[p - 1] + IF char(m[p - 1]) = ch THEN 1 ELSE 0
      BY <1>4, <2>2, Zenon
    <3>2. F[p] = F[p - 1] + IF char(m[p - 1]) = ch THEN 1 ELSE 0
      BY <1>2, <2>2, Zenon
    <3> QED
      BY <3>1, <3>2
  <2>4. cnt[p - 1] = F[p - 1]
    BY <1>7, <2>2
  <2>5. cnt[p] = F[p]
    BY <2>3, <2>4, Zenon
  <2> QED
    BY <2>1, <2>2, <2>5
<1>8. e - str \in Nat /\ str + (e - str) = e
  BY <1>1
<1> HIDE DEF T
<1>9. e - str \in T
  <2>1. \A k \in 0 .. e - str : k \in T
    BY <1>6, <1>7, <1>8, UpTo
  <2> QED
    BY <1>8, <2>1
<1>10. F[e] = Cardinality(Hits(m, str, e, ch))
  BY <1>1 DEF F
<1> QED
  BY <1>5, <1>8, <1>9, <1>10 DEF T

-----------------------------------------------------------------------------
(* The reference definitions of Library.                                   *)
LEMMA StringEnds ==
  ASSUME mem \in Contents, NEW str \in Strs
  PROVE  str \in Addr /\ Ends(mem, str, End(str))
<1> DEFINE Z == {i \in str .. Size - 1 : mem[i] = 0}
<1>1. str \in Addr /\ \E i \in str .. Size - 1 : mem[i] = 0
  BY DEF Strs, Terminated
<1>2. Z \in SUBSET Nat /\ Z # {}
  BY <1>1, ByteSizes DEF Addr
<1>3. PICK e : e = Min(Z)
  OBVIOUS
<1>4. e \in Z /\ \A i \in Z : e <= i
  <2> HIDE DEF Z
  <2> QED BY <1>2, <1>3, LeastElement
<1>5. e = End(str)
  BY <1>3 DEF End
<1>6. e \in Addr /\ str <= e /\ mem[e] = 0
  BY <1>1, <1>4, ByteSizes DEF Addr
<1>7. ASSUME NEW i \in str .. e - 1, mem[i] = 0 PROVE FALSE
  <2>1. i \in Z /\ i < e
    BY <1>1, <1>6, <1>7, ByteSizes DEF Addr
  <2> QED
    BY <1>1, <1>4, <1>6, <2>1, ByteSizes DEF Addr
<1> HIDE DEF Z
<1> QED
  BY <1>1, <1>5, <1>6, <1>7 DEF Ends

LEMMA CopiesRight ==
  ASSUME mem \in Contents, NEW dst \in Addr, NEW src \in Addr, NEW n \in Nat,
         src + n <= Size, dst + n <= Size, dst <= src \/ dst >= src + n
  PROVE  Moved(mem, dst, src, n) = Blit(dst, src, n)
<1>1. ASSUME NEW x \in Addr
      PROVE  /\ x \in dst .. dst + n - 1 <=> x - dst \in 0 .. n - 1
             /\ x - dst \in 0 .. n - 1 => Source(dst, src, x - dst) = x - dst + src
  <2>1. x \in dst .. dst + n - 1 <=> x - dst \in 0 .. n - 1
    BY ByteSizes DEF Addr
  <2>2. ASSUME x - dst \in 0 .. n - 1 PROVE Source(dst, src, x - dst) = x - dst + src
    <3>1. PICK k \in Nat : k = x - dst /\ k < n
      BY <2>2
    <3>2. src + k \in Addr /\ (dst <= src \/ src + k < dst) /\ x - dst + src = src + k
      BY <3>1, ByteSizes DEF Addr
    <3>3. Source(dst, src, k) = src + k
      BY <3>2, MovedByte, Zenon
    <3> QED
      BY <3>1, <3>2, <3>3
  <2> QED
    BY <2>1, <2>2
<1> QED
  BY <1>1 DEF Moved, Blit

LEMMA RoomSizes ==
  ASSUME NEW dst \in Addr, NEW src \in Addr, NEW size \in 0 .. Min({Size - dst, Size - src})
  PROVE  size \in Nat /\ dst + size <= Size /\ src + size <= Size
<1>1. PICK x, y : x = Size - dst /\ y = Size - src /\ x \in Nat /\ y \in Nat
  BY ByteSizes DEF Addr
<1>2. size \in Nat /\ size <= x /\ size <= y
  BY <1>1, MinPair
<1> QED
  BY <1>1, <1>2, ByteSizes DEF Addr

LEMMA CopyStrings == mem \in Contents => CopiesExactly
<1> SUFFICES ASSUME mem \in Contents PROVE CopiesExactly
  OBVIOUS
<1>1. ASSUME NEW dst \in Addr, NEW src \in Addr,
             NEW size \in 0 .. Min({Size - dst, Size - src}),
             dst <= src \/ dst >= src + size
      PROVE  memcpy(mem, dst, src, size) = Blit(dst, src, size)
  <2>1. size \in Nat /\ dst + size <= Size /\ src + size <= Size
    BY RoomSizes
  <2>2. memcpy(mem, dst, src, size) = Moved(mem, dst, src, size)
    BY <2>1, CopiedIs DEF memcpy
  <2> QED
    BY <1>1, <2>1, <2>2, CopiesRight
<1>2. ASSUME NEW dst \in Addr, NEW src \in Strs,
             dst + (End(src) - src + 1) <= Size,
             dst <= src \/ dst >= src + (End(src) - src + 1)
      PROVE  Copy(mem, dst, src) = Blit(dst, src, End(src) - src + 1)
  <2>1. PICK e : e = End(src) /\ src \in Addr /\ Ends(mem, src, e)
    BY StringEnds
  <2>2. e - src + 1 \in Nat /\ src + (e - src + 1) <= Size
    BY <2>1, ByteSizes DEF Ends, Addr
  <2>3. Copy(mem, dst, src) = Moved(mem, dst, src, e - src + 1)
    BY <1>2, <2>1, CopyIs
  <2> QED
    BY <1>2, <2>1, <2>2, <2>3, CopiesRight
<1>3. ASSUME NEW dst \in Strs, NEW src \in Strs,
             End(dst) + (End(src) - src + 1) <= Size,
             End(dst) < src \/ End(dst) >= src + (End(src) - src + 1)
      PROVE  strcat(mem, dst, src) = Blit(End(dst), src, End(src) - src + 1)
  <2>1. PICK d : d = End(dst) /\ dst \in Addr /\ Ends(mem, dst, d)
    BY StringEnds
  <2>2. src \in Addr
    BY StringEnds
  <2>3. d \in Addr /\ Behind(mem, dst) = d
    BY <2>1, BehindIs DEF Ends
  <2>4. d <= src \/ d >= src + (End(src) - src + 1)
    BY <1>3, <2>1, <2>2, <2>3, ByteSizes DEF Addr
  <2> QED
    BY <1>2, <1>3, <2>1, <2>3, <2>4 DEF strcat
<1>4. ASSUME NEW dst \in Addr, NEW value \in Byte, NEW size \in 0 .. Size - dst, NEW a \in Addr
      PROVE  memset(mem, dst, value, size)[a] = IF a - dst \in 0 .. size - 1 THEN value ELSE mem[a]
  <2>1. size \in Nat /\ dst + size <= Size
    BY ByteSizes DEF Addr
  <2> QED
    BY <2>1, MemsetIs DEF Filled
<1> QED
  BY <1>1, <1>2, <1>3, <1>4 DEF CopiesExactly, strcpy

(* A byte as a char is the character looked for only below 128.            *)
LEMMA CharIs ==
  ASSUME NEW b \in Byte, NEW ch \in Byte \ {0}
  PROVE  char(b) = ch <=> ch < Values \div 2 /\ b = ch
<1>1. PICK h \in Nat : h = Values \div 2 /\ h <= Values
  BY ByteSizes
<1> QED
  BY <1>1, ByteSizes DEF char, Byte

LEMMA OrderSame ==
  ASSUME NEW b \in Byte
  PROVE  Order(char(b), char(b)) = 0
<1>1. char(b) \in Int
  <2>1. Values \div 2 \in Int
    BY ByteSizes
  <2> QED
    BY <2>1, ByteSizes DEF char, Byte
<1> QED
  BY <1>1 DEF Order

LEMMA StringsCompare ==
  ASSUME mem \in Contents, NEW a \in Strs, NEW b \in Strs
  PROVE  LET differ == {k \in 0 .. Min({End(a) - a, End(b) - b}) : mem[a + k] # mem[b + k]} IN
         strcmp(mem, a, b) =
           IF differ = {} THEN 0 ELSE Order(char(mem[a + Min(differ)]), char(mem[b + Min(differ)]))
<1> DEFINE differ == {k \in 0 .. Min({End(a) - a, End(b) - b}) : mem[a + k] # mem[b + k]}
<1>1. PICK x \in Nat, y \in Nat :
        /\ x = End(a) - a /\ y = End(b) - b /\ a + x \in Addr /\ b + y \in Addr
        /\ mem[a + x] = 0 /\ mem[b + y] = 0
        /\ \A k \in 0 .. x - 1 : mem[a + k] # 0
        /\ \A k \in 0 .. y - 1 : mem[b + k] # 0
  <2>1. PICK e, f : e = End(a) /\ f = End(b) /\ Ends(mem, a, e) /\ Ends(mem, b, f)
    BY StringEnds
  <2>2. a \in Addr /\ b \in Addr
    BY StringEnds
  <2>3. PICK x, y : x = e - a /\ y = f - b
    OBVIOUS
  <2>4. x \in Nat /\ y \in Nat /\ a + x = e /\ b + y = f
    BY <2>1, <2>2, <2>3, ByteSizes DEF Ends, Addr
  <2>5. ASSUME NEW k \in 0 .. x - 1 PROVE mem[a + k] # 0
    <3>1. a + k \in a .. e - 1
      BY <2>2, <2>4, ByteSizes DEF Addr
    <3> QED
      BY <2>1, <3>1 DEF Ends
  <2>6. ASSUME NEW k \in 0 .. y - 1 PROVE mem[b + k] # 0
    <3>1. b + k \in b .. f - 1
      BY <2>2, <2>4, ByteSizes DEF Addr
    <3> QED
      BY <2>1, <3>1 DEF Ends
  <2> QED
    BY <2>1, <2>3, <2>4, <2>5, <2>6 DEF Ends
<1>2. a \in Addr /\ b \in Addr
  BY StringEnds
<1>3. PICK n \in Nat : n = Min({x, y}) /\ n <= x /\ n <= y /\ n \in {x, y}
  BY MinPair
<1>4. differ = {k \in 0 .. n : mem[a + k] # mem[b + k]}
  BY <1>1, <1>3
<1> HIDE DEF differ
<1>5. ASSUME NEW k \in 0 .. n PROVE k \in Nat /\ a + k \in Addr /\ b + k \in Addr
  BY <1>1, <1>2, <1>3, ByteSizes DEF Addr
<1>6. ASSUME NEW k \in 0 .. n - 1 PROVE mem[a + k] # 0 /\ mem[b + k] # 0
  BY <1>1, <1>3
<1>7. CASE differ = {}
  <2>1. n \in 0 .. n /\ \A k \in 0 .. n : mem[a + k] = mem[b + k]
    BY <1>4, <1>7
  <2>2. mem[a + n] = 0 /\ mem[a + n] = mem[b + n] /\ a + n \in Addr /\ b + n \in Addr
    BY <1>1, <1>3, <1>5, <2>1
  <2>3. \A k \in 0 .. n - 1 : mem[a + k] # 0 /\ mem[a + k] = mem[b + k]
    BY <1>6, <2>1
  <2>4. strcmp(mem, a, b) = OrderAt(mem, a, b, n)
    BY <1>2, <2>2, <2>3, StrcmpAt
  <2>5. OrderAt(mem, a, b, n) = 0
    <3>1. mem[a + n] \in Byte
      BY <2>2 DEF Contents
    <3> QED
      BY <2>2, <3>1, OrderSame DEF OrderAt
  <2> QED
    BY <1>7, <2>4, <2>5 DEF differ
<1>8. CASE differ # {}
  <2>1. PICK e : e = Min(differ)
    OBVIOUS
  <2>2. e \in differ /\ \A k \in differ : e <= k
    <3>1. differ \in SUBSET Nat
      BY <1>4
    <3> QED
      BY <1>8, <2>1, <3>1, LeastElement
  <2>3. e \in 0 .. n /\ mem[a + e] # mem[b + e]
    BY <1>4, <2>2
  <2>4. ASSUME NEW k \in 0 .. e - 1 PROVE mem[a + k] # 0 /\ mem[a + k] = mem[b + k]
    <3>1. k \in 0 .. n - 1 /\ k \in 0 .. n /\ ~ (e <= k)
      BY <2>3
    <3> QED
      BY <1>4, <1>6, <2>2, <3>1
  <2>5. e \in Nat /\ a + e \in Addr /\ b + e \in Addr
    BY <1>5, <2>3
  <2>6. strcmp(mem, a, b) = OrderAt(mem, a, b, e)
    BY <1>2, <2>3, <2>4, <2>5, StrcmpAt
  <2> QED
    BY <1>8, <2>1, <2>6 DEF OrderAt, differ
<1> QED
  BY <1>7, <1>8

LEMMA CompareRight == mem \in Contents => ComparesInOrder
<1> SUFFICES ASSUME mem \in Contents PROVE ComparesInOrder
  OBVIOUS
<1>1. ASSUME NEW a \in Addr, NEW b \in Addr, NEW size \in 0 .. Min({Size - a, Size - b})
      PROVE  LET differ == {k \in 0 .. size - 1 : mem[a + k] # mem[b + k]} IN
             memcmp(mem, a, b, size) =
               IF differ = {} THEN 0
               ELSE Order(char(mem[a + Min(differ)]), char(mem[b + Min(differ)]))
  <2>1. size \in Nat
    BY RoomSizes
  <2> QED
    BY <2>1, MemcmpIs DEF Differ, OrderAt
<1> QED
  BY <1>1, StringsCompare DEF ComparesInOrder

LEMMA FindRight == mem \in Contents => FindsAscii
<1> SUFFICES ASSUME mem \in Contents, NEW str \in Strs
             PROVE  /\ strlen(mem, str) = Cardinality(Text(str))
                    /\ \A ch \in Byte \ {0} :
                         LET hits == {i \in Text(str) : ch < Values \div 2 /\ mem[i] = ch} IN
                         /\ strchr(mem, str, ch) = IF hits = {} THEN NULL ELSE Min(hits)
                         /\ strrchr(mem, str, ch) = IF hits = {} THEN NULL ELSE Max(hits)
                         /\ strchrs(mem, str, ch) = Cardinality(hits)
  BY DEF FindsAscii
<1>1. PICK e : e = End(str)
  OBVIOUS
<1>2. str \in Addr /\ Ends(mem, str, e) /\ Text(str) = str .. e - 1
  BY <1>1, StringEnds DEF Text
<1>3. str \in Nat /\ e \in Addr /\ e \in Nat /\ str <= e
  BY <1>2, ByteSizes DEF Ends, Addr
<1>4. strlen(mem, str) = Cardinality(Text(str))
  <2>1. Behind(mem, str) = e
    BY <1>2, BehindIs
  <2>2. Cardinality(str .. e - 1) = e - str
    <3>1. PICK f : f = e - 1
      OBVIOUS
    <3>2. f \in Int /\ str \in Int /\ (str <= f => f - str + 1 = e - str) /\ (~ (str <= f) => e - str = 0)
      BY <1>3, <3>1
    <3>3. Cardinality(str .. f) = IF str > f THEN 0 ELSE f - str + 1
      BY <3>2, FS_Interval
    <3> QED
      BY <3>1, <3>2, <3>3
  <2> QED
    BY <1>2, <2>1, <2>2 DEF strlen
<1>5. ASSUME NEW ch \in Byte \ {0}
      PROVE  Hits(mem, str, e, ch) = {i \in Text(str) : ch < Values \div 2 /\ mem[i] = ch}
  <2>1. ASSUME NEW i \in str .. e - 1
        PROVE  char(mem[i]) = ch <=> ch < Values \div 2 /\ mem[i] = ch
    <3>1. i \in Addr
      BY <1>3, ByteSizes DEF Addr
    <3>2. mem[i] \in Byte
      BY <3>1 DEF Contents
    <3> QED
      BY <3>2, CharIs
  <2> QED
    BY <1>2, <2>1 DEF Hits
<1>6. ASSUME NEW ch \in Byte \ {0}
      PROVE  LET hits == {i \in Text(str) : ch < Values \div 2 /\ mem[i] = ch} IN
             /\ strchr(mem, str, ch) = IF hits = {} THEN NULL ELSE Min(hits)
             /\ strrchr(mem, str, ch) = IF hits = {} THEN NULL ELSE Max(hits)
             /\ strchrs(mem, str, ch) = Cardinality(hits)
  <2>1. PICK hits : hits = Hits(mem, str, e, ch)
    OBVIOUS
  <2>2. hits = {i \in Text(str) : ch < Values \div 2 /\ mem[i] = ch}
    BY <1>5, <2>1
  <2>3. strchr(mem, str, ch) = IF hits = {} THEN NULL ELSE Min(hits)
    BY <1>2, <2>1, StrchrIs
  <2>4. strrchr(mem, str, ch) = IF hits = {} THEN NULL ELSE Max(hits)
    BY <1>2, <2>1, StrrchrIs DEF LastHit
  <2>5. strchrs(mem, str, ch) = Cardinality(hits)
    BY <1>2, <2>1, StrchrsIs
  <2> QED
    BY <2>2, <2>3, <2>4, <2>5
<1> QED
  BY <1>4, <1>6

(* Whatever is called, memory stays memory.                                *)
LEMMA MemoryKept == mem \in Contents /\ [LibraryNext]_mem => mem' \in Contents
<1> SUFFICES ASSUME mem \in Contents, LibraryNext PROVE mem' \in Contents
  OBVIOUS
<1>1. ASSUME NEW dst \in Addr, NEW value \in Byte, NEW size \in 0 .. Size - dst,
             Set(dst, value, size)
      PROVE  mem' \in Contents
  <2>1. size \in Nat /\ dst + size <= Size
    BY ByteSizes DEF Addr
  <2>2. mem' = Filled(mem, dst, value, size)
    BY <1>1, <2>1, MemsetIs DEF Set
  <2> QED
    BY <2>2 DEF Filled, Contents
<1>2. ASSUME NEW dst \in Addr, NEW src \in Addr,
             NEW size \in 0 .. Min({Size - dst, Size - src}), Move(dst, src, size)
      PROVE  mem' \in Contents
  <2>1. size \in Nat /\ dst + size <= Size /\ src + size <= Size
    BY RoomSizes
  <2>2. mem' = Moved(mem, dst, src, size)
    BY <1>2, <2>1, CopiedIs DEF Move, memcpy
  <2> QED
    BY <2>1, <2>2, MovedType
<1>3. ASSUME NEW dst \in Addr, NEW src \in Addr, StrCopy(dst, src)
      PROVE  mem' \in Contents
  BY <1>3, CopyType DEF StrCopy, Result, strcpy
<1>4. ASSUME NEW dst \in Addr, NEW src \in Addr, StrCat(dst, src)
      PROVE  mem' \in Contents
  <2>1. dst \in Strs
    BY <1>4 DEF StrCat, Strs
  <2>2. PICK d : d \in Addr /\ Behind(mem, dst) = d
    <3>1. Ends(mem, dst, End(dst))
      BY <2>1, StringEnds
    <3>2. Behind(mem, dst) = End(dst)
      BY <3>1, BehindIs
    <3> QED
      BY <3>1, <3>2 DEF Ends
  <2>3. mem' = Copy(mem, d, src) /\ mem' # Off
    BY <1>4, <2>2 DEF StrCat, Result, strcat
  <2> QED
    BY <2>2, <2>3, CopyType
<1>5. ASSUME NEW i, NEW value, BitmapSet(i, value)
      PROVE  mem' \in Contents
  BY <1>5 DEF BitmapSet, Contents
<1> QED
  BY <1>1, <1>2, <1>3, <1>4, <1>5 DEF LibraryNext

LEMMA MemoryInvariant == LibrarySpec => [](mem \in Contents)
<1> DEFINE Inv == mem \in Contents
<1>1. LibraryInit => Inv
  BY ByteSizes DEF LibraryInit, Contents, Byte
<1>2. Inv /\ [LibraryNext]_mem => Inv'
  BY MemoryKept
<1> HIDE DEF Inv
<1>3. LibrarySpec => []Inv
  BY <1>1, <1>2, PTL DEF LibrarySpec
<1> QED
  BY <1>3 DEF Inv

(* Whatever the size of memory and of bytes, and whatever was called:      *)
(* memcpy, strcpy and strcat copy what was at src before the call and      *)
(* touch nothing else unless dst is inside the source behind its           *)
(* beginning, and memset sets what it is told to.                          *)
THEOREM CopiesAreExact == LibrarySpec => []CopiesExactly
<1> DEFINE Inv == mem \in Contents
<1>1. LibrarySpec => []Inv
  BY MemoryInvariant
<1>2. Inv => CopiesExactly
  BY CopyStrings
<1> HIDE DEF Inv
<1> QED
  BY <1>1, <1>2, PTL

(* ... memcmp and strcmp order by the first char that differs, strlen is   *)
(* the length, and strchr, strrchr and strchrs answer with the first, the  *)
(* last and the number of the characters below 128 looked for.             *)
THEOREM AnswersAreRight == LibrarySpec => []AnswersRight
<1> DEFINE Inv == mem \in Contents
<1>1. LibrarySpec => []Inv
  BY MemoryInvariant
<1>2. Inv => AnswersRight
  BY CompareRight, FindRight DEF AnswersRight
<1> HIDE DEF Inv
<1> QED
  BY <1>1, <1>2, PTL

-----------------------------------------------------------------------------
(* The frames of the pools whose bitmap is only used under its own lock:   *)
(* that of kernel_pool is also used for page tables, under user_pool.lock. *)
GuardedFrame == {f \in Frame : f[1] = "user" \/ Separate}

JobType == [kind : Kind, n : Nat, start : Int, left : Int]

Types ==
  /\ active \subseteq Client
  /\ owner \in [Pool -> Client \union {NoThread}]
  /\ bits \in [Pool -> SUBSET Nat]
  /\ pte \in [Page -> Frame \union {NoFrame}]
  /\ pde \in [Table -> Frame \union {NoFrame}]
  /\ pc \in [Client -> PC]
  /\ job \in [Client -> JobType]
  /\ frame \in [Client -> Frame \union {NoFrame}]
  /\ tab \in [Client -> Frame \union {NoFrame}]

(* Whose call it is, and that it has the lock of its pool.                 *)
CallOK ==
  \A t \in Client :
    pc[t] # "idle" =>
      /\ t \in active
      /\ \/ job[t].kind = "kernel" /\ t \in KernelClient
         \/ job[t].kind \in {"user", "stack"} /\ t \in Process
      /\ owner[LockOf(job[t].kind)] = t

(* What a call knows of the frames it found.                               *)
FoundOK ==
  \A t \in Client :
    /\ pc[t] \in {"set", "map", "tset", "install"} =>
         frame[t] \in Frame /\ frame[t][1] = PoolOf(job[t].kind)
    /\ pc[t] \in {"tset", "install"} =>
         tab[t] \in Frame /\ tab[t][1] = "kernel" /\ t \in Process

(* The frames a call has marked and not yet put into the tables.           *)
Hand(t) ==
  {f \in Frame :
     \/ f = frame[t] /\ pc[t] \in {"map", "tset", "install"}
     \/ f = tab[t] /\ pc[t] = "install"}

Marked(f) == f[2] \in bits[f[1]]

(* A guarded frame that palloc found is free until palloc marks it.        *)
Finds(t, f) ==
  \/ pc[t] = "set" /\ f = frame[t]
  \/ pc[t] = "tset" /\ f = tab[t]

FoundClear == \A t \in Client, f \in GuardedFrame : Finds(t, f) => ~ Marked(f)

UsedMarked ==
  /\ \A q \in Page : pte[q] # NoFrame => Marked(pte[q])
  /\ \A d \in Table : pde[d] # NoFrame => Marked(pde[d])
  /\ \A t \in Client : \A f \in Hand(t) : Marked(f)

(* No guarded frame has two uses, one pair of uses at a time.              *)
Once ==
  \A f \in GuardedFrame :
    /\ \A q, r \in Page : pte[q] = f /\ pte[r] = f => q = r
    /\ \A c, d \in Table : pde[c] = f /\ pde[d] = f => c = d
    /\ \A q \in Page, d \in Table : ~ (pte[q] = f /\ pde[d] = f)
    /\ \A t \in Client, q \in Page : ~ (f \in Hand(t) /\ pte[q] = f)
    /\ \A t \in Client, d \in Table : ~ (f \in Hand(t) /\ pde[d] = f)
    /\ \A t, u \in Client : f \in Hand(t) /\ f \in Hand(u) => t = u

FrameInv == Types /\ CallOK /\ FoundOK /\ FoundClear /\ UsedMarked /\ Once

(* Once says of the guarded frames what FrameOnce says of all.             *)
LEMMA OnceUses ==
  ASSUME Types, Once, NEW f \in GuardedFrame, NEW u \in Uses(f), NEW v \in Uses(f)
  PROVE  u = v
<1>1. ASSUME NEW w \in Uses(f)
      PROVE  \/ \E q \in Page : w = <<"page", q>> /\ pte[q] = f
             \/ \E d \in Table : w = <<"table", d>> /\ pde[d] = f
             \/ \E t \in Client : w = <<"hand", t>> /\ f \in Hand(t)
  BY <1>1 DEF Uses, Hand, GuardedFrame
<1>2. CASE \E q \in Page : u = <<"page", q>> /\ pte[q] = f
  BY <1>1, <1>2 DEF Once
<1>3. CASE \E d \in Table : u = <<"table", d>> /\ pde[d] = f
  BY <1>1, <1>3 DEF Once
<1>4. CASE \E t \in Client : u = <<"hand", t>> /\ f \in Hand(t)
  BY <1>1, <1>4 DEF Once
<1> QED
  BY <1>1, <1>2, <1>3, <1>4

LEMMA Sizes ==
  /\ \A p \in Pool : PoolSize[p] \in Nat
  /\ \A s \in Space : SpaceSize[s] \in Nat
  /\ \A p \in Pool, i \in Nat : i \in 0 .. PoolSize[p] - 1 => <<p, i>> \in Frame
  /\ \A f \in Frame : f = <<f[1], f[2]>> /\ f[1] \in Pool /\ f[2] \in Nat
BY MemoryAssumption DEF PoolSize, SpaceSize, Frame, Pool, Space

(* The initial state.                                                      *)
LEMMA FrameInit == Init => FrameInv
<1> SUFFICES ASSUME Init PROVE FrameInv
  OBVIOUS
<1>1. Types
  BY DEF Init, Locks!Init, Types, Pool, PC, JobType, NoJob, Kind
<1>2. \A t \in Client : pc[t] = "idle" /\ Hand(t) = {}
  BY DEF Init, Hand
<1>3. \A q \in Page : pte[q] = NoFrame
  BY DEF Init
<1>4. \A d \in Table : pde[d] = NoFrame
  BY DEF Init
<1> QED
  BY <1>1, <1>2, <1>3, <1>4, MemoryAssumption
  DEF FrameInv, CallOK, FoundOK, FoundClear, Finds, UsedMarked, Once, GuardedFrame

(* Which frames are guarded does not change: the same clients allocate.    *)
LEMMA SameGuarded ==
  ASSUME UNCHANGED active
  PROVE  GuardedFrame' = GuardedFrame
BY DEF GuardedFrame, Separate

(* A step that leaves the bitmaps, the tables and the marked frames of     *)
(* every call alone cannot hand a frame out twice.                         *)
LEMMA SameUses ==
  ASSUME UsedMarked, Once, UNCHANGED <<active, bits, pte, pde>>,
         \A t \in Client : Hand(t)' = Hand(t)
  PROVE  UsedMarked' /\ Once'
<1>1. UsedMarked'
  BY DEF UsedMarked, Marked
<1>2. Once'
  BY SameGuarded DEF Once
<1> QED
  BY <1>1, <1>2

(* The calls: lock_acquire gives the lock to a client that was idle.       *)
LEMMA CallStep ==
  ASSUME FrameInv, NEW t \in Client, NEW kind, NEW n \in Nat,
         \/ kind = "kernel" /\ t \in KernelClient
         \/ kind = "user" /\ t \in Process,
         t \in active, UNCHANGED active, Call(t, kind, n)
  PROVE  FrameInv'
<1> USE DEF FrameInv, Call, At, Goto, tables, lockVars
<1>1. Types'
  BY DEF Types, Locks!Acquire, LockOf, Pool, PC, JobType, Kind
<1>2. CallOK'
  <2>1. \A u \in Client : u # t => pc'[u] = pc[u] /\ job'[u] = job[u]
    BY DEF Types
  <2>2. \A u \in Client, p \in Pool : u # t /\ owner[p] = u => owner'[p] = u
    BY MemoryAssumption DEF Types, Locks!Acquire
  <2>3. owner'[LockOf(kind)] = t /\ job'[t].kind = kind
    BY DEF Types, Locks!Acquire, LockOf, Pool
  <2>4. \A k : LockOf(k) \in Pool
    BY DEF LockOf, Pool
  <2> QED
    BY <2>1, <2>2, <2>3, <2>4 DEF CallOK
<1>3. FoundOK'
  BY DEF FoundOK, Types
<1>4. FoundClear'
  BY SameGuarded DEF FoundClear, Finds, Marked, Types
<1>5. \A u \in Client : Hand(u)' = Hand(u)
  BY DEF Hand, Types
<1> QED
  BY <1>1, <1>2, <1>3, <1>4, <1>5, SameUses

LEMMA GetAPageStep ==
  ASSUME FrameInv, NEW t \in Client, t \in active, UNCHANGED active, get_a_page(t)
  PROVE  FrameInv'
<1> USE DEF FrameInv, get_a_page, At, Goto, tables
<1>1. Types'
  <2>1. Stack \in Int
    BY MemoryAssumption DEF Stack
  <2> QED
    BY <2>1 DEF Types, Locks!Acquire, LockOf, Pool, PC, JobType, Kind
<1>2. CallOK'
  <2>1. \A u \in Client : u # t => pc'[u] = pc[u] /\ job'[u] = job[u]
    BY DEF Types
  <2>2. \A u \in Client, p \in Pool : u # t /\ owner[p] = u => owner'[p] = u
    BY MemoryAssumption DEF Types, Locks!Acquire
  <2>3. owner'[LockOf("stack")] = t /\ job'[t].kind = "stack"
    BY DEF Types, Locks!Acquire, LockOf, Pool
  <2>4. \A k : LockOf(k) \in Pool
    BY DEF LockOf, Pool
  <2> QED
    BY <2>1, <2>2, <2>3, <2>4 DEF CallOK
<1>3. FoundOK'
  BY DEF FoundOK, Types
<1>4. FoundClear'
  BY SameGuarded DEF FoundClear, Finds, Marked, Types
<1>5. \A u \in Client : Hand(u)' = Hand(u)
  BY DEF Hand, Types
<1> QED
  BY <1>1, <1>2, <1>3, <1>4, <1>5, SameUses

(* A record of a call with one field replaced.                             *)
LEMMA JobExcept ==
  ASSUME NEW j \in JobType, NEW x \in Int
  PROVE  /\ [j EXCEPT !.start = x] \in JobType /\ [j EXCEPT !.start = x].kind = j.kind
         /\ [j EXCEPT !.left = x] \in JobType /\ [j EXCEPT !.left = x].kind = j.kind
BY DEF JobType

LEMMA VaddrGetStep ==
  ASSUME FrameInv, NEW t \in Client, UNCHANGED active, VaddrGet(t)
  PROVE  FrameInv'
<1> DEFINE i == bitmap_scan(vaddr[SpaceOf(t)], SpaceSize[SpaceOf(t)], job[t].n)
           j == [job[t] EXCEPT !.start = i]
<1> USE DEF FrameInv, VaddrGet, VaddrTake, At, Goto, tables, lockVars
<1>1. i \in Int
  <2>1. SpaceOf(t) \in Space
    BY DEF SpaceOf, Space, CallOK
  <2>2. job[t].n \in Nat
    BY DEF Types, JobType
  <2> QED
    BY <2>1, <2>2, Sizes, ScanInt
<1> HIDE DEF i
<1>2. pc' \in {[pc EXCEPT ![t] = "return"], [pc EXCEPT ![t] = "scan"]}
      /\ job' \in {job, [job EXCEPT ![t] = j]}
  BY DEF i
<1>. j \in JobType /\ j.kind = job[t].kind
  BY <1>1, JobExcept DEF Types
<1> HIDE DEF j
<1>3. UNCHANGED <<owner, bits, pte, pde, frame, tab>> /\ pc[t] = "vaddr"
  OBVIOUS
<1> HIDE DEF VaddrGet, VaddrTake
<1>4. Types'
  BY <1>2, <1>3 DEF Types, PC
<1>5. \A u \in Client : job'[u].kind = job[u].kind
  BY <1>2 DEF Types
<1>6. \A u \in Client : u # t => pc'[u] = pc[u]
  BY <1>2 DEF Types
<1>7. pc'[t] \in {"return", "scan"}
  BY <1>2 DEF Types
<1>8. CallOK'
  BY <1>3, <1>5, <1>6, <1>7 DEF CallOK
<1>9. FoundOK'
  BY <1>3, <1>5, <1>6, <1>7 DEF FoundOK
<1>10. FoundClear'
  BY <1>3, <1>6, <1>7, SameGuarded DEF FoundClear, Finds, Marked
<1>11. \A u \in Client : Hand(u)' = Hand(u)
  BY <1>3, <1>6, <1>7 DEF Hand
<1> QED
  BY <1>3, <1>4, <1>8, <1>9, <1>10, <1>11, SameUses

LEMMA PallocScanStep ==
  ASSUME FrameInv, NEW t \in Client, UNCHANGED active, PallocScan(t)
  PROVE  FrameInv'
<1> DEFINE p == PoolOf(job[t].kind)
           i == FirstFree(p)
<1> USE DEF FrameInv, At, Goto, tables, lockVars
<1>1. UNCHANGED <<owner, bits, pte, pde, tab>> /\ pc[t] = "scan"
  BY DEF PallocScan, ScanPool
<1>2. \/ i # -1 /\ frame' = [frame EXCEPT ![t] = <<p, i>>]
           /\ pc' = [pc EXCEPT ![t] = "set"] /\ job' = job
      \/ frame' = frame /\ job' = [job EXCEPT ![t] = NoJob]
           /\ pc' = [pc EXCEPT ![t] = "idle"]
      \/ frame' = frame /\ job' = job /\ pc' = [pc EXCEPT ![t] = "return"]
  BY DEF PallocScan, ScanPool
<1>3. p \in Pool
  BY DEF PoolOf, Pool
<1>4. i # -1 => <<p, i>> \in Frame /\ i \notin bits[p]
  BY <1>3, Sizes, ScanOne DEF FirstFree, Types, Clear
<1> HIDE DEF i, p
<1>5. Types'
  <2>1. frame' \in [Client -> Frame \union {NoFrame}]
    BY <1>2, <1>4 DEF Types
  <2>2. NoJob \in JobType
    BY DEF NoJob, JobType, Kind
  <2>3. job' \in [Client -> JobType]
    BY <1>2, <2>2 DEF Types
  <2>4. pc' \in [Client -> PC]
    BY <1>2 DEF Types, PC
  <2> QED
    BY <1>1, <2>1, <2>3, <2>4 DEF Types
<1>6. \A u \in Client : u # t => pc'[u] = pc[u] /\ job'[u] = job[u] /\ frame'[u] = frame[u]
  BY <1>2 DEF Types
<1>7. \/ pc'[t] \in {"idle", "return"} /\ (pc'[t] = "return" => job'[t] = job[t])
      \/ pc'[t] = "set" /\ job'[t] = job[t] /\ frame'[t] = <<p, i>> /\ i # -1
  BY <1>2 DEF Types
<1>8. CallOK'
  BY <1>1, <1>6, <1>7 DEF CallOK
<1>9. FoundOK'
  BY <1>1, <1>4, <1>6, <1>7 DEF FoundOK, p
<1>10. FoundClear'
  BY <1>1, <1>4, <1>6, <1>7, SameGuarded DEF FoundClear, Finds, Marked
<1>11. \A u \in Client : Hand(u)' = Hand(u)
  BY <1>1, <1>6, <1>7 DEF Hand
<1> QED
  BY <1>1, <1>5, <1>8, <1>9, <1>10, <1>11, SameUses

(* Two calls never have found the same guarded frame and not yet marked    *)
(* it: they would have the same lock.                                      *)
LEMMA OneFinder ==
  ASSUME FrameInv, NEW t \in Client, NEW u \in Client, NEW f \in GuardedFrame,
         Finds(t, f), Finds(u, f)
  PROVE  t = u
<1> USE DEF FrameInv, Finds, FoundOK, CallOK, PoolOf, LockOf, GuardedFrame, Separate
<1>1. CASE pc[t] = "set" /\ pc[u] = "set"
  BY <1>1
<1>2. CASE pc[t] = "tset" /\ pc[u] = "tset"
  BY <1>2, MemoryAssumption
<1>3. CASE pc[t] = "set" /\ pc[u] = "tset"
  BY <1>3, MemoryAssumption
<1>4. CASE pc[t] = "tset" /\ pc[u] = "set"
  BY <1>4, MemoryAssumption
<1> QED
  BY <1>1, <1>2, <1>3, <1>4

LEMMA PallocSetStep ==
  ASSUME FrameInv, NEW t \in Client, UNCHANGED active, PallocSet(t)
  PROVE  FrameInv'
<1> DEFINE f == frame[t]
<1> USE DEF FrameInv, At, Goto, tables, lockVars
<1>1. UNCHANGED <<owner, pte, pde, job, frame, tab>> /\ pc[t] = "set"
      /\ pc' = [pc EXCEPT ![t] = "map"]
      /\ bits' = [bits EXCEPT ![f[1]] = @ \union {f[2]}]
  BY DEF PallocSet, bitmap_set
<1>2. f \in Frame /\ f = <<f[1], f[2]>> /\ f[1] \in Pool /\ f[2] \in Nat
  BY <1>1, Sizes DEF FoundOK
<1>3. \A u \in Client : u # t => pc'[u] = pc[u]
  BY <1>1 DEF Types
<1>4. pc'[t] = "map"
  BY <1>1 DEF Types
<1>5. \A g \in Frame : Marked(g)' <=> Marked(g) \/ g = f
  BY <1>1, <1>2, Sizes DEF Marked, Types
<1>6. Hand(t)' = {f} /\ Hand(t) = {}
  BY <1>1, <1>2, <1>4 DEF Hand
<1>7. \A u \in Client : u # t => Hand(u)' = Hand(u)
  BY <1>1, <1>3 DEF Hand
<1>8. Types'
  BY <1>1, <1>2 DEF Types, PC
<1>9. CallOK'
  BY <1>1, <1>3, <1>4 DEF CallOK
<1>10. FoundOK'
  BY <1>1, <1>3, <1>4 DEF FoundOK
<1> HIDE DEF f
<1>11. Finds(t, f)
  BY <1>1 DEF Finds, f
<1>12. FoundClear'
  <2> SUFFICES ASSUME NEW u \in Client, NEW g \in GuardedFrame, Finds(u, g)'
               PROVE  ~ Marked(g)'
    BY SameGuarded DEF FoundClear
  <2>1. u # t /\ Finds(u, g)
    BY <1>1, <1>3, <1>4 DEF Finds
  <2>2. g # f
    BY <1>11, <2>1, OneFinder
  <2> QED
    BY <1>5, <2>1, <2>2 DEF FoundClear, GuardedFrame
<1>13. UsedMarked'
  BY <1>1, <1>5, <1>6, <1>7, MemoryAssumption DEF UsedMarked, Types, Hand
<1>14. f \in GuardedFrame => ~ Marked(f)
  BY <1>11 DEF FoundClear
<1>15. Once'
  <2> SUFFICES ASSUME NEW g \in GuardedFrame
               PROVE  /\ \A u \in Client : \A q \in Page : ~ (g \in Hand(u)' /\ pte[q] = g)
                      /\ \A u \in Client : \A d \in Table : ~ (g \in Hand(u)' /\ pde[d] = g)
                      /\ \A u, v \in Client : g \in Hand(u)' /\ g \in Hand(v)' => u = v
    BY <1>1, SameGuarded DEF Once
  <2>1. g # NoFrame
    BY MemoryAssumption DEF GuardedFrame
  <2>2. CASE g = f
    BY <1>6, <1>7, <1>14, <2>1, <2>2 DEF UsedMarked
  <2>3. CASE g # f
    BY <1>6, <1>7, <2>3 DEF Once
  <2> QED
    BY <2>2, <2>3
<1> QED
  BY <1>8, <1>9, <1>10, <1>12, <1>13, <1>15

(* The end of a turn of malloc_page's loop.                                *)
LEMMA NextTurnFacts ==
  ASSUME Types, NEW t \in Client, NextTurn(t)
  PROVE  /\ job' \in [Client -> JobType] /\ \A u \in Client : job'[u].kind = job[u].kind
         /\ pc' \in [Client -> PC] /\ pc'[t] \in {"scan", "return"}
         /\ frame' \in [Client -> Frame \union {NoFrame}]
         /\ tab' \in [Client -> Frame \union {NoFrame}]
         /\ \A u \in Client : u # t =>
              pc'[u] = pc[u] /\ frame'[u] = frame[u] /\ tab'[u] = tab[u]
<1> DEFINE x == IF job[t].left = 1 THEN 0 ELSE job[t].left - 1
           j == [job[t] EXCEPT !.left = x]
<1>1. x \in Int
  BY DEF Types, JobType
<1>2. job' = [job EXCEPT ![t] = j] /\ (pc' \in {[pc EXCEPT ![t] = "scan"], [pc EXCEPT ![t] = "return"]})
      /\ frame' = [frame EXCEPT ![t] = NoFrame] /\ tab' = [tab EXCEPT ![t] = NoFrame]
  BY DEF NextTurn, EndTurn, Goto
<1> HIDE DEF x
<1>3. j \in JobType /\ j.kind = job[t].kind
  BY <1>1, JobExcept DEF Types
<1> HIDE DEF j
<1> QED
  BY <1>2, <1>3 DEF Types, PC

(* When a turn ends, the other calls are where they were, and the call has *)
(* neither found nor marked a frame that it has not put into the tables.   *)
LEMMA EndTurnKeeps ==
  ASSUME FrameInv, NEW t \in Client, UNCHANGED active, NextTurn(t), pc[t] # "idle", UNCHANGED <<owner, bits>>
  PROVE  /\ CallOK' /\ FoundOK' /\ FoundClear'
         /\ Hand(t)' = {} /\ \A u \in Client : u # t => Hand(u)' = Hand(u)
<1> USE NextTurnFacts DEF FrameInv
<1>1. CallOK'
  BY DEF CallOK
<1>2. FoundOK'
  BY DEF FoundOK
<1>3. FoundClear'
  BY SameGuarded DEF FoundClear, Finds, Marked
<1>4. Hand(t)' = {} /\ \A u \in Client : u # t => Hand(u)' = Hand(u)
  BY DEF Hand
<1> QED
  BY <1>1, <1>2, <1>3, <1>4

LEMMA PageTableAddStep ==
  ASSUME FrameInv, NEW t \in Client, UNCHANGED active, PageTableAdd(t)
  PROVE  FrameInv'
<1> DEFINE q == NextPage(t)
           f == frame[t]
<1> USE DEF FrameInv
<1>1. pc[t] = "map" /\ UNCHANGED <<owner, bits, pde>>
  BY DEF PageTableAdd, At, lockVars
<1>2. CASE pte[q] # NoFrame
  <2>1. UNCHANGED <<owner, bits, pte, pde, pc, job, frame, tab>>
    BY <1>1, <1>2 DEF PageTableAdd
  <2> QED
    BY <2>1, SameGuarded DEF Types, CallOK, FoundOK, FoundClear, Finds, Marked, UsedMarked, Once, Hand
<1>3. CASE pte[q] = NoFrame
  <2>1. NextTurn(t) /\ pte' = [pte EXCEPT ![q] = f]
    BY <1>3 DEF PageTableAdd
  <2>2. f \in Frame /\ f \in Hand(t)
    BY <1>1 DEF FoundOK, Hand
  <2> HIDE DEF q, f
  <2>3. \A r \in Page : pte'[r] = pte[r] \/ (r = q /\ pte'[r] = f)
    BY <2>1 DEF Types
  <2>4. Types'
    BY <1>1, <2>1, <2>2, NextTurnFacts DEF Types
  <2>5. /\ CallOK' /\ FoundOK' /\ FoundClear'
        /\ Hand(t)' = {} /\ \A u \in Client : u # t => Hand(u)' = Hand(u)
    BY <1>1, <2>1, EndTurnKeeps
  <2>6. UsedMarked'
    BY <1>1, <2>2, <2>3, <2>5 DEF UsedMarked, Marked
  <2>7. Once'
    BY <1>1, <2>2, <2>3, <2>5, SameGuarded DEF Once
  <2> QED
    BY <2>4, <2>5, <2>6, <2>7
<1> QED
  BY <1>2, <1>3

LEMMA TableInstallStep ==
  ASSUME FrameInv, NEW t \in Client, UNCHANGED active, TableInstall(t)
  PROVE  FrameInv'
<1> DEFINE q == NextPage(t)
           d == TableOf(NextPage(t))
           f == frame[t]
           g == tab[t]
<1> USE DEF FrameInv
<1>1. /\ pc[t] = "install" /\ UNCHANGED <<owner, bits>> /\ NextTurn(t)
      /\ pte' = [pte EXCEPT ![q] = f] /\ pde' = [pde EXCEPT ![d] = g]
  BY DEF TableInstall, At, lockVars
<1>2. /\ f \in Frame /\ f \in Hand(t) /\ g \in Frame /\ g \in Hand(t)
  BY <1>1 DEF FoundOK, Hand
<1>3. f # g
  BY <1>1, MemoryAssumption DEF FoundOK, CallOK, PoolOf
<1> HIDE DEF q, d, f, g
<1>4. \A r \in Page : pte'[r] = pte[r] \/ (r = q /\ pte'[r] = f)
  BY <1>1 DEF Types
<1>5. \A e \in Table : pde'[e] = pde[e] \/ (e = d /\ pde'[e] = g)
  BY <1>1 DEF Types
<1>6. Types'
  BY <1>1, <1>2, NextTurnFacts DEF Types
<1>7. /\ CallOK' /\ FoundOK' /\ FoundClear'
      /\ Hand(t)' = {} /\ \A u \in Client : u # t => Hand(u)' = Hand(u)
  BY <1>1, EndTurnKeeps
<1>8. UsedMarked'
  BY <1>1, <1>2, <1>4, <1>5, <1>7 DEF UsedMarked, Marked
<1>9. Once'
  BY <1>2, <1>3, <1>4, <1>5, <1>7, SameGuarded DEF Once
<1> QED
  BY <1>6, <1>7, <1>8, <1>9

LEMMA TableScanStep ==
  ASSUME FrameInv, NEW t \in Client, UNCHANGED active, TableScan(t)
  PROVE  FrameInv'
<1> DEFINE i == FirstFree("kernel")
           q == NextPage(t)
<1> USE DEF FrameInv
<1>1. pc[t] = "map" /\ ~ HasTable(q) /\ UNCHANGED <<owner, bits, pte, pde, job, frame>>
  BY DEF TableScan, At, lockVars, tables
<1>2. \/ i # -1 /\ tab' = [tab EXCEPT ![t] = <<"kernel", i>>]
           /\ pc' = [pc EXCEPT ![t] = "tset"]
      \/ UNCHANGED <<pc, tab>>
  BY DEF TableScan, Goto
<1>3. t \in Process
  BY <1>1 DEF HasTable, NextPage, SpaceOf, CallOK
<1>4. i # -1 => <<"kernel", i>> \in Frame /\ i \notin bits["kernel"]
  <2>1. "kernel" \in Pool
    BY DEF Pool
  <2> QED
    BY <2>1, Sizes, ScanOne DEF FirstFree, Types, Clear
<1> HIDE DEF i, q
<1>5. CASE UNCHANGED <<pc, tab>>
  BY <1>1, <1>5, SameGuarded DEF Types, CallOK, FoundOK, FoundClear, Finds, Marked, UsedMarked, Once, Hand
<1>6. CASE i # -1 /\ tab' = [tab EXCEPT ![t] = <<"kernel", i>>]
             /\ pc' = [pc EXCEPT ![t] = "tset"]
  <2>1. Types'
    BY <1>1, <1>4, <1>6 DEF Types, PC
  <2>2. \A u \in Client : u # t => pc'[u] = pc[u] /\ tab'[u] = tab[u]
    BY <1>6 DEF Types
  <2>3. pc'[t] = "tset" /\ tab'[t] = <<"kernel", i>>
    BY <1>6 DEF Types
  <2>4. CallOK'
    BY <1>1, <2>2, <2>3 DEF CallOK
  <2>5. FoundOK'
    BY <1>1, <1>3, <1>4, <1>6, <2>2, <2>3 DEF FoundOK
  <2>6. FoundClear'
    BY <1>1, <1>4, <1>6, <2>2, <2>3, SameGuarded DEF FoundClear, Finds, Marked
  <2>7. \A u \in Client : Hand(u)' = Hand(u)
    BY <1>1, <2>2, <2>3 DEF Hand
  <2> QED
    BY <1>1, <2>1, <2>4, <2>5, <2>6, <2>7, SameUses
<1> QED
  BY <1>2, <1>5, <1>6

(* As PallocSetStep, with the page's frame in hand besides.                *)
LEMMA TableSetStep ==
  ASSUME FrameInv, NEW t \in Client, UNCHANGED active, TableSet(t)
  PROVE  FrameInv'
<1> DEFINE f == tab[t]
<1> USE DEF FrameInv, Goto
<1>1. UNCHANGED <<owner, pte, pde, job, frame, tab>> /\ pc[t] = "tset"
      /\ pc' = [pc EXCEPT ![t] = "install"]
      /\ bits' = [bits EXCEPT !["kernel"] = @ \union {f[2]}]
  BY DEF TableSet, TableBit, bitmap_set, At, lockVars, tables
<1>2. f \in Frame /\ f = <<f[1], f[2]>> /\ f[1] = "kernel" /\ f[2] \in Nat /\ "kernel" \in Pool
  BY <1>1, Sizes DEF FoundOK
<1>3. \A u \in Client : u # t => pc'[u] = pc[u]
  BY <1>1 DEF Types
<1>4. pc'[t] = "install"
  BY <1>1 DEF Types
<1>5. \A g \in Frame : Marked(g)' <=> Marked(g) \/ g = f
  BY <1>1, <1>2, Sizes DEF Marked, Types
<1>6. Hand(t)' = Hand(t) \union {f}
  BY <1>1, <1>2, <1>4 DEF Hand
<1>7. \A u \in Client : u # t => Hand(u)' = Hand(u)
  BY <1>1, <1>3 DEF Hand
<1>8. Types'
  BY <1>1, <1>2 DEF Types, PC
<1>9. CallOK'
  BY <1>1, <1>3, <1>4 DEF CallOK
<1>10. FoundOK'
  BY <1>1, <1>3, <1>4 DEF FoundOK
<1>11. Finds(t, f)
  BY <1>1 DEF Finds
<1> HIDE DEF f
<1>12. FoundClear'
  <2> SUFFICES ASSUME NEW u \in Client, NEW g \in GuardedFrame, Finds(u, g)'
               PROVE  ~ Marked(g)'
    BY SameGuarded DEF FoundClear
  <2>1. u # t /\ Finds(u, g)
    BY <1>1, <1>3, <1>4 DEF Finds
  <2>2. g # f
    BY <1>11, <2>1, OneFinder
  <2> QED
    BY <1>5, <2>1, <2>2 DEF FoundClear, GuardedFrame
<1>13. UsedMarked'
  BY <1>1, <1>5, <1>6, <1>7, MemoryAssumption DEF UsedMarked, Types, Hand
<1>14. f \in GuardedFrame => ~ Marked(f)
  BY <1>11 DEF FoundClear
<1>15. Once'
  <2> SUFFICES ASSUME NEW g \in GuardedFrame
               PROVE  /\ \A u \in Client : \A q \in Page : ~ (g \in Hand(u)' /\ pte[q] = g)
                      /\ \A u \in Client : \A d \in Table : ~ (g \in Hand(u)' /\ pde[d] = g)
                      /\ \A u, v \in Client : g \in Hand(u)' /\ g \in Hand(v)' => u = v
    BY <1>1, SameGuarded DEF Once
  <2>1. g # NoFrame
    BY MemoryAssumption DEF GuardedFrame
  <2>2. CASE g = f
    BY <1>6, <1>7, <1>14, <2>1, <2>2 DEF UsedMarked
  <2>3. CASE g # f
    BY <1>6, <1>7, <2>3 DEF Once
  <2> QED
    BY <2>2, <2>3
<1> QED
  BY <1>8, <1>9, <1>10, <1>12, <1>13, <1>15

(* A call that hands NULL to memset stops with everything as it was.       *)
LEMMA ReturnNull ==
  ASSUME NEW t \in Client, Return(t), halted' = "null"
  PROVE  /\ pc[t] = "return" /\ job[t].kind = "user" /\ job[t].left > 0
         /\ UNCHANGED <<owner, depth, bits, vaddr, pte, pde, pc, job, frame, tab>>
BY DEF Return, ReturnFrom, At, lockVars, tables

LEMMA ReturnNullStep ==
  ASSUME FrameInv, NEW t \in Client, UNCHANGED active, Return(t), halted' = "null"
  PROVE  FrameInv'
BY ReturnNull, SameGuarded
DEF FrameInv, Types, CallOK, FoundOK, FoundClear, Finds, Marked, UsedMarked, Once, Hand

LEMMA ReturnStep ==
  ASSUME FrameInv, NEW t \in Client, UNCHANGED active, Return(t), halted' # "null"
  PROVE  FrameInv'
<1> USE DEF FrameInv
<1>1. /\ pc[t] = "return" /\ pc' = [pc EXCEPT ![t] = "idle"]
      /\ job' = [job EXCEPT ![t] = NoJob]
      /\ UNCHANGED <<bits, pte, pde, frame, tab>>
      /\ Locks!Release(t, LockOf(job[t].kind))
  BY DEF Return, ReturnFrom, At, Goto, tables
<1>2. LockOf(job[t].kind) \in Pool
  BY DEF LockOf, Pool
<1>3. \A u \in Client, p \in Pool : u # t /\ owner[p] = u => owner'[p] = u
  BY <1>1, <1>2 DEF Locks!Release, Types
<1>4. \A u \in Client : u # t => pc'[u] = pc[u] /\ job'[u] = job[u]
  BY <1>1 DEF Types
<1>5. pc'[t] = "idle"
  BY <1>1 DEF Types
<1>6. Types'
  <2>1. NoJob \in JobType
    BY DEF NoJob, JobType, Kind
  <2>2. owner' \in [Pool -> Client \union {NoThread}]
    BY <1>1, <1>2 DEF Locks!Release, Types
  <2> QED
    BY <1>1, <2>1, <2>2 DEF Types, PC
<1>7. CallOK'
  <2>1. \A k : LockOf(k) \in Pool
    BY DEF LockOf, Pool
  <2> QED
    BY <1>3, <1>4, <1>5, <2>1 DEF CallOK
<1>8. FoundOK'
  BY <1>1, <1>4, <1>5 DEF FoundOK
<1>9. FoundClear'
  BY <1>1, <1>4, <1>5, SameGuarded DEF FoundClear, Finds, Marked
<1>10. \A u \in Client : Hand(u)' = Hand(u)
  BY <1>1, <1>4, <1>5 DEF Hand
<1> QED
  BY <1>1, <1>6, <1>7, <1>8, <1>9, <1>10, SameUses

LEMMA FrameNext == FrameInv /\ [Next]_vars => FrameInv'
<1> SUFFICES ASSUME FrameInv, [Next]_vars PROVE FrameInv'
  OBVIOUS
<1>1. CASE UNCHANGED vars
  BY <1>1, SameGuarded DEF vars, FrameInv, Types, CallOK, FoundOK, FoundClear, Finds, Marked,
              UsedMarked, Once, Hand
<1>2. CASE Next
  <2>1. PICK t \in active : Operation(t)
    BY <1>2 DEF Next
  <2>. t \in Client /\ UNCHANGED active
    BY <1>2 DEF Next, FrameInv, Types
  <2>2. CASE \E n \in 1 .. MaxPages : get_kernel_pages(t, n) \/ get_user_pages(t, n)
    <3>1. PICK n \in 1 .. MaxPages : get_kernel_pages(t, n) \/ get_user_pages(t, n)
      BY <2>2
    <3>2. n \in Nat
      BY MemoryAssumption
    <3> QED
      BY <3>1, <3>2, CallStep DEF get_kernel_pages, get_user_pages
  <2>3. CASE get_a_page(t)
    BY <2>3, GetAPageStep
  <2>4. CASE Step(t)
    BY <2>4, VaddrGetStep, PallocScanStep, PallocSetStep, PageTableAddStep,
       TableScanStep, TableSetStep, TableInstallStep, ReturnNullStep, ReturnStep DEF Step
  <2> QED
    BY <2>1, <2>2, <2>3, <2>4 DEF Operation
<1> QED
  BY <1>1, <1>2

LEMMA FrameInvariant == Spec => []FrameInv
<1> QED
  BY FrameInit, FrameNext, PTL DEF Spec

(* A frame of user_pool is never handed out twice, whatever the kernel     *)
(* threads allocate meanwhile: palloc scans and marks user_pool under the  *)
(* lock of user_pool only.                                                 *)
THEOREM UserFramesOnce == Spec => []UserFrameOnce
<1>1. FrameInv => UserFrameOnce
  BY OnceUses DEF FrameInv, UserFrameOnce, GuardedFrame
<1> QED
  BY <1>1, FrameInvariant, PTL

(* As long as only kernel threads or only processes allocate, no frame of  *)
(* either pool is handed out twice, as a page or as a page table.          *)
THEOREM FramesOnce == Spec => []FrameOnce
<1>1. FrameInv => FrameOnce
  BY OnceUses DEF FrameInv, FrameOnce, GuardedFrame
<1> QED
  BY <1>1, FrameInvariant, PTL

(* Then palloc is atomic as well: what it found clear is clear when it     *)
(* marks it.                                                               *)
THEOREM PallocIsAtomic == Spec => []PallocAtomicApart
<1>1. FrameInv => PallocAtomicApart
  BY DEF FrameInv, FoundClear, Finds, FoundOK, GuardedFrame, Marked, PallocAtomic,
         PallocAtomicApart
<1> QED
  BY <1>1, FrameInvariant, PTL

-----------------------------------------------------------------------------
(***************************************************************************)
(* The books stay exact.                                                   *)
(***************************************************************************)

JobNat == [kind : Kind, n : Nat, start : Nat, left : Nat]

(* Every frame that is marked is in a table or in a client's hands.        *)
InUse(f) ==
  \/ \E q \in Page : pte[q] = f
  \/ \E d \in Table : pde[d] = f
  \/ \E t \in Client : f \in Hand(t)

MarkedUsed == \A f \in Frame : Marked(f) => InUse(f)

Books ==
  FrameInv /\ TypeOK /\ MarkedUsed /\ PagesAccounted /\ CallsExact /\ DepthsExact

LEMMA Pages ==
  /\ \A s \in Space : \A i : <<s, i>> \in Page <=> i \in 0 .. SpaceSize[s]
  /\ \A q \in Page : q = <<q[1], q[2]>> /\ q[1] \in Space /\ q[2] \in 0 .. SpaceSize[q[1]]
  /\ \A q \in Page : q[1] # "kernel" => TableOf(q) \in Table
  /\ \A d \in Table : d[1] # "kernel"
  /\ Stack \in Nat /\ \A s \in Process : SpaceSize[s] = Stack + 1
  /\ "kernel" \notin Process
<1>1. \A s \in Space : \A i : <<s, i>> \in Page <=> i \in 0 .. SpaceSize[s]
  BY DEF Page
<1>2. \A q \in Page : q = <<q[1], q[2]>> /\ q[1] \in Space /\ q[2] \in 0 .. SpaceSize[q[1]]
  BY DEF Page
<1>3. \A q \in Page : q[1] # "kernel" => TableOf(q) \in Table
  BY DEF Table, TableOf
<1>4. \A d \in Table : d[1] # "kernel"
  BY DEF Table
<1>5. Stack \in Nat /\ "kernel" \notin Process
  BY MemoryAssumption DEF Stack, Client
<1>6. \A s \in Process : SpaceSize[s] = Stack + 1
  BY <1>5, MemoryAssumption DEF SpaceSize, Space, Stack
<1> QED
  BY <1>1, <1>2, <1>3, <1>4, <1>5, <1>6

(* Where a call's pages are.                                               *)
LEMMA WhoseSpace ==
  ASSUME Books, NEW t \in Client
  PROVE  /\ SpaceOf(t) \in Space \union Client
         /\ pc[t] # "idle" =>
              /\ SpaceOf(t) \in Space
              /\ PoolOf(job[t].kind) = PoolOf(SpaceOf(t))
              /\ LockOf(job[t].kind) = PoolOf(SpaceOf(t))
              /\ job[t].kind = "kernel" => t \notin Process /\ SpaceOf(t) = "kernel"
              /\ job[t].kind # "kernel" => t \in Process /\ SpaceOf(t) = t
BY MemoryAssumption DEF Books, FrameInv, CallOK, SpaceOf, Space, PoolOf, LockOf, Client

(* No two calls work on the same address space.                            *)
LEMMA OwnSpace ==
  ASSUME Books, NEW t \in Client, NEW u \in Client, u # t, pc[t] # "idle"
  PROVE  SpaceOf(t) # u /\ (pc[u] # "idle" => SpaceOf(t) # SpaceOf(u))
BY WhoseSpace, MemoryAssumption DEF Books, FrameInv, CallOK, SpaceOf, LockOf, Client

(* The numbers of a call.                                                  *)
LEMMA JobNumbers ==
  ASSUME Books, NEW t \in Client
  PROVE  /\ job[t] \in JobNat /\ job[t].kind \in Kind
         /\ job[t].n \in Nat /\ job[t].start \in Nat /\ job[t].left \in Nat
         /\ pc[t] = "idle" <=> job[t] = NoJob
         /\ pc[t] \notin {"idle", "return"} => job[t].left \in 1 .. job[t].n
         /\ pc[t] \in PC
BY DEF Books, TypeOK, JobNat

(* The page a turn of malloc_page's loop is about.                         *)
LEMMA NextPageFacts ==
  ASSUME Books, NEW t \in Client, pc[t] \in Working
  PROVE  LET i == job[t].start + job[t].n - job[t].left IN
         /\ NextPage(t) = <<SpaceOf(t), i>> /\ NextPage(t) \in Page
         /\ i \in Left(t) /\ pte[NextPage(t)] = NoFrame
         /\ t \in Process => TableOf(NextPage(t)) \in Table
<1> DEFINE i == job[t].start + job[t].n - job[t].left
<1>1. i \in Left(t)
  BY JobNumbers DEF Left, Working
<1>2. i \in vaddr[SpaceOf(t)] /\ pte[<<SpaceOf(t), i>>] = NoFrame
  BY <1>1 DEF Books, CallsExact, CallExact
<1>3. SpaceOf(t) \in Space
  BY WhoseSpace DEF Working
<1>4. <<SpaceOf(t), i>> \in Page
  BY <1>2, <1>3, Pages DEF Books, TypeOK
<1>5. t \in Process => SpaceOf(t) # "kernel"
  BY WhoseSpace, MemoryAssumption DEF Working, Client
<1> QED
  BY <1>1, <1>2, <1>4, <1>5, Pages DEF NextPage

(* What another client does leaves the state of a call as it was.          *)
LEMMA CallKept ==
  ASSUME Books, NEW u \in Client, pc'[u] = pc[u], job'[u] = job[u],
         Full("user") => Full("user")',
         pc[u] # "idle" =>
           /\ vaddr'[SpaceOf(u)] = vaddr[SpaceOf(u)]
           /\ \A i \in vaddr[SpaceOf(u)] : pte'[<<SpaceOf(u), i>>] = pte[<<SpaceOf(u), i>>]
           /\ \A d \in Table : d[1] = SpaceOf(u) => pde'[d] = pde[d]
  PROVE  CallExact(u)'
<1>1. CallExact(u)
  BY DEF Books, CallsExact
<1>2. CASE pc[u] = "idle"
  <2>1. job[u].kind = "none" /\ job[u] = NoJob
    BY <1>2, JobNumbers DEF NoJob
  <2> QED
    BY <1>2, <2>1 DEF CallExact, Working
<1>3. CASE pc[u] # "idle"
  <2>1. SpaceOf(u)' = SpaceOf(u) /\ Left(u)' = Left(u) /\ Done(u)' = Done(u)
        /\ NextPage(u)' = NextPage(u)
    BY DEF SpaceOf, Left, Done, NextPage
  <2>2. job[u].kind \in {"user", "stack"} => SpaceOf(u) = u
    BY DEF SpaceOf
  <2>3. pc[u] \in {"tset", "install"} =>
          TableOf(NextPage(u)) \in Table /\ TableOf(NextPage(u))[1] = SpaceOf(u)
    <3>1. pc[u] \in {"tset", "install"} => u \in Process
      BY DEF Books, FrameInv, FoundOK
    <3> QED
      BY <3>1, NextPageFacts DEF Working, TableOf
  <2>4. job[u].kind = "user" => (NoRoom(u, job[u].n) => NoRoom(u, job[u].n)')
    BY <1>3, <2>2 DEF NoRoom
  <2> QED
    BY <1>1, <1>3, <2>1, <2>2, <2>3, <2>4 DEF CallExact
<1> QED
  BY <1>2, <1>3

(* A pool that is used up stays used up.                                   *)
LEMMA FullStays ==
  ASSUME Books, TypeOK', NEW p \in Pool, bits[p] \subseteq bits'[p], Full(p)
  PROVE  Full(p)'
BY DEF Full, TypeOK

(* So it does with a lock.                                                 *)
LEMMA DepthKept ==
  ASSUME Books, NEW u \in Client, NEW p \in Pool, DepthExact(u, p),
         pc'[u] = pc[u], job'[u] = job[u], owner'[p] = u => owner[p] = u /\ depth'[p] = depth[p],
         Full("user") => Full("user")',
         u \in Process => /\ vaddr[u] \subseteq vaddr'[u]
                          /\ pte'[<<u, Stack>>] = pte[<<u, Stack>>]
  PROVE  DepthExact(u, p)'
BY DEF DepthExact, KeptLock

(* Why a marked page is accounted for, without the union of Underway.      *)
Accounted(s, i) ==
  \/ pte[<<s, i>>] # NoFrame
  \/ \E x \in Client : SpaceOf(x) = s /\ pc[x] \in Working /\ i \in Left(x)
  \/ Full(PoolOf(s))

Accounts ==
  /\ \A q \in Page : pte[q] # NoFrame => q[2] \in vaddr[q[1]]
  /\ \A s \in Space : \A i \in (0 .. SpaceSize[s] - 1) \cap vaddr[s] : Accounted(s, i)

LEMMA PagesAccountedIs == PagesAccounted <=> Accounts
<1>1. \A s, i : i \in Underway(s) <=>
        \E x \in Client : SpaceOf(x) = s /\ pc[x] \in Working /\ i \in Left(x)
  BY DEF Underway
<1> QED
  BY <1>1 DEF PagesAccounted, Accounts, Accounted

(* A step of t that leaves the calls of the others alone.                  *)
Alone(t) == \A u \in Client : u # t => pc'[u] = pc[u] /\ job'[u] = job[u]

(* A step that at most marks a frame for a call and moves the call on.     *)
LEMMA TablesKept ==
  ASSUME Books, TypeOK', NEW t \in Client, Alone(t), UNCHANGED <<vaddr, pte, pde>>,
         \A p \in Pool : bits[p] \subseteq bits'[p],
         \A u \in Client : Hand(u) \subseteq Hand(u)',
         \A f \in Frame : Marked(f)' => Marked(f) \/ f \in Hand(t)',
         pc[t] \in Working =>
           \/ pc'[t] \in Working /\ SpaceOf(t)' = SpaceOf(t) /\ Left(t)' = Left(t)
           \/ Full(PoolOf(SpaceOf(t)))
  PROVE  /\ MarkedUsed' /\ PagesAccounted'
         /\ \A u \in Client : u # t => CallExact(u)'
         /\ \A p \in Pool : Full(p) => Full(p)'
<1>1. MarkedUsed'
  BY DEF Books, MarkedUsed, InUse
<1>2. \A p \in Pool : Full(p) => Full(p)'
  BY FullStays
<1>3. ASSUME NEW s \in Space, NEW i, Accounted(s, i) PROVE Accounted(s, i)'
  <2>. PoolOf(s) \in Pool /\ PoolOf(SpaceOf(t)) \in Pool
    BY DEF PoolOf, Pool
  <2>1. CASE \E x \in Client : SpaceOf(x) = s /\ pc[x] \in Working /\ i \in Left(x)
    <3>1. PICK x \in Client : SpaceOf(x) = s /\ pc[x] \in Working /\ i \in Left(x)
      BY <2>1
    <3>2. CASE x = t
      BY <1>2, <3>1, <3>2 DEF Accounted
    <3>3. CASE x # t
      BY <3>1, <3>3 DEF Accounted, Alone, SpaceOf, Left
    <3> QED
      BY <3>2, <3>3
  <2> QED
    BY <1>2, <1>3, <2>1 DEF Accounted
<1>4. Accounts
  BY PagesAccountedIs DEF Books
<1>5. Accounts'
  BY <1>3, <1>4 DEF Accounts
<1>6. PagesAccounted'
  BY <1>5, PagesAccountedIs, PTL
<1>7. \A u \in Client : u # t => CallExact(u)'
  BY <1>2, CallKept DEF Alone, Pool
<1> QED
  BY <1>1, <1>2, <1>6, <1>7

(* A step inside a call that takes and gives back no lock.                 *)
LEMMA DepthsKept ==
  ASSUME Books, NEW t \in Client, Alone(t), UNCHANGED <<owner, depth>>,
         pc[t] # "idle", pc'[t] # "idle", job'[t].kind = job[t].kind,
         Full("user") => Full("user")',
         \A u \in Process : vaddr[u] \subseteq vaddr'[u],
         \A u \in Process : u # t \/ job[t].kind # "stack" =>
           pte'[<<u, Stack>>] = pte[<<u, Stack>>]
  PROVE  DepthsExact'
<1>1. ASSUME NEW u \in Client, NEW p \in Pool PROVE DepthExact(u, p)'
  <2>1. DepthExact(u, p)
    BY DEF Books, DepthsExact
  <2>2. CASE u # t
    BY <2>1, <2>2, DepthKept DEF Alone
  <2>3. CASE u = t
    BY <2>1, <2>3 DEF DepthExact, KeptLock, LockOf
  <2> QED
    BY <2>2, <2>3
<1> QED
  BY <1>1 DEF Books, DepthsExact

-----------------------------------------------------------------------------
LEMMA CallBooks ==
  ASSUME Books, NEW t \in Client, NEW kind, NEW n \in 1 .. MaxPages,
         \/ kind = "kernel" /\ t \in KernelClient
         \/ kind = "user" /\ t \in Process /\ Stack \in vaddr[t],
         t \in active, UNCHANGED active, Call(t, kind, n)
  PROVE  Books'
<1> DEFINE j == [kind |-> kind, n |-> n, start |-> 0, left |-> n]
<1>1. /\ pc[t] = "idle" /\ pc' = [pc EXCEPT ![t] = "vaddr"] /\ job' = [job EXCEPT ![t] = j]
      /\ Locks!Acquire(t, LockOf(kind)) /\ UNCHANGED <<active, bits, vaddr, pte, pde, frame, tab, halted>>
  BY DEF Call, At, Goto, tables
<1>2. n \in Nat /\ n >= 1 /\ kind \in Kind /\ j \in JobNat /\ j # NoJob /\ LockOf(kind) \in Pool
  BY MemoryAssumption DEF Kind, JobNat, NoJob, LockOf, Pool
<1>3. FrameInv'
  BY <1>2, CallStep DEF Books
<1>4. Alone(t) /\ pc'[t] = "vaddr" /\ job'[t] = j
  BY <1>1 DEF Alone, Books, TypeOK
<1>5. TypeOK'
  <2>1. job' \in [Client -> JobNat] /\ pc' \in [Client -> PC]
    BY <1>1, <1>2 DEF Books, TypeOK, JobNat, PC
  <2>2. \A u \in Client : /\ pc'[u] = "idle" <=> job'[u] = NoJob
                          /\ pc'[u] \notin {"idle", "return"} => job'[u].left \in 1 .. job'[u].n
    BY <1>2, <1>4, JobNumbers DEF Alone
  <2>3. owner' \in [Pool -> Client \union {NoThread}] /\ depth' \in [Pool -> Nat]
    BY <1>1, <1>2 DEF Books, TypeOK, Locks!Acquire
  <2> QED
    BY <1>1, <2>1, <2>2, <2>3 DEF Books, TypeOK, JobNat
<1>6. \A u \in Client : Hand(u)' = Hand(u)
  BY <1>1, <1>4 DEF Hand, Alone
<1>7. MarkedUsed' /\ PagesAccounted' /\ \A u \in Client : u # t => CallExact(u)'
  BY <1>1, <1>4, <1>5, <1>6, TablesKept DEF Working, Marked
<1>8. CallsExact'
  <2>1. CallExact(t)'
    BY <1>1, <1>2, <1>4 DEF CallExact, Working
  <2> QED
    BY <1>7, <2>1 DEF CallsExact
<1>9. DepthsExact'
  <2>1. \A p \in Pool : owner[p] = NoThread <=> depth[p] = 0
    BY DEF Books, DepthsExact
  <2>2. \A p \in Pool : owner'[p] = NoThread <=> depth'[p] = 0
    BY <1>1, <1>2, <2>1, MemoryAssumption DEF Locks!Acquire, Books, TypeOK, Client
  <2>3. ASSUME NEW u \in Client, NEW p \in Pool, u # t PROVE DepthExact(u, p)'
    <3>1. owner'[p] = u => owner[p] = u /\ depth'[p] = depth[p]
      BY <1>1, <1>2, <2>3 DEF Locks!Acquire, Books, TypeOK
    <3> QED
      BY <1>1, <1>4, <2>3, <3>1, DepthKept DEF Alone, Full, Books, DepthsExact
  <2>4. ASSUME NEW p \in Pool PROVE DepthExact(t, p)'
    <3>1. DepthExact(t, p)
      BY DEF Books, DepthsExact
    <3>2. CASE p = LockOf(kind)
      <4>1. owner[p] \in {NoThread, t} /\ depth'[p] = depth[p] + 1
        BY <1>1, <1>2, <3>2 DEF Locks!Acquire, Books, TypeOK
      <4>2. CASE owner[p] = NoThread
        BY <1>4, <2>1, <3>2, <4>1, <4>2 DEF DepthExact
      <4>3. CASE owner[p] = t
        <5>1. p = "user" /\ KeptLock(t) /\ depth[p] = 1
          BY <1>1, <3>1, <4>3 DEF DepthExact
        <5>2. KeptLock(t)'
          BY <1>1, <1>4, <3>2, <5>1 DEF KeptLock, Full, LockOf
        <5> QED
          BY <1>4, <4>1, <5>1, <5>2 DEF DepthExact
      <4> QED
        BY <4>1, <4>2, <4>3
    <3>3. CASE p # LockOf(kind)
      <4>1. owner'[p] = owner[p] /\ depth'[p] = depth[p]
        BY <1>1, <1>2, <3>3 DEF Locks!Acquire, Books, TypeOK
      <4>2. owner[p] # t
        BY <1>1, <3>1, <3>3, Pages, MemoryAssumption DEF DepthExact, KeptLock, LockOf
      <4> QED
        BY <4>1, <4>2 DEF DepthExact
    <3> QED
      BY <3>2, <3>3
  <2> QED
    BY <2>2, <2>3, <2>4 DEF DepthsExact
<1> QED
  BY <1>3, <1>5, <1>7, <1>8, <1>9 DEF Books

LEMMA GetAPageBooks ==
  ASSUME Books, NEW t \in Client, t \in active, UNCHANGED active, get_a_page(t)
  PROVE  Books'
<1> DEFINE j == [kind |-> "stack", n |-> 1, start |-> Stack, left |-> 1]
<1>1. /\ pc[t] = "idle" /\ pc' = [pc EXCEPT ![t] = "scan"] /\ job' = [job EXCEPT ![t] = j]
      /\ Locks!Acquire(t, "user") /\ UNCHANGED <<active, bits, pte, pde, frame, tab, halted>>
      /\ t \in Process /\ Stack \notin vaddr[t]
      /\ vaddr' = [vaddr EXCEPT ![t] = @ \union {Stack}]
  BY DEF get_a_page, At, Goto, tables, LockOf, bitmap_set
<1>2. j \in JobNat /\ j # NoJob /\ "user" \in Pool /\ t \in Space
  BY <1>1, Pages DEF Kind, JobNat, NoJob, Pool, Space
<1>3. FrameInv'
  BY GetAPageStep DEF Books
<1>4. Alone(t) /\ pc'[t] = "scan" /\ job'[t] = j
  BY <1>1 DEF Alone, Books, TypeOK
<1>5. vaddr'[t] = vaddr[t] \union {Stack} /\ \A s \in Space : s # t => vaddr'[s] = vaddr[s]
  BY <1>1, <1>2 DEF Books, TypeOK
<1>6. TypeOK'
  <2>1. job' \in [Client -> JobNat] /\ pc' \in [Client -> PC]
    BY <1>1, <1>2 DEF Books, TypeOK, JobNat, PC
  <2>2. \A u \in Client : /\ pc'[u] = "idle" <=> job'[u] = NoJob
                          /\ pc'[u] \notin {"idle", "return"} => job'[u].left \in 1 .. job'[u].n
    BY <1>2, <1>4, JobNumbers DEF Alone
  <2>3. owner' \in [Pool -> Client \union {NoThread}] /\ depth' \in [Pool -> Nat]
    BY <1>1, <1>2 DEF Books, TypeOK, Locks!Acquire
  <2>4. vaddr' \in [Space -> SUBSET Nat]
    BY <1>1, Pages DEF Books, TypeOK
  <2>5. \A s \in Space : vaddr'[s] \subseteq 0 .. SpaceSize[s]
    BY <1>1, <1>2, <1>5, Pages DEF Books, TypeOK
  <2> QED
    BY <1>1, <2>1, <2>2, <2>3, <2>4, <2>5 DEF Books, TypeOK, JobNat
<1>7. MarkedUsed'
  <2>1. \A u \in Client : Hand(u)' = Hand(u)
    BY <1>1, <1>4 DEF Hand, Alone
  <2> QED
    BY <1>1, <2>1 DEF Books, MarkedUsed, Marked, InUse
<1>8. SpaceOf(t)' = t /\ Left(t)' = {Stack} /\ Done(t)' = {}
  BY <1>4, Pages DEF SpaceOf, Left, Done
<1>9. PagesAccounted'
  <2>1. Accounts
    BY PagesAccountedIs DEF Books
  <2>2. \A q \in Page : pte'[q] # NoFrame => q[2] \in vaddr'[q[1]]
    BY <1>1, <1>5, <2>1, Pages DEF Accounts
  <2>3. ASSUME NEW s \in Space, NEW i \in (0 .. SpaceSize[s] - 1) \cap vaddr'[s]
        PROVE  Accounted(s, i)'
    <3>1. CASE i \in vaddr[s]
      <4>1. Accounted(s, i)
        BY <2>1, <2>3, <3>1 DEF Accounts
      <4>2. \A x \in Client : x # t => SpaceOf(x)' = SpaceOf(x) /\ Left(x)' = Left(x) /\ pc'[x] = pc[x]
        BY <1>4 DEF Alone, SpaceOf, Left
      <4>3. Full(PoolOf(s))' = Full(PoolOf(s)) /\ pc[t] \notin Working
        BY <1>1 DEF Full, Working
      <4> QED
        BY <1>1, <4>1, <4>2, <4>3 DEF Accounted
    <3>2. CASE i \notin vaddr[s]
      <4>1. s = t /\ i = Stack
        BY <1>5, <2>3, <3>2
      <4> QED
        BY <1>4, <1>8, <4>1 DEF Accounted, Working
    <3> QED
      BY <3>1, <3>2
  <2>4. Accounts'
    BY <2>2, <2>3 DEF Accounts
  <2> QED
    BY <2>4, PagesAccountedIs, PTL
<1>10. CallsExact'
  <2>1. ASSUME NEW u \in Client, u # t PROVE CallExact(u)'
    <3>1. pc[u] # "idle" => SpaceOf(u) # t /\ SpaceOf(u) \in Space
      BY <2>1, OwnSpace, WhoseSpace
    <3> QED
      BY <1>1, <1>4, <1>5, <2>1, <3>1, CallKept DEF Alone, Full
  <2>2. <<t, Stack>> \in Page /\ pte[<<t, Stack>>] = NoFrame
    <3>1. <<t, Stack>> \in Page
      BY <1>1, <1>2, Pages
    <3> QED
      BY <1>1, <3>1 DEF Books, PagesAccounted
  <2>3. CallExact(t)'
    BY <1>1, <1>2, <1>4, <1>5, <1>8, <2>2, MemoryAssumption DEF CallExact, Working
  <2> QED
    BY <2>1, <2>3 DEF CallsExact
<1>11. DepthsExact'
  <2>1. \A p \in Pool : owner[p] = NoThread <=> depth[p] = 0
    BY DEF Books, DepthsExact
  <2>2. \A p \in Pool : owner'[p] = NoThread <=> depth'[p] = 0
    BY <1>1, <1>2, <2>1, MemoryAssumption DEF Locks!Acquire, Books, TypeOK, Client
  <2>3. ASSUME NEW u \in Client, NEW p \in Pool, u # t PROVE DepthExact(u, p)'
    <3>1. owner'[p] = u => owner[p] = u /\ depth'[p] = depth[p]
      BY <1>1, <1>2, <2>3 DEF Locks!Acquire, Books, TypeOK
    <3>2. u \in Process => vaddr'[u] = vaddr[u]
      BY <1>5, <2>3 DEF Space
    <3> QED
      BY <1>1, <1>4, <2>3, <3>1, <3>2, DepthKept DEF Alone, Full, Books, DepthsExact
  <2>4. ASSUME NEW p \in Pool PROVE DepthExact(t, p)'
    <3>1. owner[p] # t
      BY <1>1 DEF Books, DepthsExact, DepthExact, KeptLock
    <3>2. CASE p = "user"
      <4>1. owner[p] = NoThread /\ depth'[p] = depth[p] + 1
        BY <1>1, <1>2, <3>1, <3>2 DEF Locks!Acquire, Books, TypeOK
      <4> QED
        BY <1>4, <2>1, <3>2, <4>1 DEF DepthExact, LockOf
    <3>3. CASE p # "user"
      BY <1>1, <1>2, <3>1, <3>3 DEF Locks!Acquire, Books, TypeOK, DepthExact
    <3> QED
      BY <3>2, <3>3
  <2> QED
    BY <2>2, <2>3, <2>4 DEF DepthsExact
<1> QED
  BY <1>3, <1>6, <1>7, <1>9, <1>10, <1>11 DEF Books

(* What vaddr_get finds: pages that are free, inside the address space but *)
(* for the bit behind its bitmap, and below the stack of the process.      *)
LEMMA VaddrFound ==
  ASSUME Books, NEW t \in Client, pc[t] = "vaddr"
  PROVE  LET s == SpaceOf(t)
             n == job[t].n
             i == bitmap_scan(vaddr[s], SpaceSize[s], n)
         IN  /\ s \in Space /\ n \in Nat \ {0} /\ job[t].left = n
             /\ i = -1 => NoRoom(s, n)
             /\ i # -1 => /\ i \in Nat /\ i .. i + n - 1 \subseteq 0 .. SpaceSize[s]
                          /\ \A k \in i .. i + n - 1 : k \notin vaddr[s]
                          /\ s # "kernel" => i < Stack /\ \A k \in i .. i + n - 1 : k # Stack
<1> DEFINE s == SpaceOf(t)
           n == job[t].n
           i == bitmap_scan(vaddr[s], SpaceSize[s], n)
<1>1. s \in Space /\ n \in Nat \ {0} /\ job[t].left = n /\ job[t].kind # "stack"
  BY WhoseSpace, JobNumbers, MemoryAssumption DEF Books, CallsExact, CallExact
<1>2. vaddr[s] \in SUBSET Nat /\ SpaceSize[s] \in Nat
  BY <1>1, Sizes DEF Books, TypeOK
<1> DEFINE b == vaddr[s]
           size == SpaceSize[s]
<1>3. /\ i = -1 => \A j \in 0 .. size - n : Taken(b, j, n)
      /\ i # -1 => /\ i \in 0 .. size - 1 /\ i + n - 1 <= size /\ ~ Taken(b, i, n)
                   /\ \A j \in 0 .. size - n : j < i => Taken(b, j, n)
  <2> HIDE DEF b, size, n
  <2> QED BY <1>1, <1>2, ScanFinds DEF b, size
<1> HIDE DEF i
<1>4. i = -1 => NoRoom(s, n)
  BY <1>3 DEF Taken, NoRoom
<1>5. ASSUME i # -1
      PROVE  /\ i \in Nat /\ i .. i + n - 1 \subseteq 0 .. SpaceSize[s]
             /\ \A k \in i .. i + n - 1 : k \notin vaddr[s]
  <2> HIDE DEF s, n
  <2> QED BY <1>1, <1>2, <1>3, <1>5 DEF Taken
<1>6. ASSUME i # -1, s # "kernel"
      PROVE  i < Stack /\ \A k \in i .. i + n - 1 : k # Stack
  <2>1. t \in Process /\ s = t /\ job[t].kind = "user"
    BY <1>1, <1>6, JobNumbers, WhoseSpace DEF Kind, Books, FrameInv, CallOK
  <2>2. Stack \in vaddr[s] /\ size = Stack + 1 /\ Stack \in Nat
    BY <2>1, Pages DEF Books, CallsExact, CallExact
  <2> HIDE DEF s, n
  <2> QED BY <1>1, <1>2, <1>3, <1>5, <1>6, <2>2
<1> QED
  BY <1>1, <1>4, <1>5, <1>6 DEF i

LEMMA VaddrGetBooks ==
  ASSUME Books, NEW t \in Client, UNCHANGED active, VaddrGet(t)
  PROVE  Books' /\ halted' = "no"
<1> DEFINE s == SpaceOf(t)
           n == job[t].n
           i == bitmap_scan(vaddr[s], SpaceSize[s], n)
           j == [job[t] EXCEPT !.start = i]
<1>1. /\ pc[t] = "vaddr" /\ halted = "no"
      /\ UNCHANGED <<active, owner, depth, bits, pte, pde, frame, tab>>
      /\ \/ /\ i = -1 /\ pc' = [pc EXCEPT ![t] = "return"]
            /\ UNCHANGED <<vaddr, job, halted>>
         \/ /\ i # -1 /\ pc' = [pc EXCEPT ![t] = "scan"]
            /\ vaddr' = [vaddr EXCEPT ![s] = @ \union (i .. i + n - 1)]
            /\ job' = [job EXCEPT ![t] = j]
            /\ halted' = IF s = "kernel" \/ i < Stack THEN "no" ELSE "assert"
  BY DEF VaddrGet, VaddrTake, At, Goto, tables, lockVars
<1>2. /\ s \in Space /\ n \in Nat \ {0} /\ job[t].left = n
      /\ i = -1 => NoRoom(s, n)
      /\ i # -1 => /\ i \in Nat /\ i .. i + n - 1 \subseteq 0 .. SpaceSize[s]
                   /\ \A k \in i .. i + n - 1 : k \notin vaddr[s]
                   /\ s # "kernel" => i < Stack /\ \A k \in i .. i + n - 1 : k # Stack
  BY <1>1, VaddrFound
<1>3. FrameInv'
  BY VaddrGetStep DEF Books
<1> HIDE DEF i
<1>4. i # -1 => /\ j \in JobNat /\ j # NoJob /\ j.kind = job[t].kind
                /\ j.n = n /\ j.left = n /\ j.start = i
  BY <1>2, JobNumbers DEF JobNat, NoJob
<1> HIDE DEF j
<1>5. CASE i = -1
  <2>1. /\ pc' = [pc EXCEPT ![t] = "return"] /\ UNCHANGED <<vaddr, job, halted>>
    BY <1>1, <1>5
  <2>2. Alone(t) /\ pc'[t] = "return"
    BY <2>1 DEF Alone, Books, TypeOK
  <2>3. TypeOK'
    <3>1. pc' \in [Client -> PC]
      BY <2>1 DEF Books, TypeOK, PC
    <3>2. \A u \in Client : /\ pc'[u] = "idle" <=> job'[u] = NoJob
                            /\ pc'[u] \notin {"idle", "return"} => job'[u].left \in 1 .. job'[u].n
      BY <1>1, <2>1, <2>2, JobNumbers DEF Alone
    <3> QED
      BY <1>1, <1>2, <2>1, <3>1, <3>2 DEF Books, TypeOK
  <2>4. \A u \in Client : Hand(u)' = Hand(u)
    BY <1>1, <2>2 DEF Hand, Alone
  <2>5. MarkedUsed' /\ PagesAccounted' /\ \A u \in Client : u # t => CallExact(u)'
    BY <1>1, <2>1, <2>2, <2>3, <2>4, TablesKept DEF Working, Marked
  <2>6. CallExact(t)'
    <3>1. CallExact(t)
      BY DEF Books, CallsExact
    <3>2. Done(t)' = {}
      BY <1>2, <2>1, JobNumbers DEF Done
    <3>3. job[t].kind = "user" => NoRoom(t, n)'
      BY <1>1, <1>2, <1>5, <2>1, WhoseSpace DEF NoRoom
    <3> QED
      BY <1>1, <2>1, <2>2, <3>1, <3>2, <3>3 DEF CallExact, Working
  <2>7. DepthsExact'
    BY <1>1, <2>1, <2>2, DepthsKept DEF Full
  <2> QED
    BY <1>1, <1>3, <2>1, <2>3, <2>5, <2>6, <2>7 DEF Books, CallsExact
<1>6. CASE i # -1
  <2> DEFINE new == i .. i + n - 1
  <2>1. /\ pc' = [pc EXCEPT ![t] = "scan"] /\ job' = [job EXCEPT ![t] = j]
        /\ vaddr' = [vaddr EXCEPT ![s] = @ \union new] /\ halted' = "no"
    BY <1>1, <1>2, <1>6
  <2>2. Alone(t) /\ pc'[t] = "scan" /\ job'[t] = j
    BY <2>1 DEF Alone, Books, TypeOK
  <2>3. vaddr'[s] = vaddr[s] \union new /\ \A x \in Space : x # s => vaddr'[x] = vaddr[x]
    BY <1>2, <2>1 DEF Books, TypeOK
  <2>4. new \subseteq 0 .. SpaceSize[s] /\ new \subseteq Nat /\ i \in new
        /\ \A k \in new : k \notin vaddr[s] /\ (s # "kernel" => k # Stack)
    BY <1>2, <1>6
  <2>5. SpaceOf(t)' = s /\ Left(t)' = new /\ Done(t)' = {}
    BY <1>2, <1>4, <1>6, <2>2 DEF SpaceOf, Left, Done
  <2> HIDE DEF new, s, n
  <2>6. TypeOK'
    <3>1. job' \in [Client -> JobNat] /\ pc' \in [Client -> PC]
      BY <1>4, <1>6, <2>1 DEF Books, TypeOK, JobNat, PC
    <3>2. \A u \in Client : /\ pc'[u] = "idle" <=> job'[u] = NoJob
                            /\ pc'[u] \notin {"idle", "return"} => job'[u].left \in 1 .. job'[u].n
      BY <1>2, <1>4, <1>6, <2>2, JobNumbers DEF Alone
    <3>3. vaddr' \in [Space -> SUBSET Nat] /\ \A x \in Space : vaddr'[x] \subseteq 0 .. SpaceSize[x]
      BY <1>2, <2>1, <2>3, <2>4 DEF Books, TypeOK
    <3> QED
      BY <1>1, <2>1, <3>1, <3>2, <3>3 DEF Books, TypeOK, JobNat
  <2>7. MarkedUsed'
    <3>1. \A u \in Client : Hand(u)' = Hand(u)
      BY <1>1, <2>2 DEF Hand, Alone
    <3> QED
      BY <1>1, <3>1 DEF Books, MarkedUsed, Marked, InUse
  <2>8. PagesAccounted'
    <3>1. Accounts
      BY PagesAccountedIs DEF Books
    <3>2. \A q \in Page : pte'[q] # NoFrame => q[2] \in vaddr'[q[1]]
      BY <1>1, <2>3, <3>1, Pages DEF Accounts
    <3>3. ASSUME NEW x \in Space, NEW k \in (0 .. SpaceSize[x] - 1) \cap vaddr'[x]
          PROVE  Accounted(x, k)'
      <4>1. CASE k \in vaddr[x]
        <5>1. Accounted(x, k)
          BY <3>1, <3>3, <4>1 DEF Accounts
        <5>2. \A u \in Client : u # t => SpaceOf(u)' = SpaceOf(u) /\ Left(u)' = Left(u) /\ pc'[u] = pc[u]
          BY <2>2 DEF Alone, SpaceOf, Left
        <5>3. Full(PoolOf(x))' = Full(PoolOf(x)) /\ pc[t] \notin Working
          BY <1>1 DEF Full, Working
        <5> QED
          BY <1>1, <5>1, <5>2, <5>3 DEF Accounted
      <4>2. CASE k \notin vaddr[x]
        <5>1. x = s /\ k \in new
          BY <2>3, <3>3, <4>2
        <5> QED
          BY <2>2, <2>5, <5>1 DEF Accounted, Working
      <4> QED
        BY <4>1, <4>2
    <3>4. Accounts'
      BY <3>2, <3>3 DEF Accounts
    <3> QED
      BY <3>4, PagesAccountedIs, PTL
  <2>9. CallsExact'
    <3>1. ASSUME NEW u \in Client, u # t PROVE CallExact(u)'
      <4>1. pc[u] # "idle" => SpaceOf(u) # s /\ SpaceOf(u) \in Space
        BY <1>1, <3>1, OwnSpace, WhoseSpace DEF s
      <4> QED
        BY <1>1, <2>2, <2>3, <3>1, <4>1, CallKept DEF Alone, Full
    <3>2. \A k \in new : pte[<<s, k>>] = NoFrame
      <4> SUFFICES ASSUME NEW k \in new PROVE pte[<<s, k>>] = NoFrame
        OBVIOUS
      <4>1. <<s, k>> \in Page /\ k \notin vaddr[s]
        BY <1>2, <2>4, Pages
      <4> QED
        BY <4>1 DEF Books, PagesAccounted
    <3>3. CallExact(t)
      BY DEF Books, CallsExact
    <3>4. job[t].kind = "user" => s = t /\ s # "kernel"
      BY <1>1, WhoseSpace, Pages DEF s
    <3>5. s = t => vaddr[t] \subseteq vaddr'[t]
      BY <2>3
    <3>6. CallExact(t)'
      BY <1>1, <1>4, <1>6, <2>2, <2>3, <2>4, <2>5, <3>2, <3>3, <3>4, <3>5 DEF CallExact, Working, n
    <3> QED
      BY <3>1, <3>6 DEF CallsExact
  <2>10. DepthsExact'
    <3>1. \A u \in Process : vaddr[u] \subseteq vaddr'[u]
      BY <2>3 DEF Space
    <3> QED
      BY <1>1, <1>4, <1>6, <2>2, <3>1, DepthsKept DEF Full
  <2> QED
    BY <1>3, <2>1, <2>6, <2>7, <2>8, <2>9, <2>10 DEF Books
<1> QED
  BY <1>5, <1>6

(* palloc returns NULL only when the pool is used up.                      *)
LEMMA ScanFull ==
  ASSUME Books, NEW p \in Pool
  PROVE  FirstFree(p) = -1 => Full(p)
<1> DEFINE b == bits[p]
           size == PoolSize[p]
<1>1. b \in SUBSET Nat /\ size \in Nat /\ b \subseteq 0 .. size - 1
  BY Sizes DEF Books, TypeOK
<1>2. bitmap_scan(b, size, 1) = -1 => \A i \in 0 .. size - 1 : Taken(b, i, 1)
  <2> HIDE DEF b, size
  <2> QED BY <1>1, ScanFinds
<1>3. \A i \in 0 .. size - 1 : Taken(b, i, 1) => i \in b
  <2> HIDE DEF b, size
  <2> QED BY <1>1 DEF Taken
<1> QED
  BY <1>1, <1>2, <1>3 DEF FirstFree, Full

LEMMA PallocScanBooks ==
  ASSUME Books, NEW t \in Client, UNCHANGED active, PallocScan(t)
  PROVE  Books'
<1> DEFINE p == PoolOf(job[t].kind)
           i == FirstFree(p)
<1>1. /\ pc[t] = "scan" /\ UNCHANGED <<active, owner, depth, bits, vaddr, pte, pde, tab, halted>>
      /\ \/ /\ i # -1 /\ frame' = [frame EXCEPT ![t] = <<p, i>>]
            /\ pc' = [pc EXCEPT ![t] = "set"] /\ job' = job
         \/ /\ i = -1 /\ job[t].kind = "stack" /\ frame' = frame
            /\ pc' = [pc EXCEPT ![t] = "idle"] /\ job' = [job EXCEPT ![t] = NoJob]
         \/ /\ i = -1 /\ job[t].kind # "stack" /\ frame' = frame /\ job' = job
            /\ pc' = [pc EXCEPT ![t] = "return"]
  BY DEF PallocScan, ScanPool, At, Goto, tables, lockVars
<1>2. p \in Pool /\ p = PoolOf(SpaceOf(t)) /\ (job[t].kind \in {"user", "stack"} => p = "user")
  BY <1>1, WhoseSpace DEF PoolOf, Pool
<1>3. i = -1 => Full(p)
  BY <1>2, ScanFull
<1>4. FrameInv'
  BY PallocScanStep DEF Books
<1> HIDE DEF i, p
<1>5. /\ Alone(t) /\ pc'[t] \in {"set", "idle", "return"}
      /\ \A u \in Client : u # t => frame'[u] = frame[u]
      /\ pc'[t] = "idle" <=> i = -1 /\ job[t].kind = "stack"
      /\ pc'[t] = "idle" => job'[t] = NoJob
      /\ pc'[t] # "idle" => job' = job
      /\ pc'[t] = "return" => i = -1
  BY <1>1 DEF Alone, Books, TypeOK
<1>6. TypeOK'
  <2>1. NoJob \in JobNat
    BY DEF NoJob, JobNat, Kind
  <2>2. job' \in [Client -> JobNat] /\ pc' \in [Client -> PC]
    BY ZenonT(30), <1>1, <2>1 DEF Books, TypeOK, JobNat, PC
  <2>3. \A u \in Client : /\ pc'[u] = "idle" <=> job'[u] = NoJob
                          /\ pc'[u] \notin {"idle", "return"} => job'[u].left \in 1 .. job'[u].n
    BY <1>1, <1>5, JobNumbers DEF Alone
  <2>4. frame' \in [Client -> Frame \union {NoFrame}]
    BY <1>4 DEF FrameInv, Types
  <2> QED
    BY <1>1, <2>2, <2>3, <2>4 DEF Books, TypeOK, JobNat
<1>7. \A u \in Client : Hand(u)' = Hand(u)
  BY <1>1, <1>5 DEF Hand, Alone
<1>8. \/ pc'[t] \in Working /\ SpaceOf(t)' = SpaceOf(t) /\ Left(t)' = Left(t)
      \/ Full(PoolOf(SpaceOf(t)))
  BY <1>2, <1>3, <1>5 DEF Working, SpaceOf, Left
<1>9. MarkedUsed' /\ PagesAccounted' /\ \A u \in Client : u # t => CallExact(u)'
  BY <1>1, <1>5, <1>6, <1>7, <1>8, TablesKept DEF Marked
<1>10. CallExact(t)
  BY DEF Books, CallsExact
<1>11. CallsExact'
  <2>1. CASE pc'[t] = "idle"
    <3>1. CallExact(t)'
      BY <1>5, <2>1 DEF CallExact, NoJob, Working
    <3> QED
      BY <1>9, <3>1 DEF CallsExact
  <2>2. CASE pc'[t] # "idle"
    <3>1. job' = job /\ SpaceOf(t)' = SpaceOf(t) /\ Left(t)' = Left(t) /\ Done(t)' = Done(t)
      BY <1>5, <2>2 DEF SpaceOf, Left, Done
    <3>2. pc'[t] = "return" /\ job[t].kind = "user" => Full("user")'
      BY <1>1, <1>2, <1>3, <1>5 DEF Full
    <3>3. CallExact(t)'
      BY <1>1, <1>5, <1>10, <2>2, <3>1, <3>2 DEF CallExact, Working
    <3> QED
      BY <1>9, <3>3 DEF CallsExact
  <2> QED
    BY <2>1, <2>2
<1>12. DepthsExact'
  <2>1. CASE pc'[t] # "idle"
    BY <1>1, <1>5, <2>1, DepthsKept DEF Full
  <2>2. CASE pc'[t] = "idle"
    <3>1. job[t].kind = "stack" /\ t \in Process /\ SpaceOf(t) = t /\ Full("user")
      BY <1>1, <1>2, <1>3, <1>5, <2>2, WhoseSpace
    <3>2. Left(t) = {Stack}
      BY <1>1, <1>10, <3>1, JobNumbers, Pages DEF CallExact, Left
    <3>3. KeptLock(t)'
      BY <1>1, <1>5, <1>10, <2>2, <3>1, <3>2 DEF CallExact, Working, KeptLock, NoJob, Full
    <3>4. ASSUME NEW q \in Pool PROVE DepthExact(t, q)'
      <4>1. DepthExact(t, q)
        BY DEF Books, DepthsExact
      <4> QED
        BY <1>1, <2>2, <3>1, <3>3, <4>1 DEF DepthExact, KeptLock, LockOf
    <3>5. ASSUME NEW u \in Client, NEW q \in Pool, u # t PROVE DepthExact(u, q)'
      BY <1>1, <1>5, <3>5, DepthKept DEF Alone, Full, Books, DepthsExact
    <3> QED
      BY <1>1, <3>4, <3>5 DEF Books, DepthsExact
  <2> QED
    BY <2>1, <2>2
<1> QED
  BY <1>4, <1>6, <1>9, <1>11, <1>12 DEF Books

(* A step of malloc_page's loop that does not end a turn: bits may be set, *)
(* nothing else changes.                                                   *)
LEMMA TurnBooks ==
  ASSUME Books, NEW t \in Client, FrameInv', pc[t] \in Working,
         NEW l \in Working, pc' = [pc EXCEPT ![t] = l],
         UNCHANGED <<active, owner, depth, vaddr, pte, pde, job, halted>>,
         l \in {"tset", "install"} => pde[TableOf(NextPage(t))] = NoFrame,
         bits' \in [Pool -> SUBSET Nat],
         \A p \in Pool : bits[p] \subseteq bits'[p] /\ bits'[p] \subseteq 0 .. PoolSize[p] - 1,
         \A u \in Client : Hand(u) \subseteq Hand(u)',
         \A f \in Frame : Marked(f)' => Marked(f) \/ f \in Hand(t)'
  PROVE  Books'
<1>1. Alone(t) /\ pc'[t] = l
  BY DEF Alone, Books, TypeOK
<1>2. TypeOK'
  <2>1. pc' \in [Client -> PC]
    BY DEF Books, TypeOK, PC, Working
  <2>2. \A u \in Client : /\ pc'[u] = "idle" <=> job'[u] = NoJob
                          /\ pc'[u] \notin {"idle", "return"} => job'[u].left \in 1 .. job'[u].n
    BY <1>1, JobNumbers DEF Alone, Working
  <2>3. frame' \in [Client -> Frame \union {NoFrame}] /\ tab' \in [Client -> Frame \union {NoFrame}]
    BY DEF FrameInv, Types
  <2> QED
    BY <2>1, <2>2, <2>3 DEF Books, TypeOK
<1>3. SpaceOf(t)' = SpaceOf(t) /\ Left(t)' = Left(t) /\ Done(t)' = Done(t) /\ NextPage(t)' = NextPage(t)
  BY DEF SpaceOf, Left, Done, NextPage
<1>4. /\ MarkedUsed' /\ PagesAccounted' /\ \A u \in Client : u # t => CallExact(u)'
      /\ \A p \in Pool : Full(p) => Full(p)'
  BY <1>1, <1>2, <1>3, TablesKept
<1>5. CallExact(t)'
  BY <1>1, <1>3 DEF Books, CallsExact, CallExact, Working
<1>6. DepthsExact'
  BY <1>1, <1>4, DepthsKept DEF Working, Pool
<1> QED
  BY <1>2, <1>4, <1>5, <1>6 DEF Books, CallsExact

LEMMA BooksHalted ==
  ASSUME Books, FrameInv', halted' \in {"no", "assert", "null", "low"},
         UNCHANGED <<active, owner, depth, bits, vaddr, pte, pde, pc, job, frame, tab>>
  PROVE  Books'
<1>1. TypeOK'
  BY DEF Books, TypeOK
<1>2. MarkedUsed'
  BY DEF Books, MarkedUsed, Marked, InUse, Hand
<1>3. Accounts'
  <2>1. Accounts
    BY PagesAccountedIs DEF Books
  <2> QED
    BY <2>1 DEF Accounts, Accounted, SpaceOf, Left, Full
<1>4. PagesAccounted'
  BY <1>3, PagesAccountedIs, PTL
<1>5. CallsExact'
  BY CallKept DEF CallsExact, Full
<1>6. DepthsExact'
  BY DEF Books, DepthsExact, DepthExact, KeptLock, Full
<1> QED
  BY <1>1, <1>2, <1>4, <1>5, <1>6 DEF Books

LEMMA PallocSetBooks ==
  ASSUME Books, NEW t \in Client, UNCHANGED active, PallocSet(t)
  PROVE  Books'
<1> DEFINE f == frame[t]
<1>1. /\ pc[t] = "set" /\ pc' = [pc EXCEPT ![t] = "map"]
      /\ UNCHANGED <<active, owner, depth, vaddr, pte, pde, job, frame, tab, halted>>
      /\ bits' = [bits EXCEPT ![f[1]] = @ \union {f[2]}]
  BY DEF PallocSet, bitmap_set, At, Goto, tables, lockVars
<1>2. FrameInv'
  BY PallocSetStep DEF Books
<1>3. f \in Frame /\ f[1] \in Pool /\ f[2] \in Nat /\ f[2] \in 0 .. PoolSize[f[1]] - 1
      /\ f = <<f[1], f[2]>>
  BY <1>1, Sizes DEF Books, FrameInv, FoundOK, Frame
<1>4. /\ bits' \in [Pool -> SUBSET Nat]
      /\ \A p \in Pool : bits[p] \subseteq bits'[p] /\ bits'[p] \subseteq 0 .. PoolSize[p] - 1
  BY <1>1, <1>3 DEF Books, TypeOK
<1>5. \A u \in Client : u # t => pc'[u] = pc[u]
  BY <1>1 DEF Books, TypeOK
<1>6. pc'[t] = "map"
  BY <1>1 DEF Books, TypeOK
<1>7. \A u \in Client : Hand(u) \subseteq Hand(u)'
  BY <1>1, <1>5, <1>6 DEF Hand
<1>8. f \in Hand(t)'
  BY <1>1, <1>3, <1>6 DEF Hand
<1>9. \A g \in Frame : Marked(g)' => Marked(g) \/ g = f
  BY <1>1, <1>3, Sizes DEF Marked, Books, TypeOK
<1> HIDE DEF f
<1> QED
  BY <1>1, <1>2, <1>4, <1>7, <1>8, <1>9, TurnBooks DEF Working

LEMMA TableScanBooks ==
  ASSUME Books, NEW t \in Client, UNCHANGED active, TableScan(t)
  PROVE  Books'
<1>1. /\ pc[t] = "map" /\ ~ HasTable(NextPage(t))
      /\ UNCHANGED <<active, owner, depth, bits, vaddr, pte, pde, job, frame>>
      /\ \/ pc' = [pc EXCEPT ![t] = "tset"] /\ UNCHANGED halted
            /\ \E g : tab' = [tab EXCEPT ![t] = g]
         \/ halted' = "low" /\ UNCHANGED <<pc, tab>>
  BY DEF TableScan, At, Goto, tables, lockVars
<1>2. FrameInv'
  BY TableScanStep DEF Books
<1>3. CASE UNCHANGED <<pc, tab>> /\ halted' = "low"
  BY <1>1, <1>2, <1>3, BooksHalted
<1>4. CASE pc' = [pc EXCEPT ![t] = "tset"] /\ UNCHANGED halted
           /\ \E g : tab' = [tab EXCEPT ![t] = g]
  <2>1. pde[TableOf(NextPage(t))] = NoFrame
    BY <1>1 DEF HasTable
  <2>2. \A u \in Client : u # t => pc'[u] = pc[u] /\ tab'[u] = tab[u]
    BY <1>4 DEF Books, TypeOK
  <2>3. pc'[t] = "tset"
    BY <1>4 DEF Books, TypeOK
  <2>4. \A u \in Client : Hand(u) \subseteq Hand(u)'
    BY <1>1, <2>2, <2>3 DEF Hand
  <2>5. /\ bits' \in [Pool -> SUBSET Nat]
        /\ \A p \in Pool : bits[p] \subseteq bits'[p] /\ bits'[p] \subseteq 0 .. PoolSize[p] - 1
    BY <1>1 DEF Books, TypeOK
  <2>6. \A f \in Frame : Marked(f)' => Marked(f)
    BY <1>1 DEF Marked
  <2> QED
    BY <1>1, <1>2, <1>4, <2>1, <2>4, <2>5, <2>6, TurnBooks DEF Working
<1> QED
  BY <1>1, <1>3, <1>4

LEMMA TableSetBooks ==
  ASSUME Books, NEW t \in Client, UNCHANGED active, TableSet(t)
  PROVE  Books'
<1> DEFINE f == tab[t]
<1>1. /\ pc[t] = "tset" /\ pc' = [pc EXCEPT ![t] = "install"]
      /\ UNCHANGED <<active, owner, depth, vaddr, pte, pde, job, frame, tab, halted>>
      /\ bits' = [bits EXCEPT !["kernel"] = @ \union {f[2]}]
  BY DEF TableSet, TableBit, bitmap_set, At, Goto, tables, lockVars
<1>2. FrameInv'
  BY TableSetStep DEF Books
<1>3. f \in Frame /\ f[1] = "kernel" /\ f[2] \in Nat /\ f[2] \in 0 .. PoolSize["kernel"] - 1
      /\ f = <<f[1], f[2]>> /\ "kernel" \in Pool
  BY <1>1, Sizes DEF Books, FrameInv, FoundOK, Frame
<1>4. /\ bits' \in [Pool -> SUBSET Nat]
      /\ \A p \in Pool : bits[p] \subseteq bits'[p] /\ bits'[p] \subseteq 0 .. PoolSize[p] - 1
  BY <1>1, <1>3 DEF Books, TypeOK
<1>5. \A u \in Client : u # t => pc'[u] = pc[u]
  BY <1>1 DEF Books, TypeOK
<1>6. pc'[t] = "install"
  BY <1>1 DEF Books, TypeOK
<1>7. \A u \in Client : Hand(u) \subseteq Hand(u)'
  BY <1>1, <1>5, <1>6 DEF Hand
<1>8. f \in Hand(t)'
  BY <1>1, <1>3, <1>6 DEF Hand
<1>9. \A g \in Frame : Marked(g)' => Marked(g) \/ g = f
  BY <1>1, <1>3, Sizes DEF Marked, Books, TypeOK
<1>10. pde[TableOf(NextPage(t))] = NoFrame
  BY <1>1 DEF Books, CallsExact, CallExact
<1> HIDE DEF f
<1> QED
  BY <1>1, <1>2, <1>4, <1>7, <1>8, <1>9, <1>10, TurnBooks DEF Working

LEMMA ReturnNullBooks ==
  ASSUME Books, NEW t \in Client, UNCHANGED active, Return(t), halted' = "null"
  PROVE  Books'
<1>1. FrameInv'
  BY ReturnNullStep DEF Books
<1> QED
  BY <1>1, ReturnNull, BooksHalted

LEMMA ReturnBooks ==
  ASSUME Books, NEW t \in Client, UNCHANGED active, Return(t), halted' # "null"
  PROVE  Books'
<1>1. /\ pc[t] = "return" /\ pc' = [pc EXCEPT ![t] = "idle"]
      /\ job' = [job EXCEPT ![t] = NoJob]
      /\ UNCHANGED <<active, bits, vaddr, pte, pde, frame, tab>>
      /\ Locks!Release(t, LockOf(job[t].kind))
      /\ halted' = "no"
  BY DEF Return, ReturnFrom, At, Goto, tables
<1> DEFINE l == LockOf(job[t].kind)
<1>2. FrameInv' /\ l \in Pool
  BY ReturnStep DEF Books, LockOf, Pool
<1>3. Alone(t) /\ pc'[t] = "idle" /\ job'[t] = NoJob
  BY <1>1 DEF Alone, Books, TypeOK
<1>4. owner[l] = t /\ depth[l] \in Nat \ {0} /\ t # NoThread
  BY <1>1, <1>2, MemoryAssumption DEF Locks!Release, Books, TypeOK, DepthsExact, Client
<1>5. /\ owner'[l] = IF depth[l] = 1 THEN NoThread ELSE t
      /\ depth'[l] = depth[l] - 1
      /\ \A p \in Pool : p # l => owner'[p] = owner[p] /\ depth'[p] = depth[p]
  BY <1>1, <1>2 DEF Locks!Release, Books, TypeOK
<1>6. TypeOK'
  <2>1. NoJob \in JobNat
    BY DEF NoJob, JobNat, Kind
  <2>2. job' \in [Client -> JobNat] /\ pc' \in [Client -> PC]
    BY <1>1, <2>1 DEF Books, TypeOK, JobNat, PC
  <2>3. \A u \in Client : /\ pc'[u] = "idle" <=> job'[u] = NoJob
                          /\ pc'[u] \notin {"idle", "return"} => job'[u].left \in 1 .. job'[u].n
    BY <1>1, <1>3, JobNumbers DEF Alone
  <2>4. owner' \in [Pool -> Client \union {NoThread}] /\ depth' \in [Pool -> Nat]
    BY SMTT(30), <1>1, <1>2, <1>4 DEF Locks!Release, Books, TypeOK
  <2> QED
    BY <1>1, <2>2, <2>3, <2>4 DEF Books, TypeOK, JobNat
<1>7. \A u \in Client : Hand(u)' = Hand(u)
  BY <1>1, <1>3 DEF Hand, Alone
<1>8. MarkedUsed' /\ PagesAccounted' /\ \A u \in Client : u # t => CallExact(u)'
  BY <1>1, <1>3, <1>6, <1>7, TablesKept DEF Marked, Working
<1>9. CallExact(t)'
  BY <1>3 DEF CallExact, NoJob, Working
<1>10. DepthsExact'
  <2>1. \A p \in Pool : owner[p] = NoThread <=> depth[p] = 0
    BY DEF Books, DepthsExact
  <2>2. \A p \in Pool : owner'[p] = NoThread <=> depth'[p] = 0
    BY <1>4, <1>5, <2>1
  <2>3. ASSUME NEW u \in Client, NEW p \in Pool, u # t PROVE DepthExact(u, p)'
    <3>1. owner'[p] = u => owner[p] = u /\ depth'[p] = depth[p]
      BY <1>4, <1>5, <2>3, MemoryAssumption DEF Client
    <3> QED
      BY <1>1, <1>3, <2>3, <3>1, DepthKept DEF Alone, Full, Books, DepthsExact
  <2>4. ASSUME NEW p \in Pool PROVE DepthExact(t, p)'
    <3>1. DepthExact(t, p)
      BY DEF Books, DepthsExact
    <3>2. KeptLock(t) => KeptLock(t)'
      BY <1>1, <1>3 DEF KeptLock, Full, NoJob
    <3>3. CASE p = l
      BY <1>1, <1>3, <1>4, <1>5, <3>1, <3>2, <3>3 DEF DepthExact
    <3>4. CASE p # l
      BY <1>1, <1>3, <1>5, <3>1, <3>2, <3>4, WhoseSpace, Pages DEF DepthExact, KeptLock, PoolOf
    <3> QED
      BY <3>3, <3>4
  <2> QED
    BY <2>2, <2>3, <2>4 DEF DepthsExact
<1> QED
  BY <1>2, <1>6, <1>8, <1>9, <1>10 DEF Books, CallsExact

(* The end of a turn that has mapped its page.                             *)
LEMMA EndTurnBooks ==
  ASSUME Books, NEW t \in Client, pc[t] \in {"map", "install"}, NextTurn(t), FrameInv',
         UNCHANGED <<active, owner, depth, bits, vaddr, halted>>,
         pte' = [pte EXCEPT ![NextPage(t)] = frame[t]],
         \/ UNCHANGED pde /\ Hand(t) = {frame[t]}
         \/ /\ TableOf(NextPage(t)) \in Table
            /\ pde[TableOf(NextPage(t))] = NoFrame
            /\ pde' = [pde EXCEPT ![TableOf(NextPage(t))] = tab[t]]
            /\ Hand(t) = {frame[t], tab[t]}
  PROVE  Books'
<1> DEFINE s == SpaceOf(t)
           n == job[t].n
           left == job[t].left
           i == job[t].start + n - left
           q == NextPage(t)
           d == TableOf(NextPage(t))
           j == [job[t] EXCEPT !.left = left - 1]
<1>1. /\ left \in 1 .. n /\ n \in Nat \ {0} /\ job[t].start \in Nat /\ i \in Nat
      /\ pc[t] \in Working /\ j \in JobNat /\ j # NoJob
      /\ j.n = n /\ j.left = left - 1 /\ j.start = job[t].start /\ j.kind = job[t].kind
  BY JobNumbers DEF JobNat, NoJob, Working
<1>2. q = <<s, i>> /\ q \in Page /\ i \in Left(t) /\ pte[q] = NoFrame /\ s \in Space
      /\ SpaceSize[s] \in Nat
  BY <1>1, NextPageFacts, WhoseSpace, Sizes DEF Working
<1>3. frame[t] \in Frame /\ frame[t] # NoFrame
  BY MemoryAssumption DEF Books, FrameInv, FoundOK
<1>4. /\ job' = [job EXCEPT ![t] = j]
      /\ pc' = [pc EXCEPT ![t] = IF left = 1 THEN "return" ELSE "scan"]
      /\ frame' = [frame EXCEPT ![t] = NoFrame] /\ tab' = [tab EXCEPT ![t] = NoFrame]
  <2>1. j = [job[t] EXCEPT !.left = IF left = 1 THEN 0 ELSE left - 1]
    BY <1>1
  <2> QED
    BY <2>1 DEF NextTurn, EndTurn, Goto
<1>5. /\ Alone(t) /\ job'[t] = j /\ pc'[t] = IF left = 1 THEN "return" ELSE "scan"
      /\ \A u \in Client : u # t => frame'[u] = frame[u] /\ tab'[u] = tab[u]
  <2> HIDE DEF j
  <2> QED BY <1>4 DEF Alone, Books, TypeOK
<1>6. pte'[q] = frame[t] /\ \A r \in Page : r # q => pte'[r] = pte[r]
  BY <1>2 DEF Books, TypeOK
<1>7. \A e \in Table : pde[e] # NoFrame => pde'[e] = pde[e]
  BY DEF Books, TypeOK
<1>8. /\ SpaceOf(t)' = s
      /\ \A k : k \in Left(t) <=> k = i \/ k \in Left(t)'
      /\ \A k : k \in Done(t)' <=> k = i \/ k \in Done(t)
      /\ left = 1 => Left(t)' = {}
  BY <1>1, <1>5 DEF SpaceOf, Left, Done
<1>9. Stack \in Nat /\ \A u \in Process : u \in Space /\ <<u, Stack>> \in Page
  BY Pages DEF Space
<1> HIDE DEF s, n, left, i, q, d, j
<1>10. TypeOK'
  <2>1. job' \in [Client -> JobNat] /\ pc' \in [Client -> PC]
    BY <1>1, <1>4 DEF Books, TypeOK, JobNat, PC
  <2>2. \A u \in Client : /\ pc'[u] = "idle" <=> job'[u] = NoJob
                          /\ pc'[u] \notin {"idle", "return"} => job'[u].left \in 1 .. job'[u].n
    BY <1>1, <1>5, JobNumbers DEF Alone
  <2>3. /\ pte' \in [Page -> Frame \union {NoFrame}] /\ pde' \in [Table -> Frame \union {NoFrame}]
        /\ frame' \in [Client -> Frame \union {NoFrame}] /\ tab' \in [Client -> Frame \union {NoFrame}]
    BY DEF FrameInv, Types
  <2> QED
    BY <2>1, <2>2, <2>3 DEF Books, TypeOK, JobNat
<1>11. MarkedUsed'
  <2>1. ASSUME NEW f \in Frame, Marked(f)' PROVE InUse(f)'
    <3>1. InUse(f) /\ f # NoFrame
      BY <2>1, MemoryAssumption DEF Books, MarkedUsed, Marked
    <3>2. CASE \E r \in Page : pte[r] = f
      BY <1>2, <1>6, <3>1, <3>2 DEF InUse
    <3>3. CASE \E e \in Table : pde[e] = f
      BY <1>7, <3>1, <3>3 DEF InUse
    <3>4. CASE f \in Hand(t)
      <4>1. CASE f = frame[t]
        BY <1>2, <1>6, <4>1 DEF InUse
      <4>2. CASE f # frame[t]
        <5>1. f = tab[t] /\ d \in Table /\ pde' = [pde EXCEPT ![d] = tab[t]]
          BY <3>4, <4>2 DEF d
        <5>2. pde'[d] = f
          BY <5>1 DEF Books, TypeOK
        <5> QED
          BY <5>1, <5>2 DEF InUse
      <4> QED
        BY <4>1, <4>2
    <3>5. ASSUME NEW u \in Client, u # t, f \in Hand(u) PROVE InUse(f)'
      BY <1>5, <3>5 DEF InUse, Hand, Alone
    <3> QED
      BY <3>1, <3>2, <3>3, <3>4, <3>5 DEF InUse
  <2> QED
    BY <2>1 DEF MarkedUsed
<1>12. \A p : Full(p)' = Full(p)
  BY DEF Full
<1>13. i \in vaddr[s]
  BY <1>1, <1>2 DEF Books, CallsExact, CallExact, s
<1>14. PagesAccounted'
  <2>1. Accounts
    BY PagesAccountedIs DEF Books
  <2>2. \A r \in Page : pte'[r] # NoFrame => r[2] \in vaddr'[r[1]]
    BY <1>2, <1>6, <1>13, <2>1 DEF Accounts
  <2>3. ASSUME NEW x \in Space, NEW k \in (0 .. SpaceSize[x] - 1) \cap vaddr'[x]
        PROVE  Accounted(x, k)'
    <3>1. Accounted(x, k)
      BY <2>1, <2>3 DEF Accounts
    <3>2. <<x, k>> \in Page
      BY <2>3, Pages DEF Books, TypeOK
    <3>3. CASE pte[<<x, k>>] # NoFrame
      BY <1>2, <1>6, <3>2, <3>3 DEF Accounted
    <3>4. CASE \E u \in Client : SpaceOf(u) = x /\ pc[u] \in Working /\ k \in Left(u)
      <4>1. PICK u \in Client : SpaceOf(u) = x /\ pc[u] \in Working /\ k \in Left(u)
        BY <3>4
      <4>2. CASE u # t
        BY <1>5, <4>1, <4>2 DEF Accounted, Alone, SpaceOf, Left
      <4>3. CASE u = t
        <5>1. CASE k = i
          BY <1>2, <1>3, <1>6, <4>1, <4>3, <5>1 DEF Accounted, s
        <5>2. CASE k # i
          <6>1. k \in Left(t)' /\ left # 1
            BY <1>8, <4>1, <4>3, <5>2
          <6> QED
            BY <1>5, <1>8, <4>1, <4>3, <6>1 DEF Accounted, Working, s
        <5> QED
          BY <5>1, <5>2
      <4> QED
        BY <4>2, <4>3
    <3> QED
      BY <1>12, <3>1, <3>3, <3>4 DEF Accounted
  <2>4. Accounts'
    BY <2>2, <2>3 DEF Accounts
  <2> QED
    BY <2>4, PagesAccountedIs, PTL
<1>15. CallsExact'
  <2>1. ASSUME NEW u \in Client, u # t PROVE CallExact(u)'
    <3>1. pc[u] # "idle" => SpaceOf(u) # s /\ SpaceOf(u) \in Space
      BY <1>1, <2>1, OwnSpace, WhoseSpace DEF s, Working
    <3>2. ASSUME pc[u] # "idle", NEW k \in vaddr[SpaceOf(u)]
          PROVE  pte'[<<SpaceOf(u), k>>] = pte[<<SpaceOf(u), k>>]
      <4>1. <<SpaceOf(u), k>> \in Page /\ <<SpaceOf(u), k>> # q
        BY <1>2, <3>1, <3>2, Pages DEF Books, TypeOK
      <4> QED
        BY <1>6, <4>1
    <3>3. ASSUME pc[u] # "idle", NEW e \in Table, e[1] = SpaceOf(u) PROVE pde'[e] = pde[e]
      <4>1. e # d
        BY <1>2, <3>1, <3>3 DEF d, TableOf, q
      <4> QED
        BY <4>1 DEF d, Books, TypeOK
    <3> QED
      BY <1>5, <1>12, <2>1, <3>2, <3>3, CallKept DEF Alone
  <2>2. CallExact(t)'
    <3>1. CallExact(t)
      BY DEF Books, CallsExact
    <3>2. \A k \in Left(t)' : k # i
      BY <1>1, <1>5 DEF Left, i, n, left
    <3>3. ASSUME pc'[t] \in Working, NEW k \in Left(t)'
          PROVE  /\ k \in vaddr[s] /\ pte'[<<s, k>>] = NoFrame
                 /\ job'[t].kind = "user" => k # Stack
      <4>1. k \in vaddr[s] /\ pte[<<s, k>>] = NoFrame /\ (job[t].kind = "user" => k # Stack)
        BY <1>1, <1>8, <3>1, <3>3 DEF CallExact, s
      <4>2. <<s, k>> \in Page /\ <<s, k>> # q
        BY <1>2, <3>2, <3>3, <4>1, Pages DEF Books, TypeOK
      <4> QED
        BY <1>1, <1>5, <1>6, <4>1, <4>2
    <3>4. ASSUME NEW k \in Done(t)' PROVE k \in vaddr[s] /\ pte'[<<s, k>>] # NoFrame
      <4>1. CASE k = i
        BY <1>2, <1>3, <1>6, <1>13, <4>1
      <4>2. CASE k # i
        <5>1. k \in vaddr[s] /\ pte[<<s, k>>] # NoFrame
          BY <1>1, <1>8, <3>1, <3>4, <4>2 DEF CallExact, s
        <5>2. <<s, k>> \in Page
          BY <1>2, <5>1, Pages DEF Books, TypeOK
        <5> QED
          BY <1>2, <1>6, <5>1, <5>2
      <4> QED
        BY <4>1, <4>2
    <3> QED
      BY <1>1, <1>5, <1>8, <3>1, <3>3, <3>4 DEF CallExact, Working, n, left
  <2> QED
    BY <2>1, <2>2 DEF CallsExact
<1>16. DepthsExact'
  <2>1. ASSUME NEW u \in Process, u # t \/ job[t].kind # "stack"
        PROVE  pte'[<<u, Stack>>] = pte[<<u, Stack>>]
    <3>1. <<u, Stack>> # q
      <4>1. CASE u # t
        BY <1>1, <1>2, <4>1, OwnSpace, MemoryAssumption DEF s, Working, Client, SpaceOf
      <4>2. CASE u = t /\ job[t].kind # "stack"
        <5>1. job[t].kind = "user"
          BY <1>1, <4>2, WhoseSpace, JobNumbers DEF Kind, Working, Books, FrameInv, CallOK
        <5>2. i # Stack
          BY <1>1, <1>2, <5>1 DEF Books, CallsExact, CallExact
        <5> QED
          BY <1>2, <5>2
      <4> QED
        BY <2>1, <4>1, <4>2
    <3> QED
      BY <1>6, <1>9, <3>1
  <2> QED
    BY <1>1, <1>5, <1>12, <2>1, DepthsKept DEF Working
<1> QED
  BY <1>10, <1>11, <1>14, <1>15, <1>16 DEF Books

LEMMA PageTableAddBooks ==
  ASSUME Books, NEW t \in Client, UNCHANGED active, PageTableAdd(t)
  PROVE  Books' /\ halted' = "no"
<1>1. /\ pc[t] = "map" /\ halted = "no" /\ UNCHANGED <<active, owner, depth, bits, vaddr, pde>>
  BY DEF PageTableAdd, At, lockVars
<1>2. pte[NextPage(t)] = NoFrame
  BY <1>1, NextPageFacts DEF Working
<1>3. NextTurn(t) /\ pte' = [pte EXCEPT ![NextPage(t)] = frame[t]] /\ UNCHANGED halted
  BY <1>2 DEF PageTableAdd
<1>4. FrameInv'
  BY PageTableAddStep DEF Books
<1>5. Hand(t) = {frame[t]}
  BY <1>1 DEF Hand, Books, FrameInv, FoundOK
<1> QED
  BY <1>1, <1>3, <1>4, <1>5, EndTurnBooks

LEMMA TableInstallBooks ==
  ASSUME Books, NEW t \in Client, UNCHANGED active, TableInstall(t)
  PROVE  Books'
<1>1. /\ pc[t] = "install" /\ NextTurn(t)
      /\ UNCHANGED <<active, owner, depth, bits, vaddr, halted>>
      /\ pte' = [pte EXCEPT ![NextPage(t)] = frame[t]]
      /\ pde' = [pde EXCEPT ![TableOf(NextPage(t))] = tab[t]]
  BY DEF TableInstall, At, lockVars
<1>2. FrameInv'
  BY TableInstallStep DEF Books
<1>3. Hand(t) = {frame[t], tab[t]} /\ t \in Process
  BY <1>1 DEF Hand, Books, FrameInv, FoundOK
<1>4. TableOf(NextPage(t)) \in Table /\ pde[TableOf(NextPage(t))] = NoFrame
  BY <1>1, <1>3, NextPageFacts DEF Working, Books, CallsExact, CallExact
<1> QED
  BY <1>1, <1>2, <1>3, <1>4, EndTurnBooks

-----------------------------------------------------------------------------
LEMMA BooksInit == Init => Books
<1> SUFFICES ASSUME Init PROVE Books
  OBVIOUS
<1>1. FrameInv
  BY FrameInit
<1>2. /\ \A t \in Client : pc[t] = "idle" /\ job[t] = NoJob /\ Hand(t) = {}
      /\ \A q \in Page : pte[q] = NoFrame
      /\ \A p \in Pool : bits[p] = {} /\ owner[p] = NoThread /\ depth[p] = 0
      /\ \A s \in Space : vaddr[s] \subseteq {SpaceSize[s]}
  BY DEF Init, Locks!Init, Hand
<1>3. TypeOK
  <2>1. /\ active \subseteq Client /\ owner \in [Pool -> Client \union {NoThread}]
        /\ depth \in [Pool -> Nat] /\ bits \in [Pool -> SUBSET Nat]
    BY DEF Init, Locks!Init
  <2>2. vaddr \in [Space -> SUBSET Nat] /\ \A s \in Space : vaddr[s] \subseteq 0 .. SpaceSize[s]
    BY Sizes DEF Init
  <2>3. job \in [Client -> [kind : Kind, n : Nat, start : Nat, left : Nat]]
    BY DEF Init, NoJob, Kind
  <2> QED
    BY <1>1, <1>2, <2>1, <2>2, <2>3 DEF TypeOK, FrameInv, Types, Init
<1>4. MarkedUsed
  BY <1>2, Sizes DEF MarkedUsed, Marked
<1>5. Accounts
  BY <1>2, Sizes DEF Accounts
<1>6. CallsExact
  BY <1>2 DEF CallsExact, CallExact, NoJob, Working
<1>7. DepthsExact
  BY <1>2, MemoryAssumption DEF DepthsExact, DepthExact, Client
<1> QED
  BY <1>1, <1>3, <1>4, <1>5, <1>6, <1>7, PagesAccountedIs DEF Books

LEMMA OperationBooks ==
  ASSUME Books, NEW t \in active, UNCHANGED active, Operation(t)
  PROVE  Books'
<1>. t \in Client
  BY DEF Books, TypeOK
<1>1. CASE \E n \in 1 .. MaxPages : get_kernel_pages(t, n) \/ get_user_pages(t, n)
  BY <1>1, CallBooks DEF get_kernel_pages, get_user_pages
<1>2. CASE get_a_page(t)
  BY <1>2, GetAPageBooks
<1>3. CASE Step(t)
  BY <1>3, VaddrGetBooks, PallocScanBooks, PallocSetBooks, PageTableAddBooks,
     TableScanBooks, TableSetBooks, TableInstallBooks, ReturnNullBooks, ReturnBooks DEF Step
<1> QED
  BY <1>1, <1>2, <1>3 DEF Operation

LEMMA BooksNext == Books /\ [Next]_vars => Books'
<1> SUFFICES ASSUME Books, [Next]_vars PROVE Books'
  OBVIOUS
<1>1. CASE UNCHANGED vars
  <2>1. FrameInv'
    BY <1>1, FrameNext DEF Books
  <2> QED
    BY <1>1, <2>1, BooksHalted DEF vars, Books, TypeOK
<1>2. CASE Next
  BY <1>2, OperationBooks DEF Next
<1> QED
  BY <1>1, <1>2

LEMMA BooksInvariant == Spec => []Books
BY BooksInit, BooksNext, PTL DEF Spec

(* Bitmaps, page tables, address spaces, locks and calls agree in every    *)
(* state, for any number of clients and of pages and whatever runs out:    *)
(* none of the early returns of memory.c leaves a frame or a page behind   *)
(* that nothing accounts for, but where a pool is used up.                 *)
THEOREM BooksStayExact == Spec => []BooksExact
<1>1. Books => BitmapExact
  <2> SUFFICES ASSUME Books, NEW f \in Frame PROVE Marked(f) <=> Uses(f) # {}
    BY DEF BitmapExact, Marked
  <2>1. Uses(f) # {} <=> InUse(f)
    BY DEF Uses, InUse, Hand
  <2>2. InUse(f) => Marked(f)
    BY MemoryAssumption DEF InUse, Books, FrameInv, UsedMarked
  <2> QED
    BY <2>1, <2>2 DEF Books, MarkedUsed
<1> QED
  BY <1>1, BooksInvariant, PTL DEF Books, BooksExact

(* Pages of the kernel are mapped to frames of its pool, those of processes *)
(* to frames of theirs.                                                    *)
PagesInPools == \A q \in Page : pte[q] # NoFrame => pte[q][1] = PoolOf(q[1])

\* What a step may do to the tables, as far as PagesInPools goes.
LEMMA PageInPool ==
  ASSUME Books, PagesInPools, NEW t \in Client, pc[t] \in {"map", "install"},
         pte' = [pte EXCEPT ![NextPage(t)] = frame[t]]
  PROVE  PagesInPools'
<1>1. /\ NextPage(t) \in Page /\ NextPage(t)[1] = SpaceOf(t)
  BY NextPageFacts DEF Working, NextPage
<1>2. frame[t][1] = PoolOf(SpaceOf(t))
  BY WhoseSpace DEF Books, FrameInv, FoundOK
<1>3. \A q \in Page : pte'[q] = IF q = NextPage(t) THEN frame[t] ELSE pte[q]
  BY DEF Books, TypeOK
<1> QED
  BY <1>1, <1>2, <1>3 DEF PagesInPools

LEMMA PagesInPoolsNext == Books /\ PagesInPools /\ [Next]_vars => PagesInPools'
<1> SUFFICES ASSUME Books, PagesInPools, [Next]_vars PROVE PagesInPools'
  OBVIOUS
<1>1. CASE UNCHANGED pte
  BY <1>1 DEF PagesInPools
<1>2. ASSUME NEW t \in active, Operation(t), ~ UNCHANGED pte PROVE PagesInPools'
  <2>. t \in Client
    BY DEF Books, TypeOK
  <2>1. \/ PageTableAdd(t) \/ TableInstall(t)
    BY <1>2
    DEF Operation, get_kernel_pages, get_user_pages, Call, get_a_page, Step, VaddrGet, VaddrTake,
        PallocScan, ScanPool, PallocSet, TableScan, TableSet, TableBit, Return, ReturnFrom, tables
  <2>2. /\ pc[t] \in {"map", "install"}
        /\ pte' = [pte EXCEPT ![NextPage(t)] = frame[t]]
    BY <1>2, <2>1 DEF PageTableAdd, TableInstall, At
  <2> QED
    BY <2>2, PageInPool
<1> QED
  BY <1>1, <1>2 DEF Next, vars

(* A call that returns an address has mapped every page of it, to a frame  *)
(* of the pool it was to take it from.                                     *)
THEOREM GrantsMapped == Spec => []GrantMapped
<1>1. Books /\ PagesInPools => GrantMapped
  <2> SUFFICES ASSUME Books, PagesInPools, NEW t \in Client, pc[t] = "return", job[t].left = 0,
                      NEW k \in 0 .. job[t].n - 1
               PROVE  LET f == pte[<<SpaceOf(t), job[t].start + k>>]
                      IN  f # NoFrame /\ f[1] = PoolOf(job[t].kind)
    BY DEF GrantMapped
  <2>1. job[t].start + k \in Done(t)
    BY JobNumbers DEF Done
  <2> DEFINE q == <<SpaceOf(t), job[t].start + k>>
  <2>2. job[t].start + k \in vaddr[SpaceOf(t)] /\ pte[q] # NoFrame
    BY <2>1 DEF Books, CallsExact, CallExact
  <2>3. q \in Page /\ PoolOf(job[t].kind) = PoolOf(q[1])
    BY <2>2, WhoseSpace, Pages DEF Books, TypeOK
  <2> QED
    BY <2>2, <2>3 DEF PagesInPools
<1>2. Init => PagesInPools
  BY DEF Init, PagesInPools
<1> QED
  BY <1>1, <1>2, PagesInPoolsNext, BooksInvariant, PTL DEF Spec

(* The pool's lock is with the call at work on the pool, and free after    *)
(* it, but for the one get_a_page keeps when user_pool is used up.         *)
THEOREM LocksReturned == Spec => []LockReturned
<1>1. Books => LockReturned
  BY DEF Books, FrameInv, CallOK, DepthsExact, DepthExact, KeptLock, LockReturned
<1> QED
  BY <1>1, BooksInvariant, PTL

(* How a call stops the machine: in memset or by clearing page 0, and only *)
(* when something has run out.                                             *)
LEMMA Fails ==
  ASSUME Books, NEW t \in active, UNCHANGED active, Operation(t), halted' # "no"
  PROVE  halted' # "assert" /\ NullOnlyExhausted' /\ LowMemoryIntact'
<1>. t \in Client
  BY DEF Books, TypeOK
<1>1. \/ TableScan(t) \/ Return(t)
  BY VaddrGetBooks, PageTableAddBooks
  DEF Operation, get_kernel_pages, get_user_pages, Call, get_a_page, Step, At,
      PallocScan, ScanPool, PallocSet, TableSet, TableBit, TableInstall
<1>2. CASE TableScan(t)
  <2>1. /\ pc[t] = "map" /\ ~ HasTable(NextPage(t)) /\ FirstFree("kernel") = -1
        /\ halted' = "low" /\ UNCHANGED <<bits, pc, pde, job>>
    BY <1>2 DEF TableScan, At, tables
  <2>2. t \in Process
    BY <2>1, WhoseSpace DEF HasTable, NextPage
  <2>3. Full("kernel")
    BY <2>1, ScanFull DEF Pool
  <2>4. ~ HasTable(NextPage(t))'
    BY <2>1 DEF HasTable, NextPage, SpaceOf
  <2> QED
    BY <2>1, <2>2, <2>3, <2>4 DEF LowMemoryIntact, NullOnlyExhausted, Full
<1>3. CASE Return(t)
  <2>1. halted' = "null"
    BY <1>3 DEF Return, ReturnFrom, At
  <2>2. /\ pc[t] = "return" /\ job[t].kind = "user" /\ job[t].left > 0
        /\ UNCHANGED <<owner, bits, vaddr, pc, job>>
    BY <1>3, <2>1, ReturnNull
  <2>3. t \in Process /\ owner["user"] = t
    BY <2>2 DEF Books, FrameInv, CallOK, LockOf
  <2>4. Full("user") \/ NoRoom(t, job[t].n)
    BY <2>2 DEF Books, CallsExact, CallExact
  <2>5. (Full("user") \/ NoRoom(t, job[t].n))'
    BY <2>2, <2>4 DEF Full, NoRoom
  <2> QED
    BY <2>1, <2>2, <2>3, <2>5 DEF LowMemoryIntact, NullOnlyExhausted
<1> QED
  BY <1>1, <1>2, <1>3

(* The assertions of memory.c never fail; memset's does only for a process *)
(* whose pool or address space is used up, with the lock of the pool held; *)
(* and physical page 0 is cleared only in place of a process's page table  *)
(* when kernel_pool is used up: however large all of them are and whoever  *)
(* else allocates meanwhile.                                               *)
THEOREM FailsOnlyWhenExhausted == Spec => []FailsOnlyExhausted
<1>1. Init => FailsOnlyExhausted
  BY DEF Init, FailsOnlyExhausted, NoAssert, NullOnlyExhausted, LowMemoryIntact
<1>2. Books /\ FailsOnlyExhausted /\ [Next]_vars => FailsOnlyExhausted'
  <2> SUFFICES ASSUME Books, FailsOnlyExhausted, [Next]_vars PROVE FailsOnlyExhausted'
    OBVIOUS
  <2>1. CASE UNCHANGED vars
    BY <2>1 DEF vars, FailsOnlyExhausted, NoAssert, NullOnlyExhausted, LowMemoryIntact,
                Full, NoRoom, HasTable, NextPage, SpaceOf
  <2>2. CASE Next
    <3>1. halted' = "no" => FailsOnlyExhausted'
      BY DEF FailsOnlyExhausted, NoAssert, NullOnlyExhausted, LowMemoryIntact
    <3>2. halted' # "no" => FailsOnlyExhausted'
      BY <2>2, Fails DEF Next, FailsOnlyExhausted, NoAssert
    <3> QED
      BY <3>1, <3>2
  <2> QED
    BY <2>1, <2>2
<1> QED
  BY <1>1, <1>2, BooksInvariant, PTL DEF Spec

=============================================================================
