----------------------------- MODULE BootProofs -----------------------------
(***************************************************************************)
(* From the boot sector to main's loop, whatever the BIOS answers, however *)
(* large the kernel is and wherever the disk holds it: the tables lead     *)
(* where they should, nothing is overwritten that is still needed, what    *)
(* the drive gives is stored in order, the pools fit into memory, and the  *)
(* interrupts that come are served.                                        *)
(*                                                                         *)
(* First programs and strings of words, then the drive (DiskInv), the      *)
(* tables, and the invariant BootInv, which says by how many steps are     *)
(* done what is in the tables and in memory; then every step in turn.      *)
(***************************************************************************)
EXTENDS Boot, FiniteSetTheorems, SequenceTheorems, TLAPS

Cat(s, t) == s \o t
Text(s, S, n) == s \in Seq(S) /\ Len(s) = n

LEMMA Tuple ==
  ASSUME NEW S, NEW n \in Nat, NEW f \in [1 .. n -> S]
  PROVE  Text(f, S, n)
BY DEF Text

Joins(u, s, t, S, m, n) ==
  /\ Text(u, S, m + n)
  /\ \A i \in 1 .. m : u[i] = s[i]
  /\ \A i \in 1 .. n : u[m + i] = t[i]

LEMMA CatText ==
  ASSUME NEW S, NEW m \in Nat, NEW n \in Nat, NEW s, NEW t, Text(s, S, m), Text(t, S, n)
  PROVE Joins(Cat(s, t), s, t, S, m, n)
<1>1. s \in Seq(S) /\ t \in Seq(S) /\ Len(s) = m /\ Len(t) = n
  BY DEF Text
<1>2. Cat(s, t) \in Seq(S) /\ Len(Cat(s, t)) = Len(s) + Len(t)
  BY <1>1 DEF Cat
<1>3. \A i \in 1 .. Len(s) + Len(t) : Cat(s, t)[i] = IF i <= Len(s) THEN s[i] ELSE t[i - Len(s)]
  BY <1>1, ConcatProperties DEF Cat
<1>4. \A i \in 1 .. m + n : Cat(s, t)[i] = IF i <= m THEN s[i] ELSE t[i - m]
  BY <1>1, <1>3
<1>5. \A i \in 1 .. m : Cat(s, t)[i] = s[i]
  BY <1>4
<1>6. ASSUME NEW i \in 1 .. n PROVE Cat(s, t)[m + i] = t[i]
  <2>1. m + i \in 1 .. m + n /\ ~ (m + i <= m) /\ m + i - m = i
    OBVIOUS
  <2> QED BY <1>4, <2>1
<1> QED BY <1>1, <1>2, <1>5, <1>6 DEF Text, Joins

LEMMA ProgramText ==
  /\ DOMAIN Program = 1 .. 19 /\ Len(Program) = 19
  /\ Program[1] = "rd_disk_m_16" /\ Program[2] = "int15" /\ Program[3] = "p_mode_start"
  /\ Program[4] = "rd_disk_m_32" /\ Program[5] = "setup_page" /\ Program[6] = "paging"
  /\ Program[7] = "kernel_init" /\ Program[8] = "main"
  /\ Program[9] = "idt_init" /\ Program[10] = "mem_init" /\ Program[11] = "threads_init"
  /\ Program[12] = "timer_init" /\ Program[13] = "console_init" /\ Program[14] = "keyboard_init"
  /\ Program[15] = "tss_init" /\ Program[16] = "thread_start" /\ Program[17] = "thread_start"
  /\ Program[18] = "intr_enable" /\ Program[19] = "loop"
<1> DEFINE a == <<"rd_disk_m_16", "int15", "p_mode_start", "rd_disk_m_32", "setup_page", "paging",
    "kernel_init", "main">>
           c == <<"thread_start", "thread_start", "intr_enable", "loop">>
           S == {"rd_disk_m_16", "int15", "p_mode_start", "rd_disk_m_32", "setup_page", "paging",
                 "kernel_init", "main", "idt_init", "mem_init", "threads_init", "timer_init",
                 "console_init", "keyboard_init", "tss_init", "thread_start", "intr_enable", "loop"}
<1>1. a \in [1 .. 8 -> S] /\ init_all \in [1 .. 7 -> S] /\ c \in [1 .. 4 -> S]
  BY DEF init_all
<1>2. /\ a[1] = "rd_disk_m_16" /\ a[2] = "int15" /\ a[3] = "p_mode_start"
      /\ a[4] = "rd_disk_m_32" /\ a[5] = "setup_page" /\ a[6] = "paging"
      /\ a[7] = "kernel_init" /\ a[8] = "main"
  OBVIOUS
<1>3. /\ init_all[1] = "idt_init" /\ init_all[2] = "mem_init" /\ init_all[3] = "threads_init"
      /\ init_all[4] = "timer_init" /\ init_all[5] = "console_init"
      /\ init_all[6] = "keyboard_init" /\ init_all[7] = "tss_init"
  BY DEF init_all
<1>4. c[1] = "thread_start" /\ c[2] = "thread_start" /\ c[3] = "intr_enable" /\ c[4] = "loop"
  OBVIOUS
<1> DEFINE b == Cat(a, init_all)
<1>5. Program = Cat(b, c)
  BY DEF Program, Cat
<1> HIDE DEF a, c, S
<1>6. Joins(b, a, init_all, S, 8, 7)
  <2>1. Text(a, S, 8) /\ Text(init_all, S, 7)
    BY <1>1, Tuple
  <2> QED
    BY <2>1, CatText
<1> HIDE DEF b
<1>7. Joins(Cat(b, c), b, c, S, 15, 4)
  <2>1. Text(b, S, 8 + 7) /\ 8 + 7 = 15
    BY <1>6 DEF Joins
  <2>2. Text(b, S, 15) /\ Text(c, S, 4)
    BY <1>1, <2>1, Tuple
  <2> QED
    BY <2>2, CatText
<1>8. DOMAIN Program = 1 .. 19 /\ Len(Program) = 19
  BY <1>5, <1>7 DEF Text, Joins
<1>9. /\ b[1] = "rd_disk_m_16" /\ b[2] = "int15" /\ b[3] = "p_mode_start"
      /\ b[4] = "rd_disk_m_32" /\ b[5] = "setup_page" /\ b[6] = "paging"
      /\ b[7] = "kernel_init" /\ b[8] = "main"
  BY <1>2, <1>6 DEF Joins
<1>10. /\ b[9] = "idt_init" /\ b[10] = "mem_init" /\ b[11] = "threads_init"
       /\ b[12] = "timer_init" /\ b[13] = "console_init" /\ b[14] = "keyboard_init"
       /\ b[15] = "tss_init"
  BY <1>3, <1>6 DEF Joins
<1>11. /\ Program[16] = "thread_start" /\ Program[17] = "thread_start"
       /\ Program[18] = "intr_enable" /\ Program[19] = "loop"
  BY <1>4, <1>5, <1>7 DEF Joins
<1>12. \A i \in 1 .. 15 : Program[i] = b[i]
  BY <1>5, <1>7 DEF Joins
<1> QED
  BY <1>8, <1>9, <1>10, <1>11, <1>12

(* Where each step is, of the two thread_start the first.                  *)
LEMMA Where ==
  /\ First("rd_disk_m_16") = 1 /\ First("int15") = 2 /\ First("rd_disk_m_32") = 4
  /\ First("setup_page") = 5 /\ First("kernel_init") = 7 /\ First("main") = 8
  /\ First("mem_init") = 10 /\ First("threads_init") = 11
  /\ First("thread_start") = 16 /\ First("intr_enable") = 18
<1> DEFINE At(step) == {i \in DOMAIN Program : Program[i] = step}
<1>1. \A i \in 1 .. 19 : i \in {1, 2, 3, 4, 5, 6, 7, 8, 9, 10, 11, 12, 13, 14, 15, 16, 17, 18, 19}
  OBVIOUS
<1>2. /\ At("rd_disk_m_16") = {1}
      /\ At("int15") = {2}
      /\ At("rd_disk_m_32") = {4}
      /\ At("setup_page") = {5}
      /\ At("kernel_init") = {7}
      /\ At("main") = {8}
      /\ At("mem_init") = {10}
      /\ At("threads_init") = {11}
      /\ At("intr_enable") = {18}
  BY <1>1, ProgramText
<1>3. At("thread_start") = {16, 17}
  BY <1>1, ProgramText
<1>4. ASSUME NEW n \in 1 .. 19 PROVE Min({n}) = n
  BY DEF Min
<1>5. Min({16, 17}) = 16
  BY DEF Min
<1> HIDE DEF At
<1>6. /\ Min({1}) = 1 /\ Min({2}) = 2 /\ Min({4}) = 4 /\ Min({5}) = 5 /\ Min({7}) = 7
      /\ Min({8}) = 8 /\ Min({10}) = 10 /\ Min({11}) = 11 /\ Min({18}) = 18
  BY <1>4
<1>7. \A step : First(step) = Min(At(step))
  BY DEF First, At
<1> QED
  BY SMTT(30), <1>2, <1>3, <1>5, <1>6, <1>7, ProgramText
(* Division, of which the provers know no more than this.                  *)
LEMMA DivMod ==
  ASSUME NEW n \in Nat, NEW c \in Nat \ {0}
  PROVE  /\ n % c \in 0 .. c - 1
         /\ n \div c \in Nat
         /\ n = (c * (n \div c)) + (n % c)
OBVIOUS

LEMMA Division ==
  ASSUME NEW c \in Nat \ {0}, NEW q \in Nat, NEW r \in 0 .. c - 1
  PROVE  ((c * q) + r) \div c = q /\ ((c * q) + r) % c = r
OBVIOUS

LEMMA DivBelow ==
  ASSUME NEW c \in Nat \ {0}, NEW m \in Nat, NEW n \in 0 .. c * m - 1
  PROVE  n \div c \in 0 .. m - 1
<1> DEFINE q == n \div c
<1>1. c * m \in Nat
  OBVIOUS
<1>2. n \in Nat /\ n < c * m
  BY <1>1
<1>3. PICK r \in Nat : q \in Nat /\ n = c * q + r
  <2>1. n % c \in Nat /\ q \in Nat /\ n = c * q + (n % c)
    BY <1>2, DivMod
  <2> HIDE DEF q
  <2> QED
    BY <2>1
<1> HIDE DEF q
<1>4. q < m
  <2> SUFFICES ASSUME m <= q PROVE FALSE
    BY <1>3
  <2>1. PICK d \in Nat : q = m + d
    BY <1>3
  <2>2. c * q = c * m + c * d /\ c * d \in Nat
    BY <2>1
  <2> QED
    BY <1>1, <1>2, <1>3, <2>2
<1> QED
  BY <1>3, <1>4 DEF q

(* One more: the next place in a row of c, or the first of the next row.   *)
LEMMA DivNext ==
  ASSUME NEW g \in Nat, NEW c \in Nat \ {0}
  PROVE  IF g % c < c - 1
         THEN (g + 1) \div c = g \div c /\ (g + 1) % c = (g % c) + 1
         ELSE (g + 1) \div c = (g \div c) + 1 /\ (g + 1) % c = 0
<1>1. PICK q \in Nat, r \in 0 .. c - 1 : q = g \div c /\ r = g % c /\ g = c * q + r
  BY DivMod
<1>2. CASE r < c - 1
  <2>1. r + 1 \in 0 .. c - 1 /\ g + 1 = (c * q) + (r + 1)
    BY <1>1, <1>2
  <2> QED
    BY ZenonT(30), <1>1, <1>2, <2>1, Division
<1>3. CASE ~ (r < c - 1)
  <2>1. PICK p \in Nat, z \in 0 .. c - 1 : p = q + 1 /\ z = 0
    BY <1>1
  <2>2. r = c - 1 /\ c * p = c * q + c /\ c * q \in Nat
    BY <1>1, <1>3, <2>1
  <2>3. g + 1 = (c * p) + z
    BY <1>1, <2>1, <2>2
  <2>4. (g + 1) \div c = p /\ (g + 1) % c = z
    BY <2>3, Division
  <2> QED
    BY <1>1, <1>3, <2>1, <2>4
<1> QED
  BY <1>2, <1>3

-----------------------------------------------------------------------------
Lba2 == Byte * Nibble
Lba3 == Byte * Lba2
Lba4 == Byte * Lba3

LEMMA DiskSizes ==
  /\ Byte \in Nat /\ Byte > 1 /\ Nibble \in 2 .. Byte /\ SectorWords \in Nat \ {0}
  /\ Lba2 \in Nat /\ Lba3 \in Nat /\ Lba4 \in Nat
  /\ Byte * Byte * Nibble = Lba3 /\ Byte * Byte * Byte * Nibble = Lba4
  /\ Nibble <= Lba2 /\ Lba2 <= Lba3 /\ Lba3 <= Lba4
<1>1. Byte \in Nat /\ Byte > 1 /\ Nibble \in 2 .. Byte /\ SectorWords \in Nat \ {0}
  BY DiskAssumption DEF DiskAssumption
<1>2. ASSUME NEW m \in Nat PROVE Byte * m \in Nat /\ m <= Byte * m
  <2>1. PICK d \in Nat : Byte = 1 + d
    BY <1>1
  <2>2. Byte * m = m + d * m /\ d * m \in Nat
    BY <2>1
  <2> QED
    BY <2>2
<1>3. Lba2 \in Nat /\ Nibble <= Lba2
  BY <1>1, <1>2 DEF Lba2
<1>4. Lba3 \in Nat /\ Lba2 <= Lba3
  BY <1>2, <1>3 DEF Lba3
<1>5. Lba4 \in Nat /\ Lba3 <= Lba4
  BY <1>2, <1>4 DEF Lba4
<1>6. Byte * Byte * Nibble = Lba3
  BY <1>1 DEF Lba2, Lba3
<1>7. Byte * Byte * Byte * Nibble = Lba4
  BY <1>1 DEF Lba2, Lba3, Lba4
<1> QED
  BY <1>1, <1>3, <1>4, <1>5, <1>6, <1>7

LEMMA CallType ==
  ASSUME NEW c \in Call
  PROVE  /\ c.lba \in 0 .. Lba4 - 1 /\ c.n \in 1 .. Byte - 1
         /\ c.n * SectorWords \in Nat /\ c.n * SectorWords >= c.n
         /\ c.n * SectorWords <= (Byte - 1) * SectorWords
<1>1. c.lba \in 0 .. Lba4 - 1 /\ c.n \in 1 .. Byte - 1
  BY DiskSizes DEF Call
<1>2. PICK d \in Nat : Byte - 1 = c.n + d
  <2>1. Byte \in Nat /\ c.n \in Nat /\ c.n <= Byte - 1
    BY <1>1, DiskSizes
  <2>2. Byte - 1 - c.n \in Nat /\ Byte - 1 = c.n + (Byte - 1 - c.n)
    BY <2>1
  <2> QED
    BY <2>2
<1>3. (Byte - 1) * SectorWords = c.n * SectorWords + d * SectorWords /\ d * SectorWords \in Nat
      /\ c.n * SectorWords \in Nat
  BY <1>1, <1>2, DiskSizes
<1>4. PICK e \in Nat : SectorWords = 1 + e
  BY DiskSizes
<1>5. c.n * SectorWords = c.n + c.n * e /\ c.n * e \in Nat
  BY <1>1, <1>4
<1> QED
  BY <1>1, <1>3, <1>5

-----------------------------------------------------------------------------
(* The words in memory that are from the drive.                            *)
LEMMA WordsType ==
  ASSUME NEW m, NEW i \in Nat
  PROVE  WordsIn(m, i) \in 0 .. i
<1> DEFINE S == {j \in 1 .. i : m[j] # NULL}
<1>1. IsFiniteSet(1 .. i) /\ Cardinality(1 .. i) = i
  BY FS_Interval
<1>2. S \in SUBSET (1 .. i)
  OBVIOUS
<1> HIDE DEF S
<1>3. IsFiniteSet(S) /\ Cardinality(S) <= i
  BY <1>1, <1>2, FS_Subset
<1>4. Cardinality(S) \in Nat
  BY <1>3, FS_CardinalityType
<1> QED
  BY <1>3, <1>4 DEF S, WordsIn

LEMMA WordsStart ==
  ASSUME NEW m
  PROVE  WordsIn(m, 0) = 0
BY WordsType

LEMMA WordsNext ==
  ASSUME NEW m, NEW i \in Nat
  PROVE  WordsIn(m, i + 1) = WordsIn(m, i) + (IF m[i + 1] # NULL THEN 1 ELSE 0)
<1> DEFINE S == {j \in 1 .. i : m[j] # NULL}
           T == {j \in 1 .. i + 1 : m[j] # NULL}
<1>1. IsFiniteSet(1 .. i)
  BY FS_Interval
<1>2. IsFiniteSet(S)
  BY <1>1, FS_Subset
<1>3. i + 1 \notin S
  OBVIOUS
<1>4. CASE m[i + 1] # NULL
  <2>1. T = S \union {i + 1}
    BY <1>4
  <2> HIDE DEF S, T
  <2>2. Cardinality(T) = Cardinality(S) + 1
    BY <1>2, <1>3, <2>1, FS_AddElement
  <2> QED
    BY <1>4, <2>2 DEF S, T, WordsIn
<1>5. CASE m[i + 1] = NULL
  <2>1. T = S
    BY <1>5
  <2>2. Cardinality(S) \in Nat
    BY <1>2, FS_CardinalityType
  <2> QED
    BY <1>5, <2>1, <2>2 DEF WordsIn
<1> QED
  BY <1>4, <1>5

LEMMA WordsSame ==
  ASSUME NEW m, NEW w, NEW i \in Nat, \A j \in 1 .. i : m[j] = w[j]
  PROVE  WordsIn(m, i) = WordsIn(w, i)
<1>1. {j \in 1 .. i : m[j] # NULL} = {j \in 1 .. i : w[j] # NULL}
  OBVIOUS
<1> QED
  BY <1>1 DEF WordsIn

LEMMA WordsAll ==
  ASSUME NEW m, NEW i \in Nat, \A j \in 1 .. i : m[j] # NULL
  PROVE  WordsIn(m, i) = i
<1>1. {j \in 1 .. i : m[j] # NULL} = 1 .. i
  OBVIOUS
<1>2. Cardinality(1 .. i) = i
  BY FS_Interval
<1> QED
  BY <1>1, <1>2 DEF WordsIn

\* Word g of what is asked for, from 0 on.
Word(c, g) == <<c.lba + (g \div SectorWords), 1 + (g % SectorWords)>>

Ordered(m, c) == \A i \in 1 .. Len(m) : m[i] # NULL => m[i] = Word(c, WordsIn(m, i) - 1)

(* One more word of the drive, or none, at the end.                        *)
LEMMA OneMoreWord ==
  ASSUME NEW A, NEW m \in Seq(A), NEW w \in A, NEW c, Ordered(m, c),
         w # NULL => w = Word(c, WordsIn(m, Len(m)))
  PROVE  /\ Ordered(Append(m, w), c)
         /\ WordsIn(Append(m, w), Len(Append(m, w))) =
              WordsIn(m, Len(m)) + (IF w # NULL THEN 1 ELSE 0)
<1> DEFINE n == Len(m)
           v == Append(m, w)
<1>1. n \in Nat /\ Len(v) = n + 1 /\ v[n + 1] = w /\ \A j \in 1 .. n : v[j] = m[j]
  OBVIOUS
<1> HIDE DEF n, v
<1>2. ASSUME NEW i \in 0 .. n PROVE WordsIn(v, i) = WordsIn(m, i)
  <2>1. \A j \in 1 .. i : v[j] = m[j]
    BY <1>1, <1>2
  <2> QED
    BY <1>2, <2>1, WordsSame
<1>3. n \in 0 .. n
  BY <1>1
<1>4. WordsIn(v, n + 1) = WordsIn(m, n) + (IF w # NULL THEN 1 ELSE 0)
  BY <1>1, <1>2, <1>3, WordsNext
<1>5. ASSUME NEW i \in 1 .. n + 1, v[i] # NULL
      PROVE  v[i] = Word(c, WordsIn(v, i) - 1)
  <2>1. CASE i = n + 1
    <3>1. WordsIn(m, n) \in Nat
      BY <1>1, WordsType
    <3>2. WordsIn(v, i) - 1 = WordsIn(m, n)
      BY <1>1, <1>4, <1>5, <2>1, <3>1
    <3> QED
      BY <1>1, <1>5, <2>1, <3>2 DEF n
  <2>2. CASE i # n + 1
    <3>1. i \in 1 .. n /\ i \in 0 .. n
      BY <1>1, <1>5, <2>2
    <3> QED
      BY <1>1, <1>2, <1>5, <3>1 DEF Ordered, n
  <2> QED
    BY <2>1, <2>2
<1> QED
  BY <1>1, <1>4, <1>5 DEF Ordered, n, v

-----------------------------------------------------------------------------
(* The number that is being sent: what the ports have of it and, in front  *)
(* of that, what is still in eax.                                          *)
Sent ==
  CASE port \in {2, 3} -> eax
    [] port = 4 -> reg[3] + Byte * eax
    [] port = 5 -> reg[3] + Byte * (reg[4] + Byte * eax)
    [] port = 6 -> reg[3] + Byte * (reg[4] + Byte * (reg[5] + Byte * eax))
    [] port = 7 -> reg[3] + Byte * (reg[4] + Byte * (reg[5] + Byte * reg[6]))

Room ==
  CASE port \in {2, 3, 7} -> Lba4
    [] port = 4 -> Lba3
    [] port = 5 -> Lba2
    [] port = 6 -> Nibble

DiskTypes ==
  DiskTypeOK /\ next \in Nat \X Nat /\ mem \in Seq((Nat \X Nat) \union {NULL})

OutInv ==
  /\ at \in {"none", "out"} => status = "idle" /\ left = 0 /\ mem = <<>>
  /\ at = "out" => Sent = call.lba /\ eax < Room /\ (port > 2 => reg[2] = call.n)

PollInv ==
  at = "not_ready" =>
    status \in {"BSY", "DRQ", "ERR"} /\ next = Word(call, 0) /\ left = call.n /\ mem = <<>>

(* While words are stored: all that the drive has given are in memory, in  *)
(* their order, and the drive is at the next.                              *)
Reached(g) ==
  /\ next = Word(call, g) /\ left + (g \div SectorWords) = call.n
  /\ status \in {"BSY", "DRQ", "idle"} /\ (status \in {"BSY", "DRQ"} => left > 0)
  /\ status = "BSY" => next[1] > call.lba

ReadInv ==
  at \in {"go_on_read", "ret"} =>
    /\ Len(mem) + cx = call.n * SectorWords /\ (at = "ret" <=> cx = 0)
    /\ Reached(WordsIn(mem, Len(mem))) /\ Ordered(mem, call)
    /\ mem = <<>> => status = "DRQ"
    /\ mem # <<>> => mem[1] # NULL

DiskInv == DiskTypes /\ OutInv /\ PollInv /\ ReadInv

LEMMA DiskStart == DiskInit => DiskInv
<1> SUFFICES ASSUME DiskInit PROVE DiskInv
  OBVIOUS
<1> USE DEF DiskInit
<1>1. eax \in 0 .. Lba4 - 1 /\ call \in Call /\ cx \in 0 .. (Byte - 1) * SectorWords
  <2>1. Byte - 1 \in Nat /\ 1 \in 1 .. Byte - 1 /\ SectorWords \in Nat /\ Lba4 \in Nat \ {0}
    BY DiskSizes
  <2>2. (Byte - 1) * SectorWords \in Nat
    BY <2>1
  <2> QED
    BY <2>1, <2>2, DiskSizes DEF Call
<1>2. reg \in [2 .. 6 -> 0 .. Byte - 1] /\ left \in 0 .. Byte - 1
  BY DiskSizes
<1>3. Len(mem) <= (Byte - 1) * SectorWords /\ mem \in Seq((Nat \X Nat) \union {NULL})
  BY <1>1
<1>4. DiskTypes
  BY <1>1, <1>2, <1>3, DiskSizes DEF DiskTypes, DiskTypeOK
<1>5. OutInv /\ PollInv /\ ReadInv
  BY DEF OutInv, PollInv, ReadInv
<1> QED
  BY <1>4, <1>5 DEF DiskInv

LEMMA DiskStays == DiskInv /\ UNCHANGED disk => DiskInv'
<1> SUFFICES ASSUME DiskInv, UNCHANGED disk PROVE DiskInv'
  OBVIOUS
<1>1. at' = at /\ port' = port /\ eax' = eax /\ cx' = cx /\ mem' = mem /\ call' = call
      /\ reg' = reg /\ status' = status /\ next' = next /\ left' = left
  BY DEF disk, cpu, drive
<1>2. DiskTypes'
  BY <1>1 DEF DiskInv, DiskTypes, DiskTypeOK
<1>3. OutInv'
  BY <1>1 DEF DiskInv, OutInv, Sent, Room
<1>4. PollInv'
  BY <1>1 DEF DiskInv, PollInv
<1>5. ReadInv'
  BY <1>1 DEF DiskInv, ReadInv, Reached
<1> QED
  BY <1>2, <1>3, <1>4, <1>5 DEF DiskInv

LEMMA rd_diskKeeps ==
  ASSUME DiskInv, NEW lba, NEW n, [lba |-> lba, n |-> n] \in Call, rd_disk(lba, n)
  PROVE  DiskInv'
<1>1. at = "none" /\ at' = "out" /\ port' = 2 /\ eax' = lba /\ call' = [lba |-> lba, n |-> n]
      /\ cx' = cx /\ mem' = mem /\ reg' = reg /\ status' = status /\ next' = next /\ left' = left
  BY DEF rd_disk, drive
<1>2. lba \in 0 .. Lba4 - 1 /\ call'.lba = lba
  BY <1>1, CallType
<1>3. DiskTypes'
  BY <1>1, <1>2, DiskSizes DEF DiskInv, DiskTypes, DiskTypeOK
<1>4. OutInv'
  BY <1>1, <1>2, DiskSizes DEF DiskInv, OutInv, Sent, Room
<1>5. PollInv' /\ ReadInv'
  BY <1>1 DEF PollInv, ReadInv
<1> QED
  BY <1>3, <1>4, <1>5 DEF DiskInv

LEMMA ReturnKeeps == DiskInv /\ Return => DiskInv'
<1> SUFFICES ASSUME DiskInv, Return PROVE DiskInv'
  OBVIOUS
<1>1. DiskInit' \/ cx' = cx
  BY DEF Return, DiskInit
<1>2. eax' \in 0 .. Lba4 - 1 /\ call' \in Call
  <2>1. 1 \in 1 .. Byte - 1 /\ Lba4 \in Nat \ {0}
    BY DiskSizes
  <2> QED
    BY <2>1, DiskSizes DEF Call, Return
<1>3. reg' \in [2 .. 6 -> 0 .. Byte - 1] /\ left' \in 0 .. Byte - 1
  BY DiskSizes DEF Return
<1>4. Len(mem') <= (Byte - 1) * SectorWords /\ mem' \in Seq((Nat \X Nat) \union {NULL})
  <2>1. (Byte - 1) * SectorWords \in Nat
    BY DiskSizes
  <2> QED
    BY <2>1 DEF Return
<1>5. DiskTypes'
  BY <1>2, <1>3, <1>4, DiskSizes DEF DiskInv, DiskTypes, DiskTypeOK, Return
<1>6. OutInv' /\ PollInv' /\ ReadInv'
  BY DEF OutInv, PollInv, ReadInv, Return
<1> QED
  BY <1>5, <1>6 DEF DiskInv

(* A byte of the number goes to its port, and what is left moves down.     *)
LEMMA OutKeeps == DiskInv /\ Out => DiskInv'
<1> SUFFICES ASSUME DiskInv, Out PROVE DiskInv'
  OBVIOUS
<1>1. /\ at = "out" /\ port \in 2 .. 6 /\ reg' = [reg EXCEPT ![port] = al] /\ Shift /\ port' = port + 1
      /\ at' = at /\ cx' = cx /\ mem' = mem /\ call' = call /\ status' = status /\ next' = next /\ left' = left
  BY DEF Out, DiskInv, DiskTypes, DiskTypeOK
<1>2. /\ eax \in 0 .. Lba4 - 1 /\ call.n \in 1 .. Byte - 1 /\ reg \in [2 .. 6 -> 0 .. Byte - 1]
      /\ Sent = call.lba /\ eax < Room /\ (port > 2 => reg[2] = call.n)
  BY <1>1, CallType, DiskSizes DEF DiskInv, DiskTypes, DiskTypeOK, OutInv
<1>3. /\ eax \div Byte \in Nat /\ eax % Byte \in 0 .. Byte - 1 /\ eax % Nibble \in 0 .. Nibble - 1
      /\ eax = (eax % Byte) + Byte * (eax \div Byte)
  <2>1. eax \in Nat /\ Byte \in Nat \ {0} /\ Nibble \in Nat \ {0}
    BY <1>2, DiskSizes
  <2>2. eax \div Byte \in Nat /\ eax % Byte \in 0 .. Byte - 1
        /\ eax = (Byte * (eax \div Byte)) + (eax % Byte)
    BY <2>1, DivMod
  <2>3. eax % Nibble \in 0 .. Nibble - 1
    BY <2>1, DivMod
  <2> QED
    BY <2>1, <2>2, <2>3
<1>4. ASSUME NEW m \in Nat, eax < Byte * m PROVE eax \div Byte < m
  <2>1. eax \in 0 .. Byte * m - 1 /\ Byte \in Nat \ {0}
    BY <1>2, <1>4, DiskSizes
  <2> QED
    BY <2>1, DivBelow
<1>5. al \in 0 .. Byte - 1
  <2>1. port = 2 \/ port \in 3 .. 5 \/ port = 6
    BY <1>1
  <2>2. 0 .. Nibble - 1 \subseteq 0 .. Byte - 1 /\ 1 .. Byte - 1 \subseteq 0 .. Byte - 1
    BY DiskSizes
  <2> QED
    BY <1>2, <1>3, <2>1, <2>2 DEF al
<1>6. eax' \in 0 .. Lba4 - 1
  <2>1. CASE port = 2
    BY <1>1, <1>2, <2>1 DEF Shift, ShiftBy
  <2>2. CASE port # 2
    <3>1. Lba4 \in Nat /\ eax < Byte * Lba4
      BY <1>2, DiskSizes
    <3> QED
      BY <1>1, <1>3, <1>4, <2>2, <3>1 DEF Shift, ShiftBy
  <2> QED
    BY <2>1, <2>2
<1>7. DiskTypes'
  <2>1. reg' \in [2 .. 6 -> 0 .. Byte - 1]
    BY <1>1, <1>2, <1>5
  <2> QED
    BY SMTT(30), <1>1, <1>6, <2>1, DiskSizes DEF DiskInv, DiskTypes, DiskTypeOK
<1>8. Sent' = call.lba /\ eax' < Room' /\ reg'[2] = call.n
  <2>1. CASE port = 2
    <3>1. port' = 3 /\ eax' = eax /\ reg'[2] = call.n
      BY <1>1, <1>2, <2>1 DEF Shift, ShiftBy, al
    <3> QED
      BY <1>1, <1>2, <2>1, <3>1 DEF Sent, Room
  <2>2. CASE port = 3
    <3>1. port' = 4 /\ eax' = eax \div Byte /\ reg'[3] = eax % Byte /\ reg'[2] = reg[2]
      BY <1>1, <1>2, <2>2 DEF Shift, ShiftBy, al
    <3>2. eax' < Lba3
      BY <1>2, <1>4, <2>2, <3>1, DiskSizes DEF Room, Lba4
    <3> QED
      BY <1>2, <1>3, <2>2, <3>1, <3>2 DEF Sent, Room
  <2>3. CASE port = 4
    <3>1. port' = 5 /\ eax' = eax \div Byte /\ reg'[4] = eax % Byte /\ reg'[2] = reg[2] /\ reg'[3] = reg[3]
      BY <1>1, <1>2, <2>3 DEF Shift, ShiftBy, al
    <3>2. eax' < Lba2
      BY <1>2, <1>4, <2>3, <3>1, DiskSizes DEF Room, Lba3
    <3> QED
      BY <1>2, <1>3, <2>3, <3>1, <3>2 DEF Sent, Room
  <2>4. CASE port = 5
    <3>1. port' = 6 /\ eax' = eax \div Byte /\ reg'[5] = eax % Byte /\ reg'[2] = reg[2] /\ reg'[3] = reg[3]
          /\ reg'[4] = reg[4]
      BY <1>1, <1>2, <2>4 DEF Shift, ShiftBy, al
    <3>2. eax' < Nibble
      BY <1>2, <1>4, <2>4, <3>1, DiskSizes DEF Room, Lba2
    <3> QED
      BY <1>2, <1>3, <2>4, <3>1, <3>2 DEF Sent, Room
  <2>5. CASE port = 6
    <3>1. eax % Nibble = eax
      BY <1>2, <2>5, DiskSizes DEF Room
    <3>2. port' = 7 /\ reg'[6] = eax /\ reg'[2] = reg[2] /\ reg'[3] = reg[3]
          /\ reg'[4] = reg[4] /\ reg'[5] = reg[5]
      BY <1>1, <1>2, <2>5, <3>1 DEF al
    <3>3. Sent' = Sent
      BY <2>5, <3>2 DEF Sent
    <3>4. eax' < Room'
      BY <1>6, <3>2, DiskSizes DEF Room
    <3> QED
      BY <1>2, <2>5, <3>2, <3>3, <3>4
  <2> QED
    BY <1>1, <2>1, <2>2, <2>3, <2>4, <2>5
<1>9. OutInv' /\ PollInv' /\ ReadInv'
  BY <1>1, <1>8 DEF DiskInv, OutInv, PollInv, ReadInv
<1> QED
  BY <1>7, <1>9 DEF DiskInv

\* The first word asked for.
LEMMA FirstWord == \A c \in Call : Word(c, 0) = <<c.lba, 1>>
<1>1. \A c \in Call : c.lba \in Nat
  BY CallType, DiskSizes
<1>2. 0 \div SectorWords = 0 /\ 0 % SectorWords = 0
  BY DiskSizes
<1> QED
  BY <1>1, <1>2 DEF Word

LEMMA CommandKeeps == DiskInv /\ Command => DiskInv'
<1> SUFFICES ASSUME DiskInv, Command PROVE DiskInv'
  OBVIOUS
<1>1. /\ at = "out" /\ port = 7 /\ at' = "not_ready" /\ status' = "BSY" /\ left' = reg[2]
      /\ next' = <<reg[3] + Byte * (reg[4] + Byte * (reg[5] + Byte * reg[6])), 1>>
      /\ port' = port /\ eax' = eax /\ cx' = cx /\ mem' = mem /\ call' = call /\ reg' = reg
  BY DEF Command
<1>2. /\ Sent = call.lba /\ reg[2] = call.n /\ mem = <<>> /\ call \in Call
  BY <1>1 DEF DiskInv, OutInv, DiskTypes, DiskTypeOK
<1>3. next' = <<call.lba, 1>> /\ call.lba \in Nat /\ call.n \in 1 .. Byte - 1
  BY <1>1, <1>2, CallType, DiskSizes DEF Sent
<1>4. next' = Word(call', 0)
  BY <1>1, <1>2, <1>3, FirstWord
<1>5. DiskTypes'
  <2>1. left' \in 0 .. Byte - 1 /\ next' \in Nat \X Nat
    BY <1>1, <1>2, <1>3, DiskSizes
  <2> QED
    BY <1>1, <2>1 DEF DiskInv, DiskTypes, DiskTypeOK
<1>6. OutInv' /\ PollInv' /\ ReadInv'
  BY <1>1, <1>2, <1>4 DEF OutInv, PollInv, ReadInv
<1> QED
  BY <1>5, <1>6 DEF DiskInv

LEMMA PollKeeps == DiskInv /\ Poll => DiskInv'
<1> SUFFICES ASSUME DiskInv, Poll PROVE DiskInv'
  OBVIOUS
<1>1. /\ at = "not_ready" /\ status = "DRQ" /\ at' = "go_on_read" /\ cx' = call.n * SectorWords
      /\ port' = port /\ eax' = eax /\ mem' = mem /\ call' = call
      /\ reg' = reg /\ status' = status /\ next' = next /\ left' = left
  BY DEF Poll, PollFor, drive
<1>2. /\ next = Word(call, 0) /\ left = call.n /\ mem = <<>> /\ call \in Call
  BY <1>1 DEF DiskInv, PollInv, DiskTypes, DiskTypeOK
<1>3. call.n \in 1 .. Byte - 1 /\ cx' \in Nat /\ cx' >= call.n /\ cx' <= (Byte - 1) * SectorWords
  BY <1>1, <1>2, CallType
<1>4. call.n \in Nat /\ call.n > 0 /\ Byte \in Nat /\ (Byte - 1) * SectorWords \in Nat
  BY <1>3, DiskSizes
<1>5. DiskTypes'
  <2>1. cx' \in 0 .. (Byte - 1) * SectorWords
    BY <1>3, <1>4
  <2> QED
    BY <1>1, <2>1 DEF DiskInv, DiskTypes, DiskTypeOK
<1>6. OutInv' /\ PollInv'
  BY <1>1 DEF OutInv, PollInv
<1>7. ReadInv'
  <2>1. Len(mem') = 0 /\ WordsIn(mem', Len(mem')) = 0
    BY <1>1, <1>2, WordsStart
  <2>2. 0 \div SectorWords = 0
    BY DiskSizes
  <2>3. Reached(0)'
    BY <1>1, <1>2, <1>4, <2>2 DEF Reached
  <2>4. Ordered(mem', call')
    BY <2>1 DEF Ordered
  <2>5. Len(mem') + cx' = call'.n * SectorWords /\ cx' > 0
    BY <1>1, <1>3, <1>4, <2>1
  <2>6. Reached(WordsIn(mem, Len(mem)))'
    BY <2>1, <2>3 DEF Reached
  <2> QED
    BY <1>1, <1>2, <2>4, <2>5, <2>6 DEF ReadInv
<1> QED
  BY <1>5, <1>6, <1>7 DEF DiskInv

(* The drive gives word g and goes on.                                     *)
LEMMA GivenReaches ==
  ASSUME DiskInv, NEW g \in Nat, Reached(g), status = "DRQ", call' = call, Given
  PROVE  Reached(g + 1)' /\ next' \in Nat \X Nat /\ left' \in 0 .. Byte - 1
<1>1. /\ next = Word(call, g) /\ left + (g \div SectorWords) = call.n /\ left > 0
      /\ call.lba \in Nat /\ left \in 0 .. Byte - 1
  <2>1. call \in Call /\ left \in 0 .. Byte - 1
    BY DEF DiskInv, DiskTypes, DiskTypeOK
  <2>2. call.lba \in Nat
    BY <2>1, CallType, DiskSizes
  <2> QED
    BY <2>1, <2>2 DEF Reached
<1> DEFINE q == g \div SectorWords
           r == g % SectorWords
<1>2. SectorWords \in Nat \ {0} /\ Byte \in Nat
  BY DiskSizes
<1>3. q \in Nat /\ r \in 0 .. SectorWords - 1
  BY <1>2, DivMod
<1>4. IF r < SectorWords - 1
      THEN (g + 1) \div SectorWords = q /\ (g + 1) % SectorWords = r + 1
      ELSE (g + 1) \div SectorWords = q + 1 /\ (g + 1) % SectorWords = 0
  BY <1>2, DivNext
<1>5. next = <<call.lba + q, 1 + r>> /\ left + q = call.n
  BY <1>1 DEF Word
<1> HIDE DEF q, r
<1>6. CASE r < SectorWords - 1
  <2>1. next' = <<call.lba + q, 2 + r>> /\ status' = status /\ left' = left
    BY <1>2, <1>3, <1>5, <1>6 DEF Given
  <2>2. next' = Word(call', g + 1)
    BY <1>3, <1>4, <1>6, <2>1 DEF Word
  <2> QED
    BY <1>1, <1>3, <1>4, <1>5, <1>6, <2>1, <2>2 DEF Reached
<1>7. CASE ~ (r < SectorWords - 1)
  <2>1. /\ next' = <<call.lba + q + 1, 1>> /\ left' = left - 1
        /\ IF left = 1 THEN status' = "idle" ELSE status' \in {"DRQ", "BSY"}
    <3>1. ~ (next[2] < SectorWords) /\ next[1] = call.lba + q
      BY <1>2, <1>3, <1>5, <1>7
    <3>2. Between \subseteq {"DRQ", "BSY"}
      BY DiskAssumption DEF DiskAssumption
    <3> QED
      BY <3>1, <3>2 DEF Given
  <2>2. next' = Word(call', g + 1)
    BY <1>1, <1>3, <1>4, <1>7, <2>1 DEF Word
  <2>3. next'[1] > call.lba /\ next' \in Nat \X Nat
    BY <1>1, <1>3, <2>1
  <2>4. left' \in 0 .. Byte - 1 /\ (left # 1 => left' > 0)
    BY <1>1, <1>2, <2>1
  <2>5. left' + (q + 1) = call.n
    BY <1>1, <1>3, <1>5, <2>1
  <2>6. status' \in {"BSY", "DRQ", "idle"} /\ (status' \in {"BSY", "DRQ"} => left' > 0)
    BY <2>1, <2>4
  <2> QED
    BY <1>4, <1>7, <2>2, <2>3, <2>4, <2>5, <2>6 DEF Reached
<1> QED
  BY <1>6, <1>7

LEMMA GoOnReadKeeps == DiskInv /\ GoOnRead => DiskInv'
<1> SUFFICES ASSUME DiskInv, GoOnRead PROVE DiskInv'
  OBVIOUS
<1> DEFINE A == (Nat \X Nat) \union {NULL}
           n == Len(mem)
           g == WordsIn(mem, n)
           w == IF status = "DRQ" THEN next ELSE NULL
<1>1. /\ at = "go_on_read" /\ mem' = Append(mem, w) /\ cx' = cx - 1
      /\ at' = IF cx = 1 THEN "ret" ELSE "go_on_read"
      /\ port' = port /\ eax' = eax /\ call' = call /\ reg' = reg
  BY DEF GoOnRead, Store
<1>2. IF status = "DRQ" THEN Given ELSE UNCHANGED <<next, status, left>>
  BY DEF GoOnRead
<1>3. /\ mem \in Seq(A) /\ next \in Nat \X Nat /\ call \in Call /\ cx \in Nat
      /\ left \in 0 .. Byte - 1
  BY DEF DiskInv, DiskTypes, DiskTypeOK
<1>4. /\ n + cx = call.n * SectorWords /\ cx # 0 /\ Reached(g) /\ Ordered(mem, call)
      /\ mem = <<>> => status = "DRQ"
      /\ mem # <<>> => mem[1] # NULL
  BY <1>1 DEF DiskInv, ReadInv
<1>5. n \in Nat /\ g \in Nat
  BY <1>3, WordsType
<1>6. w \in A /\ (status = "DRQ" => w = next /\ w # NULL) /\ (status # "DRQ" => w = NULL)
  BY <1>3, DiskAssumption DEF DiskAssumption
<1>7. w # NULL => w = Word(call, g)
  BY <1>4, <1>6 DEF Reached
<1>8. /\ mem' \in Seq(A) /\ Len(mem') = n + 1 /\ mem'[n + 1] = w
      /\ mem # <<>> => mem'[1] = mem[1]
      /\ mem = <<>> => n = 0
  BY <1>1, <1>3, <1>6
<1>9. Ordered(mem', call')
      /\ WordsIn(mem', Len(mem')) = g + (IF status = "DRQ" THEN 1 ELSE 0)
  <2> HIDE DEF A, g, w
  <2>1. Ordered(Append(mem, w), call)
        /\ WordsIn(Append(mem, w), Len(Append(mem, w))) = g + (IF w # NULL THEN 1 ELSE 0)
    BY <1>3, <1>4, <1>6, <1>7, OneMoreWord DEF g
  <2> QED
    BY <1>1, <1>6, <2>1
<1> HIDE DEF A, n, g, w
<1>10. \E h \in Nat : h = WordsIn(mem', Len(mem')) /\ Reached(h)'
       /\ next' \in Nat \X Nat /\ left' \in 0 .. Byte - 1
  <2>1. CASE status = "DRQ"
    <3>1. PICK k \in Nat : k = g
      BY <1>5
    <3>2. Reached(k + 1)' /\ next' \in Nat \X Nat /\ left' \in 0 .. Byte - 1
      BY <1>1, <1>2, <1>4, <2>1, <3>1, GivenReaches
    <3>3. k + 1 \in Nat /\ k + 1 = WordsIn(mem', Len(mem'))
      BY <1>5, <1>9, <2>1, <3>1
    <3> QED
      BY <3>2, <3>3
  <2>2. CASE status # "DRQ"
    <3>1. PICK k \in Nat : k = g
      BY <1>5
    <3>2. Reached(k)'
      BY <1>1, <1>2, <1>4, <2>2, <3>1 DEF Reached
    <3>3. k = WordsIn(mem', Len(mem'))
      BY <1>5, <1>9, <2>2, <3>1
    <3> QED
      BY <1>2, <1>3, <2>2, <3>2, <3>3
  <2> QED
    BY <2>1, <2>2
<1>11. ReadInv'
  <2>1. Reached(WordsIn(mem, Len(mem)))'
    BY <1>10 DEF Reached
  <2>2. call.n * SectorWords \in Nat
    BY <1>3, CallType
  <2>3. Len(mem') + cx' = call'.n * SectorWords /\ (at' = "ret" <=> cx' = 0)
    BY <1>1, <1>3, <1>4, <1>5, <1>8, <2>2
  <2>4. mem' # <<>> /\ mem'[1] # NULL
    BY <1>4, <1>5, <1>6, <1>8
  <2> QED
    BY <1>9, <2>1, <2>3, <2>4 DEF ReadInv
<1>12. DiskTypes'
  <2>1. call.n * SectorWords <= (Byte - 1) * SectorWords /\ call.n * SectorWords \in Nat
        /\ (Byte - 1) * SectorWords \in Nat
    BY <1>3, CallType, DiskSizes
  <2>2. cx' \in 0 .. (Byte - 1) * SectorWords /\ Len(mem') <= (Byte - 1) * SectorWords
    BY <1>1, <1>3, <1>4, <1>5, <1>8, <2>1
  <2>3. status' \in {"BSY", "DRQ", "ERR", "idle"}
    BY <1>10 DEF Reached
  <2>4. at' \in {"none", "out", "not_ready", "go_on_read", "ret"}
    BY <1>1
  <2> QED
    BY <1>1, <1>8, <1>10, <2>2, <2>3, <2>4 DEF DiskInv, DiskTypes, DiskTypeOK, A
<1>13. OutInv' /\ PollInv'
  BY <1>1 DEF OutInv, PollInv
<1> QED
  BY <1>11, <1>12, <1>13 DEF DiskInv

LEMMA ReadyKeeps == DiskInv /\ Ready => DiskInv'
<1> SUFFICES ASSUME DiskInv, Ready PROVE DiskInv'
  OBVIOUS
<1>1. /\ status = "BSY" /\ at' = at /\ port' = port /\ eax' = eax /\ cx' = cx /\ mem' = mem
      /\ call' = call /\ reg' = reg /\ next' = next /\ left' = left
      /\ status' \in {"DRQ", "ERR"} /\ (next # <<call.lba, 1>> => status' = "DRQ")
  BY DiskAssumption DEF DiskAssumption, Ready, cpu
<1>2. DiskTypes'
  BY <1>1 DEF DiskInv, DiskTypes, DiskTypeOK
<1>3. OutInv' /\ PollInv'
  BY <1>1 DEF DiskInv, OutInv, PollInv
<1>4. ReadInv'
  <2> SUFFICES ASSUME at \in {"go_on_read", "ret"} PROVE ReadInv'
    BY <1>1 DEF ReadInv
  <2>1. Reached(WordsIn(mem, Len(mem))) /\ ReadInv
    BY DEF DiskInv, ReadInv
  <2>2. call.lba \in Nat /\ next[1] > call.lba
    <3>1. call \in Call
      BY DEF DiskInv, DiskTypes, DiskTypeOK
    <3>2. call.lba \in Nat
      BY <3>1, CallType, DiskSizes
    <3> QED
      BY <1>1, <2>1, <3>2 DEF Reached
  <2>3. status' = "DRQ"
    BY <1>1, <2>2
  <2>4. Reached(WordsIn(mem, Len(mem)))'
    BY <1>1, <2>1, <2>3 DEF Reached
  <2> QED
    BY <1>1, <2>1, <2>3, <2>4 DEF ReadInv
<1> QED
  BY <1>2, <1>3, <1>4 DEF DiskInv

LEMMA ReadingKeeps == DiskInv /\ Reading => DiskInv'
BY OutKeeps, CommandKeeps, PollKeeps, GoOnReadKeeps, ReadyKeeps DEF Reading

LEMMA InOrder == DiskInv => ReadsSectors
<1> SUFFICES ASSUME DiskInv PROVE ReadsSectors
  OBVIOUS
<1> DEFINE n == Len(mem)
           total_words == call.n * SectorWords
<1>1. n \in Nat /\ DOMAIN mem = 1 .. n /\ total_words \in Nat /\ cx \in Nat
      /\ mem \in Seq((Nat \X Nat) \union {NULL})
  BY CallType DEF DiskInv, DiskTypes, DiskTypeOK
<1>2. n > 0 => /\ at \in {"go_on_read", "ret"}
  BY DEF DiskInv, DiskTypes, DiskTypeOK, OutInv, PollInv
<1>3. at \in {"go_on_read", "ret"} =>
        n + cx = total_words /\ (at = "ret" <=> cx = 0) /\ Ordered(mem, call) /\ (mem # <<>> => mem[1] # NULL)
  BY DEF DiskInv, ReadInv
<1>4. ASSUME NEW i \in 1 .. n, mem[i] # NULL
      PROVE  mem[i] = Asked[WordsIn(mem, i)]
  <2>1. Ordered(mem, call) /\ n <= total_words
    BY <1>1, <1>2, <1>3, <1>4
  <2>2. WordsIn(mem, i) \in 1 .. total_words
    <3>1. PICK j \in Nat : i = j + 1
      BY <1>1, <1>4
    <3>2. WordsIn(mem, j) \in 0 .. j /\ WordsIn(mem, i) = WordsIn(mem, j) + 1
      BY <1>4, <3>1, WordsType, WordsNext
    <3> QED
      BY <1>1, <2>1, <3>1, <3>2
  <2>3. mem[i] = Word(call, WordsIn(mem, i) - 1)
    BY <1>4, <2>1 DEF Ordered
  <2> HIDE DEF n, total_words
  <2> QED
    BY <2>2, <2>3 DEF Asked, Word, total_words
<1>5. mem # <<>> => mem[1] # NULL
  BY <1>1, <1>2, <1>3
<1>6. ASSUME at = "ret" PROVE n = total_words /\ (Late \/ mem = Asked)
  <2>1. n = total_words
    BY <1>1, <1>3, <1>6
  <2>2. ASSUME ~ Late PROVE mem = Asked
    <3>1. \A i \in 1 .. n : mem[i] # NULL
      BY <1>1, <2>2 DEF Late, ToSet
    <3>2. ASSUME NEW i \in 1 .. n PROVE mem[i] = Asked[i]
      <4>1. WordsIn(mem, i) = i
        BY <1>1, <3>1, WordsAll
      <4> QED
        BY <1>4, <3>1, <4>1
    <3>3. Asked = [i \in 1 .. total_words |-> Asked[i]]
      BY DEF Asked
    <3>4. mem = [i \in 1 .. n |-> mem[i]]
      BY <1>1
    <3> QED
      BY <2>1, <3>2, <3>3, <3>4
  <2> QED
    BY <2>1, <2>2
<1> QED
  BY <1>1, <1>4, <1>5, <1>6 DEF ReadsSectors

-----------------------------------------------------------------------------
LEMMA Powers ==
  /\ 2 ^ 0 = 1 /\ 2 ^ 1 = 2 /\ 2 ^ 4 = 16 /\ 2 ^ 5 = 32 /\ 2 ^ 6 = 64 /\ 2 ^ 7 = 128 /\ 2 ^ 8 = 256
  /\ 2 ^ 12 = 4096 /\ 2 ^ 15 = 32768 /\ 2 ^ 16 = 65536 /\ 2 ^ 22 = 4194304
OBVIOUS

\* The descriptors tss_init makes.
TssDescriptors(base) ==
  <<make_gdt_desc(base, <<0, tss_size - 1>>,
                  AttrLow(DESC_DPL_0, DESC_S_SYS, DESC_TYPE_TSS), AttrHigh(0)),
    Segment3(DESC_TYPE_CODE), Segment3(DESC_TYPE_DATA)>>

Descriptor(limit_low, base_low, mid, attr_low, high, base_high) ==
  [limit_low_word |-> limit_low, base_low_word |-> base_low, base_mid_byte |-> mid,
   attr_low_byte |-> attr_low, limit_high_attr_high |-> high, base_high_byte |-> base_high]

(* What they come to.                                                      *)
LEMMA LoaderGdtIs ==
  LoaderGdt = <<Descriptor(65535, 0, 0, 152, 207, 0), Descriptor(65535, 0, 0, 146, 207, 0),
                Descriptor(7, 32768, 11, 146, 192, 192)>>
<1>1. DescHigh4(15, 8, 0) = <<207, 38912>> /\ DescHigh4(15, 2, 0) = <<207, 37376>>
      /\ DescHigh4(0, 2, 11) = <<192, 37387>>
  BY Powers DEF DescHigh4
<1>2. /\ Dwords(<<0, 65535>>, <<207, 38912>>) = Descriptor(65535, 0, 0, 152, 207, 0)
      /\ Dwords(<<0, 65535>>, <<207, 37376>>) = Descriptor(65535, 0, 0, 146, 207, 0)
      /\ Dwords(<<32768, 7>>, <<192, 37387>>) = Descriptor(7, 32768, 11, 146, 192, 0)
  BY DEF Dwords, Descriptor
<1>3. [Descriptor(7, 32768, 11, 146, 192, 0) EXCEPT !.base_high_byte = @ + 192]
        = Descriptor(7, 32768, 11, 146, 192, 192)
  BY DEF Descriptor
<1> QED
  BY <1>1, <1>2, <1>3 DEF LoaderGdt, DESC_TYPE_CODE, DESC_TYPE_DATA

LEMMA TssDescriptorsAre ==
  ASSUME NEW base \in Half \X Half
  PROVE  TssDescriptors(base) =
           <<Descriptor(107, base[2], base[1] % 256, 137, 128, base[1] \div 256),
             Descriptor(65535, 0, 0, 248, 207, 0), Descriptor(65535, 0, 0, 242, 207, 0)>>
<1>1. AttrLow(0, 0, 9) = 137 /\ AttrLow(3, 1, 8) = 248 /\ AttrLow(3, 1, 2) = 242
      /\ AttrHigh(0) = 128 /\ AttrHigh(1) = 192 /\ tss_size - 1 = 107
  BY Powers DEF AttrLow, AttrHigh, tss_size
<1>2. make_gdt_desc(base, <<0, 107>>, 137, 128)
        = Descriptor(107, base[2], base[1] % 256, 137, 128, base[1] \div 256)
  BY DEF make_gdt_desc, Descriptor
<1>3. /\ make_gdt_desc(<<0, 0>>, <<15, 65535>>, 248, 192) = Descriptor(65535, 0, 0, 248, 207, 0)
      /\ make_gdt_desc(<<0, 0>>, <<15, 65535>>, 242, 192) = Descriptor(65535, 0, 0, 242, 207, 0)
  BY DEF make_gdt_desc, Descriptor
<1> QED
  BY <1>1, <1>2, <1>3
     DEF TssDescriptors, Segment3, DESC_DPL_0, DESC_DPL_3, DESC_S_SYS, DESC_S_CODE, DESC_TYPE_TSS,
         DESC_TYPE_CODE, DESC_TYPE_DATA

\* What the processor makes of them.
LEMMA KernelCodeReads ==
  LET d == Descriptor(65535, 0, 0, 152, 207, 0) IN Present(d) /\ Code(d, 0)
BY DEF Descriptor, Present, Code, IsSegment, Type, DPL, Flat, Base, Limit, Pages

LEMMA KernelStackReads ==
  LET d == Descriptor(65535, 0, 0, 146, 207, 0) IN Present(d) /\ Stack(d, 0)
BY DEF Descriptor, Present, Stack, IsSegment, Type, DPL, Flat, Base, Limit, Pages

LEMMA VideoReads ==
  LET d == Descriptor(7, 32768, 11, 146, 192, 192) IN Present(d) /\ Video(d, 0)
BY DEF Descriptor, Present, Video, IsSegment, Type, Base, Limit, Pages, Kernel

LEMMA UserCodeReads ==
  LET d == Descriptor(65535, 0, 0, 248, 207, 0) IN Present(d) /\ Code(d, 3)
BY DEF Descriptor, Present, Code, IsSegment, Type, DPL, Flat, Base, Limit, Pages

LEMMA UserStackReads ==
  LET d == Descriptor(65535, 0, 0, 242, 207, 0) IN Present(d) /\ Stack(d, 3)
BY DEF Descriptor, Present, Stack, IsSegment, Type, DPL, Flat, Base, Limit, Pages

LEMMA HalfIs == \A x \in Half : x \in Nat
<1> DEFINE n == 65535
<1>1. n \in Nat /\ Half = 0 .. n
  BY DEF Half
<1> HIDE DEF n
<1> QED
  BY <1>1

LEMMA TaskReads ==
  ASSUME NEW base \in Half \X Half, tss = base
  PROVE  LET d == Descriptor(107, base[2], base[1] % 256, 137, 128, base[1] \div 256)
         IN  Present(d) /\ Task(d, 0)
<1> DEFINE d == Descriptor(107, base[2], base[1] % 256, 137, 128, base[1] \div 256)
<1> HIDE DEF d
<1>1. base[1] \in Nat /\ base[2] \in Nat /\ base = <<base[1], base[2]>>
  <2>1. PICK x \in Half, y \in Half : base = <<x, y>>
    OBVIOUS
  <2>2. base[1] = x /\ base[2] = y
    BY <2>1
  <2> QED
    <3>1. x \in Nat /\ y \in Nat
      BY HalfIs
    <3>2. base = <<base[1], base[2]>>
      BY <2>1, <2>2
    <3> QED
      BY <2>2, <3>1, <3>2
<1>2. (base[1] \div 256) * 256 + (base[1] % 256) = base[1]
  BY <1>1
<1>3. Base(d) = base
  BY <1>1, <1>2 DEF d, Descriptor, Base
<1>4. Present(d) /\ ~ IsSegment(d) /\ Type(d) = 9 /\ Pages(d)
  BY DEF d, Descriptor, Present, IsSegment, Type, Pages
<1> QED
  BY <1>3, <1>4 DEF d, Task

LEMMA Selectors ==
  /\ Index(SELECTOR_K_CODE) = 1 /\ Rpl(SELECTOR_K_CODE) = 0
  /\ Index(SELECTOR_K_STACK) = 2 /\ Rpl(SELECTOR_K_STACK) = 0
  /\ Index(SELECTOR_K_GS) = 3 /\ Rpl(SELECTOR_K_GS) = 0
  /\ Index(SELECTOR_TSS) = 4 /\ Rpl(SELECTOR_TSS) = 0
  /\ Index(SELECTOR_U_CODE) = 5 /\ Rpl(SELECTOR_U_CODE) = 3
  /\ Index(SELECTOR_U_STACK) = 6 /\ Rpl(SELECTOR_U_STACK) = 3
BY DEF Index, Rpl, Selector, SELECTOR_K_CODE, SELECTOR_K_DATA, SELECTOR_K_STACK, SELECTOR_K_GS,
       SELECTOR_TSS, SELECTOR_U_CODE, SELECTOR_U_DATA, SELECTOR_U_STACK

(* The table the loader brings, and what tss_init adds to it.              *)
LoaderPart == {1, 2, 3} \subseteq DOMAIN gdt /\ \A i \in {1, 2, 3} : gdt[i] = LoaderGdt[i]

TssPart ==
  /\ {4, 5, 6} \subseteq DOMAIN gdt
  /\ \A i \in {1, 2, 3} : gdt[3 + i] = TssDescriptors(tss)[i]

LEMMA LoaderLoads ==
  ASSUME LoaderPart
  PROVE  /\ Loads(SELECTOR_K_CODE, Code) /\ Loads(SELECTOR_K_STACK, Stack)
         /\ Loads(SELECTOR_K_GS, Video)
<1>1. /\ gdt[1] = Descriptor(65535, 0, 0, 152, 207, 0)
      /\ gdt[2] = Descriptor(65535, 0, 0, 146, 207, 0)
      /\ gdt[3] = Descriptor(7, 32768, 11, 146, 192, 192)
      /\ 1 \in DOMAIN gdt /\ 2 \in DOMAIN gdt /\ 3 \in DOMAIN gdt
  BY LoaderGdtIs DEF LoaderPart
<1>2. Loads(SELECTOR_K_CODE, Code)
  BY <1>1, Selectors, KernelCodeReads DEF Loads
<1>3. Loads(SELECTOR_K_STACK, Stack)
  BY <1>1, Selectors, KernelStackReads DEF Loads
<1>4. Loads(SELECTOR_K_GS, Video)
  BY <1>1, Selectors, VideoReads DEF Loads
<1> QED
  BY <1>2, <1>3, <1>4

LEMMA TssLoads ==
  ASSUME TssPart, tss \in Half \X Half
  PROVE  /\ Loads(SELECTOR_U_CODE, Code) /\ Loads(SELECTOR_U_STACK, Stack)
         /\ Loads(SELECTOR_TSS, Task)
<1>1. PICK base \in Half \X Half : base = tss
  OBVIOUS
<1>2. /\ TssDescriptors(tss)[1] = Descriptor(107, base[2], base[1] % 256, 137, 128, base[1] \div 256)
      /\ TssDescriptors(tss)[2] = Descriptor(65535, 0, 0, 248, 207, 0)
      /\ TssDescriptors(tss)[3] = Descriptor(65535, 0, 0, 242, 207, 0)
  BY <1>1, TssDescriptorsAre
<1>3. /\ gdt[4] = Descriptor(107, base[2], base[1] % 256, 137, 128, base[1] \div 256)
      /\ gdt[5] = Descriptor(65535, 0, 0, 248, 207, 0)
      /\ gdt[6] = Descriptor(65535, 0, 0, 242, 207, 0)
      /\ 4 \in DOMAIN gdt /\ 5 \in DOMAIN gdt /\ 6 \in DOMAIN gdt
  <2>1. gdt[3 + 1] = TssDescriptors(tss)[1] /\ gdt[3 + 2] = TssDescriptors(tss)[2]
        /\ gdt[3 + 3] = TssDescriptors(tss)[3]
    BY DEF TssPart
  <2>2. 3 + 1 = 4 /\ 3 + 2 = 5 /\ 3 + 3 = 6
    OBVIOUS
  <2> QED
    BY <1>2, <2>1, <2>2 DEF TssPart
<1>4. Loads(SELECTOR_U_CODE, Code)
  BY <1>3, Selectors, UserCodeReads DEF Loads
<1>5. Loads(SELECTOR_U_STACK, Stack)
  BY <1>3, Selectors, UserStackReads DEF Loads
<1>6. Loads(SELECTOR_TSS, Task)
  BY <1>1, <1>3, Selectors, TaskReads DEF Loads
<1> QED
  BY <1>4, <1>5, <1>6

(* A gate for an entry of kernel.S leads to it, once the loader's table    *)
(* is there.                                                               *)
LEMMA GateLeads ==
  ASSUME LoaderPart, NEW attr \in Nat, attr >= 128, NEW low, NEW gate,
         gate = make_idt_desc(attr, <<Kernel, low>>)
  PROVE  LeadsTo(gate, <<Kernel, low>>) /\ gate.attribute = attr
<1>1. gate = [func_offset_low_word |-> low, selector |-> SELECTOR_K_CODE, dcount |-> 0,
              attribute |-> attr, func_offset_high_word |-> 0]
  BY DEF make_idt_desc, GateFrom, uint16
<1>2. Physical(Offset(gate)) = <<0, low>> /\ Physical(<<Kernel, low>>) = <<0, low>>
  BY <1>1 DEF Physical, Offset, Kernel
<1>3. Loads(gate.selector, Code) /\ Rpl(gate.selector) = 0
  BY <1>1, LoaderLoads, Selectors
<1> QED
  BY <1>1, <1>2, <1>3 DEF LeadsTo

-----------------------------------------------------------------------------
(* The invariant, by how many steps are done.                              *)
GdtInv ==
  /\ pc = 1 => gdt = <<>>
  /\ pc \in 2 .. 15 => gdt = LoaderGdt
  /\ pc \in 1 .. 15 => tss = <<>>
  /\ pc > 15 => tss \in Half \X Half /\ LoaderPart /\ TssPart

EntriesAt(low) == [v \in 0 .. 47 |-> <<Kernel, low + 25 * v>>]

GateFor(v) == make_idt_desc(IDT_DESC_ATTR(0), entry[v])

IdtInv ==
  /\ \E low \in EntryLow : entry = EntriesAt(low)
  /\ pc \in 1 .. 9 => idt = <<>>
  /\ pc > 9 =>
       /\ \A v \in 0 .. 47 : idt[v] = GateFor(v)
       /\ idt[128] = make_idt_desc(IDT_DESC_ATTR(3), syscall_handler)
       /\ idtr = "idt"
       /\ pic.m = [base |-> 32, mask |-> 254, icw |-> 0, cascade |-> 4]

AddressSpace == 4194304      \* 4 GB, in KB

PoolsInv ==
  /\ size \in KernelSize
  /\ pc > 2 => real \in Nat /\ 2048 <= real /\ real <= AddressSpace /\ total = real % AddressSpace
  /\ pc \in 1 .. 10 => pools = NULL
  /\ pc > 10 => pools = mem_pool_init

ReadyInv ==
  /\ pc > 10 => "mem_init" \in ready
  /\ pc > 11 => "threads_init" \in ready
  /\ pc > 12 => 32 \in DOMAIN handler /\ handler[32] = "intr_timer_handler"

\* TypeOK, but for the disk.
MachineTypes ==
  /\ pc \in 1 .. 19 /\ mode \in {"real", "protected", "paged"}
  /\ open \in BOOLEAN /\ idtr \in {"BIOS", "idt"}
  /\ \A c \in {"m", "s"} : pic[c] \in [base : 0 .. 255, mask : 0 .. 255, icw : 0 .. 4, cascade : 0 .. 255]
  /\ total \in Nat /\ total < AddressSpace
  /\ outcome \in {"runs", "clock", "keyboard", "stopped", "reset", "error_hlt", "garbled",
              "fault", "panic"}

ReadyTypes == ready \subseteq ToSet(init_all)

LinkedTypes == linked \in BOOLEAN

BootInv ==
  /\ MachineTypes /\ ReadyTypes /\ DiskInv
  /\ GdtInv /\ IdtInv /\ PoolsInv /\ ReadyInv
  /\ NothingLost /\ InterruptsServed

-----------------------------------------------------------------------------
(* What follows from it.                                                   *)
LEMMA HasLoaderPart == GdtInv /\ pc \in 1 .. 19 /\ pc > 1 => LoaderPart
<1> SUFFICES ASSUME GdtInv, pc \in 1 .. 19, pc > 1 PROVE LoaderPart
  OBVIOUS
<1>1. CASE pc \in 2 .. 15
  BY <1>1, LoaderGdtIs DEF GdtInv, LoaderPart
<1>2. CASE pc > 15
  BY <1>2 DEF GdtInv
<1> QED
  BY <1>1, <1>2

LEMMA SelectorsRight == BootInv => SelectorsLoad
<1> SUFFICES ASSUME BootInv, gdt # <<>>
             PROVE  /\ Loads(SELECTOR_K_CODE, Code) /\ Loads(SELECTOR_K_STACK, Stack)
                    /\ Loads(SELECTOR_K_GS, Video)
                    /\ tss # <<>> => /\ Loads(SELECTOR_U_CODE, Code) /\ Loads(SELECTOR_U_STACK, Stack)
                                     /\ Loads(SELECTOR_TSS, Task)
  BY DEF SelectorsLoad
<1>1. GdtInv /\ pc \in 1 .. 19
  BY DEF BootInv, MachineTypes
<1>2. LoaderPart
  BY <1>1, HasLoaderPart DEF GdtInv
<1>3. tss # <<>> => TssPart /\ tss \in Half \X Half
  BY <1>1 DEF GdtInv
<1> QED
  BY <1>2, <1>3, LoaderLoads, TssLoads

LEMMA EntryIs ==
  ASSUME IdtInv
  PROVE  DOMAIN entry = 0 .. 47 /\ \A v \in 0 .. 47 : \E low : entry[v] = <<Kernel, low>>
<1>1. PICK low \in EntryLow : entry = EntriesAt(low)
  BY DEF IdtInv
<1> QED
  BY <1>1 DEF EntriesAt

LEMMA Attributes == IDT_DESC_ATTR(0) = 142 /\ IDT_DESC_ATTR(3) = 238
BY Powers DEF IDT_DESC_ATTR

LEMMA GatesLead ==
  ASSUME IdtInv, GdtInv, pc \in 1 .. 19, pc > 9, NEW v \in 0 .. 47
  PROVE  LeadsTo(idt[v], entry[v]) /\ idt[v].attribute = IDT_DESC_ATTR(0)
<1>1. PICK low : entry[v] = <<Kernel, low>>
  BY EntryIs
<1>2. idt[v] = GateFor(v)
  BY DEF IdtInv
<1>3. PICK gate : gate = idt[v]
  OBVIOUS
<1>4. gate = make_idt_desc(142, <<Kernel, low>>)
  BY <1>1, <1>2, <1>3, Attributes DEF GateFor
<1>5. LoaderPart
  BY HasLoaderPart
<1>6. LeadsTo(gate, <<Kernel, low>>) /\ gate.attribute = 142
  BY <1>4, <1>5, GateLeads
<1> QED
  BY <1>1, <1>3, <1>6, Attributes

LEMMA GatesRight == BootInv => GatesReachEntries
<1> SUFFICES ASSUME BootInv, idt # <<>>
             PROVE  /\ \A v \in DOMAIN entry :
                         LeadsTo(idt[v], entry[v]) /\ idt[v].attribute = IDT_DESC_ATTR(0)
                    /\ LeadsTo(idt[128], syscall_handler) /\ idt[128].attribute = IDT_DESC_ATTR(3)
  BY DEF GatesReachEntries
<1>1. GdtInv /\ IdtInv /\ pc \in 1 .. 19 /\ pc > 9
  BY DEF BootInv, MachineTypes, IdtInv
<1>2. LoaderPart
  BY <1>1, HasLoaderPart
<1>3. idt[128] = make_idt_desc(238, <<Kernel, entry[47][2] + 60>>)
      /\ syscall_handler = <<Kernel, entry[47][2] + 60>>
  BY <1>1, Attributes DEF IdtInv, syscall_handler
<1>4. LeadsTo(idt[128], syscall_handler) /\ idt[128].attribute = IDT_DESC_ATTR(3)
  <2>1. PICK low : low = entry[47][2] + 60
    OBVIOUS
  <2>2. PICK gate : gate = idt[128]
    OBVIOUS
  <2>3. gate = make_idt_desc(238, <<Kernel, low>>) /\ syscall_handler = <<Kernel, low>>
    BY <1>3, <2>1, <2>2, Zenon
  <2>4. LeadsTo(gate, <<Kernel, low>>) /\ gate.attribute = 238
    BY <1>2, <2>3, GateLeads, SMT
  <2> QED
    BY <2>2, <2>3, <2>4, Attributes, SMT
<1> QED
  BY <1>1, <1>4, EntryIs, GatesLead

LEMMA TypesRight == BootInv /\ LinkedTypes => TypeOK
<1> SUFFICES ASSUME BootInv, LinkedTypes PROVE TypeOK
  OBVIOUS
<1>1. total \in 0 .. 2 ^ 22 - 1
  <2>1. total \in Nat /\ total < AddressSpace
    BY DEF BootInv, MachineTypes
  <2>2. 2 ^ 22 = AddressSpace
    BY Powers, SMT DEF AddressSpace
  <2>3. PICK top \in Nat : top = AddressSpace
    BY SMT DEF AddressSpace
  <2> QED
    BY <2>1, <2>2, <2>3, SMT
<1>2. pc \in DOMAIN Program /\ DiskTypeOK /\ ready \subseteq ToSet(init_all)
  BY ProgramText DEF BootInv, MachineTypes, ReadyTypes, DiskInv, DiskTypes
<1> QED
  BY <1>1, <1>2 DEF BootInv, MachineTypes, LinkedTypes, TypeOK

(* The arithmetic of mem_pool_init.                                        *)
LEMMA FreePages ==
  ASSUME total \in Int
  PROVE  all_free_pages \in Nat /\ all_free_pages < 65536
<1>1. PICK x \in Int : x = (total - 4 * UsedPages) \div 4
  BY SMT DEF UsedPages
<1>2. all_free_pages = x % 65536
  BY <1>1, Powers, SMT DEF all_free_pages
<1> QED
  BY <1>2, SMT

LEMMA Quotient ==
  ASSUME NEW n \in Nat, NEW c \in Nat \ {0}
  PROVE  \E q \in Nat : q = n \div c
BY DivMod

\* Pages of the kernel's pool and of the user's, and bytes of their bitmaps.
PoolSizes(k, u, k8, u8) ==
  /\ k + u = all_free_pages /\ k <= 32767 /\ u <= 32768
  /\ 8 * k8 <= k /\ k <= 8 * k8 + 7 /\ 8 * u8 <= u /\ u <= 8 * u8 + 7
  /\ mem_pool_init = [kp_start |-> 512, kernel |-> 8 * k8, up_start |-> 512 + k,
                      user |-> 8 * u8, bytes |-> 2 * k8 + u8]

LEMMA PoolsAre ==
  ASSUME total \in Int
  PROVE  \E k, u, k8, u8 \in Nat : PoolSizes(k, u, k8, u8)
<1>1. PICK f \in Nat : f = all_free_pages /\ f < 65536
  BY FreePages, SMT
<1>2. PICK k \in Nat : k = f \div 2
  BY Quotient, SMT
<1>3. k <= 32767 /\ f - k <= 32768 /\ f - k \in Nat
  BY <1>1, <1>2, SMT
<1>4. PICK u \in Nat : u = f - k
  BY <1>3, SMT
<1>5. PICK k8 \in Nat : k8 = k \div 8
  BY Quotient, SMT
<1>6. PICK u8 \in Nat : u8 = u \div 8
  BY Quotient, SMT
<1>7. 8 * k8 <= k /\ k <= 8 * k8 + 7 /\ 8 * u8 <= u /\ u <= 8 * u8 + 7
  BY <1>5, <1>6, SMT
<1>8. all_free_pages \div 2 = k /\ all_free_pages - k = u /\ UsedPages = 512 /\ 1 * k = k
  BY <1>1, <1>2, <1>4, SMT DEF UsedPages
<1>9. mem_pool_init = [kp_start |-> 512, kernel |-> 8 * k8, up_start |-> 512 + k,
                       user |-> 8 * u8, bytes |-> 2 * k8 + u8]
  BY <1>5, <1>6, <1>8, SMT DEF mem_pool_init, PoolsFrom
<1>10. k + u = all_free_pages
  BY <1>1, <1>3, <1>4, SMT
<1>11. u <= 32768
  BY <1>3, <1>4, SMT
<1>12. PoolSizes(k, u, k8, u8)
  BY <1>3, <1>7, <1>9, <1>10, <1>11 DEF PoolSizes
<1> QED
  BY <1>12

LEMMA BitmapBytes ==
  ASSUME total \in Int
  PROVE  mem_pool_init.bytes \in Nat /\ mem_pool_init.bytes <= 12288
<1>1. PICK k, u, k8, u8 \in Nat : PoolSizes(k, u, k8, u8)
  BY PoolsAre
<1>2. mem_pool_init.bytes = 2 * k8 + u8
  BY <1>1 DEF PoolSizes
<1>3. k <= 32767 /\ u <= 32768 /\ 8 * k8 <= k /\ 8 * u8 <= u
  BY <1>1, SMT DEF PoolSizes
<1> QED
  BY <1>2, <1>3, SMT

LEMMA PoolsFit == BootInv => PoolsSound
<1> SUFFICES ASSUME BootInv, pools # NULL PROVE PoolsSound
  BY DEF PoolsSound
<1>1. pc \in 1 .. 19 /\ total \in Nat
  BY DEF BootInv, MachineTypes
<1>2. /\ pools = mem_pool_init /\ real \in Nat /\ 2048 <= real /\ real <= AddressSpace
      /\ total = real % AddressSpace
  BY <1>1 DEF BootInv, PoolsInv
<1>3. PICK k, u, k8, u8 \in Nat : PoolSizes(k, u, k8, u8)
  BY <1>1, PoolsAre
<1>3a. k + u = all_free_pages /\ k <= 8 * k8 + 7 /\ 8 * k8 <= k /\ u <= 8 * u8 + 7 /\ 8 * u8 <= u
  BY <1>3, SMT DEF PoolSizes
<1>4. /\ pools.kp_start = 512 /\ pools.kernel = 8 * k8 /\ pools.up_start = 512 + k
      /\ pools.user = 8 * u8
  BY <1>2, <1>3 DEF PoolSizes
<1>5. PICK f \in Nat : f = all_free_pages /\ f < 65536
  BY <1>1, FreePages, SMT
<1>6. 4 * (512 + f) <= real /\ (real < 264192 => 4 * f + 3 >= real - 2048)
  <2>1. CASE real = AddressSpace
    <3>1. total = 0
      BY <1>2, <2>1, SMT DEF AddressSpace
    <3>2. f = 65024
      BY <1>5, <3>1, Powers, SMT DEF all_free_pages, UsedPages
    <3> QED
      BY <2>1, <3>2, SMT DEF AddressSpace
  <2>2. CASE real # AddressSpace
    <3>1. total = real
      BY <1>2, <2>2, SMT DEF AddressSpace
    <3>2. PICK n \in Nat : n = real - 2048
      BY <1>2, SMT
    <3>3. PICK q \in Nat : q = n \div 4
      BY Quotient, SMT
    <3>4. f = q % 65536
      BY <1>5, <3>1, <3>2, <3>3, Powers, SMT DEF all_free_pages, UsedPages
    <3>5. f <= q /\ (q < 65536 => f = q)
      BY <3>4, SMT
    <3>6. 4 * q <= n /\ n <= 4 * q + 3
      BY <3>3, SMT
    <3> QED
      BY <1>2, <3>2, <3>5, <3>6, SMT
  <2> QED
    BY <2>1, <2>2
<1>7. 4 * (UsedPages + 2 ^ 16) = 264192 /\ UsedPages = 512
  BY Powers, SMT DEF UsedPages
<1>8. 4 * (512 + k + 8 * u8) <= real
  BY <1>2, <1>3a, <1>5, <1>6, SMT
<1>9. real < 264192 => 4 * (8 * k8 + 8 * u8 + 14) + 3 >= real - 4 * 512
  BY <1>2, <1>3a, <1>5, <1>6, SMT
<1>10. 512 + 8 * k8 <= 512 + k
  BY <1>3a, SMT
<1> QED
  BY <1>4, <1>7, <1>8, <1>9, <1>10, SMT DEF PoolsSound

-----------------------------------------------------------------------------
(* Where a step can be.                                                    *)
LEMMA Places ==
  ASSUME NEW i \in 1 .. 19
  PROVE  /\ Program[i] = "rd_disk_m_16" => i = 1
         /\ Program[i] = "int15" => i = 2
         /\ Program[i] = "p_mode_start" => i = 3
         /\ Program[i] = "rd_disk_m_32" => i = 4
         /\ Program[i] = "setup_page" => i = 5
         /\ Program[i] = "paging" => i = 6
         /\ Program[i] = "kernel_init" => i = 7
         /\ Program[i] = "main" => i = 8
         /\ Program[i] = "idt_init" => i = 9
         /\ Program[i] = "mem_init" => i = 10
         /\ Program[i] = "threads_init" => i = 11
         /\ Program[i] = "timer_init" => i = 12
         /\ Program[i] = "console_init" => i = 13
         /\ Program[i] = "keyboard_init" => i = 14
         /\ Program[i] = "tss_init" => i = 15
         /\ Program[i] = "thread_start" => i \in {16, 17}
         /\ Program[i] = "intr_enable" => i = 18
<1>1. i \in {1, 2, 3, 4, 5, 6, 7, 8, 9, 10, 11, 12, 13, 14, 15, 16, 17, 18, 19}
  OBVIOUS
<1> QED
  BY <1>1, ProgramText

LEMMA Names ==
  {"idt_init", "mem_init", "threads_init", "timer_init", "console_init", "keyboard_init",
   "tss_init"} \subseteq ToSet(init_all)
<1>1. DOMAIN init_all = 1 .. 7
  BY DEF init_all
<1>2. /\ init_all[1] = "idt_init" /\ init_all[2] = "mem_init" /\ init_all[3] = "threads_init"
      /\ init_all[4] = "timer_init" /\ init_all[5] = "console_init"
      /\ init_all[6] = "keyboard_init" /\ init_all[7] = "tss_init"
  BY DEF init_all
<1>3. 1 \in 1 .. 7 /\ 2 \in 1 .. 7 /\ 3 \in 1 .. 7 /\ 4 \in 1 .. 7 /\ 5 \in 1 .. 7 /\ 6 \in 1 .. 7
      /\ 7 \in 1 .. 7
  OBVIOUS
<1> QED
  BY <1>1, <1>2, <1>3 DEF ToSet

(* What a step leaves of the invariant that does not touch its state.      *)
LEMMA GdtKeeps ==
  ASSUME GdtInv, pc \in 1 .. 19, pc' \in {pc, pc + 1}, gdt' = gdt, tss' = tss,
         pc' = pc \/ pc \notin {1, 15}
  PROVE  GdtInv'
<1>1. LoaderPart' = LoaderPart /\ TssPart' = TssPart
  BY DEF LoaderPart, TssPart
<1>2. CASE pc = 1
  BY <1>2 DEF GdtInv
<1>3. CASE pc \in 2 .. 15
  <2>1. pc' \in 2 .. 15
    BY <1>3
  <2> QED
    BY <1>3, <2>1 DEF GdtInv
<1>4. CASE pc > 15
  <2>1. pc' > 15
    BY <1>4
  <2> QED
    BY <1>1, <1>4, <2>1 DEF GdtInv
<1> QED
  BY <1>2, <1>3, <1>4

LEMMA IdtKeeps ==
  ASSUME IdtInv, pc \in 1 .. 19, pc' \in {pc, pc + 1}, idt' = idt, entry' = entry,
         idtr' = idtr, pic' = pic, pc' = pc \/ pc # 9
  PROVE  IdtInv'
<1>1. syscall_handler' = syscall_handler /\ \A v \in 0 .. 47 : GateFor(v)' = GateFor(v)
  BY DEF syscall_handler, GateFor
<1>2. (pc' > 9 => pc > 9) /\ (pc' \in 1 .. 9 => pc \in 1 .. 9)
  OBVIOUS
<1> QED
  BY <1>1, <1>2 DEF IdtInv

LEMMA PoolsKeeps ==
  ASSUME PoolsInv, pc \in 1 .. 19, pc' \in {pc, pc + 1}, size' = size, total' = total,
         real' = real, pools' = pools, pc' = pc \/ pc \notin {2, 10}
  PROVE  PoolsInv'
<1>1. mem_pool_init' = mem_pool_init
  BY DEF mem_pool_init, PoolsFrom, all_free_pages
<1>2. (pc' > 2 => pc > 2) /\ (pc' \in 1 .. 10 => pc \in 1 .. 10) /\ (pc' > 10 => pc > 10)
  OBVIOUS
<1> QED
  BY <1>1, <1>2 DEF PoolsInv

LEMMA ReadyStays ==
  ASSUME ReadyInv, pc \in 1 .. 19, pc' \in {pc, pc + 1}, ready \subseteq ready',
         handler' = handler, pc' = pc \/ pc \notin {10, 11, 12}
  PROVE  ReadyInv'
<1>1. (pc' > 10 => pc > 10) /\ (pc' > 11 => pc > 11) /\ (pc' > 12 => pc > 12)
  OBVIOUS
<1> QED
  BY <1>1 DEF ReadyInv

Outcomes == {"runs", "clock", "keyboard", "stopped", "reset", "error_hlt", "garbled",
              "fault", "panic"}

LEMMA TypesKeep ==
  ASSUME MachineTypes, pc' \in 1 .. 19, mode' \in {"real", "protected", "paged"},
         open' \in BOOLEAN, idtr' \in {"BIOS", "idt"}, pic' = pic, total' = total,
         outcome' \in Outcomes
  PROVE  MachineTypes'
BY DEF MachineTypes, Outcomes

LEMMA ServedKeeps == outcome' \notin {"reset", "stopped"} => InterruptsServed'
BY DEF InterruptsServed

(* A step that is not one of those done.                                   *)
LEMMA StayKeeps ==
  ASSUME BootInv, UNCHANGED <<pc, machine, ready, memory, lost, descriptors>>, DiskInv',
         outcome' \in Outcomes, InterruptsServed'
  PROVE  BootInv'
<1>1. /\ pc' = pc /\ mode' = mode /\ open' = open /\ idtr' = idtr /\ pic' = pic
      /\ handler' = handler /\ ready' = ready /\ total' = total /\ real' = real /\ size' = size
      /\ pools' = pools /\ lost' = lost /\ gdt' = gdt /\ tss' = tss /\ idt' = idt /\ entry' = entry
  BY DEF machine, memory, descriptors
<1>2. /\ MachineTypes /\ pc \in 1 .. 19 /\ ReadyTypes /\ GdtInv /\ IdtInv /\ PoolsInv /\ ReadyInv
      /\ NothingLost
  BY DEF BootInv, MachineTypes
<1>3. MachineTypes'
  BY <1>1, <1>2, TypesKeep DEF MachineTypes
<1>4. GdtInv' /\ IdtInv' /\ PoolsInv' /\ ReadyInv'
  BY <1>1, <1>2, GdtKeeps, IdtKeeps, PoolsKeeps, ReadyStays
<1>5. NothingLost' /\ ReadyTypes'
  BY <1>1, <1>2 DEF NothingLost, ReadyTypes
<1> QED
  BY <1>3, <1>4, <1>5 DEF BootInv

(* One that is done, of those that change neither tables nor sizes.        *)
LEMMA StepKeeps ==
  ASSUME BootInv, NEW step, Step(step), pc \in 1 .. 18, pc \notin {1, 2, 9, 10, 11, 12, 15},
         mode' \in {"real", "protected", "paged"}, open' \in BOOLEAN,
         UNCHANGED <<idtr, pic, handler, total, pools>>, lost' = {}
  PROVE  BootInv'
<1>1. /\ pc' = pc + 1 /\ ready' = ready /\ real' = real /\ size' = size
      /\ outcome' = "runs" /\ UNCHANGED disk
      /\ gdt' = gdt /\ tss' = tss /\ idt' = idt /\ entry' = entry
  BY DEF Step, Running, Goes, descriptors
<1>2. /\ MachineTypes /\ ReadyTypes /\ GdtInv /\ IdtInv /\ PoolsInv /\ ReadyInv /\ DiskInv
  BY DEF BootInv
<1>3. MachineTypes'
  <2>1. pc' \in 1 .. 19 /\ idtr' \in {"BIOS", "idt"} /\ outcome' \in Outcomes
    BY <1>1, <1>2 DEF MachineTypes, Outcomes
  <2> QED
    BY <1>1, <1>2, <2>1, TypesKeep
<1>4. GdtInv' /\ IdtInv' /\ PoolsInv' /\ ReadyInv'
  BY <1>1, <1>2, GdtKeeps, IdtKeeps, PoolsKeeps, ReadyStays
<1>5. NothingLost' /\ ReadyTypes' /\ InterruptsServed'
  BY <1>1, <1>2, ServedKeeps DEF NothingLost, ReadyTypes
<1> QED
  BY <1>1, <1>2, <1>3, <1>4, <1>5, DiskStays DEF BootInv

-----------------------------------------------------------------------------
(* Memory that is needed, at its addresses.                                *)
Bytes == IF pools = NULL THEN 0 ELSE pools.bytes

NeededOf(kernel, bitmaps) ==
  {Region("BIOS_data", 0, 2, 0, 1279),
   Region("MBR", 0, 1, 31744, 32255),
   Region("loader", 1, 8, 3072, 4351),
   Region("GDT", 1, 19, 2304, 2335),
   Region("total_mem_bytes", 2, 10, 2816, 2819),
   Region("kernel.bin", 4, 7, 458752, 458752 + kernel - 1),
   Region("page_tables", 5, 19, 1048576, 1053695),
   Region("kernel", 7, 19, 5376, 5376 + kernel - 1),
   Region("bitmaps", 10, 19, 630784, 630784 + bitmaps - 1),
   Region("PCB_of_main", 11, 19, 647168, 647235)}

LEMMA NeededIs == Needed = NeededOf(size, Bytes)
<1> DEFINE n1 == Region("BIOS_data", 0, First("int15"), 0, 1279)
           n2 == Region("MBR", 0, First("rd_disk_m_16"), 31744, 32255)
           n3 == Region("loader", First("rd_disk_m_16"), First("main"),
                       LOADER_BASE_ADDR + 768, LOADER_BASE_ADDR + 4 * 512 - 1)
           n4 == Region("GDT", First("rd_disk_m_16"), Len(Program),
                       LOADER_BASE_ADDR, LOADER_BASE_ADDR + 31)
           n5 == Region("total_mem_bytes", First("int15"), First("mem_init"),
                       LOADER_BASE_ADDR + 512, LOADER_BASE_ADDR + 515)
           n6 == Region("kernel.bin", First("rd_disk_m_32"), First("kernel_init"),
                       KERNEL_BIN_BASE_ADDR, KERNEL_BIN_BASE_ADDR + size - 1)
           n7 == Region("page_tables", First("setup_page"), Len(Program),
                       PAGE_DIR_TABLE_POS, PAGE_DIR_TABLE_POS + 4096 + 1024 - 1)
           n8 == Region("kernel", First("kernel_init"), Len(Program),
                       KernelEntry, KernelEntry + size - 1)
           n9 == Region("bitmaps", First("mem_init"), Len(Program), MemBitmapBase,
                       MemBitmapBase + (IF pools = NULL THEN 0 ELSE pools.bytes) - 1)
           n10 == Region("PCB_of_main", First("threads_init"), Len(Program), MainPcb, MainPcb + 67)
           m1 == Region("BIOS_data", 0, 2, 0, 1279)
           m2 == Region("MBR", 0, 1, 31744, 32255)
           m3 == Region("loader", 1, 8, 3072, 4351)
           m4 == Region("GDT", 1, 19, 2304, 2335)
           m5 == Region("total_mem_bytes", 2, 10, 2816, 2819)
           m6 == Region("kernel.bin", 4, 7, 458752, 458752 + size - 1)
           m7 == Region("page_tables", 5, 19, 1048576, 1053695)
           m8 == Region("kernel", 7, 19, 5376, 5376 + size - 1)
           m9 == Region("bitmaps", 10, 19, 630784, 630784 + Bytes - 1)
           m10 == Region("PCB_of_main", 11, 19, 647168, 647235)
<1>1. n1 = m1
  BY Where, ProgramText, SMT DEF Region
<1>2. n2 = m2
  BY Where, ProgramText, SMT DEF Region
<1>3. n3 = m3
  BY Where, ProgramText, SMT DEF Region, LOADER_BASE_ADDR
<1>4. n4 = m4
  BY Where, ProgramText, SMT DEF Region, LOADER_BASE_ADDR
<1>5. n5 = m5
  BY Where, ProgramText, SMT DEF Region, LOADER_BASE_ADDR
<1>6. n6 = m6
  BY Where, ProgramText, SMT DEF Region, KERNEL_BIN_BASE_ADDR
<1>7. n7 = m7
  BY Where, ProgramText, SMT DEF Region, PAGE_DIR_TABLE_POS
<1>8. n8 = m8
  BY Where, ProgramText, SMT DEF Region, KernelEntry
<1>9. n9 = m9
  BY Where, ProgramText, SMT DEF Region, MemBitmapBase, Bytes
<1>10. n10 = m10
  BY Where, ProgramText, SMT DEF Region, MainPcb
<1>11. Needed = {n1, n2, n3, n4, n5, n6, n7, n8, n9, n10}
  BY SMT DEF Needed
<1>12. NeededOf(size, Bytes) = {m1, m2, m3, m4, m5, m6, m7, m8, m9, m10}
  BY SMT DEF NeededOf
<1> HIDE DEF n1, n2, n3, n4, n5, n6, n7, n8, n9, n10,
            m1, m2, m3, m4, m5, m6, m7, m8, m9, m10
<1> QED
  BY <1>1, <1>2, <1>3, <1>4, <1>5, <1>6, <1>7, <1>8, <1>9, <1>10, <1>11, <1>12

\* What can be in use.
LEMMA Sizes ==
  ASSUME BootInv
  PROVE  size \in Nat /\ 1 <= size /\ size <= 102400 /\ Bytes \in Nat /\ Bytes <= 12288
<1>1. size \in Nat /\ 1 <= size /\ size <= 102400
  <2>1. size \in KernelSize
    BY DEF BootInv, PoolsInv
  <2> QED
    BY <2>1, SizeAssumption, SMT DEF SizeAssumption
<1>2. pools = NULL \/ pools = mem_pool_init
  BY DEF BootInv, PoolsInv, MachineTypes
<1>3. mem_pool_init.bytes \in Nat /\ mem_pool_init.bytes <= 12288
  BY BitmapBytes, SMT DEF BootInv, MachineTypes
<1> QED
  BY <1>1, <1>2, <1>3, SMT DEF Bytes

\* A write is not among what is needed when it comes.
Apart(step, kernel, bitmaps, first, last) ==
  \A n \in NeededOf(kernel, bitmaps) :
    ~ (n.from < step /\ step <= n.until /\ n.first <= last /\ first <= n.last)

LEMMA WritesKeep ==
  ASSUME BootInv, NEW first, NEW last, Writes(first, last), Apart(pc, size, Bytes, first, last)
  PROVE  lost' = {}
<1>1. lost = {}
  BY DEF BootInv, NothingLost
<1>2. \A n \in Needed : ~ (n.from < pc /\ pc <= n.until /\ n.first <= last /\ first <= n.last)
  BY NeededIs DEF Apart
<1> QED
  BY <1>1, <1>2 DEF Writes

-----------------------------------------------------------------------------
(* The steps.                                                              *)
LEMMA CallDiskKeeps == BootInv /\ CallDisk => BootInv'
<1> SUFFICES ASSUME BootInv, CallDisk PROVE BootInv'
  OBVIOUS
<1>1. PICK read \in LoaderRead \union KernelRead : rd_disk(read[1], read[2])
  BY DEF CallDisk
<1>2. PICK lba, n : lba = read[1] /\ n = read[2]
  OBVIOUS
<1>3. [lba |-> lba, n |-> n] \in Call /\ rd_disk(lba, n)
  <2>1. \A r \in LoaderRead \union KernelRead : [lba |-> r[1], n |-> r[2]] \in Call
    BY BootAssumption DEF BootAssumption
  <2>2. [lba |-> read[1], n |-> read[2]] \in Call
    BY <2>1
  <2> QED
    BY <1>1, <1>2, <2>2
<1>4. DiskInv'
  BY <1>3, rd_diskKeeps DEF BootInv
<1>5. UNCHANGED <<pc, machine, ready, memory, lost, outcome, descriptors>> /\ outcome = "runs"
  BY DEF CallDisk, Running
<1>6. outcome' \in Outcomes /\ outcome' \notin {"reset", "stopped"}
  BY <1>5 DEF Outcomes
<1> QED
  BY <1>4, <1>5, <1>6, ServedKeeps, StayKeeps

LEMMA DiskStepKeeps == BootInv /\ DiskStep => BootInv'
<1> SUFFICES ASSUME BootInv, DiskStep PROVE BootInv'
  OBVIOUS
<1>1. DiskInv'
  BY ReadingKeeps DEF BootInv, DiskStep
<1>2. UNCHANGED <<pc, machine, ready, memory, lost, outcome, descriptors>> /\ outcome = "runs"
  BY DEF DiskStep
<1>3. outcome' \in Outcomes /\ outcome' \notin {"reset", "stopped"}
  BY <1>2 DEF Outcomes
<1> QED
  BY <1>1, <1>2, <1>3, ServedKeeps, StayKeeps

LEMMA error_hltKeeps == BootInv /\ error_hlt => BootInv'
<1> SUFFICES ASSUME BootInv, error_hlt PROVE BootInv'
  OBVIOUS
<1>1. UNCHANGED <<pc, machine, ready, memory, lost, descriptors, disk>> /\ outcome' = "error_hlt"
  BY DEF error_hlt
<1>2. DiskInv'
  BY <1>1, DiskStays DEF BootInv
<1>3. outcome' \in Outcomes /\ outcome' \notin {"reset", "stopped"}
  BY <1>1 DEF Outcomes
<1> QED
  BY <1>1, <1>2, <1>3, ServedKeeps, StayKeeps

LEMMA thread_start_failsKeeps == BootInv /\ thread_start_fails => BootInv'
<1> SUFFICES ASSUME BootInv, thread_start_fails PROVE BootInv'
  OBVIOUS
<1>1. UNCHANGED <<pc, machine, ready, memory, lost, descriptors, disk>> /\ outcome' \in {"fault", "panic"}
  BY DEF thread_start_fails
<1>2. DiskInv'
  BY <1>1, DiskStays DEF BootInv
<1>3. outcome' \in Outcomes /\ outcome' \notin {"reset", "stopped"}
  BY <1>1 DEF Outcomes
<1> QED
  BY <1>1, <1>2, <1>3, ServedKeeps, StayKeeps

LEMMA ServedReturns == BootInv /\ Served => BootInv'
<1> SUFFICES ASSUME BootInv, Served PROVE BootInv'
  OBVIOUS
<1>1. UNCHANGED <<pc, machine, ready, memory, lost, descriptors, disk>> /\ outcome' = "runs"
  BY DEF Served
<1>2. DiskInv'
  BY <1>1, DiskStays DEF BootInv
<1>3. outcome' \in Outcomes /\ outcome' \notin {"reset", "stopped"}
  BY <1>1 DEF Outcomes
<1> QED
  BY <1>1, <1>2, <1>3, ServedKeeps, StayKeeps

(* In main's loop only the clock's line is open, and its gate, its handler *)
(* and the threads it needs are there; before, nothing opens interrupts.   *)
LEMMA InterruptKeeps ==
  ASSUME BootInv, NEW i \in 0 .. 1, Interrupt(i)
  PROVE  BootInv'
<1>1. UNCHANGED <<pc, machine, ready, memory, lost, descriptors, disk>> /\ open /\ i \in Lines
      /\ outcome' = (IF idtr = "BIOS" THEN "reset" ELSE Serves(pic.m.base + i))
  BY DEF Interrupt
<1>2. DiskInv'
  BY <1>1, DiskStays DEF BootInv
<1>3. pc \in 1 .. 19 /\ pc' = pc /\ open' = open
  BY <1>1 DEF BootInv, MachineTypes, machine
<1>4. outcome' \in Outcomes
  BY <1>1 DEF Serves, Outcomes
<1>5. ASSUME pc > 18 PROVE outcome' = "clock"
  <2>1. IdtInv /\ GdtInv /\ ReadyInv
    BY DEF BootInv
  <2>2. idtr = "idt" /\ pic.m = [base |-> 32, mask |-> 254, icw |-> 0, cascade |-> 4]
    BY <1>3, <1>5, <2>1 DEF IdtInv
  <2>3. i = 0
    <3>1. (254 \div 2 ^ i) % 2 = 0
      BY <1>1, <2>2 DEF Lines
    <3>2. i = 0 \/ i = 1
      OBVIOUS
    <3>3. (254 \div 1) % 2 = 0 /\ (254 \div 2) % 2 = 1
      OBVIOUS
    <3>4. ASSUME i = 1 PROVE FALSE
      <4>1. 2 ^ i = 2
        BY <3>4, Powers
      <4> QED
        BY <3>1, <3>3, <4>1
    <3> QED
      BY <3>2, <3>4
  <2>4. pic.m.base + i = 32
    BY <2>2, <2>3
  <2>5. LeadsTo(idt[32], entry[32])
    BY <1>3, <1>5, <2>1, GatesLead
  <2>6. handler[32] = "intr_timer_handler" /\ {"mem_init", "threads_init"} \subseteq ready
        /\ pc > First("thread_start") + 1
    BY <1>3, <1>5, <2>1, Where DEF ReadyInv
  <2>7. Serves(32) = "clock"
    BY <2>5, <2>6 DEF Serves
  <2> QED
    BY <1>1, <2>2, <2>4, <2>7
<1>6. InterruptsServed'
  BY <1>1, <1>3, <1>5, Where DEF InterruptsServed
<1> QED
  BY <1>1, <1>2, <1>4, <1>6, StayKeeps

-----------------------------------------------------------------------------
LEMMA HasReadKeeps ==
  ASSUME BootInv, NEW step, HasRead(step)
  PROVE  /\ pc' = pc + 1 /\ DiskInv' /\ outcome' \in {"runs", "garbled"}
         /\ mode' = mode /\ open' = open /\ idtr' = idtr /\ pic' = pic /\ handler' = handler
         /\ ready' = ready /\ total' = total /\ real' = real /\ size' = size /\ pools' = pools
<1>1. DiskInv'
  BY ReturnKeeps DEF BootInv, HasRead
<1> QED
  BY <1>1 DEF HasRead, Goes, Running, machine, memory

LEMMA ReadLoaderKeeps == BootInv /\ ReadLoader => BootInv'
<1> SUFFICES ASSUME BootInv, ReadLoader PROVE BootInv'
  OBVIOUS
<1>1. /\ HasRead("rd_disk_m_16") /\ load_gdt
      /\ Writes(LOADER_BASE_ADDR, LOADER_BASE_ADDR + 4 * 512 - 1)
  BY DEF ReadLoader
<1>2. /\ pc' = pc + 1 /\ DiskInv' /\ outcome' \in {"runs", "garbled"}
      /\ mode' = mode /\ open' = open /\ idtr' = idtr /\ pic' = pic /\ handler' = handler
      /\ ready' = ready /\ total' = total /\ real' = real /\ size' = size /\ pools' = pools
  BY <1>1, HasReadKeeps
<1>3. /\ MachineTypes /\ pc \in 1 .. 19 /\ ReadyTypes /\ GdtInv /\ IdtInv /\ PoolsInv /\ ReadyInv
  BY DEF BootInv, MachineTypes
<1>4. pc = 1
  BY <1>1, <1>3, Places DEF HasRead, Running, Here
<1>5. MachineTypes'
  <2>1. pc' \in 1 .. 19 /\ outcome' \in Outcomes
    BY <1>2, <1>3, <1>4 DEF Outcomes
  <2> QED
    BY <1>2, <1>3, <2>1, TypesKeep DEF MachineTypes
<1>6. GdtInv'
  BY <1>1, <1>2, <1>3, <1>4 DEF GdtInv, load_gdt
<1>7. IdtInv' /\ PoolsInv' /\ ReadyInv'
  BY <1>1, <1>2, <1>3, <1>4, IdtKeeps, PoolsKeeps, ReadyStays DEF load_gdt
<1>8. NothingLost'
  <2>1. Apart(pc, size, Bytes, LOADER_BASE_ADDR, LOADER_BASE_ADDR + 4 * 512 - 1)
    BY <1>4, Sizes, SMT DEF Apart, NeededOf, Region, LOADER_BASE_ADDR
  <2> QED
    BY <1>1, <2>1, WritesKeep DEF NothingLost
<1>9. ReadyTypes' /\ InterruptsServed'
  BY <1>2, <1>3, ServedKeeps DEF ReadyTypes
<1> QED
  BY <1>2, <1>5, <1>6, <1>7, <1>8, <1>9 DEF BootInv

LEMMA ReadKernelKeeps == BootInv /\ ReadKernel => BootInv'
<1> SUFFICES ASSUME BootInv, ReadKernel PROVE BootInv'
  OBVIOUS
<1>1. /\ HasRead("rd_disk_m_32") /\ UNCHANGED descriptors
      /\ Writes(KERNEL_BIN_BASE_ADDR, KERNEL_BIN_BASE_ADDR + 200 * 512 - 1)
  BY DEF ReadKernel
<1>2. /\ pc' = pc + 1 /\ DiskInv' /\ outcome' \in {"runs", "garbled"}
      /\ mode' = mode /\ open' = open /\ idtr' = idtr /\ pic' = pic /\ handler' = handler
      /\ ready' = ready /\ total' = total /\ real' = real /\ size' = size /\ pools' = pools
      /\ gdt' = gdt /\ tss' = tss /\ idt' = idt /\ entry' = entry
  BY <1>1, HasReadKeeps DEF descriptors
<1>3. /\ MachineTypes /\ pc \in 1 .. 19 /\ ReadyTypes /\ GdtInv /\ IdtInv /\ PoolsInv /\ ReadyInv
  BY DEF BootInv, MachineTypes
<1>4. pc = 4
  BY <1>1, <1>3, Places DEF HasRead, Running, Here
<1>5. MachineTypes'
  <2>1. pc' \in 1 .. 19 /\ outcome' \in Outcomes
    BY <1>2, <1>3, <1>4 DEF Outcomes
  <2> QED
    BY <1>2, <1>3, <2>1, TypesKeep DEF MachineTypes
<1>6. GdtInv' /\ IdtInv' /\ PoolsInv' /\ ReadyInv'
  BY <1>2, <1>3, <1>4, GdtKeeps, IdtKeeps, PoolsKeeps, ReadyStays
<1>7. NothingLost'
  <2>1. Apart(pc, size, Bytes, KERNEL_BIN_BASE_ADDR, KERNEL_BIN_BASE_ADDR + 200 * 512 - 1)
    BY <1>4, Sizes, SMT DEF Apart, NeededOf, Region, KERNEL_BIN_BASE_ADDR
  <2> QED
    BY <1>1, <2>1, WritesKeep DEF NothingLost
<1>8. ReadyTypes' /\ InterruptsServed'
  BY <1>2, <1>3, ServedKeeps DEF ReadyTypes
<1> QED
  BY <1>2, <1>5, <1>6, <1>7, <1>8 DEF BootInv

-----------------------------------------------------------------------------
(* What the BIOS answers, in 32 bits.                                      *)
LEMMA GetMemoryKeeps == BootInv /\ GetMemory => BootInv'
<1> SUFFICES ASSUME BootInv, GetMemory PROVE BootInv'
  OBVIOUS
<1>1. /\ pc' = pc + 1 /\ outcome' = "runs" /\ Running("int15")
      /\ mode' = mode /\ open' = open /\ idtr' = idtr /\ pic' = pic /\ handler' = handler
      /\ ready' = ready /\ size' = size /\ pools' = pools
      /\ gdt' = gdt /\ tss' = tss /\ idt' = idt /\ entry' = entry /\ UNCHANGED disk
      /\ Writes(LOADER_BASE_ADDR + 512, LOADER_BASE_ADDR + 515)
  BY DEF GetMemory, Goes, Running, machine, descriptors
<1>2. /\ MachineTypes /\ pc \in 1 .. 19 /\ ReadyTypes /\ GdtInv /\ IdtInv /\ PoolsInv /\ ReadyInv
      /\ DiskInv
  BY DEF BootInv, MachineTypes
<1>3. pc = 2
  BY <1>1, <1>2, Places DEF Running, Here
<1>4. /\ real' \in Nat /\ 2048 <= real' /\ real' <= AddressSpace
      /\ total' = real' % AddressSpace
  <2>1. 2 ^ 22 = AddressSpace
    BY Powers, SMT DEF AddressSpace
  <2>2. CASE \E m \in E801 \ {NULL} : /\ total' = MemorySize(m[1], m[2])
                                      /\ real' = m[1] + m[2] * 64 + 1024
    <3>1. PICK m \in E801 \ {NULL} : /\ total' = MemorySize(m[1], m[2])
                                     /\ real' = m[1] + m[2] * 64 + 1024
      BY <2>2
    <3>2. PICK a, b : a = m[1] /\ b = m[2]
      OBVIOUS
    <3>3. a \in Nat /\ b \in Nat /\ 1024 <= a /\ a <= 15360 /\ b <= 65280
      BY <3>2, SizeAssumption, SMT DEF SizeAssumption
    <3>4. real' = a + b * 64 + 1024 /\ total' = real' % 2 ^ 22
      BY <3>1, <3>2 DEF MemorySize, Bits32
    <3> QED
      BY <2>1, <3>3, <3>4, SMT DEF AddressSpace
  <2>3. CASE \E kb \in Ext88 \ {NULL} : total' = MemorySize(kb, 0) /\ real' = kb + 1024
    <3>1. PICK kb \in Ext88 \ {NULL} : total' = MemorySize(kb, 0) /\ real' = kb + 1024
      BY <2>3
    <3>2. kb \in Nat /\ 1024 <= kb /\ kb <= 65535
      BY SizeAssumption, SMT DEF SizeAssumption
    <3>3. kb + 0 * 64 + 1024 = real'
      BY <3>1, <3>2, SMT
    <3>4. total' = real' % 2 ^ 22
      BY <3>1, <3>3 DEF MemorySize, Bits32
    <3> QED
      BY <2>1, <3>1, <3>2, <3>4, SMT DEF AddressSpace
  <2> QED
    BY <2>2, <2>3 DEF GetMemory
<1>5. MachineTypes'
  <2>1. total' \in Nat /\ total' < AddressSpace
    <3>1. AddressSpace \in Nat \ {0}
      BY SMT DEF AddressSpace
    <3>2. PICK n \in Nat : n = real'
      BY <1>4
    <3>3. n % AddressSpace \in 0 .. AddressSpace - 1
      BY <3>1, DivMod
    <3>4. total' = n % AddressSpace
      BY <1>4, <3>2
    <3> QED
      BY <3>1, <3>3, <3>4
  <2>2. pc' \in 1 .. 19
    BY <1>1, <1>3
  <2> QED
    BY SMTT(30), <1>1, <1>2, <2>1, <2>2 DEF MachineTypes
<1>6. PoolsInv'
  BY <1>1, <1>2, <1>3, <1>4 DEF PoolsInv
<1>7. GdtInv' /\ IdtInv' /\ ReadyInv'
  BY <1>1, <1>2, <1>3, GdtKeeps, IdtKeeps, ReadyStays
<1>8. NothingLost'
  <2>1. Apart(pc, size, Bytes, LOADER_BASE_ADDR + 512, LOADER_BASE_ADDR + 515)
    BY <1>3, Sizes, SMT DEF Apart, NeededOf, Region, LOADER_BASE_ADDR
  <2> QED
    BY <1>1, <2>1, WritesKeep DEF NothingLost
<1>9. ReadyTypes' /\ InterruptsServed' /\ DiskInv'
  BY <1>1, <1>2, ServedKeeps, DiskStays DEF ReadyTypes
<1> QED
  BY <1>5, <1>6, <1>7, <1>8, <1>9 DEF BootInv

-----------------------------------------------------------------------------
(* The loader's other steps, those of main and the threads it starts.      *)
LEMMA StepAt ==
  ASSUME BootInv, NEW step, Step(step)
  PROVE  pc \in 1 .. 19 /\ Program[pc] = step /\ mode \in {"real", "protected", "paged"}
         /\ open \in BOOLEAN /\ lost = {}
BY DEF BootInv, MachineTypes, NothingLost, Step, Running, Here

LEMMA ProtectedModeKeeps == BootInv /\ ProtectedMode => BootInv'
<1> SUFFICES ASSUME BootInv, ProtectedMode PROVE BootInv'
  OBVIOUS
<1>1. Step("p_mode_start") /\ mode' = "protected" /\ UNCHANGED <<idtr, pic, handler, total, pools>>
      /\ open' = open /\ lost' = lost
  BY DEF ProtectedMode
<1>2. pc = 3 /\ open \in BOOLEAN /\ lost = {}
  BY <1>1, StepAt, Places
<1> QED
  BY <1>1, <1>2, StepKeeps

LEMMA EnablePagingKeeps == BootInv /\ EnablePaging => BootInv'
<1> SUFFICES ASSUME BootInv, EnablePaging PROVE BootInv'
  OBVIOUS
<1>1. Step("paging") /\ mode' = "paged" /\ UNCHANGED <<idtr, pic, handler, total, pools>>
      /\ open' = open /\ lost' = lost
  BY DEF EnablePaging
<1>2. pc = 6 /\ open \in BOOLEAN /\ lost = {}
  BY <1>1, StepAt, Places
<1> QED
  BY <1>1, <1>2, StepKeeps

LEMMA setup_pageKeeps == BootInv /\ setup_page => BootInv'
<1> SUFFICES ASSUME BootInv, setup_page PROVE BootInv'
  OBVIOUS
<1>1. Step("setup_page") /\ UNCHANGED <<idtr, pic, handler, total, pools>>
      /\ open' = open /\ mode' = mode
      /\ Writes(PAGE_DIR_TABLE_POS, PAGE_DIR_TABLE_POS + 4096 + 1024 - 1)
  BY DEF setup_page, machine
<1>2. pc = 5 /\ open \in BOOLEAN /\ mode \in {"real", "protected", "paged"}
  BY <1>1, StepAt, Places
<1>3. Apart(pc, size, Bytes, PAGE_DIR_TABLE_POS, PAGE_DIR_TABLE_POS + 4096 + 1024 - 1)
  BY <1>2, Sizes, SMT DEF Apart, NeededOf, Region, PAGE_DIR_TABLE_POS
<1>4. lost' = {}
  BY <1>1, <1>3, WritesKeep
<1> QED
  BY <1>1, <1>2, <1>4, StepKeeps

LEMMA kernel_initKeeps == BootInv /\ kernel_init => BootInv'
<1> SUFFICES ASSUME BootInv, kernel_init PROVE BootInv'
  OBVIOUS
<1>1. Step("kernel_init") /\ UNCHANGED <<idtr, pic, handler, total, pools>>
      /\ open' = open /\ mode' = mode /\ Writes(KernelEntry, KernelEntry + size - 1)
  BY DEF kernel_init, KernelAt, machine
<1>2. pc = 7 /\ open \in BOOLEAN /\ mode \in {"real", "protected", "paged"}
  BY <1>1, StepAt, Places
<1>3. Apart(pc, size, Bytes, KernelEntry, KernelEntry + size - 1)
  BY <1>2, Sizes, SMT DEF Apart, NeededOf, Region, KernelEntry
<1>4. lost' = {}
  BY <1>1, <1>3, WritesKeep
<1> QED
  BY <1>1, <1>2, <1>4, StepKeeps

LEMMA JumpMainKeeps == BootInv /\ JumpMain => BootInv'
<1> SUFFICES ASSUME BootInv, JumpMain PROVE BootInv'
  OBVIOUS
<1>1. Step("main") /\ UNCHANGED <<idtr, pic, handler, total, pools>>
      /\ open' = open /\ mode' = mode /\ lost' = lost
  BY DEF JumpMain, machine
<1>2. pc = 8 /\ open \in BOOLEAN /\ mode \in {"real", "protected", "paged"} /\ lost = {}
  BY <1>1, StepAt, Places
<1> QED
  BY <1>1, <1>2, StepKeeps

LEMMA thread_startKeeps == BootInv /\ thread_start => BootInv'
<1> SUFFICES ASSUME BootInv, thread_start PROVE BootInv'
  OBVIOUS
<1>1. Step("thread_start") /\ UNCHANGED <<idtr, pic, handler, total, pools>>
      /\ open' = open /\ mode' = mode /\ lost' = lost
  BY DEF thread_start, machine
<1>2. pc \in {16, 17} /\ open \in BOOLEAN /\ mode \in {"real", "protected", "paged"} /\ lost = {}
  BY <1>1, StepAt, Places
<1> QED
  BY <1>1, <1>2, StepKeeps

LEMMA intr_enableKeeps == BootInv /\ intr_enable => BootInv'
<1> SUFFICES ASSUME BootInv, intr_enable PROVE BootInv'
  OBVIOUS
<1>1. Step("intr_enable") /\ UNCHANGED <<idtr, pic, handler, total, pools>>
      /\ open' = TRUE /\ mode' = mode /\ lost' = lost
  BY DEF intr_enable
<1>2. pc = 18 /\ mode \in {"real", "protected", "paged"} /\ lost = {}
  BY <1>1, StepAt, Places
<1> QED
  BY <1>1, <1>2, StepKeeps

-----------------------------------------------------------------------------
(* The functions of init_all.                                              *)
LEMMA InitsKeep ==
  ASSUME BootInv, NEW name, Inits(name), name \in ToSet(init_all), pc \in 9 .. 15
  PROVE  /\ pc' = pc + 1 /\ mode' = mode /\ open' = open /\ total' = total /\ real' = real
         /\ size' = size /\ outcome' = "runs" /\ ready \subseteq ready' /\ name \in ready'
         /\ Program[pc] = name /\ DiskInv' /\ ReadyTypes' /\ InterruptsServed'
         /\ pc' \in 1 .. 19 /\ outcome' \in Outcomes
<1>1. /\ pc' = pc + 1 /\ mode' = mode /\ open' = open /\ total' = total /\ real' = real
      /\ size' = size /\ outcome' = "runs" /\ ready' = ready \union {name} /\ UNCHANGED disk
      /\ Program[pc] = name
  BY DEF Inits, Running, Goes, Here
<1>2. DiskInv' /\ InterruptsServed' /\ outcome' \in Outcomes
  BY <1>1, DiskStays, ServedKeeps DEF BootInv, Outcomes
<1>3. ReadyTypes'
  BY <1>1 DEF BootInv, ReadyTypes
<1> QED
  BY <1>1, <1>2, <1>3

LEMMA InitAt ==
  ASSUME BootInv, NEW name, Inits(name)
  PROVE  Program[pc] = name /\ pc \in 1 .. 19 /\ lost = {}
BY DEF BootInv, MachineTypes, NothingLost, Inits, Running, Here

\* Two fields at once are one after the other.
LEMMA TwoFields ==
  ASSUME NEW r, NEW x, NEW y
  PROVE  /\ [r EXCEPT !.icw = x, !.mask = y] = [[r EXCEPT !.icw = x] EXCEPT !.mask = y]
         /\ [r EXCEPT !.base = x, !.icw = y] = [[r EXCEPT !.base = x] EXCEPT !.icw = y]
         /\ [r EXCEPT !.cascade = x, !.icw = y] = [[r EXCEPT !.cascade = x] EXCEPT !.icw = y]
OBVIOUS

LEMMA FieldsSet ==
  ASSUME NEW b, NEW m, NEW w, NEW c, NEW x, NEW y, NEW r,
         r = [base |-> b, mask |-> m, icw |-> w, cascade |-> c]
  PROVE  /\ [r EXCEPT !.icw = x, !.mask = y] = [base |-> b, mask |-> y, icw |-> x, cascade |-> c]
         /\ [r EXCEPT !.base = x, !.icw = y] = [base |-> x, mask |-> m, icw |-> y, cascade |-> c]
         /\ [r EXCEPT !.cascade = x, !.icw = y] = [base |-> b, mask |-> m, icw |-> y, cascade |-> x]
<1>1. /\ [r EXCEPT !.icw = x] = [base |-> b, mask |-> m, icw |-> x, cascade |-> c]
      /\ [[base |-> b, mask |-> m, icw |-> x, cascade |-> c] EXCEPT !.mask = y]
           = [base |-> b, mask |-> y, icw |-> x, cascade |-> c]
  OBVIOUS
<1>2. /\ [r EXCEPT !.base = x] = [base |-> x, mask |-> m, icw |-> w, cascade |-> c]
      /\ [[base |-> x, mask |-> m, icw |-> w, cascade |-> c] EXCEPT !.icw = y]
           = [base |-> x, mask |-> m, icw |-> y, cascade |-> c]
  OBVIOUS
<1>3. /\ [r EXCEPT !.cascade = x] = [base |-> b, mask |-> m, icw |-> w, cascade |-> x]
      /\ [[base |-> b, mask |-> m, icw |-> w, cascade |-> x] EXCEPT !.icw = y]
           = [base |-> b, mask |-> m, icw |-> y, cascade |-> x]
  OBVIOUS
<1> QED
  BY <1>1, <1>2, <1>3, TwoFields

\* What the four bytes leave in a chip.
LEMMA RemapIs ==
  ASSUME NEW b, NEW m, NEW w, NEW c, NEW base, NEW cascade
  PROVE  Remap([base |-> b, mask |-> m, icw |-> w, cascade |-> c], base, cascade)
           = [base |-> base, mask |-> 0, icw |-> 0, cascade |-> cascade]
<1> DEFINE chip == [base |-> b, mask |-> m, icw |-> w, cascade |-> c]
           c1 == [base |-> b, mask |-> 0, icw |-> 2, cascade |-> c]
           c2 == [base |-> base, mask |-> 0, icw |-> 3, cascade |-> c]
           c3 == [base |-> base, mask |-> 0, icw |-> 4, cascade |-> cascade]
           c4 == [base |-> base, mask |-> 0, icw |-> 0, cascade |-> cascade]
<1>1. ControlPort(chip, 17) = c1
  <2>1. ControlPort(chip, 17) = [chip EXCEPT !.icw = 2, !.mask = 0]
    <3>1. 17 \div 16 = 1
      OBVIOUS
    <3> HIDE DEF chip
    <3> QED
      BY <3>1 DEF ControlPort
  <2> QED
    BY <2>1, FieldsSet
<1>2. DataPort(c1, base) = c2
  <2>1. c1.icw = 2
    OBVIOUS
  <2>2. DataPort(c1, base) = [c1 EXCEPT !.base = base, !.icw = 3]
    <3> HIDE DEF c1
    <3> QED
      BY <2>1 DEF DataPort
  <2> QED
    BY <2>2, FieldsSet
<1>3. DataPort(c2, cascade) = c3
  <2>1. c2.icw = 3
    OBVIOUS
  <2>2. DataPort(c2, cascade) = [c2 EXCEPT !.cascade = cascade, !.icw = 4]
    <3> HIDE DEF c2
    <3> QED
      BY <2>1 DEF DataPort
  <2> QED
    BY <2>2, FieldsSet
<1>4. DataPort(c3, 1) = c4
  BY SMT DEF DataPort
<1> HIDE DEF chip, c1, c2, c3, c4
<1>5. Remap(chip, base, cascade) = c4
  BY <1>1, <1>2, <1>3, <1>4 DEF Remap
<1> QED
  BY <1>5 DEF chip, c4

Chip == [base : 0 .. 255, mask : 0 .. 255, icw : 0 .. 4, cascade : 0 .. 255]

LEMMA FieldsOf ==
  ASSUME NEW A, NEW B, NEW C, NEW D, NEW x \in [base : A, mask : B, icw : C, cascade : D]
  PROVE  x = [base |-> x.base, mask |-> x.mask, icw |-> x.icw, cascade |-> x.cascade]
OBVIOUS

LEMMA RemapChip ==
  ASSUME NEW chip \in Chip, NEW base, NEW cascade
  PROVE  Remap(chip, base, cascade) = [base |-> base, mask |-> 0, icw |-> 0, cascade |-> cascade]
<1>1. chip = [base |-> chip.base, mask |-> chip.mask, icw |-> chip.icw, cascade |-> chip.cascade]
  BY FieldsOf, Zenon DEF Chip
<1>2. PICK b, m, w, c : chip = [base |-> b, mask |-> m, icw |-> w, cascade |-> c]
  BY <1>1, Zenon
<1> QED
  BY <1>2, RemapIs

LEMMA PicInitIs ==
  ASSUME pic.m \in Chip, pic.s \in Chip
  PROVE  pic_init = [m |-> [base |-> 32, mask |-> 254, icw |-> 0, cascade |-> 4],
                     s |-> [base |-> 40, mask |-> 255, icw |-> 0, cascade |-> 2]]
<1>1. /\ Remap(pic.m, 32, 4) = [base |-> 32, mask |-> 0, icw |-> 0, cascade |-> 4]
      /\ Remap(pic.s, 40, 2) = [base |-> 40, mask |-> 0, icw |-> 0, cascade |-> 2]
  BY RemapChip
<1>2. /\ DataPort([base |-> 32, mask |-> 0, icw |-> 0, cascade |-> 4], 254)
           = [base |-> 32, mask |-> 254, icw |-> 0, cascade |-> 4]
      /\ DataPort([base |-> 40, mask |-> 0, icw |-> 0, cascade |-> 2], 255)
           = [base |-> 40, mask |-> 255, icw |-> 0, cascade |-> 2]
  BY DEF DataPort
<1> QED
  BY <1>1, <1>2 DEF pic_init, PicMask

LEMMA idt_initKeeps == BootInv /\ idt_init => BootInv'
<1> SUFFICES ASSUME BootInv, idt_init PROVE BootInv'
  OBVIOUS
<1>1. Inits("idt_init") /\ "idt_init" \in ToSet(init_all)
  BY Names DEF idt_init
<1>2. pc = 9 /\ lost = {}
  BY <1>1, InitAt, Places
<1>3. /\ pc' = pc + 1 /\ mode' = mode /\ open' = open /\ total' = total /\ real' = real
      /\ size' = size /\ ready \subseteq ready'
      /\ DiskInv' /\ ReadyTypes' /\ InterruptsServed' /\ pc' \in 1 .. 19 /\ outcome' \in Outcomes
  BY <1>1, <1>2, InitsKeep
<1>4. PICK word \in Beyond : idt_desc_init(word)
  BY DEF idt_init
<1>5. idtr' = "idt" /\ pic' = pic_init /\ pools' = pools /\ lost' = lost
      /\ gdt' = gdt /\ tss' = tss /\ entry' = entry
  BY <1>4 DEF idt_init, idt_desc_init
<1>6. MachineTypes /\ GdtInv /\ IdtInv /\ PoolsInv /\ ReadyInv
  BY DEF BootInv
<1>7. pic' = [m |-> [base |-> 32, mask |-> 254, icw |-> 0, cascade |-> 4],
              s |-> [base |-> 40, mask |-> 255, icw |-> 0, cascade |-> 2]]
  <2>1. pic["m"] \in Chip /\ pic["s"] \in Chip
    BY <1>6 DEF MachineTypes, Chip
  <2> QED
    BY <1>5, <2>1, PicInitIs
<1>8. MachineTypes'
  BY <1>3, <1>5, <1>6, <1>7 DEF MachineTypes, Outcomes
<1>9. GdtInv' /\ PoolsInv'
  BY <1>2, <1>3, <1>5, <1>6, GdtKeeps, PoolsKeeps
<1>10. ReadyInv'
  BY <1>2, <1>3 DEF ReadyInv
<1>11. IdtInv'
  <2>1. DOMAIN entry = 0 .. 47
    BY <1>6, EntryIs
  <2>2. /\ \A v \in 0 .. 47 : idt'[v] = make_idt_desc(IDT_DESC_ATTR(0), entry[v])
        /\ idt'[128] = make_idt_desc(IDT_DESC_ATTR(3), syscall_handler)
    BY <1>4, <2>1 DEF idt_desc_init, IDT_DESC_CNT
  <2>3. syscall_handler' = syscall_handler /\ \A v \in 0 .. 47 : GateFor(v)' = GateFor(v)
    BY <1>5 DEF syscall_handler, GateFor
  <2> QED
    BY <1>2, <1>3, <1>5, <1>6, <1>7, <2>2, <2>3 DEF IdtInv, GateFor
<1>12. NothingLost'
  BY <1>2, <1>5 DEF NothingLost
<1> QED
  BY <1>3, <1>8, <1>9, <1>10, <1>11, <1>12 DEF BootInv

(* Those that leave the interrupts' tables as they are.                    *)
LEMMA TypesInit ==
  ASSUME BootInv, pc' \in 1 .. 19, mode' = mode, open' = open, idtr' = idtr, pic' = pic,
         total' = total, outcome' \in Outcomes
  PROVE  MachineTypes'
<1>1. MachineTypes
  BY DEF BootInv
<1>2. mode' \in {"real", "protected", "paged"} /\ open' \in BOOLEAN /\ idtr' \in {"BIOS", "idt"}
  BY <1>1 DEF MachineTypes
<1> QED
  BY <1>1, <1>2, TypesKeep

LEMMA mem_initKeeps == BootInv /\ mem_init => BootInv'
<1> SUFFICES ASSUME BootInv, mem_init PROVE BootInv'
  OBVIOUS
<1>1. Inits("mem_init") /\ "mem_init" \in ToSet(init_all)
  BY Names DEF mem_init
<1>2. pc = 10
  BY <1>1, InitAt, Places
<1>3. /\ pc' = pc + 1 /\ mode' = mode /\ open' = open /\ total' = total /\ real' = real
      /\ size' = size /\ ready \subseteq ready' /\ "mem_init" \in ready'
      /\ DiskInv' /\ ReadyTypes' /\ InterruptsServed' /\ pc' \in 1 .. 19 /\ outcome' \in Outcomes
  BY <1>1, <1>2, InitsKeep
<1>4. /\ idtr' = idtr /\ pic' = pic /\ handler' = handler /\ pools' = mem_pool_init
      /\ gdt' = gdt /\ tss' = tss /\ idt' = idt /\ entry' = entry
      /\ Writes(MemBitmapBase, MemBitmapBase + pools'.bytes - 1)
  BY DEF mem_init, descriptors
<1>5. MachineTypes /\ GdtInv /\ IdtInv /\ PoolsInv /\ ReadyInv
  BY DEF BootInv
<1>6. MachineTypes'
  BY <1>3, <1>4, TypesInit
<1>7. GdtInv' /\ IdtInv'
  BY <1>2, <1>3, <1>4, <1>5, GdtKeeps, IdtKeeps
<1>8. PoolsInv'
  <2>1. mem_pool_init' = mem_pool_init
    BY <1>3 DEF mem_pool_init, PoolsFrom, all_free_pages
  <2> QED
    BY <1>2, <1>3, <1>4, <1>5, <2>1 DEF PoolsInv
<1>9. ReadyInv'
  BY <1>2, <1>3 DEF ReadyInv
<1>10. NothingLost'
  <2>1. PICK last : last = MemBitmapBase + pools'.bytes - 1
    OBVIOUS
  <2>2. mem_pool_init.bytes \in Nat /\ mem_pool_init.bytes <= 12288
    BY <1>5, BitmapBytes, SMT DEF MachineTypes
  <2>3. last \in Int /\ last <= 643071
    BY <1>4, <2>1, <2>2, SMT DEF MemBitmapBase
  <2>4. Apart(pc, size, Bytes, MemBitmapBase, last)
    BY <1>2, <2>3, Sizes, SMT DEF Apart, NeededOf, Region, MemBitmapBase
  <2>5. Writes(MemBitmapBase, last)
    BY <1>4, <2>1
  <2> QED
    BY <2>4, <2>5, WritesKeep DEF NothingLost
<1> QED
  BY <1>3, <1>6, <1>7, <1>8, <1>9, <1>10 DEF BootInv

LEMMA threads_initKeeps == BootInv /\ threads_init => BootInv'
<1> SUFFICES ASSUME BootInv, threads_init PROVE BootInv'
  OBVIOUS
<1>1. Inits("threads_init") /\ "threads_init" \in ToSet(init_all)
  BY Names DEF threads_init
<1>2. pc = 11
  BY <1>1, InitAt, Places
<1>3. /\ pc' = pc + 1 /\ mode' = mode /\ open' = open /\ total' = total /\ real' = real
      /\ size' = size /\ ready \subseteq ready' /\ "threads_init" \in ready'
      /\ DiskInv' /\ ReadyTypes' /\ InterruptsServed' /\ pc' \in 1 .. 19 /\ outcome' \in Outcomes
  BY <1>1, <1>2, InitsKeep
<1>4. /\ idtr' = idtr /\ pic' = pic /\ handler' = handler /\ pools' = pools
      /\ gdt' = gdt /\ tss' = tss /\ idt' = idt /\ entry' = entry
      /\ Writes(MainPcb, MainPcb + 67)
  BY DEF threads_init, descriptors
<1>5. MachineTypes /\ GdtInv /\ IdtInv /\ PoolsInv /\ ReadyInv
  BY DEF BootInv
<1>6. MachineTypes'
  BY <1>3, <1>4, TypesInit
<1>7. GdtInv' /\ IdtInv' /\ PoolsInv'
  BY <1>2, <1>3, <1>4, <1>5, GdtKeeps, IdtKeeps, PoolsKeeps
<1>8. ReadyInv'
  BY <1>2, <1>3, <1>5 DEF ReadyInv
<1>9. NothingLost'
  <2>1. Apart(pc, size, Bytes, MainPcb, MainPcb + 67)
    BY <1>2, Sizes, SMT DEF Apart, NeededOf, Region, MainPcb
  <2> QED
    BY <1>4, <2>1, WritesKeep DEF NothingLost
<1> QED
  BY <1>3, <1>6, <1>7, <1>8, <1>9 DEF BootInv

LEMMA timer_initKeeps == BootInv /\ timer_init => BootInv'
<1> SUFFICES ASSUME BootInv, timer_init PROVE BootInv'
  OBVIOUS
<1>1. Inits("timer_init") /\ "timer_init" \in ToSet(init_all)
  BY Names DEF timer_init
<1>2. pc = 12 /\ lost = {}
  BY <1>1, InitAt, Places
<1>3. /\ pc' = pc + 1 /\ mode' = mode /\ open' = open /\ total' = total /\ real' = real
      /\ size' = size /\ ready \subseteq ready'
      /\ DiskInv' /\ ReadyTypes' /\ InterruptsServed' /\ pc' \in 1 .. 19 /\ outcome' \in Outcomes
  BY <1>1, <1>2, InitsKeep
<1>4. /\ idtr' = idtr /\ pic' = pic /\ pools' = pools /\ lost' = lost
      /\ gdt' = gdt /\ tss' = tss /\ idt' = idt /\ entry' = entry
      /\ register_handler(32, "intr_timer_handler")
  BY DEF timer_init, frequency_set, Outb
<1>5. MachineTypes /\ GdtInv /\ IdtInv /\ PoolsInv /\ ReadyInv
  BY DEF BootInv
<1>6. MachineTypes'
  BY <1>3, <1>4, TypesInit
<1>7. GdtInv' /\ IdtInv' /\ PoolsInv'
  BY <1>2, <1>3, <1>4, <1>5, GdtKeeps, IdtKeeps, PoolsKeeps
<1>8. ReadyInv'
  BY <1>2, <1>3, <1>4, <1>5 DEF ReadyInv, register_handler
<1>9. NothingLost'
  BY <1>2, <1>4 DEF NothingLost
<1> QED
  BY <1>3, <1>6, <1>7, <1>8, <1>9 DEF BootInv

LEMMA console_initKeeps == BootInv /\ console_init => BootInv'
<1> SUFFICES ASSUME BootInv, console_init PROVE BootInv'
  OBVIOUS
<1>1. Inits("console_init") /\ "console_init" \in ToSet(init_all)
  BY Names DEF console_init
<1>2. pc = 13 /\ lost = {}
  BY <1>1, InitAt, Places
<1>3. /\ pc' = pc + 1 /\ mode' = mode /\ open' = open /\ total' = total /\ real' = real
      /\ size' = size /\ ready \subseteq ready'
      /\ DiskInv' /\ ReadyTypes' /\ InterruptsServed' /\ pc' \in 1 .. 19 /\ outcome' \in Outcomes
  BY <1>1, <1>2, InitsKeep
<1>4. /\ idtr' = idtr /\ pic' = pic /\ handler' = handler /\ pools' = pools /\ lost' = lost
      /\ gdt' = gdt /\ tss' = tss /\ idt' = idt /\ entry' = entry
  BY DEF console_init, descriptors
<1>5. MachineTypes /\ GdtInv /\ IdtInv /\ PoolsInv /\ ReadyInv
  BY DEF BootInv
<1>6. MachineTypes'
  BY <1>3, <1>4, TypesInit
<1>7. GdtInv' /\ IdtInv' /\ PoolsInv' /\ ReadyInv'
  BY <1>2, <1>3, <1>4, <1>5, GdtKeeps, IdtKeeps, PoolsKeeps, ReadyStays
<1>8. NothingLost'
  BY <1>2, <1>4 DEF NothingLost
<1> QED
  BY <1>3, <1>6, <1>7, <1>8 DEF BootInv

LEMMA keyboard_initKeeps == BootInv /\ keyboard_init => BootInv'
<1> SUFFICES ASSUME BootInv, keyboard_init PROVE BootInv'
  OBVIOUS
<1>1. Inits("keyboard_init") /\ "keyboard_init" \in ToSet(init_all)
  BY Names DEF keyboard_init
<1>2. pc = 14 /\ lost = {}
  BY <1>1, InitAt, Places
<1>3. /\ pc' = pc + 1 /\ mode' = mode /\ open' = open /\ total' = total /\ real' = real
      /\ size' = size /\ ready \subseteq ready'
      /\ DiskInv' /\ ReadyTypes' /\ InterruptsServed' /\ pc' \in 1 .. 19 /\ outcome' \in Outcomes
  BY <1>1, <1>2, InitsKeep
<1>4. /\ idtr' = idtr /\ pic' = pic /\ pools' = pools /\ lost' = lost
      /\ gdt' = gdt /\ tss' = tss /\ idt' = idt /\ entry' = entry
      /\ register_handler(33, "intr_keyboard_handler")
  BY DEF keyboard_init, descriptors
<1>5. MachineTypes /\ GdtInv /\ IdtInv /\ PoolsInv /\ ReadyInv
  BY DEF BootInv
<1>6. MachineTypes'
  BY <1>3, <1>4, TypesInit
<1>7. GdtInv' /\ IdtInv' /\ PoolsInv'
  BY <1>2, <1>3, <1>4, <1>5, GdtKeeps, IdtKeeps, PoolsKeeps
<1>8. ReadyInv'
  <2>1. 32 \in DOMAIN handler /\ handler[32] = "intr_timer_handler"
    BY <1>2, <1>5 DEF ReadyInv
  <2>2. 32 \in DOMAIN handler' /\ handler'[32] = "intr_timer_handler"
    BY <1>4, <2>1 DEF register_handler
  <2> QED
    BY <1>2, <1>3, <1>5, <2>2 DEF ReadyInv
<1>9. NothingLost'
  BY <1>2, <1>4 DEF NothingLost
<1> QED
  BY <1>3, <1>6, <1>7, <1>8, <1>9 DEF BootInv

(* Three descriptors behind the loader's three.                            *)
LEMMA Triple ==
  ASSUME NEW a, NEW b, NEW c, NEW S, a \in S, b \in S, c \in S
  PROVE  Text(<<a, b, c>>, S, 3) /\ <<a, b, c>>[1] = a /\ <<a, b, c>>[2] = b /\ <<a, b, c>>[3] = c
BY DEF Text

LEMMA SixAre ==
  ASSUME NEW a, NEW b, NEW c, NEW d, NEW e, NEW f
  PROVE  LET six == Cat(<<a, b, c>>, <<d, e, f>>)
         IN  /\ DOMAIN six = 1 .. 6
             /\ six[1] = a /\ six[2] = b /\ six[3] = c /\ six[4] = d /\ six[5] = e /\ six[6] = f
<1> DEFINE S == {a, b, c, d, e, f}
           s == <<a, b, c>>
           t == <<d, e, f>>
<1>1. Text(s, S, 3) /\ s[1] = a /\ s[2] = b /\ s[3] = c
  BY Triple
<1>2. Text(t, S, 3) /\ t[1] = d /\ t[2] = e /\ t[3] = f
  BY Triple
<1> HIDE DEF S, s, t
<1>3. Joins(Cat(s, t), s, t, S, 3, 3)
  BY <1>1, <1>2, CatText
<1>4. DOMAIN Cat(s, t) = 1 .. 6
  BY <1>3 DEF Joins, Text
<1>5. /\ Cat(s, t)[1] = a /\ Cat(s, t)[2] = b /\ Cat(s, t)[3] = c
      /\ Cat(s, t)[4] = d /\ Cat(s, t)[5] = e /\ Cat(s, t)[6] = f
  BY <1>1, <1>2, <1>3 DEF Joins
<1> QED
  BY <1>4, <1>5 DEF s, t

LEMMA tss_initKeeps == BootInv /\ tss_init => BootInv'
<1> SUFFICES ASSUME BootInv, tss_init PROVE BootInv'
  OBVIOUS
<1>1. Inits("tss_init") /\ "tss_init" \in ToSet(init_all)
  BY Names DEF tss_init
<1>2. pc = 15
  BY <1>1, InitAt, Places
<1>3. /\ pc' = pc + 1 /\ mode' = mode /\ open' = open /\ total' = total /\ real' = real
      /\ size' = size /\ ready \subseteq ready'
      /\ DiskInv' /\ ReadyTypes' /\ InterruptsServed' /\ pc' \in 1 .. 19 /\ outcome' \in Outcomes
  BY <1>1, <1>2, InitsKeep
<1>4. PICK base \in Address : tss_descriptors(base)
  BY DEF tss_init
<1>5. /\ idtr' = idtr /\ pic' = pic /\ handler' = handler /\ pools' = pools
      /\ idt' = idt /\ entry' = entry /\ tss' = base
      /\ Writes(LOADER_BASE_ADDR + 32, LOADER_BASE_ADDR + 55)
  BY <1>4 DEF tss_init, tss_descriptors
<1>6. MachineTypes /\ GdtInv /\ IdtInv /\ PoolsInv /\ ReadyInv
  BY DEF BootInv
<1>7. MachineTypes'
  BY <1>3, <1>5, TypesInit
<1>8. IdtInv' /\ PoolsInv' /\ ReadyInv'
  BY <1>2, <1>3, <1>5, <1>6, IdtKeeps, PoolsKeeps, ReadyStays
<1>9. GdtInv'
  <2>1. gdt' = Cat(LoaderGdt, TssDescriptors(base))
    BY <1>2, <1>4, <1>6 DEF GdtInv, tss_descriptors, Cat, TssDescriptors
  <2>2. PICK a, b, c : LoaderGdt = <<a, b, c>>
    BY LoaderGdtIs
  <2>3. PICK d, e, f : TssDescriptors(base) = <<d, e, f>>
    BY DEF TssDescriptors
  <2>4. DOMAIN gdt' = 1 .. 6
        /\ gdt'[1] = a /\ gdt'[2] = b /\ gdt'[3] = c /\ gdt'[4] = d /\ gdt'[5] = e /\ gdt'[6] = f
    BY <2>1, <2>2, <2>3, SixAre
  <2>5. LoaderPart'
    BY <2>2, <2>4 DEF LoaderPart
  <2>6. TssPart'
    <3>1. TssDescriptors(tss)' = <<d, e, f>>
      BY <1>5, <2>3 DEF TssDescriptors
    <3> QED
      BY <2>4, <3>1 DEF TssPart
  <2>7. tss' \in Half \X Half
    BY <1>5, DescriptorsAssumption DEF DescriptorsAssumption
  <2> QED
    BY <1>2, <1>3, <2>5, <2>6, <2>7 DEF GdtInv
<1>10. NothingLost'
  <2>1. Apart(pc, size, Bytes, LOADER_BASE_ADDR + 32, LOADER_BASE_ADDR + 55)
    BY <1>2, Sizes, SMT DEF Apart, NeededOf, Region, LOADER_BASE_ADDR
  <2> QED
    BY <1>5, <2>1, WritesKeep DEF NothingLost
<1> QED
  BY <1>3, <1>7, <1>8, <1>9, <1>10 DEF BootInv

-----------------------------------------------------------------------------
LEMMA BootStart == Init => BootInv
<1> SUFFICES ASSUME Init PROVE BootInv
  OBVIOUS
<1>1. /\ pc = 1 /\ mode = "real" /\ open \in IfAtEntry /\ idtr = "BIOS"
      /\ pic = [m |-> [base |-> 8, mask |-> 0, icw |-> 0, cascade |-> 4],
                s |-> [base |-> 112, mask |-> 0, icw |-> 0, cascade |-> 2]]
      /\ ready = {} /\ total = 0 /\ size \in KernelSize /\ pools = NULL
      /\ lost = {} /\ outcome = "runs"
      /\ gdt = <<>> /\ tss = <<>> /\ idt = <<>>
      /\ entry \in {[v \in 0 .. 47 |-> <<Kernel, low + 25 * v>>] : low \in EntryLow}
  BY DEF Init, DescriptorsInit
<1>2. open \in BOOLEAN
  BY <1>1, BootAssumption, Zenon DEF BootAssumption
<1>3. 0 < AddressSpace
  BY SMT DEF AddressSpace
<1>4. MachineTypes
  BY <1>1, <1>2, <1>3 DEF MachineTypes
<1>5. ReadyTypes /\ NothingLost /\ InterruptsServed /\ ReadyInv
  BY <1>1 DEF ReadyTypes, NothingLost, InterruptsServed, ReadyInv
<1>6. GdtInv /\ PoolsInv
  BY <1>1 DEF GdtInv, PoolsInv
<1>7. IdtInv
  BY <1>1 DEF IdtInv, EntriesAt
<1> QED
  BY <1>4, <1>5, <1>6, <1>7, DiskStart DEF BootInv, Init

LEMMA BootNext == BootInv /\ [Next]_vars => BootInv'
<1> SUFFICES ASSUME BootInv, [Next]_vars PROVE BootInv'
  OBVIOUS
<1>1. CASE UNCHANGED vars
  <2>1. UNCHANGED <<pc, machine, ready, memory, lost, outcome, descriptors, disk>>
    BY <1>1 DEF vars
  <2>2. DiskInv'
    BY <2>1, DiskStays DEF BootInv
  <2>3. outcome' \in Outcomes
    BY <2>1 DEF BootInv, MachineTypes, Outcomes
  <2>4. InterruptsServed'
    BY <2>1 DEF BootInv, InterruptsServed, machine
  <2> QED
    BY <2>1, <2>2, <2>3, <2>4, StayKeeps
<1>2. CASE CallDisk \/ DiskStep \/ error_hlt \/ Served
  BY <1>2, CallDiskKeeps, DiskStepKeeps, error_hltKeeps, ServedReturns
<1>3. CASE ReadLoader \/ GetMemory \/ ProtectedMode \/ ReadKernel \/ setup_page
           \/ EnablePaging \/ kernel_init \/ JumpMain
  BY <1>3, ReadLoaderKeeps, GetMemoryKeeps, ProtectedModeKeeps, ReadKernelKeeps,
     setup_pageKeeps, EnablePagingKeeps, kernel_initKeeps, JumpMainKeeps
<1>4. CASE idt_init \/ mem_init \/ threads_init \/ timer_init \/ console_init \/ keyboard_init
           \/ tss_init \/ thread_start \/ thread_start_fails \/ intr_enable
  BY <1>4, idt_initKeeps, mem_initKeeps, threads_initKeeps, timer_initKeeps, console_initKeeps,
     keyboard_initKeeps, tss_initKeeps, thread_startKeeps, thread_start_failsKeeps,
     intr_enableKeeps
<1>5. CASE \E i \in 0 .. 1 : Interrupt(i)
  BY <1>5, InterruptKeeps
<1> QED
  BY <1>1, <1>2, <1>3, <1>4, <1>5 DEF Next

(* Nothing links the waiters later.                                        *)
LEMMA LinkedStays == [Next]_vars => linked' = linked
<1>1. ASSUME NEW step PROVE Step(step) \/ HasRead(step) \/ Inits(step) => linked' = linked
  BY DEF Step, HasRead, Inits, memory
<1>2. CallDisk \/ DiskStep \/ error_hlt \/ thread_start_fails \/ Served \/ GetMemory => linked' = linked
  BY DEF CallDisk, DiskStep, error_hlt, thread_start_fails, Served, GetMemory, memory
<1>3. ReadLoader \/ ReadKernel => linked' = linked
  BY <1>1 DEF ReadLoader, ReadKernel
<1>4. ProtectedMode \/ setup_page \/ EnablePaging \/ kernel_init \/ JumpMain \/ thread_start
      \/ intr_enable => linked' = linked
  BY <1>1 DEF ProtectedMode, setup_page, EnablePaging, kernel_init, KernelAt, JumpMain,
              thread_start, intr_enable
<1>5. idt_init \/ mem_init \/ threads_init \/ timer_init \/ console_init \/ keyboard_init
      \/ tss_init => linked' = linked
  BY <1>1 DEF idt_init, mem_init, threads_init, timer_init, console_init, keyboard_init, tss_init
<1>6. ASSUME NEW i \in 0 .. 1, Interrupt(i) PROVE linked' = linked
  BY <1>6 DEF Interrupt, memory
<1>7. UNCHANGED vars => linked' = linked
  BY DEF vars, memory
<1> QED
  BY <1>2, <1>3, <1>4, <1>5, <1>6, <1>7 DEF Next

LEMMA LinkedHolds == Spec => []LinkedTypes
<1> DEFINE Inv == LinkedTypes
<1>1. Init => Inv
  BY BootAssumption, Zenon DEF Init, BootAssumption, LinkedTypes
<1>2. Inv /\ [Next]_vars => Inv'
  BY LinkedStays DEF LinkedTypes
<1> HIDE DEF Inv
<1>3. Spec => []Inv
  BY <1>1, <1>2, PTL DEF Spec
<1> QED
  BY <1>3 DEF Inv

(* From the boot sector to main's loop everything is where and as BootInv  *)
(* says, after every step.                                                 *)
THEOREM BootHolds == Spec => []BootInv
<1> DEFINE Inv == BootInv
<1>1. Init => Inv
  BY BootStart
<1>2. Inv /\ [Next]_vars => Inv'
  BY BootNext
<1> HIDE DEF Inv
<1>3. Spec => []Inv
  BY <1>1, <1>2, PTL DEF Spec
<1> QED
  BY <1>3 DEF Inv

(* The selectors of global.h load the descriptors they are meant to, as    *)
(* soon as the loader has set gdtr and after tss_init too; of the gates    *)
(* idt_desc_init makes, the 48 for which kernel.S has an entry lead to it  *)
(* and that of the system call to syscall_handler (nothing is said of the  *)
(* others, made of what lies behind the table); and what the machine and   *)
(* the functions of init_all keep stays in its range.                      *)
THEOREM TablesLead == Spec => []TablesRight
<1> DEFINE Inv == BootInv
           Link == LinkedTypes
           Goal == TablesRight
<1>1. Inv /\ Link => Goal
  BY TypesRight, SelectorsRight, GatesRight DEF TablesRight
<1>2. Spec => []Inv /\ []Link
  BY BootHolds, LinkedHolds
<1> HIDE DEF Inv, Link, Goal
<1>3. Spec => []Goal
  BY <1>1, <1>2, PTL
<1> QED
  BY <1>3 DEF Goal

(* No step overwrites what a later one needs: boot sector, loader, GDT,    *)
(* kernel file and image, page tables, bitmaps and main's PCB are each     *)
(* where nothing else is written while they are in use, for every kernel   *)
(* of at most 200 sectors and every size of memory the BIOS can report.    *)
THEOREM NothingIsLost == Spec => []NothingLost
<1> DEFINE Inv == BootInv
           Goal == NothingLost
<1>1. Inv => Goal
  BY DEF BootInv
<1>2. Spec => []Inv
  BY BootHolds
<1> HIDE DEF Inv, Goal
<1>3. Spec => []Goal
  BY <1>1, <1>2, PTL
<1> QED
  BY <1>3 DEF Goal

(* An interrupt stops or resets the machine only before intr_enable, with  *)
(* the flag as the BIOS left it: after that the clock's line alone is      *)
(* open, and it has its vector, its gate, its handler and threads.         *)
THEOREM AllServed == Spec => []InterruptsServed
<1> DEFINE Inv == BootInv
           Goal == InterruptsServed
<1>1. Inv => Goal
  BY DEF BootInv
<1>2. Spec => []Inv
  BY BootHolds
<1> HIDE DEF Inv, Goal
<1>3. Spec => []Goal
  BY <1>1, <1>2, PTL
<1> QED
  BY <1>3 DEF Goal

(* mem_pool_init makes two disjoint pools inside the memory there is, and, *)
(* with less than 2^16 free pages, loses at most fourteen pages of it and  *)
(* what is less than a page.                                               *)
THEOREM PoolsAreSound == Spec => []PoolsSound
<1> DEFINE Inv == BootInv
           Goal == PoolsSound
<1>1. Inv => Goal
  BY PoolsFit
<1>2. Spec => []Inv
  BY BootHolds
<1> HIDE DEF Inv, Goal
<1>3. Spec => []Goal
  BY <1>1, <1>2, PTL
<1> QED
  BY <1>3 DEF Goal

(* Both rd_disk_m put the words the drive gives into memory in their       *)
(* order, beginning with the first, and all of them when the drive never   *)
(* needs time between two sectors.                                         *)
THEOREM SectorsRead == Spec => []ReadsSectors
<1> DEFINE Inv == BootInv
           Goal == ReadsSectors
<1>1. Inv => Goal
  BY InOrder DEF BootInv
<1>2. Spec => []Inv
  BY BootHolds
<1> HIDE DEF Inv, Goal
<1>3. Spec => []Goal
  BY <1>1, <1>2, PTL
<1> QED
  BY <1>3 DEF Goal

=============================================================================
