--------------------------- MODULE ProcessProofs ---------------------------
(***************************************************************************)
(* Proofs about Process and Paging, for any threads, any size of pages,    *)
(* tables and memory, and any number of words below a switch that leaves   *)
(* room on the stack's page: where each thread's stack pointer is, and     *)
(* that nothing pushes over the frame start_process builds; and what is in *)
(* every page table, that an address leads to the page that was given away *)
(* at it, and that each thread runs in its own directory.                  *)
(***************************************************************************)
EXTENDS Process, TLAPS

\* Where a stack pointer can be.
Depth == 0 .. PageWords

(* thread_create leaves both structures on the new stack; kernel_thread    *)
(* starts five words higher, start_process behind its own frame.           *)
Reserved == sizeof_intr_stack + sizeof_thread_stack
Started == Reserved - 5 + StartFrame

(* Where the stack of p is in each phase: what self_kstack says until it   *)
(* has read it, and afterwards where its frame is and where it runs or has *)
(* been switched.                                                          *)
StackAt(p) ==
  /\ phase[p] = "none" => cur # p
  /\ phase[p] \in {"pcb", "made"} => cur # p /\ kstack[p] = Reserved
  /\ phase[p] = "entered" => cur = p /\ depth[p] = Reserved - 5 /\ kstack[p] = Reserved
  /\ phase[p] \in {"framed", "stacked"} =>
       /\ proc[p] = sizeof_intr_stack
       /\ IF cur = p THEN depth[p] = Started ELSE kstack[p] = Started + Pushes
  /\ phase[p] = "user" => cur = p
  /\ phase[p] = "trap" =>
       IF cur = p THEN depth[p] = sizeof_intr_stack \div 4
       ELSE kstack[p] = sizeof_intr_stack \div 4 + Pushes

\* A kernel thread's own frames are not counted.
KernelStack(t) ==
  /\ phase[t] = "kernel"
  /\ IF cur = t THEN depth[t] = 0 ELSE kstack[t] = Pushes

StackInv ==
  /\ cur \in Thread
  /\ phase \in [Thread -> Phase] /\ depth \in [Thread -> Depth] /\ kstack \in [Thread -> Depth]
  /\ proc \in [Proc -> Depth]
  /\ damaged = {}
  /\ \A t \in Kernel : KernelStack(t)
  /\ \A p \in Proc : phase[p] # "kernel" /\ StackAt(p)

LEMMA StackNumbers ==
  /\ Pushes \in Nat /\ {Pushes, Pushes + 19, Pushes + Started} \subseteq Depth
  /\ Depth \subseteq Int /\ {0, 19, 76, 103, 108, 111} \subseteq Depth
  /\ sizeof_intr_stack \div 4 = 19 /\ sizeof_intr_stack = 76 /\ sizeof_thread_stack = 32
  /\ ThreadCreate(0) = Reserved /\ Reserved = 108 /\ Started = 111 /\ StartFrame = 8
BY SMTT(30), ProcessAssumption DEF sizeof_intr_stack, sizeof_thread_stack, ThreadCreate, Reserved,
                         Started, StartFrame, Depth, PageWords

LEMMA StackInit == Init => StackInv
<1> SUFFICES ASSUME Init PROVE StackInv
  OBVIOUS
<1> USE ProcessAssumption DEF Init
<1>1. cur \in Thread /\ damaged = {}
  BY DEF Thread
<1>2. phase \in [Thread -> Phase]
  BY DEF Phase
<1>3. depth \in [Thread -> Depth] /\ kstack \in [Thread -> Depth] /\ proc \in [Proc -> Depth]
  <2>1. 0 \in Depth /\ Pushes \in Depth
    BY StackNumbers
  <2> QED
    BY <2>1
<1>4. \A t \in Kernel : KernelStack(t)
  BY DEF KernelStack, Thread
<1>5. \A p \in Proc : phase[p] # "kernel" /\ StackAt(p)
  BY DEF StackAt, Thread
<1> QED
  BY <1>1, <1>2, <1>3, <1>4, <1>5 DEF StackInv

(* What is pushed from where a thread runs never covers its frame.         *)
LEMMA NothingCovered ==
  ASSUME StackInv, NEW t \in Thread, t = cur
  PROVE  Pushed(t, Pushes) => damaged' = damaged
<1>1. CASE t \in Proc /\ phase[t] \in {"framed", "stacked"}
  <2>1. depth[t] = 111 /\ proc[t] = 76
    BY <1>1, StackNumbers DEF StackInv, StackAt
  <2>2. ~Covers(t, depth[t], Pushes)
    BY <2>1 DEF Covers
  <2> QED
    BY <2>2 DEF Pushed
<1>2. CASE ~(t \in Proc /\ phase[t] \in {"framed", "stacked"})
  BY <1>2 DEF Pushed, Covers
<1> QED
  BY <1>1, <1>2

LEMMA StackStep == StackInv /\ [Next]_vars => StackInv'
<1> SUFFICES ASSUME StackInv, [Next]_vars PROVE StackInv'
  OBVIOUS
<1> USE StackNumbers
<1>0. /\ Main \in Kernel /\ Kernel \cap Proc = {} /\ Thread = Kernel \cup Proc
      /\ \A t \in Kernel : phase[t] = "kernel" /\ (cur # t => kstack[t] = Pushes)
                                               /\ (cur = t => depth[t] = 0)
      /\ \A p \in Proc : phase[p] # "kernel" /\ p \in Thread
  BY ProcessAssumption DEF StackInv, KernelStack, Thread
<1>1. ASSUME NEW p \in Proc, process_execute(p) PROVE StackInv'
  <2>1. /\ cur = Main /\ phase[p] = "none" /\ kstack' = [kstack EXCEPT ![p] = Reserved]
        /\ phase' = [phase EXCEPT ![p] = "pcb"] /\ cur # p
        /\ UNCHANGED <<cur, depth, proc, damaged>>
    BY <1>1, <1>0 DEF process_execute, Executes, Running, Becomes
  <2>a. Reserved \in Depth
    BY StackNumbers
  <2>2. phase' \in [Thread -> Phase] /\ kstack' \in [Thread -> Depth]
    BY <2>1, <2>a DEF StackInv, Phase
  <2>3. \A t \in Kernel : KernelStack(t)'
    BY <2>1, <1>0 DEF KernelStack, StackInv
  <2>4. ASSUME NEW q \in Proc PROVE phase'[q] # "kernel" /\ StackAt(q)'
    <3>1. CASE q = p
      <4>1. kstack'[p] = Reserved /\ phase'[p] = "pcb"
        BY <2>1, <1>0 DEF StackInv
      <4> QED
        BY <4>1, <3>1, <2>1 DEF StackAt
    <3>2. CASE q # p
      BY <3>2, <2>1, <1>0 DEF StackInv, StackAt
    <3> QED
      BY <3>1, <3>2
  <2> QED
    BY <2>1, <2>2, <2>3, <2>4 DEF StackInv
<1>2. ASSUME NEW p \in Proc, SetPgdir(p) PROVE StackInv'
  <2>1. /\ phase[p] = "pcb" /\ phase' = [phase EXCEPT ![p] = "made"]
        /\ UNCHANGED <<cur, depth, kstack, proc, damaged>>
    BY <1>2 DEF SetPgdir, Running, Becomes, stack
  <2>2. phase' \in [Thread -> Phase]
    BY <2>1 DEF StackInv, Phase
  <2>3. \A t \in Kernel : KernelStack(t)'
    BY <2>1, <1>0 DEF KernelStack, StackInv
  <2>4. \A q \in Proc : phase'[q] # "kernel" /\ StackAt(q)'
    BY <2>1, <1>0 DEF StackInv, StackAt
  <2> QED
    BY <2>1, <2>2, <2>3, <2>4 DEF StackInv
<1>3. ASSUME NEW p \in Proc, start_process(p) PROVE StackInv'
  <2>1. /\ cur = p /\ phase[p] = "entered" /\ phase' = [phase EXCEPT ![p] = "framed"]
        /\ depth' = [depth EXCEPT ![p] = depth[p] + StartFrame]
        /\ kstack' = [kstack EXCEPT ![p] = kstack[p] - sizeof_thread_stack]
        /\ proc' = [proc EXCEPT ![p] = kstack'[p]]
        /\ damaged' = IF kstack'[p] > depth[p] - 3 THEN damaged \union {p} ELSE damaged
        /\ cur' = cur
    BY <1>3 DEF start_process, StartAt, Running, Becomes
  <2>2. depth[p] = 103 /\ kstack[p] = 108
    BY <2>1 DEF StackInv, StackAt
  <2>3. kstack'[p] = 76 /\ depth'[p] = 111 /\ proc'[p] = 76
    BY <2>1, <2>2, <1>0 DEF StackInv
  <2>4. damaged' = {}
    BY <2>1, <2>2, <2>3 DEF StackInv
  <2>5. /\ phase' \in [Thread -> Phase] /\ depth' \in [Thread -> Depth]
        /\ kstack' \in [Thread -> Depth] /\ proc' \in [Proc -> Depth]
    BY <2>1, <2>2, <2>3 DEF StackInv, Phase
  <2>6. \A t \in Kernel : KernelStack(t)'
    BY <2>1, <1>0 DEF KernelStack, StackInv
  <2>7. ASSUME NEW q \in Proc PROVE phase'[q] # "kernel" /\ StackAt(q)'
    <3>1. CASE q = p
      BY <3>1, <2>1, <2>3, <1>0 DEF StackInv, StackAt
    <3>2. CASE q # p
      BY <3>2, <2>1, <1>0 DEF StackInv, StackAt
    <3> QED
      BY <3>1, <3>2
  <2> QED
    BY <2>1, <2>4, <2>5, <2>6, <2>7 DEF StackInv
<1>4. ASSUME NEW p \in Proc, UserStack(p) PROVE StackInv'
  <2>1. /\ cur = p /\ phase[p] = "framed" /\ phase' = [phase EXCEPT ![p] = "stacked"]
        /\ Pushed(p, Pushes) /\ UNCHANGED <<cur, depth, kstack, proc>>
    BY <1>4 DEF UserStack, Running, Becomes
  <2>2. damaged' = {}
    BY <2>1, <1>0, NothingCovered DEF StackInv
  <2>3. phase' \in [Thread -> Phase]
    BY <2>1 DEF StackInv, Phase
  <2>4. \A t \in Kernel : KernelStack(t)'
    BY <2>1, <1>0 DEF KernelStack, StackInv
  <2>5. \A q \in Proc : phase'[q] # "kernel" /\ StackAt(q)'
    BY <2>1, <1>0 DEF StackInv, StackAt
  <2> QED
    BY <2>1, <2>2, <2>3, <2>4, <2>5 DEF StackInv
<1>5. ASSUME NEW p \in Proc, IntrExit(p) PROVE StackInv'
  <2>1. /\ cur = p /\ phase[p] = "stacked" /\ phase' = [phase EXCEPT ![p] = "user"]
        /\ depth' = [depth EXCEPT ![p] = proc[p] - sizeof_intr_stack \div 4]
        /\ UNCHANGED <<cur, kstack, proc, damaged>>
    BY <1>5 DEF IntrExit, Running, Becomes
  <2>a. proc[p] = 76
    BY <2>1 DEF StackInv, StackAt
  <2>b. proc[p] - sizeof_intr_stack \div 4 \in Depth
    BY <2>a DEF Depth, PageWords
  <2>2. phase' \in [Thread -> Phase] /\ depth' \in [Thread -> Depth]
    BY <2>1, <2>b DEF StackInv, Phase
  <2>3. \A t \in Kernel : KernelStack(t)'
    BY <2>1, <1>0 DEF KernelStack, StackInv
  <2>4. \A q \in Proc : phase'[q] # "kernel" /\ StackAt(q)'
    BY <2>1, <1>0 DEF StackInv, StackAt
  <2> QED
    BY <2>1, <2>2, <2>3, <2>4 DEF StackInv
<1>6. ASSUME NEW p \in Proc, Trap(p) PROVE StackInv'
  <2>1. /\ cur = p /\ phase[p] = "user" /\ phase' = [phase EXCEPT ![p] = "trap"]
        /\ depth' = [depth EXCEPT ![p] = sizeof_intr_stack \div 4]
        /\ UNCHANGED <<cur, kstack, proc, damaged>>
    BY <1>6 DEF Trap, Running, Becomes
  <2>2. phase' \in [Thread -> Phase] /\ depth' \in [Thread -> Depth]
    BY <2>1 DEF StackInv, Phase
  <2>3. \A t \in Kernel : KernelStack(t)'
    BY <2>1, <1>0 DEF KernelStack, StackInv
  <2>4. \A q \in Proc : phase'[q] # "kernel" /\ StackAt(q)'
    BY <2>1, <1>0 DEF StackInv, StackAt
  <2> QED
    BY <2>1, <2>2, <2>3, <2>4 DEF StackInv
<1>7. ASSUME NEW p \in Proc, TrapReturn(p) PROVE StackInv'
  <2>1. /\ cur = p /\ phase[p] = "trap" /\ phase' = [phase EXCEPT ![p] = "user"]
        /\ UNCHANGED <<cur, depth, kstack, proc, damaged>>
    BY <1>7 DEF TrapReturn, Running, Becomes, stack
  <2>2. phase' \in [Thread -> Phase]
    BY <2>1 DEF StackInv, Phase
  <2>3. \A t \in Kernel : KernelStack(t)'
    BY <2>1, <1>0 DEF KernelStack, StackInv
  <2>4. \A q \in Proc : phase'[q] # "kernel" /\ StackAt(q)'
    BY <2>1, <1>0 DEF StackInv, StackAt
  <2> QED
    BY <2>1, <2>2, <2>3, <2>4 DEF StackInv
<1>8. CASE KernelAlloc
  BY <1>8 DEF KernelAlloc, stack, StackInv, KernelStack, StackAt
<1>9. ASSUME NEW t \in Thread, Switch(t) PROVE StackInv'
  <2>1. /\ t # cur /\ phase[cur] \in {"kernel", "framed", "stacked", "trap"}
        /\ phase[t] \notin {"none", "pcb", "user"}
        /\ cur' = t /\ Pushed(cur, Pushes) /\ proc' = proc
        /\ kstack' = [kstack EXCEPT ![cur] = depth[cur] + Pushes]
        /\ depth' = [depth EXCEPT ![t] = kstack[t] - IF phase[t] = "made" THEN 5 ELSE Pushes]
        /\ phase' = IF phase[t] = "made" THEN [phase EXCEPT ![t] = "entered"] ELSE phase
    BY <1>9 DEF Switch
  <2>2. damaged' = {}
    BY <2>1, NothingCovered DEF StackInv
  <2>a. depth[cur] \in {0, 19, 111}
    <3>1. CASE phase[cur] = "kernel"
      BY <3>1, <1>0 DEF StackInv
    <3>2. CASE phase[cur] # "kernel"
      <4>1. cur \in Proc /\ StackAt(cur)
        BY <3>2, <1>0 DEF StackInv
      <4> QED
        BY <4>1, <3>2, <2>1 DEF StackAt
    <3> QED
      BY <3>1, <3>2
  <2>b. kstack[t] - (IF phase[t] = "made" THEN 5 ELSE Pushes) \in {0, 19, 103, 111}
    <3>1. CASE phase[t] = "kernel"
      BY <3>1, <2>1, <1>0 DEF StackInv
    <3>2. CASE phase[t] # "kernel"
      <4>1. t \in Proc /\ StackAt(t)
        BY <3>2, <1>0 DEF StackInv
      <4>2. phase[t] \in {"made", "framed", "stacked", "trap"}
        BY <4>1, <3>2, <2>1 DEF StackInv, StackAt, Phase
      <4> QED
        BY <4>1, <4>2, <2>1 DEF StackAt
    <3> QED
      BY <3>1, <3>2
  <2>c. /\ depth[cur] + Pushes \in Depth
        /\ kstack[t] - (IF phase[t] = "made" THEN 5 ELSE Pushes) \in Depth
    <3>1. \A n \in {0, 19, 111} : n + Pushes \in Depth
      OBVIOUS
    <3>2. \A n \in {0, 19, 103, 111} : n \in Depth
      OBVIOUS
    <3> QED
      BY <3>1, <3>2, <2>a, <2>b
  <2>3. /\ phase' \in [Thread -> Phase] /\ depth' \in [Thread -> Depth]
        /\ kstack' \in [Thread -> Depth]
    BY <2>1, <2>c DEF StackInv, Phase
  <2>4. cur \in Thread /\ kstack'[cur] = depth[cur] + Pushes /\ kstack'[t] = kstack[t]
    BY <2>1 DEF StackInv
  <2>5. depth'[t] = kstack[t] - IF phase[t] = "made" THEN 5 ELSE Pushes
    BY <2>1 DEF StackInv
  <2>6. /\ phase'[t] = IF phase[t] = "made" THEN "entered" ELSE phase[t]
        /\ \A u \in Thread : u # t => phase'[u] = phase[u]
        /\ \A u \in Thread : u # cur => kstack'[u] = kstack[u]
    BY <2>1 DEF StackInv
  <2>7. ASSUME NEW u \in Kernel PROVE KernelStack(u)'
    <3>1. u \in Thread /\ phase[u] = "kernel"
      BY <1>0
    <3>2. CASE u = t
      BY <3>1, <3>2, <2>1, <2>5, <2>6, <1>0 DEF KernelStack
    <3>3. CASE u = cur
      BY <3>1, <3>3, <2>1, <2>4, <2>6, <1>0 DEF KernelStack
    <3>4. CASE u # t /\ u # cur
      BY <3>1, <3>4, <2>1, <2>6, <1>0 DEF KernelStack
    <3> QED
      BY <3>2, <3>3, <3>4
  <2>8. ASSUME NEW q \in Proc PROVE phase'[q] # "kernel" /\ StackAt(q)'
    <3>1. q \in Thread /\ phase[q] # "kernel" /\ StackAt(q)
      BY <1>0 DEF StackInv
    <3>2. CASE q = t
      BY <3>1, <3>2, <2>1, <2>5, <2>4, <2>6 DEF StackAt
    <3>3. CASE q = cur
      BY <3>1, <3>3, <2>1, <2>4, <2>6 DEF StackAt
    <3>4. CASE q # t /\ q # cur
      BY <3>1, <3>4, <2>1, <2>6 DEF StackAt
    <3> QED
      BY <3>2, <3>3, <3>4
  <2> QED
    BY <2>1, <2>2, <2>3, <2>7, <2>8 DEF StackInv
<1>10. ASSUME NEW p \in Proc, process_execute_panics(p) \/ UserStackStops(p) PROVE StackInv'
  <2>1. UNCHANGED <<cur, phase, stack>>
    BY <1>10 DEF process_execute_panics, UserStackStops
  <2> QED
    BY <2>1 DEF stack, StackInv, KernelStack, StackAt
<1>11. CASE UNCHANGED vars
  BY <1>11 DEF vars, stack, StackInv, KernelStack, StackAt
<1> QED
  BY <1>1, <1>2, <1>3, <1>4, <1>5, <1>6, <1>7, <1>8, <1>9, <1>10, <1>11 DEF Next

LEMMA StackAlways == Spec => []StackInv
<1> QED
  BY StackInit, StackStep, PTL DEF Spec

(* The frame start_process builds for iretd lies in the process's own page *)
(* and is never pushed over, however many words get_a_page or an interrupt *)
(* push there and whoever runs while the process waits.                    *)
THEOREM FramesIntact == Spec => []FrameIntact
<1>1. StackInv => FrameIntact
  BY StackNumbers DEF StackInv, StackAt, FrameIntact
<1> QED
  BY <1>1, StackAlways, PTL

(* No stack pointer ever leaves the page of its thread, in either          *)
(* direction, nor do self_kstack and proc_stack.                           *)
THEOREM StacksInPage ==
  Spec => [](/\ depth \in [Thread -> 0 .. PageWords]
             /\ kstack \in [Thread -> 0 .. PageWords]
             /\ proc \in [Proc -> 0 .. PageWords])
<1>1. StackInv => /\ depth \in [Thread -> 0 .. PageWords]
                  /\ kstack \in [Thread -> 0 .. PageWords]
                  /\ proc \in [Proc -> 0 .. PageWords]
  BY DEF StackInv, Depth
<1> QED
  BY <1>1, StackAlways, PTL

-----------------------------------------------------------------------------
(***************************************************************************)
(* Page tables.  First the arithmetic of addresses, in two indices and an  *)
(* offset (At), and what the pointers into the tables reach (Reaches); then*)
(* what page tables and books say of each other (PagesOK) and that a page  *)
(* of the kernel, a directory and a page of a stack keep it; then PageInv. *)
(***************************************************************************)

\* Quotient and remainder.
LEMMA Division ==
  ASSUME NEW c \in Nat \ {0}, NEW q \in Nat, NEW r \in 0 .. c - 1
  PROVE  ((c * q) + r) \div c = q /\ ((c * q) + r) % c = r
OBVIOUS

(* The sizes, of which only what is said here matters.                     *)
LEMMA Sizes ==
  /\ Entries \in Nat /\ Entries > 3 /\ Self = Entries - 1 /\ Index = 0 .. Self
  /\ FirstKernel \in Nat /\ 1 < FirstKernel /\ FirstKernel < Self
  /\ LowPages \in 0 .. Entries - 1
  /\ PG_SIZE = 4 * Entries /\ PG_SIZE \in Nat \ {0}
  /\ Span = Entries * PG_SIZE /\ Span \in Nat \ {0}
  /\ Space = Entries * Span /\ Space \in Nat
<1>1. Entries \in Nat
  BY PagingAssumption DEF Entries
<1>2. Entries > 3 /\ Self = Entries - 1 /\ Index = 0 .. Self
      /\ FirstKernel \in Nat /\ 1 < FirstKernel /\ FirstKernel < Self
      /\ LowPages \in 0 .. Entries - 1
  BY <1>1, PagingAssumption DEF Self, Index
<1>3. PG_SIZE = 4 * Entries /\ PG_SIZE \in Nat \ {0}
  BY <1>1, <1>2 DEF PG_SIZE
<1>4. \A x, y \in Nat \ {0} : x * y \in Nat \ {0}
  OBVIOUS
<1>5. Span = Entries * PG_SIZE /\ Span \in Nat \ {0}
  BY <1>1, <1>2, <1>3, <1>4 DEF Span
<1>6. Space = Entries * Span /\ Space \in Nat
  BY <1>1, <1>2, <1>5, <1>4 DEF Space
<1> QED
  BY <1>1, <1>2, <1>3, <1>5, <1>6

(* What of it has no product.                                              *)
LEMMA Indices ==
  /\ Self \in Nat /\ Index = 0 .. Self /\ FirstKernel \in Nat
  /\ 1 < FirstKernel /\ FirstKernel < Self
  /\ FirstKernel .. Self - 1 \subseteq Index /\ 0 .. FirstKernel - 1 \subseteq Index
  /\ Self \in Index /\ 0 \in Index /\ 0 \in 0 .. PG_SIZE - 1
BY Sizes

(* A product grows with its first factor.                                  *)
LEMMA Grows ==
  ASSUME NEW c \in Nat \ {0}, NEW x \in Nat, NEW y \in Nat
  PROVE  /\ x < y <=> x * c < y * c
         /\ x = y <=> x * c = y * c
         /\ x < y => x * c + c <= y * c
<1>1. ASSUME NEW u \in Nat, NEW w \in Nat, u < w PROVE u * c + c <= w * c
  <2>1. PICK e \in Nat : w = u + 1 + e
    BY <1>1
  <2>2. w * c = u * c + c + e * c /\ e * c \in Nat
    BY <2>1
  <2> QED
    BY <2>2
<1>2. x < y => x * c + c <= y * c
  BY <1>1
<1>3. y < x => y * c + c <= x * c
  BY <1>1
<1> QED
  BY <1>2, <1>3

(* The address with the given indices and offset.                          *)
At(a, b, c) == a * Span + b * PG_SIZE + c

LEMMA Parts ==
  ASSUME NEW a \in Index, NEW b \in Index, NEW c \in 0 .. PG_SIZE - 1
  PROVE  LET v == At(a, b, c) IN
         /\ v \in Nat
         /\ PDE_IDX(v) = a /\ PTE_IDX(v) = b
         /\ v % PG_SIZE = c
         /\ v - (v % Span) = Span * a
<1> DEFINE v == At(a, b, c)
           r == b * PG_SIZE + c
           n == Entries * a + b
<1>1. a \in Nat /\ b \in Nat /\ b <= Entries - 1 /\ c \in Nat
  BY Sizes
<1>2. b * PG_SIZE + PG_SIZE <= Entries * PG_SIZE
  BY <1>1, Sizes, Grows
<1>3. r \in 0 .. Span - 1
  <2>1. b * PG_SIZE \in Nat
    BY <1>1, Sizes
  <2> QED
    BY <2>1, <1>1, <1>2, Sizes
<1>4. v = Span * a + r /\ Span * a \in Nat
  BY <1>1, Sizes DEF At
<1>5. v = PG_SIZE * n + c /\ n \in Nat
  <2>1. a * (Entries * PG_SIZE) = PG_SIZE * (Entries * a)
    BY <1>1, Sizes
  <2>2. PG_SIZE * (Entries * a + b) = PG_SIZE * (Entries * a) + PG_SIZE * b
    BY <1>1, Sizes
  <2>3. n \in Nat
    BY <1>1, Sizes
  <2> QED
    BY <2>1, <2>2, <2>3, <1>1, Sizes DEF At
<1> HIDE DEF r, v
<1>6. v \div Span = a /\ v % Span = r
  BY <1>1, <1>3, <1>4, Sizes, Division
<1>7. v - (v % Span) = Span * a /\ v \in Nat
  BY <1>3, <1>4, <1>6, Sizes
<1>8. v \div PG_SIZE = n /\ v % PG_SIZE = c
  <2> HIDE DEF n
  <2> QED
    BY <1>5, Sizes, Division
<1>9. n % Entries = b
  BY <1>1, Sizes, Division
<1> QED
  BY <1>6, <1>7, <1>8, <1>9 DEF v, PDE_IDX, PTE_IDX

(* Where pte_ptr and pde_ptr point to, and the words of a page.            *)
LEMMA Pointers ==
  ASSUME NEW a \in Index, NEW b \in Index, NEW c \in 0 .. PG_SIZE - 1
  PROVE  LET v == At(a, b, c) IN
         /\ pte_ptr(v) = At(Self, a, b * 4)
         /\ pde_ptr(v) = At(Self, Self, a * 4)
         /\ b * 4 \in 0 .. PG_SIZE - 1
         /\ (b * 4) \div 4 = b
<1> DEFINE v == At(a, b, c)
<1>1. a \in Nat /\ b \in Nat /\ b <= Entries - 1 /\ Self \in Nat
  BY Sizes
<1>2. v - (v % Span) = Span * a /\ PDE_IDX(v) = a /\ PTE_IDX(v) = b
  BY Parts
<1> HIDE DEF v
<1>3. (Span * a) \div Entries = a * PG_SIZE
  <2>1. Span * a = Entries * (PG_SIZE * a) + 0 /\ PG_SIZE * a \in Nat
    BY <1>1, Sizes
  <2>2. a * PG_SIZE = PG_SIZE * a
    BY <1>1, Sizes
  <2> DEFINE q == PG_SIZE * a
  <2> HIDE DEF q
  <2>3. (Entries * q + 0) \div Entries = q
    BY <2>1, Sizes, Division DEF q
  <2> QED
    BY <2>1, <2>2, <2>3 DEF q
<1>4. pte_ptr(v) = At(Self, a, b * 4)
  BY <1>2, <1>3 DEF pte_ptr, At
<1>5. Space - PG_SIZE = Self * Span + Self * PG_SIZE
  <2>1. Space = Self * Span + Span
    BY <1>1, Sizes
  <2>2. Span = Self * PG_SIZE + PG_SIZE
    BY <1>1, Sizes
  <2>3. Self * Span \in Nat /\ Self * PG_SIZE \in Nat
    BY <1>1, Sizes
  <2> QED
    BY <2>1, <2>2, <2>3, Sizes
<1>6. pde_ptr(v) = At(Self, Self, a * 4)
  BY <1>2, <1>5 DEF pde_ptr, At
<1>7. b * 4 \in 0 .. PG_SIZE - 1 /\ (b * 4) \div 4 = b
  BY <1>1, Sizes
<1> QED
  BY <1>4, <1>6, <1>7 DEF v

-----------------------------------------------------------------------------
Memory == [Word -> [Index -> Word]]
Zeros == [i \in Index |-> 0]

LEMMA Words ==
  /\ Frames \in Nat /\ Word = 0 .. Frames /\ 0 \in Word /\ KernelDir = 1
  /\ LowMemory \in Word /\ 2 < LowMemory /\ LowMemory < KernelEnd /\ LowMemory = 2 + Self - FirstKernel
  /\ KernelEnd \in Word /\ KernelEnd <= Frames
  /\ \A a \in FirstKernel .. Self - 1 : Table(a) \in 2 .. LowMemory - 1 /\ Table(a) = 2 + a - FirstKernel
  /\ Zeros \in [Index -> Word]
  /\ Self \in Index /\ 0 \in Index /\ 0 .. Self - 1 \subseteq Index
<1>1. Frames \in Nat /\ KernelEnd \in Int /\ KernelEnd <= Frames
      /\ KernelEnd > Entries - FirstKernel + 1
  BY PagingAssumption DEF KernelEnd
<1> QED
  BY <1>1, Sizes DEF Word, KernelDir, LowMemory, Table, Zeros

(* The processor, at an address in parts.                                  *)
LEMMA WalkParts ==
  ASSUME NEW m, NEW d, NEW a \in Index, NEW b \in Index, NEW c \in 0 .. PG_SIZE - 1
  PROVE  Walk(m, d, At(a, b, c)) = m[m[d][a]][b]
BY Parts DEF Walk

LEMMA WalkPage ==
  ASSUME NEW m, NEW d, NEW a \in Index, NEW b \in Index
  PROVE  Walk(m, d, At(a, b, 0)) = m[m[d][a]][b]
<1>1. 0 \in 0 .. PG_SIZE - 1
  BY Indices
<1> QED
  BY <1>1, WalkParts

(* What the pointers reach through a directory that maps itself.           *)
LEMMA Reaches ==
  ASSUME NEW m \in Memory, m[cr3][Self] = cr3,
         NEW a \in Index, NEW b \in Index, NEW c \in 0 .. PG_SIZE - 1
  PROVE  LET v == At(a, b, c) IN
         /\ Read(m, pte_ptr(v)) = m[m[cr3][a]][b]
         /\ Read(m, pde_ptr(v)) = m[cr3][a]
         /\ \A w : Write(m, pte_ptr(v), w) = [m EXCEPT ![m[cr3][a]][b] = w]
         /\ \A w : Write(m, pde_ptr(v), w) = [m EXCEPT ![cr3][a] = w]
         /\ Clear(m, Page(pte_ptr(v))) = [m EXCEPT ![m[cr3][a]] = Zeros]
<1> DEFINE v == At(a, b, c)
           t == At(Self, a, b * 4)
           u == At(Self, Self, a * 4)
<1>0. Self \in Index /\ a * 4 \in 0 .. PG_SIZE - 1 /\ b * 4 \in 0 .. PG_SIZE - 1
      /\ (a * 4) \div 4 = a /\ (b * 4) \div 4 = b /\ 0 \in 0 .. PG_SIZE - 1
  <2>1. \A x \in Index : x * 4 \in 0 .. PG_SIZE - 1 /\ (x * 4) \div 4 = x
    BY Sizes
  <2> QED
    BY <2>1, Indices
<1>1. pte_ptr(v) = t /\ pde_ptr(v) = u
  BY Pointers
<1>2. t % PG_SIZE = b * 4 /\ u % PG_SIZE = a * 4 /\ t \in Nat
  BY <1>0, Parts
<1>3. Walk(m, cr3, t) = m[cr3][a] /\ Walk(m, cr3, u) = cr3
  BY <1>0, WalkParts
<1>4. Page(t) = At(Self, a, 0)
  <2>1. At(Self, a, b * 4) - b * 4 = At(Self, a, 0)
    <3>1. Self * Span \in Nat /\ a * PG_SIZE \in Nat /\ b * 4 \in Nat
      BY Sizes
    <3> QED
      BY <3>1 DEF At
  <2> QED
    BY <2>1, <1>2 DEF Page
<1>5. Walk(m, cr3, Page(t)) = m[cr3][a]
  BY <1>0, <1>4, WalkParts
<1> HIDE DEF t, u, v
<1> QED
  BY <1>0, <1>1, <1>2, <1>3, <1>5 DEF v, Read, Write, Clear, Zeros

(* page_table_add where there is a table, and where there is not.          *)
LEMMA Entered ==
  ASSUME mem \in Memory, cr3 \in Word, mem[cr3][Self] = cr3,
         NEW a \in 0 .. Self - 1, NEW b \in Index, mem[cr3][a] # 0,
         NEW f \in Word, NEW last
  PROVE  LET v == At(a, b, 0)
             m == page_table_add(v, f, last)
         IN /\ ~ NeedsTable(v) /\ Read(mem, pte_ptr(v)) = mem[mem[cr3][a]][b]
            /\ m \in Memory
            /\ m[mem[cr3][a]] = [mem[mem[cr3][a]] EXCEPT ![b] = f]
            /\ \A x \in Word : x # mem[cr3][a] => m[x] = mem[x]
<1> DEFINE v == At(a, b, 0)
           T == mem[cr3][a]
<1>1. a \in Index /\ 0 \in 0 .. PG_SIZE - 1 /\ T \in Word
  BY Words, Indices DEF Memory
<1>2. /\ Read(mem, pte_ptr(v)) = mem[T][b] /\ Read(mem, pde_ptr(v)) = T
      /\ Write(mem, pte_ptr(v), f) = [mem EXCEPT ![T][b] = f]
  BY <1>1, Reaches
<1>3. ~ NeedsTable(v) /\ page_table_add(v, f, last) = [mem EXCEPT ![T][b] = f]
  BY <1>2 DEF NeedsTable, page_table_add, MapClearing
<1> HIDE DEF T, v
<1>4. /\ [mem EXCEPT ![T][b] = f] \in Memory
      /\ [mem EXCEPT ![T][b] = f][T] = [mem[T] EXCEPT ![b] = f]
      /\ \A x \in Word : x # T => [mem EXCEPT ![T][b] = f][x] = mem[x]
  BY <1>1 DEF Memory
<1> QED
  BY <1>2, <1>3, <1>4 DEF T, v

LEMMA EnteredNew ==
  ASSUME mem \in Memory, cr3 \in Word, mem[cr3][Self] = cr3,
         NEW a \in 0 .. Self - 1, NEW b \in Index, mem[cr3][a] = 0,
         NEW f \in Word, NEW last, NEW T \in Word, palloc(last) = T, T # cr3
  PROVE  LET v == At(a, b, 0)
             m == page_table_add(v, f, last)
         IN /\ NeedsTable(v)
            /\ m \in Memory
            /\ m[cr3] = [mem[cr3] EXCEPT ![a] = T]
            /\ m[T] = [Zeros EXCEPT ![b] = f]
            /\ \A x \in Word : x \notin {cr3, T} => m[x] = mem[x]
<1> DEFINE v == At(a, b, 0)
           m1 == [mem EXCEPT ![cr3][a] = T]
           m2 == [m1 EXCEPT ![T] = Zeros]
           m3 == [m2 EXCEPT ![T][b] = f]
<1>1. a \in Index /\ a # Self /\ 0 \in 0 .. PG_SIZE - 1 /\ T \in Word
  BY Words, Indices
<1>r. ASSUME NEW m \in Memory, m[cr3][Self] = cr3
      PROVE  /\ Clear(m, Page(pte_ptr(v))) = [m EXCEPT ![m[cr3][a]] = Zeros]
             /\ Write(m, pte_ptr(v), f) = [m EXCEPT ![m[cr3][a]][b] = f]
  BY <1>1, <1>r, Reaches
<1>2. /\ Read(mem, pde_ptr(v)) = 0
      /\ Write(mem, pde_ptr(v), T) = m1
  BY <1>1, Reaches
<1> HIDE DEF v
<1>3. m1 \in Memory /\ m1[cr3] = [mem[cr3] EXCEPT ![a] = T] /\ \A x \in Word : x # cr3 => m1[x] = mem[x]
  BY <1>1 DEF Memory
<1>4. m1[cr3][Self] = cr3 /\ m1[cr3][a] = T
  BY <1>1, <1>3, Words DEF Memory
<1> HIDE DEF m1
<1>5. Clear(m1, Page(pte_ptr(v))) = m2
  <2>1. Clear(m1, Page(pte_ptr(v))) = [m1 EXCEPT ![m1[cr3][a]] = Zeros]
    BY <1>1, <1>3, <1>4, <1>r
  <2> QED
    BY <2>1, <1>4
<1>6. m2 \in Memory /\ m2[T] = Zeros /\ \A x \in Word : x # T => m2[x] = m1[x]
  BY <1>1, <1>3, Words DEF Memory
<1>7. m2[cr3] = m1[cr3] /\ T # cr3
  BY <1>6
<1> HIDE DEF m2
<1>8. Write(m2, pte_ptr(v), f) = m3
  <2>1. m2[cr3][Self] = cr3 /\ m2[cr3][a] = T
    BY <1>4, <1>7
  <2> QED
    <3>1. Write(m2, pte_ptr(v), f) = [m2 EXCEPT ![m2[cr3][a]][b] = f]
      BY <1>1, <1>6, <2>1, <1>r
    <3> QED
      BY <3>1, <2>1
<1>9. m3 \in Memory /\ m3[T] = [Zeros EXCEPT ![b] = f] /\ \A x \in Word : x # T => m3[x] = m2[x]
  BY <1>1, <1>6 DEF Memory
<1> HIDE DEF m3
<1>10. NeedsTable(v) /\ page_table_add(v, f, last) = m3
  BY <1>2, <1>5, <1>8 DEF NeedsTable, page_table_add, MapClearing, TableCleared
<1>11. m3[cr3] = [mem[cr3] EXCEPT ![a] = T]
  BY <1>3, <1>7, <1>9
<1>12. \A x \in Word : x \notin {cr3, T} => m3[x] = mem[x]
  BY <1>3, <1>6, <1>9
<1> QED
  BY <1>9, <1>10, <1>11, <1>12 DEF v

-----------------------------------------------------------------------------
(* Pages by number, and by their two indices.                              *)
LEMMA PageNumbers ==
  ASSUME NEW a \in Index, NEW b \in Index
  PROVE  /\ a * Entries + b \in Nat
         /\ At(a, b, 0) = (a * Entries + b) * PG_SIZE
         /\ a * Entries + b < (a + 1) * Entries
         /\ a * Entries <= a * Entries + b
<1>1. a \in Nat /\ b \in Nat /\ b < Entries
  BY Sizes
<1>2. a * Entries \in Nat
  BY <1>1, Sizes
<1>3. a * (Entries * PG_SIZE) = (a * Entries) * PG_SIZE
  BY <1>1, Sizes
<1>4. (a * Entries + b) * PG_SIZE = (a * Entries) * PG_SIZE + b * PG_SIZE
  BY <1>1, <1>2, Sizes
<1>5. (a + 1) * Entries = a * Entries + Entries
  BY <1>1, Sizes
<1>6. At(a, b, 0) = (a * Entries) * PG_SIZE + b * PG_SIZE
  BY <1>1, <1>2, <1>3, Sizes DEF At
<1>7. At(a, b, 0) = (a * Entries + b) * PG_SIZE
  BY <1>4, <1>6
<1>8. \A n, e, x, y \in Nat : x < e /\ y = n + e => n + x \in Nat /\ n + x < y /\ n <= n + x
  OBVIOUS
<1>9. (a + 1) * Entries \in Nat
  BY <1>2, <1>5, Sizes
<1> QED
  BY <1>1, <1>2, <1>5, <1>7, <1>8, <1>9, Sizes

LEMMA NumberParts ==
  ASSUME NEW first \in Nat, NEW last \in Nat, NEW i \in Nat,
         first * Entries <= i, i < (last + 1) * Entries, last <= Self
  PROVE  \E a \in first .. last, b \in Index : i = a * Entries + b
<1> DEFINE a == i \div Entries
           b == i % Entries
<1>1. a \in Nat /\ b \in Index /\ i = a * Entries + b
  BY Sizes
<1>2. b \in Nat /\ b < Entries
  BY <1>1, Sizes
<1> HIDE DEF a, b
<1>3. a <= last
  <2> SUFFICES ASSUME last + 1 <= a PROVE FALSE
    BY <1>1
  <2>1. (last + 1) * Entries <= a * Entries
    BY <1>1, Sizes, Grows
  <2>2. a * Entries \in Nat /\ (last + 1) * Entries \in Nat
    BY <1>1, Sizes
  <2> QED
    BY <1>1, <1>2, <2>1, <2>2
<1>4. first <= a
  <2> SUFFICES ASSUME a + 1 <= first PROVE FALSE
    BY <1>1
  <2>1. (a + 1) * Entries <= first * Entries
    BY <1>1, Sizes, Grows
  <2>2. (a + 1) * Entries = a * Entries + Entries
    BY <1>1, Sizes
  <2>3. a * Entries \in Nat /\ first * Entries \in Nat
    BY <1>1, Sizes
  <2> QED
    BY <1>1, <1>2, <2>1, <2>2, <2>3, Sizes
<1> QED
  BY <1>1, <1>3, <1>4

LEMMA PageParts ==
  ASSUME NEW first \in Nat, NEW last \in Nat, last <= Self
  PROVE  /\ \A v \in Pages(first, last) :
              \E a \in first .. last, b \in Index : v = At(a, b, 0)
         /\ \A a \in first .. last, b \in Index : At(a, b, 0) \in Pages(first, last)
<1>0. first * Entries \in Nat /\ (last + 1) * Entries \in Nat /\ Self \in Nat
      /\ first .. last \subseteq Index
  BY Sizes
<1>1. ASSUME NEW v \in Pages(first, last)
      PROVE  \E a \in first .. last, b \in Index : v = At(a, b, 0)
  <2>1. PICK i \in first * Entries .. (last + 1) * Entries - 1 : v = i * PG_SIZE
    BY DEF Pages
  <2>2. i \in Nat /\ first * Entries <= i /\ i < (last + 1) * Entries
    BY <1>0, <2>1
  <2>3. PICK a \in first .. last, b \in Index : i = a * Entries + b
    BY <2>2, NumberParts
  <2> QED
    BY <1>0, <2>1, <2>3, PageNumbers
<1>2. ASSUME NEW a \in first .. last, NEW b \in Index PROVE At(a, b, 0) \in Pages(first, last)
  <2> DEFINE i == a * Entries + b
  <2>1. i \in Nat /\ At(a, b, 0) = i * PG_SIZE /\ i < (a + 1) * Entries /\ a * Entries <= i
        /\ a \in Nat
    BY <1>0, PageNumbers
  <2> HIDE DEF i
  <2>2. first * Entries <= a * Entries /\ (a + 1) * Entries <= (last + 1) * Entries
    <3>1. \A x, y \in Nat : x <= y => x * Entries <= y * Entries
      BY Sizes, Grows
    <3> QED
      BY <3>1, <2>1
  <2>3. a * Entries \in Nat /\ (a + 1) * Entries \in Nat
    BY <2>1, Sizes
  <2>4. i \in first * Entries .. (last + 1) * Entries - 1
    BY <1>0, <2>1, <2>2, <2>3
  <2> QED
    BY <2>1, <2>4 DEF Pages
<1> QED
  BY <1>1, <1>2

(* Different pages have different addresses.                               *)
LEMMA PageUnique ==
  ASSUME NEW a \in Index, NEW b \in Index, NEW c \in Index, NEW d \in Index
  PROVE  At(a, b, 0) = At(c, d, 0) <=> a = c /\ b = d
<1>1. 0 \in 0 .. PG_SIZE - 1
  BY Indices
<1> QED
  BY <1>1, Parts

LEMMA Halves ==
  /\ \A v : v \in KernelPages <=>
       \E a \in FirstKernel .. Self - 1, b \in Index : v = At(a, b, 0)
  /\ \A v : v \in UserPages <=>
       \E a \in 0 .. FirstKernel - 1, b \in Index : v = At(a, b, 0)
  /\ Stack = At(FirstKernel - 1, Self, 0) /\ Stack \in UserPages
  /\ \A v : v \in Low <=> \E b \in 0 .. LowPages - 1 : v = At(FirstKernel, b, 0)
  /\ 0 \notin KernelPages
<1>1. /\ FirstKernel .. Self - 1 \subseteq Index /\ 0 .. FirstKernel - 1 \subseteq Index
      /\ 0 .. LowPages - 1 \subseteq Index /\ Self \in Index
      /\ Self - 1 \in Nat /\ FirstKernel - 1 \in Nat
  BY Sizes
<1>2. \A v : v \in KernelPages <=>
        \E a \in FirstKernel .. Self - 1, b \in Index : v = At(a, b, 0)
  <2>1. FirstKernel \in Nat /\ Self - 1 \in Nat /\ Self - 1 <= Self
    BY <1>1, Sizes
  <2>2. \A v \in Pages(FirstKernel, Self - 1) :
          \E a \in FirstKernel .. Self - 1, b \in Index : v = At(a, b, 0)
    BY <2>1, PageParts
  <2>3. \A a \in FirstKernel .. Self - 1, b \in Index :
          At(a, b, 0) \in Pages(FirstKernel, Self - 1)
    BY <2>1, PageParts
  <2> QED
    BY <2>2, <2>3 DEF KernelPages
<1>3. \A v : v \in UserPages <=>
        \E a \in 0 .. FirstKernel - 1, b \in Index : v = At(a, b, 0)
  <2>1. 0 \in Nat /\ FirstKernel - 1 \in Nat /\ FirstKernel - 1 <= Self
    BY <1>1, Sizes
  <2>2. \A v \in Pages(0, FirstKernel - 1) :
          \E a \in 0 .. FirstKernel - 1, b \in Index : v = At(a, b, 0)
    BY <2>1, PageParts
  <2>3. \A a \in 0 .. FirstKernel - 1, b \in Index :
          At(a, b, 0) \in Pages(0, FirstKernel - 1)
    BY <2>1, PageParts
  <2> QED
    BY <2>2, <2>3 DEF UserPages
<1>4. Stack = At(FirstKernel - 1, Self, 0)
  <2>1. Span = Self * PG_SIZE + PG_SIZE
    BY Sizes
  <2>2. FirstKernel * Span = (FirstKernel - 1) * Span + Span
    BY Sizes
  <2>3. (FirstKernel - 1) * Span \in Nat /\ Self * PG_SIZE \in Nat
    BY <1>1, Sizes
  <2> QED
    BY <2>1, <2>2, <2>3, Sizes DEF Stack, At
<1>5. \A b \in Nat : At(FirstKernel, b, 0) = FirstKernel * Span + b * PG_SIZE
  <2>1. FirstKernel * Span \in Nat /\ \A b \in Nat : b * PG_SIZE \in Nat
    BY Sizes
  <2> QED
    BY <2>1 DEF At
<1>6. \A v : v \in Low <=> \E b \in 0 .. LowPages - 1 : v = At(FirstKernel, b, 0)
  <2>1. 0 .. LowPages - 1 \subseteq Nat
    OBVIOUS
  <2> QED
    BY <1>5, <2>1 DEF Low
<1>7. 0 \notin KernelPages
  <2> SUFFICES ASSUME NEW a \in FirstKernel .. Self - 1, NEW b \in Index, 0 = At(a, b, 0)
               PROVE  FALSE
    BY <1>2
  <2>1. 0 \in Index /\ a \in Index /\ At(0, 0, 0) = 0
    BY Sizes, <1>1 DEF At
  <2>2. a = 0
    BY <2>1, PageUnique
  <2> QED
    BY <2>2, Sizes
<1> QED
  BY <1>1, <1>2, <1>3, <1>4, <1>6, <1>7

LEMMA HalvesApart ==
  /\ \A a \in FirstKernel .. Self - 1, b \in Index : At(a, b, 0) \notin UserPages
  /\ \A a \in 0 .. FirstKernel - 1, b \in Index : At(a, b, 0) \notin KernelPages
<1>1. /\ FirstKernel .. Self - 1 \subseteq Index /\ 0 .. FirstKernel - 1 \subseteq Index
      /\ (FirstKernel .. Self - 1) \cap (0 .. FirstKernel - 1) = {}
  BY Indices
<1>2. \A a \in FirstKernel .. Self - 1, x \in 0 .. FirstKernel - 1, b, y \in Index :
        At(a, b, 0) # At(x, y, 0)
  BY <1>1, PageUnique
<1> QED
  BY <1>2, Halves

-----------------------------------------------------------------------------
(***************************************************************************)
(* What page tables and the kernel's books say of each other, for any      *)
(* content m of memory, number tk of frames that are taken, pages gv that  *)
(* were given away and directories pg of the threads.                      *)
(***************************************************************************)

Given(gv, d, v) == {f \in Word : <<d, v, f>> \in gv}

\* The frame of a thread's directory, and of the table of a stack page.
DirAt(m, pg, t) == IF pg[t] = 0 THEN KernelDir ELSE Walk(m, KernelDir, pg[t])
Dirs(m, pg) == {DirAt(m, pg, t) : t \in Thread}
StackTable(m, d) == m[d][FirstKernel - 1]

(* A directory: it maps itself and the kernel's tables; below those it has *)
(* no table but that of a stack page.  The kernel's maps its first table   *)
(* at address 0 as well.                                                   *)
DirOK(m, tk, d) ==
  /\ m[d][Self] = d
  /\ \A a \in FirstKernel .. Self - 1 : m[d][a] = Table(a)
  /\ \A a \in 0 .. FirstKernel - 2 :
       m[d][a] = IF d = KernelDir /\ a = 0 THEN Table(FirstKernel) ELSE 0
  /\ StackTable(m, d) # 0 =>
       /\ StackTable(m, d) \in LowMemory + 1 .. tk
       /\ m[StackTable(m, d)][Self] # 0

(* The directory of a process is a page of the kernel and its own.         *)
OwnDirs(m, tk, pg) ==
  /\ \A t \in Thread : pg[t] # 0 =>
       t \in Proc /\ pg[t] \in KernelPages /\ DirAt(m, pg, t) \in LowMemory + 1 .. tk
  /\ \A t, u \in Thread : pg[t] # 0 /\ pg[u] # 0 /\ DirAt(m, pg, t) = DirAt(m, pg, u) => t = u

(* A table of a stack is in one directory, and is no directory itself.     *)
OwnTables(m, pg) ==
  \A d, e \in Dirs(m, pg) :
    /\ StackTable(m, d) # e
    /\ StackTable(m, d) # 0 /\ StackTable(m, d) = StackTable(m, e) => d = e

(* The pages of the kernel, and those of whoever runs in a directory.      *)
KernelMaps(m, gv) ==
  \A a \in FirstKernel .. Self - 1, b \in Index :
    Given(gv, KernelDir, At(a, b, 0)) = {m[Table(a)][b]} \ {0}

UserMaps(m, gv, d) ==
  /\ \A a \in 0 .. FirstKernel - 2, b \in Index : Given(gv, d, At(a, b, 0)) = {}
  /\ \A b \in Index :
       Given(gv, d, At(FirstKernel - 1, b, 0)) = {m[StackTable(m, d)][b]} \ {0}

(* The kernel's heap has been given away page by page, and there is one    *)
(* frame at least for each page.                                           *)
HeapTo(m, n) ==
  \A a \in FirstKernel .. Self - 1, b \in Index :
    m[Table(a)][b] # 0 <=> a * Entries + b < FirstKernel * Entries + LowPages + n

PagesOK(m, tk, gv, pg) ==
  /\ LowMemory <= tk
  /\ m[0] = Zeros
  /\ \A d \in Dirs(m, pg) : DirOK(m, tk, d) /\ UserMaps(m, gv, d)
  /\ OwnDirs(m, tk, pg) /\ OwnTables(m, pg)
  /\ KernelMaps(m, gv)
  /\ \A g \in gv : g[1] \in 0 .. tk
  /\ \E n \in 0 .. tk - LowMemory : HeapTo(m, n)

PhaseOK ==
  /\ \A p \in Proc : phase[p] \in {"none", "pcb"} => pgdir[p] = 0
  /\ \A p \in Proc : phase[p] \notin {"none", "pcb"} /\ pgdir[p] = 0 => taken = KernelEnd
  /\ \A p \in Proc : phase[p] \in {"stacked", "user", "trap"} => pgdir[p] # 0
  /\ halted \notin {"assert", "low"} => \A p \in Proc :
       pgdir[p] # 0 /\ phase[p] \in {"made", "entered", "framed"} =>
         StackTable(mem, DirAt(mem, pgdir, p)) = 0

\* What the processor uses.
UsesOK ==
  /\ ~ activated => cr3 = KernelDir
  /\ activated => /\ halted # "assert" /\ astray = {}
                  /\ cr3 = DirAt(mem, pgdir, cur)
                  /\ pgdir[cur] # 0 => esp0 = cur

\* Which end of the machine shows what, and a lock that was kept.
HaltOK ==
  /\ halted \in {"panic", "low"} => taken = KernelEnd
  /\ halted = "fault" => activated /\ ~ bitmap
  /\ halted = "low" => \A t \in Thread : DirOf(t) = {DirAt(mem, pgdir, t)}
  /\ kept # NULL => utaken = Frames

TakenOK ==
  /\ taken \in Word /\ LowMemory <= taken /\ taken <= KernelEnd
  /\ utaken \in KernelEnd .. Frames

PageInv ==
  /\ mem \in Memory /\ (halted # "low" => mem[0] = Zeros) /\ mem[cr3][Self] = cr3
  /\ cr3 \in Word /\ activated \in BOOLEAN /\ bitmap \in BOOLEAN
  /\ TakenOK
  /\ halted \in {"no", "assert", "panic", "fault", "low"} /\ kept \in Proc \union {NULL}
  /\ given \subseteq Word \X (KernelPages \union UserPages) \X Word
  /\ esp0 \in Proc \union {NULL} /\ pgdir \in [Thread -> KernelPages \union {0}]
  /\ astray \subseteq Proc
  /\ halted \notin {"assert", "low"} => PagesOK(mem, taken, given, pgdir)
  /\ PhaseOK /\ UsesOK /\ HaltOK

-----------------------------------------------------------------------------
(* What is used to run in.                                                 *)
LEMMA DirFacts ==
  ASSUME NEW m, NEW tk \in Word, NEW gv, NEW pg, PagesOK(m, tk, gv, pg), NEW d \in Dirs(m, pg)
  PROVE  /\ d \in Word \ {0}
         /\ d = KernelDir \/ d \in LowMemory + 1 .. tk
         /\ DirOK(m, tk, d) /\ UserMaps(m, gv, d)
         /\ StackTable(m, d) \in {0} \union LowMemory + 1 .. tk
<1>1. d = KernelDir \/ d \in LowMemory + 1 .. tk
  BY DEF Dirs, DirAt, PagesOK, OwnDirs
<1>2. DirOK(m, tk, d) /\ UserMaps(m, gv, d)
  BY DEF PagesOK
<1> QED
  BY <1>1, <1>2, Words DEF DirOK

LEMMA Counts ==
  ASSUME NEW m, NEW tk \in Word, NEW gv, NEW pg, PagesOK(m, tk, gv, pg)
  PROVE  /\ LowMemory \in Nat /\ 2 < LowMemory /\ LowMemory <= tk /\ tk \in Nat
         /\ Frames \in Nat /\ Word = 0 .. Frames /\ KernelDir = 1
         /\ \A a \in FirstKernel .. Self - 1 : Table(a) \in 2 .. LowMemory - 1 /\ Table(a) \in Word
<1>1. LowMemory <= tk
  BY DEF PagesOK
<1>2. \A a \in FirstKernel .. Self - 1 : Table(a) \in 2 .. LowMemory - 1
  BY Words
<1>3. /\ LowMemory \in Nat /\ 2 < LowMemory
      /\ Frames \in Nat /\ Word = 0 .. Frames /\ KernelDir = 1
  BY Words
<1> QED
  BY <1>1, <1>2, <1>3

LEMMA TablesApart ==
  \A x, y \in FirstKernel .. Self - 1 : Table(x) = Table(y) <=> x = y
<1>1. FirstKernel \in Nat /\ Self \in Nat
  BY Indices
<1> QED
  BY <1>1 DEF Table

(* Page m of the kernel, as get_kernel_pages finds it.                     *)
NextPage(a, b) ==
  /\ a \in FirstKernel .. Self - 1 /\ b \in Index
  /\ vaddr_get = At(a, b, 0) /\ mem[Table(a)][b] = 0
  /\ \E n \in 0 .. taken - LowMemory :
       HeapTo(mem, n) /\ a * Entries + b = FirstKernel * Entries + LowPages + n

LEMMA HeapNext ==
  ASSUME mem \in Memory, taken \in Word, taken < KernelEnd, PagesOK(mem, taken, given, pgdir)
  PROVE  \E a, b : NextPage(a, b)
<1> DEFINE first == FirstKernel * Entries
           Free == {v \in KernelPages \ Low : \A f \in Word : <<KernelDir, v, f>> \notin given}
<1>1. PICK n \in 0 .. taken - LowMemory : HeapTo(mem, n)
  BY DEF PagesOK
<1>2. first \in Nat /\ n \in Nat /\ LowPages \in Nat /\ n < KernelEnd - LowMemory
  BY Words, Sizes
<1>3. first + LowPages + n < Self * Entries
  <2>1. KernelEnd - LowMemory <= (Self - FirstKernel) * Entries - LowPages
    BY PagingAssumption, Words, Sizes
  <2>2. (Self - FirstKernel) * Entries + first = Self * Entries
    BY Sizes
  <2>3. (Self - FirstKernel) * Entries \in Int /\ Self * Entries \in Int
    BY Sizes
  <2> HIDE DEF first
  <2> QED
    BY SMTT(30), <1>2, <2>1, <2>2, <2>3, Words
<1>4. \E a \in FirstKernel .. Self - 1, b \in Index : first + LowPages + n = a * Entries + b
  <2> DEFINE k == first + LowPages + n
  <2>1. (Self - 1) + 1 = Self /\ Self - 1 \in Nat /\ Self - 1 <= Self /\ FirstKernel \in Nat
    BY Indices
  <2>2. k \in Nat /\ first <= k
    <3> HIDE DEF first
    <3> QED
      BY <1>2
  <2>3. k < ((Self - 1) + 1) * Entries
    BY <1>3, <2>1
  <2> HIDE DEF k
  <2>4. \E a \in FirstKernel .. Self - 1, b \in Index : k = a * Entries + b
    BY <2>1, <2>2, <2>3, NumberParts
  <2> QED
    BY <2>4 DEF k
<1>5. PICK a \in FirstKernel .. Self - 1, b \in Index : first + LowPages + n = a * Entries + b
  BY <1>4
<1>6. FirstKernel .. Self - 1 \subseteq Index /\ 0 .. LowPages - 1 \subseteq Index
      /\ FirstKernel \in FirstKernel .. Self - 1
  BY Sizes
<1>7. \A x \in FirstKernel .. Self - 1, y \in Index :
        (\A f \in Word : <<KernelDir, At(x, y, 0), f>> \notin given) <=> mem[Table(x)][y] = 0
  <2> SUFFICES ASSUME NEW x \in FirstKernel .. Self - 1, NEW y \in Index
               PROVE  (\A f \in Word : <<KernelDir, At(x, y, 0), f>> \notin given)
                        <=> mem[Table(x)][y] = 0
    OBVIOUS
  <2>1. Given(given, KernelDir, At(x, y, 0)) = {mem[Table(x)][y]} \ {0}
    BY DEF PagesOK, KernelMaps
  <2>2. (\A f \in Word : <<KernelDir, At(x, y, 0), f>> \notin given)
          <=> Given(given, KernelDir, At(x, y, 0)) = {}
    BY DEF Given
  <2> QED
    BY <2>1, <2>2
<1>8. \A x \in FirstKernel .. Self - 1, y \in Index :
        mem[Table(x)][y] = 0 <=> ~ (x * Entries + y < first + LowPages + n)
  BY <1>1 DEF HeapTo
<1>9. mem[Table(a)][b] = 0
  <2>1. a * Entries + b \in Nat
    BY <1>6, PageNumbers
  <2> HIDE DEF first
  <2> QED
    BY <1>5, <1>8, <2>1
<1>10. \A y \in 0 .. LowPages - 1 : mem[Table(FirstKernel)][y] # 0
  <2> SUFFICES ASSUME NEW y \in 0 .. LowPages - 1 PROVE mem[Table(FirstKernel)][y] # 0
    OBVIOUS
  <2>1. FirstKernel * Entries + y < first + LowPages + n
    BY <1>2
  <2> QED
    BY <1>6, <1>8, <2>1
<1>11. \A x \in FirstKernel .. Self - 1, y \in Index :
         At(x, y, 0) \in Free <=> mem[Table(x)][y] = 0
  <2> SUFFICES ASSUME NEW x \in FirstKernel .. Self - 1, NEW y \in Index
               PROVE  At(x, y, 0) \in Free <=> mem[Table(x)][y] = 0
    OBVIOUS
  <2>1. At(x, y, 0) \in KernelPages
    BY Halves
  <2>2. At(x, y, 0) \in Low => mem[Table(x)][y] # 0
    BY <1>6, <1>10, Halves, PageUnique
  <2> QED
    BY <1>7, <2>1, <2>2
<1>12. \A v \in Free : \E x \in FirstKernel .. Self - 1, y \in Index : v = At(x, y, 0)
  BY Halves
<1>13. \A x \in FirstKernel .. Self - 1, y \in Index :
         mem[Table(x)][y] = 0 => At(a, b, 0) <= At(x, y, 0)
  <2> SUFFICES ASSUME NEW x \in FirstKernel .. Self - 1, NEW y \in Index, mem[Table(x)][y] = 0
               PROVE  At(a, b, 0) <= At(x, y, 0)
    OBVIOUS
  <2> DEFINE i == a * Entries + b
             j == x * Entries + y
  <2>1. i \in Nat /\ j \in Nat /\ At(a, b, 0) = i * PG_SIZE /\ At(x, y, 0) = j * PG_SIZE
    BY <1>6, PageNumbers
  <2>2. ~ (j < i)
    BY <1>5, <1>8
  <2> HIDE DEF i, j
  <2>3. i * PG_SIZE \in Nat /\ j * PG_SIZE \in Nat
    <3>1. \A z \in Nat : z * PG_SIZE \in Nat
      BY Sizes
    <3> QED
      BY <2>1, <3>1
  <2>4. i = j \/ i < j
    BY <2>1, <2>2
  <2>5. i < j => i * PG_SIZE < j * PG_SIZE
    BY <2>1, Sizes, Grows
  <2> QED
    BY <2>1, <2>3, <2>4, <2>5
<1>14. \A x \in FirstKernel .. Self - 1, y \in Index : At(x, y, 0) \in Nat
  <2>1. 0 \in 0 .. PG_SIZE - 1
    BY Indices
  <2> QED
    BY <1>6, <2>1, Parts
<1>15. vaddr_get = At(a, b, 0)
  <2>1. At(a, b, 0) \in Free /\ \A v \in Free : At(a, b, 0) <= v
    BY <1>9, <1>11, <1>12, <1>13
  <2>2. \A v \in Free : v \in Nat
    BY <1>12, <1>14
  <2>3. vaddr_get = Min(Free)
    BY DEF vaddr_get
  <2> HIDE DEF Free
  <2> QED
    BY <2>1, <2>2, <2>3 DEF Min
<1> QED
  BY <1>1, <1>5, <1>9, <1>15 DEF NextPage

LEMMA KernelDirUsed ==
  ASSUME NEW m, NEW tk, NEW gv, NEW pg, PagesOK(m, tk, gv, pg)
  PROVE  KernelDir \in Dirs(m, pg)
<1>1. Main \in Thread /\ pg[Main] = 0
  BY ProcessAssumption DEF PagesOK, OwnDirs, Thread
<1> QED
  BY <1>1 DEF Dirs, DirAt

LEMMA Replaced ==
  ASSUME NEW n \in Memory, NEW f \in Word, NEW w \in [Index -> Word]
  PROVE  /\ [n EXCEPT ![f] = w] \in Memory /\ [n EXCEPT ![f] = w][f] = w
         /\ \A x \in Word : x # f => [n EXCEPT ![f] = w][x] = n[x]
BY DEF Memory

(* A page of the kernel has been entered in its table, and its frame f     *)
(* has the words w.                                                        *)
Gains(m, n, a, b, f, w) ==
  /\ n \in Memory
  /\ n[Table(a)] = [m[Table(a)] EXCEPT ![b] = f]
  /\ n[f] = w
  /\ \A x \in Word : x \notin {Table(a), f} => n[x] = m[x]

NewDir(f) ==
  [i \in Index |-> IF i = Self THEN f ELSE IF i >= FirstKernel THEN Table(i) ELSE 0]

(* get_kernel_pages maps a page that is clear, and create_page_dir makes   *)
(* it a directory that maps itself and what the kernel's maps.             *)
LEMMA FoundPage ==
  ASSUME mem \in Memory, taken \in Word, PagesOK(mem, taken, given, pgdir), cr3 = KernelDir,
         NEW a, NEW b, NextPage(a, b), taken + 1 \in Word
  PROVE  LET v == vaddr_get IN
         /\ ~ NeedsTable(v) /\ Read(mem, pte_ptr(v)) = 0 /\ Owner(v) = KernelDir
         /\ Gains(mem, Allocated(v), a, b, taken + 1, Zeros)
<1> DEFINE v == vaddr_get
           T == Table(a)
           f == taken + 1
           m1 == page_table_add(v, f, f)
<1>1. /\ a \in FirstKernel .. Self - 1 /\ a \in Index /\ a \in 0 .. Self - 1 /\ b \in Index
      /\ a # Self /\ v = At(a, b, 0) /\ mem[T][b] = 0 /\ T \in Word /\ T # 0
      /\ 0 \in 0 .. PG_SIZE - 1
  BY Indices, Counts DEF NextPage
<1>2. DirOK(mem, taken, KernelDir)
  BY KernelDirUsed DEF PagesOK
<1>3. /\ cr3 \in Word /\ mem[cr3][Self] = cr3 /\ mem[cr3][a] = T
      /\ f \in Word /\ f # T /\ T # cr3 /\ f # cr3
  <2>1. T \in 2 .. LowMemory - 1 /\ LowMemory <= taken /\ taken \in Nat /\ LowMemory \in Nat
        /\ KernelDir = 1 /\ 1 \in Word /\ 2 < LowMemory
    BY <1>1, Counts
  <2>2. mem[cr3][Self] = cr3 /\ mem[cr3][a] = T
    BY <1>1, <1>2 DEF DirOK
  <2> HIDE DEF T
  <2> QED
    BY <2>1, <2>2
<1> HIDE DEF T, f
<1>4. /\ ~ NeedsTable(v) /\ Read(mem, pte_ptr(v)) = mem[T][b]
      /\ m1 \in Memory /\ m1[T] = [mem[T] EXCEPT ![b] = f]
      /\ \A x \in Word : x # T => m1[x] = mem[x]
  BY <1>1, <1>3, Entered
<1>5. Owner(v) = KernelDir
  <2>1. PDE_IDX(v) = a /\ a >= FirstKernel
    BY <1>1, Parts
  <2> QED
    BY <2>1 DEF Owner
<1> HIDE DEF m1
<1>6. Walk(m1, cr3, v) = f
  <2>1. Walk(m1, cr3, v) = m1[m1[cr3][a]][b]
    BY <1>1, WalkParts
  <2>2. m1[cr3][a] = T /\ m1[T][b] = f
    BY <1>1, <1>3, <1>4 DEF Memory
  <2> QED
    BY <2>1, <2>2
<1>7. Allocated(v) = [m1 EXCEPT ![f] = Zeros]
  BY <1>6 DEF Allocated, Clear, m1, f, Zeros
<1>8. Gains(mem, [m1 EXCEPT ![f] = Zeros], a, b, f, Zeros)
  <2>1. /\ [m1 EXCEPT ![f] = Zeros] \in Memory /\ [m1 EXCEPT ![f] = Zeros][f] = Zeros
        /\ \A x \in Word : x # f => [m1 EXCEPT ![f] = Zeros][x] = m1[x]
    BY <1>3, <1>4, Words, Replaced
  <2>2. [m1 EXCEPT ![f] = Zeros][T] = m1[T]
    BY <2>1, <1>1, <1>3
  <2> QED
    BY <1>4, <2>1, <2>2 DEF Gains, T
<1> QED
  BY <1>1, <1>4, <1>5, <1>7, <1>8 DEF f, v

LEMMA FoundDir ==
  ASSUME mem \in Memory, taken \in Word, PagesOK(mem, taken, given, pgdir), cr3 = KernelDir,
         NEW a, NEW b, NextPage(a, b), taken + 1 \in Word, create_page_dir(vaddr_get)
  PROVE  Gains(mem, mem', a, b, taken + 1, NewDir(taken + 1))
<1> DEFINE v == vaddr_get
           T == Table(a)
           f == taken + 1
           m1 == Allocated(v)
           m2 == Copied(v)
           half == [i \in Index |-> IF i >= FirstKernel THEN mem[cr3][i] ELSE 0]
<1>1. /\ a \in FirstKernel .. Self - 1 /\ a \in Index /\ b \in Index
      /\ a # Self /\ v = At(a, b, 0) /\ T \in Word
      /\ 0 \in 0 .. PG_SIZE - 1 /\ Self \in Index
  BY Indices, Counts DEF NextPage
<1>2. DirOK(mem, taken, KernelDir)
  BY KernelDirUsed DEF PagesOK
<1>3. /\ cr3 \in Word /\ mem[cr3][Self] = cr3 /\ mem[cr3][a] = T
      /\ f \in Word /\ f # T /\ T # cr3 /\ f # cr3
  <2>1. T \in 2 .. LowMemory - 1 /\ LowMemory <= taken /\ taken \in Nat /\ LowMemory \in Nat
        /\ KernelDir = 1 /\ 1 \in Word /\ 2 < LowMemory
    BY <1>1, Counts
  <2>2. mem[cr3][Self] = cr3 /\ mem[cr3][a] = T
    BY <1>1, <1>2 DEF DirOK
  <2> HIDE DEF T
  <2> QED
    BY <2>1, <2>2
<1>4. Gains(mem, m1, a, b, f, Zeros)
  BY FoundPage
<1> HIDE DEF T, f, m1
<1>5. /\ m1 \in Memory /\ m1[cr3] = mem[cr3] /\ m1[T] = [mem[T] EXCEPT ![b] = f]
      /\ m1[f] = Zeros /\ \A x \in Word : x \notin {T, f} => m1[x] = mem[x]
  BY <1>3, <1>4 DEF Gains, T
<1>6. m1[T][b] = f /\ m1[cr3][a] = T /\ m1[cr3][Self] = cr3
  BY <1>1, <1>3, <1>5 DEF Memory
<1>7. Walk(m1, cr3, v) = f
  BY <1>1, <1>6, WalkParts
<1>8. \A i \in Index : Read(m1, Space - PG_SIZE + i * 4) = mem[cr3][i]
  <2> SUFFICES ASSUME NEW i \in Index PROVE Read(m1, Space - PG_SIZE + i * 4) = mem[cr3][i]
    OBVIOUS
  <2>1. pde_ptr(At(i, 0, 0)) = Space - PG_SIZE + i * 4
    BY <1>1, Words, Parts DEF pde_ptr
  <2>2. \A c \in 0 .. PG_SIZE - 1 : Read(m1, pde_ptr(At(i, 0, c))) = m1[cr3][i]
    <3>1. 0 \in Index
      BY Words
    <3> QED
      BY <3>1, <1>5, <1>6, Reaches
  <2> QED
    BY <2>1, <2>2, <1>1, <1>5
<1>9. m2 = [m1 EXCEPT ![f] = half]
  <2>1. m2 = [m1 EXCEPT ![f] = [i \in Index |-> IF i >= FirstKernel
                                  THEN Read(m1, Space - PG_SIZE + i * 4) ELSE m1[f][i]]]
    BY <1>7 DEF Copied, m1
  <2>2. [i \in Index |-> IF i >= FirstKernel
                                  THEN Read(m1, Space - PG_SIZE + i * 4) ELSE m1[f][i]] = half
    BY <1>5, <1>8 DEF Zeros
  <2> QED
    BY <2>1, <2>2
<1>10. half \in [Index -> Word]
  BY <1>3, Words DEF Memory
<1>11. m2 \in Memory /\ m2[f] = half /\ \A x \in Word : x # f => m2[x] = m1[x]
  <2>1. \A w \in [Index -> Word] : /\ [m1 EXCEPT ![f] = w] \in Memory
                                   /\ [m1 EXCEPT ![f] = w][f] = w
                                   /\ \A x \in Word : x # f => [m1 EXCEPT ![f] = w][x] = m1[x]
    BY <1>3, <1>5, Replaced
  <2> HIDE DEF half, m2
  <2> QED
    BY <1>9, <1>10, <2>1
<1> HIDE DEF m2
<1>12. m2[cr3][Self] = cr3 /\ m2[cr3][a] = T /\ m2[T][b] = f
  BY <1>1, <1>3, <1>6, <1>11
<1>13. addr_v2p(m2, v) \div PG_SIZE = f
  <2>1. Read(m2, pte_ptr(v)) = f
    BY <1>1, <1>11, <1>12, Reaches
  <2>2. v % PG_SIZE = 0
    BY <1>1, Parts
  <2>3. (f * PG_SIZE + 0) \div PG_SIZE = f
    <3>1. f * PG_SIZE = PG_SIZE * f /\ f \in Nat
      BY <1>3, Sizes, Words
    <3> QED
      BY <3>1, <1>1, Sizes, Division
  <2> QED
    BY <2>1, <2>2, <2>3 DEF addr_v2p
<1>14. v + Self * 4 = At(a, b, Self * 4) /\ Self * 4 \in 0 .. PG_SIZE - 1 /\ (Self * 4) \div 4 = Self
  <2>1. a * Span \in Nat /\ b * PG_SIZE \in Nat
    BY <1>1, Sizes
  <2> QED
    BY <1>1, <2>1, Sizes DEF At
<1>15. Write(m2, v + Self * 4, f) = [m2 EXCEPT ![f][Self] = f]
  <2>1. Walk(m2, cr3, v + Self * 4) = f
    <3>1. \A c \in 0 .. PG_SIZE - 1 : Walk(m2, cr3, At(a, b, c)) = m2[m2[cr3][a]][b]
      BY <1>1, WalkParts
    <3> QED
      BY <3>1, <1>12, <1>14
  <2>2. (v + Self * 4) % PG_SIZE = Self * 4
    BY <1>1, <1>14, Parts
  <2> QED
    BY <2>1, <2>2, <1>14 DEF Write
<1>16. mem' = [m2 EXCEPT ![f][Self] = f]
  BY <1>13, <1>15 DEF create_page_dir, m2
<1>17. [half EXCEPT ![Self] = f] = NewDir(f)
  <2>1. \A i \in Index : i # Self /\ i >= FirstKernel => i \in FirstKernel .. Self - 1
    BY Indices
  <2>2. \A i \in Index : i # Self /\ i >= FirstKernel => mem[cr3][i] = Table(i)
    BY <2>1, <1>2 DEF DirOK
  <2>3. Self >= FirstKernel
    BY Indices
  <2> QED
    BY <2>2, <2>3 DEF NewDir
<1>18. NewDir(f) \in [Index -> Word]
  <2>1. [half EXCEPT ![Self] = f] \in [Index -> Word]
    BY <1>3, <1>10
  <2> QED
    BY <2>1, <1>17
<1>19. mem' \in Memory /\ mem'[f] = NewDir(f) /\ \A x \in Word : x # f => mem'[x] = m2[x]
  <2>1. mem' = [m2 EXCEPT ![f] = NewDir(f)]
    BY <1>11, <1>16, <1>17
  <2> QED
    BY <2>1, <1>3, <1>11, <1>18 DEF Memory
<1>20. mem'[T] = [mem[T] EXCEPT ![b] = f]
  BY <1>1, <1>3, <1>5, <1>11, <1>19
<1>21. \A x \in Word : x \notin {T, f} => mem'[x] = mem[x]
  BY <1>5, <1>11, <1>19
<1> QED
  BY <1>19, <1>20, <1>21 DEF Gains, T, f

(* A directory is in the page of its virtual address.                      *)
LEMMA DirPlace ==
  ASSUME NEW m, NEW pg, NEW t \in Thread, NEW a \in FirstKernel .. Self - 1, NEW b \in Index,
         pg[t] # 0, pg[t] = At(a, b, 0), m[KernelDir][a] = Table(a)
  PROVE  DirAt(m, pg, t) = m[Table(a)][b]
<1>1. a \in Index
  BY Indices
<1>2. Walk(m, KernelDir, At(a, b, 0)) = m[m[KernelDir][a]][b]
  BY SMTT(30), <1>1, WalkPage
<1>3. DirAt(m, pg, t) = Walk(m, KernelDir, pg[t])
  BY DEF DirAt
<1> QED
  BY <1>2, <1>3

(* What a page of the kernel changes: no directory, no table of a stack,   *)
(* and one entry of the kernel's tables.                                   *)
LEMMA PageChanges ==
  ASSUME NEW m \in Memory, NEW N, NEW tk \in Word, tk + 1 \in Word, NEW gv, NEW pg,
         PagesOK(m, tk, gv, pg), NEW a \in FirstKernel .. Self - 1, NEW b \in Index,
         m[Table(a)][b] = 0, NEW w, Gains(m, N, a, b, tk + 1, w)
  PROVE  /\ N[KernelDir] = m[KernelDir] /\ N[0] = m[0]
         /\ \A d \in Dirs(m, pg) : N[d] = m[d] /\ N[StackTable(m, d)] = m[StackTable(m, d)]
         /\ \A x \in FirstKernel .. Self - 1, y \in Index :
              N[Table(x)][y] = IF x = a /\ y = b THEN tk + 1 ELSE m[Table(x)][y]
<1> DEFINE T == Table(a)
           f == tk + 1
<1>1. /\ T \in 2 .. LowMemory - 1 /\ f \in Word /\ LowMemory < f /\ LowMemory \in Word
      /\ KernelDir = 1 /\ \A x \in LowMemory + 1 .. tk : x \in Word /\ x # f /\ x # T
  BY Counts
<1>2. \A x \in Word : x \notin {T, f} => N[x] = m[x]
  BY DEF Gains
<1>3. N[KernelDir] = m[KernelDir] /\ N[0] = m[0]
  <2>1. KernelDir \in Word /\ 0 \in Word /\ {KernelDir, 0} \cap {T, f} = {}
    BY <1>1, Words
  <2> HIDE DEF T, f
  <2> QED
    BY <1>2, <2>1
<1>4. ASSUME NEW d \in Dirs(m, pg)
      PROVE  N[d] = m[d] /\ N[StackTable(m, d)] = m[StackTable(m, d)]
  <2>1. d = KernelDir \/ d \in LowMemory + 1 .. tk
    BY DirFacts
  <2>2. StackTable(m, d) \in {0} \union LowMemory + 1 .. tk
    BY DirFacts
  <2> HIDE DEF T, f
  <2> QED
    BY <1>1, <1>2, <1>3, <2>1, <2>2
<1>5. ASSUME NEW x \in FirstKernel .. Self - 1, NEW y \in Index
      PROVE  N[Table(x)][y] = IF x = a /\ y = b THEN f ELSE m[Table(x)][y]
  <2>1. N[T] = [m[T] EXCEPT ![b] = f] /\ T \in Word
    BY Words DEF Gains
  <2>2. CASE x = a
    BY <2>1, <2>2 DEF Memory
  <2>3. CASE x # a
    <3>1. Table(x) \in Word /\ Table(x) # T /\ Table(x) # f
      BY <1>1, <2>3, Counts, TablesApart
    <3> HIDE DEF T, f
    <3> QED
      BY <1>2, <2>3, <3>1
  <2> QED
    BY <2>2, <2>3
<1> QED
  BY <1>3, <1>4, <1>5

LEMMA DirsStay ==
  ASSUME NEW m \in Memory, NEW N, NEW tk \in Word, tk + 1 \in Word, NEW gv, NEW pg,
         PagesOK(m, tk, gv, pg), NEW a \in FirstKernel .. Self - 1, NEW b \in Index,
         m[Table(a)][b] = 0, NEW w, Gains(m, N, a, b, tk + 1, w)
  PROVE  \A t \in Thread : DirAt(N, pg, t) = DirAt(m, pg, t)
<1> SUFFICES ASSUME NEW t \in Thread PROVE DirAt(N, pg, t) = DirAt(m, pg, t)
  OBVIOUS
<1>1. N[KernelDir] = m[KernelDir]
  BY PageChanges
<1>2. \A x \in FirstKernel .. Self - 1, y \in Index :
        ~ (x = a /\ y = b) => N[Table(x)][y] = m[Table(x)][y]
  BY PageChanges
<1>3. CASE pg[t] = 0
  BY <1>3 DEF DirAt
<1>4. CASE pg[t] # 0
  <2>1. pg[t] \in KernelPages /\ DirAt(m, pg, t) \in LowMemory + 1 .. tk
    BY <1>4 DEF PagesOK, OwnDirs
  <2>2. PICK x \in FirstKernel .. Self - 1, y \in Index : pg[t] = At(x, y, 0)
    BY <2>1, Halves
  <2>3. m[KernelDir][x] = Table(x)
    BY KernelDirUsed DEF PagesOK, DirOK
  <2>4. DirAt(m, pg, t) = m[Table(x)][y]
    BY <1>4, <2>2, <2>3, DirPlace
  <2>5. DirAt(N, pg, t) = N[Table(x)][y]
    BY <1>4, <2>2, <2>3, <1>1, DirPlace
  <2>6. m[Table(x)][y] # 0
    BY <2>1, <2>4, Counts
  <2>7. ~ (x = a /\ y = b)
    BY <2>6
  <2> QED
    BY <2>2, <2>4, <2>5, <2>7, <1>2
<1> QED
  BY <1>3, <1>4

LEMMA SameDirs ==
  ASSUME NEW m, NEW N, NEW pg, \A t \in Thread : DirAt(N, pg, t) = DirAt(m, pg, t)
  PROVE  Dirs(N, pg) = Dirs(m, pg)
BY DEF Dirs

LEMMA PageGained ==
  ASSUME NEW m \in Memory, NEW N, NEW tk \in Word, tk + 1 \in Word, NEW gv, NEW pg,
         PagesOK(m, tk, gv, pg), NEW a \in FirstKernel .. Self - 1, NEW b \in Index,
         m[Table(a)][b] = 0, NEW w, Gains(m, N, a, b, tk + 1, w),
         NEW n \in 0 .. tk - LowMemory, HeapTo(m, n),
         a * Entries + b = FirstKernel * Entries + LowPages + n
  PROVE  PagesOK(N, tk + 1, gv \union {<<KernelDir, At(a, b, 0), tk + 1>>}, pg)
<1> DEFINE f == tk + 1
           gw == gv \union {<<KernelDir, At(a, b, 0), f>>}
<1>1. /\ LowMemory <= tk /\ LowMemory \in Nat /\ tk \in Nat /\ f \in Word /\ f # 0
      /\ KernelDir = 1 /\ 1 <= LowMemory
  BY Counts
<1>2. /\ N[KernelDir] = m[KernelDir] /\ N[0] = m[0]
      /\ \A d \in Dirs(m, pg) : N[d] = m[d] /\ N[StackTable(m, d)] = m[StackTable(m, d)]
      /\ \A x \in FirstKernel .. Self - 1, y \in Index :
           N[Table(x)][y] = IF x = a /\ y = b THEN f ELSE m[Table(x)][y]
      /\ \A t \in Thread : DirAt(N, pg, t) = DirAt(m, pg, t)
  BY PageChanges, DirsStay
<1>3. Dirs(N, pg) = Dirs(m, pg)
  BY <1>2, SameDirs
<1>4. \A d \in Dirs(m, pg) : StackTable(N, d) = StackTable(m, d)
  BY <1>2 DEF StackTable
<1>5. LowMemory + 1 .. tk \subseteq LowMemory + 1 .. f
  BY <1>1
<1>6. ASSUME NEW d \in Dirs(m, pg) PROVE DirOK(N, f, d)
  <2>1. DirOK(m, tk, d)
    BY DEF PagesOK
  <2> HIDE DEF f
  <2> QED
    BY <2>1, <1>2, <1>4, <1>5 DEF DirOK
<1>7. \A d, v : v \in UserPages => Given(gw, d, v) = Given(gv, d, v)
  <2>1. At(a, b, 0) \notin UserPages
    BY HalvesApart
  <2> QED
    BY <2>1 DEF Given
<1>8. ASSUME NEW d \in Dirs(m, pg) PROVE UserMaps(N, gw, d)
  <2>1. UserMaps(m, gv, d)
    BY DEF PagesOK
  <2>2. \A x \in 0 .. FirstKernel - 1, y \in Index : At(x, y, 0) \in UserPages
    BY Halves
  <2>3. FirstKernel - 1 \in 0 .. FirstKernel - 1 /\ 0 .. FirstKernel - 2 \subseteq 0 .. FirstKernel - 1
    BY Indices
  <2> HIDE DEF gw
  <2>4. \A x \in 0 .. FirstKernel - 2, y \in Index : Given(gw, d, At(x, y, 0)) = {}
    BY <2>1, <2>2, <2>3, <1>7 DEF UserMaps
  <2>5. \A y \in Index : Given(gw, d, At(FirstKernel - 1, y, 0)) = {N[StackTable(N, d)][y]} \ {0}
    BY <2>1, <2>2, <2>3, <1>2, <1>4, <1>7 DEF UserMaps
  <2> QED
    BY <2>4, <2>5 DEF UserMaps
<1>9. KernelMaps(N, gw)
  <2> SUFFICES ASSUME NEW x \in FirstKernel .. Self - 1, NEW y \in Index
               PROVE  Given(gw, KernelDir, At(x, y, 0)) = {N[Table(x)][y]} \ {0}
    BY DEF KernelMaps
  <2>1. Given(gv, KernelDir, At(x, y, 0)) = {m[Table(x)][y]} \ {0}
    BY DEF PagesOK, KernelMaps
  <2>2. At(x, y, 0) = At(a, b, 0) <=> x = a /\ y = b
    <3>1. x \in Index /\ a \in Index
      BY Indices
    <3> QED
      BY <3>1, PageUnique
  <2> HIDE DEF f
  <2>3. Given(gw, KernelDir, At(x, y, 0)) =
          Given(gv, KernelDir, At(x, y, 0)) \union (IF x = a /\ y = b THEN {f} ELSE {})
    BY <2>2, <1>1 DEF Given
  <2> QED
    BY ZenonT(30), <2>1, <2>3, <1>1, <1>2
<1>10. OwnDirs(N, f, pg)
  <2> HIDE DEF f
  <2> QED
    BY <1>2, <1>5 DEF PagesOK, OwnDirs
<1>11. OwnTables(N, pg)
  <2> HIDE DEF f
  <2> QED
    BY <1>3, <1>4 DEF PagesOK, OwnTables
<1>12. \A g \in gw : g[1] \in 0 .. f
  <2>1. \A g \in gv : g[1] \in 0 .. tk
    BY DEF PagesOK
  <2>2. KernelDir \in 0 .. f /\ 0 .. tk \subseteq 0 .. f
    BY <1>1
  <2>3. \A g \in gv : g[1] \in 0 .. f
    BY <2>1, <2>2
  <2> HIDE DEF f
  <2> QED
    BY <2>2, <2>3
<1>13. n + 1 \in 0 .. f - LowMemory
  BY <1>1
<1>14. HeapTo(N, n + 1)
  <2> SUFFICES ASSUME NEW x \in FirstKernel .. Self - 1, NEW y \in Index
               PROVE  N[Table(x)][y] # 0 <=>
                        x * Entries + y < FirstKernel * Entries + LowPages + (n + 1)
    BY DEF HeapTo
  <2> DEFINE k == FirstKernel * Entries + LowPages + n
             i == x * Entries + y
  <2>1. m[Table(x)][y] # 0 <=> i < k
    BY DEF HeapTo
  <2>2. i = k <=> x = a /\ y = b
    <3>1. x \in Index /\ a \in Index
      BY Indices
    <3>2. i \in Nat /\ k \in Nat /\ At(x, y, 0) = i * PG_SIZE /\ At(a, b, 0) = k * PG_SIZE
      BY <3>1, PageNumbers
    <3>3. At(x, y, 0) = At(a, b, 0) <=> x = a /\ y = b
      BY <3>1, PageUnique
    <3> QED
      BY <3>2, <3>3
  <2>3. i \in Nat /\ k \in Nat
    <3>1. x \in Index /\ a \in Index
      BY Indices
    <3> QED
      BY <3>1, PageNumbers
  <2>4. FirstKernel * Entries + LowPages + (n + 1) = k + 1
    <3>1. FirstKernel * Entries \in Nat /\ LowPages \in Nat /\ n \in Nat
      BY Sizes, <1>1
    <3> QED
      BY <3>1
  <2> HIDE DEF i, k
  <2>5. i < k + 1 <=> i < k \/ i = k
    BY <2>3
  <2> QED
    BY <2>1, <2>2, <2>4, <2>5, <1>1, <1>2 DEF i
<1>15. LowMemory <= f /\ N[0] = Zeros
  BY <1>1, <1>2 DEF PagesOK
<1> QED
  <2> HIDE DEF f, gw
  <2>1. \E j \in 0 .. f - LowMemory : HeapTo(N, j)
    BY <1>13, <1>14
  <2>2. PagesOK(N, f, gw, pg)
    BY <1>3, <1>6, <1>8, <1>9, <1>10, <1>11, <1>12, <1>15, <2>1 DEF PagesOK
  <2> QED
    BY <2>2 DEF f, gw

(* A directory in the page gained, for a process that had none.            *)
LEMMA DirGained ==
  ASSUME NEW m \in Memory, NEW N, NEW tk \in Word, tk + 1 \in Word, NEW gv,
         NEW pg \in [Thread -> KernelPages \union {0}], NEW p \in Proc, pg[p] = 0,
         PagesOK(m, tk, gv, pg), NEW a \in FirstKernel .. Self - 1, NEW b \in Index,
         m[Table(a)][b] = 0, Gains(m, N, a, b, tk + 1, NewDir(tk + 1)),
         NEW n \in 0 .. tk - LowMemory, HeapTo(m, n),
         a * Entries + b = FirstKernel * Entries + LowPages + n
  PROVE  LET gw == gv \union {<<KernelDir, At(a, b, 0), tk + 1>>}
             qg == [pg EXCEPT ![p] = At(a, b, 0)]
         IN /\ DirAt(N, qg, p) = tk + 1 /\ StackTable(N, tk + 1) = 0
            /\ \A t \in Thread : t # p => DirAt(N, qg, t) = DirAt(m, pg, t)
            /\ PagesOK(N, tk + 1, gw, qg)
<1> DEFINE f == tk + 1
           v == At(a, b, 0)
           gw == gv \union {<<KernelDir, v, f>>}
           qg == [pg EXCEPT ![p] = v]
<1>1. /\ LowMemory <= tk /\ LowMemory \in Nat /\ tk \in Nat /\ f \in Word /\ f # 0 /\ tk < f
      /\ KernelDir = 1 /\ 1 <= LowMemory /\ f \in LowMemory + 1 .. f
  BY Counts
<1>2. /\ N[KernelDir] = m[KernelDir]
      /\ \A x \in FirstKernel .. Self - 1, y \in Index :
           N[Table(x)][y] = IF x = a /\ y = b THEN f ELSE m[Table(x)][y]
      /\ \A t \in Thread : DirAt(N, pg, t) = DirAt(m, pg, t)
  BY PageChanges, DirsStay
<1>3. PagesOK(N, f, gw, pg)
  BY PageGained
<1>4. Dirs(N, pg) = Dirs(m, pg)
  BY <1>2, SameDirs
<1>5. N[f] = NewDir(f)
  BY DEF Gains
<1>6. p \in Thread /\ v \in KernelPages /\ v # 0
  BY Halves DEF Thread
<1>7. qg[p] = v /\ \A t \in Thread : t # p => qg[t] = pg[t]
  BY <1>6
<1> HIDE DEF f, v, qg, gw
<1>8. m[KernelDir][a] = Table(a)
  BY KernelDirUsed DEF PagesOK, DirOK
<1>9. DirAt(N, qg, p) = f
  <2>1. DirAt(N, qg, p) = N[Table(a)][b]
    BY <1>2, <1>6, <1>7, <1>8, DirPlace DEF v
  <2> QED
    BY <2>1, <1>2
<1>10. \A t \in Thread : t # p => DirAt(N, qg, t) = DirAt(N, pg, t)
  BY <1>7 DEF DirAt
<1>11. Dirs(N, qg) = Dirs(N, pg) \union {f}
  <2>1. \A d \in Dirs(N, pg) : d \in Dirs(N, qg)
    <3> SUFFICES ASSUME NEW t \in Thread PROVE DirAt(N, pg, t) \in Dirs(N, qg)
      BY DEF Dirs
    <3>1. CASE t # p
      BY <3>1, <1>10 DEF Dirs
    <3>2. CASE t = p
      <4>1. DirAt(N, pg, t) = KernelDir
        BY <3>2 DEF DirAt
      <4>2. KernelDir \in Dirs(N, qg)
        <5>1. Main \in Thread /\ Main # p /\ pg[Main] = 0
          BY <1>3, ProcessAssumption DEF Thread, PagesOK, OwnDirs
        <5> QED
          BY <5>1, <1>7 DEF Dirs, DirAt
      <4> QED
        BY <4>1, <4>2
    <3> QED
      BY <3>1, <3>2
  <2>2. \A d \in Dirs(N, qg) : d \in Dirs(N, pg) \/ d = f
    BY <1>9, <1>10 DEF Dirs
  <2>3. f \in Dirs(N, qg)
    BY <1>6, <1>9 DEF Dirs
  <2> QED
    BY <2>1, <2>2, <2>3
<1>12. StackTable(N, f) = 0 /\ N[0] = Zeros
  <2>1. FirstKernel - 1 \in Index /\ FirstKernel - 1 # Self /\ ~ (FirstKernel - 1 >= FirstKernel)
    BY Indices
  <2> QED
    BY <2>1, <1>3, <1>5 DEF StackTable, NewDir, PagesOK
<1>13. DirOK(N, f, f)
  <2>1. /\ Self \in Index
        /\ \A x \in FirstKernel .. Self - 1 : x \in Index /\ x # Self /\ x >= FirstKernel
    BY Indices
  <2>2. \A x \in 0 .. FirstKernel - 2 : x \in Index /\ x # Self /\ ~ (x >= FirstKernel)
    BY Indices
  <2>3. f # KernelDir
    BY <1>1
  <2> QED
    BY <2>1, <2>2, <2>3, <1>5, <1>12 DEF DirOK, NewDir
<1>14. UserMaps(N, gw, f)
  <2>1. \A u : Given(gw, f, u) = {}
    <3>1. \A g \in gv : g[1] \in 0 .. tk
      BY DEF PagesOK
    <3>2. \A g \in gw : g[1] # f
      BY <3>1, <1>1 DEF gw
    <3> QED
      BY <3>2 DEF Given
  <2>2. \A y \in Index : N[StackTable(N, f)][y] = 0
    BY <1>12 DEF Zeros
  <2> QED
    BY <2>1, <2>2 DEF UserMaps
<1>15. \A t \in Thread : pg[t] # 0 => t # p /\ DirAt(N, pg, t) # f
  <2>1. \A t \in Thread : pg[t] # 0 => DirAt(m, pg, t) \in LowMemory + 1 .. tk
    BY DEF PagesOK, OwnDirs
  <2>2. f \notin LowMemory + 1 .. tk
    BY <1>1
  <2> QED
    BY <2>1, <2>2, <1>2
<1>16. OwnDirs(N, f, qg)
  <2>1. ASSUME NEW t \in Thread, qg[t] # 0
        PROVE  t \in Proc /\ qg[t] \in KernelPages /\ DirAt(N, qg, t) \in LowMemory + 1 .. f
    <3>1. CASE t = p
      BY <3>1, <1>1, <1>6, <1>7, <1>9
    <3>2. CASE t # p
      BY <2>1, <3>2, <1>3, <1>7, <1>10 DEF PagesOK, OwnDirs
    <3> QED
      BY <3>1, <3>2
  <2>2. ASSUME NEW t \in Thread, NEW u \in Thread, qg[t] # 0, qg[u] # 0,
               DirAt(N, qg, t) = DirAt(N, qg, u)
        PROVE  t = u
    <3>1. \A x \in Thread : x # p /\ qg[x] # 0 => DirAt(N, qg, x) # f /\ pg[x] # 0
      BY <1>7, <1>10, <1>15
    <3>2. CASE t # p /\ u # p
      BY <2>2, <3>1, <3>2, <1>3, <1>10 DEF PagesOK, OwnDirs
    <3> QED
      BY <2>2, <3>1, <3>2, <1>9
  <2> QED
    BY <2>1, <2>2 DEF OwnDirs
<1>17. OwnTables(N, qg)
  <2>1. \A d \in Dirs(N, pg) : d # 0 /\ StackTable(N, d) # f
    <3> SUFFICES ASSUME NEW d \in Dirs(N, pg) PROVE d # 0 /\ StackTable(N, d) # f
      OBVIOUS
    <3>1. d \in Word \ {0}
      BY <1>1, <1>3, DirFacts
    <3>2. d \in Dirs(m, pg)
      BY <1>4
    <3>3. StackTable(m, d) \in {0} \union LowMemory + 1 .. tk
      BY <3>2, DirFacts
    <3>4. StackTable(N, d) = StackTable(m, d)
      BY <3>2, PageChanges DEF StackTable
    <3> QED
      BY <3>1, <3>3, <3>4, <1>1
  <2>2. f # 0
    BY <1>1
  <2>3. OwnTables(N, pg)
    BY <1>3 DEF PagesOK
  <2> QED
    BY <2>1, <2>2, <2>3, <1>11, <1>12 DEF OwnTables
<1>18. PagesOK(N, f, gw, qg)
  BY <1>3, <1>11, <1>13, <1>14, <1>16, <1>17 DEF PagesOK
<1> QED
  BY <1>2, <1>9, <1>10, <1>12, <1>18 DEF f, v, gw, qg

(* The page of a stack, and its table, in directory d.                     *)
LEMMA StackGained ==
  ASSUME NEW m \in Memory, NEW N, NEW tk \in Word, tk + 1 \in Word, NEW gv, NEW pg,
         PagesOK(m, tk, gv, pg), NEW d \in Dirs(m, pg), StackTable(m, d) = 0,
         NEW f \in Word \ {0},
         N[d] = [m[d] EXCEPT ![FirstKernel - 1] = tk + 1],
         N[tk + 1] = [Zeros EXCEPT ![Self] = f],
         \A x \in Word : x \notin {d, tk + 1} => N[x] = m[x]
  PROVE  /\ \A t \in Thread : DirAt(N, pg, t) = DirAt(m, pg, t)
         /\ \A e \in Dirs(m, pg) : e # d => StackTable(N, e) = StackTable(m, e)
         /\ PagesOK(N, tk + 1, gv \union {<<d, Stack, f>>}, pg)
<1> DEFINE T == tk + 1
           gw == gv \union {<<d, Stack, f>>}
<1>1. /\ LowMemory <= tk /\ LowMemory \in Nat /\ tk \in Nat /\ T \in Word
      /\ f \in Word /\ f # 0 /\ T # 0 /\ KernelDir = 1 /\ T \in LowMemory + 1 .. T
      /\ LowMemory + 1 .. tk \subseteq LowMemory + 1 .. T /\ 0 .. tk \subseteq 0 .. T
      /\ \A x \in 0 .. tk : x # T /\ x \in Word
      /\ 1 <= LowMemory
  BY Counts
<1>2. d \in Word \ {0} /\ d \in 0 .. tk /\ (d = KernelDir \/ d \in LowMemory + 1 .. tk)
  <2>1. d \in Word \ {0} /\ (d = KernelDir \/ d \in LowMemory + 1 .. tk)
    BY DirFacts
  <2> QED
    BY <2>1, <1>1
<1> HIDE DEF T
<1>3. /\ N[d] = [m[d] EXCEPT ![FirstKernel - 1] = T] /\ N[T] = [Zeros EXCEPT ![Self] = f]
      /\ \A x \in Word : x \notin {d, T} => N[x] = m[x]
  BY DEF T
<1>4. /\ FirstKernel - 1 \in Index /\ FirstKernel - 1 # Self
      /\ \A x \in FirstKernel .. Self - 1 : x \in Index /\ x # FirstKernel - 1
      /\ \A x \in 0 .. FirstKernel - 2 : x \in Index /\ x # FirstKernel - 1
      /\ Self \in Index /\ 0 \in Index
  BY Indices
<1>5. StackTable(N, d) = T /\ \A x \in Index : x # FirstKernel - 1 => N[d][x] = m[d][x]
  BY <1>2, <1>3, <1>4 DEF StackTable, Memory
<1>6. \A x \in FirstKernel .. Self - 1 : N[Table(x)] = m[Table(x)]
  <2> SUFFICES ASSUME NEW x \in FirstKernel .. Self - 1 PROVE N[Table(x)] = m[Table(x)]
    OBVIOUS
  <2>1. Table(x) \in 2 .. LowMemory - 1
    BY Counts
  <2>2. Table(x) \in 0 .. tk /\ Table(x) # d
    BY <2>1, <1>1, <1>2
  <2> QED
    BY <2>2, <1>1, <1>3
<1>7. \A e \in Dirs(m, pg) : e # d => N[e] = m[e] /\ StackTable(N, e) = StackTable(m, e)
  <2> SUFFICES ASSUME NEW e \in Dirs(m, pg), e # d PROVE N[e] = m[e]
    BY DEF StackTable
  <2>1. e = KernelDir \/ e \in LowMemory + 1 .. tk
    BY DirFacts
  <2>2. e \in 0 .. tk
    BY <2>1, <1>1
  <2> QED
    BY <2>2, <1>1, <1>3
<1>8. N[0] = Zeros
  BY <1>1, <1>2, <1>3, Words DEF PagesOK
<1>9. \A e \in Dirs(m, pg) : e # d => N[StackTable(N, e)] = m[StackTable(m, e)]
  <2> SUFFICES ASSUME NEW e \in Dirs(m, pg), e # d PROVE N[StackTable(m, e)] = m[StackTable(m, e)]
    BY <1>7
  <2>1. StackTable(m, e) \in {0} \union LowMemory + 1 .. tk
    BY DirFacts
  <2>2. StackTable(m, e) # d
    BY DEF PagesOK, OwnTables
  <2>3. StackTable(m, e) \in 0 .. tk
    BY <2>1, <1>1
  <2> QED
    BY <2>2, <2>3, <1>1, <1>3
<1>10. ASSUME NEW t \in Thread PROVE DirAt(N, pg, t) = DirAt(m, pg, t)
  <2>1. CASE pg[t] = 0
    BY <2>1 DEF DirAt
  <2>2. CASE pg[t] # 0
    <3>1. PICK x \in FirstKernel .. Self - 1, y \in Index : pg[t] = At(x, y, 0)
      BY <2>2, Halves DEF PagesOK, OwnDirs
    <3>2. m[KernelDir][x] = Table(x)
      BY KernelDirUsed DEF PagesOK, DirOK
    <3>3. N[KernelDir][x] = Table(x)
      BY <3>2, <1>4, <1>5, <1>7, KernelDirUsed
    <3> QED
      BY <2>2, <3>1, <3>2, <3>3, <1>6, DirPlace
  <2> QED
    BY <2>1, <2>2
<1>11. Dirs(N, pg) = Dirs(m, pg)
  BY <1>10, SameDirs
<1>12. ASSUME NEW e \in Dirs(m, pg) PROVE DirOK(N, T, e)
  <2>1. DirOK(m, tk, e)
    BY DEF PagesOK
  <2>2. CASE e = d
    <3>1. N[T][Self] # 0
      BY <1>1, <1>3, <1>4 DEF Zeros
    <3> QED
      BY <2>1, <2>2, <3>1, <1>1, <1>4, <1>5 DEF DirOK
  <2>3. CASE e # d
    <3>1. N[e] = m[e] /\ StackTable(N, e) = StackTable(m, e)
          /\ N[StackTable(N, e)] = m[StackTable(m, e)]
      BY <2>3, <1>7, <1>9
    <3> QED
      BY <2>1, <3>1, <1>1 DEF DirOK
  <2> QED
    BY <2>2, <2>3
<1>13. FirstKernel - 1 \in 0 .. FirstKernel - 1 /\ 0 .. FirstKernel - 2 \subseteq 0 .. FirstKernel - 1
       /\ Stack = At(FirstKernel - 1, Self, 0)
  BY Sizes, Halves
<1>14. \A x \in Index, y \in Index : At(x, y, 0) = Stack <=> x = FirstKernel - 1 /\ y = Self
  BY <1>4, <1>13, PageUnique
<1>15. \A e, u : e # d \/ u # Stack => Given(gw, e, u) = Given(gv, e, u)
  BY DEF Given
<1>16. Given(gw, d, Stack) = Given(gv, d, Stack) \union {f}
  BY <1>1 DEF Given
<1> HIDE DEF gw
<1>17. ASSUME NEW e \in Dirs(m, pg) PROVE UserMaps(N, gw, e)
  <2>1. UserMaps(m, gv, e)
    BY DEF PagesOK
  <2>2. CASE e # d
    BY <2>1, <2>2, <1>9, <1>15 DEF UserMaps
  <2>3. CASE e = d
    <3>1. \A y \in Index : Given(gv, d, At(FirstKernel - 1, y, 0)) = {}
      <4>1. \A y \in Index : m[StackTable(m, d)][y] = 0
        BY DEF PagesOK, Zeros
      <4> QED
        BY <4>1, <2>1, <2>3 DEF UserMaps
    <3>2. \A y \in Index : N[StackTable(N, d)][y] = IF y = Self THEN f ELSE 0
      BY <1>3, <1>5 DEF Zeros
    <3>3. ASSUME NEW y \in Index
          PROVE  Given(gw, d, At(FirstKernel - 1, y, 0)) = {N[StackTable(N, d)][y]} \ {0}
      <4>1. CASE y = Self
        BY <3>1, <3>2, <4>1, <1>1, <1>13, <1>16
      <4>2. CASE y # Self
        BY <3>1, <3>2, <4>2, <1>4, <1>14, <1>15
      <4> QED
        BY <4>1, <4>2
    <3>4. \A x \in 0 .. FirstKernel - 2, y \in Index : Given(gw, d, At(x, y, 0)) = {}
      BY <2>1, <2>3, <1>4, <1>14, <1>15 DEF UserMaps
    <3> QED
      BY <2>3, <3>3, <3>4 DEF UserMaps
  <2> QED
    BY <2>2, <2>3
<1>18. KernelMaps(N, gw)
  <2>1. KernelMaps(m, gv)
    BY DEF PagesOK
  <2> QED
    BY <2>1, <1>4, <1>6, <1>14, <1>15 DEF KernelMaps
<1>19. OwnDirs(N, T, pg)
  <2>1. OwnDirs(m, tk, pg)
    BY DEF PagesOK
  <2> QED
    BY <2>1, <1>1, <1>10 DEF OwnDirs
<1>20. OwnTables(N, pg)
  <2>1. OwnTables(m, pg)
    BY DEF PagesOK
  <2>2. \A e \in Dirs(m, pg) : e # T /\ StackTable(m, e) # T
    <3> SUFFICES ASSUME NEW e \in Dirs(m, pg) PROVE e # T /\ StackTable(m, e) # T
      OBVIOUS
    <3>1. (e = KernelDir \/ e \in LowMemory + 1 .. tk)
          /\ StackTable(m, e) \in {0} \union LowMemory + 1 .. tk
      BY DirFacts
    <3>2. e \in 0 .. tk /\ StackTable(m, e) \in 0 .. tk
      BY <3>1, <1>1
    <3> QED
      BY <3>2, <1>1
  <2> QED
    BY <2>1, <2>2, <1>1, <1>5, <1>7, <1>11 DEF OwnTables
<1>21. \A g \in gw : g[1] \in 0 .. T
  <2>1. \A g \in gv : g[1] \in 0 .. tk
    BY DEF PagesOK
  <2> QED
    BY <2>1, <1>1, <1>2 DEF gw
<1>22. \E n \in 0 .. T - LowMemory : HeapTo(N, n)
  <2>1. PICK n \in 0 .. tk - LowMemory : HeapTo(m, n)
    BY DEF PagesOK
  <2>2. n \in 0 .. T - LowMemory
    BY <1>1 DEF T
  <2>3. HeapTo(N, n)
    BY <2>1, <1>6 DEF HeapTo
  <2> QED
    BY <2>2, <2>3
<1>23. LowMemory <= T
  BY <1>1 DEF T
<1>24. PagesOK(N, T, gw, pg)
  BY <1>8, <1>11, <1>12, <1>17, <1>18, <1>19, <1>20, <1>21, <1>22, <1>23 DEF PagesOK
<1> QED
  BY <1>7, <1>10, <1>24 DEF T, gw

-----------------------------------------------------------------------------
(* What the loader leaves.                                                 *)
LEMMA SetupWords ==
  /\ setup_page \in Memory /\ setup_page[0] = Zeros
  /\ \A i \in Index : setup_page[KernelDir][i] =
        IF i = Self THEN KernelDir
        ELSE IF i = 0 THEN Table(FirstKernel)
        ELSE IF i \in FirstKernel .. Self - 1 THEN Table(i) ELSE 0
  /\ \A a \in FirstKernel .. Self - 1, b \in Index : setup_page[Table(a)][b] =
        IF a = FirstKernel /\ b < LowPages THEN LowMemory ELSE 0
<1> DEFINE row(f) == [i \in Index |->
     CASE f = KernelDir -> IF i = Self THEN KernelDir
                           ELSE IF i = 0 THEN Table(FirstKernel)
                           ELSE IF i \in FirstKernel .. Self - 1 THEN Table(i) ELSE 0
       [] f = Table(FirstKernel) -> IF i < LowPages THEN LowMemory ELSE 0
       [] f = 0 \/ f \in Table(FirstKernel + 1) .. LowMemory - 1 -> 0
       [] OTHER -> Junk[i]]
<1>1. /\ FirstKernel \in FirstKernel .. Self - 1 /\ FirstKernel \in Nat /\ Self \in Nat
      /\ FirstKernel < Self
  BY Indices
<1>2. /\ KernelDir = 1 /\ LowMemory \in Nat /\ 0 \in Word /\ LowMemory \in Word /\ KernelDir \in Word
      /\ \A a \in FirstKernel .. Self - 1 : Table(a) \in 2 .. LowMemory - 1 /\ Table(a) \in Word
      /\ \A a \in FirstKernel .. Self - 1 : Table(a) = 2 + a - FirstKernel
      /\ Table(FirstKernel + 1) = 3 /\ Table(FirstKernel) = 2
      /\ \A i \in Index : Junk[i] \in Word
  <2>1. Table(FirstKernel + 1) = 3 /\ Table(FirstKernel) = 2
    BY <1>1 DEF Table
  <2>2. KernelDir = 1 /\ LowMemory \in Word /\ Word = 0 .. Frames /\ Frames \in Nat /\ 2 < LowMemory
    BY Words
  <2>3. \A a \in FirstKernel .. Self - 1 : Table(a) \in 2 .. LowMemory - 1 /\ Table(a) = 2 + a - FirstKernel
    BY Words
  <2>4. \A i \in Index : Junk[i] \in Word
    BY <2>2 DEF Junk
  <2> QED
    BY <2>1, <2>2, <2>3, <2>4
<1>3. setup_page = [f \in Word |-> row(f)]
  BY DEF setup_page, SetupTables
<1>4. \A f \in Word, i \in Index : row(f)[i] \in Word
  BY <1>1, <1>2
<1>5. \A f \in Word : setup_page[f] = row(f)
  BY <1>3
<1>6. \A i \in Index : row(KernelDir)[i] =
        IF i = Self THEN KernelDir
        ELSE IF i = 0 THEN Table(FirstKernel)
        ELSE IF i \in FirstKernel .. Self - 1 THEN Table(i) ELSE 0
  <2>1. /\ KernelDir # Table(FirstKernel) /\ KernelDir # 0
        /\ KernelDir \notin Table(FirstKernel + 1) .. LowMemory - 1
    BY <1>2
  <2> QED
    BY <2>1
<1>7. row(0) = Zeros
  <2>1. 0 # KernelDir /\ 0 # Table(FirstKernel)
    BY <1>2
  <2> QED
    BY <2>1 DEF Zeros
<1>8. \A b \in Index : row(Table(FirstKernel))[b] = IF b < LowPages THEN LowMemory ELSE 0
  <2>1. /\ Table(FirstKernel) # KernelDir /\ Table(FirstKernel) # 0
        /\ Table(FirstKernel) \notin Table(FirstKernel + 1) .. LowMemory - 1
    BY <1>2
  <2> QED
    BY <2>1
<1>9. \A a \in FirstKernel .. Self - 1, b \in Index : a # FirstKernel => row(Table(a))[b] = 0
  <2> SUFFICES ASSUME NEW a \in FirstKernel .. Self - 1, NEW b \in Index, a # FirstKernel
               PROVE  row(Table(a))[b] = 0
    OBVIOUS
  <2>1. Table(a) \in Table(FirstKernel + 1) .. LowMemory - 1 /\ Table(a) # KernelDir
        /\ Table(a) # Table(FirstKernel)
    BY <1>1, <1>2
  <2> QED
    BY <2>1
<1>10. setup_page \in Memory
  <2>1. \A f \in Word : row(f) \in [Index -> Word]
    <3>1. \A f \in Word : row(f) = [i \in Index |-> row(f)[i]]
      OBVIOUS
    <3> HIDE DEF row
    <3> QED
      BY <3>1, <1>4
  <2> HIDE DEF row
  <2> QED
    BY <2>1, <1>3 DEF Memory
<1> HIDE DEF row
<1> QED
  BY <1>1, <1>2, <1>5, <1>6, <1>7, <1>8, <1>9, <1>10

LEMMA PageInit == Init => PageInv
<1> SUFFICES ASSUME Init PROVE PageInv
  OBVIOUS
<1>1. /\ mem = setup_page /\ cr3 = KernelDir /\ taken = LowMemory /\ halted = "no"
      /\ utaken = KernelEnd /\ bitmap \in BOOLEAN /\ kept = NULL
      /\ given = {<<KernelDir, v, LowMemory>> : v \in Low}
      /\ activated \in BOOLEAN /\ cur = Main /\ esp0 = NULL
      /\ pgdir = [t \in Thread |-> 0] /\ astray = {}
      /\ phase = [t \in Thread |-> IF t \in Kernel THEN "kernel" ELSE "none"]
  BY DEF Init, PagingInit
<1>2. /\ Main \in Thread /\ pgdir[Main] = 0 /\ \A t \in Thread : pgdir[t] = 0
      /\ \A p \in Proc : p \in Thread /\ phase[p] = "none" /\ pgdir[p] = 0
  BY <1>1, ProcessAssumption DEF Thread
<1>3. /\ mem \in Memory /\ mem[0] = Zeros /\ KernelDir \in Word /\ KernelDir = 1
      /\ LowMemory \in Word /\ LowMemory \in Nat /\ 2 < LowMemory /\ LowMemory # 0
  BY <1>1, SetupWords, Words
<1>4. Dirs(mem, pgdir) = {KernelDir}
  BY <1>2 DEF Dirs, DirAt
<1>5. /\ FirstKernel - 1 \in Index /\ FirstKernel - 1 # Self /\ FirstKernel - 1 # 0
      /\ FirstKernel - 1 \notin FirstKernel .. Self - 1
      /\ \A a \in 0 .. FirstKernel - 2 :
           a \in Index /\ a # Self /\ a \notin FirstKernel .. Self - 1
      /\ \A a \in FirstKernel .. Self - 1 : a \in Index /\ a # Self /\ a # 0
      /\ Self \in Index /\ FirstKernel \in FirstKernel .. Self - 1
      /\ 0 .. LowPages - 1 \subseteq Index /\ LowPages \in Nat
      /\ \A b \in Index : b \in Nat /\ (b < LowPages <=> b \in 0 .. LowPages - 1)
  BY Sizes
<1>6. StackTable(mem, KernelDir) = 0
  BY <1>1, <1>5, SetupWords DEF StackTable
<1>7. DirOK(mem, taken, KernelDir)
  BY <1>1, <1>5, <1>6, SetupWords DEF DirOK
<1>8. \A v, d : Given(given, d, v) =
        IF d = KernelDir /\ v \in Low THEN {LowMemory} ELSE {}
  BY <1>1, <1>3 DEF Given
<1>9. \A a \in 0 .. FirstKernel - 1, b \in Index : At(a, b, 0) \notin Low
  <2>1. \A b \in 0 .. LowPages - 1 : At(FirstKernel, b, 0) \in KernelPages
    BY <1>5, Halves
  <2> QED
    BY <2>1, Halves, HalvesApart
<1>10. UserMaps(mem, given, KernelDir)
  <2>1. FirstKernel - 1 \in 0 .. FirstKernel - 1 /\ 0 .. FirstKernel - 2 \subseteq 0 .. FirstKernel - 1
    BY Indices
  <2>2. \A b \in Index : mem[StackTable(mem, KernelDir)][b] = 0
    BY <1>3, <1>6 DEF Zeros
  <2> QED
    BY <2>1, <2>2, <1>8, <1>9 DEF UserMaps
<1>11. \A a \in FirstKernel .. Self - 1, b \in Index :
         At(a, b, 0) \in Low <=> a = FirstKernel /\ b < LowPages
  <2>1. \A a \in FirstKernel .. Self - 1, b \in Index :
          \A y \in 0 .. LowPages - 1 : At(a, b, 0) = At(FirstKernel, y, 0) <=> a = FirstKernel /\ b = y
    BY <1>5, PageUnique
  <2> QED
    BY <2>1, <1>5, Halves
<1>12. KernelMaps(mem, given)
  <2> SUFFICES ASSUME NEW a \in FirstKernel .. Self - 1, NEW b \in Index
               PROVE  Given(given, KernelDir, At(a, b, 0)) = {mem[Table(a)][b]} \ {0}
    BY DEF KernelMaps
  <2>1. mem[Table(a)][b] = IF a = FirstKernel /\ b < LowPages THEN LowMemory ELSE 0
    BY <1>1, SetupWords
  <2> QED
    BY <2>1, <1>3, <1>8, <1>11
<1>13. HeapTo(mem, 0)
  <2> SUFFICES ASSUME NEW a \in FirstKernel .. Self - 1, NEW b \in Index
               PROVE  mem[Table(a)][b] # 0 <=> a * Entries + b < FirstKernel * Entries + LowPages + 0
    BY DEF HeapTo
  <2>1. mem[Table(a)][b] # 0 <=> a = FirstKernel /\ b < LowPages
    BY <1>1, <1>3, SetupWords
  <2>2. a \in Nat /\ b \in Nat /\ FirstKernel \in Nat /\ FirstKernel <= a
        /\ LowPages \in Nat /\ LowPages <= Entries /\ Entries \in Nat
    BY Sizes
  <2>3. CASE a = FirstKernel
    <3>1. a * Entries \in Nat
      BY <2>2
    <3> QED
      BY <2>1, <2>2, <2>3, <3>1
  <2>4. CASE a # FirstKernel
    <3>1. FirstKernel < a
      BY <2>2, <2>4
    <3>2. Entries \in Nat \ {0}
      BY Sizes
    <3>3. FirstKernel * Entries + Entries <= a * Entries
      BY <2>2, <3>1, <3>2, Grows
    <3>4. a * Entries \in Nat /\ FirstKernel * Entries \in Nat
      BY <2>2
    <3>5. \A x, y, e, l, z \in Nat : x + e <= y /\ l <= e => ~ (y + z < x + l + 0)
      OBVIOUS
    <3> QED
      BY <2>1, <2>2, <2>4, <3>3, <3>4, <3>5
  <2> QED
    BY <2>3, <2>4
<1>14. PagesOK(mem, taken, given, pgdir)
  <2>1. OwnDirs(mem, taken, pgdir) /\ OwnTables(mem, pgdir)
    BY <1>2, <1>3, <1>4, <1>6 DEF OwnDirs, OwnTables
  <2>2. \A g \in given : g[1] \in 0 .. taken
    BY <1>1, <1>3
  <2>3. 0 \in 0 .. taken - LowMemory /\ LowMemory <= taken
    BY <1>1, <1>3
  <2> QED
    BY <2>1, <2>2, <2>3, <1>3, <1>4, <1>7, <1>10, <1>12, <1>13 DEF PagesOK
<1>15. given \subseteq Word \X (KernelPages \union UserPages) \X Word
  <2>1. Low \subseteq KernelPages
    BY <1>5, Halves
  <2> QED
    BY <2>1, <1>1, <1>3
<1>16. PhaseOK /\ HaltOK
  BY <1>1, <1>2 DEF PhaseOK, HaltOK
<1>17. UsesOK
  BY <1>1, <1>2 DEF UsesOK, DirAt
<1>18. mem[cr3][Self] = cr3
  BY <1>1, <1>7 DEF DirOK
<1>19. pgdir \in [Thread -> KernelPages \union {0}]
  BY <1>1
<1>20. LowMemory <= taken /\ taken <= KernelEnd /\ utaken \in KernelEnd .. Frames
  BY <1>1, Words
<1> QED
  BY <1>1, <1>3, <1>14, <1>15, <1>16, <1>17, <1>18, <1>19, <1>20 DEF PageInv, TakenOK

-----------------------------------------------------------------------------
(* The steps.                                                              *)
LEMMA UsedDir ==
  ASSUME PageInv, halted = "no", cur \in Thread
  PROVE  /\ PagesOK(mem, taken, given, pgdir)
         /\ cr3 \in Dirs(mem, pgdir) /\ DirOK(mem, taken, cr3)
         /\ cur \in Kernel => cr3 = KernelDir /\ pgdir[cur] = 0
<1>1. PagesOK(mem, taken, given, pgdir)
  BY DEF PageInv, TakenOK
<1>2. cur \in Kernel => cr3 = KernelDir /\ pgdir[cur] = 0
  BY <1>1, ProcessAssumption DEF PageInv, UsesOK, PagesOK, OwnDirs, DirAt
<1>3. cr3 \in Dirs(mem, pgdir)
  <2>1. CASE activated
    BY <2>1 DEF PageInv, UsesOK, Dirs
  <2>2. CASE ~ activated
    BY <2>2, <1>1, KernelDirUsed DEF PageInv, UsesOK
  <2> QED
    BY <2>1, <2>2
<1> QED
  BY <1>1, <1>2, <1>3 DEF PagesOK

(* A page of the kernel leaves its frame, when it needs no table.          *)
LEMMA FrameLeft ==
  ASSUME NEW v, taken \in Word, LowMemory <= taken, Takes(v)
  PROVE  /\ taken + 1 \in Word /\ taken < KernelEnd /\ LowMemory <= taken + 1 /\ utaken' = utaken
         /\ ~ NeedsTable(v) => taken' = taken + 1
         /\ ~ NeedsTable(v) /\ Read(mem, pte_ptr(v)) = 0 => halted' = "no"
<1>1. /\ taken < KernelEnd /\ utaken' = utaken
      /\ ~ NeedsTable(v) => taken' = taken + 1
      /\ ~ NeedsTable(v) /\ Read(mem, pte_ptr(v)) = 0 => halted' = "no"
  BY DEF Takes, Maps
<1>2. taken \in Nat /\ KernelEnd \in Nat /\ LowMemory \in Nat /\ KernelEnd <= Frames
      /\ Frames \in Nat /\ Word = 0 .. Frames
  BY Words
<1> QED
  BY <1>1, <1>2

LEMMA NewPages ==
  ASSUME mem \in Memory, taken \in Word, PagesOK(mem, taken, given, pgdir), cr3 = KernelDir,
         given \subseteq Word \X (KernelPages \union UserPages) \X Word,
         LowMemory <= taken, Takes(vaddr_get)
  PROVE  \E a \in FirstKernel .. Self - 1, b \in Index :
         /\ NextPage(a, b) /\ vaddr_get = At(a, b, 0) /\ mem[Table(a)][b] = 0
         /\ halted' = "no" /\ taken < KernelEnd /\ taken + 1 \in Word /\ taken' = taken + 1
         /\ utaken' = utaken /\ LowMemory <= taken'
         /\ vaddr_get \in KernelPages
         /\ given' = given \union {<<KernelDir, At(a, b, 0), taken + 1>>}
         /\ given' \subseteq Word \X (KernelPages \union UserPages) \X Word
<1> DEFINE v == vaddr_get
<1>1. taken + 1 \in Word /\ taken < KernelEnd /\ LowMemory <= taken + 1 /\ utaken' = utaken
  BY FrameLeft
<1>2. PICK a, b : NextPage(a, b)
  BY <1>1, HeapNext
<1>3. ~ NeedsTable(v) /\ Read(mem, pte_ptr(v)) = 0 /\ Owner(v) = KernelDir
  BY <1>1, <1>2, FoundPage
<1>4. /\ a \in FirstKernel .. Self - 1 /\ b \in Index /\ v = At(a, b, 0) /\ mem[Table(a)][b] = 0
  BY <1>2 DEF NextPage
<1>5. v \in KernelPages
  BY <1>4, Halves
<1>6. taken' = taken + 1
  BY <1>3, FrameLeft
<1>7. halted' = "no" /\ given' = given \union {<<KernelDir, v, taken + 1>>}
  BY <1>3, FrameLeft DEF Takes, Maps
<1>8. given' \subseteq Word \X (KernelPages \union UserPages) \X Word
  BY <1>1, <1>5, <1>7, Words
<1> QED
  BY <1>1, <1>2, <1>4, <1>5, <1>6, <1>7, <1>8

\* What the other conjuncts say stays when directories and stacks do.
Kept(t) ==
  /\ DirAt(mem', pgdir', t) = DirAt(mem, pgdir, t)
  /\ StackTable(mem', DirAt(mem, pgdir, t)) = StackTable(mem, DirAt(mem, pgdir, t))

LEMMA KernelPage ==
  ASSUME PageInv, halted = "no", cr3 = KernelDir, UNCHANGED <<cr3, pgdir>>, get_kernel_pages
  PROVE  /\ mem' \in Memory /\ mem'[0] = Zeros /\ mem'[cr3'][Self] = cr3'
         /\ halted' = "no" /\ taken < KernelEnd /\ TakenOK' /\ utaken' = utaken
         /\ given' \subseteq Word \X (KernelPages \union UserPages) \X Word
         /\ PagesOK(mem', taken', given', pgdir')
         /\ \A t \in Thread : Kept(t)
<1>1. mem \in Memory /\ taken \in Word /\ LowMemory <= taken /\ PagesOK(mem, taken, given, pgdir)
      /\ given \subseteq Word \X (KernelPages \union UserPages) \X Word
  BY DEF PageInv, TakenOK
<1>2. Takes(vaddr_get) /\ mem' = Allocated(vaddr_get)
  BY DEF get_kernel_pages
<1>3. PICK a \in FirstKernel .. Self - 1, b \in Index :
        /\ NextPage(a, b) /\ vaddr_get = At(a, b, 0) /\ mem[Table(a)][b] = 0
        /\ halted' = "no" /\ taken < KernelEnd /\ taken + 1 \in Word /\ taken' = taken + 1
        /\ utaken' = utaken /\ LowMemory <= taken'
        /\ given' = given \union {<<KernelDir, At(a, b, 0), taken + 1>>}
        /\ given' \subseteq Word \X (KernelPages \union UserPages) \X Word
  BY <1>1, <1>2, NewPages
<1>4. Gains(mem, mem', a, b, taken + 1, Zeros)
  BY <1>1, <1>2, <1>3, FoundPage
<1>5. PICK n \in 0 .. taken - LowMemory :
        HeapTo(mem, n) /\ a * Entries + b = FirstKernel * Entries + LowPages + n
  BY <1>3 DEF NextPage
<1>6. PagesOK(mem', taken', given', pgdir')
  <2>1. PagesOK(mem', taken + 1, given \union {<<KernelDir, At(a, b, 0), taken + 1>>}, pgdir)
    BY <1>1, <1>3, <1>4, <1>5, PageGained
  <2> QED
    BY <2>1, <1>3
<1>7. /\ mem'[KernelDir] = mem[KernelDir] /\ mem'[0] = mem[0]
      /\ \A d \in Dirs(mem, pgdir) : mem'[d] = mem[d]
      /\ \A t \in Thread : DirAt(mem', pgdir, t) = DirAt(mem, pgdir, t)
  <2>1. \A t \in Thread : DirAt(mem', pgdir, t) = DirAt(mem, pgdir, t)
    BY <1>1, <1>3, <1>4, DirsStay
  <2>2. /\ mem'[KernelDir] = mem[KernelDir] /\ mem'[0] = mem[0]
        /\ \A d \in Dirs(mem, pgdir) : mem'[d] = mem[d]
    BY <1>1, <1>3, <1>4, PageChanges
  <2> QED
    BY <2>1, <2>2
<1>8. \A t \in Thread : Kept(t)
  BY <1>7 DEF Kept, StackTable, Dirs
<1>9. mem' \in Memory /\ mem'[0] = Zeros /\ mem'[cr3'][Self] = cr3'
  BY <1>4, <1>7 DEF PageInv, Gains
<1>t. TakenOK'
  BY <1>1, <1>3, Words DEF PageInv, TakenOK
<1> QED
  BY <1>1, <1>3, <1>6, <1>8, <1>9, <1>t

LEMMA KernelPageDir ==
  ASSUME PageInv, halted = "no", cr3 = KernelDir, UNCHANGED cr3, NEW p \in Proc, pgdir[p] = 0,
         create_page_dir(vaddr_get), pgdir' = [pgdir EXCEPT ![p] = vaddr_get]
  PROVE  /\ mem' \in Memory /\ mem'[0] = Zeros /\ mem'[cr3'][Self] = cr3'
         /\ halted' = "no" /\ taken < KernelEnd /\ TakenOK' /\ utaken' = utaken
         /\ given' \subseteq Word \X (KernelPages \union UserPages) \X Word
         /\ pgdir' \in [Thread -> KernelPages \union {0}] /\ pgdir'[p] # 0
         /\ PagesOK(mem', taken', given', pgdir')
         /\ \A t \in Thread : t # p => Kept(t)
         /\ StackTable(mem', DirAt(mem', pgdir', p)) = 0
<1>1. mem \in Memory /\ taken \in Word /\ LowMemory <= taken /\ PagesOK(mem, taken, given, pgdir)
      /\ given \subseteq Word \X (KernelPages \union UserPages) \X Word
      /\ pgdir \in [Thread -> KernelPages \union {0}]
  BY DEF PageInv, TakenOK
<1>2. Takes(vaddr_get)
  BY DEF create_page_dir
<1>3. PICK a \in FirstKernel .. Self - 1, b \in Index :
        /\ NextPage(a, b) /\ vaddr_get = At(a, b, 0) /\ mem[Table(a)][b] = 0
        /\ halted' = "no" /\ taken < KernelEnd /\ taken + 1 \in Word /\ taken' = taken + 1
        /\ utaken' = utaken /\ LowMemory <= taken'
        /\ vaddr_get \in KernelPages
        /\ given' = given \union {<<KernelDir, At(a, b, 0), taken + 1>>}
        /\ given' \subseteq Word \X (KernelPages \union UserPages) \X Word
  BY <1>1, <1>2, NewPages
<1>4. Gains(mem, mem', a, b, taken + 1, NewDir(taken + 1))
  BY <1>1, <1>3, FoundDir
<1>5. PICK n \in 0 .. taken - LowMemory :
        HeapTo(mem, n) /\ a * Entries + b = FirstKernel * Entries + LowPages + n
  BY <1>3 DEF NextPage
<1>6. LET gw == given \union {<<KernelDir, At(a, b, 0), taken + 1>>}
          qg == [pgdir EXCEPT ![p] = At(a, b, 0)]
      IN /\ DirAt(mem', qg, p) = taken + 1 /\ StackTable(mem', taken + 1) = 0
         /\ \A t \in Thread : t # p => DirAt(mem', qg, t) = DirAt(mem, pgdir, t)
         /\ PagesOK(mem', taken + 1, gw, qg)
  BY <1>1, <1>3, <1>4, <1>5, DirGained
<1>7. /\ mem'[KernelDir] = mem[KernelDir] /\ mem'[0] = mem[0]
      /\ \A d \in Dirs(mem, pgdir) : mem'[d] = mem[d]
  BY <1>1, <1>3, <1>4, PageChanges
<1>8. \A t \in Thread : t # p => Kept(t)
  BY <1>3, <1>6, <1>7 DEF Kept, StackTable, Dirs
<1>9. mem' \in Memory /\ mem'[0] = Zeros /\ mem'[cr3'][Self] = cr3'
  BY <1>4, <1>7 DEF PageInv, Gains
<1>t. TakenOK'
  BY <1>1, <1>3, Words DEF PageInv, TakenOK
<1>10. pgdir' \in [Thread -> KernelPages \union {0}] /\ pgdir'[p] # 0
  BY <1>1, <1>3, Halves DEF Thread
<1> QED
  BY <1>3, <1>6, <1>8, <1>9, <1>10, <1>t

(* The directory of a thread, in the words of Process.                     *)
LEMMA DirOfAt ==
  ASSUME PagesOK(mem, taken, given, pgdir), taken \in Word, NEW t \in Thread
  PROVE  DirOf(t) = {DirAt(mem, pgdir, t)}
<1>1. CASE pgdir[t] = 0
  BY <1>1 DEF DirOf, DirAt
<1>2. CASE pgdir[t] # 0
  <2>1. pgdir[t] \in KernelPages /\ DirAt(mem, pgdir, t) \in LowMemory + 1 .. taken
    BY <1>2 DEF PagesOK, OwnDirs
  <2>2. PICK a \in FirstKernel .. Self - 1, b \in Index : pgdir[t] = At(a, b, 0)
    BY <2>1, Halves
  <2>3. mem[KernelDir][a] = Table(a)
    BY KernelDirUsed DEF PagesOK, DirOK
  <2>4. DirAt(mem, pgdir, t) = mem[Table(a)][b]
    BY <1>2, <2>2, <2>3, DirPlace
  <2>5. Given(given, KernelDir, pgdir[t]) = {mem[Table(a)][b]} \ {0}
    BY <2>2 DEF PagesOK, KernelMaps
  <2>6. mem[Table(a)][b] # 0
    BY <2>1, <2>4, Counts
  <2> QED
    BY <1>2, <2>4, <2>5, <2>6 DEF DirOf, Frame, Given
<1> QED
  BY <1>1, <1>2

(* get_a_page for a stack: where there is a page already, in a directory   *)
(* that has no table for it yet, and without memory for the table.         *)
LEMMA StackPage ==
  ASSUME PageInv, halted = "no", cur \in Thread, UNCHANGED <<cr3, pgdir>>, MapUserPage(Stack)
  PROVE  /\ mem' \in Memory /\ mem'[cr3'][Self] = cr3' /\ TakenOK'
         /\ taken' = taken \/ taken < KernelEnd
         /\ given' \subseteq Word \X (KernelPages \union UserPages) \X Word
         /\ halted' \in {"no", "assert", "low"}
         /\ halted' # "low" => mem'[0] = Zeros
         /\ halted' = "assert" => StackTable(mem, cr3) # 0
         /\ halted' = "low" =>
              /\ taken' = KernelEnd
              /\ \A t \in Thread : /\ DirAt(mem', pgdir', t) = DirAt(mem, pgdir, t)
                                   /\ DirOf(t)' = {DirAt(mem, pgdir, t)}
         /\ halted' = "no" =>
              /\ PagesOK(mem', taken', given', pgdir')
              /\ \A t \in Thread : DirAt(mem', pgdir', t) = DirAt(mem, pgdir, t)
              /\ \A t \in Thread : DirAt(mem, pgdir, t) # cr3 => Kept(t)
<1> DEFINE a == FirstKernel - 1
           v == At(a, Self, 0)
           f == utaken + 1
<1>1. /\ mem \in Memory /\ taken \in Word /\ cr3 \in Word /\ mem[cr3][Self] = cr3
      /\ given \subseteq Word \X (KernelPages \union UserPages) \X Word /\ mem[0] = Zeros
      /\ LowMemory <= taken /\ taken <= KernelEnd /\ utaken \in KernelEnd .. Frames
  BY DEF PageInv, TakenOK
<1>2. /\ utaken < Frames /\ utaken' = f
      /\ Maps(v, f, taken) /\ mem' = page_table_add(v, f, taken)
  BY Halves DEF MapUserPage
<1>3. a \in 0 .. Self - 1 /\ Self \in Index /\ a \in Index /\ a # Self /\ ~ (a >= FirstKernel)
      /\ a \in 0 .. FirstKernel - 1
  BY Indices
<1>4. f \in Word \ {0} /\ f \in KernelEnd .. Frames /\ taken \in Nat /\ KernelEnd \in Nat
  BY <1>1, <1>2, Words
<1>5. PagesOK(mem, taken, given, pgdir) /\ cr3 \in Dirs(mem, pgdir) /\ DirOK(mem, taken, cr3)
  BY UsedDir
<1>6. Owner(v) = cr3
  <2>1. PDE_IDX(v) = a
    <3>1. 0 \in 0 .. PG_SIZE - 1
      BY Indices
    <3> QED
      BY <1>3, <3>1, Parts
  <2> QED
    BY <2>1, <1>3 DEF Owner
<1>7. v \in UserPages /\ v \notin KernelPages
  BY <1>3, Halves, HalvesApart
<1>8. /\ given' = given \union {<<cr3, v, f>>}
      /\ taken' = IF NeedsTable(v) /\ palloc(taken) # 0 THEN taken + 1 ELSE taken
      /\ halted' = CASE NeedsTable(v) /\ palloc(taken) = 0 -> "low"
                     [] ~ NeedsTable(v) /\ Read(mem, pte_ptr(v)) # 0 -> "assert"
                     [] OTHER -> "no"
  BY <1>2, <1>6 DEF Maps
<1>9. given' \subseteq Word \X (KernelPages \union UserPages) \X Word
  BY <1>1, <1>4, <1>7, <1>8
<1>10. mem[cr3][a] = StackTable(mem, cr3)
  BY DEF StackTable
<1>11. v = Stack
  BY Halves
<1>t. TakenOK' /\ (taken' = taken \/ taken < KernelEnd)
  <2>1. taken' \in Word /\ LowMemory <= taken' /\ taken' <= KernelEnd
    <3> HIDE DEF v, f
    <3>1. taken' = taken \/ (taken < KernelEnd /\ taken' = taken + 1)
      BY <1>8 DEF palloc
    <3> QED
      BY <3>1, <1>1, <1>4, Words
  <2> QED
    BY <2>1, <1>2, <1>4, <1>8 DEF TakenOK, palloc
<1>c. cr3 # 0 /\ (cr3 = KernelDir \/ cr3 \in LowMemory + 1 .. taken)
  BY <1>1, <1>5, DirFacts
<1> HIDE DEF a, v, f
<1>12. CASE StackTable(mem, cr3) # 0
  <2> DEFINE T == StackTable(mem, cr3)
  <2>1. T \in LowMemory + 1 .. taken /\ mem[T][Self] # 0 /\ T # cr3
    BY <1>5, <1>12 DEF DirOK, PagesOK, OwnTables
  <2>2. LET m == page_table_add(At(a, Self, 0), f, taken)
        IN /\ ~ NeedsTable(At(a, Self, 0)) /\ Read(mem, pte_ptr(At(a, Self, 0))) = mem[mem[cr3][a]][Self]
           /\ m \in Memory
           /\ \A x \in Word : x # mem[cr3][a] => m[x] = mem[x]
    <3>1. f \in Word /\ mem[cr3][a] # 0
      BY <1>4, <1>10, <1>12
    <3>2. \A last :
            LET m == page_table_add(At(a, Self, 0), f, last)
            IN /\ ~ NeedsTable(At(a, Self, 0))
               /\ Read(mem, pte_ptr(At(a, Self, 0))) = mem[mem[cr3][a]][Self]
               /\ m \in Memory
               /\ m[mem[cr3][a]] = [mem[mem[cr3][a]] EXCEPT ![Self] = f]
               /\ \A x \in Word : x # mem[cr3][a] => m[x] = mem[x]
      BY <1>1, <1>3, <3>1, Entered
    <3> QED
      BY <3>2
  <2>3. /\ ~ NeedsTable(v) /\ Read(mem, pte_ptr(v)) = mem[T][Self]
        /\ mem' \in Memory /\ \A x \in Word : x # T => mem'[x] = mem[x]
    BY <2>2, <1>2, <1>10 DEF v
  <2>4. halted' = "assert"
    BY <2>1, <2>3, <1>8
  <2>5. mem'[0] = Zeros /\ mem'[cr3'][Self] = cr3'
    BY <2>1, <2>3, <1>1, <1>12, Words
  <2> QED
    BY <2>3, <2>4, <2>5, <1>9, <1>12, <1>t
<1>13. ASSUME StackTable(mem, cr3) = 0, NEW T \in Word, palloc(taken) = T, T # cr3
       PROVE  /\ NeedsTable(v) /\ mem' \in Memory
              /\ mem'[cr3] = [mem[cr3] EXCEPT ![FirstKernel - 1] = T]
              /\ mem'[T] = [Zeros EXCEPT ![Self] = f]
              /\ \A x \in Word : x \notin {cr3, T} => mem'[x] = mem[x]
  <2>1. mem[cr3][a] = 0 /\ f \in Word
    BY <1>4, <1>10, <1>13
  <2>2. LET m == page_table_add(At(a, Self, 0), f, taken)
        IN /\ NeedsTable(At(a, Self, 0))
           /\ m \in Memory
           /\ m[cr3] = [mem[cr3] EXCEPT ![a] = T]
           /\ m[T] = [Zeros EXCEPT ![Self] = f]
           /\ \A x \in Word : x \notin {cr3, T} => m[x] = mem[x]
    BY <1>1, <1>3, <1>13, <2>1, EnteredNew
  <2> QED
    BY <2>2, <1>2 DEF v, a
<1>14. CASE StackTable(mem, cr3) = 0 /\ taken < KernelEnd
  <2>1. palloc(taken) = taken + 1 /\ taken + 1 # 0
    BY <1>4, <1>14 DEF palloc
  <2>2. taken + 1 \in Word /\ taken + 1 # cr3
    <3>1. LowMemory \in Nat /\ 2 < LowMemory /\ LowMemory <= taken /\ KernelDir = 1
          /\ Word = 0 .. Frames /\ Frames \in Nat /\ KernelEnd <= Frames
      BY <1>1, Words
    <3> QED
      BY <3>1, <1>4, <1>14, <1>c
  <2>3. /\ NeedsTable(v) /\ mem' \in Memory
        /\ mem'[cr3] = [mem[cr3] EXCEPT ![FirstKernel - 1] = taken + 1]
        /\ mem'[taken + 1] = [Zeros EXCEPT ![Self] = f]
        /\ \A x \in Word : x \notin {cr3, taken + 1} => mem'[x] = mem[x]
    BY <2>1, <2>2, <1>13, <1>14
  <2>4. /\ \A t \in Thread : DirAt(mem', pgdir, t) = DirAt(mem, pgdir, t)
        /\ \A e \in Dirs(mem, pgdir) : e # cr3 => StackTable(mem', e) = StackTable(mem, e)
        /\ PagesOK(mem', taken + 1, given \union {<<cr3, Stack, f>>}, pgdir)
    BY <1>1, <1>4, <1>5, <1>14, <2>2, <2>3, StackGained
  <2>5. halted' = "no" /\ taken' = taken + 1
    BY <2>1, <2>3, <1>8, <1>14
  <2>6. PagesOK(mem', taken', given', pgdir')
    BY <2>4, <2>5, <1>8, <1>11
  <2>7. mem'[0] = Zeros
    BY <2>6 DEF PagesOK
  <2>8. mem'[cr3'][Self] = cr3'
    BY <2>3, <1>1, <1>3 DEF Memory, a
  <2>9. \A t \in Thread : DirAt(mem, pgdir, t) # cr3 => Kept(t)
    BY <2>4 DEF Kept, Dirs
  <2> QED
    BY <2>3, <2>4, <2>5, <2>6, <2>7, <2>8, <2>9, <1>9, <1>t
<1>15. CASE StackTable(mem, cr3) = 0 /\ ~ (taken < KernelEnd)
  <2>1. palloc(taken) = 0 /\ 0 \in Word
    BY <1>15, Words DEF palloc
  <2>2. /\ NeedsTable(v) /\ mem' \in Memory
        /\ mem'[cr3] = [mem[cr3] EXCEPT ![FirstKernel - 1] = 0]
        /\ \A x \in Word : x \notin {cr3, 0} => mem'[x] = mem[x]
    BY <2>1, <1>13, <1>15, <1>c
  <2>3. halted' = "low" /\ taken' = taken /\ taken = KernelEnd
    BY <2>1, <2>2, <1>1, <1>4, <1>8, <1>15
  <2>4. mem'[cr3'] = mem[cr3]
    BY <2>2, <1>1, <1>3, <1>10, <1>15 DEF Memory, a
  <2>5. \A x \in Word : x # 0 => mem'[x] = mem[x]
    BY <2>2, <2>4
  <2>6. ASSUME NEW t \in Thread
        PROVE  /\ DirAt(mem', pgdir', t) = DirAt(mem, pgdir, t)
               /\ DirOf(t)' = {DirAt(mem, pgdir, t)}
    <3>1. DirOf(t) = {DirAt(mem, pgdir, t)}
      BY <1>1, <1>5, DirOfAt
    <3>2. CASE pgdir[t] = 0
      BY <3>2 DEF DirAt, DirOf
    <3>3. CASE pgdir[t] # 0
      <4>1. PICK x \in FirstKernel .. Self - 1, y \in Index : pgdir[t] = At(x, y, 0)
        BY <3>3, <1>5, Halves DEF PagesOK, OwnDirs
      <4>2. mem[KernelDir][x] = Table(x)
        BY <1>5, KernelDirUsed DEF PagesOK, DirOK
      <4>3. /\ KernelDir \in Word \ {0} /\ Table(x) \in Word \ {0}
        <5>1. Table(x) \in 2 .. LowMemory - 1 /\ Table(x) \in Word /\ KernelDir = 1 /\ 1 \in Word
          BY <1>1, <1>5, Counts
        <5> QED
          BY <5>1
      <4>4. mem'[KernelDir][x] = Table(x) /\ mem'[Table(x)] = mem[Table(x)]
        BY <2>5, <4>2, <4>3
      <4>5. DirAt(mem', pgdir, t) = DirAt(mem, pgdir, t)
        <5>1. DirAt(mem, pgdir, t) = mem[Table(x)][y]
          BY <3>3, <4>1, <4>2, DirPlace
        <5>2. DirAt(mem', pgdir, t) = mem'[Table(x)][y]
          BY <3>3, <4>1, <4>4, DirPlace
        <5> QED
          BY <5>1, <5>2, <4>4
      <4>6. pgdir[t] # v
        BY <1>7, <4>1, Halves
      <4>7. DirOf(t) = {g \in Word : <<KernelDir, pgdir[t], g>> \in given}
        BY <3>3 DEF DirOf, Frame
      <4>8. DirOf(t)' = {g \in Word : <<KernelDir, pgdir[t], g>> \in given'}
        BY <3>3 DEF DirOf, Frame
      <4> QED
        BY <3>1, <4>5, <4>6, <4>7, <4>8, <1>8
    <3> QED
      BY <3>1, <3>2, <3>3
  <2> QED
    BY <2>2, <2>3, <2>4, <2>6, <1>1, <1>9, <1>t
<1> QED
  BY <1>12, <1>14, <1>15

(* A byte of low memory is in every table that the kernel's directory has  *)
(* at address 0: the bits of a bitmap at NULL are there, for whoever uses  *)
(* that directory.                                                         *)
LEMMA MarkMapped ==
  ASSUME NEW tk, NEW gv, NEW pg, PagesOK(mem, tk, gv, pg)
  PROVE  Walk(mem, KernelDir, MarkAt(Stack)) # 0
<1> DEFINE n == MarkAt(Stack)
           b == n \div PG_SIZE
           c == n % PG_SIZE
<1>1. n \in Nat /\ n < LowPages * PG_SIZE
  <2>1. Stack \in Nat
    <3>1. 0 \in 0 .. PG_SIZE - 1 /\ FirstKernel - 1 \in Index /\ Self \in Index
      BY Indices
    <3> QED
      BY <3>1, Halves, Parts
  <2>2. \A x \in Nat, y \in Nat \ {0} : x \div y \in Nat
    OBVIOUS
  <2>3. n \in Nat
    BY <2>1, <2>2, Sizes DEF MarkAt
  <2>4. MarkAt(Stack) < LowPages * PG_SIZE
    BY ProcessAssumption, Zenon
  <2> QED
    BY <2>3, <2>4
<1> HIDE DEF n
<1>2. b \in Nat /\ c \in 0 .. PG_SIZE - 1 /\ n = b * PG_SIZE + c
  <2>1. PG_SIZE \in Nat /\ PG_SIZE > 0 /\ n \in Nat
    BY <1>1, Sizes
  <2> QED
    BY <2>1
<1> HIDE DEF b, c
<1>3. b < LowPages
  <2> SUFFICES ASSUME LowPages <= b PROVE FALSE
    BY <1>2, Sizes
  <2>1. LowPages * PG_SIZE <= b * PG_SIZE
    BY <1>2, Sizes, Grows
  <2>2. LowPages * PG_SIZE \in Nat /\ b * PG_SIZE \in Nat
    BY <1>2, Sizes
  <2> QED
    BY <1>1, <1>2, <2>1, <2>2
<1>4. b \in Index /\ b \in 0 .. LowPages - 1 /\ 0 \in Index
      /\ FirstKernel \in FirstKernel .. Self - 1 /\ 0 \in 0 .. FirstKernel - 2
  BY <1>2, <1>3, Sizes
<1>5. n = At(0, b, c)
  <2>1. b * PG_SIZE \in Nat
    BY <1>2, Sizes
  <2> QED
    BY <1>2, <2>1, Sizes DEF At
<1>6. mem[KernelDir][0] = Table(FirstKernel)
  BY <1>4, KernelDirUsed DEF PagesOK, DirOK
<1>7. Walk(mem, KernelDir, n) = mem[Table(FirstKernel)][b]
  BY <1>2, <1>4, <1>5, <1>6, WalkParts
<1>8. PICK k \in 0 .. tk - LowMemory : HeapTo(mem, k)
  BY DEF PagesOK
<1>9. FirstKernel * Entries + b < FirstKernel * Entries + LowPages + k
  <2>1. FirstKernel * Entries \in Nat
    BY Sizes
  <2>2. k \in Int /\ 0 <= k
    BY <1>8
  <2> QED
    BY <1>2, <1>3, <2>1, <2>2, Sizes
<1>10. mem[Table(FirstKernel)][b] # 0
  BY <1>4, <1>8, <1>9 DEF HeapTo
<1> QED
  BY <1>7, <1>10 DEF n

(* A step that changes neither memory nor who uses it, but the phase of p, *)
(* not before p has a directory and not back to where it has no stack, and *)
(* who keeps the lock of user_pool.                                        *)
LEMMA PhaseOnly ==
  ASSUME PageInv, StackInv, halted = "no",
         UNCHANGED <<memory, source, cur, cr3, esp0, pgdir>>, NEW p \in Proc,
         kept' \in Proc \union {NULL}, kept' = kept \/ utaken = Frames,
         NEW ph, phase' = [phase EXCEPT ![p] = ph], astray' = astray,
         phase[p] \notin {"none", "pcb"}, ph \notin {"none", "pcb", "made", "entered"},
         ph = "framed" => phase[p] = "entered",
         ph \in {"stacked", "user", "trap"} => pgdir[p] # 0
  PROVE  PageInv'
<1>1. phase' \in [Thread -> Phase \union {ph}] /\ p \in Thread /\ phase'[p] = ph
      /\ \A q \in Proc : q \in Thread /\ (q # p => phase'[q] = phase[q])
  BY DEF StackInv, Thread
<1>2. UNCHANGED <<mem, taken, utaken, given, halted, activated, bitmap, cur, cr3, esp0, pgdir>>
  BY DEF memory, source
<1>3. PhaseOK'
  <2>1. ASSUME NEW q \in Proc
        PROVE  /\ phase'[q] \in {"none", "pcb"} => pgdir[q] = 0
               /\ phase'[q] \notin {"none", "pcb"} /\ pgdir[q] = 0 => taken = KernelEnd
               /\ phase'[q] \in {"stacked", "user", "trap"} => pgdir[q] # 0
               /\ pgdir[q] # 0 /\ phase'[q] \in {"made", "entered", "framed"} =>
                    StackTable(mem, DirAt(mem, pgdir, q)) = 0
    <3>1. CASE q = p
      BY <3>1, <1>1 DEF PageInv, PhaseOK
    <3>2. CASE q # p
      BY <3>2, <1>1 DEF PageInv, PhaseOK
    <3> QED
      BY <3>1, <3>2
  <2> QED
    BY <2>1, <1>2 DEF PhaseOK
<1>4. UsesOK' /\ HaltOK' /\ TakenOK'
  BY <1>2 DEF PageInv, UsesOK, HaltOK, TakenOK
<1> QED
  BY <1>2, <1>3, <1>4 DEF PageInv

(* A step that ends the machine and changes nothing else.                  *)
LEMMA HaltOnly ==
  ASSUME PageInv, halted = "no",
         UNCHANGED <<mem, taken, utaken, given, source, cur, cr3, esp0, pgdir, phase, kept, astray>>,
         \/ halted' = "panic" /\ taken = KernelEnd
         \/ halted' = "fault" /\ activated /\ ~ bitmap
  PROVE  PageInv'
<1>1. UNCHANGED <<activated, bitmap>>
  BY DEF source
<1>2. PhaseOK' /\ UsesOK' /\ HaltOK' /\ TakenOK'
  BY <1>1 DEF PageInv, PhaseOK, UsesOK, HaltOK, TakenOK
<1>3. halted' \in {"no", "assert", "panic", "fault", "low"} /\ halted' \notin {"assert", "low"}
  OBVIOUS
<1> QED
  BY <1>1, <1>2, <1>3 DEF PageInv

LEMMA PageStep == PageInv /\ StackInv /\ [Next]_vars => PageInv'
<1> SUFFICES ASSUME PageInv, StackInv, [Next]_vars PROVE PageInv'
  OBVIOUS
<1>0. /\ cur \in Thread /\ phase \in [Thread -> Phase]
      /\ \A q \in Proc : q \in Thread
      /\ Main \in Kernel /\ Kernel \cap Proc = {}
      /\ pgdir \in [Thread -> KernelPages \union {0}]
  BY ProcessAssumption DEF StackInv, Thread, PageInv
<1>u. ASSUME halted = "no"
      PROVE  /\ PagesOK(mem, taken, given, pgdir)
             /\ cr3 \in Dirs(mem, pgdir) /\ DirOK(mem, taken, cr3)
             /\ cur \in Kernel => cr3 = KernelDir /\ pgdir[cur] = 0
  BY <1>u, <1>0, UsedDir
<1>1. ASSUME NEW p \in Proc, process_execute(p) PROVE PageInv'
  <2>1. /\ halted = "no" /\ cur = Main /\ phase[p] = "none" /\ phase' = [phase EXCEPT ![p] = "pcb"]
        /\ get_kernel_pages /\ UNCHANGED <<activated, bitmap, cur, cr3, esp0, pgdir, kept, astray>>
    BY <1>1 DEF process_execute, Executes, Running, Becomes, source
  <2>2. cr3 = KernelDir
    BY <2>1, <1>0, <1>u
  <2>3. /\ mem' \in Memory /\ mem'[0] = Zeros /\ mem'[cr3'][Self] = cr3'
        /\ halted' = "no" /\ taken < KernelEnd /\ TakenOK' /\ utaken' = utaken
        /\ given' \subseteq Word \X (KernelPages \union UserPages) \X Word
        /\ PagesOK(mem', taken', given', pgdir')
        /\ \A t \in Thread : Kept(t)
    BY <2>1, <2>2, KernelPage
  <2>4. phase'[p] = "pcb" /\ \A q \in Proc : q # p => phase'[q] = phase[q]
    BY <2>1, <1>0
  <2>5. taken # KernelEnd
    BY <2>3, Words DEF PageInv, TakenOK
  <2>6. PhaseOK'
    <3>1. ASSUME NEW q \in Proc
          PROVE  /\ phase'[q] \in {"none", "pcb"} => pgdir'[q] = 0
                 /\ phase'[q] \notin {"none", "pcb"} => pgdir'[q] # 0
                 /\ pgdir'[q] # 0 /\ phase'[q] \in {"made", "entered", "framed"} =>
                      StackTable(mem', DirAt(mem', pgdir', q)) = 0
      <4>1. CASE q = p
        BY <4>1, <2>1, <2>4 DEF PageInv, PhaseOK
      <4>2. CASE q # p
        BY <4>2, <2>1, <2>3, <2>4, <2>5, <1>0 DEF PageInv, PhaseOK, Kept
      <4> QED
        BY <4>1, <4>2
    <3> QED
      BY <3>1 DEF PhaseOK
  <2>7. UsesOK' /\ HaltOK'
    <3>1. DirAt(mem', pgdir', cur) = DirAt(mem, pgdir, cur)
      BY <2>3, <1>0 DEF Kept
    <3> QED
      BY <3>1, <2>1, <2>3 DEF PageInv, UsesOK, HaltOK
  <2> QED
    BY <2>1, <2>3, <2>6, <2>7 DEF PageInv
<1>2. ASSUME NEW p \in Proc, SetPgdir(p) PROVE PageInv'
  <2>1. /\ halted = "no" /\ cur = Main /\ phase[p] = "pcb" /\ phase' = [phase EXCEPT ![p] = "made"]
        /\ UNCHANGED <<activated, bitmap, cur, cr3, esp0, kept, astray>>
    BY <1>2 DEF SetPgdir, Running, Becomes, source
  <2>2. cr3 = KernelDir /\ pgdir[p] = 0 /\ Main # p
    BY <2>1, <1>0, <1>u DEF PageInv, PhaseOK
  <2>3. phase'[p] = "made" /\ \A q \in Proc : q # p => phase'[q] = phase[q]
    BY <2>1, <1>0
  <2>4. CASE create_page_dir(vaddr_get) /\ pgdir' = [pgdir EXCEPT ![p] = vaddr_get]
    <3>1. pgdir' = [pgdir EXCEPT ![p] = vaddr_get]
      BY <2>4
    <3>2. /\ mem' \in Memory /\ mem'[0] = Zeros /\ mem'[cr3'][Self] = cr3'
          /\ halted' = "no" /\ taken < KernelEnd /\ TakenOK' /\ utaken' = utaken
          /\ given' \subseteq Word \X (KernelPages \union UserPages) \X Word
          /\ pgdir' \in [Thread -> KernelPages \union {0}] /\ pgdir'[p] # 0
          /\ PagesOK(mem', taken', given', pgdir')
          /\ \A t \in Thread : t # p => Kept(t)
          /\ StackTable(mem', DirAt(mem', pgdir', p)) = 0
      BY <2>1, <2>2, <2>4, KernelPageDir
    <3>3. \A q \in Thread : q # p => pgdir'[q] = pgdir[q]
      BY <3>1, <1>0
    <3>4. taken # KernelEnd
      BY <3>2, Words DEF PageInv, TakenOK
    <3>5. PhaseOK'
      <4>1. ASSUME NEW q \in Proc
            PROVE  /\ phase'[q] \in {"none", "pcb"} => pgdir'[q] = 0
                   /\ phase'[q] \notin {"none", "pcb"} => pgdir'[q] # 0
                   /\ pgdir'[q] # 0 /\ phase'[q] \in {"made", "entered", "framed"} =>
                        StackTable(mem', DirAt(mem', pgdir', q)) = 0
        <5>1. CASE q = p
          BY <5>1, <2>3, <3>2
        <5>2. CASE q # p
          BY <5>2, <2>1, <2>3, <3>2, <3>3, <3>4, <1>0 DEF PageInv, PhaseOK, Kept
        <5> QED
          BY <5>1, <5>2
      <4> QED
        BY <4>1 DEF PhaseOK
    <3>6. UsesOK' /\ HaltOK'
      <4>1. DirAt(mem', pgdir', cur) = DirAt(mem, pgdir, cur) /\ pgdir'[cur] = pgdir[cur]
        BY <2>1, <2>2, <3>2, <3>3, <1>0 DEF Kept
      <4> QED
        BY <4>1, <2>1, <3>2 DEF PageInv, UsesOK, HaltOK
    <3> QED
      BY <2>1, <3>2, <3>5, <3>6 DEF PageInv
  <2>5. CASE taken = KernelEnd /\ UNCHANGED <<memory, pgdir>>
    <3>1. UNCHANGED <<mem, taken, utaken, given, halted, pgdir>>
      BY <2>5 DEF memory
    <3>3. PhaseOK'
      <4>1. ASSUME NEW q \in Proc
            PROVE  /\ phase'[q] \in {"none", "pcb"} => pgdir[q] = 0
                   /\ phase'[q] \in {"stacked", "user", "trap"} => pgdir[q] # 0
                   /\ pgdir[q] # 0 /\ phase'[q] \in {"made", "entered", "framed"} =>
                        StackTable(mem, DirAt(mem, pgdir, q)) = 0
        <5>1. CASE q = p
          BY <5>1, <2>2, <2>3
        <5>2. CASE q # p
          BY <5>2, <2>1, <2>3 DEF PageInv, PhaseOK
        <5> QED
          BY <5>1, <5>2
      <4> QED
        BY <4>1, <3>1, <2>5 DEF PhaseOK
    <3>4. UsesOK' /\ HaltOK' /\ TakenOK'
      BY <3>1, <2>1 DEF PageInv, UsesOK, HaltOK, TakenOK
    <3> QED
      BY <2>1, <3>1, <3>3, <3>4 DEF PageInv
  <2> QED
    BY <1>2, <2>4, <2>5 DEF SetPgdir
<1>3. ASSUME KernelAlloc PROVE PageInv'
  <2>1. /\ halted = "no" /\ cur \in Kernel /\ get_kernel_pages
        /\ UNCHANGED <<activated, bitmap, cur, cr3, esp0, pgdir, phase, kept, astray>>
    BY <1>3 DEF KernelAlloc, source
  <2>2. cr3 = KernelDir
    BY <2>1, <1>u
  <2>3. /\ mem' \in Memory /\ mem'[0] = Zeros /\ mem'[cr3'][Self] = cr3'
        /\ halted' = "no" /\ taken < KernelEnd /\ TakenOK' /\ utaken' = utaken
        /\ given' \subseteq Word \X (KernelPages \union UserPages) \X Word
        /\ PagesOK(mem', taken', given', pgdir')
        /\ \A t \in Thread : Kept(t)
    BY <2>1, <2>2, KernelPage
  <2>4. taken # KernelEnd
    BY <2>3, Words DEF PageInv, TakenOK
  <2>5. PhaseOK'
    <3>1. ASSUME NEW q \in Proc
          PROVE  /\ phase'[q] \in {"none", "pcb"} => pgdir'[q] = 0
                 /\ phase'[q] \notin {"none", "pcb"} => pgdir'[q] # 0
                 /\ pgdir'[q] # 0 /\ phase'[q] \in {"made", "entered", "framed"} =>
                      StackTable(mem', DirAt(mem', pgdir', q)) = 0
      BY <2>1, <2>3, <2>4, <1>0 DEF PageInv, PhaseOK, Kept
    <3> QED
      BY <3>1 DEF PhaseOK
  <2>6. UsesOK' /\ HaltOK'
    <3>1. DirAt(mem', pgdir', cur) = DirAt(mem, pgdir, cur)
      BY <2>3, <1>0 DEF Kept
    <3> QED
      BY <3>1, <2>1, <2>3 DEF PageInv, UsesOK, HaltOK
  <2> QED
    BY <2>1, <2>3, <2>5, <2>6 DEF PageInv
<1>4. ASSUME NEW p \in Proc, start_process(p) PROVE PageInv'
  <2>1. /\ halted = "no" /\ phase[p] = "entered" /\ phase' = [phase EXCEPT ![p] = "framed"]
        /\ UNCHANGED <<memory, source, cur, cr3, esp0, pgdir>> /\ astray' = astray
        /\ kept' = kept /\ kept \in Proc \union {NULL} /\ (phase[p] # "entered" => pgdir[p] # 0)
    BY <1>4 DEF start_process, StartAt, Running, Becomes, PageInv, PhaseOK
  <2> QED
    BY <2>1, PhaseOnly
<1>5. ASSUME NEW p \in Proc, UserStack(p) PROVE PageInv'
  <2>1. /\ halted = "no" /\ cur = p /\ phase[p] = "framed" /\ phase' = [phase EXCEPT ![p] = "stacked"]
        /\ UNCHANGED <<activated, bitmap, cur, cr3, esp0, pgdir, astray>>
        /\ kept = NULL /\ pgdir[p] # 0
        /\ \/ MapUserPage(Stack) /\ kept' = kept
           \/ utaken = Frames /\ kept' = p /\ UNCHANGED memory
    BY <1>5 DEF UserStack, Running, Becomes, get_a_page,
                     get_a_page_anyone, source
  <2>2. CASE utaken = Frames /\ kept' = p /\ UNCHANGED memory
    <3>1. UNCHANGED <<memory, source, cur, cr3, esp0, pgdir>>
      BY <2>1, <2>2 DEF source
    <3> QED
      BY <2>1, <2>2, <3>1, PhaseOnly
  <2>3. CASE MapUserPage(Stack) /\ kept' = kept
    <3>1. StackTable(mem, DirAt(mem, pgdir, p)) = 0
      BY <2>1 DEF PageInv, PhaseOK
    <3>2. activated => cr3 = DirAt(mem, pgdir, p)
      BY <2>1 DEF PageInv, UsesOK
    <3>3. /\ mem' \in Memory /\ mem'[cr3'][Self] = cr3' /\ TakenOK'
          /\ taken' = taken \/ taken < KernelEnd
          /\ given' \subseteq Word \X (KernelPages \union UserPages) \X Word
          /\ halted' \in {"no", "assert", "low"}
          /\ halted' # "low" => mem'[0] = Zeros
          /\ halted' = "assert" => StackTable(mem, cr3) # 0
          /\ halted' = "low" =>
               /\ taken' = KernelEnd
               /\ \A t \in Thread : /\ DirAt(mem', pgdir', t) = DirAt(mem, pgdir, t)
                                    /\ DirOf(t)' = {DirAt(mem, pgdir, t)}
          /\ halted' = "no" =>
               /\ PagesOK(mem', taken', given', pgdir')
               /\ \A t \in Thread : DirAt(mem', pgdir', t) = DirAt(mem, pgdir, t)
               /\ \A t \in Thread : DirAt(mem, pgdir, t) # cr3 => Kept(t)
      BY <2>1, <2>3, <1>0, StackPage
    <3>4. activated => halted' # "assert"
      BY <3>1, <3>2, <3>3
    <3>5. phase'[p] = "stacked" /\ \A q \in Proc : q # p => phase'[q] = phase[q]
      BY <2>1, <1>0
    <3>6. \A q \in Proc : q # p /\ pgdir[q] # 0 => DirAt(mem, pgdir, q) # cr3
      <4>1. OwnDirs(mem, taken, pgdir)
        BY <2>1, <1>u DEF PagesOK
      <4>2. CASE activated
        BY <4>1, <4>2, <2>1, <3>2, <1>0 DEF OwnDirs
      <4>3. CASE ~ activated
        <5>1. cr3 = KernelDir
          BY <4>3 DEF PageInv, UsesOK
        <5>2. KernelDir \notin LowMemory + 1 .. taken
          BY Words DEF PageInv, TakenOK
        <5> QED
          BY <4>1, <5>1, <5>2, <1>0 DEF OwnDirs
      <4> QED
        BY <4>2, <4>3
    <3>7. PhaseOK'
      <4>1. ASSUME NEW q \in Proc
            PROVE  /\ phase'[q] \in {"none", "pcb"} => pgdir'[q] = 0
                   /\ phase'[q] \notin {"none", "pcb"} /\ pgdir'[q] = 0 => taken' = KernelEnd
                   /\ phase'[q] \in {"stacked", "user", "trap"} => pgdir'[q] # 0
                   /\ halted' \notin {"assert", "low"} /\ pgdir'[q] # 0
                        /\ phase'[q] \in {"made", "entered", "framed"} =>
                          StackTable(mem', DirAt(mem', pgdir', q)) = 0
        <5>1. CASE q = p
          BY <5>1, <2>1, <3>5
        <5>2. CASE q # p
          <6>1. phase'[q] = phase[q] /\ pgdir'[q] = pgdir[q] /\ q \in Thread
            BY <5>2, <2>1, <3>5, <1>0
          <6>2. halted' \notin {"assert", "low"} /\ pgdir[q] # 0 => Kept(q)
            BY <5>2, <6>1, <3>3, <3>6
          <6>3. taken = KernelEnd => taken' = KernelEnd
            BY <3>3, Words
          <6> QED
            BY <6>1, <6>2, <6>3, <2>1 DEF PageInv, PhaseOK, Kept
        <5> QED
          BY <5>1, <5>2
      <4> QED
        BY <4>1 DEF PhaseOK
    <3>8. UsesOK' /\ HaltOK'
      <4>1. activated => DirAt(mem', pgdir', cur) = DirAt(mem, pgdir, cur)
        BY <3>3, <3>4, <1>0
      <4> QED
        BY <4>1, <2>1, <2>3, <3>3, <3>4 DEF PageInv, UsesOK, HaltOK
    <3> QED
      BY <2>1, <2>3, <3>3, <3>7, <3>8 DEF PageInv
  <2> QED
    BY <2>1, <2>2, <2>3
<1>6. ASSUME NEW p \in Proc, IntrExit(p) PROVE PageInv'
  <2>1. /\ halted = "no" /\ phase[p] = "stacked" /\ phase' = [phase EXCEPT ![p] = "user"]
        /\ UNCHANGED <<memory, source, cur, cr3, esp0, pgdir>> /\ astray' = astray
        /\ kept' = kept /\ kept \in Proc \union {NULL} /\ (phase[p] # "entered" => pgdir[p] # 0)
    BY <1>6 DEF IntrExit, Running, Becomes, PageInv, PhaseOK
  <2> QED
    BY <2>1, PhaseOnly
<1>7. ASSUME NEW p \in Proc, Trap(p) PROVE PageInv'
  <2>1. /\ halted = "no" /\ cur = p /\ phase[p] = "user" /\ phase' = [phase EXCEPT ![p] = "trap"]
        /\ UNCHANGED <<memory, source, cur, cr3, esp0, pgdir, kept>>
        /\ astray' = IF esp0 = p THEN astray ELSE astray \union {p}
    BY <1>7 DEF Trap, Running, Becomes
  <2>2. phase'[p] = "trap" /\ \A q \in Proc : q # p => phase'[q] = phase[q]
    BY <2>1, <1>0
  <2>3. activated => astray' = {}
    BY <2>1 DEF PageInv, PhaseOK, UsesOK
  <2>4. UNCHANGED <<mem, taken, utaken, given, halted, activated, bitmap, cur, cr3, esp0, pgdir, kept>>
    BY <2>1 DEF memory, source
  <2>5. astray' \subseteq Proc
    BY <2>1 DEF PageInv
  <2>6. PhaseOK'
    <3>1. ASSUME NEW q \in Proc
          PROVE  /\ phase'[q] \in {"none", "pcb"} => pgdir[q] = 0
                 /\ phase'[q] \notin {"none", "pcb"} /\ pgdir[q] = 0 => taken = KernelEnd
                 /\ phase'[q] \in {"stacked", "user", "trap"} => pgdir[q] # 0
                 /\ pgdir[q] # 0 /\ phase'[q] \in {"made", "entered", "framed"} =>
                      StackTable(mem, DirAt(mem, pgdir, q)) = 0
      BY <2>1, <2>2 DEF PageInv, PhaseOK
    <3> QED
      BY <3>1, <2>4 DEF PhaseOK
  <2>7. UsesOK' /\ HaltOK' /\ TakenOK'
    BY <2>1, <2>3, <2>4 DEF PageInv, UsesOK, HaltOK, TakenOK
  <2> QED
    BY <2>4, <2>5, <2>6, <2>7 DEF PageInv
<1>8. ASSUME NEW p \in Proc, TrapReturn(p) PROVE PageInv'
  <2>1. /\ halted = "no" /\ phase[p] = "trap" /\ phase' = [phase EXCEPT ![p] = "user"]
        /\ UNCHANGED <<memory, source, cur, cr3, esp0, pgdir>> /\ astray' = astray
        /\ kept' = kept /\ kept \in Proc \union {NULL} /\ (phase[p] # "entered" => pgdir[p] # 0)
    BY <1>8 DEF TrapReturn, Running, Becomes, PageInv, PhaseOK
  <2> QED
    BY <2>1, PhaseOnly
<1>9. ASSUME NEW t \in Thread, Switch(t) PROVE PageInv'
  <2>1. /\ halted = "no" /\ cur' = t /\ UNCHANGED <<mem, taken, utaken, given, halted, activated, bitmap, pgdir, kept, astray>>
        /\ IF activated THEN process_activate(t) ELSE UNCHANGED <<cr3, esp0>>
        /\ phase' = IF phase[t] = "made" THEN [phase EXCEPT ![t] = "entered"] ELSE phase
    BY <1>9 DEF Switch, memory, source
  <2>2. PagesOK(mem, taken, given, pgdir) /\ DirOK(mem, taken, cr3) /\ cr3 \in Dirs(mem, pgdir)
        /\ mem \in Memory /\ taken \in Word /\ cr3 \in Word /\ mem[cr3][Self] = cr3
    BY <2>1, <1>u DEF PageInv, TakenOK
  <2>3. activated => cr3' = DirAt(mem, pgdir, t)
    <3> SUFFICES ASSUME activated PROVE cr3' = DirAt(mem, pgdir, t)
      OBVIOUS
    <3>1. cr3' = IF pgdir[t] # 0 THEN addr_v2p(mem, pgdir[t]) \div PG_SIZE ELSE KernelDir
      BY <2>1 DEF process_activate, page_dir_activate, ActivateOr
    <3>2. CASE pgdir[t] = 0
      BY <3>1, <3>2 DEF DirAt
    <3>3. CASE pgdir[t] # 0
      <4>1. PICK a \in FirstKernel .. Self - 1, b \in Index : pgdir[t] = At(a, b, 0)
        BY <3>3, <2>2, Halves DEF PagesOK, OwnDirs
      <4>2. a \in Index
        BY Indices
      <4>3. mem[KernelDir][a] = Table(a) /\ mem[cr3][a] = Table(a)
        BY <2>2, KernelDirUsed DEF PagesOK, DirOK
      <4>4. DirAt(mem, pgdir, t) = mem[Table(a)][b]
        BY <3>3, <4>1, <4>3, DirPlace
      <4>5. Read(mem, pte_ptr(pgdir[t])) = mem[Table(a)][b] /\ pgdir[t] % PG_SIZE = 0
        <5>1. \A c \in 0 .. PG_SIZE - 1 : Read(mem, pte_ptr(At(a, b, c))) = mem[mem[cr3][a]][b]
          BY <4>2, <2>2, Reaches
        <5>2. 0 \in 0 .. PG_SIZE - 1
          BY Indices
        <5>3. \A c \in 0 .. PG_SIZE - 1 : At(a, b, c) % PG_SIZE = c
          BY <4>2, Parts
        <5> QED
          BY <5>1, <5>2, <5>3, <4>1, <4>3
      <4>6. DirAt(mem, pgdir, t) \in Nat
        BY SMTT(30), <3>3, <2>2, Words DEF PagesOK, OwnDirs
      <4>7. \A f \in Nat : (f * PG_SIZE + 0) \div PG_SIZE = f
        <5> SUFFICES ASSUME NEW f \in Nat PROVE (f * PG_SIZE + 0) \div PG_SIZE = f
          OBVIOUS
        <5>1. f * PG_SIZE = PG_SIZE * f /\ PG_SIZE \in Nat \ {0} /\ 0 \in 0 .. PG_SIZE - 1
          BY Sizes
        <5> QED
          BY <5>1, Division
      <4> QED
        BY <3>1, <3>3, <4>4, <4>5, <4>6, <4>7 DEF addr_v2p
    <3> QED
      BY <3>2, <3>3
  <2>4. ~ activated => cr3' = cr3 /\ esp0' = esp0
    BY <2>1
  <2>5. activated => esp0' = IF pgdir[t] # 0 THEN t ELSE esp0
    BY <2>1 DEF process_activate, update_tss_esp
  <2>6. pgdir[t] # 0 => t \in Proc
    BY <2>2 DEF PagesOK, OwnDirs
  <2>7. esp0' \in Proc \union {NULL}
    BY <2>4, <2>5, <2>6 DEF PageInv
  <2>8. cr3' \in Word /\ mem[cr3'][Self] = cr3'
    <3>1. CASE activated
      <4>1. cr3' \in Dirs(mem, pgdir)
        BY <2>3, <3>1 DEF Dirs
      <4> QED
        BY <4>1, <2>2, DirFacts DEF DirOK
    <3>2. CASE ~ activated
      BY <2>2, <2>4, <3>2
    <3> QED
      BY <3>1, <3>2
  <2>9. \A q \in Proc : phase'[q] = phase[q] \/ (phase[q] = "made" /\ phase'[q] = "entered")
    BY <2>1, <1>0
  <2>10. PhaseOK'
    <3>1. ASSUME NEW q \in Proc
          PROVE  /\ phase'[q] \in {"none", "pcb"} => pgdir[q] = 0
                 /\ phase'[q] \notin {"none", "pcb"} /\ pgdir[q] = 0 => taken = KernelEnd
                 /\ phase'[q] \in {"stacked", "user", "trap"} => pgdir[q] # 0
                 /\ pgdir[q] # 0 /\ phase'[q] \in {"made", "entered", "framed"} =>
                      StackTable(mem, DirAt(mem, pgdir, q)) = 0
      BY <2>1, <2>9 DEF PageInv, PhaseOK
    <3> QED
      BY <3>1, <2>1 DEF PhaseOK
  <2>11. UsesOK' /\ HaltOK' /\ TakenOK'
    <3>2. ~ activated => cr3' = KernelDir
      BY <2>4 DEF PageInv, UsesOK
    <3>3. activated => astray = {}
      BY DEF PageInv, UsesOK
    <3> QED
      BY <3>2, <3>3, <2>1, <2>3, <2>5 DEF PageInv, UsesOK, HaltOK, TakenOK
  <2> QED
    BY <2>1, <2>2, <2>7, <2>8, <2>10, <2>11 DEF PageInv
<1>10. ASSUME NEW p \in Proc, process_execute_panics(p) PROVE PageInv'
  <2>1. /\ halted = "no" /\ halted' = "panic" /\ taken = KernelEnd
        /\ UNCHANGED <<mem, taken, utaken, given, source, cur, cr3, esp0, pgdir, phase, kept, astray>>
    BY <1>10 DEF process_execute_panics, Executes, Running
  <2> QED
    BY <2>1, HaltOnly
<1>11. ASSUME NEW p \in Proc, UserStackStops(p) PROVE PageInv'
  <2>1. /\ halted = "no" /\ cur = p /\ phase[p] = "framed"
        /\ UNCHANGED <<mem, taken, utaken, given, source, cur, cr3, esp0, pgdir, phase, kept, astray>>
        /\ \/ pgdir[p] = 0 /\ halted' = "panic"
           \/ ~ Marks(Stack) /\ halted' = "fault"
    BY <1>11 DEF UserStackStops, get_a_page_stops, Running
  <2>2. pgdir[p] = 0 => taken = KernelEnd
    BY <2>1 DEF PageInv, PhaseOK
  <2>3. ~ Marks(Stack) => activated /\ ~ bitmap
    <3>1. Walk(mem, KernelDir, MarkAt(Stack)) # 0
      BY <2>1, <1>u, MarkMapped
    <3>2. ~ activated => cr3 = KernelDir
      BY DEF PageInv, UsesOK
    <3> QED
      BY <3>1, <3>2 DEF Marks
  <2> QED
    BY <2>1, <2>2, <2>3, HaltOnly
<1>12. CASE UNCHANGED vars
  <2>1. UNCHANGED <<mem, taken, utaken, given, halted, activated, bitmap, cur, cr3, esp0, pgdir,
                    phase, kept, astray>>
    BY <1>12 DEF vars, memory, source
  <2>2. PhaseOK'
    BY <2>1 DEF PageInv, PhaseOK
  <2>3. UsesOK' /\ HaltOK' /\ TakenOK'
    BY <2>1 DEF PageInv, UsesOK, HaltOK, TakenOK, DirOf, Frame
  <2> QED
    BY <2>1, <2>2, <2>3 DEF PageInv
<1> QED
  BY <1>1, <1>2, <1>3, <1>4, <1>5, <1>6, <1>7, <1>8, <1>9, <1>10, <1>11, <1>12 DEF Next

LEMMA PageAlways == Spec => [](PageInv /\ StackInv)
<1>1. Init => PageInv /\ StackInv
  BY PageInit, StackInit
<1>2. PageInv /\ StackInv /\ [Next]_vars => (PageInv /\ StackInv)'
  BY PageStep, StackStep
<1> QED
  BY <1>1, <1>2, PTL DEF Spec

-----------------------------------------------------------------------------
(* What the invariant says, in the words of Process.                       *)
LEMMA PageType == PageInv /\ StackInv => TypeOK
<1> SUFFICES ASSUME PageInv, StackInv PROVE TypeOK
  OBVIOUS
<1>1. PagingTypeOK
  <2>1. taken \in LowMemory .. KernelEnd
    BY Words DEF PageInv, TakenOK
  <2> QED
    BY <2>1 DEF PageInv, TakenOK, Memory, PagingTypeOK
<1> QED
  BY <1>1 DEF PageInv, StackInv, TypeOK, Depth

LEMMA PageMaps == PageInv => MapsExactly
<1> SUFFICES ASSUME PageInv, halted \notin {"assert", "low"}, NEW t \in Thread, NEW d \in DirOf(t)
             PROVE  /\ \A v \in KernelPages : Frame(KernelDir, v) = {Walk(mem, d, v)} \ {0}
                    /\ \A v \in UserPages :
                         (d = KernelDir => PDE_IDX(v) # 0) => Frame(d, v) = {Walk(mem, d, v)} \ {0}
  BY DEF MapsExactly
<1>1. PagesOK(mem, taken, given, pgdir) /\ taken \in Word
  BY DEF PageInv, TakenOK
<1>2. d \in Dirs(mem, pgdir)
  BY <1>1, DirOfAt DEF Dirs
<1>3. DirOK(mem, taken, d) /\ UserMaps(mem, given, d) /\ mem[0] = Zeros
  BY <1>1, <1>2 DEF PagesOK
<1>4. \A e, v : Frame(e, v) = Given(given, e, v)
  BY DEF Frame, Given
<1>5. ASSUME NEW v \in KernelPages PROVE Frame(KernelDir, v) = {Walk(mem, d, v)} \ {0}
  <2>1. PICK a \in FirstKernel .. Self - 1, b \in Index : v = At(a, b, 0)
    BY Halves
  <2>2. a \in Index
    BY Indices
  <2>3. Walk(mem, d, At(a, b, 0)) = mem[mem[d][a]][b]
    BY <2>2, WalkPage
  <2>4. Walk(mem, d, v) = mem[Table(a)][b]
    BY <2>1, <2>3, <1>3 DEF DirOK
  <2> QED
    BY <2>1, <2>4, <1>1, <1>4 DEF PagesOK, KernelMaps
<1>6. ASSUME NEW v \in UserPages, d = KernelDir => PDE_IDX(v) # 0
      PROVE  Frame(d, v) = {Walk(mem, d, v)} \ {0}
  <2>1. PICK a \in 0 .. FirstKernel - 1, b \in Index : v = At(a, b, 0)
    BY Halves
  <2>2. a \in Index
    BY Indices
  <2>3. Walk(mem, d, v) = mem[mem[d][a]][b]
    BY <2>1, <2>2, WalkPage
  <2>4. PDE_IDX(v) = a
    <3>1. \A c \in 0 .. PG_SIZE - 1 : PDE_IDX(At(a, b, c)) = a
      BY <2>2, Parts
    <3>2. 0 \in 0 .. PG_SIZE - 1
      BY Indices
    <3> QED
      BY <2>1, <3>1, <3>2
  <2>5. CASE a = FirstKernel - 1
    <3>1. Given(given, d, v) = {mem[StackTable(mem, d)][b]} \ {0}
      BY <2>1, <2>5, <1>3 DEF UserMaps
    <3> QED
      BY <2>3, <2>5, <3>1, <1>4 DEF StackTable
  <2>6. CASE a # FirstKernel - 1
    <3>1. a \in 0 .. FirstKernel - 2
      BY <2>6, Sizes
    <3>2. mem[d][a] = 0
      BY <2>4, <3>1, <1>3, <1>6 DEF DirOK
    <3>3. Walk(mem, d, v) = 0
      BY <2>3, <3>2, <1>3 DEF Zeros
    <3>4. Given(given, d, v) = {}
      BY <2>1, <3>1, <1>3 DEF UserMaps
    <3> QED
      BY <3>3, <3>4, <1>4
  <2> QED
    BY <2>5, <2>6
<1> QED
  BY <1>5, <1>6

LEMMA NumberSquare ==
  ASSUME NEW i \in Nat, i < Entries * Entries
  PROVE  \E a, b \in Index : i = a * Entries + b
<1>1. \A first, last, j \in Nat :
        first * Entries <= j /\ j < (last + 1) * Entries /\ last <= Self =>
          \E a \in first .. last, b \in Index : j = a * Entries + b
  BY NumberParts
<1>2. 0 \in Nat /\ Self \in Nat /\ Self <= Self /\ Self + 1 = Entries /\ Index = 0 .. Self
  BY Sizes
<1>3. \A j \in Nat : 0 * Entries <= j /\ j < (Self + 1) * Entries =>
          \E a \in 0 .. Self, b \in Index : j = a * Entries + b
  BY <1>1, <1>2
<1>4. 0 * Entries <= i
  BY Sizes
<1> QED
  BY <1>2, <1>3, <1>4

LEMMA PagePhysical == PageInv => PhysicalRight
<1> SUFFICES ASSUME PageInv, NEW page \in 0 .. Entries * Entries - 1,
                    NEW offset \in {0, PG_SIZE - 1}
             PROVE  addr_v2p(mem, page * PG_SIZE + offset) =
                      Walk(mem, cr3, page * PG_SIZE + offset) * PG_SIZE + offset
  BY DEF PhysicalRight
<1>1. mem \in Memory /\ mem[cr3][Self] = cr3
  BY DEF PageInv, TakenOK
<1>2. offset \in 0 .. PG_SIZE - 1
  BY Sizes
<1>3. PICK a \in Index, b \in Index : page = a * Entries + b
  <2>1. page \in Nat /\ page < Entries * Entries
    <3>1. Entries * Entries \in Nat
      BY Sizes
    <3> QED
      BY <3>1
  <2> QED
    BY <2>1, NumberSquare
<1>4. page * PG_SIZE + offset = At(a, b, offset)
  <2>1. At(a, b, 0) = page * PG_SIZE
    BY <1>3, PageNumbers
  <2>2. a * Span \in Nat /\ b * PG_SIZE \in Nat
    BY Sizes
  <2>3. At(a, b, offset) = At(a, b, 0) + offset
    BY <2>2, <1>2 DEF At
  <2> QED
    BY <2>1, <2>3
<1> DEFINE v == At(a, b, offset)
<1>5. Read(mem, pte_ptr(v)) = mem[mem[cr3][a]][b] /\ v % PG_SIZE = offset
  BY <1>1, <1>2, Reaches, Parts
<1>6. Walk(mem, cr3, v) = mem[mem[cr3][a]][b]
  BY <1>2, WalkParts
<1> HIDE DEF v
<1>7. addr_v2p(mem, v) = Walk(mem, cr3, v) * PG_SIZE + offset
  BY <1>5, <1>6 DEF addr_v2p
<1> QED
  BY <1>4, <1>7 DEF v

(* Page tables are right: an address leads to the page that was given away *)
(* at it, in every directory, and addr_v2p (memory.c) finds what the       *)
(* processor does.                                                         *)
THEOREM PagesRight == Spec => []PagingRight
<1>1. PageInv /\ StackInv => PagingRight
  BY PageType, PageMaps, PagePhysical DEF PagingRight
<1> QED
  BY <1>1, PageAlways, PTL

(* Every thread runs in its own directory when schedule calls              *)
(* process_activate, and a process is without one only when create_page_dir*)
(* was left without a page.                                                *)
THEOREM OwnDirectories == Spec => []OwnDirectory
<1>1. ASSUME PageInv, StackInv PROVE OwnDirectory
  <2>1. cur \in Thread /\ taken \in Word
    BY <1>1 DEF StackInv, PageInv, TakenOK
  <2>2. {cr3} = IF activated THEN DirOf(cur) ELSE {KernelDir}
    <3>1. CASE activated
      <4>1. cr3 = DirAt(mem, pgdir, cur) /\ halted # "assert"
        BY <1>1, <3>1 DEF PageInv, UsesOK
      <4>2. CASE halted = "low"
        BY <1>1, <2>1, <3>1, <4>1, <4>2 DEF PageInv, HaltOK
      <4>3. CASE halted # "low"
        <5>1. PagesOK(mem, taken, given, pgdir)
          BY <1>1, <4>1, <4>3 DEF PageInv
        <5> QED
          BY <2>1, <3>1, <4>1, <5>1, DirOfAt
      <4> QED
        BY <4>2, <4>3
    <3>2. CASE ~ activated
      BY <1>1, <3>2 DEF PageInv, UsesOK
    <3> QED
      BY <3>1, <3>2
  <2> QED
    BY <1>1, <2>2 DEF OwnDirectory, PageInv, PhaseOK
<1> QED
  BY <1>1, PageAlways, PTL

(* With process_activate called, an interrupt in user mode is taken on the *)
(* kernel stack of the process (tss.c), and get_a_page finds no page where *)
(* it is to map that of a stack.  The panics for want of a page, the write *)
(* to frame 0 for want of a table and the lock that get_a_page keeps come  *)
(* only when the pool is used up, and a page is missing only where a       *)
(* process with a directory of its own has no bitmap.                      *)
THEOREM TrappedAtHome == Spec => []TrapsAtHome
<1>1. PageInv => TrapsAtHome
  BY DEF PageInv, UsesOK, HaltOK, TrapsAtHome, Zeros
<1> QED
  BY <1>1, PageAlways, PTL

=============================================================================
