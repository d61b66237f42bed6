------------------------------ MODULE Process ------------------------------
(***************************************************************************)
(* User processes: userprog/process.c and update_tss_esp of tss.c, with    *)
(* what thread_create, switch_to and intr_exit do to a kernel stack, in    *)
(* the memory of Paging.                                                   *)
(*                                                                         *)
(* A kernel stack is a depth: how many words below the end of its page the *)
(* stack pointer is.  self_kstack is such a depth as well.  Process.c is   *)
(* not built yet: schedule does not call process_activate, activated is    *)
(* whether it does; create_user_vaddr_bitmap is empty, bitmap is whether a *)
(* process has one.  What is not said to hold with them only holds of the  *)
(* source as it stands, too.                                               *)
(***************************************************************************)
EXTENDS Paging

CONSTANTS
  Kernel,     \* kernel threads
  Proc,       \* processes
  Main,       \* the kernel thread that runs first and starts the processes
  NULL,
  Pushes      \* words that get_a_page or an interrupt have pushed at a switch

Thread == Kernel \union Proc

\* Sizes in bytes, and the words of a page.
sizeof_intr_stack == 76
sizeof_thread_stack == 32
PageWords == 1024
StartFrame == 8       \* of start_process; its size does not matter

\* The byte get_a_page marks vaddr in when the bits of the bitmap are NULL.
MarkAt(vaddr) == (vaddr \div PG_SIZE) \div 8

ASSUME ProcessAssumption ==
  /\ Main \in Kernel /\ Kernel \intersect Proc = {} /\ NULL \notin Thread
  /\ Pushes \in Nat /\ Pushes < PageWords - 200
  /\ MarkAt(Stack) < LowPages * PG_SIZE       \* 0x17fff

VARIABLES
  activated, \* schedule calls process_activate before switch_to
  bitmap,    \* create_user_vaddr_bitmap makes a bitmap
  cur,       \* running_thread()
  esp0,      \* tss.esp0: whose kernel stack, from its end; NULL is 0
  pgdir,     \* task_struct.pgdir, a virtual address; NULL is 0
  phase,     \* how far each process is in start_process
  depth,     \* of the stack pointer of each thread, while it is running
  kstack,    \* self_kstack, as a depth
  proc,      \* proc_stack of start_process, as a depth
  kept,      \* who left get_a_page with user_pool.lock
  damaged,   \* something was pushed over what proc_stack points to
  astray     \* processes that were interrupted with esp0 elsewhere

source == <<activated, bitmap>>
stack  == <<depth, kstack, proc, damaged>>
vars   == <<source, cur, cr3, esp0, pgdir, phase, kept, stack, astray, memory>>

Phase == {"kernel", "none", "pcb", "made", "entered", "framed", "stacked", "user", "trap"}

Init ==
  /\ PagingInit
  /\ activated \in BOOLEAN /\ bitmap \in BOOLEAN
  /\ cur = Main /\ esp0 = NULL /\ kept = NULL
  /\ pgdir = [t \in Thread |-> 0]
  /\ phase = [t \in Thread |-> IF t \in Kernel THEN "kernel" ELSE "none"]
  /\ depth = [t \in Thread |-> 0]
  /\ kstack = [t \in Thread |-> IF t \in Kernel THEN Pushes ELSE 0]
  /\ proc = [t \in Proc |-> 0]
  /\ damaged = {} /\ astray = {}

Running(t, ph) == halted = "no" /\ cur = t /\ phase[t] = ph
Becomes(t, ph) == phase' = [phase EXCEPT ![t] = ph]

\* n words pushed from depth d cover what proc_stack points to.
Covers(t, d, n) ==
  /\ phase[t] \in {"framed", "stacked"}
  /\ d < proc[t] /\ d + n > proc[t] - sizeof_intr_stack \div 4

Pushed(t, n) ==
  damaged' = IF t \in Proc /\ Covers(t, depth[t], n) THEN damaged \union {t} ELSE damaged

-----------------------------------------------------------------------------
\* thread_create: sizeof counts bytes, a uint32_t* counts words.
ThreadCreate(top) == top + sizeof_intr_stack + sizeof_thread_stack

(* process_execute: a page for the PCB, then one for the directory, with   *)
(* interrupts as they are.  Neither result is tested: init_thread fails    *)
(* the assertion of memset on a PCB at NULL; NULL is a pgdir.              *)
Between == \A p \in Proc : phase[p] # "pcb"

Executes(p) == Running(Main, "kernel") /\ phase[p] = "none" /\ Between

process_execute_panics(p) ==
  /\ Executes(p)
  /\ taken = KernelEnd /\ halted' = "panic"
  /\ UNCHANGED <<source, cur, cr3, esp0, pgdir, phase, kept, stack, astray,
                 mem, taken, utaken, given>>

process_execute(p) ==
  /\ Executes(p)
  /\ get_kernel_pages
  /\ kstack' = [kstack EXCEPT ![p] = ThreadCreate(0)]
  /\ Becomes(p, "pcb")
  /\ UNCHANGED <<source, cur, cr3, esp0, pgdir, kept, depth, proc, damaged, astray>>

SetPgdir(p) ==
  /\ Running(Main, "kernel") /\ phase[p] = "pcb"
  /\ \/ create_page_dir(vaddr_get) /\ pgdir' = [pgdir EXCEPT ![p] = vaddr_get]
     \/ taken = KernelEnd /\ UNCHANGED <<memory, pgdir>>
  /\ Becomes(p, "made")
  /\ UNCHANGED <<source, cur, cr3, esp0, kept, stack, astray>>

\* Any other use of the kernel's heap.
KernelAlloc ==
  /\ halted = "no" /\ cur \in Kernel /\ (cur = Main => Between)
  /\ get_kernel_pages
  /\ UNCHANGED <<source, cur, cr3, esp0, pgdir, phase, kept, stack, astray>>

-----------------------------------------------------------------------------
(* process_activate.  (Mutated: the kernel stack is not set.)              *)
update_tss_esp_not(t) == UNCHANGED esp0
update_tss_esp(t) == esp0' = IF pgdir[t] # 0 THEN t ELSE esp0

process_activate(t) == page_dir_activate(pgdir[t]) /\ update_tss_esp(t)

(* schedule and switch_to.  A process is switched from an interrupt or a   *)
(* lock it waits for, never in the few instructions before it has read     *)
(* self_kstack: it has 31 ticks then.                                      *)
Switch(t) ==
  /\ halted = "no" /\ t # cur
  /\ phase[cur] \in {"kernel", "framed", "stacked", "trap"}
  /\ phase[t] \notin {"none", "pcb", "user"}
  /\ cur' = t
  /\ IF activated THEN process_activate(t) ELSE UNCHANGED <<cr3, esp0>>
  /\ Pushed(cur, Pushes)
  /\ kstack' = [kstack EXCEPT ![cur] = depth[cur] + Pushes]
  /\ depth' = [depth EXCEPT ![t] = kstack[t] - IF phase[t] = "made" THEN 5 ELSE Pushes]
  /\ phase' = IF phase[t] = "made" THEN [phase EXCEPT ![t] = "entered"] ELSE phase
  /\ UNCHANGED <<source, pgdir, kept, proc, astray, memory>>

(* start_process up to get_a_page, called by kernel_thread, whose return   *)
(* address and arguments are the last three words on the stack.  (Mutated: *)
(* self_kstack is not moved.)                                              *)
StartAt(p, words) ==
  /\ Running(p, "entered")
  /\ depth' = [depth EXCEPT ![p] = @ + StartFrame]
  /\ kstack' = [kstack EXCEPT ![p] = @ - words]
  /\ proc' = [proc EXCEPT ![p] = kstack'[p]]
  /\ damaged' = IF kstack'[p] > depth[p] - 3 THEN damaged \union {p} ELSE damaged
  /\ Becomes(p, "framed")
  /\ UNCHANGED <<source, cur, cr3, esp0, pgdir, kept, astray, memory>>

StartUnmoved(p) == StartAt(p, 0)

start_process(p) == StartAt(p, sizeof_thread_stack)

(* get_a_page(PF_USER, vaddr), called by p.  It waits for user_pool.lock,  *)
(* panics without a directory and marks the page in the bitmap of p; when  *)
(* the pool is empty it returns NULL and keeps the lock.  A bitmap whose   *)
(* bits are NULL is low memory, which a process does not have in its own   *)
(* directory.  (Of the bit that is set there nothing is kept.)  (Mutated:  *)
(* a process without a directory is not turned away.)                      *)
Marks(vaddr) == bitmap \/ Walk(mem, cr3, MarkAt(vaddr)) # 0

get_a_page_anyone(p, vaddr) ==
  /\ kept = NULL /\ Marks(vaddr)
  /\ \/ MapUserPage(vaddr) /\ UNCHANGED kept
     \/ utaken = Frames /\ kept' = p /\ UNCHANGED memory

get_a_page(p, vaddr) == pgdir[p] # 0 /\ get_a_page_anyone(p, vaddr)

get_a_page_stops(p, vaddr) ==
  /\ kept = NULL
  /\ \/ pgdir[p] = 0 /\ halted' = "panic"
     \/ pgdir[p] # 0 /\ ~Marks(vaddr) /\ halted' = "fault"
  /\ UNCHANGED <<mem, taken, utaken, given, kept>>

(* start_process goes on with what it returned, in the directory being     *)
(* used: the end of the stack's page, or of the page at NULL.              *)
UserStack(p) ==
  /\ Running(p, "framed")
  /\ Pushed(p, Pushes)
  /\ get_a_page(p, Stack)
  /\ Becomes(p, "stacked")
  /\ UNCHANGED <<source, cur, cr3, esp0, pgdir, depth, kstack, proc, astray>>

UserStackStops(p) ==
  /\ Running(p, "framed")
  /\ get_a_page_stops(p, Stack)
  /\ UNCHANGED <<source, cur, cr3, esp0, pgdir, phase, stack, astray>>

\* movl proc_stack, %esp; jmp intr_exit
IntrExit(p) ==
  /\ Running(p, "stacked")
  /\ depth' = [depth EXCEPT ![p] = proc[p] - sizeof_intr_stack \div 4]
  /\ Becomes(p, "user")
  /\ UNCHANGED <<source, cur, cr3, esp0, pgdir, kept, kstack, proc, damaged, astray, memory>>

\* An interrupt in user mode: the processor takes its stack from the TSS.
Trap(p) ==
  /\ Running(p, "user")
  /\ astray' = IF esp0 = p THEN astray ELSE astray \union {p}
  /\ depth' = [depth EXCEPT ![p] = sizeof_intr_stack \div 4]
  /\ Becomes(p, "trap")
  /\ UNCHANGED <<source, cur, cr3, esp0, pgdir, kept, kstack, proc, damaged, memory>>

TrapReturn(p) ==
  /\ Running(p, "trap")
  /\ Becomes(p, "user")
  /\ UNCHANGED <<source, cur, cr3, esp0, pgdir, kept, stack, astray, memory>>

Next ==
  \/ \E p \in Proc : \/ process_execute(p) \/ process_execute_panics(p) \/ SetPgdir(p)
                     \/ start_process(p) \/ UserStack(p) \/ UserStackStops(p)
                     \/ IntrExit(p) \/ Trap(p) \/ TrapReturn(p)
  \/ KernelAlloc
  \/ \E t \in Thread : Switch(t)

Spec == Init /\ [][Next]_vars

-----------------------------------------------------------------------------
TypeOK ==
  /\ PagingTypeOK
  /\ activated \in BOOLEAN /\ bitmap \in BOOLEAN /\ cur \in Thread
  /\ esp0 \in Proc \union {NULL} /\ kept \in Proc \union {NULL}
  /\ pgdir \in [Thread -> KernelPages \union {0}]
  /\ phase \in [Thread -> Phase]
  /\ depth \in [Thread -> 0 .. PageWords] /\ kstack \in [Thread -> 0 .. PageWords]
  /\ proc \in [Proc -> 0 .. PageWords]
  /\ damaged \subseteq Proc /\ astray \subseteq Proc

(* Whatever directory is in use, an address leads to the page that was     *)
(* given away at it: one of the kernel's in every directory, also in those *)
(* that were copied before; one of a process in its own only; and where    *)
(* nothing was given away nothing is mapped.  (The kernel's directory has  *)
(* its first table at address 0, too.)                                     *)
DirOf(t) == IF pgdir[t] = 0 THEN {KernelDir} ELSE Frame(KernelDir, pgdir[t])

MapsExactly ==
  halted \notin {"assert", "low"} =>
    \A d \in UNION {DirOf(t) : t \in Thread} :
      /\ \A v \in KernelPages : Frame(KernelDir, v) = {Walk(mem, d, v)} \ {0}
      /\ \A v \in UserPages :
           (d = KernelDir => PDE_IDX(v) # 0) => Frame(d, v) = {Walk(mem, d, v)} \ {0}

(* Page tables are right for the processor and for addr_v2p.               *)
PagingRight == TypeOK /\ MapsExactly /\ PhysicalRight

(* What the iretd into a new process pops is what start_process wrote: it  *)
(* lies in the process's own page, and neither get_a_page, nor the threads *)
(* that run while it waits for the pool's lock, nor interrupts push over   *)
(* it, although self_kstack is overwritten at every switch.                *)
FrameIntact ==
  \A p \in Proc :
    /\ p \notin damaged
    /\ phase[p] \in {"framed", "stacked"} => proc[p] >= sizeof_intr_stack \div 4

(* "A user process has its own page directory" (process.c:38) and every    *)
(* other thread the kernel's: with process_activate called, the processor  *)
(* uses that of the thread it runs, the frame of pgdir, which was found by *)
(* addr_v2p in another directory.  A process has none only when there was  *)
(* no page of kernel_pool for it (process.c:104), and then it never gets   *)
(* to user mode; nothing is used without the call.                         *)
OwnDirectory ==
  /\ {cr3} = IF activated THEN DirOf(cur) ELSE {KernelDir}
  /\ \A p \in Proc : pgdir[p] = 0 /\ phase[p] \notin {"none", "pcb"} =>
       taken = KernelEnd /\ phase[p] \notin {"stacked", "user", "trap"}

(* With process_activate called an interrupt in user mode is on the        *)
(* process's own kernel stack, and page_table_add never finds a page where *)
(* it is to map a stack.  For the rest, what happens without memory is     *)
(* only that, however the steps of processes interleave: the panics of     *)
(* memset (a PCB at NULL) and of get_a_page (no directory), and the write  *)
(* to physical address 0 (a table at NULL), come only when kernel_pool is  *)
(* used up, the lock of user_pool is lost only when that pool is, and no   *)
(* page is missing but a bitmap's, in a directory of its own.              *)
TrapsAtHome ==
  /\ activated => astray = {} /\ halted # "assert"
  /\ halted \in {"panic", "low"} => taken = KernelEnd
  /\ mem[0] # [i \in Index |-> 0] => halted = "low"
  /\ halted = "fault" => activated /\ ~bitmap
  /\ kept # NULL => utaken = Frames

=============================================================================
