------------------------------- MODULE Memory -------------------------------
(***************************************************************************)
(* The allocator of kernel/memory.c: two pools of page frames, each with a *)
(* bitmap and a lock, the virtual pages of the kernel's heap and of each   *)
(* user process, and the page tables that map the one to the other.        *)
(*                                                                         *)
(* Clients run concurrently and can be preempted anywhere, so an action is *)
(* one access to something that another client can reach at that moment.   *)
(* The locks are those of RecursiveLock, which Sync implements.            *)
(***************************************************************************)
EXTENDS Bitmap

CONSTANTS
  KernelClient,    \* threads that call get_kernel_pages
  Process,         \* user processes with a directory; each starts with get_a_page
                   \* for its stack
  KernelFrames,    \* frames in kernel_pool, and pages of the kernel's heap
  UserFrames,      \* frames in user_pool
  UserPages,       \* virtual pages of a process
  TableSize,       \* pages one page table maps
  MaxPages,        \* the largest pg_cnt a client asks for
  NoThread, NoFrame

Client == KernelClient \union Process

Pool == {"kernel", "user"}
PoolSize == [p \in Pool |-> IF p = "kernel" THEN KernelFrames ELSE UserFrames]
Frame == UNION {{p} \X (0 .. PoolSize[p] - 1) : p \in Pool}

ASSUME MemoryAssumption ==
  /\ KernelClient \intersect Process = {}
  /\ {"kernel", NoThread} \intersect Client = {}
  /\ {KernelFrames, UserFrames, UserPages, TableSize, MaxPages} \subseteq Nat \ {0}
  /\ UserPages > 1          \* get_a_page asserts that the stack is not page 0
  /\ NoFrame \notin Frame

\* The heap of the kernel is the address space "kernel".  One page more than
\* it has is there for bitmap_scan's last bit.
Space == Process \union {"kernel"}
SpaceSize == [s \in Space |-> IF s = "kernel" THEN KernelFrames ELSE UserPages]
Page == UNION {{s} \X (0 .. SpaceSize[s]) : s \in Space}
Table == {<<q[1], q[2] \div TableSize>> : q \in {x \in Page : x[1] # "kernel"}}

Stack == UserPages - 1      \* USER_STACK3_VADDR, the last page of a process

VARIABLES
  active,        \* the clients that allocate at all
  owner, depth,  \* the lock of each pool
  bits,          \* pool_bitmap of each pool
  vaddr,         \* vaddr_bitmap of each address space
  pte,           \* the frame each page is mapped to
  pde,           \* the frame of each page table of user pages
  pc,            \* where each client is in its call
  job,           \* what the call is: its kind, its pages, how many are to be mapped
  frame, tab,    \* frames found by the call for the next page and for its table
  halted         \* how the machine ended: "assert" in an assertion of memory.c,
                 \* "null" in that of memset, "low" when page 0 was cleared

vars == <<active, owner, depth, bits, vaddr, pte, pde, pc, job, frame, tab, halted>>
lockVars == <<owner, depth>>
tables == <<pte, pde>>

Locks == INSTANCE RecursiveLock WITH Thread <- Client, Lock <- Pool

PC == {"idle", "vaddr", "scan", "set", "map", "tset", "install", "return"}
Kind == {"none", "kernel", "user", "stack"}
NoJob == [kind |-> "none", n |-> 0, start |-> 0, left |-> 0]

Init ==
  /\ active \in SUBSET Client
  /\ Locks!Init
  /\ bits = [p \in Pool |-> {}]
  /\ \E behind \in SUBSET Space :   \* the bit behind each bitmap, never initialised
       vaddr = [s \in Space |-> IF s \in behind THEN {SpaceSize[s]} ELSE {}]
  /\ pte = [q \in Page |-> NoFrame]
  /\ pde = [d \in Table |-> NoFrame]
  /\ pc = [t \in Client |-> "idle"]
  /\ job = [t \in Client |-> NoJob]
  /\ frame = [t \in Client |-> NoFrame]
  /\ tab = [t \in Client |-> NoFrame]
  /\ halted = "no"

-----------------------------------------------------------------------------
At(t, l) == halted = "no" /\ pc[t] = l
Goto(t, l) == pc' = [pc EXCEPT ![t] = l]

\* mem_pool, and the pool whose lock the call holds.  (Mutated: get_a_page
\* takes the lock of the other pool.)
PoolOf(kind) == IF kind = "kernel" THEN "kernel" ELSE "user"
LockOfOther(kind) == IF kind = "user" THEN "user" ELSE "kernel"
LockOf(kind) == IF kind = "kernel" THEN "kernel" ELSE "user"

SpaceOf(t) == IF job[t].kind = "kernel" THEN "kernel" ELSE t
NextPage(t) == <<SpaceOf(t), job[t].start + job[t].n - job[t].left>>

TableOf(q) == <<q[1], q[2] \div TableSize>>
\* The loader made every page table of the kernel's half of the memory.
HasTable(q) == IF q[1] = "kernel" THEN TRUE ELSE pde[TableOf(q)] # NoFrame

\* palloc's bitmap_scan.
FirstFree(p) == bitmap_scan(bits[p], PoolSize[p], 1)

-----------------------------------------------------------------------------
(* get_kernel_pages and get_user_pages, up to lock_acquire.  A process     *)
(* allocates only after start_process has mapped its stack.                *)
Call(t, kind, n) ==
  /\ At(t, "idle")
  /\ Locks!Acquire(t, LockOf(kind))
  /\ job' = [job EXCEPT ![t] = [kind |-> kind, n |-> n, start |-> 0, left |-> n]]
  /\ Goto(t, "vaddr")
  /\ UNCHANGED <<bits, vaddr, tables, frame, tab, halted>>

get_kernel_pages(t, n) == t \in KernelClient /\ Call(t, "kernel", n)
get_user_pages(t, n) == t \in Process /\ Stack \in vaddr[t] /\ Call(t, "user", n)

(* get_a_page(PF_USER, USER_STACK3_VADDR), as start_process calls it, up   *)
(* to the bitmap_set in the bitmap of the process.                         *)
get_a_page(t) ==
  /\ t \in Process /\ At(t, "idle") /\ Stack \notin vaddr[t]
  /\ Locks!Acquire(t, LockOf("stack"))
  /\ job' = [job EXCEPT ![t] = [kind |-> "stack", n |-> 1, start |-> Stack, left |-> 1]]
  /\ vaddr' = [vaddr EXCEPT ![t] = bitmap_set(@, Stack, 1)]
  /\ Goto(t, "scan")
  /\ UNCHANGED <<bits, tables, frame, tab, halted>>

(* vaddr_get: pg_cnt pages of the address space, or NULL.  It sets `marks' *)
(* bits.  The heap's bitmap is under the kernel pool's lock and the others *)
(* have one user each.                                                     *)
VaddrTake(t, marks) ==
  LET s == SpaceOf(t)
      i == bitmap_scan(vaddr[s], SpaceSize[s], job[t].n)
  IN  /\ At(t, "vaddr")
      /\ IF i = -1
         THEN Goto(t, "return") /\ UNCHANGED <<vaddr, job, halted>>
         ELSE /\ vaddr' = [vaddr EXCEPT ![s] = @ \union (i .. i + marks - 1)]
              /\ halted' = IF s = "kernel" \/ i < Stack THEN "no" ELSE "assert"
              /\ job' = [job EXCEPT ![t].start = i]
              /\ Goto(t, "scan")
      /\ UNCHANGED <<lockVars, bits, tables, frame, tab>>

\* (Mutated: the last page is not marked; nothing is marked.)
VaddrGetShort(t) == VaddrTake(t, job[t].n - 1)
VaddrGetNone(t) == VaddrTake(t, 0)

VaddrGet(t) == VaddrTake(t, job[t].n)

(* palloc's scan.  When there is no frame, malloc_page returns NULL to a   *)
(* caller that releases the lock; get_a_page (`gone') returns by itself,   *)
(* with the lock held.                                                     *)
ScanPool(t, gone) ==
  LET p == PoolOf(job[t].kind)
      i == FirstFree(p)
  IN  /\ At(t, "scan")
      /\ \/ i # -1 /\ frame' = [frame EXCEPT ![t] = <<p, i>>] /\ Goto(t, "set")
            /\ UNCHANGED job
         \/ i = -1 /\ job[t].kind \in gone /\ Goto(t, "idle")
            /\ job' = [job EXCEPT ![t] = NoJob] /\ UNCHANGED frame
         \/ i = -1 /\ job[t].kind \notin gone /\ Goto(t, "return")
            /\ UNCHANGED <<job, frame>>
      /\ UNCHANGED <<lockVars, bits, vaddr, tables, tab, halted>>

\* (Mutated: get_user_pages returns at once as well.)
PallocScanReturns(t) == ScanPool(t, {"stack", "user"})

PallocScan(t) == ScanPool(t, {"stack"})

\* palloc's bitmap_set.
PallocSet(t) ==
  LET p == frame[t][1]
  IN  /\ At(t, "set")
      /\ bits' = [bits EXCEPT ![p] = bitmap_set(@, frame[t][2], 1)]
      /\ Goto(t, "map")
      /\ UNCHANGED <<lockVars, vaddr, tables, job, frame, tab, halted>>

(* The end of a turn of malloc_page's loop; `last' is what cnt was in the  *)
(* last one.                                                               *)
EndTurn(t, last) ==
  /\ job' = [job EXCEPT ![t].left = IF @ = last THEN 0 ELSE @ - 1]
  /\ Goto(t, IF job[t].left = last THEN "return" ELSE "scan")
  /\ frame' = [frame EXCEPT ![t] = NoFrame]
  /\ tab' = [tab EXCEPT ![t] = NoFrame]

\* (Mutated: one turn more, --cnt >= 0; one turn less, --cnt > 0.)
NextTurnLate(t) == EndTurn(t, 0)
NextTurnEarly(t) == EndTurn(t, IF job[t].n = 1 THEN 1 ELSE 2)

NextTurn(t) == EndTurn(t, 1)

\* page_table_add when the page directory entry exists.
PageTableAdd(t) ==
  LET q == NextPage(t)
  IN  /\ At(t, "map") /\ HasTable(q)
      /\ IF pte[q] = NoFrame
         THEN pte' = [pte EXCEPT ![q] = frame[t]] /\ NextTurn(t) /\ UNCHANGED halted
         ELSE halted' = "assert" /\ UNCHANGED <<pte, pc, job, frame, tab>>
      /\ UNCHANGED <<lockVars, bits, vaddr, pde>>

(* page_table_add when it does not: palloc(&kernel_pool), under whatever   *)
(* lock the caller holds.  A NULL makes physical page 0, where the GDT is, *)
(* the page table, and clears it.                                          *)
TableScan(t) ==
  LET i == FirstFree("kernel")
  IN  /\ At(t, "map") /\ ~HasTable(NextPage(t))
      /\ IF i = -1
         THEN halted' = "low" /\ UNCHANGED <<pc, tab>>
         ELSE /\ tab' = [tab EXCEPT ![t] = <<"kernel", i>>]
              /\ Goto(t, "tset")
              /\ UNCHANGED halted
      /\ UNCHANGED <<lockVars, bits, vaddr, tables, job, frame>>

\* (Mutated: the bit is set in the bitmap of the pool the page came from.)
TableBit(t, p) ==
  /\ At(t, "tset")
  /\ bits' = [bits EXCEPT ![p] = bitmap_set(@, tab[t][2], 1)]
  /\ Goto(t, "install")
  /\ UNCHANGED <<lockVars, vaddr, tables, job, frame, tab, halted>>

TableSetWrongPool(t) == TableBit(t, PoolOf(job[t].kind))

TableSet(t) == TableBit(t, "kernel")

\* The new table is cleared, so the assertion after memset always holds.
TableInstall(t) ==
  /\ At(t, "install")
  /\ pde' = [pde EXCEPT ![TableOf(NextPage(t))] = tab[t]]
  /\ pte' = [pte EXCEPT ![NextPage(t)] = frame[t]]
  /\ NextTurn(t)
  /\ UNCHANGED <<lockVars, bits, vaddr, halted>>

(* get_kernel_pages, get_user_pages and get_a_page from malloc_page's or   *)
(* page_table_add's return on.  `untested' are the kinds of call that hand *)
(* a NULL on to memset, which asserts that it is none: the machine stops   *)
(* there, with the lock held.                                              *)
ReturnFrom(t, untested) ==
  /\ At(t, "return")
  /\ IF job[t].kind \in untested /\ job[t].left > 0
     THEN halted' = "null" /\ UNCHANGED <<lockVars, pc, job>>
     ELSE /\ Locks!Release(t, LockOf(job[t].kind))
          /\ job' = [job EXCEPT ![t] = NoJob]
          /\ Goto(t, "idle")
          /\ UNCHANGED halted
  /\ UNCHANGED <<bits, vaddr, tables, frame, tab>>

\* (Mutated: get_kernel_pages does not test for NULL either.)
ReturnUnchecked(t) == ReturnFrom(t, {"user", "kernel"})

Return(t) == ReturnFrom(t, {"user"})

-----------------------------------------------------------------------------
Step(t) ==
  \/ VaddrGet(t) \/ PallocScan(t) \/ PallocSet(t) \/ PageTableAdd(t)
  \/ TableScan(t) \/ TableSet(t) \/ TableInstall(t) \/ Return(t)

Operation(t) ==
  \/ \E n \in 1 .. MaxPages : get_kernel_pages(t, n) \/ get_user_pages(t, n)
  \/ get_a_page(t)
  \/ Step(t)

Next == UNCHANGED active /\ \E t \in active : Operation(t)

Spec == Init /\ [][Next]_vars

-----------------------------------------------------------------------------
TypeOK ==
  /\ active \subseteq Client
  /\ owner \in [Pool -> Client \union {NoThread}]
  /\ depth \in [Pool -> Nat]
  /\ bits \in [Pool -> SUBSET Nat]
  /\ \A p \in Pool : bits[p] \subseteq 0 .. PoolSize[p] - 1
  /\ vaddr \in [Space -> SUBSET Nat]
  /\ \A s \in Space : vaddr[s] \subseteq 0 .. SpaceSize[s]
  /\ pte \in [Page -> Frame \union {NoFrame}]
  /\ pde \in [Table -> Frame \union {NoFrame}]
  /\ pc \in [Client -> PC]
  /\ job \in [Client -> [kind : Kind, n : Nat, start : Nat, left : Nat]]
  /\ \A t \in Client :
       /\ pc[t] = "idle" <=> job[t] = NoJob
       /\ pc[t] \notin {"idle", "return"} => job[t].left \in 1 .. job[t].n
  /\ frame \in [Client -> Frame \union {NoFrame}]
  /\ tab \in [Client -> Frame \union {NoFrame}]
  /\ halted \in {"no", "assert", "null", "low"}

Full(p) == bits[p] = 0 .. PoolSize[p] - 1

(* What a frame is used for: mapped at a page, a page table, or palloc has *)
(* marked it and the call has still to put it into the tables.             *)
Uses(f) ==
  {<<"page", q>> : q \in {x \in Page : pte[x] = f}}
    \union {<<"table", d>> : d \in {x \in Table : pde[x] = f}}
    \union {<<"hand", t>> : t \in {x \in Client :
              \/ frame[x] = f /\ pc[x] \in {"map", "tset", "install"}
              \/ tab[x] = f /\ pc[x] = "install"}}

\* Kernel threads and processes do not both allocate.
Separate == active \subseteq KernelClient \/ active \subseteq Process

(* As long as only kernel threads or only processes allocate, no frame of  *)
(* either pool is handed out twice: two pages, two tables or a page and a  *)
(* table never share one, across processes and calls in progress.          *)
FrameOnce == Separate => \A f \in Frame : \A u, v \in Uses(f) : u = v

(* A frame of user_pool is never handed out twice, even while page tables  *)
(* are taken from kernel_pool behind the back of kernel threads.           *)
UserFrameOnce == \A f \in Frame : f[1] = "user" => \A u, v \in Uses(f) : u = v

(* A pool's bitmap marks the frames that are in use and no others, through *)
(* every failure of malloc_page and page_table_add: none is lost to the    *)
(* tables.                                                                 *)
BitmapExact == \A f \in Frame : f[2] \in bits[f[1]] <=> Uses(f) # {}

(* "Scanning and setting the bitmap must be atomic" (memory.c:118): a bit  *)
(* that palloc found clear is still clear when palloc sets it.             *)
PallocAtomic ==
  \A t \in Client :
    /\ pc[t] = "set" => frame[t][2] \notin bits[frame[t][1]]
    /\ pc[t] = "tset" => tab[t][2] \notin bits["kernel"]

(* It holds as long as only kernel threads or only processes allocate:     *)
(* page_table_add is then never at work on kernel_pool beside              *)
(* get_kernel_pages.                                                       *)
PallocAtomicApart == Separate => PallocAtomic

\* A call that has its virtual pages and not yet all frames.
Working == {"scan", "set", "map", "tset", "install"}

\* The pages of a call that are still to be mapped, and those that are.
Left(t) == job[t].start + job[t].n - job[t].left .. job[t].start + job[t].n - 1
Done(t) == job[t].start .. job[t].start + job[t].n - job[t].left - 1

Underway(s) == UNION {Left(t) : t \in {x \in Client : SpaceOf(x) = s /\ pc[x] \in Working}}

(* The address space's bitmap marks every mapped page; a marked page that  *)
(* is not mapped belongs to a call in progress, or to one that failed, and *)
(* then a pool is used up for good.                                        *)
PagesAccounted ==
  /\ \A q \in Page : pte[q] # NoFrame => q[2] \in vaddr[q[1]]
  /\ \A s \in Space : \A i \in (0 .. SpaceSize[s] - 1) \cap vaddr[s] :
       pte[<<s, i>>] # NoFrame \/ i \in Underway(s) \/ Full(PoolOf(s))

NoRoom(s, n) == \A i \in 0 .. SpaceSize[s] - n : (i .. i + n - 1) \cap vaddr[s] # {}

(* What a call has done of its request: the pages behind it are mapped,    *)
(* those before it are marked and free, the page table it makes does not   *)
(* exist, the stack of its process is not among the pages it was given;    *)
(* and when it comes back empty-handed something has run out.              *)
CallExact(t) ==
  /\ pc[t] # "idle" => job[t].n \in 1 .. MaxPages
  /\ pc[t] = "vaddr" => job[t].left = job[t].n /\ job[t].kind # "stack"
  /\ job[t].kind = "user" => Stack \in vaddr[t]
  /\ job[t].kind = "stack" => job[t].start = Stack /\ job[t].n = 1
  /\ pc[t] \in Working =>
       \A i \in Left(t) :
         /\ i \in vaddr[SpaceOf(t)] /\ pte[<<SpaceOf(t), i>>] = NoFrame
         /\ job[t].kind = "user" => i # Stack
  /\ pc[t] \in {"tset", "install"} => pde[TableOf(NextPage(t))] = NoFrame
  /\ pc[t] \in Working \union {"return"} =>
       \A i \in Done(t) : i \in vaddr[SpaceOf(t)] /\ pte[<<SpaceOf(t), i>>] # NoFrame
  /\ pc[t] = "return" /\ job[t].kind = "user" /\ job[t].left > 0 =>
       Full("user") \/ NoRoom(t, job[t].n)

CallsExact == \A t \in Client : CallExact(t)

\* get_a_page returned without the stack and without releasing the lock.
KeptLock(t) ==
  /\ t \in Process /\ job[t].kind # "stack"
  /\ Stack \in vaddr[t] /\ pte[<<t, Stack>>] = NoFrame /\ Full("user")

(* A lock that is owned is owned once for the call at work on the pool and *)
(* once if get_a_page kept it.                                             *)
DepthExact(t, p) ==
  owner[p] = t =>
    \/ pc[t] # "idle" /\ p = LockOf(job[t].kind) /\ depth[p] = 1
    \/ p = "user" /\ KeptLock(t) /\ depth[p] = IF pc[t] = "idle" THEN 1 ELSE 2

DepthsExact ==
  /\ \A p \in Pool : owner[p] = NoThread <=> depth[p] = 0
  /\ \A t \in Client, p \in Pool : DepthExact(t, p)

(* Bitmaps, page tables, address spaces, locks and the calls in progress   *)
(* agree, after every failure too.                                         *)
BooksExact == TypeOK /\ BitmapExact /\ PagesAccounted /\ CallsExact /\ DepthsExact

(* A call that returns an address returns pg_cnt pages that are mapped, and *)
(* to frames of the pool it was to take them from.                         *)
GrantMapped ==
  \A t \in Client : pc[t] = "return" /\ job[t].left = 0 =>
    \A k \in 0 .. job[t].n - 1 :
      LET f == pte[<<SpaceOf(t), job[t].start + k>>]
      IN  f # NoFrame /\ f[1] = PoolOf(job[t].kind)

(* The lock of a pool is with the call that is at work on the pool.  After *)
(* the call it is free, with one exception: when user_pool was used up as  *)
(* a process started, get_a_page kept the lock.                            *)
LockReturned ==
  \A t \in Client :
    /\ pc[t] # "idle" => owner[LockOf(job[t].kind)] = t
    /\ \A p \in Pool : pc[t] = "idle" /\ owner[p] = t =>
         p = "user" /\ Full("user") /\ pte[<<t, Stack>>] = NoFrame

(* No assertion of memory.c fails: vaddr_get never returns a process its   *)
(* stack page, and no page is mapped twice.                                *)
NoAssert == halted # "assert"

(* memset is only given NULL for a process that asked for pages when the   *)
(* pool of the processes was used up or its address space had no room, and *)
(* stops the machine with that pool's lock held.                           *)
NullOnlyExhausted ==
  halted = "null" =>
    \E t \in Process :
      /\ pc[t] = "return" /\ job[t].kind = "user" /\ job[t].left > 0
      /\ owner["user"] = t
      /\ Full("user") \/ NoRoom(t, job[t].n)

(* Page 0 is only cleared in place of a page table, for a process and when *)
(* kernel_pool is used up: no kernel thread does it.                       *)
LowMemoryIntact ==
  halted = "low" =>
    Full("kernel") /\ \E t \in Process : pc[t] = "map" /\ ~HasTable(NextPage(t))

(* However calls are preempted, the allocator itself stops the machine in  *)
(* two cases only, and in both memory has run out for a process; a kernel  *)
(* thread that cannot be served goes on with NULL.                         *)
FailsOnlyExhausted == NoAssert /\ NullOnlyExhausted /\ LowMemoryIntact

=============================================================================
