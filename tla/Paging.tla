------------------------------- MODULE Paging -------------------------------
(***************************************************************************)
(* Page tables word by word: the address arithmetic of kernel/memory.c on  *)
(* a directory whose last entry maps itself, and create_page_dir and       *)
(* page_dir_activate of userprog/process.c, which rest on it.              *)
(*                                                                         *)
(* An address has Bits bits of directory index, as many of table index     *)
(* (10 and 10) and an offset of four bytes for each entry (12).  Memory is *)
(* a function from frames to their words; a word that is an entry is the   *)
(* number of a frame, or 0 when it is not present.  The kernel reaches     *)
(* memory as the processor lets it, through the directory in cr3.  Frame 0 *)
(* is NULL: no memory, and what is at physical address 0.  Who asks for    *)
(* pages, and when, is in Process.                                         *)
(***************************************************************************)
EXTENDS Naturals, FiniteSetsExt

CONSTANTS
  Bits,         \* 10
  FirstKernel,  \* 768: the first directory index of the kernel's addresses
  LowPages,     \* 256: pages of low memory, behind which the kernel's heap is
  Frames,       \* frames of memory; those that boot does not use are free
  UserFrames    \* the last of them are user_pool, those before it kernel_pool

Entries == 2 ^ Bits
Self == Entries - 1
PG_SIZE == 4 * Entries
Span == Entries * PG_SIZE          \* of a table, 0x400000
Space == Entries * Span            \* 2 ^ 32

KernelEnd == Frames - UserFrames   \* the last frame of kernel_pool

ASSUME PagingAssumption ==
  /\ {Bits, FirstKernel, LowPages, Frames, UserFrames} \subseteq Nat
  /\ 1 < FirstKernel /\ FirstKernel < Self
  /\ LowPages < Entries
  \* kernel_pool is not empty, and the heap has addresses for all of it: the
  \* pools count pages in 16 bits, and 1 GB has 2 ^ 18.
  /\ KernelEnd > Entries - FirstKernel + 1
  /\ KernelEnd - (Entries - FirstKernel + 1) <= (Self - FirstKernel) * Entries - LowPages

VARIABLES
  mem,     \* what is in memory
  cr3,     \* the frame of the directory in use
  taken,   \* the last frame kernel_pool has given away: it does so in order
  utaken,  \* and user_pool
  given,   \* which page each is: its directory, its address and the frame
  halted   \* how the machine ended: "assert" in page_table_add, "panic" elsewhere,
           \* "fault" without a page, "low" when what is at address 0 was cleared

memory == <<mem, taken, utaken, given, halted>>

\* The loader's frames: its directory, the kernel's tables, low memory.
KernelDir == 1
Table(i) == 2 + i - FirstKernel
LowMemory == Table(Self)

Index == 0 .. Self
Word == 0 .. Frames

\* The addresses of pages: of the kernel, of a process, its stack.
Pages(first, last) == {i * PG_SIZE : i \in first * Entries .. (last + 1) * Entries - 1}
KernelPages == Pages(FirstKernel, Self - 1)
UserPages == Pages(0, FirstKernel - 1)
Stack == FirstKernel * Span - PG_SIZE
Low == {FirstKernel * Span + i * PG_SIZE : i \in 0 .. LowPages - 1}

\* Nothing can be said of a frame that was not cleared.
Junk == [i \in Index |-> LowMemory]

(* setup_page: a directory, cleared first, the first of its tables at two  *)
(* entries, and low memory in that table, one frame for all of it.  The    *)
(* tables are not cleared; memory is, when the machine starts.  (Mutated:  *)
(* the kernel has only its first table.)                                   *)
SetupTables(last) ==
  [f \in Word |-> [i \in Index |->
     CASE f = KernelDir -> IF i = Self THEN KernelDir
                           ELSE IF i = 0 THEN Table(FirstKernel)
                           ELSE IF i \in FirstKernel .. last THEN Table(i) ELSE 0
       [] f = Table(FirstKernel) -> IF i < LowPages THEN LowMemory ELSE 0
       [] f = 0 \/ f \in Table(FirstKernel + 1) .. LowMemory - 1 -> 0
       [] OTHER -> Junk[i]]]

setup_page_first == SetupTables(FirstKernel)

setup_page == SetupTables(Self - 1)

PagingInit ==
  /\ mem = setup_page
  /\ cr3 = KernelDir /\ taken = LowMemory /\ utaken = KernelEnd
  /\ given = {<<KernelDir, v, LowMemory>> : v \in Low}
  /\ halted = "no"

-----------------------------------------------------------------------------
PDE_IDX(addr) == addr \div Span
PTE_IDX(addr) == (addr \div PG_SIZE) % Entries
Page(addr) == addr - (addr % PG_SIZE)

(* The processor: the frame an address is in, for directory d.             *)
Walk(m, d, addr) == m[m[d][PDE_IDX(addr)]][PTE_IDX(addr)]

Read(m, addr) == m[Walk(m, cr3, addr)][(addr % PG_SIZE) \div 4]
Write(m, addr, w) == [m EXCEPT ![Walk(m, cr3, addr)][(addr % PG_SIZE) \div 4] = w]
Clear(m, addr) == [m EXCEPT ![Walk(m, cr3, addr)] = [i \in Index |-> 0]]

(* (Mutated: the directory index is not shifted out of the way.)           *)
pte_ptr_unshifted(vaddr) == Self * Span + PDE_IDX(vaddr) * 4 + PTE_IDX(vaddr) * 4
pte_ptr(vaddr) ==
  Self * Span + (vaddr - (vaddr % Span)) \div Entries + PTE_IDX(vaddr) * 4

pde_ptr(vaddr) == Space - PG_SIZE + PDE_IDX(vaddr) * 4

(* As an address; entries are frames.  (Mutated: the word of the directory *)
(* is taken for that of the table; all of vaddr is added to it.)           *)
addr_v2p_pde(m, vaddr) == Read(m, pde_ptr(vaddr)) * PG_SIZE + (vaddr % PG_SIZE)
addr_v2p_whole(m, vaddr) == Read(m, pte_ptr(vaddr)) * PG_SIZE + vaddr
addr_v2p(m, vaddr) == Read(m, pte_ptr(vaddr)) * PG_SIZE + (vaddr % PG_SIZE)

(* palloc from kernel_pool, which has given away its frames up to last, is *)
(* NULL when there is none left.  page_table_add does not test that for a  *)
(* table: it clears what is at physical address 0.  (Mutated: the last     *)
(* frame is not found; the new table is not cleared.)                      *)
palloc_short(last) == IF last + 1 < KernelEnd THEN last + 1 ELSE 0
palloc(last) == IF last < KernelEnd THEN last + 1 ELSE 0

NeedsTable(vaddr) == Read(mem, pde_ptr(vaddr)) = 0

TableCleared(table, vaddr, clears) ==
  LET m == Write(mem, pde_ptr(vaddr), table)
  IN IF clears THEN Clear(m, Page(pte_ptr(vaddr))) ELSE m

MapClearing(vaddr, frame, last, clears) ==
  Write(IF NeedsTable(vaddr) THEN TableCleared(palloc(last), vaddr, clears) ELSE mem,
        pte_ptr(vaddr), frame)

page_table_add_dirty(vaddr, frame, last) == MapClearing(vaddr, frame, last, FALSE)

page_table_add(vaddr, frame, last) == MapClearing(vaddr, frame, last, TRUE)

(* What page_table_add does to the pools and the machine.  Pages of the    *)
(* kernel are the same in every directory.                                 *)
Owner(vaddr) == IF PDE_IDX(vaddr) >= FirstKernel THEN KernelDir ELSE cr3

Maps(vaddr, frame, last) ==
  /\ taken' = IF NeedsTable(vaddr) /\ palloc(last) # 0 THEN last + 1 ELSE last
  /\ given' = given \union {<<Owner(vaddr), vaddr, frame>>}
  /\ halted' = CASE NeedsTable(vaddr) /\ palloc(last) = 0 -> "low"
                 [] ~NeedsTable(vaddr) /\ Read(mem, pte_ptr(vaddr)) # 0 -> "assert"
                 [] OTHER -> "no"

\* The page of get_a_page: a frame of user_pool.
MapUserPage(vaddr) ==
  /\ utaken < Frames
  /\ utaken' = utaken + 1
  /\ Maps(vaddr, utaken + 1, taken)
  /\ mem' = page_table_add(vaddr, utaken + 1, taken)

(* get_kernel_pages(1): the first page that is free, a frame of            *)
(* kernel_pool, cleared through its new mapping.                           *)
vaddr_get ==
  Min({v \in KernelPages \ Low : \A f \in Word : <<KernelDir, v, f>> \notin given})

Takes(vaddr) ==
  taken < KernelEnd /\ Maps(vaddr, taken + 1, taken + 1) /\ UNCHANGED utaken

Allocated(vaddr) == Clear(page_table_add(vaddr, taken + 1, taken + 1), vaddr)

get_kernel_pages == Takes(vaddr_get) /\ mem' = Allocated(vaddr_get)

(* create_page_dir in a page of the kernel, vaddr.  (Mutated: the last     *)
(* entry is left as it was copied.)                                        *)
Copied(vaddr) ==
  LET m == Allocated(vaddr)
  IN [m EXCEPT ![Walk(m, cr3, vaddr)] =
        [i \in Index |-> IF i >= FirstKernel THEN Read(m, Space - PG_SIZE + i * 4) ELSE @[i]]]

create_page_dir_copied(vaddr) == Takes(vaddr) /\ mem' = Copied(vaddr)

create_page_dir(vaddr) ==
  /\ Takes(vaddr)
  /\ mem' = LET m == Copied(vaddr)
            IN Write(m, vaddr + Self * 4, addr_v2p(m, vaddr) \div PG_SIZE)

(* page_dir_activate of a process, whose pgdir is a virtual address, and   *)
(* of a kernel thread, whose pgdir is NULL, here 0.  (Mutated: a kernel    *)
(* thread keeps the directory of the process before it.)                   *)
ActivateOr(pgdir, frame) ==
  cr3' = IF pgdir # 0 THEN addr_v2p(mem, pgdir) \div PG_SIZE ELSE frame

page_dir_activate_kept(pgdir) == ActivateOr(pgdir, cr3)

page_dir_activate(pgdir) == ActivateOr(pgdir, KernelDir)

-----------------------------------------------------------------------------
PagingTypeOK ==
  /\ mem \in [Word -> [Index -> Word]]
  /\ cr3 \in Word /\ taken \in LowMemory .. KernelEnd /\ utaken \in KernelEnd .. Frames
  /\ given \subseteq Word \X (KernelPages \union UserPages) \X Word
  /\ halted \in {"no", "assert", "panic", "fault", "low"}

Frame(d, v) == {f \in Word : <<d, v, f>> \in given}

(* addr_v2p answers, in whatever directory is in use, with what the        *)
(* processor makes of an address, at the first and the last byte of every  *)
(* page.                                                                   *)
PhysicalRight ==
  \A page \in 0 .. Entries * Entries - 1, offset \in {0, PG_SIZE - 1} :
    LET addr == page * PG_SIZE + offset
    IN mem[cr3][PDE_IDX(addr)] # 0 =>
         addr_v2p(mem, addr) = Walk(mem, cr3, addr) * PG_SIZE + offset

=============================================================================
