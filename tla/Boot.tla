-------------------------------- MODULE Boot --------------------------------
(***************************************************************************)
(* From the boot sector to main's loop: boot/mbr.s, boot/loader.s and the  *)
(* functions init_all calls, with the interrupts that can come meanwhile   *)
(* and the memory all of them use.                                         *)
(*                                                                         *)
(* An action is one function, except that the two that read the disk run   *)
(* step by step beside the drive (Disk); the functions that fill tables    *)
(* for the hardware do what Descriptors says.  The 8259A presents its      *)
(* lines all the time, and whether interrupts are open when the boot       *)
(* sector starts is up to the BIOS.  Addresses are physical; sizes of      *)
(* memory are in KB, of 4 KB pages in the pools.                           *)
(***************************************************************************)
EXTENDS Integers, FiniteSetsExt, SequencesExt, Descriptors, Disk

CONSTANTS
  IfAtEntry,  \* what the BIOS leaves in the interrupt flag: a set of BOOLEANs
  E801,       \* answers of int 0x15: <<ax, bx>>, or NULL
  Ext88,      \* answers of its function 0x88: ax, or NULL
  KernelSize, \* bytes in memory of the segments in kernel.bin
  WaitersLinked, \* whether sema_init links the list of waiters: a set of BOOLEANs
  LoaderRead, KernelRead \* where the two are on the disk: <<first sector, sectors>>

ASSUME BootAssumption ==
  /\ IfAtEntry \subseteq BOOLEAN /\ WaitersLinked \subseteq BOOLEAN
  /\ \A r \in LoaderRead \union KernelRead : [lba |-> r[1], n |-> r[2]] \in Call

ASSUME SizeAssumption ==
  /\ \A m \in E801 \ {NULL} : /\ m \in Nat \X Nat
                              /\ 1024 <= m[1] /\ m[1] <= 15360 /\ m[2] <= 65280
  /\ \A kb \in Ext88 \ {NULL} : kb \in Nat /\ 1024 <= kb /\ kb <= 65535
  /\ \A bytes \in KernelSize : bytes \in Nat /\ 1 <= bytes /\ bytes <= 200 * 512

VARIABLES
  pc,       \* how many steps are done
  mode,     \* of the processor
  open,     \* its interrupt flag
  idtr,     \* the table it uses: the BIOS's, at 0, or idt
  pic,      \* the two 8259As
  handler,  \* idt_table
  ready,    \* functions of init_all that have run
  total,    \* total_mem_bytes, in KB
  real,     \* how much memory there is
  size,     \* of the kernel
  pools,    \* what mem_pool_init computed
  linked,   \* sema_init links the list of waiters, which that of sync.c does not
  lost,     \* what was overwritten while it was still needed
  outcome   \* "runs", the handler that is running, or how it ended

machine == <<mode, open, idtr, pic, handler>>
memory  == <<total, real, size, pools, linked>>
vars    == <<pc, machine, ready, memory, lost, outcome, descriptors, disk>>

\* (Mutated: init_all programs the clock first.)
init_all_clock ==
  <<"timer_init", "idt_init", "mem_init", "threads_init", "console_init", "keyboard_init",
    "tss_init">>
init_all ==
  <<"idt_init", "mem_init", "threads_init", "timer_init", "console_init", "keyboard_init",
    "tss_init">>

Program ==
  <<"rd_disk_m_16", "int15", "p_mode_start", "rd_disk_m_32", "setup_page", "paging",
    "kernel_init", "main">> \o init_all \o <<"thread_start", "thread_start", "intr_enable", "loop">>

Here == Program[pc]
Running(step) == outcome = "runs" /\ Here = step
First(step) == Min({i \in DOMAIN Program : Program[i] = step})

-----------------------------------------------------------------------------
(* Memory that is needed: by which steps, from the one that writes it on.  *)
LOADER_BASE_ADDR == 2304          \* 0x900, where the GDT is
KERNEL_BIN_BASE_ADDR == 458752    \* 0x70000
PAGE_DIR_TABLE_POS == 1048576     \* 0x100000
KernelEntry == 5376               \* 0x1500
MemBitmapBase == 630784           \* 0x9a000
MainPcb == 647168                 \* 0x9e000, with main's stack below 0x9f000

\* Somewhere from first to last, needed after step from until step until.
Region(what, from, until, first, last) ==
  [what |-> what, from |-> from, until |-> until, first |-> first, last |-> last]

Needed ==
  {Region("BIOS_data", 0, First("int15"), 0, 1279),
   Region("MBR", 0, First("rd_disk_m_16"), 31744, 32255),
   Region("loader", First("rd_disk_m_16"), First("main"),
          LOADER_BASE_ADDR + 768, LOADER_BASE_ADDR + 4 * 512 - 1),
   Region("GDT", First("rd_disk_m_16"), Len(Program), LOADER_BASE_ADDR, LOADER_BASE_ADDR + 31),
   Region("total_mem_bytes", First("int15"), First("mem_init"),
          LOADER_BASE_ADDR + 512, LOADER_BASE_ADDR + 515),
   Region("kernel.bin", First("rd_disk_m_32"), First("kernel_init"),
          KERNEL_BIN_BASE_ADDR, KERNEL_BIN_BASE_ADDR + size - 1),
   Region("page_tables", First("setup_page"), Len(Program),
          PAGE_DIR_TABLE_POS, PAGE_DIR_TABLE_POS + 4096 + 1024 - 1),
   Region("kernel", First("kernel_init"), Len(Program), KernelEntry, KernelEntry + size - 1),
   Region("bitmaps", First("mem_init"), Len(Program),
          MemBitmapBase, MemBitmapBase + (IF pools = NULL THEN 0 ELSE pools.bytes) - 1),
   Region("PCB_of_main", First("threads_init"), Len(Program), MainPcb, MainPcb + 67)}

\* What a step that writes from first to last destroys.
Writes(first, last) ==
  lost' = lost \union
    {r.what : r \in {n \in Needed : /\ n.from < pc /\ pc <= n.until
                                    /\ n.first <= last /\ first <= n.last}}

Goes == pc' = pc + 1
Step(step) == Running(step) /\ Goes /\ UNCHANGED <<ready, real, size, linked, outcome, descriptors, disk>>

Init ==
  /\ pc = 1 /\ mode = "real" /\ open \in IfAtEntry /\ idtr = "BIOS"
  /\ pic = [m |-> [base |-> 8, mask |-> 0, icw |-> 0, cascade |-> 4],
            s |-> [base |-> 112, mask |-> 0, icw |-> 0, cascade |-> 2]]
  /\ handler = [v \in {} |-> "none"]
  /\ ready = {} /\ total = 0 /\ real = 0 /\ size \in KernelSize /\ pools = NULL
  /\ linked \in WaitersLinked
  /\ lost = {} /\ outcome = "runs"
  /\ DescriptorsInit /\ DiskInit

(* The boot sector reads the loader, the loader the kernel.  What was read *)
(* with gaps cannot be run.                                                *)
CallDisk ==
  /\ \E read \in (IF Running("rd_disk_m_16") THEN LoaderRead
                  ELSE IF Running("rd_disk_m_32") THEN KernelRead ELSE {}) :
       rd_disk(read[1], read[2])
  /\ UNCHANGED <<pc, machine, ready, memory, lost, outcome, descriptors>>

DiskStep ==
  /\ outcome = "runs" /\ Reading
  /\ UNCHANGED <<pc, machine, ready, memory, lost, outcome, descriptors>>

HasRead(step) ==
  /\ Running(step) /\ Goes /\ Return
  /\ outcome' = IF Late THEN "garbled" ELSE outcome
  /\ UNCHANGED <<machine, ready, memory>>

ReadLoader ==
  /\ HasRead("rd_disk_m_16")
  /\ load_gdt
  /\ Writes(LOADER_BASE_ADDR, LOADER_BASE_ADDR + 4 * 512 - 1)

(* The loader asks for the size of memory, 32 bits of it in bytes, and     *)
(* gives up without an answer.  The BIOS does not count the first megabyte. *)
(* (Mutated: the sum has more than 32 bits.)                               *)
Bits32(kb) == kb % 2 ^ 22

MemorySizeWide(low, high) == low + high * 64 + 1024

MemorySize(low, high) == Bits32(low + high * 64 + 1024)

GetMemory ==
  /\ Running("int15")
  /\ \/ \E m \in E801 \ {NULL} :
          total' = MemorySize(m[1], m[2]) /\ real' = m[1] + m[2] * 64 + 1024
     \/ NULL \in E801 /\ \E kb \in Ext88 \ {NULL} :
          total' = MemorySize(kb, 0) /\ real' = kb + 1024
  /\ Goes
  /\ Writes(LOADER_BASE_ADDR + 512, LOADER_BASE_ADDR + 515)
  /\ UNCHANGED <<machine, ready, size, pools, linked, outcome, descriptors, disk>>

error_hlt ==
  /\ Running("int15") /\ NULL \in E801 /\ NULL \in Ext88
  /\ outcome' = "error_hlt"
  /\ UNCHANGED <<pc, machine, ready, memory, lost, descriptors, disk>>

\* lgdt, CR0.PE, and the stack below the loader.
ProtectedMode ==
  /\ Step("p_mode_start")
  /\ mode' = "protected"
  /\ UNCHANGED <<open, idtr, pic, handler, total, pools, lost>>

ReadKernel ==
  /\ HasRead("rd_disk_m_32")
  /\ Writes(KERNEL_BIN_BASE_ADDR, KERNEL_BIN_BASE_ADDR + 200 * 512 - 1)
  /\ UNCHANGED descriptors

\* The directory, and the first 256 entries of the first table.
setup_page ==
  /\ Step("setup_page")
  /\ Writes(PAGE_DIR_TABLE_POS, PAGE_DIR_TABLE_POS + 4096 + 1024 - 1)
  /\ UNCHANGED <<machine, total, pools>>

EnablePaging ==
  /\ Step("paging")
  /\ mode' = "paged"
  /\ UNCHANGED <<open, idtr, pic, handler, total, pools, lost>>

(* Each segment of kernel.bin goes to its address.  (Mutated: to where the *)
(* loader is.)                                                             *)
KernelAt(base) ==
  /\ Step("kernel_init")
  /\ Writes(base, base + size - 1)
  /\ UNCHANGED <<machine, total, pools>>

kernel_init_low == KernelAt(LOADER_BASE_ADDR)

kernel_init == KernelAt(KernelEntry)

JumpMain == Step("main") /\ UNCHANGED <<machine, total, pools, lost>>

-----------------------------------------------------------------------------
(* An 8259A: a write to its control port with bit 4 set starts a sequence  *)
(* of four, otherwise the data port is the mask.                           *)
ControlPort(chip, byte) ==
  IF byte \div 16 = 1 THEN [chip EXCEPT !.icw = 2, !.mask = 0] ELSE chip

DataPort(chip, byte) ==
  CASE chip.icw = 2 -> [chip EXCEPT !.base = byte, !.icw = 3]
    [] chip.icw = 3 -> [chip EXCEPT !.cascade = byte, !.icw = 4]
    [] chip.icw = 4 -> [chip EXCEPT !.icw = 0]
    [] OTHER -> [chip EXCEPT !.mask = byte]

\* The four bytes for a chip: its first vector and where the other one is.
Remap(chip, base, cascade) ==
  DataPort(DataPort(DataPort(ControlPort(chip, 17), base), cascade), 1)

(* Vectors 32 and 40 on, the slave at line 2, and of the master's lines    *)
(* only the clock's open.  (Mutated: only the keyboard's, as in the lines  *)
(* for testing it.)                                                        *)
PicMask(mask) ==
  [m |-> DataPort(Remap(pic.m, 32, 4), mask), s |-> DataPort(Remap(pic.s, 40, 2), 255)]

pic_init_keyboard == PicMask(253)

pic_init == PicMask(254)

\* A function of init_all that is not called twice.
Inits(name) ==
  /\ Running(name) /\ Goes
  /\ ready' = ready \union {name}
  /\ UNCHANGED <<mode, open, total, real, size, linked, outcome, disk>>

\* idt_desc_init, exception_init, pic_init and lidt.
idt_init ==
  /\ Inits("idt_init")
  /\ idtr' = "idt"
  /\ \E word \in Beyond : idt_desc_init(word)
  /\ handler' = [v \in 0 .. 128 |-> "general_init_hadnler"]
  /\ pic' = pic_init
  /\ UNCHANGED <<pools, lost>>

register_handler(v, function) ==
  handler' = [w \in DOMAIN handler \union {v} |-> IF w = v THEN function ELSE handler[w]]

(* mem_pool_init.  Sizes are in pages of 4 KB, all_free_pages in 16 bits.  *)
(* (Mutated: the user's pool begins where the kernel's does.)              *)
UsedPages == 256 + 256

all_free_pages == ((total - 4 * UsedPages) \div 4) % 2 ^ 16

PoolsFrom(gap) ==
  LET kernel == all_free_pages \div 2
      user   == all_free_pages - kernel
  IN [kp_start |-> UsedPages, kernel |-> 8 * (kernel \div 8),
      up_start |-> UsedPages + gap * kernel, user |-> 8 * (user \div 8),
      bytes |-> 2 * (kernel \div 8) + user \div 8]

PoolsSame == PoolsFrom(0)

mem_pool_init == PoolsFrom(1)

mem_init ==
  /\ Inits("mem_init")
  /\ pools' = mem_pool_init
  /\ Writes(MemBitmapBase, MemBitmapBase + pools'.bytes - 1)
  /\ UNCHANGED <<idtr, pic, handler, descriptors>>

\* make_main_thread clears main's PCB.
threads_init ==
  /\ Inits("threads_init")
  /\ Writes(MainPcb, MainPcb + 67)
  /\ UNCHANGED <<idtr, pic, handler, pools, descriptors>>

timer_init ==
  /\ Inits("timer_init")
  /\ frequency_set(COUNTER0_VALUE)
  /\ register_handler(32, "intr_timer_handler")
  /\ UNCHANGED <<idtr, pic, pools, lost>>

console_init ==
  /\ Inits("console_init")
  /\ UNCHANGED <<idtr, pic, handler, pools, lost, descriptors>>

keyboard_init ==
  /\ Inits("keyboard_init")
  /\ register_handler(33, "intr_keyboard_handler")
  /\ UNCHANGED <<idtr, pic, pools, lost, descriptors>>

\* Three descriptors behind the loader's.
tss_init ==
  /\ Inits("tss_init")
  /\ \E base \in Address : tss_descriptors(base)
  /\ Writes(LOADER_BASE_ADDR + 32, LOADER_BASE_ADDR + 55)
  /\ UNCHANGED <<idtr, pic, handler, pools>>

(* A page of kernel_pool for its PCB, under the pool's lock, whose release *)
(* follows a NULL link unless the waiters are linked.  Without a page      *)
(* left, memset's assertion fails for the PCB at NULL.                     *)
PcbLeft == pc - First("thread_start") < pools.kernel

thread_start ==
  /\ Step("thread_start") /\ linked /\ PcbLeft
  /\ UNCHANGED <<machine, total, pools, lost>>

thread_start_fails ==
  /\ Running("thread_start") /\ ~(linked /\ PcbLeft)
  /\ outcome' = IF linked THEN "panic" ELSE "fault"
  /\ UNCHANGED <<pc, machine, ready, memory, lost, descriptors, disk>>

intr_enable ==
  /\ Step("intr_enable")
  /\ open' = TRUE
  /\ UNCHANGED <<mode, idtr, pic, handler, total, pools, lost>>

(* The master's lines 0 and 1, unless masked, line 0 as long as the 8253   *)
(* counts.  The BIOS serves them itself as long as the processor is in its *)
(* mode; a table that is not one of gates resets it; the general handler   *)
(* does not return.  The clock's handler asserts that there is a thread    *)
(* and calls schedule.                                                     *)
Lines ==
  {i \in 0 .. 1 : (pic.m.mask \div 2 ^ i) % 2 = 0 /\ pic.m.icw = 0 /\ (i = 0 => Counting)}

Serves(v) ==
  IF ~LeadsTo(idt[v], entry[v]) THEN "stopped"
  ELSE CASE handler[v] = "intr_keyboard_handler" -> "keyboard"
         [] /\ handler[v] = "intr_timer_handler"
            /\ {"mem_init", "threads_init"} \subseteq ready
            /\ pc > First("thread_start") + 1 -> "clock"
         [] OTHER -> "stopped"

Interrupt(i) ==
  /\ outcome = "runs" /\ open /\ i \in Lines /\ mode # "real"
  /\ outcome' = IF idtr = "BIOS" THEN "reset" ELSE Serves(pic.m.base + i)
  /\ UNCHANGED <<pc, machine, ready, memory, lost, descriptors, disk>>

\* The handler returns.
Served ==
  /\ outcome \in {"clock", "keyboard"}
  /\ outcome' = "runs"
  /\ UNCHANGED <<pc, machine, ready, memory, lost, descriptors, disk>>

Next ==
  \/ CallDisk \/ DiskStep \/ ReadLoader \/ GetMemory \/ error_hlt \/ ProtectedMode \/ ReadKernel \/ setup_page
  \/ EnablePaging \/ kernel_init \/ JumpMain
  \/ idt_init \/ mem_init \/ threads_init \/ timer_init \/ console_init \/ keyboard_init
  \/ tss_init \/ thread_start \/ thread_start_fails \/ intr_enable
  \/ \E i \in 0 .. 1 : Interrupt(i)
  \/ Served

Spec == Init /\ [][Next]_vars

FairSpec == Spec /\ WF_vars(Next)

-----------------------------------------------------------------------------
TypeOK ==
  /\ DiskTypeOK /\ pc \in DOMAIN Program
  /\ mode \in {"real", "protected", "paged"}
  /\ open \in BOOLEAN /\ idtr \in {"BIOS", "idt"}
  /\ \A c \in {"m", "s"} : pic[c] \in [base : 0 .. 255, mask : 0 .. 255, icw : 0 .. 4, cascade : 0 .. 255]
  /\ ready \subseteq ToSet(init_all)
  /\ total \in 0 .. 2 ^ 22 - 1 /\ linked \in BOOLEAN
  /\ outcome \in {"runs", "clock", "keyboard", "stopped", "reset", "error_hlt",
                 "garbled", "fault", "panic"}

(* The registers of the machine hold what they can, and its tables lead    *)
(* where they should.                                                      *)
TablesRight == TypeOK /\ SelectorsLoad /\ GatesReachEntries

(* Everything that is read later is still there then: the parts of the     *)
(* boot sector, the loader, the kernel file and its image, the GDT, the    *)
(* page tables, the bitmaps of memory and main's PCB do not overlap while  *)
(* they are in use, for any size of memory and of kernel.                  *)
NothingLost == lost = {}

(* Interrupts that come are served: from intr_enable on the line that is   *)
(* not masked has its vector, its gate and its handler, and before it      *)
(* none comes, unless the BIOS has left the flag set: nothing in mbr.s or  *)
(* loader.s clears it, and interrupts are not closed then when main opens  *)
(* them (main.c:15).                                                       *)
InterruptsServed ==
  outcome \in {"reset", "stopped"} => open /\ pc <= First("intr_enable")

(* The two pools are two disjoint parts of the memory there is, behind the *)
(* page tables, and hold all of it but at most seven pages each and what   *)
(* is less than a page.  The latter only as long as there are less than    *)
(* 2^16 free pages: memory.h:13 speaks of 512 MB, but the number wraps in  *)
(* a machine of 258 MB.                                                    *)
PoolsSound ==
  pools # NULL =>
    /\ pools.kp_start >= UsedPages
    /\ pools.kp_start + pools.kernel <= pools.up_start
    /\ 4 * (pools.up_start + pools.user) <= real
    /\ real < 4 * (UsedPages + 2 ^ 16) =>
         4 * (pools.kernel + pools.user + 14) + 3 >= real - 4 * UsedPages

\* Less than 16 free pages, or that many more than what 16 bits hold.
FewPages == ((real - 4 * UsedPages) \div 4) % 2 ^ 16 < 16

(* The clock ticks in main's loop, and goes on, if sema_init links the     *)
(* waiters.  That of sync.c does not, and main stops in its first          *)
(* thread_start.  Otherwise it may end before only because the BIOS cannot *)
(* tell how much memory there is; because the drive reports an error,      *)
(* which nothing tests, or needs time between two sectors; because there   *)
(* are so few free pages that kernel_pool has none and memset asserts; or  *)
(* because the BIOS has left the flag set and an interrupt came too early. *)
ClockTicks ==
  \/ []<>(outcome = "clock")
  \/ ~linked /\ <>(outcome = "fault")
  \/ <>(outcome = "panic" /\ FewPages)
  \/ <>(outcome \in {"error_hlt", "garbled"}) \/ <>(status = "ERR")
  \/ open /\ <>(outcome \in {"reset", "stopped"})

=============================================================================
