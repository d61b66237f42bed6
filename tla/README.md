# Tiny-OS-Kernel in TLA+

This directory is a model of the kernel in `src/`: TLA+ modules translated from
its C and assembly, TLC configurations that check them on small instances, and
theorems about them that TLAPS has checked. All paths below are relative to
`src/`.

## The system

The kernel runs on one x86 processor. A boot sector and a loader (`boot/`) set
up paging and jump to `main()` (`kernel/main.c`), which initialises every part
(`kernel/init.c`), starts two kernel threads, sets the interrupt flag and then
prints for ever, as the two threads do. Nothing ever stops.

| component | state | operations | talks to |
|---|---|---|---|
| threads, scheduler (`thread/thread.c`, `switch.S`) | a PCB per thread (status, priority, ticks, saved stack), `thread_ready_list`, `thread_all_list` | `threads_init`, `thread_start`, `schedule`, `thread_block`, `thread_unblock`, `thread_yield` | entered from the clock handler, from semaphores and from threads; uses lists, memory |
| semaphores, locks (`thread/sync.c`) | `value`, `waiters`; `holder`, `holder_repeat_nr` | `sema_down/up`, `lock_acquire/release` | blocks and unblocks threads |
| clock (`device/timer.c`) | the 8253 counter, `ticks` | `timer_init`, `intr_timer_handler` | calls `schedule` when a slice is over |
| interrupts (`kernel/interrupt.c`, `kernel.S`) | IDT, handler table, 8259A masks, the flag in EFLAGS | `idt_init`, `register_handler`, `intr_enable/disable/set_status`, entry and exit | calls the handlers; everything else uses the flag for atomicity |
| lists (`lib/kernel/list.c`) | `prev`/`next` links | push, append, pop, remove, find, traverse | ready list, all list, waiters |
| memory (`kernel/memory.c`, `lib/kernel/bitmap.c`) | two pools of frames with a bitmap and a lock each, virtual address bitmaps, page tables | `get_kernel_pages`, `get_user_pages`, `get_a_page`, `bitmap_scan/set` | locks; called by `thread_start` and processes |
| screen and console (`lib/kernel/print.S`, `device/console.c`) | cursor registers, video memory, `console_lock` | `put_char`, `put_str`, `put_int`, `console_put_*` | called from threads and from the keyboard handler |
| keyboard (`device/keyboard.c`) | modifier flags, `ext_scancode` | `intr_keyboard_handler` | prints |
| processes (`userprog/`) | `pgdir`, TSS, GDT | `process_execute`, `start_process`, `process_activate`, `tss_init` | memory, threads; not built or called yet |
| boot sector, loader (`boot/mbr.s`, `boot/loader.s`) | memory, the GDT, the first page tables, the drive's registers | `rd_disk_m_16`, `rd_disk_m_32`, `setup_page`, `kernel_init` | start `main`; leave the tables everything else rests on |
| strings (`lib/string.c`) | memory | `mem*`, `str*` | used by all |
| disk driver, system calls (`device/ide.c`, `lib/user/syscall.c`) | | | fragments that are not built |

What is hard about it: a clock interrupt can come between any two instructions
that run with the flag set, and the next thread then runs in the middle of the
first one's function. Code protects itself by clearing the flag
(`intr_disable` ... `intr_set_status(old)`), and the flag has to survive nested
calls and context switches inside such a region. Locks are released and taken
with the flag set. There is no idle thread, so blocking is only safe while
something else can run. `PROJECT.json` lists these and the other hazards at
their lines, with the properties that would catch each going wrong.

What makes each component correct:

* threads: a thread is in the list its status calls for and in no other; every
  ready thread runs; the interrupt flag is each thread's own; no assertion fails;
* locks: mutual exclusion, exact recursion count, no lost wakeup, every waiter
  is woken; a lock is an abstract recursive lock;
* lists: the links are those of a sequence, and each function does to the
  sequence what its name says;
* memory: a frame is handed out once; every page handed out is mapped, and to
  its own frame; bitmaps agree with page tables; locks are returned;
* screen: the cursor stays on the screen; a string printed under the console
  lock appears in one piece;
* keyboard: the flags follow the keys that are down;
* processes: what runs in a process runs on its page directory and stack;
* interrupt entry: every register comes back, through any number of switches;
* boot: nothing is overwritten while it is needed, and every interrupt that
  comes finds its handler.

## Modules

| module | models | file |
|---|---|---|
| `Threads` | scheduler, context switch, clock handler, start of threads: variables and actions | `thread/thread.c`, `thread/switch.S`, `device/timer.c`, `kernel/main.c` |
| `Sync` | semaphores and locks on top of `Threads`; next-state relation, fairness, properties | `thread/sync.c` |
| `RecursiveLock` | abstract: what a lock promises | |
| `Lists` | abstract: what lists promise | |
| `KList` | the links of the lists, several lists sharing elements | `lib/kernel/list.c` |
| `Bitmap` | operators: scanning and setting | `lib/kernel/bitmap.c` |
| `Strings` | operators on a memory of bytes | `lib/string.c` |
| `Memory` | the allocator, on the locks of `RecursiveLock` | `kernel/memory.c` |
| `Paging` | page tables word by word, through the directory that maps itself | `kernel/memory.c`, `userprog/process.c`, `boot/loader.s` |
| `Process` | processes, their directories and kernel stacks; extends `Paging` | `userprog/process.c`, `userprog/tss.c` |
| `Entry` | kernel stacks and registers word by word | `kernel/kernel.S`, `thread/switch.S`, `thread/thread.c`, `lib/user/syscall.c` |
| `Screen` | the text screen and the console lock | `lib/kernel/print.S`, `device/console.c` |
| `Keyboard` | the keyboard handler against the keys | `device/keyboard.c` |
| `Descriptors` | what the kernel packs for the hardware: GDT, IDT, 8253 | `userprog/tss.c`, `kernel/interrupt.c`, `kernel/global.h`, `device/timer.c` |
| `Disk` | reading sectors, beside the drive | `boot/mbr.s`, `boot/loader.s` |
| `Boot` | boot sector to main's loop; extends `Descriptors` and `Disk` | `boot/`, `kernel/init.c`, `kernel/main.c`, `kernel/interrupt.c`, `kernel/memory.c` |
| `Library` | the functions of `Strings` and `Bitmap` on one memory, with definitions without loops to compare them with | |
| `MC...` | instances for TLC | |
| `SyncProofs` | theorems about `Threads` and `Sync`: locks, lists of threads, the interrupt flag, refinement | |
| `ScreenProofs`, `EntryProofs`, `KListProofs`, `KeyboardProofs` | theorems about the module each is named for | |
| `ProcessProofs`, `BootProofs` | about `Process` and `Paging`; about `Boot`, `Disk` and `Descriptors` | |
| `MemoryProofs` | about `Memory` and `Library` | |

`Sync` extends `Threads`; `Memory` and `Screen` use the locks of `RecursiveLock`,
which `Sync` implements; `Threads` uses lists as the sequences `KList` implements.
Operators whose comment says "Mutated" are what a plausible mistake would make of the
definition after them; no specification uses them, `PROJECT.json` says which property
each one breaks.

### Threads

An action is a stretch of code that nothing can interleave with: code that runs
with the interrupt flag clear, up to the `switch_to` in it. `schedule` is the
operator `Schedule(st, rq, f)`: the statuses and ready list its caller has
already changed, and the function `f` that stays on top of the outgoing thread's
stack. `frame[t]` keeps that function: `"timer"` (the clock handler,
`intr_exit` will `iretd` and set the flag), `"yield"` and `"block"` (restore
`old_status`) or `"kernel_thread"` (the frame `thread_create` builds; the thread
starts by calling `intr_enable`). When the thread is chosen again, what that
function still does is an action of its own (`TimerReturn`, `YieldReturn`,
`FirstRun`, and `RetryDown` in `Sync`), taken with the flag still clear.
`cur` is `running_thread()`, `old[t]` the saved `old_status`, `ticks`, `status`,
`ready` and `all` the fields and lists of the same names. A failed `ASSERT`
sets `panic`, clears the flag and stops everything, like `panic_spin`.

`ThreadStart` is `thread_start` as `main` uses it, before `intr_enable`, so it is
one action; `Started` is the order in which `main` starts its threads.

### Sync

`lock_acquire` and `lock_release` run with the flag as they find it, so each
access to the lock is an action and `pc[t]` says how far thread `t` is:

    run --LockAcquire--> down --SemaDown--> own --SetHolder--> count --SetRepeat--> run
                          | value = 0
                          v
                         wait --RetryDown--> own, or wait again
    run --LockRelease--> clear --ClearHolder--> zero --ClearRepeat--> up --SemaUp--> run

Three tests are merged with the assignment after them (`holder != running_thread()`
with the increment, the two assertions of `lock_release` with the decrement,
the assertion on `holder_repeat_nr` with the assignment): what they read can be
changed by the thread itself only. `want[t]` and `nest[t]` are the lock the
thread is concerned with and how often it holds it; a client releases only what
it acquired and holds one lock at a time, which is what `console_*` and the
pool functions of `memory.c` do. Before `intr_enable`, `main` may use locks too,
with the flag clear.

`WaitersLinked` tells whether the `waiters` lists have been through `list_init`.
`sema_init` does not do that, so `FALSE` is the code as it stands: `list_append`,
`elem_find` and `list_pop` would follow the NULL in the zeroed links, which is
modelled as the kernel stopping (`"fault"`; the page at address 0 is mapped, what
is read there is the real-mode interrupt table, and the word found is not the
address of a PCB). Everything that is said about locks is said for
both values in the proofs; TLC runs use `TRUE`, except the one that shows the
finding.

### Bitmap and Memory

A bitmap is the set of its 1 bits, with the bit behind its end, which
`bitmap_scan` looks at. `ClearRun` follows the code: the first clear bit, then
`count` over the bits after it.

In `Memory` a client's call goes through

    idle --call--> vaddr --VaddrGet--> scan --PallocScan--> set --PallocSet--> map
    map --PageTableAdd--> scan for the next page, or return --Return--> idle
    map --TableScan--> tset --TableSet--> install --TableInstall--> as PageTableAdd

where `call` is `get_kernel_pages`, `get_user_pages` (both go to `vaddr`) or
`get_a_page` (to `scan`) and includes `lock_acquire`. The scan and the marking in
`palloc` are two actions, because `kernel_pool` is used under two
locks; what only the caller of a lock or a single process can reach (virtual
address bitmaps, page tables) is read and written in one. The locks are those of
`RecursiveLock`, which `sync_safety` shows `Sync` to implement. Failures go
where the code goes: `malloc_page` returns NULL half way (to `return`, with
`left` still positive), which `get_kernel_pages` hands on and `get_user_pages` gives to
`memset`, whose `ASSERT` stops the machine with the lock held (`halted = "null"`);
`get_a_page` returns from `scan` straight to `idle` with the lock; the NULL page table of
`TableScan` clears physical page 0, where the GDT is, which stops the model (`halted = "low"`).

`active` is the set of clients that allocate at all, chosen in `Init`, so that one
run covers the kernel alone, processes alone and both. Two things are taken as they are meant, since `src/` does not have them yet
(`create_user_vaddr_bitmap` is empty, `schedule` does not switch page directories; `Process`
has what happens as it stands): a process has a directory and an address space of its own with a bitmap of `UserPages` pages, the
last of which is its stack, mapped by `start_process` before anything else is
allocated. The page tables of the kernel's half exist from the loader on. Nothing in `src/` frees memory. If the
`|=` of `bitmap_set` is compiled to more than one instruction, the race on
`kernel_pool` is worse than modelled (a mark can be lost); that does not
matter to what is proved, which is about bitmaps that one lock guards.

### KList and Lists

`prev` and `next` are the links of all elements and of the two ends of every list.
`list_insert_before` and `list_remove` turn interrupts off and are one action each; what
`list_push` and `list_pop` read before that, and every round of a search, are actions of
their own. `MayRun` says that a call is not interleaved with another: every
caller in the kernel has interrupts off, or runs before they are first on. The
mutant `MayRunAny` drops it, and then nothing holds. `home` and `result` are history, for the
properties. Following a link that is NULL is `"fault"`. `Lists` has the same calls on
sequences, with one atomic step between call and return.

### Strings

Every loop is a recursive function over its passes. `Off` is the result of
running off the memory. `char` is signed and `uint8_t` is not, which the model keeps
with half of the `Values` negative. `Library` calls the functions that write to memory (and `bitmap_set`) with any
arguments, and compares every function on every argument with a definition that has no loop; TLC reaches every content of a small memory.

### Paging and Process

Memory is a function from frames to words. Everything the kernel does to page tables is a
read or write at a virtual address that the processor translates through `cr3`, so
the arithmetic of `pte_ptr`, `pde_ptr` and `addr_v2p` is what is checked. An address has two
indices of `Bits` bits; entries carry frame numbers, flags are left out. `given`
is history: which page was given away at which address. The pools give their frames away in order, so
each is a counter (`taken`, `utaken`). A NULL of `palloc` is frame 0: `page_table_add` makes it a
page table and clears it, which is physical address 0 (`halted = "low"`); a page that is mapped twice
fails its assertion (`"assert"`).

`process_execute` is two actions, since the clock can come between the page for the PCB
and the page for the directory; `start_process` is split at `get_a_page`, in which the
process can wait. Kernel stacks are depths: `self_kstack` is where `switch_to`
last left the stack pointer, `proc` is `proc_stack`. The constant `Pushes` stands for what an
interrupt or `get_a_page` has pushed at a switch, `PageWords` is the real size, and the
two `sizeof` are subtracted in words as in the source (from a `uint32_t *`), 304 bytes
where 76 were meant; `FrameIntact` says that it does no harm.

`schedule` does not call `process_activate` (`thread.c:144`). `activated`, chosen in `Init`, is
whether it does; the properties say what holds with it, and what without. Nor does
`create_user_vaddr_bitmap` make a bitmap, which `bitmap` stands for: `get_a_page` then marks the stack's page in
byte `0x17fff` (`MarkAt`), which is low memory in the kernel's directory and not mapped in a process's. So with
`process_activate` alone every process would fault at `memory.c:262` (`halted = "fault"`), and only with
both does one run as it should.

Nothing in `process.c` tests for NULL. Without a page for the PCB `init_thread`
fails the assertion of `memset`, and without one for the directory the process starts with `pgdir` = NULL and
`get_a_page` panics (`memory.c:273`; both are `halted = "panic"`). With `user_pool` used up `get_a_page`
returns NULL and keeps the lock (`kept`): the process goes on with a stack at the end of page 0, and every later
process waits for ever.

### Entry

A stack is a sequence of words, a word says what was pushed. `Interrupt`, `Fault` and
`SystemCall` do what the processor and `kernel.S` push, `Switch` what `switch_to` does
to two stacks, `IntrExit` pops. A C function may leave anything in its scratch registers
and preserves the others (`Temp`). `was` is history: the registers at entry. `service` are
the lines between their acknowledgement and the end of interrupt that `kernel.S` sends.
`syscall_table` does not exist in the source; a system call is taken to be a C function of
three arguments.

### Screen

Every `in`, `out` and store to video memory is an action, so that the clock can come between
any two. The console functions hold the lock of `RecursiveLock`, which the model takes in
`Call` and gives back with the last character. `term` is history: the terminal a reader of
the calls expects, updated in the order of the calls. The keyboard handler, which takes
no lock, prints at once, as interrupts are off in it, and only when no thread is
printing; that is the most the masks of `pic_init` allow, which keep its line closed.
The mutants are what else can happen: `KeyboardAnyTime` opens the line beside the clock's,
`CallUnlocked` prints without the lock, as main's threads do.

### Keyboard

The environment presses, repeats and releases keys and puts the codes of scan code set 1
on a wire; `Interrupt` is one call of the handler for one byte. `event` is the byte
with what was true when the key sent it. The handler sees nothing but the sequence of
bytes, and each event carries its own history, so `Backlog` = 0 loses no behaviour.

### Descriptors, Disk and Boot

32-bit numbers are pairs of 16-bit halves, and packing and unpacking are done bit by bit by what
the code does on the one side and what the processor does on the other. `Disk` runs the
processor's loop beside a drive that becomes ready on its own time, in bytes with `Byte`
values.

`Boot` goes through `Program`, a function at a time, but for the two that read the disk. `Needed`
is the memory that is needed and between which steps; each step that writes records what
it destroys in `lost`. The 8259As are the two automata their ports are; `idt_init` and
`pic_init` send them what the source sends. An interrupt can come before any step while the
flag is open. `linked` says whether `sema_init` links the list of waiters, as `WaitersLinked` does in `Sync`: if not, as
in the source, the `lock_release` under the first `thread_start` follows a NULL link (`outcome = "fault"`). With no page left
for a PCB `memset` asserts (`"panic"`). `outcome` is `"clock"` or `"keyboard"` while a handler runs, `"reset"`
when an interrupt finds the BIOS's table in protected mode, `"stopped"` in the default handler
or the clock handler's failed assertion, `"garbled"` when sectors were read with gaps.

Taken as given: memory is zero when the machine starts (the loader clears neither
`.bss`, `loader.s:186`, nor its page tables, only the directory).

## Runs

| run | instance | shows |
|---|---|---|
| `sync_safety` | threads m (main), a, b; slices of 2, 1 and 1 ticks; locks k, l; at most 2 nested acquisitions | `IInv`, `MutualExclusion`, `HolderAccurate`, `TagInOneList`, `NoLostWakeup`, `NoPanic`, `IntrDiscipline`; `ImplementsRecursiveLock`: `Sync` implements `RecursiveLock` |
| `sync_liveness` | three threads, slices of one tick, lock k, no nesting | `ReadyRuns`, `WaiterWoken` |
| `boot_zeroed_waiters` | one lock, `WaitersLinked = FALSE` | violation of `Boots` |
| `memory_mixed` | a kernel thread and two processes, any of them idle; 3 and 4 frames, 4 pages in a process, 2 pages to a table, requests of 1 and 2 pages | `UserFrameOnce`, `FrameOnce`, `BooksExact`, `GrantMapped`, `LockReturned`, `FailsOnlyExhausted` |
| `memory_table_race` | a kernel thread and a process | violation of `PallocAtomic` |
| `screen_console` | two threads; 4 by 2 characters; strings and numbers; line feeds and backspaces from the keyboard | `StaysOnScreen`, `IndexHeld`, `ShowsCalls` |
| `keyboard` | ten keys | `FlagsRight`, `TypedAsMeant` |
| `lists` | two callers, two lists, three elements | `ListsSound`, `CallsReturn`; `ImplementsLists`: `KList` implements `Lists` |
| `library` | every content of five bytes of four values | `CopiesExactly`, `AnswersRight`, `ScanRight` |
| `start` | machines of 2 MB to 4 GB, kernels of 1 to 102400 bytes, five places for `tss`; with and without linked waiters | `TablesRight`, `NothingLost`, `InterruptsServed`, `PoolsSound`, `ReadsSectors`, `ClockTicks` |
| `processes` | three processes, two kernel threads, 14 frames, the last two of them `user_pool`, 8 entries to a table | `PagingRight`, `FrameIntact`, `OwnDirectory`, `TrapsAtHome` |
| `entry_frames` | three threads, one of them a process; lines 0 and 1, all exceptions | `RegistersKept`, `FramesRight`, `NothingInService` |

A property whose name ends in `Right`, `Sound`, `Exact` or the like is a conjunction of
named parts, the module's type invariant among them; each part has a comment of its own.

Bounds. Three threads are the least with which a woken waiter can be overtaken while
another one waits, and a thread can be ready, blocked and running at once; `main` starts
two threads as well. Two locks let a thread wait on one while another pair is busy with
the other, and check that `waiters` lists do not share members; two nested acquisitions
reach both branches of `lock_release`. A slice of one tick (`priority` 0) allows a
switch at every action, a slice of two also a tick without a switch. Locks are a
symmetry set; the threads are not, because `main` starts them in order. `elapsed_ticks` and
the global `ticks` are only counted and are left out.

In `memory_mixed` each pool can run out first, with a call of either kind under way; the
two processes need four page tables, one more than there are kernel frames; a process has
three pages beside its stack, so requests of two pages also fail for lack of room. Memory is
never freed, so nothing else needs a bound.

On the screen of 4 by 2 a string is as long as a line and scrolls from anywhere; `Byte` = 6 makes the cursor
use both registers, and `Segment` = 9 is a cell more than the screen, so that a store
behind it shows. Two digits in base 2 are the least with leading zeros. The ten keys are a letter, a symbol, a prefixed key,
both shift keys, a prefixed ctrl and alt, caps lock, Pause and Print Screen; the
handler treats the others alike.

Three elements are the least with a middle one to remove; two lists show a link that leads from
one into the other. Five bytes hold two strings with their ends, or a source and a
destination that overlap; the bitmap has eight bits in four of them and the fifth byte behind its
end. In `start` the sizes of memory lie on both sides of 258 MB (16-bit page count) and of the 4 GB
where `total_mem_bytes` wraps; the sector numbers have every byte of the 28-bit number in
use, scaled; two of the machines have no free page or less than 16, where `main` runs out of PCBs. In `processes` 8 entries leave
two tables of kernel addresses beside the self map. A process needs two
pages of `kernel_pool`, and one more for the table of its stack in a directory of its own; there are eight, which the third process or the
kernel's other uses exhaust at any point, and two stacks in `user_pool` for three processes.
`entry_frames` has both kinds of frame (with and without `esp` and `ss`), and switches between
all ways in.

Deadlock is not checked where the system can stop: `memory_mixed` and `memory_table_race`
(nothing left, `memset` at NULL, or page 0 cleared), `screen_console` (a fault at the origin), `start` and
`boot_zeroed_waiters` (they stop), `processes` (an assertion, a fault, page 0 cleared) and `entry_frames`
(an exception's handler does not return).

Fairness. `Sync`: the 8259A keeps a clock interrupt pending until the flag is set, so a
tick that is possible again and again comes (strong fairness of `Tick`). A function that
`switch_to` returned to runs with the flag clear and nothing can take the processor away
(weak fairness of `Return(t)`). A tick is thousands of instructions, so a thread that gets
the processor again and again gets on with a call it has begun, and it does not keep a
lock for ever: strong fairness of `Continue(t)` and of its outermost release. The last
part is an assumption about clients, true of the console functions. `main` gets through
its start-up. Clients need not ever call anything.

It is *not* true that every thread that wants a lock gets it, even with that fairness: a
running thread can take a semaphore before the woken waiter does, every time.
`WaiterWoken` says what does hold.

`KList`: a call that has begun goes on (weak fairness of each thread's `Step`), since its caller has
interrupts off. `Boot`: something goes on (weak fairness of `Next`): processor, drive and clock
do not stop by themselves, and nothing is claimed of any one of them.

## Findings

* `boot_zeroed_waiters`: the kernel as it stands stops in its first `lock_release`, which is
  under the first `thread_start` of `main`, because `sema_init` (`thread/sync.c:4`) does not
  initialise `waiters`.
* `memory_table_race`: `page_table_add` (`kernel/memory.c:170`) takes a frame from
  `kernel_pool` without its lock, against the comment at `memory.c:118`. Everything else
  `memory_mixed` checks holds with that race; only `FrameOnce` and `PallocAtomic` do
  not, which therefore speak of kernel threads or processes alone (`Separate`).

Where the passing properties stop short of what one would want, that is where the code does. Each
exception is written into a property, next to the line it comes from:

| where | what the code does | where it shows |
|---|---|---|
| `lib/kernel/bitmap.c:45` | `bitmap_scan` looks at one bit too many | `NeverTaken` |
| `kernel/memory.c:14` | free pages in 16 bits: a machine of 258 MB or more uses a part of its memory | `PoolsSound` |
| `kernel/memory.c:278` | `get_a_page` keeps the pool's lock when the pool is empty | `LockReturned` |
| `lib/kernel/print.S:82` | a backspace at the origin leaves the segment | `FaultsAtOrigin` |
| `kernel/main.c` | main's threads print without the console lock | mutant `CallUnlocked` |
| `device/keyboard.c:119` | both keys of a pair share a flag | `FlagsFollowKeys` |
| `device/keyboard.c:170` | a held caps lock toggles with every repeat | `CapsFollowsPresses`, which lets it not repeat |
| `device/keyboard.c:149` | letters without shift and caps lock print as capitals | `TypedAsMeant` |
| `lib/string.c:82` | characters from 128 on are never found | `FindsAscii` |
| `kernel/kernel.S:63` | vector 12 pushes a zero beside its error code | `FramesReturnable` |
| `kernel/interrupt.c:62` | the high half of a handler's address is lost; harmless, as low addresses map the kernel too | `GatesReachEntries` |
| `kernel/interrupt.c:71` | 80 of the 129 gates stay made of what lies behind the table of 48 entries | `GatesReachEntries` |
| `device/timer.c:29` | the counter's high byte is 0: the clock is 77 times too fast | `ClockTicks` only needs it to tick |
| `boot/mbr.s`, `boot/loader.s` | no `cli` before the IDT is loaded | `InterruptsServed` |
| `boot/loader.s:325`, `:338` | the drive's error bit is not tested, and it is not waited for between sectors | `ReadsSectors`, `ClockTicks` |
| `thread/sync.c:6` | `main` stops in its first `lock_release` (the finding above) | `ClockTicks`, which needs the waiters linked |
| `kernel/memory.c:171`, `:238` | a page table at physical address 0; `memset` at NULL with `user_pool.lock` held | `FailsOnlyExhausted` and `TrapsAtHome`: only without memory |
| `kernel/memory.c:262` | the bitmap of a process is NULL: low memory is marked, or a page fault | `TrapsAtHome` |
| `thread/thread.c:75`, `userprog/process.c:100` | the NULL of `get_kernel_pages` for the PCB is not tested | `ClockTicks`, `TrapsAtHome`: only without memory |
| `userprog/process.c:104` | the NULL of `create_page_dir` is not tested, and `get_a_page` panics later | `OwnDirectory`, `TrapsAtHome` |
| `thread/thread.c:144` | `schedule` does not call `process_activate` | `OwnDirectory`, `TrapsAtHome` |

Seen and outside every property: `schedule` refills a slice only when it has run out
(`thread.c:122`), so a thread that yields or blocks goes on with a short one; `io_base`
(`tss.c:45`) lies at offset 104 of the structure, as `trace` before it has 32 bits, and the
processor looks for it at 102, where it finds 0; `hlt` at `loader.s:112` is not a loop; `kernel_thread` has no return address
(`thread.c:41`), so a thread function must not return. The sources do not compile as they stand
(`idet` in `interrupt.c:73`, `default_prio`, the parameter of `addr_v2p`,
`syscall_table`, a comma in `_syscall3`); the model reads the evident meaning.

## Proofs

Everything below holds for every value of the constants that satisfies the assumptions named
in the modules (`ThreadAssumption`, `SyncAssumption`, `MemoryAssumption` and so on), of
which TLC checks an instance with each run.

| theorem | states | the invariant behind it |
|---|---|---|
| `SyncProofs`: `Exclusion`, `HolderCorrect` | `[]MutualExclusion`, `[]HolderAccurate` | `LockIInv` |
| `LocksImplement` | `ImplementsRecursiveLock` | `LockIInv` |
| `Inductive`, `TagsLinkedOnce`, `WakeupsKept`, `FlagRestored` | `[]IInv`, `[]TagInOneList`, `[]NoLostWakeup`, `[]IntrDiscipline` | `IInv` |
| `NeverPanics` | `WaitersLinked => (Spec => []NoPanic)` | `IInv` |
| `MemoryProofs`: `UserFramesOnce`, `FramesOnce`, `PallocIsAtomic` | `[]UserFrameOnce`, `[]FrameOnce`, `[]PallocAtomicApart` | `FrameInv` |
| `BooksStayExact`, `GrantsMapped`, `LocksReturned`, `FailsOnlyWhenExhausted` | `[]BooksExact`, `[]GrantMapped`, `[]LockReturned`, `[]FailsOnlyExhausted` | `Books` |
| `ScanFinds`, `ScansRight` | what `bitmap_scan` answers; `[]ScanRight` | |
| `CopiesAreExact`, `AnswersAreRight` | `[]CopiesExactly`, `[]AnswersRight` | memory holds bytes |
| `ScreenProofs`: `IndexIsHeld`, `CursorStays`, `ScreenShowsCalls` | `[]IndexHeld`, `[]StaysOnScreen`, `[]ShowsCalls` | `IndexInv`, `ScreenInv`, `ShownInv` |
| `ProcessProofs`: `FramesIntact`, `StacksInPage` | `[]FrameIntact`, the range of the stack pointers | `StackInv` |
| `PagesRight`, `OwnDirectories`, `TrappedAtHome` | `[]PagingRight`, `[]OwnDirectory`, `[]TrapsAtHome` | `PageInv` |
| `EntryProofs`: `GoesOnAsItWas`, `FramesAsDeclared`, `NoLineHeldBack` | `[]RegistersKept`, `[]FramesRight`, `[]NothingInService` | `EntryInv` |
| `KeyboardProofs`: `FlagsTrue`, `FlagsAlwaysRight`, `TypesAsMeant` | `[](TypeOK /\ FlagsFollowKeys)`, `[]FlagsRight`, `[]TypedAsMeant` | `KeyboardInv` |
| `KListProofs`: `ListLinksSound`, `NoNullLink`, `ListsStaySound` | `[]LinksSound`, `[]NoFault`, `[]ListsSound` | `KListInv` |
| `ListsAreSequences` | `ImplementsLists` | `OrderInv`, with `KListInv` |
| `BootProofs`: `TablesLead`, `NothingIsLost`, `AllServed`, `PoolsAreSound` | `[]TablesRight`, `[]NothingLost`, `[]InterruptsServed`, `[]PoolsSound` | `BootInv` |
| `SectorsRead` | `[]ReadsSectors` | `DiskInv`, a part of `BootInv` |

### Locks and the scheduler

Neither `MutualExclusion` nor `HolderAccurate` is inductive. A thread with
`holder = t` skips the semaphore, so exclusion needs `holder` to be accurate; the
early return of a nested release needs the count to be accurate; and both need
to know where in its calls a thread can be: a thread in a call holds nothing
nested (`NestOK`), it has a lock in `want` exactly while it holds or is getting
one (`WantOK`), and only a waiter is resumed from `thread_block` (`FrameOK`).
With the values of `holder` and `holder_repeat_nr` at each `pc` (`HolderOK`,
`RepeatOK`) that is `LockInv`; `LockIInv` adds `TypeOK`. There is one lemma per
action; steps of the scheduler all go through `ThreadStep`, which says that they
do not matter to `LockInv` as long as they leave nobody newly blocked. The lists of
threads play no part in it, so it holds for both values of `WaitersLinked`.

`LocksImplement` is the refinement. `LockIInv` is what makes the tests of `holder` in
`lock_acquire` and `lock_release` agree with `owner` of `RecursiveLock`: the step that
enters the lock (`SemaDown`, or `RetryDown` of a woken waiter) is its `Acquire`,
the write that lets it go is its `Release`, and all others are stutters.

`ThreadInv` is about the lists. `ListsOK` says for each status in which list a thread
is, once, and that the lists have no other members. `schedule` asserts that the ready list is
not empty, and there is no idle thread; it holds because a thread only blocks on a semaphore that
has been taken (`TakenOK`), whoever took it is not blocked itself, as it would have to wait for
another lock while it has one (`nest` and `want` say it does not), and a thread that is
neither blocked nor running is in the ready list. `FlagOK` is the flag of each frame: a thread off the
processor is inside a switch and, if it restores the flag itself, remembers that it was set;
`BootOK` covers the time before `intr_enable`. `NeverPanics` has `WaitersLinked` as
its hypothesis, which is what `sema_init` fails to establish (see Findings): without it the conclusion
is false, and `boot_zeroed_waiters` shows it.

### Memory

The argument for the first three is one. A frame is guarded if its pool's bitmap is only
used under one lock (`GuardedFrame`). Two calls that have found the same
guarded frame hold the same lock and are one call (`OneFinder`), so what was found
clear is still clear when it is marked (`FoundClear`); everything in use is marked
(`UsedMarked`), so what is clear has no use, and marking it gives it its first
(`Once`). `FrameInv` adds the types and which lock a call holds. `FramesOnce` and
`PallocIsAtomic` speak of the states in which only kernel threads or only processes allocate
(`Separate`); `memory_table_race` shows that the condition is needed.

`FailsOnlyWhenExhausted` says how the allocator can stop the machine: a NULL for `memset` or a page table at NULL, each only for a process and
with its pool, its address space or `kernel_pool` used up. That of `memory.c` itself no assertion fails.

`Books` goes on from there, and needs no `Separate`: `MarkedUsed` (no marked frame without an owner: a
page, a page table, or a call that has yet to install it), `CallsExact` (which of its pages a
call has mapped, at each turn of the loop in `malloc_page`, and that nobody else maps in its space),
`DepthsExact` (how often each pool's lock is held and by whom; `KeptLock` is the one
that `get_a_page` keeps) and `PagesAccounted` (a page without a frame is that of
a call under way, or its pool is full). `CallsExact` and `DepthsExact` are parts of
`BooksExact`, so TLC checks them too.

All of it needs of `bitmap_scan` only that for one bit it answers with a clear bit (`ScanOne`), and, for
what a failed call means, what `ScanFinds` says. That theorem is about the two loops of `bitmap_scan` for any bitmap:
`count` after each bit is an explicit function of the bitmap (`RunTo`: how far back the last
set bit is), shown by looking at the least bit where it would not be (`LeastElement`).

### Strings

Induction over data cannot be cited, but each loop is a recursive function on an interval, so it has what a least element
gives (`UpTo`, `DownFrom`): a function given outright that satisfies the loop's equation is the loop's. The loops that look for
something (`strlen`, `strcmp`, `memcmp`, `strchr`) are all `Search`: the answer belongs to the first pass at which they stop. The
loops that store are `Filled` and `Moved`. `Moved` holds also when the destination begins inside the source: what pass `j` reads
is then a byte that an earlier pass stored, and comes from `j % (dst - src)` (`Source`, `MovedByte`). `CopiesExactly`
is the other case, where it comes from `src + j`. With overlap a copy of a string may run off the memory, since it may overwrite the
end it has yet to read; `CopyType` says that when it ends, memory still holds bytes, which is all that `CopiesAreExact` and
`AnswersAreRight` need of the steps before.

### Screen

`IndexHeld` needs the console lock only (`IndexInv`): whoever has written to the index port has the lock, or is the
keyboard handler with interrupts off. `ScreenInv` says for each instruction of `put_char` where the cursor is
(`Places`): below the screen before the comparison, on it after, a line before its end while it scrolls.
The assumption that a segment is less than half of what the 16-bit register counts is that of the
source (16384 cells of the mapped memory against 32768) and excludes that the
position wraps around to the screen when a backspace leaves it. `NumeralText` shows that `put_int` stays in its buffer: the digits of a number
below `Power[Digits]`, that is `Base ^ Digits`, are at most `Digits` many.

`ShowsCalls` compares the screen with `term`, the terminal that was given the whole text of a call at once, when
the call began. `ShownInv` follows the call in between (`Prints`): there is a terminal `s` that has been given what the call has
printed so far, what is left of the text leads from `s` to `term` (`TypesTo`, which stands for the recursive `TypeAll`), and
`s` is what is on the screen with the cursor behind it, but for the stretch of `put_char` from the store
to the cursor registers, in which first the screen and then the cursor becomes that of the next `s`. While it scrolls the first
part of the screen has been moved (`Rolling`) and then a part of the last line cleared (`Clearing`).
In `put_int` the digits are in the buffer from the back: what is left of the number and then the buffer from
there on (`Filling`) give the numeral; the zeros before it are skipped (`Significant`). `ShownInv` needs of the other threads only that the
console lock keeps them out, and of the keyboard handler that it comes between two calls, as the properties of
`Screen` say.

### Processes

`StackInv` says where the stack pointer of every thread is in each phase of `start_process`, running
or switched out, as a distance from the end of its page. `proc_stack` is computed 304 bytes
below where 76 were meant; `FramesIntact` says that nothing that runs until the `iretd` is pushed on the
frame, for any number of words (`Pushes`) that a switch leaves there and that fit on the page.

`PageInv` is about page tables. Its lemmas take an address apart into two indices and an offset (`At`, `Parts`) and
show what the arithmetic of `pte_ptr` and `pde_ptr` reaches through a directory that maps itself, whatever the
sizes (`Reaches`). `PagesOK` relates memory to the history of what was given away: every directory in
use maps itself, the kernel's tables and at most one table below them, that of a stack (`DirOK`); a directory
is of one process and a table in one directory (`OwnDirs`, `OwnTables`); the entries of the kernel's
tables and of a stack's table are what was given away there (`KernelMaps`, `UserMaps`); and the kernel's
heap is full from its start up to some page (`HeapTo`), so that `vaddr_get` finds the next (`HeapNext`). Frames are
taken in order, so that a new one is none of those. `PageGained`, `DirGained` and `StackGained` say that
the three ways to take one keep `PagesOK`, and show why the order of the writes in `create_page_dir` does not matter to
directories already in use. `UsesOK` has what `process_activate` is for. A failed assertion of `page_table_add`
(`halted`) only follows when it is not called and two stacks meet in the kernel's directory; then, and when a page table is at
frame 0, `PagesOK` is given up. `HaltOK` says for each of the other ways to stop which pool is used up, or that a process in its own
directory has no bitmap, and that the lock of `get_a_page` is kept only when `user_pool` is used up; `TakenOK` that both counters are
in their pool's range; `MarkMapped` is that the byte `0x17fff` is mapped in the kernel's directory.
`PagingAssumption` says that the heap has addresses for all free frames: their number has 16 bits
in `mem_pool_init`, and 1 GB has four times as many pages. That the kernel's half does not start at the first two
directory entries keeps the kernel's table at address 0 apart from a stack's.

### Interrupt entry

`EntryInv` says of every thread what its stack holds, word by word, for each place it can be (`At`): a
frame of `kernel.S` (`FrameOn`), the arguments of a system call over it (`Called`), what the
handler has pushed (`InHandler`), what `switch_to` has (`SwitchedOut`). The lemmas about
`push` and `pop` (`PushedOn`, `PoppedFrom`) take any stack below, so a kernel thread
can be interrupted at any height. That the registers come back is then that what is popped is what was
pushed, in the order of `struct intr_stack`. The exceptions are those of the
processor, 0 to 19; vectors beside them are only entered by lines and by `int 0x80`.

### Keyboard

The handler sees one byte at a time, so `KeyboardInv` is about pairs of bytes: `ByteFollows` says
what can come after a byte, within the code of a key and from one code to the next, and
`WireOK` that every byte that waits follows the one before it, the first of them the one
the handler has read last, and that the last byte carries the keys as they are now.
`Settled` is why the property is only about complete codes: the code of Pause is that of ctrl with
another prefix, and sets and clears the flag of ctrl on the way. Each byte then
is one of three kinds (`Heard`): it sets or clears the flag of its key, it is one of
Pause's, or it is ignored. `FlagsTrue` has no hypothesis. The other two theorems assume that caps
lock is not held long enough to repeat: the handler toggles with every repeat (see
Findings). `KeyboardAssumption` leaves out the key `E0 60`, whose break code would be
`E0 E0`, the prefix twice; keyboards have none.

### Lists

`LinksSound` says that `next` and `prev` are inverse to each other on the members of each list and its
ends. It is not inductive alone: the node a call stands on was read one or more steps ago.
`KListInv` adds, for each thread, that it is still what the call takes it for
(`CallOK`: a member of the list or its end), which holds because no other call has
moved since (`MayRun`). `InsertSound` and `RemoveSound` are about the links only: what inserting before a
node and removing one do to sound links. `LinksSound` does not exclude a cycle beside
the list, which is why it is not enough for the refinement.

`ListsAreSequences` is the refinement of `Lists`. `OrderInv` adds `Ordered`: for each list the sequence `Elements` that a
reader of `next` collects has each member of the list once, and `next` leads from each of its nodes
(`NodeAt`, the two ends included) to the following one; a cycle beside the list is excluded, as every member is in the sequence.
`InsertOrder` and `RemoveOrder` show what a change of links does to such an order (`With`, `Without`), `OtherOrder` that the
orders of all other lists stay, and `Reads` that `Elements` is the sequence any order is about; it is the one place that
reasons about the recursion along the links, by a least counterexample (`UpTo`). For each thread `CallFor` says
what its call is about to do (`CallForm`) and, in a loop, that it stands at the node its count says
and has passed nothing it looks for (`LoopAt`). Entering a call is a `Call` of `Lists` (`EnterMaps`), the change of links and the end of a
loop are its `Return` (`ReturnMaps`, `AnswerMaps`), and a round of a loop is a stutter (`LoopMaps`). `KListAssumption` says that
`NULL`, nodes, lists and requests are different values, and that the elements are finitely many, as tags in a memory are.

### Boot and disk

`BootInv` says by how many steps are done (`pc`, 1 to 19) what is where. The GDT is the loader's three descriptors,
and three more after `tss_init` (`GdtInv`); the IDT is what `idt_desc_init` makes of the entries, for
any place of `kernel.S` in the image, and the first 8259A has its vectors and its mask (`IdtInv`); the sizes and the pools are what
the BIOS and `mem_pool_init` said (`PoolsInv`); the functions of `init_all` that the clock handler needs have run
(`ReadyInv`). `StepKeeps`, `StayKeeps` and `InitsKeep` say what a step leaves of it that touches none of this, and the
lemma of each action shows the part it makes.

`NothingLost` compares what a step writes with the regions that are in use then. All addresses but the
size of the kernel and the bytes of the bitmaps are numbers of the source, so that what there is to show is that these two are
small enough: at most 200 sectors, which is all that `rd_disk_m_32` reads, and at most 12288 bytes, which is what 16 bits of free pages come
to (`BitmapBytes`). For `PoolsSound` a quotient and a remainder are split off at each shift and division (`PoolsAre`). The
4 GB at which 32 bits wrap to 0 are a case of their own.

That interrupts are served after `intr_enable` follows at one place, `pc = 19`: the mask of the first chip lets the clock's line through and no
other (`IdtInv`), its vector is 32, the gate there leads to the entry, the handler is set and the threads are there.
`SelectorsRight` and `GatesRight` take descriptors apart into the bits the processor reads; the powers of two they need are in `Powers`.

`DiskInv` is about the words the program sends and gets. `Sent` splits the number of the sector between the ports that have
their byte and what is still in `eax`; `ReadInv` says that the words the drive has given so far are in memory in their
order, those it did not give in time are gaps, and the drive is at the next word. `WordsNext` and
`OneMoreWord` count the words in a prefix of memory without recursion. `SizeAssumption` bounds what the BIOS can answer (15 MB below
and 4080 MB above 16 MB for `e801`, 64 MB for `0x88`) and the kernel (200 sectors).

### Only model-checked

Liveness: `ReadyRuns`, `WaiterWoken`, `CallsReturn`, `ClockTicks`. The prover has no rules for fairness
and `ENABLED`.

## Not modelled

* `device/ide.c`: only `ide_init`, full of todos and not built; nothing calls it.
* Build files, and the port primitives of `io.h`, which are the port accesses of the modules
  that make them.
* `get_a_page` with `PF_KERNEL`, which nothing calls; its `ASSERT(bit_idx > 0)`, since the only address it is called with is the
  stack's.
* What byte `0x17fff` holds after a bit of it was set for a process without a bitmap: nothing else that is modelled is there.
* The NULL arguments that the functions of `string.c` assert not to get: `Strings` takes addresses of its memory. `memset` is given NULL
  in `memory.c` and `thread.c`, and that is in `Memory`, `Process` and `Boot`.
* The assertion on `stack_magic` in `intr_timer_handler` (`timer.c:40`): nothing in the models writes to a PCB but the
  functions that own its fields, and `Entry` and `Process` bound the stacks that grow towards it.
* The ELF headers `kernel_init` walks, of which `Boot` keeps where the segments go and how
  long they are; the text that is printed at boot and by the default handler and `panic_spin`.
* What runs after `hlt` at `loader.s:112` should an interrupt end it.
