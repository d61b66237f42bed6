---------------------------- MODULE Descriptors ----------------------------
(***************************************************************************)
(* What the kernel writes bit by bit for the hardware to read: the global  *)
(* descriptor table (boot/loader.s, userprog/tss.c, kernel/global.h), the  *)
(* interrupt gates (kernel/interrupt.c) and the counter of the 8253        *)
(* (device/timer.c).  A 32-bit number is a pair of 16-bit halves, the high *)
(* one first.  When each is written is in Boot.                            *)
(***************************************************************************)
EXTENDS Naturals, Sequences

CONSTANTS
  Address,    \* where tss may be
  EntryLow,   \* low halves of the first entry in kernel.S
  Beyond      \* words that may be in memory behind intr_entry_table

Half == 0 .. 65535
Kernel == 49152       \* 0xC000, the high half of the kernel's addresses

ASSUME DescriptorsAssumption ==
  /\ Address \subseteq Half \X Half /\ Beyond \subseteq Half \X Half
  /\ EntryLow \subseteq Half

VARIABLES
  gdt,    \* the descriptors, from index 1, once the loader is in memory
  tss,    \* the address of tss, once its descriptor is made
  idt,    \* the gates, once they are made
  entry,  \* the addresses of the entries in kernel.S
  pit     \* the bytes written to the 8253's ports

descriptors == <<gdt, tss, idt, entry, pit>>

-----------------------------------------------------------------------------
(* A descriptor.  Its attributes are those of global.h and boot.inc.       *)
DESC_DPL_0 == 0
DESC_DPL_3 == 3
DESC_S_CODE == 1
DESC_S_SYS == 0
DESC_TYPE_CODE == 8
DESC_TYPE_DATA == 2
DESC_TYPE_TSS == 9

AttrLow(dpl, s, type) == 2 ^ 7 + dpl * 2 ^ 5 + s * 2 ^ 4 + type
AttrHigh(d) == 2 ^ 7 + d * 2 ^ 6

(* (Mutated: the low byte of the middle of the address.)                   *)
make_gdt_desc_mid(base, limit, attr_low, attr_high) ==
  [limit_low_word |-> limit[2], base_low_word |-> base[2],
   base_mid_byte |-> base[2] \div 256, attr_low_byte |-> attr_low,
   limit_high_attr_high |-> ((limit[1] % 16) + attr_high) % 256,
   base_high_byte |-> base[1] \div 256]

make_gdt_desc(base, limit, attr_low, attr_high) ==
  [limit_low_word |-> limit[2], base_low_word |-> base[2],
   base_mid_byte |-> base[1] % 256, attr_low_byte |-> attr_low,
   limit_high_attr_high |-> ((limit[1] % 16) + attr_high) % 256,
   base_high_byte |-> base[1] \div 256]

\* The two words the loader writes, and what it adds to VIDEO_DESC.
Dwords(low, high) ==
  [limit_low_word |-> low[2], base_low_word |-> low[1],
   base_mid_byte |-> high[2] % 256, attr_low_byte |-> high[2] \div 256,
   limit_high_attr_high |-> high[1] % 256, base_high_byte |-> high[1] \div 256]

DescHigh4(limit2, type, mid) ==
  <<2 ^ 7 + 2 ^ 6 + limit2, 2 ^ 15 + 2 ^ 12 + type * 2 ^ 8 + mid>>

LoaderGdt ==
  <<Dwords(<<0, 65535>>, DescHigh4(15, DESC_TYPE_CODE, 0)),
    Dwords(<<0, 65535>>, DescHigh4(15, DESC_TYPE_DATA, 0)),
    [Dwords(<<32768, 7>>, DescHigh4(0, DESC_TYPE_DATA, 11)) EXCEPT
       !.base_high_byte = @ + 192]>>

DescriptorsInit ==
  /\ gdt = <<>> /\ tss = <<>> /\ idt = <<>> /\ pit = <<>>
  /\ entry \in {[v \in 0 .. 47 |-> <<Kernel, low + 25 * v>>] : low \in EntryLow}

\* The table is part of what the boot sector reads.
load_gdt == gdt' = LoaderGdt /\ UNCHANGED <<tss, idt, entry, pit>>

\* sizeof(struct t_tss)
tss_size == 27 * 4

\* tss_init's descriptors, at 0xc0000920, 928 and 930: 4 to 6.
Segment3(type) == make_gdt_desc(<<0, 0>>, <<15, 65535>>, AttrLow(DESC_DPL_3, DESC_S_CODE, type), AttrHigh(1))

tss_descriptors(base) ==
  /\ tss' = base
  /\ gdt' = gdt \o <<make_gdt_desc(base, <<0, tss_size - 1>>,
                                   AttrLow(DESC_DPL_0, DESC_S_SYS, DESC_TYPE_TSS), AttrHigh(0)),
                     Segment3(DESC_TYPE_CODE), Segment3(DESC_TYPE_DATA)>>
  /\ UNCHANGED <<idt, entry, pit>>

\* global.h: index, table and requested privilege.
Selector(index, rpl) == index * 8 + rpl
SELECTOR_K_CODE == Selector(1, 0)
SELECTOR_K_DATA == Selector(2, 0)
SELECTOR_K_STACK == SELECTOR_K_DATA
SELECTOR_K_GS == Selector(3, 0)
SELECTOR_TSS == Selector(4, 0)
SELECTOR_U_CODE == Selector(5, 3)
SELECTOR_U_DATA == Selector(6, 3)
SELECTOR_U_STACK == SELECTOR_U_DATA

-----------------------------------------------------------------------------
(* make_idt_desc: func_offset_high_word has 16 bits, and what is masked    *)
(* has its low 16 bits clear.  (Mutated: only eight bits of the low word.) *)
IDT_DESC_ATTR(dpl) == 2 ^ 7 + dpl * 2 ^ 5 + 14

uint16(word) == word[2]

GateFrom(low, high, attr) ==
  [func_offset_low_word |-> uint16(low), selector |-> SELECTOR_K_CODE, dcount |-> 0,
   attribute |-> attr, func_offset_high_word |-> uint16(high)]

make_idt_desc_byte(attr, function) ==
  GateFrom(<<0, function[2] % 256>>, <<function[1], 0>>, attr)

make_idt_desc(attr, function) == GateFrom(<<0, function[2]>>, <<function[1], 0>>, attr)

IDT_DESC_CNT == 129

(* idt_desc_init: intr_entry_table has 48 words, then comes whatever does; *)
(* syscall_handler is behind the last entry.                               *)
syscall_handler == <<Kernel, entry[47][2] + 60>>

idt_desc_init(word) ==
  /\ idt' = [i \in 0 .. IDT_DESC_CNT - 1 |->
               IF i = IDT_DESC_CNT - 1 THEN make_idt_desc(IDT_DESC_ATTR(3), syscall_handler)
               ELSE make_idt_desc(IDT_DESC_ATTR(0), IF i \in DOMAIN entry THEN entry[i] ELSE word)]
  /\ UNCHANGED <<gdt, tss, entry, pit>>

(* frequency_set: the bytes that go to PIT_CONTROL_PORT and to the         *)
(* counter's.  The cast binds before the shift.  (Mutated: the second byte *)
(* is not written.)                                                        *)
CONTRER0_PORT == 64
PIT_CONTROL_PORT == 67
COUNTER0_NO == 0
READ_WRITE_LATCH == 3
COUNTER_MODE == 2
COUNTER0_VALUE == 1193180 \div 100

ControlWord == <<PIT_CONTROL_PORT, COUNTER0_NO * 64 + READ_WRITE_LATCH * 16 + COUNTER_MODE * 2>>

Outb(bytes) ==
  /\ pit' = bytes
  /\ UNCHANGED <<gdt, tss, idt, entry>>

frequency_set_low(value) == Outb(<<ControlWord, <<CONTRER0_PORT, value % 256>>>>)

frequency_set(value) ==
  Outb(<<ControlWord, <<CONTRER0_PORT, value % 256>>, <<CONTRER0_PORT, (value % 256) \div 256>>>>)

-----------------------------------------------------------------------------
(* The processor reads a descriptor.                                       *)
Base(d) == <<d.base_high_byte * 256 + d.base_mid_byte, d.base_low_word>>
Limit(d) == (d.limit_high_attr_high % 16) * 65536 + d.limit_low_word
Pages(d) == d.limit_high_attr_high \div 128 = 1
Present(d) == d.attr_low_byte \div 128 = 1
DPL(d) == (d.attr_low_byte \div 32) % 4
IsSegment(d) == (d.attr_low_byte \div 16) % 2 = 1
Type(d) == d.attr_low_byte % 16

Flat(d) == Base(d) = <<0, 0>> /\ Limit(d) = 1048575 /\ Pages(d)

Index(sel) == sel \div 8
Rpl(sel) == sel % 4

(* A selector can be loaded as code and as stack in its own ring, and as   *)
(* data in any ring up to that of the descriptor.                          *)
Loads(sel, wanted(_, _)) ==
  /\ Index(sel) \in DOMAIN gdt
  /\ LET d == gdt[Index(sel)] IN Present(d) /\ wanted(d, Rpl(sel))

Code(d, ring) == IsSegment(d) /\ Type(d) = 8 /\ DPL(d) = ring /\ Flat(d)
Stack(d, ring) == IsSegment(d) /\ Type(d) = 2 /\ DPL(d) = ring /\ Flat(d)
Video(d, ring) ==
  /\ IsSegment(d) /\ Type(d) = 2
  /\ Base(d) = <<Kernel + 11, 32768>> /\ Pages(d) /\ (Limit(d) + 1) * 4096 >= 80 * 25 * 2
Task(d, ring) ==
  ~IsSegment(d) /\ Type(d) = 9 /\ Base(d) = tss /\ (Pages(d) \/ Limit(d) + 1 >= 104)

\* The kernel's directory maps the first megabyte of memory at 0 and at 0xc0000000.
Physical(a) == IF a[1] >= Kernel THEN <<a[1] - Kernel, a[2]>> ELSE a
Offset(gate) == <<gate.func_offset_high_word, gate.func_offset_low_word>>

LeadsTo(gate, function) ==
  /\ gate.attribute >= 128 /\ Physical(Offset(gate)) = Physical(function)
  /\ Loads(gate.selector, Code) /\ Rpl(gate.selector) = 0

(* The 8253 counts again and again in mode 2, which it was left in by the  *)
(* BIOS, but not while it waits for one of the two bytes of a new value.   *)
Counting ==
  pit # <<>> => /\ pit[1][1] = PIT_CONTROL_PORT /\ (pit[1][2] \div 2) % 8 = 2
                /\ pit[1][2] \div 16 = READ_WRITE_LATCH /\ Len(pit) = 3

(* From the time the loader is in memory every selector of global.h that   *)
(* is in use finds the descriptor it is meant for where the loader or      *)
(* tss_init has put it, and the processor reads there what they meant:     *)
(* flat segments of its own ring, the screen, the address of tss, wherever *)
(* that is.                                                                *)
SelectorsLoad ==
  gdt # <<>> =>
    /\ Loads(SELECTOR_K_CODE, Code) /\ Loads(SELECTOR_K_STACK, Stack)
    /\ Loads(SELECTOR_K_GS, Video)
    /\ tss # <<>> => /\ Loads(SELECTOR_U_CODE, Code) /\ Loads(SELECTOR_U_STACK, Stack)
                     /\ Loads(SELECTOR_TSS, Task)

(* On the kernel's directory an exception, an interrupt and int 0x80 each  *)
(* run their own entry, although the gate has lost half of its address     *)
(* (interrupt.c:62): only int 0x80 may be used in user mode.               *)
GatesReachEntries ==
  idt # <<>> =>
    /\ \A v \in DOMAIN entry : LeadsTo(idt[v], entry[v]) /\ idt[v].attribute = IDT_DESC_ATTR(0)
    /\ LeadsTo(idt[128], syscall_handler) /\ idt[128].attribute = IDT_DESC_ATTR(3)

=============================================================================
