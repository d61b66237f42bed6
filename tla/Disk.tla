-------------------------------- MODULE Disk --------------------------------
(***************************************************************************)
(* How the boot sector and the loader read sectors: rd_disk_m_16           *)
(* (boot/mbr.s) and rd_disk_m_32 (boot/loader.s), which send the same      *)
(* bytes to the same ports, and the drive that answers them.               *)
(*                                                                         *)
(* The processor and the drive run side by side.  A word on the disk is    *)
(* the pair of its sector and its place in it; what the data port gives    *)
(* when the drive offers nothing is NULL.  What is read when is in Boot.   *)
(***************************************************************************)
EXTENDS Integers, FiniteSets, SequencesExt

CONSTANTS
  Byte, Nibble, \* how many values a byte has, and four bits of it
  SectorWords,  \* words in a sector, 256
  Found,        \* what the drive can answer to a command ...
  Between,      \* ... and after each sector but the last
  NULL

ASSUME DiskAssumption ==
  /\ Byte \in Nat \ {0, 1} /\ SectorWords \in Nat \ {0}
  /\ Nibble \in 2 .. Byte /\ NULL \notin Nat \X Nat
  /\ Found \subseteq {"DRQ", "ERR"} /\ Between \subseteq {"DRQ", "BSY"}

VARIABLES
  at,      \* "out", "not_ready", "go_on_read", "ret"; "none" outside the call
  port,    \* 0x1f0 + port is written next
  eax,     \* the number of the sector, shifted
  cx,      \* words still to be read
  reg,     \* the ports 0x1f2 to 0x1f6
  status,  \* of the drive: "BSY", "DRQ", "ERR" or "idle"
  next,    \* <<sector, word>> it gives next
  left,    \* sectors of the command not yet given
  mem,     \* the words stored, from the given address on
  call     \* what was asked for

cpu   == <<at, port, eax, cx, mem, call>>
drive == <<reg, status, next, left>>
disk  == <<cpu, drive>>

\* What can be asked for.
Call == [lba : 0 .. Byte * Byte * Byte * Nibble - 1, n : 1 .. Byte - 1]

DiskInit ==
  /\ at = "none" /\ port = 2 /\ eax = 0 /\ cx = 0 /\ mem = <<>> /\ call = [lba |-> 0, n |-> 1]
  /\ reg = [p \in 2 .. 6 |-> 0] /\ status = "idle" /\ next = <<0, 0>> /\ left = 0

\* eax and ecx, ebx being where mem is.
rd_disk(lba, n) ==
  /\ at = "none"
  /\ at' = "out" /\ port' = 2 /\ eax' = lba /\ call' = [lba |-> lba, n |-> n]
  /\ UNCHANGED <<cx, mem, drive>>

\* The caller goes on.  Nothing of what is left in the ports is used again.
Return ==
  /\ at = "ret"
  /\ at' = "none" /\ port' = 2 /\ eax' = 0 /\ mem' = <<>> /\ call' = [lba |-> 0, n |-> 1]
  /\ reg' = [p \in 2 .. 6 |-> 0] /\ status' = "idle" /\ next' = <<0, 0>> /\ left' = 0
  /\ UNCHANGED cx

-----------------------------------------------------------------------------
(* The number of sectors, then the bytes of the first one's, lowest first; *)
(* the last has four bits, beside them those that select the drive and its *)
(* mode, which are left out.  (Mutated: eax is not shifted.)               *)
ShiftBy(b) == eax' = IF port = 2 THEN eax ELSE eax \div b

ShiftNone == ShiftBy(1)

Shift == ShiftBy(Byte)

al == CASE port = 2 -> call.n [] port \in 3 .. 5 -> eax % Byte [] port = 6 -> eax % Nibble

Out ==
  /\ at = "out" /\ port < 7
  /\ reg' = [reg EXCEPT ![port] = al]
  /\ Shift
  /\ port' = port + 1
  /\ UNCHANGED <<at, cx, mem, call, status, next, left>>

\* The command 0x20, at which the drive becomes busy.
Command ==
  /\ at = "out" /\ port = 7
  /\ at' = "not_ready"
  /\ status' = "BSY" /\ left' = reg[2]
  /\ next' = <<reg[3] + Byte * (reg[4] + Byte * (reg[5] + Byte * reg[6])), 1>>
  /\ UNCHANGED <<port, eax, cx, mem, call, reg>>

(* The loop is left when the drive is not busy and has data.  (Mutated:    *)
(* when it is busy.)                                                       *)
PollFor(ends) ==
  /\ at = "not_ready" /\ status \in ends
  /\ at' = "go_on_read"
  /\ cx' = call.n * SectorWords
  /\ UNCHANGED <<port, eax, mem, call, drive>>

PollBusy == PollFor({"BSY"})

Poll == PollFor({"DRQ"})

\* One word after the other, for all the sectors.
Store(word) == Append(mem, word)

Given ==
  IF next[2] < SectorWords THEN
    next' = <<next[1], next[2] + 1>> /\ UNCHANGED <<status, left>>
  ELSE
    /\ next' = <<next[1] + 1, 1>>
    /\ left' = left - 1
    /\ IF left = 1 THEN status' = "idle" ELSE status' \in Between

GoOnRead ==
  /\ at = "go_on_read"
  /\ IF status = "DRQ" THEN mem' = Store(next) /\ Given
     ELSE mem' = Store(NULL) /\ UNCHANGED <<next, status, left>>
  /\ cx' = cx - 1
  /\ at' = IF cx = 1 THEN "ret" ELSE at
  /\ UNCHANGED <<port, eax, call, reg>>

\* The drive has found the sector, or cannot.
Ready ==
  /\ status = "BSY"
  /\ status' \in IF next = <<call.lba, 1>> THEN Found ELSE {"DRQ"}
  /\ UNCHANGED <<cpu, reg, next, left>>

Reading == Out \/ Command \/ Poll \/ GoOnRead \/ Ready

-----------------------------------------------------------------------------
DiskTypeOK ==
  /\ port \in 2 .. 7 /\ at \in {"none", "out", "not_ready", "go_on_read", "ret"}
  /\ eax \in 0 .. Byte * Byte * Byte * Nibble - 1 /\ call \in Call
  /\ cx \in 0 .. (Byte - 1) * SectorWords
  /\ reg \in [2 .. 6 -> 0 .. Byte - 1]
  /\ status \in {"BSY", "DRQ", "ERR", "idle"}
  /\ left \in 0 .. Byte - 1
  /\ Len(mem) <= (Byte - 1) * SectorWords

Asked == [i \in 1 .. call.n * SectorWords |->
            <<call.lba + ((i - 1) \div SectorWords), 1 + ((i - 1) % SectorWords)>>]

\* How many of the first i words of m are from the drive.
WordsIn(m, i) == Cardinality({j \in 1 .. i : m[j] # NULL})

Late == NULL \in ToSet(mem)

(* "Reads n sectors from the disk into memory" (loader.s:284, mbr.s:58):   *)
(* what is in memory at any time is the beginning of these sectors, word   *)
(* for word, and in the end all of it.  The loop does not wait for the     *)
(* drive between two sectors (loader.s:338): when the drive does need time *)
(* there, what it gave is still in order, but with gaps, and not all of it.*)
ReadsSectors ==
  /\ \A i \in DOMAIN mem : mem[i] # NULL => mem[i] = Asked[WordsIn(mem, i)]
  /\ mem # <<>> => mem[1] # NULL
  /\ at = "ret" => Len(mem) = call.n * SectorWords /\ (Late \/ mem = Asked)

=============================================================================
