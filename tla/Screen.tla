------------------------------- MODULE Screen -------------------------------
(***************************************************************************)
(* The text screen: put_char, put_str, put_int of lib/kernel/print.S, the  *)
(* console functions of device/console.c on top of them, and the keyboard  *)
(* handler, which prints from inside an interrupt.                         *)
(*                                                                         *)
(* The cursor lives in two registers of the display controller behind one  *)
(* index port and one data port that all threads share, so every in, out   *)
(* and store to video memory is an action of its own and the clock may let *)
(* another thread run between any two of them.  The console lock is that   *)
(* of RecursiveLock, which Sync implements.                                *)
(***************************************************************************)
EXTENDS Integers, SequencesExt

CONSTANTS
  Thread,        \* threads that print
  NoThread,
  Strings,       \* strings they print, as sequences of characters
  Numbers,       \* numbers they print
  Keys,          \* what the keyboard handler prints; {} while IRQ 1 is masked
  Cols, Rows,    \* 80, 25
  Byte,          \* values of an 8-bit register, 256
  Segment,       \* characters the video segment has room for, 16384
  Digits, Base   \* 8, 16

Char == {" ", "LF", "BS", "a", "b", "c"} \union Range(<<"0", "1", "2", "3", "4", "5",
          "6", "7", "8", "9", "A", "B", "C", "D", "E", "F">>)
Size == Cols * Rows
Word == Byte * Byte
Cell == 0 .. Segment - 1
Job == [str : Strings, num : {-1}] \union [str : {<<>>}, num : Numbers]

\* How many numbers have k digits.
Power[k \in 0 .. Digits] == IF k = 0 THEN 1 ELSE Base * Power[k - 1]

ASSUME ScreenAssumption ==
  /\ NoThread \notin Thread
  /\ Strings \subseteq Seq(Char \ {"BS"}) /\ Keys \subseteq Char
  /\ {Cols, Rows, Byte, Segment, Digits} \subseteq Nat \ {0}
  /\ Rows > 1 /\ Byte % 2 = 0 /\ Size <= Segment /\ {Size + Cols, Segment} \subseteq 0 .. Word \div 2 - 1
  /\ Base \in 2 .. 16 /\ Numbers \subseteq 0 .. Power[Digits] - 1

VARIABLES
  owner, depth,  \* console_lock
  index,         \* the controller's register the data port stands for
  crt,           \* registers 0x0e and 0x0f: the cursor's high and low byte
  video,         \* video memory
  buffer,        \* put_int_buffer
  pc,            \* the next instruction of each thread
  rest,          \* what put_str has still to print
  num, edi,      \* eax and edi of put_int; num = -1 in put_str
  cl, bx,        \* the character and the cursor in put_char
  halted,        \* an access outside the segment: the handler of #GP spins
  term           \* history: the screen a reader of the calls expects

lockVars == <<owner, depth>>
device   == <<index, crt, video>>
local    == <<rest, num, edi, cl, bx>>
vars     == <<lockVars, device, buffer, pc, local, halted, term>>

Console == INSTANCE RecursiveLock WITH Lock <- {"console"}

PC == {"idle", "fill", "skip", "digit", "next", "select_hi", "in_hi", "select_lo",
       "in_lo", "store", "roll", "cls", "set_hi", "out_hi", "set_lo", "out_lo"}

-----------------------------------------------------------------------------
(* The terminal that print.S is meant to be, in rows and columns.          *)
BlankRow == [col \in 0 .. Cols - 1 |-> " "]

NewLine(s) ==
  IF s.row < Rows - 1 THEN [s EXCEPT !.row = @ + 1, !.col = 0]
  ELSE [s EXCEPT !.col = 0,
                 !.page = [r \in 0 .. Rows - 1 |-> IF r = Rows - 1 THEN BlankRow ELSE @[r + 1]]]

Back(s) ==
  IF s.col > 0 THEN [s EXCEPT !.col = @ - 1, !.page[s.row][s.col - 1] = " "]
  ELSE IF s.row > 0 THEN [s EXCEPT !.row = @ - 1, !.col = Cols - 1,
                                   !.page[s.row - 1][Cols - 1] = " "]
  ELSE s

Type(s, c) ==
  LET put == [s EXCEPT !.page[s.row][s.col] = c] IN
  IF c = "LF" THEN NewLine(s)
  ELSE IF c = "BS" THEN Back(s)
  ELSE IF s.col = Cols - 1 THEN NewLine(put) ELSE [put EXCEPT !.col = @ + 1]

Digit(d) == <<"0", "1", "2", "3", "4", "5", "6", "7",
              "8", "9", "A", "B", "C", "D", "E", "F">>[d + 1]

\* A number in base Base without leading zeros.
Numeral(n) ==
  LET f[k \in Nat] == IF k < Base THEN <<Digit(k)>>
                      ELSE Append(f[k \div Base], Digit(k % Base))
  IN  f[n]

Said(job) == IF job.num = -1 THEN job.str ELSE Numeral(job.num)

Terminal == [row : 0 .. Rows - 1, col : 0 .. Cols - 1,
             page : [0 .. Rows - 1 -> [0 .. Cols - 1 -> Char]]]

-----------------------------------------------------------------------------
Init ==
  /\ Console!Init
  /\ index = "lo"
  /\ \E c \in 0 .. Size - 1 :
       /\ crt = [hi |-> c \div Byte, lo |-> c % Byte]
       /\ term = [row |-> c \div Cols, col |-> c % Cols,
                  page |-> [r \in 0 .. Rows - 1 |-> BlankRow]]
  /\ video = [i \in Cell |-> " "]
  /\ buffer = [i \in 0 .. Digits - 1 |-> "0"]
  /\ pc = [t \in Thread |-> "idle"]
  /\ rest = [t \in Thread |-> <<>>]
  /\ num = [t \in Thread |-> -1]
  /\ edi = [t \in Thread |-> 0]
  /\ cl = [t \in Thread |-> " "]
  /\ bx = [t \in Thread |-> 0]
  /\ halted = FALSE

At(t, l) == ~halted /\ pc[t] = l
Goto(t, l) == pc' = [pc EXCEPT ![t] = l]

-----------------------------------------------------------------------------
(* console_put_str, console_put_char and console_put_int.  (Mutated: only  *)
(* the functions they guard, which is what main's three threads call.)     *)
Begin(t, job, lock) ==
  /\ At(t, "idle")
  /\ IF lock THEN Console!Acquire(t, "console") ELSE UNCHANGED lockVars
  /\ rest' = [rest EXCEPT ![t] = job.str]
  /\ num' = [num EXCEPT ![t] = job.num]
  /\ edi' = [edi EXCEPT ![t] = Digits - 1]
  /\ term' = FoldLeft(Type, term, Said(job))
  /\ Goto(t, IF job.num = -1 THEN "next" ELSE "fill")
  /\ UNCHANGED <<device, buffer, cl, bx, halted>>

CallUnlocked(t, job) == Begin(t, job, FALSE)

Call(t, job) == Begin(t, job, TRUE)

Return(t) ==
  /\ Console!Release(t, "console")
  /\ Goto(t, "idle")
  /\ num' = [num EXCEPT ![t] = -1]
  /\ edi' = [edi EXCEPT ![t] = 0]
  /\ cl' = [cl EXCEPT ![t] = " "]
  /\ bx' = [bx EXCEPT ![t] = 0]
  /\ UNCHANGED <<device, buffer, rest, halted, term>>

\* put_str's loop.
NextChar(t) ==
  /\ At(t, "next")
  /\ IF rest[t] = <<>> THEN Return(t)
     ELSE /\ cl' = [cl EXCEPT ![t] = Head(rest[t])]
          /\ rest' = [rest EXCEPT ![t] = Tail(@)]
          /\ Goto(t, "select_hi")
          /\ UNCHANGED <<lockVars, device, buffer, num, edi, bx, halted, term>>

(* put_int: the digits go into the one buffer from the last to the first;  *)
(* then the zeros in front are skipped, and the rest is printed.  (Mutated:*)
(* the buffer is searched from where the loop stopped, without inc edi.)   *)
Fill(t, front) ==
  /\ At(t, "fill")
  /\ buffer' = [buffer EXCEPT ![edi[t]] = Digit(num[t] % Base)]
  /\ num' = [num EXCEPT ![t] = @ \div Base]
  /\ edi' = [edi EXCEPT ![t] = IF @ = 0 THEN front ELSE @ - 1]
  /\ Goto(t, IF edi[t] = 0 THEN "skip" ELSE "fill")
  /\ UNCHANGED <<lockVars, device, rest, cl, bx, halted, term>>

FillPastFront(t) == Fill(t, -1)

FillDigit(t) == Fill(t, 0)

SkipZeros(t) ==
  LET significant == {i \in 0 .. Digits - 1 : buffer[i] # "0"} IN
  /\ At(t, "skip")
  /\ edi' = [edi EXCEPT ![t] = Min(significant \union {Digits})]
  /\ Goto(t, "digit")
  /\ UNCHANGED <<lockVars, device, buffer, rest, num, cl, bx, halted, term>>

\* edi is Digits at first when all were zero (full0), and then one more.
NextDigit(t) ==
  /\ At(t, "digit")
  /\ cl' = [cl EXCEPT ![t] = IF edi[t] = Digits THEN "0" ELSE buffer[edi[t]]]
  /\ edi' = [edi EXCEPT ![t] = @ + 1]
  /\ Goto(t, "select_hi")
  /\ UNCHANGED <<lockVars, device, buffer, rest, num, bx, halted, term>>

-----------------------------------------------------------------------------
(* put_char's arithmetic, in 16-bit registers.  `shl bx, 1' loses the top  *)
(* bit of the cursor, `shr bx, 1' does not bring it back.                  *)
Half == Word \div 2
Signed(b) == IF b < Half THEN b ELSE b - Word

\* cmp bx, 2000 and jl.  (Mutated: jle; 4000, the size in bytes.)
BeyondOne(b) == Signed(b) > Size
BeyondBytes(b) == Signed(b) >= 2 * Size
Beyond(b) == Signed(b) >= Size

\* The character written to, when the cursor is b.
Target(c, b) == ((IF c = "BS" THEN b - 1 ELSE b) % Word) % Half
Faults(c, b) == c # "LF" /\ Target(c, b) >= Segment

Written(v, c, b) ==
  IF c = "LF" THEN v ELSE [v EXCEPT ![Target(c, b)] = IF c = "BS" THEN " " ELSE c]

\* The cursor behind it, before the screen is rolled.
Moved(c, b) ==
  LET n == IF c = "LF" THEN b ELSE Target(c, b) + 1 IN
  IF c = "BS" THEN Target(c, b)
  ELSE IF c = "LF" \/ Beyond(n) THEN (n - (n % Cols) + Cols) % Word
  ELSE n

Rolls(c, b) == c # "BS" /\ Beyond(Moved(c, b))

Rolled(v) ==
  [i \in Cell |-> IF i < Size - Cols THEN v[i + Cols] ELSE IF i < Size THEN " " ELSE v[i]]

Cursor == crt.hi * Byte + crt.lo

-----------------------------------------------------------------------------
(* put_char.  First the cursor is read, high byte and low byte.            *)
Select(t, from, reg, to) ==
  /\ At(t, from)
  /\ index' = reg
  /\ Goto(t, to)
  /\ UNCHANGED <<lockVars, crt, video, buffer, local, halted, term>>

SelectHigh(t) == Select(t, "select_hi", "hi", "in_hi")
SelectLow(t)  == Select(t, "select_lo", "lo", "in_lo")

In(t, from, value, to) ==
  /\ At(t, from)
  /\ bx' = [bx EXCEPT ![t] = value]
  /\ Goto(t, to)
  /\ UNCHANGED <<lockVars, device, buffer, rest, num, edi, cl, halted, term>>

ReadHigh(t) == In(t, "in_hi", crt[index], "select_lo")
ReadLow(t)  == In(t, "in_lo", bx[t] * Byte + crt[index], "store")

Store(t) ==
  LET c == cl[t]
      b == bx[t]
  IN  /\ At(t, "store")
      /\ IF Faults(c, b)
         THEN halted' = TRUE /\ UNCHANGED <<video, bx, pc>>
         ELSE /\ video' = Written(video, c, b)
              /\ bx' = [bx EXCEPT ![t] = IF Rolls(c, b) THEN 0 ELSE Moved(c, b)]
              /\ Goto(t, IF Rolls(c, b) THEN "roll" ELSE "set_hi")
              /\ UNCHANGED halted
      /\ UNCHANGED <<lockVars, index, crt, buffer, rest, num, edi, cl, term>>

\* rep movsd and the loop of .cls; bx counts characters.  (Mutated: the last
\* line is left as it is.)
Blank(t, c) ==
  /\ At(t, "cls")
  /\ video' = [video EXCEPT ![bx[t]] = c]
  /\ bx' = [bx EXCEPT ![t] = IF @ = Size - 1 THEN Size - Cols ELSE @ + 1]
  /\ Goto(t, IF bx[t] = Size - 1 THEN "set_hi" ELSE "cls")
  /\ UNCHANGED <<lockVars, index, crt, buffer, rest, num, edi, cl, halted, term>>

Roll(t) ==
  /\ At(t, "roll")
  /\ video' = [video EXCEPT ![bx[t]] = video[bx[t] + Cols]]
  /\ bx' = [bx EXCEPT ![t] = @ + 1]
  /\ Goto(t, IF bx[t] = Size - Cols - 1 THEN "cls" ELSE "roll")
  /\ UNCHANGED <<lockVars, index, crt, buffer, rest, num, edi, cl, halted, term>>

ClsNothing(t) == Blank(t, video[bx[t]])

Cls(t) == Blank(t, " ")

(* Then the new cursor is written.  (Mutated: without selecting the low    *)
(* byte, it goes into the high one.)                                       *)
SetHigh(t) == Select(t, "set_hi", "hi", "out_hi")
SetLowNot(t) == Select(t, "set_lo", index, "out_lo")
SetLow(t)  == Select(t, "set_lo", "lo", "out_lo")

Out(t, from, value, to) ==
  /\ At(t, from)
  /\ crt' = [crt EXCEPT ![index] = value]
  /\ Goto(t, to)
  /\ UNCHANGED <<lockVars, index, video, buffer, local, halted, term>>

WriteHigh(t) == Out(t, "out_hi", bx[t] \div Byte, "set_lo")

\* and put_char returns to put_int or put_str.
WriteLow(t) ==
  Out(t, "out_lo", bx[t] % Byte, IF num[t] # -1 /\ edi[t] < Digits THEN "digit" ELSE "next")

-----------------------------------------------------------------------------
(* intr_keyboard_handler's put_char(c): a whole put_char with the flag     *)
(* clear.  pic_init masks its line; it is open only while no thread prints,*)
(* as in the lines for testing the keyboard (interrupt.c:37-39), with      *)
(* which nothing else does.  (Mutated: wherever the interrupted thread is.)*)
Echo(c, may) ==
  /\ ~halted /\ may
  /\ term' = Type(term, c)
  /\ IF Faults(c, Cursor)
     THEN halted' = TRUE /\ UNCHANGED <<crt, video>>
     ELSE LET v == Written(video, c, Cursor)
              b == IF Rolls(c, Cursor) THEN Size - Cols ELSE Moved(c, Cursor)
          IN  /\ video' = IF Rolls(c, Cursor) THEN Rolled(v) ELSE v
              /\ crt' = [hi |-> b \div Byte, lo |-> b % Byte]
              /\ UNCHANGED halted
  /\ index' = "lo"
  /\ UNCHANGED <<lockVars, buffer, pc, local>>

KeyboardAnyTime(c) == Echo(c, TRUE)

Keyboard(c) == Echo(c, \A t \in Thread : pc[t] = "idle")

PutChar(t) ==
  \/ SelectHigh(t) \/ ReadHigh(t) \/ SelectLow(t) \/ ReadLow(t)
  \/ Store(t) \/ Roll(t) \/ Cls(t)
  \/ SetHigh(t) \/ WriteHigh(t) \/ SetLow(t) \/ WriteLow(t)

Next ==
  \/ \E t \in Thread :
       \/ \E job \in Job : Call(t, job)
       \/ NextChar(t) \/ FillDigit(t) \/ SkipZeros(t) \/ NextDigit(t)
       \/ PutChar(t)
  \/ \E c \in Keys : Keyboard(c)

Spec == Init /\ [][Next]_vars

-----------------------------------------------------------------------------
TypeOK ==
  /\ owner \in [{"console"} -> Thread \union {NoThread}]
  /\ depth \in [{"console"} -> {0, 1}]
  /\ index \in {"hi", "lo"}
  /\ crt \in [{"hi", "lo"} -> 0 .. Byte - 1]
  /\ video \in [Cell -> Char]
  /\ buffer \in [0 .. Digits - 1 -> Char]
  /\ pc \in [Thread -> PC]
  /\ rest \in [Thread -> Seq(Char)]
  /\ num \in [Thread -> {-1} \union 0 .. Power[Digits] - 1]
  /\ edi \in [Thread -> 0 .. Digits + 1]
  /\ cl \in [Thread -> Char]
  /\ bx \in [Thread -> 0 .. Word - 1]
  /\ halted \in BOOLEAN
  /\ term \in Terminal

\* The threads inside a put_char that has begun to write the cursor.
Writing == {t \in Thread : pc[t] \in {"set_hi", "out_hi", "set_lo", "out_lo"}}

(* "The lines of the screen are 0 to 24" (print.S:117): whenever the       *)
(* cursor is not being written it is on the screen, so that the next       *)
(* character is.                                                           *)
CursorOnScreen == Writing = {} => Cursor < Size

(* Between its out to the index port and its access to the data port a     *)
(* thread keeps the register it selected: what it reads as the high byte   *)
(* is "the high 8 bits of the cursor" (print.S:53), and what it writes as  *)
(* the low byte goes into the low one.                                     *)
IndexHeld ==
  \A t \in Thread :
    /\ pc[t] \in {"in_hi", "out_hi"} => index = "hi"
    /\ pc[t] \in {"in_lo", "out_lo"} => index = "lo"

(* What is on the screen between two console calls is what a terminal      *)
(* shows that was given the strings and numbers whole, one after the other *)
(* in the order in which the calls got the lock: no text is broken up,     *)
(* lost in a scroll, put on the wrong line or left over, a number printed  *)
(* through the shared buffer is the caller's, and the cursor is behind the *)
(* last character.  So is what the keyboard handler prints in between.     *)
ShowsCalls ==
  owner["console"] = NoThread =>
    /\ Cursor = term.row * Cols + term.col
    /\ \A i \in 0 .. Size - 1 : video[i] = term.page[i \div Cols][i % Cols]

(* Moving "to the previous place in video memory" (print.S:78) leaves the  *)
(* segment at the first place, and nothing else that put_char does ever    *)
(* leaves it: every other fault is excluded.                               *)
FaultsAtOrigin == halted => Cursor = 0

(* The cursor and every register, buffer and character stay in their range *)
(* up to a fault at the origin.                                            *)
StaysOnScreen == TypeOK /\ CursorOnScreen /\ FaultsAtOrigin

=============================================================================
