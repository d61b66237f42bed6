---------------------------- MODULE ScreenProofs ----------------------------
(***************************************************************************)
(* What holds of the screen for any threads, strings, numbers and keys,    *)
(* and for any size of screen, segment, register and buffer: the cursor    *)
(* registers are read and written as selected, the cursor stays on the     *)
(* screen, only a backspace in its first place leaves the segment, and the *)
(* screen shows what the calls and the keyboard printed, in their order.   *)
(***************************************************************************)
EXTENDS Screen, WellFoundedInduction, TLAPS

(* A set of numbers that is not empty has a least element.                 *)
LEMMA LeastElement ==
  ASSUME NEW S \in SUBSET Nat, S # {}
  PROVE  Min(S) \in S /\ \A x \in S : Min(S) <= x
<1> DEFINE R == OpToRel(<, Nat)
<1>1. IsWellFoundedOn(R, Nat)
  BY NatLessThanWellFounded
<1>2. \E x \in S : \A y \in S : ~ (<<y, x>> \in R)
  <2> HIDE DEF R
  <2> QED BY <1>1, WFMin
<1>3. PICK x \in S : \A y \in S : ~ (<<y, x>> \in R)
  BY <1>2
<1>4. \A y \in S : ~ (y < x)
  BY <1>3 DEF OpToRel
<1>5. \A y \in S : x <= y
  BY <1>4
<1> QED
  BY <1>5 DEF Min

(* Division, of which the provers know no more than this.                  *)
LEMMA DivMod ==
  ASSUME NEW n \in Nat, NEW c \in Nat \ {0}
  PROVE  /\ n % c \in 0 .. c - 1
         /\ n \div c \in Nat
         /\ n = (c * (n \div c)) + (n % c)
OBVIOUS

LEMMA Modulo ==
  ASSUME NEW c \in Nat \ {0}, NEW x \in 0 .. c - 1
  PROVE  x % c = x /\ (c + x) % c = x /\ (0 - 1) % c = c - 1
OBVIOUS

LEMMA ModuloProduct ==
  ASSUME NEW c \in Nat \ {0}, NEW r \in Nat
  PROVE  (c * r) % c = 0
OBVIOUS

LEMMA EvenSquare ==
  ASSUME NEW c \in Nat, c % 2 = 0
  PROVE  c * c = 2 * ((c * c) \div 2)
<1>1. PICK k \in Nat : c = 2 * k
  OBVIOUS
<1> DEFINE m == k * c
<1>2. c * c = 2 * m /\ m \in Nat
  BY <1>1
<1> HIDE DEF m
<1> QED
  BY <1>2

(* Of r rows with c columns, the one behind that of b begins behind b, and *)
(* not behind the end.                                                     *)
LEMMA NextRow ==
  ASSUME NEW c \in Nat \ {0}, NEW r \in Nat \ {0}, NEW b \in Nat, b < c * r
  PROVE  b < b - (b % c) + c /\ b - (b % c) + c <= c * r /\ b % c \in 0 .. c - 1 /\ b % c <= b
<1>1. PICK q \in Nat, m \in 0 .. c - 1 : b = c * q + m /\ b % c = m
  BY DivMod
<1>2. q < r
  <2> SUFFICES ASSUME r <= q PROVE FALSE
    BY <1>1
  <2>1. PICK d \in Nat : q = r + d
    OBVIOUS
  <2>2. c * q = c * r + c * d /\ c * d \in Nat
    BY <2>1
  <2> QED
    BY <1>1, <2>2
<1>3. PICK d \in Nat : r = q + 1 + d
  BY <1>2
<1>4. c * r = c * q + c + c * d /\ c * d \in Nat /\ c * q \in Nat
  BY <1>3
<1> QED
  BY <1>1, <1>4

(* The cursor is two bytes.                                                *)
LEMMA TwoBytes ==
  ASSUME NEW b \in 0 .. Word - 1
  PROVE  /\ b \div Byte \in 0 .. Byte - 1 /\ b % Byte \in 0 .. Byte - 1
         /\ (b \div Byte) * Byte + (b % Byte) = b
<1> DEFINE q == b \div Byte
<1>1. Byte \in Nat \ {0} /\ b \in Nat /\ b < Byte * Byte
  BY ScreenAssumption DEF ScreenAssumption, Word
<1>2. b % Byte \in 0 .. Byte - 1 /\ q \in Nat /\ b = (Byte * q) + (b % Byte)
  BY <1>1, DivMod
<1> HIDE DEF q
<1>3. q < Byte
  <2> SUFFICES ASSUME Byte <= q PROVE FALSE
    BY <1>1, <1>2
  <2>1. PICK d \in Nat : q = Byte + d
    BY <1>1, <1>2
  <2>2. Byte * q = Byte * Byte + Byte * d /\ Byte * d \in Nat
    BY <1>1, <2>1
  <2> QED
    BY <1>1, <1>2, <2>2
<1> QED
  BY <1>1, <1>2, <1>3 DEF q

LEMMA ByteOf ==
  ASSUME NEW h \in 0 .. Byte - 1, NEW l \in 0 .. Byte - 1
  PROVE  h * Byte + l \in 0 .. Word - 1
<1>1. Byte \in Nat \ {0}
  BY ScreenAssumption DEF ScreenAssumption
<1>2. PICK d \in Nat : Byte = h + 1 + d
  BY <1>1
<1>3. Byte * Byte = h * Byte + Byte + d * Byte /\ d * Byte \in Nat /\ h * Byte \in Nat
  BY <1>1, <1>2
<1> QED
  BY <1>1, <1>3 DEF Word

-----------------------------------------------------------------------------
(* put_char's arithmetic, for a cursor on the screen.                      *)
LEMMA Sizes ==
  /\ {Size, Cols, Rows, Segment, Word, Half} \subseteq Nat \ {0}
  /\ Word = 2 * Half
  /\ Size = Cols * Rows /\ 2 * Cols <= Size
  /\ Size <= Segment /\ Segment < Half /\ Size + Cols < Half
<1>1. {Cols, Rows, Byte, Segment} \subseteq Nat \ {0} /\ Rows > 1 /\ Byte % 2 = 0
  BY ScreenAssumption DEF ScreenAssumption
<1>2. Word = 2 * Half /\ Word \in Nat
  BY <1>1, EvenSquare DEF Word, Half
<1>3. PICK d \in Nat : Rows = 2 + d
  BY <1>1
<1>4. Size = Cols * Rows /\ Size = 2 * Cols + Cols * d /\ Cols * d \in Nat
  BY <1>1, <1>3 DEF Size
<1>5. Half \in Nat
  BY <1>2 DEF Half
<1>6. Size \in Nat /\ Size >= 2 * Cols
  BY <1>1, <1>4
<1>7. Size <= Segment /\ Size + Cols < Half /\ Segment < Half
  <2> HIDE DEF Size
  <2> QED BY <1>1, <1>5, <1>6, ScreenAssumption DEF ScreenAssumption, Half
<1> HIDE DEF Size, Word, Half
<1> QED
  BY <1>1, <1>2, <1>4, <1>5, <1>6, <1>7

LEMMA TargetOnScreen ==
  ASSUME NEW b \in 0 .. Size - 1, NEW c
  PROVE  IF c # "BS" THEN Target(c, b) = b
         ELSE IF b > 0 THEN Target(c, b) = b - 1
         ELSE Target(c, b) = Half - 1
<1>1. /\ {Size, Segment, Word, Half} \subseteq Nat \ {0}
      /\ Word = 2 * Half /\ Size < Half
  BY Sizes
<1> HIDE DEF Size, Word, Half
<1>2. ASSUME NEW x \in 0 .. Size - 1 PROVE (x % Word) % Half = x
  <2>1. x \in 0 .. Word - 1 /\ x \in 0 .. Half - 1
    BY <1>1
  <2>2. x % Word = x
    BY <1>1, <2>1, Modulo
  <2> QED
    BY <1>1, <2>1, <2>2, Modulo
<1>3. (0 - 1) % Word = Word - 1
  <2>1. 0 \in 0 .. Word - 1
    BY <1>1
  <2> QED
    BY <1>1, <2>1, Modulo
<1>4. (Word - 1) % Half = Half - 1
  <2>1. Word - 1 = Half + (Half - 1) /\ Half - 1 \in 0 .. Half - 1
    BY <1>1
  <2> QED
    BY <1>1, <2>1, Modulo
<1>5. CASE c # "BS"
  BY <1>2, <1>5 DEF Target
<1>6. CASE c = "BS" /\ b > 0
  BY <1>1, <1>2, <1>6 DEF Target
<1>7. CASE c = "BS" /\ ~ (b > 0)
  BY <1>1, <1>3, <1>4, <1>7 DEF Target
<1> QED
  BY <1>5, <1>6, <1>7

(* Only a backspace at the origin is written outside the segment.          *)
LEMMA OnlyOriginFaults ==
  ASSUME NEW b \in 0 .. Size - 1, NEW c
  PROVE  Faults(c, b) => c = "BS" /\ b = 0
<1>1. {Size, Segment} \subseteq Nat /\ Size <= Segment
  BY Sizes
<1> HIDE DEF Size
<1> QED
  BY <1>1, TargetOnScreen DEF Faults

(* If not, the character goes into a cell, and the cursor behind it is on  *)
(* the screen unless the screen is rolled.                                 *)
LEMMA StaysInside ==
  ASSUME NEW b \in 0 .. Size - 1, NEW c, ~ Faults(c, b)
  PROVE  /\ c # "LF" => Target(c, b) \in 0 .. Size - 1
         /\ IF c = "BS" THEN Moved(c, b) = b - 1 /\ b > 0
            ELSE IF c # "LF" /\ b + 1 < Size THEN Moved(c, b) = b + 1
            ELSE Moved(c, b) = IF c = "LF" THEN b - (b % Cols) + Cols ELSE Size + Cols
         /\ Moved(c, b) \in 0 .. Size + Cols
         /\ Rolls(c, b) <=> Moved(c, b) >= Size
<1>0. {Cols, Rows} \subseteq Nat \ {0} /\ Size = Cols * Rows
  BY Sizes
<1>1. /\ {Size, Cols, Segment, Word, Half} \subseteq Nat \ {0}
      /\ Word = 2 * Half
      /\ Size <= Segment /\ Segment < Half /\ Size + Cols < Half
  BY Sizes
<1> HIDE DEF Size, Word, Half
<1>2. ASSUME NEW x \in 0 .. Half - 1 PROVE Beyond(x) <=> x >= Size
  BY <1>1 DEF Beyond, Signed
<1>3. Size % Cols = 0
  <2> HIDE DEF Size
  <2> QED BY <1>0, ModuloProduct
<1>4. /\ b - (b % Cols) + Cols \in 0 .. Size
      /\ b - (b % Cols) + Cols > b
  <2> DEFINE m == b % Cols
  <2>1. b < Cols * Rows /\ b \in Nat
    BY <1>0
  <2>2. b < b - m + Cols /\ b - m + Cols <= Cols * Rows /\ m \in 0 .. Cols - 1 /\ m <= b
    BY <1>0, <2>1, NextRow
  <2> HIDE DEF m
  <2>3. b < b - m + Cols /\ b - m + Cols \in 0 .. Size
    BY <1>0, <1>1, <2>2
  <2> QED
    BY <2>3 DEF m
<1>5. ASSUME NEW x \in 0 .. Half - 1 PROVE x % Word = x
  <2>1. x \in 0 .. Word - 1
    BY <1>1
  <2> QED
    BY <1>1, <2>1, Modulo
<1>6. CASE c = "BS"
  <2>1. b > 0
    BY <1>1, <1>6, TargetOnScreen DEF Faults
  <2>2. Target(c, b) = b - 1 /\ Moved(c, b) = b - 1
    BY <1>6, <2>1, TargetOnScreen DEF Moved
  <2> QED
    BY <1>1, <1>6, <2>1, <2>2 DEF Rolls
<1>7. CASE c = "LF"
  <2>1. Moved(c, b) = b - (b % Cols) + Cols
    BY <1>1, <1>4, <1>5, <1>7 DEF Moved
  <2> QED
    BY <1>1, <1>2, <1>4, <1>7, <2>1 DEF Rolls
<1>8. CASE c \notin {"BS", "LF"}
  <2>1. Target(c, b) = b
    BY <1>8, TargetOnScreen
  <2>2. CASE b + 1 < Size
    <3>1. Moved(c, b) = b + 1
      BY <1>1, <1>2, <1>8, <2>1, <2>2 DEF Moved
    <3> QED
      BY <1>1, <1>2, <1>8, <2>1, <2>2, <3>1 DEF Rolls
  <2>3. CASE b + 1 = Size
    <3>1. Moved(c, b) = (b + 1 - ((b + 1) % Cols) + Cols) % Word
      BY <1>1, <1>2, <1>8, <2>1, <2>3 DEF Moved
    <3>2. Moved(c, b) = Size + Cols
      BY <1>1, <1>3, <1>5, <2>3, <3>1
    <3> QED
      BY <1>1, <1>2, <1>8, <2>1, <2>3, <3>2 DEF Rolls
  <2> QED
    BY <1>1, <2>2, <2>3
<1> QED
  BY <1>6, <1>7, <1>8

-----------------------------------------------------------------------------
(* The lock is owned by the thread that is inside a console function.      *)
Holding(t) == owner["console"] = t

LockHeld ==
  /\ owner \in [{"console"} -> Thread \union {NoThread}]
  /\ depth \in [{"console"} -> {0, 1}]
  /\ pc \in [Thread -> PC]
  /\ index \in {"hi", "lo"}
  /\ \A t \in Thread : Holding(t) <=> pc[t] # "idle"
  /\ depth["console"] = 0 <=> owner["console"] = NoThread

IndexInv == LockHeld /\ IndexHeld

(* What Begin and Return do to the lock.                                   *)
LEMMA Acquires ==
  ASSUME NEW t \in Thread, LockHeld, pc[t] = "idle", Console!Acquire(t, "console"),
         NEW l \in PC, l # "idle", Goto(t, l)
  PROVE  /\ owner["console"] = NoThread
         /\ owner' \in [{"console"} -> Thread \union {NoThread}] /\ owner'["console"] = t
         /\ depth' \in [{"console"} -> {0, 1}] /\ depth'["console"] = 1
         /\ pc' \in [Thread -> PC] /\ pc'[t] = l
         /\ \A u \in Thread \ {t} : pc'[u] = "idle" /\ pc[u] = "idle"
<1>1. NoThread \notin Thread
  BY ScreenAssumption DEF ScreenAssumption
<1>2. owner["console"] = NoThread
  BY DEF LockHeld, Holding, Console!Acquire
<1> QED
  BY <1>1, <1>2 DEF LockHeld, Holding, Console!Acquire, Goto

LEMMA Releases ==
  ASSUME NEW t \in Thread, LockHeld, pc[t] # "idle", Console!Release(t, "console"),
         Goto(t, "idle")
  PROVE  /\ owner' \in [{"console"} -> Thread \union {NoThread}] /\ owner'["console"] = NoThread
         /\ depth' \in [{"console"} -> {0, 1}] /\ depth'["console"] = 0
         /\ pc' \in [Thread -> PC] /\ \A u \in Thread : pc'[u] = "idle"
<1>1. NoThread \notin Thread
  BY ScreenAssumption DEF ScreenAssumption
<1> QED
  BY <1>1 DEF LockHeld, Holding, Console!Release, Goto, PC

(* Only one thread is inside, so a step of it disturbs no other.           *)
LEMMA OneInside ==
  ASSUME NEW t \in Thread, LockHeld, pc[t] # "idle"
  PROVE  \A u \in Thread \ {t} : pc[u] = "idle"
BY DEF LockHeld, Holding

LEMMA Going ==
  ASSUME NEW t \in Thread, LockHeld, pc[t] # "idle", UNCHANGED lockVars,
         index' \in {"hi", "lo"}, NEW l \in PC, l # "idle", Goto(t, l),
         l \in {"in_hi", "out_hi"} => index' = "hi",
         l \in {"in_lo", "out_lo"} => index' = "lo"
  PROVE  IndexInv'
<1>1. pc' \in [Thread -> PC] /\ pc'[t] = l /\ \A u \in Thread \ {t} : pc'[u] = pc[u]
  BY DEF LockHeld, Goto
<1>2. LockHeld'
  BY <1>1 DEF LockHeld, Holding, lockVars
<1>3. \A u \in Thread \ {t} : pc'[u] = "idle"
  BY <1>1, OneInside
<1>4. IndexHeld'
  BY <1>1, <1>3 DEF IndexHeld
<1> QED
  BY <1>2, <1>4 DEF IndexInv

LEMMA IndexStep == IndexInv /\ [Next]_vars => IndexInv'
<1> SUFFICES ASSUME IndexInv, [Next]_vars PROVE IndexInv'
  OBVIOUS
<1> USE DEF At
<1>0. LockHeld /\ IndexHeld
  BY DEF IndexInv
<1>1. ASSUME NEW t \in Thread, NEW job \in Job, Call(t, job) PROVE IndexInv'
  <2> DEFINE l == IF job.num = -1 THEN "next" ELSE "fill"
  <2>1. pc[t] = "idle" /\ Console!Acquire(t, "console") /\ Goto(t, l) /\ index' = index
    BY <1>1 DEF Call, Begin, device
  <2>2. l \in PC /\ l # "idle" /\ l \notin {"in_hi", "in_lo", "out_hi", "out_lo"}
    BY DEF PC
  <2> HIDE DEF l
  <2>3. NoThread \notin Thread
    BY ScreenAssumption DEF ScreenAssumption
  <2> QED
    BY <1>0, <2>1, <2>2, <2>3, Acquires DEF IndexInv, LockHeld, Holding, IndexHeld
<1>2. ASSUME NEW t \in Thread, NextChar(t) PROVE IndexInv'
  <2>1. CASE rest[t] = <<>>
    <3>1. pc[t] = "next" /\ Console!Release(t, "console") /\ Goto(t, "idle") /\ index' = index
      BY <1>2, <2>1 DEF NextChar, Return, device
    <3>2. NoThread \notin Thread
      BY ScreenAssumption DEF ScreenAssumption
    <3> QED
      BY <1>0, <3>1, <3>2, Releases DEF IndexInv, LockHeld, Holding, IndexHeld
  <2>2. CASE rest[t] # <<>>
    <3>1. pc[t] = "next" /\ UNCHANGED lockVars /\ Goto(t, "select_hi") /\ index' = index
      BY <1>2, <2>2 DEF NextChar, device
    <3>2. index \in {"hi", "lo"}
      BY <1>0 DEF LockHeld
    <3> QED
      BY <1>0, <3>1, <3>2, Going DEF PC
  <2> QED
    BY <2>1, <2>2
<1>3. ASSUME NEW t \in Thread, FillDigit(t) \/ SkipZeros(t) \/ NextDigit(t) PROVE IndexInv'
  <2>1. PICK l \in {"fill", "skip", "digit", "select_hi"} :
          pc[t] # "idle" /\ UNCHANGED lockVars /\ Goto(t, l) /\ index' = index
    BY <1>3 DEF FillDigit, Fill, SkipZeros, NextDigit, device
  <2>2. index \in {"hi", "lo"}
    BY <1>0 DEF LockHeld
  <2> QED
    BY <1>0, <2>1, <2>2, Going DEF PC
<1>4. ASSUME NEW t \in Thread, SelectHigh(t) \/ SelectLow(t) \/ SetHigh(t) \/ SetLow(t)
      PROVE  IndexInv'
  <2>1. PICK l \in {"in_hi", "in_lo", "out_hi", "out_lo"} :
          /\ pc[t] # "idle" /\ UNCHANGED lockVars /\ Goto(t, l)
          /\ index' = IF l \in {"in_hi", "out_hi"} THEN "hi" ELSE "lo"
    BY <1>4 DEF SelectHigh, SelectLow, SetHigh, SetLow, Select
  <2> QED
    BY <1>0, <2>1, Going DEF PC
<1>5. ASSUME NEW t \in Thread,
             ReadHigh(t) \/ ReadLow(t) \/ Roll(t) \/ Cls(t) \/ WriteHigh(t) \/ WriteLow(t)
      PROVE  IndexInv'
  <2>1. PICK l \in {"select_lo", "store", "roll", "cls", "set_hi", "set_lo", "digit", "next"} :
          pc[t] # "idle" /\ UNCHANGED lockVars /\ Goto(t, l) /\ index' = index
    BY <1>5 DEF ReadHigh, ReadLow, In, Roll, Cls, Blank, WriteHigh, WriteLow, Out, device
  <2>2. index \in {"hi", "lo"}
    BY <1>0 DEF LockHeld
  <2> QED
    BY <1>0, <2>1, <2>2, Going DEF PC
<1>6. ASSUME NEW t \in Thread, Store(t) PROVE IndexInv'
  <2>1. CASE Faults(cl[t], bx[t])
    BY <1>0, <1>6, <2>1 DEF Store, IndexInv, LockHeld, Holding, IndexHeld, lockVars
  <2>2. CASE ~ Faults(cl[t], bx[t])
    <3>1. PICK l \in {"roll", "set_hi"} :
            pc[t] # "idle" /\ UNCHANGED lockVars /\ Goto(t, l) /\ index' = index
      BY <1>6, <2>2 DEF Store
    <3>2. index \in {"hi", "lo"}
      BY <1>0 DEF LockHeld
    <3> QED
      BY <1>0, <3>1, <3>2, Going DEF PC
  <2> QED
    BY <2>1, <2>2
<1>7. ASSUME NEW c \in Keys, Keyboard(c) PROVE IndexInv'
  <2>1. /\ \A t \in Thread : pc[t] = "idle"
        /\ index' = "lo" /\ UNCHANGED <<lockVars, pc>>
    BY <1>7 DEF Keyboard, Echo
  <2> QED
    BY <1>0, <2>1 DEF IndexInv, LockHeld, Holding, IndexHeld, lockVars
<1>8. CASE UNCHANGED vars
  BY <1>0, <1>8 DEF IndexInv, LockHeld, Holding, IndexHeld, vars, lockVars, device
<1> QED
  BY <1>1, <1>2, <1>3, <1>4, <1>5, <1>6, <1>7, <1>8 DEF Next, PutChar

(* Between an out to the index port and the access to the data port behind *)
(* it the register stays selected, whatever other threads do.              *)
THEOREM IndexIsHeld == Spec => []IndexHeld
<1>1. Init => IndexInv
  <2> SUFFICES ASSUME Init PROVE IndexInv
    OBVIOUS
  <2>1. NoThread \notin Thread
    BY ScreenAssumption DEF ScreenAssumption
  <2> QED
    BY <2>1 DEF Init, Console!Init, IndexInv, LockHeld, Holding, IndexHeld, PC
<1>2. IndexInv /\ [Next]_vars => IndexInv'
  BY IndexStep
<1>3. IndexInv => IndexHeld
  BY DEF IndexInv
<1> QED
  BY <1>1, <1>2, <1>3, PTL DEF Spec

-----------------------------------------------------------------------------
(* The terminal, which Type, Back and NewLine keep one.                    *)
LEMMA DigitIsChar ==
  ASSUME NEW d \in 0 .. 15
  PROVE  Digit(d) \in Char
<1> DEFINE hex == <<"0", "1", "2", "3", "4", "5", "6", "7",
                    "8", "9", "A", "B", "C", "D", "E", "F">>
<1>1. d + 1 \in DOMAIN hex
  OBVIOUS
<1>2. Digit(d) = hex[d + 1]
  BY DEF Digit
<1>3. Range(hex) \subseteq Char
  BY DEF Char
<1> HIDE DEF hex
<1> QED
  BY <1>1, <1>2, <1>3 DEF Range

LEMMA BlankIsChar == {" ", "0"} \subseteq Char
<1>1. Digit(0) = "0" /\ 0 \in 0 .. 15
  BY DEF Digit
<1>2. Digit(0) \in Char
  BY <1>1, DigitIsChar
<1>3. " " \in Char
  BY DEF Char
<1> QED
  BY <1>1, <1>2, <1>3

LEMMA FieldsOfTerminal ==
  ASSUME NEW s \in Terminal
  PROVE  /\ s.row \in 0 .. Rows - 1 /\ s.col \in 0 .. Cols - 1
         /\ \A r \in 0 .. Rows - 1, col \in 0 .. Cols - 1 : s.page[r][col] \in Char
         /\ \A r \in 0 .. Rows - 1 : s.page[r] \in [0 .. Cols - 1 -> Char]
         /\ s.page \in [0 .. Rows - 1 -> [0 .. Cols - 1 -> Char]]
         /\ s = [row |-> s.row, col |-> s.col, page |-> s.page]
BY DEF Terminal

LEMMA WithPlace ==
  ASSUME NEW s \in Terminal, NEW i \in 0 .. Rows - 1, NEW j \in 0 .. Cols - 1
  PROVE  /\ [s EXCEPT !.row = i, !.col = j] \in Terminal
         /\ [s EXCEPT !.col = j] \in Terminal
BY DEF Terminal

LEMMA WithPage ==
  ASSUME NEW s \in Terminal, NEW p \in [0 .. Rows - 1 -> [0 .. Cols - 1 -> Char]]
  PROVE  [s EXCEPT !.page = p] \in Terminal
BY DEF Terminal

LEMMA WithChar ==
  ASSUME NEW s \in Terminal, NEW r \in 0 .. Rows - 1, NEW j \in 0 .. Cols - 1, NEW c \in Char
  PROVE  [s EXCEPT !.page[r][j] = c] \in Terminal
<1> DEFINE p == [s.page EXCEPT ![r] = [s.page[r] EXCEPT ![j] = c]]
<1>1. p \in [0 .. Rows - 1 -> [0 .. Cols - 1 -> Char]]
  BY FieldsOfTerminal
<1>2. [s EXCEPT !.page[r][j] = c] = [s EXCEPT !.page = p]
  BY DEF Terminal
<1> HIDE DEF p
<1>3. [s EXCEPT !.page = p] \in Terminal
  BY <1>1, WithPage
<1> QED
  BY <1>2, <1>3

LEMMA NewLineTerminal ==
  ASSUME NEW s \in Terminal
  PROVE  NewLine(s) \in Terminal
<1>1. Rows \in Nat \ {0} /\ Cols \in Nat \ {0}
  BY Sizes
<1>2. BlankRow \in [0 .. Cols - 1 -> Char]
  BY BlankIsChar DEF BlankRow
<1> HIDE DEF BlankRow
<1>3. CASE s.row < Rows - 1
  <2>1. s.row + 1 \in 0 .. Rows - 1 /\ 0 \in 0 .. Cols - 1
    BY <1>1, <1>3, FieldsOfTerminal
  <2> QED
    BY <1>3, <2>1, WithPlace DEF NewLine
<1>4. CASE ~ (s.row < Rows - 1)
  <2> DEFINE p == [r \in 0 .. Rows - 1 |-> IF r = Rows - 1 THEN BlankRow ELSE s.page[r + 1]]
             t == [s EXCEPT !.col = 0]
  <2>0. 0 \in 0 .. Cols - 1
    BY <1>1
  <2>1. NewLine(s) = [t EXCEPT !.page = p] /\ t \in Terminal
    BY <1>4, <2>0, WithPlace, FieldsOfTerminal DEF NewLine, Terminal
  <2>2. p \in [0 .. Rows - 1 -> [0 .. Cols - 1 -> Char]]
    <3>1. \A r \in 0 .. Rows - 1 : r # Rows - 1 => r + 1 \in 0 .. Rows - 1
      BY <1>1
    <3> QED
      BY <1>2, <3>1, FieldsOfTerminal
  <2> HIDE DEF p, t
  <2> QED
    BY <2>1, <2>2, WithPage
<1> QED
  BY <1>3, <1>4

LEMMA BackTerminal ==
  ASSUME NEW s \in Terminal
  PROVE  Back(s) \in Terminal
<1>0. s.row \in 0 .. Rows - 1 /\ s.col \in 0 .. Cols - 1
  BY FieldsOfTerminal
<1> DEFINE i == s.row
           j == s.col
<1>1. Rows \in Nat \ {0} /\ Cols \in Nat \ {0} /\ i \in 0 .. Rows - 1 /\ j \in 0 .. Cols - 1
  BY <1>0, Sizes
<1> HIDE DEF i, j
<1>5. " " \in Char
  BY BlankIsChar
<1>2. CASE j > 0
  <2> DEFINE t == [s EXCEPT !.col = j - 1]
  <2>1. j - 1 \in 0 .. Cols - 1 /\ i \in 0 .. Rows - 1
    BY <1>1, <1>2
  <2>2. t \in Terminal
    BY <1>0, <2>1, WithPlace
  <2>3. Back(s) = [t EXCEPT !.page[i][j - 1] = " "]
    BY <1>2 DEF Back, i, j, Terminal
  <2> HIDE DEF t
  <2>4. [t EXCEPT !.page[i][j - 1] = " "] \in Terminal
    BY <1>5, <2>1, <2>2, WithChar
  <2> QED
    BY <2>3, <2>4
<1>3. CASE ~ (j > 0) /\ i > 0
  <2> DEFINE t == [s EXCEPT !.row = i - 1, !.col = Cols - 1]
  <2>1. i - 1 \in 0 .. Rows - 1 /\ Cols - 1 \in 0 .. Cols - 1
    BY <1>1, <1>3
  <2>2. t \in Terminal
    BY <1>0, <2>1, WithPlace
  <2>3. Back(s) = [t EXCEPT !.page[i - 1][Cols - 1] = " "]
    BY <1>3 DEF Back, i, j, Terminal
  <2> HIDE DEF t
  <2>4. [t EXCEPT !.page[i - 1][Cols - 1] = " "] \in Terminal
    BY <1>5, <2>1, <2>2, WithChar
  <2> QED
    BY <2>3, <2>4
<1>4. CASE ~ (j > 0) /\ ~ (i > 0)
  BY <1>4 DEF Back, i, j
<1> QED
  BY <1>2, <1>3, <1>4

LEMMA TypeTerminal ==
  ASSUME NEW s \in Terminal, NEW c \in Char
  PROVE  Type(s, c) \in Terminal
<1> DEFINE put == [s EXCEPT !.page[s.row][s.col] = c]
<1>1. put \in Terminal /\ put.col = s.col
  BY FieldsOfTerminal, WithChar DEF Terminal
<1>2. Type(s, c) = IF c = "LF" THEN NewLine(s)
                   ELSE IF c = "BS" THEN Back(s)
                   ELSE IF s.col = Cols - 1 THEN NewLine(put) ELSE [put EXCEPT !.col = @ + 1]
  BY DEF Type
<1> HIDE DEF put
<1>3. CASE s.col = Cols - 1 \/ c \in {"LF", "BS"}
  BY <1>1, <1>2, <1>3, NewLineTerminal, BackTerminal
<1>4. CASE s.col # Cols - 1 /\ c \notin {"LF", "BS"}
  <2>1. put.col + 1 \in 0 .. Cols - 1
    BY <1>1, <1>4, Sizes, FieldsOfTerminal
  <2>2. [put EXCEPT !.col = @ + 1] \in Terminal
    <3>1. \A j \in 0 .. Cols - 1 : [put EXCEPT !.col = j] \in Terminal
      BY <1>1 DEF Terminal
    <3> QED
      BY <2>1, <3>1
  <2> QED
    BY <1>2, <1>4, <2>2
<1> QED
  BY <1>3, <1>4

(* FoldLeft types one character after the other.                           *)
LEMMA FoldTypes ==
  ASSUME NEW s \in Terminal, NEW w \in Seq(Char)
  PROVE  \E shown \in [0 .. Len(w) -> Terminal] :
           /\ shown[0] = s
           /\ \A k \in 1 .. Len(w) : shown[k] = Type(shown[k - 1], w[k])
           /\ FoldLeft(Type, s, w) = shown[Len(w)]
<1> DEFINE n == Len(w)
           Body(f, d) == IF d = {} THEN s ELSE Type(f[d \ {Max(d)}], w[Max(d)])
           Good(f, k) == \A d \in SUBSET (1 .. k) : f[d] = Body(f, d)
           iter[d \in SUBSET (1 .. n)] == IF d = {} THEN s ELSE Type(iter[d \ {Max(d)}], w[Max(d)])
<1>1. n \in Nat /\ DOMAIN w = 1 .. n /\ \A k \in 1 .. n : w[k] \in Char
  OBVIOUS
<1>2. FoldLeft(Type, s, w) = iter[1 .. n]
  BY <1>1 DEF FoldLeft, MapThenFoldSet
<1> HIDE DEF n
<1>3. ASSUME NEW k \in Nat, NEW d \in SUBSET (1 .. k), k \in d
      PROVE  Max(d) = k
  <2>1. \A y \in d : y \in Nat /\ k >= y
    OBVIOUS
  <2>2. ASSUME NEW x \in d, \A y \in d : x >= y PROVE x = k
    <3>1. x >= k /\ k >= x /\ x \in Nat
      BY <1>3, <2>1, <2>2
    <3> QED
      BY <3>1
  <2> QED
    BY <1>3, <2>1, <2>2 DEF Max
<1>4. ASSUME NEW k \in Nat, NEW f, Good(f, k)
      PROVE  \E g : Good(g, k + 1)
  <2> DEFINE g == [d \in SUBSET (1 .. k + 1) |->
                     IF k + 1 \in d THEN Type(f[d \ {k + 1}], w[k + 1]) ELSE f[d]]
  <2>1. ASSUME NEW d \in SUBSET (1 .. k + 1) PROVE g[d] = Body(g, d)
    <3>1. CASE k + 1 \in d
      <4>1. Max(d) = k + 1 /\ d # {}
        BY <1>3, <3>1
      <4>2. d \ {k + 1} \in SUBSET (1 .. k + 1) /\ k + 1 \notin d \ {k + 1}
        OBVIOUS
      <4>3. g[d \ {k + 1}] = f[d \ {k + 1}]
        BY <4>2
      <4> QED
        BY <3>1, <4>1, <4>3
    <3>2. CASE k + 1 \notin d
      <4>1. d \in SUBSET (1 .. k) /\ g[d] = f[d]
        BY <3>2
      <4>2. d \ {Max(d)} \in SUBSET (1 .. k + 1) /\ k + 1 \notin d \ {Max(d)}
        BY <3>2
      <4>3. g[d \ {Max(d)}] = f[d \ {Max(d)}]
        BY <4>2
      <4>4. f[d] = Body(f, d)
        BY <1>4, <4>1
      <4> HIDE DEF g
      <4> QED
        BY <4>1, <4>3, <4>4
    <3> QED
      BY <3>1, <3>2
  <2> HIDE DEF g
  <2> QED
    BY <2>1
<1>5. \A k \in Nat : \E f : Good(f, k)
  <2> HIDE DEF Good
  <2> DEFINE Bad == {k \in Nat : ~ \E f : Good(f, k)}
  <2>1. ASSUME Bad # {} PROVE FALSE
    <3>1. PICK m \in Bad : \A x \in Bad : m <= x
      BY <2>1, LeastElement
    <3>2. CASE m = 0
      <4> DEFINE f == [d \in {{}} |-> s]
      <4>1. Good(f, 0)
        <5>1. ASSUME NEW d \in SUBSET (1 .. 0) PROVE d = {}
          OBVIOUS
        <5> QED
          BY <5>1 DEF Good
      <4> HIDE DEF f
      <4> QED
        BY <3>1, <3>2, <4>1
    <3>3. CASE m # 0
      <4>1. m - 1 \in Nat /\ m - 1 \notin Bad /\ (m - 1) + 1 = m
        BY <3>1, <3>3
      <4>2. PICK f : Good(f, m - 1)
        BY <4>1
      <4> QED
        BY <1>4, <3>1, <4>1, <4>2
    <3> QED
      BY <3>2, <3>3
  <2> QED
    BY <2>1
<1>6. iter = [d \in SUBSET (1 .. n) |-> Body(iter, d)]
  <2>1. PICK f : Good(f, n)
    BY <1>1, <1>5
  <2> DEFINE g == [d \in SUBSET (1 .. n) |-> f[d]]
  <2>2. ASSUME NEW d \in SUBSET (1 .. n) PROVE g[d] = Body(g, d)
    <3>1. d \ {Max(d)} \in SUBSET (1 .. n)
      OBVIOUS
    <3>2. g[d \ {Max(d)}] = f[d \ {Max(d)}] /\ g[d] = f[d]
      BY <3>1
    <3> HIDE DEF g
    <3> QED
      BY <2>1, <3>2
  <2>3. g = [d \in SUBSET (1 .. n) |-> IF d = {} THEN s ELSE Type(g[d \ {Max(d)}], w[Max(d)])]
    <3>1. g = [d \in SUBSET (1 .. n) |-> g[d]]
      OBVIOUS
    <3> HIDE DEF g
    <3> QED
      BY <2>2, <3>1
  <2>4. \E h : h = [d \in SUBSET (1 .. n) |-> IF d = {} THEN s ELSE Type(h[d \ {Max(d)}], w[Max(d)])]
    <3> HIDE DEF g
    <3> QED BY <2>3
  <2> QED
    BY <2>4
<1> DEFINE shown == [k \in 0 .. n |-> iter[1 .. k]]
<1> HIDE DEF iter
<1>7. shown[0] = s
  <2>1. 1 .. 0 = {} /\ 1 .. 0 \in SUBSET (1 .. n)
    OBVIOUS
  <2> QED
    BY <1>1, <1>6, <2>1
<1>8. ASSUME NEW k \in 1 .. n PROVE shown[k] = Type(shown[k - 1], w[k])
  <2>0. /\ 1 .. k \in SUBSET (1 .. n) /\ k \in 1 .. k /\ k \in Nat
        /\ k \in 0 .. n /\ k - 1 \in 0 .. n
    BY <1>1
  <2>1. (1 .. k) \ {k} = 1 .. k - 1 /\ 1 .. k # {}
    BY <2>0
  <2>2. Max(1 .. k) = k
    BY <1>3, <2>0
  <2>3. iter[1 .. k] = Type(iter[1 .. k - 1], w[k])
    BY <1>6, <2>0, <2>1, <2>2
  <2> QED
    BY <2>0, <2>3
<1>9. ASSUME NEW k \in 0 .. n PROVE shown[k] \in Terminal
  <2> DEFINE Bad == {i \in 0 .. n : shown[i] \notin Terminal}
  <2> HIDE DEF shown
  <2>1. ASSUME Bad # {} PROVE FALSE
    <3>1. PICK m \in Bad : \A x \in Bad : m <= x
      <4>1. Bad \in SUBSET Nat
        BY <1>1
      <4> HIDE DEF Bad
      <4> QED BY <2>1, <4>1, LeastElement
    <3>2. m # 0 /\ m \in 1 .. n
      BY <1>1, <1>7, <3>1
    <3>3. m - 1 \notin Bad /\ m - 1 \in 0 .. n
      BY <1>1, <3>1, <3>2
    <3> QED
      BY <1>1, <1>8, <3>1, <3>2, <3>3, TypeTerminal
  <2> QED
    BY <2>1
<1>10. shown \in [0 .. n -> Terminal] /\ FoldLeft(Type, s, w) = shown[n]
  BY <1>1, <1>2, <1>9
<1> HIDE DEF shown
<1> QED
  BY <1>7, <1>8, <1>10 DEF n

(* What the recursive function of Numeral answers is a text: functions on  *)
(* the numbers up to k that obey its equation exist for every k, two of    *)
(* them agree where both are defined, and so one on all numbers exists.    *)
NumeralOf(f, k) == IF k < Base THEN <<Digit(k)>> ELSE Append(f[k \div Base], Digit(k % Base))
Numerals(f, n) == f \in [0 .. n -> Seq(Char)] /\ \A k \in 0 .. n : f[k] = NumeralOf(f, k)

LEMMA Smaller ==
  ASSUME NEW k \in Nat, Base <= k
  PROVE  k \div Base \in 0 .. k - 1 /\ k % Base \in 0 .. 15
<1>1. Base \in Nat \ {0} /\ Base > 1 /\ Base <= 16
  BY ScreenAssumption DEF ScreenAssumption
<1> DEFINE q == k \div Base
           r == k % Base
<1>2. q \in Nat /\ r \in 0 .. Base - 1 /\ k = (Base * q) + r
  BY <1>1, DivMod
<1> HIDE DEF q, r
<1>3. q >= 1
  BY <1>1, <1>2
<1>4. Base * q = (Base - 1) * q + q /\ (Base - 1) * q \in Nat /\ (Base - 1) * q >= q
  <2>1. PICK d \in Nat : Base = 2 + d
    BY <1>1
  <2>2. Base * q = 2 * q + d * q /\ d * q \in Nat /\ (Base - 1) * q = q + d * q
    BY <1>2, <2>1
  <2> QED
    BY <1>2, <2>2
<1>5. q < k
  BY <1>2, <1>3, <1>4
<1> QED
  BY <1>1, <1>2, <1>5 DEF q, r

LEMMA NumeralIsText ==
  ASSUME NEW k \in Nat, NEW f, Base <= k => f[k \div Base] \in Seq(Char)
  PROVE  NumeralOf(f, k) \in Seq(Char)
<1>1. CASE k < Base
  <2>1. k \in 0 .. 15
    BY <1>1, ScreenAssumption DEF ScreenAssumption
  <2> QED
    BY <1>1, <2>1, DigitIsChar DEF NumeralOf
<1>2. CASE ~ (k < Base)
  <2>1. Base <= k
    BY <1>2, ScreenAssumption DEF ScreenAssumption
  <2>2. Digit(k % Base) \in Char
    BY <2>1, Smaller, DigitIsChar
  <2> QED
    BY <1>2, <2>1, <2>2 DEF NumeralOf
<1> QED
  BY <1>1, <1>2

LEMMA NumeralsAgree ==
  ASSUME NEW n \in Nat, NEW m \in Nat, NEW f, NEW g, Numerals(f, n), Numerals(g, m),
         NEW k \in Nat, k <= n, k <= m
  PROVE  f[k] = g[k]
<1> DEFINE Bad == {i \in Nat : i <= n /\ i <= m /\ f[i] # g[i]}
<1>1. ASSUME Bad # {} PROVE FALSE
  <2>1. PICK i \in Bad : \A x \in Bad : i <= x
    BY <1>1, LeastElement
  <2>2. f[i] = NumeralOf(f, i) /\ g[i] = NumeralOf(g, i)
    BY DEF Numerals
  <2>3. CASE i < Base
    BY <2>1, <2>2, <2>3 DEF NumeralOf
  <2>4. CASE ~ (i < Base)
    <3>1. Base <= i
      BY <2>4, ScreenAssumption DEF ScreenAssumption
    <3> DEFINE q == i \div Base
    <3>2. q \in 0 .. i - 1
      BY <3>1, Smaller
    <3> HIDE DEF q
    <3>3. q \notin Bad
      BY <2>1, <3>2
    <3>4. f[q] = g[q]
      BY <2>1, <3>2, <3>3
    <3> QED
      BY <2>1, <2>2, <2>4, <3>4 DEF NumeralOf, q
  <2> QED
    BY <2>3, <2>4
<1> QED
  BY <1>1

LEMMA NumeralsExist == \A n \in Nat : \E f : Numerals(f, n)
<1> DEFINE Bad == {n \in Nat : ~ \E f : Numerals(f, n)}
<1>1. ASSUME Bad # {} PROVE FALSE
  <2>1. PICK n \in Bad : \A x \in Bad : n <= x
    BY <1>1, LeastElement
  <2>2. \E f : n # 0 => Numerals(f, n - 1)
    <3>1. n # 0 => n - 1 \in Nat /\ n - 1 \notin Bad
      BY <2>1
    <3> QED
      BY <3>1
  <2>3. PICK f : n # 0 => Numerals(f, n - 1)
    BY <2>2
  <2> DEFINE g == [k \in 0 .. n |-> IF k = n THEN NumeralOf(f, n) ELSE f[k]]
  <2>4. ASSUME NEW k \in 0 .. n PROVE NumeralOf(f, k) = NumeralOf(g, k)
    <3>1. CASE k < Base
      BY <3>1 DEF NumeralOf
    <3>2. CASE ~ (k < Base)
      <4> DEFINE q == k \div Base
      <4>1. Base <= k
        BY <3>2, ScreenAssumption DEF ScreenAssumption
      <4>2. q \in 0 .. k - 1
        BY <4>1, Smaller
      <4> HIDE DEF q
      <4>3. g[q] = f[q]
        BY <4>2
      <4> HIDE DEF g
      <4> QED
        BY <3>2, <4>3 DEF NumeralOf, q
    <3> QED
      BY <3>1, <3>2
  <2>5. ASSUME NEW k \in 0 .. n PROVE NumeralOf(f, k) \in Seq(Char)
    <3>1. Base <= k => f[k \div Base] \in Seq(Char)
      <4> SUFFICES ASSUME Base <= k PROVE f[k \div Base] \in Seq(Char)
        OBVIOUS
      <4> DEFINE q == k \div Base
      <4>1. q \in 0 .. k - 1
        BY Smaller
      <4> HIDE DEF q
      <4>2. n # 0 /\ q \in 0 .. n - 1
        BY <4>1
      <4> QED
        BY <2>3, <4>2 DEF Numerals, q
    <3> QED
      BY <3>1, NumeralIsText
  <2>6. ASSUME NEW k \in 0 .. n PROVE g[k] = NumeralOf(f, k)
    <3>1. k # n => n # 0 /\ k \in 0 .. n - 1
      OBVIOUS
    <3> QED
      BY <2>3, <3>1 DEF Numerals
  <2> HIDE DEF g
  <2>7. g \in [0 .. n -> Seq(Char)]
    <3>1. \A k \in 0 .. n : g[k] \in Seq(Char)
      BY <2>5, <2>6
    <3> QED
      BY <3>1 DEF g
  <2>8. Numerals(g, n)
    BY <2>4, <2>6, <2>7 DEF Numerals
  <2> QED
    BY <2>1, <2>8
<1> QED
  BY <1>1

LEMMA NumeralText ==
  ASSUME NEW n \in Nat
  PROVE  /\ Numeral(n) \in Seq(Char)
         /\ n < Base => Numeral(n) = <<Digit(n)>>
         /\ Base <= n => Numeral(n) = Append(Numeral(n \div Base), Digit(n % Base))
<1> DEFINE F == [k \in Nat |-> (CHOOSE f : Numerals(f, k))[k]]
           num_of[k \in Nat] == IF k < Base THEN <<Digit(k)>>
                                ELSE Append(num_of[k \div Base], Digit(k % Base))
<1>1. ASSUME NEW k \in Nat PROVE F[k] \in Seq(Char) /\ F[k] = NumeralOf(F, k)
  <2> DEFINE f == CHOOSE f : Numerals(f, k)
  <2>1. Numerals(f, k) /\ F[k] = f[k]
    BY NumeralsExist
  <2> HIDE DEF f
  <2>2. F[k] \in Seq(Char) /\ F[k] = NumeralOf(f, k)
    BY <2>1 DEF Numerals
  <2>3. NumeralOf(f, k) = NumeralOf(F, k)
    <3>1. CASE k < Base
      BY <3>1 DEF NumeralOf
    <3>2. CASE ~ (k < Base)
      <4> DEFINE q == k \div Base
                 g == CHOOSE g : Numerals(g, q)
      <4>1. Base <= k
        BY <3>2, ScreenAssumption DEF ScreenAssumption
      <4>2. q \in Nat /\ q <= k
        BY <4>1, Smaller
      <4> HIDE DEF q
      <4>3. Numerals(g, q) /\ F[q] = g[q]
        BY <4>2, NumeralsExist
      <4> HIDE DEF g
      <4>4. f[q] = g[q]
        BY <2>1, <4>2, <4>3, NumeralsAgree
      <4> HIDE DEF F
      <4> QED
        BY <3>2, <4>3, <4>4 DEF NumeralOf, q
    <3> QED
      BY <3>1, <3>2
  <2> QED
    BY <2>2, <2>3
<1>2. F = [k \in Nat |-> IF k < Base THEN <<Digit(k)>> ELSE Append(F[k \div Base], Digit(k % Base))]
  <2>1. F = [k \in Nat |-> F[k]]
    OBVIOUS
  <2> HIDE DEF F
  <2> QED
    BY <1>1, <2>1 DEF NumeralOf
<1>3. \E f : f = [k \in Nat |-> IF k < Base THEN <<Digit(k)>> ELSE Append(f[k \div Base], Digit(k % Base))]
  <2> HIDE DEF F
  <2> QED BY <1>2
<1>4. num_of = [k \in Nat |-> IF k < Base THEN <<Digit(k)>> ELSE Append(num_of[k \div Base], Digit(k % Base))]
  BY <1>3
<1>5. Numeral(n) = num_of[n] /\ Numeral(n \div Base) = num_of[n \div Base]
  BY DEF Numeral
<1> HIDE DEF num_of
<1> DEFINE Bad == {k \in Nat : num_of[k] \notin Seq(Char)}
<1>6. ASSUME Bad # {} PROVE FALSE
  <2>1. PICK k \in Bad : \A x \in Bad : k <= x
    BY <1>6, LeastElement
  <2>2. num_of[k] = NumeralOf(num_of, k)
    BY <1>4, <2>1 DEF NumeralOf
  <2>3. Base <= k => num_of[k \div Base] \in Seq(Char)
    <3> SUFFICES ASSUME Base <= k PROVE num_of[k \div Base] \in Seq(Char)
      OBVIOUS
    <3> DEFINE q == k \div Base
    <3>1. q \in 0 .. k - 1
      BY <2>1, Smaller
    <3> HIDE DEF q
    <3>2. q \in Nat /\ q \notin Bad
      BY <2>1, <3>1
    <3> QED
      BY <3>2 DEF q
  <2> QED
    BY <2>1, <2>2, <2>3, NumeralIsText
<1>7. num_of[n] = IF n < Base THEN <<Digit(n)>> ELSE Append(num_of[n \div Base], Digit(n % Base))
  BY <1>4
<1>8. Base <= n => ~ (n < Base)
  BY ScreenAssumption DEF ScreenAssumption
<1> QED
  BY <1>5, <1>6, <1>7, <1>8

LEMMA NumbersAreNat == Numbers \subseteq Nat
<1> DEFINE X == Power[Digits] - 1
<1>1. Numbers \subseteq 0 .. X
  BY ScreenAssumption DEF ScreenAssumption
<1> HIDE DEF X
<1> QED
  BY <1>1

LEMMA SaidIsText ==
  ASSUME NEW job \in Job
  PROVE  Said(job) \in Seq(Char) /\ job.str \in Seq(Char)
<1>1. ScreenAssumption
  BY ScreenAssumption
<1>2. job.str \in Seq(Char)
  <2>1. \A w \in Seq(Char \ {"BS"}) : w \in Seq(Char)
    OBVIOUS
  <2>2. Strings \subseteq Seq(Char)
    BY <1>1, <2>1 DEF ScreenAssumption
  <2>3. <<>> \in Seq(Char)
    OBVIOUS
  <2>4. job.str \in Strings \union {<<>>}
    BY DEF Job
  <2> QED
    BY <2>2, <2>3, <2>4
<1>3. job.num # -1 => job.num \in Nat
  <2>1. job.num \in Numbers \union {-1}
    BY DEF Job
  <2> QED
    BY <2>1, NumbersAreNat
<1> QED
  BY <1>2, <1>3, NumeralText DEF Said

-----------------------------------------------------------------------------
(* Where the cursor is while a thread is inside put_char or put_int.       *)
Places(t) ==
  /\ pc[t] = "fill" => edi[t] \in 0 .. Digits - 1 /\ num[t] \in Nat
  /\ pc[t] = "digit" => edi[t] \in 0 .. Digits
  /\ pc[t] \in {"select_lo", "in_lo"} => bx[t] = crt["hi"]
  /\ pc[t] = "store" => bx[t] = Cursor
  /\ pc[t] = "roll" => bx[t] \in 0 .. Size - Cols - 1
  /\ pc[t] = "cls" => bx[t] \in Size - Cols .. Size - 1
  /\ pc[t] \in {"set_hi", "out_hi", "set_lo", "out_lo"} => bx[t] \in 0 .. Size - 1
  /\ pc[t] \in {"set_lo", "out_lo"} => crt["hi"] = bx[t] \div Byte

ScreenInv ==
  /\ TypeOK /\ IndexInv
  /\ CursorOnScreen /\ FaultsAtOrigin
  /\ \A t \in Thread : Places(t)

(* There is a function that Power's equation defines: on the numbers up to *)
(* n it exists for every n.                                                *)
LEMMA Powers ==
  /\ Power[0] = 1
  /\ \A k \in 1 .. Digits : Power[k] = Base * Power[k - 1]
  /\ \A k \in 0 .. Digits : Power[k] \in Nat
<1>1. Digits \in Nat /\ Base \in Nat
  BY ScreenAssumption DEF ScreenAssumption
<1> DEFINE Obeys(f, n) == f = [k \in 0 .. n |-> IF k = 0 THEN 1 ELSE Base * f[k - 1]]
           Bad == {n \in Nat : ~ \E f : Obeys(f, n)}
<1>2. ASSUME Bad # {} PROVE FALSE
  <2>1. PICK n \in Bad : \A x \in Bad : n <= x
    <3>1. Bad \in SUBSET Nat
      OBVIOUS
    <3> HIDE DEF Bad
    <3> QED
      BY <1>2, <3>1, LeastElement
  <2>2. CASE n = 0
    <3> DEFINE f == [k \in 0 .. 0 |-> 1]
    <3>1. Obeys(f, 0)
      OBVIOUS
    <3> QED
      BY <2>1, <2>2, <3>1
  <2>3. CASE n # 0
    <3>1. n - 1 \in Nat /\ \E f : Obeys(f, n - 1)
      <4> HIDE DEF Obeys
      <4>1. n - 1 \in Nat /\ n - 1 \notin Bad
        BY <2>1, <2>3
      <4> QED
        BY <4>1
    <3>2. PICK f : Obeys(f, n - 1)
      BY <3>1
    <3> DEFINE g == [k \in 0 .. n |-> IF k = 0 THEN 1 ELSE Base * f[k - 1]]
    <3>3. ASSUME NEW k \in 0 .. n PROVE g[k] = IF k = 0 THEN 1 ELSE Base * g[k - 1]
      <4>1. k # 0 => k - 1 \in 0 .. n - 1 /\ k - 1 \in 0 .. n
        BY <3>1
      <4>2. k # 0 => g[k - 1] = f[k - 1]
        BY <3>2, <4>1
      <4> QED
        BY <4>2
    <3>4. g = [k \in 0 .. n |-> g[k]]
      OBVIOUS
    <3> HIDE DEF g
    <3>5. Obeys(g, n)
      BY <3>3, <3>4
    <3> HIDE DEF Obeys
    <3> QED
      BY <2>1, <3>5
  <2> QED
    BY <2>2, <2>3
<1>3. \E f : Obeys(f, Digits)
  BY <1>1, <1>2
<1>4. Power = [k \in 0 .. Digits |-> IF k = 0 THEN 1 ELSE Base * Power[k - 1]]
  BY <1>3 DEF Power
<1>5. /\ Power[0] = 1
      /\ \A k \in 1 .. Digits : Power[k] = Base * Power[k - 1]
  BY <1>1, <1>4
<1> DEFINE Odd == {k \in 0 .. Digits : Power[k] \notin Nat}
<1>6. ASSUME Odd # {} PROVE FALSE
  <2>1. PICK k \in Odd : \A x \in Odd : k <= x
    <3>1. Odd \in SUBSET Nat
      BY <1>1
    <3> HIDE DEF Odd
    <3> QED
      BY <1>6, <3>1, LeastElement
  <2>2. k # 0 /\ k \in 1 .. Digits
    BY <1>1, <1>5, <2>1
  <2>3. k - 1 \notin Odd /\ k - 1 \in 0 .. Digits
    BY <1>1, <2>1, <2>2
  <2>4. Power[k - 1] \in Nat
    BY <2>3
  <2> QED
    BY <1>1, <1>5, <2>1, <2>2, <2>4
<1> QED
  BY <1>5, <1>6

LEMMA Constants ==
  /\ {Size, Cols, Word, Byte, Segment, Digits} \subseteq Nat \ {0}
  /\ 2 * Cols <= Size /\ Size <= Segment /\ Size < Word /\ Byte <= Word
  /\ Cell = 0 .. Segment - 1
  /\ Power[Digits] - 1 \in Int
<1>1. {Byte, Digits} \subseteq Nat \ {0} /\ Base \in Nat \ {0}
  BY ScreenAssumption DEF ScreenAssumption
<1>2. PICK d \in Nat : Byte = 1 + d
  BY <1>1
<1>3. Byte <= Word
  <2>1. Byte * Byte = Byte + d * Byte /\ d * Byte \in Nat
    BY <1>1, <1>2
  <2> QED
    BY <1>1, <2>1 DEF Word
<1>4. Power[Digits] \in Nat
  BY <1>1, Powers
<1>5. Power[Digits] - 1 \in Int
  <2> DEFINE X == Power[Digits]
  <2>1. X \in Nat
    BY <1>4
  <2> HIDE DEF X
  <2>2. X - 1 \in Int
    BY <2>1
  <2> QED
    BY <2>2 DEF X
<1>6. /\ {Size, Cols, Segment, Word, Half} \subseteq Nat \ {0}
      /\ 2 * Cols <= Size /\ Size <= Segment /\ Size < Word
  <2>1. /\ {Size, Cols, Segment, Word, Half} \subseteq Nat \ {0}
        /\ Word = 2 * Half /\ 2 * Cols <= Size /\ Size <= Segment /\ Size + Cols < Half
    BY Sizes
  <2> QED
    BY <2>1
<1> QED
  BY <1>1, <1>3, <1>5, <1>6 DEF Cell

(* A step of the thread inside that leaves crt alone.                      *)
LEMMA InsideStep ==
  ASSUME NEW t \in Thread, ScreenInv, pc[t] # "idle", NEW l \in PC, Goto(t, l),
         UNCHANGED <<crt, halted>>,
         pc[t] \in {"set_hi", "out_hi", "set_lo", "out_lo"} =>
           l \in {"set_hi", "out_hi", "set_lo", "out_lo"}
  PROVE  /\ pc'[t] = l
         /\ CursorOnScreen' /\ FaultsAtOrigin'
         /\ Places(t)' => \A u \in Thread : Places(u)'
<1>1. pc' \in [Thread -> PC] /\ pc'[t] = l /\ \A u \in Thread \ {t} : pc'[u] = pc[u]
  BY DEF ScreenInv, TypeOK, Goto
<1>2. \A u \in Thread \ {t} : pc'[u] = "idle" /\ pc[u] = "idle"
  BY <1>1, OneInside DEF ScreenInv, IndexInv
<1>3. \A u \in Thread \ {t} : Places(u)'
  BY <1>2 DEF Places
<1>4. Writing' = {} => Writing = {}
  BY <1>1, <1>2 DEF Writing
<1>5. CursorOnScreen' /\ FaultsAtOrigin'
  BY <1>4 DEF ScreenInv, CursorOnScreen, FaultsAtOrigin, Cursor
<1> QED
  BY <1>1, <1>3, <1>5

(* A cursor on the screen, as a sum of bytes.                              *)
LEMMA CursorBytes ==
  ASSUME NEW b \in 0 .. Size - 1, NEW f, f = [hi |-> b \div Byte, lo |-> b % Byte]
  PROVE  /\ f \in [{"hi", "lo"} -> 0 .. Byte - 1]
         /\ f.hi = b \div Byte /\ f.hi * Byte + f.lo = b
<1>1. b \in 0 .. Word - 1
  BY Constants
<1>2. /\ b \div Byte \in 0 .. Byte - 1 /\ b % Byte \in 0 .. Byte - 1
      /\ (b \div Byte) * Byte + (b % Byte) = b
  BY <1>1, TwoBytes
<1>3. f = [k \in {"hi", "lo"} |-> IF k = "hi" THEN b \div Byte ELSE b % Byte]
  OBVIOUS
<1>4. f["hi"] = b \div Byte /\ f["lo"] = b % Byte
  OBVIOUS
<1> QED
  BY <1>2, <1>3, <1>4

LEMMA ScreenInit == Init => ScreenInv
<1> SUFFICES ASSUME Init PROVE ScreenInv
  OBVIOUS
<1>1. PICK c \in 0 .. Size - 1 :
        /\ crt = [hi |-> c \div Byte, lo |-> c % Byte]
        /\ term = [row |-> c \div Cols, col |-> c % Cols,
                   page |-> [r \in 0 .. Rows - 1 |-> BlankRow]]
  BY DEF Init
<1>2. crt \in [{"hi", "lo"} -> 0 .. Byte - 1] /\ Cursor = c
  BY <1>1, CursorBytes DEF Cursor
<1>3. term \in Terminal
  <2>1. Cols \in Nat \ {0} /\ Rows \in Nat \ {0} /\ c \in Nat /\ c < Cols * Rows
    BY Sizes
  <2> DEFINE q == c \div Cols
             m == c % Cols
  <2>2. q \in Nat /\ m \in 0 .. Cols - 1 /\ c = (Cols * q) + m
    BY <2>1, DivMod
  <2> HIDE DEF q, m
  <2>3. q < Rows
    <3> SUFFICES ASSUME Rows <= q PROVE FALSE
      BY <2>1, <2>2
    <3>1. PICK d \in Nat : q = Rows + d
      BY <2>1, <2>2
    <3>2. Cols * q = Cols * Rows + Cols * d /\ Cols * d \in Nat
      BY <2>1, <3>1
    <3> QED
      BY <2>1, <2>2, <3>2
  <2>4. q \in 0 .. Rows - 1
    BY <2>1, <2>2, <2>3
  <2>5. BlankRow \in [0 .. Cols - 1 -> Char]
    BY BlankIsChar DEF BlankRow
  <2>6. [r \in 0 .. Rows - 1 |-> BlankRow] \in [0 .. Rows - 1 -> [0 .. Cols - 1 -> Char]]
    BY <2>5
  <2> QED
    BY <1>1, <2>2, <2>4, <2>6 DEF Terminal, q, m
<1>4. IndexInv
  <2>1. NoThread \notin Thread
    BY ScreenAssumption DEF ScreenAssumption
  <2> QED
    BY <2>1 DEF Init, Console!Init, IndexInv, LockHeld, Holding, IndexHeld, PC
<1>5. video \in [Cell -> Char] /\ buffer \in [0 .. Digits - 1 -> Char]
  <2>1. " " \in Char /\ "0" \in Char
    BY BlankIsChar
  <2> QED
    BY <2>1 DEF Init
<1>6. /\ cl \in [Thread -> Char] /\ rest \in [Thread -> Seq(Char)]
      /\ edi \in [Thread -> 0 .. Digits + 1] /\ bx \in [Thread -> 0 .. Word - 1]
      /\ num \in [Thread -> {-1} \union 0 .. Power[Digits] - 1]
  <2>1. " " \in Char
    BY BlankIsChar
  <2>2. <<>> \in Seq(Char)
    OBVIOUS
  <2>3. 0 \in 0 .. Digits + 1 /\ 0 \in 0 .. Word - 1
    BY Constants
  <2> QED
    BY <2>1, <2>2, <2>3 DEF Init
<1>7. TypeOK
  BY <1>2, <1>3, <1>4, <1>5, <1>6 DEF TypeOK, IndexInv, LockHeld, Init
<1>8. CursorOnScreen /\ FaultsAtOrigin /\ \A t \in Thread : Places(t)
  <2>1. Cursor < Size
    BY <1>1, <1>2, Constants
  <2> QED
    BY <2>1 DEF Init, CursorOnScreen, FaultsAtOrigin, Places
<1> QED
  BY <1>4, <1>7, <1>8 DEF ScreenInv

(* The part of TypeOK that IndexInv does not say.                          *)
DataOK ==
  /\ crt \in [{"hi", "lo"} -> 0 .. Byte - 1]
  /\ video \in [Cell -> Char]
  /\ buffer \in [0 .. Digits - 1 -> Char]
  /\ rest \in [Thread -> Seq(Char)]
  /\ num \in [Thread -> {-1} \union 0 .. Power[Digits] - 1]
  /\ edi \in [Thread -> 0 .. Digits + 1]
  /\ cl \in [Thread -> Char]
  /\ bx \in [Thread -> 0 .. Word - 1]
  /\ halted \in BOOLEAN
  /\ term \in Terminal

CursorInv == DataOK /\ CursorOnScreen /\ FaultsAtOrigin /\ \A t \in Thread : Places(t)

LEMMA CallCursor ==
  ASSUME NEW t \in Thread, NEW job \in Job, ScreenInv, Call(t, job)
  PROVE  CursorInv'
<1>1. TypeOK /\ LockHeld /\ pc[t] = "idle"
  BY DEF ScreenInv, IndexInv, Call, Begin, At
<1> DEFINE l == IF job.num = -1 THEN "next" ELSE "fill"
<1>2. Console!Acquire(t, "console") /\ l \in PC /\ l # "idle" /\ Goto(t, l)
  BY DEF Call, Begin, PC
<1>3. pc'[t] = l /\ \A u \in Thread \ {t} : pc'[u] = "idle" /\ pc[u] = "idle"
  <2> HIDE DEF l
  <2> QED BY <1>1, <1>2, Acquires
<1>4. job.num \in {-1} \union 0 .. Power[Digits] - 1
  BY ScreenAssumption DEF Job, ScreenAssumption
<1>5. Digits - 1 \in 0 .. Digits + 1 /\ Digits - 1 \in 0 .. Digits - 1
  BY Constants
<1>6. term' \in Terminal
  <2>1. term \in Terminal /\ Said(job) \in Seq(Char) /\ term' = FoldLeft(Type, term, Said(job))
    BY <1>1, SaidIsText DEF TypeOK, Call, Begin
  <2>2. PICK shown \in [0 .. Len(Said(job)) -> Terminal] : term' = shown[Len(Said(job))]
    BY <2>1, FoldTypes
  <2>3. Len(Said(job)) \in 0 .. Len(Said(job))
    BY <2>1
  <2> QED
    BY <2>2, <2>3
<1>7. DataOK'
  <2>1. job.str \in Seq(Char)
    BY SaidIsText
  <2> QED
    BY <1>1, <1>4, <1>5, <1>6, <2>1 DEF DataOK, TypeOK, Call, Begin, device
<1>8. \A u \in Thread : Places(u)'
  <2>1. job.num = -1 \/ job.num \in Nat
    BY NumbersAreNat DEF Job
  <2>2. edi'[t] = Digits - 1 /\ num'[t] = job.num
    BY <1>1 DEF TypeOK, Call, Begin
  <2>3. Places(t)'
    BY <1>3, <1>5, <2>1, <2>2 DEF Places
  <2> QED
    BY <1>3, <2>3 DEF Places
<1>9. CursorOnScreen' /\ FaultsAtOrigin'
  <2>1. Writing = {}
    BY <1>1, <1>3 DEF Writing
  <2> QED
    BY <2>1 DEF ScreenInv, CursorOnScreen, FaultsAtOrigin, Cursor, Call, Begin, device
<1> QED
  BY <1>7, <1>8, <1>9 DEF CursorInv

LEMMA NextCharCursor ==
  ASSUME NEW t \in Thread, ScreenInv, NextChar(t)
  PROVE  CursorInv'
<1>1. TypeOK /\ LockHeld /\ pc[t] = "next"
  BY DEF ScreenInv, IndexInv, NextChar, At
<1>2. CASE rest[t] = <<>>
  <2>1. Return(t)
    BY <1>2 DEF NextChar
  <2>2. \A u \in Thread : pc'[u] = "idle"
    BY <1>1, <2>1, Releases DEF Return
  <2>3. DataOK'
    <3>1. " " \in Char
      BY BlankIsChar
    <3>2. 0 \in 0 .. Digits + 1 /\ 0 \in 0 .. Word - 1
      BY Constants
    <3> QED
      BY <1>1, <2>1, <3>1, <3>2 DEF DataOK, TypeOK, Return, device
  <2>4. \A u \in Thread : Places(u)'
    BY <2>2 DEF Places
  <2>5. Writing = {}
    BY <1>1, OneInside DEF Writing
  <2>6. CursorOnScreen' /\ FaultsAtOrigin'
    BY <2>1, <2>5 DEF ScreenInv, CursorOnScreen, FaultsAtOrigin, Cursor, Return, device
  <2> QED
    BY <2>3, <2>4, <2>6 DEF CursorInv
<1>3. CASE rest[t] # <<>>
  <2>1. DataOK'
    <3>1. rest[t] \in Seq(Char)
      BY <1>1 DEF TypeOK
    <3>2. Head(rest[t]) \in Char /\ Tail(rest[t]) \in Seq(Char)
      BY <1>3, <3>1
    <3> QED
      BY <1>1, <1>3, <3>2 DEF DataOK, TypeOK, NextChar, device
  <2>2. /\ pc'[t] = "select_hi" /\ CursorOnScreen' /\ FaultsAtOrigin'
        /\ Places(t)' => \A u \in Thread : Places(u)'
    <3>1. Goto(t, "select_hi") /\ UNCHANGED <<crt, halted>>
      BY <1>3 DEF NextChar, device
    <3> QED
      BY <1>1, <3>1, InsideStep DEF PC
  <2>3. Places(t)'
    BY <2>2 DEF Places
  <2> QED
    BY <2>1, <2>2, <2>3 DEF CursorInv
<1> QED
  BY <1>2, <1>3

LEMMA FillCursor ==
  ASSUME NEW t \in Thread, ScreenInv, FillDigit(t)
  PROVE  CursorInv'
<1> DEFINE X == Power[Digits] - 1
           n == num[t]
           e == edi[t]
<1>1. TypeOK /\ LockHeld /\ pc[t] = "fill"
  BY DEF ScreenInv, IndexInv, FillDigit, Fill, At
<1>2. e \in 0 .. Digits - 1 /\ n \in Nat /\ n \in {-1} \union 0 .. X
  BY <1>1 DEF ScreenInv, Places, TypeOK
<1>3. Base \in Nat \ {0} /\ Base <= 16 /\ X \in Int /\ Digits \in Nat
  <2>1. Base \in Nat \ {0} /\ Base <= 16
    BY ScreenAssumption DEF ScreenAssumption
  <2>2. X \in Int
    BY Constants
  <2>3. Digits \in Nat
    BY Constants
  <2> QED
    BY <2>1, <2>2, <2>3
<1> DEFINE q == n \div Base
           r == n % Base
<1>4. q \in 0 .. X /\ r \in 0 .. 15
  <2> HIDE DEF X, n
  <2>1. q \in Nat /\ r \in 0 .. Base - 1 /\ n = (Base * q) + r
    BY <1>2, <1>3, DivMod
  <2> HIDE DEF q, r
  <2>2. q <= n
    <3>1. PICK d \in Nat : Base = 1 + d
      BY <1>3
    <3>2. Base * q = q + d * q /\ d * q \in Nat
      BY <2>1, <3>1
    <3> QED
      BY <2>1, <3>2
  <2> QED
    BY <1>2, <1>3, <2>1, <2>2
<1>5. Digit(r) \in Char
  BY <1>4, DigitIsChar
<1> DEFINE f == IF e = 0 THEN 0 ELSE e - 1
           l == IF e = 0 THEN "skip" ELSE "fill"
<1>6. /\ buffer' = [buffer EXCEPT ![e] = Digit(r)]
      /\ num' = [num EXCEPT ![t] = q]
      /\ edi' = [edi EXCEPT ![t] = f]
      /\ Goto(t, l)
      /\ UNCHANGED <<crt, video, rest, cl, bx, halted, term>>
  BY DEF FillDigit, Fill, device
<1> HIDE DEF X, n, e, q, r
<1>7. f \in 0 .. Digits + 1 /\ l \in PC /\ (l = "fill" => f \in 0 .. Digits - 1)
  BY <1>2, <1>3 DEF PC
<1> HIDE DEF f, l
<1>8. DataOK'
  <2>1. q \in {-1} \union 0 .. Power[Digits] - 1
    BY <1>4 DEF X
  <2> QED
    BY <1>1, <1>2, <1>5, <1>6, <1>7, <2>1 DEF DataOK, TypeOK
<1>9. /\ pc'[t] = l /\ CursorOnScreen' /\ FaultsAtOrigin'
      /\ Places(t)' => \A u \in Thread : Places(u)'
  BY <1>1, <1>6, <1>7, InsideStep
<1>10. Places(t)'
  <2>1. edi'[t] = f /\ num'[t] = q /\ q \in Nat
    BY <1>1, <1>4, <1>6 DEF TypeOK
  <2>2. l \in {"skip", "fill"}
    BY DEF l
  <2> QED
    BY <1>7, <1>9, <2>1, <2>2 DEF Places
<1> QED
  BY <1>8, <1>9, <1>10 DEF CursorInv

LEMMA SkipZerosCursor ==
  ASSUME NEW t \in Thread, ScreenInv, SkipZeros(t)
  PROVE  CursorInv'
<1> DEFINE S == {i \in 0 .. Digits - 1 : buffer[i] # "0"} \union {Digits}
           e == Min(S)
<1>1. TypeOK /\ LockHeld /\ pc[t] = "skip" /\ Goto(t, "digit")
  BY DEF ScreenInv, IndexInv, SkipZeros, At
<1>2. Digits \in Nat
  BY Constants
<1>3. e \in S
  <2>1. S \in SUBSET Nat /\ S # {}
    BY <1>2
  <2> HIDE DEF S
  <2> QED BY <2>1, LeastElement
<1>4. e \in 0 .. Digits /\ e \in 0 .. Digits + 1
  BY <1>2, <1>3
<1>5. /\ edi' = [edi EXCEPT ![t] = e]
      /\ UNCHANGED <<crt, video, buffer, rest, num, cl, bx, halted, term>>
  BY DEF SkipZeros, device
<1> HIDE DEF e
<1>6. DataOK'
  BY <1>1, <1>4, <1>5 DEF DataOK, TypeOK
<1>7. /\ pc'[t] = "digit" /\ CursorOnScreen' /\ FaultsAtOrigin'
      /\ Places(t)' => \A u \in Thread : Places(u)'
  BY <1>1, <1>5, InsideStep DEF PC
<1>8. Places(t)'
  BY <1>1, <1>4, <1>5, <1>7 DEF Places, TypeOK
<1> QED
  BY <1>6, <1>7, <1>8 DEF CursorInv

LEMMA NextDigitCursor ==
  ASSUME NEW t \in Thread, ScreenInv, NextDigit(t)
  PROVE  CursorInv'
<1> DEFINE e == edi[t]
           c == IF e = Digits THEN "0" ELSE buffer[e]
<1>1. TypeOK /\ LockHeld /\ pc[t] = "digit" /\ Goto(t, "select_hi")
  BY DEF ScreenInv, IndexInv, NextDigit, At
<1>2. e \in 0 .. Digits /\ Digits \in Nat
  BY <1>1, Constants DEF ScreenInv, Places
<1>3. c \in Char
  <2>1. e # Digits => e \in 0 .. Digits - 1
    BY <1>2
  <2>2. "0" \in Char
    BY BlankIsChar
  <2> QED
    BY <1>1, <2>1, <2>2 DEF TypeOK
<1>4. e + 1 \in 0 .. Digits + 1
  BY <1>2
<1>5. /\ cl' = [cl EXCEPT ![t] = c] /\ edi' = [edi EXCEPT ![t] = e + 1]
      /\ UNCHANGED <<crt, video, buffer, rest, num, bx, halted, term>>
  BY DEF NextDigit, device
<1> HIDE DEF c, e
<1>6. DataOK'
  BY <1>1, <1>3, <1>4, <1>5 DEF DataOK, TypeOK
<1>7. /\ pc'[t] = "select_hi" /\ CursorOnScreen' /\ FaultsAtOrigin'
      /\ Places(t)' => \A u \in Thread : Places(u)'
  BY <1>1, <1>5, InsideStep DEF PC
<1>8. Places(t)'
  BY <1>7 DEF Places
<1> QED
  BY <1>6, <1>7, <1>8 DEF CursorInv

LEMMA SelectCursor ==
  ASSUME NEW t \in Thread, ScreenInv,
         SelectHigh(t) \/ SelectLow(t) \/ SetHigh(t) \/ SetLow(t)
  PROVE  CursorInv'
<1>1. PICK l \in {"in_hi", "in_lo", "out_hi", "out_lo"} :
        /\ pc[t] = CASE l = "in_hi" -> "select_hi" [] l = "in_lo" -> "select_lo"
                     [] l = "out_hi" -> "set_hi" [] l = "out_lo" -> "set_lo"
        /\ Goto(t, l)
        /\ UNCHANGED <<crt, video, buffer, rest, num, edi, cl, bx, halted, term>>
  BY DEF SelectHigh, SelectLow, SetHigh, SetLow, Select, At, local
<1>2. TypeOK /\ LockHeld
  BY DEF ScreenInv, IndexInv
<1>3. DataOK'
  BY <1>1, <1>2 DEF DataOK, TypeOK
<1>4. /\ pc'[t] = l /\ CursorOnScreen' /\ FaultsAtOrigin'
      /\ Places(t)' => \A u \in Thread : Places(u)'
  <2>1. l \in PC /\ pc[t] # "idle"
    BY <1>1 DEF PC
  <2>2. pc[t] \in {"set_hi", "out_hi", "set_lo", "out_lo"} =>
          l \in {"set_hi", "out_hi", "set_lo", "out_lo"}
    BY <1>1
  <2> QED
    BY <1>1, <2>1, <2>2, InsideStep
<1>5. Places(t)'
  BY <1>1, <1>4 DEF ScreenInv, Places
<1> QED
  BY <1>3, <1>4, <1>5 DEF CursorInv

LEMMA ReadCursor ==
  ASSUME NEW t \in Thread, ScreenInv, ReadHigh(t) \/ ReadLow(t)
  PROVE  CursorInv'
<1>1. TypeOK /\ LockHeld /\ IndexHeld /\ Places(t)
  BY DEF ScreenInv, IndexInv
<1>2. Byte \in Nat /\ Byte <= Word /\ Word \in Nat
  BY Constants
<1>3. crt["hi"] \in 0 .. Byte - 1 /\ crt["lo"] \in 0 .. Byte - 1
  BY <1>1 DEF TypeOK
<1>4. Cursor \in 0 .. Word - 1
  BY <1>3, ByteOf DEF Cursor
<1>5. UNCHANGED <<crt, video, buffer, rest, num, edi, cl, halted, term>>
  BY DEF ReadHigh, ReadLow, In, device
<1>6. CASE ReadHigh(t)
  <2>1. pc[t] = "in_hi" /\ Goto(t, "select_lo") /\ bx' = [bx EXCEPT ![t] = crt["hi"]]
    BY <1>1, <1>6 DEF ReadHigh, In, At, IndexHeld
  <2>2. DataOK'
    <3>1. crt["hi"] \in 0 .. Word - 1
      BY <1>2, <1>3
    <3> QED
      BY <1>1, <1>5, <2>1, <3>1 DEF DataOK, TypeOK
  <2>3. /\ pc'[t] = "select_lo" /\ CursorOnScreen' /\ FaultsAtOrigin'
        /\ Places(t)' => \A u \in Thread : Places(u)'
    BY <1>5, <2>1, InsideStep DEF PC
  <2>4. Places(t)'
    BY <1>1, <1>5, <2>1, <2>3 DEF Places, TypeOK
  <2> QED
    BY <2>2, <2>3, <2>4 DEF CursorInv
<1>7. CASE ReadLow(t)
  <2>1. pc[t] = "in_lo" /\ Goto(t, "store") /\ bx' = [bx EXCEPT ![t] = Cursor]
    BY <1>1, <1>7 DEF ReadLow, In, At, IndexHeld, Places, Cursor
  <2>2. DataOK'
    BY <1>1, <1>4, <1>5, <2>1 DEF DataOK, TypeOK
  <2>3. /\ pc'[t] = "store" /\ CursorOnScreen' /\ FaultsAtOrigin'
        /\ Places(t)' => \A u \in Thread : Places(u)'
    BY <1>5, <2>1, InsideStep DEF PC
  <2>4. Places(t)'
    BY <1>1, <1>5, <2>1, <2>3 DEF Places, TypeOK, Cursor
  <2> QED
    BY <2>2, <2>3, <2>4 DEF CursorInv
<1> QED
  BY <1>6, <1>7

(* What is stored and where the cursor goes, in Store and in Keyboard.     *)
LEMMA WrittenVideo ==
  ASSUME NEW v \in [Cell -> Char], NEW c \in Char, NEW b \in 0 .. Size - 1, ~ Faults(c, b)
  PROVE  Written(v, c, b) \in [Cell -> Char]
<1>1. CASE c = "LF"
  BY <1>1 DEF Written
<1>2. CASE c # "LF"
  <2>1. Target(c, b) \in Cell
    <3>1. Target(c, b) \in 0 .. Size - 1
      BY <1>2, StaysInside
    <3> QED
      BY <3>1, Constants
  <2>2. " " \in Char
    BY BlankIsChar
  <2> QED
    BY <1>2, <2>1, <2>2 DEF Written
<1> QED
  BY <1>1, <1>2

LEMMA StoreCursor ==
  ASSUME NEW t \in Thread, ScreenInv, Store(t)
  PROVE  CursorInv'
<1> DEFINE c == cl[t]
           b == bx[t]
<1>1. TypeOK /\ LockHeld /\ pc[t] = "store"
  BY DEF ScreenInv, IndexInv, Store, At
<1>2. Writing = {}
  BY <1>1, OneInside DEF Writing
<1>3. b = Cursor /\ Cursor < Size
  BY <1>1, <1>2 DEF ScreenInv, Places, CursorOnScreen
<1>4. b \in 0 .. Size - 1
  <2>1. b \in 0 .. Word - 1
    BY <1>1 DEF TypeOK
  <2> QED
    BY <1>3, <2>1, Constants
<1>5. c \in Char
  BY <1>1 DEF TypeOK
<1>6. UNCHANGED <<crt, buffer, rest, num, edi, cl, term>>
  BY DEF Store
<1>7. CASE Faults(c, b)
  <2>1. halted' = TRUE /\ UNCHANGED <<video, bx, pc>>
    BY <1>7 DEF Store
  <2>2. DataOK'
    BY <1>1, <1>6, <2>1 DEF DataOK, TypeOK
  <2>3. Cursor = 0
    BY <1>3, <1>4, <1>7, OnlyOriginFaults
  <2>4. CursorOnScreen' /\ FaultsAtOrigin'
    BY <1>3, <1>6, <2>1, <2>3 DEF CursorOnScreen, FaultsAtOrigin, Cursor
  <2>5. \A u \in Thread : Places(u)'
    BY <1>6, <2>1 DEF ScreenInv, Places, Cursor
  <2> QED
    BY <2>2, <2>4, <2>5 DEF CursorInv
<1>8. CASE ~ Faults(c, b)
  <2> DEFINE n == IF Rolls(c, b) THEN 0 ELSE Moved(c, b)
             l == IF Rolls(c, b) THEN "roll" ELSE "set_hi"
  <2>1. /\ video' = Written(video, c, b) /\ bx' = [bx EXCEPT ![t] = n]
        /\ Goto(t, l) /\ UNCHANGED halted
    BY <1>8 DEF Store
  <2>2. Moved(c, b) \in 0 .. Size + Cols /\ (Rolls(c, b) <=> Moved(c, b) >= Size)
    BY <1>4, <1>8, StaysInside
  <2>3. n \in 0 .. Size - 1 /\ n \in 0 .. Word - 1 /\ (Rolls(c, b) => n \in 0 .. Size - Cols - 1)
    <3> DEFINE m == Moved(c, b)
               r == Rolls(c, b)
    <3> HIDE DEF m, r
    <3>1. m \in 0 .. Size + Cols /\ (r <=> m >= Size)
      BY <2>2 DEF m, r
    <3>2. /\ (IF r THEN 0 ELSE m) \in 0 .. Size - 1 /\ (IF r THEN 0 ELSE m) \in 0 .. Word - 1
          /\ (r => (IF r THEN 0 ELSE m) \in 0 .. Size - Cols - 1)
      BY <3>1, Constants
    <3> QED
      BY <3>2 DEF m, r
  <2>4. DataOK'
    <3>1. video' \in [Cell -> Char]
      BY <1>1, <1>4, <1>5, <1>8, <2>1, WrittenVideo DEF TypeOK
    <3> HIDE DEF n
    <3> QED
      BY <1>1, <1>6, <2>1, <2>3, <3>1 DEF DataOK, TypeOK
  <2>5. l \in PC /\ l = (IF Rolls(c, b) THEN "roll" ELSE "set_hi")
    BY DEF PC
  <2>6. /\ pc'[t] = l /\ CursorOnScreen' /\ FaultsAtOrigin'
        /\ Places(t)' => \A u \in Thread : Places(u)'
    <3> HIDE DEF l
    <3> QED BY <1>1, <1>6, <2>1, <2>5, InsideStep
  <2>7. Places(t)'
    <3>1. bx'[t] = n
      BY <1>1, <2>1 DEF TypeOK
    <3>2. CASE Rolls(c, b)
      BY <2>3, <2>6, <3>1, <3>2 DEF Places
    <3>3. CASE ~ Rolls(c, b)
      BY <2>3, <2>6, <3>1, <3>3 DEF Places
    <3> QED
      BY <3>2, <3>3
  <2> QED
    BY <2>4, <2>6, <2>7 DEF CursorInv
<1> QED
  BY <1>7, <1>8

LEMMA RollCursor ==
  ASSUME NEW t \in Thread, ScreenInv, Roll(t)
  PROVE  CursorInv'
<1> DEFINE b == bx[t]
           l == IF b = Size - Cols - 1 THEN "cls" ELSE "roll"
<1>1. TypeOK /\ LockHeld /\ pc[t] = "roll" /\ Goto(t, l)
  BY DEF ScreenInv, IndexInv, Roll, At
<1>2. b \in 0 .. Size - Cols - 1
  BY <1>1 DEF ScreenInv, Places
<1>3. /\ video' = [video EXCEPT ![b] = video[b + Cols]]
      /\ bx' = [bx EXCEPT ![t] = b + 1]
      /\ UNCHANGED <<crt, buffer, rest, num, edi, cl, halted, term>>
  BY DEF Roll
<1> HIDE DEF b
<1>4. /\ b \in Cell /\ b + Cols \in Cell /\ b + 1 \in 0 .. Word - 1
      /\ IF b = Size - Cols - 1 THEN b + 1 \in Size - Cols .. Size - 1
         ELSE b + 1 \in 0 .. Size - Cols - 1
  <2>1. /\ {Size, Cols, Word, Segment} \subseteq Nat \ {0}
        /\ 2 * Cols <= Size /\ Size <= Segment /\ Size < Word /\ Cell = 0 .. Segment - 1
    BY Constants
  <2>2. b \in Nat /\ b + Cols < Size
    BY <1>2, <2>1
  <2>3. b \in Cell /\ b + Cols \in Cell /\ b + 1 \in 0 .. Word - 1
    BY <2>1, <2>2
  <2>4. CASE b = Size - Cols - 1
    BY <2>1, <2>2, <2>3, <2>4
  <2>5. CASE b # Size - Cols - 1
    BY <2>1, <2>2, <2>3, <2>5
  <2> QED
    BY <2>4, <2>5
<1>5. DataOK'
  BY <1>1, <1>3, <1>4 DEF DataOK, TypeOK
<1>6. l \in PC /\ l = IF b = Size - Cols - 1 THEN "cls" ELSE "roll"
  BY DEF PC
<1> HIDE DEF l
<1>7. /\ pc'[t] = l /\ CursorOnScreen' /\ FaultsAtOrigin'
      /\ Places(t)' => \A u \in Thread : Places(u)'
  BY <1>1, <1>3, <1>6, InsideStep
<1>8. Places(t)'
  <2>1. bx'[t] = b + 1
    BY <1>1, <1>3 DEF TypeOK
  <2> QED
    BY <1>4, <1>6, <1>7, <2>1 DEF Places
<1> QED
  BY <1>5, <1>7, <1>8 DEF CursorInv

LEMMA ClsCursor ==
  ASSUME NEW t \in Thread, ScreenInv, Cls(t)
  PROVE  CursorInv'
<1> DEFINE b == bx[t]
           l == IF b = Size - 1 THEN "set_hi" ELSE "cls"
           n == IF b = Size - 1 THEN Size - Cols ELSE b + 1
<1>1. TypeOK /\ LockHeld /\ pc[t] = "cls" /\ Goto(t, l)
  BY DEF ScreenInv, IndexInv, Cls, Blank, At
<1>2. b \in Size - Cols .. Size - 1
  BY <1>1 DEF ScreenInv, Places
<1>3. /\ video' = [video EXCEPT ![b] = " "]
      /\ bx' = [bx EXCEPT ![t] = n]
      /\ UNCHANGED <<crt, buffer, rest, num, edi, cl, halted, term>>
  BY DEF Cls, Blank
<1>4. " " \in Char
  BY BlankIsChar
<1> HIDE DEF b
<1>5. /\ b \in Cell /\ n \in 0 .. Word - 1
      /\ IF b = Size - 1 THEN n \in 0 .. Size - 1 ELSE n \in Size - Cols .. Size - 1
  BY <1>2, Constants
<1> HIDE DEF n
<1>6. DataOK'
  BY <1>1, <1>3, <1>4, <1>5 DEF DataOK, TypeOK
<1>7. l \in PC /\ l = IF b = Size - 1 THEN "set_hi" ELSE "cls"
  BY DEF PC
<1> HIDE DEF l
<1>8. /\ pc'[t] = l /\ CursorOnScreen' /\ FaultsAtOrigin'
      /\ Places(t)' => \A u \in Thread : Places(u)'
  BY <1>1, <1>3, <1>7, InsideStep
<1>9. Places(t)'
  <2>1. bx'[t] = n
    BY <1>1, <1>3 DEF TypeOK
  <2> QED
    BY <1>5, <1>7, <1>8, <2>1 DEF Places
<1> QED
  BY <1>6, <1>8, <1>9 DEF CursorInv

LEMMA WriteHighCursor ==
  ASSUME NEW t \in Thread, ScreenInv, WriteHigh(t)
  PROVE  CursorInv'
<1> DEFINE b == bx[t]
<1>1. TypeOK /\ LockHeld /\ pc[t] = "out_hi" /\ Goto(t, "set_lo")
  BY DEF ScreenInv, IndexInv, WriteHigh, Out, At
<1>2. b \in 0 .. Size - 1 /\ index = "hi"
  BY <1>1 DEF ScreenInv, Places, IndexInv, IndexHeld
<1>3. /\ crt' = [crt EXCEPT !["hi"] = b \div Byte]
      /\ UNCHANGED <<video, buffer, rest, num, edi, cl, bx, halted, term>>
  BY <1>2 DEF WriteHigh, Out, local
<1>4. b \div Byte \in 0 .. Byte - 1
  <2>1. b \in 0 .. Word - 1
    BY <1>2, Constants
  <2> QED
    BY <2>1, TwoBytes
<1>5. /\ pc' \in [Thread -> PC] /\ pc'[t] = "set_lo"
      /\ \A u \in Thread \ {t} : pc[u] = "idle" /\ pc'[u] = "idle"
  BY <1>1, OneInside DEF TypeOK, Goto, PC
<1>6. DataOK'
  BY <1>1, <1>3, <1>4 DEF DataOK, TypeOK
<1>7. CursorOnScreen'
  BY <1>5 DEF CursorOnScreen, Writing
<1>8. FaultsAtOrigin'
  BY <1>3 DEF FaultsAtOrigin, WriteHigh, Out, At
<1>9. \A u \in Thread : Places(u)'
  <2>1. crt'["hi"] = b \div Byte /\ bx'[t] = b
    BY <1>1, <1>3 DEF TypeOK
  <2> HIDE DEF b
  <2>2. Places(t)'
    BY <1>2, <1>5, <2>1 DEF Places
  <2> QED
    BY <1>5, <2>2 DEF Places
<1> QED
  BY <1>6, <1>7, <1>8, <1>9 DEF CursorInv

(* The second out makes the cursor what put_char wanted it to be.          *)
LEMMA LowByteWritten ==
  ASSUME NEW t \in Thread, ScreenInv, WriteLow(t)
  PROVE  bx[t] \in 0 .. Size - 1 /\ Cursor' = bx[t] /\ crt' \in [{"hi", "lo"} -> 0 .. Byte - 1]
<1> DEFINE b == bx[t]
<1>1. TypeOK /\ pc[t] = "out_lo"
  BY DEF ScreenInv, WriteLow, Out, At
<1>2. b \in 0 .. Size - 1 /\ index = "lo" /\ crt["hi"] = b \div Byte
  BY <1>1 DEF ScreenInv, Places, IndexInv, IndexHeld
<1>3. crt' = [crt EXCEPT !["lo"] = b % Byte]
  BY <1>2 DEF WriteLow, Out
<1>4. b % Byte \in 0 .. Byte - 1 /\ (b \div Byte) * Byte + (b % Byte) = b
  <2>1. b \in 0 .. Word - 1
    BY <1>2, Constants
  <2> QED
    BY <2>1, TwoBytes
<1>5. crt'["hi"] = b \div Byte /\ crt'["lo"] = b % Byte
  BY <1>1, <1>2, <1>3 DEF TypeOK
<1> QED
  BY <1>1, <1>2, <1>3, <1>4, <1>5 DEF Cursor, TypeOK

LEMMA WriteLowCursor ==
  ASSUME NEW t \in Thread, ScreenInv, WriteLow(t)
  PROVE  CursorInv'
<1> DEFINE b == bx[t]
           l == IF num[t] # -1 /\ edi[t] < Digits THEN "digit" ELSE "next"
<1>1. TypeOK /\ LockHeld /\ pc[t] = "out_lo" /\ Goto(t, l)
  BY DEF ScreenInv, IndexInv, WriteLow, Out, At
<1>2. UNCHANGED <<video, buffer, rest, num, edi, cl, bx, halted, term>>
  BY DEF WriteLow, Out, local
<1>3. b \in 0 .. Size - 1 /\ Cursor' = b /\ crt' \in [{"hi", "lo"} -> 0 .. Byte - 1]
  BY LowByteWritten
<1>4. /\ pc' \in [Thread -> PC] /\ pc'[t] = l
      /\ \A u \in Thread \ {t} : pc[u] = "idle" /\ pc'[u] = "idle"
  BY <1>1, OneInside DEF TypeOK, Goto, PC
<1>5. DataOK'
  BY <1>1, <1>2, <1>3 DEF DataOK, TypeOK
<1>6. CursorOnScreen' /\ FaultsAtOrigin'
  <2>1. b < Size
    BY <1>3, Constants
  <2> QED
    BY <1>2, <1>3, <2>1 DEF CursorOnScreen, FaultsAtOrigin, WriteLow, Out, At
<1>7. \A u \in Thread : Places(u)'
  <2>1. edi'[t] = edi[t] /\ edi[t] \in 0 .. Digits + 1 /\ Digits \in Nat
    BY <1>1, <1>2, Constants DEF TypeOK
  <2>2. Places(t)'
    BY <1>4, <2>1 DEF Places
  <2> QED
    BY <1>4, <2>2 DEF Places
<1> QED
  BY <1>5, <1>6, <1>7 DEF CursorInv

(* The whole put_char of the keyboard handler.                             *)
LEMMA KeyboardCursor ==
  ASSUME NEW c \in Keys, ScreenInv, Keyboard(c)
  PROVE  CursorInv'
<1>1. TypeOK /\ LockHeld /\ \A t \in Thread : pc[t] = "idle"
  BY DEF ScreenInv, IndexInv, Keyboard, Echo
<1>2. Writing = {}
  BY <1>1 DEF Writing
<1>3. Cursor \in 0 .. Size - 1
  <2>1. Cursor < Size
    BY <1>2 DEF ScreenInv, CursorOnScreen
  <2>2. Cursor \in 0 .. Word - 1
    <3>1. crt["hi"] \in 0 .. Byte - 1 /\ crt["lo"] \in 0 .. Byte - 1
      BY <1>1 DEF TypeOK
    <3> QED
      BY <3>1, ByteOf DEF Cursor
  <2> QED
    BY <2>1, <2>2, Constants
<1>4. c \in Char
  BY ScreenAssumption DEF ScreenAssumption
<1>5. term' \in Terminal
  BY <1>1, <1>4, TypeTerminal DEF Keyboard, Echo, TypeOK
<1>6. UNCHANGED <<buffer, pc, rest, num, edi, cl, bx>>
  BY DEF Keyboard, Echo, local
<1>7. \A t \in Thread : Places(t)'
  BY <1>1, <1>6 DEF Places
<1>8. CASE Faults(c, Cursor)
  <2>1. halted' = TRUE /\ UNCHANGED <<crt, video>>
    BY <1>8 DEF Keyboard, Echo
  <2>2. DataOK'
    BY <1>1, <1>5, <1>6, <2>1 DEF DataOK, TypeOK
  <2>3. Cursor = 0
    BY <1>3, <1>8, OnlyOriginFaults
  <2>4. Cursor < Size
    BY <1>3, Constants
  <2>5. CursorOnScreen' /\ FaultsAtOrigin'
    BY <2>1, <2>3, <2>4 DEF CursorOnScreen, FaultsAtOrigin, Cursor
  <2> QED
    BY <1>7, <2>2, <2>5 DEF CursorInv
<1>9. CASE ~ Faults(c, Cursor)
  <2> DEFINE v == Written(video, c, Cursor)
             b == IF Rolls(c, Cursor) THEN Size - Cols ELSE Moved(c, Cursor)
  <2>1. /\ video' = IF Rolls(c, Cursor) THEN Rolled(v) ELSE v
        /\ crt' = [hi |-> b \div Byte, lo |-> b % Byte]
        /\ halted' = halted /\ halted = FALSE
    BY <1>1, <1>9 DEF Keyboard, Echo, TypeOK
  <2>2. b \in 0 .. Size - 1
    <3> DEFINE m == Moved(c, Cursor)
               r == Rolls(c, Cursor)
    <3>1. m \in 0 .. Size + Cols /\ (r <=> m >= Size)
      BY <1>3, <1>9, StaysInside
    <3> HIDE DEF m, r
    <3>2. (IF r THEN Size - Cols ELSE m) \in 0 .. Size - 1
      BY <3>1, Constants
    <3> QED
      BY <3>2 DEF m, r
  <2>3. v \in [Cell -> Char]
    BY <1>1, <1>3, <1>4, <1>9, WrittenVideo DEF TypeOK
  <2>4. Rolled(v) \in [Cell -> Char]
    <3> HIDE DEF v
    <3>1. \A i \in Cell : i < Size - Cols => i + Cols \in Cell
      BY Constants
    <3>2. " " \in Char
      BY BlankIsChar
    <3>3. ASSUME NEW i \in Cell
          PROVE  (IF i < Size - Cols THEN v[i + Cols] ELSE IF i < Size THEN " " ELSE v[i]) \in Char
      BY <2>3, <3>1, <3>2
    <3> QED
      BY <3>3 DEF Rolled
  <2> HIDE DEF v, b
  <2>5. crt' \in [{"hi", "lo"} -> 0 .. Byte - 1] /\ Cursor' = b
    BY <2>1, <2>2, CursorBytes DEF Cursor
  <2>6. DataOK'
    <3>1. video' \in [Cell -> Char]
      BY <2>1, <2>3, <2>4
    <3> QED
      BY <1>1, <1>5, <1>6, <2>1, <2>5, <3>1 DEF DataOK, TypeOK
  <2>7. b < Size
    BY <2>2, Constants
  <2>8. CursorOnScreen' /\ FaultsAtOrigin'
    BY <2>1, <2>5, <2>7 DEF CursorOnScreen, FaultsAtOrigin
  <2> QED
    BY <1>7, <2>6, <2>8 DEF CursorInv
<1> QED
  BY <1>8, <1>9

LEMMA ScreenStep == ScreenInv /\ [Next]_vars => ScreenInv'
<1> SUFFICES ASSUME ScreenInv, [Next]_vars PROVE ScreenInv'
  OBVIOUS
<1>1. IndexInv'
  BY IndexStep DEF ScreenInv
<1>2. CursorInv'
  <2>1. CASE UNCHANGED vars
    BY <2>1 DEF ScreenInv, CursorInv, TypeOK, DataOK, CursorOnScreen, FaultsAtOrigin, Writing,
                Cursor, Places, vars, device, local
  <2> QED
    BY <2>1, CallCursor, NextCharCursor, FillCursor, SkipZerosCursor, NextDigitCursor,
       SelectCursor, ReadCursor, StoreCursor, RollCursor, ClsCursor, WriteHighCursor,
       WriteLowCursor, KeyboardCursor DEF Next, PutChar
<1> QED
  BY <1>1, <1>2 DEF ScreenInv, CursorInv, TypeOK, DataOK, IndexInv, LockHeld

(* The cursor never leaves the screen, and every register, buffer and      *)
(* character keeps its type, until a backspace is typed at the origin,     *)
(* where put_char faults; no string has a backspace (ScreenAssumption).    *)
THEOREM CursorStays == Spec => []StaysOnScreen
<1>1. ScreenInv => StaysOnScreen
  BY DEF ScreenInv, StaysOnScreen
<1> QED
  BY <1>1, ScreenInit, ScreenStep, PTL DEF Spec

-----------------------------------------------------------------------------
(* The place of row r and column j is r * Cols + j, and every place on the *)
(* screen is that of one row and column.                                   *)
LEMMA Spot ==
  ASSUME NEW r \in 0 .. Rows - 1, NEW j \in 0 .. Cols - 1
  PROVE  /\ r * Cols + j \in 0 .. Size - 1
         /\ (r * Cols + j) \div Cols = r /\ (r * Cols + j) % Cols = j
<1> DEFINE i == r * Cols + j
<1>1. Cols \in Nat \ {0} /\ Rows \in Nat \ {0} /\ Size = Cols * Rows
  BY Sizes
<1>2. PICK d \in Nat : Rows = r + 1 + d
  BY <1>1
<1>3. Cols * Rows = r * Cols + Cols + d * Cols /\ d * Cols \in Nat /\ r * Cols \in Nat
  BY <1>1, <1>2
<1>4. i \in 0 .. Size - 1
  BY <1>1, <1>3
<1>5. PICK q \in Nat, m \in 0 .. Cols - 1 : q = i \div Cols /\ m = i % Cols /\ i = Cols * q + m
  BY <1>1, <1>3, DivMod
<1>6. ~ (q < r)
  <2> SUFFICES ASSUME q < r PROVE FALSE
    OBVIOUS
  <2>1. PICK e \in Nat : r = q + 1 + e
    BY <1>1
  <2>2. r * Cols = Cols * q + Cols + e * Cols /\ e * Cols \in Nat /\ Cols * q \in Nat
    BY <1>1, <2>1
  <2> QED
    BY <1>1, <1>5, <2>2
<1>7. ~ (r < q)
  <2> SUFFICES ASSUME r < q PROVE FALSE
    OBVIOUS
  <2>1. PICK e \in Nat : q = r + 1 + e
    BY <1>1
  <2>2. Cols * q = r * Cols + Cols + e * Cols /\ e * Cols \in Nat /\ r * Cols \in Nat
    BY <1>1, <2>1
  <2> QED
    BY <1>1, <1>5, <2>2
<1>8. q = r
  BY <1>1, <1>6, <1>7
<1>9. Cols * q = r * Cols
  BY <1>1, <1>8
<1>10. m = j
  BY <1>1, <1>3, <1>5, <1>9
<1> QED
  BY <1>4, <1>5, <1>8, <1>10

LEMMA RowAndColumn ==
  ASSUME NEW i \in 0 .. Size - 1
  PROVE  /\ i \div Cols \in 0 .. Rows - 1 /\ i % Cols \in 0 .. Cols - 1
         /\ i = (i \div Cols) * Cols + (i % Cols)
<1>1. Cols \in Nat \ {0} /\ Rows \in Nat \ {0} /\ Size = Cols * Rows
  BY Sizes
<1>2. i \in Nat /\ i < Cols * Rows
  BY <1>1
<1>3. PICK q \in Nat, m \in 0 .. Cols - 1 : q = i \div Cols /\ m = i % Cols /\ i = Cols * q + m
  BY <1>1, <1>2, DivMod
<1>4. ~ (Rows <= q)
  <2> SUFFICES ASSUME Rows <= q PROVE FALSE
    OBVIOUS
  <2>1. PICK d \in Nat : q = Rows + d
    BY <1>1
  <2>2. Cols * q = Cols * Rows + Cols * d /\ Cols * d \in Nat
    BY <1>1, <2>1
  <2> QED
    BY <1>1, <1>2, <1>3, <2>2
<1>5. q \in 0 .. Rows - 1 /\ Cols * q = q * Cols
  BY <1>1, <1>4
<1> QED
  BY <1>3, <1>5

(* A line lower is Cols places further; the last line begins at the last   *)
(* Cols places.                                                            *)
LEMMA NextLine ==
  ASSUME NEW r \in 0 .. Rows - 1
  PROVE  /\ (r + 1) * Cols = r * Cols + Cols
         /\ r = Rows - 1 => r * Cols = Size - Cols
         /\ r < Rows - 1 => r * Cols + Cols <= Size - Cols
         /\ r > 0 => r * Cols = (r - 1) * Cols + Cols /\ r * Cols >= Cols
         /\ r * Cols \in Nat /\ Cols \in Nat \ {0} /\ Size \in Nat /\ Rows \in Nat
<1>1. Cols \in Nat \ {0} /\ Rows \in Nat \ {0} /\ Size = Cols * Rows
  BY Sizes
<1>2. PICK d \in Nat : Rows = r + 1 + d
  BY <1>1
<1>3. Cols * Rows = r * Cols + Cols + d * Cols /\ d * Cols \in Nat /\ r * Cols \in Nat
  BY <1>1, <1>2
<1>4. (r + 1) * Cols = r * Cols + Cols
  BY <1>1
<1>5. r = Rows - 1 => r * Cols = Size - Cols
  <2> SUFFICES ASSUME r = Rows - 1 PROVE r * Cols = Size - Cols
    OBVIOUS
  <2>1. d = 0
    BY <1>1, <1>2
  <2>2. d * Cols = 0
    BY <1>1, <2>1
  <2> QED
    BY <1>1, <1>3, <2>2
<1>6. r < Rows - 1 => r * Cols + Cols <= Size - Cols
  <2> SUFFICES ASSUME r < Rows - 1 PROVE r * Cols + Cols <= Size - Cols
    OBVIOUS
  <2>1. PICK e \in Nat : d = e + 1
    BY <1>1, <1>2
  <2>2. d * Cols = e * Cols + Cols /\ e * Cols \in Nat
    BY <1>1, <2>1
  <2> QED
    BY <1>1, <1>3, <2>2
<1>7. r > 0 => r * Cols = (r - 1) * Cols + Cols /\ r * Cols >= Cols
  <2> SUFFICES ASSUME r > 0 PROVE r * Cols = (r - 1) * Cols + Cols /\ r * Cols >= Cols
    OBVIOUS
  <2>1. PICK e \in Nat : r = e + 1
    BY <1>1
  <2>2. r * Cols = e * Cols + Cols /\ e * Cols \in Nat /\ r - 1 = e
    BY <1>1, <2>1
  <2> QED
    BY <1>1, <2>2
<1>8. r * Cols \in Nat /\ Cols \in Nat \ {0} /\ Size \in Nat /\ Rows \in Nat
  BY <1>1, <1>3
<1> QED
  BY <1>4, <1>5, <1>6, <1>7, <1>8

(* Where the cursor of a terminal is in video memory, and what it shows in *)
(* a cell of it.                                                           *)
Place(s) == s.row * Cols + s.col
Look(s, i) == s.page[i \div Cols][i % Cols]

LEMMA PlaceOnScreen ==
  ASSUME NEW s \in Terminal
  PROVE  /\ Place(s) \in 0 .. Size - 1
         /\ Place(s) \div Cols = s.row /\ Place(s) % Cols = s.col
BY FieldsOfTerminal, Spot DEF Place

Put(s, r, j, c) == [s EXCEPT !.page[r][j] = c]

LEMMA LookPut ==
  ASSUME NEW s \in Terminal, NEW r \in 0 .. Rows - 1, NEW j \in 0 .. Cols - 1, NEW c \in Char,
         NEW i \in 0 .. Size - 1
  PROVE  Look(Put(s, r, j, c), i) = IF i = r * Cols + j THEN c ELSE Look(s, i)
<1> DEFINE q == i \div Cols
           m == i % Cols
           put == Put(s, r, j, c)
<1>1. q \in 0 .. Rows - 1 /\ m \in 0 .. Cols - 1 /\ i = q * Cols + m
  BY RowAndColumn
<1>2. i = r * Cols + j <=> q = r /\ m = j
  BY <1>1, Spot
<1>3. Look(put, i) = put.page[q][m] /\ Look(s, i) = s.page[q][m]
  BY DEF Look
<1> HIDE DEF q, m
<1>4. put.page[q][m] = IF q = r /\ m = j THEN c ELSE s.page[q][m]
  <2>1. put.page = [s.page EXCEPT ![r] = [s.page[r] EXCEPT ![j] = c]]
    BY DEF Terminal, Put
  <2>2. s.page \in [0 .. Rows - 1 -> [0 .. Cols - 1 -> Char]]
    BY FieldsOfTerminal
  <2> HIDE DEF put
  <2>3. CASE q = r
    <3>1. put.page[q] = [s.page[r] EXCEPT ![j] = c]
      BY <1>1, <2>1, <2>2, <2>3
    <3>2. s.page[r] \in [0 .. Cols - 1 -> Char]
      BY <2>2
    <3> QED
      BY <1>1, <2>3, <3>1, <3>2
  <2>4. CASE q # r
    BY <1>1, <2>1, <2>2, <2>4
  <2> QED
    BY <2>3, <2>4
<1> QED
  BY <1>2, <1>3, <1>4

(* A new line moves the cursor to the beginning of the next one, or the    *)
(* text up by a line.                                                      *)
Up(s, t) ==
  \A i \in 0 .. Size - 1 : Look(t, i) = IF i < Size - Cols THEN Look(s, i + Cols) ELSE " "

LEMMA LookNewLine ==
  ASSUME NEW s \in Terminal
  PROVE  IF s.row < Rows - 1
         THEN Place(NewLine(s)) = s.row * Cols + Cols /\ NewLine(s).page = s.page
         ELSE Place(NewLine(s)) = Size - Cols /\ Up(s, NewLine(s))
<1>1. s.row \in 0 .. Rows - 1 /\ s.col \in 0 .. Cols - 1
  BY FieldsOfTerminal
<1>2. CASE s.row < Rows - 1
  <2>1. /\ NewLine(s).row = s.row + 1 /\ NewLine(s).col = 0 /\ NewLine(s).page = s.page
    BY <1>2 DEF NewLine, Terminal
  <2>2. (s.row + 1) * Cols = s.row * Cols + Cols /\ s.row * Cols + Cols \in Nat
    BY <1>1, NextLine
  <2> QED
    BY <1>2, <2>1, <2>2 DEF Place
<1>3. CASE ~ (s.row < Rows - 1)
  <2> DEFINE t == NewLine(s)
  <2>1. /\ t.row = s.row /\ t.col = 0
        /\ t.page = [r \in 0 .. Rows - 1 |-> IF r = Rows - 1 THEN BlankRow ELSE s.page[r + 1]]
    BY <1>3 DEF NewLine, Terminal
  <2>2. s.row = Rows - 1 /\ s.row * Cols = Size - Cols /\ Size - Cols \in Int
    BY <1>1, <1>3, NextLine
  <2>3. Place(t) = Size - Cols
    <3>1. Place(t) = s.row * Cols + 0
      BY <2>1 DEF Place
    <3> HIDE DEF t, Size
    <3> QED
      BY <2>2, <3>1
  <2> HIDE DEF t
  <2>4. ASSUME NEW i \in 0 .. Size - 1
        PROVE  Look(t, i) = IF i < Size - Cols THEN Look(s, i + Cols) ELSE " "
    <3> DEFINE q == i \div Cols
               m == i % Cols
    <3>1. q \in 0 .. Rows - 1 /\ m \in 0 .. Cols - 1 /\ i = q * Cols + m
      BY RowAndColumn
    <3>2. Look(t, i) = IF q = Rows - 1 THEN BlankRow[m] ELSE s.page[q + 1][m]
      <4>1. Look(t, i) = t.page[q][m]
        BY DEF Look
      <4> HIDE DEF q, m
      <4> QED
        BY <2>1, <3>1, <4>1
    <3> HIDE DEF q, m
    <3>3. CASE q = Rows - 1
      <4>1. ~ (i < Size - Cols)
        <5>1. q * Cols = Size - Cols /\ q * Cols \in Nat /\ Size - Cols \in Int
          BY <3>1, <3>3, NextLine
        <5> HIDE DEF Size
        <5> QED
          BY <3>1, <5>1
      <4>2. BlankRow[m] = " "
        BY <3>1 DEF BlankRow
      <4> QED
        BY <3>2, <3>3, <4>1, <4>2
    <3>4. CASE q # Rows - 1
      <4>1. q + 1 \in 0 .. Rows - 1 /\ q < Rows - 1
        BY <3>1, <3>4, NextLine
      <4>2. /\ (q + 1) * Cols = q * Cols + Cols
            /\ q * Cols + Cols <= Size - Cols
            /\ q * Cols \in Nat /\ Cols \in Nat /\ Size \in Nat
        BY <3>1, <4>1, NextLine
      <4> DEFINE y == q * Cols
                 z == (q + 1) * Cols
      <4>3. i = y + m /\ z = y + Cols /\ y + Cols <= Size - Cols /\ {y, Cols, Size} \subseteq Nat
        BY <3>1, <4>2
      <4> HIDE DEF y, z, Size
      <4>4. i + Cols = z + m /\ i < Size - Cols
        BY <3>1, <4>3
      <4>5. (i + Cols) \div Cols = q + 1 /\ (i + Cols) % Cols = m
        BY <3>1, <4>1, <4>4, Spot DEF z
      <4>6. Look(s, i + Cols) = s.page[q + 1][m]
        BY <4>5 DEF Look
      <4> QED
        BY <3>2, <3>4, <4>4, <4>6
    <3> QED
      BY <3>3, <3>4
  <2> QED
    BY <1>3, <2>3, <2>4 DEF Up, t
<1> QED
  BY <1>2, <1>3

(* What a terminal that shows s shows after the store of put_char: in the  *)
(* character written to, that character.                                   *)
Stored(s, c, i) ==
  IF c # "LF" /\ i = Target(c, Place(s)) THEN IF c = "BS" THEN " " ELSE c ELSE Look(s, i)

Unrolled(s, t, c) ==
  Place(t) = Moved(c, Place(s)) /\ \A i \in 0 .. Size - 1 : Look(t, i) = Stored(s, c, i)

RolledUp(s, t, c) ==
  /\ Place(t) = Size - Cols
  /\ \A i \in 0 .. Size - 1 : Look(t, i) = IF i < Size - Cols THEN Stored(s, c, i + Cols) ELSE " "

Printed(s, t, c) ==
  IF Faults(c, Place(s)) THEN t = s
  ELSE IF Rolls(c, Place(s)) THEN RolledUp(s, t, c) ELSE Unrolled(s, t, c)

(* The arithmetic of put_char on the cursor does what the terminal does.   *)
LEMMA PrintsLineFeed ==
  ASSUME NEW s \in Terminal
  PROVE  Printed(s, Type(s, "LF"), "LF")
<1> DEFINE b == Place(s)
           t == NewLine(s)
<1>0. Type(s, "LF") = t
  BY DEF Type
<1>1. b \in 0 .. Size - 1 /\ b % Cols = s.col /\ b = s.row * Cols + s.col
  BY PlaceOnScreen DEF Place
<1>2. s.row \in 0 .. Rows - 1 /\ s.col \in 0 .. Cols - 1
  BY FieldsOfTerminal
<1>3. ~ Faults("LF", b)
  BY DEF Faults
<1>4. Moved("LF", b) = b - (b % Cols) + Cols /\ (Rolls("LF", b) <=> Moved("LF", b) >= Size)
  BY <1>1, <1>3, StaysInside
<1>5. IF s.row < Rows - 1 THEN Place(t) = s.row * Cols + Cols /\ t.page = s.page
      ELSE Place(t) = Size - Cols /\ Up(s, t)
  BY LookNewLine
<1>6. \A i : Stored(s, "LF", i) = Look(s, i)
  BY DEF Stored
<1> DEFINE y == s.row * Cols
<1>7. /\ s.row = Rows - 1 => y = Size - Cols
      /\ s.row < Rows - 1 => y + Cols <= Size - Cols
      /\ {y, Cols, Size, Rows} \subseteq Nat /\ Cols > 0
  BY <1>2, NextLine
<1> HIDE DEF b, t
<1>8. b = y + s.col /\ Moved("LF", b) = y + Cols
  <2>1. b = y + s.col
    BY <1>1
  <2> HIDE DEF y
  <2> QED BY <1>1, <1>2, <1>4, <1>7, <2>1
<1>9. CASE s.row < Rows - 1
  <2>1. ~ Rolls("LF", b)
    <3> HIDE DEF y, Size
    <3> QED BY <1>4, <1>7, <1>8, <1>9
  <2>2. Place(t) = Moved("LF", b) /\ \A i \in 0 .. Size - 1 : Look(t, i) = Look(s, i)
    BY <1>5, <1>8, <1>9 DEF Look
  <2> QED
    BY <1>0, <1>3, <1>6, <2>1, <2>2 DEF Printed, Unrolled, b
<1>10. CASE ~ (s.row < Rows - 1)
  <2>1. Rolls("LF", b)
    <3>1. s.row = Rows - 1
      BY <1>2, <1>7, <1>10
    <3> HIDE DEF y, Size
    <3> QED BY <1>4, <1>7, <1>8, <3>1
  <2> QED
    BY <1>0, <1>3, <1>5, <1>6, <1>10, <2>1 DEF Printed, RolledUp, Up, b
<1> QED
  BY <1>9, <1>10

LEMMA PrintsBackspace ==
  ASSUME NEW s \in Terminal
  PROVE  Printed(s, Type(s, "BS"), "BS")
<1> DEFINE b == Place(s)
           t == Back(s)
           c == "BS"
           y == s.row * Cols
<1>0. Type(s, c) = t
  BY DEF Type
<1>1. b \in 0 .. Size - 1 /\ b = y + s.col
  BY PlaceOnScreen DEF Place
<1>2. s.row \in 0 .. Rows - 1 /\ s.col \in 0 .. Cols - 1
  BY FieldsOfTerminal
<1>3. /\ s.row > 0 => y = (s.row - 1) * Cols + Cols /\ y >= Cols
      /\ {y, Cols, Size, Rows} \subseteq Nat /\ Cols > 0
  BY <1>2, NextLine
<1>4. s.row = 0 => y = 0
  BY <1>3
<1>5. " " \in Char
  BY BlankIsChar
<1>6. CASE Faults(c, b)
  <2>1. b = 0
    BY <1>1, <1>6, OnlyOriginFaults
  <2>2. s.col = 0 /\ s.row = 0
    <3> HIDE DEF y
    <3> QED BY <1>1, <1>2, <1>3, <2>1
  <2> QED
    BY <1>0, <1>6, <2>2 DEF Printed, Back
<1>7. CASE ~ Faults(c, b)
  <2>1. Moved(c, b) = b - 1 /\ b > 0 /\ Target(c, b) = b - 1
    <3>1. Moved(c, b) = b - 1 /\ b > 0
      BY <1>1, <1>7, StaysInside
    <3> HIDE DEF b
    <3> QED
      BY <1>1, <3>1, TargetOnScreen
  <2>2. ~ Rolls(c, b)
    BY DEF Rolls
  <2>3. PICK r \in 0 .. Rows - 1, j \in 0 .. Cols - 1 :
          /\ t.row = r /\ t.col = j /\ r * Cols + j = b - 1
          /\ \A i \in 0 .. Size - 1 : Look(t, i) = IF i = r * Cols + j THEN " " ELSE Look(s, i)
    <3>1. PICK r \in 0 .. Rows - 1, j \in 0 .. Cols - 1 :
            /\ r * Cols + j = b - 1
            /\ IF s.col > 0 THEN r = s.row /\ j = s.col - 1 ELSE s.row > 0 /\ r = s.row - 1 /\ j = Cols - 1
      <4>1. CASE s.col > 0
        <5>1. s.col - 1 \in 0 .. Cols - 1
          BY <1>2, <1>3, <4>1
        <5>2. y + (s.col - 1) = b - 1
          <6>1. y \in Nat /\ b = y + s.col
            BY <1>1, <1>3
          <6> HIDE DEF y, b
          <6> QED BY <1>2, <6>1
        <5> HIDE DEF b
        <5> QED
          BY <1>2, <4>1, <5>1, <5>2
      <4>2. CASE ~ (s.col > 0)
        <5>1. s.col = 0
          BY <1>2, <4>2
        <5>2. s.row > 0
          <6> HIDE DEF b
          <6> QED BY <1>1, <1>2, <1>4, <2>1, <5>1
        <5>3. s.row - 1 \in 0 .. Rows - 1 /\ Cols - 1 \in 0 .. Cols - 1
          BY <1>2, <1>3, <5>2
        <5> DEFINE q == s.row - 1
                   z == q * Cols
        <5>4. y = z + Cols /\ y \in Nat /\ b = y + 0 /\ z \in Nat /\ Cols \in Nat
          <6>1. y = z + Cols /\ y \in Nat /\ b = y + 0 /\ Cols \in Nat
            BY <1>1, <1>3, <5>1, <5>2
          <6>2. z \in Nat
            BY <5>3, NextLine
          <6> QED
            BY <6>1, <6>2
        <5>5. z + (Cols - 1) = b - 1
          <6> HIDE DEF y, b, z
          <6> QED BY <5>4
        <5>6. q \in 0 .. Rows - 1 /\ q = s.row - 1
          BY <5>3
        <5> HIDE DEF b, q
        <5>7. q * Cols + (Cols - 1) = b - 1
          BY <5>5
        <5> QED
          BY <4>2, <5>2, <5>3, <5>6, <5>7
      <4> QED
        BY <4>1, <4>2
    <3> DEFINE u == Put(s, r, j, " ")
    <3>2. t.row = r /\ t.col = j /\ t.page = u.page
      BY <1>2, <3>1 DEF Back, Terminal, Put
    <3>3. \A i \in 0 .. Size - 1 : Look(u, i) = IF i = r * Cols + j THEN " " ELSE Look(s, i)
      BY <1>5, LookPut
    <3>4. \A i \in 0 .. Size - 1 : Look(t, i) = Look(u, i)
      <4> HIDE DEF t, u
      <4> QED BY <3>2 DEF Look
    <3> HIDE DEF t, u, b
    <3> QED
      BY <3>1, <3>2, <3>3, <3>4
  <2>4. Place(t) = b - 1
    BY <2>3 DEF Place
  <2>5. \A i \in 0 .. Size - 1 : Look(t, i) = Stored(s, c, i)
    <3> HIDE DEF t
    <3> QED BY <2>1, <2>3 DEF Stored
  <2> QED
    BY <1>0, <1>7, <2>1, <2>2, <2>4, <2>5 DEF Printed, Unrolled
<1> QED
  BY <1>6, <1>7

LEMMA PrintsGlyph ==
  ASSUME NEW s \in Terminal, NEW c \in Char, c \notin {"LF", "BS"}
  PROVE  Printed(s, Type(s, c), c)
<1> DEFINE b == Place(s)
           t == Type(s, c)
           p == Put(s, s.row, s.col, c)
           y == s.row * Cols
<1>1. b \in 0 .. Size - 1 /\ b = y + s.col
  BY PlaceOnScreen DEF Place
<1>2. s.row \in 0 .. Rows - 1 /\ s.col \in 0 .. Cols - 1
  BY FieldsOfTerminal
<1>3. /\ s.row = Rows - 1 => y = Size - Cols
      /\ s.row < Rows - 1 => y + Cols <= Size - Cols
      /\ {y, Cols, Size, Rows} \subseteq Nat /\ Cols > 0
  BY <1>2, NextLine
<1>4. p \in Terminal /\ p.row = s.row /\ p.col = s.col
  BY <1>2, WithChar DEF Terminal, Put
<1>5. Target(c, b) = b
  <2> HIDE DEF b
  <2> QED BY <1>1, TargetOnScreen
<1>6. \A i \in 0 .. Size - 1 : Look(p, i) = Stored(s, c, i)
  <2> DEFINE r == s.row
             j == s.col
  <2>1. r \in 0 .. Rows - 1 /\ j \in 0 .. Cols - 1 /\ b = r * Cols + j
    BY <1>1, <1>2
  <2> HIDE DEF r, j
  <2>2. \A i \in 0 .. Size - 1 : Look(Put(s, r, j, c), i) = IF i = r * Cols + j THEN c ELSE Look(s, i)
    BY <2>1, LookPut
  <2>3. p = Put(s, r, j, c)
    BY DEF r, j
  <2> HIDE DEF p, b
  <2>4. \A i \in 0 .. Size - 1 : Look(p, i) = IF i = b THEN c ELSE Look(s, i)
    BY <2>1, <2>2, <2>3
  <2>5. Target(c, Place(s)) = b
    BY <1>5 DEF b
  <2> QED
    BY <2>4, <2>5 DEF Stored
<1>7. t = IF s.col = Cols - 1 THEN NewLine(p) ELSE [p EXCEPT !.col = @ + 1]
  BY DEF Type, Put
<1>8. ~ Faults(c, b)
  <2> HIDE DEF b
  <2> QED BY <1>1, OnlyOriginFaults
<1>9. /\ IF b + 1 < Size THEN Moved(c, b) = b + 1 ELSE Moved(c, b) = Size + Cols
      /\ Rolls(c, b) <=> Moved(c, b) >= Size
  <2> HIDE DEF b
  <2> QED BY <1>1, <1>8, StaysInside
<1> HIDE DEF b, t, p
<1>10. CASE s.col # Cols - 1
  <2>1. Place(t) = b + 1 /\ t.page = p.page
    <3>1. t.row = s.row /\ t.col = s.col + 1 /\ t.page = p.page
      BY <1>4, <1>7, <1>10 DEF Terminal
    <3>2. y \in Nat /\ b = y + s.col
      BY <1>1, <1>3
    <3>3. Place(t) = y + (s.col + 1)
      BY <3>1 DEF Place
    <3> HIDE DEF y
    <3> QED
      BY <1>2, <3>1, <3>2, <3>3
  <2>2. b + 1 < Size
    <3>1. s.row = Rows - 1 \/ s.row < Rows - 1
      BY <1>2, <1>3
    <3> HIDE DEF y, Size
    <3> QED
      BY <1>1, <1>2, <1>3, <1>10, <3>1
  <2>3. Moved(c, b) = b + 1 /\ ~ Rolls(c, b)
    <3> HIDE DEF Size
    <3> QED BY <1>1, <1>3, <1>9, <2>2
  <2>4. \A i \in 0 .. Size - 1 : Look(t, i) = Stored(s, c, i)
    BY <1>6, <2>1 DEF Look
  <2> QED
    BY <1>8, <2>1, <2>3, <2>4 DEF Printed, Unrolled, b, t
<1>11. CASE s.col = Cols - 1
  <2>1. IF s.row < Rows - 1 THEN Place(t) = y + Cols /\ t.page = p.page
        ELSE Place(t) = Size - Cols /\ Up(p, t)
    BY <1>4, <1>7, <1>11, LookNewLine
  <2>2. b + 1 = y + Cols
    <3> HIDE DEF y
    <3> QED BY <1>1, <1>3, <1>11
  <2>3. CASE s.row < Rows - 1
    <3>1. Moved(c, b) = b + 1 /\ ~ Rolls(c, b)
      <4> HIDE DEF Size, y
      <4> QED BY <1>1, <1>3, <1>9, <2>2, <2>3
    <3>2. \A i \in 0 .. Size - 1 : Look(t, i) = Stored(s, c, i)
      BY <1>6, <2>1, <2>3 DEF Look
    <3> QED
      BY <1>8, <2>1, <2>2, <2>3, <3>1, <3>2 DEF Printed, Unrolled, b, t
  <2>4. CASE ~ (s.row < Rows - 1)
    <3>1. Rolls(c, b)
      <4>1. s.row = Rows - 1
        BY <1>2, <1>3, <2>4
      <4> HIDE DEF Size, y
      <4> QED BY <1>1, <1>3, <1>9, <2>2, <4>1
    <3>2. \A i \in 0 .. Size - 1 :
            Look(t, i) = IF i < Size - Cols THEN Stored(s, c, i + Cols) ELSE " "
      <4> SUFFICES ASSUME NEW i \in 0 .. Size - 1
                   PROVE  Look(t, i) = IF i < Size - Cols THEN Stored(s, c, i + Cols) ELSE " "
        OBVIOUS
      <4>1. i < Size - Cols => i + Cols \in 0 .. Size - 1
        <5> HIDE DEF Size
        <5> QED BY <1>3
      <4>2. Look(t, i) = IF i < Size - Cols THEN Look(p, i + Cols) ELSE " "
        BY <2>1, <2>4 DEF Up
      <4> QED
        BY <1>6, <4>1, <4>2
    <3> QED
      BY <1>8, <2>1, <2>4, <3>1, <3>2 DEF Printed, RolledUp, b, t
  <2> QED
    BY <2>3, <2>4
<1> QED
  BY <1>10, <1>11

LEMMA PrintsTyped ==
  ASSUME NEW s \in Terminal, NEW c \in Char
  PROVE  Printed(s, Type(s, c), c)
BY PrintsLineFeed, PrintsBackspace, PrintsGlyph

-----------------------------------------------------------------------------
(* u is what s becomes when the text w is typed.                           *)
Typing(shown, s, w) ==
  /\ shown \in [0 .. Len(w) -> Terminal] /\ shown[0] = s
  /\ \A k \in 1 .. Len(w) : shown[k] = Type(shown[k - 1], w[k])

TypesTo(s, w, u) == \E shown : Typing(shown, s, w) /\ shown[Len(w)] = u

LEMMA FoldTypesTo ==
  ASSUME NEW s \in Terminal, NEW w \in Seq(Char)
  PROVE  TypesTo(s, w, FoldLeft(Type, s, w))
<1>1. PICK shown \in [0 .. Len(w) -> Terminal] :
        /\ shown[0] = s
        /\ \A k \in 1 .. Len(w) : shown[k] = Type(shown[k - 1], w[k])
        /\ FoldLeft(Type, s, w) = shown[Len(w)]
  BY FoldTypes
<1> QED
  BY <1>1 DEF TypesTo, Typing

LEMMA TypesNothing ==
  ASSUME NEW s \in Terminal, NEW u, TypesTo(s, <<>>, u)
  PROVE  u = s
BY DEF TypesTo, Typing

LEMMA TypesFirst ==
  ASSUME NEW s \in Terminal, NEW w \in Seq(Char), w # <<>>, NEW u, TypesTo(s, w, u)
  PROVE  /\ Head(w) \in Char /\ Tail(w) \in Seq(Char)
         /\ TypesTo(Type(s, Head(w)), Tail(w), u)
<1> DEFINE n == Len(w)
           v == Tail(w)
<1>1. /\ n \in Nat \ {0} /\ v \in Seq(Char) /\ Len(v) = n - 1 /\ Head(w) = w[1] /\ w[1] \in Char
      /\ \A k \in 1 .. n - 1 : v[k] = w[k + 1]
  OBVIOUS
<1>2. PICK shown : Typing(shown, s, w) /\ shown[n] = u
  BY DEF TypesTo
<1>3. /\ shown \in [0 .. n -> Terminal] /\ shown[0] = s
      /\ \A k \in 1 .. n : shown[k] = Type(shown[k - 1], w[k])
  BY <1>2 DEF Typing
<1> HIDE DEF n, v
<1> DEFINE later == [k \in 0 .. n - 1 |-> shown[k + 1]]
<1>4. later \in [0 .. n - 1 -> Terminal] /\ later[n - 1] = u /\ later[0] = Type(s, w[1])
  <2>1. \A k \in 0 .. n - 1 : k + 1 \in 0 .. n
    BY <1>1
  <2>2. later[n - 1] = shown[n] /\ later[0] = shown[1]
    BY <1>1
  <2>3. 1 \in 1 .. n /\ 1 - 1 = 0
    BY <1>1
  <2>4. shown[1] = Type(shown[0], w[1])
    BY <1>3, <2>3
  <2> QED
    BY <1>2, <1>3, <2>1, <2>2, <2>4
<1>5. ASSUME NEW k \in 1 .. n - 1 PROVE later[k] = Type(later[k - 1], v[k])
  <2>1. /\ k \in 0 .. n - 1 /\ k - 1 \in 0 .. n - 1 /\ k + 1 \in 1 .. n
        /\ (k + 1) - 1 = k /\ (k - 1) + 1 = k
    BY <1>1
  <2>2. later[k] = shown[k + 1] /\ later[k - 1] = shown[k]
    BY <2>1
  <2>3. shown[k + 1] = Type(shown[k], w[k + 1])
    BY <1>3, <2>1
  <2> QED
    BY <1>1, <2>2, <2>3
<1> HIDE DEF later
<1>6. Typing(later, Type(s, Head(w)), v) /\ later[Len(v)] = u
  BY <1>1, <1>4, <1>5 DEF Typing
<1>7. TypesTo(Type(s, Head(w)), v, u)
  BY <1>6 DEF TypesTo
<1> QED
  BY <1>1, <1>7 DEF v

LEMMA TypesLast ==
  ASSUME NEW s \in Terminal, NEW w \in Seq(Char), NEW d \in Char, NEW u,
         TypesTo(s, Append(w, d), u)
  PROVE  \E v \in Terminal : TypesTo(s, w, v) /\ u = Type(v, d)
<1> DEFINE n == Len(w)
           x == Append(w, d)
<1>1. /\ n \in Nat /\ Len(x) = n + 1 /\ x[n + 1] = d
      /\ \A k \in 1 .. n : x[k] = w[k]
  OBVIOUS
<1>2. PICK shown : Typing(shown, s, x) /\ shown[Len(x)] = u
  BY DEF TypesTo
<1> HIDE DEF x
<1>3. /\ shown \in [0 .. n + 1 -> Terminal] /\ shown[0] = s
      /\ \A k \in 1 .. n + 1 : shown[k] = Type(shown[k - 1], x[k])
      /\ shown[n + 1] = u
  BY <1>1, <1>2 DEF Typing
<1> DEFINE before == [k \in 0 .. n |-> shown[k]]
<1> HIDE DEF n
<1>4. before \in [0 .. n -> Terminal] /\ before[n] = shown[n] /\ before[0] = s
  <2>1. 0 \in 0 .. n /\ n \in 0 .. n /\ \A k \in 0 .. n : k \in 0 .. n + 1
    BY <1>1
  <2> QED
    BY <1>3, <2>1
<1>5. ASSUME NEW k \in 1 .. n PROVE before[k] = Type(before[k - 1], w[k])
  <2>1. k \in 0 .. n /\ k - 1 \in 0 .. n /\ k \in 1 .. n + 1
    BY <1>1
  <2> QED
    BY <1>1, <1>3, <2>1
<1> HIDE DEF before
<1>6. Typing(before, s, w) /\ before[Len(w)] = shown[n]
  BY <1>4, <1>5 DEF Typing, n
<1>7. u = Type(shown[n], d) /\ shown[n] \in Terminal
  <2>1. n + 1 \in 1 .. n + 1 /\ (n + 1) - 1 = n /\ n \in 0 .. n + 1
    BY <1>1
  <2> QED
    BY <1>1, <1>3, <2>1
<1> QED
  BY <1>6, <1>7 DEF TypesTo

LEMMA TypesOne ==
  ASSUME NEW s \in Terminal, NEW d \in Char, NEW u, TypesTo(s, <<d>>, u)
  PROVE  u = Type(s, d)
<1>1. PICK w \in Seq(Char) : w = <<>> /\ Append(w, d) = <<d>>
  <2>1. <<>> \in Seq(Char) /\ Append(<<>>, d) = <<d>>
    OBVIOUS
  <2> QED
    BY <2>1
<1>2. TypesTo(s, Append(w, d), u)
  BY <1>1
<1>3. PICK v \in Terminal : TypesTo(s, w, v) /\ u = Type(v, d)
  BY <1>2, TypesLast
<1> QED
  BY <1>1, <1>3, TypesNothing

-----------------------------------------------------------------------------
(* u is what s becomes when the characters of the buffer from k on are.    *)
Printing(shown, f, s, k, u) ==
  /\ shown \in [k .. Digits -> Terminal] /\ shown[k] = s /\ shown[Digits] = u
  /\ \A i \in k .. Digits - 1 : shown[i + 1] = Type(shown[i], f[i])

PrintsFrom(f, s, k, u) == \E shown : Printing(shown, f, s, k, u)

LEMMA PrintsNothing ==
  ASSUME NEW f, NEW s \in Terminal, NEW u
  PROVE  PrintsFrom(f, s, Digits, u) <=> u = s
<1>1. Digits \in Nat
  BY Constants
<1>2. ASSUME u = s PROVE PrintsFrom(f, s, Digits, u)
  <2> DEFINE shown == [k \in Digits .. Digits |-> s]
  <2>1. Printing(shown, f, s, Digits, u)
    BY <1>1, <1>2 DEF Printing
  <2> HIDE DEF shown
  <2> QED
    BY <2>1 DEF PrintsFrom
<1> QED
  BY <1>1, <1>2 DEF PrintsFrom, Printing

LEMMA PrintsFirst ==
  ASSUME NEW f, NEW s \in Terminal, NEW k \in 0 .. Digits - 1, NEW u, PrintsFrom(f, s, k, u)
  PROVE  PrintsFrom(f, Type(s, f[k]), k + 1, u)
<1>1. Digits \in Nat
  BY Constants
<1>2. PICK shown : Printing(shown, f, s, k, u)
  BY DEF PrintsFrom
<1> DEFINE later == [i \in k + 1 .. Digits |-> shown[i]]
<1>3. /\ k \in k .. Digits - 1 /\ Digits \in k + 1 .. Digits /\ k + 1 \in k + 1 .. Digits
      /\ \A i \in k + 1 .. Digits : i \in k .. Digits
      /\ \A i \in k + 1 .. Digits - 1 :
           i \in k + 1 .. Digits /\ i + 1 \in k + 1 .. Digits /\ i \in k .. Digits - 1
  BY <1>1
<1>4. /\ later \in [k + 1 .. Digits -> Terminal] /\ later[Digits] = u
      /\ later[k + 1] = Type(s, f[k])
  BY <1>2, <1>3 DEF Printing
<1>5. \A i \in k + 1 .. Digits - 1 : later[i + 1] = Type(later[i], f[i])
  BY <1>2, <1>3 DEF Printing
<1> HIDE DEF later
<1> QED
  BY <1>4, <1>5 DEF PrintsFrom, Printing

LEMMA PrintsMore ==
  ASSUME NEW f, NEW g, NEW v \in Terminal, NEW k \in 0 .. Digits - 1, NEW u,
         PrintsFrom(f, Type(v, g[k]), k + 1, u),
         \A i \in k + 1 .. Digits - 1 : g[i] = f[i]
  PROVE  PrintsFrom(g, v, k, u)
<1>1. Digits \in Nat
  BY Constants
<1>2. PICK shown : Printing(shown, f, Type(v, g[k]), k + 1, u)
  BY DEF PrintsFrom
<1> DEFINE more == [i \in k .. Digits |-> IF i = k THEN v ELSE shown[i]]
<1>3. /\ Digits \in k .. Digits /\ k \in k .. Digits /\ k # Digits
      /\ \A i \in k .. Digits : i # k => i \in k + 1 .. Digits
      /\ \A i \in k .. Digits - 1 : i + 1 \in k .. Digits /\ i + 1 # k /\ i \in k .. Digits
      /\ \A i \in k .. Digits - 1 : i # k => i \in k + 1 .. Digits - 1
  BY <1>1
<1>4. more \in [k .. Digits -> Terminal] /\ more[Digits] = u /\ more[k] = v
  BY <1>2, <1>3 DEF Printing
<1>5. ASSUME NEW i \in k .. Digits - 1 PROVE more[i + 1] = Type(more[i], g[i])
  <2>1. more[i + 1] = shown[i + 1]
    BY <1>3
  <2>2. CASE i = k
    BY <1>2, <1>4, <2>1, <2>2 DEF Printing
  <2>3. CASE i # k
    <3>1. i \in k + 1 .. Digits - 1 /\ more[i] = shown[i]
      BY <1>3, <2>3
    <3> HIDE DEF more
    <3> QED
      BY <1>2, <2>1, <3>1 DEF Printing
  <2> QED
    BY <2>2, <2>3
<1> HIDE DEF more
<1> QED
  BY <1>4, <1>5 DEF PrintsFrom, Printing

LEMMA PrintsSame ==
  ASSUME NEW f, NEW g, NEW s, NEW k \in 0 .. Digits, NEW u, PrintsFrom(f, s, k, u),
         \A i \in k .. Digits - 1 : g[i] = f[i]
  PROVE  PrintsFrom(g, s, k, u)
BY DEF PrintsFrom, Printing

(* The digits of the buffer from the first one at or behind e that is not  *)
(* "0" make u of s; if all are, a "0" does.                                *)
First(f, s, k, u) == IF k = Digits THEN u = Type(s, "0") ELSE PrintsFrom(f, s, k, u)

Leading(f, e, k) == (\A j \in e .. k - 1 : f[j] = "0") /\ (k # Digits => f[k] # "0")

Significant(f, s, e, u) == \E k \in e .. Digits : Leading(f, e, k) /\ First(f, s, k, u)

(* The loop that fills the buffer is at place e, with n still to convert.  *)
Filling(f, n, s, e, u) ==
  IF n = 0 THEN Significant(f, s, e + 1, u)
  ELSE \E v \in Terminal : TypesTo(s, Numeral(n), v) /\ PrintsFrom(f, v, e + 1, u)

LEMMA OnlyZeroIsZero ==
  ASSUME NEW d \in 0 .. 15
  PROVE  Digit(d) = "0" <=> d = 0
<1> DEFINE hex == <<"0", "1", "2", "3", "4", "5", "6", "7",
                    "8", "9", "A", "B", "C", "D", "E", "F">>
<1>1. /\ hex[1] = "0" /\ hex[2] # "0" /\ hex[3] # "0" /\ hex[4] # "0"
      /\ hex[5] # "0" /\ hex[6] # "0" /\ hex[7] # "0" /\ hex[8] # "0"
      /\ hex[9] # "0" /\ hex[10] # "0" /\ hex[11] # "0" /\ hex[12] # "0"
      /\ hex[13] # "0" /\ hex[14] # "0" /\ hex[15] # "0" /\ hex[16] # "0"
  OBVIOUS
<1>2. Digit(d) = hex[d + 1]
  BY DEF Digit
<1> HIDE DEF hex
<1>3. d \in {0, 1, 2, 3, 4, 5, 6, 7, 8, 9, 10, 11, 12, 13, 14, 15}
  OBVIOUS
<1> QED
  BY <1>1, <1>2, <1>3

LEMMA BaseRange == Base \in Nat \ {0} /\ Base > 1 /\ Base <= 16
BY ScreenAssumption DEF ScreenAssumption

(* One turn of that loop.                                                  *)
LEMMA FillsOne ==
  ASSUME NEW f \in [0 .. Digits - 1 -> Char], NEW n \in Nat, NEW s \in Terminal,
         NEW e \in 0 .. Digits - 1, NEW u, Filling(f, n, s, e, u),
         NEW g, g = [f EXCEPT ![e] = Digit(n % Base)]
  PROVE  IF n \div Base = 0 THEN Significant(g, s, e, u)
         ELSE \E v \in Terminal : TypesTo(s, Numeral(n \div Base), v) /\ PrintsFrom(g, v, e, u)
<1>1. Digits \in Nat /\ Base \in Nat \ {0} /\ Base <= 16 /\ Base > 1
  <2>1. Digits \in Nat
    BY Constants
  <2> QED
    BY <2>1, BaseRange
<1>2. PICK q \in Nat, r \in 0 .. Base - 1 : q = n \div Base /\ r = n % Base /\ n = Base * q + r
  BY <1>1, DivMod
<1>3. r \in 0 .. 15
  BY <1>1
<1>4. g[e] = Digit(r) /\ Digit(r) \in Char /\ \A i \in 0 .. Digits - 1 : i # e => g[i] = f[i]
  BY <1>2, <1>3, DigitIsChar
<1>5. \A i \in e + 1 .. Digits - 1 : g[i] = f[i]
  <2>1. \A i \in e + 1 .. Digits - 1 : i \in 0 .. Digits - 1 /\ i # e
    BY <1>1
  <2> QED
    BY <1>4, <2>1
<1>6. q = 0 <=> n < Base
  <2>1. q = 0 => n = r
    BY <1>1, <1>2
  <2>2. q # 0 => n >= Base
    <3> SUFFICES ASSUME q # 0 PROVE n >= Base
      OBVIOUS
    <3>1. PICK d \in Nat : q = 1 + d
      OBVIOUS
    <3>2. Base * q = Base + Base * d /\ Base * d \in Nat
      BY <1>1, <3>1
    <3> QED
      BY <1>1, <1>2, <3>2
  <2> QED
    BY <1>1, <2>1, <2>2
<1>7. q = 0 => r = n
  BY <1>1, <1>2
<1>8. ASSUME NEW v \in Terminal, NEW x, x = Type(v, Digit(r)), PrintsFrom(f, x, e + 1, u)
      PROVE  PrintsFrom(g, v, e, u)
  <2>1. PrintsFrom(f, Type(v, g[e]), e + 1, u)
    BY <1>4, <1>8
  <2> QED
    BY <1>5, <2>1, PrintsMore
<1>9. CASE n = 0
  <2>1. q = 0 /\ g[e] = "0"
    <3>1. q = 0
      BY <1>1, <1>6, <1>9
    <3>2. r = 0
      BY <1>7, <1>9, <3>1
    <3> QED
      BY <1>3, <1>4, <3>1, <3>2, OnlyZeroIsZero
  <2>2. PICK k \in e + 1 .. Digits : Leading(f, e + 1, k) /\ First(f, s, k, u)
    BY <1>9 DEF Filling, Significant
  <2>3. k \in e .. Digits /\ k \in 0 .. Digits
    BY <1>1
  <2>4. Leading(g, e, k)
    <3>1. ASSUME NEW j \in e .. k - 1 PROVE g[j] = "0"
      <4>1. j = e \/ (j \in e + 1 .. k - 1 /\ j \in e + 1 .. Digits - 1)
        BY <1>1
      <4> QED
        BY <1>5, <2>1, <2>2, <4>1 DEF Leading
    <3>2. k # Digits => g[k] # "0"
      <4>1. k # Digits => k \in e + 1 .. Digits - 1
        BY <1>1
      <4> QED
        BY <1>5, <2>2, <4>1 DEF Leading
    <3> QED
      BY <3>1, <3>2 DEF Leading
  <2>5. First(g, s, k, u)
    <3>1. \A i \in k .. Digits - 1 : g[i] = f[i]
      <4>1. \A i \in k .. Digits - 1 : i \in e + 1 .. Digits - 1
        BY <1>1
      <4> QED
        BY <1>5, <4>1
    <3> QED
      BY <2>2, <2>3, <3>1, PrintsSame DEF First
  <2> QED
    BY <1>2, <2>1, <2>3, <2>4, <2>5 DEF Significant
<1>10. CASE n # 0 /\ n < Base
  <2>1. PICK v \in Terminal : TypesTo(s, Numeral(n), v) /\ PrintsFrom(f, v, e + 1, u)
    BY <1>10 DEF Filling
  <2>2. v = Type(s, Digit(r)) /\ Digit(r) # "0"
    <3>1. r = n /\ Numeral(n) = <<Digit(r)>>
      BY <1>6, <1>7, <1>10, NumeralText
    <3>2. TypesTo(s, <<Digit(r)>>, v)
      BY <2>1, <3>1
    <3> QED
      BY <1>3, <1>4, <1>10, <3>1, <3>2, TypesOne, OnlyZeroIsZero
  <2>3. PrintsFrom(g, s, e, u)
    BY <1>8, <2>1, <2>2
  <2>4. e \in e .. Digits /\ e # Digits /\ \A j \in e .. e - 1 : FALSE
    BY <1>1
  <2>5. Leading(g, e, e) /\ First(g, s, e, u)
    BY <1>4, <2>2, <2>3, <2>4 DEF Leading, First
  <2> QED
    BY <1>2, <1>6, <1>10, <2>4, <2>5 DEF Significant
<1>11. CASE Base <= n
  <2>1. n # 0 /\ q # 0
    BY <1>1, <1>6, <1>11
  <2>2. PICK v \in Terminal : TypesTo(s, Numeral(n), v) /\ PrintsFrom(f, v, e + 1, u)
    BY <2>1 DEF Filling
  <2>3. Numeral(n) = Append(Numeral(q), Digit(r)) /\ Numeral(q) \in Seq(Char)
    BY <1>2, <1>11, NumeralText
  <2>4. TypesTo(s, Append(Numeral(q), Digit(r)), v)
    BY <2>2, <2>3
  <2>5. PICK x \in Terminal : TypesTo(s, Numeral(q), x) /\ v = Type(x, Digit(r))
    BY <1>4, <2>3, <2>4, TypesLast
  <2>6. PrintsFrom(g, x, e, u)
    BY <1>8, <2>2, <2>5
  <2> QED
    BY <1>2, <2>1, <2>5, <2>6
<1>12. n = 0 \/ (n # 0 /\ n < Base) \/ Base <= n
  BY <1>1
<1> QED
  BY <1>9, <1>10, <1>11, <1>12, Zenon

(* And the number that is left has a digit less.                           *)
LEMMA DigitLess ==
  ASSUME NEW n \in Nat, NEW e \in 0 .. Digits - 1, n < Power[e + 1]
  PROVE  n \div Base < Power[e] /\ n \div Base \in Nat /\ (e = 0 => n \div Base = 0)
<1>1. Digits \in Nat /\ Base \in Nat \ {0}
  BY ScreenAssumption DEF ScreenAssumption
<1>2. e + 1 \in 1 .. Digits /\ e \in 0 .. Digits /\ (e + 1) - 1 = e
  BY <1>1
<1>3. Power[e + 1] = Base * Power[e] /\ Power[e] \in Nat /\ Power[0] = 1
  BY <1>2, Powers
<1> DEFINE P == Power[e]
<1>4. PICK q \in Nat, r \in 0 .. Base - 1 : q = n \div Base /\ n = Base * q + r
  BY <1>1, DivMod
<1>5. n < Base * P /\ P \in Nat
  BY <1>3
<1> HIDE DEF P
<1>6. q < P
  <2> SUFFICES ASSUME P <= q PROVE FALSE
    BY <1>5
  <2>1. PICK d \in Nat : q = P + d
    BY <1>5
  <2>2. Base * q = Base * P + Base * d /\ Base * d \in Nat /\ Base * P \in Nat
    BY <1>1, <1>5, <2>1
  <2> QED
    BY <1>1, <1>4, <1>5, <2>2
<1>7. e = 0 => q = 0
  BY <1>3, <1>6 DEF P
<1> QED
  BY <1>4, <1>6, <1>7 DEF P

-----------------------------------------------------------------------------
(* What is still to be printed, behind the character in cl, makes u of s.  *)
Continues(f, n, w, e, s, u) ==
  IF n = -1 THEN TypesTo(s, w, u)
  ELSE w = <<>> /\ IF e < Digits THEN PrintsFrom(f, s, e, u) ELSE u = s

Visible(v, s) == \A i \in 0 .. Size - 1 : v[i] = Look(s, i)

\* The first b cells have been moved up by a line; the last line is blank from b on.
Rolling(v, b, s) ==
  \A i \in 0 .. Size - 1 :
    IF i < b THEN v[i] = Look(s, i)
    ELSE IF i < Size - Cols THEN v[i + Cols] = Look(s, i) ELSE Look(s, i) = " "

Clearing(v, b, s) ==
  \A i \in 0 .. Size - 1 : IF i < b THEN v[i] = Look(s, i) ELSE Look(s, i) = " "

InChar  == {"select_hi", "in_hi", "select_lo", "in_lo", "store"}
Setting == {"set_hi", "out_hi", "set_lo", "out_lo"}

(* s is the terminal as far as t's call has been printed: it is on the     *)
(* screen, with the cursor behind it, until put_char stores the next       *)
(* character; then the screen and the cursor follow it.                    *)
Prints(t, s) ==
  /\ pc[t] \notin Setting \union {"roll", "cls"} => Cursor = Place(s) /\ Visible(video, s)
  /\ pc[t] = "next" =>
       /\ Continues(buffer, num[t], rest[t], edi[t], s, term)
       /\ num[t] # -1 => ~ (edi[t] < Digits)
  /\ pc[t] \in {"fill", "skip", "digit"} => num[t] # -1 /\ rest[t] = <<>>
  /\ pc[t] = "fill" => num[t] < Power[edi[t] + 1] /\ Filling(buffer, num[t], s, edi[t], term)
  /\ pc[t] = "skip" => Significant(buffer, s, 0, term)
  /\ pc[t] = "digit" => First(buffer, s, edi[t], term)
  /\ pc[t] \in InChar => Continues(buffer, num[t], rest[t], edi[t], Type(s, cl[t]), term)
  /\ pc[t] \in Setting \union {"roll", "cls"} =>
       Continues(buffer, num[t], rest[t], edi[t], s, term)
  /\ pc[t] = "roll" => Place(s) = Size - Cols /\ Rolling(video, bx[t], s)
  /\ pc[t] = "cls" => Place(s) = Size - Cols /\ Clearing(video, bx[t], s)
  /\ pc[t] \in Setting => bx[t] = Place(s) /\ Visible(video, s)

Idle == \A t \in Thread : pc[t] = "idle"

Follows ==
  /\ Idle => Cursor = Place(term) /\ Visible(video, term)
  /\ \A t \in Thread : pc[t] # "idle" => \E s \in Terminal : Prints(t, s)

ShownInv == ScreenInv /\ Follows

(* A step of the thread inside that stays there.                           *)
LEMMA StaysIn ==
  ASSUME NEW t \in Thread, ScreenInv, pc[t] # "idle", NEW l \in PC, l # "idle", Goto(t, l),
         NEW s \in Terminal, pc'[t] = l => Prints(t, s)'
  PROVE  Follows'
<1>1. pc' \in [Thread -> PC] /\ pc'[t] = l /\ \A u \in Thread \ {t} : pc'[u] = pc[u]
  BY DEF ScreenInv, TypeOK, Goto
<1>2. \A u \in Thread \ {t} : pc'[u] = "idle"
  BY <1>1, OneInside DEF ScreenInv, IndexInv
<1>3. Prints(t, s)' /\ ~ Idle'
  BY <1>1 DEF Idle
<1>4. \A u \in Thread : pc'[u] # "idle" => u = t
  BY <1>2
<1> QED
  BY <1>3, <1>4 DEF Follows

LEMMA CallShown ==
  ASSUME NEW t \in Thread, NEW job \in Job, ShownInv, Call(t, job)
  PROVE  Follows'
<1>1. TypeOK /\ LockHeld /\ pc[t] = "idle"
  BY DEF ShownInv, ScreenInv, IndexInv, Call, Begin, At
<1> DEFINE l == IF job.num = -1 THEN "next" ELSE "fill"
           s == term
           w == Said(job)
<1>2. Console!Acquire(t, "console") /\ l \in PC /\ l # "idle" /\ Goto(t, l)
  BY DEF Call, Begin, PC
<1>3. pc'[t] = l /\ \A u \in Thread \ {t} : pc'[u] = "idle" /\ pc[u] = "idle"
  <2> HIDE DEF l
  <2> QED BY <1>1, <1>2, Acquires
<1>4. Cursor = Place(s) /\ Visible(video, s) /\ s \in Terminal
  BY <1>1, <1>3 DEF ShownInv, Follows, Idle, TypeOK
<1>5. /\ rest'[t] = job.str /\ num'[t] = job.num /\ edi'[t] = Digits - 1
      /\ UNCHANGED <<buffer, crt, video>>
  BY <1>1 DEF TypeOK, Call, Begin, device
<1>6. w \in Seq(Char) /\ term' = FoldLeft(Type, s, w)
  BY SaidIsText DEF Call, Begin
<1> HIDE DEF w, l
<1>7. PICK s0 \in Terminal : s0 = s
  BY <1>4
<1>8. TypesTo(s0, w, term') /\ term' \in Terminal
  <2>1. TypesTo(s0, w, term')
    BY <1>6, <1>7, FoldTypesTo
  <2>2. Len(w) \in Nat
    BY <1>6
  <2> QED
    BY <2>1, <2>2 DEF TypesTo, Typing
<1>9. Digits \in Nat \ {0} /\ Digits - 1 \in 0 .. Digits - 1 /\ (Digits - 1) + 1 = Digits
  BY Constants
<1>10. CASE job.num = -1
  <2>1. l = "next" /\ w = job.str
    BY <1>10 DEF Said, l, w
  <2>2. Continues(buffer, job.num, job.str, Digits - 1, s0, term')
    BY <1>8, <1>10, <2>1 DEF Continues
  <2>3. Prints(t, s0)'
    BY <1>3, <1>4, <1>5, <1>7, <1>10, <2>1, <2>2 DEF Prints, InChar, Setting, Cursor
  <2> QED
    BY <1>3, <2>1, <2>3 DEF Follows, Idle
<1>11. CASE job.num # -1
  <2> DEFINE n == job.num
  <2>1. l = "fill" /\ w = Numeral(n) /\ job.str = <<>> /\ n \in Numbers
    BY <1>11 DEF Said, l, w, Job
  <2>2. n \in Nat /\ n < Power[Digits]
    <3>1. n \in 0 .. Power[Digits] - 1 /\ Power[Digits] - 1 \in Int
      BY <2>1, Constants, ScreenAssumption DEF ScreenAssumption
    <3>2. Power[Digits] \in Nat
      BY <1>9, Powers
    <3> HIDE DEF n
    <3> QED
      BY <3>1, <3>2
  <2>3. Filling(buffer, n, s0, Digits - 1, term')
    <3>1. CASE n = 0
      <4>1. Numeral(0) = <<Digit(0)>> /\ Digit(0) = "0"
        <5>1. 0 \in Nat /\ 0 < Base /\ 0 \in 0 .. 15
          BY BaseRange
        <5> QED
          BY <5>1, NumeralText, OnlyZeroIsZero
      <4>2. TypesTo(s0, <<"0">>, term') /\ "0" \in Char
        BY <1>8, <2>1, <3>1, <4>1, BlankIsChar
      <4>3. term' = Type(s0, "0")
        BY <4>2, TypesOne
      <4>4. Digits \in Digits .. Digits /\ \A j \in Digits .. Digits - 1 : FALSE
        BY <1>9
      <4>5. Significant(buffer, s0, Digits, term')
        BY <4>3, <4>4 DEF Significant, Leading, First
      <4> QED
        BY <1>9, <3>1, <4>5 DEF Filling
    <3>2. CASE n # 0
      <4>1. PrintsFrom(buffer, term', Digits, term')
        BY <1>8, PrintsNothing
      <4> QED
        BY <1>8, <1>9, <2>1, <3>2, <4>1 DEF Filling
    <3> QED
      BY <3>1, <3>2
  <2>4. Prints(t, s0)'
    <3> HIDE DEF n
    <3>1. num'[t] = n /\ rest'[t] = <<>> /\ pc'[t] = "fill" /\ n # -1
      BY <1>3, <1>5, <1>11, <2>1 DEF n
    <3>2. buffer' = buffer /\ edi'[t] = Digits - 1 /\ edi'[t] + 1 = Digits
      BY <1>5, <1>9
    <3>3. Cursor' = Place(s0) /\ Visible(video', s0)
      BY <1>4, <1>5, <1>7 DEF Cursor
    <3>4. num'[t] < Power[edi'[t] + 1] /\ Filling(buffer', num'[t], s0, edi'[t], term')
      BY <2>2, <2>3, <3>1, <3>2
    <3> QED
      BY <3>1, <3>3, <3>4 DEF Prints, InChar, Setting
  <2> QED
    BY <1>3, <2>1, <2>4 DEF Follows, Idle
<1> QED
  BY <1>10, <1>11

LEMMA NextCharShown ==
  ASSUME NEW t \in Thread, ShownInv, NextChar(t)
  PROVE  Follows'
<1>1. ScreenInv /\ TypeOK /\ LockHeld /\ pc[t] = "next"
  BY DEF ShownInv, ScreenInv, IndexInv, NextChar, At
<1>2. PICK s \in Terminal : Prints(t, s)
  BY <1>1 DEF ShownInv, Follows
<1>3. /\ Cursor = Place(s) /\ Visible(video, s)
      /\ Continues(buffer, num[t], rest[t], edi[t], s, term)
      /\ num[t] # -1 => ~ (edi[t] < Digits)
  BY <1>1, <1>2 DEF Prints, Setting
<1>4. CASE rest[t] = <<>>
  <2>1. Return(t)
    BY <1>4 DEF NextChar
  <2>2. \A u \in Thread : pc'[u] = "idle"
    BY <1>1, <2>1, Releases DEF Return
  <2>3. term = s
    BY <1>3, <1>4, TypesNothing DEF Continues
  <2>4. UNCHANGED <<crt, video, term>>
    BY <2>1 DEF Return, device
  <2> QED
    BY <1>3, <2>2, <2>3, <2>4 DEF Follows, Cursor
<1>5. CASE rest[t] # <<>>
  <2> DEFINE w == rest[t]
  <2>1. w \in Seq(Char) /\ num[t] = -1 /\ TypesTo(s, w, term)
    BY <1>1, <1>3, <1>5 DEF Continues, TypeOK
  <2>2. TypesTo(Type(s, Head(w)), Tail(w), term)
    <3> HIDE DEF w
    <3>1. w # <<>>
      BY <1>5 DEF w
    <3> QED BY <2>1, <3>1, TypesFirst
  <2>3. /\ Goto(t, "select_hi") /\ cl'[t] = Head(w) /\ rest'[t] = Tail(w)
        /\ UNCHANGED <<crt, video, buffer, num, edi, term>>
    BY <1>1, <1>5 DEF NextChar, device, TypeOK
  <2> HIDE DEF w
  <2>4. Continues(buffer', num'[t], rest'[t], edi'[t], Type(s, cl'[t]), term')
    BY <2>1, <2>2, <2>3 DEF Continues
  <2>5. Cursor' = Place(s) /\ Visible(video', s)
    BY <1>3, <2>3 DEF Cursor
  <2>6. pc'[t] = "select_hi" => Prints(t, s)'
    BY <2>4, <2>5 DEF Prints, InChar, Setting
  <2> QED
    BY <1>1, <2>3, <2>6, StaysIn DEF PC
<1> QED
  BY <1>4, <1>5

LEMMA FillShown ==
  ASSUME NEW t \in Thread, ShownInv, FillDigit(t)
  PROVE  Follows'
<1> DEFINE n == num[t]
           e == edi[t]
           g == [buffer EXCEPT ![e] = Digit(n % Base)]
           q == n \div Base
           l == IF e = 0 THEN "skip" ELSE "fill"
<1>1. ScreenInv /\ TypeOK /\ pc[t] = "fill"
  BY DEF ShownInv, ScreenInv, FillDigit, Fill, At
<1>2. PICK s \in Terminal : Prints(t, s)
  BY <1>1 DEF ShownInv, Follows
<1>3. /\ Cursor = Place(s) /\ Visible(video, s) /\ rest[t] = <<>>
      /\ n < Power[e + 1] /\ Filling(buffer, n, s, e, term)
  BY <1>1, <1>2 DEF Prints, Setting
<1>4. e \in 0 .. Digits - 1 /\ n \in Nat /\ buffer \in [0 .. Digits - 1 -> Char]
  BY <1>1 DEF ScreenInv, Places, TypeOK
<1>5. /\ buffer' = g /\ num'[t] = q /\ edi'[t] = IF e = 0 THEN 0 ELSE e - 1
      /\ rest'[t] = <<>> /\ Goto(t, l)
      /\ UNCHANGED <<crt, video, term>>
  BY <1>1, <1>3 DEF FillDigit, Fill, device, TypeOK
<1> HIDE DEF n, e
<1>6. q < Power[e] /\ q \in Nat /\ (e = 0 => q = 0)
  BY <1>3, <1>4, DigitLess
<1>7. IF q = 0 THEN Significant(g, s, e, term)
      ELSE \E v \in Terminal : TypesTo(s, Numeral(q), v) /\ PrintsFrom(g, v, e, term)
  BY <1>3, <1>4, FillsOne
<1> HIDE DEF g, q
<1>8. Cursor' = Place(s) /\ Visible(video', s)
  BY <1>3, <1>5 DEF Cursor
<1>9. num'[t] # -1
  BY <1>5, <1>6
<1>10. CASE e = 0
  <2>1. Significant(buffer', s, 0, term')
    BY <1>5, <1>6, <1>7, <1>10
  <2>2. pc'[t] = "skip" => Prints(t, s)'
    BY <1>5, <1>8, <1>9, <2>1 DEF Prints, InChar, Setting
  <2>3. l = "skip"
    BY <1>10
  <2> HIDE DEF l
  <2> QED
    BY <1>1, <1>5, <2>2, <2>3, StaysIn DEF PC
<1>11. CASE e # 0
  <2>1. edi'[t] + 1 = e /\ l = "fill"
    BY <1>4, <1>5, <1>11
  <2>2. num'[t] < Power[edi'[t] + 1] /\ Filling(buffer', num'[t], s, edi'[t], term')
    BY <1>5, <1>6, <1>7, <2>1 DEF Filling
  <2> HIDE DEF l
  <2>3. pc'[t] = "fill" => Prints(t, s)'
    BY <1>5, <1>8, <1>9, <2>2 DEF Prints, InChar, Setting
  <2> QED
    BY <1>1, <1>5, <2>1, <2>3, StaysIn DEF PC
<1> QED
  BY <1>10, <1>11

LEMMA SkipZerosShown ==
  ASSUME NEW t \in Thread, ShownInv, SkipZeros(t)
  PROVE  Follows'
<1> DEFINE S == {i \in 0 .. Digits - 1 : buffer[i] # "0"} \union {Digits}
           e == Min(S)
<1>1. ScreenInv /\ TypeOK /\ pc[t] = "skip" /\ Goto(t, "digit")
  BY DEF ShownInv, ScreenInv, SkipZeros, At
<1>2. PICK s \in Terminal : Prints(t, s)
  BY <1>1 DEF ShownInv, Follows
<1>3. /\ Cursor = Place(s) /\ Visible(video, s) /\ rest[t] = <<>> /\ num[t] # -1
      /\ Significant(buffer, s, 0, term)
  BY <1>1, <1>2 DEF Prints, Setting
<1>4. PICK k \in 0 .. Digits : Leading(buffer, 0, k) /\ First(buffer, s, k, term)
  BY <1>3 DEF Significant
<1>5. Digits \in Nat
  BY Constants
<1>6. e \in S /\ \A x \in S : e <= x
  <2>1. S \in SUBSET Nat /\ S # {}
    BY <1>5
  <2> HIDE DEF S
  <2> QED BY <2>1, LeastElement
<1> HIDE DEF e
<1>7. e = k
  <2>1. k \in S
    BY <1>4, <1>5 DEF Leading
  <2>2. e \in Nat /\ e <= k
    BY <1>5, <1>6, <2>1
  <2>3. ~ (e < k)
    <3> SUFFICES ASSUME e < k PROVE FALSE
      OBVIOUS
    <3>1. e \in 0 .. k - 1 /\ e # Digits
      BY <1>5, <2>2
    <3> QED
      BY <1>4, <1>6, <3>1 DEF Leading
  <2> QED
    BY <1>5, <2>2, <2>3
<1>8. edi'[t] = e /\ UNCHANGED <<crt, video, buffer, rest, num, term>>
  BY <1>1 DEF SkipZeros, device, TypeOK, e
<1>9. Cursor' = Place(s) /\ Visible(video', s)
  BY <1>3, <1>8 DEF Cursor
<1>10. pc'[t] = "digit" => Prints(t, s)'
  BY <1>3, <1>4, <1>7, <1>8, <1>9 DEF Prints, InChar, Setting
<1> QED
  BY <1>1, <1>10, StaysIn DEF PC

LEMMA NextDigitShown ==
  ASSUME NEW t \in Thread, ShownInv, NextDigit(t)
  PROVE  Follows'
<1> DEFINE e == edi[t]
           c == IF e = Digits THEN "0" ELSE buffer[e]
<1>1. ScreenInv /\ TypeOK /\ pc[t] = "digit" /\ Goto(t, "select_hi")
  BY DEF ShownInv, ScreenInv, NextDigit, At
<1>2. PICK s \in Terminal : Prints(t, s)
  BY <1>1 DEF ShownInv, Follows
<1>3. /\ Cursor = Place(s) /\ Visible(video, s) /\ rest[t] = <<>> /\ num[t] # -1
      /\ First(buffer, s, e, term)
  BY <1>1, <1>2 DEF Prints, Setting
<1>4. e \in 0 .. Digits /\ Digits \in Nat /\ buffer \in [0 .. Digits - 1 -> Char]
  BY <1>1, Constants DEF ScreenInv, Places, TypeOK
<1>5. /\ cl'[t] = c /\ edi'[t] = e + 1
      /\ UNCHANGED <<crt, video, buffer, rest, num, term>>
  BY <1>1 DEF NextDigit, device, TypeOK
<1> HIDE DEF e
<1>6. IF e + 1 < Digits THEN PrintsFrom(buffer, Type(s, c), e + 1, term)
      ELSE term = Type(s, c)
  <2>1. CASE e = Digits
    BY <1>3, <1>4, <2>1 DEF First
  <2>2. CASE e # Digits
    <3>1. e \in 0 .. Digits - 1 /\ c = buffer[e] /\ c \in Char
      BY <1>4, <2>2
    <3> HIDE DEF c
    <3>2. PrintsFrom(buffer, s, e, term)
      BY <1>3, <2>2 DEF First
    <3>3. PrintsFrom(buffer, Type(s, c), e + 1, term) /\ Type(s, c) \in Terminal
      BY <3>1, <3>2, PrintsFirst, TypeTerminal
    <3>4. ~ (e + 1 < Digits) => e + 1 = Digits
      BY <1>4, <3>1
    <3> QED
      BY <3>3, <3>4, PrintsNothing
  <2> QED
    BY <2>1, <2>2
<1> HIDE DEF c
<1>7. Continues(buffer', num'[t], rest'[t], edi'[t], Type(s, cl'[t]), term')
  BY <1>3, <1>5, <1>6 DEF Continues
<1>8. Cursor' = Place(s) /\ Visible(video', s)
  BY <1>3, <1>5 DEF Cursor
<1>9. pc'[t] = "select_hi" => Prints(t, s)'
  BY <1>7, <1>8 DEF Prints, InChar, Setting
<1> QED
  BY <1>1, <1>9, StaysIn DEF PC

LEMMA SelectShown ==
  ASSUME NEW t \in Thread, ShownInv,
         \/ SelectHigh(t) \/ SelectLow(t) \/ SetHigh(t) \/ SetLow(t)
         \/ ReadHigh(t) \/ ReadLow(t) \/ WriteHigh(t)
  PROVE  Follows'
<1>1. ScreenInv /\ TypeOK
  BY DEF ShownInv, ScreenInv
<1>2. PICK l \in InChar \union Setting :
        /\ pc[t] \in InChar \union Setting /\ Goto(t, l)
        /\ l \in InChar => pc[t] \in InChar /\ UNCHANGED crt
        /\ l \in Setting => pc[t] \in Setting /\ UNCHANGED bx
        /\ UNCHANGED <<video, buffer, rest, num, edi, cl, term>>
  BY DEF SelectHigh, SelectLow, SetHigh, SetLow, Select, ReadHigh, ReadLow, In, WriteHigh, Out,
         At, InChar, Setting, local, device
<1>3. PICK s \in Terminal : Prints(t, s)
  BY <1>2 DEF ShownInv, Follows, InChar, Setting
<1>4. CASE l \in InChar
  <2>1. /\ Cursor = Place(s) /\ Visible(video, s)
        /\ Continues(buffer, num[t], rest[t], edi[t], Type(s, cl[t]), term)
    BY <1>2, <1>3, <1>4 DEF Prints, InChar, Setting
  <2>2. /\ Cursor' = Place(s) /\ Visible(video', s)
        /\ Continues(buffer', num'[t], rest'[t], edi'[t], Type(s, cl'[t]), term')
    BY <1>2, <1>4, <2>1 DEF Cursor
  <2>3. pc'[t] = l => Prints(t, s)'
    BY <1>4, <2>2 DEF Prints, InChar, Setting
  <2> QED
    BY <1>1, <1>2, <1>4, <2>3, StaysIn DEF PC, InChar, Setting
<1>5. CASE l \in Setting
  <2>1. /\ bx[t] = Place(s) /\ Visible(video, s)
        /\ Continues(buffer, num[t], rest[t], edi[t], s, term)
    BY <1>2, <1>3, <1>5 DEF Prints, InChar, Setting
  <2>2. /\ bx'[t] = Place(s) /\ Visible(video', s)
        /\ Continues(buffer', num'[t], rest'[t], edi'[t], s, term')
    BY <1>2, <1>5, <2>1
  <2>3. pc'[t] = l => Prints(t, s)'
    BY <1>5, <2>2 DEF Prints, InChar, Setting
  <2> QED
    BY <1>1, <1>2, <1>5, <2>3, StaysIn DEF PC, InChar, Setting
<1> QED
  BY <1>2, <1>4, <1>5

(* A store into the video memory that shows s.                             *)
LEMMA WrittenShows ==
  ASSUME NEW v \in [Cell -> Char], NEW s \in Terminal, NEW c \in Char, Visible(v, s),
         ~ Faults(c, Place(s))
  PROVE  \A i \in 0 .. Size - 1 : Written(v, c, Place(s))[i] = Stored(s, c, i)
<1> DEFINE b == Place(s)
<1>1. b \in 0 .. Size - 1
  BY PlaceOnScreen
<1>2. ASSUME NEW i \in 0 .. Size - 1 PROVE Written(v, c, b)[i] = Stored(s, c, i)
  <2>1. v[i] = Look(s, i) /\ i \in Cell
    <3>1. v[i] = Look(s, i)
      BY DEF Visible
    <3> QED
      BY <3>1, Constants
  <2>2. CASE c = "LF"
    BY <2>1, <2>2 DEF Written, Stored
  <2>3. CASE c # "LF"
    <3> DEFINE x == Target(c, b)
               d == IF c = "BS" THEN " " ELSE c
    <3>1. Written(v, c, b) = [v EXCEPT ![x] = d]
      BY <2>3 DEF Written
    <3>2. Stored(s, c, i) = IF i = x THEN d ELSE Look(s, i)
      BY <2>3 DEF Stored
    <3> HIDE DEF x, d
    <3> QED
      BY <2>1, <3>1, <3>2
  <2> QED
    BY <2>2, <2>3
<1> QED
  BY <1>2

LEMMA StoreShown ==
  ASSUME NEW t \in Thread, ShownInv, Store(t)
  PROVE  Follows'
<1>0. PICK c, b : c = cl[t] /\ b = bx[t]
  OBVIOUS
<1>1. ScreenInv /\ TypeOK /\ pc[t] = "store"
  BY DEF ShownInv, ScreenInv, Store, At
<1>2. PICK s \in Terminal : Prints(t, s)
  BY <1>1 DEF ShownInv, Follows
<1>3. /\ Cursor = Place(s) /\ Visible(video, s)
      /\ Continues(buffer, num[t], rest[t], edi[t], Type(s, c), term)
  BY <1>0, <1>1, <1>2 DEF Prints, InChar, Setting
<1>4. b = Place(s)
  BY <1>0, <1>1, <1>3 DEF ScreenInv, Places
<1>5. c \in Char /\ video \in [Cell -> Char]
  BY <1>0, <1>1 DEF TypeOK
<1>6. UNCHANGED <<crt, buffer, rest, num, edi, cl, term>>
  BY DEF Store
<1>7. CASE Faults(c, b)
  <2>1. UNCHANGED <<video, bx, pc>>
    BY <1>0, <1>7 DEF Store
  <2>2. Cursor' = Cursor
    BY <1>6 DEF Cursor
  <2> QED
    BY <1>6, <2>1, <2>2 DEF ShownInv, Follows, Idle, Prints
<1>8. CASE ~ Faults(c, b)
  <2> DEFINE n == IF Rolls(c, b) THEN 0 ELSE Moved(c, b)
             l == IF Rolls(c, b) THEN "roll" ELSE "set_hi"
             u == Type(s, c)
  <2>0. PICK v : v = Written(video, c, b)
    OBVIOUS
  <2>1. video' = v /\ bx'[t] = n /\ Goto(t, l)
    BY <2>0, <1>0, <1>1, <1>8 DEF Store, TypeOK
  <2>2. u \in Terminal /\ Printed(s, u, c)
    BY <1>5, TypeTerminal, PrintsTyped
  <2>3. \A i \in 0 .. Size - 1 : v[i] = Stored(s, c, i)
    BY <1>3, <1>4, <1>5, <1>8, <2>0, WrittenShows
  <2>4. Continues(buffer', num'[t], rest'[t], edi'[t], u, term')
    BY <1>3, <1>6
  <2>5. CASE Rolls(c, b)
    <3>1. RolledUp(s, u, c)
      BY <1>4, <1>8, <2>2, <2>5 DEF Printed
    <3>2. Rolling(v, 0, u)
      <4>1. \A i \in 0 .. Size - 1 : i < Size - Cols => i + Cols \in 0 .. Size - 1
        BY Constants
      <4> HIDE DEF u
      <4>2. ASSUME NEW i \in 0 .. Size - 1
            PROVE  ~ (i < 0) /\ IF i < Size - Cols THEN v[i + Cols] = Look(u, i) ELSE Look(u, i) = " "
        <5>1. ~ (i < 0)
          OBVIOUS
        <5>2. i < Size - Cols => v[i + Cols] = Stored(s, c, i + Cols)
          BY <2>3, <4>1
        <5> QED
          BY <3>1, <5>1, <5>2 DEF RolledUp
      <4> QED
        BY <4>2 DEF Rolling
    <3>3. Place(u) = Size - Cols
      BY <3>1 DEF RolledUp
    <3>4. l = "roll" /\ n = 0
      BY <2>5
    <3> HIDE DEF u, l, n
    <3>5. pc'[t] = "roll" => Prints(t, u)'
      BY <2>1, <2>4, <3>2, <3>3, <3>4 DEF Prints, InChar, Setting
    <3> QED
      BY <1>1, <2>1, <2>2, <3>4, <3>5, StaysIn DEF PC
  <2>6. CASE ~ Rolls(c, b)
    <3>1. Unrolled(s, u, c)
      BY <1>4, <1>8, <2>2, <2>6 DEF Printed
    <3>2. Visible(v, u) /\ Place(u) = Moved(c, b)
      <4> HIDE DEF u
      <4> QED BY <1>4, <2>3, <3>1 DEF Visible, Unrolled
    <3>4. l = "set_hi" /\ n = Moved(c, b)
      BY <2>6
    <3> HIDE DEF u, l, n
    <3>5. pc'[t] = "set_hi" => Prints(t, u)'
      BY <2>1, <2>4, <3>2, <3>4 DEF Prints, InChar, Setting
    <3> QED
      BY <1>1, <2>1, <2>2, <3>4, <3>5, StaysIn DEF PC
  <2> QED
    BY <2>5, <2>6
<1> QED
  BY <1>7, <1>8

LEMMA RollShown ==
  ASSUME NEW t \in Thread, ShownInv, Roll(t)
  PROVE  Follows'
<1> DEFINE b == bx[t]
           l == IF b = Size - Cols - 1 THEN "cls" ELSE "roll"
           v == [video EXCEPT ![b] = video[b + Cols]]
<1>1. ScreenInv /\ TypeOK /\ pc[t] = "roll" /\ Goto(t, l)
  BY DEF ShownInv, ScreenInv, Roll, At
<1>2. PICK s \in Terminal : Prints(t, s)
  BY <1>1 DEF ShownInv, Follows
<1>3. /\ Place(s) = Size - Cols /\ Rolling(video, b, s)
      /\ Continues(buffer, num[t], rest[t], edi[t], s, term)
  BY <1>1, <1>2 DEF Prints, InChar, Setting
<1>4. b \in 0 .. Size - Cols - 1 /\ video \in [Cell -> Char]
  BY <1>1 DEF ScreenInv, Places, TypeOK
<1>5. /\ video' = v /\ bx'[t] = b + 1
      /\ UNCHANGED <<crt, buffer, rest, num, edi, cl, term>>
  BY <1>1 DEF Roll, TypeOK
<1> HIDE DEF b
<1>6. /\ {Size, Cols, Segment} \subseteq Nat \ {0} /\ 2 * Cols <= Size /\ Size <= Segment
      /\ Cell = 0 .. Segment - 1
  BY Constants
<1>7. Rolling(v, b + 1, s)
  <2> SUFFICES ASSUME NEW i \in 0 .. Size - 1
               PROVE  IF i < b + 1 THEN v[i] = Look(s, i)
                      ELSE IF i < Size - Cols THEN v[i + Cols] = Look(s, i) ELSE Look(s, i) = " "
    BY DEF Rolling
  <2>1. IF i < b THEN video[i] = Look(s, i)
        ELSE IF i < Size - Cols THEN video[i + Cols] = Look(s, i) ELSE Look(s, i) = " "
    BY <1>3 DEF Rolling
  <2>2. /\ i \in Cell /\ (i < Size - Cols => i + Cols \in Cell) /\ b \in Cell
        /\ {i, b, Cols} \subseteq Nat /\ Size - Cols \in Int /\ b < Size - Cols /\ Cols > 0
    BY <1>4, <1>6
  <2>3. /\ i # b => v[i] = video[i]
        /\ v[b] = video[b + Cols]
        /\ i < Size - Cols /\ i + Cols # b => v[i + Cols] = video[i + Cols]
    BY <1>4, <2>2
  <2>4. /\ i < b \/ i = b \/ i > b
        /\ i < b => i < b + 1 /\ i # b
        /\ i = b => i < b + 1 /\ i < Size - Cols /\ ~ (i < b)
        /\ i > b => ~ (i < b) /\ ~ (i < b + 1) /\ i + Cols # b
    BY <2>2
  <2> HIDE DEF v
  <2>5. CASE i < b
    BY <2>1, <2>3, <2>4, <2>5
  <2>6. CASE i = b
    BY <2>1, <2>3, <2>4, <2>6
  <2>7. CASE i > b
    BY <2>1, <2>3, <2>4, <2>7
  <2> QED
    BY <2>4, <2>5, <2>6, <2>7
<1> HIDE DEF v
<1>8. CASE b = Size - Cols - 1
  <2>1. b + 1 = Size - Cols /\ l = "cls"
    <3> HIDE DEF Size
    <3> QED BY <1>4, <1>6, <1>8
  <2>2. Clearing(v, b + 1, s)
    <3> HIDE DEF Size
    <3> QED BY <1>6, <1>7, <2>1 DEF Rolling, Clearing
  <2> HIDE DEF l
  <2>3. pc'[t] = "cls" => Prints(t, s)'
    BY <1>3, <1>5, <2>2 DEF Prints, InChar, Setting
  <2> QED
    BY <1>1, <2>1, <2>3, StaysIn DEF PC
<1>9. CASE b # Size - Cols - 1
  <2>1. l = "roll"
    BY <1>9
  <2> HIDE DEF l
  <2>2. pc'[t] = "roll" => Prints(t, s)'
    BY <1>3, <1>5, <1>7 DEF Prints, InChar, Setting
  <2> QED
    BY <1>1, <2>1, <2>2, StaysIn DEF PC
<1> QED
  BY <1>8, <1>9

LEMMA ClsShown ==
  ASSUME NEW t \in Thread, ShownInv, Cls(t)
  PROVE  Follows'
<1> DEFINE b == bx[t]
           l == IF b = Size - 1 THEN "set_hi" ELSE "cls"
           n == IF b = Size - 1 THEN Size - Cols ELSE b + 1
           v == [video EXCEPT ![b] = " "]
<1>1. ScreenInv /\ TypeOK /\ pc[t] = "cls" /\ Goto(t, l)
  BY DEF ShownInv, ScreenInv, Cls, Blank, At
<1>2. PICK s \in Terminal : Prints(t, s)
  BY <1>1 DEF ShownInv, Follows
<1>3. /\ Place(s) = Size - Cols /\ Clearing(video, b, s)
      /\ Continues(buffer, num[t], rest[t], edi[t], s, term)
  BY <1>1, <1>2 DEF Prints, InChar, Setting
<1>4. b \in Size - Cols .. Size - 1 /\ video \in [Cell -> Char]
  BY <1>1 DEF ScreenInv, Places, TypeOK
<1>5. /\ video' = v /\ bx'[t] = n
      /\ UNCHANGED <<crt, buffer, rest, num, edi, cl, term>>
  BY <1>1 DEF Cls, Blank, TypeOK
<1> HIDE DEF b
<1>6. /\ {Size, Cols, Segment} \subseteq Nat \ {0} /\ 2 * Cols <= Size /\ Size <= Segment
      /\ Cell = 0 .. Segment - 1
  BY Constants
<1>7. Clearing(v, b + 1, s)
  <2> SUFFICES ASSUME NEW i \in 0 .. Size - 1
               PROVE  IF i < b + 1 THEN v[i] = Look(s, i) ELSE Look(s, i) = " "
    BY DEF Clearing
  <2>1. IF i < b THEN video[i] = Look(s, i) ELSE Look(s, i) = " "
    BY <1>3 DEF Clearing
  <2>2. i \in Cell /\ b \in Cell /\ {i, b} \subseteq Nat
    BY <1>4, <1>6
  <2>3. (i # b => v[i] = video[i]) /\ v[b] = " "
    BY <1>4, <2>2
  <2>4. /\ i < b \/ i = b \/ i > b
        /\ i < b => i < b + 1 /\ i # b
        /\ i = b => i < b + 1 /\ ~ (i < b)
        /\ i > b => ~ (i < b) /\ ~ (i < b + 1)
    BY <2>2
  <2> HIDE DEF v
  <2>5. CASE i < b
    BY <2>1, <2>3, <2>4, <2>5
  <2>6. CASE i = b
    BY <2>1, <2>3, <2>4, <2>6
  <2>7. CASE i > b
    BY <2>1, <2>3, <2>4, <2>7
  <2> QED
    BY <2>4, <2>5, <2>6, <2>7
<1> HIDE DEF v
<1>8. CASE b = Size - 1
  <2>1. l = "set_hi" /\ n = Place(s)
    BY <1>3, <1>8
  <2>2. Visible(v, s)
    <3> SUFFICES ASSUME NEW i \in 0 .. Size - 1 PROVE v[i] = Look(s, i)
      BY DEF Visible
    <3>1. i < b + 1
      BY <1>6, <1>8
    <3> QED
      BY <1>7, <3>1 DEF Clearing
  <2> HIDE DEF l, n
  <2>3. pc'[t] = "set_hi" => Prints(t, s)'
    BY <1>3, <1>5, <2>1, <2>2 DEF Prints, InChar, Setting
  <2> QED
    BY <1>1, <2>1, <2>3, StaysIn DEF PC
<1>9. CASE b # Size - 1
  <2>1. l = "cls" /\ n = b + 1
    BY <1>9
  <2> HIDE DEF l, n
  <2>2. pc'[t] = "cls" => Prints(t, s)'
    BY <1>3, <1>5, <1>7, <2>1 DEF Prints, InChar, Setting
  <2> QED
    BY <1>1, <2>1, <2>2, StaysIn DEF PC
<1> QED
  BY <1>8, <1>9

LEMMA WriteLowShown ==
  ASSUME NEW t \in Thread, ShownInv, WriteLow(t)
  PROVE  Follows'
<1> DEFINE l == IF num[t] # -1 /\ edi[t] < Digits THEN "digit" ELSE "next"
<1>1. ScreenInv /\ TypeOK /\ pc[t] = "out_lo" /\ Goto(t, l)
  BY DEF ShownInv, ScreenInv, WriteLow, Out, At
<1>2. PICK s \in Terminal : Prints(t, s)
  BY <1>1 DEF ShownInv, Follows
<1>3. /\ bx[t] = Place(s) /\ Visible(video, s)
      /\ Continues(buffer, num[t], rest[t], edi[t], s, term)
  BY <1>1, <1>2 DEF Prints, InChar, Setting
<1>4. UNCHANGED <<video, buffer, rest, num, edi, cl, bx, term>>
  BY DEF WriteLow, Out, local
<1>5. Cursor' = Place(s)
  <2>1. Cursor' = bx[t]
    BY <1>1, LowByteWritten
  <2> QED
    BY <1>3, <2>1
<1>6. CASE num[t] # -1 /\ edi[t] < Digits
  <2>1. l = "digit"
    BY <1>6
  <2>2. rest[t] = <<>> /\ PrintsFrom(buffer, s, edi[t], term)
    BY <1>3, <1>6 DEF Continues
  <2>3. edi[t] # Digits
    BY <1>6, Constants
  <2>4. First(buffer, s, edi[t], term)
    BY <2>2, <2>3 DEF First
  <2> HIDE DEF l
  <2>5. pc'[t] = "digit" => Prints(t, s)'
    BY <1>3, <1>4, <1>5, <1>6, <2>2, <2>4 DEF Prints, InChar, Setting
  <2> QED
    BY <1>1, <2>1, <2>5, StaysIn DEF PC
<1>7. CASE ~ (num[t] # -1 /\ edi[t] < Digits)
  <2>1. l = "next"
    BY <1>7
  <2> HIDE DEF l
  <2>2. pc'[t] = "next" => Prints(t, s)'
    BY <1>3, <1>4, <1>5, <1>7 DEF Prints, InChar, Setting
  <2> QED
    BY <1>1, <2>1, <2>2, StaysIn DEF PC
<1> QED
  BY <1>6, <1>7

LEMMA KeyboardShown ==
  ASSUME NEW c \in Keys, ShownInv, Keyboard(c)
  PROVE  Follows'
<1>1. ScreenInv /\ TypeOK /\ Idle
  BY DEF ShownInv, ScreenInv, Keyboard, Echo, Idle
<1>2. PICK s : s = term
  OBVIOUS
<1>3. s \in Terminal /\ Cursor = Place(s) /\ Visible(video, s)
  BY <1>1, <1>2 DEF ShownInv, Follows, TypeOK
<1>4. c \in Char /\ video \in [Cell -> Char]
  BY <1>1, ScreenAssumption DEF ScreenAssumption, TypeOK
<1>5. PICK b : b = Cursor
  OBVIOUS
<1>6. b = Place(s) /\ b \in 0 .. Size - 1
  BY <1>3, <1>5, PlaceOnScreen
<1>7. term' = Type(s, c) /\ pc' = pc
  BY <1>2 DEF Keyboard, Echo
<1>8. Type(s, c) \in Terminal /\ Printed(s, Type(s, c), c)
  BY <1>3, <1>4, TypeTerminal, PrintsTyped
<1>9. Cursor' = Place(Type(s, c)) /\ Visible(video', Type(s, c))
  <2>1. CASE Faults(c, b)
    <3>1. UNCHANGED <<crt, video>>
      BY <1>5, <2>1 DEF Keyboard, Echo
    <3>2. Type(s, c) = s
      BY <1>6, <1>8, <2>1 DEF Printed
    <3> QED
      BY <1>3, <3>1, <3>2 DEF Cursor
  <2>2. CASE ~ Faults(c, b)
    <3> DEFINE u == Type(s, c)
    <3>1. PICK v : v = Written(video, c, b)
      OBVIOUS
    <3>2. PICK n : n = IF Rolls(c, b) THEN Size - Cols ELSE Moved(c, b)
      OBVIOUS
    <3>3. /\ video' = IF Rolls(c, b) THEN Rolled(v) ELSE v
          /\ crt' = [hi |-> n \div Byte, lo |-> n % Byte]
      BY <1>5, <2>2, <3>1, <3>2 DEF Keyboard, Echo
    <3>4. \A i \in 0 .. Size - 1 : v[i] = Stored(s, c, i)
      BY <1>3, <1>4, <1>6, <2>2, <3>1, WrittenShows
    <3>5. Place(u) = n /\ Place(u) \in 0 .. Size - 1
      BY <1>6, <1>8, <2>2, <3>2, PlaceOnScreen DEF Printed, RolledUp, Unrolled
    <3>6. Cursor' = n
      <4>1. n \in 0 .. Size - 1
        BY <3>5
      <4> QED
        BY <3>3, <4>1, CursorBytes DEF Cursor
    <3>7. Visible(video', u)
      <4>1. CASE Rolls(c, b)
        <5>1. RolledUp(s, u, c) /\ video' = Rolled(v)
          BY <1>6, <1>8, <2>2, <3>3, <4>1 DEF Printed
        <5>2. ASSUME NEW i \in 0 .. Size - 1 PROVE Rolled(v)[i] = Look(u, i)
          <6>1. i \in Cell /\ i < Size /\ (i < Size - Cols => i + Cols \in 0 .. Size - 1)
            BY Constants
          <6>2. Rolled(v)[i] = IF i < Size - Cols THEN v[i + Cols] ELSE " "
            BY <6>1 DEF Rolled
          <6>3. i < Size - Cols => v[i + Cols] = Stored(s, c, i + Cols)
            BY <3>4, <6>1
          <6> HIDE DEF u
          <6> QED
            BY <5>1, <6>2, <6>3 DEF RolledUp
        <5> QED
          BY <5>1, <5>2 DEF Visible
      <4>2. CASE ~ Rolls(c, b)
        <5>1. Unrolled(s, u, c) /\ video' = v
          BY <1>6, <1>8, <2>2, <3>3, <4>2 DEF Printed
        <5> HIDE DEF u
        <5> QED
          BY <3>4, <5>1 DEF Unrolled, Visible
      <4> QED
        BY <4>1, <4>2
    <3> QED
      BY <3>5, <3>6, <3>7
  <2> QED
    BY <2>1, <2>2
<1> QED
  BY <1>1, <1>7, <1>9 DEF Follows, Idle

LEMMA ShownInit == Init => Follows
<1> SUFFICES ASSUME Init PROVE Follows
  OBVIOUS
<1>1. PICK c \in 0 .. Size - 1 :
        /\ crt = [hi |-> c \div Byte, lo |-> c % Byte]
        /\ term = [row |-> c \div Cols, col |-> c % Cols,
                   page |-> [r \in 0 .. Rows - 1 |-> BlankRow]]
  BY DEF Init
<1>2. Cursor = c
  BY <1>1, CursorBytes DEF Cursor
<1>3. Place(term) = c
  <2>1. term.row = c \div Cols /\ term.col = c % Cols
    BY <1>1
  <2> QED
    BY <2>1, RowAndColumn DEF Place
<1>4. ASSUME NEW i \in 0 .. Size - 1 PROVE video[i] = Look(term, i)
  <2>1. video[i] = " "
    <3>1. i \in Cell
      BY Constants
    <3> QED
      BY <3>1 DEF Init
  <2> DEFINE q == i \div Cols
             m == i % Cols
  <2>2. q \in 0 .. Rows - 1 /\ m \in 0 .. Cols - 1
    BY RowAndColumn
  <2>3. Look(term, i) = term.page[q][m]
    BY DEF Look
  <2> HIDE DEF q, m
  <2>4. term.page[q][m] = " "
    BY <1>1, <2>2 DEF BlankRow
  <2> QED
    BY <2>1, <2>3, <2>4
<1> QED
  BY <1>2, <1>3, <1>4 DEF Init, Follows, Visible

LEMMA ShownStep == ShownInv /\ [Next]_vars => ShownInv'
<1> SUFFICES ASSUME ShownInv, [Next]_vars PROVE ShownInv'
  OBVIOUS
<1>1. ScreenInv'
  BY ScreenStep DEF ShownInv
<1>2. Follows'
  <2>1. CASE UNCHANGED vars
    BY <2>1 DEF ShownInv, Follows, Idle, Prints, Cursor, vars, device, local
  <2> QED
    BY <2>1, CallShown, NextCharShown, FillShown, SkipZerosShown, NextDigitShown,
       SelectShown, StoreShown, RollShown, ClsShown, WriteLowShown, KeyboardShown
       DEF Next, PutChar
<1> QED
  BY <1>1, <1>2 DEF ShownInv

(* Whatever the calls print, and whichever thread runs in between, what is *)
(* on the screen while no call is under way is what a terminal shows that  *)
(* was given the texts of the calls whole, in the order of the lock.       *)
THEOREM ScreenShowsCalls == Spec => []ShowsCalls
<1>1. ShownInv => ShowsCalls
  <2> SUFFICES ASSUME ShownInv, owner["console"] = NoThread PROVE
         /\ Cursor = term.row * Cols + term.col
         /\ \A i \in 0 .. Size - 1 : video[i] = term.page[i \div Cols][i % Cols]
    BY DEF ShowsCalls
  <2>1. NoThread \notin Thread
    BY ScreenAssumption DEF ScreenAssumption
  <2>2. Idle
    BY <2>1 DEF ShownInv, ScreenInv, IndexInv, LockHeld, Holding, Idle
  <2> QED
    BY <2>2 DEF ShownInv, Follows, Place, Visible, Look
<1>2. Init => ShownInv
  BY ScreenInit, ShownInit DEF ShownInv
<1> QED
  BY <1>1, <1>2, ShownStep, PTL DEF Spec

=============================================================================
