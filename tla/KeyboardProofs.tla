--------------------------- MODULE KeyboardProofs ---------------------------
(***************************************************************************)
(* Proofs about Keyboard, for any keys and any number of bytes that wait:  *)
(* what the handler knows and prints is what the keys say, as long as caps *)
(* lock is not held long enough to repeat.                                 *)
(***************************************************************************)
EXTENDS Keyboard, SequenceTheorems, TLAPS

Prefixed == (\hE001 .. \hE07F) \ {PrintScreen, \hE060}

(* What can be sent behind a byte a: the next byte of the same key's code, *)
(* or the first one of the next code.                                      *)
Released(b) == IF b.press THEN 0 ELSE 128

PlainFollows(a, b) ==
  b.key \in 1 .. \h58 /\ a.final /\ b.final /\ b.byte = b.key + Released(b)

PrefixedFollows(a, b) ==
  /\ b.key \in Prefixed
  /\ \/ a.final /\ ~ b.final /\ b.byte = \hE0
     \/ ~ a.final /\ b.final /\ a.byte = \hE0 /\ b.byte = b.key - \hE000 + Released(b)

PrintScreenFollows(a, b) ==
  /\ b.key = PrintScreen
  /\ \/ ~ b.final /\ b.byte = \hE0
     \/ ~ a.final /\ ~ b.final /\ a.byte = \hE0 /\ b.byte \in {\h2A, \hB7}
     \/ ~ a.final /\ b.final /\ a.byte = \hE0 /\ b.byte \in {\h37, \hAA}

PauseFollows(a, b) ==
  /\ b.key = Pause /\ b.press /\ b.held \intersect Ctrls = {}
  /\ \/ a.final /\ ~ b.final /\ b.byte = \hE1
     \/ ~ a.final /\ ~ b.final /\ a.byte # \hE0 /\ b.byte \in {\h1D, \h45, \hE1, \h9D}
     \/ ~ a.final /\ b.final /\ a.byte = \h9D /\ b.byte = \hC5

BreakFollows(a, b) ==
  /\ b.key = Pause /\ b.press /\ b.held \intersect Ctrls # {}
  /\ \/ (a.final \/ a.byte = \h46) /\ ~ b.final /\ b.byte = \hE0
     \/ ~ a.final /\ ~ b.final /\ a.byte = \hE0 /\ b.byte = \h46
     \/ ~ a.final /\ b.final /\ a.byte = \hE0 /\ b.byte = \hC6

ByteFollows(a, b) ==
  \/ PlainFollows(a, b) \/ PrefixedFollows(a, b) \/ PrintScreenFollows(a, b)
  \/ PauseFollows(a, b) \/ BreakFollows(a, b)

\* Whether caps lock is held long enough to repeat.
NoRepeat == caps_lock_make \notin Repeating

\* Between two codes only the keys of the second can have moved.
Moved(a, b) ==
  /\ \A kind \in Kinds : b.key \notin kind =>
       /\ b.held \intersect kind = a.held \intersect kind
       /\ kind \in b.paired <=> kind \in a.paired
  /\ NoRepeat => (b.lock <=> IF b.key = caps_lock_make /\ b.press THEN ~ a.lock ELSE a.lock)

Same(a, b) ==
  /\ b.key = a.key /\ b.press = a.press /\ b.held = a.held
  /\ b.lock = a.lock /\ b.paired = a.paired

HeldOK(b) ==
  /\ b.press => b.key \in b.held
  /\ ~ b.press => \A kind \in Kinds :
       b.key \in kind /\ kind \notin b.paired => b.held \intersect kind = {}

Follows(a, b) ==
  /\ ByteFollows(a, b)
  /\ a.final => Moved(a, b)
  /\ ~ a.final => Same(a, b)
  /\ HeldOK(b)

\* What is read before wire[i], and what is sent last.
Before(i) == IF i = 1 THEN event ELSE wire[i - 1]
Latest == Before(Len(wire) + 1)

WireOK ==
  /\ \A i \in 1 .. Len(wire) : Follows(Before(i), wire[i])
  /\ Latest.final /\ Latest.held \ {Pause} = down \ {Pause}
  /\ Latest.lock <=> lock
  /\ Latest.paired = paired

KeysOK ==
  /\ last = 0 \/ last \in down
  /\ \A kind \in Kinds : /\ kind \subseteq down => kind \in paired
                         /\ kind \in paired => kind \intersect down # {}

\* In the middle of a code the flag of its key is not yet, and that of ctrl
\* not yet again, what it should be.
Settled(kind) ==
  \/ event.final
  \/ /\ event.key \notin kind
     /\ event.key = Pause /\ kind = Ctrls => event.byte \notin {\hE1, \h1D, \h45}

FlagOK(kind) ==
  /\ Flag(kind) => Down(kind)
  /\ kind \notin event.paired => (Down(kind) => Flag(kind))

FlagsOK ==
  /\ ext_scancode <=> event.byte = \hE0
  /\ event.final => event.byte # \hE0
  /\ NoRepeat => (caps_lock_status <=> event.lock)
  /\ \A kind \in Kinds : Settled(kind) => FlagOK(kind)

Quiet(c) == c \in {"nothing", "unknow key"}

OutOK == ~ Printing(event.key) => Quiet(out)

KeyboardInv == TypeOK /\ WireOK /\ KeysOK /\ FlagsOK /\ OutOK

-----------------------------------------------------------------------------
(* The codes of keys: modifiers, and those that are printed.               *)
LEMMA KindsApart ==
  /\ Shifts # Ctrls /\ Shifts # Alts /\ Ctrls # Alts
  /\ \A kind \in Kinds : kind = Shifts \/ kind = Ctrls \/ kind = Alts
  /\ \A x : x \in Shifts <=> x = 42 \/ x = 54
  /\ \A x : x \in Ctrls <=> x = 29 \/ x = 57373
  /\ \A x : x \in Alts <=> x = 56 \/ x = 57400
<1>1. /\ \A x : x \in Shifts <=> x = 42 \/ x = 54
      /\ \A x : x \in Ctrls <=> x = 29 \/ x = 57373
      /\ \A x : x \in Alts <=> x = 56 \/ x = 57400
  BY DEF Shifts, Ctrls, Alts, shift_l_make, shift_r_make, ctrl_l_make, ctrl_r_make,
         alt_l_make, alt_r_make
<1>2. 42 \in Shifts /\ 42 \notin Ctrls /\ 42 \notin Alts /\ 29 \in Ctrls /\ 29 \notin Alts
  BY <1>1
<1> QED
  BY <1>1, <1>2 DEF Kinds

Blank == {29, 42, 54, 56, 58}

Mapped == {1, 2, 3, 4, 5, 6, 7, 8, 9, 10, 11, 12, 13, 14, 15,
           16, 17, 18, 19, 20, 21, 22, 23, 24, 25, 26, 27, 28, 29, 30,
           31, 32, 33, 34, 35, 36, 37, 38, 39, 40, 41, 42, 43, 44, 45,
           46, 47, 48, 49, 50, 51, 52, 53, 54, 55, 56, 57, 58}

\* The entries of keymap are what is printed, but for those of modifiers.
Row(char, k) == (char = "" <=> k \in Blank) /\ ~ Quiet(char)

LEMMA Keymap ==
  /\ DOMAIN Plain = 1 .. 58 /\ DOMAIN Shifted = 1 .. 58
  /\ \A k \in 1 .. 58 : Row(Plain[k], k) /\ Row(Shifted[k], k)
<1> DEFINE P(k) == Row(Plain[k], k)
           S(k) == Row(Shifted[k], k)
<1>1. DOMAIN Plain = 1 .. 58 /\ DOMAIN Shifted = 1 .. 58
  BY DEF Plain, Shifted
<1>2. \A k \in 1 .. 58 : k \in Mapped
  BY DEF Mapped
<1>3. /\ P(1) /\ P(2) /\ P(3) /\ P(4) /\ P(5) /\ P(6)
      /\ P(7) /\ P(8) /\ P(9) /\ P(10) /\ P(11) /\ P(12)
      /\ P(13) /\ P(14) /\ P(15) /\ P(16) /\ P(17) /\ P(18)
      /\ P(19) /\ P(20) /\ P(21) /\ P(22) /\ P(23) /\ P(24)
      /\ P(25) /\ P(26) /\ P(27) /\ P(28) /\ P(29) /\ P(30)
      /\ P(31) /\ P(32) /\ P(33) /\ P(34) /\ P(35) /\ P(36)
      /\ P(37) /\ P(38) /\ P(39) /\ P(40) /\ P(41) /\ P(42)
      /\ P(43) /\ P(44) /\ P(45) /\ P(46) /\ P(47) /\ P(48)
      /\ P(49) /\ P(50) /\ P(51) /\ P(52) /\ P(53) /\ P(54)
      /\ P(55) /\ P(56) /\ P(57) /\ P(58)
  BY DEF Plain, Blank, Row, Quiet
<1>4. /\ S(1) /\ S(2) /\ S(3) /\ S(4) /\ S(5) /\ S(6)
      /\ S(7) /\ S(8) /\ S(9) /\ S(10) /\ S(11) /\ S(12)
      /\ S(13) /\ S(14) /\ S(15) /\ S(16) /\ S(17) /\ S(18)
      /\ S(19) /\ S(20) /\ S(21) /\ S(22) /\ S(23) /\ S(24)
      /\ S(25) /\ S(26) /\ S(27) /\ S(28) /\ S(29) /\ S(30)
      /\ S(31) /\ S(32) /\ S(33) /\ S(34) /\ S(35) /\ S(36)
      /\ S(37) /\ S(38) /\ S(39) /\ S(40) /\ S(41) /\ S(42)
      /\ S(43) /\ S(44) /\ S(45) /\ S(46) /\ S(47) /\ S(48)
      /\ S(49) /\ S(50) /\ S(51) /\ S(52) /\ S(53) /\ S(54)
      /\ S(55) /\ S(56) /\ S(57) /\ S(58)
  BY DEF Shifted, Blank, Row, Quiet
<1> HIDE DEF P, S
<1>5. \A k \in Mapped : P(k) /\ S(k)
  BY <1>3, <1>4 DEF Mapped
<1> QED
  BY <1>1, <1>2, <1>5 DEF P, S

-----------------------------------------------------------------------------
(* What the handler does with the bytes of a code.                         *)
Bools ==
  {ctrl_status, shift_status, alt_status, caps_lock_status, ext_scancode} \subseteq BOOLEAN

(* A break code clears the flag of its kind and prints nothing.            *)
LEMMA BreakFlags ==
  ASSUME Bools, NEW m, Break(m)
  PROVE  /\ \A kind \in Kinds : Flag(kind)' <=> Flag(kind) /\ m \notin kind
         /\ caps_lock_status' = caps_lock_status
         /\ {ctrl_status', shift_status', alt_status', caps_lock_status'} \subseteq BOOLEAN
<1>1. /\ ctrl_status' <=> ctrl_status /\ m \notin Ctrls
      /\ shift_status' <=> shift_status /\ m \notin Shifts
      /\ alt_status' <=> alt_status /\ m \notin Alts
      /\ caps_lock_status' = caps_lock_status
  BY DEF Break, BreakClears
<1>2. {ctrl_status', shift_status', alt_status', caps_lock_status'} \subseteq BOOLEAN
  BY DEF Break, BreakClears, Bools
<1> QED
  BY <1>1, <1>2, KindsApart DEF Flag

(* A make code sets the flag of its kind; that of caps lock toggles.       *)
LEMMA ControlFlags ==
  ASSUME Bools, NEW i, Control(i)
  PROVE  /\ \A kind \in Kinds : Flag(kind)' <=> Flag(kind) \/ i \in kind
         /\ i = caps_lock_make => caps_lock_status' = ~ caps_lock_status
         /\ i # caps_lock_make => caps_lock_status' = caps_lock_status
         /\ {ctrl_status', shift_status', alt_status', caps_lock_status'} \subseteq BOOLEAN
<1>1. /\ ctrl_status' <=> ctrl_status \/ i \in Ctrls
      /\ shift_status' <=> shift_status \/ i \in Shifts
      /\ alt_status' <=> alt_status \/ i \in Alts
      /\ caps_lock_status' = IF i = caps_lock_make THEN ~ caps_lock_status ELSE caps_lock_status
  BY DEF Control, SetFlags
<1>2. {ctrl_status', shift_status', alt_status', caps_lock_status'} \subseteq BOOLEAN
  BY DEF Control, SetFlags, Bools
<1> QED
  BY <1>1, <1>2, KindsApart DEF Flag

(* What is not printed leaves a code that printed nothing so.              *)
LEMMA QuietStays ==
  ASSUME NEW c, Quiet(c), PutChar(c), event.final \/ Quiet(out)
  PROVE  Quiet(out')
BY DEF PutChar, Quiet

Outs == (Range(Plain) \union Range(Shifted) \union {"nothing", "unknow key"}) \ {""}

LEMMA OutTyped ==
  ASSUME out \in Outs, NEW c \in Outs, PutChar(c)
  PROVE  out' \in Outs
BY DEF PutChar, Outs

LEMMA QuietOuts == \A c : Quiet(c) => c \in Outs
BY DEF Quiet, Outs

\* The key whose entry in keymap a make code is looked up at.
LEMMA Indexed ==
  ASSUME NEW s, Known(s)
  PROVE  /\ s % 256 \in 1 .. 58
         /\ \A kind \in Kinds : s % 256 \in kind <=> s \in kind
         /\ s % 256 = caps_lock_make <=> s = caps_lock_make
         /\ s \in 1 .. 58 => s % 256 = s
         /\ s \notin 1 .. 58 => s % 256 \in Blank
<1>1. s \in 1 .. 58 \/ s = 57400 \/ s = 57373
  BY DEF Known, alt_r_make, ctrl_r_make
<1>2. CASE s \in 1 .. 58
  BY <1>2
<1>3. CASE s = 57400
  <2>1. s % 256 = 56
    BY <1>3
  <2> QED
    BY <2>1, <1>3, KindsApart DEF Blank, caps_lock_make
<1>4. CASE s = 57373
  <2>1. s % 256 = 29
    BY <1>4
  <2> QED
    BY <2>1, <1>4, KindsApart DEF Blank, caps_lock_make
<1> QED
  BY <1>1, <1>2, <1>3, <1>4

(* A make code: the flags, and what is printed.                            *)
LEMMA MakeFlags ==
  ASSUME Bools, NEW s \in Nat, Make(s)
  PROVE  /\ \A kind \in Kinds : Flag(kind)' <=> Flag(kind) \/ s \in kind
         /\ s = caps_lock_make => caps_lock_status' = ~ caps_lock_status
         /\ s # caps_lock_make => caps_lock_status' = caps_lock_status
         /\ {ctrl_status', shift_status', alt_status', caps_lock_status'} \subseteq BOOLEAN
         /\ s \in (1 .. 58) \ Blank => out' = IF Column(s) THEN Shifted[s] ELSE Plain[s]
         /\ s \notin (1 .. 58) \ Blank /\ (event.final \/ Quiet(out)) => Quiet(out')
         /\ out \in Outs => out' \in Outs
<1> DEFINE char == IF Column(s) THEN Shifted[s % 256] ELSE Plain[s % 256]
<1>1. CASE ~ Known(s)
  <2>1. PutChar("unknow key") /\ UNCHANGED flags
    BY <1>1 DEF Make, Accept
  <2>2. s \notin 1 .. 58 /\ \A kind \in Kinds : s \notin kind
    BY <1>1, KindsApart DEF Known, alt_r_make, ctrl_r_make
  <2>3. Quiet("unknow key")
    BY DEF Quiet
  <2>4. event.final \/ Quiet(out) => Quiet(out')
    BY <2>1, <2>3, QuietStays
  <2>9. out \in Outs => out' \in Outs
    BY <2>1, <2>3, OutTyped, QuietOuts
  <2>5. \A kind \in Kinds : Flag(kind)' <=> Flag(kind)
    BY <2>1 DEF Flag, flags
  <2>6. caps_lock_status' = caps_lock_status
    BY <2>1 DEF flags
  <2>8. s # caps_lock_make
    BY <2>2 DEF caps_lock_make
  <2>7. {ctrl_status', shift_status', alt_status', caps_lock_status'} \subseteq BOOLEAN
    BY <2>1 DEF flags, Bools
  <2> QED
    BY <2>2, <2>4, <2>5, <2>6, <2>7, <2>8, <2>9
<1>2. CASE Known(s) /\ s % 256 \notin Blank
  <2>1. s \in (1 .. 58) \ Blank /\ s % 256 = s /\ s % 256 \in 1 .. 58
    BY <1>2, Indexed
  <2>2. char # "" /\ ~ Quiet(char)
    BY <1>2, <2>1, Keymap DEF Row
  <2>3. PutChar(char) /\ UNCHANGED flags
    BY <1>2, <2>2 DEF Make, Accept
  <2>4. out' = char
    BY <2>2, <2>3 DEF PutChar, Quiet
  <2>8. char \in Outs
    BY <2>1, <2>2, Keymap DEF Outs, Range
  <2>9. out \in Outs => out' \in Outs
    BY <2>4, <2>8
  <2>5. \A kind \in Kinds : s \notin kind
    BY <2>1, KindsApart DEF Blank
  <2>6. s # caps_lock_make
    BY <2>1 DEF caps_lock_make, Blank
  <2>7. /\ \A kind \in Kinds : Flag(kind)' <=> Flag(kind)
        /\ caps_lock_status' = caps_lock_status
        /\ {ctrl_status', shift_status', alt_status', caps_lock_status'} \subseteq BOOLEAN
    BY <2>3 DEF flags, Bools, Flag
  <2> QED
    BY <2>1, <2>4, <2>5, <2>6, <2>7, <2>9
<1>3. CASE Known(s) /\ s % 256 \in Blank
  <2>1. s \notin (1 .. 58) \ Blank /\ s % 256 \in 1 .. 58
    BY <1>3, Indexed
  <2>2. char = ""
    BY <1>3, <2>1, Keymap DEF Row
  <2>3. PutChar("nothing") /\ Control(s % 256)
    BY <1>3, <2>2 DEF Make, Accept
  <2>4. event.final \/ Quiet(out) => Quiet(out')
    BY <2>3, QuietStays DEF Quiet
  <2>5. out \in Outs => out' \in Outs
    BY <2>3, OutTyped, QuietOuts DEF Quiet
  <2> QED
    BY <1>3, <2>1, <2>3, <2>4, <2>5, ControlFlags, Indexed
<1> QED
  BY <1>1, <1>2, <1>3

-----------------------------------------------------------------------------
(* One interrupt, by what the byte means in the code it belongs to: that a *)
(* key has been pressed or let go, ...                                     *)
KeyHeard(b) ==
  /\ b.final /\ b.key \notin {PrintScreen, Pause} /\ b.key \in Nat
  /\ b.key \in 1 .. 58 => event.final
  /\ b.press => Make(b.key)
  /\ ~ b.press => Break(b.key) /\ PutChar("nothing")

\* ... the ctrl of Pause, ...
CtrlHeard(b) ==
  /\ b.key = Pause /\ ~ b.final /\ ~ event.final /\ b.held \intersect Ctrls = {}
  /\ \/ b.byte = \h1D /\ Make(\h1D)
     \/ b.byte = \h9D /\ Break(\h1D) /\ PutChar("nothing")

\* ... or nothing.
Ignored(b) ==
  /\ b.key \notin 1 .. \h58
  /\ b.final => b.key \in {PrintScreen, Pause}
  /\ \A kind \in Kinds : Settled(kind)' => Settled(kind) /\ b.key \notin kind
  /\ \A kind \in Kinds : Flag(kind)' <=> Flag(kind)
  /\ caps_lock_status' = caps_lock_status
  /\ {ctrl_status', shift_status', alt_status', caps_lock_status'} \subseteq BOOLEAN
  /\ event.final \/ Quiet(out) => Quiet(out')
  /\ out \in Outs => out' \in Outs

Heard(b) == KeyHeard(b) \/ CtrlHeard(b) \/ Ignored(b)

\* What Interrupt does with a byte b.
Reads(b) ==
  /\ event' = b
  /\ b.byte = \hE0 => Prefix(b.byte)
  /\ b.byte # \hE0 /\ b.byte >= 128 => Break(Scan(b.byte) - 128) /\ PutChar("nothing")
  /\ b.byte # \hE0 /\ b.byte < 128 => Make(Scan(b.byte))

\* The handler knows what it has read, and so does the byte.
Ready(b) ==
  /\ Bools /\ b \in Event /\ event \in Event
  /\ ext_scancode <=> event.byte = \hE0
  /\ event.final => event.byte # \hE0

LEMMA PrefixIgnored ==
  ASSUME Bools, NEW m, Prefix(m)
  PROVE  /\ \A kind \in Kinds : Flag(kind)' <=> Flag(kind)
         /\ caps_lock_status' = caps_lock_status
         /\ {ctrl_status', shift_status', alt_status', caps_lock_status'} \subseteq BOOLEAN
         /\ event.final \/ Quiet(out) => Quiet(out')
         /\ out \in Outs => out' \in Outs
<1>1. PutChar("nothing") /\ Quiet("nothing") /\ UNCHANGED flags
  BY DEF Prefix, Quiet
<1>2. /\ \A kind \in Kinds : Flag(kind)' <=> Flag(kind)
      /\ caps_lock_status' = caps_lock_status
  BY <1>1 DEF flags, Flag
<1>3. {ctrl_status', shift_status', alt_status', caps_lock_status'} \subseteq BOOLEAN
  BY <1>1 DEF flags, Bools
<1> QED
  BY <1>1, <1>2, <1>3, QuietStays, QuietOuts, OutTyped

LEMMA OtherIgnored ==
  ASSUME Bools, NEW s \in Nat, s \notin 1 .. 58, \A kind \in Kinds : s \notin kind,
         Make(s) \/ (Break(s) /\ PutChar("nothing"))
  PROVE  /\ \A kind \in Kinds : Flag(kind)' <=> Flag(kind)
         /\ caps_lock_status' = caps_lock_status
         /\ {ctrl_status', shift_status', alt_status', caps_lock_status'} \subseteq BOOLEAN
         /\ event.final \/ Quiet(out) => Quiet(out')
         /\ out \in Outs => out' \in Outs
<1>1. s # caps_lock_make
  BY DEF caps_lock_make
<1>2. CASE Make(s)
  BY <1>1, <1>2, MakeFlags
<1>3. CASE Break(s) /\ PutChar("nothing")
  <2>1. Quiet("nothing")
    BY DEF Quiet
  <2> QED
    BY <1>3, <2>1, BreakFlags, QuietStays, QuietOuts, OutTyped
<1> QED
  BY <1>2, <1>3

LEMMA PlainHeard ==
  ASSUME NEW b, Ready(b), Reads(b), PlainFollows(event, b)
  PROVE  KeyHeard(b)
<1>1. ext_scancode = FALSE
  BY DEF Ready, Bools, PlainFollows
<1>2. Scan(b.byte) = b.byte
  BY <1>1 DEF Scan
<1>3. b.key \in 1 .. 88 /\ b.final /\ event.final
  BY DEF PlainFollows
<1>4. b.key \notin {PrintScreen, Pause} /\ b.key \in Nat
  BY <1>3 DEF PrintScreen, Pause
<1>5. CASE b.press
  <2>1. b.byte = b.key /\ b.byte # 224 /\ b.byte < 128
    BY <1>3, <1>5 DEF PlainFollows, Released
  <2> QED
    BY <1>2, <1>3, <1>4, <1>5, <2>1 DEF KeyHeard, Reads
<1>6. CASE ~ b.press
  <2>1. b.byte = b.key + 128
    BY <1>6 DEF PlainFollows, Released
  <2>2. b.byte # 224 /\ b.byte >= 128 /\ b.byte - 128 = b.key
    BY <1>3, <2>1
  <2> QED
    BY <1>2, <1>3, <1>4, <1>6, <2>2 DEF KeyHeard, Reads
<1> QED
  BY <1>5, <1>6

LEMMA PrefixedHeard ==
  ASSUME NEW b, Ready(b), Reads(b), PrefixedFollows(event, b),
         ~ event.final => Same(event, b)
  PROVE  KeyHeard(b) \/ Ignored(b)
<1>1. b.key \in 57345 .. 57471 /\ b.key \notin {PrintScreen, Pause} /\ b.key # 57440
  BY DEF PrefixedFollows, Prefixed, Pause
<1>2. b.key \in Nat /\ b.key \notin 1 .. 58 /\ b.key \notin 1 .. 88
  BY <1>1
<1>3. CASE event.final /\ ~ b.final /\ b.byte = 224
  <2>1. Prefix(b.byte)
    BY <1>3 DEF Reads
  <2>2. \A kind \in Kinds : Settled(kind)' => Settled(kind) /\ b.key \notin kind
    BY <1>3 DEF Settled, Reads
  <2> QED
    BY <1>1, <1>2, <1>3, <2>1, <2>2, PrefixIgnored DEF Ignored, Ready
<1>4. CASE ~ event.final /\ b.final /\ event.byte = 224
             /\ b.byte = b.key - 57344 + Released(b)
  <2>1. Scan(b.byte) = 57344 + b.byte
    BY <1>4 DEF Scan, Ready, Bools
  <2>2. CASE b.press
    <3>1. b.byte = b.key - 57344
      BY <1>4, <1>1, <2>2 DEF Released
    <3>2. b.byte # 224 /\ b.byte < 128 /\ Scan(b.byte) = b.key
      BY <3>1, <1>1, <2>1
    <3> QED
      BY <1>1, <1>2, <1>4, <2>2, <3>2 DEF KeyHeard, Reads
  <2>3. CASE ~ b.press
    <3>1. b.byte = b.key - 57344 + 128
      BY <1>4, <1>1, <2>3 DEF Released
    <3>2. b.byte # 224 /\ b.byte >= 128 /\ Scan(b.byte) - 128 = b.key
      BY <3>1, <1>1, <2>1
    <3> QED
      BY <1>1, <1>2, <1>4, <2>3, <3>2 DEF KeyHeard, Reads
  <2> QED
    BY <2>2, <2>3
<1> QED
  BY <1>3, <1>4 DEF PrefixedFollows

LEMMA PrintScreenHeard ==
  ASSUME NEW b, Ready(b), Reads(b), PrintScreenFollows(event, b),
         ~ event.final => Same(event, b)
  PROVE  Ignored(b)
<1>1. b.key = 57399 /\ b.key \notin 1 .. 88 /\ b.key # Pause /\ b.key = PrintScreen
  BY DEF PrintScreenFollows, PrintScreen, Pause
<1>2. \A kind \in Kinds : b.key \notin kind
  BY <1>1, KindsApart
<1>3. \A kind \in Kinds : Settled(kind)' => Settled(kind) /\ b.key \notin kind
  BY <1>1, <1>2 DEF Settled, Same, Reads
<1>4. CASE b.byte = 224
  BY <1>1, <1>3, <1>4, PrefixIgnored DEF Ignored, Reads, Ready
<1>5. CASE event.byte = 224 /\ b.byte \in {42, 55, 183, 170}
  <2>1. Scan(b.byte) = 57344 + b.byte /\ b.byte # 224
    BY <1>5 DEF Scan, Ready, Bools
  <2>2. PICK m \in {57386, 57399} : Make(m) \/ (Break(m) /\ PutChar("nothing"))
    <3>1. CASE b.byte \in {42, 55}
      BY <2>1, <3>1 DEF Reads
    <3>2. CASE b.byte \in {183, 170}
      BY <2>1, <3>2 DEF Reads
    <3> QED
      BY <1>5, <3>1, <3>2
  <2>3. m \in Nat /\ m \notin 1 .. 58 /\ \A kind \in Kinds : m \notin kind
    BY KindsApart
  <2> QED
    BY <1>1, <1>3, <2>2, <2>3, OtherIgnored DEF Ignored, Ready
<1> QED
  BY <1>4, <1>5 DEF PrintScreenFollows

LEMMA PauseHeard ==
  ASSUME NEW b, Ready(b), Reads(b), PauseFollows(event, b),
         ~ event.final => Same(event, b)
  PROVE  CtrlHeard(b) \/ Ignored(b)
<1>1. b.key = 57629 /\ b.key \notin 1 .. 88 /\ b.key = Pause
  BY DEF PauseFollows, Pause
<1>2. \A kind \in Kinds : b.key \notin kind
  BY <1>1, KindsApart
<1>3. ext_scancode = FALSE
  BY DEF Ready, Bools, PauseFollows
<1>4. Scan(b.byte) = b.byte
  BY <1>3 DEF Scan
<1>5. CASE ~ event.final /\ ~ b.final /\ b.byte \in {29, 157}
  BY <1>1, <1>4, <1>5 DEF CtrlHeard, Reads, PauseFollows
<1>6. CASE b.byte \in {225, 69, 197} /\ (b.final => ~ event.final /\ event.byte = 157)
           /\ (~ b.final => b.byte # 197)
  <2>1. PICK m \in {97, 69} : Make(m) \/ (Break(m) /\ PutChar("nothing"))
    BY <1>4, <1>6 DEF Reads
  <2>2. m \in Nat /\ m \notin 1 .. 58 /\ \A kind \in Kinds : m \notin kind
    BY KindsApart
  <2>3. \A kind \in Kinds : Settled(kind)' => Settled(kind) /\ b.key \notin kind
    BY <1>1, <1>2, <1>6 DEF Settled, Same, Reads
  <2> QED
    BY <1>1, <2>1, <2>2, <2>3, OtherIgnored DEF Ignored, Ready
<1> QED
  BY <1>5, <1>6 DEF PauseFollows

LEMMA BreakHeard ==
  ASSUME NEW b, Ready(b), Reads(b), BreakFollows(event, b),
         ~ event.final => Same(event, b)
  PROVE  Ignored(b)
<1>1. b.key = 57629 /\ b.key \notin 1 .. 88 /\ b.key = Pause
  BY DEF BreakFollows, Pause
<1>2. \A kind \in Kinds : b.key \notin kind
  BY <1>1, KindsApart
<1>3. \A kind \in Kinds : Settled(kind)' => Settled(kind) /\ b.key \notin kind
  <2>1. event.final \/ event.byte \in {70, 224}
    BY DEF BreakFollows
  <2> QED
    BY <1>1, <1>2, <2>1 DEF Settled, Same, Reads
<1>4. CASE b.byte = 224
  BY <1>1, <1>3, <1>4, PrefixIgnored DEF Ignored, Reads, Ready
<1>5. CASE event.byte = 224 /\ b.byte \in {70, 198}
  <2>1. Scan(b.byte) = 57344 + b.byte /\ b.byte # 224
    BY <1>5 DEF Scan, Ready, Bools
  <2>2. Make(57414) \/ (Break(57414) /\ PutChar("nothing"))
    BY <1>5, <2>1 DEF Reads
  <2>3. 57414 \in Nat /\ 57414 \notin 1 .. 58 /\ \A kind \in Kinds : 57414 \notin kind
    BY KindsApart
  <2> QED
    BY <1>1, <1>3, <2>2, <2>3, OtherIgnored DEF Ignored, Ready
<1> QED
  BY <1>4, <1>5 DEF BreakFollows

LEMMA FollowsHeard ==
  ASSUME NEW b, Ready(b), Reads(b), Follows(event, b)
  PROVE  Heard(b)
<1>1. ~ event.final => Same(event, b)
  BY DEF Follows
<1> QED
  BY <1>1, PlainHeard, PrefixedHeard, PrintScreenHeard, PauseHeard, BreakHeard
  DEF Follows, ByteFollows, Heard

-----------------------------------------------------------------------------
(* What the handler knows of a kind stays right when nothing of the kind   *)
(* is heard.                                                               *)
LEMMA KindKept ==
  ASSUME NEW b, Follows(event, b), event' = b, NEW kind \in Kinds, b.key \notin kind,
         FlagOK(kind), Flag(kind)' <=> Flag(kind)
  PROVE  FlagOK(kind)'
<1>1. /\ b.held \intersect kind = event.held \intersect kind
      /\ kind \in b.paired <=> kind \in event.paired
  BY DEF Follows, Moved, Same
<1> QED
  BY <1>1 DEF FlagOK, Down

LEMMA IgnoredFlags ==
  ASSUME NEW b, Follows(event, b), event' = b, Ignored(b), NEW kind \in Kinds,
         Settled(kind) => FlagOK(kind), Settled(kind)'
  PROVE  FlagOK(kind)'
BY KindKept DEF Ignored

LEMMA CtrlFlags ==
  ASSUME NEW b, Ready(b), Follows(event, b), event' = b, CtrlHeard(b), NEW kind \in Kinds,
         Settled(kind) => FlagOK(kind), Settled(kind)'
  PROVE  FlagOK(kind)'
<1>1. b.key = Pause /\ event.key = Pause /\ ~ event.final /\ ~ b.final
  BY DEF CtrlHeard, Follows, Same
<1>2. b.key \notin kind
  BY <1>1, KindsApart DEF Pause
<1>3. CASE kind = Ctrls
  <2>1. b.byte = 157 /\ Break(29)
    BY <1>1, <1>3 DEF CtrlHeard, Settled
  <2>2. ~ Flag(kind)'
    BY <1>3, <2>1, BreakFlags, KindsApart DEF Ready
  <2>3. ~ Down(kind)'
    BY <1>3 DEF CtrlHeard, Down
  <2> QED
    BY <2>2, <2>3 DEF FlagOK
<1>4. CASE kind # Ctrls
  <2>1. Settled(kind)
    BY <1>1, <1>2, <1>4 DEF Settled
  <2>2. 29 \notin kind
    BY <1>4, KindsApart
  <2>3. Make(29) \/ Break(29)
    BY DEF CtrlHeard
  <2>4. Flag(kind)' <=> Flag(kind)
    BY <2>2, <2>3, MakeFlags, BreakFlags DEF Ready
  <2> QED
    BY <1>2, <2>1, <2>4, KindKept
<1> QED
  BY <1>3, <1>4

LEMMA KeyFlags ==
  ASSUME NEW b, Ready(b), Follows(event, b), event' = b, KeyHeard(b), NEW kind \in Kinds,
         Settled(kind) => FlagOK(kind)
  PROVE  FlagOK(kind)'
<1>1. /\ b.press => (Flag(kind)' <=> Flag(kind) \/ b.key \in kind)
      /\ ~ b.press => (Flag(kind)' <=> Flag(kind) /\ b.key \notin kind)
  BY MakeFlags, BreakFlags DEF KeyHeard, Ready
<1>2. CASE b.key \notin kind
  <2>1. event.final \/ event.key = b.key
    BY DEF Follows, Same
  <2>2. Settled(kind)
    BY <1>2, <2>1 DEF Settled, KeyHeard
  <2> QED
    BY <1>1, <1>2, <2>2, KindKept
<1>3. CASE b.key \in kind /\ b.press
  <2>1. b.key \in b.held
    BY <1>3 DEF Follows, HeldOK
  <2> QED
    BY <1>1, <1>3, <2>1 DEF FlagOK, Down
<1>4. CASE b.key \in kind /\ ~ b.press
  <2>1. kind \notin b.paired => b.held \intersect kind = {}
    BY <1>4 DEF Follows, HeldOK
  <2> QED
    BY <1>1, <1>4, <2>1 DEF FlagOK, Down
<1> QED
  BY <1>2, <1>3, <1>4

(* Caps lock toggles when its key is pressed.                              *)
LEMMA CapsKept ==
  ASSUME NEW b, Ready(b), Follows(event, b), Heard(b),
         NoRepeat, caps_lock_status <=> event.lock
  PROVE  caps_lock_status' <=> b.lock
<1>1. b.key = caps_lock_make /\ b.press => KeyHeard(b) /\ event.final
  BY DEF Heard, KeyHeard, CtrlHeard, Ignored, caps_lock_make, Pause
<1>2. b.lock <=> IF b.key = caps_lock_make /\ b.press THEN ~ event.lock ELSE event.lock
  BY <1>1 DEF Follows, Moved, Same
<1>3. CASE b.key = caps_lock_make /\ b.press
  <2>1. caps_lock_status' = ~ caps_lock_status
    BY <1>1, <1>3, MakeFlags DEF KeyHeard, Ready
  <2> QED
    BY <1>2, <1>3, <2>1
<1>4. CASE ~ (b.key = caps_lock_make /\ b.press)
  <2>1. caps_lock_status' = caps_lock_status
    <3>1. CASE KeyHeard(b)
      BY <1>4, <3>1, MakeFlags, BreakFlags DEF KeyHeard, Ready
    <3>2. CASE CtrlHeard(b)
      <4>1. 29 # caps_lock_make
        BY DEF caps_lock_make
      <4> QED
        BY <3>2, <4>1, MakeFlags, BreakFlags DEF CtrlHeard, Ready
    <3>3. CASE Ignored(b)
      BY <3>3 DEF Ignored
    <3> QED
      BY <3>1, <3>2, <3>3 DEF Heard
  <2> QED
    BY <1>2, <1>4, <2>1
<1> QED
  BY <1>3, <1>4

LEMMA PrintingKeys == \A k : Printing(k) <=> k \in (1 .. 58) \ Blank
BY Keymap DEF Printing, Row

LEMMA OutKept ==
  ASSUME NEW b, Ready(b), Follows(event, b), Heard(b), OutOK, ~ Printing(b.key)
  PROVE  Quiet(out')
<1>1. event.final \/ Quiet(out)
  BY DEF Follows, Same, OutOK
<1>2. b.key \notin (1 .. 58) \ Blank
  BY PrintingKeys
<1>3. Quiet("nothing")
  BY DEF Quiet
<1>4. CASE KeyHeard(b)
  BY <1>1, <1>2, <1>3, <1>4, MakeFlags, QuietStays DEF KeyHeard, Ready
<1>5. CASE CtrlHeard(b)
  BY <1>1, <1>3, <1>5, MakeFlags, QuietStays DEF CtrlHeard, Ready, Blank
<1>6. CASE Ignored(b)
  BY <1>1, <1>6 DEF Ignored
<1> QED
  BY <1>4, <1>5, <1>6 DEF Heard

LEMMA HeardTyped ==
  ASSUME NEW b, Ready(b), Heard(b), out \in Outs
  PROVE  /\ {ctrl_status', shift_status', alt_status', caps_lock_status'} \subseteq BOOLEAN
         /\ out' \in Outs
<1>1. Quiet("nothing") /\ "nothing" \in Outs
  BY QuietOuts DEF Quiet
<1>2. CASE KeyHeard(b)
  BY <1>1, <1>2, MakeFlags, BreakFlags, OutTyped DEF KeyHeard, Ready
<1>3. CASE CtrlHeard(b)
  BY <1>1, <1>3, MakeFlags, BreakFlags, OutTyped DEF CtrlHeard, Ready
<1>4. CASE Ignored(b)
  BY <1>4 DEF Ignored
<1> QED
  BY <1>2, <1>3, <1>4 DEF Heard

(* A character key prints what it stands for.                              *)
LEMMA PrintsMeant ==
  ASSUME NEW b, Ready(b), Follows(event, b), event' = b, Heard(b),
         NoRepeat, caps_lock_status <=> event.lock,
         \A kind \in Kinds : Settled(kind) => FlagOK(kind),
         b.final, b.press, Printing(b.key), Shifts \notin b.paired,
         Symbol(b.key) \/ Down(Shifts)' \/ b.lock
  PROVE  out' = Meant(b.key, Down(Shifts)', b.lock)
<1>1. b.key \in (1 .. 58) \ Blank
  BY PrintingKeys
<1>2. KeyHeard(b) /\ event.final
  BY <1>1 DEF Heard, KeyHeard, CtrlHeard, Ignored, Pause
<1>3. out' = IF Column(b.key) THEN Shifted[b.key] ELSE Plain[b.key]
  BY <1>1, <1>2, MakeFlags DEF KeyHeard, Ready
<1>4. b.key \notin Shifts /\ b.key # caps_lock_make /\ Shifts \in Kinds
  BY <1>1, KindsApart DEF Blank, caps_lock_make, Kinds
<1>5. /\ b.held \intersect Shifts = event.held \intersect Shifts
      /\ Shifts \notin event.paired
      /\ b.lock <=> event.lock
  BY <1>2, <1>4 DEF Follows, Moved
<1>6. shift_status <=> Down(Shifts)'
  <2>1. FlagOK(Shifts)
    BY <1>2, <1>4 DEF Settled
  <2> QED
    BY <1>5, <2>1, KindsApart DEF FlagOK, Flag, Down
<1>7. Column(b.key) <=> IF Symbol(b.key) THEN Down(Shifts)' ELSE ~ (Down(Shifts)' <=> b.lock)
  BY <1>5, <1>6 DEF Column, LetterColumn
<1>8. b.key \in DOMAIN Plain
  BY <1>1, Keymap
<1> QED
  BY <1>3, <1>7, <1>8 DEF Meant

-----------------------------------------------------------------------------
(* What Interrupt reads.                                                   *)
LEMMA InterruptReads ==
  ASSUME TypeOK, Interrupt
  PROVE  /\ wire # <<>> /\ wire' = Tail(wire)
         /\ wire[1] \in Event /\ Reads(wire[1])
         /\ ext_scancode' = (wire[1].byte = 224)
         /\ UNCHANGED keys
<1>1. wire # <<>> /\ wire \in Seq(Event)
  BY DEF Interrupt, TypeOK
<1>2. Head(wire) = wire[1] /\ wire[1] \in Event
  BY <1>1
<1> DEFINE b == wire[1]
<1>3. b.byte \in 0 .. 255
  BY <1>2 DEF Event
<1>4. \/ Prefix(b.byte)
      \/ /\ b.byte # \hE0
         /\ ext_scancode' = FALSE
         /\ IF b.byte >= 128 THEN Break(Scan(b.byte) - 128) /\ PutChar("nothing")
            ELSE Make(Scan(b.byte))
  BY <1>2 DEF Interrupt
<1>5. event' = b /\ wire' = Tail(wire) /\ UNCHANGED keys
  BY <1>2 DEF Interrupt
<1>6. CASE b.byte = 224
  <2>1. Prefix(b.byte)
    BY <1>4, <1>6
  <2>2. ext_scancode' = TRUE
    BY <2>1 DEF Prefix
  <2> QED
    BY <1>1, <1>2, <1>5, <1>6, <2>1, <2>2 DEF Reads
<1>7. CASE b.byte # 224
  <2>1. ~ Prefix(b.byte)
    BY <1>7 DEF Prefix
  <2>2. /\ ext_scancode' = FALSE
        /\ b.byte >= 128 => Break(Scan(b.byte) - 128) /\ PutChar("nothing")
        /\ b.byte < 128 => Make(Scan(b.byte))
    BY <1>3, <1>4, <2>1
  <2> QED
    BY <1>1, <1>2, <1>5, <1>7, <2>2 DEF Reads
<1> QED
  BY <1>6, <1>7

(* The bytes behind the one that is read are as they were.                 *)
LEMMA WireRead ==
  ASSUME TypeOK, WireOK, wire # <<>>, event' = wire[1], wire' = Tail(wire), UNCHANGED keys
  PROVE  WireOK' /\ wire' \in Seq(Event) /\ Follows(event, wire[1])
<1>0. Len(wire) \in Nat \ {0}
  BY EmptySeq DEF TypeOK
<1>1. Len(wire) \in Nat /\ Len(wire) >= 1
  BY <1>0
<1>7. wire \in Seq(Event)
  BY DEF TypeOK
<1>2. /\ wire' \in Seq(Event) /\ Len(wire') = Len(wire) - 1
      /\ \A i \in 1 .. Len(wire) - 1 : wire'[i] = wire[i + 1]
  BY <1>1, <1>7
<1>3. \A i \in 1 .. Len(wire') + 1 : Before(i)' = Before(i + 1)
  BY <1>1, <1>2 DEF Before
<1>4. Latest' = Latest
  BY <1>1, <1>2, <1>3 DEF Latest
<1>5. \A i \in 1 .. Len(wire') : Follows(Before(i), wire[i])'
  <2> SUFFICES ASSUME NEW i \in 1 .. Len(wire')
               PROVE  Follows(Before(i)', wire'[i])
    OBVIOUS
  <2>1. i + 1 \in 1 .. Len(wire) /\ i \in 1 .. Len(wire) - 1 /\ i \in 1 .. Len(wire') + 1
    BY <1>1, <1>2
  <2>2. Follows(Before(i + 1), wire[i + 1])
    BY <2>1 DEF WireOK
  <2> QED
    BY <1>2, <1>3, <2>1, <2>2
<1>6. Follows(event, wire[1])
  BY <1>1 DEF WireOK, Before
<1> QED
  BY <1>2, <1>4, <1>5, <1>6 DEF WireOK, keys

(* The code of a key behind what has been sent.                            *)
Chain(a, s) ==
  /\ Follows(a, s[1])
  /\ \A i \in 2 .. Len(s) : Follows(s[i - 1], s[i])

LEMMA WireSent ==
  ASSUME TypeOK, WireOK, event' = event,
         NEW s \in Seq(Event), s # <<>>, Chain(Latest, s), wire' = wire \o s
  PROVE  /\ wire' \in Seq(Event)
         /\ \A i \in 1 .. Len(wire') : Follows(Before(i)', wire'[i])
         /\ Latest' = s[Len(s)]
<1> DEFINE n == Len(wire)
<1>0. Len(s) \in Nat \ {0}
  BY EmptySeq
<1>7. wire \in Seq(Event) /\ Len(wire) \in Nat
  BY LenProperties DEF TypeOK
<1>1. n \in Nat /\ Len(s) \in Nat /\ Len(s) >= 1
  BY <1>0, <1>7
<1>2. /\ wire' \in Seq(Event) /\ Len(wire') = n + Len(s)
      /\ \A i \in 1 .. n : wire'[i] = wire[i]
      /\ \A i \in n + 1 .. n + Len(s) : wire'[i] = s[i - n]
  BY <1>1, <1>7
<1>3. \A i \in 1 .. n + 1 : Before(i)' = Before(i)
  BY <1>1, <1>2 DEF Before
<1>4. \A i \in n + 2 .. n + Len(s) + 1 : Before(i)' = s[i - 1 - n]
  BY <1>1, <1>2 DEF Before
<1> HIDE DEF n
<1>5. \A i \in 1 .. Len(wire') : Follows(Before(i)', wire'[i])
  <2> SUFFICES ASSUME NEW i \in 1 .. Len(wire')
               PROVE  Follows(Before(i)', wire'[i])
    OBVIOUS
  <2>1. CASE i <= n
    <3>1. Follows(Before(i), wire[i])
      BY <1>1, <2>1 DEF WireOK, n
    <3> QED
      BY <1>1, <1>2, <1>3, <2>1, <3>1
  <2>2. CASE i = n + 1
    <3>1. Before(i)' = Latest
      BY <1>1, <1>3, <2>2 DEF Latest, n
    <3>2. wire'[i] = s[1]
      BY <1>1, <1>2, <2>2
    <3> QED
      BY <3>1, <3>2 DEF Chain
  <2>3. CASE i >= n + 2
    <3>1. i - n \in 2 .. Len(s) /\ i - n - 1 = i - 1 - n
      BY <1>1, <1>2, <2>3
    <3>2. Before(i)' = s[i - n - 1] /\ wire'[i] = s[i - n]
      BY <1>1, <1>2, <1>4, <2>3, <3>1
    <3> QED
      BY <3>1, <3>2 DEF Chain
  <2> QED
    BY <1>1, <1>2, <2>1, <2>2, <2>3
<1>6. Latest' = s[Len(s)]
  <2>1. PICK k : k = n + Len(s) + 1
    OBVIOUS
  <2>2. k \in n + 2 .. n + Len(s) + 1 /\ k - 1 - n = Len(s) /\ k = Len(wire') + 1
    BY <1>1, <1>2, <2>1
  <2>3. Before(k)' = s[Len(s)]
    BY <1>4, <2>2
  <2> QED
    BY <2>2, <2>3 DEF Latest, Before
<1> QED
  BY <1>2, <1>5, <1>6

-----------------------------------------------------------------------------
(* Sequences of one and two bytes.                                         *)
LEMMA OneByte ==
  ASSUME NEW S, NEW x \in S
  PROVE  <<x>> \in [1 .. 1 -> S] /\ <<x>>[1] = x
OBVIOUS

LEMMA TwoBytes ==
  ASSUME NEW S, NEW x \in S, NEW y \in S
  PROVE  <<x, y>> \in [1 .. 2 -> S] /\ <<x, y>>[1] = x /\ <<x, y>>[2] = y
OBVIOUS

(* The codes that keys send.  R is 128 in a break code.                    *)
Code(k, press, held) == IF press THEN MakeCode(k, held) ELSE BreakCode(k)

LEMMA PlainCode ==
  ASSUME NEW k \in 1 .. \h58, NEW press \in BOOLEAN, NEW held
  PROVE  /\ Code(k, press, held) \in [1 .. 1 -> 0 .. 255]
         /\ Code(k, press, held)[1] = k + IF press THEN 0 ELSE 128
<1>1. k # PrintScreen /\ k # Pause /\ Bytes(k) = <<k>>
  BY DEF PrintScreen, Pause, Bytes
<1>2. CASE press
  <2>1. Code(k, press, held) = <<k>>
    BY <1>1, <1>2 DEF Code, MakeCode
  <2>2. k \in 0 .. 255
    OBVIOUS
  <2> DEFINE b == <<k>>
  <2>3. b \in [1 .. 1 -> 0 .. 255] /\ b[1] = k
    BY <2>2, OneByte
  <2>4. Code(k, press, held) = b
    BY <2>1
  <2> HIDE DEF b
  <2>5. k + (IF press THEN 0 ELSE 128) = k
    BY <1>2
  <2> QED
    BY <2>3, <2>4, <2>5
<1>3. CASE ~ press
  <2>1. Code(k, press, held) = [i \in 1 .. 1 |-> IF i = 1 THEN <<k>>[i] + 128 ELSE <<k>>[i]]
    BY <1>1, <1>3 DEF Code, BreakCode
  <2>2. \A i \in 1 .. 1 : Code(k, press, held)[i] = k + 128
    BY <2>1
  <2>3. k + 128 \in 0 .. 255
    OBVIOUS
  <2> QED
    BY <1>3, <2>1, <2>2, <2>3
<1> QED
  BY <1>2, <1>3

LEMMA PrefixedCode ==
  ASSUME NEW k \in Prefixed, NEW press \in BOOLEAN, NEW held
  PROVE  /\ Code(k, press, held) \in [1 .. 2 -> 0 .. 255]
         /\ Code(k, press, held)[1] = \hE0
         /\ Code(k, press, held)[2] = k - \hE000 + IF press THEN 0 ELSE 128
<1>1. k \in 57345 .. 57471 /\ k # PrintScreen /\ k # Pause
  BY DEF Prefixed, Pause
<1>2. k % 256 = k - 57344 /\ k - 57344 \in 1 .. 127
  BY <1>1
<1>3. Bytes(k) = <<224, k - 57344>>
  BY <1>1, <1>2 DEF Bytes
<1>4. CASE press
  <2>1. Code(k, press, held) = <<224, k - 57344>>
    BY <1>1, <1>3, <1>4 DEF Code, MakeCode
  <2>2. 224 \in 0 .. 255 /\ k - 57344 \in 0 .. 255
    BY <1>2
  <2> DEFINE b == <<224, k - 57344>>
  <2>3. b \in [1 .. 2 -> 0 .. 255] /\ b[1] = 224 /\ b[2] = k - 57344
    BY <2>2, TwoBytes
  <2>4. Code(k, press, held) = b
    BY <2>1
  <2> HIDE DEF b
  <2>5. k - 57344 + (IF press THEN 0 ELSE 128) = k - 57344
    BY <1>2, <1>4
  <2> QED
    BY <2>3, <2>4, <2>5
<1>5. CASE ~ press
  <2> DEFINE b == Bytes(k)
  <2>1. Len(b) = 2 /\ DOMAIN b = 1 .. 2 /\ b[1] = 224 /\ b[2] = k - 57344
    BY <1>3
  <2> HIDE DEF b
  <2>2. Code(k, press, held) = [i \in 1 .. 2 |-> IF i = 2 THEN b[i] + 128 ELSE b[i]]
    BY <1>1, <1>5, <2>1 DEF Code, BreakCode, b
  <2>3. Code(k, press, held)[1] = 224 /\ Code(k, press, held)[2] = k - 57344 + 128
    BY <2>1, <2>2
  <2>4. \A i \in 1 .. 2 : i = 1 \/ i = 2
    OBVIOUS
  <2>5. 224 \in 0 .. 255 /\ k - 57344 + 128 \in 0 .. 255
    BY <1>2
  <2> QED
    BY <1>2, <1>5, <2>2, <2>3, <2>4, <2>5
<1> QED
  BY <1>4, <1>5

LEMMA PrintScreenCode ==
  ASSUME NEW press \in BOOLEAN, NEW held
  PROVE  /\ Code(PrintScreen, press, held) \in [1 .. 4 -> 0 .. 255]
         /\ Code(PrintScreen, press, held) = IF press THEN <<\hE0, \h2A, \hE0, \h37>>
                                             ELSE <<\hE0, \hB7, \hE0, \hAA>>
BY DEF Code, MakeCode, BreakCode

CodeOf(codes, n) == n \in Nat \ {0} /\ codes \in [1 .. n -> 0 .. 255]

PauseBytes(c) ==
  /\ CodeOf(c, 6)
  /\ c[1] = \hE1 /\ c[2] = \h1D /\ c[3] = \h45 /\ c[4] = \hE1 /\ c[5] = \h9D /\ c[6] = \hC5

BreakBytes(c) ==
  /\ CodeOf(c, 4)
  /\ c[1] = \hE0 /\ c[2] = \h46 /\ c[3] = \hE0 /\ c[4] = \hC6

LEMMA PauseCode ==
  ASSUME NEW press, press = TRUE, NEW held,
         NEW codes, codes = Code(Pause, press, held)
  PROVE  /\ held \intersect Ctrls = {} => PauseBytes(codes)
         /\ held \intersect Ctrls # {} => BreakBytes(codes)
<1>1. Pause # PrintScreen
  BY DEF Pause, PrintScreen
<1>2. CASE held \intersect Ctrls = {}
  <2> DEFINE c == <<\hE1, \h1D, \h45, \hE1, \h9D, \hC5>>
  <2>1. codes = c
    BY <1>1, <1>2 DEF Code, MakeCode
  <2>2. c \in [1 .. 6 -> 0 .. 255]
    OBVIOUS
  <2>3. c[1] = 225 /\ c[2] = 29 /\ c[3] = 69 /\ c[4] = 225 /\ c[5] = 157 /\ c[6] = 197
    OBVIOUS
  <2> HIDE DEF c
  <2> QED
    BY <1>2, <2>1, <2>2, <2>3 DEF PauseBytes, CodeOf
<1>3. CASE held \intersect Ctrls # {}
  <2> DEFINE c == <<\hE0, \h46, \hE0, \hC6>>
  <2>1. codes = c
    BY <1>1, <1>3 DEF Code, MakeCode
  <2>2. c \in [1 .. 4 -> 0 .. 255]
    OBVIOUS
  <2>3. c[1] = 224 /\ c[2] = 70 /\ c[3] = 224 /\ c[4] = 198
    OBVIOUS
  <2> HIDE DEF c
  <2> QED
    BY <1>3, <2>1, <2>2, <2>3 DEF BreakBytes, CodeOf
<1> QED
  BY <1>2, <1>3

LEMMA KeyCodes ==
  \A k \in Keys : (k \in 1 .. \h58 \/ k \in \hE001 .. \hE07F \/ k = Pause) /\ k # \hE060
BY KeyboardAssumption

(* What is on the wire for a code of n bytes that is sent for e.           *)
SentFor(codes, e) == Sent(codes, e.key, e.press, e.held, e.lock, e.paired)

Carries(s, n, codes, e) ==
  /\ s \in Seq(Event) /\ Len(s) = n /\ s # <<>>
  /\ \A i \in 1 .. n : Same(e, s[i]) /\ s[i].byte = codes[i] /\ (s[i].final <=> i = n)

LEMMA SentIs ==
  ASSUME NEW n, NEW codes, CodeOf(codes, n), NEW e, e \in Event, NEW s, s = SentFor(codes, e)
  PROVE  Carries(s, n, codes, e)
<1>0. n \in Nat \ {0} /\ codes \in [1 .. n -> 0 .. 255]
  BY DEF CodeOf
<1>1. codes \in Seq(0 .. 255) /\ Len(codes) = n /\ DOMAIN codes = 1 .. n
  BY <1>0
<1>2. s = [i \in 1 .. n |-> [byte |-> codes[i], final |-> i = n, key |-> e.key,
                              press |-> e.press, held |-> e.held, lock |-> e.lock,
                              paired |-> e.paired]]
  BY <1>1 DEF Sent, SentFor
<1>3. \A i \in 1 .. n : Same(e, s[i]) /\ s[i].byte = codes[i] /\ (s[i].final <=> i = n)
  <2> SUFFICES ASSUME NEW i \in 1 .. n
               PROVE  Same(e, s[i]) /\ s[i].byte = codes[i] /\ (s[i].final <=> i = n)
    OBVIOUS
  <2>1. s[i] = [byte |-> codes[i], final |-> i = n, key |-> e.key, press |-> e.press,
                held |-> e.held, lock |-> e.lock, paired |-> e.paired]
    BY <1>2
  <2>2. s[i].byte = codes[i]
    BY <2>1
  <2>4. s[i].final = (i = n)
    BY <2>1
  <2>3. /\ s[i].key = e.key /\ s[i].press = e.press /\ s[i].held = e.held
        /\ s[i].lock = e.lock /\ s[i].paired = e.paired
    BY <2>1
  <2> QED
    BY <2>2, <2>3, <2>4 DEF Same
<1>4. \A i \in 1 .. n : s[i] \in Event
  BY <1>0, <1>2 DEF Event
<1>5. s \in [1 .. n -> Event]
  BY <1>2, <1>4
<1>6. s \in Seq(Event) /\ Len(s) = n
  BY <1>0, <1>5
<1>7. s # <<>>
  BY <1>0, <1>6
<1> QED
  BY <1>3, <1>6, <1>7 DEF Carries

\* All bytes of s follow each other, and the first one a.
ByteChain(a, s, n) ==
  ByteFollows(a, s[1]) /\ \A i \in 2 .. n : ByteFollows(s[i - 1], s[i])

Linked(a, s, e) ==
  s \in Seq(Event) /\ s # <<>> /\ Chain(a, s) /\ s[Len(s)].final /\ Same(e, s[Len(s)])

LEMMA ChainOf ==
  ASSUME NEW n, NEW codes, CodeOf(codes, n), NEW e, NEW s, Carries(s, n, codes, e),
         NEW a, a.final, Moved(a, e), HeldOK(e), ByteChain(a, s, n)
  PROVE  Linked(a, s, e)
<1>0. n \in Nat \ {0}
  BY DEF CodeOf
<1>1. s \in Seq(Event) /\ Len(s) = n /\ s # <<>>
  BY DEF Carries
<1>2. \A i \in 1 .. n : Same(e, s[i]) /\ (s[i].final <=> i = n)
  BY DEF Carries
<1>3. \A i \in 1 .. n : HeldOK(s[i])
  BY <1>2 DEF HeldOK, Same
<1>4. Follows(a, s[1])
  <2>1. 1 \in 1 .. n
    BY <1>0
  <2>2. Moved(a, s[1])
    BY <1>2, <2>1 DEF Moved, Same
  <2> QED
    BY <1>3, <2>1, <2>2 DEF Follows, ByteChain
<1>5. \A i \in 2 .. n : Follows(s[i - 1], s[i])
  <2> SUFFICES ASSUME NEW i \in 2 .. n PROVE Follows(s[i - 1], s[i])
    OBVIOUS
  <2>1. i - 1 \in 1 .. n /\ i \in 1 .. n /\ i - 1 # n
    BY <1>0
  <2>2. Same(s[i - 1], s[i]) /\ ~ s[i - 1].final
    BY <1>2, <2>1 DEF Same
  <2> QED
    BY <1>3, <2>1, <2>2 DEF Follows, ByteChain
<1>6. n \in 1 .. n
  BY <1>0
<1> QED
  BY <1>1, <1>2, <1>4, <1>5, <1>6 DEF Chain, Linked

(* Every code that is sent follows what was sent before it.                *)
LEMMA SentFollows ==
  ASSUME NEW e \in Event, e.key # 0, NEW before,
         ~ e.press => e.key # Pause,
         e.key = Pause => before \intersect Ctrls = e.held \intersect Ctrls,
         NEW s, s = SentFor(Code(e.key, e.press, before), e),
         NEW a, a.final, Moved(a, e), HeldOK(e)
  PROVE  Linked(a, s, e)
<1> DEFINE k == e.key
           R == IF e.press THEN 0 ELSE 128
<1>0. k \in Keys /\ e.press \in BOOLEAN
  BY DEF Event
<1>1. k \in 1 .. \h58 \/ k \in Prefixed \/ k = PrintScreen \/ k = Pause
  <2>1. k \in 1 .. \h58 \/ k \in \hE001 .. \hE07F \/ k = Pause
    BY <1>0, KeyCodes
  <2>2. k # \hE060
    BY <1>0, KeyCodes
  <2> QED
    BY <2>1, <2>2 DEF Prefixed
<1>2. PICK codes : codes = Code(k, e.press, before)
  OBVIOUS
<1>3. s = SentFor(codes, e)
  BY <1>2
<1>4. ASSUME NEW n, CodeOf(codes, n), ByteChain(a, s, n)
      PROVE  Linked(a, s, e)
  BY <1>3, <1>4, SentIs, ChainOf
<1>5. ASSUME NEW n, CodeOf(codes, n)
      PROVE  \A i \in 1 .. n : Same(e, s[i]) /\ s[i].byte = codes[i] /\ (s[i].final <=> i = n)
  <2>1. Carries(s, n, codes, e)
    BY <1>3, <1>5, SentIs
  <2> QED
    BY <2>1 DEF Carries
<1>6. CASE k \in 1 .. \h58
  <2>0. /\ Code(k, e.press, before) \in [1 .. 1 -> 0 .. 255]
        /\ Code(k, e.press, before)[1] = k + R
    BY <1>0, <1>6, PlainCode
  <2>1. CodeOf(codes, 1) /\ codes[1] = k + R
    BY <1>2, <2>0 DEF CodeOf
  <2>2. Same(e, s[1]) /\ s[1].byte = k + R /\ s[1].final
    BY <1>5, <2>1
  <2>3. ByteFollows(a, s[1])
    BY <1>6, <2>2 DEF Same, ByteFollows, PlainFollows, Released
  <2>4. \A i \in 2 .. 1 : ByteFollows(s[i - 1], s[i])
    OBVIOUS
  <2> QED
    BY <1>4, <2>1, <2>3, <2>4 DEF ByteChain
<1>7. CASE k \in Prefixed
  <2>1. CodeOf(codes, 2) /\ codes[1] = \hE0 /\ codes[2] = k - \hE000 + R
    BY <1>0, <1>2, <1>7, PrefixedCode DEF CodeOf
  <2>2. /\ Same(e, s[1]) /\ s[1].byte = \hE0 /\ ~ s[1].final
        /\ Same(e, s[2]) /\ s[2].byte = k - \hE000 + R /\ s[2].final
    BY <1>5, <2>1
  <2>3. ByteFollows(a, s[1]) /\ ByteFollows(s[1], s[2])
    BY <1>7, <2>2 DEF Same, ByteFollows, PrefixedFollows, Released
  <2>4. \A i \in 2 .. 2 : ByteFollows(s[i - 1], s[i])
    BY <2>3
  <2> QED
    BY <1>4, <2>1, <2>3, <2>4 DEF ByteChain
<1>8. CASE k = PrintScreen
  <2>1. /\ CodeOf(codes, 4)
        /\ codes[1] = 224 /\ codes[2] \in {42, 183} /\ codes[3] = 224 /\ codes[4] \in {55, 170}
    BY <1>0, <1>2, <1>8, PrintScreenCode DEF CodeOf
  <2>2. /\ Same(e, s[1]) /\ s[1].byte = 224 /\ ~ s[1].final
        /\ Same(e, s[2]) /\ s[2].byte \in {42, 183} /\ ~ s[2].final
        /\ Same(e, s[3]) /\ s[3].byte = 224 /\ ~ s[3].final
        /\ Same(e, s[4]) /\ s[4].byte \in {55, 170} /\ s[4].final
    BY <1>5, <2>1
  <2>3. /\ ByteFollows(a, s[1]) /\ ByteFollows(s[1], s[2])
        /\ ByteFollows(s[2], s[3]) /\ ByteFollows(s[3], s[4])
    BY <1>8, <2>2 DEF Same, ByteFollows, PrintScreenFollows
  <2>4. \A i \in 2 .. 4 : i = 2 \/ i = 3 \/ i = 4
    OBVIOUS
  <2>5. \A i \in 2 .. 4 : ByteFollows(s[i - 1], s[i])
    BY <2>3, <2>4
  <2> QED
    BY <1>4, <2>1, <2>3, <2>5 DEF ByteChain
<1>9. CASE k = Pause /\ e.held \intersect Ctrls = {}
  <2>1. k = Pause /\ before \intersect Ctrls = {} /\ e.press
    BY <1>9
  <2>2. PauseBytes(codes)
    BY <1>0, <1>2, <2>1, PauseCode
  <2>3. /\ Same(e, s[1]) /\ s[1].byte = 225 /\ ~ s[1].final
        /\ Same(e, s[2]) /\ s[2].byte = 29 /\ ~ s[2].final
        /\ Same(e, s[3]) /\ s[3].byte = 69 /\ ~ s[3].final
        /\ Same(e, s[4]) /\ s[4].byte = 225 /\ ~ s[4].final
        /\ Same(e, s[5]) /\ s[5].byte = 157 /\ ~ s[5].final
        /\ Same(e, s[6]) /\ s[6].byte = 197 /\ s[6].final
    BY <1>5, <2>2 DEF PauseBytes
  <2>4. /\ ByteFollows(a, s[1]) /\ ByteFollows(s[1], s[2]) /\ ByteFollows(s[2], s[3])
        /\ ByteFollows(s[3], s[4]) /\ ByteFollows(s[4], s[5]) /\ ByteFollows(s[5], s[6])
    <3>1. \A i \in 1 .. 6 : s[i].key = Pause /\ s[i].press /\ s[i].held \intersect Ctrls = {}
      <4>1. \A i \in 1 .. 6 : Same(e, s[i])
        BY <1>5, <2>2 DEF PauseBytes
      <4> QED
        BY <1>9, <2>1, <4>1 DEF Same
    <3>2. ByteFollows(a, s[1]) /\ ByteFollows(s[1], s[2])
      BY <2>3, <3>1 DEF ByteFollows, PauseFollows
    <3>3. ByteFollows(s[2], s[3]) /\ ByteFollows(s[3], s[4])
      BY <2>3, <3>1 DEF ByteFollows, PauseFollows
    <3>4. ByteFollows(s[4], s[5]) /\ ByteFollows(s[5], s[6])
      BY <2>3, <3>1 DEF ByteFollows, PauseFollows
    <3> QED
      BY <3>2, <3>3, <3>4
  <2>5. \A i \in 2 .. 6 : i = 2 \/ i = 3 \/ i = 4 \/ i = 5 \/ i = 6
    OBVIOUS
  <2>6. \A i \in 2 .. 6 : ByteFollows(s[i - 1], s[i])
    BY <2>4, <2>5
  <2> QED
    BY <1>4, <2>2, <2>4, <2>6 DEF ByteChain, PauseBytes
<1>10. CASE k = Pause /\ e.held \intersect Ctrls # {}
  <2>1. k = Pause /\ before \intersect Ctrls # {} /\ e.press
    BY <1>10
  <2>2. BreakBytes(codes)
    BY <1>0, <1>2, <2>1, PauseCode
  <2>3. /\ Same(e, s[1]) /\ s[1].byte = 224 /\ ~ s[1].final
        /\ Same(e, s[2]) /\ s[2].byte = 70 /\ ~ s[2].final
        /\ Same(e, s[3]) /\ s[3].byte = 224 /\ ~ s[3].final
        /\ Same(e, s[4]) /\ s[4].byte = 198 /\ s[4].final
    BY <1>5, <2>2 DEF BreakBytes
  <2>4. /\ ByteFollows(a, s[1]) /\ ByteFollows(s[1], s[2])
        /\ ByteFollows(s[2], s[3]) /\ ByteFollows(s[3], s[4])
    BY <1>10, <2>1, <2>3 DEF Same, ByteFollows, BreakFollows
  <2>5. \A i \in 2 .. 4 : i = 2 \/ i = 3 \/ i = 4
    OBVIOUS
  <2>6. \A i \in 2 .. 4 : ByteFollows(s[i - 1], s[i])
    BY <2>4, <2>5
  <2> QED
    BY <1>4, <2>2, <2>4, <2>6 DEF ByteChain, BreakBytes
<1> QED
  BY <1>1, <1>6, <1>7, <1>8, <1>9, <1>10

-----------------------------------------------------------------------------
(* The keys.  Kinds both keys of which are down are paired, and those of   *)
(* which none is are not.                                                  *)
LEMMA Pairs ==
  ASSUME TypeOK, NEW held
  PROVE  /\ Paired(held) \subseteq Kinds
         /\ \A kind \in Kinds : kind \in Paired(held) <=>
              kind \subseteq held \/ (kind \in paired /\ kind \intersect held # {})
         /\ \A kind \in Kinds : kind \in Paired(held) => kind \intersect held # {}
<1>1. \A kind \in Kinds : kind # {}
  BY KindsApart
<1>2. paired \subseteq Kinds
  BY DEF TypeOK
<1> QED
  BY <1>1, <1>2 DEF Paired

LEMMA LatestEvent ==
  ASSUME TypeOK
  PROVE  Latest \in Event
<1>1. event \in Event /\ wire \in Seq(Event)
  BY DEF TypeOK
<1>2. Len(wire) \in Nat
  BY <1>1, LenProperties
<1>3. CASE Len(wire) = 0
  BY <1>1, <1>3 DEF Latest, Before
<1>4. CASE Len(wire) # 0
  <2>1. Len(wire) \in 1 .. Len(wire) /\ Len(wire) + 1 # 1 /\ Len(wire) + 1 - 1 = Len(wire)
    BY <1>2, <1>4
  <2>2. wire[Len(wire)] \in Event
    BY <1>1, <2>1, ElementOfSeq
  <2> QED
    BY <2>1, <2>2 DEF Latest, Before
<1> QED
  BY <1>3, <1>4

\* A code is sent for what the keys are now.
LEMMA CodeSent ==
  ASSUME TypeOK, WireOK, event' = event,
         NEW e, e \in Event, e.key # 0, NEW before,
         ~ e.press => e.key # Pause,
         e.key = Pause => before \intersect Ctrls = e.held \intersect Ctrls,
         wire' = wire \o SentFor(Code(e.key, e.press, before), e),
         Moved(Latest, e), HeldOK(e),
         e.held \ {Pause} = down' \ {Pause}, e.lock <=> lock', e.paired = paired'
  PROVE  wire' \in Seq(Event) /\ WireOK'
<1>1. PICK s : s = SentFor(Code(e.key, e.press, before), e)
  OBVIOUS
<1>2. Latest.final
  BY DEF WireOK
<1>3. Linked(Latest, s, e)
  BY <1>1, <1>2, SentFollows
<1>4. s \in Seq(Event) /\ s # <<>> /\ Chain(Latest, s)
  BY <1>3 DEF Linked
<1>5. wire' = wire \o s
  BY <1>1
<1>6. /\ wire' \in Seq(Event)
      /\ \A i \in 1 .. Len(wire') : Follows(Before(i)', wire'[i])
      /\ Latest' = s[Len(s)]
  BY <1>4, <1>5, WireSent
<1>7. Latest'.final /\ Same(e, Latest')
  BY <1>3, <1>6 DEF Linked
<1>8. /\ Latest'.held \ {Pause} = down' \ {Pause}
      /\ Latest'.lock <=> lock'
      /\ Latest'.paired = paired'
  BY <1>7 DEF Same
<1> QED
  BY <1>6, <1>7, <1>8 DEF WireOK

\* Keys that move are no news for kinds they are not of.
LEMMA NoPause == \A kind \in Kinds : Pause \notin kind
BY KindsApart DEF Pause

LEMMA LatestKinds ==
  ASSUME WireOK, NEW kind \in Kinds
  PROVE  Latest.held \intersect kind = down \intersect kind
BY NoPause DEF WireOK

LEMMA UnreadKept ==
  ASSUME TypeOK, FlagsOK, OutOK, UNCHANGED <<flags, ext_scancode, event, out>>
  PROVE  FlagsOK' /\ OutOK' /\ (TypedAsMeant => TypedAsMeant')
<1>1. /\ ctrl_status' = ctrl_status /\ shift_status' = shift_status
      /\ alt_status' = alt_status /\ caps_lock_status' = caps_lock_status
      /\ ext_scancode' = ext_scancode /\ event' = event /\ out' = out
  BY DEF flags
<1>2. FlagsOK'
  BY <1>1 DEF FlagsOK, Settled, FlagOK, Flag, Down
<1>3. OutOK'
  BY <1>1 DEF OutOK
<1>4. TypedAsMeant => TypedAsMeant'
  BY <1>1 DEF TypedAsMeant, Typed, BareLetter, Down
<1> QED
  BY <1>2, <1>3, <1>4

LEMMA PressKeeps ==
  ASSUME TypeOK, WireOK, KeysOK, NEW k \in Keys, Press(k)
  PROVE  wire' \in Seq(Event) /\ WireOK' /\ KeysOK' /\ paired' \subseteq Kinds /\ lock' \in BOOLEAN
<1>1. /\ k \notin down /\ down' = down \union {k} /\ last' = k /\ paired' = Paired(down')
      /\ lock' = IF k = caps_lock_make THEN ~ lock ELSE lock
      /\ wire' = wire \o Sent(MakeCode(k, down), k, TRUE, down', lock', paired')
      /\ event' = event
  BY DEF Press
<1>0. down \subseteq Keys /\ lock \in BOOLEAN
  BY DEF TypeOK
<1>2. down \subseteq Keys /\ lock \in BOOLEAN /\ k # 0 /\ down' \subseteq Keys
  <2>1. k # 0
    BY KeyCodes DEF Pause
  <2> QED
    BY <1>0, <1>1, <2>1
<1>3. lock' \in BOOLEAN
  BY <1>1, <1>2
<1>4. /\ paired' \subseteq Kinds
      /\ \A kind \in Kinds : kind \in paired' <=>
           kind \subseteq down' \/ (kind \in paired /\ kind \intersect down' # {})
      /\ \A kind \in Kinds : kind \in paired' => kind \intersect down' # {}
  BY <1>1, Pairs
<1>5. KeysOK'
  BY <1>1, <1>4 DEF KeysOK
<1>6. PICK e : e = [byte |-> 0, final |-> TRUE, key |-> k, press |-> TRUE, held |-> down',
                    lock |-> lock', paired |-> paired']
  OBVIOUS
<1>7. /\ e.key = k /\ e.press = TRUE /\ e.held = down' /\ e.lock = lock' /\ e.paired = paired'
      /\ e \in Event
  BY <1>2, <1>3, <1>4, <1>6 DEF Event
<1>8. wire' = wire \o SentFor(Code(e.key, e.press, down), e)
  BY <1>1, <1>7 DEF SentFor, Code
<1>9. Moved(Latest, e)
  <2>1. \A kind \in Kinds : k \notin kind =>
          /\ down' \intersect kind = Latest.held \intersect kind
          /\ kind \in paired' <=> kind \in Latest.paired
    BY <1>1, <1>4, LatestKinds DEF KeysOK, WireOK
  <2>2. lock' <=> IF k = caps_lock_make THEN ~ Latest.lock ELSE Latest.lock
    BY <1>1, <1>2 DEF WireOK
  <2> QED
    BY <1>7, <2>1, <2>2 DEF Moved
<1>10. HeldOK(e)
  BY <1>1, <1>7 DEF HeldOK
<1>11. k = Pause => down \intersect Ctrls = down' \intersect Ctrls
  <2>1. Ctrls \in Kinds
    BY DEF Kinds
  <2> QED
    BY <1>1, <2>1, NoPause
<1>12. e.lock <=> lock'
  BY <1>7
<1>13. wire' \in Seq(Event) /\ WireOK'
  BY <1>1, <1>2, <1>7, <1>8, <1>9, <1>10, <1>11, <1>12, CodeSent
<1> QED
  BY <1>3, <1>4, <1>5, <1>13

LEMMA RepeatKeeps ==
  ASSUME TypeOK, WireOK, KeysOK, Repeat
  PROVE  wire' \in Seq(Event) /\ WireOK' /\ KeysOK' /\ paired' \subseteq Kinds /\ lock' \in BOOLEAN
<1>1. /\ last \in Repeating /\ last # Pause
      /\ wire' = wire \o Sent(MakeCode(last, down), last, TRUE, down, lock, paired)
      /\ down' = down /\ last' = last /\ lock' = lock /\ paired' = paired /\ event' = event
  BY DEF Repeat, keys
<1>2. last \in Keys /\ last # 0 /\ (NoRepeat => last # caps_lock_make) /\ last \in down
  BY <1>1, KeyCodes, KeyboardAssumption DEF Pause, KeysOK, NoRepeat
<1>3. lock \in BOOLEAN /\ paired \subseteq Kinds /\ down \subseteq Keys
  BY DEF TypeOK
<1>4. KeysOK'
  BY <1>1 DEF KeysOK
<1>5. PICK e : e = [byte |-> 0, final |-> TRUE, key |-> last, press |-> TRUE, held |-> down,
                    lock |-> lock, paired |-> paired]
  OBVIOUS
<1>6. /\ e.key = last /\ e.press = TRUE /\ e.held = down /\ e.lock = lock /\ e.paired = paired
      /\ e \in Event
  BY <1>2, <1>3, <1>5 DEF Event
<1>7. wire' = wire \o SentFor(Code(e.key, e.press, down), e)
  BY <1>1, <1>6 DEF SentFor, Code
<1>8. Moved(Latest, e)
  <2>1. \A kind \in Kinds : down \intersect kind = Latest.held \intersect kind
    BY LatestKinds
  <2>2. paired = Latest.paired /\ (lock <=> Latest.lock)
    BY DEF WireOK
  <2> QED
    BY <1>2, <1>6, <2>1, <2>2 DEF Moved
<1>9. HeldOK(e)
  BY <1>2, <1>6 DEF HeldOK
<1>10. e.lock <=> lock'
  BY <1>1, <1>6
<1>11. wire' \in Seq(Event) /\ WireOK'
  BY <1>1, <1>2, <1>6, <1>7, <1>8, <1>9, <1>10, CodeSent
<1> QED
  BY <1>1, <1>3, <1>4, <1>11

LEMMA ReleaseKeeps ==
  ASSUME TypeOK, WireOK, KeysOK, NEW k \in Keys, Release(k)
  PROVE  wire' \in Seq(Event) /\ WireOK' /\ KeysOK' /\ paired' \subseteq Kinds /\ lock' \in BOOLEAN
<1>1. /\ k \in down /\ down' = down \ {k} /\ last' = (IF last = k THEN 0 ELSE last)
      /\ paired' = Paired(down') /\ lock' = lock /\ event' = event
      /\ wire' = wire \o Sent(BreakCode(k), k, FALSE, down', lock, paired')
  BY DEF Release
<1>2. down \subseteq Keys /\ lock \in BOOLEAN /\ paired \subseteq Kinds
  BY DEF TypeOK
<1>3. down' \subseteq Keys /\ k # 0
  <2>1. k # 0
    BY KeyCodes DEF Pause
  <2> QED
    BY <1>1, <1>2, <2>1
<1>4. /\ paired' \subseteq Kinds
      /\ \A kind \in Kinds : kind \in paired' <=>
           kind \subseteq down' \/ (kind \in paired /\ kind \intersect down' # {})
      /\ \A kind \in Kinds : kind \in paired' => kind \intersect down' # {}
  BY <1>1, Pairs
<1>5. KeysOK'
  BY <1>1, <1>4 DEF KeysOK
<1>6. \A kind \in Kinds : k \notin kind =>
        /\ down' \intersect kind = Latest.held \intersect kind
        /\ kind \in paired' <=> kind \in paired
  <2> SUFFICES ASSUME NEW kind \in Kinds, k \notin kind
               PROVE  /\ down' \intersect kind = Latest.held \intersect kind
                      /\ kind \in paired' <=> kind \in paired
    OBVIOUS
  <2>1. down' \intersect kind = down \intersect kind
    BY <1>1
  <2>2. Latest.held \intersect kind = down \intersect kind
    BY LatestKinds
  <2>3. kind \subseteq down' <=> kind \subseteq down
    BY <1>1
  <2>4. kind \in paired' <=> kind \subseteq down \/ (kind \in paired /\ kind \intersect down # {})
    BY <1>4, <2>1, <2>3
  <2>5. /\ kind \subseteq down => kind \in paired
        /\ kind \in paired => kind \intersect down # {}
    BY DEF KeysOK
  <2> QED
    BY <2>1, <2>2, <2>4, <2>5
<1>7. CASE k = Pause
  <2>1. paired' = paired
    BY <1>2, <1>4, <1>6, <1>7, NoPause
  <2>2. wire' = wire
    <3>1. Pause # PrintScreen
      BY DEF Pause, PrintScreen
    <3>2. BreakCode(k) = <<>>
      BY <1>7, <3>1 DEF BreakCode
    <3>3. Sent(BreakCode(k), k, FALSE, down', lock, paired') = <<>>
      BY <3>2 DEF Sent
    <3>4. wire \in Seq(Event)
      BY DEF TypeOK
    <3> QED
      BY <1>1, <3>3, <3>4, ConcatEmptySeq
  <2>3. down' \ {Pause} = down \ {Pause}
    BY <1>1, <1>7
  <2>4. wire' \in Seq(Event)
    BY <2>2 DEF TypeOK
  <2>5. WireOK'
    BY <1>1, <2>1, <2>2, <2>3 DEF WireOK, Latest, Before
  <2> QED
    BY <1>1, <1>2, <1>4, <1>5, <2>4, <2>5
<1>8. CASE k # Pause
  <2>1. PICK e : e = [byte |-> 0, final |-> TRUE, key |-> k, press |-> FALSE, held |-> down',
                      lock |-> lock, paired |-> paired']
    OBVIOUS
  <2>2. /\ e.key = k /\ e.press = FALSE /\ e.held = down' /\ e.lock = lock /\ e.paired = paired'
        /\ e \in Event
    BY <1>2, <1>3, <1>4, <2>1 DEF Event
  <2>3. wire' = wire \o SentFor(Code(e.key, e.press, down), e)
    BY <1>1, <2>2 DEF SentFor, Code
  <2>4. Moved(Latest, e)
    BY <1>1, <1>6, <2>2 DEF Moved, WireOK
  <2>5. HeldOK(e)
    <3>1. ASSUME NEW kind \in Kinds, k \in kind, kind \notin paired'
          PROVE  down' \intersect kind = {}
      <4>1. kind \in {Shifts, Ctrls, Alts}
        BY KindsApart
      <4>2. \A x, y, z \in kind : x = y \/ x = z \/ y = z
        BY <4>1, KindsApart
      <4>3. ASSUME NEW x \in down' \intersect kind PROVE FALSE
        <5>1. x # k /\ kind \subseteq down
          BY <1>1, <3>1, <4>2, <4>3
        <5>2. kind \in paired
          BY <5>1 DEF KeysOK
        <5> QED
          BY <1>4, <3>1, <4>3, <5>2
      <4> QED
        BY <4>3
    <3> QED
      BY <2>2, <3>1 DEF HeldOK
  <2>6. e.lock <=> lock'
    BY <1>1, <2>2
  <2>7. wire' \in Seq(Event) /\ WireOK'
    BY <1>1, <1>3, <1>8, <2>2, <2>3, <2>4, <2>5, <2>6, CodeSent
  <2> QED
    BY <1>1, <1>2, <1>4, <1>5, <2>7
<1> QED
  BY <1>7, <1>8

\* No code ends in a prefix.
LEMMA FinalByte ==
  ASSUME NEW a, NEW b, ByteFollows(a, b), b.final
  PROVE  b.byte # 224
<1>1. CASE PlainFollows(a, b)
  BY <1>1 DEF PlainFollows, Released
<1>2. CASE PrefixedFollows(a, b)
  BY <1>2 DEF PrefixedFollows, Prefixed, Released
<1>3. CASE PrintScreenFollows(a, b) \/ PauseFollows(a, b) \/ BreakFollows(a, b)
  BY <1>3 DEF PrintScreenFollows, PauseFollows, BreakFollows
<1> QED
  BY <1>1, <1>2, <1>3 DEF ByteFollows

(* The handler: what it has read is what it knows and prints.              *)
LEMMA InterruptKeeps ==
  ASSUME KeyboardInv, Interrupt
  PROVE  KeyboardInv' /\ (NoRepeat => TypedAsMeant')
<1> DEFINE b == wire[1]
<1>1. TypeOK /\ WireOK /\ KeysOK /\ FlagsOK /\ OutOK
  BY DEF KeyboardInv
<1>2. /\ wire # <<>> /\ wire' = Tail(wire) /\ b \in Event /\ Reads(b)
      /\ ext_scancode' = (b.byte = 224)
      /\ UNCHANGED keys
  BY <1>1, InterruptReads
<1> HIDE DEF b
<1>3. event' = b
  BY <1>2 DEF Reads
<1>4. wire' \in Seq(Event) /\ WireOK' /\ Follows(event, b)
  BY <1>1, <1>2, <1>3, WireRead DEF b
<1>5. Bools /\ out \in Outs /\ event \in Event
  BY <1>1 DEF TypeOK, Bools, Outs
<1>6. Ready(b)
  BY <1>1, <1>2, <1>5 DEF Ready, FlagsOK
<1>7. Heard(b)
  BY <1>2, <1>4, <1>6, FollowsHeard
<1>8. KeysOK'
  BY <1>1, <1>2 DEF KeysOK, keys
<1>9. TypeOK'
  <2>1. /\ {ctrl_status', shift_status', alt_status', caps_lock_status'} \subseteq BOOLEAN
        /\ out' \in Outs
    BY <1>5, <1>6, <1>7, HeardTyped
  <2>2. ext_scancode' \in BOOLEAN
    BY <1>2
  <2>3. lock' \in BOOLEAN /\ down' \subseteq Keys /\ paired' \subseteq Kinds
        /\ last' \in Keys \union {0}
    BY <1>1, <1>2 DEF TypeOK, keys
  <2>4. event' \in Event
    BY <1>2, <1>3
  <2> QED
    BY <1>4, <2>1, <2>2, <2>3, <2>4 DEF TypeOK, Outs
<1>10. \A kind \in Kinds : Settled(kind) => FlagOK(kind)
  BY <1>1 DEF FlagsOK
<1>11. ASSUME NEW kind \in Kinds, Settled(kind)' PROVE FlagOK(kind)'
  <2>1. CASE KeyHeard(b)
    BY <1>3, <1>4, <1>6, <1>10, <2>1, KeyFlags
  <2>2. CASE CtrlHeard(b)
    BY <1>3, <1>4, <1>6, <1>10, <1>11, <2>2, CtrlFlags
  <2>3. CASE Ignored(b)
    BY <1>3, <1>4, <1>10, <1>11, <2>3, IgnoredFlags
  <2> QED
    BY <1>7, <2>1, <2>2, <2>3 DEF Heard
<1>12. NoRepeat => (caps_lock_status' <=> b.lock)
  BY <1>1, <1>4, <1>6, <1>7, CapsKept DEF FlagsOK
<1>13. b.final => b.byte # 224
  BY <1>4, FinalByte DEF Follows
<1>14. FlagsOK'
  BY <1>2, <1>3, <1>11, <1>12, <1>13 DEF FlagsOK
<1>15. OutOK'
  BY <1>1, <1>3, <1>4, <1>6, <1>7, OutKept DEF OutOK
<1>16. ASSUME NoRepeat PROVE TypedAsMeant'
  <2>1. caps_lock_status <=> event.lock
    BY <1>1, <1>16 DEF FlagsOK
  <2>2. ASSUME Typed', Printing(b.key), ~ BareLetter', Shifts \notin b.paired
        PROVE  out' = Meant(b.key, Down(Shifts)', b.lock)
    <3>1. b.final /\ b.press
      BY <1>3, <2>2 DEF Typed
    <3>2. Symbol(b.key) \/ Down(Shifts)' \/ b.lock
      BY <1>3, <2>2 DEF BareLetter
    <3> QED
      BY <1>3, <1>4, <1>6, <1>7, <1>10, <1>16, <2>1, <2>2, <3>1, <3>2, PrintsMeant
  <2>3. ~ Printing(b.key) => out' \in {"nothing", "unknow key"}
    BY <1>3, <1>15 DEF OutOK, Quiet
  <2> QED
    BY <1>3, <2>2, <2>3 DEF TypedAsMeant
<1> QED
  BY <1>4, <1>8, <1>9, <1>14, <1>15, <1>16 DEF KeyboardInv

-----------------------------------------------------------------------------
LEMMA KeyboardInit == Init => KeyboardInv /\ TypedAsMeant
<1> SUFFICES ASSUME Init PROVE KeyboardInv /\ TypedAsMeant
  OBVIOUS
<1>1. /\ ctrl_status = FALSE /\ shift_status = FALSE /\ alt_status = FALSE
      /\ caps_lock_status = FALSE /\ ext_scancode = FALSE
      /\ down = {} /\ last = 0 /\ lock = FALSE /\ paired = {} /\ wire = <<>> /\ out = "nothing"
      /\ event = [byte |-> 0, final |-> TRUE, key |-> 0, press |-> FALSE,
                  held |-> {}, lock |-> FALSE, paired |-> {}]
  BY DEF Init
<1>2. /\ event \in Event /\ event.byte = 0 /\ event.final = TRUE /\ event.key = 0
      /\ event.press = FALSE /\ event.held = {} /\ event.lock = FALSE /\ event.paired = {}
  BY <1>1 DEF Event
<1>3. wire \in Seq(Event) /\ Len(wire) = 0
  BY <1>1
<1>4. Quiet(out) /\ out \in Outs
  BY <1>1, QuietOuts DEF Quiet
<1>5. TypeOK
  BY <1>1, <1>2, <1>3, <1>4 DEF TypeOK, Outs
<1>6. WireOK
  <2>1. Latest = event
    BY <1>3 DEF Latest, Before
  <2> QED
    BY <1>1, <1>2, <1>3, <2>1 DEF WireOK
<1>7. KeysOK
  <2>1. \A kind \in Kinds : kind # {}
    BY KindsApart
  <2> QED
    BY <1>1, <2>1 DEF KeysOK
<1>8. FlagsOK
  BY <1>1, <1>2 DEF FlagsOK, FlagOK, Flag, Down
<1>9. ~ Printing(event.key)
  BY <1>2, PrintingKeys
<1>10. TypedAsMeant
  BY <1>2, <1>4, <1>9 DEF TypedAsMeant, Typed, Quiet
<1> QED
  BY <1>4, <1>5, <1>6, <1>7, <1>8, <1>10 DEF KeyboardInv, OutOK

LEMMA SendTyped ==
  ASSUME TypeOK, wire' \in Seq(Event), paired' \subseteq Kinds, lock' \in BOOLEAN,
         down' \subseteq Keys, last' \in Keys \union {0},
         UNCHANGED <<flags, ext_scancode, event, out>>
  PROVE  TypeOK'
BY DEF TypeOK, flags

LEMMA KeyboardNext ==
  ASSUME KeyboardInv, NoRepeat => TypedAsMeant, [Next]_vars
  PROVE  KeyboardInv' /\ (NoRepeat => TypedAsMeant')
<1>1. TypeOK /\ WireOK /\ KeysOK /\ FlagsOK /\ OutOK
  BY DEF KeyboardInv
<1>2. down \subseteq Keys /\ last \in Keys \union {0} /\ Repeating \subseteq Keys
  <2>1. down \subseteq Keys /\ last \in Keys \union {0}
    BY <1>1 DEF TypeOK
  <2>2. Repeating \subseteq Keys
    BY KeyboardAssumption
  <2> QED
    BY <2>1, <2>2
<1>3. ASSUME UNCHANGED <<flags, ext_scancode, event, out>>,
             wire' \in Seq(Event), WireOK', KeysOK', paired' \subseteq Kinds, lock' \in BOOLEAN,
             down' \subseteq Keys, last' \in Keys \union {0}
      PROVE  KeyboardInv' /\ (NoRepeat => TypedAsMeant')
  <2>1. TypeOK'
    BY <1>1, <1>3, SendTyped
  <2>2. FlagsOK' /\ OutOK' /\ (TypedAsMeant => TypedAsMeant')
    BY <1>1, <1>3, UnreadKept
  <2> QED
    BY <1>3, <2>1, <2>2 DEF KeyboardInv
<1>4. ASSUME NEW k \in Keys, Press(k) PROVE KeyboardInv' /\ (NoRepeat => TypedAsMeant')
  <2>1. wire' \in Seq(Event) /\ WireOK' /\ KeysOK' /\ paired' \subseteq Kinds /\ lock' \in BOOLEAN
    BY <1>1, <1>4, PressKeeps
  <2>2. UNCHANGED <<flags, ext_scancode, event, out>> /\ down' = down \union {k} /\ last' = k
    BY <1>4 DEF Press
  <2> QED
    BY <1>2, <1>3, <2>1, <2>2
<1>5. ASSUME NEW k \in Keys, Release(k) PROVE KeyboardInv' /\ (NoRepeat => TypedAsMeant')
  <2>1. wire' \in Seq(Event) /\ WireOK' /\ KeysOK' /\ paired' \subseteq Kinds /\ lock' \in BOOLEAN
    BY <1>1, <1>5, ReleaseKeeps
  <2>2. /\ UNCHANGED <<flags, ext_scancode, event, out>> /\ down' = down \ {k}
        /\ last' = IF last = k THEN 0 ELSE last
    BY <1>5 DEF Release
  <2> QED
    BY <1>2, <1>3, <2>1, <2>2
<1>6. CASE Repeat
  <2>1. wire' \in Seq(Event) /\ WireOK' /\ KeysOK' /\ paired' \subseteq Kinds /\ lock' \in BOOLEAN
    BY <1>1, <1>6, RepeatKeeps
  <2>2. UNCHANGED <<flags, ext_scancode, event, out>> /\ down' = down /\ last' = last
    BY <1>6 DEF Repeat, keys
  <2> QED
    BY <1>2, <1>3, <2>1, <2>2
<1>7. CASE Interrupt
  BY <1>7, InterruptKeeps
<1>8. CASE UNCHANGED vars
  <2>1. /\ UNCHANGED <<flags, ext_scancode, event, out>>
        /\ wire' = wire /\ down' = down /\ last' = last /\ lock' = lock /\ paired' = paired
    BY <1>8 DEF vars, keys
  <2>2. WireOK'
    BY <1>1, <2>1 DEF WireOK, Latest, Before
  <2>3. KeysOK'
    BY <1>1, <2>1 DEF KeysOK
  <2>4. wire' \in Seq(Event) /\ paired' \subseteq Kinds /\ lock' \in BOOLEAN
    BY <1>1, <2>1 DEF TypeOK
  <2> QED
    BY <1>2, <1>3, <2>1, <2>2, <2>3, <2>4
<1> QED
  BY <1>4, <1>5, <1>6, <1>7, <1>8 DEF Next

(* After every complete code each flag of the handler is what the keys of  *)
(* its kind are, for any keys and any number of bytes that wait.           *)
THEOREM FlagsTrue == Spec => [](TypeOK /\ FlagsFollowKeys)
<1>1. Init => KeyboardInv /\ (NoRepeat => TypedAsMeant)
  BY KeyboardInit
<1>2. KeyboardInv /\ (NoRepeat => TypedAsMeant) /\ [Next]_vars =>
        KeyboardInv' /\ (NoRepeat => TypedAsMeant)'
  BY KeyboardNext
<1>3. KeyboardInv => TypeOK /\ FlagsFollowKeys
  BY DEF KeyboardInv, FlagsOK, Settled, FlagOK, FlagsFollowKeys
<1> QED
  BY <1>1, <1>2, <1>3, PTL DEF Spec

(* With caps lock, whose key must not be held long enough to repeat.       *)
THEOREM FlagsAlwaysRight ==
  ASSUME caps_lock_make \notin Repeating
  PROVE  Spec => []FlagsRight
<1>1. Init => KeyboardInv /\ (NoRepeat => TypedAsMeant)
  BY KeyboardInit
<1>2. KeyboardInv /\ (NoRepeat => TypedAsMeant) /\ [Next]_vars =>
        KeyboardInv' /\ (NoRepeat => TypedAsMeant)'
  BY KeyboardNext
<1>3. KeyboardInv => FlagsRight
  <2> SUFFICES ASSUME KeyboardInv PROVE FlagsRight
    OBVIOUS
  <2>1. FlagsFollowKeys
    BY DEF KeyboardInv, FlagsOK, Settled, FlagOK, FlagsFollowKeys
  <2>2. caps_lock_status \in BOOLEAN /\ event \in Event
    BY DEF KeyboardInv, TypeOK
  <2>3. CapsFollowsPresses
    BY <2>2 DEF KeyboardInv, FlagsOK, NoRepeat, CapsFollowsPresses, Event
  <2> QED
    BY <2>1, <2>3 DEF FlagsRight, KeyboardInv
<1> QED
  BY <1>1, <1>2, <1>3, PTL DEF Spec

(* A printing key prints the character it stands for with shift and caps   *)
(* lock as they were, if caps lock does not repeat: except a letter with   *)
(* neither (keyboard.c:149) and while a shift key is down after both were. *)
(* No other key prints a character.                                        *)
THEOREM TypesAsMeant ==
  ASSUME caps_lock_make \notin Repeating
  PROVE  Spec => []TypedAsMeant
<1>1. Init => KeyboardInv /\ (NoRepeat => TypedAsMeant)
  BY KeyboardInit
<1>2. KeyboardInv /\ (NoRepeat => TypedAsMeant) /\ [Next]_vars =>
        KeyboardInv' /\ (NoRepeat => TypedAsMeant)'
  BY KeyboardNext
<1>3. (NoRepeat => TypedAsMeant) => TypedAsMeant
  BY DEF NoRepeat
<1> QED
  BY <1>1, <1>2, <1>3, PTL DEF Spec

=============================================================================
