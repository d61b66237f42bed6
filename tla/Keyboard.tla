------------------------------ MODULE Keyboard ------------------------------
(***************************************************************************)
(* The keyboard handler of device/keyboard.c against the keys that are     *)
(* really down.  A key sends a make code when it is pressed and while it   *)
(* is held (the last one pressed only), and a break code when it is        *)
(* released.  The handler gets one byte per interrupt and keeps what it    *)
(* knows of the keys in five static flags.                                 *)
(***************************************************************************)
EXTENDS Integers, SequencesExt

CONSTANTS
  Keys,       \* keys there are
  Repeating,  \* those held long enough to repeat
  Backlog     \* bytes that may be waiting when a key sends another code

shift_l_make == \h2A
shift_r_make == \h36
alt_l_make   == \h38
alt_r_make   == \hE038
ctrl_l_make  == \h1D
ctrl_r_make  == \hE01D
caps_lock_make == \h3A

\* Two keys that send several codes.
PrintScreen == \hE037
Pause == \hE11D

Shifts == {shift_l_make, shift_r_make}
Ctrls  == {ctrl_l_make, ctrl_r_make}
Alts   == {alt_l_make, alt_r_make}
Kinds  == {Shifts, Ctrls, Alts}

\* No key has the code whose break code would end in a second prefix.
ASSUME KeyboardAssumption ==
  /\ Keys \subseteq (1 .. \h58 \union \hE001 .. \hE07F \union {Pause}) \ {\hE060}
  /\ Repeating \subseteq Keys /\ Backlog \in Nat

VARIABLES
  ctrl_status, shift_status, alt_status, caps_lock_status, ext_scancode,
  down,       \* keys that are down
  last,       \* the one pressed last, 0 when it has been released
  lock,       \* caps lock has been pressed an odd number of times
  paired,     \* kinds both keys of which were down since none was
  wire,       \* bytes sent, not yet read
  event,      \* history: what the byte read last was sent for
  out         \* and what the handler has printed for it

flags == <<ctrl_status, shift_status, alt_status, caps_lock_status>>
keys  == <<down, last, lock, paired>>
vars  == <<flags, ext_scancode, keys, wire, event, out>>

-----------------------------------------------------------------------------
(* What the keys send.                                                     *)
Bytes(k) == IF k >= \hE000 THEN <<\hE0, k % 256>> ELSE <<k>>

MakeCode(k, held) ==
  IF k = PrintScreen THEN <<\hE0, \h2A, \hE0, \h37>>
  ELSE IF k = Pause
  THEN IF held \intersect Ctrls = {} THEN <<\hE1, \h1D, \h45, \hE1, \h9D, \hC5>>
       ELSE <<\hE0, \h46, \hE0, \hC6>>
  ELSE Bytes(k)

BreakCode(k) ==
  IF k = PrintScreen THEN <<\hE0, \hB7, \hE0, \hAA>>
  ELSE IF k = Pause THEN <<>>
  ELSE [i \in DOMAIN Bytes(k) |-> IF i = Len(Bytes(k)) THEN Bytes(k)[i] + 128 ELSE Bytes(k)[i]]

\* A byte, what it was sent for, and whether the code ends with it.
Sent(codes, k, press, held, lk, pr) ==
  [i \in DOMAIN codes |-> [byte |-> codes[i], final |-> i = Len(codes), key |-> k,
                           press |-> press, held |-> held, lock |-> lk, paired |-> pr]]

Paired(held) == {kind \in Kinds : kind \subseteq held}
                  \union {kind \in paired : kind \intersect held # {}}

Init ==
  /\ ctrl_status = FALSE /\ shift_status = FALSE /\ alt_status = FALSE
  /\ caps_lock_status = FALSE /\ ext_scancode = FALSE
  /\ down = {} /\ last = 0 /\ lock = FALSE /\ paired = {}
  /\ wire = <<>>
  /\ event = [byte |-> 0, final |-> TRUE, key |-> 0, press |-> FALSE,
              held |-> {}, lock |-> FALSE, paired |-> {}]
  /\ out = "nothing"

Press(k) ==
  /\ k \in Keys \ down /\ Len(wire) <= Backlog
  /\ down' = down \union {k}
  /\ last' = k
  /\ paired' = Paired(down')
  /\ lock' = IF k = caps_lock_make THEN ~lock ELSE lock
  /\ wire' = wire \o Sent(MakeCode(k, down), k, TRUE, down', lock', paired')
  /\ UNCHANGED <<flags, ext_scancode, event, out>>

Release(k) ==
  /\ k \in down /\ Len(wire) <= Backlog
  /\ down' = down \ {k}
  /\ last' = IF last = k THEN 0 ELSE last
  /\ paired' = Paired(down')
  /\ wire' = wire \o Sent(BreakCode(k), k, FALSE, down', lock, paired')
  /\ UNCHANGED <<flags, ext_scancode, lock, event, out>>

Repeat ==
  /\ last \in Repeating \ {Pause} /\ Len(wire) <= Backlog
  /\ wire' = wire \o Sent(MakeCode(last, down), last, TRUE, down, lock, paired)
  /\ UNCHANGED <<flags, ext_scancode, keys, event, out>>

-----------------------------------------------------------------------------
(* keymap: the characters without and with shift; "" is 0.                 *)
Plain == <<
  "ESC", "1", "2", "3", "4", "5", "6", "7", "8", "9", "0", "-", "=", "BS",
  "TAB", "q", "w", "e", "r", "t", "y", "u", "i", "o", "p", "[", "]", "CR",
  "", "a", "s", "d", "f", "g", "h", "j", "k", "l", ";", "'", "GRAVE",
  "", "\\", "z", "x", "c", "v", "b", "n", "m", ",", ".", "/",
  "", "*", "", " ", "">>

Shifted == <<
  "ESC", "!", "@", "#", "$", "%", "^", "&", "*", "(", ")", "_", "+", "BS",
  "TAB", "Q", "W", "E", "R", "T", "Y", "U", "I", "O", "P", "{", "}", "CR",
  "", "A", "S", "D", "F", "G", "H", "J", "K", "L", ":", "\"", "TILDE",
  "", "|", "Z", "X", "C", "V", "B", "N", "M", "<", ">", "?",
  "", "*", "", " ", "">>

\* The codes whose character does not depend on caps lock.
Symbol(code) ==
  \/ code < \h0E
  \/ code \in {\h29, \h1A, \h1B, \h2B, \h27, \h28, \h33, \h34, \h35}

(* keymap's second column is taken.  (Mutated: caps lock counts for        *)
(* symbols as well.)                                                       *)
LetterColumn == ~shift_status \/ ~caps_lock_status
ColumnCaps(code) == LetterColumn
Column(code) == IF Symbol(code) THEN shift_status ELSE LetterColumn

-----------------------------------------------------------------------------
(* intr_keyboard_handler.  Scan is scancode with the prefix merged into    *)
(* it.                                                                     *)
Scan(byte) == IF ext_scancode THEN \hE000 + byte ELSE byte

Known(scan) == scan \in 1 .. \h3A \union {alt_r_make, ctrl_r_make}

\* What has been printed since the first byte of the code.
PutChar(c) == out' = IF c # "nothing" THEN c ELSE IF event.final THEN "nothing" ELSE out

Prefix(byte) ==
  /\ byte = \hE0
  /\ ext_scancode' = TRUE
  /\ PutChar("nothing")
  /\ UNCHANGED flags

(* A break code.  (Mutated: only that of the left key clears the flag.)    *)
BreakClears(make, ctrls) ==
  /\ ctrl_status' = (ctrl_status /\ make \notin ctrls)
  /\ shift_status' = (shift_status /\ make \notin Shifts)
  /\ alt_status' = (alt_status /\ make \notin Alts)
  /\ UNCHANGED caps_lock_status

BreakLeft(make) == BreakClears(make, {ctrl_l_make})

Break(make) == BreakClears(make, Ctrls)

(* A control key; index has lost the prefix, which is why the right keys   *)
(* are found.  (Mutated: caps lock is set, not toggled.)                   *)
SetFlags(index, caps) ==
  /\ ctrl_status' = (ctrl_status \/ index \in Ctrls)
  /\ shift_status' = (shift_status \/ index \in Shifts)
  /\ alt_status' = (alt_status \/ index \in Alts)
  /\ caps_lock_status' = IF index = caps_lock_make THEN caps ELSE caps_lock_status

ControlStays(index) == SetFlags(index, TRUE)

Control(index) == SetFlags(index, ~caps_lock_status)

(* A make code.  (Mutated: 0 is printed as well.)                          *)
Accept(scan, invisible) ==
  LET index == scan % 256
      char  == IF Column(scan) THEN Shifted[index] ELSE Plain[index]
  IN  IF ~Known(scan) THEN PutChar("unknow key") /\ UNCHANGED flags
      ELSE IF char \notin invisible THEN PutChar(char) /\ UNCHANGED flags
      ELSE PutChar("nothing") /\ Control(index)

MakeUntested(scan) == Accept(scan, {})

Make(scan) == Accept(scan, {""})

Interrupt ==
  /\ wire # <<>>
  /\ LET byte == Head(wire).byte
         scan == Scan(byte)
     IN  \/ Prefix(byte)
         \/ /\ byte # \hE0
            /\ ext_scancode' = FALSE
            /\ IF byte >= 128 THEN Break(scan - 128) /\ PutChar("nothing") ELSE Make(scan)
  /\ event' = Head(wire)
  /\ wire' = Tail(wire)
  /\ UNCHANGED keys

Next == (\E k \in Keys : Press(k) \/ Release(k)) \/ Repeat \/ Interrupt

Spec == Init /\ [][Next]_vars

-----------------------------------------------------------------------------
Event == [byte : 0 .. 255, final : BOOLEAN, key : Keys \union {0}, press : BOOLEAN,
          held : SUBSET Keys, lock : BOOLEAN, paired : SUBSET Kinds]

TypeOK ==
  /\ {ctrl_status, shift_status, alt_status, caps_lock_status, ext_scancode, lock}
       \subseteq BOOLEAN
  /\ down \subseteq Keys /\ paired \subseteq Kinds /\ last \in Keys \union {0}
  /\ event \in Event /\ wire \in Seq(Event)
  /\ out \in (Range(Plain) \union Range(Shifted) \union {"nothing", "unknow key"}) \ {""}

\* The keys the handler has heard are down.
Down(group) == event.held \intersect group # {}

Flag(kind) ==
  \/ kind = Shifts /\ shift_status
  \/ kind = Ctrls /\ ctrl_status
  \/ kind = Alts /\ alt_status

(* "These record whether some special keys are pressed" (keyboard.c:4):    *)
(* after every complete code each flag says whether a key of its kind is   *)
(* down, however keys are held, repeated and let go over each other, and   *)
(* the codes of Pause and PrintScreen, which contain those of ctrl and     *)
(* shift, change nothing.  A flag that two held keys share may be clear    *)
(* while one of them is still down, but is never left set.                 *)
FlagsFollowKeys ==
  event.final =>
    \A kind \in Kinds : /\ Flag(kind) => Down(kind)
                        /\ kind \notin event.paired => (Down(kind) => Flag(kind))

(* "When it is pressed again the state is inverted" (keyboard.c:170): caps *)
(* lock is on when its key, not held long enough to repeat, has been       *)
(* pressed an odd number of times.                                         *)
CapsFollowsPresses == event.final => caps_lock_status = event.lock

(* The static flags of the handler are what the keys say.                  *)
FlagsRight == TypeOK /\ FlagsFollowKeys /\ CapsFollowsPresses

(* The character a key stands for: "for letters caps is the same as shift, *)
(* for others it is not" (keyboard.c:132), columns "not with shift" and    *)
(* "with shift" (keymap).                                                  *)
Meant(k, sh, caps) ==
  LET second == IF Symbol(k) THEN sh ELSE sh # caps IN
  IF k \notin DOMAIN Plain THEN "unknow key" ELSE IF second THEN Shifted[k] ELSE Plain[k]

Typed == event.final /\ event.press
Printing(k) == k \in DOMAIN Plain /\ Plain[k] # ""

\* With neither shift nor caps lock.
BareLetter == ~Symbol(event.key) /\ ~Down(Shifts) /\ ~event.lock

(* Every key prints the character it stands for with the shift keys and    *)
(* caps lock as they were when it was pressed, except for letters with     *)
(* neither, and unless the shift keys were held together; a key that is    *)
(* none of the main block never prints a character, and one that is a      *)
(* modifier prints nothing.                                                *)
TypedAsMeant ==
  /\ Typed /\ Printing(event.key) /\ ~BareLetter /\ Shifts \notin event.paired =>
       out = Meant(event.key, Down(Shifts), event.lock)
  /\ event.final /\ ~Printing(event.key) => out \in {"nothing", "unknow key"}

=============================================================================
