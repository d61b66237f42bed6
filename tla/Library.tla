------------------------------ MODULE Library ------------------------------
(***************************************************************************)
(* The library functions on a small memory, whatever is in it: strings     *)
(* anywhere, and a bitmap in all of its bytes but the last, whose first    *)
(* bit is the one behind the bitmap.  The callers may call whatever writes *)
(* to that memory, as long as strings end in it and blocks fit.            *)
(***************************************************************************)
EXTENDS Bitmap, Strings

CONSTANT ByteBits      \* bits in a byte

ASSUME LibraryAssumption == ByteBits \in Nat \ {0} /\ 2 ^ ByteBits = Values

VARIABLE mem

Length == (Size - 1) * ByteBits       \* of the bitmap

IsSet(i) == (mem[i \div ByteBits] \div 2 ^ (i % ByteBits)) % 2 = 1
SetBits == {i \in 0 .. Length : IsSet(i)}

LibraryInit == mem = [a \in Addr |-> 0]

Result(m) == m # Off /\ mem' = m

Set(dst, value, size) == mem' = memset(mem, dst, value, size)
Move(dst, src, size) == mem' = memcpy(mem, dst, src, size)

\* A string ends inside the memory.
Terminated(str) == \E i \in str .. Size - 1 : mem[i] = 0

StrCopy(dst, src) == Terminated(src) /\ Result(strcpy(mem, dst, src))
StrCat(dst, src) == Terminated(dst) /\ Terminated(src) /\ Result(strcat(mem, dst, src))

BitmapSet(i, value) ==
  /\ \E b \in Byte : mem' = [mem EXCEPT ![i \div ByteBits] = b]
  /\ SetBits' = bitmap_set(SetBits, i, value)

LibraryNext ==
  \/ \E dst, src \in Addr :
       \/ \E value \in Byte, size \in 0 .. Size - dst : Set(dst, value, size)
       \/ \E size \in 0 .. Min({Size - dst, Size - src}) : Move(dst, src, size)
       \/ StrCopy(dst, src) \/ StrCat(dst, src)
  \/ \E i \in 0 .. Length - 1, value \in {0, 1} : BitmapSet(i, value)

LibrarySpec == LibraryInit /\ [][LibraryNext]_mem

-----------------------------------------------------------------------------
(* Reference definitions, by what is in memory.                            *)
End(str) == Min({i \in str .. Size - 1 : mem[i] = 0})
Text(str) == str .. End(str) - 1
Strs == {s \in Addr : Terminated(s)}

\* mem with size bytes from src put at dst, all at once.
Blit(dst, src, size) ==
  [a \in Addr |-> IF a \in dst .. dst + size - 1 THEN mem[a - dst + src] ELSE mem[a]]

(* memcpy copies what was at src when it was called, and touches nothing   *)
(* else, unless dst is inside the source behind its beginning; strcpy and  *)
(* strcat copy a string with its end under the same condition, and strcat  *)
(* leaves the string it appends to in front of it.  memset sets what it is *)
(* told to.                                                                *)
CopiesExactly ==
  /\ \A dst, src \in Addr : \A size \in 0 .. Min({Size - dst, Size - src}) :
       dst <= src \/ dst >= src + size =>
         memcpy(mem, dst, src, size) = Blit(dst, src, size)
  /\ \A dst \in Addr, src \in Strs :
       LET n == End(src) - src + 1 IN
       dst + n <= Size /\ (dst <= src \/ dst >= src + n) =>
         strcpy(mem, dst, src) = Blit(dst, src, n)
  /\ \A dst \in Strs, src \in Strs :
       LET n == End(src) - src + 1 IN
       End(dst) + n <= Size /\ (End(dst) < src \/ End(dst) >= src + n) =>
         strcat(mem, dst, src) = Blit(End(dst), src, n)
  /\ \A dst \in Addr, value \in Byte : \A size \in 0 .. Size - dst :
       \A a \in Addr :
         memset(mem, dst, value, size)[a] = IF a - dst \in 0 .. size - 1 THEN value ELSE mem[a]
(* "Returns 1 if a is greater than b, 0 if they are equal, otherwise -1"   *)
(* (string.c:66, string.c:24): the first place where two strings, or two   *)
(* blocks, differ decides, by the order of chars, and a string is less     *)
(* than one it begins.                                                     *)
ComparesInOrder ==
  /\ \A a, b \in Strs :
       LET differ == {k \in 0 .. Min({End(a) - a, End(b) - b}) : mem[a + k] # mem[b + k]} IN
       strcmp(mem, a, b) =
         IF differ = {} THEN 0 ELSE Order(char(mem[a + Min(differ)]), char(mem[b + Min(differ)]))
  /\ \A a, b \in Addr : \A size \in 0 .. Min({Size - a, Size - b}) :
       LET differ == {k \in 0 .. size - 1 : mem[a + k] # mem[b + k]} IN
       memcmp(mem, a, b, size) =
         IF differ = {} THEN 0 ELSE Order(char(mem[a + Min(differ)]), char(mem[b + Min(differ)]))

(* strlen, strchr, strrchr and strchrs agree on the same string: its       *)
(* length, its first and last ch and how many.  Characters from 128 on are *)
(* never found: ch is a uint8_t and *str a char, which is signed.          *)
FindsAscii ==
  \A str \in Strs :
    /\ strlen(mem, str) = Cardinality(Text(str))
    /\ \A ch \in Byte \ {0} :
         LET hits == {i \in Text(str) : ch < Values \div 2 /\ mem[i] = ch} IN
         /\ strchr(mem, str, ch) = IF hits = {} THEN NULL ELSE Min(hits)
         /\ strrchr(mem, str, ch) = IF hits = {} THEN NULL ELSE Max(hits)
         /\ strchrs(mem, str, ch) = Cardinality(hits)

(* What the functions that only read a string answer.                      *)
AnswersRight == ComparesInOrder /\ FindsAscii

-----------------------------------------------------------------------------
(* Where cnt consecutive clear bits begin, inside the bitmap.              *)
Starts(cnt) == {i \in 0 .. Length - cnt : i .. i + cnt - 1 \subseteq Clear(SetBits, Length)}

(* bitmap_scan finds the leftmost run of clear bits whenever the bitmap    *)
(* has one, whatever the bit behind the end is: starting at the first      *)
(* clear bit and restarting the count at set bits lose nothing.            *)
FindsLeftmost ==
  \A cnt \in 1 .. Length :
    Starts(cnt) # {} => bitmap_scan(SetBits, Length, cnt) = Min(Starts(cnt))

(* When there is no such run, the answer is -1 or a run whose last bit is  *)
(* the one behind the end, and then that bit is 0: bitmap_scan never       *)
(* answers with a bit that is taken.                                       *)
NeverTaken ==
  \A cnt \in 1 .. Length : LET i == bitmap_scan(SetBits, Length, cnt) IN
    i # -1 => /\ i .. i + cnt - 1 \subseteq 0 .. Length
              /\ i .. i + cnt - 1 \intersect SetBits = {}

(* What bitmap_scan answers, with a run of clear bits and without one.     *)
ScanRight == FindsLeftmost /\ NeverTaken

=============================================================================
