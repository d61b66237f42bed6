------------------------------ MODULE Strings ------------------------------
(***************************************************************************)
(* lib/string.c on a memory of Size bytes with Values values each.  Every  *)
(* loop is a recursive function over its passes; char is signed, uint8_t   *)
(* is not.  A function that runs off the memory has no result: Off.        *)
(* Arguments are addresses of this memory, none is NULL: the assertions of *)
(* the functions that they are not are left out.  Memory, Process and Boot *)
(* have the calls that give memset a NULL.                                 *)
(***************************************************************************)
EXTENDS Integers, FiniteSetsExt

CONSTANTS Size, Values, Off

Addr == 0 .. Size - 1
Byte == 0 .. Values - 1
Contents == [Addr -> Byte]
NULL == -1

ASSUME StringsAssumption ==
  /\ {Size, Values} \subseteq Nat \ {0} /\ Values % 2 = 0
  /\ Off \notin Addr \union Contents

\* A byte as a char.
char(b) == IF b < Values \div 2 THEN b ELSE b - Values

Order(x, y) == IF x > y THEN 1 ELSE IF x < y THEN -1 ELSE 0

-----------------------------------------------------------------------------
memset(m, dst, value, size) ==
  LET set[k \in 0 .. size] == IF k = 0 THEN m ELSE [set[k - 1] EXCEPT ![dst + k - 1] = value]
  IN  set[size]

\* The memory after each of n passes of *dst++ = *src++.
Copied(m, dst, src, n) ==
  LET copy[k \in 0 .. n] ==
        IF k = 0 THEN m ELSE [copy[k - 1] EXCEPT ![dst + k - 1] = copy[k - 1][src + k - 1]]
  IN  copy

memcpy(m, dst, src, size) == Copied(m, dst, src, size)[size]

memcmp(m, a, b, size) ==
  LET from[k \in 0 .. size] ==
        IF k = size THEN 0
        ELSE IF m[a + k] # m[b + k] THEN Order(char(m[a + k]), char(m[b + k]))
        ELSE from[k + 1]
  IN  from[0]

\* Where p is when while (*p) ends.
Behind(m, str) ==
  LET stop[p \in 0 .. Size] == IF p = Size THEN Off ELSE IF m[p] = 0 THEN p ELSE stop[p + 1]
  IN  stop[str]

strlen(m, str) == Behind(m, str) - str

\* while ((*dst++ = *src++))
Copy(m, dst, src) ==
  LET room == Min({Size - dst, Size - src})
      copy == Copied(m, dst, src, room)
      stop[k \in 0 .. room] ==
        IF k = room THEN Off ELSE IF copy[k][src + k] = 0 THEN copy[k + 1] ELSE stop[k + 1]
  IN  stop[0]

strcpy(m, dst, src) == Copy(m, dst, src)

(* (Mutated: without --p1 the copy begins behind the terminator; the end   *)
(* of a is not tested.)                                                    *)
strcat_behind(m, dst, src) == Copy(m, Behind(m, dst) + 1, src)
strcat(m, dst, src) == Copy(m, Behind(m, dst), src)

CompareWhile(m, a, b, end) ==
  LET room == Min({Size - a, Size - b})
      from[k \in 0 .. room] ==
        IF k = room THEN Off
        ELSE IF m[a + k] # end /\ m[a + k] = m[b + k] THEN from[k + 1]
        ELSE Order(char(m[a + k]), char(m[b + k]))
  IN  from[0]

strcmp_on(m, a, b) == CompareWhile(m, a, b, -1)

strcmp(m, a, b) == CompareWhile(m, a, b, 0)

\* The addresses of the characters of str for which *p == ch.
strchr(m, str, ch) ==
  LET from[p \in 0 .. Size] ==
        IF p = Size THEN Off
        ELSE IF m[p] = 0 THEN NULL ELSE IF char(m[p]) = ch THEN p ELSE from[p + 1]
  IN  from[str]

strrchr(m, str, ch) ==
  LET last_char[p \in str .. Behind(m, str)] ==
        IF p = str THEN NULL ELSE IF char(m[p - 1]) = ch THEN p - 1 ELSE last_char[p - 1]
  IN  last_char[Behind(m, str)]

(* (Mutated: the first character is skipped.)                              *)
CountFrom(m, first, end, ch) ==
  LET ch_cnt[p \in first .. end] ==
        IF p = first THEN 0 ELSE ch_cnt[p - 1] + IF char(m[p - 1]) = ch THEN 1 ELSE 0
  IN  ch_cnt[end]

strchrs_next(m, str, ch) == IF m[str] = 0 THEN 0 ELSE CountFrom(m, str + 1, Behind(m, str), ch)

strchrs(m, str, ch) == CountFrom(m, str, Behind(m, str), ch)

=============================================================================
