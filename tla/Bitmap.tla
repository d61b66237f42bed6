------------------------------- MODULE Bitmap -------------------------------
(***************************************************************************)
(* The bitmaps of lib/kernel/bitmap.c.  A bitmap is the set of the indices *)
(* of its 1 bits; its length is a number n of bits.  Bit n, the first one  *)
(* of the byte behind the bitmap, is part of the set as well, because      *)
(* bitmap_scan reads it and bitmap_set may be told to write it.  Bits are  *)
(* numbered as the code does, 8 * byte + bit.                              *)
(***************************************************************************)
EXTENDS Integers, FiniteSetsExt

bitmap_set(bits, i, value) == IF value = 1 THEN bits \union {i} ELSE bits \ {i}

\* The clear bits of a bitmap of n bits.
Clear(bits, n) == (0 .. n - 1) \ bits

(* `count' after bit i, from what it was before.  (Mutated: no reset.)     *)
CountOn(bits, i, count) == IF i \in bits THEN count ELSE count + 1

Count(bits, i, count) == IF i \in bits THEN 0 ELSE count + 1

(***************************************************************************)
(* The first of cnt > 0 consecutive clear bits, or -1, when bits up to     *)
(* `last' are looked at.  The search starts at the first clear bit, and    *)
(* run[i] is `count' after bit i.                                          *)
(***************************************************************************)
ClearRun(bits, n, cnt, last) ==
  LET first == Min(Clear(bits, n))
      run[i \in first .. last] == IF i = first THEN 1 ELSE Count(bits, i, run[i - 1])
      ends == {i \in first + 1 .. last : run[i] = cnt}
  IN  IF Clear(bits, n) = {} THEN -1
      ELSE IF cnt = 1 THEN first
      ELSE IF ends = {} THEN -1
      ELSE Min(ends) - cnt + 1

(* The loop over bit_left = n - first bits begins with bit first + 1, so   *)
(* it ends with bit n.  (Mutated: two bits earlier.)                       *)
bitmap_scan_short(bits, n, cnt) == ClearRun(bits, n, cnt, n - 2)

bitmap_scan(bits, n, cnt) == ClearRun(bits, n, cnt, n)

=============================================================================
