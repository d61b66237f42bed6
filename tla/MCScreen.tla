------------------------------ MODULE MCScreen ------------------------------
(***************************************************************************)
(* Instances of Screen for TLC: a screen of two lines of four characters   *)
(* and registers with six values, so that the cursor needs both of them.   *)
(***************************************************************************)
EXTENDS Screen

CONSTANTS thr1, thr2

\* Strings with and without an end of line, one longer than a line.
MCStrings == {<<"a", "b", "a", "b">>, <<"b", "LF">>}

\* Zero, a number with a zero in front and one with a zero behind.
MCNumbers == {0, 1, 2}

=============================================================================
