------------------------------ MODULE MCEntry ------------------------------
(***************************************************************************)
(* An instance of Entry for TLC.                                           *)
(***************************************************************************)
EXTENDS Entry

CONSTANTS main, ktd, prc

\* The exceptions of the processor; 2, 9 and 15 do not happen here.
MCException == (0 .. 19) \ {2, 9, 15}

=============================================================================
