----------------------------- MODULE MCProcess -----------------------------
(***************************************************************************)
(* Instances of Process for TLC.                                           *)
(***************************************************************************)
EXTENDS Process, TLC

CONSTANTS main, ktd, p1, p2, p3

Symmetry == Permutations(Proc)

=============================================================================
