------------------------------ MODULE MCKList ------------------------------
(***************************************************************************)
(* An instance of KList for TLC.                                           *)
(***************************************************************************)
EXTENDS KList

CONSTANTS e1, e2, e3, thr1, thr2

=============================================================================
