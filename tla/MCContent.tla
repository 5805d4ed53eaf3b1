------------------------------ MODULE MCContent ------------------------------
(***************************************************************************)
(* An instance of MediatedContent for TLC.                                 *)
(***************************************************************************)
EXTENDS ContentProperties, TLC

CONSTANTS a, b, u1, u2

Couple == {a, b}
TwoUpdates == {u1, u2}
AnyOrder == Permutations(TwoUpdates)

=============================================================================
