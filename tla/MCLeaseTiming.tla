---------------------------- MODULE MCLeaseTiming ----------------------------
(***************************************************************************)
(* An instance of LeaseTiming for TLC.                                     *)
(***************************************************************************)
EXTENDS LeaseTimingProperties, TLC

CONSTANTS w1, w2

TwoWorkers == {w1, w2}
AnyOrder == Permutations(TwoWorkers)
FewSeconds == {1, 3, 4}

=============================================================================
