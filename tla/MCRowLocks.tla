----------------------------- MODULE MCRowLocks -----------------------------
(***************************************************************************)
(* Instances of RowLocks for TLC.                                          *)
(***************************************************************************)
EXTENDS RowLockProperties

CONSTANTS w1, w2, c1, m1, m2

TwoWorkers == {w1, w2}
OneWorker == {w1}
OneCaller == {c1}
OneMessage == {m1}
TwoMessages == {m1, m2}

=============================================================================
