---------------------------- MODULE MCMediation ----------------------------
(***************************************************************************)
(* Instances of MediationSystem for TLC.                                   *)
(***************************************************************************)
EXTENDS MediationProperties, TLC

CONSTANTS m1, w1, w2, r1, r2, none

OneMessage == {m1}
OneWorker == {w1}
TwoWorkers == {w1, w2}
NoWorker == {}
OneRequest == {r1}
TwoRequests == {r1, r2}

\* sound where every worker is mortal
WorkersAndRequests == Permutations(TwoWorkers) \cup Permutations(TwoRequests)

=============================================================================
