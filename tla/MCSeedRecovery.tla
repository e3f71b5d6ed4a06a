-------------------------- MODULE MCSeedRecovery ---------------------------
(* TLC instances of SeedRecovery: two recoveries of one process and one of *)
(* another; a single one against its watcher.                              *)
EXTENDS SeedRecovery, TLC

CONSTANTS p1, p2, t1, t2, t3, k1, k2, s1

TwoAndOne == (t1 :> p1) @@ (t2 :> p1) @@ (t3 :> p2)
Alone     == t1 :> p1
Shared    == [k \in Key |-> s1]

ThreadSymmetry == Permutations({t1, t2})
=============================================================================
