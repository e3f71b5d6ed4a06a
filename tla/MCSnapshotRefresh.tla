------------------------- MODULE MCSnapshotRefresh -------------------------
(* TLC instances of SnapshotRefresh: two activities of one worker, one of   *)
(* another.                                                                 *)
EXTENDS SnapshotRefresh, TLC

CONSTANTS w1, w2, t1, t2, t3, k1

TwoAndOne == (t1 :> w1) @@ (t2 :> w1) @@ (t3 :> w2)
=============================================================================
