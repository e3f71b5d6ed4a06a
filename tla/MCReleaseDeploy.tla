--------------------------- MODULE MCReleaseDeploy ---------------------------
(* TLC instances of ReleaseDeploy: one file changes in every release, the    *)
(* other is brought by the first, removed by the second and brought back.    *)
EXTENDS ReleaseDeploy

CONSTANTS f1, f2

ThreeReleases ==
    [k \in 0..3 |-> [f \in {f1, f2} |-> IF f = f2 /\ k \notin {1, 3} THEN Absent ELSE k]]
=============================================================================
