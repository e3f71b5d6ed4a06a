---------------------------- MODULE MCPanelReads ----------------------------
(* TLC instances of PanelReads.                                            *)
EXTENDS PanelReads, TLC

CONSTANTS w1, w2, t1, t2, k1, k2

\* One read in each worker.
OneEach == (t1 :> w1) @@ (t2 :> w2)
=============================================================================
