----------------------------- MODULE MCTradeSync -----------------------------
(* TLC instances of TradeSync: the third trade is of a later day and of an   *)
(* earlier position than the first.                                          *)
EXTENDS TradeSync

CONSTANTS m1, m2

FourTrades ==
    <<[market |-> m1, day |-> 0, position |-> 2],
      [market |-> m2, day |-> 0, position |-> 4],
      [market |-> m1, day |-> 1, position |-> 1],
      [market |-> m1, day |-> 1, position |-> 3]>>

TwoEvents == <<m1, m2>>
=============================================================================
