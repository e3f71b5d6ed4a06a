------------------------- MODULE MCTelegramPublisher -------------------------
(* TLC instances of TelegramPublisher: the publisher loop and an API worker *)
(* that posts the panels it fetches.                                        *)
EXTENDS TelegramPublisher, TLC

CONSTANTS loop, bridge, p1, p2, m1, m2

\* Each message has a panel of its own.
PanelOfTwo == (m1 :> p1) @@ (m2 :> p2)
=============================================================================
