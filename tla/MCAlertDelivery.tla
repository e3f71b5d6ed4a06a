--------------------------- MODULE MCAlertDelivery ---------------------------
(* TLC instances of AlertDelivery.                                          *)
EXTENDS AlertDelivery

CONSTANTS r1, r2, s1, s2

\* Push in realtime with quiet hours, or in digests without.
TwoChoices ==
    {[inApp |-> TRUE, push |-> TRUE, mode |-> m, quiet |-> m = "realtime"] :
        m \in {"realtime", "digest"}}
=============================================================================
