-------------------------- MODULE MCConnectionPool --------------------------
(* TLC instances of ConnectionPool: workers of one host and its budget.    *)
EXTENDS ConnectionPool, TLC

CONSTANTS w1, w2, t1, t2, t3, t4, c1, c2, c3

\* Which worker each thread runs in.
TwoAndOne == (t1 :> w1) @@ (t2 :> w1) @@ (t3 :> w2)
AllInOne  == (t1 :> w1) @@ (t2 :> w1) @@ (t3 :> w1) @@ (t4 :> w1)

\* What build_api_connection_factory computes for two workers.
ShareOfTwo == PoolSize(2, 2)

\* Connections are interchangeable.
ConnSymmetry == Permutations(Conn)
=============================================================================
