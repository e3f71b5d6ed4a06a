-------------------------- MODULE ConnectionLending --------------------------
(***************************************************************************)
(* What the connection pools of one host promise their callers, without    *)
(* pools, locks, circuits or files: a connection is lent to one thread at  *)
(* a time, every lent connection has a permit of the host budget to        *)
(* itself, a pool that was shut lends nothing more, and a worker that dies *)
(* takes its leases with it.                                               *)
(***************************************************************************)
EXTENDS Integers

CONSTANTS Worker, Thread, Home, Conn, Capacity, NoLease

VARIABLES
    lease,  \* lease[t]: the connection and the permit t has, or NoLease
    shut    \* shut[w]: the pool of w was shut

lvars == <<lease, shut>>

Permit == 1..Capacity

LendingInit ==
    /\ lease = [t \in Thread |-> NoLease]
    /\ shut = [w \in Worker |-> FALSE]

Lend(t) ==
    /\ lease[t] = NoLease
    /\ ~shut[Home[t]]
    /\ \E c \in Conn, p \in Permit :
          /\ \A u \in Thread : lease[u] # NoLease =>
                lease[u].conn # c /\ lease[u].permit # p
          /\ lease' = [lease EXCEPT ![t] = [conn |-> c, permit |-> p]]
    /\ UNCHANGED shut

Return(t) ==
    /\ lease[t] # NoLease
    /\ lease' = [lease EXCEPT ![t] = NoLease]
    /\ UNCHANGED shut

Shut(w) ==
    /\ shut' = [shut EXCEPT ![w] = TRUE]
    /\ UNCHANGED lease

Restart(w) ==
    /\ shut' = [shut EXCEPT ![w] = FALSE]
    /\ lease' = [t \in Thread |-> IF Home[t] = w THEN NoLease ELSE lease[t]]

LendingNext ==
    \/ \E t \in Thread : Lend(t) \/ Return(t)
    \/ \E w \in Worker : Shut(w) \/ Restart(w)

LendingSpec == LendingInit /\ [][LendingNext]_lvars
=============================================================================
