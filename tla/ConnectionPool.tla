--------------------------- MODULE ConnectionPool ---------------------------
(***************************************************************************)
(* The PostgreSQL connection pools of the API workers and the host-wide    *)
(* connection budget they share (scripts/api/db_pool.py, read_budget.py).  *)
(*                                                                         *)
(* Every worker process has one pool guarded by one threading.Condition;   *)
(* the budget is a fixed row of flock()ed files that all processes on the  *)
(* host probe in order.  A section of the code that runs under the         *)
(* condition is one action.  What the code does outside the lock (probing  *)
(* the budget, dialling, setting the session up, undoing a failed set-up,  *)
(* rolling a returned connection back) is one action per step, so that the *)
(* steps of other threads and of other workers fall in between.            *)
(*                                                                         *)
(* Abstractions: a connection is an identity of Conn, chosen when its unit *)
(* of _connection_count is reserved; the idle deque is a set, idle         *)
(* connections being interchangeable; a deadline or a circuit delay may    *)
(* pass at any moment, so durations (and _connect_failures, which only     *)
(* selects one) are left out; connection.close() does not raise.           *)
(***************************************************************************)
EXTENDS Integers, FiniteSets

CONSTANTS
    Worker,     \* the API worker processes of the host
    Thread,     \* their request and background threads
    Home,       \* Home[t]: the worker that thread t runs in
    Conn,       \* connection identities
    NoConn,     \* "this thread has no connection in hand"
    MaxSize,    \* _max_size of every pool
    Capacity    \* _budget_capacity: number of lock files of the host budget

ASSUME HomeAssumption == Home \in [Thread -> Worker]
ASSUME ConnAssumption == NoConn \notin Conn /\ IsFiniteSet(Conn)
ASSUME NoConnAssumption == NoConn \notin [conn : Conn, permit : 1..Capacity]
ASSUME SizeAssumption == MaxSize \in Nat \ {0} /\ Capacity \in Nat \ {0}

VARIABLES
    closed,     \* closed[w]: _closed
    idle,       \* idle[w]: _idle
    count,      \* count[w]: _connection_count
    connecting, \* connecting[w]: _connecting
    circuit,    \* circuit[w]: the clock has not reached _retry_at
    doomed,     \* doomed[w]: close()'s private tuple of idle connections
    pc,         \* pc[t]: where thread t is
    hand,       \* hand[t]: the local variable "connection"
    probe,      \* probe[t]: the lock file try_permit looks at next
    slot,       \* slot[c]: the lock file whose permit connection c holds, or 0
    live        \* the sessions open on the database server

poolVars   == <<closed, idle, count, connecting, circuit, doomed>>
threadVars == <<pc, hand, probe>>
vars       == <<closed, idle, count, connecting, circuit, doomed,
                pc, hand, probe, slot, live>>

Slot == 1..Capacity

\* "out": not in the pool.  "check" and "late": at the head of acquire's loop
\* with time left or none.  "parked": in Condition.wait.  "scan", "dial",
\* "setup": creating a connection outside the lock.  "undo", "unwind": its
\* failure path.  "admit", "admitNew": before acquire's second locked section,
\* with a reused or a new connection.  "using": holds a lease.  "giveBack",
\* "discard": before release's locked section, with a connection that rolled
\* back and one that did not.
Place == {"out", "check", "late", "parked", "scan", "dial", "setup", "undo",
          "unwind", "admit", "admitNew", "using", "giveBack", "discard"}

ThreadsOf(w) == {t \in Thread : Home[t] = w}
InHand(w)    == {hand[t] : t \in ThreadsOf(w)} \ {NoConn}
Handles(w)   == idle[w] \cup InHand(w)
Taken        == UNION {Handles(w) \cup doomed[w] : w \in Worker}

\* worker_share and pool_size of build_api_connection_factory.
PoolSize(workers, configured) ==
    LET share == IF 4 \div workers >= 1 THEN 4 \div workers ELSE 1
    IN  IF configured < share THEN configured ELSE share

Init ==
    /\ closed = [w \in Worker |-> FALSE]
    /\ idle = [w \in Worker |-> {}]
    /\ count = [w \in Worker |-> 0]
    /\ connecting = [w \in Worker |-> FALSE]
    /\ circuit = [w \in Worker |-> FALSE]
    /\ doomed = [w \in Worker |-> {}]
    /\ pc = [t \in Thread |-> "out"]
    /\ hand = [t \in Thread |-> NoConn]
    /\ probe = [t \in Thread |-> 1]
    /\ slot = [c \in Conn |-> 0]
    /\ live = {}

-----------------------------------------------------------------------------
(* Threads of one worker and the condition they wait on.                   *)

Goto(t, place) == pc' = [pc EXCEPT ![t] = place]

\* notify_all(): everyone parked on w's condition rechecks; t goes to place.
WakeAllAnd(w, t, place) ==
    pc' = [u \in Thread |->
              IF u = t THEN place
              ELSE IF Home[u] = w /\ pc[u] = "parked" THEN "check" ELSE pc[u]]

\* notify(): one parked thread, if there is one, rechecks; t goes to "out".
WakeOneAndLeave(w, t) ==
    LET parked == {u \in ThreadsOf(w) : pc[u] = "parked"}
    IN  IF parked = {}
        THEN Goto(t, "out")
        ELSE \E u \in parked : pc' = [pc EXCEPT ![t] = "out", ![u] = "check"]

-----------------------------------------------------------------------------
(* acquire(): the locked loop.                                             *)

Call(t) ==
    /\ pc[t] = "out"
    /\ Goto(t, "check")
    /\ UNCHANGED <<poolVars, hand, probe, slot, live>>

AtLoopHead(t) == pc[t] \in {"check", "late"}

\* Room for a connection, and nobody is creating one.
MayCreate(w) == count[w] < MaxSize /\ ~connecting[w]

\* Fault: look at the deadline before looking for a connection.
RaisesLateFirst(t) ==
    LET w == Home[t]
    IN  closed[w] \/ pc[t] = "late" \/ (idle[w] = {} /\ circuit[w])

\* Closed pool, open circuit, or deadline passed with nothing to take: raise.
Raises(t) ==
    LET w == Home[t]
    IN  \/ closed[w]
        \/ /\ idle[w] = {}
           /\ \/ circuit[w]
              \/ ~MayCreate(w) /\ pc[t] = "late"

AcquireRaises(t) ==
    /\ AtLoopHead(t)
    /\ Raises(t)
    /\ Goto(t, "out")
    /\ UNCHANGED <<poolVars, hand, probe, slot, live>>

\* Fault: look at an idle connection without popping it.
TakeIdleWithoutPop(t) ==
    LET w == Home[t]
    IN  /\ AtLoopHead(t)
        /\ ~closed[w]
        /\ \E c \in idle[w] : hand' = [hand EXCEPT ![t] = c]
        /\ Goto(t, "admit")
        /\ UNCHANGED <<poolVars, probe, slot, live>>

TakeIdle(t) ==
    LET w == Home[t]
    IN  /\ AtLoopHead(t)
        /\ ~closed[w]
        /\ \E c \in idle[w] :
              /\ idle' = [idle EXCEPT ![w] = @ \ {c}]
              /\ hand' = [hand EXCEPT ![t] = c]
        /\ Goto(t, "admit")
        /\ UNCHANGED <<closed, count, connecting, circuit, doomed, probe, slot, live>>

ReserveNew(t) ==
    LET w == Home[t]
    IN  /\ AtLoopHead(t)
        /\ ~closed[w]
        /\ idle[w] = {}
        /\ ~circuit[w]
        /\ MayCreate(w)
        /\ count' = [count EXCEPT ![w] = @ + 1]
        /\ connecting' = [connecting EXCEPT ![w] = TRUE]
        /\ \E c \in Conn \ Taken : hand' = [hand EXCEPT ![t] = c]
        /\ probe' = [probe EXCEPT ![t] = 1]
        /\ Goto(t, "scan")
        /\ UNCHANGED <<closed, idle, circuit, doomed, slot, live>>

Park(t) ==
    LET w == Home[t]
    IN  /\ pc[t] = "check"
        /\ ~closed[w]
        /\ idle[w] = {}
        /\ ~circuit[w]
        /\ ~MayCreate(w)
        /\ Goto(t, "parked")
        /\ UNCHANGED <<poolVars, hand, probe, slot, live>>

\* Fault: wait() without a timeout.
ExpireOnlyAwake(t) ==
    /\ pc[t] = "check"
    /\ Goto(t, "late")
    /\ UNCHANGED <<poolVars, hand, probe, slot, live>>

\* The deadline passes: wait() returns, or the next look at the clock fails.
Expire(t) ==
    /\ pc[t] \in {"check", "parked"}
    /\ Goto(t, "late")
    /\ UNCHANGED <<poolVars, hand, probe, slot, live>>

\* The clock reaches _retry_at.
CircuitElapses(w) ==
    /\ circuit[w]
    /\ circuit' = [circuit EXCEPT ![w] = FALSE]
    /\ UNCHANGED <<closed, idle, count, connecting, doomed, threadVars, slot, live>>

-----------------------------------------------------------------------------
(* acquire(): creating a connection outside the lock.                      *)

\* The flock of a lock file is exclusive.
SlotFree(s) == \A c \in Conn : slot[c] # s

\* Fault: one lock file too many.
ProbeSlotTooFar(t) ==
    /\ pc[t] = "scan"
    /\ IF SlotFree(probe[t])
       THEN /\ slot' = [slot EXCEPT ![hand[t]] = probe[t]]
            /\ Goto(t, "dial")
            /\ UNCHANGED probe
       ELSE /\ probe' = [probe EXCEPT ![t] = @ + 1]
            /\ UNCHANGED <<slot, pc>>
    /\ UNCHANGED <<poolVars, hand, live>>

\* try_permit(): flock one file of the row, or go on to the next.
ProbeSlot(t) ==
    /\ pc[t] = "scan"
    /\ probe[t] \in Slot
    /\ IF SlotFree(probe[t])
       THEN /\ slot' = [slot EXCEPT ![hand[t]] = probe[t]]
            /\ Goto(t, "dial")
            /\ UNCHANGED probe
       ELSE /\ probe' = [probe EXCEPT ![t] = @ + 1]
            /\ UNCHANGED <<slot, pc>>
    /\ UNCHANGED <<poolVars, hand, live>>

\* try_permit() returned None: "API PostgreSQL connection budget full".
BudgetFull(t) ==
    /\ pc[t] = "scan"
    /\ probe[t] = Capacity + 1
    /\ Goto(t, "unwind")
    /\ UNCHANGED <<poolVars, hand, probe, slot, live>>

\* The factory connects, or raises: then only the permit is to be returned.
Dial(t) ==
    /\ pc[t] = "dial"
    /\ \/ /\ live' = live \cup {hand[t]}
          /\ Goto(t, "setup")
          /\ UNCHANGED slot
       \/ /\ slot' = [slot EXCEPT ![hand[t]] = 0]
          /\ Goto(t, "unwind")
          /\ UNCHANGED live
    /\ UNCHANGED <<poolVars, hand, probe>>

\* set_config, commit and the deadline check succeed, or the except branch
\* starts by closing the permit.
SetUp(t) ==
    /\ pc[t] = "setup"
    /\ \/ Goto(t, "admitNew") /\ UNCHANGED slot
       \/ /\ slot' = [slot EXCEPT ![hand[t]] = 0]
          /\ Goto(t, "undo")
    /\ UNCHANGED <<poolVars, hand, probe, live>>

\* The except branch then closes the connection.
UndoConnect(t) ==
    /\ pc[t] = "undo"
    /\ live' = live \ {hand[t]}
    /\ Goto(t, "unwind")
    /\ UNCHANGED <<poolVars, hand, probe, slot>>

\* Fault: the failed connection stays counted.
UnwindKeepsCount(t) ==
    LET w == Home[t]
    IN  /\ pc[t] = "unwind"
        /\ connecting' = [connecting EXCEPT ![w] = FALSE]
        /\ circuit' = [circuit EXCEPT ![w] = TRUE]
        /\ hand' = [hand EXCEPT ![t] = NoConn]
        /\ WakeAllAnd(w, t, "out")
        /\ UNCHANGED <<closed, idle, count, doomed, probe, slot, live>>

\* Its finally clause, under the lock: un-count, open the circuit, notify_all.
Unwind(t) ==
    LET w == Home[t]
    IN  /\ pc[t] = "unwind"
        /\ count' = [count EXCEPT ![w] = @ - 1]
        /\ connecting' = [connecting EXCEPT ![w] = FALSE]
        /\ circuit' = [circuit EXCEPT ![w] = TRUE]
        /\ hand' = [hand EXCEPT ![t] = NoConn]
        /\ WakeAllAnd(w, t, "out")
        /\ UNCHANGED <<closed, idle, doomed, probe, slot, live>>

-----------------------------------------------------------------------------
(* acquire(): the second locked section, then the lease and its release.   *)

\* The connection leaves the pool, its session ends and its permit is closed.
\* All of it happens under the lock, and other workers can only see the
\* session end before the permit is free.
Retire(w, c) ==
    /\ count' = [count EXCEPT ![w] = @ - 1]
    /\ live' = live \ {c}
    /\ slot' = [slot EXCEPT ![c] = 0]

\* Fault: do not look at _closed again.
AdmitWithoutRecheck(t) ==
    LET w == Home[t]
    IN  /\ pc[t] \in {"admit", "admitNew"}
        /\ IF pc[t] = "admitNew"
           THEN /\ connecting' = [connecting EXCEPT ![w] = FALSE]
                /\ circuit' = [circuit EXCEPT ![w] = FALSE]
                /\ WakeAllAnd(w, t, "using")
           ELSE Goto(t, "using") /\ UNCHANGED <<connecting, circuit>>
        /\ UNCHANGED <<closed, idle, count, doomed, hand, probe, slot, live>>

Admit(t) ==
    LET w == Home[t]
        place == IF closed[w] THEN "out" ELSE "using"
    IN  /\ pc[t] \in {"admit", "admitNew"}
        /\ IF pc[t] = "admitNew"
           THEN /\ connecting' = [connecting EXCEPT ![w] = FALSE]
                /\ circuit' = [circuit EXCEPT ![w] = FALSE]
                /\ WakeAllAnd(w, t, place)
           ELSE Goto(t, place) /\ UNCHANGED <<connecting, circuit>>
        /\ IF closed[w]
           THEN /\ Retire(w, hand[t])
                /\ hand' = [hand EXCEPT ![t] = NoConn]
           ELSE UNCHANGED <<count, live, slot, hand>>
        /\ UNCHANGED <<closed, idle, doomed, probe>>

\* release() rolls back outside the lock; a connection that cannot is closed.
Rollback(t) ==
    /\ pc[t] = "using"
    /\ \/ Goto(t, "giveBack") /\ UNCHANGED live
       \/ Goto(t, "discard") /\ live' = live \ {hand[t]}
    /\ UNCHANGED <<poolVars, hand, probe, slot>>

\* Fault: keep a usable connection although the pool was closed.
ReleaseToClosed(t) ==
    LET w == Home[t]
    IN  /\ pc[t] \in {"giveBack", "discard"}
        /\ IF pc[t] = "giveBack"
           THEN /\ idle' = [idle EXCEPT ![w] = @ \cup {hand[t]}]
                /\ UNCHANGED <<count, live, slot>>
           ELSE Retire(w, hand[t]) /\ UNCHANGED idle
        /\ hand' = [hand EXCEPT ![t] = NoConn]
        /\ WakeOneAndLeave(w, t)
        /\ UNCHANGED <<closed, connecting, circuit, doomed, probe>>

Release(t) ==
    LET w == Home[t]
    IN  /\ pc[t] \in {"giveBack", "discard"}
        /\ IF pc[t] = "giveBack" /\ ~closed[w]
           THEN /\ idle' = [idle EXCEPT ![w] = @ \cup {hand[t]}]
                /\ UNCHANGED <<count, live, slot>>
           ELSE Retire(w, hand[t]) /\ UNCHANGED idle
        /\ hand' = [hand EXCEPT ![t] = NoConn]
        /\ WakeOneAndLeave(w, t)
        /\ UNCHANGED <<closed, connecting, circuit, doomed, probe>>

-----------------------------------------------------------------------------
(* close(), and the end of a worker process.                               *)

Close(w) ==
    /\ ~closed[w]
    /\ closed' = [closed EXCEPT ![w] = TRUE]
    /\ doomed' = [doomed EXCEPT ![w] = @ \cup idle[w]]
    /\ idle' = [idle EXCEPT ![w] = {}]
    /\ count' = [count EXCEPT ![w] = @ - Cardinality(idle[w])]
    /\ pc' = [u \in Thread |->
                 IF Home[u] = w /\ pc[u] = "parked" THEN "check" ELSE pc[u]]
    /\ UNCHANGED <<connecting, circuit, hand, probe, slot, live>>

\* Fault: close the permit first, then the connection.
CloseIdlePermitFirst(w) ==
    /\ \E c \in doomed[w] :
          \/ /\ slot[c] # 0
             /\ slot' = [slot EXCEPT ![c] = 0]
             /\ UNCHANGED <<live, doomed>>
          \/ /\ slot[c] = 0
             /\ live' = live \ {c}
             /\ doomed' = [doomed EXCEPT ![w] = @ \ {c}]
             /\ UNCHANGED slot
    /\ UNCHANGED <<closed, idle, count, connecting, circuit, threadVars>>

\* The loop after the lock: close an idle connection, then its permit.
CloseIdle(w) ==
    /\ \E c \in doomed[w] :
          \/ /\ c \in live
             /\ live' = live \ {c}
             /\ UNCHANGED <<slot, doomed>>
          \/ /\ c \notin live
             /\ slot' = [slot EXCEPT ![c] = 0]
             /\ doomed' = [doomed EXCEPT ![w] = @ \ {c}]
             /\ UNCHANGED live
    /\ UNCHANGED <<closed, idle, count, connecting, circuit, threadVars>>

\* The process dies, at any point, and its successor starts with a new pool:
\* the kernel drops its file locks and its sockets.
Exit(w) ==
    /\ closed' = [closed EXCEPT ![w] = FALSE]
    /\ idle' = [idle EXCEPT ![w] = {}]
    /\ count' = [count EXCEPT ![w] = 0]
    /\ connecting' = [connecting EXCEPT ![w] = FALSE]
    /\ circuit' = [circuit EXCEPT ![w] = FALSE]
    /\ doomed' = [doomed EXCEPT ![w] = {}]
    /\ pc' = [t \in Thread |-> IF Home[t] = w THEN "out" ELSE pc[t]]
    /\ hand' = [t \in Thread |-> IF Home[t] = w THEN NoConn ELSE hand[t]]
    /\ probe' = [t \in Thread |-> IF Home[t] = w THEN 1 ELSE probe[t]]
    /\ slot' = [c \in Conn |-> IF c \in Handles(w) \cup doomed[w] THEN 0 ELSE slot[c]]
    /\ live' = live \ (Handles(w) \cup doomed[w])

-----------------------------------------------------------------------------
Acquiring(t) == \/ AcquireRaises(t) \/ TakeIdle(t) \/ ReserveNew(t) \/ Park(t)

Creating(t) == \/ ProbeSlot(t) \/ BudgetFull(t) \/ Dial(t) \/ SetUp(t)
               \/ UndoConnect(t) \/ Unwind(t)

Returning(t) == Rollback(t) \/ Release(t)

ThreadStep(t) == Acquiring(t) \/ Creating(t) \/ Admit(t) \/ Returning(t)

Next ==
    \/ \E t \in Thread : Call(t) \/ Expire(t) \/ ThreadStep(t)
    \/ \E w \in Worker : CircuitElapses(w) \/ Close(w) \/ CloseIdle(w) \/ Exit(w)

Spec == Init /\ [][Next]_vars

\* Threads are scheduled, a query ends and its lease is closed, connects have
\* a deadline of their own, and a close() that was started goes on.  Nobody has to call acquire, to close a pool or to die.
Fairness ==
    /\ \A t \in Thread : WF_vars(ThreadStep(t)) /\ WF_vars(Expire(t))
    /\ \A w \in Worker : WF_vars(CloseIdle(w))

FairSpec == Spec /\ Fairness

-----------------------------------------------------------------------------
(* Properties.                                                             *)

\* Every variable keeps its type.
TypeOK ==
    /\ closed \in [Worker -> BOOLEAN]
    /\ idle \in [Worker -> SUBSET Conn]
    /\ count \in [Worker -> Int]
    /\ connecting \in [Worker -> BOOLEAN]
    /\ circuit \in [Worker -> BOOLEAN]
    /\ doomed \in [Worker -> SUBSET Conn]
    /\ pc \in [Thread -> Place]
    /\ hand \in [Thread -> Conn \cup {NoConn}]
    /\ probe \in [Thread -> 1..(Capacity + 1)]
    /\ slot \in [Conn -> 0..Capacity]
    /\ live \in SUBSET Conn

\* A connection is in one place: with one thread, idle in one pool, or waiting
\* to be closed by one close().  In particular no connection is lent twice.
OnePlace ==
    /\ \A t, u \in Thread : t # u /\ hand[t] # NoConn => hand[t] # hand[u]
    /\ \A t \in Thread, w \in Worker : hand[t] \notin idle[w] \cup doomed[w]
    /\ \A v, w \in Worker : \A c \in idle[v] :
          c \notin doomed[w] /\ (v # w => c \notin idle[w])
    /\ \A v, w \in Worker : v # w => \A c \in doomed[v] : c \notin doomed[w]

\* _connection_count is the number of connections the pool has idle or in its
\* threads' hands, whatever failed and whenever it was closed, and stays
\* within _max_size.
CountIsExact ==
    \A w \in Worker : /\ count[w] = Cardinality(Handles(w))
                      /\ count[w] <= MaxSize

\* A session on the database belongs to a connection some pool still knows,
\* and holds a permit of the host budget that no other session holds.  The one
\* exception is a session whose set-up failed and which its thread is about
\* to close.
PermitPerSession ==
    /\ \A c \in live : \/ slot[c] # 0
                       \/ \E t \in Thread : hand[t] = c /\ pc[t] = "undo"
    /\ \A c, d \in Conn : c # d /\ slot[c] # 0 => slot[c] # slot[d]
    /\ \A c \in Conn : slot[c] # 0 \/ c \in live => c \in Taken

\* A wakeup is never lost: as long as a thread is parked, every idle
\* connection and every free unit of the pool has a thread on its way to take
\* it, and nobody stays parked on a closed pool or behind an open circuit.
Parked(w) == {t \in ThreadsOf(w) : pc[t] = "parked"}
Awake(w)  == {t \in ThreadsOf(w) : AtLoopHead(t)}

NoLostWakeup ==
    \A w \in Worker :
        Parked(w) # {} => /\ Cardinality(idle[w]) <= Cardinality(Awake(w))
                          /\ MayCreate(w) => Awake(w) # {}
                          /\ ~closed[w] /\ ~circuit[w]

\* Once close() has run, no thread of that worker is given a connection, not
\* even one that was dialling or had taken an idle connection before.
NoLeaseAfterClose ==
    [][\A t \in Thread : closed[Home[t]] /\ pc[t] # "using" => pc'[t] # "using"]_vars

\* acquire() returns or raises: no thread waits for ever.
AcquireEnds ==
    \A t \in Thread : pc[t] # "out" ~> pc[t] \in {"out", "using"}

\* A closed pool gives everything back: once the requests that were running
\* have ended, the worker has no connection left, counted or not.
ClosedPoolDrains ==
    \A w \in Worker :
        closed[w] ~> \/ ~closed[w]
                     \/ count[w] = 0 /\ Handles(w) \cup doomed[w] = {}

\* The pools implement ConnectionLending: from the point of view of the
\* callers only whole, exclusive leases with a permit of their own exist.
Lease == [t \in Thread |-> IF pc[t] = "using"
                           THEN [conn |-> hand[t], permit |-> slot[hand[t]]]
                           ELSE NoConn]

Lending == INSTANCE ConnectionLending WITH
               lease <- Lease, shut <- closed, NoLease <- NoConn

ImplementsLending == Lending!LendingSpec

\* "Keep the same four-connection host ceiling": the database never has more
\* sessions from this host than the budget has permits.
HostCeiling == Cardinality(live) <= Capacity
=============================================================================
