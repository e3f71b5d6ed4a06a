-------------------------- MODULE SnapshotRefresh --------------------------
(***************************************************************************)
(* Stale-while-refresh of panel snapshots (scripts/api/cache.py).          *)
(*                                                                         *)
(* A request thread reads the SQLite snapshot of a key.  When it is not    *)
(* fresh, the key is admitted for a rebuild: in the worker by a set of     *)
(* keys, a cooldown and a bounded semaphore, across workers by a lease in  *)
(* Redis.  A stale dictionary is answered at once and rebuilt by a thread  *)
(* of its own; anything else is rebuilt before the answer.  A thread of    *)
(* this model is one such activity: after it has scheduled a background    *)
(* rebuild, the request has been answered and the thread stands for the    *)
(* rebuild.                                                                *)
(*                                                                         *)
(* Abstractions: payloads are reduced to the state of the row; clocks are  *)
(* nondeterministic; the owner uuid of a lease is the activity itself; the *)
(* bound of 512 cooldown entries is not reached.                           *)
(***************************************************************************)
EXTENDS Integers, FiniteSets

CONSTANTS
    Worker, Thread,
    Home,           \* Home[t]: the worker of activity t
    Key,            \* snapshot keys
    ListKey,        \* the keys whose payload is a bare list
    Nobody,         \* no lease
    Slots,          \* snapshot_workers
    RedisFaults,    \* Redis may be down, or fail after it did the work
    Slow            \* the activities whose build may outlast its lease of 120 seconds

ASSUME RefreshAssumption ==
    /\ Home \in [Thread -> Worker]
    /\ Key # {} /\ ListKey \subseteq Key
    /\ Nobody \notin Thread
    /\ Slots \in Nat \ {0}
    /\ RedisFaults \in BOOLEAN
    /\ Slow \subseteq Thread

VARIABLES
    row,        \* row[k]: the SQLite snapshot: "absent", "expired", "fresh"
    lease,      \* lease[k]: owner of the Redis key snapshot-admission:k
    refreshing, \* refreshing[w]: snapshot_refreshing
    cooling,    \* cooling[w]: the keys whose snapshot_retry_at is ahead
    slots,      \* slots[w]: free units of snapshot_slots
    stopped,    \* stopped[w]: the runtime was closed
    pc, key,
    background, \* background[t]: the rebuild runs in a thread of its own
    held,       \* held[t]: the admission carries a Redis client
    failed,     \* failed[t]: the local variable "failed"
    leaked      \* history: leaked[w]: the keys admitted for a thread that did not start

workerVars == <<refreshing, cooling, slots, stopped>>
localVars  == <<key, background, held, failed>>
vars       == <<row, lease, refreshing, cooling, slots, stopped,
                pc, key, background, held, failed, leaked>>

\* The places of an activity, in the order of the code.
Reading   == {"idle", "get", "getStale", "admit"}
Admitted  == {"lease", "start", "build", "store", "unlease", "unmark", "free"}
Building  == {"build", "store"}

\* What "key" holds while an activity is idle; never read.
AnyKey == CHOOSE k \in Key : TRUE

Init ==
    /\ row \in [Key -> {"absent", "expired"}]
    /\ lease = [k \in Key |-> Nobody]
    /\ refreshing = [w \in Worker |-> {}]
    /\ cooling = [w \in Worker |-> {}]
    /\ slots = [w \in Worker |-> Slots]
    /\ stopped = [w \in Worker |-> FALSE]
    /\ pc = [t \in Thread |-> "idle"]
    /\ key = [t \in Thread |-> AnyKey]
    /\ background = [t \in Thread |-> FALSE]
    /\ held = [t \in Thread |-> FALSE]
    /\ failed = [t \in Thread |-> FALSE]
    /\ leaked = [w \in Worker |-> {}]

Goto(t, place) == pc' = [pc EXCEPT ![t] = place]

\* The activity ends and its local variables with it.
End(t) ==
    /\ Goto(t, "idle")
    /\ key' = [key EXCEPT ![t] = AnyKey]
    /\ background' = [background EXCEPT ![t] = FALSE]
    /\ held' = [held EXCEPT ![t] = FALSE]
    /\ failed' = [failed EXCEPT ![t] = FALSE]

-----------------------------------------------------------------------------
(* get_snapshot_payload: reading.                                          *)

Request(t, k) ==
    /\ pc[t] = "idle"
    /\ Goto(t, "get")
    /\ key' = [key EXCEPT ![t] = k]
    /\ UNCHANGED <<row, lease, workerVars, background, held, failed, leaked>>

\* store.get: a fresh row is the answer; a busy database reads as nothing.
Get(t) ==
    /\ pc[t] = "get"
    /\ \/ row[key[t]] = "fresh" /\ End(t)
       \/ Goto(t, "getStale") /\ UNCHANGED localVars
    /\ UNCHANGED <<row, lease, workerVars, leaked>>

\* store.get_stale: whether the rebuild may run in the background.
GetStale(t) ==
    /\ pc[t] = "getStale"
    /\ \E seen \in {row[key[t]], "absent"} :
          background' = [background EXCEPT ![t] = seen # "absent" /\ key[t] \notin ListKey]
    /\ Goto(t, "admit")
    /\ UNCHANGED <<row, lease, workerVars, key, held, failed, leaked>>

-----------------------------------------------------------------------------
(* _admit_snapshot.                                                        *)

\* Fault: the worker does not look whether the key is being rebuilt.
AdmitTwice(t) ==
    LET w == Home[t]
    IN  /\ pc[t] = "admit"
        /\ IF key[t] \in cooling[w] \/ slots[w] = 0
           THEN End(t) /\ UNCHANGED <<slots, refreshing>>
           ELSE /\ slots' = [slots EXCEPT ![w] = @ - 1]
                /\ refreshing' = [refreshing EXCEPT ![w] = @ \cup {key[t]}]
                /\ Goto(t, "lease")
                /\ UNCHANGED localVars
        /\ UNCHANGED <<row, lease, cooling, stopped, leaked>>

\* Under snapshot_lock.  Refused: a background rebuild is skipped, a request
\* without a stale answer raises TimeoutError.
Admit(t) ==
    LET w == Home[t]
    IN  /\ pc[t] = "admit"
        /\ IF key[t] \in refreshing[w] \cup cooling[w] \/ slots[w] = 0
           THEN End(t) /\ UNCHANGED <<slots, refreshing>>
           ELSE /\ slots' = [slots EXCEPT ![w] = @ - 1]
                /\ refreshing' = [refreshing EXCEPT ![w] = @ \cup {key[t]}]
                /\ Goto(t, "lease")
                /\ UNCHANGED localVars
        /\ UNCHANGED <<row, lease, cooling, stopped, leaked>>

AfterLease(t) == IF background[t] THEN "start" ELSE "build"

\* SET NX EX 120: won, lost to another owner (the admission is taken back), or
\* not known: without Redis the slot bound alone admits, and a SET that raised
\* may have left a lease that nobody will release.
Lease(t) ==
    LET k == key[t]
    IN  /\ pc[t] = "lease"
        /\ \/ /\ lease[k] = Nobody
              /\ lease' = [lease EXCEPT ![k] = t]
              /\ held' = [held EXCEPT ![t] = TRUE]
              /\ failed' = [failed EXCEPT ![t] = TRUE]
              /\ Goto(t, AfterLease(t))
           \/ /\ lease[k] # Nobody
              /\ Goto(t, "unmark")
              /\ held' = [held EXCEPT ![t] = FALSE]
              /\ failed' = [failed EXCEPT ![t] = FALSE]
              /\ UNCHANGED lease
           \/ /\ RedisFaults
              /\ \/ UNCHANGED lease
                 \/ lease[k] = Nobody /\ lease' = [lease EXCEPT ![k] = t]
              /\ held' = [held EXCEPT ![t] = FALSE]
              /\ failed' = [failed EXCEPT ![t] = TRUE]
              /\ Goto(t, AfterLease(t))
        /\ UNCHANGED <<row, workerVars, key, background, leaked>>

-----------------------------------------------------------------------------
(* The rebuild.                                                            *)

\* start_thread refuses once the runtime is stopped: released as failed.  And
\* thread.start() may raise, where nobody releases what was admitted: the slot
\* and the mark are gone with the activity, the lease stays until it expires.
Start(t) ==
    LET w == Home[t]
    IN  /\ pc[t] = "start"
        /\ \/ /\ Goto(t, IF stopped[w] THEN "unlease" ELSE "build")
              /\ UNCHANGED <<localVars, leaked>>
           \/ /\ ~stopped[w]
              /\ leaked' = [leaked EXCEPT ![w] = @ \cup {key[t]}]
              /\ End(t)
        /\ UNCHANGED <<row, lease, workerVars>>

\* The builder returns, or it raises or returns an unavailable payload.
Build(t) ==
    /\ pc[t] = "build"
    /\ Goto(t, "store") \/ Goto(t, "unlease")
    /\ UNCHANGED <<row, lease, workerVars, localVars, leaked>>

\* store.set: written, skipped because SQLite is busy (a success to the
\* caller), or raised.
Store(t) ==
    /\ pc[t] = "store"
    /\ \/ /\ row' \in {row, [row EXCEPT ![key[t]] = "fresh"]}
          /\ failed' = [failed EXCEPT ![t] = FALSE]
       \/ UNCHANGED <<row, failed>>
    /\ Goto(t, "unlease")
    /\ UNCHANGED <<lease, workerVars, key, background, held, leaked>>

-----------------------------------------------------------------------------
(* _release_snapshot.                                                      *)

\* Fault: DEL without comparing the owner.
UnleaseAnyone(t) ==
    /\ pc[t] = "unlease"
    /\ IF held[t] /\ ~failed[t]
       THEN lease' = [lease EXCEPT ![key[t]] = Nobody]
       ELSE UNCHANGED lease
    /\ Goto(t, "unmark")
    /\ UNCHANGED <<row, workerVars, localVars, leaked>>

\* The Lua script: the owner's lease is deleted, or kept as a short cooldown
\* after a failure; errors are ignored.
Unlease(t) ==
    LET k == key[t]
    IN  /\ pc[t] = "unlease"
        /\ \/ /\ held[t] /\ lease[k] = t /\ ~failed[t]
              /\ lease' = [lease EXCEPT ![k] = Nobody]
           \/ /\ held[t] /\ lease[k] = t /\ ~failed[t] => RedisFaults
              /\ UNCHANGED lease
        /\ Goto(t, "unmark")
        /\ UNCHANGED <<row, workerVars, localVars, leaked>>

\* Fault: leave the key marked when its lease was lost or its build failed.
UnmarkOnSuccess(t) ==
    LET w == Home[t]
    IN  /\ pc[t] = "unmark"
        /\ refreshing' = IF failed[t] THEN refreshing
                         ELSE [refreshing EXCEPT ![w] = @ \ {key[t]}]
        /\ cooling' = [cooling EXCEPT ![w] = IF failed[t] THEN @ \cup {key[t]}
                                             ELSE @ \ {key[t]}]
        /\ Goto(t, "free")
        /\ UNCHANGED <<row, lease, slots, stopped, localVars, leaked>>

\* Under snapshot_lock.
Unmark(t) ==
    LET w == Home[t]
    IN  /\ pc[t] = "unmark"
        /\ refreshing' = [refreshing EXCEPT ![w] = @ \ {key[t]}]
        /\ cooling' = [cooling EXCEPT ![w] = IF failed[t] THEN @ \cup {key[t]}
                                             ELSE @ \ {key[t]}]
        /\ Goto(t, "free")
        /\ UNCHANGED <<row, lease, slots, stopped, localVars, leaked>>

\* snapshot_slots.release().
Free(t) ==
    /\ pc[t] = "free"
    /\ slots' = [slots EXCEPT ![Home[t]] = @ + 1]
    /\ End(t)
    /\ UNCHANGED <<row, lease, refreshing, cooling, stopped, leaked>>

-----------------------------------------------------------------------------
(* Clocks, and the life of a worker.                                       *)

SnapshotExpires(k) ==
    /\ row[k] = "fresh"
    /\ row' = [row EXCEPT ![k] = "expired"]
    /\ UNCHANGED <<lease, workerVars, pc, localVars, leaked>>

\* The owner still needs its lease.
LeaseInUse(k) ==
    /\ lease[k] # Nobody
    /\ held[lease[k]]
    /\ key[lease[k]] = k
    /\ pc[lease[k]] \in {"start", "build", "store", "unlease"}

LeaseExpires(k) ==
    /\ lease[k] # Nobody
    /\ LeaseInUse(k) => lease[k] \in Slow
    /\ lease' = [lease EXCEPT ![k] = Nobody]
    /\ UNCHANGED <<row, workerVars, pc, localVars, leaked>>

CoolingEnds(w, k) ==
    /\ k \in cooling[w]
    /\ cooling' = [cooling EXCEPT ![w] = @ \ {k}]
    /\ UNCHANGED <<row, lease, refreshing, slots, stopped, pc, localVars, leaked>>

Stop(w) ==
    /\ ~stopped[w]
    /\ stopped' = [stopped EXCEPT ![w] = TRUE]
    /\ UNCHANGED <<row, lease, refreshing, cooling, slots, pc, localVars, leaked>>

\* The process dies; its leases stay until they expire.
Exit(w) ==
    /\ refreshing' = [refreshing EXCEPT ![w] = {}]
    /\ cooling' = [cooling EXCEPT ![w] = {}]
    /\ slots' = [slots EXCEPT ![w] = Slots]
    /\ stopped' = [stopped EXCEPT ![w] = FALSE]
    /\ pc' = [t \in Thread |-> IF Home[t] = w THEN "idle" ELSE pc[t]]
    /\ held' = [t \in Thread |-> IF Home[t] = w THEN FALSE ELSE held[t]]
    /\ failed' = [t \in Thread |-> IF Home[t] = w THEN FALSE ELSE failed[t]]
    /\ background' = [t \in Thread |-> IF Home[t] = w THEN FALSE ELSE background[t]]
    /\ key' = [t \in Thread |-> IF Home[t] = w THEN AnyKey ELSE key[t]]
    /\ leaked' = [leaked EXCEPT ![w] = {}]
    /\ UNCHANGED <<row, lease>>

-----------------------------------------------------------------------------
Step(t) == \/ Get(t) \/ GetStale(t) \/ Admit(t) \/ Lease(t) \/ Start(t) \/ Build(t)
           \/ Store(t) \/ Unlease(t) \/ Unmark(t) \/ Free(t)

Next ==
    \/ \E t \in Thread : Step(t) \/ \E k \in Key : Request(t, k)
    \/ \E k \in Key : SnapshotExpires(k) \/ LeaseExpires(k)
    \/ \E w \in Worker : Stop(w) \/ Exit(w) \/ \E k \in Key : CoolingEnds(w, k)

Spec == Init /\ [][Next]_vars

-----------------------------------------------------------------------------
(* Properties.                                                             *)

\* Every variable keeps its type; the semaphore stays within its bound.
TypeOK ==
    /\ row \in [Key -> {"absent", "expired", "fresh"}]
    /\ lease \in [Key -> Thread \cup {Nobody}]
    /\ refreshing \in [Worker -> SUBSET Key]
    /\ cooling \in [Worker -> SUBSET Key]
    /\ slots \in [Worker -> 0..Slots]
    /\ stopped \in [Worker -> BOOLEAN]
    /\ pc \in [Thread -> Reading \cup Admitted]
    /\ key \in [Thread -> Key]
    /\ background \in [Thread -> BOOLEAN]
    /\ held \in [Thread -> BOOLEAN]
    /\ failed \in [Thread -> BOOLEAN]
    /\ leaked \in [Worker -> SUBSET Key]

\* Every unit of snapshot_slots is free, with exactly one admitted activity, or
\* lost with exactly one key whose thread did not start; and the marked keys are
\* those of the admitted activities that have not taken their mark back, and the
\* lost ones.  No other error path loses a slot or a mark, which would block
\* rebuilds until the worker restarts, and none gives one back twice.  (With the
\* types.)
AdmittedIn(w) == {t \in Thread : Home[t] = w /\ pc[t] \in Admitted}
MarkedIn(w)   == {t \in AdmittedIn(w) : pc[t] # "free"}

AdmissionIsExact ==
    /\ TypeOK
    /\ \A w \in Worker :
          /\ slots[w] + Cardinality(AdmittedIn(w)) + Cardinality(leaked[w]) = Slots
          /\ refreshing[w] = {key[t] : t \in MarkedIn(w)} \cup leaked[w]

\* A worker never builds the same key twice at once, whatever Redis does.  And
\* unless a build outlasts its lease, two activities that Redis told to
\* go ahead never build it at once in any two workers, although workers crash,
\* Redis fails in between and owners release late.  (A worker that Redis did
\* not answer builds on its own account.)
OneBuilder ==
    \A t, u \in Thread :
        /\ pc[t] \in Building /\ pc[u] \in Building /\ key[t] = key[u]
        /\ Home[t] = Home[u] \/ (held[t] /\ held[u] /\ {t, u} \cap Slow = {})
        => t = u

\* A lease is taken away by its owner or by time, never by a release of
\* somebody else, late as that release may be.
OnlyOwnerUnleases ==
    [][\A k \in Key : lease[k] # Nobody /\ lease'[k] # lease[k]
          => \/ pc' = pc
             \/ /\ lease'[k] = Nobody
                /\ pc[lease[k]] = "unlease" /\ pc'[lease[k]] = "unmark"]_vars
=============================================================================
