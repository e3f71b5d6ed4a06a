---------------------------- MODULE SeedRecovery ----------------------------
(***************************************************************************)
(* Recovery of overdue panel seeds                                         *)
(* (scripts/api/services/seed_recovery.py).                                *)
(*                                                                         *)
(* Watchers publish the seed of a panel to SQLite and to Redis.  A GET     *)
(* that finds the seed overdue recovers it in the background: admitted in  *)
(* its process by a set of keys, a cooldown and a bounded semaphore, and   *)
(* across processes by the fetch lock of the snapshot store, a non-waiting *)
(* flock on one of a few striped files.  A thread of this model is one GET *)
(* and the recovery it may start.                                          *)
(*                                                                         *)
(* Abstractions: a payload is its generatedAt and whether its content is   *)
(* usable; the clock ticks in units of which a few make the cooldown and   *)
(* the maximum age; recover_seed reads the clock as it takes its lock.     *)
(* Redis is the API's set_cached_json, which swallows every error, so the  *)
(* case that no cache accepted the recovery does not arise.                *)
(***************************************************************************)
EXTENDS Integers, FiniteSets

CONSTANTS
    Process, Thread,
    Home,       \* Home[t]: the API process of thread t
    Key,        \* panels
    Stripe,     \* Stripe[k]: the lock file of key k
    Nobody,     \* a free lock
    NoSeed,     \* nothing stored
    Slots,      \* running recoveries of a process
    Cooldown,   \* ticks between two attempts at a key
    MaxAge,     \* ticks for which a seed is usable
    MaxTime,    \* bound on the clock
    Watched,    \* the panels whose watcher publishes
    Busy        \* SQLite may be too busy to read or to write

ASSUME RecoveryAssumption ==
    /\ Home \in [Thread -> Process]
    /\ Nobody \notin Thread
    /\ Slots \in Nat \ {0} /\ Cooldown \in Nat \ {0} /\ MaxAge \in Nat \ {0}
    /\ MaxTime \in Nat
    /\ Key # {} /\ Watched \subseteq Key /\ Busy \in BOOLEAN

VARIABLES
    now,
    sqlite, redis,  \* the two tiers: key -> payload
    lock,           \* lock[s]: the holder of fetch lock s
    running,        \* running[p]: _running
    attempted,      \* attempted[p][k]: _last_attempts, Never when absent
    slots,          \* slots[p]: free units of _slots
    pc, key,
    draft,          \* draft[t]: what the builder of t returned
    watch,          \* watch[k]: where the watcher of k is
    update,         \* update[k]: what the watcher of k publishes
    surprised       \* history: the recoveries whose last look at SQLite failed, or
                    \* whose panel was published by the watcher since that look

procVars  == <<running, attempted, slots>>
watchVars == <<watch, update>>
vars == <<now, sqlite, redis, lock, running, attempted, slots,
          pc, key, draft, surprised, watch, update>>

StripeOf == {Stripe[k] : k \in Key}
Never    == 0 - Cooldown
Undated  == -1      \* a payload without generatedAt has infinite age
Payload  == [at : {Undated} \cup 0..MaxTime, good : BOOLEAN] \cup {NoSeed}

\* The places of a recovery, in the order of the code.
Locked  == {"current", "build", "latest", "setSqlite", "setRedis", "unlock"}
Marked  == {"start", "fetchLock", "unmark"} \cup Locked
Place   == {"idle", "admit", "free"} \cup Marked

AnyKey == CHOOSE k \in Key : TRUE

Init ==
    /\ now = 0
    /\ sqlite \in [Key -> {NoSeed, [at |-> 0, good |-> TRUE]}]
    /\ redis = [k \in Key |-> NoSeed]
    /\ lock = [s \in StripeOf |-> Nobody]
    /\ running = [p \in Process |-> {}]
    /\ attempted = [p \in Process |-> [k \in Key |-> Never]]
    /\ slots = [p \in Process |-> Slots]
    /\ pc = [t \in Thread |-> "idle"]
    /\ key = [t \in Thread |-> AnyKey]
    /\ draft = [t \in Thread |-> NoSeed]
    /\ surprised = {}
    /\ watch = [k \in Key |-> "idle"]
    /\ update = [k \in Key |-> NoSeed]

Goto(t, place) == pc' = [pc EXCEPT ![t] = place]

End(t) ==
    /\ Goto(t, "idle")
    /\ key' = [key EXCEPT ![t] = AnyKey]
    /\ draft' = [draft EXCEPT ![t] = NoSeed]

-----------------------------------------------------------------------------
(* Reading a seed.                                                         *)

Usable(p) == p # NoSeed /\ p.good /\ now - p.at < MaxAge

\* What read() may return: SQLite first, unless it is busy, which reads as
\* nothing; then Redis, unless it fails.
Readings(k) ==
    (IF sqlite[k] # NoSeed THEN {sqlite[k]} ELSE {})
    \cup (IF sqlite[k] = NoSeed \/ Busy THEN {redis[k], NoSeed} ELSE {})

\* What SnapshotStore.set may leave: a busy database is left as it is.
Stored(k, payload) ==
    {[sqlite EXCEPT ![k] = payload]} \cup (IF Busy THEN {sqlite} ELSE {})

\* A GET that finds its seed unusable goes on to recover_seed.
Get(t, k) ==
    /\ pc[t] = "idle"
    /\ \E seen \in Readings(k) : ~Usable(seen)
    /\ Goto(t, "admit")
    /\ key' = [key EXCEPT ![t] = k]
    /\ UNCHANGED <<now, sqlite, surprised, redis, lock, procVars, draft, watchVars>>

-----------------------------------------------------------------------------
(* recover_seed.                                                           *)

Refused(p, k) ==
    \/ k \in running[p]
    \/ now - attempted[p][k] < Cooldown
    \/ slots[p] = 0

\* The attempt is recorded and expired ones are forgotten.
Purged(p, k) ==
    [j \in Key |-> IF j = k THEN now
                   ELSE IF j \notin running[p] /\ now - attempted[p][j] >= Cooldown THEN Never
                   ELSE attempted[p][j]]

\* Under _state_lock.
Admit(t) ==
    LET p == Home[t]
        k == key[t]
    IN  /\ pc[t] = "admit"
        /\ IF Refused(p, k)
           THEN End(t) /\ UNCHANGED procVars
           ELSE /\ running' = [running EXCEPT ![p] = @ \cup {k}]
                /\ attempted' = [attempted EXCEPT ![p] = Purged(p, k)]
                /\ slots' = [slots EXCEPT ![p] = @ - 1]
                /\ Goto(t, "start") /\ UNCHANGED <<key, draft>>
        /\ UNCHANGED <<now, sqlite, surprised, redis, lock, watchVars>>

\* Thread.start(), which may raise.
Start(t) ==
    /\ pc[t] = "start"
    /\ Goto(t, "fetchLock") \/ Goto(t, "unmark")
    /\ UNCHANGED <<now, sqlite, surprised, redis, lock, procVars, key, draft, watchVars>>

-----------------------------------------------------------------------------
(* recover, in the thread.                                                 *)

\* Fault: the lock is not exclusive.
TakeLockShared(t) ==
    LET s == Stripe[key[t]]
    IN  /\ pc[t] = "fetchLock"
        /\ lock' = [lock EXCEPT ![s] = t]
        /\ Goto(t, "current")
        /\ UNCHANGED <<now, sqlite, surprised, redis, procVars, key, draft, watchVars>>

\* fetch_lock with timeout 0: taken, or TimeoutError at once.
TakeLock(t) ==
    LET s == Stripe[key[t]]
    IN  /\ pc[t] = "fetchLock"
        /\ IF lock[s] = Nobody
           THEN lock' = [lock EXCEPT ![s] = t] /\ Goto(t, "current")
           ELSE UNCHANGED lock /\ Goto(t, "unmark")
        /\ UNCHANGED <<now, sqlite, surprised, redis, procVars, key, draft, watchVars>>

\* The seed may have been published while the recovery was starting.
ReadCurrent(t) ==
    /\ pc[t] = "current"
    /\ \E seen \in Readings(key[t]) :
          Goto(t, IF Usable(seen) THEN "unlock" ELSE "build")
    /\ UNCHANGED <<now, sqlite, surprised, redis, lock, procVars, key, draft, watchVars>>

\* The builder stamps its payload with the time it ends, or it raises or
\* returns an unusable payload.
Build(t) ==
    /\ pc[t] = "build"
    /\ \/ /\ draft' = [draft EXCEPT ![t] = [at |-> now, good |-> TRUE]]
          /\ Goto(t, "latest")
       \/ Goto(t, "unlock") /\ UNCHANGED draft
    /\ UNCHANGED <<now, sqlite, surprised, redis, lock, procVars, key, watchVars>>

NewerThan(seen, p) == seen # NoSeed /\ seen.at > p.at

\* A newer watcher publication wins.
ReadLatest(t) ==
    /\ pc[t] = "latest"
    /\ \E seen \in Readings(key[t]) :
          IF NewerThan(seen, draft[t])
          THEN Goto(t, "unlock") /\ UNCHANGED surprised
          ELSE /\ Goto(t, "setSqlite")
               /\ surprised' = surprised \cup (IF seen = sqlite[key[t]] THEN {} ELSE {t})
    /\ UNCHANGED <<now, sqlite, redis, lock, procVars, key, draft, watchVars>>

\* snapshot_store.set: written, or skipped or raised, which is survived.
SetSqlite(t) ==
    /\ pc[t] = "setSqlite"
    /\ sqlite' \in Stored(key[t], draft[t]) \cup {sqlite}
    /\ surprised' = surprised \ {t}
    /\ Goto(t, "setRedis")
    /\ UNCHANGED <<now, redis, lock, procVars, key, draft, watchVars>>

SetRedis(t) ==
    /\ pc[t] = "setRedis"
    /\ redis' \in {redis, [redis EXCEPT ![key[t]] = draft[t]]}
    /\ Goto(t, "unlock")
    /\ UNCHANGED <<now, sqlite, surprised, lock, procVars, key, draft, watchVars>>

Unlock(t) ==
    /\ pc[t] = "unlock"
    /\ lock' = [lock EXCEPT ![Stripe[key[t]]] = Nobody]
    /\ Goto(t, "unmark")
    /\ UNCHANGED <<now, sqlite, surprised, redis, procVars, key, draft, watchVars>>

\* Under _state_lock, whatever happened to the recovery.
Unmark(t) ==
    LET p == Home[t]
    IN  /\ pc[t] = "unmark"
        /\ running' = [running EXCEPT ![p] = @ \ {key[t]}]
        /\ Goto(t, "free")
        /\ UNCHANGED <<now, sqlite, surprised, redis, lock, attempted, slots, key,
                       draft, watchVars>>

\* Fault: a recovery without a result is released by its caller as well.
FreeTwice(t) ==
    /\ pc[t] = "free"
    /\ slots' = [slots EXCEPT ![Home[t]] = @ + (IF draft[t] = NoSeed THEN 2 ELSE 1)]
    /\ End(t)
    /\ UNCHANGED <<now, sqlite, surprised, redis, lock, running, attempted, watchVars>>

Free(t) ==
    /\ pc[t] = "free"
    /\ slots' = [slots EXCEPT ![Home[t]] = @ + 1]
    /\ End(t)
    /\ UNCHANGED <<now, sqlite, surprised, redis, lock, running, attempted, watchVars>>

-----------------------------------------------------------------------------
(* The watchers, the clock, and the death of a process.                    *)

\* What load_previous_payload may return: Redis first, then SQLite.
Previous(k) ==
    (IF redis[k] # NoSeed THEN {redis[k]} ELSE {}) \cup {sqlite[k]}
    \cup (IF Busy THEN {NoSeed} ELSE {})

\* A fresh payload; after a failed build what was published before, with its
\* old clock, which without items the failed sources make unusable; or
\* without any of that the failure itself.
Updates(k) ==
    {[at |-> now, good |-> TRUE]}
    \cup (UNION {{p, [p EXCEPT !.good = FALSE]} : p \in Previous(k) \ {NoSeed}})
    \cup (IF NoSeed \in Previous(k)
          THEN {[at |-> at, good |-> FALSE] : at \in {Undated, now}} ELSE {})

WatchBuild(k) ==
    /\ k \in Watched
    /\ watch[k] = "idle"
    /\ \E payload \in Updates(k) : update' = [update EXCEPT ![k] = payload]
    /\ watch' = [watch EXCEPT ![k] = "sqlite"]
    /\ UNCHANGED <<now, sqlite, surprised, redis, lock, procVars, pc, key, draft>>

\* store_payload takes no fetch lock.  An error of SQLite ends the round of
\* the watcher before Redis is written.
WatchSqlite(k) ==
    /\ watch[k] = "sqlite"
    /\ \/ /\ sqlite' \in Stored(k, update[k])
          /\ surprised' = IF sqlite' = sqlite THEN surprised
                          ELSE surprised \cup {t \in Thread : pc[t] = "setSqlite" /\ key[t] = k}
          /\ watch' = [watch EXCEPT ![k] = "redis"]
          /\ UNCHANGED update
       \/ /\ watch' = [watch EXCEPT ![k] = "idle"]
          /\ update' = [update EXCEPT ![k] = NoSeed]
          /\ UNCHANGED <<sqlite, surprised>>
    /\ UNCHANGED <<now, redis, lock, procVars, pc, key, draft>>

WatchRedis(k) ==
    /\ watch[k] = "redis"
    /\ redis' \in {redis, [redis EXCEPT ![k] = update[k]]}
    /\ watch' = [watch EXCEPT ![k] = "idle"]
    /\ update' = [update EXCEPT ![k] = NoSeed]
    /\ UNCHANGED <<now, sqlite, surprised, lock, procVars, pc, key, draft>>

RedisExpires(k) ==
    /\ redis[k] # NoSeed
    /\ redis' = [redis EXCEPT ![k] = NoSeed]
    /\ UNCHANGED <<now, sqlite, surprised, lock, procVars, pc, key, draft, watchVars>>

Tick ==
    /\ now < MaxTime
    /\ now' = now + 1
    /\ UNCHANGED <<sqlite, surprised, redis, lock, procVars, pc, key, draft, watchVars>>

\* The kernel releases the locks of a dead process.
Exit(p) ==
    /\ running' = [running EXCEPT ![p] = {}]
    /\ attempted' = [attempted EXCEPT ![p] = [k \in Key |-> Never]]
    /\ slots' = [slots EXCEPT ![p] = Slots]
    /\ lock' = [s \in StripeOf |-> IF lock[s] # Nobody /\ Home[lock[s]] = p
                                   THEN Nobody ELSE lock[s]]
    /\ pc' = [t \in Thread |-> IF Home[t] = p THEN "idle" ELSE pc[t]]
    /\ key' = [t \in Thread |-> IF Home[t] = p THEN AnyKey ELSE key[t]]
    /\ draft' = [t \in Thread |-> IF Home[t] = p THEN NoSeed ELSE draft[t]]
    /\ surprised' = {t \in surprised : Home[t] # p}
    /\ UNCHANGED <<now, sqlite, redis, watchVars>>

-----------------------------------------------------------------------------
Step(t) == \/ Admit(t) \/ Start(t) \/ TakeLock(t) \/ ReadCurrent(t) \/ Build(t)
           \/ ReadLatest(t) \/ SetSqlite(t) \/ SetRedis(t) \/ Unlock(t)
           \/ Unmark(t) \/ Free(t)

Next ==
    \/ \E t \in Thread : Step(t) \/ \E k \in Key : Get(t, k)
    \/ \E k \in Key : \/ WatchBuild(k) \/ WatchSqlite(k) \/ WatchRedis(k)
                      \/ RedisExpires(k)
    \/ Tick
    \/ \E p \in Process : Exit(p)

Spec == Init /\ [][Next]_vars

-----------------------------------------------------------------------------
(* Properties.                                                             *)

\* Every variable keeps its type; the semaphore stays within its bound.
TypeOK ==
    /\ now \in 0..MaxTime
    /\ sqlite \in [Key -> Payload] /\ redis \in [Key -> Payload]
    /\ lock \in [StripeOf -> Thread \cup {Nobody}]
    /\ running \in [Process -> SUBSET Key]
    /\ attempted \in [Process -> [Key -> {Never} \cup 0..MaxTime]]
    /\ surprised \subseteq Thread
    /\ slots \in [Process -> 0..Slots]
    /\ pc \in [Thread -> Place]
    /\ key \in [Thread -> Key]
    /\ draft \in [Thread -> Payload]
    /\ watch \in [Key -> {"idle", "sqlite", "redis"}]
    /\ update \in [Key -> Payload]

\* The marks, the slots and the locks are those of the recoveries that are
\* where they need them: nothing leaks although threads fail to start, locks
\* are taken, builders raise and processes die, so a key is never refused for
\* good.  (With the types.)
MarkedIn(p) == {t \in Thread : Home[t] = p /\ pc[t] \in Marked}
BusyIn(p)   == MarkedIn(p) \cup {t \in Thread : Home[t] = p /\ pc[t] = "free"}

AdmissionIsExact ==
    /\ TypeOK
    /\ \A p \in Process : /\ running[p] = {key[t] : t \in MarkedIn(p)}
                          /\ slots[p] + Cardinality(BusyIn(p)) = Slots
    /\ \A s \in StripeOf :
          lock[s] # Nobody => pc[lock[s]] \in Locked /\ Stripe[key[lock[s]]] = s

\* Writing(t, k): this step writes the draft of recovery t over a good seed of k.
Writing(t, k) ==
    /\ pc[t] = "setSqlite" /\ pc'[t] = "setRedis" /\ key[t] = k
    /\ sqlite[k] # NoSeed /\ sqlite[k].good

\* A recovery never replaces a good seed by an older one, in all processes
\* together, unless SQLite could not be read at its last look or the watcher has
\* published between that look and the write.
RecoveriesRefuseNewer ==
    [][\A t \in Thread \ surprised, k \in Key :
          Writing(t, k) => sqlite'[k].at >= sqlite[k].at]_vars

\* docs/panel-runtime-lifecycle.md says of a recovery without exceptions that
\* it "refuses to overwrite a newer watcher publication".
RefusesNewer ==
    [][\A t \in Thread, k \in Key :
          Writing(t, k) => sqlite'[k].at >= sqlite[k].at]_vars
=============================================================================
