------------------------------ MODULE PanelReads ------------------------------
(***************************************************************************)
(* The read cache of the market panels                                     *)
(* (scripts/api/services/panel_read_cache.py).                             *)
(*                                                                         *)
(* A request looks in the memory of its worker, then in the SQLite store,  *)
(* then asks for one of the build permits of the host, takes the fetch     *)
(* lock of the key and looks again before it builds.  Permits and fetch    *)
(* locks are file locks, so a dying process gives them back.  A read with  *)
(* a stale answer may leave the rest to a thread of its own; a thread of   *)
(* this model then stands for that rebuild, the request being answered.    *)
(*                                                                         *)
(* Abstractions: ages are nondeterministic; two keys do not share a lock   *)
(* stripe (see SeedRecovery for that); the scan of try_permit, modelled in *)
(* ConnectionPool, may miss a permit while another is held; the health row *)
(* of a layer is written but not kept; retention limits are not reached.   *)
(***************************************************************************)
EXTENDS Integers, FiniteSets

CONSTANTS
    Worker, Thread,
    Home,           \* Home[t]: the worker of read t
    Key,
    UnboundedKey,   \* the keys read with admit=False: catalog, record, oracle
    BackgroundKey,  \* the keys read with background=True: group, slug
    Nobody,         \* no lock owner
    Builds,         \* capacity of the permit "panel-builds"
    SqliteBusy      \* another writer may hold the store

ASSUME ReadsAssumption ==
    /\ Home \in [Thread -> Worker]
    /\ Key # {} /\ UnboundedKey \subseteq Key /\ BackgroundKey \subseteq Key
    /\ Nobody \notin Thread
    /\ Builds \in Nat \ {0}
    /\ SqliteBusy \in BOOLEAN

VARIABLES
    row,        \* row[k]: the store's payload: "fresh", "stale", or neither ("absent")
    errors,     \* the keys with an unexpired row in the namespace of errors
    memory,     \* memory[w]: the keys in the worker's runtime cache
    permits,    \* free build permits of the host
    lock,       \* lock[k]: owner of the fetch lock
    stopped,    \* stopped[w]: the runtime was closed
    pc, key,
    background, \* background[t]: there is a stale answer, and it may be used first
    blind,      \* history: reads whose look under the lock met a busy store
    leaked      \* history: leaked[w]: the permits lost with threads that did not start

sharedVars == <<row, errors, memory, permits, lock, stopped, leaked>>
vars       == <<row, errors, memory, permits, lock, stopped, pc, key, background, blind,
                leaked>>

\* The places of a read, in the order of the code.
Looking  == {"get", "getStale", "getError", "permit"}
Locked   == {"reread", "recheck", "build", "store", "remember", "fail", "unlock"}
Admitted == {"start", "lock", "close"} \cup Locked

\* What "key" holds while a thread is idle; never read.
AnyKey == CHOOSE k \in Key : TRUE

Init ==
    /\ row \in [Key -> {"absent", "stale"}]
    /\ errors = {}
    /\ memory = [w \in Worker |-> {}]
    /\ permits = Builds
    /\ lock = [k \in Key |-> Nobody]
    /\ stopped = [w \in Worker |-> FALSE]
    /\ pc = [t \in Thread |-> "idle"]
    /\ key = [t \in Thread |-> AnyKey]
    /\ background = [t \in Thread |-> FALSE]
    /\ blind = {}
    /\ leaked = [w \in Worker |-> {}]

Goto(t, place) ==
    /\ pc' = [pc EXCEPT ![t] = place]
    /\ UNCHANGED <<key, background, blind>>

\* The same after a look that saw something or missed it.
Look(t, place, missed) ==
    /\ pc' = [pc EXCEPT ![t] = place]
    /\ blind' = IF missed THEN blind \cup {t} ELSE blind
    /\ UNCHANGED <<key, background>>

\* The answer is given and the thread's local variables are gone.
Done(t) ==
    /\ pc' = [pc EXCEPT ![t] = "idle"]
    /\ key' = [key EXCEPT ![t] = AnyKey]
    /\ background' = [background EXCEPT ![t] = FALSE]
    /\ blind' = blind \ {t}

\* What a read of the store may return instead of the truth.
Seen(truth, nothing) == IF SqliteBusy THEN {truth, nothing} ELSE {truth}

-----------------------------------------------------------------------------
(* get: before admission.                                                  *)

\* A request that the memory of its worker cannot answer.
Request(t, k) ==
    /\ pc[t] = "idle" /\ k \notin memory[Home[t]]
    /\ pc' = [pc EXCEPT ![t] = "get"]
    /\ key' = [key EXCEPT ![t] = k]
    /\ UNCHANGED <<sharedVars, background, blind>>

Get(t) ==
    /\ pc[t] = "get"
    /\ \E seen \in Seen(row[key[t]], "absent") :
          IF seen = "fresh" THEN Done(t) ELSE Goto(t, "getStale")
    /\ UNCHANGED sharedVars

\* get_stale also returns a row that became fresh meanwhile.
GetStale(t) ==
    /\ pc[t] = "getStale"
    /\ \E seen \in Seen(row[key[t]], "absent") :
          background' = [background EXCEPT
                            ![t] = seen # "absent" /\ key[t] \in BackgroundKey]
    /\ pc' = [pc EXCEPT ![t] = "getError"]
    /\ UNCHANGED <<sharedVars, key, blind>>

\* A cooling key is answered with what there is.
GetError(t) ==
    /\ pc[t] = "getError"
    /\ \E cooling \in Seen(key[t] \in errors, FALSE) :
          IF cooling THEN Done(t) ELSE Goto(t, "permit")
    /\ UNCHANGED sharedVars

AfterPermit(t) == IF background[t] THEN "start" ELSE "lock"

TryPermit(t) ==
    /\ pc[t] = "permit"
    /\ \/ /\ key[t] \in UnboundedKey
          /\ Goto(t, AfterPermit(t))
          /\ UNCHANGED permits
       \/ /\ key[t] \notin UnboundedKey /\ permits > 0
          /\ permits' = permits - 1
          /\ Goto(t, AfterPermit(t))
       \/ /\ key[t] \notin UnboundedKey /\ permits < Builds
          /\ Done(t)
          /\ UNCHANGED permits
    /\ UNCHANGED <<row, errors, memory, lock, stopped, leaked>>

\* Giving the permit back; closing one that is not a lock does nothing.
ReturnPermit(t) ==
    permits' = IF key[t] \in UnboundedKey THEN permits ELSE permits + 1

\* Fault: a refused thread keeps its permit.
StartKeepsPermit(t) ==
    /\ pc[t] = "start"
    /\ IF stopped[Home[t]] THEN Done(t) ELSE Goto(t, "lock")
    /\ UNCHANGED sharedVars

\* All the permits that are lost; permits are told apart by a number.
Leaks == UNION {leaked[w] : w \in Worker}

\* start_thread refuses when the runtime is closed.  And thread.start() may
\* raise, where nobody closes the permit: its file lock stays with the process.
Start(t) ==
    LET w == Home[t]
    IN  /\ pc[t] = "start"
        /\ \/ stopped[w] /\ Done(t) /\ ReturnPermit(t) /\ UNCHANGED leaked
           \/ ~stopped[w] /\ Goto(t, "lock") /\ UNCHANGED <<permits, leaked>>
           \/ /\ ~stopped[w]
              /\ Done(t)
              /\ IF key[t] \in UnboundedKey
                 THEN UNCHANGED leaked
                 ELSE \E n \in (1..Builds) \ Leaks :
                         leaked' = [leaked EXCEPT ![w] = @ \cup {n}]
              /\ UNCHANGED permits
        /\ UNCHANGED <<row, errors, memory, lock, stopped>>

-----------------------------------------------------------------------------
(* build, under the permit.                                                *)

\* Fault: wait for the lock, as the seed recovery does.
LockWaits(t) ==
    /\ pc[t] = "lock" /\ lock[key[t]] = Nobody
    /\ lock' = [lock EXCEPT ![key[t]] = t]
    /\ Goto(t, "reread")
    /\ UNCHANGED <<row, errors, memory, permits, stopped, leaked>>

\* Fault: build without the lock when it is taken.
LockIgnored(t) ==
    /\ pc[t] = "lock"
    /\ lock' = [lock EXCEPT ![key[t]] = t]
    /\ Goto(t, "reread")
    /\ UNCHANGED <<row, errors, memory, permits, stopped, leaked>>

\* fetch_lock with timeout 0: taken, or TimeoutError and the "warming" answer.
TakeLock(t) ==
    /\ pc[t] = "lock"
    /\ IF lock[key[t]] = Nobody
       THEN lock' = [lock EXCEPT ![key[t]] = t] /\ Goto(t, "reread")
       ELSE Goto(t, "close") /\ UNCHANGED lock
    /\ UNCHANGED <<row, errors, memory, permits, stopped, leaked>>

\* Fault: trust the look taken before the lock.
RereadSkipped(t) ==
    /\ pc[t] = "reread"
    /\ Goto(t, "recheck")
    /\ UNCHANGED sharedVars

\* Another worker may have finished while admission was pending ...
Reread(t) ==
    /\ pc[t] = "reread"
    /\ \E seen \in Seen(row[key[t]], "absent") :
          Look(t, IF seen = "fresh" THEN "unlock" ELSE "recheck", seen # row[key[t]])
    /\ UNCHANGED sharedVars

\* ... or failed.
Recheck(t) ==
    /\ pc[t] = "recheck"
    /\ \E cooling \in Seen(key[t] \in errors, FALSE) :
          Look(t, IF cooling THEN "unlock" ELSE "build", cooling # (key[t] \in errors))
    /\ UNCHANGED sharedVars

\* The builder returns a payload of bounded size, or something raises.
Build(t) ==
    /\ pc[t] = "build"
    /\ \E place \in {"store", "fail"} : Goto(t, place)
    /\ UNCHANGED sharedVars

\* store.set: written, swallowed because the store is busy, or raised.  The
\* health row of the layer comes next; when that raises, a stored payload
\* counts as a failed read.
Store(t) ==
    /\ pc[t] = "store"
    /\ \/ /\ row' = [row EXCEPT ![key[t]] = "fresh"]
          /\ \E place \in {"remember", "fail"} : Goto(t, place)
       \/ SqliteBusy /\ Goto(t, "remember") /\ UNCHANGED row
       \/ Goto(t, "fail") /\ UNCHANGED row
    /\ UNCHANGED <<errors, memory, permits, lock, stopped, leaked>>

Remember(t) ==
    /\ pc[t] = "remember"
    /\ memory' = [memory EXCEPT ![Home[t]] = @ \cup {key[t]}]
    /\ Goto(t, "unlock")
    /\ UNCHANGED <<row, errors, permits, lock, stopped, leaked>>

\* except: an error marker keeps everybody off the key for a while.  It is
\* missing if the health row before it raises, or if the store is busy.
Fail(t) ==
    /\ pc[t] = "fail"
    /\ errors' = errors \cup {key[t]} \/ UNCHANGED errors
    /\ Goto(t, "unlock")
    /\ UNCHANGED <<row, memory, permits, lock, stopped, leaked>>

\* Leaving the two with-statements, by return or by exception.
Unlock(t) ==
    /\ pc[t] = "unlock"
    /\ lock' = [lock EXCEPT ![key[t]] = Nobody]
    /\ Goto(t, "close")
    /\ UNCHANGED <<row, errors, memory, permits, stopped, leaked>>

ClosePermit(t) ==
    /\ pc[t] = "close"
    /\ ReturnPermit(t)
    /\ Done(t)
    /\ UNCHANGED <<row, errors, memory, lock, stopped, leaked>>

-----------------------------------------------------------------------------
(* Time and processes.                                                     *)

RowAges(k) ==
    /\ \/ row[k] = "fresh" /\ row' = [row EXCEPT ![k] = "stale"]
       \/ row[k] = "stale" /\ row' = [row EXCEPT ![k] = "absent"]
    /\ UNCHANGED <<errors, memory, permits, lock, stopped, pc, key, background, blind, leaked>>

CooldownEnds(k) ==
    /\ k \in errors
    /\ errors' = errors \ {k}
    /\ UNCHANGED <<row, memory, permits, lock, stopped, pc, key, background, blind, leaked>>

MemoryExpires(w, k) ==
    /\ k \in memory[w]
    /\ memory' = [memory EXCEPT ![w] = @ \ {k}]
    /\ UNCHANGED <<row, errors, permits, lock, stopped, pc, key, background, blind, leaked>>

Stop(w) ==
    /\ ~stopped[w]
    /\ stopped' = [stopped EXCEPT ![w] = TRUE]
    /\ UNCHANGED <<row, errors, memory, permits, lock, pc, key, background, blind, leaked>>

\* The reads of worker w that hold a permit.
Holders(w) ==
    {t \in Thread : Home[t] = w /\ pc[t] \in Admitted /\ key[t] \notin UnboundedKey}

\* A worker dies; the kernel drops its locks, and it is started again.
Exit(w) ==
    /\ permits' = permits + Cardinality(Holders(w)) + Cardinality(leaked[w])
    /\ leaked' = [leaked EXCEPT ![w] = {}]
    /\ lock' = [k \in Key |->
                   IF lock[k] # Nobody /\ Home[lock[k]] = w THEN Nobody ELSE lock[k]]
    /\ memory' = [memory EXCEPT ![w] = {}]
    /\ stopped' = [stopped EXCEPT ![w] = FALSE]
    /\ pc' = [t \in Thread |-> IF Home[t] = w THEN "idle" ELSE pc[t]]
    /\ key' = [t \in Thread |-> IF Home[t] = w THEN AnyKey ELSE key[t]]
    /\ background' = [t \in Thread |-> Home[t] # w /\ background[t]]
    /\ blind' = {t \in blind : Home[t] # w}
    /\ UNCHANGED <<row, errors>>

\* What a read does by itself.
Step(t) ==
    \/ Get(t) \/ GetStale(t) \/ GetError(t) \/ TryPermit(t) \/ Start(t)
    \/ TakeLock(t) \/ Reread(t) \/ Recheck(t) \/ Build(t) \/ Store(t)
    \/ Remember(t) \/ Fail(t) \/ Unlock(t) \/ ClosePermit(t)

Next ==
    \/ \E t \in Thread : Step(t) \/ \E k \in Key : Request(t, k)
    \/ \E k \in Key : RowAges(k) \/ CooldownEnds(k)
    \/ \E w \in Worker : Stop(w) \/ Exit(w) \/ \E k \in Key : MemoryExpires(w, k)

Spec == Init /\ [][Next]_vars

-----------------------------------------------------------------------------
(* Properties.                                                             *)

\* The types of the variables of panel_read_cache.py and of the store.
TypeOK ==
    /\ row \in [Key -> {"absent", "stale", "fresh"}]
    /\ errors \subseteq Key
    /\ memory \in [Worker -> SUBSET Key]
    /\ permits \in 0..Builds
    /\ lock \in [Key -> Thread \cup {Nobody}]
    /\ stopped \in [Worker -> BOOLEAN]
    /\ pc \in [Thread -> {"idle"} \cup Looking \cup Admitted]
    /\ key \in [Thread -> Key]
    /\ background \in [Thread -> BOOLEAN]
    /\ blind \subseteq Thread
    /\ leaked \in [Worker -> SUBSET (1..Builds)]

\* Every permit that is not free is held by a read that will close it, or was
\* lost with a thread that did not start, until its worker dies: none leaks on a
\* refusal, a lost lock, a failure, a stop or a death, and none is given back
\* twice.  (With the types.)
PermitsAreExact ==
    /\ TypeOK
    /\ permits + Cardinality(UNION {Holders(w) : w \in Worker}) + Cardinality(Leaks) = Builds

\* At most one builder of a key runs on the host, whatever was admitted.
OneBuilderPerKey ==
    \A t, u \in Thread :
        t # u /\ pc[t] \in Locked /\ pc[u] \in Locked => key[t] # key[u]

\* When a builder runs for a key, there is no answer that is still good, and no
\* failure that is still cooling: the two looks under the lock are enough,
\* unless the store was too busy to be read.
BuildsAreNeeded ==
    \A t \in Thread :
        pc[t] = "build" /\ t \notin blind
            => row[key[t]] # "fresh" /\ key[t] \notin errors

\* A read never waits for another: "same-key cold requests do not wait".
NobodyWaits == \A t \in Thread : pc[t] # "idle" => ENABLED Step(t)
=============================================================================
