------------------------- MODULE SeedRecoveryProofs -------------------------
(* Theorems about SeedRecovery, for every set of processes, recoveries,    *)
(* panels and lock files, every number of slots and every clock.           *)
EXTENDS SeedRecovery, FiniteSetTheorems, TLAPS

(***************************************************************************)
(* The inductive invariant.  AdmissionIsExact needs to know in addition    *)
(* that the recoveries of a process have different keys (Unmark would      *)
(* otherwise take the mark of another one) and that whoever is under a     *)
(* fetch lock has it.  RecoveriesRefuseNewer rests on the latter, since it *)
(* keeps the other recoveries away from the row, and on what the last look *)
(* at SQLite has shown.                                                    *)
(***************************************************************************)

SlotsInv ==
    \A p \in Process : /\ IsFiniteSet(BusyIn(p))
                       /\ slots[p] + Cardinality(BusyIn(p)) = Slots

MarksInv ==
    /\ \A p \in Process : running[p] = {key[t] : t \in MarkedIn(p)}
    /\ \A p \in Process : \A t, u \in MarkedIn(p) : key[t] = key[u] => t = u

LockInv ==
    /\ \A t \in Thread : pc[t] \in Locked => lock[Stripe[key[t]]] = t
    /\ \A s \in StripeOf :
          lock[s] # Nobody => pc[lock[s]] \in Locked /\ Stripe[key[lock[s]]] = s

\* What a recovery may be about to write is a payload with a time.
Drafted == {"latest", "setSqlite", "setRedis"}
DraftInv ==
    \A t \in Thread : pc[t] \in Drafted => draft[t] \in [at : 0..MaxTime, good : BOOLEAN]

\* Since its last look nobody has put a newer seed in the way of a recovery.
NewestInv ==
    \A t \in Thread \ surprised :
        pc[t] = "setSqlite" /\ sqlite[key[t]] # NoSeed => sqlite[key[t]].at <= draft[t].at

IInv == TypeOK /\ SlotsInv /\ MarksInv /\ LockInv /\ DraftInv /\ NewestInv

LEMMA AnyKeyIsKey == AnyKey \in Key
  BY RecoveryAssumption DEF AnyKey

\* Where a recovery is busy, its process has one unit less in stock.
LEMMA BusyIsCounted ==
    ASSUME IInv, NEW t \in Thread, pc[t] \in Marked \cup {"free"}
    PROVE  slots[Home[t]] < Slots
  <1> DEFINE p == Home[t]
  <1>1. p \in Process /\ t \in BusyIn(p)
    BY RecoveryAssumption DEF BusyIn, MarkedIn
  <1>2. Cardinality(BusyIn(p)) \in Nat /\ Cardinality(BusyIn(p)) # 0
    BY <1>1, FS_CardinalityType, FS_EmptySet DEF IInv, SlotsInv
  <1> QED
    BY <1>1, <1>2, RecoveryAssumption DEF IInv, SlotsInv, TypeOK

\* A payload is nothing or has a time, and its time is a number.
LEMMA PayloadTime ==
    ASSUME NEW seen \in Payload, seen # NoSeed
    PROVE  seen \in [at : {Undated} \cup 0..MaxTime, good : BOOLEAN] /\ seen.at \in Int
  BY RecoveryAssumption DEF Payload, Undated

\* What can be read is what some tier holds, or nothing.
LEMMA ReadingsArePayloads ==
    ASSUME TypeOK, NEW k \in Key
    PROVE  Readings(k) \subseteq Payload
  BY DEF Readings, TypeOK, Payload

\* What a watcher publishes is well formed whatever it could read.
LEMMA UpdatesArePayloads ==
    ASSUME TypeOK, NEW k \in Key
    PROVE  Updates(k) \subseteq Payload
  <1>1. Previous(k) \subseteq Payload
    BY DEF Previous, TypeOK, Payload
  <1>2. ASSUME NEW x \in Previous(k) \ {NoSeed}
        PROVE  x \in Payload /\ [x EXCEPT !.good = FALSE] \in Payload
    BY <1>1, <1>2 DEF Payload
  <1>3. /\ [at |-> now, good |-> TRUE] \in Payload
        /\ \A at \in {Undated, now} : [at |-> at, good |-> FALSE] \in Payload
    BY DEF TypeOK, Payload
  <1> DEFINE Fresh  == {[at |-> now, good |-> TRUE]}
             Kept   == UNION {{x, [x EXCEPT !.good = FALSE]} : x \in Previous(k) \ {NoSeed}}
             Failed == IF NoSeed \in Previous(k)
                       THEN {[at |-> at, good |-> FALSE] : at \in {Undated, now}} ELSE {}
  <1>4. Updates(k) = Fresh \cup Kept \cup Failed
    BY DEF Updates
  <1>5. Fresh \subseteq Payload /\ Failed \subseteq Payload
    BY <1>3
  <1>6. Kept \subseteq Payload
    BY <1>2
  <1> HIDE DEF Fresh, Kept, Failed
  <1> QED
    BY <1>4, <1>5, <1>6

\* A write of a payload to SQLite leaves payloads there.
LEMMA StoredIsPayload ==
    ASSUME TypeOK, NEW k \in Key, NEW payload \in Payload, sqlite' \in Stored(k, payload) \cup {sqlite}
    PROVE  sqlite' \in [Key -> Payload]
  BY DEF Stored, TypeOK

(***************************************************************************)
(* Types.                                                                  *)
(***************************************************************************)

\* Every variable keeps its type.
LEMMA TypeStep == IInv /\ [Next]_vars => TypeOK'
  <1> SUFFICES ASSUME IInv, [Next]_vars PROVE TypeOK'
    OBVIOUS
  <1> USE RecoveryAssumption, AnyKeyIsKey DEF procVars, watchVars
  <1>0. TypeOK
    BY DEF IInv
  <1>1. ASSUME NEW t \in Thread, NEW k \in Key, Get(t, k) PROVE TypeOK'
    BY <1>0, <1>1 DEF Get, Goto, TypeOK, Place
  <1>2. ASSUME NEW t \in Thread, End(t)
        PROVE  /\ pc' \in [Thread -> Place] /\ key' \in [Thread -> Key]
               /\ draft' \in [Thread -> Payload]
    BY <1>0, <1>2 DEF End, Goto, TypeOK, Place, Payload
  <1>3. ASSUME NEW t \in Thread, Admit(t) PROVE TypeOK'
    <2> DEFINE p == Home[t]
    <2>1. CASE Refused(p, key[t])
      BY <1>0, <1>2, <1>3, <2>1 DEF Admit, TypeOK
    <2>2. CASE ~Refused(p, key[t])
      <3>1. /\ running' = [running EXCEPT ![p] = @ \cup {key[t]}]
            /\ attempted' = [attempted EXCEPT ![p] = Purged(p, key[t])]
            /\ slots' = [slots EXCEPT ![p] = @ - 1] /\ slots[p] # 0
            /\ pc' = [pc EXCEPT ![t] = "start"]
            /\ UNCHANGED <<now, sqlite, surprised, redis, lock, key, draft, watch, update>>
        BY <1>3, <2>2 DEF Admit, Refused, Goto
      <3>2. attempted' \in [Process -> [Key -> {Never} \cup 0..MaxTime]]
        <4>1. Purged(p, key[t]) \in [Key -> {Never} \cup 0..MaxTime]
          BY <1>0 DEF TypeOK, Purged
        <4> QED
          BY <1>0, <3>1, <4>1 DEF TypeOK
      <3>3. slots' \in [Process -> 0..Slots]
        <4>1. p \in Process /\ slots[p] - 1 \in 0..Slots
          <5>1. p \in Process /\ slots[p] \in 0..Slots
            BY <1>0 DEF TypeOK
          <5> QED
            BY <3>1, <5>1
        <4> QED
          BY <1>0, <3>1, <4>1 DEF TypeOK
      <3>4. running' \in [Process -> SUBSET Key]
        BY <1>0, <3>1 DEF TypeOK
      <3>5. pc' \in [Thread -> Place]
        BY <1>0, <3>1 DEF TypeOK, Place, Marked
      <3> QED
        BY <1>0, <3>1, <3>2, <3>3, <3>4, <3>5 DEF TypeOK
    <2> QED
      BY <2>1, <2>2
  <1>4. ASSUME NEW t \in Thread, Start(t) PROVE TypeOK'
    BY <1>0, <1>4 DEF Start, Goto, TypeOK, Place, Marked
  <1>5. ASSUME NEW t \in Thread, TakeLock(t) PROVE TypeOK'
    <2>1. pc' \in [Thread -> Place]
      BY <1>0, <1>5 DEF TakeLock, Goto, TypeOK, Place, Marked, Locked
    <2>2. lock' \in [StripeOf -> Thread \cup {Nobody}]
      BY <1>0, <1>5 DEF TakeLock, TypeOK
    <2>3. UNCHANGED <<now, sqlite, surprised, redis, procVars, key, draft, watchVars>>
      BY <1>5 DEF TakeLock
    <2> QED
      BY <1>0, <2>1, <2>2, <2>3 DEF TypeOK
  <1>6. ASSUME NEW t \in Thread, ReadCurrent(t) PROVE TypeOK'
    <2>1. PICK place \in {"unlock", "build"} : pc' = [pc EXCEPT ![t] = place]
      BY <1>6, Zenon DEF ReadCurrent, Goto
    <2>2. pc' \in [Thread -> Place]
      BY <1>0, <2>1 DEF TypeOK, Place, Marked, Locked
    <2>3. UNCHANGED <<now, sqlite, surprised, redis, lock, procVars, key, draft, watchVars>>
      BY <1>6 DEF ReadCurrent
    <2> QED
      BY <1>0, <2>2, <2>3 DEF TypeOK
  <1>7. ASSUME NEW t \in Thread, Build(t) PROVE TypeOK'
    <2>1. pc' \in [Thread -> Place]
      BY <1>0, <1>7 DEF Build, Goto, TypeOK, Place, Marked, Locked
    <2>2. draft' \in [Thread -> Payload]
      <3>1. [at |-> now, good |-> TRUE] \in Payload
        BY <1>0 DEF TypeOK, Payload
      <3>2. draft' = [draft EXCEPT ![t] = [at |-> now, good |-> TRUE]] \/ draft' = draft
        BY <1>7 DEF Build
      <3> QED
        BY <1>0, <3>1, <3>2 DEF TypeOK
    <2> QED
      BY <1>0, <1>7, <2>1, <2>2 DEF Build, TypeOK
  <1>8. ASSUME NEW t \in Thread, ReadLatest(t) PROVE TypeOK'
    <2>1. surprised' \subseteq Thread
      BY <1>0, <1>8 DEF ReadLatest, TypeOK
    <2>2. pc' \in [Thread -> Place]
      BY <1>0, <1>8 DEF ReadLatest, Goto, TypeOK, Place, Marked, Locked
    <2>3. UNCHANGED <<now, sqlite, redis, lock, procVars, key, draft, watchVars>>
      BY <1>8 DEF ReadLatest
    <2> QED
      BY <1>0, <2>1, <2>2, <2>3 DEF TypeOK
  <1>9. ASSUME NEW t \in Thread, SetSqlite(t) PROVE TypeOK'
    <2>1. sqlite' \in [Key -> Payload]
      BY <1>0, <1>9, StoredIsPayload DEF SetSqlite, TypeOK
    <2> QED
      BY <1>0, <1>9, <2>1 DEF SetSqlite, Goto, TypeOK, Place, Marked, Locked
  <1>10. ASSUME NEW t \in Thread, SetRedis(t) PROVE TypeOK'
    BY <1>0, <1>10 DEF SetRedis, Goto, TypeOK, Place, Marked, Locked
  <1>11. ASSUME NEW t \in Thread, Unlock(t) PROVE TypeOK'
    BY <1>0, <1>11 DEF Unlock, Goto, TypeOK, Place, Marked, Locked
  <1>12. ASSUME NEW t \in Thread, Unmark(t) PROVE TypeOK'
    BY <1>0, <1>12 DEF Unmark, Goto, TypeOK, Place, Marked
  <1>13. ASSUME NEW t \in Thread, Free(t) PROVE TypeOK'
    <2>1. slots' \in [Process -> 0..Slots]
      <3>1. slots[Home[t]] < Slots
        BY <1>13, BusyIsCounted DEF Free
      <3> QED
        BY <1>0, <1>13, <3>1 DEF Free, TypeOK
    <2> QED
      BY <1>0, <1>2, <1>13, <2>1 DEF Free, TypeOK
  <1>14. ASSUME NEW k \in Key, WatchBuild(k) PROVE TypeOK'
    <2>1. update' \in [Key -> Payload]
      BY <1>0, <1>14, UpdatesArePayloads DEF WatchBuild, TypeOK
    <2> QED
      BY <1>0, <1>14, <2>1 DEF WatchBuild, TypeOK
  <1>15. ASSUME NEW k \in Key, WatchSqlite(k) PROVE TypeOK'
    <2>1. UNCHANGED <<now, redis, lock, procVars, pc, key, draft>>
      BY <1>15 DEF WatchSqlite
    <2>2. sqlite' \in [Key -> Payload]
      BY <1>0, <1>15, StoredIsPayload DEF WatchSqlite, TypeOK
    <2>3. surprised' \subseteq Thread
      BY <1>0, <1>15 DEF WatchSqlite, TypeOK
    <2>4. watch' \in [Key -> {"idle", "sqlite", "redis"}] /\ update' \in [Key -> Payload]
      BY <1>0, <1>15 DEF WatchSqlite, TypeOK, Payload
    <2> QED
      BY <1>0, <2>1, <2>2, <2>3, <2>4 DEF TypeOK
  <1>16. ASSUME NEW k \in Key, WatchRedis(k) PROVE TypeOK'
    BY <1>0, <1>16 DEF WatchRedis, TypeOK, Payload
  <1>17. ASSUME NEW k \in Key, RedisExpires(k) PROVE TypeOK'
    BY <1>0, <1>17 DEF RedisExpires, TypeOK, Payload
  <1>18. ASSUME Tick PROVE TypeOK'
    BY <1>0, <1>18 DEF Tick, TypeOK, Payload
  <1>19. ASSUME NEW p \in Process, Exit(p) PROVE TypeOK'
    <2>1. pc' \in [Thread -> Place] /\ key' \in [Thread -> Key] /\ draft' \in [Thread -> Payload]
      BY <1>0, <1>19 DEF Exit, TypeOK, Place, Payload
    <2>2. lock' \in [StripeOf -> Thread \cup {Nobody}] /\ surprised' \subseteq Thread
      BY <1>0, <1>19 DEF Exit, TypeOK
    <2>3. /\ running' \in [Process -> SUBSET Key] /\ slots' \in [Process -> 0..Slots]
          /\ attempted' \in [Process -> [Key -> {Never} \cup 0..MaxTime]]
      BY <1>0, <1>19 DEF Exit, TypeOK
    <2> QED
      BY <1>0, <1>19, <2>1, <2>2, <2>3 DEF Exit, TypeOK
  <1>20. ASSUME UNCHANGED vars PROVE TypeOK'
    BY <1>0, <1>20 DEF vars, TypeOK
  <1> QED
    BY <1>1, <1>3, <1>4, <1>5, <1>6, <1>7, <1>8, <1>9, <1>10, <1>11, <1>12,
       <1>13, <1>14, <1>15, <1>16, <1>17, <1>18, <1>19, <1>20 DEF Next, Step

(***************************************************************************)
(* Slots and marks.                                                        *)
(***************************************************************************)

Busying == Marked \cup {"free"}

\* The steps of a recovery between its admission and its end, and the others.
LEMMA QuietSteps ==
    ASSUME IInv, NEW t \in Thread,
           \/ Start(t) \/ TakeLock(t) \/ ReadCurrent(t) \/ Build(t) \/ ReadLatest(t)
           \/ SetSqlite(t) \/ SetRedis(t) \/ Unlock(t)
    PROVE  /\ UNCHANGED <<running, slots, key>> /\ pc[t] \in Marked
           /\ \E place \in Marked : pc' = [pc EXCEPT ![t] = place]
  <1>1. UNCHANGED <<running, slots, key>> /\ pc[t] \in Marked
    BY DEF Start, TakeLock, ReadCurrent, Build, ReadLatest, SetSqlite, SetRedis, Unlock,
           procVars, Marked, Locked
  <1>2. \E place \in Marked : pc' = [pc EXCEPT ![t] = place]
    BY Zenon DEF Start, TakeLock, ReadCurrent, Build, ReadLatest, SetSqlite, SetRedis, Unlock,
                 Goto, Marked, Locked
  <1> QED
    BY <1>1, <1>2

\* What the watchers, the clock and the expiry of a key leave alone.
LEMMA WorldSteps ==
    ASSUME \/ \E k \in Key : \/ WatchBuild(k) \/ WatchSqlite(k) \/ WatchRedis(k)
                             \/ RedisExpires(k)
           \/ Tick \/ UNCHANGED vars
    PROVE  UNCHANGED <<lock, running, attempted, slots, pc, key, draft>>
  BY DEF WatchBuild, WatchSqlite, WatchRedis, RedisExpires, Tick, vars, procVars

\* Only Admit takes a unit, only Free and the end of the process return one.
LEMMA SlotsStep == IInv /\ [Next]_vars => SlotsInv'
  <1> SUFFICES ASSUME IInv, [Next]_vars PROVE SlotsInv'
    OBVIOUS
  <1> USE RecoveryAssumption DEF IInv, TypeOK
  <1>1. ASSUME UNCHANGED slots, \A t \in Thread : pc'[t] \in Busying <=> pc[t] \in Busying
        PROVE  SlotsInv'
    <2>1. \A p \in Process : BusyIn(p)' = BusyIn(p)
      BY <1>1 DEF BusyIn, MarkedIn, Busying
    <2> QED
      BY <1>1, <2>1 DEF SlotsInv
  <1>2. ASSUME NEW t \in Thread, Admit(t), ~Refused(Home[t], key[t]) PROVE SlotsInv'
    <2> DEFINE p == Home[t]
    <2>1. /\ slots' = [slots EXCEPT ![p] = @ - 1]
          /\ pc' = [pc EXCEPT ![t] = "start"] /\ pc[t] = "admit"
      BY <1>2 DEF Admit, Goto
    <2>2. /\ BusyIn(p)' = BusyIn(p) \cup {t} /\ t \notin BusyIn(p)
          /\ \A q \in Process : q # p => BusyIn(q)' = BusyIn(q)
      BY <2>1 DEF BusyIn, MarkedIn, Marked, Locked
    <2>3. \A q \in Process : IsFiniteSet(BusyIn(q)) /\ Cardinality(BusyIn(q)) \in Nat
      BY FS_CardinalityType DEF SlotsInv
    <2>4. /\ IsFiniteSet(BusyIn(p)')
          /\ Cardinality(BusyIn(p)') = Cardinality(BusyIn(p)) + 1
      BY <2>2, <2>3, FS_AddElement
    <2>5. slots[p] + Cardinality(BusyIn(p)) = Slots
      BY DEF SlotsInv
    <2>6. slots'[p] + Cardinality(BusyIn(p)') = Slots
      BY <2>1, <2>3, <2>4, <2>5
    <2>7. ASSUME NEW q \in Process, q # p
          PROVE  IsFiniteSet(BusyIn(q)') /\ slots'[q] + Cardinality(BusyIn(q)') = Slots
      BY <2>1, <2>2, <2>7 DEF SlotsInv
    <2> QED
      BY <2>4, <2>6, <2>7 DEF SlotsInv
  <1>3. ASSUME NEW t \in Thread, Free(t) PROVE SlotsInv'
    <2> DEFINE p == Home[t]
    <2>1. /\ slots' = [slots EXCEPT ![p] = @ + 1]
          /\ pc' = [pc EXCEPT ![t] = "idle"] /\ pc[t] = "free"
      BY <1>3 DEF Free, End, Goto
    <2>2. /\ BusyIn(p)' = BusyIn(p) \ {t} /\ t \in BusyIn(p)
          /\ \A q \in Process : q # p => BusyIn(q)' = BusyIn(q)
      BY <2>1 DEF BusyIn, MarkedIn, Marked, Locked
    <2>3. \A q \in Process : IsFiniteSet(BusyIn(q)) /\ Cardinality(BusyIn(q)) \in Nat
      BY FS_CardinalityType DEF SlotsInv
    <2>4. /\ IsFiniteSet(BusyIn(p)')
          /\ Cardinality(BusyIn(p)') = Cardinality(BusyIn(p)) - 1
      BY <2>2, <2>3, FS_RemoveElement
    <2>5. slots[p] + Cardinality(BusyIn(p)) = Slots
      BY DEF SlotsInv
    <2>6. slots'[p] + Cardinality(BusyIn(p)') = Slots
      BY <2>1, <2>3, <2>4, <2>5
    <2>7. ASSUME NEW q \in Process, q # p
          PROVE  IsFiniteSet(BusyIn(q)') /\ slots'[q] + Cardinality(BusyIn(q)') = Slots
      BY <2>1, <2>2, <2>7 DEF SlotsInv
    <2> QED
      BY <2>4, <2>6, <2>7 DEF SlotsInv
  <1>4. ASSUME NEW p \in Process, Exit(p) PROVE SlotsInv'
    <2>1. /\ BusyIn(p)' = {}
          /\ \A q \in Process : q # p => BusyIn(q)' = BusyIn(q)
          /\ slots' = [slots EXCEPT ![p] = Slots]
      BY <1>4 DEF Exit, BusyIn, MarkedIn, Marked, Locked
    <2>2. IsFiniteSet(BusyIn(p)') /\ slots'[p] + Cardinality(BusyIn(p)') = Slots
      BY <2>1, FS_EmptySet
    <2>3. ASSUME NEW q \in Process, q # p
          PROVE  IsFiniteSet(BusyIn(q)') /\ slots'[q] + Cardinality(BusyIn(q)') = Slots
      BY <2>1, <2>3 DEF SlotsInv
    <2> QED
      BY <2>2, <2>3 DEF SlotsInv
  <1>5. ASSUME NEW t \in Thread,
               \/ Start(t) \/ TakeLock(t) \/ ReadCurrent(t) \/ Build(t) \/ ReadLatest(t)
               \/ SetSqlite(t) \/ SetRedis(t) \/ Unlock(t)
        PROVE  SlotsInv'
    BY <1>5, <1>1, QuietSteps DEF Busying
  <1>6. ASSUME NEW t \in Thread,
               \/ \E k \in Key : Get(t, k)
               \/ Admit(t) /\ Refused(Home[t], key[t])
               \/ Unmark(t)
        PROVE  SlotsInv'
    <2>1. UNCHANGED slots /\ (pc'[t] \in Busying <=> pc[t] \in Busying)
      BY <1>6 DEF Get, Admit, Unmark, End, Goto, procVars, Busying, Marked, Locked
    <2>2. \A u \in Thread \ {t} : pc'[u] = pc[u]
      BY <1>6 DEF Get, Admit, Unmark, End, Goto
    <2> QED
      BY <2>1, <2>2, <1>1
  <1>7. ASSUME UNCHANGED <<slots, pc>> PROVE SlotsInv'
    BY <1>1, <1>7
  <1> QED
    BY <1>2, <1>3, <1>4, <1>5, <1>6, <1>7, WorldSteps DEF Next, Step

\* Functions that agree on a set have the same image of it.
LEMMA SameImage ==
    ASSUME NEW S, NEW f, NEW g, \A x \in S : f[x] = g[x]
    PROVE  {f[x] : x \in S} = {g[x] : x \in S}
  OBVIOUS

\* A step that starts or ends no mark.
LEMMA SameMarks ==
    ASSUME IInv, UNCHANGED running,
           \A t \in Thread : /\ pc'[t] \in Marked <=> pc[t] \in Marked
                             /\ pc[t] \in Marked => key'[t] = key[t]
    PROVE  MarksInv'
  <1>1. \A p \in Process : MarkedIn(p)' = MarkedIn(p)
    BY DEF MarkedIn
  <1>2. \A p \in Process : \A t \in MarkedIn(p) : key'[t] = key[t]
    BY DEF MarkedIn
  <1>3. \A p \in Process : {key'[t] : t \in MarkedIn(p)'} = {key[t] : t \in MarkedIn(p)}
    BY <1>1, <1>2
  <1> QED
    BY <1>1, <1>2, <1>3 DEF IInv, MarksInv

\* The mark of a key is set by Admit, which refuses a marked key, and taken
\* back by Unmark.
LEMMA MarksStep == IInv /\ [Next]_vars => MarksInv'
  <1> SUFFICES ASSUME IInv, [Next]_vars PROVE MarksInv'
    OBVIOUS
  <1> USE RecoveryAssumption DEF IInv, TypeOK, Goto
  <1>1. ASSUME NEW t \in Thread, Admit(t), ~Refused(Home[t], key[t]) PROVE MarksInv'
    <2> DEFINE p == Home[t]
    <2>1. /\ pc[t] = "admit" /\ key[t] \notin running[p]
          /\ running' = [running EXCEPT ![p] = @ \cup {key[t]}]
          /\ pc' = [pc EXCEPT ![t] = "start"]
          /\ UNCHANGED key
      BY <1>1 DEF Admit, Refused
    <2>2. /\ MarkedIn(p)' = MarkedIn(p) \cup {t}
          /\ \A q \in Process : q # p => MarkedIn(q)' = MarkedIn(q)
      BY <2>1 DEF MarkedIn, Marked
    <2>3. running[p] = {key[u] : u \in MarkedIn(p)}
      BY DEF MarksInv
    <2>4. running'[p] = {key'[u] : u \in MarkedIn(p)'}
      BY <2>1, <2>2, <2>3
    <2>5. \A u \in MarkedIn(p) : key[u] # key[t]
      BY <2>1, <2>3
    <2>6. ASSUME NEW q \in Process, q # p
          PROVE  running'[q] = {key'[u] : u \in MarkedIn(q)'}
      BY <2>1, <2>2, <2>6 DEF MarksInv
    <2>7. \A q \in Process : \A x, y \in MarkedIn(q)' : key'[x] = key'[y] => x = y
      BY <2>1, <2>2, <2>5 DEF MarksInv
    <2> QED
      BY <2>4, <2>6, <2>7 DEF MarksInv
  <1>2. ASSUME NEW t \in Thread, Unmark(t) PROVE MarksInv'
    <2> DEFINE p == Home[t]
    <2>1. /\ pc[t] = "unmark"
          /\ running' = [running EXCEPT ![p] = @ \ {key[t]}]
          /\ pc' = [pc EXCEPT ![t] = "free"]
          /\ UNCHANGED key
      BY <1>2 DEF Unmark
    <2>2. /\ MarkedIn(p)' = MarkedIn(p) \ {t} /\ t \in MarkedIn(p)
          /\ \A q \in Process : q # p => MarkedIn(q)' = MarkedIn(q)
      BY <2>1 DEF MarkedIn, Marked, Locked
    <2>3. /\ running[p] = {key[u] : u \in MarkedIn(p)}
          /\ \A u \in MarkedIn(p) : key[u] = key[t] => u = t
      BY <2>2 DEF MarksInv
    <2>4. running'[p] = {key'[u] : u \in MarkedIn(p)'}
      BY <2>1, <2>2, <2>3
    <2>5. ASSUME NEW q \in Process, q # p
          PROVE  running'[q] = {key'[u] : u \in MarkedIn(q)'}
      BY <2>1, <2>2, <2>5 DEF MarksInv
    <2>6. ASSUME NEW q \in Process
          PROVE  \A x, y \in MarkedIn(q)' : key'[x] = key'[y] => x = y
      <3>1. MarkedIn(q)' \subseteq MarkedIn(q)
        BY <2>2
      <3>2. \A x, y \in MarkedIn(q) : key[x] = key[y] => x = y
        BY DEF MarksInv
      <3> QED
        BY <2>1, <3>1, <3>2
    <2> QED
      BY <2>4, <2>5, <2>6 DEF MarksInv
  <1>3. ASSUME NEW p \in Process, Exit(p) PROVE MarksInv'
    <2>1. /\ MarkedIn(p)' = {}
          /\ \A q \in Process : q # p => MarkedIn(q)' = MarkedIn(q)
          /\ \A q \in Process : q # p => \A t \in MarkedIn(q) : key'[t] = key[t]
          /\ running' = [running EXCEPT ![p] = {}]
      BY <1>3 DEF Exit, MarkedIn, Marked, Locked
    <2>2. ASSUME NEW q \in Process, q # p
          PROVE  {key'[t] : t \in MarkedIn(q)'} = {key[t] : t \in MarkedIn(q)}
      <3>1. MarkedIn(q)' = MarkedIn(q) /\ \A t \in MarkedIn(q) : key'[t] = key[t]
        BY <2>1, <2>2
      <3>2. {key'[t] : t \in MarkedIn(q)} = {key[t] : t \in MarkedIn(q)}
        BY <3>1, SameImage
      <3> QED
        BY <3>1, <3>2
    <2>3. running'[p] = {key'[t] : t \in MarkedIn(p)'}
      BY <2>1
    <2>4. ASSUME NEW q \in Process, q # p
          PROVE  running'[q] = {key'[t] : t \in MarkedIn(q)'}
      BY <2>1, <2>2, <2>4 DEF MarksInv
    <2>5. \A q \in Process : \A x, y \in MarkedIn(q)' : key'[x] = key'[y] => x = y
      BY <2>1 DEF MarksInv
    <2> QED
      BY <2>3, <2>4, <2>5 DEF MarksInv
  <1>4. ASSUME NEW t \in Thread,
               \/ Start(t) \/ TakeLock(t) \/ ReadCurrent(t) \/ Build(t) \/ ReadLatest(t)
               \/ SetSqlite(t) \/ SetRedis(t) \/ Unlock(t)
        PROVE  MarksInv'
    BY <1>4, QuietSteps, SameMarks
  <1>5. ASSUME NEW t \in Thread,
               \/ \E k \in Key : Get(t, k)
               \/ Admit(t) /\ Refused(Home[t], key[t])
               \/ Free(t)
        PROVE  MarksInv'
    <2>1. UNCHANGED running /\ pc'[t] \notin Marked /\ pc[t] \notin Marked
      BY <1>5 DEF Get, Admit, Free, End, procVars, Marked, Locked
    <2>2. \A u \in Thread \ {t} : pc'[u] = pc[u] /\ key'[u] = key[u]
      BY <1>5 DEF Get, Admit, Free, End
    <2> QED
      BY <2>1, <2>2, SameMarks
  <1>6. ASSUME UNCHANGED <<running, pc, key>> PROVE MarksInv'
    BY <1>6, SameMarks
  <1> QED
    BY <1>1, <1>2, <1>3, <1>4, <1>5, <1>6, WorldSteps DEF Next, Step

(***************************************************************************)
(* The fetch locks.                                                        *)
(***************************************************************************)

\* A lock file is locked when free and unlocked by its holder.
LEMMA LockStep == IInv /\ [Next]_vars => LockInv'
  <1> SUFFICES ASSUME IInv, [Next]_vars PROVE LockInv'
    OBVIOUS
  <1> USE RecoveryAssumption DEF IInv, TypeOK, Goto
  <1>0. \A t \in Thread : Stripe[key[t]] \in StripeOf
    BY DEF StripeOf
  <1>1. ASSUME UNCHANGED lock,
               \A t \in Thread : /\ pc'[t] \in Locked <=> pc[t] \in Locked
                                 /\ pc[t] \in Locked => key'[t] = key[t]
        PROVE  LockInv'
    BY <1>1 DEF LockInv
  <1>2. ASSUME NEW t \in Thread, TakeLock(t), lock[Stripe[key[t]]] = Nobody PROVE LockInv'
    <2> DEFINE s == Stripe[key[t]]
    <2>1. /\ lock' = [lock EXCEPT ![s] = t] /\ key' = key
          /\ pc' = [pc EXCEPT ![t] = "current"] /\ pc[t] = "fetchLock"
      BY <1>2 DEF TakeLock
    <2>2. \A u \in Thread : pc[u] \in Locked => Stripe[key[u]] # s /\ u # t
      BY <1>2, <2>1 DEF LockInv, Locked
    <2>3. \A u \in Thread : pc'[u] \in Locked => lock'[Stripe[key'[u]]] = u
      BY <1>0, <2>1, <2>2 DEF LockInv
    <2>4. \A r \in StripeOf :
             lock'[r] # Nobody => pc'[lock'[r]] \in Locked /\ Stripe[key'[lock'[r]]] = r
      BY <1>0, <2>1, <2>2 DEF LockInv, Locked
    <2> QED
      BY <2>3, <2>4 DEF LockInv
  <1>3. ASSUME NEW t \in Thread, Unlock(t) PROVE LockInv'
    <2> DEFINE s == Stripe[key[t]]
    <2>1. /\ lock' = [lock EXCEPT ![s] = Nobody] /\ key' = key
          /\ pc' = [pc EXCEPT ![t] = "unmark"] /\ pc[t] = "unlock"
      BY <1>3 DEF Unlock
    <2>2. lock[s] = t
      BY <2>1 DEF LockInv, Locked
    <2>3. \A u \in Thread \ {t} : pc[u] \in Locked => Stripe[key[u]] # s
      BY <2>2 DEF LockInv
    <2>4. \A u \in Thread : pc'[u] \in Locked => lock'[Stripe[key'[u]]] = u
      BY <1>0, <2>1, <2>3 DEF LockInv, Locked
    <2>5. \A r \in StripeOf \ {s} : lock'[r] = lock[r] /\ lock[r] # t
      <3>1. \A r \in StripeOf : lock[r] = t => Stripe[key[t]] = r
        BY RecoveryAssumption DEF LockInv
      <3> QED
        BY <2>1, <3>1
    <2>6. \A r \in StripeOf :
             lock'[r] # Nobody => pc'[lock'[r]] \in Locked /\ Stripe[key'[lock'[r]]] = r
      <3>1. lock'[s] = Nobody
        BY <1>0, <2>1
      <3> SUFFICES ASSUME NEW r \in StripeOf, lock'[r] # Nobody
                   PROVE  pc'[lock'[r]] \in Locked /\ Stripe[key'[lock'[r]]] = r
        OBVIOUS
      <3>0. r # s /\ lock'[r] = lock[r] /\ lock[r] # t
        BY <2>5, <3>1
      <3>2. pc[lock[r]] \in Locked /\ Stripe[key[lock[r]]] = r
        BY <3>0 DEF LockInv
      <3>3. pc'[lock[r]] = pc[lock[r]] /\ key'[lock[r]] = key[lock[r]]
        BY <2>1, <3>0
      <3> QED
        BY <3>0, <3>2, <3>3
    <2> QED
      BY <2>4, <2>6 DEF LockInv
  <1>4. ASSUME NEW p \in Process, Exit(p) PROVE LockInv'
    <2>1. \A u \in Thread : pc'[u] \in Locked =>
             Home[u] # p /\ pc[u] \in Locked /\ key'[u] = key[u]
      BY <1>4 DEF Exit, Locked
    <2>2. \A u \in Thread : pc'[u] \in Locked => lock'[Stripe[key'[u]]] = u
      BY <1>0, <1>4, <2>1 DEF Exit, LockInv
    <2>3. ASSUME NEW r \in StripeOf, lock'[r] # Nobody
          PROVE  pc'[lock'[r]] \in Locked /\ Stripe[key'[lock'[r]]] = r
      <3>1. lock'[r] = lock[r] /\ lock[r] \in Thread /\ Home[lock[r]] # p
        BY <1>4, <2>3 DEF Exit
      <3> QED
        BY <1>4, <3>1 DEF Exit, LockInv
    <2> QED
      BY <2>2, <2>3 DEF LockInv
  <1>5. ASSUME NEW t \in Thread,
               \/ ReadCurrent(t) \/ Build(t) \/ ReadLatest(t) \/ SetSqlite(t) \/ SetRedis(t)
        PROVE  LockInv'
    <2>1. UNCHANGED <<lock, key>> /\ pc[t] \in Locked
      BY <1>5 DEF ReadCurrent, Build, ReadLatest, SetSqlite, SetRedis, Locked
    <2>2. \E place \in Locked : pc' = [pc EXCEPT ![t] = place]
      BY <1>5, Zenon DEF ReadCurrent, Build, ReadLatest, SetSqlite, SetRedis, Locked
    <2> QED
      BY <2>1, <2>2, <1>1
  <1>6. ASSUME NEW t \in Thread,
               \/ \E k \in Key : Get(t, k)
               \/ Admit(t) \/ Start(t) \/ Unmark(t) \/ Free(t)
               \/ TakeLock(t) /\ lock[Stripe[key[t]]] # Nobody
        PROVE  LockInv'
    <2>1. UNCHANGED lock /\ pc'[t] \notin Locked /\ pc[t] \notin Locked
      BY <1>6 DEF Get, Admit, Start, Unmark, Free, TakeLock, End, Locked
    <2>2. \A u \in Thread \ {t} : pc'[u] = pc[u] /\ key'[u] = key[u]
      BY <1>6 DEF Get, Admit, Start, Unmark, Free, TakeLock, End
    <2> QED
      BY <2>1, <2>2, <1>1
  <1>7. ASSUME UNCHANGED <<lock, pc, key>> PROVE LockInv'
    BY <1>7, <1>1
  <1> QED
    BY <1>2, <1>3, <1>4, <1>5, <1>6, <1>7, WorldSteps DEF Next, Step

(***************************************************************************)
(* What a recovery is about to write.                                      *)
(***************************************************************************)

\* The payload of a builder that returned one keeps the time it was stamped.
LEMMA DraftStep == IInv /\ [Next]_vars => DraftInv'
  <1> SUFFICES ASSUME IInv, [Next]_vars PROVE DraftInv'
    OBVIOUS
  <1> USE RecoveryAssumption DEF IInv, TypeOK, Goto
  <1>1. ASSUME \A t \in Thread : pc'[t] \in Drafted => pc[t] \in Drafted /\ draft'[t] = draft[t]
        PROVE  DraftInv'
    BY <1>1 DEF DraftInv
  <1>2. ASSUME NEW t \in Thread, Build(t) PROVE DraftInv'
    <2>1. \A u \in Thread \ {t} : pc'[u] = pc[u] /\ draft'[u] = draft[u]
      BY <1>2 DEF Build
    <2>2. pc'[t] \in Drafted => draft'[t] = [at |-> now, good |-> TRUE]
      BY <1>2 DEF Build, Drafted
    <2>3. [at |-> now, good |-> TRUE] \in [at : 0..MaxTime, good : BOOLEAN]
      OBVIOUS
    <2>4. ASSUME NEW u \in Thread, pc'[u] \in Drafted
          PROVE  draft'[u] \in [at : 0..MaxTime, good : BOOLEAN]
      <3>1. CASE u = t
        BY <2>2, <2>3, <2>4, <3>1
      <3>2. CASE u # t
        BY <2>1, <2>4, <3>2 DEF DraftInv
      <3> QED
        BY <3>1, <3>2
    <2> QED
      BY <2>4 DEF DraftInv
  <1>3. ASSUME NEW t \in Thread,
               \/ \E k \in Key : Get(t, k)
               \/ Admit(t) \/ Start(t) \/ TakeLock(t) \/ ReadCurrent(t) \/ ReadLatest(t)
               \/ SetSqlite(t) \/ SetRedis(t) \/ Unlock(t) \/ Unmark(t) \/ Free(t)
        PROVE  \A u \in Thread : pc'[u] \in Drafted => pc[u] \in Drafted /\ draft'[u] = draft[u]
    <2>1. \A u \in Thread \ {t} : pc'[u] = pc[u] /\ draft'[u] = draft[u]
      BY <1>3 DEF Get, Admit, Start, TakeLock, ReadCurrent, ReadLatest, SetSqlite, SetRedis,
                  Unlock, Unmark, Free, End
    <2>2. CASE \/ \E k \in Key : Get(t, k)
               \/ Admit(t) \/ Start(t) \/ TakeLock(t) \/ ReadCurrent(t) \/ SetRedis(t)
               \/ Unlock(t) \/ Unmark(t) \/ Free(t)
      <3>1. pc'[t] \notin Drafted
        BY <2>2 DEF Get, Admit, Start, TakeLock, ReadCurrent, SetRedis, Unlock, Unmark, Free,
                    End, Drafted
      <3> QED
        BY <2>1, <3>1
    <2>3. CASE ReadLatest(t) \/ SetSqlite(t)
      BY <2>1, <2>3 DEF ReadLatest, SetSqlite, Drafted
    <2> QED
      BY <1>3, <2>2, <2>3
  <1>4. ASSUME NEW p \in Process, Exit(p) PROVE DraftInv'
    <2>1. \A t \in Thread : pc'[t] \in Drafted => Home[t] # p
      BY <1>4 DEF Exit, Drafted
    <2>2. \A t \in Thread : Home[t] # p => pc'[t] = pc[t] /\ draft'[t] = draft[t]
      BY <1>4 DEF Exit
    <2> QED
      BY <1>1, <2>1, <2>2
  <1> QED
    BY <1>1, <1>2, <1>3, <1>4, WorldSteps DEF Next, Step

\* Two recoveries that are past their fetch lock have different keys.
LEMMA LockedApart ==
    ASSUME IInv, NEW t \in Thread, NEW u \in Thread, t # u, pc[t] \in Locked, pc[u] \in Locked
    PROVE  key[t] # key[u]
  BY DEF IInv, LockInv

\* Only the watcher can write between the last look of a recovery and its own
\* write, and then the recovery is known to be surprised.
LEMMA NewestStep == IInv /\ [Next]_vars => NewestInv'
  <1> SUFFICES ASSUME IInv, [Next]_vars, NEW t \in Thread \ surprised',
                      pc'[t] = "setSqlite", sqlite'[key'[t]] # NoSeed
               PROVE  sqlite'[key'[t]].at <= draft'[t].at
    BY DEF NewestInv
  <1> USE RecoveryAssumption DEF IInv, TypeOK, Goto
  <1>1. ASSUME pc[t] = "setSqlite", t \notin surprised, key'[t] = key[t], draft'[t] = draft[t],
               sqlite'[key[t]] = sqlite[key[t]]
        PROVE  sqlite'[key'[t]].at <= draft'[t].at
    BY <1>1 DEF NewestInv
  <1>2. ASSUME NEW u \in Thread,
               \/ \E k \in Key : Get(u, k)
               \/ Admit(u) \/ Start(u) \/ TakeLock(u) \/ ReadCurrent(u) \/ Build(u)
               \/ SetRedis(u) \/ Unlock(u) \/ Unmark(u) \/ Free(u)
        PROVE  sqlite'[key'[t]].at <= draft'[t].at
    <2>1. pc'[u] # "setSqlite" /\ UNCHANGED <<sqlite, surprised>>
      BY <1>2 DEF Get, Admit, Start, TakeLock, ReadCurrent, Build, SetRedis, Unlock, Unmark,
                  Free, End
    <2>2. \A v \in Thread \ {u} : pc'[v] = pc[v] /\ key'[v] = key[v] /\ draft'[v] = draft[v]
      BY <1>2 DEF Get, Admit, Start, TakeLock, ReadCurrent, Build, SetRedis, Unlock, Unmark,
                  Free, End
    <2> QED
      BY <1>1, <2>1, <2>2
  <1>3. ASSUME NEW u \in Thread, ReadLatest(u)
        PROVE  sqlite'[key'[t]].at <= draft'[t].at
    <2>1. UNCHANGED <<sqlite, key, draft>> /\ pc[u] = "latest"
      BY <1>3 DEF ReadLatest
    <2>2. CASE u # t
      <3>1. pc[t] = "setSqlite" /\ t \notin surprised
        BY <1>3, <2>2 DEF ReadLatest
      <3> QED
        BY <1>1, <2>1, <3>1
    <2>3. CASE u = t
      <3>1. /\ sqlite[key[t]] # NoSeed
            /\ sqlite[key[t]] \in Readings(key[t]) /\ ~NewerThan(sqlite[key[t]], draft[t])
        BY <1>3, <2>1, <2>3 DEF ReadLatest, Readings
      <3>2. sqlite[key[t]].at \in Int
        BY <3>1, PayloadTime
      <3>3. draft[t].at \in Int
        BY <2>1, <2>3 DEF DraftInv, Drafted
      <3> QED
        BY <2>1, <3>1, <3>2, <3>3 DEF NewerThan
    <2> QED
      BY <2>2, <2>3
  <1>4. ASSUME NEW u \in Thread, SetSqlite(u)
        PROVE  sqlite'[key'[t]].at <= draft'[t].at
    <2>1. u # t /\ pc[t] = "setSqlite" /\ pc[u] = "setSqlite" /\ t \notin surprised
      BY <1>4 DEF SetSqlite
    <2>2. key[t] # key[u]
      BY <2>1, LockedApart DEF Locked
    <2>3. sqlite'[key[t]] = sqlite[key[t]] /\ UNCHANGED <<key, draft>>
      BY <1>4, <2>2 DEF SetSqlite, Stored
    <2> QED
      BY <1>1, <2>1, <2>3
  <1>5. ASSUME NEW k \in Key, WatchSqlite(k)
        PROVE  sqlite'[key'[t]].at <= draft'[t].at
    <2>1. UNCHANGED <<pc, key, draft>>
      BY <1>5 DEF WatchSqlite
    <2>2. t \notin surprised /\ sqlite'[key[t]] = sqlite[key[t]]
      <3>1. CASE sqlite' = sqlite
        BY <1>5, <3>1 DEF WatchSqlite
      <3>2. CASE sqlite' # sqlite
        <4>1. /\ surprised' = surprised \cup {u \in Thread : pc[u] = "setSqlite" /\ key[u] = k}
              /\ sqlite' = [sqlite EXCEPT ![k] = update[k]]
          BY <1>5, <3>2 DEF WatchSqlite, Stored
        <4>2. key[t] # k /\ t \notin surprised
          BY <2>1, <4>1
        <4> QED
          BY <4>1, <4>2
      <3> QED
        BY <3>1, <3>2
    <2> QED
      BY <1>1, <2>1, <2>2
  <1>6. ASSUME \/ \E k \in Key : WatchBuild(k) \/ WatchRedis(k) \/ RedisExpires(k)
               \/ Tick \/ UNCHANGED vars
        PROVE  sqlite'[key'[t]].at <= draft'[t].at
    <2>1. UNCHANGED <<sqlite, surprised, pc, key, draft>>
      BY <1>6 DEF WatchBuild, WatchRedis, RedisExpires, Tick, vars
    <2> QED
      BY <1>1, <2>1
  <1>7. ASSUME NEW p \in Process, Exit(p)
        PROVE  sqlite'[key'[t]].at <= draft'[t].at
    <2>1. Home[t] # p
      BY <1>7 DEF Exit
    <2>2. /\ pc[t] = "setSqlite" /\ t \notin surprised /\ key'[t] = key[t]
          /\ draft'[t] = draft[t] /\ sqlite' = sqlite
      BY <1>7, <2>1 DEF Exit
    <2> QED
      BY <1>1, <2>2
  <1> QED
    BY <1>2, <1>3, <1>4, <1>5, <1>6, <1>7 DEF Next, Step

-----------------------------------------------------------------------------

\* Nothing is marked, taken or drafted at the start.
LEMMA IInvInit == Init => IInv
  <1> SUFFICES ASSUME Init PROVE IInv
    OBVIOUS
  <1>1. TypeOK
    <2>1. /\ sqlite \in [Key -> Payload] /\ redis \in [Key -> Payload]
          /\ draft \in [Thread -> Payload] /\ update \in [Key -> Payload] /\ now \in 0..MaxTime
      <3>1. NoSeed \in Payload /\ [at |-> 0, good |-> TRUE] \in Payload /\ now \in 0..MaxTime
        BY RecoveryAssumption DEF Init, Payload
      <3> QED
        BY <3>1 DEF Init
    <2> QED
      BY <2>1, RecoveryAssumption, AnyKeyIsKey DEF Init, TypeOK, Place
  <1>2. SlotsInv
    <2>1. \A p \in Process : BusyIn(p) = {} /\ slots[p] = Slots
      BY DEF Init, BusyIn, MarkedIn, Marked, Locked
    <2>2. IsFiniteSet({}) /\ Slots + Cardinality({}) = Slots
      BY FS_EmptySet, RecoveryAssumption
    <2> QED
      BY <2>1, <2>2 DEF SlotsInv
  <1>3. MarksInv
    <2>1. \A p \in Process : MarkedIn(p) = {} /\ running[p] = {}
      BY DEF Init, MarkedIn, Marked, Locked
    <2> QED
      BY <2>1 DEF MarksInv
  <1>4. LockInv /\ DraftInv /\ NewestInv
    BY DEF Init, LockInv, DraftInv, NewestInv, Locked, Drafted
  <1> QED
    BY <1>1, <1>2, <1>3, <1>4 DEF IInv

\* Every reachable state of the recovery satisfies the inductive invariant.
LEMMA InductiveInvariant == Spec => []IInv
  <1>1. IInv /\ [Next]_vars => IInv'
    BY TypeStep, SlotsStep, MarksStep, LockStep, DraftStep, NewestStep DEF IInv
  <1> QED
    BY <1>1, IInvInit, PTL DEF Spec

\* No mark, slot or fetch lock leaks, whatever fails, so no panel is refused for
\* good.
THEOREM RecoveriesLeakNothing == Spec => []AdmissionIsExact
  <1>1. IInv => AdmissionIsExact
    BY DEF IInv, SlotsInv, MarksInv, LockInv, AdmissionIsExact
  <1> QED
    BY <1>1, InductiveInvariant, PTL

\* A recovery whose last look at SQLite was good and which the watcher left alone
\* since does not put an older seed over a good one.
THEOREM NewerSeedsSurvive == Spec => RecoveriesRefuseNewer
  <1>1. IInv /\ [Next]_vars =>
          [\A t \in Thread \ surprised, k \in Key :
              Writing(t, k) => sqlite'[k].at >= sqlite[k].at]_vars
    <2> SUFFICES ASSUME IInv, [Next]_vars, NEW t \in Thread \ surprised, NEW k \in Key,
                        Writing(t, k)
                 PROVE  sqlite'[k].at >= sqlite[k].at
      OBVIOUS
    <2> USE DEF IInv, TypeOK
    <2>1. /\ pc[t] = "setSqlite" /\ key[t] = k /\ sqlite[k] # NoSeed
          /\ sqlite[k].at \in Int /\ draft[t].at \in Int /\ sqlite[k].at <= draft[t].at
      BY PayloadTime, RecoveryAssumption DEF Writing, NewestInv, DraftInv, Drafted
    <2>2. SetSqlite(t)
      <3>1. pc[t] = "setSqlite" /\ pc'[t] = "setRedis"
        BY DEF Writing
      <3>2. ASSUME NEW u \in Thread, Step(u) \/ \E j \in Key : Get(u, j)
            PROVE  SetSqlite(t)
        <4>1. u = t
          BY <3>1, <3>2 DEF Step, Get, Admit, Start, TakeLock, ReadCurrent, Build, ReadLatest,
                            SetSqlite, SetRedis, Unlock, Unmark, Free, End, Goto
        <4> QED
          BY <3>1, <3>2, <4>1 DEF Step, Get, Admit, Start, TakeLock, ReadCurrent, Build,
                                  ReadLatest, SetSqlite, SetRedis, Unlock, Unmark, Free, End, Goto
      <3>3. ~\E p \in Process : Exit(p)
        BY <3>1 DEF Exit
      <3>4. pc' # pc
        BY <3>1
      <3> QED
        BY <3>2, <3>3, <3>4, WorldSteps DEF Next
    <2>3. sqlite'[k] \in {sqlite[k], draft[t]}
      BY <2>1, <2>2 DEF SetSqlite, Stored
    <2> QED
      BY <2>1, <2>3
  <1> QED
    BY <1>1, InductiveInvariant, PTL DEF Spec, RecoveriesRefuseNewer
=============================================================================
