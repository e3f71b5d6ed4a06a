----------------------- MODULE SnapshotRefreshProofs -----------------------
(* Theorems about SnapshotRefresh, for every set of workers, activities    *)
(* and keys, every number of slots, and with or without Redis faults.      *)
EXTENDS SnapshotRefresh, FiniteSetTheorems, TLAPS

(***************************************************************************)
(* The inductive invariant.  AdmissionIsExact alone is not inductive:      *)
(* Unmark takes a key out of a set, which is only right if no other        *)
(* activity of the worker is marked with it; and OneBuilder rests on who   *)
(* holds the lease while it builds.                                        *)
(***************************************************************************)

\* Every unit of snapshot_slots is free, with one activity, or lost with one key.
SlotsInv ==
    \A w \in Worker :
        /\ IsFiniteSet(AdmittedIn(w)) /\ IsFiniteSet(leaked[w])
        /\ slots[w] + Cardinality(AdmittedIn(w)) + Cardinality(leaked[w]) = Slots

\* The marks of a worker are the lost keys and the keys of its activities, all
\* different.
MarksInv ==
    /\ \A w \in Worker : refreshing[w] = {key[t] : t \in MarkedIn(w)} \cup leaked[w]
    /\ \A w \in Worker : \A t, u \in MarkedIn(w) : key[t] = key[u] => t = u
    /\ \A w \in Worker : \A t \in MarkedIn(w) : key[t] \notin leaked[w]

\* The places between winning a lease and giving it back.
Leasing == {"start", "build", "store", "unlease"}

\* Who was told to go ahead, and is not slow, has the lease until it releases it.
LeaseInv ==
    \A t \in Thread \ Slow : held[t] /\ pc[t] \in Leasing => lease[key[t]] = t

IInv == TypeOK /\ SlotsInv /\ MarksInv /\ LeaseInv

LEMMA AnyKeyIsKey == AnyKey \in Key
  BY RefreshAssumption DEF AnyKey

(***************************************************************************)
(* What a step may do to the admitted activities.                          *)
(***************************************************************************)

\* An activity that is not admitted before or after a step is no matter.
LEMMA SameAdmitted ==
    ASSUME \A t \in Thread : pc'[t] \in Admitted <=> pc[t] \in Admitted
    PROVE  \A w \in Worker : AdmittedIn(w)' = AdmittedIn(w)
  BY DEF AdmittedIn

\* Where an activity is admitted, its worker has one unit less in stock.
LEMMA AdmittedIsCounted ==
    ASSUME IInv, NEW t \in Thread, pc[t] \in Admitted
    PROVE  slots[Home[t]] < Slots
  <1> DEFINE w == Home[t]
  <1>1. w \in Worker /\ t \in AdmittedIn(w)
    BY RefreshAssumption DEF AdmittedIn
  <1>2. /\ Cardinality(AdmittedIn(w)) \in Nat /\ Cardinality(AdmittedIn(w)) # 0
        /\ Cardinality(leaked[w]) \in Nat
    <2>1. IsFiniteSet(AdmittedIn(w)) /\ IsFiniteSet(leaked[w])
      BY <1>1 DEF IInv, SlotsInv
    <2> QED
      BY <1>1, <2>1, FS_CardinalityType, FS_EmptySet
  <1>3. /\ slots[w] + Cardinality(AdmittedIn(w)) + Cardinality(leaked[w]) = Slots
        /\ slots[w] \in Int /\ Slots \in Int
    BY <1>1, RefreshAssumption DEF IInv, SlotsInv, TypeOK
  <1> HIDE DEF w
  <1>4. slots[w] < Slots
    BY <1>2, <1>3
  <1> QED
    BY <1>4 DEF w

\* What is lost when a thread cannot be started.
LEMMA StartFails ==
    ASSUME TypeOK, NEW t \in Thread, Start(t), pc'[t] = "idle"
    PROVE  /\ pc[t] = "start" /\ pc' = [pc EXCEPT ![t] = "idle"]
           /\ key' = [key EXCEPT ![t] = AnyKey]
           /\ leaked' = [leaked EXCEPT ![Home[t]] = @ \cup {key[t]}]
           /\ UNCHANGED <<slots, refreshing>>
  <1>1. ~Goto(t, IF stopped[Home[t]] THEN "unlease" ELSE "build")
    BY DEF Goto, TypeOK
  <1> QED
    BY <1>1 DEF Start, End, Goto, workerVars

\* The variables of an activity and of its worker have their types.
LEMMA TypeStep == IInv /\ [Next]_vars => TypeOK'
  <1> SUFFICES ASSUME IInv, [Next]_vars PROVE TypeOK'
    OBVIOUS
  <1> USE RefreshAssumption, AnyKeyIsKey
      DEF TypeOK, workerVars, localVars, Goto, End, Reading, Admitted
  <1> TypeOK
    BY DEF IInv
  <1>1. ASSUME NEW t \in Thread, NEW k \in Key, Request(t, k) PROVE TypeOK'
    BY <1>1 DEF Request
  <1>2. ASSUME NEW t \in Thread, Get(t) PROVE TypeOK'
    <2>1. CASE End(t)
      BY <1>2, <2>1 DEF Get
    <2>2. CASE Goto(t, "getStale") /\ UNCHANGED localVars
      BY <1>2, <2>2 DEF Get
    <2> QED
      BY <1>2, <2>1, <2>2 DEF Get
  <1>3. ASSUME NEW t \in Thread, GetStale(t) PROVE TypeOK'
    <2>1. PICK seen \in {row[key[t]], "absent"} :
             background' = [background EXCEPT ![t] = seen # "absent" /\ key[t] \notin ListKey]
      BY <1>3 DEF GetStale
    <2>2. background' \in [Thread -> BOOLEAN]
      BY <2>1, Zenon
    <2> QED
      BY <1>3, <2>2 DEF GetStale
  <1>4. ASSUME NEW t \in Thread, Admit(t) PROVE TypeOK'
    <2>1. CASE End(t) /\ UNCHANGED <<slots, refreshing>>
      BY <1>4, <2>1 DEF Admit
    <2>2. CASE ~End(t) \/ ~UNCHANGED <<slots, refreshing>>
      <3>1. /\ slots[Home[t]] # 0
            /\ slots' = [slots EXCEPT ![Home[t]] = @ - 1]
            /\ refreshing' = [refreshing EXCEPT ![Home[t]] = @ \cup {key[t]}]
            /\ pc' = [pc EXCEPT ![t] = "lease"]
            /\ UNCHANGED <<localVars, row, lease, cooling, stopped, leaked>>
        BY <1>4, <2>2, Zenon DEF Admit
      <3>2. slots' \in [Worker -> 0..Slots]
        <4>1. Home[t] \in Worker /\ slots[Home[t]] \in 0..Slots
          OBVIOUS
        <4>2. slots[Home[t]] - 1 \in 0..Slots
          <5>1. \A n \in 0..Slots : n # 0 => n - 1 \in 0..Slots
            OBVIOUS
          <5> HIDE DEF TypeOK
          <5> QED
            BY <3>1, <4>1, <5>1
        <4> QED
          BY <3>1, <4>1, <4>2
      <3>4. refreshing' \in [Worker -> SUBSET Key]
        BY <3>1
      <3>3. pc' \in [Thread -> Reading \cup Admitted]
        BY <3>1
      <3> QED
        BY <3>1, <3>2, <3>3, <3>4
    <2> QED
      BY <2>1, <2>2
  <1>5. ASSUME NEW t \in Thread, Lease(t) PROVE TypeOK'
    <2>1. /\ lease' \in {lease, [lease EXCEPT ![key[t]] = t]}
          /\ \E place \in {"start", "build", "unmark"} : pc' = [pc EXCEPT ![t] = place]
          /\ UNCHANGED <<row, workerVars, key, background, leaked>>
      BY <1>5 DEF Lease, AfterLease
    <2>2. /\ \E b \in BOOLEAN : held' = [held EXCEPT ![t] = b]
          /\ \E b \in BOOLEAN : failed' = [failed EXCEPT ![t] = b]
      BY <1>5, Zenon DEF Lease
    <2>3. held' \in [Thread -> BOOLEAN] /\ failed' \in [Thread -> BOOLEAN]
      BY <2>2
    <2>4. lease' \in [Key -> Thread \cup {Nobody}] /\ pc' \in [Thread -> Reading \cup Admitted]
      BY <2>1
    <2> QED
      BY <2>1, <2>3, <2>4
  <1>6. ASSUME NEW t \in Thread, Start(t) PROVE TypeOK'
    <2>1. CASE End(t) /\ leaked' = [leaked EXCEPT ![Home[t]] = @ \cup {key[t]}]
      <3>1. leaked' \in [Worker -> SUBSET Key]
        BY <2>1
      <3> QED
        BY <1>6, <2>1, <3>1 DEF Start
    <2>2. CASE (\E place \in {"unlease", "build"} : Goto(t, place)) /\ UNCHANGED <<localVars, leaked>>
      BY <1>6, <2>2 DEF Start
    <2> QED
      BY <1>6, <2>1, <2>2, Zenon DEF Start
  <1>7. ASSUME NEW t \in Thread, Build(t) PROVE TypeOK'
    BY <1>7 DEF Build
  <1>8. ASSUME NEW t \in Thread, Store(t) PROVE TypeOK'
    BY <1>8 DEF Store
  <1>9. ASSUME NEW t \in Thread, Unlease(t) PROVE TypeOK'
    BY <1>9 DEF Unlease
  <1>10. ASSUME NEW t \in Thread, Unmark(t) PROVE TypeOK'
    BY <1>10 DEF Unmark
  <1>11. ASSUME NEW t \in Thread, Free(t) PROVE TypeOK'
    BY <1>11, AdmittedIsCounted DEF Free
  <1>12. ASSUME NEW k \in Key, SnapshotExpires(k) PROVE TypeOK'
    BY <1>12 DEF SnapshotExpires
  <1>13. ASSUME NEW k \in Key, LeaseExpires(k) PROVE TypeOK'
    BY <1>13 DEF LeaseExpires
  <1>14. ASSUME NEW w \in Worker, NEW k \in Key, CoolingEnds(w, k) PROVE TypeOK'
    BY <1>14 DEF CoolingEnds
  <1>15. ASSUME NEW w \in Worker, Stop(w) PROVE TypeOK'
    BY <1>15 DEF Stop
  <1>16. ASSUME NEW w \in Worker, Exit(w) PROVE TypeOK'
    <2>1. /\ pc' \in [Thread -> Reading \cup Admitted]
          /\ key' \in [Thread -> Key]
      BY <1>16 DEF Exit
    <2>2. /\ background' \in [Thread -> BOOLEAN]
          /\ held' \in [Thread -> BOOLEAN]
          /\ failed' \in [Thread -> BOOLEAN]
      BY <1>16, Zenon DEF Exit
    <2>3. /\ refreshing' \in [Worker -> SUBSET Key]
          /\ cooling' \in [Worker -> SUBSET Key]
          /\ slots' \in [Worker -> 0..Slots]
          /\ stopped' \in [Worker -> BOOLEAN]
          /\ leaked' \in [Worker -> SUBSET Key]
      BY <1>16 DEF Exit
    <2> QED
      BY <1>16, <2>1, <2>2, <2>3 DEF Exit
  <1>17. CASE UNCHANGED vars
    BY <1>17 DEF vars
  <1> QED
    BY <1>1, <1>2, <1>3, <1>4, <1>5, <1>6, <1>7, <1>8, <1>9, <1>10, <1>11,
       <1>12, <1>13, <1>14, <1>15, <1>16, <1>17 DEF Next, Step

\* Only Admit takes a unit, only Free and the end of the process return one.
LEMMA SlotsStep == IInv /\ [Next]_vars => SlotsInv'
  <1> SUFFICES ASSUME IInv, [Next]_vars PROVE SlotsInv'
    OBVIOUS
  <1> USE RefreshAssumption DEF IInv, TypeOK, workerVars, localVars, Goto, End
  <1>1. ASSUME \A w \in Worker : AdmittedIn(w)' = AdmittedIn(w), UNCHANGED <<slots, leaked>>
        PROVE  SlotsInv'
    BY <1>1 DEF SlotsInv
  <1>2. ASSUME NEW t \in Thread, Admit(t), pc'[t] = "lease" PROVE SlotsInv'
    <2> DEFINE w == Home[t]
    <2>1. /\ slots' = [slots EXCEPT ![w] = @ - 1]
          /\ pc' = [pc EXCEPT ![t] = "lease"] /\ pc[t] = "admit"
          /\ UNCHANGED leaked
      BY <1>2 DEF Admit
    <2>2. /\ AdmittedIn(w)' = AdmittedIn(w) \cup {t} /\ t \notin AdmittedIn(w)
          /\ \A v \in Worker : v # w => AdmittedIn(v)' = AdmittedIn(v)
      BY <2>1 DEF AdmittedIn, Admitted
    <2>3. \A v \in Worker : /\ IsFiniteSet(AdmittedIn(v)) /\ Cardinality(AdmittedIn(v)) \in Nat
                            /\ IsFiniteSet(leaked[v]) /\ Cardinality(leaked[v]) \in Nat
      BY FS_CardinalityType DEF SlotsInv
    <2>4. /\ IsFiniteSet(AdmittedIn(w)')
          /\ Cardinality(AdmittedIn(w)') = Cardinality(AdmittedIn(w)) + 1
      <3>1. IsFiniteSet(AdmittedIn(w))
        BY <2>3
      <3> HIDE DEF IInv, TypeOK
      <3> QED
        BY <2>2, <3>1, FS_AddElement
    <2>5. slots[w] + Cardinality(AdmittedIn(w)) + Cardinality(leaked[w]) = Slots
      BY DEF SlotsInv
    <2>6. slots'[w] + Cardinality(AdmittedIn(w)') + Cardinality(leaked[w]) = Slots
      BY <2>1, <2>3, <2>4, <2>5
    <2>7. ASSUME NEW v \in Worker, v # w
          PROVE  /\ IsFiniteSet(AdmittedIn(v)')
                 /\ slots'[v] + Cardinality(AdmittedIn(v)') + Cardinality(leaked[v]) = Slots
      BY <2>1, <2>2, <2>7 DEF SlotsInv
    <2> QED
      BY <2>1, <2>3, <2>4, <2>6, <2>7 DEF SlotsInv
  <1>3. ASSUME NEW t \in Thread, Free(t) PROVE SlotsInv'
    <2> DEFINE w == Home[t]
    <2>1. /\ slots' = [slots EXCEPT ![w] = @ + 1]
          /\ pc' = [pc EXCEPT ![t] = "idle"] /\ pc[t] = "free"
          /\ UNCHANGED leaked
      BY <1>3 DEF Free
    <2>2. /\ AdmittedIn(w)' = AdmittedIn(w) \ {t} /\ t \in AdmittedIn(w)
          /\ \A v \in Worker : v # w => AdmittedIn(v)' = AdmittedIn(v)
      BY <2>1 DEF AdmittedIn, Admitted
    <2>3. \A v \in Worker : /\ IsFiniteSet(AdmittedIn(v)) /\ Cardinality(AdmittedIn(v)) \in Nat
                            /\ IsFiniteSet(leaked[v]) /\ Cardinality(leaked[v]) \in Nat
      BY FS_CardinalityType DEF SlotsInv
    <2>4. /\ IsFiniteSet(AdmittedIn(w)')
          /\ Cardinality(AdmittedIn(w)') = Cardinality(AdmittedIn(w)) - 1
      <3>1. IsFiniteSet(AdmittedIn(w))
        BY <2>3
      <3> HIDE DEF IInv, TypeOK
      <3> QED
        BY <2>2, <3>1, FS_RemoveElement
    <2>5. slots[w] + Cardinality(AdmittedIn(w)) + Cardinality(leaked[w]) = Slots
      BY DEF SlotsInv
    <2>6. slots'[w] + Cardinality(AdmittedIn(w)') + Cardinality(leaked[w]) = Slots
      BY <2>1, <2>3, <2>4, <2>5
    <2>7. ASSUME NEW v \in Worker, v # w
          PROVE  /\ IsFiniteSet(AdmittedIn(v)')
                 /\ slots'[v] + Cardinality(AdmittedIn(v)') + Cardinality(leaked[v]) = Slots
      BY <2>1, <2>2, <2>7 DEF SlotsInv
    <2> QED
      BY <2>1, <2>3, <2>4, <2>6, <2>7 DEF SlotsInv
  <1>4. ASSUME NEW w \in Worker, Exit(w) PROVE SlotsInv'
    <2>1. /\ AdmittedIn(w)' = {}
          /\ \A v \in Worker : v # w => AdmittedIn(v)' = AdmittedIn(v)
          /\ slots' = [slots EXCEPT ![w] = Slots]
          /\ leaked' = [leaked EXCEPT ![w] = {}]
      BY <1>4 DEF Exit, AdmittedIn, Admitted
    <2>2. /\ IsFiniteSet(AdmittedIn(w)') /\ IsFiniteSet(leaked'[w])
          /\ slots'[w] + Cardinality(AdmittedIn(w)') + Cardinality(leaked'[w]) = Slots
      BY <2>1, FS_EmptySet
    <2>3. ASSUME NEW v \in Worker, v # w
          PROVE  /\ IsFiniteSet(AdmittedIn(v)') /\ IsFiniteSet(leaked'[v])
                 /\ slots'[v] + Cardinality(AdmittedIn(v)') + Cardinality(leaked'[v]) = Slots
      BY <2>1, <2>3 DEF SlotsInv
    <2> QED
      BY <2>2, <2>3 DEF SlotsInv
  <1>5. ASSUME NEW t \in Thread, Step(t) \/ \E k \in Key : Request(t, k),
               ~(Admit(t) /\ pc'[t] = "lease"), ~Free(t), ~(Start(t) /\ pc'[t] = "idle")
        PROVE  UNCHANGED <<slots, leaked>> /\ \A u \in Thread : pc'[u] \in Admitted <=> pc[u] \in Admitted
    <2> USE DEF Admitted
    <2>1. CASE \E k \in Key : Request(t, k)
      BY <2>1 DEF Request
    <2>2. CASE Get(t) \/ GetStale(t) \/ Admit(t)
      BY <1>5, <2>2 DEF Get, GetStale, Admit
    <2>3. CASE Lease(t) \/ Build(t) \/ Store(t) \/ Unlease(t) \/ Unmark(t)
      BY <2>3 DEF Lease, AfterLease, Build, Store, Unlease, Unmark
    <2>4. CASE Start(t) /\ pc'[t] # "idle"
      <3>1. ~End(t)
        BY <2>4
      <3> QED
        BY <2>4, <3>1 DEF Start
    <2> QED
      BY <1>5, <2>1, <2>2, <2>3, <2>4 DEF Step
  <1>6. ASSUME \/ \E k \in Key : SnapshotExpires(k) \/ LeaseExpires(k)
               \/ \E w \in Worker : Stop(w) \/ \E k \in Key : CoolingEnds(w, k)
               \/ UNCHANGED vars
        PROVE  UNCHANGED <<slots, pc, leaked>>
    BY <1>6 DEF SnapshotExpires, LeaseExpires, Stop, CoolingEnds, vars
  <1>7. ASSUME NEW t \in Thread, Start(t), pc'[t] = "idle" PROVE SlotsInv'
    <2> DEFINE w == Home[t]
    <2>1. /\ pc' = [pc EXCEPT ![t] = "idle"] /\ pc[t] = "start"
          /\ leaked' = [leaked EXCEPT ![w] = @ \cup {key[t]}]
          /\ UNCHANGED slots
      BY <1>7, StartFails
    <2>2. /\ AdmittedIn(w)' = AdmittedIn(w) \ {t} /\ t \in AdmittedIn(w)
          /\ \A v \in Worker : v # w => AdmittedIn(v)' = AdmittedIn(v)
      BY <2>1 DEF AdmittedIn, Admitted
    <2>3. key[t] \notin leaked[w]
      BY <2>1, <2>2 DEF MarksInv, MarkedIn
    <2>4. /\ IsFiniteSet(AdmittedIn(w)) /\ Cardinality(AdmittedIn(w)) \in Nat
          /\ IsFiniteSet(leaked[w]) /\ Cardinality(leaked[w]) \in Nat
          /\ slots[w] + Cardinality(AdmittedIn(w)) + Cardinality(leaked[w]) = Slots
      BY FS_CardinalityType DEF SlotsInv
    <2>5. /\ IsFiniteSet(AdmittedIn(w)')
          /\ Cardinality(AdmittedIn(w)') = Cardinality(AdmittedIn(w)) - 1
      BY <2>2, <2>4, FS_RemoveElement
    <2>6. /\ leaked'[w] = leaked[w] \cup {key[t]}
          /\ \A v \in Worker : v # w => leaked'[v] = leaked[v]
      BY <2>1
    <2>7. /\ IsFiniteSet(leaked'[w])
          /\ Cardinality(leaked'[w]) = Cardinality(leaked[w]) + 1
      <3> HIDE DEF IInv, TypeOK
      <3> QED
        BY <2>3, <2>4, <2>6, FS_AddElement
    <2>8. slots'[w] + Cardinality(AdmittedIn(w)') + Cardinality(leaked'[w]) = Slots
      BY <2>1, <2>4, <2>5, <2>7
    <2>9. ASSUME NEW v \in Worker, v # w
          PROVE  /\ IsFiniteSet(AdmittedIn(v)') /\ IsFiniteSet(leaked'[v])
                 /\ slots'[v] + Cardinality(AdmittedIn(v)') + Cardinality(leaked'[v]) = Slots
      BY <2>1, <2>2, <2>6, <2>9 DEF SlotsInv
    <2> QED
      BY <2>5, <2>7, <2>8, <2>9 DEF SlotsInv
  <1> QED
    BY <1>1, <1>2, <1>3, <1>4, <1>5, <1>6, <1>7, SameAdmitted DEF Next, Step

Marking == Admitted \ {"free"}

\* A step that starts or ends no mark.
LEMMA SameMarks ==
    ASSUME IInv, UNCHANGED <<refreshing, leaked>>,
           \A t \in Thread : /\ pc'[t] \in Marking <=> pc[t] \in Marking
                             /\ pc[t] \in Marking => key'[t] = key[t]
    PROVE  MarksInv'
  <1>1. \A w \in Worker : MarkedIn(w)' = MarkedIn(w)
    BY DEF MarkedIn, AdmittedIn, Marking
  <1>2. \A w \in Worker : \A t \in MarkedIn(w) : key'[t] = key[t]
    BY DEF MarkedIn, AdmittedIn, Marking
  <1>3. \A w \in Worker : {key'[t] : t \in MarkedIn(w)'} = {key[t] : t \in MarkedIn(w)}
    BY <1>1, <1>2
  <1> QED
    BY <1>1, <1>2, <1>3 DEF IInv, MarksInv

\* The mark of a key is set by Admit, which refuses a marked key, and taken
\* back by Unmark.
LEMMA MarksStep == IInv /\ [Next]_vars => MarksInv'
  <1> SUFFICES ASSUME IInv, [Next]_vars PROVE MarksInv'
    OBVIOUS
  <1> USE RefreshAssumption DEF IInv, TypeOK, workerVars, localVars, Goto
  <1>1. ASSUME NEW t \in Thread, Admit(t), ~End(t) PROVE MarksInv'
    <2> DEFINE w == Home[t]
    <2>1. /\ pc[t] = "admit" /\ key[t] \notin refreshing[w]
          /\ refreshing' = [refreshing EXCEPT ![w] = @ \cup {key[t]}]
          /\ pc' = [pc EXCEPT ![t] = "lease"]
          /\ UNCHANGED <<key, leaked>>
      BY <1>1 DEF Admit
    <2>2. /\ MarkedIn(w)' = MarkedIn(w) \cup {t}
          /\ \A v \in Worker : v # w => MarkedIn(v)' = MarkedIn(v)
      BY <2>1 DEF MarkedIn, AdmittedIn, Admitted
    <2>3. refreshing[w] = {key[u] : u \in MarkedIn(w)} \cup leaked[w]
      BY DEF MarksInv
    <2>4. refreshing'[w] = {key'[u] : u \in MarkedIn(w)'} \cup leaked'[w]
      BY <2>1, <2>2, <2>3
    <2>5. key[t] \notin leaked[w] /\ \A u \in MarkedIn(w) : key[u] # key[t]
      BY <2>1, <2>3
    <2>6. ASSUME NEW v \in Worker, v # w
          PROVE  refreshing'[v] = {key'[u] : u \in MarkedIn(v)'} \cup leaked'[v]
      BY <2>1, <2>2, <2>6 DEF MarksInv
    <2>7. \A v \in Worker : \A x, y \in MarkedIn(v)' : key'[x] = key'[y] => x = y
      <3>1. \A v \in Worker : \A x, y \in MarkedIn(v) : key[x] = key[y] => x = y
        BY DEF MarksInv
      <3>2. \A v \in Worker : v # w => MarkedIn(v)' = MarkedIn(v)
        BY <2>2
      <3> QED
        BY <2>1, <2>2, <2>5, <3>1, <3>2
    <2>8. \A v \in Worker : \A x \in MarkedIn(v)' : key'[x] \notin leaked'[v]
      BY <2>1, <2>2, <2>5 DEF MarksInv
    <2> QED
      BY <2>4, <2>6, <2>7, <2>8 DEF MarksInv
  <1>2. ASSUME NEW t \in Thread, Unmark(t) PROVE MarksInv'
    <2> DEFINE w == Home[t]
    <2>1. /\ pc[t] = "unmark"
          /\ refreshing' = [refreshing EXCEPT ![w] = @ \ {key[t]}]
          /\ pc' = [pc EXCEPT ![t] = "free"]
          /\ UNCHANGED <<key, leaked>>
      BY <1>2 DEF Unmark
    <2>2. /\ MarkedIn(w)' = MarkedIn(w) \ {t} /\ t \in MarkedIn(w)
          /\ \A v \in Worker : v # w => MarkedIn(v)' = MarkedIn(v)
      BY <2>1 DEF MarkedIn, AdmittedIn, Admitted
    <2>3. /\ refreshing[w] = {key[u] : u \in MarkedIn(w)} \cup leaked[w]
          /\ \A u \in MarkedIn(w) : key[u] = key[t] => u = t
          /\ key[t] \notin leaked[w]
      BY <2>2 DEF MarksInv
    <2>4. refreshing'[w] = {key'[u] : u \in MarkedIn(w)'} \cup leaked'[w]
      BY <2>1, <2>2, <2>3
    <2>5. ASSUME NEW v \in Worker, v # w
          PROVE  refreshing'[v] = {key'[u] : u \in MarkedIn(v)'} \cup leaked'[v]
      BY <2>1, <2>2, <2>5 DEF MarksInv
    <2>6. ASSUME NEW v \in Worker
          PROVE  /\ \A x, y \in MarkedIn(v)' : key'[x] = key'[y] => x = y
                 /\ \A x \in MarkedIn(v)' : key'[x] \notin leaked'[v]
      <3>1. MarkedIn(v)' \subseteq MarkedIn(v) /\ UNCHANGED <<key, leaked>>
        BY <2>1, <2>2
      <3> QED
        BY <3>1 DEF MarksInv
    <2> QED
      BY <2>4, <2>5, <2>6 DEF MarksInv
  <1>3. ASSUME NEW w \in Worker, Exit(w) PROVE MarksInv'
    <2>1. /\ MarkedIn(w)' = {}
          /\ \A v \in Worker : v # w => MarkedIn(v)' = MarkedIn(v)
          /\ \A v \in Worker : v # w => \A t \in MarkedIn(v) : key'[t] = key[t]
          /\ refreshing' = [refreshing EXCEPT ![w] = {}]
          /\ leaked' = [leaked EXCEPT ![w] = {}]
      BY <1>3 DEF Exit, MarkedIn, AdmittedIn, Admitted
    <2>2. \A v \in Worker : v # w => {key'[t] : t \in MarkedIn(v)'} = {key[t] : t \in MarkedIn(v)}
      <3> SUFFICES ASSUME NEW v \in Worker, v # w
                   PROVE  {key'[t] : t \in MarkedIn(v)'} = {key[t] : t \in MarkedIn(v)}
        OBVIOUS
      <3>1. MarkedIn(v)' = MarkedIn(v) /\ \A t \in MarkedIn(v) : key'[t] = key[t]
        BY <2>1
      <3> QED
        BY <3>1
    <2>3. refreshing'[w] = {key'[t] : t \in MarkedIn(w)'} \cup leaked'[w]
      BY <2>1
    <2>4. ASSUME NEW v \in Worker, v # w
          PROVE  refreshing'[v] = {key'[t] : t \in MarkedIn(v)'} \cup leaked'[v]
      BY <2>1, <2>2, <2>4 DEF MarksInv
    <2>5. ASSUME NEW v \in Worker, NEW x \in MarkedIn(v)', NEW y \in MarkedIn(v)',
                 key'[x] = key'[y]
          PROVE  x = y
      <3>1. v # w
        BY <2>1
      <3>2. x \in MarkedIn(v) /\ y \in MarkedIn(v) /\ key[x] = key[y]
        BY <2>1, <2>5, <3>1
      <3> QED
        BY <3>2 DEF MarksInv
    <2>6. \A v \in Worker : \A x \in MarkedIn(v)' : key'[x] \notin leaked'[v]
      BY <2>1 DEF MarksInv
    <2> QED
      BY <2>3, <2>4, <2>5, <2>6 DEF MarksInv
  <1>4. ASSUME NEW t \in Thread, Step(t) \/ \E k \in Key : Request(t, k),
               ~(Admit(t) /\ ~End(t)), ~Unmark(t), ~(Start(t) /\ pc'[t] = "idle")
        PROVE  /\ UNCHANGED <<refreshing, leaked>>
               /\ \A u \in Thread : /\ pc'[u] \in Marking <=> pc[u] \in Marking
                                    /\ pc[u] \in Marking => key'[u] = key[u]
    <2> USE DEF Marking, Admitted, End
    <2>1. CASE \E k \in Key : Request(t, k)
      BY <2>1 DEF Request
    <2>2. CASE Get(t) \/ GetStale(t)
      BY <2>2 DEF Get, GetStale
    <2>3. CASE Admit(t) /\ End(t)
      <3>1. slots[Home[t]] \in Int
        OBVIOUS
      <3> QED
        BY <2>3, <3>1 DEF Admit
    <2>4. CASE Lease(t) \/ Build(t)
      BY <2>4 DEF Lease, AfterLease, Build
    <2>6. CASE Start(t) /\ pc'[t] # "idle"
      <3>1. ~End(t)
        BY <2>6
      <3> QED
        BY <2>6, <3>1 DEF Start
    <2>5. CASE Store(t) \/ Unlease(t) \/ Free(t)
      BY <2>5 DEF Store, Unlease, Free
    <2> QED
      BY <1>4, <2>1, <2>2, <2>3, <2>4, <2>5, <2>6 DEF Step
  <1>5. ASSUME \/ \E k \in Key : SnapshotExpires(k) \/ LeaseExpires(k)
               \/ \E w \in Worker : Stop(w) \/ \E k \in Key : CoolingEnds(w, k)
               \/ UNCHANGED vars
        PROVE  UNCHANGED <<refreshing, pc, key, leaked>>
    BY <1>5 DEF SnapshotExpires, LeaseExpires, Stop, CoolingEnds, vars
  <1>6. ASSUME NEW t \in Thread, Start(t), pc'[t] = "idle" PROVE MarksInv'
    <2> DEFINE w == Home[t]
    <2>2. /\ pc[t] = "start" /\ pc' = [pc EXCEPT ![t] = "idle"]
          /\ key' = [key EXCEPT ![t] = AnyKey]
          /\ leaked' = [leaked EXCEPT ![w] = @ \cup {key[t]}]
          /\ UNCHANGED refreshing
      BY <1>6, StartFails
    <2>3. /\ MarkedIn(w)' = MarkedIn(w) \ {t} /\ t \in MarkedIn(w)
          /\ \A v \in Worker : v # w => MarkedIn(v)' = MarkedIn(v)
          /\ \A v \in Worker : t \notin MarkedIn(v)'
      BY <2>2 DEF MarkedIn, AdmittedIn, Admitted
    <2>4. \A v \in Worker : \A u \in MarkedIn(v)' : key'[u] = key[u]
      BY <2>2, <2>3 DEF MarkedIn, AdmittedIn
    <2>5. /\ leaked'[w] = leaked[w] \cup {key[t]}
          /\ \A v \in Worker : v # w => leaked'[v] = leaked[v]
      BY <2>2
    <2>6. {key'[u] : u \in MarkedIn(w)'} \cup leaked'[w]
             = {key[u] : u \in MarkedIn(w)} \cup leaked[w]
      BY <2>3, <2>4, <2>5
    <2>7. ASSUME NEW v \in Worker
          PROVE  refreshing'[v] = {key'[u] : u \in MarkedIn(v)'} \cup leaked'[v]
      <3>1. CASE v = w
        BY <2>2, <2>6, <3>1 DEF MarksInv
      <3>2. CASE v # w
        <4>1. {key'[u] : u \in MarkedIn(v)'} = {key[u] : u \in MarkedIn(v)}
          BY <2>3, <2>4, <3>2
        <4> QED
          BY <2>2, <2>5, <3>2, <4>1 DEF MarksInv
      <3> QED
        BY <3>1, <3>2
    <2>8. \A v \in Worker : \A x, y \in MarkedIn(v)' : key'[x] = key'[y] => x = y
      <3>1. \A v \in Worker : MarkedIn(v)' \subseteq MarkedIn(v)
        BY <2>3
      <3> QED
        BY <2>4, <3>1 DEF MarksInv
    <2>9. \A v \in Worker : \A x \in MarkedIn(v)' : key'[x] \notin leaked'[v]
      <3> SUFFICES ASSUME NEW v \in Worker, NEW x \in MarkedIn(v)'
                   PROVE  key'[x] \notin leaked'[v]
        OBVIOUS
      <3>1. x \in MarkedIn(v) /\ x # t
        BY <2>3
      <3>2. key[x] \notin leaked[v] /\ key'[x] = key[x]
        BY <2>4, <3>1 DEF MarksInv
      <3>3. CASE v = w
        <4>1. key[x] # key[t]
          BY <2>3, <3>1, <3>3 DEF MarksInv
        <4> QED
          BY <2>5, <3>2, <3>3, <4>1
      <3>4. CASE v # w
        BY <2>5, <3>2, <3>4
      <3> QED
        BY <3>3, <3>4
    <2> QED
      BY <2>7, <2>8, <2>9 DEF MarksInv
  <1> QED
    BY <1>1, <1>2, <1>3, <1>4, <1>5, <1>6, SameMarks DEF Next, Step

\* A lease is set for the winner, and taken from somebody who needs it only if
\* that one is slow.
LEMMA LeaseStep == IInv /\ [Next]_vars => LeaseInv'
  <1> SUFFICES ASSUME IInv, [Next]_vars,
                      NEW u \in Thread \ Slow, held'[u], pc'[u] \in Leasing
               PROVE  lease'[key'[u]] = u
    BY DEF LeaseInv
  <1> USE RefreshAssumption DEF IInv, TypeOK, LeaseInv, Leasing, workerVars, localVars, Goto, End
  <1>1. ASSUME NEW t \in Thread, \E k \in Key : Request(t, k) PROVE lease'[key'[u]] = u
    BY <1>1 DEF Request
  <1>2. ASSUME NEW t \in Thread, Get(t) \/ GetStale(t) PROVE lease'[key'[u]] = u
    BY <1>2 DEF Get, GetStale
  <1>3. ASSUME NEW t \in Thread, Admit(t) PROVE lease'[key'[u]] = u
    BY <1>3 DEF Admit
  <1>4. ASSUME NEW t \in Thread, Lease(t) PROVE lease'[key'[u]] = u
    BY <1>4 DEF Lease, AfterLease
  <1>5. ASSUME NEW t \in Thread, Start(t) \/ Build(t) \/ Store(t) PROVE lease'[key'[u]] = u
    BY <1>5 DEF Start, Build, Store
  <1>6. ASSUME NEW t \in Thread, Unlease(t) PROVE lease'[key'[u]] = u
    BY <1>6 DEF Unlease
  <1>7. ASSUME NEW t \in Thread, Unmark(t) \/ Free(t) PROVE lease'[key'[u]] = u
    BY <1>7 DEF Unmark, Free
  <1>8. ASSUME NEW k \in Key, SnapshotExpires(k) PROVE lease'[key'[u]] = u
    BY <1>8 DEF SnapshotExpires
  <1>9. ASSUME NEW k \in Key, LeaseExpires(k) PROVE lease'[key'[u]] = u
    BY <1>9 DEF LeaseExpires, LeaseInUse
  <1>10. ASSUME NEW w \in Worker, Stop(w) \/ \E k \in Key : CoolingEnds(w, k)
         PROVE  lease'[key'[u]] = u
    BY <1>10 DEF Stop, CoolingEnds
  <1>11. ASSUME NEW w \in Worker, Exit(w) PROVE lease'[key'[u]] = u
    BY <1>11 DEF Exit
  <1>12. CASE UNCHANGED vars
    BY <1>12 DEF vars
  <1> QED
    BY <1>1, <1>2, <1>3, <1>4, <1>5, <1>6, <1>7, <1>8, <1>9, <1>10, <1>11, <1>12
       DEF Next, Step
(***************************************************************************)
(* The properties of the runs, for every instance.                         *)
(***************************************************************************)

\* Nothing is admitted, marked or leased when the workers start.
LEMMA IInvInit == Init => IInv
  <1> SUFFICES ASSUME Init PROVE IInv
    OBVIOUS
  <1> USE RefreshAssumption, AnyKeyIsKey DEF Init
  <1>1. \A w \in Worker : AdmittedIn(w) = {} /\ MarkedIn(w) = {}
    BY DEF AdmittedIn, MarkedIn, Admitted
  <1>2. SlotsInv
    <2>1. \A w \in Worker : /\ IsFiniteSet(AdmittedIn(w)) /\ Cardinality(AdmittedIn(w)) = 0
                            /\ IsFiniteSet(leaked[w]) /\ Cardinality(leaked[w]) = 0
      BY <1>1, FS_EmptySet
    <2>2. \A w \in Worker : slots[w] = Slots /\ Slots \in Nat
      OBVIOUS
    <2> QED
      BY <2>1, <2>2 DEF SlotsInv
  <1>3. MarksInv
    BY <1>1 DEF MarksInv
  <1>4. LeaseInv
    BY DEF LeaseInv
  <1>5. TypeOK
    BY DEF TypeOK, Reading
  <1> QED
    BY <1>2, <1>3, <1>4, <1>5 DEF IInv

\* IInv holds in every reachable state.
LEMMA InductiveInvariant == Spec => []IInv
<1>1. IInv /\ [Next]_vars => IInv'
  BY TypeStep, SlotsStep, MarksStep, LeaseStep DEF IInv
<1> QED
  BY <1>1, IInvInit, PTL DEF Spec

\* No unit of the semaphore and no mark of a key is given out twice, and the only
\* ones that are lost are those of a rebuild whose thread could not be started.
THEOREM AdmissionAlwaysExact == Spec => []AdmissionIsExact
<1>1. IInv => AdmissionIsExact
  BY DEF IInv, SlotsInv, MarksInv, AdmissionIsExact
<1> QED
  BY <1>1, InductiveInvariant, PTL

\* Never two builders of a key in a worker, nor two that Redis told to go
\* ahead in any workers, unless one is slow.
THEOREM BuildersAreAlone == Spec => []OneBuilder
<1>1. IInv => OneBuilder
  <2> SUFFICES ASSUME IInv, NEW t \in Thread, NEW u \in Thread,
                      pc[t] \in Building, pc[u] \in Building, key[t] = key[u],
                      Home[t] = Home[u] \/ (held[t] /\ held[u] /\ {t, u} \cap Slow = {})
               PROVE  t = u
    BY DEF OneBuilder
  <2>1. CASE Home[t] = Home[u]
    <3>1. Home[t] \in Worker /\ t \in MarkedIn(Home[t]) /\ u \in MarkedIn(Home[t])
      BY <2>1, RefreshAssumption DEF MarkedIn, AdmittedIn, Building, Admitted
    <3> QED
      BY <3>1 DEF IInv, MarksInv
  <2>2. CASE held[t] /\ held[u] /\ {t, u} \cap Slow = {}
    BY <2>2 DEF IInv, LeaseInv, Leasing, Building
  <2> QED
    BY <2>1, <2>2
<1> QED
  BY <1>1, InductiveInvariant, PTL

\* A lease that is not free changes hands by its owner's release or by time.
THEOREM LeasesAreNotStolen == Spec => OnlyOwnerUnleases
<1>1. TypeOK /\ [Next]_vars =>
        [\A k \in Key : lease[k] # Nobody /\ lease'[k] # lease[k]
            => \/ pc' = pc
               \/ /\ lease'[k] = Nobody
                  /\ pc[lease[k]] = "unlease" /\ pc'[lease[k]] = "unmark"]_vars
  <2> SUFFICES ASSUME TypeOK, [Next]_vars, NEW k \in Key,
                      lease[k] # Nobody, lease'[k] # lease[k]
               PROVE  \/ pc' = pc
                      \/ /\ lease'[k] = Nobody
                         /\ pc[lease[k]] = "unlease" /\ pc'[lease[k]] = "unmark"
    OBVIOUS
  <2> USE RefreshAssumption DEF TypeOK, workerVars, localVars, Goto, End
  <2>1. ASSUME NEW t \in Thread, Lease(t)
        PROVE  FALSE
    BY <2>1 DEF Lease
  <2>2. ASSUME NEW t \in Thread, Unlease(t)
        PROVE  /\ lease'[k] = Nobody
               /\ pc[lease[k]] = "unlease" /\ pc'[lease[k]] = "unmark"
    BY <2>2 DEF Unlease
  <2>3. ASSUME NEW l \in Key, LeaseExpires(l)
        PROVE  pc' = pc
    BY <2>3 DEF LeaseExpires
  <2>4. ASSUME \/ \E t \in Thread : \/ \E l \in Key : Request(t, l)
                                    \/ Get(t) \/ GetStale(t) \/ Admit(t) \/ Start(t)
                                    \/ Build(t) \/ Store(t) \/ Unmark(t) \/ Free(t)
               \/ \E l \in Key : SnapshotExpires(l)
               \/ \E w \in Worker : Stop(w) \/ Exit(w) \/ \E l \in Key : CoolingEnds(w, l)
               \/ UNCHANGED vars
        PROVE  UNCHANGED lease
    BY <2>4 DEF Request, Get, GetStale, Admit, Start, Build, Store, Unmark, Free,
                SnapshotExpires, Stop, Exit, CoolingEnds, vars
  <2> QED
    BY <2>1, <2>2, <2>3, <2>4 DEF Next, Step
<1>2. IInv => TypeOK
  BY DEF IInv
<1> QED
  BY <1>1, <1>2, InductiveInvariant, PTL DEF Spec, OnlyOwnerUnleases
=============================================================================
