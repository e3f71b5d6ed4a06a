-------------------------- MODULE PanelReadsProofs --------------------------
(* Theorems about PanelReads, for every set of workers, reads and keys,    *)
(* every number of permits, and a store that may be busy or not.           *)
EXTENDS PanelReads, FiniteSetTheorems, TLAPS

(***************************************************************************)
(* The inductive invariant: who holds a permit, who holds a fetch lock,    *)
(* and what the two looks under the lock have established for their        *)
(* holder, which nobody else can undo.                                     *)
(***************************************************************************)

AllHolders == {t \in Thread : pc[t] \in Admitted /\ key[t] \notin UnboundedKey}

\* Every permit is free, with one read, or lost.
PermitInv ==
    /\ IsFiniteSet(AllHolders)
    /\ permits + Cardinality(AllHolders) + Cardinality(Leaks) = Builds

\* A permit is lost by one worker.
LeakInv == \A v, w \in Worker : v # w => leaked[v] \cap leaked[w] = {}

\* A read that is past its fetch lock has it.
LockInv == \A t \in Thread : pc[t] \in Locked => lock[key[t]] = t

\* After the first look the row is not fresh, after the second no failure cools.
LookInv ==
    \A t \in Thread \ blind :
        /\ pc[t] \in {"recheck", "build"} => row[key[t]] # "fresh"
        /\ pc[t] = "build" => key[t] \notin errors

IInv == TypeOK /\ PermitInv /\ LeakInv /\ LockInv /\ LookInv

LEMMA AnyKeyIsKey == AnyKey \in Key
  BY ReadsAssumption DEF AnyKey

\* The holders in one worker after the other are all the holders.
LEMMA HoldersAreAll == UNION {Holders(w) : w \in Worker} = AllHolders
  BY ReadsAssumption DEF Holders, AllHolders

\* There are at most as many lost permits as permits.
LEMMA LeaksAreFinite ==
    ASSUME TypeOK
    PROVE  /\ IsFiniteSet(Leaks) /\ Cardinality(Leaks) \in Nat
           /\ \A w \in Worker : /\ leaked[w] \in SUBSET Leaks
                                /\ IsFiniteSet(leaked[w]) /\ Cardinality(leaked[w]) \in Nat
                                /\ Cardinality(leaked[w]) <= Cardinality(Leaks)
  <1>1. Leaks \in SUBSET (1..Builds)
    BY DEF TypeOK, Leaks
  <1>2. IsFiniteSet(1..Builds)
    BY ReadsAssumption, FS_Interval
  <1>3. IsFiniteSet(Leaks) /\ Cardinality(Leaks) \in Nat
    BY <1>1, <1>2, FS_Subset, FS_CardinalityType
  <1>4. ASSUME NEW w \in Worker PROVE leaked[w] \in SUBSET Leaks
    BY DEF Leaks
  <1> QED
    BY <1>3, <1>4, FS_Subset, FS_CardinalityType

\* While a read holds a permit, not all of them are free.
LEMMA HeldIsCounted ==
    ASSUME IInv, NEW t \in AllHolders
    PROVE  permits < Builds
  <1>1. Cardinality(AllHolders) \in Nat /\ Cardinality(AllHolders) # 0
    BY FS_CardinalityType, FS_EmptySet DEF IInv, PermitInv
  <1>2. Cardinality(Leaks) \in Nat
    BY LeaksAreFinite DEF IInv
  <1> QED
    BY <1>1, <1>2, ReadsAssumption DEF IInv, PermitInv, TypeOK

\* What ReturnPermit does for a read that is admitted keeps the type.
LEMMA ReturnedIsPermit ==
    ASSUME IInv, NEW t \in Thread, pc[t] \in Admitted, ReturnPermit(t)
    PROVE  permits' \in 0..Builds
  <1>1. CASE key[t] \in UnboundedKey
    BY <1>1 DEF ReturnPermit, IInv, TypeOK
  <1>2. CASE key[t] \notin UnboundedKey
    <2>1. permits < Builds
      BY <1>2, HeldIsCounted DEF AllHolders
    <2> QED
      BY <1>2, <2>1, ReadsAssumption DEF ReturnPermit, IInv, TypeOK
  <1> QED
    BY <1>1, <1>2

(***************************************************************************)
(* The local variables of the reads, whatever the step does to the rest.   *)
(***************************************************************************)

Place == {"idle"} \cup Looking \cup Admitted

LocalsOK ==
    /\ pc \in [Thread -> Place] /\ key \in [Thread -> Key]
    /\ background \in [Thread -> BOOLEAN] /\ blind \subseteq Thread

LEMMA GotoLocals ==
    ASSUME LocalsOK, NEW t \in Thread, NEW place \in Place, Goto(t, place)
    PROVE  LocalsOK'
  BY DEF LocalsOK, Goto

LEMMA LookLocals ==
    ASSUME LocalsOK, NEW t \in Thread, NEW place \in Place, NEW missed, Look(t, place, missed)
    PROVE  LocalsOK'
  BY DEF LocalsOK, Look

LEMMA DoneLocals ==
    ASSUME LocalsOK, NEW t \in Thread, Done(t)
    PROVE  LocalsOK'
  <1>1. pc' \in [Thread -> Place]
    BY DEF LocalsOK, Done, Place
  <1> QED
    BY <1>1, AnyKeyIsKey DEF LocalsOK, Done

\* The reads keep the types of their variables.
LEMMA LocalsStep == IInv /\ [Next]_vars => LocalsOK'
  <1> SUFFICES ASSUME IInv, [Next]_vars PROVE LocalsOK'
    OBVIOUS
  <1>0. LocalsOK
    BY DEF IInv, TypeOK, LocalsOK, Place
  <1> USE <1>0
  <1>1. ASSUME NEW t \in Thread, NEW k \in Key, Request(t, k) PROVE LocalsOK'
    BY <1>1 DEF Request, LocalsOK, Place, Looking
  <1>2. ASSUME NEW t \in Thread, GetStale(t) PROVE LocalsOK'
    <2>1. background' \in [Thread -> BOOLEAN]
      <3>1. PICK seen \in Seen(row[key[t]], "absent") :
               background' = [background EXCEPT ![t] = seen # "absent" /\ key[t] \in BackgroundKey]
        BY <1>2 DEF GetStale
      <3> QED
        BY <3>1, Zenon DEF LocalsOK
    <2> QED
      BY <1>2, <2>1 DEF GetStale, LocalsOK, Place, Looking
  <1>3. ASSUME NEW t \in Thread, NEW place \in Place, Goto(t, place) PROVE LocalsOK'
    BY <1>3, GotoLocals
  <1>4. ASSUME NEW t \in Thread, NEW place \in Place, NEW missed, Look(t, place, missed)
        PROVE  LocalsOK'
    BY <1>4, LookLocals
  <1>5. ASSUME NEW t \in Thread, Done(t) PROVE LocalsOK'
    BY <1>5, DoneLocals
  <1>6. ASSUME NEW w \in Worker, Exit(w) PROVE LocalsOK'
    <2>1. background' \in [Thread -> BOOLEAN]
      BY <1>6, Zenon DEF Exit
    <2>2. pc' \in [Thread -> Place] /\ key' \in [Thread -> Key] /\ blind' \subseteq Thread
      BY <1>6, AnyKeyIsKey DEF Exit, LocalsOK, Place
    <2> QED
      BY <2>1, <2>2 DEF LocalsOK
  <1>7. ASSUME UNCHANGED <<pc, key, background, blind>> PROVE LocalsOK'
    BY <1>7 DEF LocalsOK
  <1>8. ASSUME NEW t \in Thread, Get(t) \/ GetError(t) \/ TryPermit(t) \/ Start(t) \/ TakeLock(t)
        PROVE  LocalsOK'
    BY <1>8, <1>3, <1>5, Zenon
       DEF Get, GetError, TryPermit, AfterPermit, Start, TakeLock, Place, Looking, Admitted, Locked
  <1>9. ASSUME NEW t \in Thread, Reread(t) \/ Recheck(t)
        PROVE  LocalsOK'
    BY <1>9, <1>4, Zenon DEF Reread, Recheck, Place, Admitted, Locked
  <1>10. ASSUME NEW t \in Thread, Build(t) \/ Store(t) \/ Remember(t) \/ Fail(t) \/ Unlock(t)
                                  \/ ClosePermit(t)
         PROVE  LocalsOK'
    BY <1>10, <1>3, <1>5, Zenon
       DEF Build, Store, Remember, Fail, Unlock, ClosePermit, Place, Admitted, Locked
  <1>11. ASSUME \/ \E k \in Key : RowAges(k) \/ CooldownEnds(k)
                \/ \E w \in Worker : Stop(w) \/ \E k \in Key : MemoryExpires(w, k)
                \/ UNCHANGED vars
         PROVE  UNCHANGED <<pc, key, background, blind>>
    BY <1>11 DEF RowAges, CooldownEnds, Stop, MemoryExpires, vars
  <1> QED
    BY <1>1, <1>2, <1>6, <1>7, <1>8, <1>9, <1>10, <1>11 DEF Next, Step

(***************************************************************************)
(* The variables that the reads share.                                     *)
(***************************************************************************)

\* Every variable keeps its type.
LEMMA TypeStep == IInv /\ [Next]_vars => TypeOK'
  <1> SUFFICES ASSUME IInv, [Next]_vars PROVE TypeOK'
    OBVIOUS
  <1> DEFINE Shared == /\ row' \in [Key -> {"absent", "stale", "fresh"}]
                       /\ errors' \subseteq Key
                       /\ memory' \in [Worker -> SUBSET Key]
                       /\ permits' \in 0..Builds
                       /\ lock' \in [Key -> Thread \cup {Nobody}]
                       /\ stopped' \in [Worker -> BOOLEAN]
                       /\ leaked' \in [Worker -> SUBSET (1..Builds)]
  <1>1. ASSUME UNCHANGED sharedVars PROVE Shared
    BY <1>1 DEF sharedVars, IInv, TypeOK
  <1>2. ASSUME NEW t \in Thread, TryPermit(t) PROVE Shared
    <2>1. UNCHANGED <<row, errors, memory, lock, stopped, leaked>>
      BY <1>2 DEF TryPermit
    <2>2. permits' \in 0..Builds
      BY <1>2, ReadsAssumption DEF TryPermit, IInv, TypeOK
    <2> QED
      BY <2>1, <2>2 DEF IInv, TypeOK
  <1>3. ASSUME NEW t \in Thread, Start(t) PROVE Shared
    <2>1. UNCHANGED <<row, errors, memory, lock, stopped>> /\ pc[t] \in Admitted
      BY <1>3 DEF Start, Admitted
    <2>2. permits' = permits \/ ReturnPermit(t)
      BY <1>3 DEF Start
    <2>3. permits' \in 0..Builds
      BY <2>1, <2>2, ReturnedIsPermit DEF IInv, TypeOK
    <2>4. \/ UNCHANGED leaked
          \/ \E n \in 1..Builds : leaked' = [leaked EXCEPT ![Home[t]] = @ \cup {n}]
      BY <1>3 DEF Start
    <2>5. leaked' \in [Worker -> SUBSET (1..Builds)]
      BY <2>4, ReadsAssumption DEF IInv, TypeOK
    <2> QED
      BY <2>1, <2>3, <2>5 DEF IInv, TypeOK
  <1>4. ASSUME NEW t \in Thread, TakeLock(t) PROVE Shared
    BY <1>4 DEF TakeLock, IInv, TypeOK
  <1>5. ASSUME NEW t \in Thread, Store(t) PROVE Shared
    BY <1>5 DEF Store, IInv, TypeOK
  <1>6. ASSUME NEW t \in Thread, Remember(t) PROVE Shared
    BY <1>6, ReadsAssumption DEF Remember, IInv, TypeOK
  <1>7. ASSUME NEW t \in Thread, Fail(t) PROVE Shared
    BY <1>7 DEF Fail, IInv, TypeOK
  <1>8. ASSUME NEW t \in Thread, Unlock(t) PROVE Shared
    BY <1>8 DEF Unlock, IInv, TypeOK
  <1>9. ASSUME NEW t \in Thread, ClosePermit(t) PROVE Shared
    <2>1. UNCHANGED <<row, errors, memory, lock, stopped, leaked>> /\ pc[t] \in Admitted /\ ReturnPermit(t)
      BY <1>9 DEF ClosePermit, Admitted
    <2> QED
      BY <2>1, ReturnedIsPermit DEF IInv, TypeOK
  <1>10. ASSUME NEW k \in Key, RowAges(k) PROVE Shared
    BY <1>10 DEF RowAges, IInv, TypeOK
  <1>11. ASSUME NEW k \in Key, CooldownEnds(k) PROVE Shared
    BY <1>11 DEF CooldownEnds, IInv, TypeOK
  <1>12. ASSUME NEW w \in Worker, NEW k \in Key, MemoryExpires(w, k) PROVE Shared
    BY <1>12 DEF MemoryExpires, IInv, TypeOK
  <1>13. ASSUME NEW w \in Worker, Stop(w) PROVE Shared
    BY <1>13 DEF Stop, IInv, TypeOK
  <1>14. ASSUME NEW w \in Worker, Exit(w) PROVE Shared
    <2>1. /\ lock' \in [Key -> Thread \cup {Nobody}]
          /\ memory' \in [Worker -> SUBSET Key] /\ stopped' \in [Worker -> BOOLEAN]
          /\ row' = row /\ errors' = errors
          /\ leaked' \in [Worker -> SUBSET (1..Builds)]
      BY <1>14 DEF Exit, IInv, TypeOK
    <2>2. permits' \in 0..Builds
      <3>1. Holders(w) \in SUBSET AllHolders
        BY HoldersAreAll
      <3>2. Cardinality(Holders(w)) \in Nat /\ Cardinality(Holders(w)) <= Cardinality(AllHolders)
        BY <3>1, FS_Subset, FS_CardinalityType DEF IInv, PermitInv
      <3>3. /\ Cardinality(AllHolders) \in Nat
            /\ permits + Cardinality(AllHolders) + Cardinality(Leaks) = Builds
        BY FS_CardinalityType DEF IInv, PermitInv
      <3>4. permits' = permits + Cardinality(Holders(w)) + Cardinality(leaked[w])
        BY <1>14 DEF Exit
      <3>5. /\ Cardinality(Leaks) \in Nat /\ Cardinality(leaked[w]) \in Nat
            /\ Cardinality(leaked[w]) <= Cardinality(Leaks)
        BY LeaksAreFinite DEF IInv
      <3>6. permits \in Nat /\ Builds \in Nat
        BY ReadsAssumption DEF IInv, TypeOK
      <3> QED
        BY <3>2, <3>3, <3>4, <3>5, <3>6
    <2> QED
      BY <2>1, <2>2 DEF IInv, TypeOK
  <1>15. ASSUME NEW t \in Thread,
                \/ \E k \in Key : Request(t, k)
                \/ Get(t) \/ GetStale(t) \/ GetError(t) \/ Reread(t) \/ Recheck(t) \/ Build(t)
         PROVE  UNCHANGED sharedVars
    BY <1>15 DEF Request, Get, GetStale, GetError, Reread, Recheck, Build
  <1>16. ASSUME UNCHANGED vars PROVE Shared
    BY <1>16, <1>1 DEF vars, sharedVars
  <1>17. ASSUME NEW t \in Thread, Step(t) \/ \E k \in Key : Request(t, k) PROVE Shared
    <2>1. CASE \/ \E k \in Key : Request(t, k)
               \/ Get(t) \/ GetStale(t) \/ GetError(t) \/ Reread(t) \/ Recheck(t) \/ Build(t)
      <3>1. UNCHANGED sharedVars
        BY <2>1, <1>15
      <3> QED
        BY <3>1, <1>1
    <2>2. CASE \/ TryPermit(t) \/ Start(t) \/ TakeLock(t) \/ Store(t)
               \/ Remember(t) \/ Fail(t) \/ Unlock(t) \/ ClosePermit(t)
      BY <2>2, <1>2, <1>3, <1>4, <1>5, <1>6, <1>7, <1>8, <1>9
    <2> HIDE DEF Shared
    <2> QED
      BY <1>17, <2>1, <2>2 DEF Step
  <1>18. Shared
    <2> HIDE DEF Shared
    <2> QED
      BY <1>10, <1>11, <1>12, <1>13, <1>14, <1>16, <1>17 DEF Next
  <1> QED
    BY <1>18, LocalsStep DEF LocalsOK, TypeOK, Place

\* A step of t that does not change who holds a permit.
LEMMA SamePermits ==
    ASSUME PermitInv, UNCHANGED <<permits, leaked>>, AllHolders' = AllHolders
    PROVE  PermitInv'
  BY DEF PermitInv, Leaks

\* A read that ends gives back the permit it has.
LEMMA PermitReturned ==
    ASSUME IInv, NEW t \in Thread, pc[t] \in Admitted, Done(t), ReturnPermit(t),
           UNCHANGED leaked
    PROVE  PermitInv'
  <1>1. /\ pc' = [pc EXCEPT ![t] = "idle"]
        /\ \A u \in Thread : u # t => key'[u] = key[u]
    BY DEF Done, IInv, TypeOK
  <1>2. AllHolders' = AllHolders \ {t}
    BY <1>1 DEF AllHolders, IInv, TypeOK, Admitted, Locked
  <1>3. CASE key[t] \in UnboundedKey
    <2>1. AllHolders' = AllHolders
      BY <1>2, <1>3 DEF AllHolders
    <2> QED
      BY <2>1, <1>3, SamePermits DEF ReturnPermit, IInv
  <1>4. CASE key[t] \notin UnboundedKey
    <2>1. t \in AllHolders
      BY <1>4 DEF AllHolders
    <2>2. /\ IsFiniteSet(AllHolders')
          /\ Cardinality(AllHolders') = Cardinality(AllHolders) - 1
          /\ Cardinality(AllHolders) \in Nat
      BY <1>2, <2>1, FS_RemoveElement, FS_CardinalityType DEF IInv, PermitInv
    <2>3. Leaks' = Leaks /\ Cardinality(Leaks) \in Nat
      BY LeaksAreFinite DEF Leaks, IInv
    <2> QED
      BY <2>2, <2>3, <1>4, ReadsAssumption DEF ReturnPermit, IInv, PermitInv, TypeOK
  <1> QED
    BY <1>3, <1>4

\* A read whose thread does not start leaves with its permit.
LEMMA PermitLost ==
    ASSUME IInv, NEW t \in Thread, pc[t] \in Admitted, key[t] \notin UnboundedKey,
           Done(t), UNCHANGED permits,
           NEW n \in (1..Builds) \ Leaks,
           leaked' = [leaked EXCEPT ![Home[t]] = @ \cup {n}]
    PROVE  PermitInv' /\ LeakInv'
  <1>1. /\ pc' = [pc EXCEPT ![t] = "idle"]
        /\ \A u \in Thread : u # t => key'[u] = key[u]
    BY DEF Done, IInv, TypeOK
  <1>2. AllHolders' = AllHolders \ {t} /\ t \in AllHolders
    BY <1>1 DEF AllHolders, IInv, TypeOK, Admitted, Locked
  <1>3. /\ IsFiniteSet(AllHolders')
        /\ Cardinality(AllHolders') = Cardinality(AllHolders) - 1
        /\ Cardinality(AllHolders) \in Nat
    BY <1>2, FS_RemoveElement, FS_CardinalityType DEF IInv, PermitInv
  <1>4. /\ Home[t] \in Worker /\ leaked'[Home[t]] = leaked[Home[t]] \cup {n}
        /\ \A w \in Worker : w # Home[t] => leaked'[w] = leaked[w]
    BY ReadsAssumption DEF IInv, TypeOK
  <1>5. Leaks' = Leaks \cup {n}
    BY <1>4 DEF Leaks
  <1>6. /\ IsFiniteSet(Leaks') /\ Cardinality(Leaks') = Cardinality(Leaks) + 1
        /\ Cardinality(Leaks) \in Nat
    BY <1>5, LeaksAreFinite, FS_AddElement DEF IInv
  <1>7. PermitInv'
    BY <1>3, <1>6, ReadsAssumption DEF IInv, PermitInv, TypeOK
  <1>8. \A w \in Worker : n \notin leaked[w]
    BY DEF Leaks
  <1> QED
    BY <1>4, <1>7, <1>8 DEF IInv, LeakInv

\* A permit is lost once, and comes back with the death of its worker.
LEMMA LeakStep == IInv /\ [Next]_vars => LeakInv'
  <1> SUFFICES ASSUME IInv, [Next]_vars PROVE LeakInv'
    OBVIOUS
  <1>1. CASE UNCHANGED leaked
    BY <1>1 DEF IInv, LeakInv
  <1>2. ASSUME NEW t \in Thread, Start(t), ~UNCHANGED leaked PROVE LeakInv'
    <2>1. /\ pc[t] \in Admitted /\ key[t] \notin UnboundedKey /\ Done(t) /\ UNCHANGED permits
          /\ \E n \in (1..Builds) \ Leaks : leaked' = [leaked EXCEPT ![Home[t]] = @ \cup {n}]
      BY <1>2 DEF Start, Admitted
    <2> QED
      BY <2>1, PermitLost
  <1>3. ASSUME NEW w \in Worker, Exit(w) PROVE LeakInv'
    <2>1. leaked' = [leaked EXCEPT ![w] = {}]
      BY <1>3 DEF Exit
    <2> QED
      BY <2>1 DEF IInv, TypeOK, LeakInv
  <1>4. ASSUME NEW t \in Thread, Step(t) \/ \E k \in Key : Request(t, k), ~Start(t)
        PROVE  UNCHANGED leaked
    BY <1>4 DEF Step, Request, Get, GetStale, GetError, TryPermit, TakeLock, Reread, Recheck,
                Build, Store, Remember, Fail, Unlock, ClosePermit, sharedVars
  <1>5. ASSUME \/ \E k \in Key : RowAges(k) \/ CooldownEnds(k)
               \/ \E w \in Worker : Stop(w) \/ \E k \in Key : MemoryExpires(w, k)
               \/ UNCHANGED vars
        PROVE  UNCHANGED leaked
    BY <1>5 DEF RowAges, CooldownEnds, Stop, MemoryExpires, vars
  <1> QED
    BY <1>1, <1>2, <1>3, <1>4, <1>5 DEF Next, Step

\* Permits are taken by TryPermit and returned by whatever ends an admitted read.
LEMMA PermitStep == IInv /\ [Next]_vars => PermitInv'
  <1> SUFFICES ASSUME IInv, [Next]_vars PROVE PermitInv'
    OBVIOUS
  <1>1. ASSUME UNCHANGED <<permits, leaked>>,
               \A u \in Thread : /\ pc'[u] \in Admitted <=> pc[u] \in Admitted
                                 /\ pc[u] \in Admitted => key'[u] = key[u]
        PROVE  PermitInv'
    <2>1. AllHolders' = AllHolders
      BY <1>1 DEF AllHolders
    <2> QED
      BY <1>1, <2>1, SamePermits DEF IInv
  <1>2. ASSUME NEW t \in Thread, TryPermit(t), ~Done(t) PROVE PermitInv'
    <2>1. /\ pc[t] = "permit" /\ key' = key
          /\ \E place \in {"start", "lock"} : pc' = [pc EXCEPT ![t] = place]
      BY <1>2 DEF TryPermit, Goto, AfterPermit
    <2>2. AllHolders' = IF key[t] \in UnboundedKey THEN AllHolders ELSE AllHolders \cup {t}
      BY <2>1 DEF AllHolders, IInv, TypeOK, Admitted, Locked
    <2>3. CASE key[t] \in UnboundedKey
      BY <1>2, <2>2, <2>3, SamePermits DEF TryPermit, IInv
    <2>4. CASE key[t] \notin UnboundedKey
      <3>1. t \notin AllHolders
        BY <2>1 DEF AllHolders, Admitted, Locked
      <3>2. /\ IsFiniteSet(AllHolders')
            /\ Cardinality(AllHolders') = Cardinality(AllHolders) + 1
            /\ Cardinality(AllHolders) \in Nat
        BY <2>2, <2>4, <3>1, FS_AddElement, FS_CardinalityType DEF IInv, PermitInv
      <3>3. permits' = permits - 1 /\ Leaks' = Leaks
        BY <1>2, <2>4 DEF TryPermit, Leaks
      <3>4. Cardinality(Leaks) \in Nat
        BY LeaksAreFinite DEF IInv
      <3> QED
        BY <3>2, <3>3, <3>4, ReadsAssumption DEF IInv, PermitInv, TypeOK
    <2> QED
      BY <2>3, <2>4
  <1>3. ASSUME NEW t \in Thread, ClosePermit(t) \/ (Start(t) /\ stopped[Home[t]])
        PROVE  PermitInv'
    <2>1. pc[t] \in Admitted /\ Done(t) /\ ReturnPermit(t) /\ UNCHANGED leaked
      BY <1>3 DEF ClosePermit, Start, Admitted
    <2> QED
      BY <2>1, PermitReturned
  <1>4. ASSUME NEW w \in Worker, Exit(w) PROVE PermitInv'
    <2>1. AllHolders' = AllHolders \ Holders(w)
      <3>1. \A t \in Thread : /\ Home[t] = w => pc'[t] = "idle"
                              /\ Home[t] # w => pc'[t] = pc[t] /\ key'[t] = key[t]
        BY <1>4 DEF Exit
      <3>2. "idle" \notin Admitted
        BY DEF Admitted, Locked
      <3>3. \A t \in Thread : (pc'[t] \in Admitted /\ key'[t] \notin UnboundedKey)
               <=> (Home[t] # w /\ pc[t] \in Admitted /\ key[t] \notin UnboundedKey)
        BY <3>1, <3>2
      <3> QED
        BY <3>3 DEF AllHolders, Holders
    <2>2. Holders(w) \in SUBSET AllHolders /\ AllHolders \cap Holders(w) = Holders(w)
      BY HoldersAreAll
    <2>3. /\ IsFiniteSet(AllHolders')
          /\ Cardinality(AllHolders') = Cardinality(AllHolders) - Cardinality(Holders(w))
      <3>1. IsFiniteSet(AllHolders)
        BY DEF IInv, PermitInv
      <3>2. /\ IsFiniteSet(AllHolders \ Holders(w))
            /\ Cardinality(AllHolders \ Holders(w))
                  = Cardinality(AllHolders) - Cardinality(AllHolders \cap Holders(w))
        BY <3>1, FS_Difference
      <3>3. AllHolders \cap Holders(w) = Holders(w)
        BY <2>2
      <3> QED
        BY <2>1, <3>2, <3>3, Zenon
    <2>4. Cardinality(AllHolders) \in Nat /\ Cardinality(Holders(w)) \in Nat
      BY <2>2, FS_Subset, FS_CardinalityType DEF IInv, PermitInv
    <2>5. permits' = permits + Cardinality(Holders(w)) + Cardinality(leaked[w])
      BY <1>4 DEF Exit
    <2>6. leaked' = [leaked EXCEPT ![w] = {}]
      BY <1>4 DEF Exit
    <2>7. Leaks' = Leaks \ leaked[w] /\ Leaks \cap leaked[w] = leaked[w]
      BY <2>6 DEF Leaks, IInv, TypeOK, LeakInv
    <2>8. /\ IsFiniteSet(Leaks) /\ Cardinality(Leaks) \in Nat
          /\ Cardinality(leaked[w]) \in Nat
      BY LeaksAreFinite DEF IInv
    <2>9. Cardinality(Leaks') = Cardinality(Leaks) - Cardinality(leaked[w])
      <3>1. Cardinality(Leaks \ leaked[w]) = Cardinality(Leaks) - Cardinality(Leaks \cap leaked[w])
        BY <2>8, FS_Difference
      <3> QED
        BY <2>7, <3>1
    <2>10. permits \in Nat /\ permits + Cardinality(AllHolders) + Cardinality(Leaks) = Builds
      BY ReadsAssumption DEF IInv, PermitInv, TypeOK
    <2>11. permits' + Cardinality(AllHolders') + Cardinality(Leaks') = Builds
      BY <2>3, <2>4, <2>5, <2>8, <2>9, <2>10
    <2> QED
      BY <2>3, <2>11 DEF PermitInv
  <1>5. ASSUME NEW t \in Thread, Done(t), pc[t] \notin Admitted, UNCHANGED <<permits, leaked>>
        PROVE  PermitInv'
    <2>1. \A u \in Thread : /\ pc'[u] \in Admitted <=> pc[u] \in Admitted
                            /\ pc[u] \in Admitted => key'[u] = key[u]
      BY <1>5 DEF Done, IInv, TypeOK, Admitted, Locked
    <2> QED
      BY <1>5, <2>1, <1>1
  <1>6. ASSUME NEW t \in Thread, NEW place, UNCHANGED <<permits, key, leaked>>,
               pc' = [pc EXCEPT ![t] = place], pc[t] \in Admitted <=> place \in Admitted
        PROVE  PermitInv'
    <2>1. \A u \in Thread : pc'[u] \in Admitted <=> pc[u] \in Admitted
      BY <1>6 DEF IInv, TypeOK
    <2> QED
      BY <1>1, <1>6, <2>1
  <1>7. ASSUME NEW t \in Thread, NEW k \in Key, Request(t, k) PROVE PermitInv'
    <2>1. \A u \in Thread : /\ pc'[u] \in Admitted <=> pc[u] \in Admitted
                            /\ pc[u] \in Admitted => key'[u] = key[u]
      BY <1>7 DEF Request, IInv, TypeOK, Admitted, Locked
    <2> QED
      BY <1>7, <2>1, <1>1 DEF Request, sharedVars
  <1>8. ASSUME NEW t \in Thread, Get(t) \/ GetError(t) \/ (TryPermit(t) /\ Done(t)) PROVE PermitInv'
    <2>1. Done(t) \/ \E place \in {"getStale", "permit"} : Goto(t, place)
      BY <1>8 DEF Get, GetError
    <2>2. pc[t] \notin Admitted
      BY <1>8 DEF Get, GetError, TryPermit, Admitted, Locked
    <2>3. UNCHANGED <<permits, leaked>>
      <3>1. CASE TryPermit(t) /\ Done(t)
        <4>1. pc'[t] = "idle"
          BY <3>1 DEF Done, IInv, TypeOK
        <4>2. ~Goto(t, AfterPermit(t))
          BY <4>1 DEF Goto, AfterPermit, IInv, TypeOK
        <4> QED
          BY <3>1, <4>2 DEF TryPermit
      <3> QED
        BY <1>8, <3>1 DEF Get, GetError, sharedVars
    <2> QED
      BY <2>1, <2>2, <2>3, <1>5, <1>6 DEF Goto, Admitted, Locked
  <1>9. ASSUME NEW t \in Thread, GetStale(t) PROVE PermitInv'
    BY <1>9, <1>6 DEF GetStale, sharedVars, Admitted, Locked
  <1>10. ASSUME NEW t \in Thread,
                \/ Start(t) /\ ~Done(t)
                \/ TakeLock(t) \/ Reread(t) \/ Recheck(t) \/ Build(t)
                \/ Store(t) \/ Remember(t) \/ Fail(t) \/ Unlock(t)
         PROVE  PermitInv'
    <2>1. \E place \in Admitted : pc' = [pc EXCEPT ![t] = place]
      BY <1>10, Zenon DEF Start, TakeLock, Reread, Recheck, Build, Store, Remember, Fail, Unlock,
                   Goto, Look, Admitted, Locked
    <2>2. pc[t] \in Admitted
      BY <1>10, Zenon DEF Start, TakeLock, Reread, Recheck, Build, Store, Remember, Fail, Unlock,
                   Admitted, Locked
    <2>3. UNCHANGED <<permits, key, leaked>>
      BY <1>10 DEF Start, TakeLock, Reread, Recheck, Build, Store, Remember, Fail, Unlock,
                   Goto, Look, sharedVars
    <2> QED
      BY <2>1, <2>2, <2>3, <1>6
  <1>11. ASSUME \/ \E k \in Key : RowAges(k) \/ CooldownEnds(k)
                \/ \E w \in Worker : Stop(w) \/ \E k \in Key : MemoryExpires(w, k)
                \/ UNCHANGED vars
         PROVE  PermitInv'
    <2>1. UNCHANGED <<permits, pc, key, leaked>>
      BY <1>11 DEF RowAges, CooldownEnds, Stop, MemoryExpires, vars
    <2> QED
      BY <2>1, <1>1
  <1>12. ASSUME NEW t \in Thread, Start(t), Done(t), ~stopped[Home[t]] PROVE PermitInv'
    <2>1. pc[t] \in Admitted /\ UNCHANGED permits
      BY <1>12 DEF Start, Admitted
    <2>2. pc'[t] # "lock"
      BY <1>12 DEF Done, IInv, TypeOK
    <2>3. CASE key[t] \notin UnboundedKey
      <3>1. \E n \in (1..Builds) \ Leaks : leaked' = [leaked EXCEPT ![Home[t]] = @ \cup {n}]
        BY <1>12, <2>2, <2>3 DEF Start, Goto, IInv, TypeOK
      <3> QED
        BY <1>12, <2>1, <2>3, <3>1, PermitLost
    <2>4. CASE key[t] \in UnboundedKey
      <3>1. UNCHANGED leaked
        BY <1>12, <2>2, <2>4 DEF Start, Goto, IInv, TypeOK
      <3>2. ReturnPermit(t)
        BY <2>1, <2>4 DEF ReturnPermit
      <3> QED
        BY <1>12, <2>1, <3>1, <3>2, PermitReturned
    <2> QED
      BY <2>3, <2>4
  <1> QED
    BY <1>2, <1>3, <1>4, <1>7, <1>8, <1>9, <1>10, <1>11, <1>12 DEF Next, Step

(***************************************************************************)
(* The fetch locks and what is known under them.                           *)
(***************************************************************************)

\* A read that stays out of the locked part, or leaves it, cannot hurt LockInv.
LEMMA LockKept ==
    ASSUME IInv, NEW t \in Thread, UNCHANGED <<lock>>,
           \A u \in Thread \ {t} : pc'[u] = pc[u] /\ key'[u] = key[u],
           pc'[t] \in Locked => pc[t] \in Locked /\ key'[t] = key[t]
    PROVE  LockInv'
  BY DEF IInv, LockInv

\* The lock of a key is taken when free and dropped by its owner.
LEMMA LockStep == IInv /\ [Next]_vars => LockInv'
  <1> SUFFICES ASSUME IInv, [Next]_vars PROVE LockInv'
    OBVIOUS
  <1>1. ASSUME NEW t \in Thread, NEW k \in Key, Request(t, k) PROVE LockInv'
    BY <1>1, LockKept DEF Request, sharedVars, IInv, TypeOK, Locked
  <1>2. ASSUME NEW t \in Thread, Done(t), lock' = lock PROVE LockInv'
    BY <1>2, LockKept DEF Done, IInv, TypeOK, Locked
  <1>3. ASSUME NEW t \in Thread, NEW place, UNCHANGED <<lock, key>>,
               pc' = [pc EXCEPT ![t] = place], place \in Locked => pc[t] \in Locked
        PROVE  LockInv'
    BY <1>3, LockKept DEF IInv, TypeOK
  <1>4. ASSUME NEW t \in Thread,
               Get(t) \/ GetError(t) \/ TryPermit(t) \/ Start(t) \/ ClosePermit(t)
        PROVE  LockInv'
    <2>1. lock' = lock
      BY <1>4 DEF Get, GetError, TryPermit, Start, ClosePermit, sharedVars
    <2>2. Done(t) \/ \E place \in {"getStale", "permit", "start", "lock"} : Goto(t, place)
      BY <1>4, Zenon DEF Get, GetError, TryPermit, AfterPermit, Start, ClosePermit
    <2> QED
      BY <2>1, <2>2, <1>2, <1>3 DEF Goto, Locked
  <1>5. ASSUME NEW t \in Thread, GetStale(t) PROVE LockInv'
    BY <1>5, <1>3 DEF GetStale, sharedVars, Locked
  <1>6. ASSUME NEW t \in Thread, TakeLock(t) PROVE LockInv'
    <2>1. CASE lock[key[t]] = Nobody
      <3>1. \A u \in Thread \ {t} : pc'[u] = pc[u] /\ key'[u] = key[u]
        BY <1>6, <2>1 DEF TakeLock, Goto, IInv, TypeOK
      <3>2. lock' = [lock EXCEPT ![key[t]] = t] /\ key' = key
        BY <1>6, <2>1 DEF TakeLock, Goto
      <3>3. \A u \in Thread \ {t} : pc[u] \in Locked => key[u] # key[t]
        BY <2>1, ReadsAssumption DEF IInv, LockInv
      <3> QED
        BY <3>1, <3>2, <3>3 DEF IInv, TypeOK, LockInv
    <2>2. CASE lock[key[t]] # Nobody
      BY <1>6, <2>2, <1>3 DEF TakeLock, Goto, Locked
    <2> QED
      BY <2>1, <2>2
  <1>7. ASSUME NEW t \in Thread,
               Reread(t) \/ Recheck(t) \/ Build(t) \/ Store(t) \/ Remember(t) \/ Fail(t)
        PROVE  LockInv'
    <2>1. UNCHANGED <<lock, key>> /\ pc[t] \in Locked
      BY <1>7 DEF Reread, Recheck, Build, Store, Remember, Fail, Goto, Look, sharedVars, Locked
    <2>2. \E place : pc' = [pc EXCEPT ![t] = place]
      BY <1>7, Zenon DEF Reread, Recheck, Build, Store, Remember, Fail, Goto, Look
    <2> QED
      BY <2>1, <2>2, <1>3
  <1>8. ASSUME NEW t \in Thread, Unlock(t) PROVE LockInv'
    <2>1. \A u \in Thread \ {t} : pc[u] \in Locked => key[u] # key[t]
      BY <1>8 DEF Unlock, IInv, LockInv, Locked
    <2> QED
      BY <1>8, <2>1 DEF Unlock, Goto, IInv, TypeOK, LockInv, Locked
  <1>9. ASSUME NEW w \in Worker, Exit(w) PROVE LockInv'
    <2> SUFFICES ASSUME NEW t \in Thread, pc'[t] \in Locked PROVE lock'[key'[t]] = t
      BY DEF LockInv
    <2>1. Home[t] # w /\ pc'[t] = pc[t] /\ key'[t] = key[t]
      BY <1>9 DEF Exit, Locked
    <2> QED
      BY <1>9, <2>1 DEF Exit, IInv, TypeOK, LockInv
  <1>10. ASSUME \/ \E k \in Key : RowAges(k) \/ CooldownEnds(k)
                \/ \E w \in Worker : Stop(w) \/ \E k \in Key : MemoryExpires(w, k)
                \/ UNCHANGED vars
         PROVE  LockInv'
    <2>1. UNCHANGED <<lock, pc, key>>
      BY <1>10 DEF RowAges, CooldownEnds, Stop, MemoryExpires, vars
    <2> QED
      BY <2>1 DEF IInv, LockInv
  <1> QED
    BY <1>1, <1>4, <1>5, <1>6, <1>7, <1>8, <1>9, <1>10 DEF Next, Step

\* What read t knows.
Known(t) ==
    /\ pc[t] \in {"recheck", "build"} => row[key[t]] # "fresh"
    /\ pc[t] = "build" => key[t] \notin errors

\* Time only takes rows and errors away; a read keeps what it knows then, and
\* forgets when it goes elsewhere.
LEMMA KnownKept ==
    ASSUME LookInv, NEW t \in Thread, t \notin blind,
           pc'[t] \in {"recheck", "build"} => pc'[t] = pc[t] /\ key'[t] = key[t],
           pc[t] \in {"recheck", "build"} /\ row'[key[t]] = "fresh" => row[key[t]] = "fresh",
           pc[t] = "build" /\ key[t] \in errors' => key[t] \in errors
    PROVE  Known(t)'
  BY DEF LookInv, Known

\* No other read can store an answer or an error for the key of a locked read.
LEMMA LookStep == IInv /\ [Next]_vars => LookInv'
  <1> SUFFICES ASSUME IInv, [Next]_vars PROVE \A t \in Thread \ blind' : Known(t)'
    BY DEF LookInv, Known
  <1>0. LookInv /\ pc \in [Thread -> Place] /\ key \in [Thread -> Key]
    BY DEF IInv, TypeOK, Place
  <1>1. ASSUME NEW t \in Thread, UNCHANGED <<row, errors>>,
               pc' = [pc EXCEPT ![t] = pc'[t]],
               \A u \in Thread \ {t} : key'[u] = key[u],
               blind \ {t} \subseteq blind',
               pc'[t] \notin {"recheck", "build"}
        PROVE  \A u \in Thread \ blind' : Known(u)'
    <2>1. \A u \in Thread \ {t} : pc'[u] = pc[u]
      BY <1>0, <1>1
    <2>2. Known(t)'
      BY <1>1 DEF Known
    <2> QED
      BY <1>0, <1>1, <2>1, <2>2, KnownKept
  <1>2. ASSUME NEW t \in Thread, NEW k \in Key, Request(t, k)
        PROVE  \A u \in Thread \ blind' : Known(u)'
    BY <1>0, <1>2, <1>1 DEF Request, sharedVars
  <1>3. ASSUME NEW t \in Thread, Done(t), UNCHANGED <<row, errors>>
        PROVE  \A u \in Thread \ blind' : Known(u)'
    BY <1>0, <1>3, <1>1 DEF Done
  <1>4. ASSUME NEW t \in Thread, NEW place, Goto(t, place), UNCHANGED <<row, errors>>,
               place \notin {"recheck", "build"}
        PROVE  \A u \in Thread \ blind' : Known(u)'
    BY <1>0, <1>4, <1>1 DEF Goto
  <1>5. ASSUME NEW t \in Thread,
               Get(t) \/ GetError(t) \/ TryPermit(t) \/ Start(t) \/ TakeLock(t) \/ Build(t)
                      \/ Remember(t) \/ Unlock(t) \/ ClosePermit(t)
        PROVE  \A u \in Thread \ blind' : Known(u)'
    <2>1. UNCHANGED <<row, errors>>
      BY <1>5 DEF Get, GetError, TryPermit, Start, TakeLock, Build, Remember, Unlock,
                  ClosePermit, sharedVars
    <2>2. \/ Done(t)
          \/ \E place \in {"getStale", "permit", "start", "lock", "close", "reread", "store",
                            "fail", "unlock"} : Goto(t, place)
      BY <1>5, Zenon DEF Get, GetError, TryPermit, AfterPermit, Start, TakeLock, Build,
                         Remember, Unlock, ClosePermit
    <2> QED
      BY <2>1, <2>2, <1>3, <1>4
  <1>6. ASSUME NEW t \in Thread, GetStale(t)
        PROVE  \A u \in Thread \ blind' : Known(u)'
    BY <1>0, <1>6, <1>1 DEF GetStale, sharedVars
  <1>7. ASSUME NEW t \in Thread, Reread(t) \/ Recheck(t), NEW u \in Thread \ blind'
        PROVE  Known(u)'
    <2>1. /\ UNCHANGED <<row, errors, key>> /\ blind \subseteq blind'
          /\ pc' = [pc EXCEPT ![t] = pc'[t]]
      BY <1>0, <1>7 DEF Reread, Recheck, Look, sharedVars
    <2>2. CASE u # t
      BY <1>0, <2>1, <2>2, KnownKept
    <2>3. CASE u = t /\ Reread(t)
      BY <1>0, <2>3 DEF Reread, Look, Known, sharedVars
    <2>4. CASE u = t /\ Recheck(t)
      <3>1. row[key[t]] # "fresh"
        BY <1>0, <2>1, <2>4 DEF Recheck, LookInv
      <3> QED
        BY <1>0, <2>4, <3>1 DEF Recheck, Look, Known, sharedVars
    <2> QED
      BY <1>7, <2>2, <2>3, <2>4
  <1>8. ASSUME NEW t \in Thread, Store(t) \/ Fail(t), NEW u \in Thread \ blind'
        PROVE  Known(u)'
    <2>1. /\ UNCHANGED <<key, blind>> /\ pc[t] \in Locked
          /\ pc' = [pc EXCEPT ![t] = pc'[t]] /\ pc'[t] \notin {"recheck", "build"}
      BY <1>0, <1>8 DEF Store, Fail, Goto, Locked
    <2>2. CASE u = t
      BY <2>1, <2>2 DEF Known
    <2>3. CASE u # t /\ pc[u] \in {"recheck", "build"}
      <3>1. key[u] # key[t]
        BY <2>1, <2>3 DEF IInv, LockInv, Locked
      <3>2. row'[key[u]] = row[key[u]] /\ (key[u] \in errors' => key[u] \in errors)
        BY <1>0, <1>8, <3>1 DEF Store, Fail, IInv, TypeOK
      <3> QED
        BY <1>0, <2>1, <2>3, <3>2, KnownKept
    <2>4. CASE u # t /\ pc[u] \notin {"recheck", "build"}
      BY <1>0, <2>1, <2>4 DEF Known
    <2> QED
      BY <2>2, <2>3, <2>4
  <1>9. ASSUME NEW w \in Worker, Exit(w), NEW u \in Thread \ blind'
        PROVE  Known(u)'
    <2>1. CASE Home[u] = w
      BY <1>9, <2>1 DEF Exit, Known
    <2>2. CASE Home[u] # w
      <3>1. /\ u \notin blind /\ pc'[u] = pc[u] /\ key'[u] = key[u]
            /\ UNCHANGED <<row, errors>>
        BY <1>9, <2>2 DEF Exit
      <3> QED
        BY <1>0, <3>1, KnownKept
    <2> QED
      BY <2>1, <2>2
  <1>10. ASSUME \/ \E k \in Key : RowAges(k) \/ CooldownEnds(k)
                \/ \E w \in Worker : Stop(w) \/ \E k \in Key : MemoryExpires(w, k)
                \/ UNCHANGED vars,
                NEW u \in Thread \ blind'
         PROVE  Known(u)'
    <2>1. UNCHANGED <<pc, key, blind>> /\ errors' \subseteq errors
      BY <1>10 DEF RowAges, CooldownEnds, Stop, MemoryExpires, vars
    <2>2. row' = row \/ \E k \in Key, new \in {"stale", "absent"} : row' = [row EXCEPT ![k] = new]
      BY <1>10 DEF RowAges, CooldownEnds, Stop, MemoryExpires, vars
    <2>3. row'[key[u]] = "fresh" => row[key[u]] = "fresh"
      BY <1>0, <2>2 DEF IInv, TypeOK
    <2> QED
      BY <1>0, <2>1, <2>3, KnownKept
  <1> QED
    BY <1>2, <1>5, <1>6, <1>7, <1>8, <1>9, <1>10 DEF Next, Step

-----------------------------------------------------------------------------

\* All permits are free at the start.
LEMMA IInvInit == Init => IInv
  <1> SUFFICES ASSUME Init PROVE IInv
    OBVIOUS
  <1>1. TypeOK
    BY ReadsAssumption, AnyKeyIsKey DEF Init, TypeOK
  <1>2. AllHolders = {} /\ permits = Builds
    BY DEF Init, AllHolders, Admitted, Locked
  <1>5. Leaks = {} /\ LeakInv
    BY DEF Init, Leaks, LeakInv
  <1>3. PermitInv
    BY <1>2, <1>5, FS_EmptySet, ReadsAssumption DEF PermitInv
  <1>4. LockInv /\ LookInv
    BY DEF Init, LockInv, LookInv, Locked
  <1> QED
    BY <1>1, <1>3, <1>4, <1>5 DEF IInv

\* Every reachable state of the read cache satisfies the inductive invariant.
LEMMA InductiveInvariant == Spec => []IInv
  <1>1. IInv /\ [Next]_vars => IInv'
    BY TypeStep, PermitStep, LeakStep, LockStep, LookStep DEF IInv
  <1> QED
    BY <1>1, IInvInit, PTL DEF Spec

\* No build permit is given back twice, and the only ones that leak, until their
\* worker dies, are those of refreshes whose thread could not be started: for any
\* number of permits, workers and reads, whatever else fails or dies on the way.
THEOREM PermitsNeverLeak == Spec => []PermitsAreExact
  <1>1. IInv => PermitsAreExact
    BY HoldersAreAll DEF IInv, PermitInv, PermitsAreExact
  <1> QED
    BY <1>1, InductiveInvariant, PTL

\* The fetch lock keeps the builders of one key apart, permit or not.
THEOREM KeysAreBuiltAlone == Spec => []OneBuilderPerKey
  <1>1. IInv => OneBuilderPerKey
    BY DEF IInv, LockInv, OneBuilderPerKey
  <1> QED
    BY <1>1, InductiveInvariant, PTL

\* A builder that could read the store when it looked under the lock does work
\* nobody has done, and repeats no failure that is still cooling.
THEOREM LooksUnderTheLockSuffice == Spec => []BuildsAreNeeded
  <1>1. IInv => BuildsAreNeeded
    BY DEF IInv, LookInv, BuildsAreNeeded
  <1> QED
    BY <1>1, InductiveInvariant, PTL
=============================================================================
