------------------------ MODULE ConnectionPoolProofs ------------------------
(* Theorems about ConnectionPool, for every set of workers, threads and    *)
(* connections, every pool size and every budget.                          *)
EXTENDS ConnectionPool, FiniteSetTheorems, TLAPS

(***************************************************************************)
(* Types.  The state is well typed only together with the fact that a      *)
(* thread has a connection in hand exactly in the places where the code    *)
(* has one in its local variable.                                          *)
(***************************************************************************)

Resting == {"out", "check", "late", "parked"}

HandInv == \A t \in Thread : hand[t] = NoConn <=> pc[t] \in Resting

TypeInv == TypeOK /\ HandInv

\* Sets of connections are finite: _connection_count has something to count.
LEMMA IdleIsCounted ==
    ASSUME NEW S \in SUBSET Conn
    PROVE  Cardinality(S) \in Nat
  BY ConnAssumption, FS_Subset, FS_CardinalityType

\* A new pool is well typed and no thread has a connection in hand.
LEMMA TypeInvInit == Init => TypeInv
  BY SizeAssumption DEF Init, TypeInv, TypeOK, HandInv, Resting, Place

\* Every locked section and every step between them keeps the types.
LEMMA TypeInvStep == TypeInv /\ [Next]_vars => TypeInv'
  <1> SUFFICES ASSUME TypeInv, [Next]_vars PROVE TypeInv'
    OBVIOUS
  <1> USE HomeAssumption, SizeAssumption, ConnAssumption
      DEF TypeInv, TypeOK, HandInv, Resting, Place, poolVars, threadVars, Goto,
          Slot
  <1>1. ASSUME NEW t \in Thread, Call(t) PROVE TypeInv'
    BY <1>1 DEF Call
  <1>2. ASSUME NEW t \in Thread, Expire(t) PROVE TypeInv'
    BY <1>2 DEF Expire
  <1>3. ASSUME NEW t \in Thread, AcquireRaises(t) PROVE TypeInv'
    BY <1>3 DEF AcquireRaises, AtLoopHead
  <1>4. ASSUME NEW t \in Thread, TakeIdle(t) PROVE TypeInv'
    BY <1>4 DEF TakeIdle, AtLoopHead
  <1>5. ASSUME NEW t \in Thread, ReserveNew(t) PROVE TypeInv'
    BY <1>5 DEF ReserveNew, AtLoopHead
  <1>6. ASSUME NEW t \in Thread, Park(t) PROVE TypeInv'
    BY <1>6 DEF Park
  <1>7. ASSUME NEW t \in Thread, ProbeSlot(t) PROVE TypeInv'
    BY <1>7 DEF ProbeSlot, SlotFree
  <1>8. ASSUME NEW t \in Thread, BudgetFull(t) PROVE TypeInv'
    BY <1>8 DEF BudgetFull
  <1>9. ASSUME NEW t \in Thread, Dial(t) PROVE TypeInv'
    BY <1>9 DEF Dial
  <1>10. ASSUME NEW t \in Thread, SetUp(t) PROVE TypeInv'
    BY <1>10 DEF SetUp
  <1>11. ASSUME NEW t \in Thread, UndoConnect(t) PROVE TypeInv'
    BY <1>11 DEF UndoConnect
  <1>12. ASSUME NEW t \in Thread, Unwind(t) PROVE TypeInv'
    BY <1>12 DEF Unwind, WakeAllAnd
  <1>13. ASSUME NEW t \in Thread, Admit(t) PROVE TypeInv'
    <2> DEFINE w == Home[t]
    <2>1. CASE closed[w]
      <3>1. TypeOK'
        <4>1. pc' \in [Thread -> Place]
          BY <1>13, <2>1 DEF Admit, WakeAllAnd
        <4>2. /\ count' \in [Worker -> Int]
              /\ live' \in SUBSET Conn
              /\ slot' \in [Conn -> 0..Capacity]
              /\ hand' \in [Thread -> Conn \cup {NoConn}]
          BY <1>13, <2>1 DEF Admit, Retire
        <4>3. /\ connecting' \in [Worker -> BOOLEAN]
              /\ circuit' \in [Worker -> BOOLEAN]
              /\ UNCHANGED <<closed, idle, doomed, probe>>
          <5>1. CASE pc[t] = "admitNew"
            <6>1. /\ connecting' = [connecting EXCEPT ![w] = FALSE]
                  /\ circuit' = [circuit EXCEPT ![w] = FALSE]
                  /\ UNCHANGED <<closed, idle, doomed, probe>>
              BY <1>13, <5>1, Zenon DEF Admit
            <6> QED
              BY <6>1
          <5>2. CASE pc[t] # "admitNew"
            BY <1>13, <5>2, Zenon DEF Admit
          <5> QED
            BY <5>1, <5>2
        <4> QED
          BY <4>1, <4>2, <4>3
      <3>2. HandInv'
        BY <1>13, <2>1 DEF Admit, WakeAllAnd
      <3> QED
        BY <3>1, <3>2
    <2>2. CASE ~closed[w]
      <3>1. TypeOK'
        <4>1. pc' \in [Thread -> Place]
          BY <1>13, <2>2 DEF Admit, WakeAllAnd
        <4>2. UNCHANGED <<closed, idle, doomed, probe, count, live, slot, hand>>
          BY <1>13, <2>2 DEF Admit
        <4>3. /\ connecting' \in [Worker -> BOOLEAN]
              /\ circuit' \in [Worker -> BOOLEAN]
          <5>1. CASE pc[t] = "admitNew"
            BY <1>13, <5>1 DEF Admit
          <5>2. CASE pc[t] # "admitNew"
            BY <1>13, <5>2 DEF Admit
          <5> QED
            BY <5>1, <5>2
        <4> QED
          BY <4>1, <4>2, <4>3
      <3>2. HandInv'
        BY <1>13, <2>2 DEF Admit, WakeAllAnd
      <3> QED
        BY <3>1, <3>2
    <2> QED
      BY <2>1, <2>2
  <1>14. ASSUME NEW t \in Thread, Rollback(t) PROVE TypeInv'
    BY <1>14 DEF Rollback
  <1>15. ASSUME NEW t \in Thread, Release(t) PROVE TypeInv'
    BY <1>15 DEF Release, WakeOneAndLeave, Retire, ThreadsOf
  <1>16. ASSUME NEW w \in Worker, CircuitElapses(w) PROVE TypeInv'
    BY <1>16 DEF CircuitElapses
  <1>17. ASSUME NEW w \in Worker, Close(w) PROVE TypeInv'
    BY <1>17, IdleIsCounted DEF Close
  <1>18. ASSUME NEW w \in Worker, CloseIdle(w) PROVE TypeInv'
    BY <1>18 DEF CloseIdle
  <1>19. ASSUME NEW w \in Worker, Exit(w) PROVE TypeInv'
    BY <1>19 DEF Exit, Handles, InHand, ThreadsOf
  <1>20. CASE UNCHANGED vars
    BY <1>20 DEF vars
  <1> QED
    BY <1>1, <1>2, <1>3, <1>4, <1>5, <1>6, <1>7, <1>8, <1>9, <1>10, <1>11,
       <1>12, <1>13, <1>14, <1>15, <1>16, <1>17, <1>18, <1>19, <1>20
       DEF Next, ThreadStep, Acquiring, Creating, Returning

\* TypeInv holds in every reachable state.
LEMMA TypeInvariant == Spec => []TypeInv
<1> QED
  BY TypeInvInit, TypeInvStep, PTL DEF Spec

\* Every variable keeps its type.
THEOREM TypeCorrect == Spec => []TypeOK
<1>1. TypeInv => TypeOK
  BY DEF TypeInv
<1> QED
  BY <1>1, TypeInvariant, PTL

(***************************************************************************)
(* Exclusiveness and permits.  PermitPerSession alone is not inductive: it *)
(* needs to know, for every stage of a thread, whether its connection has  *)
(* a permit and a session, and that steps of one thread cannot touch the   *)
(* connection of another (OnePlace).                                       *)
(***************************************************************************)

Permitted  == {"dial", "setup", "admit", "admitNew", "using", "giveBack", "discard"}
Connected  == {"setup", "undo", "admit", "admitNew", "using", "giveBack"}
Unconnected == {"scan", "dial", "unwind", "discard"}

StageInv ==
    \A t \in Thread :
        /\ pc[t] \in Permitted => slot[hand[t]] # 0
        /\ pc[t] \in {"scan", "undo", "unwind"} => slot[hand[t]] = 0
        /\ pc[t] \in Connected => hand[t] \in live
        /\ pc[t] \in Unconnected => hand[t] \notin live

StoreInv ==
    \A w \in Worker : /\ \A c \in idle[w] \cup doomed[w] : slot[c] # 0
                      /\ idle[w] \subseteq live

Known(c) == \/ \E t \in Thread : hand[t] = c
            \/ \E w \in Worker : c \in idle[w] \cup doomed[w]

FreeInv == \A c \in Conn : slot[c] # 0 \/ c \in live => Known(c)

SlotInv == \A c, d \in Conn : c # d /\ slot[c] # 0 => slot[c] # slot[d]

PermitInv == StageInv /\ StoreInv /\ FreeInv /\ SlotInv

IInv == TypeInv /\ OnePlace /\ PermitInv

\* A connection is taken when some pool or some thread knows it.
LEMMA TakenIsKnown ==
    ASSUME TypeInv, NEW c \in Conn
    PROVE  c \in Taken <=> Known(c)
  BY HomeAssumption, ConnAssumption
     DEF Taken, Known, Handles, InHand, ThreadsOf, TypeInv, TypeOK

\* New pools have no connections.
LEMMA OnePlaceInit == Init => OnePlace
  BY ConnAssumption DEF Init, OnePlace

\* No step of acquire, release or close puts a connection in two places.
LEMMA OnePlaceStep == TypeInv /\ OnePlace /\ [Next]_vars => OnePlace'
  <1> SUFFICES ASSUME TypeInv, OnePlace, [Next]_vars PROVE OnePlace'
    OBVIOUS
  <1> USE HomeAssumption, ConnAssumption
      DEF TypeInv, TypeOK, HandInv, Resting, OnePlace, poolVars, threadVars
  <1>1. ASSUME NEW t \in Thread, Call(t) PROVE OnePlace'
    BY <1>1 DEF Call
  <1>2. ASSUME NEW t \in Thread, Expire(t) PROVE OnePlace'
    BY <1>2 DEF Expire
  <1>3. ASSUME NEW t \in Thread, AcquireRaises(t) PROVE OnePlace'
    BY <1>3 DEF AcquireRaises
  <1>4. ASSUME NEW t \in Thread, TakeIdle(t) PROVE OnePlace'
    BY <1>4 DEF TakeIdle, AtLoopHead
  <1>5. ASSUME NEW t \in Thread, ReserveNew(t) PROVE OnePlace'
    BY <1>5, TakenIsKnown DEF ReserveNew, Known, AtLoopHead
  <1>6. ASSUME NEW t \in Thread, Park(t) PROVE OnePlace'
    BY <1>6 DEF Park
  <1>7. ASSUME NEW t \in Thread, ProbeSlot(t) PROVE OnePlace'
    BY <1>7 DEF ProbeSlot
  <1>8. ASSUME NEW t \in Thread, BudgetFull(t) PROVE OnePlace'
    BY <1>8 DEF BudgetFull
  <1>9. ASSUME NEW t \in Thread, Dial(t) PROVE OnePlace'
    BY <1>9 DEF Dial
  <1>10. ASSUME NEW t \in Thread, SetUp(t) PROVE OnePlace'
    BY <1>10 DEF SetUp
  <1>11. ASSUME NEW t \in Thread, UndoConnect(t) PROVE OnePlace'
    BY <1>11 DEF UndoConnect
  <1>12. ASSUME NEW t \in Thread, Unwind(t) PROVE OnePlace'
    BY <1>12 DEF Unwind
  <1>13. ASSUME NEW t \in Thread, Admit(t) PROVE OnePlace'
    <2>1. /\ UNCHANGED <<idle, doomed>>
          /\ \A u \in Thread : hand'[u] \in {hand[u], NoConn}
      BY <1>13 DEF Admit
    <2> QED
      BY <2>1
  <1>14. ASSUME NEW t \in Thread, Rollback(t) PROVE OnePlace'
    BY <1>14 DEF Rollback
  <1>15. ASSUME NEW t \in Thread, Release(t) PROVE OnePlace'
    <2> DEFINE w == Home[t]
    <2>1. UNCHANGED doomed /\ hand' = [hand EXCEPT ![t] = NoConn]
      BY <1>15 DEF Release
    <2>2. idle' = idle \/ idle' = [idle EXCEPT ![w] = @ \cup {hand[t]}]
      BY <1>15 DEF Release
    <2>3. hand[t] \in Conn
      BY <1>15 DEF Release
    <2>4. /\ \A v \in Worker : idle'[v] \subseteq idle[v] \cup {hand[t]}
          /\ \A v \in Worker : v # w => idle'[v] = idle[v]
      BY <2>2
    <2>5. /\ \A v \in Worker : hand[t] \notin idle[v] \cup doomed[v]
          /\ \A u \in Thread : u # t => hand[u] # hand[t]
          /\ \A u \in Thread : hand'[u] = IF u = t THEN NoConn ELSE hand[u]
      BY <2>1, <2>3
    <2>6. /\ \A u, v \in Thread : u # v /\ hand'[u] # NoConn => hand'[u] # hand'[v]
          /\ \A u \in Thread, v \in Worker : hand'[u] \notin idle'[v] \cup doomed'[v]
      BY <2>1, <2>3, <2>4, <2>5
    <2>7. /\ \A u, v \in Worker : \A c \in idle'[u] :
                c \notin doomed'[v] /\ (u # v => c \notin idle'[v])
          /\ \A u, v \in Worker : u # v => \A c \in doomed'[u] : c \notin doomed'[v]
      BY <2>1, <2>4, <2>5
    <2> QED
      BY <2>6, <2>7
  <1>16. ASSUME NEW w \in Worker, CircuitElapses(w) PROVE OnePlace'
    BY <1>16 DEF CircuitElapses
  <1>17. ASSUME NEW w \in Worker, Close(w) PROVE OnePlace'
    BY <1>17 DEF Close
  <1>18. ASSUME NEW w \in Worker, CloseIdle(w) PROVE OnePlace'
    <2>1. UNCHANGED <<hand, idle>> /\ \A v \in Worker : doomed'[v] \subseteq doomed[v]
      BY <1>18 DEF CloseIdle
    <2> QED
      BY <2>1
  <1>19. ASSUME NEW w \in Worker, Exit(w) PROVE OnePlace'
    BY <1>19 DEF Exit
  <1>20. CASE UNCHANGED vars
    BY <1>20 DEF vars
  <1> QED
    BY <1>1, <1>2, <1>3, <1>4, <1>5, <1>6, <1>7, <1>8, <1>9, <1>10, <1>11,
       <1>12, <1>13, <1>14, <1>15, <1>16, <1>17, <1>18, <1>19, <1>20
       DEF Next, ThreadStep, Acquiring, Creating, Returning

\* New pools hold no permits.
LEMMA PermitInit == Init => PermitInv
  BY HomeAssumption
     DEF Init, PermitInv, StageInv, StoreInv, FreeInv, SlotInv, Permitted,
         Connected, Unconnected

\* A thread that creates or uses a connection has what its stage of acquire
\* or release needs: permit, session, both or neither.
LEMMA StageInvStep == IInv /\ [Next]_vars => StageInv'
  <1> SUFFICES ASSUME IInv, [Next]_vars PROVE StageInv'
    OBVIOUS
  <1> USE HomeAssumption, ConnAssumption, SizeAssumption
      DEF IInv, TypeInv, TypeOK, HandInv, Resting, OnePlace, PermitInv, StageInv,
          StoreInv, FreeInv, SlotInv, poolVars, threadVars, Goto, Permitted, Connected, Unconnected
  <1>1. ASSUME NEW t \in Thread, Call(t) PROVE StageInv'
    BY <1>1 DEF Call
  <1>2. ASSUME NEW t \in Thread, Expire(t) PROVE StageInv'
    BY <1>2 DEF Expire
  <1>3. ASSUME NEW t \in Thread, AcquireRaises(t) PROVE StageInv'
    BY <1>3 DEF AcquireRaises, AtLoopHead
  <1>4. ASSUME NEW t \in Thread, TakeIdle(t) PROVE StageInv'
    BY <1>4 DEF TakeIdle, AtLoopHead
  <1>5. ASSUME NEW t \in Thread, ReserveNew(t) PROVE StageInv'
    BY <1>5, TakenIsKnown DEF ReserveNew, Known, AtLoopHead
  <1>6. ASSUME NEW t \in Thread, Park(t) PROVE StageInv'
    BY <1>6 DEF Park
  <1>7. ASSUME NEW t \in Thread, ProbeSlot(t) PROVE StageInv'
    <2> SUFFICES ASSUME NEW u \in Thread
                 PROVE  /\ pc'[u] \in Permitted => slot'[hand'[u]] # 0
                        /\ pc'[u] \in {"scan", "undo", "unwind"} => slot'[hand'[u]] = 0
                        /\ pc'[u] \in Connected => hand'[u] \in live'
                        /\ pc'[u] \in Unconnected => hand'[u] \notin live'
      BY DEF StageInv
    <2>1. CASE u = t
      BY <1>7, <2>1 DEF ProbeSlot, SlotFree, Slot
    <2>2. CASE u # t
      <3>1. pc'[u] = pc[u] /\ hand'[u] = hand[u]
        BY <1>7, <2>2 DEF ProbeSlot
      <3>2. hand[u] # NoConn => hand[u] # hand[t]
        BY <2>2
      <3>3. hand[u] # NoConn => /\ slot'[hand[u]] = slot[hand[u]]
                                /\ hand[u] \in live' <=> hand[u] \in live
        BY <1>7, <3>2 DEF ProbeSlot
      <3>4. pc[u] \in Permitted \cup Connected \cup Unconnected \cup {"scan", "undo", "unwind"}
            => hand[u] # NoConn
        BY DEF Permitted, Connected, Unconnected
      <3> QED
        BY <3>1, <3>3, <3>4
    <2> QED
      BY <2>1, <2>2
  <1>8. ASSUME NEW t \in Thread, BudgetFull(t) PROVE StageInv'
    BY <1>8 DEF BudgetFull
  <1>9. ASSUME NEW t \in Thread, Dial(t) PROVE StageInv'
    <2> SUFFICES ASSUME NEW u \in Thread
                 PROVE  /\ pc'[u] \in Permitted => slot'[hand'[u]] # 0
                        /\ pc'[u] \in {"scan", "undo", "unwind"} => slot'[hand'[u]] = 0
                        /\ pc'[u] \in Connected => hand'[u] \in live'
                        /\ pc'[u] \in Unconnected => hand'[u] \notin live'
      BY DEF StageInv
    <2>1. CASE u = t
      <3>1. /\ hand[t] \in Conn /\ hand[t] \notin live
            /\ slot[hand[t]] # 0 /\ UNCHANGED hand
        BY <1>9 DEF Dial, Permitted, Unconnected
      <3>2. CASE pc' = [pc EXCEPT ![t] = "setup"] /\ live' = live \cup {hand[t]}
                 /\ UNCHANGED slot
        BY <2>1, <3>1, <3>2 DEF Permitted, Connected, Unconnected
      <3>3. CASE pc' = [pc EXCEPT ![t] = "unwind"] /\ slot' = [slot EXCEPT ![hand[t]] = 0]
                 /\ UNCHANGED live
        BY <2>1, <3>1, <3>3 DEF Permitted, Connected, Unconnected
      <3> QED
        BY <1>9, <3>2, <3>3, Zenon DEF Dial, Goto
    <2>2. CASE u # t
      <3>1. pc'[u] = pc[u] /\ hand'[u] = hand[u]
        BY <1>9, <2>2 DEF Dial
      <3>2. hand[u] # NoConn => hand[u] # hand[t]
        BY <2>2
      <3>3. hand[u] # NoConn => /\ slot'[hand[u]] = slot[hand[u]]
                                /\ hand[u] \in live' <=> hand[u] \in live
        BY <1>9, <3>2 DEF Dial
      <3>4. pc[u] \in Permitted \cup Connected \cup Unconnected \cup {"scan", "undo", "unwind"}
            => hand[u] # NoConn
        BY DEF Permitted, Connected, Unconnected
      <3> QED
        BY <3>1, <3>3, <3>4
    <2> QED
      BY <2>1, <2>2
  <1>10. ASSUME NEW t \in Thread, SetUp(t) PROVE StageInv'
    <2> SUFFICES ASSUME NEW u \in Thread
                 PROVE  /\ pc'[u] \in Permitted => slot'[hand'[u]] # 0
                        /\ pc'[u] \in {"scan", "undo", "unwind"} => slot'[hand'[u]] = 0
                        /\ pc'[u] \in Connected => hand'[u] \in live'
                        /\ pc'[u] \in Unconnected => hand'[u] \notin live'
      BY DEF StageInv
    <2>1. CASE u = t
      BY <1>10, <2>1 DEF SetUp
    <2>2. CASE u # t
      <3>1. pc'[u] = pc[u] /\ hand'[u] = hand[u]
        BY <1>10, <2>2 DEF SetUp
      <3>2. hand[u] # NoConn => hand[u] # hand[t]
        BY <2>2
      <3>3. hand[u] # NoConn => /\ slot'[hand[u]] = slot[hand[u]]
                                /\ hand[u] \in live' <=> hand[u] \in live
        BY <1>10, <3>2 DEF SetUp
      <3>4. pc[u] \in Permitted \cup Connected \cup Unconnected \cup {"scan", "undo", "unwind"}
            => hand[u] # NoConn
        BY DEF Permitted, Connected, Unconnected
      <3> QED
        BY <3>1, <3>3, <3>4
    <2> QED
      BY <2>1, <2>2
  <1>11. ASSUME NEW t \in Thread, UndoConnect(t) PROVE StageInv'
    BY <1>11 DEF UndoConnect
  <1>12. ASSUME NEW t \in Thread, Unwind(t) PROVE StageInv'
    BY <1>12 DEF Unwind, WakeAllAnd
  <1>13. ASSUME NEW t \in Thread, Admit(t) PROVE StageInv'
    BY <1>13 DEF Admit, WakeAllAnd, Retire
  <1>14. ASSUME NEW t \in Thread, Rollback(t) PROVE StageInv'
    BY <1>14 DEF Rollback
  <1>15. ASSUME NEW t \in Thread, Release(t) PROVE StageInv'
    BY <1>15 DEF Release, WakeOneAndLeave, Retire, ThreadsOf
  <1>16. ASSUME NEW w \in Worker, CircuitElapses(w) PROVE StageInv'
    BY <1>16 DEF CircuitElapses
  <1>17. ASSUME NEW w \in Worker, Close(w) PROVE StageInv'
    BY <1>17 DEF Close
  <1>18. ASSUME NEW w \in Worker, CloseIdle(w) PROVE StageInv'
    <2>1. PICK c \in doomed[w] :
              \/ c \in live /\ live' = live \ {c} /\ UNCHANGED <<slot, doomed>>
              \/ /\ c \notin live
                 /\ slot' = [slot EXCEPT ![c] = 0]
                 /\ doomed' = [doomed EXCEPT ![w] = @ \ {c}]
                 /\ UNCHANGED live
      BY <1>18, Zenon DEF CloseIdle
    <2>2. UNCHANGED <<pc, hand>> /\ \A t \in Thread : hand[t] # c
      BY <1>18, <2>1 DEF CloseIdle
    <2>3. \A t \in Thread : hand[t] \in live' <=> hand[t] \in live
      BY <2>1, <2>2
    <2>4. \A t \in Thread : hand[t] # NoConn => slot'[hand[t]] = slot[hand[t]]
      BY <2>1, <2>2
    <2>5. \A t \in Thread : pc[t] \in {"scan", "undo", "unwind"} \cup Permitted => hand[t] # NoConn
      BY DEF Permitted
    <2> QED
      BY <2>2, <2>3, <2>4, <2>5
  <1>19. ASSUME NEW w \in Worker, Exit(w) PROVE StageInv'
    BY <1>19 DEF Exit, Handles, InHand, ThreadsOf
  <1>20. CASE UNCHANGED vars
    BY <1>20 DEF vars
  <1> QED
    BY <1>1, <1>2, <1>3, <1>4, <1>5, <1>6, <1>7, <1>8, <1>9, <1>10, <1>11,
       <1>12, <1>13, <1>14, <1>15, <1>16, <1>17, <1>18, <1>19, <1>20
       DEF Next, ThreadStep, Acquiring, Creating, Returning

\* Connections in the idle list, or about to be closed by close(), keep their
\* permit.
LEMMA StoreInvStep == IInv /\ [Next]_vars => StoreInv'
  <1> SUFFICES ASSUME IInv, [Next]_vars PROVE StoreInv'
    OBVIOUS
  <1> USE HomeAssumption, ConnAssumption, SizeAssumption
      DEF IInv, TypeInv, TypeOK, HandInv, Resting, OnePlace, PermitInv, StageInv,
          StoreInv, FreeInv, SlotInv, poolVars, threadVars, Goto
  <1>1. ASSUME NEW t \in Thread, Call(t) PROVE StoreInv'
    BY <1>1 DEF Call
  <1>2. ASSUME NEW t \in Thread, Expire(t) PROVE StoreInv'
    BY <1>2 DEF Expire
  <1>3. ASSUME NEW t \in Thread, AcquireRaises(t) PROVE StoreInv'
    BY <1>3 DEF AcquireRaises
  <1>4. ASSUME NEW t \in Thread, TakeIdle(t) PROVE StoreInv'
    BY <1>4 DEF TakeIdle
  <1>5. ASSUME NEW t \in Thread, ReserveNew(t) PROVE StoreInv'
    BY <1>5, TakenIsKnown DEF ReserveNew, Known
  <1>6. ASSUME NEW t \in Thread, Park(t) PROVE StoreInv'
    BY <1>6 DEF Park
  <1>7. ASSUME NEW t \in Thread, ProbeSlot(t) PROVE StoreInv'
    BY <1>7 DEF ProbeSlot, SlotFree, Slot
  <1>8. ASSUME NEW t \in Thread, BudgetFull(t) PROVE StoreInv'
    BY <1>8 DEF BudgetFull
  <1>9. ASSUME NEW t \in Thread, Dial(t) PROVE StoreInv'
    BY <1>9 DEF Dial
  <1>10. ASSUME NEW t \in Thread, SetUp(t) PROVE StoreInv'
    BY <1>10 DEF SetUp
  <1>11. ASSUME NEW t \in Thread, UndoConnect(t) PROVE StoreInv'
    BY <1>11 DEF UndoConnect
  <1>12. ASSUME NEW t \in Thread, Unwind(t) PROVE StoreInv'
    BY <1>12 DEF Unwind
  <1>13. ASSUME NEW t \in Thread, Admit(t) PROVE StoreInv'
    BY <1>13 DEF Admit, Retire
  <1>14. ASSUME NEW t \in Thread, Rollback(t) PROVE StoreInv'
    BY <1>14 DEF Rollback
  <1>15. ASSUME NEW t \in Thread, Release(t) PROVE StoreInv'
    <2> DEFINE w == Home[t]
    <2>1. CASE pc[t] = "giveBack" /\ ~closed[w]
      BY <1>15, <2>1 DEF Release, Permitted, Connected
    <2>2. CASE ~(pc[t] = "giveBack" /\ ~closed[w])
      BY <1>15, <2>2 DEF Release, Retire
    <2> QED
      BY <2>1, <2>2
  <1>16. ASSUME NEW w \in Worker, CircuitElapses(w) PROVE StoreInv'
    BY <1>16 DEF CircuitElapses
  <1>17. ASSUME NEW w \in Worker, Close(w) PROVE StoreInv'
    BY <1>17 DEF Close
  <1>18. ASSUME NEW w \in Worker, CloseIdle(w) PROVE StoreInv'
    BY <1>18 DEF CloseIdle
  <1>19. ASSUME NEW w \in Worker, Exit(w) PROVE StoreInv'
    BY <1>19 DEF Exit, Handles, InHand, ThreadsOf
  <1>20. CASE UNCHANGED vars
    BY <1>20 DEF vars
  <1> QED
    BY <1>1, <1>2, <1>3, <1>4, <1>5, <1>6, <1>7, <1>8, <1>9, <1>10, <1>11,
       <1>12, <1>13, <1>14, <1>15, <1>16, <1>17, <1>18, <1>19, <1>20
       DEF Next, ThreadStep, Acquiring, Creating, Returning

\* A connection nobody knows has neither permit nor session.
LEMMA FreeInvStep == IInv /\ [Next]_vars => FreeInv'
  <1> SUFFICES ASSUME IInv, [Next]_vars PROVE FreeInv'
    OBVIOUS
  <1> USE HomeAssumption, ConnAssumption, SizeAssumption
      DEF IInv, TypeInv, TypeOK, HandInv, Resting, OnePlace, PermitInv, StageInv,
          StoreInv, FreeInv, SlotInv, poolVars, threadVars, Goto
  <1>1. ASSUME NEW t \in Thread, Call(t) PROVE FreeInv'
    BY <1>1 DEF Call, Known
  <1>2. ASSUME NEW t \in Thread, Expire(t) PROVE FreeInv'
    BY <1>2 DEF Expire, Known
  <1>3. ASSUME NEW t \in Thread, AcquireRaises(t) PROVE FreeInv'
    BY <1>3 DEF AcquireRaises, Known
  <1>4. ASSUME NEW t \in Thread, TakeIdle(t) PROVE FreeInv'
    <2> SUFFICES ASSUME NEW c \in Conn, slot'[c] # 0 \/ c \in live'
                 PROVE  Known(c)'
      BY DEF FreeInv
    <2>1. Known(c)
      BY <1>4 DEF TakeIdle, AtLoopHead
    <2>2. ASSUME NEW u \in Thread, hand[u] = c PROVE Known(c)'
      <3>1. u # t
        BY <1>4, <2>2 DEF TakeIdle, AtLoopHead
      <3>2. hand'[u] = c
        BY <1>4, <2>2, <3>1 DEF TakeIdle, AtLoopHead
      <3> QED
        BY <3>2 DEF Known
    <2>3. ASSUME NEW v \in Worker, c \in idle[v] \cup doomed[v] PROVE Known(c)'
      BY <1>4, <2>3 DEF TakeIdle, AtLoopHead, Known
    <2> QED
      BY <2>1, <2>2, <2>3 DEF Known
  <1>5. ASSUME NEW t \in Thread, ReserveNew(t) PROVE FreeInv'
    <2> SUFFICES ASSUME NEW c \in Conn, slot'[c] # 0 \/ c \in live'
                 PROVE  Known(c)'
      BY DEF FreeInv
    <2>1. Known(c)
      BY <1>5 DEF ReserveNew
    <2>2. ASSUME NEW u \in Thread, hand[u] = c PROVE Known(c)'
      <3>1. u # t
        BY <1>5, <2>2 DEF ReserveNew, AtLoopHead
      <3> QED
        BY <1>5, <2>2, <3>1 DEF ReserveNew, Known
    <2>3. ASSUME NEW v \in Worker, c \in idle[v] \cup doomed[v] PROVE Known(c)'
      BY <1>5, <2>3 DEF ReserveNew, Known
    <2> QED
      BY <2>1, <2>2, <2>3 DEF Known
  <1>6. ASSUME NEW t \in Thread, Park(t) PROVE FreeInv'
    BY <1>6 DEF Park, Known
  <1>7. ASSUME NEW t \in Thread, ProbeSlot(t) PROVE FreeInv'
    BY <1>7 DEF ProbeSlot, SlotFree, Slot, Known
  <1>8. ASSUME NEW t \in Thread, BudgetFull(t) PROVE FreeInv'
    BY <1>8 DEF BudgetFull, Known
  <1>9. ASSUME NEW t \in Thread, Dial(t) PROVE FreeInv'
    BY <1>9, SMTT(30) DEF Dial, Known
  <1>10. ASSUME NEW t \in Thread, SetUp(t) PROVE FreeInv'
    <2>1. /\ UNCHANGED <<hand, idle, doomed, live>>
          /\ \A c \in Conn : slot'[c] # 0 => slot[c] # 0
      BY <1>10 DEF SetUp
    <2> QED
      BY <2>1 DEF Known
  <1>11. ASSUME NEW t \in Thread, UndoConnect(t) PROVE FreeInv'
    BY <1>11 DEF UndoConnect, Known
  <1>12. ASSUME NEW t \in Thread, Unwind(t) PROVE FreeInv'
    <2> SUFFICES ASSUME NEW c \in Conn, slot'[c] # 0 \/ c \in live'
                 PROVE  Known(c)'
      BY DEF FreeInv
    <2>1. Known(c)
      BY <1>12 DEF Unwind
    <2>2. ASSUME NEW u \in Thread, hand[u] = c PROVE Known(c)'
      <3>1. u # t
        BY <1>12, <2>2 DEF Unwind, Unconnected
      <3>2. hand'[u] = c
        BY <1>12, <2>2, <3>1 DEF Unwind
      <3> QED
        BY <3>2 DEF Known
    <2>3. ASSUME NEW v \in Worker, c \in idle[v] \cup doomed[v] PROVE Known(c)'
      BY <1>12, <2>3 DEF Unwind, Known
    <2> QED
      BY <2>1, <2>2, <2>3 DEF Known
  <1>13. ASSUME NEW t \in Thread, Admit(t) PROVE FreeInv'
    <2> SUFFICES ASSUME NEW c \in Conn, slot'[c] # 0 \/ c \in live'
                 PROVE  Known(c)'
      BY DEF FreeInv
    <2>1. Known(c)
      BY <1>13 DEF Admit, Retire
    <2>2. ASSUME NEW u \in Thread, hand[u] = c PROVE Known(c)'
      BY <1>13, <2>2 DEF Admit, Retire, Known
    <2>3. ASSUME NEW v \in Worker, c \in idle[v] \cup doomed[v] PROVE Known(c)'
      BY <1>13, <2>3 DEF Admit, Retire, Known
    <2> QED
      BY <2>1, <2>2, <2>3 DEF Known
  <1>14. ASSUME NEW t \in Thread, Rollback(t) PROVE FreeInv'
    BY <1>14 DEF Rollback, Known
  <1>15. ASSUME NEW t \in Thread, Release(t) PROVE FreeInv'
    <2> SUFFICES ASSUME NEW c \in Conn, slot'[c] # 0 \/ c \in live'
                 PROVE  Known(c)'
      BY DEF FreeInv
    <2>1. Known(c)
      BY <1>15 DEF Release, Retire
    <2>2. ASSUME NEW u \in Thread, hand[u] = c PROVE Known(c)'
      BY <1>15, <2>2 DEF Release, Retire, Known
    <2>3. ASSUME NEW v \in Worker, c \in idle[v] \cup doomed[v] PROVE Known(c)'
      BY <1>15, <2>3, SMTT(30) DEF Release, Retire, Known
    <2> QED
      BY <2>1, <2>2, <2>3 DEF Known
  <1>16. ASSUME NEW w \in Worker, CircuitElapses(w) PROVE FreeInv'
    BY <1>16 DEF CircuitElapses, Known
  <1>17. ASSUME NEW w \in Worker, Close(w) PROVE FreeInv'
    <2> SUFFICES ASSUME NEW c \in Conn, slot'[c] # 0 \/ c \in live'
                 PROVE  Known(c)'
      BY DEF FreeInv
    <2>1. Known(c)
      BY <1>17 DEF Close
    <2>2. ASSUME NEW u \in Thread, hand[u] = c PROVE Known(c)'
      BY <1>17, <2>2 DEF Close, Known
    <2>3. ASSUME NEW v \in Worker, c \in idle[v] \cup doomed[v] PROVE Known(c)'
      BY <1>17, <2>3 DEF Close, Known
    <2> QED
      BY <2>1, <2>2, <2>3 DEF Known
  <1>18. ASSUME NEW w \in Worker, CloseIdle(w) PROVE FreeInv'
    <2> SUFFICES ASSUME NEW c \in Conn, slot'[c] # 0 \/ c \in live'
                 PROVE  Known(c)'
      BY DEF FreeInv
    <2>1. Known(c)
      BY <1>18 DEF CloseIdle
    <2>2. ASSUME NEW u \in Thread, hand[u] = c PROVE Known(c)'
      BY <1>18, <2>2 DEF CloseIdle, Known
    <2>3. ASSUME NEW v \in Worker, c \in idle[v] \cup doomed[v] PROVE Known(c)'
      BY <1>18, <2>3 DEF CloseIdle, Known
    <2> QED
      BY <2>1, <2>2, <2>3 DEF Known
  <1>19. ASSUME NEW w \in Worker, Exit(w) PROVE FreeInv'
    BY <1>19 DEF Exit, Handles, InHand, ThreadsOf, Known
  <1>20. CASE UNCHANGED vars
    BY <1>20 DEF vars, Known
  <1> QED
    BY <1>1, <1>2, <1>3, <1>4, <1>5, <1>6, <1>7, <1>8, <1>9, <1>10, <1>11,
       <1>12, <1>13, <1>14, <1>15, <1>16, <1>17, <1>18, <1>19, <1>20
       DEF Next, ThreadStep, Acquiring, Creating, Returning

\* No lock file of the budget is held by two connections.
LEMMA SlotInvStep == IInv /\ [Next]_vars => SlotInv'
  <1> SUFFICES ASSUME IInv, [Next]_vars PROVE SlotInv'
    OBVIOUS
  <1> USE HomeAssumption, ConnAssumption, SizeAssumption
      DEF IInv, TypeInv, TypeOK, HandInv, Resting, OnePlace, PermitInv, StageInv,
          StoreInv, FreeInv, SlotInv, poolVars, threadVars, Goto
  <1>1. ASSUME NEW t \in Thread, Call(t) PROVE SlotInv'
    BY <1>1 DEF Call
  <1>2. ASSUME NEW t \in Thread, Expire(t) PROVE SlotInv'
    BY <1>2 DEF Expire
  <1>3. ASSUME NEW t \in Thread, AcquireRaises(t) PROVE SlotInv'
    BY <1>3 DEF AcquireRaises
  <1>4. ASSUME NEW t \in Thread, TakeIdle(t) PROVE SlotInv'
    BY <1>4 DEF TakeIdle
  <1>5. ASSUME NEW t \in Thread, ReserveNew(t) PROVE SlotInv'
    BY <1>5, TakenIsKnown DEF ReserveNew, Known
  <1>6. ASSUME NEW t \in Thread, Park(t) PROVE SlotInv'
    BY <1>6 DEF Park
  <1>7. ASSUME NEW t \in Thread, ProbeSlot(t) PROVE SlotInv'
    BY <1>7 DEF ProbeSlot, SlotFree, Slot
  <1>8. ASSUME NEW t \in Thread, BudgetFull(t) PROVE SlotInv'
    BY <1>8 DEF BudgetFull
  <1>9. ASSUME NEW t \in Thread, Dial(t) PROVE SlotInv'
    BY <1>9 DEF Dial
  <1>10. ASSUME NEW t \in Thread, SetUp(t) PROVE SlotInv'
    BY <1>10 DEF SetUp
  <1>11. ASSUME NEW t \in Thread, UndoConnect(t) PROVE SlotInv'
    BY <1>11 DEF UndoConnect
  <1>12. ASSUME NEW t \in Thread, Unwind(t) PROVE SlotInv'
    BY <1>12 DEF Unwind
  <1>13. ASSUME NEW t \in Thread, Admit(t) PROVE SlotInv'
    BY <1>13 DEF Admit, Retire
  <1>14. ASSUME NEW t \in Thread, Rollback(t) PROVE SlotInv'
    BY <1>14 DEF Rollback
  <1>15. ASSUME NEW t \in Thread, Release(t) PROVE SlotInv'
    BY <1>15 DEF Release, Retire
  <1>16. ASSUME NEW w \in Worker, CircuitElapses(w) PROVE SlotInv'
    BY <1>16 DEF CircuitElapses
  <1>17. ASSUME NEW w \in Worker, Close(w) PROVE SlotInv'
    BY <1>17 DEF Close
  <1>18. ASSUME NEW w \in Worker, CloseIdle(w) PROVE SlotInv'
    BY <1>18, SMTT(30) DEF CloseIdle
  <1>19. ASSUME NEW w \in Worker, Exit(w) PROVE SlotInv'
    BY <1>19 DEF Exit, Handles, InHand, ThreadsOf
  <1>20. CASE UNCHANGED vars
    BY <1>20 DEF vars
  <1> QED
    BY <1>1, <1>2, <1>3, <1>4, <1>5, <1>6, <1>7, <1>8, <1>9, <1>10, <1>11,
       <1>12, <1>13, <1>14, <1>15, <1>16, <1>17, <1>18, <1>19, <1>20
       DEF Next, ThreadStep, Acquiring, Creating, Returning


(***************************************************************************)
(* The invariants of the runs, for every instance.                         *)
(***************************************************************************)

\* IInv holds in every reachable state.
LEMMA InductiveInvariant == Spec => []IInv
<1>1. Init => IInv
  BY TypeInvInit, OnePlaceInit, PermitInit DEF IInv
<1>2. IInv /\ [Next]_vars => IInv'
  BY TypeInvStep, OnePlaceStep, StageInvStep, StoreInvStep, FreeInvStep,
     SlotInvStep DEF IInv, PermitInv
<1> QED
  BY <1>1, <1>2, PTL DEF Spec

\* No connection is ever in two places, so none is lent to two threads.
THEOREM ConnectionsAreExclusive == Spec => []OnePlace
<1>1. IInv => OnePlace
  BY DEF IInv
<1> QED
  BY <1>1, InductiveInvariant, PTL

\* Every database session has a permit of the host budget to itself, except
\* while a failed set-up is being undone, and no permit or session outlives
\* the pool's knowledge of its connection.
THEOREM SessionsHavePermits == Spec => []PermitPerSession
<1>1. IInv => PermitPerSession
  <2> SUFFICES ASSUME IInv PROVE PermitPerSession
    OBVIOUS
  <2> USE DEF IInv, TypeInv, TypeOK, PermitInv
  <2>1. ASSUME NEW c \in live
        PROVE  slot[c] # 0 \/ \E t \in Thread : hand[t] = c /\ pc[t] = "undo"
    <3>1. c \in Conn /\ Known(c)
      BY DEF FreeInv
    <3>2. ASSUME NEW t \in Thread, hand[t] = c, slot[c] = 0
          PROVE  pc[t] = "undo"
      BY <3>2, <3>1, ConnAssumption
         DEF StageInv, HandInv, Resting, Place, Permitted, Unconnected
    <3>3. ASSUME NEW w \in Worker, c \in idle[w] \cup doomed[w]
          PROVE  slot[c] # 0
      BY <3>3 DEF StoreInv
    <3> QED
      BY <3>1, <3>2, <3>3 DEF Known
  <2>2. \A c \in Conn : slot[c] # 0 \/ c \in live => c \in Taken
    BY TakenIsKnown DEF FreeInv
  <2> QED
    BY <2>1, <2>2 DEF PermitPerSession, SlotInv
<1> QED
  BY <1>1, InductiveInvariant, PTL

\* After close() no thread of the worker is given a connection.
THEOREM NoLendingAfterClose == Spec => NoLeaseAfterClose
<1>1. TypeInv /\ [Next]_vars =>
        [\A t \in Thread : closed[Home[t]] /\ pc[t] # "using" => pc'[t] # "using"]_vars
  <2> SUFFICES ASSUME TypeInv, [Next]_vars,
                      NEW u \in Thread, closed[Home[u]], pc[u] # "using"
               PROVE  pc'[u] # "using"
    OBVIOUS
  <2> USE HomeAssumption DEF TypeInv, TypeOK, Goto
  <2>1. ASSUME NEW t \in Thread, Call(t) PROVE pc'[u] # "using"
      BY <2>1 DEF Call
  <2>2. ASSUME NEW t \in Thread, Expire(t) PROVE pc'[u] # "using"
      BY <2>2 DEF Expire
  <2>3. ASSUME NEW t \in Thread, AcquireRaises(t) PROVE pc'[u] # "using"
      BY <2>3 DEF AcquireRaises
  <2>4. ASSUME NEW t \in Thread, TakeIdle(t) PROVE pc'[u] # "using"
      BY <2>4 DEF TakeIdle
  <2>5. ASSUME NEW t \in Thread, ReserveNew(t) PROVE pc'[u] # "using"
      BY <2>5 DEF ReserveNew
  <2>6. ASSUME NEW t \in Thread, Park(t) PROVE pc'[u] # "using"
      BY <2>6 DEF Park
  <2>7. ASSUME NEW t \in Thread, ProbeSlot(t) PROVE pc'[u] # "using"
      BY <2>7 DEF ProbeSlot
  <2>8. ASSUME NEW t \in Thread, BudgetFull(t) PROVE pc'[u] # "using"
      BY <2>8 DEF BudgetFull
  <2>9. ASSUME NEW t \in Thread, Dial(t) PROVE pc'[u] # "using"
      BY <2>9 DEF Dial
  <2>10. ASSUME NEW t \in Thread, SetUp(t) PROVE pc'[u] # "using"
      BY <2>10 DEF SetUp
  <2>11. ASSUME NEW t \in Thread, UndoConnect(t) PROVE pc'[u] # "using"
      BY <2>11 DEF UndoConnect
  <2>12. ASSUME NEW t \in Thread, Unwind(t) PROVE pc'[u] # "using"
      BY <2>12 DEF Unwind, WakeAllAnd
  <2>13. ASSUME NEW t \in Thread, Admit(t) PROVE pc'[u] # "using"
      BY <2>13 DEF Admit, WakeAllAnd
  <2>14. ASSUME NEW t \in Thread, Rollback(t) PROVE pc'[u] # "using"
      BY <2>14 DEF Rollback
  <2>15. ASSUME NEW t \in Thread, Release(t) PROVE pc'[u] # "using"
      BY <2>15 DEF Release, WakeOneAndLeave, ThreadsOf
  <2>16. ASSUME NEW w \in Worker, CircuitElapses(w) PROVE pc'[u] # "using"
      BY <2>16 DEF CircuitElapses, threadVars
  <2>17. ASSUME NEW w \in Worker, Close(w) PROVE pc'[u] # "using"
      BY <2>17 DEF Close
  <2>18. ASSUME NEW w \in Worker, CloseIdle(w) PROVE pc'[u] # "using"
      BY <2>18 DEF CloseIdle, threadVars
  <2>19. ASSUME NEW w \in Worker, Exit(w) PROVE pc'[u] # "using"
      BY <2>19 DEF Exit
  <2>20. CASE UNCHANGED vars
      BY <2>20 DEF vars
  <2> QED
      BY <2>1, <2>2, <2>3, <2>4, <2>5, <2>6, <2>7, <2>8, <2>9, <2>10, <2>11,
       <2>12, <2>13, <2>14, <2>15, <2>16, <2>17, <2>18, <2>19, <2>20
       DEF Next, ThreadStep, Acquiring, Creating, Returning
<1> QED
  BY <1>1, TypeInvariant, PTL DEF Spec, NoLeaseAfterClose

(***************************************************************************)
(* The count.  It follows the set of handles: a step moves a connection    *)
(* between the idle set and a hand, or takes one in and out of both.       *)
(***************************************************************************)

\* Handles are connections, so there are finitely many.
LEMMA HandlesAreFinite ==
    ASSUME TypeInv, NEW w \in Worker
    PROVE  /\ Handles(w) \in SUBSET Conn /\ IsFiniteSet(Handles(w))
           /\ Cardinality(Handles(w)) \in Nat
  <1>1. Handles(w) \in SUBSET Conn
    BY DEF Handles, InHand, ThreadsOf, TypeInv, TypeOK
  <1> QED
    BY <1>1, ConnAssumption, FS_Subset, FS_CardinalityType

\* What counts in a worker: its idle connections and the hands of its threads.
LEMMA SameHandles ==
    ASSUME NEW w \in Worker, idle'[w] = idle[w],
           \A t \in Thread : Home[t] = w => hand'[t] = hand[t]
    PROVE  Handles(w)' = Handles(w)
  BY DEF Handles, InHand, ThreadsOf

\* The handles of a worker whose thread t hands its connection back to nobody.
LEMMA HandleDropped ==
    ASSUME IInv, NEW t \in Thread, hand[t] # NoConn, idle' = idle,
           hand' = [hand EXCEPT ![t] = NoConn]
    PROVE  /\ hand[t] \in Handles(Home[t])
           /\ Handles(Home[t])' = Handles(Home[t]) \ {hand[t]}
           /\ \A v \in Worker \ {Home[t]} : Handles(v)' = Handles(v)
  <1> USE HomeAssumption DEF IInv, TypeInv, TypeOK
  <1> DEFINE w == Home[t]
  <1>1. \A v \in Worker \ {w} : Handles(v)' = Handles(v)
    BY SameHandles
  <1>2. hand[t] \in Handles(w)
    BY DEF Handles, InHand, ThreadsOf
  <1>3. /\ \A u \in Thread \ {t} : hand'[u] = hand[u] /\ hand[u] # hand[t]
        /\ hand'[t] = NoConn
    BY DEF OnePlace
  <1>4. hand[t] \notin idle[w]
    BY DEF OnePlace
  <1>5. ASSUME NEW c PROVE c \in InHand(w)' <=> c \in InHand(w) \ {hand[t]}
    BY <1>3 DEF InHand, ThreadsOf
  <1> QED
    BY <1>1, <1>2, <1>4, <1>5 DEF Handles

\* A count that loses one with the handle it loses stays exact.
LEMMA CountDropped ==
    ASSUME IInv, CountIsExact, NEW t \in Thread, hand[t] # NoConn, idle' = idle,
           hand' = [hand EXCEPT ![t] = NoConn],
           count' = [count EXCEPT ![Home[t]] = @ - 1]
    PROVE  CountIsExact'
  <1> USE HomeAssumption DEF IInv, TypeInv, TypeOK
  <1> DEFINE w == Home[t]
  <1>1. /\ Cardinality(Handles(w)') = Cardinality(Handles(w)) - 1
        /\ Cardinality(Handles(w)) \in Nat
    BY HandleDropped, HandlesAreFinite, FS_RemoveElement
  <1>2. /\ count'[w] = count[w] - 1
        /\ \A v \in Worker \ {w} : count'[v] = count[v]
    OBVIOUS
  <1>3. count'[w] = Cardinality(Handles(w)') /\ count'[w] <= MaxSize
    <2>1. count[w] = Cardinality(Handles(w)) /\ count[w] <= MaxSize
      BY DEF CountIsExact
    <2> QED
      BY <1>1, <1>2, <2>1, SizeAssumption
  <1>4. ASSUME NEW v \in Worker \ {w}
        PROVE  count'[v] = Cardinality(Handles(v)') /\ count'[v] <= MaxSize
    <2>1. Handles(v)' = Handles(v)
      BY HandleDropped
    <2>2. count[v] = Cardinality(Handles(v)) /\ count[v] <= MaxSize
      BY DEF CountIsExact
    <2> QED
      BY <1>2, <2>1, <2>2
  <1> QED
    BY <1>3, <1>4 DEF CountIsExact

\* A count that stays as it is while no connection comes or goes is exact.
LEMMA CountKept ==
    ASSUME CountIsExact, count' = count,
           \A w \in Worker : Handles(w)' = Handles(w)
    PROVE  CountIsExact'
  BY DEF CountIsExact

\* The count follows every step.
LEMMA CountStep == IInv /\ CountIsExact /\ [Next]_vars => CountIsExact'
  <1> SUFFICES ASSUME IInv, CountIsExact, [Next]_vars PROVE CountIsExact'
    OBVIOUS
  <1> USE HomeAssumption, ConnAssumption, SizeAssumption
  <1>1. ASSUME UNCHANGED <<idle, count, hand>> PROVE CountIsExact'
    BY <1>1, CountKept, SameHandles
  <1>2. ASSUME NEW t \in Thread,
               \/ Call(t) \/ Expire(t) \/ AcquireRaises(t) \/ Park(t) \/ ProbeSlot(t)
               \/ BudgetFull(t) \/ Dial(t) \/ SetUp(t) \/ UndoConnect(t) \/ Rollback(t)
        PROVE  UNCHANGED <<idle, count, hand>>
    BY <1>2 DEF Call, Expire, AcquireRaises, Park, ProbeSlot, BudgetFull, Dial, SetUp,
                UndoConnect, Rollback, poolVars
  <1>3. ASSUME NEW t \in Thread, TakeIdle(t) PROVE CountIsExact'
    <2> USE DEF IInv, TypeInv, TypeOK
    <2> DEFINE w == Home[t]
    <2>1. PICK c \in idle[w] : /\ idle' = [idle EXCEPT ![w] = @ \ {c}]
                               /\ hand' = [hand EXCEPT ![t] = c]
      BY <1>3 DEF TakeIdle
    <2>2. hand[t] = NoConn /\ count' = count
      BY <1>3 DEF TakeIdle, AtLoopHead, HandInv, Resting
    <2>3. ASSUME NEW v \in Worker \ {w} PROVE Handles(v)' = Handles(v)
      BY <2>1, SameHandles
    <2>4. ASSUME NEW d PROVE d \in Handles(w)' <=> d \in Handles(w)
      BY <2>1, <2>2 DEF Handles, InHand, ThreadsOf
    <2>5. \A v \in Worker : Handles(v)' = Handles(v)
      <3>1. Handles(w)' = Handles(w)
        BY <2>4
      <3> QED
        BY <3>1, <2>3
    <2> QED
      BY <2>2, <2>5, CountKept
  <1>4. ASSUME NEW t \in Thread, ReserveNew(t) PROVE CountIsExact'
    <2> USE DEF IInv, TypeInv, TypeOK
    <2> DEFINE w == Home[t]
    <2>1. PICK c \in Conn \ Taken : hand' = [hand EXCEPT ![t] = c]
      BY <1>4 DEF ReserveNew
    <2>2. hand[t] = NoConn /\ idle' = idle
      BY <1>4 DEF ReserveNew, AtLoopHead, HandInv, Resting
    <2>3. ASSUME NEW v \in Worker \ {w} PROVE Handles(v)' = Handles(v)
      BY <2>1, <2>2, SameHandles
    <2>4. Handles(w)' = Handles(w) \cup {c} /\ c \notin Handles(w)
      <3>1. ASSUME NEW d PROVE d \in Handles(w)' <=> d \in Handles(w) \cup {c}
        BY <2>1, <2>2 DEF Handles, InHand, ThreadsOf
      <3> QED
        BY <3>1, <2>1 DEF Taken
    <2>5. /\ Cardinality(Handles(w)') = Cardinality(Handles(w)) + 1
          /\ Cardinality(Handles(w)) \in Nat
      BY <2>4, HandlesAreFinite, FS_AddElement
    <2>6. /\ count'[w] = count[w] + 1 /\ count[w] < MaxSize
          /\ \A v \in Worker \ {w} : count'[v] = count[v]
      BY <1>4 DEF ReserveNew, MayCreate
    <2>7. count'[w] = Cardinality(Handles(w)') /\ count'[w] <= MaxSize
      BY <2>5, <2>6 DEF CountIsExact
    <2>8. ASSUME NEW v \in Worker \ {w}
          PROVE  count'[v] = Cardinality(Handles(v)') /\ count'[v] <= MaxSize
      BY <2>3, <2>6 DEF CountIsExact
    <2> QED
      BY <2>7, <2>8 DEF CountIsExact
  <1>5. ASSUME NEW t \in Thread, Unwind(t) PROVE CountIsExact'
    <2>1. hand[t] # NoConn
      BY <1>5 DEF Unwind, IInv, TypeInv, HandInv, Resting
    <2> QED
      BY <1>5, <2>1, CountDropped DEF Unwind
  <1>6. ASSUME NEW t \in Thread, Admit(t) PROVE CountIsExact'
    <2>1. CASE closed[Home[t]]
      <3>1. hand[t] # NoConn
        BY <1>6 DEF Admit, IInv, TypeInv, HandInv, Resting
      <3>2. /\ idle' = idle /\ hand' = [hand EXCEPT ![t] = NoConn]
            /\ count' = [count EXCEPT ![Home[t]] = @ - 1]
        BY <1>6, <2>1 DEF Admit, Retire
      <3> QED
        BY <3>1, <3>2, CountDropped
    <2>2. CASE ~closed[Home[t]]
      BY <1>6, <2>2, <1>1 DEF Admit
    <2> QED
      BY <2>1, <2>2
  <1>7. ASSUME NEW t \in Thread, Release(t) PROVE CountIsExact'
    <2> DEFINE w == Home[t]
    <2>1. hand[t] # NoConn /\ hand[t] \in Conn
      BY <1>7 DEF Release, IInv, TypeInv, TypeOK, HandInv, Resting
    <2>2. CASE pc[t] = "giveBack" /\ ~closed[w]
      <3>1. /\ idle' = [idle EXCEPT ![w] = @ \cup {hand[t]}] /\ count' = count
            /\ hand' = [hand EXCEPT ![t] = NoConn]
        BY <1>7, <2>2 DEF Release
      <3>2. ASSUME NEW v \in Worker \ {w} PROVE Handles(v)' = Handles(v)
        BY <3>1, SameHandles DEF IInv, TypeInv, TypeOK
      <3>3. ASSUME NEW d PROVE d \in Handles(w)' <=> d \in Handles(w)
        BY <3>1, <2>1 DEF Handles, InHand, ThreadsOf, IInv, TypeInv, TypeOK
      <3>4. \A v \in Worker : Handles(v)' = Handles(v)
        <4>1. Handles(w)' = Handles(w)
          BY <3>3
        <4> QED
          BY <4>1, <3>2
      <3> QED
        BY <3>1, <3>4, CountKept
    <2>3. CASE ~(pc[t] = "giveBack" /\ ~closed[w])
      <3>1. /\ idle' = idle /\ hand' = [hand EXCEPT ![t] = NoConn]
            /\ count' = [count EXCEPT ![w] = @ - 1]
        BY <1>7, <2>3 DEF Release, Retire
      <3> QED
        BY <2>1, <3>1, CountDropped
    <2> QED
      BY <2>2, <2>3
  <1>8. ASSUME NEW w \in Worker, Close(w) PROVE CountIsExact'
    <2> USE DEF IInv, TypeInv, TypeOK
    <2>1. /\ idle' = [idle EXCEPT ![w] = {}] /\ hand' = hand
          /\ count' = [count EXCEPT ![w] = @ - Cardinality(idle[w])]
      BY <1>8 DEF Close
    <2>2. ASSUME NEW v \in Worker \ {w} PROVE Handles(v)' = Handles(v) /\ count'[v] = count[v]
      BY <2>1, SameHandles
    <2>3. Handles(w)' = Handles(w) \ idle[w]
      <3>1. InHand(w)' = InHand(w) /\ InHand(w) \cap idle[w] = {}
        BY <2>1 DEF InHand, ThreadsOf, OnePlace
      <3> QED
        BY <2>1, <3>1 DEF Handles
    <2>4. Handles(w) \cap idle[w] = idle[w]
      BY DEF Handles
    <2>5. /\ Cardinality(Handles(w)') = Cardinality(Handles(w)) - Cardinality(idle[w])
          /\ Cardinality(Handles(w)) \in Nat /\ Cardinality(idle[w]) \in Nat
      BY <2>3, <2>4, HandlesAreFinite, IdleIsCounted, FS_Difference
    <2>6. count'[w] = count[w] - Cardinality(idle[w])
      BY <2>1
    <2>7. count'[w] = Cardinality(Handles(w)') /\ count'[w] <= MaxSize
      BY <2>5, <2>6 DEF CountIsExact
    <2>8. ASSUME NEW v \in Worker \ {w}
          PROVE  count'[v] = Cardinality(Handles(v)') /\ count'[v] <= MaxSize
      BY <2>2 DEF CountIsExact
    <2> QED
      BY <2>7, <2>8 DEF CountIsExact
  <1>9. ASSUME NEW w \in Worker, Exit(w) PROVE CountIsExact'
    <2> USE DEF IInv, TypeInv, TypeOK
    <2>1. ASSUME NEW v \in Worker \ {w} PROVE Handles(v)' = Handles(v) /\ count'[v] = count[v]
      <3>1. /\ idle'[v] = idle[v] /\ count'[v] = count[v]
            /\ \A t \in Thread : Home[t] = v => hand'[t] = hand[t]
        BY <1>9 DEF Exit
      <3> QED
        BY <3>1, SameHandles
    <2>2. Handles(w)' = {} /\ count'[w] = 0
      BY <1>9 DEF Exit, Handles, InHand, ThreadsOf
    <2>3. count'[w] = Cardinality(Handles(w)') /\ count'[w] <= MaxSize
      BY <2>2, FS_EmptySet
    <2>4. ASSUME NEW v \in Worker \ {w}
          PROVE  count'[v] = Cardinality(Handles(v)') /\ count'[v] <= MaxSize
      BY <2>1 DEF CountIsExact
    <2> QED
      BY <2>3, <2>4 DEF CountIsExact
  <1>10. ASSUME \/ \E w \in Worker : CircuitElapses(w) \/ CloseIdle(w)
                \/ UNCHANGED vars
         PROVE  UNCHANGED <<idle, count, hand>>
    BY <1>10 DEF CircuitElapses, CloseIdle, threadVars, vars
  <1> QED
    BY <1>1, <1>2, <1>3, <1>4, <1>5, <1>6, <1>7, <1>8, <1>9, <1>10
       DEF Next, ThreadStep, Acquiring, Creating, Returning

\* A pool counts what it has, for every pool size: a unit is neither lost, so
\* that the pool would shrink, nor given away twice, so that it would grow.
THEOREM CountNeverDrifts == Spec => []CountIsExact
  <1>1. Init => CountIsExact
    <2> SUFFICES ASSUME Init, NEW w \in Worker
                 PROVE  count[w] = Cardinality(Handles(w)) /\ count[w] <= MaxSize
      BY DEF CountIsExact
    <2>1. Handles(w) = {} /\ count[w] = 0
      BY DEF Init, Handles, InHand, ThreadsOf
    <2> QED
      BY <2>1, SizeAssumption, FS_EmptySet
  <1> QED
    BY <1>1, CountStep, InductiveInvariant, PTL DEF Spec

(***************************************************************************)
(* Wakeups.  NoLostWakeup alone is not inductive: with one thread awake,   *)
(* an idle connection and a free unit, that thread takes the connection    *)
(* and nobody comes for the unit.  What the code keeps is a sum: the       *)
(* threads awake are as many as the connections and the unit they can go   *)
(* for, because each thing that turns up wakes a thread of its own.        *)
(***************************************************************************)

\* What a thread at the head of the loop can go for.
Takeable(w) == Cardinality(idle[w]) + (IF MayCreate(w) THEN 1 ELSE 0)

WakeInv(w) ==
    /\ IsFiniteSet(Parked(w)) /\ IsFiniteSet(Awake(w))
    /\ Parked(w) # {} => Takeable(w) <= Cardinality(Awake(w)) /\ ~closed[w] /\ ~circuit[w]

AllWakeInv == \A w \in Worker : WakeInv(w)

\* What WakeInv is about is numbers.
LEMMA WakeCounts ==
    ASSUME IInv, NEW w \in Worker, WakeInv(w)
    PROVE  /\ Cardinality(Awake(w)) \in Nat /\ Cardinality(idle[w]) \in Nat
           /\ Takeable(w) \in Nat /\ IsFiniteSet(idle[w])
  <1>1. idle[w] \in SUBSET Conn
    BY DEF IInv, TypeInv, TypeOK
  <1>2. Cardinality(Awake(w)) \in Nat /\ Cardinality(idle[w]) \in Nat /\ IsFiniteSet(idle[w])
    BY <1>1, IdleIsCounted, ConnAssumption, FS_Subset, FS_CardinalityType DEF WakeInv
  <1> QED
    BY <1>2 DEF Takeable

\* A step of another worker's thread changes nothing here.
LEMMA WakeElsewhere ==
    ASSUME NEW w \in Worker, WakeInv(w),
           \A t \in Thread : Home[t] = w => pc'[t] = pc[t],
           idle'[w] = idle[w], count'[w] = count[w], connecting'[w] = connecting[w],
           closed'[w] = closed[w], circuit'[w] = circuit[w]
    PROVE  WakeInv(w)'
  <1>1. Parked(w)' = Parked(w) /\ Awake(w)' = Awake(w)
    BY DEF Parked, Awake, AtLoopHead, ThreadsOf
  <1>2. Takeable(w)' = Takeable(w)
    BY DEF Takeable, MayCreate
  <1> QED
    BY <1>1, <1>2 DEF WakeInv

\* After a step that leaves nobody parked there is nothing to show but finiteness.
LEMMA WakeNobodyParked ==
    ASSUME NEW w \in Worker, WakeInv(w), Parked(w)' = {},
           Awake(w)' \subseteq Awake(w) \cup Parked(w)
    PROVE  WakeInv(w)'
  <1>1. IsFiniteSet(Awake(w) \cup Parked(w)) /\ IsFiniteSet({})
    BY FS_Union, FS_EmptySet DEF WakeInv
  <1>2. IsFiniteSet(Awake(w)')
    BY <1>1, FS_Subset
  <1> QED
    BY <1>1, <1>2 DEF WakeInv

\* What a thread that moves from one place to another does to the two sets.
LEMMA MovedThread ==
    ASSUME IInv, NEW t \in Thread, NEW place \in Place, pc' = [pc EXCEPT ![t] = place]
    PROVE  LET w == Home[t] IN
           /\ place = "parked" => Parked(w)' = Parked(w) \cup {t}
           /\ place # "parked" => Parked(w)' = Parked(w) \ {t}
           /\ place \in {"check", "late"} => Awake(w)' = Awake(w) \cup {t}
           /\ place \notin {"check", "late"} => Awake(w)' = Awake(w) \ {t}
           /\ \A u \in Thread \ {t} : pc'[u] = pc[u]
  BY HomeAssumption DEF IInv, TypeInv, TypeOK, Parked, Awake, AtLoopHead, ThreadsOf

\* What notify_all leaves.
LEMMA AllWoken ==
    ASSUME IInv, NEW t \in Thread, NEW place \in {"out", "using"},
           WakeAllAnd(Home[t], t, place)
    PROVE  /\ Parked(Home[t])' = {}
           /\ Awake(Home[t])' \subseteq Awake(Home[t]) \cup Parked(Home[t])
           /\ \A u \in Thread : Home[u] # Home[t] => pc'[u] = pc[u]
  BY HomeAssumption DEF IInv, TypeInv, TypeOK, WakeAllAnd, Parked, Awake, AtLoopHead, ThreadsOf

\* What notify leaves when somebody is parked, and when nobody is.
LEMMA OneWoken ==
    ASSUME IInv, NEW t \in Thread, pc[t] \in {"giveBack", "discard"},
           WakeOneAndLeave(Home[t], t)
    PROVE  LET w == Home[t] IN
           /\ Parked(w) = {} => Parked(w)' = {} /\ Awake(w)' = Awake(w)
           /\ Parked(w) # {} => \E u \in Parked(w) \ Awake(w) :
                 Parked(w)' = Parked(w) \ {u} /\ Awake(w)' = Awake(w) \cup {u}
           /\ \A u \in Thread : Home[u] # w => pc'[u] = pc[u]
  <1> USE HomeAssumption DEF IInv, TypeInv, TypeOK, Goto
  <1> DEFINE w == Home[t]
  <1>1. CASE Parked(w) = {}
    <2>1. pc' = [pc EXCEPT ![t] = "out"]
      BY <1>1 DEF WakeOneAndLeave, Parked
    <2> QED
      BY <1>1, <2>1 DEF Parked, Awake, AtLoopHead, ThreadsOf
  <1>2. CASE Parked(w) # {}
    <2>1. PICK u \in Parked(w) : pc' = [pc EXCEPT ![t] = "out", ![u] = "check"]
      BY <1>2 DEF WakeOneAndLeave, Parked
    <2>2. u \in Thread /\ u # t /\ Home[u] = w /\ u \notin Awake(w)
      BY <2>1 DEF Parked, Awake, AtLoopHead, ThreadsOf
    <2>3. \A v \in Thread : pc'[v] = IF v = t THEN "out" ELSE IF v = u THEN "check" ELSE pc[v]
      BY <2>1, <2>2
    <2>4. Parked(w)' = Parked(w) \ {u}
      BY <2>2, <2>3 DEF Parked, ThreadsOf
    <2>5. Awake(w)' = Awake(w) \cup {u}
      BY <2>2, <2>3 DEF Awake, AtLoopHead, ThreadsOf
    <2>6. \A v \in Thread : Home[v] # w => pc'[v] = pc[v]
      BY <2>2, <2>3
    <2> QED
      BY <1>2, <2>1, <2>2, <2>4, <2>5, <2>6
  <1> QED
    BY <1>1, <1>2

\* The threads of other workers and their pools do not notice a step of t that
\* keeps to the pool of t.
LEMMA WakeLocal ==
    ASSUME AllWakeInv, NEW w \in Worker, WakeInv(w)',
           \A u \in Thread : Home[u] # w => pc'[u] = pc[u],
           \A v \in Worker \ {w} : /\ idle'[v] = idle[v] /\ count'[v] = count[v]
                                   /\ connecting'[v] = connecting[v]
                                   /\ closed'[v] = closed[v] /\ circuit'[v] = circuit[v]
    PROVE  AllWakeInv'
  <1>1. ASSUME NEW v \in Worker \ {w} PROVE WakeInv(v)'
    BY <1>1, WakeElsewhere DEF AllWakeInv
  <1> QED
    BY <1>1 DEF AllWakeInv

\* A thread that comes awake while its pool stays as it is.
LEMMA WakeMore ==
    ASSUME IInv, AllWakeInv, NEW t \in Thread, NEW place \in {"check", "late"},
           pc' = [pc EXCEPT ![t] = place], UNCHANGED <<idle, count, connecting, closed, circuit>>
    PROVE  AllWakeInv'
  <1> DEFINE w == Home[t]
  <1>1. w \in Worker /\ WakeInv(w)
    BY HomeAssumption DEF AllWakeInv
  <1>2. Parked(w)' = Parked(w) \ {t} /\ Awake(w)' = Awake(w) \cup {t}
    BY MovedThread DEF Place
  <1>3. /\ IsFiniteSet(Parked(w)') /\ IsFiniteSet(Awake(w)')
        /\ Cardinality(Awake(w)') \in Nat /\ Cardinality(Awake(w)) \in Nat
        /\ Cardinality(Awake(w)) <= Cardinality(Awake(w)')
    <2>1. IsFiniteSet(Parked(w)')
      BY <1>1, <1>2, FS_Subset DEF WakeInv
    <2>2. IsFiniteSet(Awake(w)')
      BY <1>1, <1>2, FS_AddElement DEF WakeInv
    <2>3. Cardinality(Awake(w)) <= Cardinality(Awake(w)')
      BY <1>2, <2>2, FS_Subset
    <2> QED
      BY <1>1, <2>1, <2>2, <2>3, FS_CardinalityType DEF WakeInv
  <1>4. Takeable(w)' = Takeable(w) /\ Takeable(w) \in Nat
    BY <1>1, WakeCounts DEF Takeable, MayCreate
  <1>5. WakeInv(w)'
    BY <1>1, <1>2, <1>3, <1>4 DEF WakeInv
  <1>6. \A u \in Thread : Home[u] # w => pc'[u] = pc[u]
    BY MovedThread DEF Place
  <1> QED
    BY <1>1, <1>5, <1>6, WakeLocal

\* A thread that was neither awake nor parked moves on, and so does one that
\* raises: the pool has nothing for it then.
LEMMA WakeSame ==
    ASSUME IInv, AllWakeInv, NEW t \in Thread, NEW place \in Place \ {"check", "late", "parked"},
           t \notin Parked(Home[t]), t \notin Awake(Home[t]),
           pc' = [pc EXCEPT ![t] = place], UNCHANGED <<idle, count, connecting, closed, circuit>>
    PROVE  AllWakeInv'
  <1> DEFINE w == Home[t]
  <1>1. w \in Worker /\ WakeInv(w)
    BY HomeAssumption DEF AllWakeInv
  <1>2. Parked(w)' = Parked(w) /\ Awake(w)' = Awake(w)
    <2>1. Parked(w)' = Parked(w) \ {t} /\ Awake(w)' = Awake(w) \ {t}
      BY MovedThread
    <2>2. Parked(w) \ {t} = Parked(w) /\ Awake(w) \ {t} = Awake(w)
      OBVIOUS
    <2> QED
      BY <2>1, <2>2
  <1>3. Takeable(w)' = Takeable(w)
    BY DEF Takeable, MayCreate
  <1>4. WakeInv(w)'
    BY <1>1, <1>2, <1>3 DEF WakeInv
  <1>5. \A u \in Thread : Home[u] # w => pc'[u] = pc[u]
    BY MovedThread
  <1> QED
    BY <1>1, <1>4, <1>5, WakeLocal

\* A thread that was awake goes elsewhere, with one thing of those it could
\* take, or because there was nothing.
LEMMA WakeLess ==
    ASSUME IInv, AllWakeInv, NEW t \in Thread, t \in Awake(Home[t]),
           NEW place \in Place \ {"check", "late", "parked"},
           pc' = [pc EXCEPT ![t] = place], UNCHANGED <<closed, circuit>>,
           Parked(Home[t]) # {} => /\ Takeable(Home[t])' \in Nat
                                   /\ \/ Takeable(Home[t])' <= Takeable(Home[t]) - 1
                                      \/ Takeable(Home[t])' = 0,
           \A v \in Worker \ {Home[t]} :
               idle'[v] = idle[v] /\ count'[v] = count[v] /\ connecting'[v] = connecting[v]
    PROVE  AllWakeInv'
  <1> DEFINE w == Home[t]
  <1>1. w \in Worker /\ WakeInv(w)
    BY HomeAssumption DEF AllWakeInv
  <1>2. t \notin Parked(w)
    BY DEF Awake, Parked, AtLoopHead
  <1>3. Parked(w)' = Parked(w) /\ Awake(w)' = Awake(w) \ {t}
    <2>1. Parked(w)' = Parked(w) \ {t} /\ Awake(w)' = Awake(w) \ {t}
      BY MovedThread
    <2>2. Parked(w) \ {t} = Parked(w)
      BY <1>2
    <2> QED
      BY <2>1, <2>2
  <1>4. /\ IsFiniteSet(Awake(w)') /\ Cardinality(Awake(w)') = Cardinality(Awake(w)) - 1
        /\ Cardinality(Awake(w)') \in Nat /\ Cardinality(Awake(w)) \in Nat
    BY <1>1, <1>3, FS_RemoveElement, FS_CardinalityType DEF WakeInv
  <1>5. Takeable(w) \in Nat
    BY <1>1, WakeCounts
  <1>6. ASSUME Parked(w)' # {}
        PROVE  Takeable(w)' <= Cardinality(Awake(w)') /\ ~closed'[w] /\ ~circuit'[w]
    <2>1. Takeable(w) <= Cardinality(Awake(w)) /\ ~closed[w] /\ ~circuit[w]
      BY <1>1, <1>3, <1>6 DEF WakeInv
    <2>2. Takeable(w)' \in Nat /\ (Takeable(w)' <= Takeable(w) - 1 \/ Takeable(w)' = 0)
      BY <1>3, <1>6
    <2>3. Takeable(w)' <= Cardinality(Awake(w)')
      BY <1>4, <1>5, <2>1, <2>2
    <2> QED
      BY <2>1, <2>3
  <1>7. WakeInv(w)'
    BY <1>1, <1>3, <1>4, <1>6 DEF WakeInv
  <1>8. \A u \in Thread : Home[u] # w => pc'[u] = pc[u]
    BY MovedThread
  <1> QED
    BY <1>1, <1>7, <1>8, WakeLocal

\* Each step of the pools keeps the sum.
LEMMA WakeStep == IInv /\ AllWakeInv /\ [Next]_vars => AllWakeInv'
  <1> SUFFICES ASSUME IInv, AllWakeInv, [Next]_vars PROVE AllWakeInv'
    OBVIOUS
  <1> USE HomeAssumption
  <1>1. ASSUME NEW t \in Thread, Call(t) \/ Expire(t) PROVE AllWakeInv'
    <2>1. \E place \in {"check", "late"} : pc' = [pc EXCEPT ![t] = place]
      BY <1>1 DEF Call, Expire, Goto
    <2>2. UNCHANGED <<idle, count, connecting, closed, circuit>>
      BY <1>1 DEF Call, Expire, poolVars
    <2> QED
      BY <2>1, <2>2, WakeMore
  <1>2. ASSUME NEW t \in Thread,
               ProbeSlot(t) \/ BudgetFull(t) \/ Dial(t) \/ SetUp(t) \/ UndoConnect(t) \/ Rollback(t)
        PROVE  AllWakeInv'
    <2>1. \E place \in Place \ {"check", "late", "parked"} : pc' = [pc EXCEPT ![t] = place]
      <3>1. CASE ProbeSlot(t)
        BY <3>1 DEF ProbeSlot, Goto, Place, IInv, TypeInv, TypeOK
      <3>2. CASE BudgetFull(t) \/ Dial(t) \/ SetUp(t) \/ UndoConnect(t) \/ Rollback(t)
        BY <3>2, Zenon DEF BudgetFull, Dial, SetUp, UndoConnect, Rollback, Goto, Place
      <3> QED
        BY <1>2, <3>1, <3>2
    <2>2. UNCHANGED <<idle, count, connecting, closed, circuit>>
      BY <1>2 DEF ProbeSlot, BudgetFull, Dial, SetUp, UndoConnect, Rollback, poolVars
    <2>3. t \notin Parked(Home[t]) /\ t \notin Awake(Home[t])
      BY <1>2 DEF ProbeSlot, BudgetFull, Dial, SetUp, UndoConnect, Rollback, Parked, Awake, AtLoopHead
    <2> QED
      BY <2>1, <2>2, <2>3, WakeSame
  <1>3. ASSUME NEW t \in Thread, AtLoopHead(t)
        PROVE  /\ Home[t] \in Worker /\ t \in Awake(Home[t]) /\ idle[Home[t]] \in SUBSET Conn
               /\ Parked(Home[t]) # {} => ~closed[Home[t]] /\ ~circuit[Home[t]]
    BY <1>3 DEF Awake, ThreadsOf, IInv, TypeInv, TypeOK, AllWakeInv, WakeInv
  <1>4. ASSUME NEW t \in Thread, AcquireRaises(t) PROVE AllWakeInv'
    <2> DEFINE w == Home[t]
    <2>1. /\ AtLoopHead(t) /\ UNCHANGED <<idle, count, connecting, closed, circuit>>
          /\ pc' = [pc EXCEPT ![t] = "out"] /\ Raises(t)
      BY <1>4 DEF AcquireRaises, Goto, poolVars
    <2>2. ASSUME Parked(w) # {} PROVE Takeable(w)' = 0
      <3>1. idle'[w] = {} /\ ~MayCreate(w)'
        BY <1>3, <2>1, <2>2 DEF Raises, MayCreate
      <3> QED
        BY <3>1, FS_EmptySet DEF Takeable
    <2>3. Parked(w) # {} => /\ Takeable(w)' \in Nat
                            /\ Takeable(w)' <= Takeable(w) - 1 \/ Takeable(w)' = 0
      BY <2>2
    <2>4. t \in Awake(w)
      BY <1>3, <2>1
    <2> QED
      BY <2>1, <2>3, <2>4, WakeLess DEF Place
  <1>5. ASSUME NEW t \in Thread, TakeIdle(t) PROVE AllWakeInv'
    <2> DEFINE w == Home[t]
    <2>1. /\ AtLoopHead(t) /\ UNCHANGED <<count, connecting, closed, circuit>>
          /\ pc' = [pc EXCEPT ![t] = "admit"]
          /\ \E c \in idle[w] : idle' = [idle EXCEPT ![w] = @ \ {c}]
      BY <1>5 DEF TakeIdle, Goto
    <2>2. \E c \in idle[w] : idle'[w] = idle[w] \ {c}
      BY <1>3, <2>1 DEF IInv, TypeInv, TypeOK
    <2>3. \A v \in Worker \ {w} : idle'[v] = idle[v]
      BY <1>3, <2>1 DEF IInv, TypeInv, TypeOK
    <2>4. /\ Cardinality(idle'[w]) = Cardinality(idle[w]) - 1
          /\ Cardinality(idle[w]) \in Nat /\ Cardinality(idle'[w]) \in Nat
      <3>1. IsFiniteSet(idle[w])
        BY <1>3, <2>1, ConnAssumption, FS_Subset
      <3> QED
        BY <2>2, <3>1, FS_RemoveElement, FS_CardinalityType
    <2>5. MayCreate(w)' = MayCreate(w)
      BY <2>1 DEF MayCreate
    <2>6. Takeable(w)' = Takeable(w) - 1 /\ Takeable(w)' \in Nat /\ Takeable(w) \in Nat
      BY <2>4, <2>5 DEF Takeable
    <2>7. Takeable(w)' <= Takeable(w) - 1
      BY <2>6
    <2> QED
      BY <1>3, <2>1, <2>3, <2>6, <2>7, WakeLess DEF Place
  <1>6. ASSUME NEW t \in Thread, ReserveNew(t) PROVE AllWakeInv'
    <2> DEFINE w == Home[t]
    <2>1. /\ AtLoopHead(t) /\ UNCHANGED <<idle, closed, circuit>> /\ idle[w] = {}
          /\ pc' = [pc EXCEPT ![t] = "scan"]
          /\ count' = [count EXCEPT ![w] = @ + 1]
      BY <1>6 DEF ReserveNew, Goto
    <2>2. connecting' = [connecting EXCEPT ![w] = TRUE]
      BY <1>6 DEF ReserveNew
    <2>3. connecting'[w] /\ \A v \in Worker \ {w} : connecting'[v] = connecting[v]
      BY <1>3, <2>1, <2>2, Zenon DEF IInv, TypeInv, TypeOK
    <2>4. \A v \in Worker \ {w} : count'[v] = count[v]
      BY <1>3, <2>1 DEF IInv, TypeInv, TypeOK
    <2>5. Takeable(w)' = 0
      BY <2>1, <2>3, FS_EmptySet DEF Takeable, MayCreate
    <2>6. /\ Takeable(w)' \in Nat
          /\ Takeable(w)' <= Takeable(w) - 1 \/ Takeable(w)' = 0
      BY <2>5
    <2>7. t \in Awake(w)
      BY <1>3, <2>1
    <2>8. \A v \in Worker \ {Home[t]} :
             idle'[v] = idle[v] /\ count'[v] = count[v] /\ connecting'[v] = connecting[v]
      BY <2>1, <2>3, <2>4, Zenon
    <2> QED
      BY <2>1, <2>6, <2>7, <2>8, WakeLess DEF Place
  <1>7. ASSUME NEW t \in Thread, Park(t) PROVE AllWakeInv'
    <2> DEFINE w == Home[t]
    <2>1. /\ w \in Worker /\ WakeInv(w) /\ UNCHANGED <<idle, count, connecting, closed, circuit>>
          /\ idle[w] = {} /\ ~MayCreate(w) /\ ~closed[w] /\ ~circuit[w]
          /\ pc' = [pc EXCEPT ![t] = "parked"]
      BY <1>7 DEF Park, Goto, AllWakeInv, poolVars
    <2>2. Parked(w)' = Parked(w) \cup {t} /\ Awake(w)' = Awake(w) \ {t}
      BY <2>1, MovedThread DEF Place
    <2>3. /\ IsFiniteSet(Parked(w)') /\ IsFiniteSet(Awake(w)')
          /\ Cardinality(Awake(w)') \in Nat
      BY <2>1, <2>2, FS_AddElement, FS_RemoveElement, FS_CardinalityType DEF WakeInv
    <2>4. Takeable(w)' = 0
      BY <2>1, FS_EmptySet DEF Takeable, MayCreate
    <2>5. WakeInv(w)'
      BY <2>1, <2>3, <2>4 DEF WakeInv
    <2>6. \A u \in Thread : Home[u] # w => pc'[u] = pc[u]
      BY <2>1, MovedThread DEF Place
    <2> QED
      BY <2>1, <2>5, <2>6, WakeLocal
  <1>8. ASSUME NEW t \in Thread, Unwind(t) \/ (Admit(t) /\ pc[t] = "admitNew") PROVE AllWakeInv'
    <2> DEFINE w == Home[t]
    <2>1. w \in Worker /\ WakeInv(w) /\ UNCHANGED <<closed, idle>>
      BY <1>8 DEF Unwind, Admit, AllWakeInv
    <2>2. \E place \in {"out", "using"} : WakeAllAnd(w, t, place)
      BY <1>8 DEF Unwind, Admit
    <2>3. WakeInv(w)'
      BY <2>1, <2>2, AllWoken, WakeNobodyParked
    <2>4. /\ \E b : connecting' = [connecting EXCEPT ![w] = b]
          /\ \E b : circuit' = [circuit EXCEPT ![w] = b]
      BY <1>8, Zenon DEF Unwind, Admit
    <2>5. \A v \in Worker \ {w} : connecting'[v] = connecting[v] /\ circuit'[v] = circuit[v]
      BY <2>4, Zenon DEF IInv, TypeInv, TypeOK
    <2>6. \A v \in Worker \ {w} : count'[v] = count[v]
      BY <1>8 DEF Unwind, Admit, Retire, IInv, TypeInv, TypeOK
    <2>7. \A u \in Thread : Home[u] # w => pc'[u] = pc[u]
      BY <2>2, AllWoken
    <2> QED
      BY <2>1, <2>3, <2>5, <2>6, <2>7, WakeLocal
  <1>9. ASSUME NEW t \in Thread, Admit(t), pc[t] # "admitNew" PROVE AllWakeInv'
    <2> DEFINE w == Home[t]
    <2>1. /\ w \in Worker /\ WakeInv(w) /\ UNCHANGED <<closed, idle, connecting, circuit>>
          /\ pc[t] = "admit"
      BY <1>9 DEF Admit, AllWakeInv
    <2>2. t \notin Parked(w) /\ t \notin Awake(w)
      BY <2>1 DEF Parked, Awake, AtLoopHead
    <2>3. CASE ~closed[w]
      BY <1>9, <2>1, <2>2, <2>3, WakeSame DEF Admit, Goto, Place
    <2>4. CASE closed[w]
      <3>1. pc' = [pc EXCEPT ![t] = "out"] /\ count' = [count EXCEPT ![w] = @ - 1]
        BY <1>9, <2>1, <2>4 DEF Admit, Goto, Retire
      <3>2. /\ Parked(w)' = Parked(w) \ {t} /\ Awake(w)' = Awake(w) \ {t}
            /\ \A u \in Thread : Home[u] # w => pc'[u] = pc[u]
        BY <3>1, MovedThread DEF Place
      <3>3. Parked(w)' = {}
        BY <2>1, <2>4, <3>2 DEF WakeInv
      <3>4. WakeInv(w)'
        BY <2>1, <3>2, <3>3, WakeNobodyParked
      <3>5. \A v \in Worker \ {w} : count'[v] = count[v]
        BY <3>1 DEF IInv, TypeInv, TypeOK
      <3> QED
        BY <2>1, <3>2, <3>4, <3>5, WakeLocal
    <2> QED
      BY <2>3, <2>4
  <1>10. ASSUME NEW t \in Thread, Release(t) PROVE AllWakeInv'
    <2> DEFINE w == Home[t]
    <2>1. /\ w \in Worker /\ WakeInv(w) /\ UNCHANGED <<closed, connecting, circuit>>
          /\ pc[t] \in {"giveBack", "discard"} /\ WakeOneAndLeave(w, t) /\ hand[t] \in Conn
      BY <1>10 DEF Release, AllWakeInv, IInv, TypeInv, TypeOK, HandInv, Resting
    <2>2. /\ Parked(w) = {} => Parked(w)' = {} /\ Awake(w)' = Awake(w)
          /\ Parked(w) # {} => \E u \in Parked(w) \ Awake(w) :
                Parked(w)' = Parked(w) \ {u} /\ Awake(w)' = Awake(w) \cup {u}
          /\ \A u \in Thread : Home[u] # w => pc'[u] = pc[u]
      BY <2>1, OneWoken
    <2>3. \A v \in Worker \ {w} : idle'[v] = idle[v] /\ count'[v] = count[v]
      BY <1>10 DEF Release, Retire, IInv, TypeInv, TypeOK
    <2>4. CASE Parked(w) = {}
      <3>1. WakeInv(w)'
        BY <2>1, <2>2, <2>4, WakeNobodyParked
      <3> QED
        BY <2>1, <2>2, <2>3, <3>1, WakeLocal
    <2>5. CASE Parked(w) # {}
      <3>1. PICK u \in Parked(w) \ Awake(w) :
               Parked(w)' = Parked(w) \ {u} /\ Awake(w)' = Awake(w) \cup {u}
        BY <2>2, <2>5
      <3>2. /\ IsFiniteSet(Parked(w)') /\ IsFiniteSet(Awake(w)')
            /\ Cardinality(Awake(w)') = Cardinality(Awake(w)) + 1
            /\ Cardinality(Awake(w)) \in Nat
        <4>1. IsFiniteSet(Parked(w)')
          BY <2>1, <3>1, FS_Subset DEF WakeInv
        <4>2. /\ IsFiniteSet(Awake(w)') /\ Cardinality(Awake(w)') = Cardinality(Awake(w)) + 1
              /\ Cardinality(Awake(w)) \in Nat
          BY <2>1, <3>1, FS_AddElement, FS_CardinalityType DEF WakeInv
        <4> QED
          BY <4>1, <4>2
      <3>3. Takeable(w)' <= Takeable(w) + 1 /\ Takeable(w)' \in Nat /\ Takeable(w) \in Nat
        <4>1. Cardinality(idle[w]) \in Nat /\ IsFiniteSet(idle[w])
          BY <2>1, WakeCounts
        <4>2. CASE idle' = [idle EXCEPT ![w] = @ \cup {hand[t]}] /\ count' = count
          <5>1. idle'[w] = idle[w] \cup {hand[t]} /\ hand[t] \notin idle[w]
            BY <2>1, <4>2 DEF IInv, OnePlace, TypeInv, TypeOK
          <5>2. Cardinality(idle'[w]) = Cardinality(idle[w]) + 1
            BY <4>1, <5>1, FS_AddElement
          <5>3. MayCreate(w)' = MayCreate(w)
            BY <2>1, <4>2 DEF MayCreate
          <5> QED
            BY <4>1, <5>2, <5>3 DEF Takeable
        <4>3. CASE idle' = idle
          BY <4>1, <4>3 DEF Takeable
        <4> QED
          BY <1>10, <4>2, <4>3 DEF Release
      <3>4. Takeable(w) <= Cardinality(Awake(w)) /\ ~closed[w] /\ ~circuit[w]
        BY <2>1, <2>5 DEF WakeInv
      <3>5. Takeable(w)' <= Cardinality(Awake(w)')
        BY <3>2, <3>3, <3>4
      <3>6. WakeInv(w)'
        BY <2>1, <3>2, <3>4, <3>5 DEF WakeInv
      <3> QED
        BY <2>1, <2>2, <2>3, <3>6, WakeLocal
    <2> QED
      BY <2>4, <2>5
  <1>11. ASSUME NEW w \in Worker, Close(w) \/ Exit(w) PROVE AllWakeInv'
    <2>1. Parked(w)' = {} /\ Awake(w)' \subseteq Awake(w) \cup Parked(w)
      BY <1>11 DEF Close, Exit, Parked, Awake, AtLoopHead, ThreadsOf, IInv, TypeInv, TypeOK
    <2>2. WakeInv(w)'
      BY <2>1, WakeNobodyParked DEF AllWakeInv
    <2>3. \A u \in Thread : Home[u] # w => pc'[u] = pc[u]
      BY <1>11 DEF Close, Exit
    <2>4. \A v \in Worker \ {w} : idle'[v] = idle[v] /\ count'[v] = count[v]
      BY <1>11 DEF Close, Exit, IInv, TypeInv, TypeOK
    <2>5. \A v \in Worker \ {w} :
             connecting'[v] = connecting[v] /\ closed'[v] = closed[v] /\ circuit'[v] = circuit[v]
      <3>1. CASE Close(w)
        <4>1. closed' = [closed EXCEPT ![w] = TRUE] /\ UNCHANGED <<connecting, circuit>>
          BY <3>1 DEF Close
        <4> QED
          BY <4>1, Zenon DEF IInv, TypeInv, TypeOK
      <3>2. CASE Exit(w)
        <4>1. /\ closed' = [closed EXCEPT ![w] = FALSE]
              /\ connecting' = [connecting EXCEPT ![w] = FALSE]
              /\ circuit' = [circuit EXCEPT ![w] = FALSE]
          BY <3>2 DEF Exit
        <4> QED
          BY <4>1, Zenon DEF IInv, TypeInv, TypeOK
      <3> QED
        BY <1>11, <3>1, <3>2
    <2> QED
      BY <2>2, <2>3, <2>4, <2>5, WakeLocal
  <1>12. ASSUME NEW w \in Worker, CircuitElapses(w) PROVE AllWakeInv'
    <2>1. /\ WakeInv(w) /\ UNCHANGED <<closed, idle, count, connecting, pc>> /\ circuit[w]
          /\ circuit' = [circuit EXCEPT ![w] = FALSE]
      BY <1>12 DEF CircuitElapses, AllWakeInv, threadVars
    <2>2. Parked(w)' = {} /\ Awake(w)' = Awake(w)
      BY <2>1 DEF WakeInv, Parked, Awake, AtLoopHead, ThreadsOf
    <2>3. WakeInv(w)'
      BY <2>1, <2>2, WakeNobodyParked
    <2>4. \A v \in Worker \ {w} : circuit'[v] = circuit[v]
      BY <2>1, Zenon DEF IInv, TypeInv, TypeOK
    <2> QED
      BY <2>1, <2>3, <2>4, WakeLocal
  <1>13. ASSUME (\E w \in Worker : CloseIdle(w)) \/ UNCHANGED vars PROVE AllWakeInv'
    <2>1. UNCHANGED <<closed, idle, count, connecting, circuit, pc>>
      BY <1>13 DEF CloseIdle, threadVars, vars
    <2> QED
      BY <2>1, WakeElsewhere DEF AllWakeInv
  <1> QED
    BY <1>1, <1>2, <1>4, <1>5, <1>6, <1>7, <1>8, <1>9, <1>10, <1>11, <1>12, <1>13
       DEF Next, ThreadStep, Acquiring, Creating, Returning

\* As long as somebody waits on the condition, no connection and no free unit of
\* the pool is left without a thread that comes for it, and the pool is open.
THEOREM WakeupsAreNotLost == Spec => []NoLostWakeup
  <1>1. Init => AllWakeInv
    <2> SUFFICES ASSUME Init, NEW w \in Worker PROVE WakeInv(w)
      BY DEF AllWakeInv
    <2>1. Parked(w) = {} /\ Awake(w) = {}
      BY DEF Init, Parked, Awake, AtLoopHead, ThreadsOf
    <2> QED
      BY <2>1, FS_EmptySet DEF WakeInv
  <1>2. IInv /\ AllWakeInv => NoLostWakeup
    <2> SUFFICES ASSUME IInv, NEW w \in Worker, WakeInv(w), Parked(w) # {}
                 PROVE  /\ Cardinality(idle[w]) <= Cardinality(Awake(w))
                        /\ MayCreate(w) => Awake(w) # {}
                        /\ ~closed[w] /\ ~circuit[w]
      BY DEF AllWakeInv, NoLostWakeup
    <2>1. /\ Cardinality(Awake(w)) \in Nat /\ Cardinality(idle[w]) \in Nat
          /\ Takeable(w) <= Cardinality(Awake(w)) /\ ~closed[w] /\ ~circuit[w]
      BY WakeCounts DEF WakeInv
    <2>2. Cardinality(idle[w]) <= Cardinality(Awake(w))
      BY <2>1 DEF Takeable
    <2>3. MayCreate(w) => Cardinality(Awake(w)) # 0
      BY <2>1 DEF Takeable
    <2> QED
      BY <2>1, <2>2, <2>3, FS_EmptySet
  <1> QED
    BY <1>1, <1>2, WakeStep, InductiveInvariant, PTL DEF Spec

(***************************************************************************)
(* Refinement.  A lease begins in Admit and ends in Rollback, in Exit or   *)
(* not at all; every other step leaves the leases alone, because it can    *)
(* only touch connections that are not lent.                               *)
(***************************************************************************)

\* A step that leaves the lent connections and their permits alone is not seen
\* by the callers.
LEMMA LeaseUnchanged ==
    ASSUME IInv, \A u \in Thread : /\ pc'[u] = "using" <=> pc[u] = "using"
                                   /\ pc[u] = "using" => /\ hand'[u] = hand[u]
                                                         /\ slot'[hand[u]] = slot[hand[u]]
    PROVE  Lease' = Lease
  BY DEF Lease

\* No step of acquire before its last, nor of release after its first, is seen by
\* the callers.
LEMMA QuietSteps ==
    ASSUME IInv
    PROVE  /\ \A t \in Thread :
                 (Call(t) \/ Expire(t) \/ Acquiring(t) \/ Creating(t) \/ Release(t))
                 => Lease' = Lease
           /\ \A w \in Worker :
                 (CircuitElapses(w) \/ CloseIdle(w)) => Lease' = Lease
  <1> USE HomeAssumption, ConnAssumption, IInv
      DEF IInv, TypeInv, TypeOK, HandInv, Resting, OnePlace, poolVars, threadVars, Goto
  <1>1. ASSUME NEW t \in Thread, Call(t) PROVE Lease' = Lease
    BY <1>1, LeaseUnchanged DEF Call
  <1>2. ASSUME NEW t \in Thread, Expire(t) PROVE Lease' = Lease
    BY <1>2, LeaseUnchanged DEF Expire
  <1>3. ASSUME NEW t \in Thread, AcquireRaises(t) PROVE Lease' = Lease
    BY <1>3, LeaseUnchanged DEF AcquireRaises, AtLoopHead
  <1>4. ASSUME NEW t \in Thread, TakeIdle(t) PROVE Lease' = Lease
    BY <1>4, LeaseUnchanged DEF TakeIdle, AtLoopHead
  <1>5. ASSUME NEW t \in Thread, ReserveNew(t) PROVE Lease' = Lease
    BY <1>5, LeaseUnchanged DEF ReserveNew, AtLoopHead
  <1>6. ASSUME NEW t \in Thread, Park(t) PROVE Lease' = Lease
    BY <1>6, LeaseUnchanged DEF Park
  <1>7. ASSUME NEW t \in Thread, ProbeSlot(t) PROVE Lease' = Lease
    <2>1. \A u \in Thread : pc'[u] = "using" <=> pc[u] = "using"
      BY <1>7 DEF ProbeSlot
    <2>2. /\ UNCHANGED hand
          /\ \A d \in Conn : d # hand[t] => slot'[d] = slot[d]
      BY <1>7 DEF ProbeSlot
    <2>3. ASSUME NEW u \in Thread, pc[u] = "using" PROVE hand[u] \in Conn /\ hand[u] # hand[t]
      BY <1>7, <2>3 DEF ProbeSlot
    <2> QED
      BY <2>1, <2>2, <2>3, LeaseUnchanged
  <1>8. ASSUME NEW t \in Thread, BudgetFull(t) PROVE Lease' = Lease
    BY <1>8, LeaseUnchanged DEF BudgetFull
  <1>9. ASSUME NEW t \in Thread, Dial(t) PROVE Lease' = Lease
    <2>1. \A u \in Thread : pc'[u] = "using" <=> pc[u] = "using"
      BY <1>9 DEF Dial
    <2>2. /\ UNCHANGED hand
          /\ \A d \in Conn : d # hand[t] => slot'[d] = slot[d]
      BY <1>9 DEF Dial
    <2>3. ASSUME NEW u \in Thread, pc[u] = "using" PROVE hand[u] \in Conn /\ hand[u] # hand[t]
      BY <1>9, <2>3 DEF Dial
    <2> QED
      BY <2>1, <2>2, <2>3, LeaseUnchanged
  <1>10. ASSUME NEW t \in Thread, SetUp(t) PROVE Lease' = Lease
    <2>1. \A u \in Thread : pc'[u] = "using" <=> pc[u] = "using"
      BY <1>10 DEF SetUp
    <2>2. /\ UNCHANGED hand
          /\ \A d \in Conn : d # hand[t] => slot'[d] = slot[d]
      BY <1>10 DEF SetUp
    <2>3. ASSUME NEW u \in Thread, pc[u] = "using" PROVE hand[u] \in Conn /\ hand[u] # hand[t]
      BY <1>10, <2>3 DEF SetUp
    <2> QED
      BY <2>1, <2>2, <2>3, LeaseUnchanged
  <1>11. ASSUME NEW t \in Thread, UndoConnect(t) PROVE Lease' = Lease
    BY <1>11, LeaseUnchanged DEF UndoConnect
  <1>12. ASSUME NEW t \in Thread, Unwind(t) PROVE Lease' = Lease
    BY <1>12, LeaseUnchanged DEF Unwind, WakeAllAnd
  <1>13. ASSUME NEW t \in Thread, Release(t) PROVE Lease' = Lease
    <2>1. \A u \in Thread : pc'[u] = "using" <=> pc[u] = "using"
      BY <1>13 DEF Release, WakeOneAndLeave, ThreadsOf
    <2>2. /\ \A u \in Thread : u # t => hand'[u] = hand[u]
          /\ \A d \in Conn : d # hand[t] => slot'[d] = slot[d]
      BY <1>13 DEF Release, Retire
    <2>3. ASSUME NEW u \in Thread, pc[u] = "using"
          PROVE  hand'[u] = hand[u] /\ slot'[hand[u]] = slot[hand[u]]
      BY <1>13, <2>2, <2>3 DEF Release
    <2> QED
      BY <2>1, <2>3, LeaseUnchanged
  <1>14. ASSUME NEW w \in Worker, CircuitElapses(w) PROVE Lease' = Lease
    BY <1>14, LeaseUnchanged DEF CircuitElapses
  <1>15. ASSUME NEW w \in Worker, CloseIdle(w) PROVE Lease' = Lease
    <2>1. PICK c \in doomed[w] : \A d \in Conn : d # c => slot'[d] = slot[d]
      BY <1>15 DEF CloseIdle
    <2>2. UNCHANGED <<pc, hand>>
      BY <1>15 DEF CloseIdle
    <2>3. ASSUME NEW u \in Thread, pc[u] = "using"
          PROVE  slot'[hand[u]] = slot[hand[u]]
      BY <2>1, <2>3
    <2> QED
      BY <2>2, <2>3, LeaseUnchanged
  <1> QED
    BY <1>1, <1>2, <1>3, <1>4, <1>5, <1>6, <1>7, <1>8, <1>9, <1>10, <1>11, <1>12, <1>13, <1>14, <1>15
       DEF Acquiring, Creating

\* Nothing is lent when the workers start.
LEMMA LendingInitially == Init => Lending!LendingInit
  BY DEF Init, Lease, Lending!LendingInit

\* Every step of the pools is a step of lending, or is not seen by the callers.
LEMMA LendingStep == IInv /\ [Next]_vars => [Lending!LendingNext]_(Lending!lvars)
  <1> SUFFICES ASSUME IInv, [Next]_vars
               PROVE  Lending!LendingNext \/ UNCHANGED <<Lease, closed>>
    BY DEF Lending!lvars
  <1> USE HomeAssumption, ConnAssumption, SizeAssumption
      DEF IInv, TypeInv, TypeOK, HandInv, Resting, OnePlace, PermitInv, SlotInv,
          poolVars, threadVars, Goto
  <1>1. ASSUME NEW t \in Thread, Admit(t), closed[Home[t]]
        PROVE  UNCHANGED <<Lease, closed>>
    <2>1. \A u \in Thread : pc'[u] = "using" <=> pc[u] = "using"
      BY <1>1, SMTT(30) DEF Admit, WakeAllAnd
    <2>2. /\ \A u \in Thread : u # t => hand'[u] = hand[u]
          /\ \A d \in Conn : d # hand[t] => slot'[d] = slot[d]
          /\ closed' = closed
      BY <1>1 DEF Admit, Retire
    <2>3. ASSUME NEW u \in Thread, pc[u] = "using"
          PROVE  hand'[u] = hand[u] /\ slot'[hand[u]] = slot[hand[u]]
      BY <1>1, <2>2, <2>3 DEF Admit
    <2> QED
      BY <2>1, <2>2, <2>3, LeaseUnchanged
  <1>2. ASSUME NEW t \in Thread, Admit(t), ~closed[Home[t]]
        PROVE  Lending!Lend(t)
    <2> DEFINE new == [conn |-> hand[t], permit |-> slot[hand[t]]]
    <2>1. Lease[t] = NoConn
      BY <1>2 DEF Admit, Lease
    <2>2. hand[t] \in Conn /\ slot[hand[t]] \in Lending!Permit
      <3>1. pc[t] \in {"admit", "admitNew"}
        BY <1>2 DEF Admit
      <3>2. hand[t] \in Conn /\ slot[hand[t]] # 0
        BY <3>1 DEF StageInv, Permitted
      <3> QED
        BY <3>2 DEF Lending!Permit
    <2>3. ASSUME NEW u \in Thread, Lease[u] # NoConn
          PROVE  Lease[u].conn # hand[t] /\ Lease[u].permit # slot[hand[t]]
      <3>1. pc[u] = "using" /\ Lease[u] = [conn |-> hand[u], permit |-> slot[hand[u]]]
        BY <2>3 DEF Lease
      <3>2. u # t /\ hand[u] \in Conn /\ slot[hand[u]] # 0
        BY <3>1, <1>2 DEF Admit, StageInv, Permitted
      <3> QED
        BY <2>2, <3>1, <3>2
    <2>4. Lease' = [Lease EXCEPT ![t] = new]
      <3>1. /\ \A u \in Thread : pc'[u] = "using" <=> (u = t \/ pc[u] = "using")
            /\ UNCHANGED <<hand, slot>>
        BY <1>2 DEF Admit, WakeAllAnd
      <3> QED
        BY <3>1 DEF Lease
    <2> QED
      BY <1>2, <2>1, <2>2, <2>3, <2>4 DEF Lending!Lend, Admit
  <1>3. ASSUME NEW t \in Thread, Rollback(t)
        PROVE  Lending!Return(t)
    <2>1. Lease[t] # NoConn
      <3>1. hand[t] \in Conn /\ slot[hand[t]] \in 1..Capacity
        <4>1. pc[t] = "using"
          BY <1>3 DEF Rollback
        <4>2. hand[t] \in Conn
          BY <4>1
        <4>3. slot[hand[t]] # 0
          BY <4>1 DEF StageInv, Permitted
        <4> QED
          BY <4>2, <4>3
      <3> QED
        BY <1>3, <3>1, NoConnAssumption DEF Rollback, Lease
    <2>2. Lease' = [Lease EXCEPT ![t] = NoConn]
      BY <1>3 DEF Rollback, Lease
    <2> QED
      BY <1>3, <2>1, <2>2 DEF Rollback, Lending!Return
  <1>4. ASSUME NEW w \in Worker, Close(w)
        PROVE  Lending!Shut(w)
    <2>1. Lease' = Lease
      BY <1>4 DEF Close, Lease
    <2> QED
      BY <1>4, <2>1 DEF Close, Lending!Shut
  <1>5. ASSUME NEW w \in Worker, Exit(w)
        PROVE  Lending!Restart(w)
    <2>1. ASSUME NEW u \in Thread, Home[u] # w, pc[u] = "using"
          PROVE  hand[u] \in Conn /\ hand[u] \notin Handles(w) \cup doomed[w]
      BY <2>1 DEF Handles, InHand, ThreadsOf
    <2>2. Lease' = [t \in Thread |-> IF Home[t] = w THEN NoConn ELSE Lease[t]]
      BY <1>5, <2>1 DEF Exit, Lease
    <2> QED
      BY <1>5, <2>2 DEF Exit, Lending!Restart
  <1>6. CASE \E t \in Thread : Call(t) \/ Expire(t) \/ Acquiring(t) \/ Creating(t)
                               \/ Release(t)
    BY <1>6, QuietSteps
       DEF Call, Expire, Acquiring, AcquireRaises, TakeIdle, ReserveNew, Park,
           Creating, ProbeSlot, BudgetFull, Dial, SetUp, UndoConnect, Unwind, Release
  <1>7. CASE \E w \in Worker : CircuitElapses(w) \/ CloseIdle(w)
    BY <1>7, QuietSteps DEF CircuitElapses, CloseIdle
  <1>8. CASE UNCHANGED vars
    BY <1>8 DEF vars, Lease
  <1> QED
    BY <1>1, <1>2, <1>3, <1>4, <1>5, <1>6, <1>7, <1>8
       DEF Next, ThreadStep, Returning, Lending!LendingNext

\* The pools, with their locks, lock files, failures and timeouts, implement
\* exclusive lending under the host budget.
THEOREM PoolImplementsLending == Spec => ImplementsLending
<1> QED
  BY LendingInitially, LendingStep, InductiveInvariant, PTL
     DEF Spec, ImplementsLending, Lending!LendingSpec
=============================================================================
