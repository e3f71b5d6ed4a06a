---------------------------- MODULE TradeSyncProofs ----------------------------
(* Theorems about TradeSync, for every set of markets, trades and oracle   *)
(* events, every size of a batch and every number of failures.             *)
EXTENDS TradeSync, FiniteSetTheorems, WellFoundedInduction, TLAPS

(***************************************************************************)
(* The inductive invariant.  A batch is what lies next above the           *)
(* checkpoint of the trades that were there when it was read, so that the  *)
(* move of the checkpoint counts exactly the batch and leaves behind only  *)
(* what came in between (BatchInv, CountInv).  The serving rows agree with *)
(* the open transaction at any time (ServingInv), because the day of the   *)
(* cycle is that of the tables once the head is committed.  An event that  *)
(* the checkpoint is to pass was read by the cycle, before the flags, or   *)
(* is below one that was (EventsInv, StatusInv).                           *)
(***************************************************************************)

Places == {"idle", "full", "events", "flags", "rows", "replace", "max", "ended",
           "serve", "head", "fetch", "apply", "commit"}
\* Places where only the snapshot has been written, or not even that.
HeadPlaces == {"full", "events", "flags", "rows", "replace", "max", "ended", "serve"}

StatusRows == [flags : SUBSET EventId, settlement : SUBSET EventId, closed : BOOLEAN]

IsRecord(t) ==
    t = [next |-> t.next, event |-> t.event, day |-> t.day, daily |-> t.daily,
         latest |-> t.latest, serving |-> t.serving, status |-> t.status]

IsTables(t) ==
    /\ IsRecord(t)
    /\ t.next \in trades \cup {0} /\ t.event \in events \cup {0}
    /\ t.day \in NoDay..LastDay
    /\ t.daily \in [Day -> [Market -> Nat]] /\ t.latest \in [Market -> Nat]
    /\ t.status \in [Market -> StatusRows]

TypeInv ==
    /\ trades \subseteq TradeId /\ events \subseteq EventId /\ ended \subseteq Market
    /\ yesterday \in 0..(LastDay - 1) /\ since \in Day /\ pc \in Places
    /\ IsTables(db) /\ IsTables(work)
    /\ batch \subseteq trades /\ known \subseteq trades
    /\ overtaken \subseteq {i \in trades : i <= db.next}
    /\ scope \subseteq Market /\ seen \in events \cup {0}
    /\ flags \subseteq events /\ heard \subseteq events /\ missed \subseteq events

\* What the open transaction has not written yet is what is committed.
OpenInv ==
    /\ pc \in {"idle", "full", "events", "flags", "rows", "replace", "fetch", "apply"}
          => work = db
    /\ pc \in HeadPlaces => work.day = db.day /\ work.serving = db.serving
    /\ pc \in HeadPlaces \cup {"head"} =>
          work.next = db.next /\ work.daily = db.daily /\ work.latest = db.latest
    /\ pc = "commit" => work.event = db.event /\ work.status = db.status
    /\ pc \in {"head", "fetch", "apply", "commit"} => work.day = since
    /\ pc \notin HeadPlaces \cup {"head"} => scope = {} /\ flags = {} /\ heard = {}
    /\ pc \notin {"apply", "commit"} => batch = {}

BatchInv ==
    pc \in {"apply", "commit"} =>
        /\ batch # {} /\ batch \subseteq known /\ Counted \subseteq known
        /\ \A i \in batch : i > db.next
        /\ \A i \in known, j \in batch : db.next < i /\ i <= j => i \in batch
        /\ pc = "commit" => work.next \in batch /\ \A i \in batch : i <= work.next

Traded(ids, m) == {i \in ids : Trade[i].market = m}
TradedOn(ids, m, d) == {i \in ids : Trade[i].market = m /\ Trade[i].day = d}
Positions(ids, m) == {Trade[i].position : i \in Traded(ids, m)}

\* p is the highest of a set of positions, or 0.
IsHighest(p, P) == IF P = {} THEN p = 0 ELSE p \in P /\ \A q \in P : q <= p

\* The tables t have the trades of ids, each once.
Have(t, ids) ==
    \A m \in Market : /\ IsHighest(t.latest[m], Positions(ids, m))
                      /\ \A d \in Day : t.daily[d][m] = Cardinality(TradedOn(ids, m, d))

CountInv == Have(db, Counted) /\ (pc = "commit" => Have(work, Counted \cup batch))

ServingOf(t) == t.day # NoDay => \A m \in Market : t.serving[m] = Served(t, m, t.day)
ServingInv == ServingOf(db) /\ ServingOf(work)

\* The row of its market in the tables t reflects the event e.
In(t, e) == e \in t.status[Oracle[e]].flags /\ e \in t.status[Oracle[e]].settlement

\* How far the cycle has read the events.
EventsInv ==
    /\ pc \in {"full", "replace", "max"} => db.event = 0
    /\ pc \in {"events", "flags", "rows", "ended"} => db.event # 0
    /\ pc \in {"serve", "head"} => db.event = 0 \/ work.event = seen
    /\ pc \in HeadPlaces \cup {"head"} /\ db.event # 0 =>
          /\ seen = db.event \/ (seen \in heard /\ db.event < seen)
          /\ \A e \in heard : e <= seen
    /\ pc \in {"events", "flags", "rows"} => \A e \in heard : Oracle[e] \in scope
    /\ pc = "full" => heard = {}
    /\ pc \in {"rows", "replace"} =>
          /\ heard \subseteq flags
          /\ \A e \in events \ missed : e <= db.event /\ Oracle[e] \in scope => e \in flags

StatusInv ==
    /\ \A e \in events \ missed : e <= db.event => In(db, e)
    /\ pc \in {"ended", "serve", "head"} =>
          \A e \in events \ missed : e <= db.event => In(work, e)
    /\ pc \in {"max", "ended", "serve", "head"} => \A e \in heard : In(work, e)

IInv == /\ TypeInv /\ OpenInv /\ BatchInv /\ CountInv /\ ServingInv /\ EventsInv
        /\ StatusInv

-----------------------------------------------------------------------------
(* The operators on sets of numbers.                                        *)

\* A finite set of numbers that is not empty has a highest one.
LEMMA HasHighest ==
    ASSUME NEW S \in SUBSET Nat, IsFiniteSet(S), S # {}
    PROVE  \E i \in S : \A j \in S : j <= i
  <1> DEFINE Above(x) == {y \in S : y > x}
             T == {Above(x) : x \in S}
             R == StrictSubsetOrdering(S)
  <1>1. \A x \in S : Above(x) \in FiniteSubsetsOf(S)
    BY FS_Subset DEF FiniteSubsetsOf
  <1>2. T \subseteq FiniteSubsetsOf(S) /\ T # {}
    BY <1>1
  <1>3. IsWellFoundedOn(R, FiniteSubsetsOf(S))
    BY FS_StrictSubsetOrderingWellFounded
  <1>4. PICK A \in T : \A B \in T : <<B, A>> \notin R
    <2> HIDE DEF T, R
    <2> QED
      BY <1>2, <1>3, WFMin
  <1>5. PICK x \in S : A = Above(x)
    BY <1>4
  <1>6. ASSUME NEW y \in S, y > x
        PROVE  FALSE
    <2>1. Above(y) \in T
      BY <1>6
    <2>2. Above(y) \subseteq Above(x)
      <3>1. ASSUME NEW z \in S, z > y
            PROVE  z > x
        BY <1>6, <3>1, z \in Nat, y \in Nat, x \in Nat
      <3> QED
        BY <3>1
    <2>3. y \in Above(x) /\ y \notin Above(y)
      BY <1>6
    <2>4. <<Above(y), A>> \in R
      BY <2>2, <2>3, <1>5 DEF StrictSubsetOrdering
    <2> QED
      BY <2>1, <2>4, <1>4
  <1> QED
    BY <1>6

\* What Highest chooses.
LEMMA HighestIs ==
    ASSUME NEW S \in SUBSET Nat, IsFiniteSet(S), NEW default
    PROVE  IF S = {} THEN Highest(S, default) = default
                     ELSE Highest(S, default) \in S /\ \A j \in S : j <= Highest(S, default)
  <1>1. CASE S = {}
    BY <1>1 DEF Highest
  <1>2. CASE S # {}
    <2>1. \E i \in S : \A j \in S : j <= i
      BY <1>2, HasHighest
    <2>2. Highest(S, default) = CHOOSE i \in S : \A j \in S : j <= i
      BY <1>2 DEF Highest
    <2> QED
      BY <1>2, <2>1, <2>2
  <1> QED
    BY <1>1, <1>2

\* The lowest of a set are what comes first in it.
LEMMA LowestIsClosed ==
    ASSUME NEW S \in SUBSET Nat, IsFiniteSet(S), NEW n \in Nat,
           NEW j \in Lowest(n, S), NEW i \in S, i <= j
    PROVE  i \in Lowest(n, S)
  <1> DEFINE Below(x) == {y \in S : y < x}
  <1>1. IsFiniteSet(Below(j)) /\ Below(i) \in SUBSET Below(j)
    <2>1. j \in S
      BY DEF Lowest
    <2>2. ASSUME NEW k \in S, k < i
          PROVE  k < j
      BY <2>1, <2>2, i \in Nat, j \in Nat, k \in Nat
    <2> QED
      BY <2>2, FS_Subset
  <1>2. IsFiniteSet(Below(i)) /\ Cardinality(Below(i)) <= Cardinality(Below(j))
    BY <1>1, FS_Subset
  <1>3. Cardinality(Below(i)) \in Nat /\ Cardinality(Below(j)) \in Nat
    BY <1>1, <1>2, FS_CardinalityType
  <1>4. Cardinality(Below(j)) < n
    BY DEF Lowest
  <1> HIDE DEF Below
  <1>5. Cardinality(Below(i)) < n
    BY <1>2, <1>3, <1>4
  <1> QED
    BY <1>5 DEF Lowest, Below

\* Sets of trades and of events are finite sets of numbers above 0.
LEMMA IdsAreNumbers ==
    ASSUME NEW S, S \subseteq TradeId \/ S \subseteq EventId
    PROVE  IsFiniteSet(S) /\ S \in SUBSET Nat /\ 0 \notin S
  BY SyncAssumption, FS_Subset

\* So are the positions of trades.
LEMMA PositionsAreNumbers ==
    ASSUME NEW ids \in SUBSET TradeId
    PROVE  LET P == {Trade[i].position : i \in ids}
           IN  IsFiniteSet(P) /\ P \in SUBSET (Nat \ {0})
  <1> DEFINE P == {Trade[i].position : i \in ids}
             f == [i \in ids |-> Trade[i].position]
  <1>1. IsFiniteSet(ids)
    BY IdsAreNumbers
  <1>2. f \in Surjection(ids, P)
    BY DEF Surjection
  <1>3. IsFiniteSet(P)
    <2> HIDE DEF f, P
    <2> QED
      BY <1>1, <1>2, FS_Surjection
  <1> QED
    BY <1>3, SyncAssumption

-----------------------------------------------------------------------------
(* What the steps do to the tables.                                         *)

\* Rows are rebuilt for the markets asked for, from the flags given and from
\* all events there are.
LEMMA RebuiltIs ==
    ASSUME TypeInv, NEW markets \in SUBSET Market, NEW fs \in SUBSET events
    PROVE  LET rows == Rebuilt(markets, fs)
           IN  /\ rows \in [Market -> StatusRows]
               /\ \A m \in Market \ markets : rows[m] = work.status[m]
               /\ \A e \in events : Oracle[e] \in markets =>
                     /\ e \in rows[Oracle[e]].settlement
                     /\ e \in fs => e \in rows[Oracle[e]].flags
  <1> DEFINE own(m) == {e \in fs : Oracle[e] = m}
             row(m) == [flags |-> own(m), settlement |-> EventsOf({m}),
                        closed |-> m \in ended \/ own(m) # {}]
             rows == Rebuilt(markets, fs)
  <1>1. rows = [m \in Market |-> IF m \in markets THEN row(m) ELSE work.status[m]]
    BY DEF Rebuilt
  <1>2. \A m \in Market : row(m) \in StatusRows
    <2> TAKE m \in Market
    <2>1. own(m) \subseteq EventId /\ EventsOf({m}) \subseteq EventId
      BY DEF TypeInv, EventsOf
    <2>2. (m \in ended \/ own(m) # {}) \in BOOLEAN
      OBVIOUS
    <2> QED
      BY <2>1, <2>2 DEF StatusRows
  <1>3. \A m \in Market : work.status[m] \in StatusRows
    BY DEF TypeInv, IsTables
  <1>4. \A e \in events : /\ Oracle[e] \in Market /\ e \in EventsOf({Oracle[e]})
                          /\ e \in fs => e \in own(Oracle[e])
    BY SyncAssumption DEF TypeInv, EventsOf
  <1>5. \A m : row(m).flags = own(m) /\ row(m).settlement = EventsOf({m})
    OBVIOUS
  <1> HIDE DEF row, rows, own
  <1>6. rows \in [Market -> StatusRows]
    BY <1>1, <1>2, <1>3
  <1>7. \A m \in Market \ markets : rows[m] = work.status[m]
    BY <1>1
  <1>8. ASSUME NEW e \in events, Oracle[e] \in markets
        PROVE  /\ e \in rows[Oracle[e]].settlement
               /\ e \in fs => e \in rows[Oracle[e]].flags
    <2>1. rows[Oracle[e]] = row(Oracle[e])
      BY <1>1, <1>8
    <2> QED
      BY <2>1, <1>4, <1>5
  <1> QED
    BY <1>6, <1>7, <1>8 DEF rows

\* Two tables with the same checkpoints and trades, or with the same statuses.
SameTrades(t, u) == /\ t.next = u.next /\ t.daily = u.daily /\ t.latest = u.latest
SameServing(t, u) == t.day = u.day /\ t.serving = u.serving

\* The steps that write the status rows, and only these and the checkpoint.
WritesStatus(rows, last) ==
    /\ work'.status = rows /\ work'.event = last
    /\ SameTrades(work', work) /\ SameServing(work', work) /\ IsRecord(work')

\* The rows and the checkpoint that each step of the snapshot writes.
LEMMA StatusSteps ==
    ASSUME TypeInv
    PROVE  /\ WriteRows => WritesStatus(Rebuilt(scope, flags), work.event)
           /\ ReplaceRows => WritesStatus(Rebuilt(Market, flags), work.event)
           /\ ReadMax => WritesStatus(work.status, Highest(events, 0))
           /\ CloseEnded =>
                \E due \in SUBSET Market : WritesStatus(Rebuilt(due, events), seen)
  <1> DEFINE due == {m \in ended : ~work.status[m].closed}
  <1>1. due \in SUBSET Market
    BY DEF TypeInv
  <1>2. IsTables(work)
    BY DEF TypeInv
  <1> HIDE DEF due
  <1>3. ASSUME NEW rows, NEW last, work' = [work EXCEPT !.status = rows, !.event = last]
        PROVE  WritesStatus(rows, last)
    BY <1>2, <1>3 DEF IsTables, IsRecord, WritesStatus, SameTrades, SameServing
  <1>4. ASSUME NEW rows, work' = [work EXCEPT !.status = rows]
        PROVE  WritesStatus(rows, work.event)
    BY <1>2, <1>4 DEF IsTables, IsRecord, WritesStatus, SameTrades, SameServing
  <1>5. ASSUME NEW last, work' = [work EXCEPT !.event = last]
        PROVE  WritesStatus(work.status, last)
    BY <1>2, <1>5 DEF IsTables, IsRecord, WritesStatus, SameTrades, SameServing
  <1>6. WriteRows => WritesStatus(Rebuilt(scope, flags), work.event)
    BY <1>4 DEF WriteRows
  <1>7. ReplaceRows => WritesStatus(Rebuilt(Market, flags), work.event)
    BY <1>4 DEF ReplaceRows
  <1>8. ReadMax => WritesStatus(work.status, Highest(events, 0))
    BY <1>5 DEF ReadMax
  <1>9. CloseEnded => WritesStatus(Rebuilt(due, events), seen)
    BY <1>3 DEF CloseEnded, due
  <1> QED
    BY <1>1, <1>6, <1>7, <1>8, <1>9

\* What a serving row has to say depends on the counts and the latest price.
LEMMA ServedSame ==
    ASSUME NEW t, NEW u, NEW m, NEW d,
           t.latest[m] = u.latest[m], \A x \in Day : t.daily[x][m] = u.daily[x][m]
    PROVE  Served(t, m, d) = Served(u, m, d)
  <1>1. [x \in Day |-> t.daily[x][m]] = [x \in Day |-> u.daily[x][m]]
    OBVIOUS
  <1> QED
    BY <1>1 DEF Served

\* ServeAll either finds the day noted or makes all rows.
LEMMA ServeStep ==
    ASSUME TypeInv, ServeAll
    PROVE  /\ SameTrades(work', work) /\ IsRecord(work')
           /\ work'.status = work.status /\ work'.event = work.event
           /\ IF db.day = since THEN work' = work
              ELSE work'.day = since /\ \A m \in Market :
                                          work'.serving[m] = Served(work', m, since)
  <1>0. IsRecord(work)
    BY DEF TypeInv, IsTables
  <1>1. CASE db.day = since
    BY <1>0, <1>1 DEF ServeAll, SameTrades
  <1>2. CASE db.day # since
    <2> DEFINE rows == [m \in Market |-> Served(work, m, since)]
    <2>1. work' = [work EXCEPT !.day = since, !.serving = rows]
      BY <1>2 DEF ServeAll
    <2> HIDE DEF rows
    <2>2. /\ SameTrades(work', work) /\ IsRecord(work')
          /\ work'.status = work.status /\ work'.event = work.event
          /\ work'.day = since /\ work'.serving = rows
      BY <1>0, <2>1 DEF IsRecord, SameTrades
    <2>3. ASSUME NEW m \in Market
          PROVE  work'.serving[m] = Served(work', m, since)
      <3>1. Served(work', m, since) = Served(work, m, since)
        BY <2>2, ServedSame DEF SameTrades
      <3> QED
        BY <2>2, <3>1 DEF rows
    <2> QED
      BY <1>2, <2>2, <2>3
  <1> QED
    BY <1>1, <1>2

\* Apply adds the batch to the counts and the prices, and makes the rows of the
\* markets of the batch.
LEMMA ApplyStep ==
    ASSUME TypeInv, Apply
    PROVE  /\ IsRecord(work') /\ work'.day = work.day
           /\ work'.status = work.status /\ work'.event = work.event
           /\ work'.next = Highest(batch, work.next)
           /\ \A d \in Day, m \in Market :
                 work'.daily[d][m] = work.daily[d][m] + BatchCount(d, m)
           /\ work'.daily = [d \in Day |-> [m \in Market |-> work'.daily[d][m]]]
           /\ work'.latest = [m \in Market |->
                                Newest(Traded(batch, m), work.latest[m])]
           /\ \A m \in Market :
                 work'.serving[m] = IF m \in Impacted THEN Served(work', m, since)
                                                      ELSE work.serving[m]
  <1> DEFINE daily == [d \in Day |-> [m \in Market |-> work.daily[d][m] + BatchCount(d, m)]]
             latest == [m \in Market |-> Newest(Traded(batch, m), work.latest[m])]
             last == Highest(batch, work.next)
             tables == [work EXCEPT !.daily = daily, !.latest = latest, !.next = last]
             rows == [m \in Market |-> IF m \in Impacted THEN Served(tables, m, since)
                                       ELSE tables.serving[m]]
  <1>0. IsRecord(work)
    BY DEF TypeInv, IsTables
  <1>1. work' = [tables EXCEPT !.serving = rows]
    BY <1>0 DEF Apply, Traded, IsRecord
  <1> HIDE DEF daily, latest, last
  <1>2. /\ tables.daily = daily /\ tables.latest = latest /\ tables.next = last
        /\ tables.serving = work.serving /\ IsRecord(tables)
        /\ tables.day = work.day /\ tables.status = work.status
        /\ tables.event = work.event
    <2>1. tables = [work EXCEPT !.daily = daily, !.latest = latest, !.next = last]
      OBVIOUS
    <2> HIDE DEF tables
    <2> QED
      BY <1>0, <2>1 DEF IsRecord
  <1> HIDE DEF tables, rows
  <1>3. /\ work'.daily = daily /\ work'.latest = latest /\ work'.next = last
        /\ work'.serving = rows /\ IsRecord(work') /\ work'.day = work.day
        /\ work'.status = work.status /\ work'.event = work.event
    BY <1>1, <1>2 DEF IsRecord
  <1>4. ASSUME NEW m \in Market
        PROVE  work'.serving[m] = IF m \in Impacted THEN Served(work', m, since)
                                                    ELSE work.serving[m]
    <2>1. Served(work', m, since) = Served(tables, m, since)
      BY <1>2, <1>3, ServedSame
    <2> QED
      BY <1>2, <1>3, <2>1 DEF rows
  <1>5. ASSUME NEW d \in Day, NEW m \in Market
        PROVE  work'.daily[d][m] = work.daily[d][m] + BatchCount(d, m)
    BY <1>3 DEF daily
  <1>6. work'.daily = [d \in Day |-> [m \in Market |-> work'.daily[d][m]]]
    BY <1>3 DEF daily
  <1> QED
    BY <1>3, <1>4, <1>5, <1>6 DEF latest, last

\* The newest of some positions and of those that a stored price stands for.
LEMMA NewestIs ==
    ASSUME NEW ids \in SUBSET TradeId, NEW P \in SUBSET (Nat \ {0}), NEW stored \in Nat,
           IsHighest(stored, P)
    PROVE  LET Q == {Trade[i].position : i \in ids}
           IN  /\ Newest(ids, stored) \in Nat
               /\ IsHighest(Newest(ids, stored), P \cup Q)
  <1> DEFINE Q == {Trade[i].position : i \in ids}
             p == Highest(Q, 0)
  <1>1. IsFiniteSet(Q) /\ Q \in SUBSET (Nat \ {0})
    BY PositionsAreNumbers
  <1>2. IF Q = {} THEN p = 0 ELSE p \in Q /\ \A j \in Q : j <= p
    <2> HIDE DEF Q
    <2> QED
      BY <1>1, HighestIs
  <1>3. Newest(ids, stored) = IF p > stored THEN p ELSE stored
    BY DEF Newest
  <1> HIDE DEF p, Q
  <1>4. (\A q \in P : q \in Nat /\ q # 0) /\ (\A q \in Q : q \in Nat /\ q # 0)
    BY <1>1
  <1>5. p \in Nat /\ (Q = {} => p = 0) /\ (Q # {} => p \in Q /\ \A j \in Q : j <= p)
    BY <1>2, <1>4
  <1>6. Newest(ids, stored) \in Nat /\ IsHighest(Newest(ids, stored), P \cup Q)
    <2>1. CASE Q = {}
      <3>1. Newest(ids, stored) = stored /\ P \cup Q = P
        BY <1>3, <1>5, <2>1
      <3> QED
        BY <3>1
    <2>2. CASE Q # {} /\ P = {}
      <3>1. stored = 0 /\ p # 0 /\ P \cup Q = Q
        BY <1>4, <1>5, <2>2 DEF IsHighest
      <3>2. Newest(ids, stored) = p
        BY <1>3, <1>5, <3>1
      <3> QED
        BY <1>5, <2>2, <3>1, <3>2 DEF IsHighest
    <2>3. CASE Q # {} /\ P # {}
      <3>1. p \in Q /\ stored \in P /\ (\A j \in Q : j <= p) /\ (\A j \in P : j <= stored)
        BY <1>5, <2>3 DEF IsHighest
      <3>2. CASE p > stored
        <4>1. \A j \in P \cup Q : j <= p
          BY <3>1, <3>2, <1>4, <1>5
        <4> QED
          BY <4>1, <3>1, <3>2, <1>3, <1>4 DEF IsHighest
      <3>3. CASE ~(p > stored)
        <4>1. \A j \in P \cup Q : j <= stored
          BY <3>1, <3>3, <1>4, <1>5
        <4> QED
          BY <4>1, <3>1, <3>3, <1>3, <1>4 DEF IsHighest
      <3> QED
        BY <3>2, <3>3
    <2> QED
      BY <2>1, <2>2, <2>3
  <1> QED
    BY <1>6 DEF Q

\* A set of trades or events has its highest id in it.
LEMMA HighestId ==
    ASSUME NEW S, S \subseteq TradeId \/ S \subseteq EventId, NEW default
    PROVE  IF S = {} THEN Highest(S, default) = default
                     ELSE Highest(S, default) \in S /\ \A j \in S : j <= Highest(S, default)
  BY IdsAreNumbers, HighestIs

\* How many trades of a market the batch has on a day is a number.
LEMMA BatchCountIs ==
    ASSUME TypeInv, NEW d, NEW m
    PROVE  BatchCount(d, m) \in Nat /\ BatchCount(d, m) = Cardinality(TradedOn(batch, m, d))
  <1>1. TradedOn(batch, m, d) \subseteq TradeId
    BY DEF TypeInv, TradedOn
  <1>2. BatchCount(d, m) = Cardinality(TradedOn(batch, m, d))
    BY DEF BatchCount, TradedOn
  <1> QED
    BY <1>1, <1>2, IdsAreNumbers, FS_CardinalityType

\* The prices of work stand for some positions at any time; the newest of them
\* and of the batch is a number.
LEMMA NewestIsNat ==
    ASSUME TypeInv, NEW m \in Market
    PROVE  Newest(Traded(batch, m), work.latest[m]) \in Nat
  <1> DEFINE stored == work.latest[m]
             P == IF stored = 0 THEN {} ELSE {stored}
  <1>1. stored \in Nat /\ Traded(batch, m) \in SUBSET TradeId
    BY DEF TypeInv, IsTables, Traded
  <1>2. P \in SUBSET (Nat \ {0}) /\ IsHighest(stored, P)
    BY <1>1 DEF IsHighest
  <1> QED
    <2> HIDE DEF stored, P
    <2> QED
      BY <1>1, <1>2, NewestIs DEF stored

-----------------------------------------------------------------------------
(* Types.                                                                   *)

\* The tables have their types after every step that writes them.
LEMMA TablesKeepTypes ==
    ASSUME IInv,
           WriteRows \/ ReplaceRows \/ ReadMax \/ CloseEnded \/ ServeAll \/ Apply
    PROVE  IsTables(work)'
  <1>1. TypeInv /\ IsTables(work)
    BY DEF IInv, TypeInv
  <1>2. trades' = trades /\ events' = events
    BY DEF WriteRows, ReplaceRows, ReadMax, CloseEnded, ServeAll, Apply, source
  <1>3. ASSUME NEW rows \in [Market -> StatusRows], NEW last \in events \cup {0},
               WritesStatus(rows, last)
        PROVE  IsTables(work)'
    BY <1>1, <1>2, <1>3 DEF IsTables, WritesStatus, SameTrades, SameServing, IsRecord
  <1>4. CASE WriteRows \/ ReplaceRows \/ ReadMax \/ CloseEnded
    <2>1. work.event \in events \cup {0} /\ seen \in events \cup {0}
          /\ Highest(events, 0) \in events \cup {0}
      BY <1>1, HighestId DEF TypeInv, IsTables
    <2>2. /\ scope \in SUBSET Market /\ flags \in SUBSET events /\ events \in SUBSET events
          /\ work.status \in [Market -> StatusRows]
      BY <1>1 DEF TypeInv, IsTables
    <2>3. \A markets \in SUBSET Market, fs \in SUBSET events :
              Rebuilt(markets, fs) \in [Market -> StatusRows]
      BY <1>1, RebuiltIs
    <2>4. CASE WriteRows
      BY <1>1, <1>3, <2>1, <2>2, <2>3, <2>4, StatusSteps
    <2>5. CASE ReplaceRows
      BY <1>1, <1>3, <2>1, <2>2, <2>3, <2>5, StatusSteps
    <2>6. CASE ReadMax
      BY <1>1, <1>3, <2>1, <2>2, <2>6, StatusSteps
    <2>7. CASE CloseEnded
      <3>1. PICK due \in SUBSET Market : WritesStatus(Rebuilt(due, events), seen)
        BY <1>1, <2>7, StatusSteps
      <3> QED
        BY <1>3, <2>1, <2>2, <2>3, <3>1
    <2> QED
      BY <1>4, <2>4, <2>5, <2>6, <2>7
  <1>5. CASE ServeAll
    <2>1. /\ SameTrades(work', work) /\ IsRecord(work')
          /\ work'.status = work.status /\ work'.event = work.event
          /\ work'.day = since \/ work' = work
      BY <1>1, <1>5, ServeStep
    <2>2. since \in NoDay..LastDay
      BY <1>1, SyncAssumption DEF TypeInv, Day, NoDay
    <2> QED
      BY <1>1, <1>2, <2>1, <2>2 DEF IsTables, SameTrades, IsRecord
  <1>6. CASE Apply
    <2>1. work'.next \in trades \cup {0}
      <3>1. Highest(batch, work.next) \in trades \cup {0}
        BY <1>1, HighestId DEF TypeInv, IsTables
      <3> QED
        BY <1>1, <1>6, <3>1, ApplyStep
    <2>2. work'.latest \in [Market -> Nat]
      BY <1>1, <1>6, ApplyStep, NewestIsNat
    <2>3. work'.daily \in [Day -> [Market -> Nat]]
      <3>1. \A d \in Day, m \in Market : work'.daily[d][m] \in Nat
        <4> TAKE d \in Day, m \in Market
        <4>1. work.daily[d][m] \in Nat /\ BatchCount(d, m) \in Nat
          BY <1>1, BatchCountIs DEF IsTables
        <4>2. work'.daily[d][m] = work.daily[d][m] + BatchCount(d, m)
          BY <1>1, <1>6, ApplyStep
        <4> QED
          BY <4>1, <4>2
      <3>2. work'.daily = [d \in Day |-> [m \in Market |-> work'.daily[d][m]]]
        BY <1>1, <1>6, ApplyStep
      <3> QED
        BY <3>1, <3>2
    <2>4. /\ IsRecord(work') /\ work'.day = work.day
          /\ work'.status = work.status /\ work'.event = work.event
      BY <1>1, <1>6, ApplyStep
    <2> QED
      BY <1>1, <1>2, <2>1, <2>2, <2>3, <2>4 DEF IsTables, IsRecord
  <1> QED
    BY <1>4, <1>5, <1>6

\* Types are an invariant of every step.
LEMMA TypesKept ==
    ASSUME IInv, [Next]_vars
    PROVE  TypeInv'
  <1>0. TypeInv /\ IsTables(db) /\ IsTables(work) /\ OpenInv
    BY DEF IInv, TypeInv
  <1> USE <1>0
  <1>1. CASE Start
    <2>1. yesterday \in Day /\ db.event \in events \cup {0}
      BY SyncAssumption DEF TypeInv, Day, IsTables
    <2>2. pc' \in Places
      BY <1>1 DEF Start, Places
    <2> QED
      BY <1>1, <2>1, <2>2 DEF Start, TypeInv, IsTables, source, hist
  <1>2. CASE ReadEvents
    <2> DEFINE page == Lowest(EventBatch, {e \in events : e > seen})
    <2>1. page \subseteq events
      BY DEF Lowest
    <2>2. {Oracle[e] : e \in page} \subseteq Market
      BY <2>1, SyncAssumption DEF TypeInv
    <2>3. Highest(page, seen) \in events \cup {0}
      BY <2>1, HighestId DEF TypeInv
    <2>4. /\ scope' = scope \cup {Oracle[e] : e \in page} /\ seen' = Highest(page, seen)
          /\ heard' = heard \cup page /\ pc' \in Places
          /\ UNCHANGED <<source, db, work, since, batch, flags, known, overtaken, missed>>
      BY <1>2 DEF ReadEvents, Places
    <2> HIDE DEF page
    <2> QED
      BY <2>1, <2>2, <2>3, <2>4 DEF TypeInv, IsTables, source
  <1>3. CASE ReadFlags
    <2>1. /\ scope' \subseteq Market /\ EventsOf(scope') \subseteq events /\ pc' \in Places
          /\ flags' = EventsOf(scope') /\ heard' \subseteq events
      BY <1>3 DEF ReadFlags, TypeInv, EventsOf, Places
    <2> QED
      BY <1>3, <2>1 DEF ReadFlags, TypeInv, IsTables, source
  <1>4. CASE WriteRows \/ ReplaceRows \/ ReadMax \/ CloseEnded \/ ServeAll \/ Apply
    <2>1. IsTables(work)'
      BY <1>4, TablesKeepTypes
    <2>2. pc' \in Places /\ UNCHANGED <<source, db, round, hist>>
      BY <1>4 DEF WriteRows, ReplaceRows, ReadMax, CloseEnded, ServeAll, Apply, Places
    <2> QED
      BY <2>1, <2>2 DEF TypeInv, IsTables, source, round, hist
  <1>5. CASE CommitHead
    <2>1. work.next = db.next
      BY <1>5 DEF CommitHead, OpenInv
    <2>2. missed' \subseteq events /\ pc' \in Places
      BY <1>5 DEF CommitHead, Unheard, TypeInv, Places
    <2> QED
      BY <1>5, <2>1, <2>2 DEF CommitHead, TypeInv, IsTables, source
  <1>6. CASE FetchBatch
    <2>1. Lowest(BatchSize, Ahead) \subseteq trades
      BY DEF Lowest, Ahead
    <2>2. batch' \subseteq trades /\ known' \subseteq trades /\ pc' \in Places
      BY <1>6, <2>1 DEF FetchBatch, Places
    <2> QED
      BY <1>6, <2>2 DEF FetchBatch, TypeInv, IsTables, source
  <1>7. CASE CommitBatch
    <2>1. work.next \in batch /\ work.next > db.next
      BY <1>7 DEF CommitBatch, IInv, BatchInv
    <2>2. work.next \in Int /\ db.next \in Int /\ \A i \in trades : i \in Int
      BY SyncAssumption DEF TypeInv, IsTables
    <2>3. \A i \in overtaken : i \in trades /\ i <= work.next
      BY <2>1, <2>2 DEF TypeInv
    <2>4. overtaken' \subseteq {i \in trades : i <= work.next}
      BY <1>7, <2>3 DEF CommitBatch
    <2> QED
      BY <1>7, <2>4 DEF CommitBatch, TypeInv, IsTables, Places, source
  <1>8. CASE Fail
    BY <1>8 DEF Fail, TypeInv, IsTables, Places, source
  <1>9. CASE DayPasses
    BY <1>9, SyncAssumption DEF DayPasses, TypeInv, IsTables, round, hist
  <1>10. ASSUME NEW i \in TradeId, TradeArrives(i)
         PROVE  TypeInv'
    BY <1>10 DEF TradeArrives, TypeInv, IsTables, round
  <1>11. ASSUME NEW e \in EventId, EventArrives(e)
         PROVE  TypeInv'
    BY <1>11 DEF EventArrives, TypeInv, IsTables, round
  <1>12. ASSUME NEW m \in Market, MarketEnds(m)
         PROVE  TypeInv'
    BY <1>12 DEF MarketEnds, TypeInv, IsTables, round, hist
  <1>13. CASE UNCHANGED vars
    BY <1>13 DEF vars, source, round, hist, TypeInv, IsTables
  <1> QED
    BY <1>1, <1>2, <1>3, <1>4, <1>5, <1>6, <1>7, <1>8, <1>9, <1>10, <1>11, <1>12, <1>13
    DEF Next, Sync

\* So is what the open transaction has not written yet.
LEMMA OpenKept ==
    ASSUME IInv, [Next]_vars
    PROVE  OpenInv'
  <1>0. TypeInv /\ IsTables(db) /\ IsTables(work) /\ OpenInv
    BY DEF IInv, TypeInv
  <1> USE <1>0
  <1>1. CASE Start \/ ReadEvents \/ ReadFlags
    BY <1>1 DEF Start, ReadEvents, ReadFlags, OpenInv, HeadPlaces
  <1>2. CASE WriteRows \/ ReplaceRows \/ ReadMax \/ CloseEnded
    <2>1. SameTrades(work', work) /\ SameServing(work', work)
      BY <1>2, StatusSteps DEF WritesStatus
    <2>2. /\ pc \in HeadPlaces /\ pc' \in {"ended", "max", "serve"}
          /\ UNCHANGED <<db, scope, flags, heard, batch>>
      BY <1>2 DEF WriteRows, ReplaceRows, ReadMax, CloseEnded, HeadPlaces, round, hist
    <2> QED
      BY <2>1, <2>2 DEF OpenInv, HeadPlaces, SameTrades, SameServing
  <1>3. CASE ServeAll
    <2>1. SameTrades(work', work) /\ work'.day = since
      BY <1>3, ServeStep DEF ServeAll, OpenInv, HeadPlaces
    <2>2. pc = "serve" /\ pc' = "head" /\ UNCHANGED <<db, since, batch>>
      BY <1>3 DEF ServeAll, round
    <2> QED
      BY <2>1, <2>2 DEF OpenInv, HeadPlaces, SameTrades
  <1>4. CASE Apply
    <2>1. work'.day = work.day /\ work'.status = work.status /\ work'.event = work.event
      BY <1>4, ApplyStep
    <2>2. pc = "apply" /\ pc' = "commit" /\ UNCHANGED <<db, since, batch, scope, flags, heard>>
      BY <1>4 DEF Apply, round, hist
    <2> QED
      BY <2>1, <2>2 DEF OpenInv, HeadPlaces
  <1>5. CASE CommitHead \/ FetchBatch \/ CommitBatch
    BY <1>5 DEF CommitHead, FetchBatch, CommitBatch, OpenInv, HeadPlaces
  <1>6. CASE Fail
    BY <1>6 DEF Fail, OpenInv, HeadPlaces
  <1>7. CASE DayPasses \/ \E i \in TradeId : TradeArrives(i)
    BY <1>7 DEF DayPasses, TradeArrives, OpenInv, round, hist
  <1>8. CASE \/ \E e \in EventId : EventArrives(e)
             \/ \E m \in Market : MarketEnds(m)
    BY <1>8 DEF EventArrives, MarketEnds, OpenInv, round, hist
  <1>9. CASE UNCHANGED vars
    BY <1>9 DEF vars, source, round, hist, OpenInv
  <1> QED
    BY <1>1, <1>2, <1>3, <1>4, <1>5, <1>6, <1>7, <1>8, <1>9 DEF Next, Sync

-----------------------------------------------------------------------------
(* The counts and the prices.                                               *)

\* Ids of trades, the checkpoints and 0 can be compared.
LEMMA NextIsNumber ==
    ASSUME TypeInv
    PROVE  db.next \in Int /\ work.next \in Int /\ \A i \in trades : i \in Int
  BY SyncAssumption DEF TypeInv, IsTables

\* Only the commits change which trades are counted: a trade that comes is not
\* counted, because it is above the checkpoint or was overtaken.
LEMMA CountedStays ==
    ASSUME IInv, [Next]_vars, ~CommitBatch
    PROVE  Counted' = Counted
  <1>0. TypeInv /\ OpenInv
    BY DEF IInv
  <1>1. ASSUME NEW i \in TradeId, TradeArrives(i)
        PROVE  Counted' = Counted
    <2>1. overtaken \subseteq trades
      BY <1>0 DEF TypeInv
    <2>2. db' = db /\ i \notin trades /\ trades' = trades \cup {i}
          /\ overtaken' = IF i <= db.next THEN overtaken \cup {i} ELSE overtaken
      BY <1>1 DEF TradeArrives
    <2> QED
      BY <2>1, <2>2 DEF Counted
  <1>2. CASE CommitHead
    <2>1. work.next = db.next
      BY <1>0, <1>2 DEF CommitHead, OpenInv
    <2> QED
      BY <1>2, <2>1 DEF CommitHead, Counted, source
  <1>3. CASE \/ Start \/ ReadEvents \/ ReadFlags \/ WriteRows \/ ReplaceRows \/ ReadMax
             \/ CloseEnded \/ ServeAll \/ FetchBatch \/ Apply \/ Fail \/ DayPasses
             \/ (\E e \in EventId : EventArrives(e)) \/ (\E m \in Market : MarketEnds(m))
             \/ UNCHANGED vars
    <2>1. UNCHANGED <<trades, db, overtaken>>
      BY <1>3 DEF Start, ReadEvents, ReadFlags, WriteRows, ReplaceRows, ReadMax,
           CloseEnded, ServeAll, FetchBatch, Apply, Fail, DayPasses, EventArrives,
           MarketEnds, vars, source, hist
    <2> QED
      BY <2>1 DEF Counted
  <1> QED
    BY <1>1, <1>2, <1>3 DEF Next, Sync

\* The commit of a batch counts the batch: of the trades that the checkpoint
\* passes, those that were there when the batch was read are in it.
LEMMA BatchIsCounted ==
    ASSUME IInv, CommitBatch
    PROVE  Counted' = Counted \cup batch
  <1>1. /\ batch \subseteq known /\ Counted \subseteq known
        /\ \A i \in batch : i > db.next
        /\ \A i \in known, j \in batch : db.next < i /\ i <= j => i \in batch
        /\ work.next \in batch /\ \A i \in batch : i <= work.next
    BY DEF CommitBatch, IInv, BatchInv
  <1>2. /\ known \subseteq trades /\ overtaken \subseteq {i \in trades : i <= db.next}
        /\ batch \subseteq trades /\ db.next \in Int /\ work.next \in Int
        /\ \A i \in trades : i \in Int
    BY NextIsNumber DEF IInv, TypeInv
  <1>3. Counted' = {i \in trades : i <= work.next}
                       \ (overtaken \cup {i \in trades \ known : i <= work.next})
    BY DEF CommitBatch, Counted, source
  <1>4. ASSUME NEW i \in Counted'
        PROVE  i \in Counted \cup batch
    <2>1. i \in known /\ i <= work.next /\ i \notin overtaken /\ i \in trades
      BY <1>3, <1>4
    <2>2. CASE i <= db.next
      BY <2>1, <2>2 DEF Counted
    <2>3. CASE db.next < i
      BY <1>1, <2>1, <2>3
    <2> QED
      BY <1>2, <2>1, <2>2, <2>3
  <1>5. ASSUME NEW i \in Counted \cup batch
        PROVE  i \in Counted'
    <2>1. i \in known /\ i \in trades
      BY <1>1, <1>2, <1>5
    <2>2. i <= work.next
      <3>1. CASE i \in batch
        BY <1>1, <3>1
      <3>2. CASE i \in Counted
        BY <1>1, <1>2, <3>2 DEF Counted
      <3> QED
        BY <1>5, <3>1, <3>2
    <2>3. i \notin overtaken
      <3>1. CASE i \in batch
        BY <1>1, <1>2, <3>1
      <3>2. CASE i \in Counted
        BY <3>2 DEF Counted
      <3> QED
        BY <1>5, <3>1, <3>2
    <2> QED
      BY <1>3, <2>1, <2>2, <2>3
  <1> QED
    BY <1>4, <1>5

\* A batch is what lies next above the checkpoint, until it is committed.
LEMMA BatchKept ==
    ASSUME IInv, [Next]_vars
    PROVE  BatchInv'
  <1>0. TypeInv /\ OpenInv /\ BatchInv
    BY DEF IInv
  <1>1. CASE FetchBatch /\ pc' \in {"apply", "commit"}
    <2>1. /\ batch' = Lowest(BatchSize, Ahead) /\ batch' # {} /\ known' = trades
          /\ pc' = "apply" /\ UNCHANGED <<trades, db, overtaken>>
      BY <1>1 DEF FetchBatch, source
    <2>2. Ahead \subseteq TradeId /\ BatchSize \in Nat /\ batch' \subseteq Ahead
      BY <1>0, <2>1, SyncAssumption DEF TypeInv, Ahead, Lowest
    <2>3. IsFiniteSet(Ahead) /\ Ahead \in SUBSET Nat
      BY <2>2, IdsAreNumbers
    <2>4. \A i \in trades, j \in batch' : db.next < i /\ i <= j => i \in batch'
      <3> SUFFICES ASSUME NEW i \in trades, NEW j \in batch', db.next < i, i <= j
                   PROVE  i \in batch'
        OBVIOUS
      <3>1. i \in Ahead /\ j \in Lowest(BatchSize, Ahead)
        BY <1>0, <2>1, NextIsNumber DEF Ahead
      <3> QED
        BY <2>1, <2>2, <2>3, <3>1, LowestIsClosed
    <2>5. Counted' \subseteq trades
      BY <2>1 DEF Counted
    <2>6. \A i \in batch' : i > db.next
      BY <2>2 DEF Ahead
    <2> QED
      BY <2>1, <2>2, <2>4, <2>5, <2>6 DEF BatchInv, Ahead
  <1>2. CASE Apply
    <2>1. /\ pc = "apply" /\ pc' = "commit"
          /\ UNCHANGED <<db, trades, overtaken, batch, known>>
      BY <1>2 DEF Apply, round, hist, source
    <2>2. work'.next = Highest(batch, work.next)
      BY <1>0, <1>2, ApplyStep
    <2>3. batch # {} /\ batch \subseteq TradeId
      BY <1>0, <2>1 DEF BatchInv, TypeInv
    <2>4. work'.next \in batch /\ \A i \in batch : i <= work'.next
      BY <2>2, <2>3, HighestId
    <2>5. Counted' = Counted
      BY <2>1 DEF Counted
    <2> QED
      BY <1>0, <2>1, <2>4, <2>5 DEF BatchInv
  <1>3. CASE \/ \E i \in TradeId : TradeArrives(i)
             \/ \E e \in EventId : EventArrives(e)
             \/ \E m \in Market : MarketEnds(m)
             \/ DayPasses \/ UNCHANGED vars
    <2>1. UNCHANGED <<pc, db, work, batch, known>>
      BY <1>3 DEF TradeArrives, EventArrives, MarketEnds, DayPasses, vars, round, hist
    <2>2. ~CommitBatch
      <3>1. CASE pc = "commit"
        BY <2>1, <3>1 DEF CommitBatch
      <3>2. CASE pc # "commit"
        BY <3>2 DEF CommitBatch
      <3> QED
        BY <3>1, <3>2
    <2>3. Counted' = Counted
      BY <2>2, CountedStays
    <2> QED
      BY <1>0, <2>1, <2>3 DEF BatchInv
  <1>4. CASE \/ Start \/ ReadEvents \/ ReadFlags \/ WriteRows \/ ReplaceRows \/ ReadMax
             \/ CloseEnded \/ ServeAll \/ CommitHead \/ CommitBatch \/ Fail
    <2>1. pc' \notin {"apply", "commit"}
      BY <1>4 DEF Start, ReadEvents, ReadFlags, WriteRows, ReplaceRows, ReadMax,
           CloseEnded, ServeAll, CommitHead, CommitBatch, Fail
    <2> QED
      BY <2>1 DEF BatchInv
  <1>5. CASE FetchBatch /\ pc' \notin {"apply", "commit"}
    BY <1>5 DEF BatchInv
  <1> QED
    BY <1>1, <1>2, <1>3, <1>4, <1>5 DEF Next, Sync

\* Applying a batch adds each of its trades once to tables that do not have it.
LEMMA BatchIsAdded ==
    ASSUME IInv, Apply
    PROVE  Have(work', Counted \cup batch)
  <1>0. TypeInv /\ IsTables(work) /\ Have(work, Counted) /\ Counted \cap batch = {}
    <2>1. TypeInv /\ IsTables(work)
      BY DEF IInv, TypeInv
    <2>2. work = db /\ Have(db, Counted)
      BY DEF IInv, OpenInv, CountInv, Apply
    <2>3. \A i \in batch : i > db.next
      BY DEF IInv, BatchInv, Apply
    <2>4. Counted \cap batch = {}
      BY <2>1, <2>3, NextIsNumber DEF Counted
    <2> QED
      BY <2>1, <2>2, <2>4
  <1>1. Counted \subseteq TradeId /\ batch \subseteq TradeId
    BY <1>0 DEF Counted, TypeInv
  <1> SUFFICES ASSUME NEW m \in Market
               PROVE  /\ IsHighest(work'.latest[m], Positions(Counted \cup batch, m))
                      /\ \A d \in Day : work'.daily[d][m] =
                                          Cardinality(TradedOn(Counted \cup batch, m, d))
    BY DEF Have
  <1>2. IsHighest(work'.latest[m], Positions(Counted \cup batch, m))
    <2> DEFINE P == Positions(Counted, m)
               ids == Traded(batch, m)
               stored == work.latest[m]
    <2>1. P \in SUBSET (Nat \ {0})
      BY <1>1, PositionsAreNumbers DEF Positions, Traded
    <2>2. ids \in SUBSET TradeId /\ stored \in Nat /\ IsHighest(stored, P)
      BY <1>0, <1>1 DEF Traded, IsTables, Have
    <2>3. work'.latest[m] = Newest(ids, stored)
      BY <1>0, ApplyStep
    <2>4. Positions(Counted \cup batch, m) = P \cup {Trade[i].position : i \in ids}
      BY DEF Positions, Traded
    <2> HIDE DEF P, ids, stored
    <2> QED
      BY <2>1, <2>2, <2>3, <2>4, NewestIs
  <1>3. ASSUME NEW d \in Day
        PROVE  work'.daily[d][m] = Cardinality(TradedOn(Counted \cup batch, m, d))
    <2> DEFINE A == TradedOn(Counted, m, d)
               B == TradedOn(batch, m, d)
    <2>1. A \subseteq TradeId /\ B \subseteq TradeId /\ A \cap B = {}
      BY <1>0, <1>1 DEF TradedOn
    <2>2. IsFiniteSet(A) /\ IsFiniteSet(B)
      BY <2>1, IdsAreNumbers
    <2>3. TradedOn(Counted \cup batch, m, d) = A \cup B
      BY DEF TradedOn
    <2>4. work.daily[d][m] = Cardinality(A) /\ BatchCount(d, m) = Cardinality(B)
      BY <1>0, BatchCountIs DEF Have
    <2>5. work'.daily[d][m] = work.daily[d][m] + BatchCount(d, m)
      BY <1>0, <1>3, ApplyStep
    <2> HIDE DEF A, B
    <2>6. Cardinality(A \cup B) = Cardinality(A) + Cardinality(B) - Cardinality({})
      BY <2>1, <2>2, FS_Union
    <2>7. Cardinality({}) = 0 /\ Cardinality(A) \in Nat /\ Cardinality(B) \in Nat
      BY <2>2, FS_EmptySet, FS_CardinalityType
    <2>8. Cardinality(A \cup B) = Cardinality(A) + Cardinality(B)
      BY <2>6, <2>7
    <2>9. work'.daily[d][m] = Cardinality(A \cup B)
      BY <2>4, <2>5, <2>8
    <2> QED
      BY <2>3, <2>9, Zenon
  <1> QED
    BY <1>2, <1>3

\* The tables have what is counted, and before the commit also the batch.
LEMMA CountKept ==
    ASSUME IInv, [Next]_vars
    PROVE  CountInv'
  <1>0. TypeInv /\ OpenInv /\ CountInv
    BY DEF IInv
  <1>1. CASE CommitBatch
    <2>1. Counted' = Counted \cup batch /\ db' = work /\ pc = "commit" /\ pc' = "fetch"
      BY <1>1, BatchIsCounted DEF CommitBatch
    <2> QED
      BY <1>0, <2>1 DEF CountInv, Have
  <1>2. CASE Apply
    <2>1. Have(work', Counted \cup batch) /\ batch' = batch /\ db' = db
      BY <1>2, BatchIsAdded DEF Apply, round
    <2>2. Counted' = Counted
      BY <1>2 DEF Apply, Counted, source, hist
    <2> QED
      BY <1>0, <2>1, <2>2 DEF CountInv, Have
  <1>3. CASE CommitHead
    <2>1. SameTrades(work, db) /\ db' = work /\ pc' = "fetch" /\ pc = "head"
      BY <1>0, <1>3 DEF CommitHead, OpenInv, SameTrades
    <2>2. Counted' = Counted
      BY <1>3, CountedStays DEF CommitHead, CommitBatch
    <2> QED
      BY <1>0, <2>1, <2>2 DEF CountInv, Have, SameTrades
  <1>4. CASE \/ Start \/ ReadEvents \/ ReadFlags \/ WriteRows \/ ReplaceRows \/ ReadMax
             \/ CloseEnded \/ ServeAll \/ FetchBatch \/ Fail
    <2>1. pc' # "commit" /\ db' = db /\ UNCHANGED <<trades, overtaken>>
      BY <1>4 DEF Start, ReadEvents, ReadFlags, WriteRows, ReplaceRows, ReadMax,
           CloseEnded, ServeAll, FetchBatch, Fail, source, hist
    <2> QED
      BY <1>0, <2>1 DEF CountInv, Have, Counted
  <1>5. CASE \/ \E i \in TradeId : TradeArrives(i)
             \/ \E e \in EventId : EventArrives(e)
             \/ \E m \in Market : MarketEnds(m)
             \/ DayPasses \/ UNCHANGED vars
    <2>1. UNCHANGED <<pc, db, work, batch>>
      BY <1>5 DEF TradeArrives, EventArrives, MarketEnds, DayPasses, vars, round
    <2>2. ~CommitBatch
      BY <2>1, Zenon DEF CommitBatch
    <2>3. Counted' = Counted
      BY <2>2, CountedStays
    <2> QED
      BY <1>0, <2>1, <2>3 DEF CountInv, Have
  <1> QED
    BY <1>1, <1>2, <1>3, <1>4, <1>5 DEF Next, Sync

-----------------------------------------------------------------------------
(* The serving rows.                                                        *)

\* A market without a trade in the batch keeps its counts and its price.
LEMMA OthersUntouched ==
    ASSUME IInv, Apply, NEW m \in Market \ Impacted
    PROVE  work'.latest[m] = work.latest[m] /\ \A d \in Day : work'.daily[d][m] = work.daily[d][m]
  <1>0. TypeInv /\ IsTables(work)
    BY DEF IInv, TypeInv
  <1>1. Traded(batch, m) = {} /\ \A d : TradedOn(batch, m, d) = {}
    BY DEF Impacted, Traded, TradedOn
  <1>2. work'.latest[m] = Newest({}, work.latest[m])
    BY <1>0, <1>1, ApplyStep
  <1>3. Newest({}, work.latest[m]) = work.latest[m]
    <2>1. work.latest[m] \in Nat
      BY <1>0 DEF IsTables
    <2>2. {Trade[i].position : i \in {}} = {}
      OBVIOUS
    <2>3. Highest({Trade[i].position : i \in {}}, 0) = 0
      BY <2>2 DEF Highest
    <2> QED
      BY <2>1, <2>3 DEF Newest
  <1>4. ASSUME NEW d \in Day
        PROVE  work'.daily[d][m] = work.daily[d][m]
    <2>1. BatchCount(d, m) = Cardinality({})
      BY <1>0, <1>1, BatchCountIs
    <2>2. BatchCount(d, m) = 0 /\ work.daily[d][m] \in Nat
      BY <1>0, <2>1, FS_EmptySet DEF IsTables
    <2>3. work'.daily[d][m] = work.daily[d][m] + BatchCount(d, m)
      BY <1>0, ApplyStep
    <2> QED
      BY <2>2, <2>3
  <1> QED
    BY <1>2, <1>3, <1>4

\* Rows that agree with their tables also agree with tables that have the same
\* trades.
LEMMA ServingSame ==
    ASSUME NEW t, NEW u, ServingOf(u), SameTrades(t, u), SameServing(t, u)
    PROVE  ServingOf(t)
  BY DEF ServingOf, SameTrades, SameServing, Served

\* The rows of the open transaction and the committed ones agree with their
\* tables after every step.
LEMMA ServingKept ==
    ASSUME IInv, [Next]_vars
    PROVE  ServingInv'
  <1>0. TypeInv /\ OpenInv /\ ServingOf(db) /\ ServingOf(work)
    BY DEF IInv, ServingInv
  <1>1. CASE WriteRows \/ ReplaceRows \/ ReadMax \/ CloseEnded
    <2>1. SameTrades(work', work) /\ SameServing(work', work)
      BY <1>0, <1>1, StatusSteps DEF WritesStatus
    <2>2. ServingOf(work') /\ db' = db
      BY <1>0, <1>1, <2>1, ServingSame DEF WriteRows, ReplaceRows, ReadMax, CloseEnded
    <2> QED
      BY <1>0, <2>2 DEF ServingInv, ServingOf, Served
  <1>2. CASE ServeAll
    <2>1. db' = db /\ ServingOf(work')
      BY <1>0, <1>2, ServeStep DEF ServeAll, ServingOf
    <2> QED
      BY <1>0, <2>1 DEF ServingInv, ServingOf, Served
  <1>3. CASE Apply
    <2>1. db' = db /\ work.day = since /\ work'.day = work.day
      BY <1>0, <1>3, ApplyStep DEF Apply, OpenInv
    <2>2. ASSUME NEW m \in Market, work'.day # NoDay
          PROVE  work'.serving[m] = Served(work', m, work'.day)
      <3>1. CASE m \in Impacted
        BY <1>0, <1>3, <2>1, <3>1, ApplyStep
      <3>2. CASE m \notin Impacted
        <4>1. work'.serving[m] = work.serving[m]
          BY <1>0, <1>3, <3>2, ApplyStep
        <4>2. Served(work', m, work.day) = Served(work, m, work.day)
          BY <1>3, <3>2, OthersUntouched, ServedSame
        <4>3. work.serving[m] = Served(work, m, work.day)
          BY <1>0, <2>1, <2>2 DEF ServingOf
        <4> QED
          BY <2>1, <4>1, <4>2, <4>3
      <3> QED
        BY <3>1, <3>2
    <2>3. ServingOf(work')
      BY <2>2 DEF ServingOf
    <2> QED
      BY <1>0, <2>1, <2>3 DEF ServingInv, ServingOf, Served
  <1>4. CASE CommitHead \/ CommitBatch
    <2>1. db' = work /\ work' = work
      BY <1>4 DEF CommitHead, CommitBatch
    <2> QED
      BY <1>0, <2>1 DEF ServingInv, ServingOf, Served
  <1>5. CASE Fail
    <2>1. db' = db /\ work' = db
      BY <1>5 DEF Fail
    <2> QED
      BY <1>0, <2>1 DEF ServingInv, ServingOf, Served
  <1>6. CASE \/ Start \/ ReadEvents \/ ReadFlags \/ FetchBatch \/ DayPasses
             \/ \E i \in TradeId : TradeArrives(i)
             \/ \E e \in EventId : EventArrives(e)
             \/ \E m \in Market : MarketEnds(m)
             \/ UNCHANGED vars
    <2>1. db' = db /\ work' = work
      BY <1>6 DEF Start, ReadEvents, ReadFlags, FetchBatch, DayPasses, TradeArrives,
           EventArrives, MarketEnds, vars
    <2> QED
      BY <1>0, <2>1 DEF ServingInv, ServingOf, Served
  <1> QED
    BY <1>1, <1>2, <1>3, <1>4, <1>5, <1>6 DEF Next, Sync

-----------------------------------------------------------------------------
(* The market status.                                                       *)

\* Ids of events, the checkpoints and 0 can be compared.
LEMMA EventIsNumber ==
    ASSUME TypeInv
    PROVE  /\ db.event \in Nat /\ work.event \in Nat /\ seen \in Nat
           /\ \A e \in events : e \in Nat /\ e # 0 /\ Oracle[e] \in Market
  BY SyncAssumption DEF TypeInv, IsTables

\* A page holds events after the last one seen, and that one moves to the
\* highest of them; their markets come into the scope.
LEMMA PageIsRead ==
    ASSUME IInv, ReadEvents
    PROVE  /\ seen' = db.event \/ (seen' \in heard' /\ db.event < seen')
           /\ \A e \in heard' : e <= seen' /\ Oracle[e] \in scope'
           /\ scope' = {} => heard' = {}
  <1> DEFINE page == Lowest(EventBatch, {e \in events : e > seen})
  <1>0. TypeInv /\ EventsInv /\ pc = "events"
    BY DEF IInv, ReadEvents
  <1>1. /\ seen = db.event \/ (seen \in heard /\ db.event < seen)
        /\ \A e \in heard : e <= seen /\ Oracle[e] \in scope
    BY <1>0 DEF EventsInv, HeadPlaces
  <1>2. page \subseteq events /\ \A e \in page : e > seen
    BY DEF Lowest
  <1>3. /\ seen' = Highest(page, seen) /\ heard' = heard \cup page
        /\ scope' = scope \cup {Oracle[e] : e \in page}
    BY DEF ReadEvents
  <1>4. IF page = {} THEN seen' = seen ELSE seen' \in page /\ \A e \in page : e <= seen'
    <2> HIDE DEF page
    <2>1. page \subseteq EventId
      BY <1>0, <1>2 DEF TypeInv
    <2> QED
      BY <1>3, <2>1, HighestId
  <1> HIDE DEF page
  <1>5. seen \in Nat /\ db.event \in Nat /\ (\A e \in page : e \in Nat)
        /\ heard \subseteq events /\ \A e \in heard : e \in Nat
    BY <1>0, <1>2, EventIsNumber DEF TypeInv
  <1>6. \A e \in heard' : Oracle[e] \in scope'
    BY <1>1, <1>3
  <1>7. seen' = db.event \/ (seen' \in heard' /\ db.event < seen')
    <2>1. CASE page = {}
      BY <1>1, <1>3, <1>4, <2>1
    <2>2. CASE page # {}
      <3>1. seen' \in page /\ seen' > seen
        BY <1>2, <1>4, <2>2
      <3> QED
        BY <1>1, <1>3, <1>5, <3>1
    <2> QED
      BY <2>1, <2>2
  <1>8. \A e \in heard' : e <= seen'
    <2>1. CASE page = {}
      BY <1>1, <1>3, <1>4, <2>1
    <2>2. CASE page # {}
      <3>1. seen' \in page /\ seen' > seen /\ \A e \in page : e <= seen'
        BY <1>2, <1>4, <2>2
      <3>2. \A e \in heard : e <= seen'
        BY <1>1, <1>5, <3>1
      <3> QED
        BY <1>3, <3>1, <3>2
    <2> QED
      BY <2>1, <2>2
  <1> QED
    BY <1>6, <1>7, <1>8

\* How far the cycle has read the events is known at every step.
LEMMA EventsKept ==
    ASSUME IInv, [Next]_vars
    PROVE  EventsInv'
  <1>0. TypeInv /\ OpenInv /\ EventsInv
    BY DEF IInv
  <1>1. CASE Start
    <2>1. heard = {} /\ pc' \in {"full", "events"} /\ (pc' = "full" <=> db.event = 0)
          /\ seen' = db.event /\ UNCHANGED <<db, heard>>
      BY <1>0, <1>1 DEF Start, OpenInv, HeadPlaces, hist
    <2> QED
      BY <2>1 DEF EventsInv
  <1>2. CASE ReadEvents
    <2>1. db.event # 0 /\ db' = db /\ pc' \in {"events", "ended", "flags"}
      BY <1>0, <1>2 DEF ReadEvents, EventsInv
    <2> QED
      BY <1>2, <2>1, PageIsRead DEF EventsInv
  <1>3. CASE ReadFlags
    <2>1. /\ flags' = EventsOf(scope') /\ \A e \in heard' : e \in events /\ Oracle[e] \in scope'
          /\ UNCHANGED <<events, missed, db, seen>>
      BY <1>0, <1>3, EventIsNumber DEF ReadFlags, EventsInv, EventsOf, source, TypeInv
    <2>2. heard' \subseteq flags'
          /\ \A e \in events \ missed : e <= db.event /\ Oracle[e] \in scope' => e \in flags'
      BY <2>1 DEF EventsOf
    <2>3. CASE pc = "full"
      BY <1>0, <1>3, <2>1, <2>2, <2>3 DEF ReadFlags, EventsInv, HeadPlaces
    <2>4. CASE pc = "flags"
      BY <1>0, <1>3, <2>1, <2>2, <2>4 DEF ReadFlags, EventsInv, HeadPlaces
    <2> QED
      BY <1>3, <2>3, <2>4 DEF ReadFlags
  <1>4. CASE WriteRows \/ ReplaceRows \/ ReadMax
    BY <1>0, <1>4 DEF WriteRows, ReplaceRows, ReadMax, EventsInv, HeadPlaces, source, round, hist
  <1>5. CASE CloseEnded
    <2>1. work'.event = seen
      BY <1>0, <1>5, StatusSteps DEF WritesStatus
    <2> QED
      BY <1>0, <1>5, <2>1 DEF CloseEnded, EventsInv, HeadPlaces, source, round, hist
  <1>6. CASE ServeAll
    <2>1. work'.event = work.event
      BY <1>0, <1>6, ServeStep
    <2> QED
      BY <1>0, <1>6, <2>1 DEF ServeAll, EventsInv, HeadPlaces, source, round, hist
  <1>7. CASE CommitHead \/ FetchBatch \/ Apply \/ CommitBatch \/ Fail
    <2>1. pc' \in {"fetch", "idle", "apply", "commit"}
      BY <1>7 DEF CommitHead, FetchBatch, Apply, CommitBatch, Fail
    <2> QED
      BY <2>1 DEF EventsInv, HeadPlaces
  <1>8. ASSUME NEW e \in EventId, EventArrives(e)
        PROVE  EventsInv'
    BY <1>0, <1>8 DEF EventArrives, EventsInv, round
  <1>9. CASE \/ \E i \in TradeId : TradeArrives(i)
             \/ \E m \in Market : MarketEnds(m)
             \/ DayPasses \/ UNCHANGED vars
    <2>1. UNCHANGED <<pc, db, work, events, missed, heard, seen, scope, flags>>
      BY <1>9 DEF TradeArrives, MarketEnds, DayPasses, vars, source, round, hist
    <2> QED
      BY <1>0, <2>1 DEF EventsInv
  <1> QED
    BY <1>1, <1>2, <1>3, <1>4, <1>5, <1>6, <1>7, <1>8, <1>9 DEF Next, Sync

\* The commit of the head passes no event that the status does not reflect, but
\* those that are noted as missed.
LEMMA HeadIsCovered ==
    ASSUME IInv, CommitHead, NEW e \in events \ missed', e <= work.event
    PROVE  In(work, e)
  <1>0. TypeInv /\ EventsInv /\ StatusInv /\ pc = "head"
    BY DEF IInv, CommitHead
  <1>1. db.event \in Nat /\ work.event \in Nat /\ seen \in Nat /\ e \in Nat
    BY <1>0, EventIsNumber
  <1>2. CASE e \in heard
    BY <1>0, <1>2 DEF StatusInv
  <1>3. CASE e \notin heard
    <2>1. e \notin missed /\ e \notin Unheard
      BY DEF CommitHead
    <2>2. CASE e <= db.event
      BY <1>0, <2>1, <2>2 DEF StatusInv
    <2>3. CASE db.event < e
      <3>1. db.event # 0 /\ \A h \in heard : ~(e < h)
        BY <1>3, <2>1, <2>3 DEF Unheard
      <3>2. work.event = seen
            /\ (seen = db.event \/ (seen \in heard /\ db.event < seen))
        BY <1>0, <3>1 DEF EventsInv
      <3> QED
        BY <1>1, <1>3, <2>3, <3>1, <3>2
    <2> QED
      BY <1>1, <2>2, <2>3
  <1> QED
    BY <1>2, <1>3

\* The status of every event up to the checkpoint survives every step.
LEMMA StatusKept ==
    ASSUME IInv, [Next]_vars
    PROVE  StatusInv'
  <1>0. TypeInv /\ OpenInv /\ EventsInv /\ StatusInv
    BY DEF IInv
  <1>n. /\ \A e \in events : e \in Nat /\ e # 0 /\ Oracle[e] \in Market
        /\ heard \subseteq events /\ flags \subseteq events /\ scope \subseteq Market
    BY <1>0, EventIsNumber DEF TypeInv
  <1>1. CASE WriteRows
    <2>1. /\ pc = "rows" /\ pc' = "ended" /\ UNCHANGED <<events, missed, db, heard>>
          /\ work = db /\ work'.status = Rebuilt(scope, flags)
      BY <1>0, <1>1, StatusSteps DEF WriteRows, WritesStatus, OpenInv, source, hist
    <2>2. /\ \A m \in Market \ scope : work'.status[m] = db.status[m]
          /\ \A e \in flags : Oracle[e] \in scope => In(work', e)
      BY <1>0, <1>n, <2>1, RebuiltIs DEF In
    <2>3. \A e \in heard : In(work', e)
      BY <1>0, <2>1, <2>2 DEF EventsInv
    <2>4. ASSUME NEW e \in events \ missed, e <= db.event
          PROVE  In(work', e)
      <3>1. CASE Oracle[e] \in scope
        BY <1>0, <2>1, <2>2, <2>4, <3>1 DEF EventsInv
      <3>2. CASE Oracle[e] \notin scope
        BY <1>0, <1>n, <2>1, <2>2, <2>4, <3>2 DEF StatusInv, In
      <3> QED
        BY <3>1, <3>2
    <2> QED
      BY <1>0, <2>1, <2>3, <2>4 DEF StatusInv, In
  <1>2. CASE ReplaceRows
    <2>1. /\ pc = "replace" /\ pc' = "max" /\ UNCHANGED <<events, missed, db, heard>>
          /\ work'.status = Rebuilt(Market, flags)
      BY <1>0, <1>2, StatusSteps DEF ReplaceRows, WritesStatus, source, hist
    <2>2. \A e \in flags : In(work', e)
      <3>1. Market \in SUBSET Market /\ flags \in SUBSET events
        BY <1>n
      <3>2. \A e \in events : Oracle[e] \in Market =>
                /\ e \in work'.status[Oracle[e]].settlement
                /\ e \in flags => e \in work'.status[Oracle[e]].flags
        BY <1>0, <2>1, <3>1, RebuiltIs
      <3> QED
        BY <1>n, <3>2 DEF In
    <2>3. \A e \in heard : In(work', e)
      BY <1>0, <2>1, <2>2 DEF EventsInv
    <2> QED
      BY <1>0, <2>1, <2>3 DEF StatusInv, In
  <1>3. CASE ReadMax
    <2>1. /\ pc = "max" /\ pc' = "serve" /\ UNCHANGED <<events, missed, db, heard>>
          /\ work'.status = work.status /\ db.event = 0
      BY <1>0, <1>3, StatusSteps DEF ReadMax, WritesStatus, EventsInv, source, hist
    <2>2. \A e \in events : ~(e <= db.event)
      BY <1>n, <2>1
    <2> QED
      BY <1>0, <2>1, <2>2 DEF StatusInv, In
  <1>4. CASE CloseEnded
    <2>1. /\ pc = "ended" /\ pc' = "serve" /\ UNCHANGED <<events, missed, db, heard>>
      BY <1>4 DEF CloseEnded, source, hist
    <2>2. PICK due \in SUBSET Market : work'.status = Rebuilt(due, events)
      BY <1>0, <1>4, StatusSteps DEF WritesStatus
    <2>3. /\ \A m \in Market \ due : work'.status[m] = work.status[m]
          /\ \A e \in events : Oracle[e] \in due => In(work', e)
      BY <1>0, <1>n, <2>2, RebuiltIs DEF In
    <2>4. \A e \in events : In(work, e) => In(work', e)
      BY <1>n, <2>3 DEF In
    <2> QED
      BY <1>0, <1>n, <2>1, <2>4 DEF StatusInv, In
  <1>5. CASE ServeAll
    <2>1. /\ pc = "serve" /\ pc' = "head" /\ UNCHANGED <<events, missed, db, heard>>
          /\ work'.status = work.status
      BY <1>0, <1>5, ServeStep DEF ServeAll, source, hist
    <2> QED
      BY <1>0, <2>1 DEF StatusInv, In
  <1>6. CASE CommitHead
    <2>1. db' = work /\ pc' = "fetch" /\ events' = events
      BY <1>6 DEF CommitHead, source
    <2>2. \A e \in events \ missed' : e <= work.event => In(work, e)
      BY <1>6, HeadIsCovered
    <2> QED
      BY <2>1, <2>2 DEF StatusInv, In
  <1>7. CASE CommitBatch
    <2>1. db' = work /\ pc' = "fetch" /\ UNCHANGED <<events, missed>>
          /\ work.event = db.event /\ work.status = db.status
      BY <1>0, <1>7 DEF CommitBatch, OpenInv, source
    <2> QED
      BY <1>0, <2>1 DEF StatusInv, In
  <1>8. CASE ReadEvents
    <2>1. /\ pc = "events" /\ pc' \in {"events", "ended", "flags"}
          /\ UNCHANGED <<events, missed, db, work>> /\ work = db
      BY <1>0, <1>8 DEF ReadEvents, OpenInv, source
    <2>2. pc' = "ended" => heard' = {}
      BY <1>8, PageIsRead DEF ReadEvents
    <2> QED
      BY <1>0, <2>1, <2>2 DEF StatusInv, In
  <1>9. CASE Start \/ ReadFlags \/ FetchBatch \/ Apply \/ Fail
    <2>1. /\ pc' \notin {"max", "ended", "serve", "head"}
          /\ UNCHANGED <<events, missed, db>>
      BY <1>9 DEF Start, ReadFlags, FetchBatch, Apply, Fail, source, hist
    <2> QED
      BY <1>0, <2>1 DEF StatusInv, In
  <1>10. ASSUME NEW e \in EventId, EventArrives(e)
         PROVE  StatusInv'
    BY <1>0, <1>10 DEF EventArrives, StatusInv, In
  <1>11. CASE \/ \E i \in TradeId : TradeArrives(i)
              \/ \E m \in Market : MarketEnds(m)
              \/ DayPasses \/ UNCHANGED vars
    <2>1. UNCHANGED <<pc, db, work, events, missed, heard>>
      BY <1>11 DEF TradeArrives, MarketEnds, DayPasses, vars, source, hist
    <2> QED
      BY <1>0, <2>1 DEF StatusInv, In
  <1> QED
    BY <1>1, <1>2, <1>3, <1>4, <1>5, <1>6, <1>7, <1>8, <1>9, <1>10, <1>11 DEF Next, Sync

-----------------------------------------------------------------------------
(* The theorems.                                                            *)

\* Empty tables have no trades, and nothing is open.
LEMMA InitInv ==
    ASSUME Init
    PROVE  IInv
  <1> USE DEF Init
  <1>1. Counted = {} /\ \A m, d : TradedOn({}, m, d) = {} /\ Positions({}, m) = {}
    BY DEF Counted, TradedOn, Positions, Traded
  <1>2. db.day = NoDay /\ work = db
    OBVIOUS
  <1>3. TypeInv
    <2>1. NoDay \in NoDay..LastDay /\ yesterday \in 0..(LastDay - 1) /\ since \in Day
      BY SyncAssumption DEF NoDay, Day
    <2>2. IsRecord(db) /\ db.next = 0 /\ db.event = 0
      BY DEF IsRecord
    <2>3. db.status \in [Market -> StatusRows]
      <3>1. NoStatus \in StatusRows
        BY DEF NoStatus, StatusRows
      <3> QED
        BY <3>1
    <2>4. db.daily \in [Day -> [Market -> Nat]] /\ db.latest \in [Market -> Nat]
      OBVIOUS
    <2>5. IsTables(db)
      BY <1>2, <2>1, <2>2, <2>3, <2>4 DEF IsTables
    <2> QED
      BY <1>2, <2>1, <2>5 DEF TypeInv, Places
  <1>4. OpenInv /\ BatchInv
    BY DEF OpenInv, BatchInv, HeadPlaces
  <1>5. CountInv
    BY <1>1, FS_EmptySet DEF CountInv, Have, IsHighest
  <1>6. ServingInv
    BY <1>2 DEF ServingInv, ServingOf
  <1>7. EventsInv /\ StatusInv
    BY DEF EventsInv, StatusInv, HeadPlaces
  <1> QED
    BY <1>3, <1>4, <1>5, <1>6, <1>7 DEF IInv

\* The inductive invariant holds in every state.
LEMMA Invariance == Spec => []IInv
  <1>1. Init => IInv
    BY InitInv
  <1>2. IInv /\ [Next]_vars => IInv'
    BY TypesKept, OpenKept, BatchKept, CountKept, ServingKept, EventsKept, StatusKept
    DEF IInv
  <1> QED
    BY <1>1, <1>2, PTL DEF Spec

\* Whatever fails and in whatever order trades become visible, the committed
\* daily counts have each trade up to the checkpoint exactly once, but those
\* that arrived below it.
THEOREM CountsNeverDrift == Spec => []CountsAreExact
  <1>1. IInv => CountsAreExact
    <2> SUFFICES ASSUME IInv PROVE CountsAreExact
      OBVIOUS
    <2>1. TypeOK
      BY DEF IInv, TypeInv, OpenInv, IsTables, TypeOK, HeadPlaces
    <2>2. Have(db, Counted)
      BY DEF IInv, CountInv
    <2> QED
      BY <2>1, <2>2 DEF CountsAreExact, Have, TradedOn
  <1> QED
    BY <1>1, Invariance, PTL

\* The latest price of a market is that of the counted trade furthest on the
\* chain, whatever batches the trades came in.
THEOREM LatestPricesAreNewest == Spec => []LatestIsNewest
  <1>1. IInv => LatestIsNewest
    <2> SUFFICES ASSUME IInv, NEW m \in Market
                 PROVE  db.latest[m] = Highest(Positions(Counted, m), 0)
      BY DEF LatestIsNewest, Positions, Traded
    <2> DEFINE P == Positions(Counted, m)
    <2>1. IsHighest(db.latest[m], P)
      BY DEF IInv, CountInv, Have
    <2>2. Traded(Counted, m) \in SUBSET TradeId
      BY DEF IInv, TypeInv, Counted, Traded
    <2>3. IsFiniteSet(P) /\ P \in SUBSET Nat
      BY <2>2, PositionsAreNumbers DEF Positions
    <2> HIDE DEF P
    <2>4. IF P = {} THEN Highest(P, 0) = 0
          ELSE Highest(P, 0) \in P /\ \A j \in P : j <= Highest(P, 0)
      BY <2>3, HighestIs
    <2>5. db.latest[m] = Highest(P, 0)
      <3>1. CASE P = {}
        BY <2>1, <2>4, <3>1 DEF IsHighest
      <3>2. CASE P # {}
        <4>1. /\ db.latest[m] \in P /\ Highest(P, 0) \in P
              /\ db.latest[m] <= Highest(P, 0) /\ Highest(P, 0) <= db.latest[m]
          BY <2>1, <2>4, <3>2 DEF IsHighest
        <4>2. db.latest[m] \in Nat /\ Highest(P, 0) \in Nat
          BY <4>1, <2>3
        <4> QED
          BY <4>1, <4>2
      <3> QED
        BY <3>1, <3>2
    <2> QED
      BY <2>5 DEF P
  <1> QED
    BY <1>1, Invariance, PTL

\* The serving rows, of the markets in a batch and of all others, agree with
\* the counts and prices they are made from, also across a new day.
THEOREM ServingRowsAgree == Spec => []ServingMatches
  <1>1. IInv => ServingMatches
    BY DEF IInv, ServingInv, ServingOf, ServingMatches
  <1> QED
    BY <1>1, Invariance, PTL

\* Every event up to the checkpoint is in all queries that the row of its
\* market was built from, but the events that are noted as missed.
THEOREM StatusReflectsEvents == Spec => []StatusCoversEvents
  <1>1. IInv => StatusCoversEvents
    BY DEF IInv, StatusInv, StatusCoversEvents, Reflected, In
  <1> QED
    BY <1>1, Invariance, PTL
=============================================================================
