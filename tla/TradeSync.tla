------------------------------- MODULE TradeSync -------------------------------
(***************************************************************************)
(* Trade analytics and market status (scripts/db/sync_trade_analytics.py). *)
(*                                                                         *)
(* One process runs cycles.  A cycle first brings the market status        *)
(* snapshot up to the oracle events, and the serving table to a new day,   *)
(* in one transaction; then it reads the trades after its checkpoint batch *)
(* by batch, and adds each to the daily counts and the latest prices,      *)
(* refreshes the serving rows of their markets and moves the checkpoint,   *)
(* in a transaction per batch.  Collectors insert trades and events at any *)
(* time, not always in the order of their ids, or give an old row its      *)
(* market only later; the process may fail or die.                         *)
(*                                                                         *)
(* Abstractions: the rows that will ever arrive are constants; a day is a  *)
(* number; the position of a trade stands for block and log index, and a   *)
(* latest price for that position; an oracle event proposes, disputes or   *)
(* settles; volumes, prices 24 hours ago and the tables by address, which  *)
(* are updated like the daily counts, are left out.  Reads see what is     *)
(* committed and the transaction's own writes.  ON CONFLICT compares with  *)
(* the old row, and an unqualified column is that of the old row, as in    *)
(* SQLite; MySQL and PostgreSQL treat these statements otherwise.          *)
(***************************************************************************)
EXTENDS Integers, FiniteSets, Functions

CONSTANTS
    Market,
    Trade,       \* Trade[id] = [market, day, position]
    Oracle,      \* Oracle[id]: the market of an oracle event
    BatchSize,
    EventBatch,  \* oracle_batch_size
    Ending,      \* markets whose end date may pass
    LastDay,     \* bound: days; trades are of day 0 or later
    MaxFaults    \* bound: failures and deaths

Day     == 0..LastDay
TradeId == DOMAIN Trade
EventId == DOMAIN Oracle

ASSUME SyncAssumption ==
    /\ BatchSize \in Nat \ {0} /\ EventBatch \in Nat \ {0}
    /\ Ending \subseteq Market /\ LastDay \in Nat \ {0} /\ MaxFaults \in Nat
    /\ IsFiniteSet(TradeId) /\ IsFiniteSet(EventId) /\ TradeId \cup EventId \subseteq Nat \ {0}
    /\ \A i \in TradeId : /\ Trade[i].market \in Market /\ Trade[i].day \in Day
                          /\ Trade[i].position \in Nat \ {0}
    /\ \A e \in EventId : Oracle[e] \in Market

NoDay   == -1

VARIABLES
    trades,     \* ids of trades that have arrived
    events,     \* ids of oracle events that have arrived
    ended,      \* markets past their end date
    yesterday,  \* by the clock
    db,         \* committed: checkpoints and tables
    work,       \* what the open transaction sees of them
    pc,
    since,      \* stats_since of the cycle
    batch,      \* trades of the batch
    scope,      \* markets whose status is rebuilt
    seen,       \* latest_seen_event_id
    flags,      \* events the flags of scope were read from
    faults,
    known,      \* history: trades there when the batch was read
    heard,      \* history: events there when the cycle read them
    overtaken,  \* history: trades that arrived below the checkpoint
    missed      \* history: events that arrived below theirs

source == <<trades, events, ended, yesterday>>
round  == <<since, batch, scope, seen, flags>>
hist   == <<known, heard, overtaken, missed>>
vars   == <<source, db, work, pc, round, faults, hist>>

NoStatus == [flags |-> {}, settlement |-> {}, closed |-> FALSE]

Init ==
    /\ trades = {} /\ events = {} /\ ended = {} /\ yesterday = 0
    /\ db = [next |-> 0, event |-> 0, day |-> NoDay,
             daily   |-> [d \in Day |-> [m \in Market |-> 0]],
             latest  |-> [m \in Market |-> 0],
             serving |-> [m \in Market |-> [latest |-> 0, count |-> 0]],
             status  |-> [m \in Market |-> NoStatus]]
    /\ work = db
    /\ pc = "idle"
    /\ since = 0 /\ batch = {} /\ scope = {} /\ seen = 0 /\ flags = {}
    /\ faults = 0
    /\ known = {} /\ heard = {} /\ overtaken = {} /\ missed = {}

Highest(ids, default) ==
    IF ids = {} THEN default ELSE CHOOSE i \in ids : \A j \in ids : j <= i

\* The n lowest of ids.
Lowest(n, ids) == {i \in ids : Cardinality({j \in ids : j < i}) < n}

EventsOf(markets) == {e \in events : Oracle[e] \in markets}

-----------------------------------------------------------------------------
(* Collectors and time.                                                    *)

\* A trade becomes visible with its market.
TradeArrives(i) ==
    /\ i \notin trades /\ Trade[i].day <= yesterday + 1
    /\ trades' = trades \cup {i}
    /\ overtaken' = IF i <= db.next THEN overtaken \cup {i} ELSE overtaken
    /\ UNCHANGED <<events, ended, yesterday, db, work, pc, round, faults, known, heard,
                   missed>>

EventArrives(e) ==
    /\ e \notin events
    /\ events' = events \cup {e}
    /\ missed' = IF e <= db.event THEN missed \cup {e} ELSE missed
    /\ UNCHANGED <<trades, ended, yesterday, db, work, pc, round, faults, known, heard,
                   overtaken>>

MarketEnds(m) ==
    /\ m \in Ending \ ended
    /\ ended' = ended \cup {m}
    /\ UNCHANGED <<trades, events, yesterday, db, work, pc, round, faults, hist>>

DayPasses ==
    /\ yesterday + 1 < LastDay
    /\ yesterday' = yesterday + 1
    /\ UNCHANGED <<trades, events, ended, db, work, pc, round, faults, hist>>

-----------------------------------------------------------------------------
(* The market status snapshot.                                             *)

Start ==
    /\ pc = "idle"
    /\ since' = yesterday
    /\ pc' = IF db.event = 0 THEN "full" ELSE "events"
    /\ seen' = db.event
    /\ UNCHANGED <<source, db, work, batch, scope, flags, faults, hist>>

\* The events after the checkpoint, a page at a time.
ReadEvents ==
    LET page == Lowest(EventBatch, {e \in events : e > seen})
    IN  /\ pc = "events"
        /\ scope' = scope \cup {Oracle[e] : e \in page}
        /\ seen' = Highest(page, seen)
        /\ heard' = heard \cup page
        /\ pc' = IF Cardinality(page) = EventBatch THEN "events"
                 ELSE IF scope' = {} THEN "ended" ELSE "flags"
        /\ UNCHANGED <<source, db, work, since, batch, flags, faults, known,
                       overtaken, missed>>

\* The first of the queries a row is built from.
ReadFlags ==
    /\ pc \in {"full", "flags"}
    /\ scope' = IF pc = "full" THEN Market ELSE scope
    /\ flags' = EventsOf(scope')
    /\ heard' = IF pc = "full" THEN flags' ELSE heard
    /\ pc' = IF pc = "full" THEN "replace" ELSE "rows"
    /\ UNCHANGED <<source, db, work, since, batch, seen, faults, known, overtaken,
                   missed>>

\* Rows of markets, with flags from the events fs: an event closes its market,
\* and so does the end date.
Rebuilt(markets, fs) ==
    [m \in Market |->
        IF m \in markets
        THEN LET own == {e \in fs : Oracle[e] = m}
             IN  [flags |-> own, settlement |-> EventsOf({m}),
                  closed |-> m \in ended \/ own # {}]
        ELSE work.status[m]]

WriteRows ==
    /\ pc = "rows"
    /\ work' = [work EXCEPT !.status = Rebuilt(scope, flags)]
    /\ pc' = "ended"
    /\ UNCHANGED <<source, db, round, faults, hist>>

\* The full refresh deletes all rows and inserts them again.
ReplaceRows ==
    /\ pc = "replace"
    /\ work' = [work EXCEPT !.status = Rebuilt(Market, flags)]
    /\ pc' = "max"
    /\ UNCHANGED <<source, db, round, faults, hist>>

\* Only then it asks for the last event.
ReadMax ==
    /\ pc = "max"
    /\ work' = [work EXCEPT !.event = Highest(events, 0)]
    /\ pc' = "serve"
    /\ UNCHANGED <<source, db, round, faults, hist>>

\* Fault: the checkpoint is the last event there is, not the last one read.
CloseEndedMax ==
    /\ pc = "ended"
    /\ LET due == {m \in ended : ~work.status[m].closed}
       IN  work' = [work EXCEPT !.status = Rebuilt(due, events),
                                !.event = Highest(events, seen)]
    /\ pc' = "serve"
    /\ UNCHANGED <<source, db, round, faults, hist>>

\* Fault: end dates are left to the next oracle event.
CloseEndedNot ==
    /\ pc = "ended"
    /\ work' = [work EXCEPT !.event = seen]
    /\ pc' = "serve"
    /\ UNCHANGED <<source, db, round, faults, hist>>

\* Markets whose end date has passed and whose row says they are open.
CloseEnded ==
    /\ pc = "ended"
    /\ LET due == {m \in ended : ~work.status[m].closed}
       IN  work' = [work EXCEPT !.status = Rebuilt(due, events), !.event = seen]
    /\ pc' = "serve"
    /\ UNCHANGED <<source, db, round, faults, hist>>

-----------------------------------------------------------------------------
(* Serving rows and trades.                                                *)

\* What the serving row of m has to say from day d on.
Served(tables, m, d) ==
    [latest |-> tables.latest[m],
     count  |-> SumFunctionOnSet([x \in Day |-> tables.daily[x][m]], {x \in Day : x >= d})]

\* Fault: only the day is noted, the rows are left to the next trades.
ServeAllLater ==
    /\ pc = "serve"
    /\ work' = [work EXCEPT !.day = since]
    /\ pc' = "head"
    /\ UNCHANGED <<source, db, round, faults, hist>>

\* A new day: all serving rows are written again.
ServeAll ==
    /\ pc = "serve"
    /\ work' = IF db.day = since THEN work
               ELSE [work EXCEPT !.day = since,
                                 !.serving = [m \in Market |-> Served(work, m, since)]]
    /\ pc' = "head"
    /\ UNCHANGED <<source, db, round, faults, hist>>

\* Events that the cycle did not read and that its checkpoint passes: below one
\* that it read, or any that came during a full refresh.
Unheard ==
    {e \in events \ heard : /\ db.event < e /\ e <= work.event
                            /\ db.event = 0 \/ \E h \in heard : e < h}

CommitHead ==
    /\ pc = "head"
    /\ db' = work
    /\ missed' = missed \cup Unheard
    /\ pc' = "fetch"
    /\ scope' = {} /\ seen' = 0 /\ flags' = {} /\ heard' = {}
    /\ UNCHANGED <<source, work, since, batch, faults, known, overtaken>>

\* Fault: the trade at the checkpoint is read again.
AheadAgain == {i \in trades : i >= db.next}

\* Trades after the checkpoint.
Ahead == {i \in trades : i > db.next}

FetchBatch ==
    /\ pc = "fetch"
    /\ batch' = Lowest(BatchSize, Ahead)
    /\ known' = IF batch' = {} THEN {} ELSE trades
    /\ pc' = IF batch' = {} THEN "idle" ELSE "apply"
    /\ UNCHANGED <<source, db, work, since, scope, seen, flags, faults, heard,
                   overtaken, missed>>

\* Fault: the last of the batch is taken for the newest.
NewestOfBatch(ids, stored) ==
    IF ids = {} THEN stored ELSE Trade[Highest(ids, 0)].position

\* The position of the newest of ids, and of what is stored.
Newest(ids, stored) ==
    LET p == Highest({Trade[i].position : i \in ids}, 0)
    IN  IF p > stored THEN p ELSE stored

Impacted == {Trade[i].market : i \in batch}

\* What the batch adds to the count of a market on a day.
BatchCount(d, m) ==
    Cardinality({i \in batch : Trade[i].market = m /\ Trade[i].day = d})

Apply ==
    /\ pc = "apply"
    /\ LET tables ==
             [work EXCEPT
                !.daily  = [d \in Day |-> [m \in Market |-> @[d][m] + BatchCount(d, m)]],
                !.latest = [m \in Market |->
                              Newest({i \in batch : Trade[i].market = m}, @[m])],
                !.next   = Highest(batch, @)]
       IN  work' = [tables EXCEPT !.serving = [m \in Market |->
                      IF m \in Impacted THEN Served(tables, m, since) ELSE @[m]]]
    /\ pc' = "commit"
    /\ UNCHANGED <<source, db, round, faults, hist>>

CommitBatch ==
    /\ pc = "commit"
    /\ db' = work
    /\ overtaken' = overtaken \cup {i \in trades \ known : i <= work.next}
    /\ pc' = "fetch"
    /\ batch' = {} /\ known' = {}
    /\ UNCHANGED <<source, work, since, scope, seen, flags, faults, heard, missed>>

\* An exception rolls back and ends the process, as its death does; the
\* service starts it again.
Fail ==
    /\ pc # "idle" /\ faults < MaxFaults
    /\ faults' = faults + 1
    /\ work' = db
    /\ pc' = "idle"
    /\ batch' = {} /\ scope' = {} /\ seen' = 0 /\ flags' = {}
    /\ known' = {} /\ heard' = {}
    /\ UNCHANGED <<source, db, since, overtaken, missed>>

-----------------------------------------------------------------------------
Sync ==
    \/ Start \/ ReadEvents \/ ReadFlags \/ WriteRows \/ ReplaceRows \/ ReadMax
    \/ CloseEnded \/ ServeAll \/ CommitHead \/ FetchBatch \/ Apply \/ CommitBatch

Next ==
    \/ Sync \/ Fail \/ DayPasses
    \/ \E i \in TradeId : TradeArrives(i)
    \/ \E e \in EventId : EventArrives(e)
    \/ \E m \in Market : MarketEnds(m)

Spec == Init /\ [][Next]_vars

\* The service runs cycles for ever.
FairSpec == Spec /\ WF_vars(Sync)

-----------------------------------------------------------------------------
(* Properties.                                                             *)

\* Nothing is open between two cycles or batches, and checkpoints only name
\* rows that are there.
TypeOK ==
    /\ pc \in {"idle", "fetch"} => work = db /\ scope = {} /\ flags = {} /\ batch = {}
    /\ db.next \in trades \cup {0} /\ db.event \in events \cup {0}
    /\ db.day \in NoDay..LastDay
    /\ batch \subseteq trades /\ overtaken \subseteq trades /\ missed \subseteq events

Counted == {i \in trades : i <= db.next} \ overtaken

\* Through failures and deaths at any step, a daily count has every trade up to
\* the checkpoint exactly once, but those that arrived below it.  (With the types.)
CountsAreExact ==
    /\ TypeOK
    /\ \A d \in Day, m \in Market :
        db.daily[d][m] =
            Cardinality({i \in Counted : Trade[i].market = m /\ Trade[i].day = d})

\* The latest price of a market is that of the trade furthest on the chain,
\* whatever the order and the batches in which the trades came.
LatestIsNewest ==
    \A m \in Market :
        db.latest[m] =
            Highest({Trade[i].position : i \in {j \in Counted : Trade[j].market = m}}, 0)

\* Serving rows, of markets that trade and of markets that stopped, agree with
\* the tables they are made from, from the day on that they were all refreshed.
ServingMatches ==
    db.day # NoDay => \A m \in Market : db.serving[m] = Served(db, m, db.day)

Reflected(e) ==
    e \in db.status[Oracle[e]].flags /\ e \in db.status[Oracle[e]].settlement

\* The status of a market reflects every event up to the checkpoint, in all the
\* queries its row is built from, but events that arrived while a full refresh
\* was under way or below the checkpoint.
StatusCoversEvents ==
    \A e \in events \ missed : e <= db.event => Reflected(e)

\* Whenever trades, events and ends of markets stop coming for a while, all of
\* them are counted, reflected and closed, after whatever failures.
CatchesUp ==
    []<>(/\ trades = Counted \cup overtaken
         /\ \A e \in events \ missed : Reflected(e)
         /\ \A m \in ended : db.status[m].closed)
=============================================================================
