----------------------------- MODULE AlertDelivery -----------------------------
(***************************************************************************)
(* Watchlist alerts and their web push deliveries                          *)
(* (scripts/runtime/product_alert_watcher.py,                              *)
(* scripts/api/services/product_service.py and web_push_service.py).       *)
(*                                                                         *)
(* One watcher process loops: it evaluates the alert rules in one          *)
(* transaction and then publishes the deliveries that are due, marking     *)
(* each batch after its push in a transaction of its own.  Meanwhile the   *)
(* API changes rules, preferences and subscriptions, the canonical market  *)
(* state changes, time passes, and the process may die.                    *)
(*                                                                         *)
(* Abstractions: one user; a rule stands for its condition on the source   *)
(* row, whose updated_at only grows; hourly and daily digests are one      *)
(* mode; of time there is whether an open delivery has to wait, which      *)
(* ends by itself; a rule that had an event may be cooling down and, with  *)
(* quiet hours set, it may be quiet at any moment; old rows are kept.      *)
(* PostgreSQL runs READ COMMITTED: a transaction sees what is committed    *)
(* when it reads.                                                          *)
(***************************************************************************)
EXTENDS Integers, FiniteSets

CONSTANTS
    Rule,         \* alert rules the user may have
    Sub,          \* push endpoints (browsers) of the user
    Choices,      \* preferences the user may set
    MaxAttempts,  \* MAX_DELIVERY_ATTEMPTS
    MaxEvents,    \* bound: events of a rule; it is not evaluated after
    MaxFaults     \* bound: failures and deaths

Pref == [inApp : BOOLEAN, push : BOOLEAN, mode : {"realtime", "digest", "off"},
         quiet : BOOLEAN]

ASSUME AlertAssumption ==
    /\ Choices \subseteq Pref
    /\ MaxAttempts \in Nat \ {0} /\ MaxEvents \in Nat \ {0}
    /\ MaxFaults \in Nat

Event    == Rule \X (1..MaxEvents)
Delivery == Event \X Sub
Answer   == {"ok", "gone", "refused", "again"}

VARIABLES
    cond,         \* source rows: the condition of a rule
    rule,         \* alert_rules: keyed: it has events, and one with the
                  \* updated_at that the source row has now
    events,       \* alert_events: how many a rule has had
    prefs,        \* notification_preferences
    sub,          \* web_push_subscriptions: "none", "active", "revoked"
    delivery,     \* web_push_deliveries
    pc,
    read,         \* rows that evaluate_alert_rules selected
    gone, moved,  \* rules deleted, and with a new updated_at, since
    hits,         \* rules with an event in the open transaction
    queued,       \* deliveries in the open transaction
    batches,      \* batches still to be pushed: [ids, attempts, quiet]
    batch,        \* the batch that was pushed, as a set of at most one
    answer,       \* what the push said
    faults,
    clear,        \* history: the condition was false since the last event of the row
    tried,        \* history: pushes whose outcome was not lost
    landed,       \* history: those that the push service accepted
    forgotten     \* history: deliveries cancelled while nobody held them

eval   == <<read, gone, moved, hits, queued>>
pub    == <<batches, batch, answer>>
counts == <<tried, landed>>
vars   == <<cond, rule, events, prefs, sub, delivery, pc, eval, pub, faults,
            clear, counts, forgotten>>

\* A new row: armed, and with no event.
NewRow == [on |-> TRUE, active |-> FALSE, had |-> FALSE, keyed |-> FALSE]
NoRow  == [NewRow EXCEPT !.on = FALSE]
Unqueued == [status |-> "none", attempts |-> 0, wait |-> FALSE]

Init ==
    /\ cond = [r \in Rule |-> FALSE]
    /\ rule = [r \in Rule |-> NoRow] /\ events = [r \in Rule |-> 0]
    /\ prefs = [inApp |-> TRUE, push |-> FALSE, mode |-> "realtime", quiet |-> FALSE]
    /\ sub = [s \in Sub |-> "none"] /\ delivery = [d \in Delivery |-> Unqueued]
    /\ pc = "read"
    /\ read = [r \in {} |-> 0] /\ gone = {} /\ moved = {} /\ hits = {} /\ queued = {}
    /\ batches = {} /\ batch = {} /\ answer = "ok"
    /\ faults = 0
    /\ clear = [r \in Rule |-> TRUE]
    /\ tried = [d \in Delivery |-> 0] /\ landed = [d \in Delivery |-> 0]
    /\ forgotten = {}

Open(d)  == delivery[d].status \in {"pending", "retry"}
OfSub(s) == {d \in Delivery : d[2] = s}
InHand   == UNION {b.ids : b \in batches \cup batch}
Active   == {s \in Sub : sub[s] = "active"}

\* Cancels the open ones of ids.
Cancel(ids) ==
    LET open == {d \in ids : Open(d)}
    IN  /\ delivery' = [d \in Delivery |->
                          IF d \in open THEN [delivery[d] EXCEPT !.status = "cancelled", !.wait = FALSE]
                          ELSE delivery[d]]
        /\ forgotten' = forgotten \cup (open \ InHand)

-----------------------------------------------------------------------------
(* Sources and time.                                                       *)

\* A source row changes; its updated_at does not always move with it.
SourceChanges(r) ==
    \E c, later \in BOOLEAN :
        /\ c # cond[r] \/ later
        /\ cond' = [cond EXCEPT ![r] = c]
        /\ rule' = [rule EXCEPT ![r].keyed = @ /\ ~later]
        /\ moved' = IF later /\ r \in DOMAIN read THEN moved \cup {r} ELSE moved
        /\ clear' = [clear EXCEPT ![r] = @ \/ ~c]
        /\ UNCHANGED <<events, prefs, sub, delivery, pc, read, gone, hits, queued,
                       pub, faults, counts, forgotten>>

\* next_attempt_at comes.
Due(d) ==
    /\ delivery[d].wait
    /\ delivery' = [delivery EXCEPT ![d].wait = FALSE]
    /\ UNCHANGED <<cond, rule, events, prefs, sub, pc, eval, pub, faults, clear,
                   counts, forgotten>>

-----------------------------------------------------------------------------
(* The API.                                                                *)

\* Rows the open evaluation wrote or refers to: whoever changes one waits.
Locked(r) ==
    pc = "commit" /\ r \in DOMAIN read \ gone /\ read[r].cond # read[r].active

\* A rule that is there is only switched on again.
CreateAlertRule(r) ==
    /\ ~Locked(r) /\ ~rule[r].on
    /\ rule' = [rule EXCEPT ![r] = NewRow]
    /\ clear' = [clear EXCEPT ![r] = TRUE]
    /\ UNCHANGED <<cond, events, prefs, sub, delivery, pc, eval, pub, faults,
                   counts, forgotten>>

DeleteAlertRule(r) ==
    /\ ~Locked(r) /\ rule[r].on
    /\ rule' = [rule EXCEPT ![r] = NoRow]
    /\ gone' = IF r \in DOMAIN read THEN gone \cup {r} ELSE gone
    /\ UNCHANGED <<cond, events, prefs, sub, delivery, pc, read, moved, hits, queued,
                   pub, faults, clear, counts, forgotten>>

UpdatePreferences ==
    /\ prefs' \in Choices \ {prefs}
    /\ UNCHANGED <<cond, rule, events, sub, delivery, pc, eval, pub,
                   faults, clear, counts, forgotten>>

UpsertSubscription(s) ==
    /\ sub[s] # "active" \/ ~prefs.push
    /\ sub' = [sub EXCEPT ![s] = "active"]
    /\ prefs' = [prefs EXCEPT !.push = TRUE]
    /\ UNCHANGED <<cond, rule, events, delivery, pc, eval, pub, faults,
                   clear, counts, forgotten>>

RevokeSubscription(s) ==
    /\ sub[s] = "active"
    /\ sub' = [sub EXCEPT ![s] = "revoked"]
    /\ Cancel(OfSub(s))
    /\ prefs' = IF Active = {s} THEN [prefs EXCEPT !.push = FALSE] ELSE prefs
    /\ UNCHANGED <<cond, rule, events, pc, eval, pub, faults, clear, counts>>

-----------------------------------------------------------------------------
(* evaluate_alert_rules: one transaction.                                  *)

EndEvaluation ==
    /\ pc' = "prepare"
    /\ read' = [r \in {} |-> 0] /\ gone' = {} /\ moved' = {} /\ hits' = {} /\ queued' = {}

Evaluated ==
    {r \in Rule : /\ rule[r].on /\ events[r] < MaxEvents
                  /\ prefs.inApp \/ prefs.push
                  /\ prefs.mode # "off"}

\* The cooldown counts from the last event, and the user may change it.
Read ==
  \E cooling \in SUBSET {r \in Evaluated : rule[r].had} :
    /\ pc = "read"
    /\ pc' = "decide"
    /\ read' = [r \in Evaluated |->
                  [cond |-> cond[r], active |-> rule[r].active,
                   keyed |-> rule[r].keyed,
                   cooling |-> r \in cooling /\ cond[r] /\ ~rule[r].active]]
    /\ UNCHANGED <<cond, rule, events, prefs, sub, delivery, gone, moved, hits,
                   queued, pub, faults, clear, counts, forgotten>>

\* Conditions that turned true, and are not cooling down.
Crossed == {r \in DOMAIN read : read[r].cond /\ ~read[r].active /\ ~read[r].cooling}

\* An event of a row with this source time is there already: no second one.
Fresh == {r \in Crossed : ~read[r].keyed}

\* queue_alert_deliveries reads preferences and subscriptions anew.
QueueFor(r) ==
    IF prefs.push /\ prefs.mode # "off"
    THEN {<<<<r, events[r] + 1>>, s>> : s \in Active} ELSE {}

Decide ==
  \E late \in BOOLEAN :
    /\ pc = "decide" /\ Fresh \cap gone = {}
    /\ IF late THEN prefs.mode = "digest" \/ prefs.quiet ELSE prefs.mode # "digest"
    /\ pc' = "commit"
    /\ hits' = Fresh
    /\ queued' = {[id |-> d, wait |-> late] :
                    d \in UNION {QueueFor(r) : r \in Fresh}}
    /\ UNCHANGED <<cond, rule, events, prefs, sub, delivery, read, gone, moved, pub,
                   faults, clear, counts, forgotten>>

\* Fault: the failed evaluation ends the round.
DecideOnDeletedRuleEndsRound ==
    /\ pc = "decide" /\ Fresh \cap gone # {}
    /\ pc' = "read"
    /\ read' = [r \in {} |-> 0] /\ gone' = {} /\ moved' = {} /\ hits' = {} /\ queued' = {}
    /\ UNCHANGED <<cond, rule, events, prefs, sub, delivery, pub, faults, clear,
                   counts, forgotten>>

\* A new event of a deleted rule breaks the foreign key: all is rolled back.  One
\* that is there already is not inserted, and the rule's updates find no row.
DecideOnDeletedRule ==
    /\ pc = "decide" /\ Fresh \cap gone # {}
    /\ EndEvaluation
    /\ UNCHANGED <<cond, rule, events, prefs, sub, delivery, pub, faults, clear,
                   counts, forgotten>>

\* Fault: the event does not mark the condition as active.
RowAfterUnmarked(r) ==
    [rule[r] EXCEPT
        !.active = IF read[r].cond = read[r].active \/ r \in hits THEN @ ELSE read[r].cond,
        !.had    = @ \/ r \in hits,
        !.keyed  = @ \/ (r \in hits \ moved)]

\* An inactive condition rearms its rule; one that crossed while the rule
\* cools down disarms it without an event.
RowAfter(r) ==
    [rule[r] EXCEPT
        !.active = IF read[r].cond = read[r].active THEN @ ELSE read[r].cond,
        !.had    = @ \/ r \in hits,
        !.keyed  = @ \/ (r \in hits \ moved)]

Commit ==
    /\ pc = "commit"
    /\ rule' = [r \in Rule |->
                  IF r \in DOMAIN read \ gone THEN RowAfter(r) ELSE rule[r]]
    /\ events' = [r \in Rule |-> IF r \in hits THEN events[r] + 1 ELSE events[r]]
    /\ delivery' = [d \in Delivery |->
                      IF \E q \in queued : q.id = d
                      THEN [status |-> "pending", attempts |-> 0,
                            wait |-> (CHOOSE q \in queued : q.id = d).wait]
                      ELSE delivery[d]]
    /\ clear' = [r \in Rule |-> IF r \in hits THEN ~cond[r] ELSE clear[r]]
    /\ EndEvaluation
    /\ UNCHANGED <<cond, prefs, sub, pub, faults, counts, forgotten>>

\* Fault: the database refuses.  The loop logs it and goes on to publish.
EvaluationFails ==
    /\ pc \in {"read", "decide", "commit"} /\ faults < MaxFaults
    /\ faults' = faults + 1
    /\ EndEvaluation
    /\ UNCHANGED <<cond, rule, events, prefs, sub, delivery, pub, clear, counts,
                   forgotten>>

-----------------------------------------------------------------------------
(* publish_pending_deliveries.                                             *)

\* Subscriptions past their expiration time are revoked, and what is open for
\* any revoked one is cancelled.
Prepare ==
    \E expired \in SUBSET Active :
        /\ pc = "prepare"
        /\ pc' = "select"
        /\ sub' = [s \in Sub |-> IF s \in expired THEN "revoked" ELSE sub[s]]
        /\ Cancel(UNION {OfSub(s) : s \in {x \in Sub : sub'[x] = "revoked"}})
        /\ UNCHANGED <<cond, rule, events, prefs, eval, pub, faults, clear, counts>>

\* Fault: whatever was not sent and did not fail is selected.
SelectedCancelled ==
    {d \in Delivery : /\ delivery[d].status \in {"pending", "retry", "cancelled"}
                      /\ ~delivery[d].wait /\ sub[d[2]] = "active"
                      /\ prefs.push /\ prefs.mode # "off"}

Selected ==
    {d \in Delivery : /\ Open(d) /\ ~delivery[d].wait
                      /\ sub[d[2]] = "active"
                      /\ prefs.push /\ prefs.mode # "off"}

\* In a digest, all that a subscription has is one push.
Groups ==
    IF prefs.mode = "digest"
    THEN {OfSub(s) \cap Selected : s \in {d[2] : d \in Selected}}
    ELSE {{d} : d \in Selected}

\* Fault: the attempts of any delivery stand for the batch.
AttemptsOfLeast(ids) ==
    1 + CHOOSE n \in {delivery[d].attempts : d \in ids} :
            \A d \in ids : delivery[d].attempts >= n

AttemptsOf(ids) ==
    1 + CHOOSE n \in {delivery[d].attempts : d \in ids} :
            \A d \in ids : delivery[d].attempts <= n

Select ==
    /\ pc = "select"
    /\ pc' = IF Selected = {} THEN "read" ELSE "push"
    /\ batches' = {[ids |-> g, attempts |-> AttemptsOf(g), quiet |-> prefs.quiet] :
                    g \in Groups}
    /\ UNCHANGED <<cond, rule, events, prefs, sub, delivery, eval, batch, answer,
                   faults, clear, counts, forgotten>>

\* Fault: only one delivery of the batch is marked.
MarkBatchOne(b, status, attempts, wait) ==
    LET one == CHOOSE d \in b.ids : TRUE
    IN  delivery' = [delivery EXCEPT ![one] =
                       [status |-> status, attempts |-> attempts, wait |-> wait]]

\* _mark_batch looks at the identifiers only, not at the status it overwrites.
MarkBatch(b, status, attempts, wait) ==
    delivery' = [d \in Delivery |->
                   IF d \in b.ids
                   THEN [status |-> status, attempts |-> attempts,
                         wait |-> wait]
                   ELSE delivery[d]]

Hold ==
    \E b \in batches :
        /\ pc = "push" /\ b.quiet
        /\ MarkBatch(b, "retry", b.attempts - 1, TRUE)
        /\ batches' = batches \ {b}
        /\ pc' = IF batches' = {} THEN "read" ELSE "push"
        /\ UNCHANGED <<cond, rule, events, prefs, sub, eval, batch, answer, faults,
                       clear, counts, forgotten>>

Push ==
    \E b \in batches, a \in Answer :
        /\ pc = "push"
        /\ pc' = "mark"
        /\ batch' = {b} /\ batches' = batches \ {b} /\ answer' = a
        /\ tried' = [d \in Delivery |-> IF d \in b.ids THEN tried[d] + 1 ELSE tried[d]]
        /\ landed' = [d \in Delivery |->
                        IF d \in b.ids /\ a = "ok" THEN landed[d] + 1 ELSE landed[d]]
        /\ UNCHANGED <<cond, rule, events, prefs, sub, delivery, eval, faults, clear,
                       forgotten>>

\* The pushed batch is dealt with.
NextBatch ==
    /\ pc' = IF batches = {} THEN "read" ELSE "push"
    /\ batch' = {} /\ answer' = "ok"
    /\ UNCHANGED batches

MarkSent ==
    \E b \in batch :
        /\ pc = "mark" /\ answer = "ok"
        /\ MarkBatch(b, "sent", b.attempts, FALSE)
        /\ NextBatch
        /\ UNCHANGED <<cond, rule, events, prefs, sub, eval, faults, clear, counts,
                       forgotten>>

\* A permanent answer, or the last attempt.
MarkFailed ==
    \E b \in batch :
        /\ pc = "mark" /\ answer # "ok"
        /\ answer \in {"gone", "refused"} \/ b.attempts >= MaxAttempts
        /\ MarkBatch(b, "failed", b.attempts, FALSE)
        /\ sub' = [s \in Sub |-> IF answer = "gone" /\ \E d \in b.ids : d[2] = s
                                 THEN "revoked" ELSE sub[s]]
        /\ NextBatch
        /\ UNCHANGED <<cond, rule, events, prefs, eval, faults, clear, counts,
                       forgotten>>

MarkRetry ==
    \E b \in batch :
        /\ pc = "mark" /\ answer = "again" /\ b.attempts < MaxAttempts
        /\ MarkBatch(b, "retry", b.attempts, TRUE)
        /\ NextBatch
        /\ UNCHANGED <<cond, rule, events, prefs, sub, eval, faults, clear, counts,
                       forgotten>>

-----------------------------------------------------------------------------
(* Faults of the publisher.                                                *)

Uncount(f, ids) == [d \in Delivery |-> IF d \in ids THEN f[d] - 1 ELSE f[d]]

\* The push was accepted, and its answer lost or its mark refused: either way
\* the publisher takes it for a push that failed.
AcceptedButUnknown ==
    \E b \in batch :
        /\ pc = "mark" /\ answer = "ok" /\ faults < MaxFaults
        /\ faults' = faults + 1
        /\ answer' = "again"
        /\ landed' = Uncount(landed, b.ids)
        /\ UNCHANGED <<cond, rule, events, prefs, sub, delivery, pc, eval, batches,
                       batch, clear, tried, forgotten>>

Forget ==
    /\ batches' = {} /\ batch' = {} /\ answer' = "ok"
    /\ tried' = Uncount(tried, UNION {b.ids : b \in batch})
    /\ landed' = IF answer = "ok" THEN Uncount(landed, UNION {b.ids : b \in batch})
                 ELSE landed

\* The database refuses: the round is over.
PublishFails ==
    /\ \/ pc \in {"prepare", "select"}
       \/ pc = "push" /\ \E b \in batches : b.quiet
       \/ pc = "mark" /\ answer # "ok"
    /\ faults < MaxFaults
    /\ faults' = faults + 1
    /\ pc' = "read"
    /\ Forget
    /\ UNCHANGED <<cond, rule, events, prefs, sub, delivery, eval, clear, forgotten>>

\* The process dies and is started again.
Kill ==
    /\ faults < MaxFaults
    /\ faults' = faults + 1
    /\ pc' = "read"
    /\ read' = [r \in {} |-> 0] /\ gone' = {} /\ moved' = {} /\ hits' = {} /\ queued' = {}
    /\ Forget
    /\ UNCHANGED <<cond, rule, events, prefs, sub, delivery, clear, forgotten>>

-----------------------------------------------------------------------------
Watcher ==
    \/ Read \/ Decide \/ DecideOnDeletedRule \/ Commit
    \/ Prepare \/ Select \/ Hold \/ Push \/ MarkSent \/ MarkFailed \/ MarkRetry

Next ==
    \/ Watcher
    \/ EvaluationFails \/ AcceptedButUnknown \/ PublishFails \/ Kill
    \/ UpdatePreferences
    \/ \E r \in Rule : SourceChanges(r) \/ CreateAlertRule(r)
                       \/ DeleteAlertRule(r)
    \/ \E s \in Sub : UpsertSubscription(s) \/ RevokeSubscription(s)
    \/ \E d \in Delivery : Due(d)

Spec == Init /\ [][Next]_vars

\* The watcher loops for ever, and time passes.
FairSpec == Spec /\ WF_vars(Watcher) /\ \A d \in Delivery : WF_vars(Due(d))

-----------------------------------------------------------------------------
(* Properties.                                                             *)

\* The state is what the tables and the publisher may hold, a delivery belongs
\* to an event that is recorded, and it is waiting to be tried or was tried.
TypeOK ==
    /\ rule \in [Rule -> [on : BOOLEAN, active : BOOLEAN, had : BOOLEAN,
                          keyed : BOOLEAN]]
    /\ \A r \in Rule : rule[r].keyed => rule[r].had
    /\ \A d \in Delivery :
          /\ delivery[d].status # "none" => d[1][2] <= events[d[1][1]]
          /\ delivery[d].attempts <= MaxAttempts
          /\ delivery[d].status \in {"sent", "failed"} => delivery[d].attempts > 0
    /\ prefs \in Pref
    /\ (batch # {}) = (pc = "mark")

\* "Records an in-app event only when a condition changes from inactive to
\* active" (docs/watchlist-alerts.md): between two events of a rule's row the
\* condition was false, whatever failed, was rolled back or was changed by the
\* user in between.
EventsNeedACrossing ==
    [][\A r \in Rule : events'[r] > events[r] => clear[r]]_vars

\* Unless its answer, its mark or the process was lost, a delivery reaches the
\* push service once, and a delivery marked as sent did.
SentOnce ==
    \A d \in Delivery :
        /\ landed[d] <= 1
        /\ delivery[d].status = "sent" => landed[d] = 1

\* Digests group deliveries with different numbers of attempts; even so none
\* is pushed more often than MAX_DELIVERY_ATTEMPTS, but for lost outcomes.  (With
\* the types.)
TriesAreBounded == TypeOK /\ \A d \in Delivery : tried[d] <= MaxAttempts

\* A delivery that was cancelled while no batch of the publisher held it is
\* never pushed, not even after the browser subscribes again.
RevokedIsForgotten == InHand \cap forgotten = {}

\* A delivery that is queued is sent, fails or is cancelled in the end, as long
\* as push stays on without quiet hours: failing evaluations do not keep
\* the publisher from it, and it is not tried for ever.
DeliveriesEnd ==
    \A d \in Delivery :
        Open(d) ~> (~Open(d) \/ ~prefs.push \/ prefs.mode = "off" \/ prefs.quiet)
=============================================================================
