-------------------------- MODULE AlertDeliveryProofs --------------------------
(* Theorems about AlertDelivery, for every set of rules, browsers and        *)
(* preferences, and every number of attempts, events and faults.             *)
EXTENDS AlertDelivery, FiniteSetTheorems, WellFoundedInduction, TLAPS

(***************************************************************************)
(* The inductive invariant.  A rule whose condition is not active, and one *)
(* that the open evaluation has read as not active or not holding, had its *)
(* condition false since its last event (ClearInv, EvalInv).  What the     *)
(* publisher holds was open when it was selected, in one batch only, and   *)
(* with fewer attempts than the batch stands for (HandInv); the counts of  *)
(* pushes follow the rows but for the batch that is pushed and not marked  *)
(* yet (PushInv).                                                          *)
(***************************************************************************)

Places == {"read", "decide", "commit", "prepare", "select", "push", "mark"}
Statuses == {"none", "pending", "retry", "sent", "failed", "cancelled"}
Row      == [on : BOOLEAN, active : BOOLEAN, had : BOOLEAN, keyed : BOOLEAN]
Queued   == [status : Statuses, attempts : 0..MaxAttempts, wait : BOOLEAN]
Batch    == [ids : SUBSET Delivery, attempts : 1..MaxAttempts, quiet : BOOLEAN]
Found    == [cond : BOOLEAN, active : BOOLEAN, keyed : BOOLEAN, cooling : BOOLEAN]

TypeInv ==
    /\ cond \in [Rule -> BOOLEAN] /\ clear \in [Rule -> BOOLEAN]
    /\ rule \in [Rule -> Row] /\ events \in [Rule -> 0..MaxEvents]
    /\ prefs \in Pref /\ delivery \in [Delivery -> Queued]
    /\ pc \in Places /\ answer \in Answer
    /\ batches \subseteq Batch /\ batch \subseteq Batch
    /\ tried \in [Delivery -> Nat] /\ landed \in [Delivery -> Nat]

RuleInv == \A r \in Rule : rule[r].keyed => rule[r].had

\* The condition of a rule that may fire was false since its last event.
ClearInv ==
    \A r \in Rule : /\ ~cond[r] => clear[r]
                    /\ rule[r].on /\ ~rule[r].active => clear[r]

EvalInv ==
    /\ pc \in {"decide", "commit"} =>
          \A r \in DOMAIN read :
              /\ r \in Rule /\ events[r] < MaxEvents /\ read[r] \in Found
              /\ ~read[r].cond \/ ~read[r].active => clear[r]
    /\ pc = "commit" =>
          /\ \A r \in hits : r \in DOMAIN read /\ read[r].cond /\ ~read[r].active
          /\ hits \cap gone = {}
          /\ \A q \in queued :
                /\ q \in [id : Delivery, wait : BOOLEAN] /\ q.id[1][1] \in hits
                /\ q.id[1][2] = events[q.id[1][1]] + 1

\* A delivery is of an event that happened, and has attempts left while open.
RowsInv ==
    \A d \in Delivery :
        /\ delivery[d].status # "none" => d[1][2] <= events[d[1][1]]
        /\ delivery[d].status = "none" => delivery[d].attempts = 0
        /\ delivery[d].status \in {"sent", "failed"} => delivery[d].attempts > 0
        /\ Open(d) => delivery[d].attempts < MaxAttempts

HandInv ==
    /\ (batch # {}) = (pc = "mark") /\ (pc \notin {"push", "mark"} => batches = {})
    /\ batch \cap batches = {} /\ \A b, c \in batch : b = c
    /\ \A b, c \in batches \cup batch : b.ids \cap c.ids # {} => b = c
    /\ \A b \in batches \cup batch : \A d \in b.ids :
          /\ delivery[d].status \in {"pending", "retry", "cancelled"}
          /\ delivery[d].attempts < b.attempts

Pushed == UNION {b.ids : b \in batch}

PushInv ==
    \A d \in Delivery :
        /\ d \notin Pushed =>
              /\ tried[d] <= delivery[d].attempts
              /\ landed[d] = IF delivery[d].status = "sent" THEN 1 ELSE 0
        /\ d \in Pushed =>
              /\ tried[d] > 0 /\ tried[d] - 1 <= delivery[d].attempts
              /\ landed[d] = IF answer = "ok" THEN 1 ELSE 0

ForgetInv == \A d \in forgotten : delivery[d].status = "cancelled" /\ d \notin InHand

IInv == /\ TypeInv /\ RuleInv /\ ClearInv /\ EvalInv /\ RowsInv /\ HandInv /\ PushInv
        /\ ForgetInv /\ forgotten \subseteq Delivery

-----------------------------------------------------------------------------
(* What the steps do to the deliveries.                                     *)

\* The parts of a delivery.
LEMMA DeliveryParts ==
    ASSUME NEW d \in Delivery
    PROVE  d[1][1] \in Rule /\ d[1][2] \in 1..MaxEvents /\ d[2] \in Sub
  BY DEF Delivery, Event

\* Cancelling touches open deliveries only, and keeps their attempts.
LEMMA CancelIs ==
    ASSUME TypeInv, NEW ids, ids \subseteq Delivery, Cancel(ids)
    PROVE  /\ delivery' \in [Delivery -> Queued]
           /\ \A d \in Delivery :
                 \/ delivery'[d] = delivery[d]
                 \/ /\ Open(d) /\ delivery'[d].status = "cancelled"
                    /\ delivery'[d].attempts = delivery[d].attempts
           /\ \A d \in forgotten' : \/ d \in forgotten
                                    \/ d \in ids /\ d \notin InHand /\ Open(d)
           /\ \A d \in Delivery : d \in ids /\ Open(d) => delivery'[d].status = "cancelled"
  <1> DEFINE open == {d \in ids : Open(d)}
             off(d) == [delivery[d] EXCEPT !.status = "cancelled", !.wait = FALSE]
  <1>1. delivery' = [d \in Delivery |-> IF d \in open THEN off(d) ELSE delivery[d]]
        /\ forgotten' = forgotten \cup (open \ InHand)
    BY DEF Cancel
  <1>2. ASSUME NEW d \in Delivery
        PROVE  off(d) \in Queued /\ off(d).status = "cancelled"
               /\ off(d).attempts = delivery[d].attempts
    <2>1. delivery[d] \in Queued
      BY DEF TypeInv
    <2> QED
      BY <2>1 DEF Queued, Statuses
  <1>3. \A d \in Delivery : delivery[d] \in Queued
    BY DEF TypeInv
  <1>4. \A d : d \in open <=> d \in ids /\ Open(d)
    OBVIOUS
  <1> HIDE DEF open, off
  <1>5. delivery' \in [Delivery -> Queued]
    BY <1>1, <1>2, <1>3
  <1>6. \A d \in Delivery : delivery'[d] = IF d \in open THEN off(d) ELSE delivery[d]
    BY <1>1
  <1>7. \A d \in Delivery :
            \/ delivery'[d] = delivery[d]
            \/ /\ Open(d) /\ delivery'[d].status = "cancelled"
               /\ delivery'[d].attempts = delivery[d].attempts
    BY <1>2, <1>4, <1>6
  <1>8. \A d \in Delivery : d \in ids /\ Open(d) => delivery'[d].status = "cancelled"
    BY <1>2, <1>4, <1>6
  <1>9. \A d \in forgotten' : \/ d \in forgotten
                              \/ d \in ids /\ d \notin InHand /\ Open(d)
    BY <1>1, <1>4
  <1> QED
    BY <1>5, <1>7, <1>8, <1>9

\* Prepare cancels deliveries of browsers.
LEMMA PrepareCancels ==
    ASSUME Prepare
    PROVE  \E ids : ids \subseteq Delivery /\ Cancel(ids)
  BY DEF Prepare, OfSub

\* Marking a batch writes all its deliveries, and no other.
LEMMA MarkIs ==
    ASSUME TypeInv, NEW b \in Batch, NEW s \in Statuses, NEW n \in 0..MaxAttempts,
           NEW w \in BOOLEAN, MarkBatch(b, s, n, w)
    PROVE  /\ delivery' \in [Delivery -> Queued]
           /\ \A d \in Delivery \ b.ids : delivery'[d] = delivery[d]
           /\ \A d \in b.ids : /\ d \in Delivery /\ delivery'[d].status = s
                               /\ delivery'[d].attempts = n
  <1>1. delivery' = [d \in Delivery |-> IF d \in b.ids
                                        THEN [status |-> s, attempts |-> n, wait |-> w]
                                        ELSE delivery[d]]
    BY DEF MarkBatch
  <1>2. [status |-> s, attempts |-> n, wait |-> w] \in Queued
    BY DEF Queued
  <1>3. b.ids \subseteq Delivery
    BY DEF Batch
  <1>4. \A d \in Delivery : delivery[d] \in Queued
    BY DEF TypeInv
  <1> QED
    BY <1>1, <1>2, <1>3, <1>4

\* How a pushed batch may be marked: as sent, as failed, or to be tried again
\* while it has attempts left.
Outcome(b, s) ==
    \/ answer = "ok" /\ s = "sent"
    \/ answer # "ok" /\ s = "failed"
    \/ answer # "ok" /\ s = "retry" /\ b.attempts < MaxAttempts

MarkPushed(b, s, w) ==
    /\ pc = "mark" /\ b \in batch /\ s \in Statuses /\ w \in BOOLEAN
    /\ Outcome(b, s) /\ MarkBatch(b, s, b.attempts, w)
    /\ NextBatch
    /\ UNCHANGED <<cond, rule, events, prefs, eval, faults, clear, counts, forgotten>>

\* The three steps that mark a pushed batch.
LEMMA MarkSteps ==
    ASSUME MarkSent \/ MarkFailed \/ MarkRetry
    PROVE  \E b \in batch, s \in Statuses, w \in BOOLEAN : MarkPushed(b, s, w)
  <1>1. {"sent", "failed", "retry"} \subseteq Statuses /\ FALSE \in BOOLEAN /\ TRUE \in BOOLEAN
    BY DEF Statuses
  <1>2. CASE MarkSent
    <2>1. PICK b \in batch : /\ pc = "mark" /\ answer = "ok"
                             /\ MarkBatch(b, "sent", b.attempts, FALSE) /\ NextBatch
                             /\ UNCHANGED <<cond, rule, events, prefs, sub, eval, faults,
                                            clear, counts, forgotten>>
      BY <1>2 DEF MarkSent
    <2>2. MarkPushed(b, "sent", FALSE)
      BY <1>1, <2>1 DEF MarkPushed, Outcome
    <2> QED
      BY <1>1, <2>2
  <1>3. CASE MarkFailed
    <2>1. PICK b \in batch : /\ pc = "mark" /\ answer # "ok"
                             /\ MarkBatch(b, "failed", b.attempts, FALSE) /\ NextBatch
                             /\ UNCHANGED <<cond, rule, events, prefs, eval, faults,
                                            clear, counts, forgotten>>
      BY <1>3 DEF MarkFailed
    <2>2. MarkPushed(b, "failed", FALSE)
      BY <1>1, <2>1 DEF MarkPushed, Outcome
    <2> QED
      BY <1>1, <2>2
  <1>4. CASE MarkRetry
    <2>1. PICK b \in batch : /\ pc = "mark" /\ answer = "again" /\ b.attempts < MaxAttempts
                             /\ MarkBatch(b, "retry", b.attempts, TRUE) /\ NextBatch
                             /\ UNCHANGED <<cond, rule, events, prefs, sub, eval, faults,
                                            clear, counts, forgotten>>
      BY <1>4 DEF MarkRetry
    <2>2. MarkPushed(b, "retry", TRUE)
      BY <1>1, <2>1 DEF MarkPushed, Outcome
    <2> QED
      BY <1>1, <2>2
  <1> QED
    BY <1>2, <1>3, <1>4

-----------------------------------------------------------------------------
(* What the publisher selects.                                              *)

\* Numbers below a bound have a highest one.
LEMMA HasHighest ==
    ASSUME NEW n \in Nat, NEW S \in SUBSET (0..n), S # {}
    PROVE  \E i \in S : \A j \in S : j <= i
  <1> DEFINE U == {u \in Nat : \A j \in S : j <= u}
             R == OpToRel(<, Nat)
  <1>1. U \subseteq Nat /\ n \in U
    OBVIOUS
  <1>2. PICK u \in U : \A v \in U : <<v, u>> \notin R
    <2>1. IsWellFoundedOn(R, Nat)
      BY NatLessThanWellFounded
    <2> HIDE DEF U, R
    <2> QED
      BY <1>1, <2>1, WFMin
  <1>3. \A v \in U : ~(v < u)
    BY <1>1, <1>2 DEF OpToRel
  <1> HIDE DEF R
  <1>4. u \in S
    <2> SUFFICES ASSUME u \notin S PROVE FALSE
      OBVIOUS
    <2>1. \A j \in S : j \in Nat /\ j <= u /\ j # u
      OBVIOUS
    <2>2. u \in Nat /\ u > 0 /\ \A j \in S : j <= u - 1
      <3>1. u \in Nat /\ \E j \in S : TRUE
        OBVIOUS
      <3>2. \A j \in S : j < u
        <4> TAKE j \in S
        <4>1. j \in Nat /\ j <= u /\ j # u
          BY <2>1
        <4> HIDE DEF U
        <4> QED
          BY <3>1, <4>1
      <3> QED
        BY <2>1, <3>1, <3>2
    <2>3. u - 1 \in U /\ u - 1 < u
      BY <2>2
    <2> QED
      BY <1>3, <2>3
  <1> QED
    BY <1>4

\* The attempts of a batch are more than its deliveries had, and allowed.
LEMMA AttemptsIs ==
    ASSUME TypeInv, RowsInv, NEW g, g # {}, g \subseteq Selected
    PROVE  /\ AttemptsOf(g) \in 1..MaxAttempts
           /\ \A d \in g : delivery[d].attempts < AttemptsOf(g)
  <1> DEFINE S == {delivery[d].attempts : d \in g}
  <1>1. \A d \in g : d \in Delivery /\ delivery[d].attempts \in 0..(MaxAttempts - 1)
    <2> TAKE d \in g
    <2>1. d \in Delivery /\ Open(d)
      BY DEF Selected
    <2>2. delivery[d].attempts \in 0..MaxAttempts
      BY <2>1 DEF TypeInv, Queued
    <2>3. delivery[d].attempts < MaxAttempts
      BY <2>1 DEF RowsInv
    <2> QED
      BY <2>1, <2>2, <2>3, AlertAssumption
  <1>2. MaxAttempts - 1 \in Nat /\ S \in SUBSET (0..(MaxAttempts - 1)) /\ S # {}
    BY <1>1, AlertAssumption
  <1>3. \E i \in S : \A j \in S : j <= i
    <2> HIDE DEF S
    <2> QED
      BY <1>2, HasHighest
  <1> DEFINE top == CHOOSE n \in S : \A j \in S : j <= n
  <1>4. top \in S /\ \A j \in S : j <= top
    BY <1>3
  <1>5. \A d \in g : delivery[d].attempts <= top
    BY <1>4
  <1>6. AttemptsOf(g) = 1 + top
    <2>1. top = CHOOSE n \in S : \A d \in g : delivery[d].attempts <= n
      OBVIOUS
    <2> QED
      BY <2>1 DEF AttemptsOf
  <1>7. top \in 0..(MaxAttempts - 1)
    BY <1>2, <1>4
  <1> HIDE DEF top
  <1>8. 1 + top \in 1..MaxAttempts
    BY <1>7, AlertAssumption
  <1>9. \A d \in g : delivery[d].attempts < 1 + top
    BY <1>1, <1>5, <1>7
  <1> QED
    BY <1>6, <1>8, <1>9

\* The groups are of open deliveries, and a delivery is in one only.
LEMMA GroupsAreApart ==
    /\ \A g \in Groups : g # {} /\ g \subseteq Selected
    /\ \A g, h \in Groups : g \cap h # {} => g = h
  <1>1. CASE prefs.mode = "digest"
    <2>1. Groups = {OfSub(s) \cap Selected : s \in {d[2] : d \in Selected}}
      BY <1>1 DEF Groups
    <2>2. \A d \in Selected : d \in OfSub(d[2])
      BY DEF OfSub, Selected
    <2>3. \A g \in Groups : \E s : g = OfSub(s) \cap Selected /\ g # {}
      BY <2>1, <2>2
    <2>4. ASSUME NEW s, NEW t, (OfSub(s) \cap Selected) \cap (OfSub(t) \cap Selected) # {}
          PROVE  s = t
      BY <2>4 DEF OfSub
    <2>5. ASSUME NEW g \in Groups, NEW h \in Groups, g \cap h # {} PROVE g = h
      <3>1. PICK s : g = OfSub(s) \cap Selected
        BY <2>3
      <3>2. PICK t : h = OfSub(t) \cap Selected
        BY <2>3
      <3>3. s = t
        BY <2>4, <2>5, <3>1, <3>2
      <3> QED
        BY <3>1, <3>2, <3>3
    <2>6. ASSUME NEW g \in Groups PROVE g # {} /\ g \subseteq Selected
      <3>1. PICK s : g = OfSub(s) \cap Selected /\ g # {}
        BY <2>3
      <3> QED
        BY <3>1
    <2> QED
      BY <2>5, <2>6
  <1>2. CASE prefs.mode # "digest"
    <2>1. Groups = {{d} : d \in Selected}
      BY <1>2 DEF Groups
    <2>2. \A g \in Groups : \E d \in Selected : g = {d}
      BY <2>1
    <2>3. ASSUME NEW g \in Groups, NEW h \in Groups, g \cap h # {} PROVE g = h
      <3>1. PICK d \in Selected, e \in Selected : g = {d} /\ h = {e}
        BY <2>2
      <3>2. d = e
        BY <2>3, <3>1
      <3> QED
        BY <3>1, <3>2
    <2>4. ASSUME NEW g \in Groups PROVE g # {} /\ g \subseteq Selected
      <3>1. PICK d \in Selected : g = {d}
        BY <2>2
      <3> QED
        BY <3>1
    <2> QED
      BY <2>3, <2>4
  <1> QED
    BY <1>1, <1>2

\* What the publisher holds once it has selected.
LEMMA SelectStep ==
    ASSUME TypeInv, RowsInv, Select
    PROVE  /\ \A b \in batches' :
                 /\ b \in Batch
                 /\ \A d \in b.ids : d \in Delivery /\ Open(d) /\ delivery[d].attempts < b.attempts
           /\ \A b, c \in batches' : b.ids \cap c.ids # {} => b = c
           /\ Selected = {} => batches' = {}
  <1> DEFINE bundle(g) == [ids |-> g, attempts |-> AttemptsOf(g), quiet |-> prefs.quiet]
  <1>1. batches' = {bundle(g) : g \in Groups}
    BY DEF Select
  <1>2. \A g \in Groups : g # {} /\ g \subseteq Selected
    BY GroupsAreApart
  <1>3. prefs.quiet \in BOOLEAN
    BY DEF TypeInv, Pref
  <1>4. ASSUME NEW g \in Groups
        PROVE  /\ bundle(g) \in Batch /\ bundle(g).ids = g
               /\ \A d \in g : d \in Delivery /\ Open(d) /\ delivery[d].attempts < bundle(g).attempts
    <2>1. /\ AttemptsOf(g) \in 1..MaxAttempts
          /\ \A d \in g : delivery[d].attempts < AttemptsOf(g)
      BY <1>2, AttemptsIs
    <2>2. \A d \in g : d \in Delivery /\ Open(d)
      BY <1>2 DEF Selected
    <2>3. bundle(g) \in Batch
      BY <1>3, <2>1, <2>2 DEF Batch
    <2> QED
      BY <2>1, <2>2, <2>3
  <1> HIDE DEF bundle
  <1>5. ASSUME NEW b \in batches'
        PROVE  /\ b \in Batch
               /\ \A d \in b.ids : d \in Delivery /\ Open(d) /\ delivery[d].attempts < b.attempts
    <2>1. PICK g \in Groups : b = bundle(g)
      BY <1>1, <1>5
    <2> QED
      BY <1>4, <2>1
  <1>6. ASSUME NEW b \in batches', NEW c \in batches', b.ids \cap c.ids # {}
        PROVE  b = c
    <2>1. PICK g \in Groups : b = bundle(g)
      BY <1>1, <1>6
    <2>2. PICK h \in Groups : c = bundle(h)
      BY <1>1, <1>6
    <2>3. g \cap h # {}
      BY <1>4, <1>6, <2>1, <2>2
    <2>4. g = h
      BY <2>3, GroupsAreApart
    <2> QED
      BY <2>1, <2>2, <2>4
  <1>7. Selected = {} => batches' = {}
    BY <1>1, <1>2
  <1> QED
    BY <1>5, <1>6, <1>7

-----------------------------------------------------------------------------
(* What the evaluation writes.                                              *)

\* The row of a rule after the evaluation.
LEMMA RowAfterIs ==
    ASSUME TypeInv, NEW r \in Rule, read[r] \in Found
    PROVE  LET row == RowAfter(r)
           IN  /\ row \in Row /\ row.on = rule[r].on
               /\ row.active = IF read[r].cond = read[r].active THEN rule[r].active
                               ELSE read[r].cond
               /\ row.keyed => rule[r].keyed \/ r \in hits
               /\ row.had <=> rule[r].had \/ r \in hits
  <1> DEFINE active == IF read[r].cond = read[r].active THEN rule[r].active
                       ELSE read[r].cond
             had == rule[r].had \/ r \in hits
             keyed == rule[r].keyed \/ r \in (hits \ moved)
  <1>1. rule[r] \in Row
    BY DEF TypeInv
  <1>2. RowAfter(r) = [rule[r] EXCEPT !.active = active, !.had = had, !.keyed = keyed]
    BY <1>1 DEF RowAfter, Row
  <1>3. active \in BOOLEAN /\ had \in BOOLEAN /\ keyed \in BOOLEAN
    <2>1. active \in BOOLEAN
      BY <1>1 DEF Row, Found
    <2>2. had \in BOOLEAN
      BY Zenon
    <2>3. keyed \in BOOLEAN
      BY Zenon
    <2> QED
      BY <2>1, <2>2, <2>3
  <1>4. (keyed => rule[r].keyed \/ r \in hits) /\ (had <=> rule[r].had \/ r \in hits)
    BY Zenon
  <1>5. active = IF read[r].cond = read[r].active THEN rule[r].active ELSE read[r].cond
    BY Zenon
  <1> HIDE DEF active, had, keyed
  <1>6. /\ RowAfter(r) \in Row /\ RowAfter(r).on = rule[r].on
        /\ RowAfter(r).active = active /\ RowAfter(r).had = had /\ RowAfter(r).keyed = keyed
    BY <1>1, <1>2, <1>3 DEF Row
  <1> QED
    BY <1>4, <1>5, <1>6, Zenon

\* The deliveries of the events in the transaction, and no others, are queued.
LEMMA CommitStep ==
    ASSUME TypeInv, EvalInv, Commit
    PROVE  /\ delivery' \in [Delivery -> Queued]
           /\ \A d \in Delivery :
                 \/ delivery'[d] = delivery[d]
                 \/ /\ d[1][1] \in hits /\ d[1][2] = events[d[1][1]] + 1
                    /\ delivery'[d].status = "pending" /\ delivery'[d].attempts = 0
           /\ events' \in [Rule -> 0..MaxEvents]
           /\ \A r \in Rule : events'[r] = IF r \in hits THEN events[r] + 1 ELSE events[r]
  <1>0. /\ pc = "commit"
        /\ \A q \in queued : /\ q.id \in Delivery /\ q.wait \in BOOLEAN
                             /\ q.id[1][1] \in hits /\ q.id[1][2] = events[q.id[1][1]] + 1
        /\ \A r \in hits : events[r] < MaxEvents
    BY DEF Commit, EvalInv
  <1> DEFINE wait(d) == (CHOOSE q \in queued : q.id = d).wait
             new(d) == [status |-> "pending", attempts |-> 0, wait |-> wait(d)]
  <1>1. delivery' = [d \in Delivery |-> IF \E q \in queued : q.id = d THEN new(d)
                                        ELSE delivery[d]]
    BY DEF Commit
  <1>2. ASSUME NEW d \in Delivery, \E q \in queued : q.id = d
        PROVE  /\ new(d) \in Queued /\ new(d).status = "pending" /\ new(d).attempts = 0
               /\ d[1][1] \in hits /\ d[1][2] = events[d[1][1]] + 1
    <2>1. wait(d) \in BOOLEAN
      BY <1>0, <1>2
    <2> HIDE DEF wait
    <2>2. new(d) \in Queued /\ new(d).status = "pending" /\ new(d).attempts = 0
      BY <2>1, AlertAssumption DEF Queued, Statuses
    <2> QED
      BY <1>0, <1>2, <2>2
  <1>3. \A d \in Delivery : delivery[d] \in Queued
    BY DEF TypeInv
  <1> HIDE DEF new
  <1>4. delivery' \in [Delivery -> Queued]
    BY <1>1, <1>2, <1>3
  <1>5. \A d \in Delivery :
            \/ delivery'[d] = delivery[d]
            \/ /\ d[1][1] \in hits /\ d[1][2] = events[d[1][1]] + 1
               /\ delivery'[d].status = "pending" /\ delivery'[d].attempts = 0
    BY <1>1, <1>2
  <1>6. events' = [r \in Rule |-> IF r \in hits THEN events[r] + 1 ELSE events[r]]
    BY DEF Commit
  <1>7. events' \in [Rule -> 0..MaxEvents]
    <2>1. \A r \in Rule : events[r] \in 0..MaxEvents
      BY DEF TypeInv
    <2>2. \A r \in Rule : r \in hits => events[r] + 1 \in 0..MaxEvents
      BY <1>0, <2>1, AlertAssumption
    <2> QED
      BY <1>6, <2>1, <2>2
  <1> QED
    BY <1>4, <1>5, <1>6, <1>7

-----------------------------------------------------------------------------
(* The rules.                                                               *)

\* A rule whose row has an event of the current source time had an event.
LEMMA RuleKept ==
    ASSUME IInv, [Next]_vars
    PROVE  RuleInv' /\ rule' \in [Rule -> Row]
  <1>0. TypeInv /\ RuleInv /\ EvalInv
    BY DEF IInv
  <1>1. NewRow \in Row /\ NoRow \in Row /\ ~NewRow.keyed /\ ~NoRow.keyed
    BY DEF NewRow, NoRow, Row
  <1>2. ASSUME NEW r \in Rule, SourceChanges(r)
        PROVE  RuleInv' /\ rule' \in [Rule -> Row]
    <2>1. PICK later \in BOOLEAN : rule' = [rule EXCEPT ![r].keyed = @ /\ ~later]
      BY <1>2 DEF SourceChanges
    <2> DEFINE row == [rule[r] EXCEPT !.keyed = rule[r].keyed /\ ~later]
    <2>2. rule' = [rule EXCEPT ![r] = row]
      BY <2>1
    <2>3. rule[r] \in Row /\ (rule[r].keyed => rule[r].had)
      BY <1>0 DEF TypeInv, RuleInv
    <2>4. (rule[r].keyed /\ ~later) \in BOOLEAN
      BY Zenon
    <2>5. row \in Row /\ row.had = rule[r].had /\ (row.keyed = (rule[r].keyed /\ ~later))
      BY <2>3, <2>4 DEF Row
    <2>6. row.keyed => row.had
      BY <2>3, <2>5, Zenon
    <2> HIDE DEF row
    <2> QED
      BY <1>0, <2>2, <2>5, <2>6 DEF TypeInv, RuleInv
  <1>3. ASSUME NEW r \in Rule, CreateAlertRule(r) \/ DeleteAlertRule(r)
        PROVE  RuleInv' /\ rule' \in [Rule -> Row]
    BY <1>0, <1>1, <1>3 DEF CreateAlertRule, DeleteAlertRule, TypeInv, RuleInv
  <1>4. CASE Commit
    <2>1. rule' = [r \in Rule |-> IF r \in DOMAIN read \ gone THEN RowAfter(r) ELSE rule[r]]
      BY <1>4 DEF Commit
    <2>2. \A r \in DOMAIN read : r \in Rule /\ read[r] \in Found
      BY <1>0, <1>4 DEF Commit, EvalInv
    <2>3. ASSUME NEW r \in Rule
          PROVE  rule'[r] \in Row /\ (rule'[r].keyed => rule'[r].had)
      <3>0. rule[r] \in Row /\ (rule[r].keyed => rule[r].had)
        BY <1>0 DEF TypeInv, RuleInv
      <3>1. CASE r \in DOMAIN read \ gone
        <4>1. rule'[r] = RowAfter(r)
          BY <2>1, <3>1
        <4>2. /\ RowAfter(r) \in Row
              /\ RowAfter(r).keyed => rule[r].keyed \/ r \in hits
              /\ RowAfter(r).had <=> rule[r].had \/ r \in hits
          BY <1>0, <2>2, <3>1, RowAfterIs
        <4> QED
          BY <3>0, <4>1, <4>2, Zenon
      <3>2. CASE r \notin DOMAIN read \ gone
        BY <2>1, <3>0, <3>2
      <3> QED
        BY <3>1, <3>2
    <2> QED
      BY <2>1, <2>3 DEF RuleInv
  <1>5. CASE rule' = rule
    BY <1>0, <1>5 DEF RuleInv, TypeInv
  <1>6. CASE \/ Watcher /\ ~Commit
             \/ EvaluationFails \/ AcceptedButUnknown \/ PublishFails \/ Kill
             \/ UpdatePreferences
             \/ \E s \in Sub : UpsertSubscription(s) \/ RevokeSubscription(s)
             \/ \E d \in Delivery : Due(d)
             \/ UNCHANGED vars
    <2>1. rule' = rule
      BY <1>6 DEF Watcher, Read, Decide, DecideOnDeletedRule, Prepare, Select, Hold,
           Push, MarkSent, MarkFailed, MarkRetry, EvaluationFails, AcceptedButUnknown,
           PublishFails, Kill, UpdatePreferences, UpsertSubscription, RevokeSubscription,
           Due, vars
    <2> QED
      BY <1>5, <2>1
  <1> QED
    BY <1>2, <1>3, <1>4, <1>6 DEF Next, Watcher

-----------------------------------------------------------------------------
(* Types.                                                                   *)

\* The pushes that Forget takes back had been counted.
LEMMA ForgetIs ==
    ASSUME TypeInv, PushInv, Forget
    PROVE  /\ tried' \in [Delivery -> Nat] /\ landed' \in [Delivery -> Nat]
           /\ \A d \in Delivery :
                 /\ tried'[d] = IF d \in Pushed THEN tried[d] - 1 ELSE tried[d]
                 /\ landed'[d] = IF d \in Pushed THEN 0 ELSE landed[d]
           /\ batches' = {} /\ batch' = {} /\ answer' \in Answer
  <1>1. /\ tried' = Uncount(tried, Pushed)
        /\ landed' = IF answer = "ok" THEN Uncount(landed, Pushed) ELSE landed
        /\ batches' = {} /\ batch' = {} /\ answer' \in Answer
    BY DEF Forget, Pushed, Answer
  <1>2. \A d \in Delivery : tried[d] \in Nat /\ landed[d] \in Nat
    BY DEF TypeInv
  <1>3. \A d \in Pushed \cap Delivery : /\ tried[d] > 0
                                        /\ landed[d] = IF answer = "ok" THEN 1 ELSE 0
    BY DEF PushInv
  <1>4. tried' = [d \in Delivery |-> IF d \in Pushed THEN tried[d] - 1 ELSE tried[d]]
    BY <1>1 DEF Uncount
  <1>5. landed' = [d \in Delivery |-> IF d \in Pushed THEN 0 ELSE landed[d]]
    <2>1. CASE answer = "ok"
      BY <1>1, <1>3, <2>1 DEF Uncount
    <2>2. CASE answer # "ok"
      BY <1>1, <1>3, <2>2 DEF TypeInv
    <2> QED
      BY <2>1, <2>2
  <1> HIDE DEF Pushed
  <1> QED
    BY <1>1, <1>2, <1>3, <1>4, <1>5

\* The answer that is lost had been counted.
LEMMA LostAnswerIs ==
    ASSUME TypeInv, PushInv, HandInv, AcceptedButUnknown
    PROVE  /\ landed' = [d \in Delivery |-> IF d \in Pushed THEN 0 ELSE landed[d]]
           /\ answer' = "again" /\ UNCHANGED <<batches, batch, tried, delivery>>
  <1>1. PICK b \in batch : /\ landed' = Uncount(landed, b.ids) /\ answer = "ok"
                           /\ answer' = "again" /\ UNCHANGED <<batches, batch, tried, delivery>>
    BY DEF AcceptedButUnknown
  <1>2. b.ids = Pushed
    <2>1. batch = {b}
      BY DEF HandInv
    <2> QED
      BY <2>1 DEF Pushed
  <1>3. \A d \in Delivery : d \in Pushed => landed[d] = 1
    BY <1>1 DEF PushInv
  <1> QED
    BY <1>1, <1>2, <1>3 DEF Uncount

\* Types are an invariant of every step.
LEMMA TypesKept ==
    ASSUME IInv, [Next]_vars
    PROVE  TypeInv'
  <1>0. TypeInv /\ HandInv /\ PushInv /\ EvalInv /\ RowsInv
    BY DEF IInv
  <1>r. rule' \in [Rule -> Row]
    BY RuleKept
  <1> USE <1>0, <1>r
  <1>1. ASSUME NEW r \in Rule, SourceChanges(r)
        PROVE  TypeInv'
    <2>1. PICK c, later \in BOOLEAN :
             /\ cond' = [cond EXCEPT ![r] = c] /\ clear' = [clear EXCEPT ![r] = @ \/ ~c]
             /\ UNCHANGED <<events, prefs, delivery, pc, batches, batch, answer, tried, landed>>
      BY <1>1 DEF SourceChanges, pub, counts
    <2>2. (clear[r] \/ ~c) \in BOOLEAN
      BY Zenon
    <2>3. cond' \in [Rule -> BOOLEAN] /\ clear' \in [Rule -> BOOLEAN]
      BY <2>1, <2>2 DEF TypeInv
    <2> QED
      BY <2>1, <2>3 DEF TypeInv
  <1>2. ASSUME NEW r \in Rule, CreateAlertRule(r) \/ DeleteAlertRule(r)
        PROVE  TypeInv'
    <2>1. /\ clear' \in [Rule -> BOOLEAN]
          /\ UNCHANGED <<cond, events, prefs, delivery, pc, batches, batch, answer, tried, landed>>
      BY <1>2 DEF CreateAlertRule, DeleteAlertRule, pub, counts, TypeInv
    <2> QED
      BY <2>1 DEF TypeInv
  <1>3. CASE UpdatePreferences \/ \E s \in Sub : UpsertSubscription(s)
    <2>1. prefs' \in Pref
      <3>1. CASE UpdatePreferences
        BY <3>1, AlertAssumption DEF UpdatePreferences
      <3>2. CASE \E s \in Sub : UpsertSubscription(s)
        BY <3>2 DEF UpsertSubscription, TypeInv, Pref
      <3> QED
        BY <1>3, <3>1, <3>2
    <2>2. UNCHANGED <<cond, events, delivery, pc, batches, batch, answer, clear, tried, landed>>
      BY <1>3 DEF UpdatePreferences, UpsertSubscription, pub, counts
    <2> QED
      BY <2>1, <2>2 DEF TypeInv
  <1>4. ASSUME NEW s \in Sub, RevokeSubscription(s)
        PROVE  TypeInv'
    <2>1. prefs' \in Pref
      BY <1>4 DEF RevokeSubscription, TypeInv, Pref
    <2>2. Cancel(OfSub(s)) /\ UNCHANGED <<cond, events, pc, batches, batch, answer, clear,
                                          tried, landed>>
      BY <1>4 DEF RevokeSubscription, pub, counts
    <2>3. delivery' \in [Delivery -> Queued]
      BY <2>2, CancelIs DEF OfSub
    <2> QED
      BY <2>1, <2>2, <2>3 DEF TypeInv
  <1>5. CASE Read \/ Decide \/ DecideOnDeletedRule \/ EvaluationFails
    <2>1. /\ pc' \in Places
          /\ UNCHANGED <<cond, events, prefs, delivery, batches, batch, answer, clear,
                         tried, landed>>
      BY <1>5 DEF Read, Decide, DecideOnDeletedRule, EvaluationFails, EndEvaluation,
           Places, pub, counts
    <2> QED
      BY <2>1 DEF TypeInv
  <1>6. CASE Commit
    <2>1. /\ pc' \in Places
          /\ UNCHANGED <<cond, prefs, batches, batch, answer, tried, landed>>
      BY <1>6 DEF Commit, EndEvaluation, Places, pub, counts
    <2>2. clear' = [r \in Rule |-> IF r \in hits THEN ~cond[r] ELSE clear[r]]
      BY <1>6 DEF Commit
    <2>3. \A r \in Rule : (~cond[r]) \in BOOLEAN /\ clear[r] \in BOOLEAN
      BY Zenon DEF TypeInv
    <2>4. clear' \in [Rule -> BOOLEAN]
      BY <2>2, <2>3
    <2> QED
      BY <1>6, <2>1, <2>4, CommitStep DEF TypeInv
  <1>7. CASE Prepare
    <2>1. PICK ids : ids \subseteq Delivery /\ Cancel(ids)
      BY <1>7, PrepareCancels
    <2>2. /\ pc' \in Places
          /\ UNCHANGED <<cond, events, prefs, batches, batch, answer, clear, tried, landed>>
      BY <1>7 DEF Prepare, Places, pub, counts
    <2>3. delivery' \in [Delivery -> Queued]
      BY <2>1, CancelIs
    <2> QED
      BY <2>2, <2>3 DEF TypeInv
  <1>8. CASE Select
    <2>1. \A b \in batches' : b \in Batch
      BY <1>8, SelectStep
    <2>2. /\ pc' \in Places
          /\ UNCHANGED <<cond, events, prefs, delivery, batch, answer, clear, tried, landed>>
      BY <1>8 DEF Select, Places, counts
    <2> QED
      BY <2>1, <2>2 DEF TypeInv
  <1>9. CASE Hold
    <2>1. PICK b \in batches :
             /\ MarkBatch(b, "retry", b.attempts - 1, TRUE)
             /\ batches' = batches \ {b} /\ pc' \in Places
             /\ UNCHANGED <<cond, events, prefs, batch, answer, clear, tried, landed>>
      BY <1>9 DEF Hold, Places, counts
    <2>2. b \in Batch /\ b.attempts - 1 \in 0..MaxAttempts /\ "retry" \in Statuses
      BY AlertAssumption DEF TypeInv, Batch, Statuses
    <2>3. delivery' \in [Delivery -> Queued]
      BY <2>1, <2>2, MarkIs
    <2> QED
      BY <2>1, <2>3 DEF TypeInv
  <1>10. CASE Push
    <2>1. PICK b \in batches, a \in Answer :
             /\ pc' = "mark" /\ batch' = {b} /\ batches' = batches \ {b} /\ answer' = a
             /\ tried' = [d \in Delivery |-> IF d \in b.ids THEN tried[d] + 1 ELSE tried[d]]
             /\ landed' = [d \in Delivery |->
                             IF d \in b.ids /\ a = "ok" THEN landed[d] + 1 ELSE landed[d]]
             /\ UNCHANGED <<cond, rule, events, prefs, delivery, clear>>
      BY <1>10 DEF Push
    <2>2. tried' \in [Delivery -> Nat] /\ landed' \in [Delivery -> Nat]
      <3>1. \A d \in Delivery : tried[d] \in Nat /\ landed[d] \in Nat
        BY DEF TypeInv
      <3> QED
        BY <2>1, <3>1
    <2> QED
      BY <2>1, <2>2 DEF TypeInv, Places
  <1>11. CASE MarkSent \/ MarkFailed \/ MarkRetry
    <2>1. PICK b \in batch, s \in Statuses, w \in BOOLEAN : MarkPushed(b, s, w)
      BY <1>11, MarkSteps
    <2>2. b \in Batch /\ b.attempts \in 0..MaxAttempts /\ MarkBatch(b, s, b.attempts, w)
      BY <2>1, AlertAssumption DEF TypeInv, Batch, MarkPushed
    <2>3. delivery' \in [Delivery -> Queued]
      BY <2>2, MarkIs
    <2>4. /\ pc' \in Places /\ batch' = {} /\ answer' \in Answer
          /\ UNCHANGED <<cond, events, prefs, batches, clear, tried, landed>>
      BY <2>1 DEF MarkPushed, NextBatch, Places, Answer, counts
    <2> QED
      BY <2>3, <2>4 DEF TypeInv
  <1>12. CASE AcceptedButUnknown
    <2>1. landed' \in [Delivery -> Nat] /\ answer' \in Answer
          /\ UNCHANGED <<batches, batch, tried, delivery>>
      BY <1>12, LostAnswerIs DEF TypeInv, Answer
    <2>2. UNCHANGED <<cond, events, prefs, pc, clear>>
      BY <1>12 DEF AcceptedButUnknown
    <2> QED
      BY <2>1, <2>2 DEF TypeInv
  <1>13. CASE PublishFails \/ Kill
    <2>1. Forget /\ pc' \in Places /\ UNCHANGED <<cond, events, prefs, delivery, clear>>
      BY <1>13 DEF PublishFails, Kill, Places
    <2>2. /\ tried' \in [Delivery -> Nat] /\ landed' \in [Delivery -> Nat]
          /\ batches' = {} /\ batch' = {} /\ answer' \in Answer
      BY <2>1, ForgetIs
    <2> QED
      BY <2>1, <2>2 DEF TypeInv
  <1>14. ASSUME NEW d \in Delivery, Due(d)
         PROVE  TypeInv'
    <2>1. delivery' \in [Delivery -> Queued]
      BY <1>14 DEF Due, TypeInv, Queued
    <2>2. UNCHANGED <<cond, events, prefs, pc, batches, batch, answer, clear, tried, landed>>
      BY <1>14 DEF Due, pub, counts
    <2> QED
      BY <2>1, <2>2 DEF TypeInv
  <1>15. CASE UNCHANGED vars
    BY <1>15 DEF vars, TypeInv, pub, counts
  <1> QED
    BY <1>1, <1>2, <1>3, <1>4, <1>5, <1>6, <1>7, <1>8, <1>9, <1>10, <1>11, <1>12, <1>13,
       <1>14, <1>15 DEF Next, Watcher

-----------------------------------------------------------------------------
(* Crossings.                                                               *)

\* A rule that may fire had its condition false since its last event: an event
\* makes the condition active, and only a condition that is false, or a new
\* row, makes it inactive again.
LEMMA ClearKept ==
    ASSUME IInv, [Next]_vars
    PROVE  ClearInv'
  <1>0. TypeInv /\ EvalInv /\ ClearInv
    BY DEF IInv
  <1>1. ASSUME NEW r \in Rule, SourceChanges(r)
        PROVE  ClearInv'
    <2>1. PICK c, later \in BOOLEAN :
             /\ cond' = [cond EXCEPT ![r] = c] /\ clear' = [clear EXCEPT ![r] = @ \/ ~c]
             /\ rule' = [rule EXCEPT ![r].keyed = @ /\ ~later]
      BY <1>1 DEF SourceChanges
    <2>2. \A x \in Rule : rule'[x].on = rule[x].on /\ rule'[x].active = rule[x].active
      BY <1>0, <2>1 DEF TypeInv, Row
    <2>3. \A x \in Rule \ {r} : cond'[x] = cond[x] /\ clear'[x] = clear[x]
      BY <1>0, <2>1 DEF TypeInv
    <2>4. cond'[r] = c /\ (clear'[r] = (clear[r] \/ ~c))
      BY <1>0, <2>1 DEF TypeInv
    <2>5. ASSUME NEW x \in Rule
          PROVE  (~cond'[x] => clear'[x]) /\ (rule'[x].on /\ ~rule'[x].active => clear'[x])
      <3>1. (~cond[x] => clear[x]) /\ (rule[x].on /\ ~rule[x].active => clear[x])
        BY <1>0 DEF ClearInv
      <3>2. CASE x = r
        <4>1. (~cond'[r] => clear'[r]) /\ (clear[r] => clear'[r])
          BY <2>4, Zenon
        <4> QED
          BY <2>2, <3>1, <3>2, <4>1, Zenon
      <3>3. CASE x # r
        BY <2>2, <2>3, <3>1, <3>3, Zenon
      <3> QED
        BY <3>2, <3>3
    <2> QED
      BY <2>5 DEF ClearInv
  <1>2. ASSUME NEW r \in Rule, CreateAlertRule(r)
        PROVE  ClearInv'
    BY <1>0, <1>2 DEF CreateAlertRule, ClearInv, TypeInv
  <1>3. ASSUME NEW r \in Rule, DeleteAlertRule(r)
        PROVE  ClearInv'
    <2>1. /\ \A x \in Rule : rule'[x] = IF x = r THEN NoRow ELSE rule[x]
          /\ clear' = clear /\ cond' = cond /\ ~NoRow.on
      BY <1>0, <1>3 DEF DeleteAlertRule, NoRow, NewRow, TypeInv
    <2> QED
      BY <1>0, <2>1 DEF ClearInv
  <1>4. CASE Commit
    <2>1. /\ rule' = [r \in Rule |-> IF r \in DOMAIN read \ gone THEN RowAfter(r) ELSE rule[r]]
          /\ clear' = [r \in Rule |-> IF r \in hits THEN ~cond[r] ELSE clear[r]]
          /\ cond' = cond /\ pc = "commit"
      BY <1>4 DEF Commit
    <2> SUFFICES ASSUME NEW r \in Rule
                 PROVE  /\ ~cond[r] => clear'[r]
                        /\ rule'[r].on /\ ~rule'[r].active => clear'[r]
      BY <2>1 DEF ClearInv
    <2>2. (~cond[r] => clear[r]) /\ (rule[r].on /\ ~rule[r].active => clear[r])
      BY <1>0 DEF ClearInv
    <2>3. CASE r \in hits
      <3>1. clear'[r] = ~cond[r]
        BY <2>1, <2>3
      <3>2. r \in DOMAIN read \ gone /\ read[r].cond /\ ~read[r].active /\ read[r] \in Found
        BY <1>0, <2>1, <2>3 DEF EvalInv
      <3>3. rule'[r] = RowAfter(r)
        BY <2>1, <3>2
      <3>4. RowAfter(r).active
        <4>1. RowAfter(r).active = IF read[r].cond = read[r].active THEN rule[r].active
                                   ELSE read[r].cond
          BY <1>0, <3>2, RowAfterIs
        <4> QED
          BY <3>2, <4>1
      <3> QED
        BY <3>1, <3>3, <3>4, Zenon
    <2>4. CASE r \notin hits
      <3>1. clear'[r] = clear[r]
        BY <2>1, <2>4
      <3>2. CASE r \in DOMAIN read \ gone
        <4>1. read[r] \in Found /\ (~read[r].cond \/ ~read[r].active => clear[r])
          BY <1>0, <2>1, <3>2 DEF EvalInv
        <4>2. /\ rule'[r] = RowAfter(r) /\ RowAfter(r).on = rule[r].on
              /\ RowAfter(r).active = IF read[r].cond = read[r].active THEN rule[r].active
                                      ELSE read[r].cond
          BY <1>0, <2>1, <3>2, <4>1, RowAfterIs
        <4>3. CASE read[r].cond = read[r].active
          BY <2>2, <3>1, <4>2, <4>3, Zenon
        <4>4. CASE read[r].cond # read[r].active
          <5>1. RowAfter(r).active = read[r].cond
            BY <4>2, <4>4
          <5> QED
            BY <2>2, <3>1, <4>1, <4>2, <5>1, Zenon
        <4> QED
          BY <4>3, <4>4
      <3>3. CASE r \notin DOMAIN read \ gone
        <4>1. rule'[r] = rule[r]
          BY <2>1, <3>3
        <4> QED
          BY <2>2, <3>1, <4>1, Zenon
      <3> QED
        BY <3>2, <3>3
    <2> QED
      BY <2>3, <2>4
  <1>5. CASE \/ Watcher /\ ~Commit
             \/ EvaluationFails \/ AcceptedButUnknown \/ PublishFails \/ Kill
             \/ UpdatePreferences
             \/ \E s \in Sub : UpsertSubscription(s) \/ RevokeSubscription(s)
             \/ \E d \in Delivery : Due(d)
             \/ UNCHANGED vars
    <2>1. UNCHANGED <<rule, cond, clear>>
      BY <1>5 DEF Watcher, Read, Decide, DecideOnDeletedRule, Prepare, Select, Hold,
           Push, MarkSent, MarkFailed, MarkRetry, EvaluationFails, AcceptedButUnknown,
           PublishFails, Kill, UpdatePreferences, UpsertSubscription, RevokeSubscription,
           Due, vars
    <2> QED
      BY <1>0, <2>1 DEF ClearInv
  <1> QED
    BY <1>1, <1>2, <1>3, <1>4, <1>5 DEF Next, Watcher

\* What the open evaluation has read and decided stays true of the rules it
\* did not find deleted.
LEMMA EvalKept ==
    ASSUME IInv, [Next]_vars
    PROVE  EvalInv'
  <1>0. TypeInv /\ EvalInv /\ ClearInv
    BY DEF IInv
  <1>1. CASE Read
    <2>1. PICK cooling \in SUBSET {r \in Evaluated : rule[r].had} :
             /\ read' = [r \in Evaluated |->
                           [cond |-> cond[r], active |-> rule[r].active,
                            keyed |-> rule[r].keyed,
                            cooling |-> r \in cooling /\ cond[r] /\ ~rule[r].active]]
             /\ pc' = "decide" /\ UNCHANGED <<events, clear>>
      BY <1>1 DEF Read
    <2>2. ASSUME NEW r \in DOMAIN read'
          PROVE  /\ r \in Rule /\ events[r] < MaxEvents /\ read'[r] \in Found
                 /\ ~read'[r].cond \/ ~read'[r].active => clear[r]
      <3>1. r \in Rule /\ rule[r].on /\ events[r] < MaxEvents
        BY <2>1, <2>2 DEF Evaluated
      <3>2. cond[r] \in BOOLEAN /\ rule[r].active \in BOOLEAN /\ rule[r].keyed \in BOOLEAN
        BY <1>0, <3>1 DEF TypeInv, Row
      <3>3. (r \in cooling /\ cond[r] /\ ~rule[r].active) \in BOOLEAN
        BY Zenon
      <3>4. /\ read'[r] \in Found /\ read'[r].cond = cond[r]
            /\ read'[r].active = rule[r].active
        BY <2>1, <2>2, <3>2, <3>3 DEF Found
      <3>5. (~cond[r] => clear[r]) /\ (~rule[r].active => clear[r])
        BY <1>0, <3>1 DEF ClearInv
      <3> QED
        BY <3>1, <3>4, <3>5, Zenon
    <2> QED
      BY <2>1, <2>2 DEF EvalInv
  <1>2. CASE Decide
    <2>1. PICK late \in BOOLEAN :
             /\ pc = "decide" /\ Fresh \cap gone = {} /\ pc' = "commit" /\ hits' = Fresh
             /\ queued' = {[id |-> d, wait |-> late] : d \in UNION {QueueFor(r) : r \in Fresh}}
             /\ UNCHANGED <<events, clear, read, gone>>
      BY <1>2 DEF Decide
    <2>2. \A r \in Fresh : /\ r \in DOMAIN read /\ read[r].cond /\ ~read[r].active
                           /\ r \in Crossed
      BY DEF Fresh, Crossed
    <2>3. ASSUME NEW r \in Fresh, NEW d \in QueueFor(r)
          PROVE  d \in Delivery /\ d[1][1] = r /\ d[1][2] = events[r] + 1
      <3>1. r \in Rule /\ events[r] \in 0..MaxEvents /\ events[r] < MaxEvents
        BY <1>0, <2>1, <2>2 DEF EvalInv, TypeInv
      <3>2. PICK s \in Sub : d = <<<<r, events[r] + 1>>, s>>
        BY <2>3 DEF QueueFor, Active
      <3>3. events[r] + 1 \in 1..MaxEvents
        BY <3>1, AlertAssumption
      <3> QED
        BY <3>1, <3>2, <3>3 DEF Delivery, Event
    <2>4. ASSUME NEW q \in queued'
          PROVE  /\ q \in [id : Delivery, wait : BOOLEAN] /\ q.id[1][1] \in Fresh
                 /\ q.id[1][2] = events[q.id[1][1]] + 1
      <3>1. PICK r \in Fresh : \E d \in QueueFor(r) : q = [id |-> d, wait |-> late]
        BY <2>1
      <3> QED
        BY <2>3, <3>1
    <2> QED
      BY <1>0, <2>1, <2>2, <2>4 DEF EvalInv
  <1>3. CASE \/ DecideOnDeletedRule \/ Commit \/ Prepare \/ Select \/ Hold \/ Push
             \/ MarkSent \/ MarkFailed \/ MarkRetry \/ EvaluationFails \/ AcceptedButUnknown
             \/ PublishFails \/ Kill
    <2>1. pc' \notin {"decide", "commit"}
      BY <1>3 DEF DecideOnDeletedRule, Commit, Prepare, Select, Hold, Push, MarkSent,
           MarkFailed, MarkRetry, EvaluationFails, AcceptedButUnknown, PublishFails, Kill,
           EndEvaluation, NextBatch
    <2> QED
      BY <2>1 DEF EvalInv
  <1>4. ASSUME NEW r \in Rule, SourceChanges(r) \/ CreateAlertRule(r)
        PROVE  EvalInv'
    <2>1. UNCHANGED <<pc, read, gone, hits, queued, events>>
      BY <1>4 DEF SourceChanges, CreateAlertRule, eval
    <2>2. \A x \in Rule : clear[x] => clear'[x]
      <3>1. CASE SourceChanges(r)
        <4>1. PICK c \in BOOLEAN : clear' = [clear EXCEPT ![r] = @ \/ ~c]
          BY <3>1 DEF SourceChanges
        <4>2. clear'[r] = (clear[r] \/ ~c) /\ \A x \in Rule \ {r} : clear'[x] = clear[x]
          BY <1>0, <4>1 DEF TypeInv
        <4> QED
          BY <4>2, Zenon
      <3>2. CASE CreateAlertRule(r)
        BY <1>0, <3>2 DEF CreateAlertRule, TypeInv
      <3> QED
        BY <1>4, <3>1, <3>2
    <2> QED
      BY <1>0, <2>1, <2>2 DEF EvalInv
  <1>5. ASSUME NEW r \in Rule, DeleteAlertRule(r)
        PROVE  EvalInv'
    <2>1. /\ UNCHANGED <<pc, read, hits, queued, events, clear>> /\ ~Locked(r)
          /\ gone' \subseteq gone \cup {r}
      BY <1>5 DEF DeleteAlertRule
    <2>2. pc = "commit" => r \notin hits
      <3> SUFFICES ASSUME pc = "commit", r \in hits PROVE FALSE
        OBVIOUS
      <3>1. r \in DOMAIN read /\ read[r].cond /\ ~read[r].active
        BY <1>0 DEF EvalInv
      <3>2. read[r].cond # read[r].active
        BY <3>1, Zenon
      <3>3. hits \cap gone = {}
        BY <1>0 DEF EvalInv
      <3>4. r \notin gone
        BY <3>3
      <3> QED
        BY <2>1, <3>1, <3>2, <3>4 DEF Locked
    <2> QED
      BY <1>0, <2>1, <2>2 DEF EvalInv
  <1>6. CASE \/ UpdatePreferences
             \/ \E s \in Sub : UpsertSubscription(s) \/ RevokeSubscription(s)
             \/ \E d \in Delivery : Due(d)
             \/ UNCHANGED vars
    <2>1. UNCHANGED <<pc, read, gone, hits, queued, events, clear>>
      BY <1>6 DEF UpdatePreferences, UpsertSubscription, RevokeSubscription, Due, vars, eval
    <2> QED
      BY <1>0, <2>1 DEF EvalInv
  <1> QED
    BY <1>1, <1>2, <1>3, <1>4, <1>5, <1>6 DEF Next, Watcher

-----------------------------------------------------------------------------
(* Deliveries.                                                              *)

\* The steps that leave the deliveries, their events and the publisher alone.
LEMMA QuietSteps ==
    ASSUME \/ Read \/ Decide \/ DecideOnDeletedRule \/ EvaluationFails \/ UpdatePreferences
           \/ (\E r \in Rule : SourceChanges(r) \/ CreateAlertRule(r) \/ DeleteAlertRule(r))
           \/ (\E s \in Sub : UpsertSubscription(s)) \/ UNCHANGED vars
    PROVE  /\ UNCHANGED <<delivery, events, batches, batch, answer, tried, landed, forgotten>>
           /\ pc' = pc \/ {pc, pc'} \cap {"push", "mark"} = {}
  BY DEF Read, Decide, DecideOnDeletedRule, EvaluationFails, EndEvaluation,
     UpdatePreferences, SourceChanges, CreateAlertRule, DeleteAlertRule,
     UpsertSubscription, vars, pub, counts

\* The two steps that cancel.
LEMMA CancelSteps ==
    ASSUME Prepare \/ \E s \in Sub : RevokeSubscription(s)
    PROVE  /\ \E ids : ids \subseteq Delivery /\ Cancel(ids)
           /\ UNCHANGED <<events, batches, batch, answer, tried, landed>>
           /\ pc' = pc \/ {pc, pc'} \cap {"push", "mark"} = {}
  BY PrepareCancels DEF Prepare, RevokeSubscription, OfSub, pub, counts

\* The time of a delivery comes: nothing else of it changes.
LEMMA DueIs ==
    ASSUME TypeInv, NEW e \in Delivery, Due(e)
    PROVE  /\ \A d \in Delivery : /\ delivery'[d].status = delivery[d].status
                                  /\ delivery'[d].attempts = delivery[d].attempts
           /\ UNCHANGED <<events, pc, batches, batch, answer, tried, landed, forgotten>>
  BY DEF Due, TypeInv, Queued, pub, counts

\* A batch that is held back or marked.
LEMMA HoldIs ==
    ASSUME TypeInv, HandInv, Hold
    PROVE  \E b \in batches :
              /\ \A d \in Delivery \ b.ids : delivery'[d] = delivery[d]
              /\ \A d \in b.ids : /\ d \in Delivery /\ delivery'[d].status = "retry"
                                  /\ delivery'[d].attempts = b.attempts - 1
              /\ b \in Batch /\ batches' = batches \ {b} /\ batch = {}
              /\ pc = "push" /\ pc' = IF batches' = {} THEN "read" ELSE "push"
              /\ UNCHANGED <<events, batch, answer, tried, landed, forgotten>>
  <1>1. PICK b \in batches :
           /\ MarkBatch(b, "retry", b.attempts - 1, TRUE) /\ pc = "push"
           /\ batches' = batches \ {b} /\ pc' = IF batches' = {} THEN "read" ELSE "push"
           /\ UNCHANGED <<events, batch, answer, tried, landed, forgotten>>
    BY DEF Hold, counts
  <1>2. b \in Batch /\ b.attempts - 1 \in 0..MaxAttempts /\ "retry" \in Statuses
    BY AlertAssumption DEF TypeInv, Batch, Statuses
  <1>3. batch = {}
    BY <1>1 DEF HandInv
  <1>4. PICK n \in 0..MaxAttempts : n = b.attempts - 1
    BY <1>2
  <1>n. PICK w \in BOOLEAN : MarkBatch(b, "retry", n, w)
    BY <1>1, <1>4
  <1>5. /\ \A d \in Delivery \ b.ids : delivery'[d] = delivery[d]
        /\ \A d \in b.ids : /\ d \in Delivery /\ delivery'[d].status = "retry"
                            /\ delivery'[d].attempts = n
    BY <1>2, <1>n, MarkIs
  <1> QED
    BY <1>1, <1>2, <1>3, <1>4, <1>5

\* The same of the batch that was pushed.
LEMMA MarkedIs ==
    ASSUME TypeInv, HandInv, MarkSent \/ MarkFailed \/ MarkRetry
    PROVE  \E b \in batch, s \in Statuses :
              /\ \A d \in Delivery \ b.ids : delivery'[d] = delivery[d]
              /\ \A d \in b.ids : /\ d \in Delivery /\ delivery'[d].status = s
                                  /\ delivery'[d].attempts = b.attempts
              /\ b \in Batch /\ batch = {b} /\ batch' = {} /\ Outcome(b, s) /\ Pushed = b.ids
              /\ pc = "mark" /\ pc' = IF batches = {} THEN "read" ELSE "push"
              /\ UNCHANGED <<events, batches, tried, landed, forgotten>>
  <1>1. PICK b \in batch, s \in Statuses, w \in BOOLEAN : MarkPushed(b, s, w)
    BY MarkSteps
  <1>2. b \in Batch /\ b.attempts \in 0..MaxAttempts /\ MarkBatch(b, s, b.attempts, w)
    BY <1>1, AlertAssumption DEF TypeInv, Batch, MarkPushed
  <1>3. /\ \A d \in Delivery \ b.ids : delivery'[d] = delivery[d]
        /\ \A d \in b.ids : /\ d \in Delivery /\ delivery'[d].status = s
                            /\ delivery'[d].attempts = b.attempts
    BY <1>2, MarkIs
  <1>4. batch = {b} /\ Pushed = b.ids
    <2>1. batch = {b}
      BY DEF HandInv
    <2> QED
      BY <2>1 DEF Pushed
  <1>5. /\ batch' = {} /\ Outcome(b, s) /\ pc = "mark"
        /\ pc' = IF batches = {} THEN "read" ELSE "push"
        /\ UNCHANGED <<events, batches, tried, landed, forgotten>>
    BY <1>1 DEF MarkPushed, NextBatch, counts
  <1> QED
    BY <1>2, <1>3, <1>4, <1>5

\* The steps of the publisher that leave the deliveries alone.
LEMMA OtherPublisherSteps ==
    ASSUME Select \/ Push \/ AcceptedButUnknown \/ PublishFails \/ Kill
    PROVE  UNCHANGED <<delivery, events, forgotten>>
  BY DEF Select, Push, AcceptedButUnknown, PublishFails, Kill

\* Next, by what a step does to the deliveries.
LEMMA StepKinds ==
    ASSUME [Next]_vars
    PROVE  \/ \/ Read \/ Decide \/ DecideOnDeletedRule \/ EvaluationFails \/ UpdatePreferences
              \/ (\E r \in Rule : SourceChanges(r) \/ CreateAlertRule(r) \/ DeleteAlertRule(r))
              \/ (\E s \in Sub : UpsertSubscription(s)) \/ UNCHANGED vars
           \/ Prepare \/ (\E s \in Sub : RevokeSubscription(s))
           \/ (\E d \in Delivery : Due(d)) \/ Commit \/ Hold
           \/ (MarkSent \/ MarkFailed \/ MarkRetry)
           \/ Select \/ Push \/ AcceptedButUnknown \/ PublishFails \/ Kill
  BY DEF Next, Watcher

\* Who is in hand, and who is pushed.
LEMMA InHandIs ==
    /\ \A d : d \in InHand <=> \E b \in batches \cup batch : d \in b.ids
    /\ \A d : d \in Pushed <=> \E b \in batch : d \in b.ids
  BY DEF InHand, Pushed

\* Deliveries are of events that happened, and are open only while they have
\* attempts left.
LEMMA RowsKept ==
    ASSUME IInv, [Next]_vars
    PROVE  RowsInv'
  <1>0. TypeInv /\ RowsInv /\ HandInv /\ EvalInv
    BY DEF IInv
  <1>n. \A d \in Delivery : /\ delivery[d].status \in Statuses
                            /\ delivery[d].attempts \in 0..MaxAttempts
                            /\ d[1][1] \in Rule /\ d[1][2] \in Nat
                            /\ events[d[1][1]] \in Nat
    BY <1>0, DeliveryParts DEF TypeInv, Queued
  <1>1. CASE Prepare \/ \E s \in Sub : RevokeSubscription(s)
    <2>1. events' = events
          /\ \A d \in Delivery :
                \/ delivery'[d] = delivery[d]
                \/ /\ Open(d) /\ delivery'[d].status = "cancelled"
                   /\ delivery'[d].attempts = delivery[d].attempts
      BY <1>0, <1>1, CancelSteps, CancelIs
    <2> QED
      BY <1>0, <2>1 DEF RowsInv, Open
  <1>2. CASE Commit
    <2>1. \A d \in Delivery :
             \/ delivery'[d] = delivery[d]
             \/ /\ d[1][2] = events'[d[1][1]]
                /\ delivery'[d].status = "pending" /\ delivery'[d].attempts = 0
      BY <1>0, <1>2, CommitStep, DeliveryParts
    <2>2. \A d \in Delivery : events[d[1][1]] <= events'[d[1][1]] /\ events'[d[1][1]] \in Nat
      BY <1>0, <1>2, <1>n, CommitStep
    <2>3. ASSUME NEW d \in Delivery
          PROVE  /\ delivery'[d].status # "none" => d[1][2] <= events'[d[1][1]]
                 /\ delivery'[d].status = "none" => delivery'[d].attempts = 0
                 /\ delivery'[d].status \in {"sent", "failed"} => delivery'[d].attempts > 0
                 /\ delivery'[d].status \in {"pending", "retry"} =>
                       delivery'[d].attempts < MaxAttempts
      <3>1. CASE delivery'[d] = delivery[d]
        <4>1. delivery[d].status # "none" => d[1][2] <= events[d[1][1]]
          BY <1>0 DEF RowsInv
        <4>2. delivery[d].status # "none" => d[1][2] <= events'[d[1][1]]
          BY <4>1, <2>2, <1>n
        <4> QED
          BY <1>0, <3>1, <4>2 DEF RowsInv, Open
      <3>2. CASE /\ d[1][2] = events'[d[1][1]]
                 /\ delivery'[d].status = "pending" /\ delivery'[d].attempts = 0
        BY <1>n, <2>2, <3>2, AlertAssumption
      <3> QED
        BY <2>1, <3>1, <3>2
    <2> QED
      BY <2>3 DEF RowsInv, Open
  <1>3. ASSUME NEW b \in batches \cup batch, NEW s \in {"sent", "failed", "retry"},
               NEW n \in 0..MaxAttempts, events' = events,
               \A d \in Delivery \ b.ids : delivery'[d] = delivery[d],
               \A d \in b.ids : /\ d \in Delivery /\ delivery'[d].status = s
                                /\ delivery'[d].attempts = n,
               s \in {"sent", "failed"} => n > 0, s = "retry" => n < MaxAttempts
        PROVE  RowsInv'
    <2>1. \A d \in b.ids : delivery[d].status # "none"
      BY <1>0 DEF HandInv
    <2>2. ASSUME NEW d \in Delivery
          PROVE  /\ delivery'[d].status # "none" => d[1][2] <= events[d[1][1]]
                 /\ delivery'[d].status = "none" => delivery'[d].attempts = 0
                 /\ delivery'[d].status \in {"sent", "failed"} => delivery'[d].attempts > 0
                 /\ delivery'[d].status \in {"pending", "retry"} =>
                       delivery'[d].attempts < MaxAttempts
      <3>1. CASE d \in b.ids
        BY <1>0, <1>3, <2>1, <3>1 DEF RowsInv
      <3>2. CASE d \notin b.ids
        BY <1>0, <1>3, <3>2 DEF RowsInv, Open
      <3> QED
        BY <3>1, <3>2
    <2> QED
      BY <1>3, <2>2 DEF RowsInv, Open
  <1>4. CASE Hold
    <2>1. PICK b \in batches :
             /\ \A d \in Delivery \ b.ids : delivery'[d] = delivery[d]
             /\ \A d \in b.ids : /\ d \in Delivery /\ delivery'[d].status = "retry"
                                 /\ delivery'[d].attempts = b.attempts - 1
             /\ b \in Batch /\ events' = events
      BY <1>0, <1>4, HoldIs
    <2>2. b.attempts - 1 \in 0..MaxAttempts /\ b.attempts - 1 < MaxAttempts
      BY <2>1, AlertAssumption DEF Batch
    <2>3. PICK n \in 0..MaxAttempts : n = b.attempts - 1
      BY <2>2
    <2> QED
      BY <1>3, <2>1, <2>2, <2>3
  <1>5. CASE MarkSent \/ MarkFailed \/ MarkRetry
    <2>1. PICK b \in batch, s \in Statuses :
             /\ \A d \in Delivery \ b.ids : delivery'[d] = delivery[d]
             /\ \A d \in b.ids : /\ d \in Delivery /\ delivery'[d].status = s
                                 /\ delivery'[d].attempts = b.attempts
             /\ b \in Batch /\ events' = events /\ Outcome(b, s)
      BY <1>0, <1>5, MarkedIs
    <2>2. b.attempts \in 0..MaxAttempts /\ b.attempts > 0
      BY <2>1, AlertAssumption DEF Batch
    <2>3. s \in {"sent", "failed", "retry"} /\ (s = "retry" => b.attempts < MaxAttempts)
      BY <2>1 DEF Outcome
    <2> QED
      BY <1>3, <2>1, <2>2, <2>3
  <1>6. ASSUME NEW e \in Delivery, Due(e)
        PROVE  RowsInv'
    BY <1>0, <1>6, DueIs DEF RowsInv, Open
  <1>7. CASE delivery' = delivery /\ events' = events
    BY <1>0, <1>7 DEF RowsInv, Open
  <1> QED
    BY <1>1, <1>2, <1>4, <1>5, <1>6, <1>7, StepKinds, QuietSteps, OtherPublisherSteps

\* The publisher holds deliveries that were open, each in one batch.
LEMMA HandKept ==
    ASSUME IInv, [Next]_vars
    PROVE  HandInv'
  <1>0. TypeInv /\ RowsInv /\ HandInv
    BY DEF IInv
  <1>1. CASE Prepare \/ \E s \in Sub : RevokeSubscription(s)
    <2>1. /\ UNCHANGED <<batches, batch>>
          /\ pc' = pc \/ {pc, pc'} \cap {"push", "mark"} = {}
          /\ \A d \in Delivery :
                \/ delivery'[d] = delivery[d]
                \/ /\ Open(d) /\ delivery'[d].status = "cancelled"
                   /\ delivery'[d].attempts = delivery[d].attempts
      BY <1>0, <1>1, CancelSteps, CancelIs
    <2>2. \A b \in batches \cup batch : \A d \in b.ids : d \in Delivery
      BY <1>0 DEF TypeInv, Batch
    <2>3. \A b \in batches \cup batch : \A d \in b.ids :
             /\ delivery'[d].status \in {"pending", "retry", "cancelled"}
             /\ delivery'[d].attempts < b.attempts
      <3> TAKE b \in batches \cup batch
      <3> TAKE d \in b.ids
      <3>1. /\ delivery[d].status \in {"pending", "retry", "cancelled"}
            /\ delivery[d].attempts < b.attempts
        BY <1>0 DEF HandInv
      <3> QED
        BY <2>1, <2>2, <3>1
    <2>4. (batch # {}) = (pc' = "mark") /\ (pc' \notin {"push", "mark"} => batches = {})
      BY <1>0, <2>1 DEF HandInv
    <2> QED
      BY <1>0, <2>1, <2>3, <2>4 DEF HandInv
  <1>2. CASE Commit
    <2>1. pc = "commit" /\ pc' = "prepare" /\ UNCHANGED <<batches, batch>>
      BY <1>2 DEF Commit, EndEvaluation, pub
    <2>2. batches = {} /\ batch = {}
      BY <1>0, <2>1 DEF HandInv
    <2> QED
      BY <2>1, <2>2 DEF HandInv
  <1>3. CASE Hold
    <2>1. PICK b \in batches :
             /\ \A d \in Delivery \ b.ids : delivery'[d] = delivery[d]
             /\ batches' = batches \ {b} /\ batch = {} /\ batch' = {}
             /\ pc = "push" /\ pc' = IF batches' = {} THEN "read" ELSE "push"
      BY <1>0, <1>3, HoldIs
    <2>2. \A c \in batches' : \A d \in c.ids : delivery'[d] = delivery[d]
      <3> SUFFICES ASSUME NEW c \in batches', NEW d \in c.ids
                   PROVE  delivery'[d] = delivery[d]
        OBVIOUS
      <3>1. d \in Delivery /\ d \notin b.ids
        BY <1>0, <2>1 DEF TypeInv, Batch, HandInv
      <3> QED
        BY <2>1, <3>1
    <2>3. batches' \subseteq batches \cup batch
      BY <2>1
    <2>4. /\ \A c, e \in batches' : c.ids \cap e.ids # {} => c = e
          /\ \A c \in batches' : \A d \in c.ids :
                /\ delivery'[d].status \in {"pending", "retry", "cancelled"}
                /\ delivery'[d].attempts < c.attempts
      BY <1>0, <2>2, <2>3 DEF HandInv
    <2>5. (batch' # {}) = (pc' = "mark") /\ (pc' \notin {"push", "mark"} => batches' = {})
      BY <2>1
    <2> QED
      BY <2>1, <2>4, <2>5 DEF HandInv
  <1>4. CASE MarkSent \/ MarkFailed \/ MarkRetry
    <2>1. PICK b \in batch :
             /\ \A d \in Delivery \ b.ids : delivery'[d] = delivery[d]
             /\ batch = {b} /\ batch' = {} /\ batches' = batches
             /\ pc = "mark" /\ pc' = IF batches = {} THEN "read" ELSE "push"
      BY <1>0, <1>4, MarkedIs
    <2>2. \A c \in batches' : \A d \in c.ids : delivery'[d] = delivery[d]
      <3> SUFFICES ASSUME NEW c \in batches', NEW d \in c.ids
                   PROVE  delivery'[d] = delivery[d]
        OBVIOUS
      <3>1. d \in Delivery /\ d \notin b.ids
        BY <1>0, <2>1 DEF TypeInv, Batch, HandInv
      <3> QED
        BY <2>1, <3>1
    <2> QED
      BY <1>0, <2>1, <2>2 DEF HandInv
  <1>5. CASE Select
    <2>1. /\ pc = "select" /\ batch' = batch /\ delivery' = delivery
          /\ pc' = IF Selected = {} THEN "read" ELSE "push"
      BY <1>5 DEF Select
    <2>2. batch = {}
      BY <1>0, <2>1 DEF HandInv
    <2>3. /\ \A b \in batches' : \A d \in b.ids : Open(d) /\ delivery[d].attempts < b.attempts
          /\ \A b, c \in batches' : b.ids \cap c.ids # {} => b = c
          /\ Selected = {} => batches' = {}
      BY <1>0, <1>5, SelectStep
    <2> QED
      BY <2>1, <2>2, <2>3 DEF HandInv, Open
  <1>6. CASE Push
    <2>1. PICK b \in batches :
             /\ pc = "push" /\ pc' = "mark" /\ batch' = {b} /\ batches' = batches \ {b}
             /\ delivery' = delivery
      BY <1>6 DEF Push
    <2>2. batch = {} /\ batches' \cup batch' = batches \cup batch
      BY <1>0, <2>1 DEF HandInv
    <2> QED
      BY <1>0, <2>1, <2>2 DEF HandInv
  <1>7. CASE AcceptedButUnknown
    <2>1. UNCHANGED <<pc, batches, batch, delivery>>
      BY <1>7 DEF AcceptedButUnknown
    <2> QED
      BY <1>0, <2>1 DEF HandInv
  <1>8. CASE PublishFails \/ Kill
    <2>1. pc' = "read" /\ batches' = {} /\ batch' = {}
      BY <1>8 DEF PublishFails, Kill, Forget
    <2> QED
      BY <2>1 DEF HandInv
  <1>9. ASSUME NEW e \in Delivery, Due(e)
        PROVE  HandInv'
    <2>1. /\ \A d \in Delivery : /\ delivery'[d].status = delivery[d].status
                                 /\ delivery'[d].attempts = delivery[d].attempts
          /\ UNCHANGED <<pc, batches, batch>>
      BY <1>0, <1>9, DueIs
    <2>2. \A b \in batches \cup batch : \A d \in b.ids : d \in Delivery
      BY <1>0 DEF TypeInv, Batch
    <2> QED
      BY <1>0, <2>1, <2>2 DEF HandInv
  <1>10. CASE /\ UNCHANGED <<delivery, batches, batch>>
              /\ pc' = pc \/ {pc, pc'} \cap {"push", "mark"} = {}
    BY <1>0, <1>10 DEF HandInv
  <1> QED
    BY <1>1, <1>2, <1>3, <1>4, <1>5, <1>6, <1>7, <1>8, <1>9, <1>10, StepKinds, QuietSteps

\* The pushes of a delivery are counted in its attempts, and that it was
\* accepted is in its status, but for the batch that is not marked yet.
LEMMA PushKept ==
    ASSUME IInv, [Next]_vars
    PROVE  PushInv'
  <1>0. TypeInv /\ RowsInv /\ HandInv /\ PushInv /\ EvalInv
    BY DEF IInv
  <1>n. \A d \in Delivery : /\ tried[d] \in Nat /\ landed[d] \in Nat
                            /\ delivery[d].attempts \in Nat
                            /\ d[1][2] \in Nat /\ events[d[1][1]] \in Nat
    BY <1>0, DeliveryParts, AlertAssumption DEF TypeInv, Queued
  <1>p. ASSUME batch = {}
        PROVE  Pushed = {} /\ \A d \in Delivery :
                  /\ tried[d] <= delivery[d].attempts
                  /\ landed[d] = IF delivery[d].status = "sent" THEN 1 ELSE 0
    <2>1. Pushed = {}
      BY <1>p DEF Pushed
    <2> QED
      BY <1>0, <2>1 DEF PushInv
  <1>h. \A d \in Pushed : /\ d \in Delivery
                          /\ delivery[d].status \in {"pending", "retry", "cancelled"}
    <2> SUFFICES ASSUME NEW d \in Pushed
                 PROVE  d \in Delivery
                        /\ delivery[d].status \in {"pending", "retry", "cancelled"}
      OBVIOUS
    <2>1. PICK b \in batch : d \in b.ids
      BY InHandIs
    <2> QED
      BY <1>0, <2>1 DEF HandInv, TypeInv, Batch
  \* What neither becomes sent nor loses attempts.
  <1>1. ASSUME UNCHANGED <<batch, answer, tried, landed>>,
               \A d \in Delivery :
                  /\ delivery'[d].status = "sent" <=> delivery[d].status = "sent"
                  /\ delivery'[d].attempts = delivery[d].attempts
        PROVE  PushInv'
    <2>1. Pushed' = Pushed
      BY <1>1 DEF Pushed
    <2> QED
      BY <1>0, <1>1, <2>1 DEF PushInv
  <1>2. CASE Prepare \/ \E s \in Sub : RevokeSubscription(s)
    <2>1. /\ UNCHANGED <<batch, answer, tried, landed>>
          /\ \A d \in Delivery :
                \/ delivery'[d] = delivery[d]
                \/ /\ Open(d) /\ delivery'[d].status = "cancelled"
                   /\ delivery'[d].attempts = delivery[d].attempts
      BY <1>0, <1>2, CancelSteps, CancelIs
    <2>2. \A d \in Delivery :
             /\ delivery'[d].status = "sent" <=> delivery[d].status = "sent"
             /\ delivery'[d].attempts = delivery[d].attempts
      BY <2>1 DEF Open
    <2> QED
      BY <1>1, <2>1, <2>2
  <1>3. CASE Commit
    <2>1. UNCHANGED <<batch, answer, tried, landed>> /\ pc = "commit"
      BY <1>3 DEF Commit, pub, counts
    <2>2. batch = {}
      BY <1>0, <2>1 DEF HandInv
    <2>3. \A d \in Delivery :
             \/ delivery'[d] = delivery[d]
             \/ /\ d[1][2] = events[d[1][1]] + 1
                /\ delivery'[d].status = "pending" /\ delivery'[d].attempts = 0
      BY <1>0, <1>3, CommitStep
    <2>4. \A d \in Delivery : d[1][2] = events[d[1][1]] + 1 =>
             delivery[d].status = "none" /\ delivery[d].attempts = 0
      BY <1>0, <1>n DEF RowsInv
    <2> QED
      BY <1>1, <2>1, <2>3, <2>4
  <1>4. CASE Hold
    <2>1. PICK b \in batches :
             /\ \A d \in Delivery \ b.ids : delivery'[d] = delivery[d]
             /\ \A d \in b.ids : /\ d \in Delivery /\ delivery'[d].status = "retry"
                                 /\ delivery'[d].attempts = b.attempts - 1
             /\ b \in Batch /\ batch = {} /\ UNCHANGED <<batch, answer, tried, landed>>
      BY <1>0, <1>4, HoldIs
    <2>2. \A d \in b.ids : /\ delivery[d].attempts < b.attempts
                           /\ delivery[d].status # "sent"
      BY <1>0, <2>1 DEF HandInv
    <2>3. b.attempts \in Int
      BY <2>1 DEF Batch
    <2>4. \A d \in Delivery :
             /\ tried[d] <= delivery'[d].attempts
             /\ landed[d] = IF delivery'[d].status = "sent" THEN 1 ELSE 0
      <3> TAKE d \in Delivery
      <3>1. /\ tried[d] <= delivery[d].attempts
            /\ landed[d] = IF delivery[d].status = "sent" THEN 1 ELSE 0
        BY <1>p, <2>1
      <3>2. CASE d \in b.ids
        BY <1>n, <2>1, <2>2, <2>3, <3>1, <3>2
      <3>3. CASE d \notin b.ids
        BY <2>1, <3>1, <3>3
      <3> QED
        BY <3>2, <3>3
    <2>5. Pushed' = {}
      BY <2>1 DEF Pushed
    <2> QED
      BY <2>1, <2>4, <2>5 DEF PushInv
  <1>5. CASE MarkSent \/ MarkFailed \/ MarkRetry
    <2>1. PICK b \in batch, s \in Statuses :
             /\ \A d \in Delivery \ b.ids : delivery'[d] = delivery[d]
             /\ \A d \in b.ids : /\ d \in Delivery /\ delivery'[d].status = s
                                 /\ delivery'[d].attempts = b.attempts
             /\ b \in Batch /\ batch' = {} /\ Outcome(b, s) /\ Pushed = b.ids
             /\ UNCHANGED <<tried, landed>>
      BY <1>0, <1>5, MarkedIs
    <2>2. \A d \in b.ids : delivery[d].attempts < b.attempts
      BY <1>0, <2>1 DEF HandInv
    <2>3. b.attempts \in Int /\ (s = "sent" <=> answer = "ok")
      BY <2>1 DEF Batch, Outcome
    <2>4. \A d \in Delivery :
             /\ tried[d] <= delivery'[d].attempts
             /\ landed[d] = IF delivery'[d].status = "sent" THEN 1 ELSE 0
      <3> TAKE d \in Delivery
      <3>1. CASE d \in b.ids
        <4>1. tried[d] - 1 <= delivery[d].attempts /\ landed[d] = IF answer = "ok" THEN 1 ELSE 0
          BY <1>0, <2>1, <3>1 DEF PushInv
        <4>2. tried[d] <= b.attempts
          BY <1>n, <2>2, <2>3, <3>1, <4>1
        <4> QED
          BY <2>1, <2>3, <3>1, <4>1, <4>2
      <3>2. CASE d \notin b.ids
        BY <1>0, <2>1, <3>2 DEF PushInv
      <3> QED
        BY <3>1, <3>2
    <2>5. Pushed' = {}
      BY <2>1 DEF Pushed
    <2> QED
      BY <2>1, <2>4, <2>5 DEF PushInv
  <1>6. CASE Select
    BY <1>1, <1>6 DEF Select, counts
  <1>7. CASE Push
    <2>1. PICK b \in batches, a \in Answer :
             /\ pc = "push" /\ batch' = {b} /\ answer' = a
             /\ tried' = [d \in Delivery |-> IF d \in b.ids THEN tried[d] + 1 ELSE tried[d]]
             /\ landed' = [d \in Delivery |->
                             IF d \in b.ids /\ a = "ok" THEN landed[d] + 1 ELSE landed[d]]
             /\ delivery' = delivery
      BY <1>7 DEF Push
    <2>2. batch = {} /\ Pushed' = b.ids
      BY <1>0, <2>1 DEF HandInv, Pushed
    <2>3. \A d \in b.ids : delivery[d].status # "sent"
      BY <1>0, <2>1 DEF HandInv
    <2>4. \A d \in Delivery :
             /\ d \notin b.ids => /\ tried'[d] <= delivery'[d].attempts
                                  /\ landed'[d] = IF delivery'[d].status = "sent" THEN 1 ELSE 0
             /\ d \in b.ids => /\ tried'[d] > 0 /\ tried'[d] - 1 <= delivery'[d].attempts
                               /\ landed'[d] = IF a = "ok" THEN 1 ELSE 0
      <3> TAKE d \in Delivery
      <3>1. /\ tried[d] <= delivery[d].attempts
            /\ landed[d] = IF delivery[d].status = "sent" THEN 1 ELSE 0
        BY <1>p, <2>2
      <3>2. CASE d \in b.ids
        BY <1>n, <2>1, <2>3, <3>1, <3>2
      <3>3. CASE d \notin b.ids
        BY <1>n, <2>1, <3>1, <3>3
      <3> QED
        BY <3>2, <3>3
    <2> QED
      BY <2>1, <2>2, <2>4 DEF PushInv
  <1>8. CASE AcceptedButUnknown
    <2>1. /\ landed' = [d \in Delivery |-> IF d \in Pushed THEN 0 ELSE landed[d]]
          /\ answer' = "again" /\ UNCHANGED <<batch, tried, delivery>>
      BY <1>0, <1>8, LostAnswerIs
    <2>2. Pushed' = Pushed
      BY <2>1 DEF Pushed
    <2> QED
      BY <1>0, <2>1, <2>2 DEF PushInv
  <1>9. CASE PublishFails \/ Kill
    <2>1. Forget /\ delivery' = delivery
      BY <1>9 DEF PublishFails, Kill
    <2>2. /\ \A d \in Delivery :
                /\ tried'[d] = IF d \in Pushed THEN tried[d] - 1 ELSE tried[d]
                /\ landed'[d] = IF d \in Pushed THEN 0 ELSE landed[d]
          /\ batch' = {}
      BY <1>0, <2>1, ForgetIs
    <2>3. Pushed' = {}
      BY <2>2 DEF Pushed
    <2> QED
      BY <1>0, <1>h, <2>1, <2>2, <2>3 DEF PushInv
  <1>10. ASSUME NEW e \in Delivery, Due(e)
         PROVE  PushInv'
    BY <1>0, <1>1, <1>10, DueIs
  <1>11. CASE UNCHANGED <<delivery, batch, answer, tried, landed>>
    BY <1>1, <1>11
  <1> QED
    BY <1>2, <1>3, <1>4, <1>5, <1>6, <1>7, <1>8, <1>9, <1>10, <1>11, StepKinds, QuietSteps

\* What was cancelled while nobody held it stays cancelled and is not selected.
LEMMA ForgetKept ==
    ASSUME IInv, [Next]_vars
    PROVE  ForgetInv' /\ forgotten' \subseteq Delivery
  <1>0. TypeInv /\ RowsInv /\ HandInv /\ EvalInv /\ ForgetInv /\ forgotten \subseteq Delivery
    BY DEF IInv
  \* Old ones, when nobody takes new ones in hand.
  <1>1. ASSUME forgotten' = forgotten, batches' \cup batch' \subseteq batches \cup batch,
               \A d \in Delivery : delivery[d].status = "cancelled" /\ d \notin InHand =>
                                      delivery'[d].status = "cancelled"
        PROVE  ForgetInv' /\ forgotten' \subseteq Delivery
    <2>1. InHand' \subseteq InHand
      BY <1>1 DEF InHand
    <2> QED
      BY <1>0, <1>1, <2>1 DEF ForgetInv
  <1>2. CASE Prepare \/ \E s \in Sub : RevokeSubscription(s)
    <2>1. PICK ids : ids \subseteq Delivery /\ Cancel(ids)
      BY <1>2, CancelSteps
    <2>2. /\ \A d \in Delivery : delivery'[d] = delivery[d] \/ Open(d)
          /\ \A d \in forgotten' : \/ d \in forgotten
                                   \/ d \in ids /\ d \notin InHand /\ Open(d)
          /\ \A d \in Delivery : d \in ids /\ Open(d) => delivery'[d].status = "cancelled"
      BY <1>0, <2>1, CancelIs
    <2>3. InHand' = InHand
      BY <1>2, CancelSteps DEF InHand
    <2>4. \A d \in forgotten : ~Open(d)
      BY <1>0 DEF ForgetInv, Open
    <2> QED
      BY <1>0, <2>1, <2>2, <2>3, <2>4 DEF ForgetInv
  <1>3. CASE Commit
    <2>1. UNCHANGED <<batches, batch, forgotten>>
      BY <1>3 DEF Commit, pub
    <2>2. \A d \in Delivery : delivery'[d] = delivery[d] \/ d[1][2] = events[d[1][1]] + 1
      BY <1>0, <1>3, CommitStep
    <2>3. \A d \in Delivery : delivery[d].status = "cancelled" =>
             d[1][2] # events[d[1][1]] + 1
      <3> SUFFICES ASSUME NEW d \in Delivery, delivery[d].status = "cancelled"
                   PROVE  d[1][2] # events[d[1][1]] + 1
        OBVIOUS
      <3>1. d[1][2] <= events[d[1][1]]
        BY <1>0 DEF RowsInv
      <3>2. d[1][2] \in Nat /\ events[d[1][1]] \in Nat
        BY <1>0, DeliveryParts DEF TypeInv
      <3> QED
        BY <3>1, <3>2
    <2> QED
      BY <1>1, <2>1, <2>2, <2>3
  <1>4. CASE Hold
    <2>1. PICK b \in batches :
             /\ \A d \in Delivery \ b.ids : delivery'[d] = delivery[d]
             /\ batches' = batches \ {b} /\ UNCHANGED <<batch, forgotten>>
      BY <1>0, <1>4, HoldIs
    <2>2. \A d \in b.ids : d \in InHand
      BY InHandIs
    <2> QED
      BY <1>1, <2>1, <2>2
  <1>5. CASE MarkSent \/ MarkFailed \/ MarkRetry
    <2>1. PICK b \in batch :
             /\ \A d \in Delivery \ b.ids : delivery'[d] = delivery[d]
             /\ batch' = {} /\ UNCHANGED <<batches, forgotten>>
      BY <1>0, <1>5, MarkedIs
    <2>2. \A d \in b.ids : d \in InHand
      BY InHandIs
    <2> QED
      BY <1>1, <2>1, <2>2
  <1>6. CASE Select
    <2>1. /\ UNCHANGED <<batch, delivery, forgotten>> /\ pc = "select"
          /\ \A b \in batches' : \A d \in b.ids : Open(d)
      BY <1>0, <1>6, SelectStep DEF Select
    <2>2. batch = {}
      BY <1>0, <2>1 DEF HandInv
    <2>3. \A d \in InHand' : Open(d)
      BY <2>1, <2>2 DEF InHand
    <2> QED
      BY <1>0, <2>1, <2>3 DEF ForgetInv, Open
  <1>7. CASE Push
    <2>1. batches' \cup batch' \subseteq batches \cup batch
      BY <1>7 DEF Push
    <2> QED
      BY <1>1, <1>7, <2>1, OtherPublisherSteps
  <1>8. CASE AcceptedButUnknown \/ PublishFails \/ Kill
    <2>1. batches' \cup batch' \subseteq batches \cup batch
      BY <1>8 DEF AcceptedButUnknown, PublishFails, Kill, Forget
    <2> QED
      BY <1>1, <1>8, <2>1, OtherPublisherSteps
  <1>9. ASSUME NEW e \in Delivery, Due(e)
        PROVE  ForgetInv' /\ forgotten' \subseteq Delivery
    BY <1>0, <1>1, <1>9, DueIs
  <1>10. CASE UNCHANGED <<delivery, batches, batch, forgotten>>
    BY <1>1, <1>10
  <1> QED
    BY <1>2, <1>3, <1>4, <1>5, <1>6, <1>7, <1>8, <1>9, <1>10, StepKinds, QuietSteps

-----------------------------------------------------------------------------
(* The theorems.                                                            *)

\* There are no rules and no deliveries at first.
LEMMA InitInv ==
    ASSUME Init
    PROVE  IInv
  <1>1. Unqueued \in Queued /\ ~(Unqueued.status # "none") /\ Unqueued.attempts = 0
    BY AlertAssumption DEF Unqueued, Queued, Statuses
  <1>2. NoRow \in Row /\ ~NoRow.keyed /\ ~NoRow.on
    BY DEF NoRow, NewRow, Row
  <1>3. TypeInv
    <2>1. prefs \in Pref
      BY DEF Init, Pref
    <2>2. /\ cond \in [Rule -> BOOLEAN] /\ clear \in [Rule -> BOOLEAN]
          /\ rule \in [Rule -> Row] /\ events \in [Rule -> 0..MaxEvents]
      BY <1>2, AlertAssumption DEF Init
    <2>3. /\ delivery \in [Delivery -> Queued]
          /\ tried \in [Delivery -> Nat] /\ landed \in [Delivery -> Nat]
      BY <1>1 DEF Init
    <2>4. pc \in Places /\ answer \in Answer /\ batches = {} /\ batch = {}
      BY DEF Init, Places, Answer
    <2> QED
      BY <2>1, <2>2, <2>3, <2>4 DEF TypeInv
  <1>4. RuleInv /\ ClearInv /\ EvalInv
    BY <1>2 DEF Init, RuleInv, ClearInv, EvalInv
  <1>5. RowsInv
    BY <1>1, AlertAssumption DEF Init, RowsInv, Open, Unqueued
  <1>6. HandInv
    BY DEF Init, HandInv
  <1>7. PushInv
    <2>1. Pushed = {}
      BY DEF Init, Pushed
    <2> QED
      BY <2>1 DEF Init, PushInv, Unqueued
  <1>8. ForgetInv /\ forgotten \subseteq Delivery
    BY DEF Init, ForgetInv
  <1> QED
    BY <1>3, <1>4, <1>5, <1>6, <1>7, <1>8 DEF IInv

\* The inductive invariant holds in every state.
LEMMA Invariance == Spec => []IInv
  <1>1. Init => IInv
    BY InitInv
  <1>2. IInv /\ [Next]_vars => IInv'
    BY TypesKept, RuleKept, ClearKept, EvalKept, RowsKept, HandKept, PushKept, ForgetKept
    DEF IInv
  <1> QED
    BY <1>1, <1>2, PTL DEF Spec

\* Unless an outcome was lost, the push service accepts a delivery at most
\* once, and accepted every delivery that is marked as sent.
THEOREM DeliveriesLandOnce == Spec => []SentOnce
  <1>1. IInv => SentOnce
    <2> SUFFICES ASSUME IInv, NEW d \in Delivery
                 PROVE  landed[d] <= 1 /\ (delivery[d].status = "sent" => landed[d] = 1)
      BY DEF SentOnce
    <2>1. CASE d \in Pushed
      <3>1. delivery[d].status # "sent"
        BY <2>1, InHandIs DEF IInv, HandInv
      <3> QED
        BY <2>1, <3>1 DEF IInv, PushInv
    <2>2. CASE d \notin Pushed
      BY <2>2 DEF IInv, PushInv
    <2> QED
      BY <2>1, <2>2
  <1> QED
    BY <1>1, Invariance, PTL

\* However digests group deliveries of different histories, none is pushed more
\* than MAX_DELIVERY_ATTEMPTS times, but for lost outcomes.
THEOREM PushesAreBounded == Spec => []TriesAreBounded
  <1>1. IInv => TriesAreBounded
    <2> SUFFICES ASSUME IInv PROVE TriesAreBounded
      OBVIOUS
    <2>1. \A d \in Delivery : /\ delivery[d].attempts \in 0..MaxAttempts
                              /\ tried[d] \in Nat
      BY DEF IInv, TypeInv, Queued
    <2>2. TypeOK
      BY <2>1, AlertAssumption DEF IInv, TypeInv, RuleInv, RowsInv, HandInv, TypeOK, Row
    <2>3. ASSUME NEW d \in Delivery
          PROVE  tried[d] <= MaxAttempts
      <3>1. CASE d \in Pushed
        <4>1. PICK b \in batch : d \in b.ids
          BY <3>1, InHandIs
        <4>2. b.attempts \in 1..MaxAttempts /\ delivery[d].attempts < b.attempts
          BY <4>1 DEF IInv, TypeInv, HandInv, Batch
        <4>3. tried[d] - 1 <= delivery[d].attempts
          BY <3>1 DEF IInv, PushInv
        <4> QED
          BY <2>1, <4>2, <4>3, AlertAssumption
      <3>2. CASE d \notin Pushed
        <4>1. tried[d] <= delivery[d].attempts
          BY <3>2 DEF IInv, PushInv
        <4> QED
          BY <2>1, <4>1, AlertAssumption
      <3> QED
        BY <3>1, <3>2
    <2> QED
      BY <2>2, <2>3 DEF TriesAreBounded
  <1> QED
    BY <1>1, Invariance, PTL

\* A delivery cancelled while no batch held it is never taken in hand again,
\* not even after its browser subscribes again.
THEOREM CancelledIsFinal == Spec => []RevokedIsForgotten
  <1>1. IInv => RevokedIsForgotten
    BY DEF IInv, ForgetInv, RevokedIsForgotten
  <1> QED
    BY <1>1, Invariance, PTL

\* Whatever failed, was rolled back or was changed by the user in between, a
\* rule only gets an event when its condition was false since its last one.
THEOREM NoEventWithoutACrossing == Spec => EventsNeedACrossing
  <1>1. ASSUME IInv, [Next]_vars, NEW r \in Rule, events'[r] > events[r]
        PROVE  clear[r]
    <2>0. TypeInv /\ EvalInv /\ events[r] \in Nat
      BY <1>1 DEF IInv, TypeInv
    <2>1. CASE Commit
      <3>1. r \in hits
        BY <2>0, <2>1, <1>1, CommitStep
      <3>2. r \in DOMAIN read /\ ~read[r].active
        BY <2>0, <2>1, <3>1 DEF EvalInv, Commit
      <3> QED
        BY <2>0, <2>1, <3>2 DEF EvalInv, Commit
    <2>2. CASE events' = events
      BY <2>0, <2>2, <1>1
    <2>3. CASE \/ Watcher /\ ~Commit
               \/ EvaluationFails \/ AcceptedButUnknown \/ PublishFails \/ Kill
               \/ UpdatePreferences
               \/ (\E x \in Rule : SourceChanges(x) \/ CreateAlertRule(x) \/ DeleteAlertRule(x))
               \/ (\E s \in Sub : UpsertSubscription(s) \/ RevokeSubscription(s))
               \/ (\E d \in Delivery : Due(d))
               \/ UNCHANGED vars
      <3>1. events' = events
        BY <2>3 DEF Watcher, Read, Decide, DecideOnDeletedRule, Prepare, Select, Hold,
             Push, MarkSent, MarkFailed, MarkRetry, EvaluationFails, AcceptedButUnknown,
             PublishFails, Kill, UpdatePreferences, SourceChanges, CreateAlertRule,
             DeleteAlertRule, UpsertSubscription, RevokeSubscription, Due, vars
      <3> QED
        BY <2>2, <3>1
    <2> QED
      BY <1>1, <2>1, <2>3 DEF Next, Watcher
  <1>2. IInv /\ [Next]_vars => [\A r \in Rule : events'[r] > events[r] => clear[r]]_vars
    BY <1>1
  <1> QED
    BY <1>2, Invariance, PTL DEF Spec, EventsNeedACrossing
=============================================================================
