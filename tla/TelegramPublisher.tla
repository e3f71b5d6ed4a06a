-------------------------- MODULE TelegramPublisher --------------------------
(***************************************************************************)
(* Publication of panel updates to Telegram topics (telegram/topics).      *)
(*                                                                         *)
(* Several processes publish through one state file: the publisher loop    *)
(* (run_once), and the API and the watchers after they fetched a panel     *)
(* (publish_candidates in runtime_bridge.py and telegram_panel_publish.py).*)
(* Each reads panels, then, under a file lock, loads the state, sends what *)
(* the state does not know, and saves the state once at the end.  The      *)
(* first rounds of the whole catalog only mark what they find: they prime  *)
(* the state, so that what is on the panels already is not posted.         *)
(*                                                                         *)
(* Abstractions: a message is a pair of a target and a dedupe key; a round *)
(* reads its panels at once and handles its messages in any order; the     *)
(* --prime and --dry-run flags are off; retries of HTTP 429 inside one     *)
(* send are part of its outcome.                                           *)
(***************************************************************************)
EXTENDS Integers, FiniteSets

CONSTANTS
    Proc,
    Catalog,        \* the processes that publish the target all-panels
    Panel, Msg,
    PanelOf,        \* PanelOf[m]: the panel that shows m
    Enabled,        \* the messages whose topic is configured
    NoProc, NoMsg,
    Parts,          \* chunks a text is split into
    MaxEntries,     \* PublishState.max_entries
    MayFail         \* processes may die, files may not be read or written

ASSUME PublisherAssumption ==
    /\ Catalog \subseteq Proc /\ NoProc \notin Proc
    /\ PanelOf \in [Msg -> Panel] /\ NoMsg \notin Msg
    /\ Enabled \subseteq Msg
    /\ Parts \in Nat \ {0} /\ MaxEntries \in Nat \ {0}
    /\ MayFail \in BOOLEAN

VARIABLES
    shown,      \* messages the panels show now
    file,       \* the state file: [sent |-> ..., primed |-> ...]
    lock,       \* owner of state_lock
    pc,
    todo,       \* todo[p]: candidates the round of p has not handled yet
    complete,   \* complete[p]: every panel of the catalog was fetched
    state,      \* state[p]: the PublishState of the round
    prime,      \* prime[p]: effective_prime
    cur, part,  \* what p is sending
    delivered,  \* history: the parts of a message that Telegram has posted
    absorbed,   \* history: messages that were primed
    lost,       \* history: messages with a post that no mark remembers
    old         \* history: messages shown all the time whose mark was not trimmed

roundVars == <<todo, complete, state, prime, cur, part>>
history   == <<delivered, absorbed, lost, old>>
vars      == <<shown, file, lock, pc, todo, complete, state, prime, cur, part,
               delivered, absorbed, lost, old>>

NewState == [sent |-> {}, primed |-> FALSE]

Init ==
    /\ shown \in SUBSET Msg
    /\ file = NewState
    /\ lock = NoProc
    /\ pc = [p \in Proc |-> "idle"]
    /\ todo = [p \in Proc |-> {}]
    /\ complete = [p \in Proc |-> FALSE]
    /\ state = [p \in Proc |-> NewState]
    /\ prime = [p \in Proc |-> FALSE]
    /\ cur = [p \in Proc |-> NoMsg]
    /\ part = [p \in Proc |-> 1]
    /\ delivered = [m \in Msg |-> {}]
    /\ absorbed = {}
    /\ lost = {}
    /\ old = shown

Goto(p, place) == pc' = [pc EXCEPT ![p] = place]

\* The round of p is over and its variables are gone.
Reset(p) ==
    /\ Goto(p, "idle")
    /\ todo' = [todo EXCEPT ![p] = {}]
    /\ complete' = [complete EXCEPT ![p] = FALSE]
    /\ state' = [state EXCEPT ![p] = NewState]
    /\ prime' = [prime EXCEPT ![p] = FALSE]
    /\ cur' = [cur EXCEPT ![p] = NoMsg]
    /\ part' = [part EXCEPT ![p] = 1]

-----------------------------------------------------------------------------
(* The panels (external).                                                  *)

PanelsChange(m) ==
    /\ shown' = IF m \in shown THEN shown \ {m} ELSE shown \cup {m}
    /\ old' = old \ {m}
    /\ UNCHANGED <<file, lock, pc, roundVars, delivered, absorbed, lost>>

-----------------------------------------------------------------------------
(* A round.                                                                *)

\* What a round may get from the API: any panel may fail in a catalog round;
\* the other callers have one panel in hand.
Fetched(p) == IF p \in Catalog THEN SUBSET Panel ELSE {{q} : q \in Panel}

\* A caller with one panel does not go on without a candidate.
Fetch(p, panels) ==
    LET candidates == {m \in shown : PanelOf[m] \in panels}
    IN  /\ pc[p] = "idle"
        /\ p \notin Catalog => candidates # {}
        /\ todo' = [todo EXCEPT ![p] = candidates]
        /\ complete' = [complete EXCEPT ![p] = panels = Panel]
        /\ Goto(p, "lock")
        /\ UNCHANGED <<shown, file, lock, state, prime, cur, part, history>>

\* What load finds; a file that cannot be read counts as a new state.
Read == {file} \cup IF MayFail THEN {NewState} ELSE {}

\* PublishState.load and the decision to prime.
Begin(p) ==
    /\ \E read \in Read :
          /\ state' = [state EXCEPT ![p] = read]
          /\ prime' = [prime EXCEPT ![p] = p \in Catalog /\ ~read.primed]
          /\ lost' = lost \cup {m \in file.sent \ read.sent : delivered[m] # {}}
    /\ Goto(p, "loop")
    /\ UNCHANGED <<shown, file, todo, complete, cur, part, delivered, absorbed, old>>

\* Fault: the state is loaded although somebody else is publishing.
LoadUnlocked(p) ==
    /\ pc[p] = "lock"
    /\ lock' = p
    /\ Begin(p)

\* Under state_lock.
Load(p) ==
    /\ pc[p] = "lock" /\ lock = NoProc
    /\ lock' = p
    /\ Begin(p)

\* _trim drops one of the oldest entries; which one depends on the seconds in
\* which they were marked, and on the order of the file among equals.
Trimmed(sent) ==
    IF Cardinality(sent) <= MaxEntries THEN {sent} ELSE {sent \ {m} : m \in sent}

\* PublishState.mark in the round of p.  An entry that is trimmed away no longer
\* remembers its post.
Mark(p, m, posts) ==
    \E sent \in Trimmed(state[p].sent \cup {m}) :
        /\ state' = [state EXCEPT ![p].sent = sent]
        /\ lost' = (lost \ {m}) \cup
                      {n \in (state[p].sent \cup {m}) \ sent : posts[n] # {}}
        /\ old' = old \ ((state[p].sent \cup {m}) \ sent)

\* Seen already, or the topic is not configured and this is not priming.
Skip(p, m) ==
    /\ pc[p] = "loop" /\ m \in todo[p]
    /\ m \in state[p].sent \/ (~prime[p] /\ m \notin Enabled)
    /\ todo' = [todo EXCEPT ![p] = @ \ {m}]
    /\ UNCHANGED <<shown, file, lock, pc, complete, state, prime, cur, part, history>>

PrimeOne(p, m) ==
    /\ pc[p] = "loop" /\ m \in todo[p]
    /\ prime[p] /\ m \notin state[p].sent
    /\ Mark(p, m, delivered)
    /\ absorbed' = absorbed \cup {m}
    /\ todo' = [todo EXCEPT ![p] = @ \ {m}]
    /\ UNCHANGED <<shown, file, lock, pc, complete, prime, cur, part, delivered>>

BeginSend(p, m) ==
    /\ pc[p] = "loop" /\ m \in todo[p]
    /\ ~prime[p] /\ m \in Enabled /\ m \notin state[p].sent
    /\ cur' = [cur EXCEPT ![p] = m]
    /\ todo' = [todo EXCEPT ![p] = @ \ {m}]
    /\ Goto(p, "send")
    /\ UNCHANGED <<shown, file, lock, complete, state, prime, part, history>>

\* Telegram posts the part and says so.  After the last one, the mark.
PartAccepted(p) ==
    LET m == cur[p]
        posts == [delivered EXCEPT ![m] = @ \cup {part[p]}]
    IN  /\ pc[p] = "send"
        /\ delivered' = posts
        /\ IF part[p] < Parts
           THEN /\ part' = [part EXCEPT ![p] = @ + 1]
                /\ UNCHANGED <<pc, cur, state, lost, old>>
           ELSE /\ Mark(p, m, posts)
                /\ part' = [part EXCEPT ![p] = 1]
                /\ cur' = [cur EXCEPT ![p] = NoMsg]
                /\ Goto(p, "loop")
        /\ UNCHANGED <<shown, file, lock, todo, complete, prime, absorbed>>

\* Fault: the mark is set whatever became of the send.
PartRaisesMarked(p) ==
    LET m == cur[p]
    IN  /\ pc[p] = "send"
        /\ Mark(p, m, delivered)
        /\ part' = [part EXCEPT ![p] = 1]
        /\ cur' = [cur EXCEPT ![p] = NoMsg]
        /\ Goto(p, "loop")
        /\ UNCHANGED <<shown, file, lock, todo, complete, prime, delivered, absorbed>>

\* send_message raises: Telegram refused the part or was not reached, or it
\* posted the part and the answer was lost.  No mark; the round goes on.
PartRaises(p) ==
    LET m == cur[p]
    IN  /\ pc[p] = "send"
        /\ \E posts \in {delivered, [delivered EXCEPT ![m] = @ \cup {part[p]}]} :
              /\ delivered' = posts
              /\ lost' = IF posts[m] = {} THEN lost ELSE lost \cup {m}
        /\ part' = [part EXCEPT ![p] = 1]
        /\ cur' = [cur EXCEPT ![p] = NoMsg]
        /\ Goto(p, "loop")
        /\ UNCHANGED <<shown, file, lock, todo, complete, state, prime, absorbed, old>>

\* Fault: a partial round counts as priming the catalog.
SavePartial(p) ==
    /\ pc[p] = "loop" /\ todo[p] = {}
    /\ file' = state[p]
    /\ IF prime[p]
       THEN Goto(p, "catalog") /\ UNCHANGED <<lock, roundVars>>
       ELSE Reset(p) /\ lock' = NoProc
    /\ UNCHANGED <<shown, history>>

\* Fault: the lock is not released.
SaveKeepsLock(p) ==
    /\ pc[p] = "loop" /\ todo[p] = {}
    /\ file' = state[p]
    /\ IF prime[p] /\ complete[p]
       THEN Goto(p, "catalog") /\ UNCHANGED <<lock, roundVars>>
       ELSE Reset(p) /\ UNCHANGED lock
    /\ UNCHANGED <<shown, history>>

\* The round is handled: save the state once.  A complete round of the whole
\* catalog that primed goes on to say so.
Save(p) ==
    /\ pc[p] = "loop" /\ todo[p] = {}
    /\ file' = state[p]
    /\ IF prime[p] /\ complete[p]
       THEN Goto(p, "catalog") /\ UNCHANGED <<lock, roundVars>>
       ELSE Reset(p) /\ lock' = NoProc
    /\ UNCHANGED <<shown, history>>

\* mark_catalog_primed and a second save.
SaveCatalog(p) ==
    /\ pc[p] = "catalog"
    /\ file' = [state[p] EXCEPT !.primed = TRUE]
    /\ lock' = NoProc
    /\ Reset(p)
    /\ UNCHANGED <<shown, history>>

\* The process dies, or a save raises, and what the round did since the last
\* save is forgotten; the kernel drops the lock.
Abandon(p) ==
    LET forgotten == (state[p].sent \ file.sent) \cup ({cur[p]} \ {NoMsg})
    IN  /\ MayFail /\ pc[p] # "idle"
        /\ lost' = lost \cup {m \in forgotten : delivered[m] # {}}
        /\ lock' = IF lock = p THEN NoProc ELSE lock
        /\ Reset(p)
        /\ UNCHANGED <<shown, file, delivered, absorbed, old>>

Handle(p) ==
    \/ Load(p) \/ Save(p) \/ SaveCatalog(p)
    \/ \E m \in Msg : Skip(p, m) \/ PrimeOne(p, m) \/ BeginSend(p, m)

\* Everything but a death.
Live ==
    \/ \E m \in Msg : PanelsChange(m)
    \/ \E p \in Proc :
          \/ \E panels \in Fetched(p) : Fetch(p, panels)
          \/ Handle(p) \/ PartAccepted(p) \/ PartRaises(p)

Next == Live \/ \E p \in Proc : Abandon(p)

Spec == Init /\ [][Next]_vars

\* Rounds come and go on, a send ends, a panel that is asked again and again is
\* read again and again, the file lock is granted to who keeps waiting, and
\* Telegram does not refuse one part of a message for ever.
Fairness ==
    /\ \A p \in Proc :
          /\ WF_vars(Handle(p)) /\ SF_vars(Load(p))
          /\ WF_vars(PartAccepted(p) \/ PartRaises(p))
          /\ p \in Catalog => SF_vars(Fetch(p, Panel))
    /\ \A m \in Msg, n \in 1..Parts :
          SF_vars(\E p \in Proc : cur[p] = m /\ part[p] = n /\ PartAccepted(p))

\* In the end nobody dies any more: a step that looks like a death is one that a
\* live process takes.  (Rounds that change nothing, or whose sends fail again
\* and again, still go on.)
DeathsEnd == <>[][(\E p \in Proc : Abandon(p)) => Live]_vars

FairSpec == Spec /\ Fairness /\ DeathsEnd

-----------------------------------------------------------------------------
(* Properties.                                                             *)

States == [sent : SUBSET Msg, primed : BOOLEAN]

\* The types of the variables; the state never exceeds its bound.
TypeOK ==
    /\ shown \subseteq Msg
    /\ file \in States /\ Cardinality(file.sent) <= MaxEntries
    /\ lock \in Proc \cup {NoProc}
    /\ pc \in [Proc -> {"idle", "lock", "loop", "send", "catalog"}]
    /\ todo \in [Proc -> SUBSET Msg]
    /\ complete \in [Proc -> BOOLEAN] /\ prime \in [Proc -> BOOLEAN]
    /\ state \in [Proc -> States]
    /\ cur \in [Proc -> Msg \cup {NoMsg}] /\ part \in [Proc -> 1..Parts]
    /\ delivered \in [Msg -> SUBSET (1..Parts)]
    /\ absorbed \subseteq Msg /\ lost \subseteq Msg /\ old \subseteq shown

\* At least once: what the state file remembers as sent was posted in full, or
\* was primed; and it never remembers more than max_entries.
SentMeansDelivered ==
    /\ TypeOK
    /\ \A m \in file.sent : delivered[m] = 1..Parts \/ m \in absorbed

\* At most once, but for accidents: a message of which Telegram has posted a
\* part is sent again only if a send failed half-way or unclearly, a process
\* died before it saved, the file could not be read, or the entry was trimmed.
RepostsAreExcused ==
    \A p \in Proc : pc[p] = "send" /\ part[p] = 1 /\ delivered[cur[p]] # {} => cur[p] \in lost

\* telegram/README.md: prime "so existing records are not posted as a backlog";
\* partial rounds, deaths and other publishers do not let a record through that
\* was on the panels all the time.
NoBacklog == \A p \in Catalog : pc[p] = "send" => cur[p] \notin old

\* A message that stays on its panel is posted or primed in the end.
EveryMessageIsHandled ==
    \A m \in Enabled :
        <>[](m \in shown) => <>(delivered[m] = 1..Parts \/ m \in absorbed)
=============================================================================
