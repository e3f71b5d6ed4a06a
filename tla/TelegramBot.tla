------------------------------ MODULE TelegramBot ------------------------------
(***************************************************************************)
(* The query bot (telegram/bot/poller.py, state.py, alerts.py, router.py). *)
(*                                                                         *)
(* One process polls Telegram for updates from its offset, handles each,   *)
(* replies, and moves its offset; after the batch it saves its state, and  *)
(* then looks which price alerts are due.  Whatever raises ends the round  *)
(* and the loop polls again with the state it has in memory.  Telegram     *)
(* keeps the updates from the highest offset it was asked for.             *)
(*                                                                         *)
(* Abstractions: updates are numbered from 1; a command is a query, an     *)
(* alert, or the removal of one (one with bad arguments or from a chat     *)
(* that is not allowed counts as a query); whether the rate limit refuses  *)
(* it and which prices pass their threshold is nondeterministic; users and *)
(* analytics are left out.  An alert is named after the command that made  *)
(* it and a number, for a command that is handled again makes another.     *)
(***************************************************************************)
EXTENDS Integers, FiniteSets, Sequences

CONSTANTS
    MaxUpdate,  \* bound: updates that arrive
    Limit,      \* updates per getUpdates
    Kinds,      \* kinds of updates: "query", "alert", "remove", "other"
    Copies,     \* bound: alerts of one command
    Faults      \* what may happen: "refuse" (rate limit), "poll", "send", "save", "kill",
                \* "read" (the state file cannot be read)

ASSUME BotAssumption ==
    /\ MaxUpdate \in Nat \ {0} /\ Limit \in Nat \ {0} /\ Copies \in Nat \ {0}
    /\ Kinds \subseteq {"query", "alert", "remove", "other"}
    /\ Faults \subseteq {"refuse", "poll", "send", "save", "kill", "read"}

Update == 1..MaxUpdate
Alert  == Update \X (1..Copies)

VARIABLES
    kind,       \* Telegram: kind[i]: the i-th update that arrived
    confirmed,  \* Telegram: updates below are deleted
    saved,      \* the saved state: [offset |-> ..., on |-> ..., off |-> ...]
    data,       \* BotState.data
    stage,      \* what run_once does next
    batch,      \* updates of this round that are still to be handled
    handled,    \* an update of this round was replied to
    told,       \* the alert that the reply to be sent tells of, if any
    due,        \* alerts of this round that are still to be sent
    answered,   \* history: updates with a reply that Telegram took
    acked,      \* history: alerts that such a reply told of, since a start last
                \* failed to read the saved state
    notified,   \* history: alerts whose notification Telegram took
    removed,    \* history: alerts removed by a command
    cut         \* history: commands that took effect before something failed

botVars == <<kind, confirmed, saved, data, stage, batch, handled, told, due,
             answered, acked, notified, removed, cut>>
telegram   == <<kind, confirmed>>
botHistory == <<answered, acked, notified, removed, cut>>

\* An absent offset asks for everything, as 1 does.
NewData == [offset |-> 1, on |-> {}, off |-> {}]

BotInit ==
    /\ kind = <<>> /\ confirmed = 1
    /\ saved = NewData /\ data = NewData
    /\ stage = "poll"
    /\ batch = <<>> /\ handled = FALSE /\ told = {} /\ due = {}
    /\ answered = {} /\ acked = {} /\ notified = {} /\ removed = {} /\ cut = {}

Entries(d) == d.on \cup d.off

\* The round is over, in order or by an exception; the data stays in memory.
EndRound ==
    /\ stage' = "poll"
    /\ batch' = <<>> /\ handled' = FALSE /\ told' = {} /\ due' = {}

-----------------------------------------------------------------------------
(* Telegram (external).                                                    *)

Arrive(k) ==
    /\ Len(kind) < MaxUpdate
    /\ kind' = Append(kind, k)
    /\ UNCHANGED <<confirmed, saved, data, stage, batch, handled, told, due, botHistory>>

-----------------------------------------------------------------------------
(* run_once.                                                               *)

\* What Telegram has for the offset of the bot, Limit updates at most.
Pending(from) ==
    LET last == IF from + Limit - 1 < Len(kind) THEN from + Limit - 1 ELSE Len(kind)
    IN  [i \in 1..(last - from + 1) |-> from + i - 1]

\* Asking from an offset confirms what is below it, answered or not.
Asked == IF data.offset > confirmed THEN data.offset ELSE confirmed

Poll ==
    /\ stage = "poll"
    /\ confirmed' = Asked
    /\ stage' = "handle"
    /\ batch' = Pending(Asked)
    /\ UNCHANGED <<kind, saved, data, handled, told, due, botHistory>>

\* The answer is lost, or an error.
PollFails ==
    /\ stage = "poll" /\ "poll" \in Faults
    /\ confirmed' = Asked
    /\ UNCHANGED <<kind, saved, data, stage, batch, handled, told, due, botHistory>>

\* parse_update makes nothing of it: no reply, and the offset stays.
Ignore ==
    /\ stage = "handle" /\ batch # <<>> /\ kind[Head(batch)] = "other"
    /\ batch' = Tail(batch)
    /\ UNCHANGED <<telegram, saved, data, stage, handled, told, due, botHistory>>

\* Alerts made by the command of update u.
MadeBy(u, d) == {a \in Entries(d) : a[1] = u}

\* The bound Copies keeps the list finite.
AddAlert(u) ==
    LET n == Cardinality(MadeBy(u, data))
    IN  /\ kind[u] = "alert"
        /\ data' = IF n < Copies THEN [data EXCEPT !.on = @ \cup {<<u, n + 1>>}] ELSE data
        /\ UNCHANGED removed

RemoveAlert(u) ==
    /\ kind[u] = "remove"
    /\ \E a \in data.on :
          /\ data' = [data EXCEPT !.on = @ \ {a}, !.off = @ \cup {a}]
          /\ removed' = removed \cup {a}

\* A query, or the removal of an alert that is not there or done.
NoEffect(u) ==
    /\ kind[u] # "alert"
    /\ UNCHANGED <<data, removed>>

\* What handle_command does to the data before it saves them.
Effect(u) == AddAlert(u) \/ RemoveAlert(u) \/ NoEffect(u)

\* Fault: an alert is saved only after the batch.
HandleCommandUnsaved ==
    LET u == Head(batch)
    IN  /\ stage = "handle" /\ batch # <<>> /\ kind[u] # "other"
        /\ Effect(u)
        /\ told' = MadeBy(u, data') \ MadeBy(u, data)
        /\ stage' = "reply"
        /\ UNCHANGED <<telegram, saved, batch, handled, due, answered, acked, notified, cut>>

\* A command that changes alerts saves the state, and so does one query
\* (/start), before there is a reply and with the offset of before.
HandleCommand ==
    LET u == Head(batch)
    IN  /\ stage = "handle" /\ batch # <<>> /\ kind[u] # "other"
        /\ Effect(u)
        /\ saved' \in IF kind[u] = "query" THEN {saved, data'} ELSE {data'}
        /\ told' = MadeBy(u, data') \ MadeBy(u, data)
        /\ stage' = "reply"
        /\ UNCHANGED <<telegram, batch, handled, due, answered, acked, notified, cut>>

\* The rate limit answers for the command.
RateLimited ==
    /\ stage = "handle" /\ batch # <<>> /\ kind[Head(batch)] # "other"
    /\ "refuse" \in Faults
    /\ stage' = "reply"
    /\ UNCHANGED <<telegram, saved, data, batch, handled, told, due, botHistory>>

\* The save in handle_command raises, after the effect.
CommandRaises ==
    /\ stage = "handle" /\ batch # <<>> /\ kind[Head(batch)] # "other"
    /\ "save" \in Faults
    /\ Effect(Head(batch))
    /\ cut' = cut \cup {Head(batch)}
    /\ EndRound
    /\ UNCHANGED <<telegram, saved, answered, acked, notified>>

\* Fault: the next poll asks for the same update.
ReplyStays ==
    LET u == Head(batch)
    IN  /\ stage = "reply"
        /\ answered' = answered \cup {u}
        /\ acked' = acked \cup told
        /\ data' = [data EXCEPT !.offset = u]
        /\ batch' = Tail(batch)
        /\ handled' = TRUE
        /\ told' = {}
        /\ stage' = "handle"
        /\ UNCHANGED <<telegram, saved, due, notified, removed, cut>>

\* send_message, then mark_update.
Reply ==
    LET u == Head(batch)
    IN  /\ stage = "reply"
        /\ answered' = answered \cup {u}
        /\ acked' = acked \cup told
        /\ data' = [data EXCEPT !.offset = u + 1]
        /\ batch' = Tail(batch)
        /\ handled' = TRUE
        /\ told' = {}
        /\ stage' = "handle"
        /\ UNCHANGED <<telegram, saved, due, notified, removed, cut>>

\* Fault: the failure is logged and the update counts as handled.
ReplyFailsMarked ==
    /\ stage = "reply" /\ "send" \in Faults
    /\ data' = [data EXCEPT !.offset = Head(batch) + 1]
    /\ batch' = Tail(batch)
    /\ handled' = TRUE
    /\ told' = {}
    /\ stage' = "handle"
    /\ UNCHANGED <<telegram, saved, due, botHistory>>

\* send_message raises out of the round.
ReplyFails ==
    /\ stage = "reply" /\ "send" \in Faults
    /\ cut' = cut \cup {Head(batch)}
    /\ EndRound
    /\ UNCHANGED <<telegram, saved, data, answered, acked, notified, removed>>

\* The state is saved if something was handled.
SaveBatch ==
    /\ stage = "handle" /\ batch = <<>>
    /\ saved' = IF handled THEN data ELSE saved
    /\ stage' = "check"
    /\ UNCHANGED <<telegram, data, batch, handled, told, due, botHistory>>

-----------------------------------------------------------------------------
(* check_alerts.                                                           *)

\* The interval has not passed, or the alerts at their threshold are due; none
\* when the prices cannot be had.
CheckAlerts ==
    /\ stage = "check"
    /\ \/ EndRound
       \/ /\ due' \in SUBSET data.on
          /\ stage' = "notify"
          /\ UNCHANGED <<batch, handled, told>>
    /\ UNCHANGED <<telegram, saved, data, botHistory>>

Triggered(a, d) == [d EXCEPT !.on = @ \ {a}, !.off = @ \cup {a}]

\* send_message, then mark_alert_triggered.
Notify(a) ==
    /\ stage = "notify" /\ a \in due
    /\ notified' = notified \cup {a}
    /\ data' = Triggered(a, data)
    /\ due' = due \ {a}
    /\ UNCHANGED <<telegram, saved, stage, batch, handled, told, answered, acked, removed, cut>>

\* Fault: the alert is marked before its notification is sent.
NotifyFailsMarked(a) ==
    /\ stage = "notify" /\ a \in due /\ "send" \in Faults
    /\ data' = Triggered(a, data)
    /\ EndRound
    /\ UNCHANGED <<telegram, saved, botHistory>>

NotifyFails(a) ==
    /\ stage = "notify" /\ a \in due /\ "send" \in Faults
    /\ EndRound
    /\ UNCHANGED <<telegram, saved, data, botHistory>>

SaveAlerts ==
    /\ stage = "notify" /\ due = {}
    /\ saved' = data
    /\ EndRound
    /\ UNCHANGED <<telegram, data, botHistory>>

\* save raises, after the batch or after the alerts.
SaveFails ==
    /\ "save" \in Faults
    /\ (stage = "handle" /\ batch = <<>> /\ handled) \/ (stage = "notify" /\ due = {})
    /\ EndRound
    /\ UNCHANGED <<telegram, saved, data, botHistory>>

\* The process dies and is started again from the file, which may not have the
\* offset of commands that took effect.  A file that cannot be read or parsed, or
\* that is empty, counts as a new state, and the next save writes over it.
Restart ==
    /\ "kill" \in Faults
    /\ \/ data' = saved /\ UNCHANGED acked
       \/ "read" \in Faults /\ data' = NewData /\ acked' = {}
    /\ cut' = cut \cup {u \in Update : u >= saved.offset /\ MadeBy(u, data) # {}}
    /\ EndRound
    /\ UNCHANGED <<telegram, saved, answered, notified, removed>>

Round ==
    \/ Poll \/ Ignore \/ HandleCommand \/ RateLimited \/ Reply \/ SaveBatch
    \/ CheckAlerts \/ SaveAlerts \/ \E a \in Alert : Notify(a)

\* Everything but a death and a command that cannot save.
BotLive ==
    \/ Round \/ PollFails \/ ReplyFails \/ SaveFails
    \/ \E k \in Kinds : Arrive(k)
    \/ \E a \in Alert : NotifyFails(a)

BotNext == BotLive \/ CommandRaises \/ Restart

BotSpec == BotInit /\ [][BotNext]_botVars

\* The loop goes on, and Telegram does not refuse polls or replies for ever.
BotFairness == WF_botVars(Round \/ ReplyFails) /\ SF_botVars(Poll) /\ SF_botVars(Reply)

\* In the end the bot does not die any more and commands can save: a step that
\* looks like such a failure is one that a bot without it takes.  (Rounds that
\* change nothing, or that fail elsewhere again and again, still go on.)
FaultsEnd == <>[][Restart \/ CommandRaises => BotLive]_botVars

BotFairSpec == BotSpec /\ BotFairness /\ FaultsEnd

-----------------------------------------------------------------------------
(* Properties.                                                             *)

DataType == [offset : 1..(MaxUpdate + 1), on : SUBSET Alert, off : SUBSET Alert]

\* The types of the variables; an alert is not both active and done.
BotTypeOK ==
    /\ kind \in Seq(Kinds) /\ Len(kind) <= MaxUpdate
    /\ confirmed \in 1..(MaxUpdate + 1)
    /\ saved \in DataType /\ data \in DataType
    /\ data.on \cap data.off = {}
    /\ stage \in {"poll", "handle", "reply", "check", "notify"}
    /\ \A i \in DOMAIN batch : batch[i] \in 1..Len(kind)
    /\ handled \in BOOLEAN /\ told \subseteq data.on /\ due \subseteq data.on
    /\ answered \subseteq Update /\ cut \subseteq Update
    /\ acked \subseteq Alert /\ notified \subseteq Alert /\ removed \subseteq Alert

\* Telegram is never asked from behind a command that has no reply: refused
\* sends, deaths and unsaved offsets only repeat replies, they skip none.
NoCommandSkipped ==
    \A u \in 1..Len(kind) :
        kind[u] # "other" /\ (u < confirmed \/ u < data.offset \/ u < saved.offset)
            => u \in answered

\* An alert is done only when its user was notified or removed it.
DoneMeansNotified == saved.off \cup data.off \subseteq notified \cup removed

\* An alert the user was told of survives the death of the bot, whatever failed
\* before or after the reply, until a start finds the saved state unreadable and
\* begins a new one.  (With the types.)
AlertsAreKept == BotTypeOK /\ acked \subseteq Entries(saved)

\* A command is handled twice, and makes a second alert, only if something failed
\* between its effect and the save of its offset; lost polls, failing saves after
\* the batch and interrupted rounds do not repeat it.
DuplicatesAreExcused ==
    \A u \in Update : Cardinality(MadeBy(u, data)) > 1 => u \in cut

\* telegram/bot/README.md: "Interactive Telegram bot for user-called polyData
\* queries": a query that has arrived is answered.
QueriesAreAnswered ==
    \A u \in Update : (u <= Len(kind) /\ kind[u] = "query") ~> u \in answered
=============================================================================
