---------------------------- MODULE TelegramProofs -----------------------------
(* Theorems about TelegramPublisher, for every set of processes, panels    *)
(* and messages, every number of parts and every bound of the state file,  *)
(* and about TelegramBot, for every number of updates, every batch size,   *)
(* every number of copies of an alert and every choice of faults.  The two *)
(* share no state; each has an inductive invariant of its own.             *)
EXTENDS TelegramPublisher, TelegramBot, FiniteSetTheorems, SequenceTheorems, TLAPS

(***************************************************************************)
(* The publisher.  One file lock makes one round at a time the owner of    *)
(* what is remembered: while a round runs, a message with a post is in the *)
(* state of that round, being sent, or recorded as lost, and when none     *)
(* runs it is in the file or lost (MemoryInv).  A primed file holds every  *)
(* record that was on the panels all the time, which a round of the whole  *)
(* catalog carries from its candidates to its state (PrimedInv).           *)
(***************************************************************************)

Locked == {"loop", "send", "catalog"}

\* The bound is about finite sets: every state has at most MaxEntries marks.
SizeInv ==
    /\ IsFiniteSet(file.sent)
    /\ \A p \in Proc : /\ IsFiniteSet(state[p].sent)
                       /\ Cardinality(state[p].sent) <= MaxEntries

LockInv == \A p \in Proc : pc[p] \in Locked => lock = p

\* The variables of a round fit its place, and a message is being sent only when
\* its mark is missing.
RoundOf(p) ==
    /\ pc[p] \notin Locked => state[p] = NewState /\ ~prime[p]
    /\ pc[p] # "send" => cur[p] = NoMsg /\ part[p] = 1
    /\ pc[p] = "send" => /\ cur[p] \in Msg \ state[p].sent /\ ~prime[p]
                         /\ 1..(part[p] - 1) \subseteq delivered[cur[p]]
    /\ pc[p] = "catalog" => prime[p] /\ complete[p] /\ todo[p] = {}
    /\ pc[p] \in Locked /\ p \in Catalog => (prime[p] <=> ~state[p].primed)

RoundInv == \A p \in Proc : RoundOf(p)

Accounted(m) == delivered[m] = 1..Parts \/ m \in absorbed
SentInv ==
    /\ \A m \in file.sent : Accounted(m)
    /\ \A p \in Proc : \A m \in state[p].sent : Accounted(m)

\* What p remembers of its own posts.
Mind(p) == state[p].sent \cup IF part[p] > 1 THEN {cur[p]} ELSE {}

Recalled(m) ==
    /\ \A p \in Proc : pc[p] \in Locked => m \in lost \cup Mind(p)
    /\ (\A p \in Proc : pc[p] \notin Locked) => m \in lost \cup file.sent

MemoryInv == \A m \in Msg : delivered[m] # {} => Recalled(m)

\* The records that were there all the time are in a primed state, and among the
\* candidates of a complete round that primes.
Primes(p) ==
    /\ pc[p] \in Locked /\ state[p].primed => old \subseteq state[p].sent
    /\ pc[p] = "lock" /\ complete[p] => old \subseteq todo[p]
    /\ pc[p] \in Locked /\ complete[p] /\ prime[p] => old \subseteq todo[p] \cup state[p].sent

PrimedInv ==
    /\ file.primed => old \subseteq file.sent
    /\ \A p \in Proc : Primes(p)

IInv == TypeOK /\ SizeInv /\ LockInv /\ RoundInv /\ SentInv /\ MemoryInv /\ PrimedInv

(***************************************************************************)
(* What the steps do.                                                      *)
(***************************************************************************)

\* The types that the other steps rely on.
LEMMA Typed ==
    ASSUME IInv, NEW p \in Proc
    PROVE  /\ state[p] \in States /\ state[p].sent \subseteq Msg
           /\ file \in States /\ file.sent \subseteq Msg
           /\ cur[p] \in Msg \cup {NoMsg} /\ part[p] \in 1..Parts /\ todo[p] \subseteq Msg
           /\ pc[p] = "send" => cur[p] \in Msg
  BY DEF IInv, TypeOK, RoundInv, RoundOf, States

\* A mark: the new entries and what falls out of them.
Marking(p, m, posts, sent) ==
    /\ sent \subseteq state[p].sent \cup {m}
    /\ IsFiniteSet(sent) /\ Cardinality(sent) <= MaxEntries
    /\ state' = [state EXCEPT ![p].sent = sent]
    /\ lost' = (lost \ {m}) \cup {n \in (state[p].sent \cup {m}) \ sent : posts[n] # {}}
    /\ old' = old \ ((state[p].sent \cup {m}) \ sent)

\* _trim keeps the state within its bound.
LEMMA TrimBounds ==
    ASSUME PublisherAssumption, NEW S, IsFiniteSet(S), Cardinality(S) <= MaxEntries + 1,
           NEW T \in Trimmed(S)
    PROVE  T \subseteq S /\ IsFiniteSet(T) /\ Cardinality(T) <= MaxEntries
  <1>1. Cardinality(S) \in Nat /\ MaxEntries \in Nat
    BY FS_CardinalityType, PublisherAssumption
  <1>2. CASE Cardinality(S) <= MaxEntries
    BY <1>2 DEF Trimmed
  <1>3. CASE ~(Cardinality(S) <= MaxEntries)
    <2>1. PICK m \in S : T = S \ {m}
      BY <1>3 DEF Trimmed
    <2>2. IsFiniteSet(T) /\ Cardinality(T) = Cardinality(S) - 1
      BY <2>1, FS_RemoveElement
    <2> QED
      BY <1>1, <2>1, <2>2
  <1> QED
    BY <1>2, <1>3

LEMMA MarkPicks ==
    ASSUME IInv, NEW p \in Proc, NEW m \in Msg, NEW posts, Mark(p, m, posts)
    PROVE  \E sent \in SUBSET Msg : Marking(p, m, posts, sent)
  <1> DEFINE S == state[p].sent \cup {m}
  <1>1. PICK sent \in Trimmed(S) :
            /\ state' = [state EXCEPT ![p].sent = sent]
            /\ lost' = (lost \ {m}) \cup {n \in S \ sent : posts[n] # {}}
            /\ old' = old \ (S \ sent)
    BY DEF Mark
  <1>2. IsFiniteSet(S) /\ Cardinality(S) <= MaxEntries + 1
    <2>1. IsFiniteSet(state[p].sent) /\ Cardinality(state[p].sent) <= MaxEntries
      BY DEF IInv, SizeInv
    <2>2. /\ IsFiniteSet(S) /\ Cardinality(state[p].sent) \in Nat
          /\ Cardinality(S) = Cardinality(state[p].sent)
                \/ Cardinality(S) = Cardinality(state[p].sent) + 1
      BY <2>1, FS_AddElement, FS_CardinalityType
    <2> QED
      BY <2>1, <2>2, PublisherAssumption
  <1>3. sent \subseteq S /\ IsFiniteSet(sent) /\ Cardinality(sent) <= MaxEntries
    BY <1>1, <1>2, TrimBounds, PublisherAssumption
  <1>4. S \subseteq Msg
    BY Typed
  <1>5. sent \in SUBSET Msg
    BY <1>3, <1>4
  <1> QED
    BY <1>1, <1>3, <1>5 DEF Marking

\* Only the entries of the one state change.
LEMMA StateAfterMarking ==
    ASSUME IInv, NEW p \in Proc, NEW sent \in SUBSET Msg,
           state' = [state EXCEPT ![p].sent = sent]
    PROVE  /\ state' \in [Proc -> States]
           /\ state'[p].sent = sent /\ state'[p].primed = state[p].primed
           /\ \A q \in Proc \ {p} : state'[q] = state[q]
  <1>1. state \in [Proc -> States]
    BY DEF IInv, TypeOK
  <1>2. state'[p] = [state[p] EXCEPT !.sent = sent] /\ state[p] \in States
    BY <1>1
  <1>3. /\ state'[p] \in States
        /\ state'[p].sent = sent /\ state'[p].primed = state[p].primed
    BY <1>2 DEF States
  <1> QED
    BY <1>1, <1>3

\* Telegram's posts, and the two ways in which a part that it took is followed.
Posted(p) == [delivered EXCEPT ![cur[p]] = @ \cup {part[p]}]

MorePart(p) ==
    /\ pc[p] = "send" /\ part[p] < Parts
    /\ delivered' = Posted(p)
    /\ part' = [part EXCEPT ![p] = @ + 1]
    /\ UNCHANGED <<shown, file, lock, pc, todo, complete, state, prime, cur, absorbed, lost, old>>

LastPart(p, sent) ==
    /\ pc[p] = "send" /\ part[p] = Parts
    /\ delivered' = Posted(p)
    /\ Marking(p, cur[p], Posted(p), sent)
    /\ part' = [part EXCEPT ![p] = 1]
    /\ cur' = [cur EXCEPT ![p] = NoMsg]
    /\ pc' = [pc EXCEPT ![p] = "loop"]
    /\ UNCHANGED <<shown, file, lock, todo, complete, prime, absorbed>>

LEMMA PartCases ==
    ASSUME IInv, NEW p \in Proc, PartAccepted(p)
    PROVE  MorePart(p) \/ \E sent \in SUBSET Msg : LastPart(p, sent)
  <1>1. part[p] \in 1..Parts /\ Parts \in Nat /\ pc[p] = "send" /\ cur[p] \in Msg
    BY Typed, PublisherAssumption DEF PartAccepted
  <1>2. CASE part[p] < Parts
    BY <1>1, <1>2 DEF PartAccepted, MorePart, Posted
  <1>3. CASE ~(part[p] < Parts)
    <2>1. /\ Mark(p, cur[p], Posted(p)) /\ delivered' = Posted(p)
          /\ part' = [part EXCEPT ![p] = 1]
          /\ cur' = [cur EXCEPT ![p] = NoMsg]
          /\ pc' = [pc EXCEPT ![p] = "loop"]
          /\ UNCHANGED <<shown, file, lock, todo, complete, prime, absorbed>>
      BY <1>3 DEF PartAccepted, Posted, Goto
    <2>2. PICK sent \in SUBSET Msg : Marking(p, cur[p], Posted(p), sent)
      BY <1>1, <2>1, MarkPicks
    <2>3. part[p] = Parts
      BY <1>1, <1>3
    <2> QED
      BY <1>1, <2>1, <2>2, <2>3 DEF LastPart
  <1> QED
    BY <1>2, <1>3

\* A post adds one part of one message.
LEMMA PostedGrows ==
    ASSUME IInv, NEW p \in Proc, pc[p] = "send"
    PROVE  /\ Posted(p) \in [Msg -> SUBSET (1..Parts)]
           /\ \A m \in Msg : delivered[m] \subseteq Posted(p)[m]
           /\ \A m \in Msg \ {cur[p]} : Posted(p)[m] = delivered[m]
           /\ Posted(p)[cur[p]] = delivered[cur[p]] \cup {part[p]}
  <1>1. cur[p] \in Msg /\ part[p] \in 1..Parts /\ delivered \in [Msg -> SUBSET (1..Parts)]
    BY Typed DEF IInv, TypeOK
  <1> QED
    BY <1>1 DEF Posted

\* A send that raised may have been posted; then the message is lost.
LEMMA Raising ==
    ASSUME IInv, NEW p \in Proc, PartRaises(p)
    PROVE  /\ delivered' \in {delivered, Posted(p)}
           /\ lost' \in {lost, lost \cup {cur[p]}}
           /\ delivered'[cur[p]] # {} => cur[p] \in lost'
           /\ pc[p] = "send" /\ cur[p] \in Msg
           /\ part' = [part EXCEPT ![p] = 1] /\ cur' = [cur EXCEPT ![p] = NoMsg]
           /\ pc' = [pc EXCEPT ![p] = "loop"]
           /\ UNCHANGED <<shown, file, lock, todo, complete, state, prime, absorbed, old>>
  <1>1. pc[p] = "send" /\ cur[p] \in Msg
    BY Typed DEF PartRaises
  <1>2. PICK posts \in {delivered, Posted(p)} :
            /\ delivered' = posts
            /\ lost' = IF posts[cur[p]] = {} THEN lost ELSE lost \cup {cur[p]}
    BY DEF PartRaises, Posted
  <1> QED
    BY <1>1, <1>2 DEF PartRaises, Goto

\* What is left of a round that is over.
LEMMA AfterReset ==
    ASSUME IInv, NEW p \in Proc, Reset(p)
    PROVE  /\ pc' = [pc EXCEPT ![p] = "idle"] /\ pc'[p] = "idle"
           /\ todo'[p] = {} /\ complete'[p] = FALSE
           /\ state'[p] = NewState /\ prime'[p] = FALSE
           /\ cur'[p] = NoMsg /\ part'[p] = 1
           /\ \A q \in Proc \ {p} :
                 /\ pc'[q] = pc[q] /\ todo'[q] = todo[q] /\ complete'[q] = complete[q]
                 /\ state'[q] = state[q] /\ prime'[q] = prime[q]
                 /\ cur'[q] = cur[q] /\ part'[q] = part[q]
  BY DEF Reset, Goto, IInv, TypeOK

\* The other processes keep what they were doing.
LEMMA OthersAfterReset ==
    ASSUME IInv, NEW p \in Proc, Reset(p), NEW q \in Proc, q # p
    PROVE  /\ pc'[q] = pc[q] /\ todo'[q] = todo[q] /\ complete'[q] = complete[q]
           /\ state'[q] = state[q] /\ prime'[q] = prime[q]
           /\ cur'[q] = cur[q] /\ part'[q] = part[q]
  BY AfterReset, Zenon

LEMMA TypesAfterReset ==
    ASSUME IInv, NEW p \in Proc, Reset(p)
    PROVE  /\ pc' \in [Proc -> {"idle", "lock", "loop", "send", "catalog"}]
           /\ todo' \in [Proc -> SUBSET Msg]
           /\ complete' \in [Proc -> BOOLEAN] /\ prime' \in [Proc -> BOOLEAN]
           /\ state' \in [Proc -> States]
           /\ cur' \in [Proc -> Msg \cup {NoMsg}] /\ part' \in [Proc -> 1..Parts]
  <1>1. TypeOK
    BY DEF IInv
  <1>2. complete' = [complete EXCEPT ![p] = FALSE] /\ prime' = [prime EXCEPT ![p] = FALSE]
    BY DEF Reset
  <1>3. complete' \in [Proc -> BOOLEAN] /\ prime' \in [Proc -> BOOLEAN]
    BY <1>1, <1>2, Zenon DEF TypeOK
  <1>4. NewState \in States /\ 1 \in 1..Parts
    BY PublisherAssumption DEF NewState, States
  <1> QED
    BY <1>1, <1>3, <1>4 DEF Reset, Goto, TypeOK

\* The three ways in which a round is over: saved, saved as primed, abandoned.
Saving(p) ==
    /\ pc[p] \in Locked /\ lock = p /\ lock' = NoProc /\ Reset(p)
    /\ file'.sent = state[p].sent /\ file' \in States
    /\ file' = state[p] \/ (pc[p] = "catalog" /\ file'.primed)
    /\ UNCHANGED <<shown, history>>

ToCatalog(p) ==
    /\ pc[p] = "loop" /\ todo[p] = {} /\ prime[p] /\ complete[p]
    /\ file' = state[p]
    /\ pc' = [pc EXCEPT ![p] = "catalog"]
    /\ UNCHANGED <<shown, lock, roundVars, history>>

LEMMA SavingCases ==
    ASSUME IInv, NEW p \in Proc, Save(p) \/ SaveCatalog(p)
    PROVE  Saving(p) \/ ToCatalog(p)
  <1>1. state[p] \in States
    BY Typed
  <1>2. CASE SaveCatalog(p)
    <2>1. file'.sent = state[p].sent /\ file'.primed /\ file' \in States
      BY <1>1, <1>2 DEF SaveCatalog, States
    <2> QED
      BY <1>2, <2>1 DEF SaveCatalog, Saving, Locked, IInv, LockInv
  <1>3. CASE Save(p) /\ prime[p] /\ complete[p]
    BY <1>3 DEF Save, ToCatalog, Goto
  <1>4. CASE Save(p) /\ ~(prime[p] /\ complete[p])
    BY <1>1, <1>4 DEF Save, Saving, Locked, IInv, LockInv
  <1> QED
    BY <1>2, <1>3, <1>4

\* What a round begins with.
Loading(p, read) ==
    /\ read \in States /\ read \in {file, NewState}
    /\ pc[p] = "lock" /\ lock = NoProc /\ lock' = p
    /\ state' = [state EXCEPT ![p] = read]
    /\ prime' = [prime EXCEPT ![p] = p \in Catalog /\ ~read.primed]
    /\ lost' = lost \cup {m \in file.sent \ read.sent : delivered[m] # {}}
    /\ pc' = [pc EXCEPT ![p] = "loop"]
    /\ UNCHANGED <<shown, file, todo, complete, cur, part, delivered, absorbed, old>>

LEMMA LoadReads ==
    ASSUME IInv, NEW p \in Proc, Load(p)
    PROVE  \E read \in States : Loading(p, read)
  <1>1. PICK read \in Read :
            /\ state' = [state EXCEPT ![p] = read]
            /\ prime' = [prime EXCEPT ![p] = p \in Catalog /\ ~read.primed]
            /\ lost' = lost \cup {m \in file.sent \ read.sent : delivered[m] # {}}
    BY DEF Load, Begin
  <1>2. file \in States /\ NewState \in States
    BY DEF IInv, TypeOK, NewState, States
  <1>3. read \in {file, NewState} /\ read \in States
    BY <1>1, <1>2 DEF Read
  <1> QED
    BY <1>1, <1>3 DEF Load, Begin, Goto, Loading

(***************************************************************************)
(* Every conjunct of the invariant, step by step.                          *)
(***************************************************************************)

\* Every variable keeps its type; the bound of the file is in SizeStep.
TypeInv ==
    /\ shown \subseteq Msg /\ file \in States /\ lock \in Proc \cup {NoProc}
    /\ pc \in [Proc -> {"idle", "lock", "loop", "send", "catalog"}]
    /\ todo \in [Proc -> SUBSET Msg]
    /\ complete \in [Proc -> BOOLEAN] /\ prime \in [Proc -> BOOLEAN]
    /\ state \in [Proc -> States]
    /\ cur \in [Proc -> Msg \cup {NoMsg}] /\ part \in [Proc -> 1..Parts]
    /\ delivered \in [Msg -> SUBSET (1..Parts)]
    /\ absorbed \subseteq Msg /\ lost \subseteq Msg /\ old \subseteq shown

LEMMA TypeStep == IInv /\ [Next]_vars => TypeInv'
  <1> SUFFICES ASSUME IInv, [Next]_vars PROVE TypeInv'
    OBVIOUS
  <1> USE PublisherAssumption DEF roundVars, history
  <1>0. TypeInv
    BY DEF IInv, TypeOK, TypeInv
  <1>1. ASSUME NEW m \in Msg, PanelsChange(m) PROVE TypeInv'
    BY <1>0, <1>1 DEF PanelsChange, TypeInv
  <1>2. ASSUME NEW p \in Proc, NEW panels \in Fetched(p), Fetch(p, panels) PROVE TypeInv'
    <2>1. complete' = [complete EXCEPT ![p] = panels = Panel]
      BY <1>2 DEF Fetch
    <2>2. complete' \in [Proc -> BOOLEAN]
      BY <1>0, <2>1, Zenon DEF TypeInv
    <2> QED
      BY <1>0, <1>2, <2>2 DEF Fetch, Goto, TypeInv
  <1>3. ASSUME NEW p \in Proc, Load(p) PROVE TypeInv'
    <2>1. PICK read \in States : Loading(p, read)
      BY <1>3, LoadReads
    <2>2. prime' = [prime EXCEPT ![p] = p \in Catalog /\ ~read.primed]
      BY <2>1 DEF Loading
    <2>3. prime' \in [Proc -> BOOLEAN]
      BY <1>0, <2>2, Zenon DEF TypeInv
    <2>4. lost' \subseteq Msg
      BY <1>0, <2>1 DEF Loading, TypeInv, States
    <2> QED
      BY <1>0, <2>1, <2>3, <2>4 DEF Loading, TypeInv
  <1>4. ASSUME NEW p \in Proc, NEW m \in Msg, Skip(p, m) \/ BeginSend(p, m) PROVE TypeInv'
    BY <1>0, <1>4 DEF Skip, BeginSend, Goto, TypeInv
  <1>5. ASSUME NEW p \in Proc, NEW m \in Msg, NEW posts, NEW sent \in SUBSET Msg,
               Marking(p, m, posts, sent)
        PROVE  state' \in [Proc -> States] /\ lost' \subseteq Msg /\ old' \subseteq old
    <2>1. state[p].sent \subseteq Msg
      BY Typed
    <2>2. state' \in [Proc -> States]
      BY <1>5, StateAfterMarking DEF Marking
    <2> QED
      BY <1>0, <1>5, <2>1, <2>2 DEF Marking, TypeInv
  <1>6. ASSUME NEW p \in Proc, NEW m \in Msg, PrimeOne(p, m) PROVE TypeInv'
    <2>1. PICK sent \in SUBSET Msg : Marking(p, m, delivered, sent)
      BY <1>6, MarkPicks DEF PrimeOne
    <2>2. state' \in [Proc -> States] /\ lost' \subseteq Msg /\ old' \subseteq old
      BY <1>5, <2>1
    <2> QED
      BY <1>0, <1>6, <2>2 DEF PrimeOne, TypeInv
  <1>7. ASSUME NEW p \in Proc, PartAccepted(p) PROVE TypeInv'
    <2>1. CASE MorePart(p)
      <3>1. part[p] + 1 \in 1..Parts
        BY <1>0, <2>1 DEF MorePart, TypeInv
      <3>2. delivered' \in [Msg -> SUBSET (1..Parts)]
        BY <2>1, PostedGrows DEF MorePart
      <3>3. part' \in [Proc -> 1..Parts]
        BY <1>0, <2>1, <3>1 DEF MorePart, TypeInv
      <3> QED
        BY <1>0, <2>1, <3>2, <3>3 DEF MorePart, TypeInv
    <2>2. ASSUME NEW sent \in SUBSET Msg, LastPart(p, sent) PROVE TypeInv'
      <3>1. cur[p] \in Msg
        BY <2>2, Typed DEF LastPart
      <3>2. state' \in [Proc -> States] /\ lost' \subseteq Msg /\ old' \subseteq old
        BY <1>5, <2>2, <3>1 DEF LastPart
      <3>3. delivered' \in [Msg -> SUBSET (1..Parts)]
        BY <2>2, PostedGrows DEF LastPart
      <3>4. 1 \in 1..Parts
        OBVIOUS
      <3>5. /\ pc' \in [Proc -> {"idle", "lock", "loop", "send", "catalog"}]
            /\ cur' \in [Proc -> Msg \cup {NoMsg}] /\ part' \in [Proc -> 1..Parts]
        BY <1>0, <2>2, <3>4 DEF LastPart, TypeInv
      <3>6. UNCHANGED <<shown, file, lock, todo, complete, prime, absorbed>>
        BY <2>2 DEF LastPart
      <3> QED
        BY <1>0, <3>2, <3>3, <3>5, <3>6 DEF TypeInv
    <2> QED
      BY <1>7, <2>1, <2>2, PartCases
  <1>8. ASSUME NEW p \in Proc, PartRaises(p) PROVE TypeInv'
    <2>1. delivered' \in [Msg -> SUBSET (1..Parts)] /\ lost' \subseteq Msg
      BY <1>0, <1>8, Raising, PostedGrows DEF TypeInv
    <2> QED
      BY <1>0, <1>8, <2>1, Raising DEF TypeInv
  <1>9. ASSUME NEW p \in Proc, Save(p) \/ SaveCatalog(p) PROVE TypeInv'
    <2>1. CASE Saving(p)
      BY <1>0, <2>1, TypesAfterReset DEF Saving, TypeInv
    <2>2. CASE ToCatalog(p)
      BY <1>0, <2>2 DEF ToCatalog, TypeInv
    <2> QED
      BY <1>9, <2>1, <2>2, SavingCases
  <1>10. ASSUME NEW p \in Proc, Abandon(p) PROVE TypeInv'
    <2>1. lost' \subseteq Msg
      BY <1>0, <1>10, Typed DEF Abandon, TypeInv
    <2>2. Reset(p) /\ lock' \in Proc \cup {NoProc}
          /\ UNCHANGED <<shown, file, delivered, absorbed, old>>
      BY <1>0, <1>10 DEF Abandon, TypeInv
    <2> QED
      BY <1>0, <2>1, <2>2, TypesAfterReset DEF TypeInv
  <1>11. ASSUME UNCHANGED vars PROVE TypeInv'
    BY <1>0, <1>11 DEF vars, TypeInv
  <1> QED
    BY <1>1, <1>2, <1>3, <1>4, <1>6, <1>7, <1>8, <1>9, <1>10, <1>11 DEF Next, Live, Handle

\* States and file stay within their bound.
LEMMA SizeStep == IInv /\ [Next]_vars => SizeInv' /\ Cardinality(file.sent)' <= MaxEntries
  <1> SUFFICES ASSUME IInv, [Next]_vars
               PROVE  SizeInv' /\ Cardinality(file'.sent) <= MaxEntries
    OBVIOUS
  <1> DEFINE Small(S) == IsFiniteSet(S) /\ Cardinality(S) <= MaxEntries
             Done == Small(file'.sent) /\ \A q \in Proc : Small(state'[q].sent)
  <1>a. Done => SizeInv' /\ Cardinality(file'.sent) <= MaxEntries
    BY DEF SizeInv
  <1>0. Small(file.sent) /\ \A q \in Proc : Small(state[q].sent)
    BY DEF IInv, SizeInv, TypeOK
  <1>e. Small({}) /\ NewState.sent = {}
    <2>1. IsFiniteSet({}) /\ Cardinality({}) = 0
      BY FS_EmptySet
    <2> QED
      BY <2>1, PublisherAssumption DEF NewState
  <1>r. ASSUME NEW p \in Proc, Reset(p), Small(file'.sent) PROVE Done
    BY <1>0, <1>e, <1>r, AfterReset
  <1>m. ASSUME NEW p \in Proc, NEW m \in Msg, NEW posts, NEW sent \in SUBSET Msg,
               Marking(p, m, posts, sent), file' = file
        PROVE  Done
    <2>1. state'[p].sent = sent /\ \A q \in Proc \ {p} : state'[q] = state[q]
      BY <1>m, StateAfterMarking DEF Marking
    <2> QED
      BY <1>0, <1>m, <2>1 DEF Marking
  <1> HIDE DEF Small
  <1>1. ASSUME UNCHANGED <<file, state>> PROVE Done
    BY <1>0, <1>1
  <1>2. ASSUME NEW p \in Proc, Load(p) PROVE Done
    <2>1. PICK read \in States : Loading(p, read)
      BY <1>2, LoadReads
    <2>2. state'[p] \in {file, NewState} /\ \A q \in Proc \ {p} : state'[q] = state[q]
      BY <2>1 DEF Loading, IInv, TypeOK
    <2> QED
      BY <1>0, <1>e, <2>1, <2>2 DEF Loading
  <1>3. ASSUME NEW p \in Proc, NEW m \in Msg, PrimeOne(p, m) PROVE Done
    BY <1>m, <1>3, MarkPicks DEF PrimeOne
  <1>4. ASSUME NEW p \in Proc, PartAccepted(p) PROVE Done
    <2>1. CASE MorePart(p)
      BY <1>1, <2>1 DEF MorePart
    <2>2. ASSUME NEW sent \in SUBSET Msg, LastPart(p, sent) PROVE Done
      <3>1. cur[p] \in Msg /\ file' = file /\ Marking(p, cur[p], Posted(p), sent)
        BY <2>2, Typed DEF LastPart
      <3> QED
        BY <1>m, <3>1
    <2> QED
      BY <1>4, <2>1, <2>2, PartCases
  <1>5. ASSUME NEW p \in Proc, Save(p) \/ SaveCatalog(p) PROVE Done
    <2>1. CASE Saving(p)
      BY <1>0, <1>r, <2>1 DEF Saving
    <2>2. CASE ToCatalog(p)
      BY <1>0, <2>2 DEF ToCatalog, roundVars
    <2> QED
      BY <1>5, <2>1, <2>2, SavingCases
  <1>6. ASSUME NEW p \in Proc, Abandon(p) PROVE Done
    BY <1>0, <1>r, <1>6 DEF Abandon
  <1>7. ASSUME NEW p \in Proc, NEW m \in Msg, Skip(p, m) \/ BeginSend(p, m) PROVE Done
    BY <1>1, <1>7 DEF Skip, BeginSend
  <1>8. ASSUME NEW p \in Proc, (\E panels \in Fetched(p) : Fetch(p, panels)) \/ PartRaises(p)
        PROVE  Done
    BY <1>1, <1>8 DEF Fetch, PartRaises
  <1>9. ASSUME (\E m \in Msg : PanelsChange(m)) \/ UNCHANGED vars PROVE Done
    BY <1>1, <1>9 DEF PanelsChange, vars, roundVars
  <1> HIDE DEF Done
  <1> QED
    BY <1>a, <1>2, <1>3, <1>4, <1>5, <1>6, <1>7, <1>8, <1>9 DEF Next, Live, Handle

\* Whoever is in the middle of a round has the file lock.
LEMMA LockStep == IInv /\ [Next]_vars => LockInv'
  <1> SUFFICES ASSUME IInv, [Next]_vars PROVE LockInv'
    OBVIOUS
  <1> USE PublisherAssumption DEF roundVars, Locked
  <1>0. LockInv /\ TypeOK
    BY DEF IInv
  <1>1. ASSUME NEW p \in Proc, NEW place, pc[p] \in Locked \/ place \notin Locked,
               pc' = [pc EXCEPT ![p] = place], lock' = lock
        PROVE  LockInv'
    BY <1>0, <1>1 DEF LockInv, TypeOK
  <1>2. ASSUME UNCHANGED <<pc, lock>> PROVE LockInv'
    BY <1>0, <1>2 DEF LockInv
  <1>3. ASSUME NEW p \in Proc, Load(p) PROVE LockInv'
    <2>1. lock = NoProc /\ lock' = p /\ pc' = [pc EXCEPT ![p] = "loop"]
      BY <1>3 DEF Load, Begin, Goto
    <2>2. \A q \in Proc : pc[q] \notin Locked
      BY <1>0, <2>1 DEF LockInv
    <2> QED
      BY <1>0, <2>1, <2>2 DEF LockInv, TypeOK
  <1>4. ASSUME NEW p \in Proc, Reset(p), lock' = IF lock = p THEN NoProc ELSE lock
        PROVE  LockInv'
    BY <1>0, <1>4, AfterReset DEF LockInv
  <1>5. ASSUME NEW p \in Proc, Save(p) \/ SaveCatalog(p) PROVE LockInv'
    <2>1. CASE Saving(p)
      BY <1>4, <2>1 DEF Saving
    <2>2. CASE ToCatalog(p)
      BY <1>1, <2>2 DEF ToCatalog
    <2> QED
      BY <1>5, <2>1, <2>2, SavingCases
  <1>6. ASSUME NEW p \in Proc, Abandon(p) PROVE LockInv'
    BY <1>4, <1>6 DEF Abandon
  <1>7. ASSUME NEW p \in Proc, NEW m \in Msg, Skip(p, m) \/ PrimeOne(p, m) PROVE LockInv'
    BY <1>2, <1>7 DEF Skip, PrimeOne
  <1>8. ASSUME NEW p \in Proc, NEW m \in Msg, BeginSend(p, m) PROVE LockInv'
    BY <1>1, <1>8 DEF BeginSend, Goto
  <1>9. ASSUME NEW p \in Proc, PartAccepted(p) PROVE LockInv'
    <2>1. CASE MorePart(p)
      BY <1>2, <2>1 DEF MorePart
    <2>2. ASSUME NEW sent \in SUBSET Msg, LastPart(p, sent) PROVE LockInv'
      BY <1>1, <2>2 DEF LastPart
    <2> QED
      BY <1>9, <2>1, <2>2, PartCases
  <1>10. ASSUME NEW p \in Proc, PartRaises(p) PROVE LockInv'
    BY <1>1, <1>10 DEF PartRaises, Goto
  <1>11. ASSUME NEW p \in Proc, NEW panels \in Fetched(p), Fetch(p, panels) PROVE LockInv'
    BY <1>1, <1>11 DEF Fetch, Goto
  <1>12. ASSUME (\E m \in Msg : PanelsChange(m)) \/ UNCHANGED vars PROVE LockInv'
    BY <1>2, <1>12 DEF PanelsChange, vars
  <1> QED
    BY <1>3, <1>5, <1>6, <1>7, <1>8, <1>9, <1>10, <1>11, <1>12 DEF Next, Live, Handle

\* A process that does nothing is not touched by posts of the others.
LEMMA OthersRound ==
    ASSUME IInv, NEW q \in Proc, \A m \in Msg : delivered[m] \subseteq delivered'[m],
           pc'[q] = pc[q], state'[q] = state[q], prime'[q] = prime[q], cur'[q] = cur[q],
           part'[q] = part[q], complete'[q] = complete[q], todo'[q] = todo[q]
    PROVE  RoundOf(q)'
  BY DEF IInv, RoundInv, RoundOf

LEMMA RoundStep == IInv /\ [Next]_vars => RoundInv'
  <1> SUFFICES ASSUME IInv, [Next]_vars, NEW q \in Proc PROVE RoundOf(q)'
    BY DEF RoundInv
  <1> USE PublisherAssumption DEF roundVars, history
  <1>0. TypeOK /\ RoundOf(q)
    BY DEF IInv, RoundInv
  <1>1. ASSUME NEW m \in Msg, PanelsChange(m) PROVE RoundOf(q)'
    BY <1>1, OthersRound DEF PanelsChange
  <1>2. ASSUME NEW p \in Proc, NEW panels \in Fetched(p), Fetch(p, panels) PROVE RoundOf(q)'
    <2>1. /\ pc[p] = "idle" /\ pc' = [pc EXCEPT ![p] = "lock"]
          /\ UNCHANGED <<state, prime, cur, part, delivered>>
          /\ q # p => complete'[q] = complete[q] /\ todo'[q] = todo[q]
      BY <1>0, <1>2 DEF Fetch, Goto, TypeOK
    <2> QED
      BY <1>0, <2>1 DEF RoundOf, Locked, TypeOK
  <1>3. ASSUME NEW p \in Proc, Load(p) PROVE RoundOf(q)'
    <2>1. PICK read \in States : Loading(p, read)
      BY <1>3, LoadReads
    <2>2. CASE q # p
      <3>1. /\ pc'[q] = pc[q] /\ state'[q] = state[q] /\ prime'[q] = prime[q]
            /\ UNCHANGED <<cur, part, complete, todo, delivered>>
        BY <1>0, <2>1, <2>2 DEF Loading, TypeOK
      <3> QED
        BY <3>1, OthersRound
    <2>3. CASE q = p
      <3>1. /\ pc[q] = "lock" /\ pc'[q] = "loop" /\ state'[q] = read
            /\ UNCHANGED <<cur, part>>
        BY <1>0, <2>1, <2>3 DEF Loading, TypeOK
      <3>2. prime'[q] = (q \in Catalog /\ ~read.primed)
        <4>1. prime' = [prime EXCEPT ![p] = p \in Catalog /\ ~read.primed]
          BY <2>1 DEF Loading
        <4>2. prime \in [Proc -> BOOLEAN]
          BY <1>0 DEF TypeOK
        <4> QED
          BY <2>3, <4>1, <4>2, Zenon
      <3> QED
        BY <1>0, <3>1, <3>2 DEF RoundOf, Locked
    <2> QED
      BY <2>2, <2>3
  <1>4. ASSUME NEW p \in Proc, NEW m \in Msg, Skip(p, m) PROVE RoundOf(q)'
    BY <1>0, <1>4 DEF Skip, RoundOf, TypeOK
  <1>5. ASSUME NEW p \in Proc, NEW m \in Msg, BeginSend(p, m) PROVE RoundOf(q)'
    <2>1. /\ pc[p] = "loop" /\ ~prime[p] /\ m \notin state[p].sent
          /\ cur' = [cur EXCEPT ![p] = m] /\ pc' = [pc EXCEPT ![p] = "send"]
          /\ todo' = [todo EXCEPT ![p] = @ \ {m}]
          /\ UNCHANGED <<state, prime, part, complete, delivered>>
      BY <1>5 DEF BeginSend, Goto
    <2>2. CASE q # p
      <3>1. pc'[q] = pc[q] /\ cur'[q] = cur[q] /\ todo'[q] = todo[q]
        BY <1>0, <2>1, <2>2 DEF TypeOK
      <3> QED
        BY <2>1, <3>1, OthersRound
    <2>3. CASE q = p
      <3>1. pc'[q] = "send" /\ cur'[q] = m /\ part[q] = 1
        BY <1>0, <2>1, <2>3 DEF TypeOK, RoundOf
      <3>2. 1..(part'[q] - 1) = {}
        BY <2>1, <3>1
      <3> QED
        BY <1>0, <2>1, <2>3, <3>1, <3>2 DEF RoundOf, Locked
    <2> QED
      BY <2>2, <2>3
  <1>6. ASSUME NEW p \in Proc, NEW m \in Msg, PrimeOne(p, m) PROVE RoundOf(q)'
    <2>1. PICK sent \in SUBSET Msg : Marking(p, m, delivered, sent)
      BY <1>6, MarkPicks DEF PrimeOne
    <2>2. state'[p].primed = state[p].primed /\ \A o \in Proc \ {p} : state'[o] = state[o]
      BY <2>1, StateAfterMarking DEF Marking
    <2>3. /\ pc[p] = "loop" /\ todo' = [todo EXCEPT ![p] = @ \ {m}]
          /\ UNCHANGED <<pc, cur, part, complete, prime, delivered>>
      BY <1>6 DEF PrimeOne
    <2> QED
      BY <1>0, <2>2, <2>3 DEF RoundOf, Locked, TypeOK
  <1>7. ASSUME NEW p \in Proc, MorePart(p) PROVE RoundOf(q)'
    <2>1. /\ pc[p] = "send" /\ part' = [part EXCEPT ![p] = @ + 1] /\ delivered' = Posted(p)
          /\ UNCHANGED <<pc, state, prime, cur, todo, complete>>
      BY <1>7 DEF MorePart
    <2>2. CASE q # p
      <3>1. part'[q] = part[q] /\ \A m \in Msg : delivered[m] \subseteq delivered'[m]
        BY <1>0, <2>1, <2>2, PostedGrows DEF TypeOK
      <3> QED
        BY <2>1, <3>1, OthersRound
    <2>3. CASE q = p
      <3>1. part'[q] = part[q] + 1 /\ part[q] \in 1..Parts
        BY <1>0, <2>1, <2>3 DEF TypeOK
      <3>2. 1..(part'[q] - 1) = 1..(part[q] - 1) \cup {part[q]}
        BY <3>1
      <3>3. delivered'[cur[q]] = delivered[cur[q]] \cup {part[q]}
        BY <2>1, <2>3, PostedGrows
      <3> QED
        BY <1>0, <2>1, <2>3, <3>2, <3>3 DEF RoundOf, Locked
    <2> QED
      BY <2>2, <2>3
  <1>8. ASSUME NEW p \in Proc, NEW sent \in SUBSET Msg, LastPart(p, sent) PROVE RoundOf(q)'
    <2>1. /\ pc[p] = "send" /\ delivered' = Posted(p)
          /\ state' = [state EXCEPT ![p].sent = sent]
          /\ part' = [part EXCEPT ![p] = 1] /\ cur' = [cur EXCEPT ![p] = NoMsg]
          /\ pc' = [pc EXCEPT ![p] = "loop"]
          /\ UNCHANGED <<todo, complete, prime>>
      BY <1>8 DEF LastPart, Marking
    <2>2. /\ state'[p].primed = state[p].primed
          /\ \A o \in Proc \ {p} : state'[o] = state[o]
          /\ \A m \in Msg : delivered[m] \subseteq delivered'[m]
      BY <2>1, StateAfterMarking, PostedGrows
    <2>3. CASE q # p
      <3>1. pc'[q] = pc[q] /\ cur'[q] = cur[q] /\ part'[q] = part[q]
        BY <1>0, <2>1, <2>3 DEF TypeOK
      <3> QED
        BY <2>1, <2>2, <2>3, <3>1, OthersRound
    <2>4. CASE q = p
      <3>1. pc'[q] = "loop" /\ cur'[q] = NoMsg /\ part'[q] = 1
        BY <1>0, <2>1, <2>4 DEF TypeOK
      <3> QED
        BY <1>0, <2>1, <2>2, <2>4, <3>1 DEF RoundOf, Locked
    <2> QED
      BY <2>3, <2>4
  <1>9. ASSUME NEW p \in Proc, PartRaises(p) PROVE RoundOf(q)'
    <2>1. /\ pc[p] = "send" /\ delivered' \in {delivered, Posted(p)}
          /\ part' = [part EXCEPT ![p] = 1] /\ cur' = [cur EXCEPT ![p] = NoMsg]
          /\ pc' = [pc EXCEPT ![p] = "loop"]
          /\ UNCHANGED <<todo, complete, prime, state>>
      BY <1>9, Raising
    <2>2. \A m \in Msg : delivered[m] \subseteq delivered'[m]
      BY <2>1, PostedGrows
    <2>3. CASE q # p
      <3>1. pc'[q] = pc[q] /\ cur'[q] = cur[q] /\ part'[q] = part[q]
        BY <1>0, <2>1, <2>3 DEF TypeOK
      <3> QED
        BY <2>1, <2>2, <3>1, OthersRound
    <2>4. CASE q = p
      <3>1. pc'[q] = "loop" /\ cur'[q] = NoMsg /\ part'[q] = 1
        BY <1>0, <2>1, <2>4 DEF TypeOK
      <3> QED
        BY <1>0, <2>1, <2>4, <3>1 DEF RoundOf, Locked
    <2> QED
      BY <2>3, <2>4
  <1>10. ASSUME NEW p \in Proc, Reset(p), delivered' = delivered PROVE RoundOf(q)'
    <2>1. CASE q # p
      <3>1. q \in Proc \ {p} /\ \A m \in Msg : delivered[m] \subseteq delivered'[m]
        BY <1>10, <2>1
      <3>2. /\ pc'[q] = pc[q] /\ todo'[q] = todo[q] /\ complete'[q] = complete[q]
            /\ state'[q] = state[q] /\ prime'[q] = prime[q]
            /\ cur'[q] = cur[q] /\ part'[q] = part[q]
        BY <1>10, <3>1, AfterReset, Zenon
      <3> QED
        BY <3>1, <3>2, OthersRound, Zenon
    <2>2. CASE q = p
      <3>1. pc'[q] = "idle" /\ state'[q] = NewState /\ cur'[q] = NoMsg /\ part'[q] = 1
        BY <1>10, <2>2, AfterReset
      <3>2. ~prime'[q]
        BY <1>10, <2>2, AfterReset
      <3> QED
        BY <3>1, <3>2 DEF RoundOf, Locked
    <2> QED
      BY <2>1, <2>2
  <1>11. ASSUME NEW p \in Proc, Save(p) \/ SaveCatalog(p) PROVE RoundOf(q)'
    <2>1. CASE Saving(p)
      BY <1>10, <2>1 DEF Saving
    <2>2. CASE ToCatalog(p)
      <3>1. /\ pc[p] = "loop" /\ todo[p] = {} /\ prime[p] /\ complete[p]
            /\ pc' = [pc EXCEPT ![p] = "catalog"]
            /\ UNCHANGED <<todo, complete, state, prime, cur, part, delivered>>
        BY <2>2 DEF ToCatalog
      <3>2. CASE q # p
        <4>1. pc'[q] = pc[q]
          BY <1>0, <3>1, <3>2 DEF TypeOK
        <4> QED
          BY <3>1, <4>1, OthersRound
      <3>3. CASE q = p
        <4>1. pc'[q] = "catalog"
          BY <1>0, <3>1, <3>3 DEF TypeOK
        <4> QED
          BY <1>0, <3>1, <3>3, <4>1 DEF RoundOf, Locked
      <3> QED
        BY <3>2, <3>3
    <2> QED
      BY <1>11, <2>1, <2>2, SavingCases
  <1>12. ASSUME NEW p \in Proc, Abandon(p) PROVE RoundOf(q)'
    BY <1>10, <1>12 DEF Abandon
  <1>13. ASSUME UNCHANGED vars PROVE RoundOf(q)'
    BY <1>13, OthersRound DEF vars
  <1>14. ASSUME NEW p \in Proc, PartAccepted(p) PROVE RoundOf(q)'
    BY <1>7, <1>8, <1>14, PartCases
  <1> QED
    BY <1>1, <1>2, <1>3, <1>4, <1>5, <1>6, <1>9, <1>11, <1>12, <1>13, <1>14
    DEF Next, Live, Handle

\* What a message has is not taken from it.
LEMMA AccountsStay ==
    ASSUME IInv, NEW m \in Msg, Accounted(m), absorbed \subseteq absorbed',
           \/ delivered' = delivered
           \/ \E p \in Proc : pc[p] = "send" /\ delivered' = Posted(p)
    PROVE  Accounted(m)'
  <1>1. CASE delivered' = delivered
    BY <1>1 DEF Accounted
  <1>2. ASSUME NEW p \in Proc, pc[p] = "send", delivered' = Posted(p)
        PROVE  Accounted(m)'
    <2>1. delivered[m] \subseteq delivered'[m] /\ delivered'[m] \subseteq 1..Parts
      BY <1>2, PostedGrows
    <2> QED
      BY <2>1 DEF Accounted
  <1> QED
    BY <1>1, <1>2

\* Steps that mark nothing: what is in a state was in one of them, or in the file.
LEMMA AccountsCarry ==
    ASSUME IInv, absorbed \subseteq absorbed',
           \/ delivered' = delivered
           \/ \E p \in Proc : pc[p] = "send" /\ delivered' = Posted(p),
           NEW S, \/ S \subseteq file.sent
                  \/ \E q \in Proc : S \subseteq state[q].sent
    PROVE  \A m \in S : Accounted(m)'
  <1>1. \A m \in S : m \in Msg /\ Accounted(m)
    <2>1. \A q \in Proc : state[q].sent \subseteq Msg /\ file.sent \subseteq Msg
      BY Typed
    <2>2. file.sent \subseteq Msg
      BY DEF IInv, TypeOK, States
    <2> QED
      BY <2>1, <2>2 DEF IInv, SentInv
  <1> QED
    BY <1>1, AccountsStay

\* What is marked was posted in full or primed.
LEMMA SentStep == IInv /\ [Next]_vars => SentInv'
  <1> SUFFICES ASSUME IInv, [Next]_vars PROVE SentInv'
    OBVIOUS
  <1> USE DEF roundVars, history
  <1>0. TypeOK
    BY DEF IInv
  <1> DEFINE Kept == \/ delivered' = delivered
                     \/ \E p \in Proc : pc[p] = "send" /\ delivered' = Posted(p)
  <1>a. ASSUME Kept, absorbed' = absorbed, UNCHANGED <<file, state>>
        PROVE  SentInv'
    <2>1. \A m \in file'.sent : Accounted(m)'
      BY <1>a, AccountsCarry
    <2>2. \A q \in Proc : \A m \in state'[q].sent : Accounted(m)'
      BY <1>a, AccountsCarry
    <2> QED
      BY <2>1, <2>2 DEF SentInv
  <1>b. ASSUME Kept, absorbed \subseteq absorbed', NEW p \in Proc, NEW m \in Msg, NEW posts,
               NEW sent \in SUBSET Msg, Marking(p, m, posts, sent), file' = file,
               Accounted(m)'
        PROVE  SentInv'
    <2>1. /\ sent \subseteq state[p].sent \cup {m}
          /\ state'[p].sent = sent /\ \A q \in Proc \ {p} : state'[q] = state[q]
      BY <1>b, StateAfterMarking DEF Marking
    <2>2. \A n \in file'.sent : Accounted(n)'
      BY <1>b, AccountsCarry
    <2>3. \A q \in Proc \ {p} : \A n \in state'[q].sent : Accounted(n)'
      BY <1>b, <2>1, AccountsCarry
    <2>4. \A n \in state[p].sent : Accounted(n)'
      BY <1>b, AccountsCarry
    <2>5. \A n \in state'[p].sent : Accounted(n)'
      BY <1>b, <2>1, <2>4
    <2> QED
      BY <2>2, <2>3, <2>5 DEF SentInv
  <1>c. ASSUME delivered' = delivered, absorbed' = absorbed, NEW p \in Proc,
               file'.sent = file.sent \/ file'.sent = state[p].sent,
               \A q \in Proc : state'[q] \in {state[q], NewState, file}
        PROVE  SentInv'
    <2>1. \A m \in file'.sent : Accounted(m)'
      BY <1>c, AccountsCarry
    <2>2. \A q \in Proc : \A m \in state'[q].sent : Accounted(m)'
      <3> SUFFICES ASSUME NEW q \in Proc
                   PROVE  \A m \in state'[q].sent : Accounted(m)'
        OBVIOUS
      <3>1. \/ state'[q].sent \subseteq state[q].sent
            \/ state'[q].sent \subseteq file.sent
        BY <1>c DEF NewState
      <3> QED
        BY <1>c, <3>1, AccountsCarry
    <2> QED
      BY <2>1, <2>2 DEF SentInv
  <1>1. ASSUME NEW p \in Proc, Load(p) PROVE SentInv'
    <2>1. PICK read \in States : Loading(p, read)
      BY <1>1, LoadReads
    <2>2. \A q \in Proc : state'[q] \in {state[q], NewState, file}
      BY <1>0, <2>1 DEF Loading, TypeOK
    <2> QED
      BY <1>c, <2>1, <2>2 DEF Loading
  <1>2. ASSUME NEW p \in Proc, NEW m \in Msg, PrimeOne(p, m) PROVE SentInv'
    <2>1. PICK sent \in SUBSET Msg : Marking(p, m, delivered, sent)
      BY <1>2, MarkPicks DEF PrimeOne
    <2>2. absorbed' = absorbed \cup {m} /\ delivered' = delivered /\ file' = file
      BY <1>2 DEF PrimeOne
    <2>3. Accounted(m)'
      BY <2>2 DEF Accounted
    <2> QED
      BY <1>b, <2>1, <2>2, <2>3
  <1>3. ASSUME NEW p \in Proc, PartAccepted(p) PROVE SentInv'
    <2>1. CASE MorePart(p)
      BY <1>a, <2>1 DEF MorePart
    <2>2. ASSUME NEW sent \in SUBSET Msg, LastPart(p, sent) PROVE SentInv'
      <3>1. /\ pc[p] = "send" /\ part[p] = Parts /\ delivered' = Posted(p)
            /\ Marking(p, cur[p], Posted(p), sent) /\ UNCHANGED <<file, absorbed>>
        BY <2>2 DEF LastPart
      <3>2. cur[p] \in Msg /\ 1..(Parts - 1) \subseteq delivered[cur[p]]
        BY <3>1 DEF IInv, RoundInv, RoundOf
      <3>3. delivered'[cur[p]] = delivered[cur[p]] \cup {Parts}
        BY <3>1, PostedGrows
      <3>4. delivered[cur[p]] \subseteq 1..Parts /\ Parts \in Nat \ {0}
        BY <1>0, <3>2, PublisherAssumption DEF TypeOK
      <3>5. 1..Parts = 1..(Parts - 1) \cup {Parts}
        BY <3>4
      <3>6. delivered'[cur[p]] = 1..Parts
        BY <3>2, <3>3, <3>4, <3>5
      <3>7. PICK m \in Msg : m = cur[p]
        BY <3>2
      <3>8. Accounted(m)'
        BY <3>6, <3>7 DEF Accounted
      <3> QED
        BY <1>b, <3>1, <3>7, <3>8
    <2> QED
      BY <1>3, <2>1, <2>2, PartCases
  <1>4. ASSUME NEW p \in Proc, PartRaises(p) PROVE SentInv'
    BY <1>a, <1>4, Raising
  <1>5. ASSUME NEW p \in Proc, Save(p) \/ SaveCatalog(p) PROVE SentInv'
    <2>1. CASE Saving(p)
      <3>1. /\ delivered' = delivered /\ absorbed' = absorbed
            /\ file'.sent = state[p].sent
            /\ \A q \in Proc : state'[q] \in {state[q], NewState}
        BY <2>1, AfterReset DEF Saving
      <3> QED
        BY <1>c, <3>1
    <2>2. CASE ToCatalog(p)
      BY <1>c, <2>2 DEF ToCatalog
    <2> QED
      BY <1>5, <2>1, <2>2, SavingCases
  <1>6. ASSUME NEW p \in Proc, Abandon(p) PROVE SentInv'
    <2>1. \A q \in Proc : state'[q] \in {state[q], NewState}
      BY <1>6, AfterReset DEF Abandon
    <2> QED
      BY <1>c, <1>6, <2>1 DEF Abandon
  <1>7. ASSUME NEW p \in Proc, NEW m \in Msg, Skip(p, m) \/ BeginSend(p, m) PROVE SentInv'
    BY <1>a, <1>7 DEF Skip, BeginSend
  <1>8. ASSUME NEW p \in Proc, NEW panels \in Fetched(p), Fetch(p, panels) PROVE SentInv'
    BY <1>a, <1>8 DEF Fetch
  <1>9. ASSUME (\E m \in Msg : PanelsChange(m)) \/ UNCHANGED vars PROVE SentInv'
    BY <1>a, <1>9 DEF PanelsChange, vars
  <1> QED
    BY <1>1, <1>2, <1>3, <1>4, <1>5, <1>6, <1>7, <1>8, <1>9 DEF Next, Live, Handle

\* The file lock lets one round run at a time.
LEMMA OneRound ==
    ASSUME IInv, NEW p \in Proc, pc[p] \in Locked
    PROVE  \A q \in Proc \ {p} : pc[q] \notin Locked
  BY DEF IInv, LockInv

\* After a mark everything with a post is in the state or recorded as lost.
LEMMA MarkRecalls ==
    ASSUME IInv, NEW p \in Proc, NEW m \in Msg, NEW posts, NEW sent \in SUBSET Msg,
           Marking(p, m, posts, sent),
           NEW n \in Msg, posts[n] # {}, n \in lost \cup state[p].sent \cup {m}
    PROVE  n \in lost' \cup sent
  BY DEF Marking

\* A message with a post is remembered or recorded as lost.
LEMMA MemoryStep == IInv /\ [Next]_vars => MemoryInv'
  <1> SUFFICES ASSUME IInv, [Next]_vars, NEW n \in Msg, delivered'[n] # {}
               PROVE  Recalled(n)'
    BY DEF MemoryInv
  <1> USE DEF roundVars, history
  <1>0. /\ TypeOK /\ RoundInv /\ LockInv
        /\ delivered[n] # {} => Recalled(n)
    BY DEF IInv, MemoryInv
  <1>a. ASSUME NEW p \in Proc, pc[p] \in Locked, \A q \in Proc \ {p} : pc'[q] = pc[q],
               pc'[p] \in Locked, n \in lost' \cup Mind(p)'
        PROVE  Recalled(n)'
    <2>1. \A q \in Proc \ {p} : pc'[q] \notin Locked
      BY <1>a, OneRound
    <2> QED
      BY <1>a, <2>1 DEF Recalled
  <1>b. ASSUME \A q \in Proc : pc'[q] \in Locked <=> pc[q] \in Locked,
               UNCHANGED <<state, part, file>>, delivered' = delivered, lost \subseteq lost',
               \A q \in Proc : pc[q] \in Locked /\ part[q] > 1 => cur'[q] = cur[q]
        PROVE  Recalled(n)'
    <2>1. \A q \in Proc : pc[q] \in Locked => Mind(q)' = Mind(q)
      BY <1>b DEF Mind
    <2> QED
      BY <1>0, <1>b, <2>1 DEF Recalled
  <1>c. ASSUME NEW p \in Proc, pc[p] \in Locked, Reset(p), n \in lost' \cup file'.sent
        PROVE  Recalled(n)'
    <2>1. \A q \in Proc : pc'[q] \notin Locked
      BY <1>c, OneRound, AfterReset DEF Locked
    <2> QED
      BY <1>c, <2>1 DEF Recalled
  <1>d. ASSUME NEW p \in Proc, pc[p] \in Locked, delivered[n] # {}
        PROVE  n \in lost \cup Mind(p)
    BY <1>0, <1>d DEF Recalled
  <1>1. ASSUME NEW p \in Proc, Load(p) PROVE Recalled(n)'
    <2>1. PICK read \in States : Loading(p, read)
      BY <1>1, LoadReads
    <2>2. \A q \in Proc : pc[q] \notin Locked
      BY <1>0, <2>1, PublisherAssumption DEF Loading, LockInv
    <2>3. n \in lost \cup file.sent /\ delivered[n] # {}
      BY <1>0, <2>1, <2>2 DEF Loading, Recalled
    <2>4. n \in lost' \cup read.sent
      BY <2>1, <2>3 DEF Loading
    <2>5. state'[p].sent = read.sent /\ pc' = [pc EXCEPT ![p] = "loop"]
      BY <1>0, <2>1 DEF Loading, TypeOK
    <2>6. \A q \in Proc : pc'[q] \in Locked => q = p
      BY <1>0, <2>2, <2>5 DEF TypeOK
    <2>7. pc'[p] \in Locked
      BY <1>0, <2>5 DEF TypeOK, Locked
    <2> QED
      BY <2>4, <2>5, <2>6, <2>7 DEF Recalled, Mind
  <1>2. ASSUME NEW p \in Proc, NEW m \in Msg, PrimeOne(p, m) PROVE Recalled(n)'
    <2>1. PICK sent \in SUBSET Msg : Marking(p, m, delivered, sent)
      BY <1>2, MarkPicks DEF PrimeOne
    <2>2. /\ pc[p] = "loop" /\ UNCHANGED <<pc, cur, part, delivered>>
      BY <1>2 DEF PrimeOne
    <2>3. part[p] = 1 /\ state'[p].sent = sent
      BY <1>0, <2>1, <2>2, StateAfterMarking DEF RoundInv, RoundOf, Marking
    <2>4. n \in lost \cup state[p].sent
      BY <1>d, <2>2, <2>3 DEF Mind, Locked
    <2>5. n \in lost' \cup sent
      BY <2>1, <2>2, <2>4, MarkRecalls
    <2>6. n \in lost' \cup Mind(p)'
      BY <2>3, <2>5 DEF Mind
    <2> QED
      BY <1>a, <2>2, <2>6 DEF Locked
  <1>3. ASSUME NEW p \in Proc, MorePart(p) PROVE Recalled(n)'
    <2>1. /\ pc[p] = "send" /\ delivered' = Posted(p) /\ part' = [part EXCEPT ![p] = @ + 1]
          /\ UNCHANGED <<pc, lost, state, cur>>
      BY <1>3 DEF MorePart
    <2>2. part'[p] > 1 /\ part'[p] = part[p] + 1 /\ part[p] \in Int
      BY <1>0, <2>1 DEF TypeOK
    <2>3. n # cur[p] => delivered[n] # {}
      BY <2>1, PostedGrows
    <2>4. n \in lost' \cup Mind(p)'
      BY <1>d, <2>1, <2>2, <2>3 DEF Mind, Locked
    <2> QED
      BY <1>a, <2>1, <2>4 DEF Locked
  <1>4. ASSUME NEW p \in Proc, NEW sent \in SUBSET Msg, LastPart(p, sent) PROVE Recalled(n)'
    <2>1. /\ pc[p] = "send" /\ delivered' = Posted(p) /\ Marking(p, cur[p], Posted(p), sent)
          /\ pc' = [pc EXCEPT ![p] = "loop"] /\ cur[p] \in Msg
      BY <1>4, Typed DEF LastPart
    <2>2. state'[p].sent = sent
      BY <2>1, StateAfterMarking DEF Marking
    <2>3. n # cur[p] => delivered[n] # {}
      BY <2>1, PostedGrows
    <2>4. n \in lost \cup state[p].sent \cup {cur[p]}
      BY <1>d, <2>1, <2>3 DEF Mind, Locked
    <2>5. n \in lost' \cup sent
      BY <2>1, <2>4, MarkRecalls
    <2>6. n \in lost' \cup Mind(p)'
      BY <2>2, <2>5 DEF Mind
    <2>7. pc'[p] \in Locked /\ \A q \in Proc \ {p} : pc'[q] = pc[q]
      BY <1>0, <2>1 DEF TypeOK, Locked
    <2> QED
      BY <1>a, <2>1, <2>6, <2>7 DEF Locked
  <1>5. ASSUME NEW p \in Proc, PartRaises(p) PROVE Recalled(n)'
    <2>1. /\ pc[p] = "send" /\ delivered' \in {delivered, Posted(p)}
          /\ lost' \in {lost, lost \cup {cur[p]}}
          /\ delivered'[cur[p]] # {} => cur[p] \in lost'
          /\ pc' = [pc EXCEPT ![p] = "loop"] /\ state' = state
      BY <1>5, Raising
    <2>2. n # cur[p] => delivered[n] # {}
      BY <2>1, PostedGrows
    <2>3. n # cur[p] => n \in lost \cup state[p].sent
      BY <1>d, <2>1, <2>2 DEF Mind, Locked
    <2>4. n \in lost' \cup Mind(p)'
      BY <2>1, <2>3 DEF Mind
    <2>5. pc'[p] \in Locked /\ \A q \in Proc \ {p} : pc'[q] = pc[q]
      BY <1>0, <2>1 DEF TypeOK, Locked
    <2> QED
      BY <1>a, <2>1, <2>4, <2>5 DEF Locked
  <1>6. ASSUME NEW p \in Proc, Save(p) \/ SaveCatalog(p) PROVE Recalled(n)'
    <2>1. CASE Saving(p)
      <3>1. /\ pc[p] \in Locked /\ pc[p] # "send" /\ delivered[n] # {} /\ lost' = lost
            /\ file'.sent = state[p].sent /\ Reset(p)
        BY <1>6, <2>1 DEF Saving, Save, SaveCatalog
      <3>2. part[p] = 1
        BY <1>0, <3>1 DEF RoundInv, RoundOf
      <3>3. n \in lost \cup state[p].sent
        BY <1>d, <3>1, <3>2 DEF Mind
      <3> QED
        BY <1>c, <3>1, <3>3
    <2>2. CASE ToCatalog(p)
      <3>1. /\ pc[p] = "loop" /\ pc' = [pc EXCEPT ![p] = "catalog"]
            /\ delivered[n] # {} /\ lost' = lost
            /\ state' = state /\ part' = part /\ cur' = cur
        BY <2>2 DEF ToCatalog
      <3>2. n \in lost' \cup Mind(p)'
        BY <1>d, <3>1 DEF Mind, Locked
      <3>3. pc'[p] \in Locked /\ \A q \in Proc \ {p} : pc'[q] = pc[q]
        BY <1>0, <3>1 DEF TypeOK, Locked
      <3> QED
        BY <1>a, <3>1, <3>2, <3>3 DEF Locked
    <2> QED
      BY <1>6, <2>1, <2>2, SavingCases
  <1>7. ASSUME NEW p \in Proc, Abandon(p) PROVE Recalled(n)'
    <2>1. /\ Reset(p) /\ delivered' = delivered /\ file' = file
          /\ lost' = lost \cup {m \in (state[p].sent \ file.sent) \cup ({cur[p]} \ {NoMsg}) :
                                   delivered[m] # {}}
      BY <1>7 DEF Abandon
    <2>2. CASE pc[p] \in Locked
      <3>1. n \in lost \cup Mind(p)
        BY <1>d, <2>1, <2>2
      <3>2. n # NoMsg
        BY PublisherAssumption
      <3>3. n \in lost \cup state[p].sent \cup ({cur[p]} \ {NoMsg})
        BY <3>1, <3>2 DEF Mind
      <3>4. n \in lost' \cup file'.sent
        BY <2>1, <3>3
      <3> QED
        BY <1>c, <2>1, <2>2, <3>4
    <2>3. CASE pc[p] \notin Locked
      <3>1. pc'[p] = "idle"
        BY <2>1, AfterReset
      <3>2. \A q \in Proc : /\ pc'[q] \in Locked <=> pc[q] \in Locked
                            /\ pc[q] \in Locked => Mind(q)' = Mind(q)
        <4> SUFFICES ASSUME NEW q \in Proc
                     PROVE  /\ pc'[q] \in Locked <=> pc[q] \in Locked
                            /\ pc[q] \in Locked => Mind(q)' = Mind(q)
          OBVIOUS
        <4>1. CASE q = p
          BY <2>3, <3>1, <4>1 DEF Locked
        <4>2. CASE q # p
          <5>1. pc'[q] = pc[q] /\ state'[q] = state[q] /\ part'[q] = part[q] /\ cur'[q] = cur[q]
            BY <2>1, <4>2, OthersAfterReset
          <5> QED
            BY <5>1 DEF Mind
        <4> QED
          BY <4>1, <4>2
      <3> QED
        BY <1>0, <2>1, <3>2 DEF Recalled
    <2> QED
      BY <2>2, <2>3
  <1>8. ASSUME NEW p \in Proc, NEW m \in Msg, BeginSend(p, m) PROVE Recalled(n)'
    <2>1. /\ pc[p] = "loop" /\ pc' = [pc EXCEPT ![p] = "send"]
          /\ cur' = [cur EXCEPT ![p] = m]
          /\ UNCHANGED <<state, part, file, delivered, lost>>
      BY <1>8 DEF BeginSend, Goto
    <2>2. part[p] = 1
      BY <1>0, <2>1 DEF RoundInv, RoundOf
    <2>3. \A q \in Proc : pc'[q] \in Locked <=> pc[q] \in Locked
      BY <1>0, <2>1 DEF TypeOK, Locked
    <2>4. \A q \in Proc : part[q] > 1 => cur'[q] = cur[q]
      BY <1>0, <2>1, <2>2 DEF TypeOK
    <2> QED
      BY <1>b, <2>1, <2>3, <2>4
  <1>9. ASSUME NEW p \in Proc, NEW panels \in Fetched(p), Fetch(p, panels) PROVE Recalled(n)'
    <2>1. /\ pc[p] = "idle" /\ pc' = [pc EXCEPT ![p] = "lock"]
          /\ UNCHANGED <<state, part, file, cur, delivered, lost>>
      BY <1>9 DEF Fetch, Goto
    <2>2. \A q \in Proc : pc'[q] \in Locked <=> pc[q] \in Locked
      BY <1>0, <2>1 DEF TypeOK, Locked
    <2> QED
      BY <1>b, <2>1, <2>2
  <1>10. ASSUME NEW p \in Proc, NEW m \in Msg, Skip(p, m) PROVE Recalled(n)'
    BY <1>b, <1>10 DEF Skip
  <1>11. ASSUME (\E m \in Msg : PanelsChange(m)) \/ UNCHANGED vars PROVE Recalled(n)'
    BY <1>b, <1>11 DEF PanelsChange, vars
  <1>12. ASSUME NEW p \in Proc, PartAccepted(p) PROVE Recalled(n)'
    BY <1>3, <1>4, <1>12, PartCases
  <1> QED
    BY <1>1, <1>2, <1>5, <1>6, <1>7, <1>8, <1>9, <1>10, <1>11, <1>12 DEF Next, Live, Handle

\* A process that does nothing is not touched when others forget old records.
LEMMA OthersPrime ==
    ASSUME IInv, NEW q \in Proc, old' \subseteq old,
           pc'[q] = pc[q], state'[q] = state[q], prime'[q] = prime[q],
           complete'[q] = complete[q], todo'[q] = todo[q]
    PROVE  Primes(q)'
  BY DEF IInv, PrimedInv, Primes

\* A mark takes from the old records what it trims.
LEMMA MarkPrimes ==
    ASSUME IInv, NEW p \in Proc, NEW m, NEW posts, NEW sent, Marking(p, m, posts, sent)
    PROVE  /\ old' \subseteq old
           /\ \A S : old \subseteq S \cup state[p].sent => old' \subseteq (S \ {m}) \cup sent
  BY DEF Marking

LEMMA PrimedStep == IInv /\ [Next]_vars => PrimedInv'
  <1> SUFFICES ASSUME IInv, [Next]_vars, NEW q \in Proc
               PROVE  (file'.primed => old' \subseteq file'.sent) /\ Primes(q)'
    <2>1. CASE Proc = {}
      BY <2>1 DEF Next, Live, vars, IInv, PrimedInv, PanelsChange
    <2>2. CASE Proc # {}
      BY <2>2 DEF PrimedInv
    <2> QED
      BY <2>1, <2>2
  <1> USE DEF roundVars, history
  <1> DEFINE Done == (file'.primed => old' \subseteq file'.sent) /\ Primes(q)'
  <1>0. /\ TypeOK /\ RoundInv /\ Primes(q)
        /\ file.primed => old \subseteq file.sent
    BY DEF IInv, PrimedInv
  <1>f. ASSUME file' = file, old' \subseteq old
        PROVE  file'.primed => old' \subseteq file'.sent
    BY <1>0, <1>f
  <1>1. ASSUME (\E m \in Msg : PanelsChange(m)) \/ UNCHANGED vars PROVE Done
    BY <1>f, <1>1, OthersPrime DEF PanelsChange, vars
  <1>2. ASSUME NEW p \in Proc, NEW panels \in Fetched(p), Fetch(p, panels) PROVE Done
    <2>1. /\ pc[p] = "idle" /\ pc' = [pc EXCEPT ![p] = "lock"]
          /\ todo' = [todo EXCEPT ![p] = {m \in shown : PanelOf[m] \in panels}]
          /\ complete' = [complete EXCEPT ![p] = panels = Panel]
          /\ UNCHANGED <<old, file, state, prime>>
      BY <1>2 DEF Fetch, Goto
    <2>2. CASE q # p
      <3>1. complete'[q] = complete[q]
        BY <1>0, <2>1, <2>2, Zenon DEF TypeOK
      <3>2. pc'[q] = pc[q] /\ todo'[q] = todo[q]
        BY <1>0, <2>1, <2>2 DEF TypeOK
      <3> QED
        BY <1>f, <2>1, <3>1, <3>2, OthersPrime
    <2>3. CASE q = p
      <3>1. pc'[q] = "lock" /\ todo'[q] = {m \in shown : PanelOf[m] \in panels}
        BY <1>0, <2>1, <2>3 DEF TypeOK
      <3>2. complete'[q] = (panels = Panel)
        BY <1>0, <2>1, <2>3, Zenon DEF TypeOK
      <3>3. panels = Panel => old' \subseteq todo'[q]
        BY <1>0, <2>1, <3>1, PublisherAssumption DEF TypeOK
      <3> QED
        BY <1>f, <2>1, <3>1, <3>2, <3>3 DEF Primes, Locked
    <2> QED
      BY <2>2, <2>3
  <1>3. ASSUME NEW p \in Proc, Load(p) PROVE Done
    <2>1. PICK read \in States : Loading(p, read)
      BY <1>3, LoadReads
    <2>2. /\ pc[p] = "lock" /\ pc' = [pc EXCEPT ![p] = "loop"]
          /\ state' = [state EXCEPT ![p] = read]
          /\ prime' = [prime EXCEPT ![p] = p \in Catalog /\ ~read.primed]
          /\ UNCHANGED <<old, file, todo, complete>>
      BY <2>1 DEF Loading
    <2>3. CASE q # p
      <3>1. prime'[q] = prime[q]
        BY <1>0, <2>2, <2>3, Zenon DEF TypeOK
      <3>2. pc'[q] = pc[q] /\ state'[q] = state[q]
        BY <1>0, <2>2, <2>3 DEF TypeOK
      <3> QED
        BY <1>f, <2>2, <3>1, <3>2, OthersPrime
    <2>4. CASE q = p
      <3>1. pc'[q] = "loop" /\ state'[q] = read
        BY <1>0, <2>2, <2>4 DEF TypeOK
      <3>2. read.primed => old' \subseteq read.sent
        BY <1>0, <2>1, <2>2 DEF Loading, NewState
      <3>3. complete'[q] => old' \subseteq todo'[q]
        BY <1>0, <2>2, <2>4 DEF Primes
      <3> QED
        BY <1>f, <2>2, <3>1, <3>2, <3>3 DEF Primes
    <2> QED
      BY <2>3, <2>4
  <1>4. ASSUME NEW p \in Proc, NEW m \in Msg, Skip(p, m) PROVE Done
    <2>1. /\ pc[p] = "loop" /\ (m \in state[p].sent \/ ~prime[p])
          /\ todo' = [todo EXCEPT ![p] = @ \ {m}]
          /\ UNCHANGED <<old, file, pc, state, prime, complete>>
      BY <1>4 DEF Skip
    <2>2. CASE q # p
      <3>1. todo'[q] = todo[q]
        BY <1>0, <2>1, <2>2 DEF TypeOK
      <3> QED
        BY <1>f, <2>1, <3>1, OthersPrime
    <2>3. CASE q = p
      <3>1. todo'[q] = todo[q] \ {m} /\ pc[q] = "loop"
        BY <1>0, <1>4, <2>1, <2>3 DEF TypeOK, Skip
      <3> QED
        BY <1>0, <1>f, <2>1, <2>3, <3>1 DEF Primes, Locked
    <2> QED
      BY <2>2, <2>3
  <1>m. ASSUME NEW p \in Proc, NEW m \in Msg, NEW posts, NEW sent \in SUBSET Msg,
               Marking(p, m, posts, sent), pc[p] \in Locked, pc'[p] \in Locked,
               \A o \in Proc \ {p} : pc'[o] = pc[o] /\ todo'[o] = todo[o],
               todo[p] \ {m} \subseteq todo'[p],
               UNCHANGED <<file, prime, complete>>
        PROVE  Done
    <2>1. /\ state'[p].sent = sent /\ state'[p].primed = state[p].primed
          /\ \A o \in Proc \ {p} : state'[o] = state[o]
      BY <1>m, StateAfterMarking DEF Marking
    <2>2. /\ old' \subseteq old
          /\ \A S : old \subseteq S \cup state[p].sent => old' \subseteq (S \ {m}) \cup sent
      BY <1>m, MarkPrimes
    <2>3. CASE q # p
      BY <1>f, <1>m, <2>1, <2>2, <2>3, OthersPrime
    <2>4. CASE q = p
      <3>1. state'[q].primed => old' \subseteq sent
        <4>1. state[p].primed => old \subseteq {} \cup state[p].sent
          BY <1>0, <1>m, <2>4 DEF Primes
        <4>2. state[p].primed => old' \subseteq ({} \ {m}) \cup sent
          BY <2>2, <4>1
        <4> QED
          BY <2>1, <2>4, <4>2
      <3>2. complete'[q] /\ prime'[q] => old' \subseteq todo'[q] \cup sent
        <4>1. complete[p] /\ prime[p] => old \subseteq todo[p] \cup state[p].sent
          BY <1>0, <1>m, <2>4 DEF Primes
        <4>2. complete[p] /\ prime[p] => old' \subseteq (todo[p] \ {m}) \cup sent
          BY <2>2, <4>1
        <4> QED
          BY <1>m, <2>4, <4>2
      <3>3. pc'[q] # "lock"
        BY <1>m, <2>4 DEF Locked
      <3>4. Primes(q)'
        BY <2>1, <2>4, <3>1, <3>2, <3>3 DEF Primes
      <3> QED
        BY <1>f, <1>m, <2>2, <3>4
    <2> QED
      BY <2>3, <2>4
  <1>5. ASSUME NEW p \in Proc, NEW m \in Msg, PrimeOne(p, m) PROVE Done
    <2>1. PICK sent \in SUBSET Msg : Marking(p, m, delivered, sent)
      BY <1>5, MarkPicks DEF PrimeOne
    <2>2. /\ pc[p] \in Locked /\ pc' = pc /\ todo' = [todo EXCEPT ![p] = @ \ {m}]
          /\ UNCHANGED <<file, prime, complete>>
      BY <1>5 DEF PrimeOne, Locked
    <2>3. /\ \A o \in Proc \ {p} : todo'[o] = todo[o]
          /\ todo'[p] = todo[p] \ {m}
      BY <1>0, <2>2 DEF TypeOK
    <2> QED
      BY <1>m, <2>1, <2>2, <2>3
  <1>6. ASSUME NEW p \in Proc, PartAccepted(p) PROVE Done
    <2>1. CASE MorePart(p)
      BY <1>f, <2>1, OthersPrime DEF MorePart
    <2>2. ASSUME NEW sent \in SUBSET Msg, LastPart(p, sent) PROVE Done
      <3>1. /\ pc[p] = "send" /\ pc' = [pc EXCEPT ![p] = "loop"] /\ cur[p] \in Msg
            /\ Marking(p, cur[p], Posted(p), sent)
            /\ UNCHANGED <<file, prime, complete, todo>>
        BY <2>2, Typed DEF LastPart
      <3>2. /\ pc'[p] = "loop" /\ \A o \in Proc \ {p} : pc'[o] = pc[o]
        BY <1>0, <3>1 DEF TypeOK
      <3> QED
        BY <1>m, <3>1, <3>2 DEF Locked
    <2> QED
      BY <1>6, <2>1, <2>2, PartCases
  <1>p. ASSUME NEW p \in Proc, pc[p] \in Locked, NEW place \in Locked,
               pc' = [pc EXCEPT ![p] = place],
               UNCHANGED <<state, prime, complete, old>>,
               q # p => todo'[q] = todo[q],
               q = p => ~prime[p] \/ todo'[q] = todo[q]
        PROVE  Primes(q)'
    <2>1. CASE q # p
      <3>1. pc'[q] = pc[q]
        BY <1>0, <1>p, <2>1 DEF TypeOK
      <3> QED
        BY <1>p, <2>1, <3>1, OthersPrime
    <2>2. CASE q = p
      <3>1. pc'[q] = place /\ place # "lock"
        BY <1>0, <1>p, <2>2 DEF TypeOK, Locked
      <3> QED
        BY <1>0, <1>p, <2>2, <3>1 DEF Primes
    <2> QED
      BY <2>1, <2>2
  <1>7. ASSUME NEW p \in Proc, NEW m \in Msg, BeginSend(p, m) PROVE Done
    <2>1. /\ pc[p] = "loop" /\ ~prime[p] /\ pc' = [pc EXCEPT ![p] = "send"]
          /\ q # p => todo'[q] = todo[q]
          /\ UNCHANGED <<file, state, prime, complete, old>>
      BY <1>0, <1>7 DEF BeginSend, Goto, TypeOK
    <2>2. "send" \in Locked /\ "loop" \in Locked
      BY DEF Locked
    <2> QED
      BY <1>f, <1>p, <2>1, <2>2
  <1>8. ASSUME NEW p \in Proc, PartRaises(p) PROVE Done
    <2>1. /\ pc[p] = "send" /\ pc' = [pc EXCEPT ![p] = "loop"]
          /\ UNCHANGED <<file, state, prime, complete, old, todo>>
      BY <1>8, Raising
    <2>2. "send" \in Locked /\ "loop" \in Locked
      BY DEF Locked
    <2>3. todo'[q] = todo[q] /\ pc[p] \in Locked
      BY <2>1, <2>2
    <2> QED
      BY <1>f, <1>p, <2>1, <2>2, <2>3
  <1>9. ASSUME NEW p \in Proc, Reset(p), old' = old PROVE Primes(q)'
    <2>1. CASE q # p
      <3>1. /\ pc'[q] = pc[q] /\ todo'[q] = todo[q] /\ complete'[q] = complete[q]
            /\ state'[q] = state[q] /\ prime'[q] = prime[q]
        BY <1>9, <2>1, OthersAfterReset
      <3> QED
        BY <1>9, <3>1, OthersPrime, Zenon
    <2>2. CASE q = p
      <3>1. pc'[q] = "idle"
        BY <1>9, <2>2, AfterReset
      <3> QED
        BY <3>1 DEF Primes, Locked
    <2> QED
      BY <2>1, <2>2
  <1>10. ASSUME NEW p \in Proc, Save(p) \/ SaveCatalog(p) PROVE Done
    <2>0. Primes(p)
      BY DEF IInv, PrimedInv
    <2>1. CASE Saving(p)
      <3>1. /\ Reset(p) /\ old' = old /\ pc[p] \in Locked /\ file'.sent = state[p].sent
            /\ file' = state[p] \/ pc[p] = "catalog"
        BY <2>1 DEF Saving
      <3>2. pc[p] = "catalog" => old \subseteq state[p].sent
        BY <1>0, <2>0, <3>1 DEF RoundInv, RoundOf, Primes
      <3>3. file' = state[p] /\ file'.primed => old \subseteq state[p].sent
        BY <2>0, <3>1 DEF Primes
      <3> QED
        BY <1>9, <3>1, <3>2, <3>3
    <2>2. CASE ToCatalog(p)
      <3>1. /\ pc[p] = "loop" /\ pc' = [pc EXCEPT ![p] = "catalog"] /\ file' = state[p]
            /\ UNCHANGED <<state, prime, complete, old, todo>>
        BY <2>2 DEF ToCatalog
      <3>2. "catalog" \in Locked /\ "loop" \in Locked
        BY DEF Locked
      <3>3. file'.primed => old' \subseteq file'.sent
        BY <2>0, <3>1, <3>2 DEF Primes
      <3> QED
        BY <1>p, <3>1, <3>2, <3>3
    <2> QED
      BY <1>10, <2>1, <2>2, SavingCases
  <1>11. ASSUME NEW p \in Proc, Abandon(p) PROVE Done
    BY <1>f, <1>9, <1>11 DEF Abandon
  <1> HIDE DEF Done
  <1>12. Done
    BY <1>1, <1>2, <1>3, <1>4, <1>5, <1>6, <1>7, <1>8, <1>10, <1>11 DEF Next, Live, Handle
  <1> QED
    BY <1>12 DEF Done

\* Nothing is published at first.
LEMMA InitInv == Init => IInv
  <1> SUFFICES ASSUME Init PROVE IInv
    OBVIOUS
  <1> USE PublisherAssumption DEF Init, NewState
  <1>1. IsFiniteSet({}) /\ Cardinality({}) = 0 /\ Cardinality({}) <= MaxEntries
    <2>1. IsFiniteSet({}) /\ Cardinality({}) = 0
      BY FS_EmptySet
    <2> QED
      BY <2>1
  <1>2. TypeInv
    <2>1. 1 \in 1..Parts
      OBVIOUS
    <2>2. complete \in [Proc -> BOOLEAN] /\ prime \in [Proc -> BOOLEAN]
      BY Zenon
    <2>3. NewState \in States
      BY DEF States
    <2> QED
      BY <2>1, <2>2, <2>3 DEF TypeInv
  <1>3. TypeOK /\ SizeInv
    BY <1>1, <1>2 DEF TypeOK, TypeInv, SizeInv
  <1>4. LockInv
    BY DEF LockInv, Locked
  <1>5. RoundInv
    <2>1. ASSUME NEW p \in Proc PROVE ~prime[p]
      BY <2>1, Zenon
    <2> QED
      BY <2>1 DEF RoundInv, RoundOf, Locked
  <1>6. SentInv /\ MemoryInv
    BY DEF SentInv, MemoryInv
  <1>7. PrimedInv
    BY DEF PrimedInv, Primes, Locked
  <1> QED
    BY <1>3, <1>4, <1>5, <1>6, <1>7 DEF IInv

\* The invariant of the publisher holds in every state.
LEMMA Invariance == Spec => []IInv
  <1>1. TypeInv' /\ Cardinality(file.sent)' <= MaxEntries => TypeOK'
    BY DEF TypeInv, TypeOK
  <1>2. IInv /\ [Next]_vars => IInv'
    BY <1>1, TypeStep, SizeStep, LockStep, RoundStep, SentStep, MemoryStep, PrimedStep DEF IInv
  <1> QED
    BY <1>2, InitInv, PTL DEF Spec

(***************************************************************************)
(* The theorems.                                                           *)
(***************************************************************************)

\* At least once: PublishState.mark comes only after the last part was taken or
\* for a record that is primed, and _trim keeps the file within max_entries.
THEOREM MarksAreTrue == Spec => []SentMeansDelivered
  <1>1. IInv => SentMeansDelivered
    BY DEF IInv, SentInv, Accounted, SentMeansDelivered
  <1> QED
    BY <1>1, Invariance, PTL

\* At most once but for accidents: under state_lock no publisher sends what
\* another one has posted and saved.
THEOREM RepostsHaveAnExcuse == Spec => []RepostsAreExcused
  <1>1. IInv => RepostsAreExcused
    <2> SUFFICES ASSUME IInv, NEW p \in Proc,
                        pc[p] = "send", part[p] = 1, delivered[cur[p]] # {}
                 PROVE  cur[p] \in lost
      BY DEF RepostsAreExcused
    <2>1. cur[p] \in Msg \ state[p].sent
      BY DEF IInv, RoundInv, RoundOf
    <2>2. cur[p] \in lost \cup Mind(p)
      BY <2>1 DEF IInv, MemoryInv, Recalled, Locked
    <2> QED
      BY <2>1, <2>2 DEF Mind
  <1> QED
    BY <1>1, Invariance, PTL

\* Priming: the loop over the whole catalog sends no record that was on the
\* panels from the start, however many rounds it takes to prime.
THEOREM PrimingHoldsBackTheBacklog == Spec => []NoBacklog
  <1>1. IInv => NoBacklog
    <2> SUFFICES ASSUME IInv, NEW p \in Catalog, pc[p] = "send"
                 PROVE  cur[p] \notin old
      BY DEF NoBacklog
    <2>1. p \in Proc /\ pc[p] \in Locked
      BY PublisherAssumption DEF Locked
    <2>2. cur[p] \notin state[p].sent /\ state[p].primed
      BY <2>1 DEF IInv, RoundInv, RoundOf
    <2>3. old \subseteq state[p].sent
      BY <2>1, <2>2 DEF IInv, PrimedInv, Primes
    <2> QED
      BY <2>2, <2>3
  <1> QED
    BY <1>1, Invariance, PTL

-----------------------------------------------------------------------------
(***************************************************************************)
(* The bot.  That no command is skipped needs the batch to be a contiguous *)
(* piece of Telegram's queue that starts where everything before is        *)
(* answered.  That alerts are kept needs them in the memory as well as in  *)
(* the file, for either may replace the other.  That duplicates are        *)
(* excused needs the alerts of a command to be numbered without gaps (the  *)
(* model's names for them) and a command with an alert to be behind the    *)
(* offset, before its reply, or recorded as cut off; and the like of the   *)
(* file, which may have alerts that the memory has lost.                   *)
(***************************************************************************)

\* Every command of arrived before x is among those with a reply.
Covered(x, arrived, replied) ==
    /\ x \in 1..(Len(arrived) + 1)
    /\ \A u \in 1..Len(arrived) : arrived[u] # "other" /\ u < x => u \in replied

OffsetInv ==
    \A x \in {confirmed, data.offset, saved.offset} : Covered(x, kind, answered)

\* The updates of the batch follow each other, and so does what is left of it.
Contiguous(updates) ==
    /\ updates \in Seq(Update)
    /\ \A i \in 1..Len(updates) : updates[i] = updates[1] + i - 1

BatchInv ==
    /\ Contiguous(batch)
    /\ \A i \in 1..Len(batch) : batch[i] \in 1..Len(kind)
    /\ batch # <<>> => Covered(batch[1], kind, answered) /\ batch[1] >= data.offset
    /\ stage \in {"poll", "check", "notify"} => batch = <<>>
    /\ stage = "reply" => batch # <<>>

LocalInv == (stage # "reply" => told = {}) /\ (stage # "notify" => due = {})

KeptInv ==
    /\ saved.on \cap saved.off = {}
    /\ acked \subseteq Entries(saved) /\ acked \subseteq Entries(data)
    /\ told \subseteq Entries(saved)

\* The alerts of a command are numbered from 1.
Numbered(d) == \A u \in Update : \E n \in 0..Copies : MadeBy(u, d) = {u} \X (1..n)
NumberInv == Numbered(data) /\ Numbered(saved)

RepeatInv ==
    \A u \in Update :
        MadeBy(u, data) # {} =>
            u < data.offset \/ u \in cut \/ (stage = "reply" /\ u = Head(batch))

\* A start may take its alerts from the file.
FileInv ==
    \A u \in Update :
        /\ MadeBy(u, saved) # {} =>
              u < saved.offset \/ u \in cut \/ MadeBy(u, data) # {}
        /\ Cardinality(MadeBy(u, saved)) > 1 => u \in cut

BotIInv == /\ BotTypeOK /\ OffsetInv /\ BatchInv /\ LocalInv /\ KeptInv /\ NumberInv
        /\ RepeatInv /\ FileInv /\ DuplicatesAreExcused /\ DoneMeansNotified
(***************************************************************************)
(* What the steps do to the offsets, the batch and the alerts.             *)
(***************************************************************************)

\* What is covered stays covered when updates arrive and replies are taken.
LEMMA CoveredStays ==
    ASSUME BotTypeOK, NEW x, Covered(x, kind, answered),
           answered \subseteq answered',
           kind' = kind \/ (\E k \in Kinds : kind' = Append(kind, k))
    PROVE  Covered(x, kind', answered')
  <1>1. Len(kind) <= Len(kind') /\ Len(kind') \in Nat /\ Len(kind) \in Nat
    BY DEF BotTypeOK
  <1>2. \A u \in 1..Len(kind) : kind'[u] = kind[u]
    BY DEF BotTypeOK
  <1>3. ASSUME NEW u \in 1..Len(kind'), u < x
        PROVE  u \in 1..Len(kind)
    BY <1>1, <1>3 DEF Covered
  <1> QED
    BY <1>1, <1>2, <1>3 DEF Covered

\* An update that is covered with its own reply, or needs none, is passed.
LEMMA CoveredMoves ==
    ASSUME BotTypeOK, NEW u \in 1..Len(kind), NEW replied,
           Covered(u, kind, answered), answered \subseteq replied,
           kind[u] = "other" \/ u \in replied
    PROVE  Covered(u + 1, kind, replied)
  <1>1. Len(kind) \in Nat
    BY DEF BotTypeOK
  <1>2. ASSUME NEW v \in 1..Len(kind), v < u + 1
        PROVE  v < u \/ v = u
    BY <1>1, <1>2
  <1>3. u + 1 \in 1..(Len(kind) + 1)
    BY <1>1
  <1> QED
    BY <1>2, <1>3 DEF Covered

\* The update at hand is the first of the batch and has arrived.
LEMMA AtHand ==
    ASSUME BotIInv, batch # <<>>
    PROVE  /\ Head(batch) = batch[1] /\ Head(batch) \in 1..Len(kind)
           /\ Head(batch) \in Update
           /\ Covered(Head(batch), kind, answered) /\ Head(batch) >= data.offset
  <1>1. batch \in Seq(Update) /\ Len(batch) \in Nat /\ Len(batch) # 0
    BY DEF BotIInv, BatchInv, Contiguous
  <1>2. 1 \in 1..Len(batch) /\ Head(batch) = batch[1]
    BY <1>1
  <1>3. kind \in Seq(Kinds) /\ Len(kind) <= MaxUpdate /\ MaxUpdate \in Nat
    BY BotAssumption DEF BotIInv, BotTypeOK
  <1> QED
    BY <1>2, <1>3 DEF BotIInv, BatchInv, Update

\* The rest of the batch is contiguous and begins with the next update.
LEMMA RestOfBatch ==
    ASSUME BotIInv, batch # <<>>, batch' = Tail(batch)
    PROVE  /\ Contiguous(batch')
           /\ \A i \in 1..Len(batch') : batch'[i] \in 1..Len(kind)
           /\ batch' # <<>> => batch'[1] = Head(batch) + 1
  <1>1. Contiguous(batch) /\ batch \in Seq(Update)
    BY DEF BotIInv, BatchInv, Contiguous
  <1>2. /\ batch' \in Seq(Update) /\ Len(batch') = Len(batch) - 1
        /\ \A i \in 1..Len(batch') : batch'[i] = batch[i + 1]
    BY <1>1, HeadTailProperties
  <1>3. Len(batch) \in Nat /\ Len(batch) # 0 /\ Head(batch) = batch[1]
    BY <1>1
  <1>4. batch[1] \in Int
    <2>1. 1 \in 1..Len(batch)
      BY <1>3
    <2> QED
      BY <2>1, AtHand
  <1>5. ASSUME NEW i \in 1..Len(batch')
        PROVE  batch'[i] = batch[1] + i /\ batch'[i] \in 1..Len(kind)
    <2>1. i + 1 \in 1..Len(batch)
      BY <1>2, <1>3
    <2> QED
      BY <1>1, <1>2, <1>4, <2>1 DEF Contiguous, BotIInv, BatchInv
  <1>6. ASSUME batch' # <<>>
        PROVE  batch'[1] = batch[1] + 1
    <2>1. 1 \in 1..Len(batch')
      BY <1>2, <1>3, <1>6
    <2> QED
      BY <1>5, <2>1
  <1>7. ASSUME NEW i \in 1..Len(batch')
        PROVE  batch'[i] = batch'[1] + i - 1
    <2>1. 1 \in 1..Len(batch') /\ i \in Int
      BY <1>2, <1>3
    <2>2. batch'[i] = batch[1] + i /\ batch'[1] = batch[1] + 1
      BY <1>5, <2>1
    <2> QED
      BY <1>4, <2>1, <2>2
  <1> QED
    BY <1>2, <1>3, <1>5, <1>6, <1>7 DEF Contiguous

\* What Telegram answers is contiguous, begins where it was asked for, and has
\* arrived.
LEMMA PendingIsContiguous ==
    ASSUME BotTypeOK, NEW from \in 1..(Len(kind) + 1)
    PROVE  /\ Contiguous(Pending(from))
           /\ \A i \in 1..Len(Pending(from)) : Pending(from)[i] \in 1..Len(kind)
           /\ Pending(from) # <<>> => Pending(from)[1] = from
  <1> DEFINE last == IF from + Limit - 1 < Len(kind) THEN from + Limit - 1 ELSE Len(kind)
             p == Pending(from)
  <1>1. /\ Len(kind) \in Nat /\ Limit \in Nat \ {0} /\ MaxUpdate \in Nat
        /\ Len(kind) <= MaxUpdate
    BY BotAssumption DEF BotTypeOK
  <1>2. last - from + 1 \in Nat /\ last <= Len(kind)
    BY <1>1
  <1>3. p = [i \in 1..(last - from + 1) |-> from + i - 1]
    BY DEF Pending
  <1>4. \A i \in 1..(last - from + 1) : from + i - 1 \in 1..Len(kind) /\ from + i - 1 \in Update
    BY <1>1, <1>2 DEF Update
  <1> HIDE DEF last, p
  <1>5. p \in Seq(Update) /\ Len(p) = last - from + 1
    BY <1>2, <1>3, <1>4
  <1>6. \A i \in 1..Len(p) : p[i] = from + i - 1 /\ p[i] \in 1..Len(kind)
    BY <1>3, <1>4, <1>5
  <1>7. 1 \in 1..Len(p) => p[1] = from
    BY <1>6
  <1>8. ASSUME NEW i \in 1..Len(p) PROVE p[i] = p[1] + i - 1
    <2>1. 1 \in 1..Len(p)
      BY <1>2, <1>5
    <2> QED
      BY <1>6, <1>7, <2>1
  <1>9. p # <<>> => 1 \in 1..Len(p)
    BY <1>5, <1>2
  <1> QED
    BY <1>5, <1>6, <1>7, <1>8, <1>9 DEF Contiguous, p

\* A command has as many alerts as the number of the last one says.
LEMMA NumbersCount ==
    ASSUME NEW u, NEW n \in Nat
    PROVE  IsFiniteSet({u} \X (1..n)) /\ Cardinality({u} \X (1..n)) = n
  <1>1. IsFiniteSet({u}) /\ Cardinality({u}) = 1
    BY FS_Singleton
  <1>2. IsFiniteSet(1..n) /\ Cardinality(1..n) = n
    BY FS_Interval
  <1>3. /\ IsFiniteSet({u} \X (1..n))
        /\ Cardinality({u} \X (1..n)) = Cardinality({u}) * Cardinality(1..n)
    BY <1>1, <1>2, FS_Product, Zenon
  <1>4. Cardinality({u}) * Cardinality(1..n) = n
    BY <1>1, <1>2
  <1> QED
    BY <1>3, <1>4, Zenon

\* The alerts of a command are known from the list of all alerts.
LEMMA SameAlerts ==
    ASSUME NEW c, NEW d, Entries(c) = Entries(d)
    PROVE  (\A u \in Update : MadeBy(u, c) = MadeBy(u, d)) /\ (Numbered(c) <=> Numbered(d))
  <1>1. \A u \in Update : MadeBy(u, c) = MadeBy(u, d)
    BY DEF MadeBy
  <1> QED
    BY <1>1 DEF Numbered

\* A new state has no alerts.
LEMMA NothingNew ==
    /\ \A u \in Update : MadeBy(u, NewData) = {} /\ ~(Cardinality(MadeBy(u, NewData)) > 1)
    /\ Numbered(NewData)
  <1>1. \A u \in Update : MadeBy(u, NewData) = {}
    BY DEF MadeBy, Entries, NewData
  <1>2. ~(Cardinality({}) > 1)
    <2>1. Cardinality({}) = 0
      BY FS_EmptySet
    <2> QED
      BY <2>1
  <1>3. Numbered(NewData)
    <2>1. 0 \in 0..Copies /\ 1..0 = {}
      BY BotAssumption
    <2>2. \A u \in Update : {} = {u} \X (1..0)
      BY <2>1
    <2> QED
      BY <1>1, <2>1, <2>2 DEF Numbered
  <1> QED
    BY <1>1, <1>2, <1>3

\* What every effect of a command respects.
Respects(u, before, after) ==
    /\ after \in DataType /\ after.offset = before.offset
    /\ after.on \cap after.off = {}
    /\ Entries(before) \subseteq Entries(after)
    /\ Entries(after) \ Entries(before) \subseteq after.on
    /\ Numbered(after)
    /\ \A v \in Update \ {u} : MadeBy(v, after) = MadeBy(v, before)
    /\ Cardinality(MadeBy(u, after)) > 1 => MadeBy(u, before) # {}

\* Nothing happens to the list, or an alert moves from active to done.
LEMMA SameEntriesRespect ==
    ASSUME BotIInv, NEW u \in Update, NEW after \in DataType,
           after.offset = data.offset, after.on \cap after.off = {},
           Entries(after) = Entries(data)
    PROVE  Respects(u, data, after)
  <1>1. Numbered(after) /\ \A v \in Update : MadeBy(v, after) = MadeBy(v, data)
    BY SameAlerts DEF BotIInv, NumberInv
  <1>2. MadeBy(u, data) = {} => ~(Cardinality(MadeBy(u, after)) > 1)
    BY <1>1, FS_EmptySet
  <1> QED
    BY <1>1, <1>2 DEF Respects

LEMMA MovedAlertRespects ==
    ASSUME BotIInv, NEW u \in Update, NEW a \in data.on
    PROVE  Respects(u, data, Triggered(a, data))
  <1> DEFINE after == Triggered(a, data)
  <1>1. data \in DataType /\ data.on \cap data.off = {}
    BY DEF BotIInv, BotTypeOK
  <1>2. /\ after \in DataType /\ after.offset = data.offset
        /\ after.on = data.on \ {a} /\ after.off = data.off \cup {a}
    BY <1>1 DEF Triggered, DataType
  <1>3. after.on \cap after.off = {} /\ Entries(after) = Entries(data)
    BY <1>1, <1>2 DEF Entries
  <1> HIDE DEF after
  <1>4. Respects(u, data, after)
    BY <1>2, <1>3, SameEntriesRespect
  <1> QED
    BY <1>4 DEF after

\* A new alert gets the next number of its command.
LEMMA NewAlertRespects ==
    ASSUME BotIInv, NEW u \in Update,
           NEW n, n = Cardinality(MadeBy(u, data)), n < Copies,
           NEW after, after = [data EXCEPT !.on = @ \cup {<<u, n + 1>>}]
    PROVE  Respects(u, data, after)
  <1> DEFINE a == <<u, n + 1>>
  <1>1. data \in DataType /\ data.on \cap data.off = {} /\ Copies \in Nat
    BY BotAssumption DEF BotIInv, BotTypeOK
  <1>2. n \in 0..Copies /\ MadeBy(u, data) = {u} \X (1..n)
    <2>1. PICK m \in 0..Copies : MadeBy(u, data) = {u} \X (1..m)
      BY DEF BotIInv, NumberInv, Numbered
    <2>2. m \in Nat
      BY <1>1
    <2>3. Cardinality({u} \X (1..m)) = m
      BY <2>2, NumbersCount, Zenon
    <2>4. m = n
      BY <2>1, <2>3, Zenon
    <2> QED
      BY <2>1, <2>4
  <1>3. n + 1 \in 1..Copies /\ a \in Alert /\ a[1] = u
    <2>1. n + 1 \in 1..Copies
      <3>1. n \in Int /\ n >= 0
        BY <1>1, <1>2
      <3> QED
        BY <1>1, <3>1
    <2> QED
      BY <2>1 DEF Alert
  <1>4. a \notin Entries(data)
    <2>1. a \notin MadeBy(u, data)
      BY <1>1, <1>2
    <2> QED
      BY <1>3, <2>1 DEF MadeBy
  <1>5. /\ after \in DataType /\ after.offset = data.offset
        /\ after.on = data.on \cup {a} /\ after.off = data.off
    BY <1>1, <1>3 DEF DataType
  <1> HIDE DEF a
  <1>6. Entries(after) = Entries(data) \cup {a} /\ after.on \cap after.off = {}
    BY <1>1, <1>4, <1>5 DEF Entries
  <1>7. \A v \in Update \ {u} : MadeBy(v, after) = MadeBy(v, data)
    BY <1>3, <1>6 DEF MadeBy
  <1>8. MadeBy(u, after) = MadeBy(u, data) \cup {a}
    BY <1>3, <1>6 DEF MadeBy
  <1>9. MadeBy(u, after) = {u} \X (1..(n + 1))
    <2>1. 1..(n + 1) = (1..n) \cup {n + 1}
      BY <1>2, <1>1
    <2>2. {u} \X ((1..n) \cup {n + 1}) = ({u} \X (1..n)) \cup {<<u, n + 1>>}
      OBVIOUS
    <2> QED
      BY <1>2, <1>8, <2>1, <2>2 DEF a
  <1>10. Numbered(after)
    <2>1. n + 1 \in 0..Copies
      BY <1>1, <1>3
    <2> QED
      BY <1>7, <1>9, <2>1 DEF Numbered, BotIInv, NumberInv
  <1>11. Cardinality(MadeBy(u, after)) > 1 => MadeBy(u, data) # {}
    <2>1. Cardinality(MadeBy(u, after)) = n + 1
      <3>1. n + 1 \in Nat
        BY <1>1, <1>2
      <3>2. Cardinality({u} \X (1..(n + 1))) = n + 1
        BY <3>1, NumbersCount, Zenon
      <3> QED
        BY <1>9, <3>2, Zenon
    <2>2. MadeBy(u, data) = {} => n = 0
      BY FS_EmptySet
    <2> QED
      BY <1>2, <2>1, <2>2
  <1> QED
    BY <1>5, <1>6, <1>7, <1>10, <1>11 DEF Respects

\* What a command does to the alerts, whichever command it is.
LEMMA EffectRespects ==
    ASSUME BotIInv, NEW u \in Update, Effect(u)
    PROVE  /\ Respects(u, data, data')
           /\ data'.off \subseteq data.off \cup removed'
           /\ removed \subseteq removed' /\ removed' \subseteq Alert
           /\ kind[u] = "query" => data' = data
  <1>1. /\ data \in DataType /\ data.on \cap data.off = {} /\ removed \subseteq Alert
        /\ data.on \subseteq Alert
    BY DEF BotIInv, BotTypeOK, DataType
  <1>2. Respects(u, data, data)
    BY <1>1, SameEntriesRespect
  <1>3. CASE NoEffect(u)
    BY <1>1, <1>2, <1>3 DEF NoEffect
  <1>4. CASE RemoveAlert(u)
    <2>1. PICK a \in data.on :
              /\ data' = [data EXCEPT !.on = @ \ {a}, !.off = @ \cup {a}]
              /\ removed' = removed \cup {a}
      BY <1>4 DEF RemoveAlert
    <2>2. data' = Triggered(a, data)
      BY <2>1 DEF Triggered
    <2>3. Respects(u, data, data')
      BY <2>2, MovedAlertRespects
    <2>4. data'.off = data.off \cup {a}
      BY <1>1, <2>1 DEF DataType
    <2> QED
      BY <1>1, <1>4, <2>1, <2>3, <2>4 DEF RemoveAlert
  <1>5. CASE AddAlert(u)
    <2> DEFINE n == Cardinality(MadeBy(u, data))
    <2>1. /\ data' = IF n < Copies THEN [data EXCEPT !.on = @ \cup {<<u, n + 1>>}] ELSE data
          /\ kind[u] = "alert" /\ removed' = removed
      BY <1>5 DEF AddAlert
    <2>2. Respects(u, data, data')
      BY <1>2, <2>1, NewAlertRespects
    <2>3. data'.off = data.off
      BY <1>1, <2>1 DEF DataType
    <2> QED
      BY <1>1, <2>1, <2>2, <2>3
  <1> QED
    BY <1>3, <1>4, <1>5 DEF Effect

\* A command that is handled, and what it leaves behind.
LEMMA HandlingACommand ==
    ASSUME BotIInv, HandleCommand
    PROVE  /\ batch # <<>> /\ Head(batch) \in Update /\ Head(batch) >= data.offset
           /\ Respects(Head(batch), data, data')
           /\ data'.off \subseteq data.off \cup removed'
           /\ removed \subseteq removed' /\ removed' \subseteq Alert
           /\ saved' = data' \/ (saved' = saved /\ data' = data)
           /\ told' \subseteq data'.on /\ told' \subseteq Entries(saved')
           /\ stage = "handle" /\ stage' = "reply" /\ due = {} /\ due' = {}
           /\ UNCHANGED <<telegram, batch, handled, answered, acked, notified, cut>>
  <1> DEFINE u == Head(batch)
  <1>1. /\ stage = "handle" /\ stage' = "reply" /\ batch # <<>> /\ Effect(u)
        /\ saved' \in IF kind[u] = "query" THEN {saved, data'} ELSE {data'}
        /\ told' = MadeBy(u, data') \ MadeBy(u, data)
        /\ UNCHANGED <<telegram, batch, handled, due, answered, acked, notified, cut>>
    BY DEF HandleCommand
  <1>2. u \in Update /\ u >= data.offset
    BY <1>1, AtHand
  <1> HIDE DEF u
  <1>3. /\ Respects(u, data, data') /\ data'.off \subseteq data.off \cup removed'
        /\ removed \subseteq removed' /\ removed' \subseteq Alert
        /\ kind[u] = "query" => data' = data
    BY <1>1, <1>2, EffectRespects
  <1>4. saved' = data' \/ (saved' = saved /\ data' = data)
    BY <1>1, <1>3
  <1>5. told' \subseteq Entries(data') \ Entries(data)
    BY <1>1 DEF MadeBy
  <1>6. told' \subseteq data'.on /\ told' \subseteq Entries(saved')
    BY <1>3, <1>4, <1>5 DEF Respects
  <1>7. due = {} /\ due' = {}
    BY <1>1 DEF BotIInv, LocalInv
  <1> QED
    BY <1>1, <1>2, <1>3, <1>4, <1>6, <1>7 DEF u

\* A command that is cut off by its save.
LEMMA RaisingACommand ==
    ASSUME BotIInv, CommandRaises
    PROVE  /\ Head(batch) \in Update
           /\ Respects(Head(batch), data, data')
           /\ data'.off \subseteq data.off \cup removed'
           /\ removed \subseteq removed' /\ removed' \subseteq Alert
           /\ cut' = cut \cup {Head(batch)}
           /\ EndRound /\ UNCHANGED <<telegram, saved, answered, acked, notified>>
  <1>1. batch # <<>> /\ Effect(Head(batch))
    BY DEF CommandRaises
  <1>2. Head(batch) \in Update
    BY <1>1, AtHand
  <1> QED
    BY <1>1, <1>2, EffectRespects DEF CommandRaises

\* A notification that Telegram took.
LEMMA Notifying ==
    ASSUME BotIInv, NEW a \in Alert, Notify(a)
    PROVE  /\ a \in data.on /\ data' = Triggered(a, data)
           /\ data' \in DataType /\ data'.offset = data.offset
           /\ data'.on = data.on \ {a} /\ data'.off = data.off \cup {a}
           /\ Entries(data') = Entries(data)
           /\ notified' = notified \cup {a} /\ due' = due \ {a}
           /\ stage = "notify" /\ stage' = "notify" /\ told = {} /\ told' = {}
           /\ UNCHANGED <<telegram, saved, batch, handled, answered, acked, removed, cut>>
  <1>1. /\ stage = "notify" /\ a \in due /\ data' = Triggered(a, data)
        /\ notified' = notified \cup {a} /\ due' = due \ {a}
        /\ UNCHANGED <<telegram, saved, stage, batch, handled, told, answered, acked, removed, cut>>
    BY DEF Notify
  <1>2. data \in DataType /\ a \in data.on
    BY <1>1 DEF BotIInv, BotTypeOK
  <1>3. /\ data' \in DataType /\ data'.offset = data.offset
        /\ data'.on = data.on \ {a} /\ data'.off = data.off \cup {a}
    BY <1>1, <1>2 DEF Triggered, DataType
  <1>4. Entries(data') = Entries(data)
    BY <1>2, <1>3 DEF Entries
  <1>5. told = {}
    BY <1>1 DEF BotIInv, LocalInv
  <1> QED
    BY <1>1, <1>2, <1>3, <1>4, <1>5

\* A reply that Telegram took.
LEMMA Replying ==
    ASSUME BotIInv, Reply
    PROVE  /\ batch # <<>> /\ Head(batch) \in Update /\ data.offset <= Head(batch)
           /\ data' \in DataType /\ data'.offset = Head(batch) + 1
           /\ data'.on = data.on /\ data'.off = data.off /\ Entries(data') = Entries(data)
           /\ batch' = Tail(batch) /\ told' = {} /\ handled' = TRUE
           /\ answered' = answered \cup {Head(batch)} /\ acked' = acked \cup told
           /\ stage = "reply" /\ stage' = "handle"
           /\ UNCHANGED <<telegram, saved, due, notified, removed, cut>>
  <1>1. /\ stage = "reply" /\ stage' = "handle" /\ data' = [data EXCEPT !.offset = Head(batch) + 1]
        /\ batch' = Tail(batch) /\ told' = {} /\ handled' = TRUE
        /\ answered' = answered \cup {Head(batch)} /\ acked' = acked \cup told
        /\ UNCHANGED <<telegram, saved, due, notified, removed, cut>>
    BY DEF Reply
  <1>2. batch # <<>>
    BY <1>1 DEF BotIInv, BatchInv
  <1>3. Head(batch) \in Update /\ Head(batch) >= data.offset
    BY <1>2, AtHand
  <1>4. data \in DataType /\ data.offset \in Int /\ Head(batch) + 1 \in 1..(MaxUpdate + 1)
    BY <1>3, BotAssumption DEF BotIInv, BotTypeOK, DataType, Update
  <1>5. /\ data' \in DataType /\ data'.offset = Head(batch) + 1
        /\ data'.on = data.on /\ data'.off = data.off
    BY <1>1, <1>4 DEF DataType
  <1>6. Entries(data') = Entries(data) /\ data.offset <= Head(batch)
    BY <1>3, <1>4, <1>5 DEF Entries, Update
  <1> QED
    BY <1>1, <1>2, <1>3, <1>5, <1>6

(***************************************************************************)
(* Every conjunct of the invariant, step by step.                          *)
(***************************************************************************)

\* Every variable keeps its type, and no alert is both active and done.
LEMMA BotTypeStep == BotIInv /\ [BotNext]_botVars => BotTypeOK'
  <1> SUFFICES ASSUME BotIInv, [BotNext]_botVars PROVE BotTypeOK'
    OBVIOUS
  <1> USE BotAssumption DEF telegram, botHistory
  <1>0. BotTypeOK /\ saved.on \cap saved.off = {}
    BY DEF BotIInv, KeptInv
  <1>a. ASSUME EndRound
        PROVE  /\ stage' \in {"poll", "handle", "reply", "check", "notify"}
               /\ handled' \in BOOLEAN
               /\ DOMAIN batch' = {} /\ told' = {} /\ due' = {}
    <2>1. batch' = <<>>
      BY <1>a DEF EndRound
    <2>2. batch' \in Seq(Update) /\ Len(batch') = 0
      BY <2>1
    <2>3. DOMAIN batch' = {}
      BY <2>2
    <2> QED
      BY <1>a, <2>3 DEF EndRound
  <1>1. ASSUME NEW k \in Kinds, Arrive(k) PROVE BotTypeOK'
    <2>1. /\ kind' \in Seq(Kinds) /\ Len(kind') = Len(kind) + 1 /\ Len(kind) < MaxUpdate
          /\ Len(kind) \in Nat
      BY <1>0, <1>1 DEF Arrive, BotTypeOK
    <2>2. Len(kind') <= MaxUpdate /\ 1..Len(kind) \subseteq 1..Len(kind')
      BY <2>1
    <2> QED
      BY <1>0, <1>1, <2>1, <2>2 DEF Arrive, BotTypeOK
  <1>2. ASSUME Poll PROVE BotTypeOK'
    <2>1. Asked \in 1..(Len(kind) + 1) /\ Asked \in 1..(MaxUpdate + 1)
      BY <1>0 DEF Asked, BotIInv, OffsetInv, Covered, BotTypeOK, DataType
    <2>2. \A i \in DOMAIN batch' : batch'[i] \in 1..Len(kind)
      <3>1. batch' = Pending(Asked)
        BY <1>2 DEF Poll
      <3>2. /\ batch' \in Seq(Update)
            /\ \A i \in 1..Len(batch') : batch'[i] \in 1..Len(kind)
        BY <1>0, <2>1, <3>1, PendingIsContiguous DEF Contiguous
      <3> QED
        BY <3>2
    <2> QED
      BY <1>0, <1>2, <2>1, <2>2 DEF Poll, BotTypeOK
  <1>3. ASSUME PollFails PROVE BotTypeOK'
    BY <1>0, <1>3 DEF PollFails, Asked, BotTypeOK, DataType
  <1>4. ASSUME batch # <<>>, batch' = Tail(batch), UNCHANGED kind
        PROVE  \A i \in DOMAIN batch' : batch'[i] \in 1..Len(kind')
    <2>1. batch' \in Seq(Update) /\ \A i \in 1..Len(batch') : batch'[i] \in 1..Len(kind)
      BY <1>4, RestOfBatch DEF Contiguous
    <2> QED
      BY <1>4, <2>1
  <1>5. ASSUME Ignore PROVE BotTypeOK'
    BY <1>0, <1>4, <1>5 DEF Ignore, BotTypeOK
  <1>6. ASSUME HandleCommand PROVE BotTypeOK'
    BY <1>0, <1>6, HandlingACommand DEF Respects, BotTypeOK
  <1>7. ASSUME RateLimited PROVE BotTypeOK'
    BY <1>0, <1>7 DEF RateLimited, BotTypeOK
  <1>8. ASSUME CommandRaises PROVE BotTypeOK'
    BY <1>0, <1>a, <1>8, RaisingACommand DEF Respects, BotTypeOK
  <1>9. ASSUME Reply PROVE BotTypeOK'
    <2>1. answered' \subseteq Update /\ acked' \subseteq Alert
      BY <1>0, <1>9, Replying DEF BotTypeOK, DataType
    <2>2. \A i \in DOMAIN batch' : batch'[i] \in 1..Len(kind')
      BY <1>4, <1>9, Replying
    <2> QED
      BY <1>0, <1>9, <2>1, <2>2, Replying DEF BotTypeOK
  <1>10. ASSUME ReplyFails PROVE BotTypeOK'
    <2>1. Head(batch) \in Update
      BY <1>10, AtHand DEF ReplyFails, BotIInv, BatchInv
    <2> QED
      BY <1>0, <1>a, <1>10, <2>1 DEF ReplyFails, BotTypeOK
  <1>11. ASSUME SaveBatch PROVE BotTypeOK'
    BY <1>0, <1>11 DEF SaveBatch, BotTypeOK
  <1>12. ASSUME CheckAlerts PROVE BotTypeOK'
    BY <1>0, <1>a, <1>12 DEF CheckAlerts, BotTypeOK
  <1>13. ASSUME NEW a \in Alert, Notify(a) PROVE BotTypeOK'
    BY <1>0, <1>13, Notifying DEF BotTypeOK
  <1>14. ASSUME NEW a \in Alert, NotifyFails(a) PROVE BotTypeOK'
    BY <1>0, <1>a, <1>14 DEF NotifyFails, BotTypeOK
  <1>15. ASSUME SaveAlerts \/ SaveFails PROVE BotTypeOK'
    BY <1>0, <1>a, <1>15 DEF SaveAlerts, SaveFails, BotTypeOK
  <1>16. ASSUME Restart PROVE BotTypeOK'
    <2>1. NewData \in DataType /\ NewData.on \cap NewData.off = {}
      <3>1. 1 \in 1..(MaxUpdate + 1)
        OBVIOUS
      <3> QED
        BY <3>1 DEF NewData, DataType
    <2>2. data' \in DataType /\ data'.on \cap data'.off = {} /\ acked' \subseteq Alert
      BY <1>0, <1>16, <2>1 DEF Restart, BotTypeOK
    <2> QED
      BY <1>0, <1>a, <1>16, <2>2 DEF Restart, BotTypeOK
  <1>17. ASSUME UNCHANGED botVars PROVE BotTypeOK'
    BY <1>0, <1>17 DEF botVars, BotTypeOK
  <1> QED
    BY <1>1, <1>2, <1>3, <1>5, <1>6, <1>7, <1>8, <1>9, <1>10, <1>11, <1>12, <1>13,
       <1>14, <1>15, <1>16, <1>17 DEF BotNext, BotLive, Round

\* The offsets stay covered and the batch stays a piece of the queue.
LEMMA QueueStep == BotIInv /\ [BotNext]_botVars => OffsetInv' /\ BatchInv'
  <1> SUFFICES ASSUME BotIInv, [BotNext]_botVars PROVE OffsetInv' /\ BatchInv'
    OBVIOUS
  <1> USE BotAssumption DEF telegram, botHistory
  <1>0. BotTypeOK /\ OffsetInv /\ BatchInv
    BY DEF BotIInv
  <1>a. ASSUME UNCHANGED kind, answered \subseteq answered', NEW x, Covered(x, kind, answered)
        PROVE  Covered(x, kind', answered')
    BY <1>0, <1>a, CoveredStays
  <1>b. ASSUME UNCHANGED <<kind, answered>>,
               confirmed' \in {confirmed, data.offset},
               data'.offset \in {data.offset, saved.offset},
               saved'.offset \in {data.offset, saved.offset}
        PROVE  OffsetInv'
    BY <1>0, <1>b DEF OffsetInv
  <1>c. ASSUME batch' = <<>>, stage' # "reply"
        PROVE  BatchInv'
    <2>1. batch' \in Seq(Update) /\ Len(batch') = 0
      BY <1>c
    <2>2. 1..Len(batch') = {}
      BY <2>1
    <2> QED
      BY <1>c, <2>1, <2>2 DEF BatchInv, Contiguous
  <1>d. ASSUME EndRound
        PROVE  BatchInv'
    BY <1>c, <1>d DEF EndRound
  <1>1. ASSUME NEW k \in Kinds, Arrive(k) PROVE OffsetInv' /\ BatchInv'
    <2>1. /\ kind' = Append(kind, k)
          /\ UNCHANGED <<confirmed, saved, data, stage, batch, answered>>
      BY <1>1 DEF Arrive
    <2>2. \A x : Covered(x, kind, answered) => Covered(x, kind', answered')
      BY <1>0, <2>1, CoveredStays
    <2>3. 1..Len(kind) \subseteq 1..Len(kind')
      BY <1>0, <2>1 DEF BotTypeOK
    <2>4. OffsetInv'
      BY <1>0, <2>1, <2>2 DEF OffsetInv
    <2> QED
      BY <1>0, <2>1, <2>2, <2>3, <2>4 DEF BatchInv
  <1>2. Asked \in {confirmed, data.offset} /\ Asked >= data.offset
    BY <1>0 DEF Asked, BotTypeOK, DataType
  <1>3. Covered(Asked, kind, answered)
    BY <1>0, <1>2 DEF OffsetInv
  <1>4. ASSUME Poll PROVE OffsetInv' /\ BatchInv'
    <2>1. /\ confirmed' = Asked /\ batch' = Pending(Asked) /\ stage' = "handle"
          /\ UNCHANGED <<kind, saved, data, answered>>
      BY <1>4 DEF Poll
    <2>2. Asked \in 1..(Len(kind) + 1)
      BY <1>3 DEF Covered
    <2>3. /\ Contiguous(batch')
          /\ \A i \in 1..Len(batch') : batch'[i] \in 1..Len(kind)
          /\ batch' # <<>> => batch'[1] = Asked
      BY <1>0, <2>1, <2>2, PendingIsContiguous
    <2>4. batch' # <<>> => Covered(batch'[1], kind', answered') /\ batch'[1] >= data'.offset
      BY <1>2, <1>3, <2>1, <2>3
    <2> QED
      BY <1>b, <1>2, <2>1, <2>3, <2>4 DEF BatchInv
  <1>5. ASSUME PollFails PROVE OffsetInv' /\ BatchInv'
    BY <1>0, <1>b, <1>2, <1>5 DEF PollFails, BatchInv
  <1>6. ASSUME batch # <<>>, batch' = Tail(batch), stage' = "handle", UNCHANGED kind,
               Covered(Head(batch) + 1, kind', answered'), data'.offset <= Head(batch) + 1
        PROVE  BatchInv'
    <2>1. Head(batch) \in Int /\ data.offset \in Int
      BY <1>0, <1>6, AtHand DEF BotTypeOK, DataType, Update
    <2>2. /\ Contiguous(batch')
          /\ \A i \in 1..Len(batch') : batch'[i] \in 1..Len(kind)
          /\ batch' # <<>> => batch'[1] = Head(batch) + 1
      BY <1>6, RestOfBatch
    <2>3. batch' # <<>> => Covered(batch'[1], kind', answered') /\ batch'[1] >= data'.offset
      BY <1>6, <2>1, <2>2
    <2> QED
      BY <1>6, <2>2, <2>3 DEF BatchInv
  <1>7. ASSUME Ignore PROVE OffsetInv' /\ BatchInv'
    <2>1. /\ batch # <<>> /\ kind[Head(batch)] = "other" /\ batch' = Tail(batch)
          /\ stage' = "handle" /\ UNCHANGED <<kind, confirmed, saved, data, answered>>
      BY <1>7 DEF Ignore
    <2>2. Covered(Head(batch) + 1, kind', answered')
      BY <1>0, <2>1, AtHand, CoveredMoves
    <2>3. data'.offset <= Head(batch) + 1
      BY <1>0, <2>1, AtHand DEF BotTypeOK, DataType, Update
    <2> QED
      BY <1>b, <1>6, <2>1, <2>2, <2>3
  <1>8. ASSUME HandleCommand PROVE OffsetInv' /\ BatchInv'
    <2>1. /\ data'.offset = data.offset /\ saved'.offset \in {data.offset, saved.offset}
          /\ batch # <<>> /\ stage' = "reply"
          /\ UNCHANGED <<kind, confirmed, batch, answered>>
      BY <1>8, HandlingACommand DEF Respects
    <2> QED
      BY <1>0, <1>b, <2>1 DEF BatchInv
  <1>9. ASSUME RateLimited PROVE OffsetInv' /\ BatchInv'
    BY <1>0, <1>b, <1>9 DEF RateLimited, BatchInv
  <1>10. ASSUME CommandRaises PROVE OffsetInv' /\ BatchInv'
    <2>1. data'.offset = data.offset /\ EndRound /\ UNCHANGED <<kind, confirmed, saved, answered>>
      BY <1>10, RaisingACommand DEF Respects
    <2> QED
      BY <1>b, <1>d, <2>1
  <1>11. ASSUME Reply PROVE OffsetInv' /\ BatchInv'
    <2>1. /\ batch # <<>> /\ data'.offset = Head(batch) + 1 /\ batch' = Tail(batch)
          /\ answered' = answered \cup {Head(batch)} /\ stage' = "handle"
          /\ UNCHANGED <<kind, confirmed, saved>>
      BY <1>11, Replying
    <2>2. Covered(Head(batch) + 1, kind', answered')
      BY <1>0, <2>1, AtHand, CoveredMoves
    <2>3. OffsetInv'
      BY <1>0, <1>a, <2>1, <2>2 DEF OffsetInv
    <2>4. data'.offset <= Head(batch) + 1
      BY <2>1, AtHand
    <2> QED
      BY <1>6, <2>1, <2>2, <2>3, <2>4
  <1>12. ASSUME ReplyFails \/ SaveAlerts \/ SaveFails \/ \E a \in Alert : NotifyFails(a)
         PROVE  OffsetInv' /\ BatchInv'
    <2>1. EndRound /\ UNCHANGED <<kind, confirmed, data, answered>> /\ saved' \in {saved, data}
      BY <1>12 DEF ReplyFails, SaveAlerts, SaveFails, NotifyFails
    <2> QED
      BY <1>b, <1>d, <2>1
  <1>13. ASSUME SaveBatch PROVE OffsetInv' /\ BatchInv'
    <2>1. /\ batch = <<>> /\ batch' = <<>> /\ stage' = "check" /\ saved' \in {saved, data}
          /\ UNCHANGED <<kind, confirmed, data, answered>>
      BY <1>13 DEF SaveBatch
    <2> QED
      BY <1>b, <1>c, <2>1
  <1>14. ASSUME CheckAlerts PROVE OffsetInv' /\ BatchInv'
    <2>1. /\ UNCHANGED <<kind, confirmed, data, saved, answered>>
          /\ EndRound \/ (batch' = batch /\ stage = "check" /\ stage' = "notify")
      BY <1>14 DEF CheckAlerts
    <2>2. stage = "check" => batch = <<>>
      BY <1>0 DEF BatchInv
    <2> QED
      BY <1>b, <1>c, <1>d, <2>1, <2>2
  <1>15. ASSUME NEW a \in Alert, Notify(a) PROVE OffsetInv' /\ BatchInv'
    <2>1. /\ UNCHANGED <<kind, confirmed, saved, answered, batch>>
          /\ data'.offset = data.offset /\ stage = "notify" /\ stage' = "notify"
      BY <1>15, Notifying
    <2>2. batch' = <<>>
      BY <1>0, <2>1 DEF BatchInv
    <2> QED
      BY <1>b, <1>c, <2>1, <2>2
  <1>16. ASSUME Restart PROVE OffsetInv' /\ BatchInv'
    <2>1. /\ EndRound /\ UNCHANGED <<kind, confirmed, saved, answered>>
          /\ data'.offset \in {saved.offset, 1}
      BY <1>16 DEF Restart, NewData
    <2>2. Len(kind) \in Nat
      BY <1>0 DEF BotTypeOK
    <2>3. Covered(1, kind, answered)
      BY <2>2 DEF Covered
    <2>4. OffsetInv'
      BY <1>0, <2>1, <2>3 DEF OffsetInv
    <2> QED
      BY <1>d, <2>1, <2>4
  <1>17. ASSUME UNCHANGED botVars PROVE OffsetInv' /\ BatchInv'
    BY <1>0, <1>17 DEF botVars, OffsetInv, BatchInv
  <1> QED
    BY <1>1, <1>4, <1>5, <1>7, <1>8, <1>9, <1>10, <1>11, <1>12, <1>13, <1>14, <1>15,
       <1>16, <1>17 DEF BotNext, BotLive, Round

\* What the user was told of is in the file and in the memory.
LEMMA KeptStep == BotIInv /\ [BotNext]_botVars => LocalInv' /\ KeptInv'
  <1> SUFFICES ASSUME BotIInv, [BotNext]_botVars PROVE LocalInv' /\ KeptInv'
    OBVIOUS
  <1> USE DEF telegram, botHistory
  <1>0. LocalInv /\ KeptInv /\ data.on \cap data.off = {} /\ told \subseteq Entries(data)
    BY DEF BotIInv, BotTypeOK, Entries
  <1>1. ASSUME (\E k \in Kinds : Arrive(k)) \/ PollFails \/ UNCHANGED botVars
        PROVE  LocalInv' /\ KeptInv'
    BY <1>0, <1>1 DEF Arrive, PollFails, botVars, LocalInv, KeptInv
  <1>2. ASSUME Poll \/ Ignore PROVE LocalInv' /\ KeptInv'
    BY <1>0, <1>2 DEF Poll, Ignore, LocalInv, KeptInv
  <1>3. ASSUME HandleCommand PROVE LocalInv' /\ KeptInv'
    <2>1. /\ data'.on \cap data'.off = {} /\ Entries(data) \subseteq Entries(data')
          /\ saved' = data' \/ (saved' = saved /\ data' = data)
          /\ told' \subseteq Entries(saved') /\ stage' = "reply" /\ due' = {} /\ acked' = acked
      BY <1>3, HandlingACommand DEF Respects
    <2> QED
      BY <1>0, <2>1 DEF LocalInv, KeptInv
  <1>4. ASSUME RateLimited PROVE LocalInv' /\ KeptInv'
    BY <1>0, <1>4 DEF RateLimited, LocalInv, KeptInv
  <1>5. ASSUME CommandRaises PROVE LocalInv' /\ KeptInv'
    <2>1. /\ Entries(data) \subseteq Entries(data') /\ EndRound /\ UNCHANGED <<saved, acked>>
      BY <1>5, RaisingACommand DEF Respects
    <2> QED
      BY <1>0, <2>1 DEF EndRound, LocalInv, KeptInv
  <1>6. ASSUME Reply PROVE LocalInv' /\ KeptInv'
    <2>1. /\ Entries(data') = Entries(data) /\ told' = {} /\ acked' = acked \cup told
          /\ stage = "reply" /\ stage' = "handle" /\ UNCHANGED <<saved, due>>
      BY <1>6, Replying
    <2> QED
      BY <1>0, <2>1 DEF LocalInv, KeptInv
  <1>7. ASSUME ReplyFails \/ SaveFails \/ SaveAlerts \/ \E a \in Alert : NotifyFails(a)
        PROVE  LocalInv' /\ KeptInv'
    <2>1. EndRound /\ UNCHANGED <<data, acked>> /\ saved' \in {saved, data}
      BY <1>7 DEF ReplyFails, SaveFails, SaveAlerts, NotifyFails
    <2> QED
      BY <1>0, <2>1 DEF EndRound, LocalInv, KeptInv
  <1>8. ASSUME SaveBatch PROVE LocalInv' /\ KeptInv'
    BY <1>0, <1>8 DEF SaveBatch, LocalInv, KeptInv
  <1>9. ASSUME CheckAlerts PROVE LocalInv' /\ KeptInv'
    BY <1>0, <1>9 DEF CheckAlerts, EndRound, LocalInv, KeptInv
  <1>10. ASSUME NEW a \in Alert, Notify(a) PROVE LocalInv' /\ KeptInv'
    <2>1. /\ Entries(data') = Entries(data) /\ UNCHANGED <<saved, acked>>
          /\ stage' = "notify" /\ told' = {}
      BY <1>10, Notifying
    <2> QED
      BY <1>0, <2>1 DEF LocalInv, KeptInv
  <1>11. ASSUME Restart PROVE LocalInv' /\ KeptInv'
    BY <1>0, <1>11 DEF Restart, EndRound, LocalInv, KeptInv
  <1> QED
    BY <1>1, <1>2, <1>3, <1>4, <1>5, <1>6, <1>7, <1>8, <1>9, <1>10, <1>11
    DEF BotNext, BotLive, Round

AlertsInv == NumberInv /\ RepeatInv /\ FileInv /\ DuplicatesAreExcused /\ DoneMeansNotified

\* A save, or none, while the memory keeps the alerts it has.
LEMMA FileStays ==
    ASSUME FileInv, DuplicatesAreExcused', cut \subseteq cut',
           saved' \in {saved, data'},
           \A u \in Update : MadeBy(u, data) # {} => MadeBy(u, data') # {}
    PROVE  FileInv'
  <1>1. CASE saved' = saved
    BY <1>1 DEF FileInv
  <1>2. CASE saved' = data'
    <2>1. \A u \in Update : MadeBy(u, saved)' = MadeBy(u, data)'
      BY <1>2 DEF MadeBy
    <2> QED
      BY <2>1 DEF FileInv, DuplicatesAreExcused
  <1> QED
    BY <1>1, <1>2

\* Steps that leave the memory alone, do not end a reply, and put into the file
\* what is in it or in the memory.
LEMMA AlertsStay ==
    ASSUME BotIInv, UNCHANGED <<data, removed, notified>>,
           saved' \in {saved, data}, cut \subseteq cut',
           stage = "reply" => stage' = "reply" /\ Head(batch') = Head(batch)
    PROVE  AlertsInv'
  <1>1. AlertsInv
    BY DEF BotIInv, AlertsInv
  <1>2. NumberInv' /\ DoneMeansNotified'
    BY <1>1 DEF AlertsInv, NumberInv, DoneMeansNotified
  <1>3. RepeatInv' /\ DuplicatesAreExcused'
    BY <1>1 DEF AlertsInv, RepeatInv, DuplicatesAreExcused
  <1>4. FileInv'
    BY <1>1, <1>3, FileStays DEF AlertsInv
  <1> QED
    BY <1>2, <1>3, <1>4 DEF AlertsInv

\* A round that ends before the reply has its command recorded as cut off.
LEMMA AlertsStayCut ==
    ASSUME BotIInv, UNCHANGED <<data, removed, notified>>,
           saved' \in {saved, data}, cut \subseteq cut',
           stage = "reply" => Head(batch) \in cut'
    PROVE  AlertsInv'
  <1>1. AlertsInv
    BY DEF BotIInv, AlertsInv
  <1>2. NumberInv' /\ DoneMeansNotified'
    BY <1>1 DEF AlertsInv, NumberInv, DoneMeansNotified
  <1>3. RepeatInv' /\ DuplicatesAreExcused'
    BY <1>1 DEF AlertsInv, RepeatInv, DuplicatesAreExcused
  <1>4. FileInv'
    BY <1>1, <1>3, FileStays DEF AlertsInv
  <1> QED
    BY <1>2, <1>3, <1>4 DEF AlertsInv

\* A command makes a second alert only if it was cut off before, for all others
\* with an alert are behind the offset.
LEMMA SecondIsExcused ==
    ASSUME BotIInv, stage = "handle", NEW u \in Update, u >= data.offset,
           Respects(u, data, data'), cut \subseteq cut'
    PROVE  /\ Numbered(data') /\ DuplicatesAreExcused'
           /\ \A v \in Update \ {u} :
                 MadeBy(v, data') # {} => v < data'.offset \/ v \in cut'
  <1>1. \A v \in Update : MadeBy(v, data) # {} => v < data.offset \/ v \in cut
    BY DEF BotIInv, RepeatInv
  <1>2. u < data.offset => FALSE
    BY DEF BotIInv, BotTypeOK, DataType, Update
  <1>3. Cardinality(MadeBy(u, data')) > 1 => u \in cut'
    BY <1>1, <1>2 DEF Respects
  <1>4. \A v \in Update \ {u} : MadeBy(v, data') = MadeBy(v, data)
    BY DEF Respects
  <1>5. DuplicatesAreExcused'
    BY <1>3, <1>4 DEF DuplicatesAreExcused, BotIInv
  <1> QED
    BY <1>1, <1>4, <1>5 DEF Respects

\* Alerts are numbered, made twice only with an excuse, and done with a reason.
LEMMA AlertsStep == BotIInv /\ [BotNext]_botVars => AlertsInv'
  <1> SUFFICES ASSUME BotIInv, [BotNext]_botVars PROVE AlertsInv'
    OBVIOUS
  <1> USE DEF telegram, botHistory
  <1>0. /\ AlertsInv /\ BotTypeOK /\ KeptInv
        /\ stage \in {"poll", "check", "notify"} => batch = <<>>
        /\ stage = "reply" => batch # <<>>
    BY DEF BotIInv, AlertsInv, BatchInv
  <1>1. ASSUME \/ \E k \in Kinds : Arrive(k)
               \/ Poll \/ PollFails \/ Ignore \/ RateLimited \/ SaveBatch \/ UNCHANGED botVars
        PROVE  AlertsInv'
    <2>1. /\ UNCHANGED <<data, removed, notified, cut>> /\ saved' \in {saved, data}
          /\ stage = "reply" => stage' = "reply" /\ Head(batch') = Head(batch)
      BY <1>1 DEF Arrive, Poll, PollFails, Ignore, RateLimited, SaveBatch, botVars
    <2> QED
      BY <2>1, AlertsStay
  <1>2. ASSUME CheckAlerts \/ SaveAlerts \/ SaveFails \/ \E a \in Alert : NotifyFails(a)
        PROVE  AlertsInv'
    <2>1. /\ UNCHANGED <<data, removed, notified, cut>> /\ saved' \in {saved, data}
          /\ stage # "reply"
      BY <1>2 DEF CheckAlerts, SaveAlerts, SaveFails, NotifyFails
    <2> QED
      BY <2>1, AlertsStay
  <1>3. ASSUME ReplyFails PROVE AlertsInv'
    <2>1. /\ UNCHANGED <<data, saved, removed, notified>> /\ cut' = cut \cup {Head(batch)}
      BY <1>3 DEF ReplyFails
    <2> QED
      BY <2>1, AlertsStayCut
  <1>4. ASSUME HandleCommand PROVE AlertsInv'
    <2> DEFINE u == Head(batch)
    <2>1. /\ u \in Update /\ u >= data.offset /\ Respects(u, data, data')
          /\ stage = "handle" /\ stage' = "reply" /\ UNCHANGED <<batch, cut, notified>>
          /\ data'.off \subseteq data.off \cup removed' /\ removed \subseteq removed'
          /\ saved' = data' \/ (saved' = saved /\ data' = data)
      BY <1>4, HandlingACommand
    <2>2. u = Head(batch')
      BY <2>1
    <2> HIDE DEF u
    <2>3. /\ Numbered(data') /\ DuplicatesAreExcused'
          /\ \A v \in Update \ {u} : MadeBy(v, data') # {} => v < data'.offset \/ v \in cut'
      BY <2>1, SecondIsExcused
    <2>4. RepeatInv'
      BY <2>1, <2>2, <2>3 DEF RepeatInv
    <2>5. NumberInv'
      BY <1>0, <2>1, <2>3 DEF AlertsInv, NumberInv
    <2>6. DoneMeansNotified'
      BY <1>0, <2>1 DEF AlertsInv, DoneMeansNotified
    <2>7. FileInv'
      <3>1. \A v \in Update : MadeBy(v, data) # {} => MadeBy(v, data') # {}
        BY <2>1 DEF Respects, MadeBy
      <3>2. saved' \in {saved, data'} /\ cut \subseteq cut'
        BY <2>1
      <3> QED
        BY <1>0, <2>3, <3>1, <3>2, FileStays DEF AlertsInv
    <2> QED
      BY <2>3, <2>4, <2>5, <2>6, <2>7 DEF AlertsInv
  <1>5. ASSUME CommandRaises PROVE AlertsInv'
    <2> DEFINE u == Head(batch)
    <2>1. /\ u \in Update /\ Respects(u, data, data')
          /\ cut' = cut \cup {u} /\ UNCHANGED <<saved, notified>>
          /\ data'.off \subseteq data.off \cup removed' /\ removed \subseteq removed'
      BY <1>5, RaisingACommand
    <2>2. stage = "handle" /\ u >= data.offset
      BY <1>5, AtHand DEF CommandRaises
    <2> HIDE DEF u
    <2>3. /\ Numbered(data') /\ DuplicatesAreExcused'
          /\ \A v \in Update \ {u} : MadeBy(v, data') # {} => v < data'.offset \/ v \in cut'
      BY <2>1, <2>2, SecondIsExcused
    <2>4. RepeatInv'
      BY <2>1, <2>3 DEF RepeatInv
    <2>5. NumberInv'
      BY <1>0, <2>1, <2>3 DEF AlertsInv, NumberInv
    <2>6. DoneMeansNotified'
      BY <1>0, <2>1 DEF AlertsInv, DoneMeansNotified
    <2>7. FileInv'
      <3>1. \A v \in Update : MadeBy(v, data) # {} => MadeBy(v, data') # {}
        BY <2>1 DEF Respects, MadeBy
      <3>2. saved' \in {saved, data'} /\ cut \subseteq cut'
        BY <2>1
      <3> QED
        BY <1>0, <2>3, <3>1, <3>2, FileStays DEF AlertsInv
    <2> QED
      BY <2>3, <2>4, <2>5, <2>6, <2>7 DEF AlertsInv
  <1>6. ASSUME Reply PROVE AlertsInv'
    <2>1. /\ Head(batch) \in Update /\ data.offset <= Head(batch)
          /\ data'.offset = Head(batch) + 1
          /\ data'.off = data.off /\ Entries(data') = Entries(data)
          /\ UNCHANGED <<saved, removed, notified, cut>>
      BY <1>6, Replying
    <2>2. Numbered(data') /\ \A u \in Update : MadeBy(u, data') = MadeBy(u, data)
      <3>1. Entries(data') = Entries(data)
        BY <2>1
      <3> QED
        BY <1>0, <3>1 DEF AlertsInv, NumberInv, Numbered, MadeBy
    <2>3. ASSUME NEW u \in Update, u < data.offset \/ u = Head(batch)
          PROVE  u < data'.offset
      <3>1. u \in Int /\ Head(batch) \in Int /\ data.offset \in Int
        BY <1>0, <2>1 DEF Update, BotTypeOK, DataType
      <3> QED
        BY <2>1, <2>3, <3>1
    <2>4. RepeatInv'
      BY <1>0, <2>1, <2>2, <2>3 DEF AlertsInv, RepeatInv
    <2>5. DuplicatesAreExcused'
      BY <1>0, <2>1, <2>2 DEF AlertsInv, DuplicatesAreExcused
    <2>6. NumberInv' /\ DoneMeansNotified'
      BY <1>0, <2>1, <2>2 DEF AlertsInv, NumberInv, DoneMeansNotified
    <2>7. FileInv'
      BY <1>0, <2>1, <2>2, <2>5, FileStays DEF AlertsInv
    <2> QED
      BY <2>4, <2>5, <2>6, <2>7 DEF AlertsInv
  <1>7. ASSUME NEW a \in Alert, Notify(a) PROVE AlertsInv'
    <2>1. /\ data'.off = data.off \cup {a} /\ Entries(data') = Entries(data)
          /\ data'.offset = data.offset /\ notified' = notified \cup {a}
          /\ stage = "notify" /\ UNCHANGED <<saved, removed, cut>>
      BY <1>7, Notifying
    <2>2. Numbered(data') /\ \A u \in Update : MadeBy(u, data') = MadeBy(u, data)
      <3>1. Entries(data') = Entries(data)
        BY <2>1
      <3> QED
        BY <1>0, <3>1 DEF AlertsInv, NumberInv, Numbered, MadeBy
    <2>3. RepeatInv' /\ DuplicatesAreExcused'
      BY <1>0, <2>1, <2>2 DEF AlertsInv, RepeatInv, DuplicatesAreExcused
    <2>4. NumberInv' /\ DoneMeansNotified'
      BY <1>0, <2>1, <2>2 DEF AlertsInv, NumberInv, DoneMeansNotified
    <2>5. FileInv'
      BY <1>0, <2>1, <2>2, <2>3, FileStays DEF AlertsInv
    <2> QED
      BY <2>3, <2>4, <2>5 DEF AlertsInv
  <1>8. ASSUME Restart PROVE AlertsInv'
    <2>1. /\ data' \in {saved, NewData} /\ UNCHANGED <<saved, removed, notified>>
          /\ cut' = cut \cup {u \in Update : u >= saved.offset /\ MadeBy(u, data) # {}}
      BY <1>8 DEF Restart
    <2>2. ASSUME NEW u \in Update, MadeBy(u, saved) # {}
          PROVE  u < saved.offset \/ u \in cut'
      <3>1. u \in Int /\ saved.offset \in Int
        BY <1>0 DEF Update, BotTypeOK, DataType
      <3>2. u < saved.offset \/ u \in cut \/ MadeBy(u, data) # {}
        BY <1>0, <2>2 DEF AlertsInv, FileInv
      <3> QED
        BY <2>1, <3>1, <3>2
    <2>3. cut \subseteq cut'
      BY <2>1
    <2>4. FileInv'
      BY <1>0, <2>1, <2>2, <2>3 DEF AlertsInv, FileInv
    <2>5. CASE data' = saved
      <3>1. \A u \in Update : MadeBy(u, data)' = MadeBy(u, saved)
        BY <2>5 DEF MadeBy
      <3>2. RepeatInv' /\ DuplicatesAreExcused'
        BY <1>0, <2>2, <2>3, <2>5, <3>1 DEF AlertsInv, FileInv, RepeatInv, DuplicatesAreExcused
      <3>3. NumberInv' /\ DoneMeansNotified'
        BY <1>0, <2>1, <2>5 DEF AlertsInv, NumberInv, DoneMeansNotified
      <3> QED
        BY <2>4, <3>2, <3>3 DEF AlertsInv
    <2>6. CASE data' = NewData
      <3>1. RepeatInv' /\ DuplicatesAreExcused' /\ Numbered(data')
        BY <2>6, NothingNew DEF RepeatInv, DuplicatesAreExcused
      <3>2. NumberInv'
        BY <1>0, <2>1, <3>1 DEF AlertsInv, NumberInv
      <3>3. DoneMeansNotified'
        BY <1>0, <2>1, <2>6 DEF AlertsInv, DoneMeansNotified, NewData
      <3> QED
        BY <2>4, <3>1, <3>2, <3>3 DEF AlertsInv
    <2> QED
      BY <2>1, <2>5, <2>6
  <1> QED
    BY <1>1, <1>2, <1>3, <1>4, <1>5, <1>6, <1>7, <1>8 DEF BotNext, BotLive, Round

\* The bot starts with nothing.
LEMMA BotInitInv == BotInit => BotIInv
  <1> SUFFICES ASSUME BotInit PROVE BotIInv
    OBVIOUS
  <1> USE BotAssumption DEF BotInit, NewData
  <1>1. BotTypeOK
    <2>1. kind \in Seq(Kinds) /\ Len(kind) <= MaxUpdate /\ DOMAIN batch = {}
      <3>1. kind \in Seq(Kinds) /\ Len(kind) = 0
        OBVIOUS
      <3>2. batch \in Seq(Update) /\ Len(batch) = 0
        OBVIOUS
      <3> QED
        BY <3>1, <3>2
    <2>2. 1 \in 1..(MaxUpdate + 1)
      OBVIOUS
    <2>3. NewData \in DataType
      BY <2>2 DEF DataType
    <2> QED
      BY <2>1, <2>2, <2>3 DEF BotTypeOK
  <1>2. kind = <<>> /\ batch = <<>> /\ Len(kind) = 0 /\ Len(batch) = 0
    OBVIOUS
  <1>3. \A u \in 1..Len(kind) : FALSE
    BY <1>2
  <1>4. OffsetInv
    BY <1>2, <1>3 DEF OffsetInv, Covered
  <1>5. BatchInv
    <2>1. batch \in Seq(Update) /\ 1..Len(batch) = {}
      BY <1>2
    <2> QED
      BY <2>1 DEF BatchInv, Contiguous
  <1>6. LocalInv /\ KeptInv
    BY DEF LocalInv, KeptInv, Entries
  <1>7. data = NewData /\ saved = NewData
    OBVIOUS
  <1>8. NumberInv
    BY <1>7, NothingNew, Zenon DEF NumberInv
  <1>9. RepeatInv /\ FileInv /\ DuplicatesAreExcused
    BY <1>7, NothingNew, Zenon DEF RepeatInv, FileInv, DuplicatesAreExcused
  <1>10. DoneMeansNotified
    BY DEF DoneMeansNotified
  <1> QED
    BY <1>1, <1>4, <1>5, <1>6, <1>8, <1>9, <1>10 DEF BotIInv

\* The invariant of the bot holds in every state.
LEMMA BotInvariance == BotSpec => []BotIInv
  <1>1. BotIInv /\ [BotNext]_botVars => BotIInv'
    BY BotTypeStep, QueueStep, KeptStep, AlertsStep DEF BotIInv, AlertsInv
  <1> QED
    BY <1>1, BotInitInv, PTL DEF BotSpec

(***************************************************************************)
(* The theorems.                                                           *)
(***************************************************************************)

\* The offset that run_once sends, that is in memory or in the file never passes
\* a command without a reply: whatever fails, no command is lost.
THEOREM CommandsAreNeverSkipped == BotSpec => []NoCommandSkipped
  <1>1. BotIInv => NoCommandSkipped
    BY DEF BotIInv, OffsetInv, Covered, NoCommandSkipped
  <1> QED
    BY <1>1, BotInvariance, PTL

\* check_alerts and /remove are the only ways for an alert to be done, through
\* any number of deaths and restarts.
THEOREM AlertsEndForAReason == BotSpec => []DoneMeansNotified
  <1>1. BotIInv => DoneMeansNotified
    BY DEF BotIInv
  <1> QED
    BY <1>1, BotInvariance, PTL

\* handle_command saves an alert before its reply, so what a user was told of is
\* never lost by a restart that can read the file; one that cannot begins a new
\* state (BotState._load), and only what is told of after it is kept again.
THEOREM ToldAlertsAreKept == BotSpec => []AlertsAreKept
  <1>1. BotIInv => AlertsAreKept
    BY DEF BotIInv, KeptInv, AlertsAreKept
  <1> QED
    BY <1>1, BotInvariance, PTL

\* A second alert of one command comes only from a failure between its effect
\* and the save of its offset.
THEOREM DuplicatesHaveAnExcuse == BotSpec => []DuplicatesAreExcused
  <1>1. BotIInv => DuplicatesAreExcused
    BY DEF BotIInv
  <1> QED
    BY <1>1, BotInvariance, PTL
================================================================================
