--------------------------- MODULE ReleaseDeployProofs ---------------------------
(* Theorems about ReleaseDeploy, for every set of files, every number of      *)
(* releases and their contents, of deployments, faults and edits.             *)
EXTENDS ReleaseDeploy, TLAPS

(***************************************************************************)
(* The inductive invariant.  At most two commands run: the one that the    *)
(* deployer waits for and one that it lost (CmdInv).  A receipt, once      *)
(* written, is complete and never changes again (BackupInv); while files   *)
(* are being replaced its copies are what the tree holds, or what was      *)
(* displaced (CopyInv), and no file with a hotfix is in reach of a command *)
(* unless the hotfix was made meanwhile (HotfixInv).  What is in the tree  *)
(* lies between the release it belongs to and the newest one that was      *)
(* tried, and until the traps are cleared between the one it belonged to   *)
(* before and the newest (RangeInv).  It is that of the target once it was *)
(* applied (TargetInv), and without lost commands and but for hotfixes it  *)
(* differs from what was there before only where the receipt has a copy    *)
(* (BeforeInv).                                                            *)
(***************************************************************************)

Contents == UNION {[S -> Content] : S \in SUBSET File}
Backups  == [dir : BOOLEAN, receipt : BOOLEAN, old : Contents, unit : SUBSET Release]
Kinds    == {"none", "apply", "sync", "rollback"}
Steps    == {"none", "start", "copy", "publish", "undo", "units", "install", "ok",
             "failed"}
Commands == [kind : Kinds, from : Release, rel : Release, step : Steps,
             todo : SUBSET File, of : Nat]
Remote   == {"apply", "sync", "rollback"}

Befores  == [tree : [File -> Content], unit : Release, floor : Release,
             stranded : SUBSET File]

TypeInv ==
    /\ tree \in [File -> Content] /\ running \in [File -> Content]
    /\ unit \in Release /\ current \in Release \cup {NoRelease}
    /\ base \in Release /\ target \in Release /\ newest \in Release /\ floor \in Release
    /\ backup \in [Release -> Backups] /\ cmd \in [Where -> Commands]
    /\ pc \in {"idle", "preflight", "guard"} \cup Acting
    /\ jobs \in Nat
    /\ edited \subseteq File /\ racing \in [Release -> SUBSET File] /\ stranded \subseteq File
    /\ touched \in [Release -> SUBSET File]
    /\ displaced \in [Release -> [File -> Content]]
    /\ before \in Befores
    /\ late \in BOOLEAN /\ strayed \in BOOLEAN /\ astray \in BOOLEAN
    /\ stale \in BOOLEAN

StepsOf(kind) ==
    CASE kind = "none"     -> {"none"}
      [] kind = "apply"    -> {"start", "copy", "publish", "undo", "units", "ok", "failed"}
      [] kind = "sync"     -> {"start", "install", "ok", "failed"}
      [] kind = "rollback" -> {"start", "undo", "units", "ok", "failed"}

\* A command of the deployment that is running, or was the last one.
Mine(w) == cmd[w].kind # "none" /\ cmd[w].of = jobs

CmdInv ==
    /\ \A w \in Where :
          /\ cmd[w].step \in StepsOf(cmd[w].kind)
          /\ cmd[w].kind = "none" => cmd[w] = Nobody
          /\ cmd[w].of <= jobs
          /\ Mine(w) => cmd[w].rel = target /\ cmd[w].from = base
    /\ cmd["awaited"].kind = IF pc \in Remote THEN pc ELSE "none"
    /\ pc \in Remote => cmd["awaited"].of = jobs
    /\ Mine("stray") => pc \in {"rollback", "idle"}
    /\ ~strayed => cmd["stray"].kind = "none" /\ ~astray

\* The backup b that the command c works on has come as far as its step says.
Suits(b, c) ==
    /\ c.step = "copy" =>
          /\ b.dir /\ ~b.receipt /\ c.todo \subseteq Entries(c.from, c.rel)
          /\ DOMAIN b.old = Entries(c.from, c.rel) \ c.todo
    /\ c.kind = "apply" /\ c.step \in {"publish", "undo", "units", "ok"} =>
          b.receipt /\ DOMAIN b.old = Entries(c.from, c.rel)
    /\ c.step \in {"publish", "undo"} => c.todo \subseteq DOMAIN b.old
    /\ c.step \in {"undo", "units"} \/ c.kind = "sync" => b.receipt

BackupOf(w) == Suits(backup[cmd[w].rel], cmd[w])

BackupInv ==
    /\ \A k \in Release :
          /\ backup[k].receipt => backup[k].dir
          /\ ~backup[k].dir => DOMAIN backup[k].old = {}
          /\ ~backup[k].receipt => touched[k] = {} /\ backup[k].unit = {}
          /\ touched[k] \subseteq DOMAIN backup[k].old
    /\ \A w \in Where : BackupOf(w)
    /\ \A v, w \in Where : cmd[v].step = "copy" /\ cmd[w].step = "copy"
          /\ cmd[v].rel = cmd[w].rel => v = w

CopyInv ==
    /\ \A k \in Release : \A f \in touched[k] :
          backup[k].old[f] = displaced[k][f] \/ f \in racing[k] \/ astray
    /\ \A w \in Where :
          Mine(w) /\ cmd[w].step \in {"copy", "publish"} =>
              \A f \in DOMAIN backup[target].old \ touched[target] :
                  backup[target].old[f] = tree[f] \/ f \in racing[target] \/ astray

HotfixInv ==
    /\ \A f \in File : tree[f] = Edited =>
          /\ \A w \in Where :
                cmd[w].kind = "apply" /\ cmd[w].step \in {"copy", "publish", "undo"}
                  /\ f \in Entries(cmd[w].from, cmd[w].rel)
                => f \in racing[cmd[w].rel]
          /\ \A k \in Release : InUse(k) /\ f \in DOMAIN backup[k].old => f \in racing[k]
    /\ \A f \in File : tree[f] = Edited => f \in edited
    /\ \A k \in Release : \A f \in DOMAIN backup[k].old :
          backup[k].old[f] = Edited => f \in edited

\* What a file may hold that was of release b when the newest one was tried.
Between(b, f) == {Absent, Edited} \cup {Version[k][f] : k \in b..newest}

\* The deployment can still change the tree.
Open == pc \in Acting \ {"close"} \/ \E w \in Where : Mine(w)

\* The tree and the copies of this deployment, from where it began.
BeganBetween ==
    \A f \in File \ before.stranded :
        /\ tree[f] \in Between(before.floor, f)
        /\ f \in DOMAIN backup[target].old =>
              backup[target].old[f] \in Between(before.floor, f)

RangeInv ==
    /\ base <= target
    /\ current # NoRelease => floor <= current
    /\ pc \in {"preflight", "guard"} => current = base /\ floor <= base
    /\ Open \/ pc = "close" => target <= newest /\ before.floor <= base
    /\ Open => /\ floor = before.floor /\ stranded = before.stranded
               /\ current \in {base, NoRelease} \/ (late /\ current = target)
    /\ pc = "close" => current = target /\ floor = target
    /\ pc = "write" => current = NoRelease
    /\ current = floor \/ current = NoRelease \/ late
    /\ ~astray =>
          /\ \A f \in File \ stranded : tree[f] \in Between(floor, f)
          /\ Open \/ pc = "close" => BeganBetween

\* f is as the target has it, but for a hotfix.
OnTarget(f) == tree[f] \in {Version[target][f], Edited}

AfterApply == {"sync", "restart", "verify", "state", "write", "close"}

TargetInv ==
    ~astray =>
        /\ pc = "apply" /\ cmd["awaited"].step = "publish" =>
              \A f \in Entries(base, target) \ cmd["awaited"].todo : OnTarget(f)
        /\ pc \in AfterApply \/ (pc = "apply" /\ cmd["awaited"].step = "ok") =>
              \A f \in Entries(base, target) : OnTarget(f)
        /\ pc = "close" =>
              /\ stranded \cap Entries(base, target) = {}
              /\ \A f \in File \ (Entries(base, target) \cup stranded) :
                    tree[f] \in {Absent, Edited}

\* Which files are as they were before, but for hotfixes.
Restored(f) == tree[f] = before.tree[f] \/ f \in edited

BeforeInv ==
    LET b == backup[target]
        c == cmd["awaited"]
    IN  ~strayed =>
          /\ pc \in Acting =>
                /\ \A f \in DOMAIN b.old : b.old[f] = before.tree[f] \/ f \in edited
                /\ \A f \in File : ~b.receipt \/ f \notin DOMAIN b.old => Restored(f)
                /\ b.unit \subseteq {before.unit}
                /\ b.unit = {} => unit = before.unit /\ c.step # "install"
                /\ pc = "apply" \/ (c.kind = "sync" /\ c.step = "start") =>
                      unit = before.unit
                /\ c.step = "undo" => \A f \in File \ c.todo : Restored(f)
                /\ c.step = "units" => \A f \in File : Restored(f)
                /\ pc = "rollback" /\ c.step = "ok" =>
                      unit = before.unit /\ \A f \in File : Restored(f)
          /\ (pc = "sync" /\ c.step = "ok") \/ pc \in AfterApply \ {"sync"} =>
                unit = target
          /\ pc \in {"verify", "state", "write", "close"} =>
                \A f \in File \ edited : running[f] = tree[f]

ReportInv ==
    /\ report \in {"deployed", "rolled back"} => pc = "idle"
    /\ ReportedIsTrue

IInv == /\ TypeInv /\ CmdInv /\ BackupInv /\ CopyInv /\ HotfixInv /\ RangeInv
        /\ TargetInv /\ BeforeInv /\ ReportInv

(***************************************************************************)
(* What a step does to the commands.                                       *)
(***************************************************************************)

\* The command c becomes d, which is at another step.
Moved(c, d, step, todo) ==
    /\ d.kind = c.kind /\ d.from = c.from /\ d.rel = c.rel /\ d.of = c.of
    /\ d.step = step /\ d.todo = todo

LEMMA NobodyIsACommand == Nobody \in Commands
  BY DeployAssumption DEF Nobody, Commands, Kinds, Steps, Release

LEMMA StartedIsACommand ==
    ASSUME TypeInv, NEW kind \in Kinds
    PROVE  Started(kind) \in Commands
  BY DEF TypeInv, Started, Commands, Steps

LEMMA EntriesAreFiles == \A b, t : Entries(b, t) \subseteq File
  BY DEF Entries

\* Goes moves one command, which is forgotten when it is lost and exits.
LEMMA GoesMoves ==
    ASSUME TypeInv, NEW w \in Where, NEW step \in Steps, NEW todo \in SUBSET File,
           Goes(w, step, todo)
    PROVE  /\ cmd' \in [Where -> Commands]
           /\ \A v \in Where \ {w} : cmd'[v] = cmd[v]
           /\ IF w = "stray" /\ step \in {"ok", "failed"}
              THEN cmd'[w] = Nobody ELSE Moved(cmd[w], cmd'[w], step, todo)
  <1> DEFINE d == [cmd[w] EXCEPT !.step = step, !.todo = todo]
  <1>1. cmd[w] \in Commands
    BY DEF TypeInv
  <1>2. d \in Commands /\ Moved(cmd[w], d, step, todo)
    BY <1>1 DEF Commands, Moved
  <1>3. cmd' = [cmd EXCEPT ![w] = IF w = "stray" /\ step \in {"ok", "failed"}
                                  THEN Nobody ELSE d]
    BY DEF Goes
  <1> HIDE DEF d
  <1>4. cmd \in [Where -> Commands]
    BY DEF TypeInv
  <1> QED
    BY <1>2, <1>3, <1>4, NobodyIsACommand

\* A command that starts is a new one.
LEMMA RunStarts ==
    ASSUME TypeInv, NEW kind \in Kinds, Run(kind)
    PROVE  /\ cmd' \in [Where -> Commands]
           /\ cmd'["awaited"] = Started(kind) /\ cmd'["stray"] = cmd["stray"]
  <1>1. cmd \in [Where -> Commands] /\ "awaited" \in Where /\ "stray" \in Where
    BY DEF TypeInv, Where
  <1> QED
    BY <1>1, StartedIsACommand DEF Run

\* The deployer takes note that its command has ended.
Clears ==
    cmd' = [cmd EXCEPT !["awaited"] = Nobody]

LEMMA ClearsClear ==
    ASSUME TypeInv, Clears
    PROVE  /\ cmd' \in [Where -> Commands]
           /\ cmd'["awaited"] = Nobody /\ cmd'["stray"] = cmd["stray"]
  <1>1. cmd \in [Where -> Commands] /\ "awaited" \in Where /\ "stray" \in Where
    BY DEF TypeInv, Where
  <1> QED
    BY <1>1, NobodyIsACommand DEF Clears

LEMMA PairIsCommands ==
    ASSUME NEW a \in Commands, NEW s \in Commands,
           cmd' = [awaited |-> a, stray |-> s]
    PROVE  /\ cmd' \in [Where -> Commands]
           /\ cmd'["awaited"] = a /\ cmd'["stray"] = s
  BY DEF Where

\* Every step of a command leads to one that its kind has, and leaves the
\* deployer alone.
LEMMA CommandGoes ==
    ASSUME TypeInv, CmdInv, NEW w \in Where, Command(w)
    PROVE  /\ cmd[w].kind # "none"
           /\ \E step \in StepsOf(cmd[w].kind), todo \in SUBSET File :
                 Goes(w, step, todo) /\ step \in Steps
           /\ UNCHANGED job /\ UNCHANGED <<strayed, late, current, newest, floor, before>>
           /\ astray' = astray \/ Marks(w)
  <1> DEFINE c == cmd[w]
  <1> DEFINE Going(step, todo) ==
               /\ Goes(w, step, todo)
               /\ step \in StepsOf(c.kind) /\ step \in Steps /\ todo \in SUBSET File
  <1>1. c \in Commands /\ c.step \in StepsOf(c.kind)
    BY DEF TypeInv, CmdInv
  <1>2. \A k \in Release : DOMAIN backup[k].old \in SUBSET File
    BY DEF TypeInv, Backups, Contents
  <1>3. c.rel \in Release /\ c.todo \in SUBSET File /\ c.kind \in Kinds
    BY <1>1 DEF Commands
  <1>4. c.step \in {"undo", "units"} => c.kind \in {"apply", "rollback"}
    BY <1>1, <1>3 DEF StepsOf, Kinds
  <1>5. /\ StepsOf("apply") = {"start", "copy", "publish", "undo", "units", "ok", "failed"}
        /\ StepsOf("sync") = {"start", "install", "ok", "failed"}
        /\ StepsOf("rollback") = {"start", "undo", "units", "ok", "failed"}
    BY DEF StepsOf
  <1> HIDE DEF c
  <1>6. c.kind # "none" /\ \E step, todo : Going(step, todo)
    <2>1. ASSUME ApplyStarts(w) PROVE c.kind = "apply" /\ \E step, todo : Going(step, todo)
      <3>1. c.kind = "apply" /\ (\/ Goes(w, "copy", Entries(c.from, c.rel))
                                 \/ Goes(w, "failed", {}))
        BY <2>1 DEF ApplyStarts, At, c
      <3> QED
        BY <3>1, <1>5, EntriesAreFiles DEF Steps
    <2>2. ASSUME NEW f \in File, Copy(w, f) PROVE c.kind = "apply" /\ \E step, todo : Going(step, todo)
      <3>1. c.kind = "apply" /\ Goes(w, "copy", c.todo \ {f})
        BY <2>2 DEF Copy, At, c
      <3> QED
        BY <3>1, <1>3, <1>5 DEF Steps
    <2>3. ASSUME WriteReceipt(w) \/ PreparationFails(w) \/ PublishingFails(w)
          PROVE  c.kind = "apply" /\ \E step, todo : Going(step, todo)
      <3>1. c.kind = "apply" /\ (\/ Goes(w, "publish", Entries(c.from, c.rel))
                                 \/ Goes(w, "undo", Entries(c.from, c.rel))
                                 \/ Goes(w, "failed", {}))
        BY <2>3 DEF WriteReceipt, PreparationFails, PublishingFails, At, c
      <3> QED
        BY <3>1, <1>5, EntriesAreFiles DEF Steps
    <2>4. ASSUME NEW f \in File, Publish(w, f) PROVE c.kind = "apply" /\ \E step, todo : Going(step, todo)
      <3>1. c.kind = "apply" /\ (\/ Goes(w, "ok", c.todo \ {f})
                                 \/ Goes(w, "publish", c.todo \ {f}))
        BY <2>4 DEF Publish, At, c
      <3> QED
        BY <3>1, <1>3, <1>5 DEF Steps
    <2>5. ASSUME RollbackStarts(w) PROVE c.kind = "rollback" /\ \E step, todo : Going(step, todo)
      <3>1. c.kind = "rollback" /\ (\/ Goes(w, "undo", DOMAIN backup[c.rel].old)
                                    \/ Goes(w, "ok", {}))
        BY <2>5 DEF RollbackStarts, At, c
      <3> QED
        BY <3>1, <1>2, <1>3, <1>5 DEF Steps
    <2>6. ASSUME NEW f \in File, Undo(w, f) PROVE c.kind # "none" /\ \E step, todo : Going(step, todo)
      <3>1. c.step = "undo" /\ (\/ Goes(w, "units", c.todo \ {f})
                                \/ Goes(w, "undo", c.todo \ {f}))
        BY <2>6 DEF Undo, c
      <3> QED
        BY <3>1, <1>3, <1>4, <1>5 DEF Steps
    <2>7. ASSUME RestoreUnits(w) \/ RollbackFails(w)
          PROVE  c.kind # "none" /\ \E step, todo : Going(step, todo)
      <3>1. c.step \in {"undo", "units"} /\ (Goes(w, "ok", {}) \/ Goes(w, "failed", {}))
        BY <2>7 DEF RestoreUnits, RollbackFails, c
      <3> QED
        BY <3>1, <1>4, <1>5 DEF Steps
    <2>8. ASSUME RecordUnits(w) \/ InstallUnits(w) \/ SyncFails(w)
          PROVE  c.kind = "sync" /\ \E step, todo : Going(step, todo)
      <3>1. c.kind = "sync" /\ (\/ Goes(w, "install", {}) \/ Goes(w, "ok", {})
                                \/ Goes(w, "failed", {}))
        BY <2>8 DEF RecordUnits, InstallUnits, SyncFails, At, c
      <3> QED
        BY <3>1, <1>5 DEF Steps
    <2> HIDE DEF Going
    <2> QED
      BY <2>1, <2>2, <2>3, <2>4, <2>5, <2>6, <2>7, <2>8 DEF Command
  <1>7. /\ UNCHANGED job /\ UNCHANGED <<strayed, late, current, newest, floor, before>>
        /\ astray' = astray \/ Marks(w)
    BY DEF Command, ApplyStarts, Copy, WriteReceipt, PreparationFails, Publish,
           PublishingFails, RollbackStarts, Undo, RestoreUnits, RollbackFails,
           RecordUnits, InstallUnits, SyncFails, job, hist, host
  <1> QED
    BY <1>6, <1>7 DEF c

\* A command that nobody starts goes on as the same command, or is forgotten.
LEMMA GoingOn ==
    ASSUME TypeInv, CmdInv, NEW w \in Where, Command(w)
    PROVE  /\ cmd' \in [Where -> Commands]
           /\ \A v \in Where \ {w} : cmd'[v] = cmd[v]
           /\ \/ w = "stray" /\ cmd'[w] = Nobody
              \/ \E step \in StepsOf(cmd[w].kind), todo \in SUBSET File :
                    Moved(cmd[w], cmd'[w], step, todo)
  <1>1. PICK step \in StepsOf(cmd[w].kind), todo \in SUBSET File :
           Goes(w, step, todo) /\ step \in Steps
    BY CommandGoes
  <1> QED
    BY <1>1, GoesMoves

\* What the deployer, accidents and operators do to the commands.
Fresh(c) == c = Nobody \/ \E kind \in Remote : c = Started(kind)
Failing(c) == [c EXCEPT !.step = "failed", !.todo = {}]

LEMMA OthersCommands ==
    ASSUME TypeInv, CmdInv,
           \/ Deployer \/ ConnectionLost \/ DeployerDies
           \/ HostRestarts \/ HostRestartsWriting \/ \E f \in File : Edit(f)
    PROVE  /\ cmd' \in [Where -> Commands]
           /\ \/ cmd'["awaited"] = cmd["awaited"] \/ Fresh(cmd'["awaited"])
              \/ cmd'["awaited"] = Failing(cmd["awaited"]) /\ Runs("awaited") /\ HostRestarts
           /\ \/ cmd'["stray"] = cmd["stray"] \/ cmd'["stray"] = Nobody
              \/ cmd'["stray"] = cmd["awaited"] /\ Runs("awaited") /\ pc \in Acting
                 /\ pc' \in {"rollback", "idle"} /\ strayed' /\ UNCHANGED <<jobs, base, target>>
  <1> DEFINE Done ==
        /\ cmd' \in [Where -> Commands]
        /\ \/ cmd'["awaited"] = cmd["awaited"] \/ Fresh(cmd'["awaited"])
           \/ cmd'["awaited"] = Failing(cmd["awaited"]) /\ Runs("awaited") /\ HostRestarts
        /\ \/ cmd'["stray"] = cmd["stray"] \/ cmd'["stray"] = Nobody
           \/ cmd'["stray"] = cmd["awaited"] /\ Runs("awaited") /\ pc \in Acting
              /\ pc' \in {"rollback", "idle"} /\ strayed' /\ UNCHANGED <<jobs, base, target>>
  <1>0. cmd["awaited"] \in Commands /\ cmd["stray"] \in Commands /\ cmd \in [Where -> Commands]
    BY DEF TypeInv, Where
  <1>1. ASSUME cmd' = cmd PROVE Done
    BY <1>0, <1>1
  <1>2. ASSUME NEW kind \in Remote, Run(kind) PROVE Done
    BY <1>2, RunStarts DEF Remote, Kinds, Fresh
  <1>3. ASSUME Clears PROVE Done
    BY <1>3, ClearsClear DEF Fresh
  <1>4. ASSUME Deployer PROVE Done
    <2>1. cmd' = cmd \/ Clears \/ \E kind \in Remote : Run(kind)
      BY <1>4 DEF Deployer, Begin, Preflight, Guard, Applied, Synced, Restart, Verified,
         TruncateState, WriteState, Close, CommandFailed, VerificationFails, Interrupted,
         InterruptedLate, RolledBack,
         RolledBackStale, NotRolledBack, StartRollback, End, Clears, Remote, Run
    <2> HIDE DEF Done
    <2> QED
      BY <1>1, <1>2, <1>3, <2>1
  <1>5. ASSUME ConnectionLost PROVE Done
    <2>1. Started("rollback") \in Commands
      BY StartedIsACommand DEF Kinds
    <2>2. /\ cmd' = [awaited |-> Started("rollback"), stray |-> cmd["awaited"]]
          /\ pc \in Acting /\ Runs("awaited") /\ pc' = "rollback" /\ strayed'
          /\ UNCHANGED <<jobs, base, target>>
      BY <1>5 DEF ConnectionLost, Acting
    <2> QED
      BY <1>0, <2>1, <2>2, PairIsCommands DEF Fresh, Remote
  <1>6. ASSUME DeployerDies PROVE Done
    <2>1. /\ cmd' = [awaited |-> Nobody, stray |-> IF Runs("awaited") THEN cmd["awaited"] ELSE Nobody]
          /\ pc' = "idle" /\ UNCHANGED <<jobs, base, target>>
          /\ Runs("awaited") => strayed'
      BY <1>6 DEF DeployerDies
    <2>2. Runs("awaited") => pc \in Acting
      BY DEF CmdInv, StepsOf, Runs, Where, Remote, Acting
    <2>3. /\ cmd' \in [Where -> Commands] /\ cmd'["awaited"] = Nobody
          /\ cmd'["stray"] = IF Runs("awaited") THEN cmd["awaited"] ELSE Nobody
      BY <1>0, <2>1, NobodyIsACommand, PairIsCommands
    <2> QED
      BY <2>1, <2>2, <2>3 DEF Fresh
  <1>7. ASSUME HostRestarts PROVE Done
    <2> DEFINE d == Failing(cmd["awaited"])
    <2>1. cmd' = [awaited |-> IF Runs("awaited") THEN d ELSE cmd["awaited"], stray |-> Nobody]
      BY <1>7 DEF HostRestarts, Failing
    <2>2. d \in Commands
      BY <1>0 DEF Commands, Steps, Failing
    <2> HIDE DEF d
    <2>3. /\ cmd' \in [Where -> Commands] /\ cmd'["stray"] = Nobody
          /\ cmd'["awaited"] = IF Runs("awaited") THEN d ELSE cmd["awaited"]
      BY <1>0, <2>1, <2>2, NobodyIsACommand, PairIsCommands
    <2> QED
      BY <1>7, <2>3 DEF d
  <1>8. ASSUME NEW f \in File, Edit(f) PROVE Done
    BY <1>1, <1>8 DEF Edit
  <1>9. ASSUME HostRestartsWriting PROVE Done
    <2>1. /\ cmd' = [awaited |-> Started("rollback"), stray |-> Nobody]
          /\ Started("rollback") \in Commands
      BY <1>9, StartedIsACommand DEF HostRestartsWriting, Kinds
    <2> QED
      BY <2>1, NobodyIsACommand, PairIsCommands DEF Fresh, Remote
  <1> HIDE DEF Done
  <1>10. Done
    BY <1>4, <1>5, <1>6, <1>7, <1>8, <1>9
  <1> QED
    BY <1>10 DEF Done

(***************************************************************************)
(* Types.                                                                  *)
(***************************************************************************)

LEMMA VersionIsContent == \A k \in Release, f \in File : Version[k][f] \in Content
  BY DEF Content

LEMMA EmptyIsContents == \A g : g \in [{} -> Content] => g \in Contents
  BY DEF Contents

LEMMA NoBackupIsABackup == NoBackup \in Backups /\ DOMAIN NoBackup.old = {}
  <1>1. [f \in {} |-> Absent] \in [{} -> Content]
    OBVIOUS
  <1>2. [f \in {} |-> Absent] \in Contents
    BY <1>1, EmptyIsContents
  <1> QED
    BY <1>2 DEF NoBackup, Backups

LEMMA TypeInit == Init => TypeInv
  <1> SUFFICES ASSUME Init PROVE TypeInv
    OBVIOUS
  <1>1. 0 \in Release /\ Version[0] \in [File -> Content]
    BY DeployAssumption DEF Release
  <1>2. backup \in [Release -> Backups]
    BY NoBackupIsABackup DEF Init
  <1>3. cmd \in [Where -> Commands]
    BY NobodyIsACommand DEF Init
  <1>4. before \in Befores
    BY <1>1 DEF Init, Befores
  <1>5. /\ racing \in [Release -> SUBSET File] /\ touched \in [Release -> SUBSET File]
        /\ displaced \in [Release -> [File -> Content]]
    BY <1>1 DEF Init
  <1> QED
    BY <1>1, <1>2, <1>3, <1>4, <1>5 DEF Init, TypeInv

\* A copy is added to a backup.
LEMMA CopyAdds ==
    ASSUME TypeInv, NEW w \in Where, NEW f \in File, Copy(w, f)
    PROVE  LET k == cmd[w].rel
               b == backup[k]
           IN  /\ k \in Release /\ backup' \in [Release -> Backups]
               /\ \A j \in Release \ {k} : backup'[j] = backup[j]
               /\ backup'[k].dir = b.dir /\ backup'[k].receipt = b.receipt
               /\ backup'[k].unit = b.unit
               /\ DOMAIN backup'[k].old = DOMAIN b.old \cup {f}
               /\ backup'[k].old[f] = tree[f]
               /\ \A g \in DOMAIN b.old \ {f} : backup'[k].old[g] = b.old[g]
  <1> DEFINE k == cmd[w].rel
             b == backup[k]
             more == [g \in DOMAIN b.old \cup {f} |-> IF g = f THEN tree[f] ELSE b.old[g]]
  <1>1. k \in Release
    BY DEF TypeInv, Commands
  <1>2. b \in Backups /\ b.old \in Contents
    BY <1>1 DEF TypeInv, Backups
  <1>3. PICK S \in SUBSET File : b.old \in [S -> Content]
    BY <1>2 DEF Contents
  <1>4. more \in [S \cup {f} -> Content]
    BY <1>3 DEF TypeInv
  <1>5. more \in Contents /\ DOMAIN more = DOMAIN b.old \cup {f}
    BY <1>4, <1>3 DEF Contents
  <1>6. /\ more[f] = tree[f]
        /\ \A g \in DOMAIN b.old \ {f} : more[g] = b.old[g]
    OBVIOUS
  <1>7. backup' = [backup EXCEPT ![k] = [b EXCEPT !.old = more]]
    BY DEF Copy
  <1> HIDE DEF more
  <1>8. /\ [b EXCEPT !.old = more] \in Backups
        /\ [b EXCEPT !.old = more].old = more
        /\ [b EXCEPT !.old = more].dir = b.dir
        /\ [b EXCEPT !.old = more].receipt = b.receipt
        /\ [b EXCEPT !.old = more].unit = b.unit
    BY <1>2, <1>5 DEF Backups
  <1>9. backup \in [Release -> Backups]
    BY DEF TypeInv
  <1> QED
    BY <1>1, <1>5, <1>6, <1>7, <1>8, <1>9

\* Only the mark of the directory, the receipt, or the units of a backup change.
LEMMA MarkedBackup ==
    ASSUME TypeInv, NEW k \in Release, NEW x \in BOOLEAN, NEW U \in SUBSET Release,
           \/ backup' = [backup EXCEPT ![k].dir = x]
           \/ backup' = [backup EXCEPT ![k].receipt = x]
           \/ backup' = [backup EXCEPT ![k].unit = U]
    PROVE  /\ backup' \in [Release -> Backups]
           /\ \A j \in Release \ {k} : backup'[j] = backup[j]
           /\ backup'[k].old = backup[k].old
           /\ \/ /\ backup' = [backup EXCEPT ![k].dir = x] /\ backup'[k].dir = x
                 /\ backup'[k].receipt = backup[k].receipt /\ backup'[k].unit = backup[k].unit
              \/ /\ backup' = [backup EXCEPT ![k].receipt = x] /\ backup'[k].receipt = x
                 /\ backup'[k].dir = backup[k].dir /\ backup'[k].unit = backup[k].unit
              \/ /\ backup' = [backup EXCEPT ![k].unit = U] /\ backup'[k].unit = U
                 /\ backup'[k].dir = backup[k].dir /\ backup'[k].receipt = backup[k].receipt
  <1>1. backup \in [Release -> Backups] /\ backup[k] \in Backups
    BY DEF TypeInv
  <1>2. /\ [backup[k] EXCEPT !.dir = x] \in Backups
        /\ [backup[k] EXCEPT !.receipt = x] \in Backups
        /\ [backup[k] EXCEPT !.unit = U] \in Backups
    BY <1>1 DEF Backups
  <1> QED
    BY <1>1, <1>2 DEF Backups

(***************************************************************************)
(* What each step of a command does.  w is where it runs, c what it was,   *)
(* and Went says what it becomes.                                          *)
(***************************************************************************)

Went(w, step, todo) ==
    /\ cmd' \in [Where -> Commands]
    /\ \A v \in Where \ {w} : cmd'[v] = cmd[v]
    /\ IF w = "stray" /\ step \in {"ok", "failed"}
       THEN cmd'[w] = Nobody ELSE Moved(cmd[w], cmd'[w], step, todo)

LEMMA CommandFacts ==
    ASSUME TypeInv, NEW w \in Where
    PROVE  /\ cmd[w] \in Commands /\ cmd[w].rel \in Release /\ cmd[w].from \in Release
           /\ cmd[w].todo \subseteq File /\ cmd[w].of \in Nat
           /\ cmd[w].kind \in Kinds /\ cmd[w].step \in Steps
  BY DEF TypeInv, Commands

LEMMA BackupFacts ==
    ASSUME TypeInv, NEW k \in Release
    PROVE  /\ backup[k] \in Backups /\ backup[k].old \in Contents
           /\ DOMAIN backup[k].old \subseteq File
           /\ \A f \in DOMAIN backup[k].old : backup[k].old[f] \in Content
           /\ backup[k].unit \subseteq Release
           /\ backup[k].dir \in BOOLEAN /\ backup[k].receipt \in BOOLEAN
  <1>1. backup[k] \in Backups /\ backup[k].old \in Contents
    BY DEF TypeInv, Backups
  <1>2. PICK S \in SUBSET File : backup[k].old \in [S -> Content]
    BY <1>1 DEF Contents
  <1> QED
    BY <1>1, <1>2 DEF Backups

\* The backup of a release at which nothing else is said to change.
SameBackups(k) == /\ backup' \in [Release -> Backups]
                  /\ \A j \in Release \ {k} : backup'[j] = backup[j]

LEMMA ApplyStartsDoes ==
    ASSUME TypeInv, NEW w \in Where, ApplyStarts(w)
    PROVE  LET c == cmd[w]
               k == c.rel
           IN  /\ c.kind = "apply" /\ c.step = "start"
               /\ UNCHANGED <<tree, unit, running, current>> /\ UNCHANGED job
               /\ UNCHANGED <<edited, touched, displaced, floor, before, newest, late,
                              strayed, astray, stale, stranded>>
               /\ \/ /\ ~backup[k].dir /\ NoConflict(c.from, k)
                     /\ racing' = [racing EXCEPT ![k] = {}]
                     /\ Went(w, "copy", Entries(c.from, k)) /\ SameBackups(k)
                     /\ backup'[k].dir /\ backup'[k].old = backup[k].old
                     /\ backup'[k].receipt = backup[k].receipt
                     /\ backup'[k].unit = backup[k].unit
                  \/ UNCHANGED <<backup, racing>> /\ Went(w, "failed", {})
  <1> DEFINE k == cmd[w].rel
  <1>1. k \in Release
    BY CommandFacts
  <1>2. /\ cmd[w].kind = "apply" /\ cmd[w].step = "start"
        /\ UNCHANGED <<tree, unit, running, current>> /\ UNCHANGED job
        /\ UNCHANGED <<edited, touched, displaced, floor, before, newest, late,
                       strayed, astray, stale, stranded>>
    BY DEF ApplyStarts, At
  <1>3. CASE NoConflict(cmd[w].from, k) /\ ~backup[k].dir
    <2>1. /\ backup' = [backup EXCEPT ![k].dir = TRUE]
          /\ Goes(w, "copy", Entries(cmd[w].from, k))
          /\ racing' = [racing EXCEPT ![k] = {}]
      BY <1>3 DEF ApplyStarts
    <2>2. Went(w, "copy", Entries(cmd[w].from, k))
      BY <2>1, GoesMoves, EntriesAreFiles DEF Went, Steps
    <2>3. backup[k] \in Backups /\ backup \in [Release -> Backups]
      BY <1>1 DEF TypeInv
    <2>4. [backup[k] EXCEPT !.dir = TRUE] \in Backups
      BY <2>3 DEF Backups
    <2>5. /\ SameBackups(k) /\ backup'[k].dir /\ backup'[k].old = backup[k].old
          /\ backup'[k].receipt = backup[k].receipt /\ backup'[k].unit = backup[k].unit
      BY <1>1, <2>1, <2>3, <2>4 DEF Backups, SameBackups
    <2> QED
      BY <1>2, <1>3, <2>1, <2>2, <2>5
  <1>4. CASE ~(NoConflict(cmd[w].from, k) /\ ~backup[k].dir)
    <2>1. UNCHANGED <<backup, racing>> /\ Goes(w, "failed", {})
      BY <1>4 DEF ApplyStarts
    <2>2. Went(w, "failed", {})
      BY <2>1, GoesMoves DEF Went, Steps
    <2> QED
      BY <1>2, <2>1, <2>2
  <1> QED
    BY <1>3, <1>4

LEMMA CopyDoes ==
    ASSUME TypeInv, NEW w \in Where, NEW f \in File, Copy(w, f)
    PROVE  LET c == cmd[w]
               k == c.rel
           IN  /\ c.kind = "apply" /\ c.step = "copy" /\ f \in c.todo
               /\ UNCHANGED <<tree, unit, running, current>>
               /\ UNCHANGED job /\ UNCHANGED hist
               /\ Went(w, "copy", c.todo \ {f}) /\ SameBackups(k)
               /\ backup'[k].dir = backup[k].dir
               /\ backup'[k].receipt = backup[k].receipt
               /\ backup'[k].unit = backup[k].unit
               /\ DOMAIN backup'[k].old = DOMAIN backup[k].old \cup {f}
               /\ backup'[k].old[f] = tree[f]
               /\ \A g \in DOMAIN backup[k].old \ {f} : backup'[k].old[g] = backup[k].old[g]
  <1>1. /\ cmd[w].kind = "apply" /\ cmd[w].step = "copy" /\ f \in cmd[w].todo
        /\ Goes(w, "copy", cmd[w].todo \ {f})
        /\ UNCHANGED <<tree, unit, running, current>> /\ UNCHANGED job /\ UNCHANGED hist
    BY DEF Copy, At
  <1>2. Went(w, "copy", cmd[w].todo \ {f})
    BY <1>1, GoesMoves, CommandFacts DEF Went, Steps
  <1> QED
    BY <1>1, <1>2, CopyAdds DEF SameBackups

LEMMA WriteReceiptDoes ==
    ASSUME TypeInv, NEW w \in Where, WriteReceipt(w)
    PROVE  LET c == cmd[w]
               k == c.rel
           IN  /\ c.kind = "apply" /\ c.step = "copy" /\ c.todo = {}
               /\ UNCHANGED <<tree, unit, running, current>>
               /\ UNCHANGED job /\ UNCHANGED hist
               /\ Went(w, "publish", Entries(c.from, k)) /\ SameBackups(k)
               /\ backup'[k].receipt /\ backup'[k].dir = backup[k].dir
               /\ backup'[k].old = backup[k].old /\ backup'[k].unit = backup[k].unit
  <1> DEFINE k == cmd[w].rel
  <1>1. /\ cmd[w].kind = "apply" /\ cmd[w].step = "copy" /\ cmd[w].todo = {}
        /\ Goes(w, "publish", Entries(cmd[w].from, k))
        /\ backup' = [backup EXCEPT ![k].receipt = TRUE]
        /\ UNCHANGED <<tree, unit, running, current>> /\ UNCHANGED job /\ UNCHANGED hist
    BY DEF WriteReceipt, At
  <1>2. Went(w, "publish", Entries(cmd[w].from, k))
    BY <1>1, GoesMoves, EntriesAreFiles DEF Went, Steps
  <1>3. k \in Release /\ backup[k] \in Backups /\ backup \in [Release -> Backups]
    BY CommandFacts DEF TypeInv
  <1>4. [backup[k] EXCEPT !.receipt = TRUE] \in Backups
    BY <1>3 DEF Backups
  <1>5. /\ SameBackups(k) /\ backup'[k].receipt /\ backup'[k].dir = backup[k].dir
        /\ backup'[k].old = backup[k].old /\ backup'[k].unit = backup[k].unit
    BY <1>1, <1>3, <1>4 DEF Backups, SameBackups
  <1> QED
    BY <1>1, <1>2, <1>5

LEMMA PreparationFailsDoes ==
    ASSUME TypeInv, NEW w \in Where, PreparationFails(w)
    PROVE  LET c == cmd[w]
               k == c.rel
           IN  /\ c.kind = "apply" /\ c.step = "copy"
               /\ UNCHANGED <<tree, unit, running, current>>
               /\ UNCHANGED job /\ UNCHANGED hist
               /\ Went(w, "failed", {}) /\ SameBackups(k)
               /\ ~backup'[k].dir /\ ~backup'[k].receipt
               /\ DOMAIN backup'[k].old = {} /\ backup'[k].unit = {}
  <1> DEFINE k == cmd[w].rel
  <1>1. /\ cmd[w].kind = "apply" /\ cmd[w].step = "copy" /\ Goes(w, "failed", {})
        /\ backup' = [backup EXCEPT ![k] = NoBackup]
        /\ UNCHANGED <<tree, unit, running, current>> /\ UNCHANGED job /\ UNCHANGED hist
    BY DEF PreparationFails, At
  <1>2. Went(w, "failed", {})
    BY <1>1, GoesMoves DEF Went, Steps
  <1>3. k \in Release /\ backup \in [Release -> Backups]
    BY CommandFacts DEF TypeInv
  <1>4. SameBackups(k) /\ backup'[k] = NoBackup
    BY <1>1, <1>3, NoBackupIsABackup DEF SameBackups
  <1>5. ~NoBackup.dir /\ ~NoBackup.receipt /\ NoBackup.unit = {} /\ DOMAIN NoBackup.old = {}
    BY NoBackupIsABackup DEF NoBackup
  <1> QED
    BY <1>1, <1>2, <1>4, <1>5

LEMMA PublishDoes ==
    ASSUME TypeInv, NEW w \in Where, NEW f \in File, Publish(w, f)
    PROVE  LET c == cmd[w]
               k == c.rel
           IN  /\ c.kind = "apply" /\ c.step = "publish" /\ f \in c.todo
               /\ UNCHANGED <<unit, running, current, backup>> /\ UNCHANGED job
               /\ UNCHANGED <<edited, racing, floor, before, newest, late, strayed, stale,
                              stranded>>
               /\ tree' = [tree EXCEPT ![f] = Version[k][f]]
               /\ touched' = [touched EXCEPT ![k] = @ \cup {f}]
               /\ displaced' = [displaced EXCEPT ![k][f] =
                                  IF f \in touched[k] THEN @ ELSE tree[f]]
               /\ Went(w, IF c.todo = {f} THEN "ok" ELSE "publish", c.todo \ {f})
               /\ astray' = (astray \/ c.of # jobs)
  <1>1. /\ cmd[w].kind = "apply" /\ cmd[w].step = "publish" /\ f \in cmd[w].todo
        /\ Goes(w, IF cmd[w].todo = {f} THEN "ok" ELSE "publish", cmd[w].todo \ {f})
    BY DEF Publish, At
  <1>2. Went(w, IF cmd[w].todo = {f} THEN "ok" ELSE "publish", cmd[w].todo \ {f})
    BY <1>1, GoesMoves, CommandFacts DEF Went, Steps
  <1> QED
    BY <1>1, <1>2 DEF Publish, Marks

LEMMA UndoDoes ==
    ASSUME TypeInv, NEW w \in Where, NEW f \in File, Undo(w, f)
    PROVE  LET c == cmd[w]
               k == c.rel
           IN  /\ c.step = "undo" /\ f \in c.todo
               /\ UNCHANGED <<unit, running, current, backup>> /\ UNCHANGED job
               /\ UNCHANGED <<edited, displaced, floor, before, newest, late, strayed,
                              stale, stranded>>
               /\ racing' = IF backup[k].old[f] = Edited THEN Raced(f) ELSE racing
               /\ tree' = [tree EXCEPT ![f] = backup[k].old[f]]
               /\ touched' = [touched EXCEPT ![k] = @ \ {f}]
               /\ Went(w, IF c.todo = {f} THEN "units" ELSE "undo", c.todo \ {f})
               /\ astray' = (astray \/ c.of # jobs)
  <1>1. /\ cmd[w].step = "undo" /\ f \in cmd[w].todo
        /\ Goes(w, IF cmd[w].todo = {f} THEN "units" ELSE "undo", cmd[w].todo \ {f})
    BY DEF Undo
  <1>2. Went(w, IF cmd[w].todo = {f} THEN "units" ELSE "undo", cmd[w].todo \ {f})
    BY <1>1, GoesMoves, CommandFacts DEF Went, Steps
  <1> QED
    BY <1>1, <1>2 DEF Undo, Marks

LEMMA RestoreUnitsDoes ==
    ASSUME TypeInv, NEW w \in Where, RestoreUnits(w)
    PROVE  LET c == cmd[w]
               k == c.rel
           IN  /\ c.step = "units"
               /\ UNCHANGED <<tree, current, backup>> /\ UNCHANGED job
               /\ UNCHANGED <<edited, racing, touched, displaced, floor, before, newest, late,
                              strayed, stale, stranded>>
               /\ IF backup[k].unit = {} THEN UNCHANGED <<unit, running>>
                  ELSE unit' \in backup[k].unit /\ running' = tree
               /\ Went(w, IF c.kind = "apply" THEN "failed" ELSE "ok", {})
               /\ astray' = (astray \/ c.of # jobs)
  <1>1. /\ cmd[w].step = "units"
        /\ Goes(w, IF cmd[w].kind = "apply" THEN "failed" ELSE "ok", {})
    BY DEF RestoreUnits
  <1>2. Went(w, IF cmd[w].kind = "apply" THEN "failed" ELSE "ok", {})
    BY <1>1, GoesMoves DEF Went, Steps
  <1> QED
    BY <1>1, <1>2 DEF RestoreUnits, Marks

LEMMA RecordUnitsDoes ==
    ASSUME TypeInv, NEW w \in Where, RecordUnits(w)
    PROVE  LET c == cmd[w]
               k == c.rel
           IN  /\ c.kind = "sync" /\ c.step = "start"
               /\ UNCHANGED <<tree, unit, running, current>>
               /\ UNCHANGED job /\ UNCHANGED hist
               /\ Went(w, "install", {}) /\ SameBackups(k)
               /\ backup'[k].unit = {unit} /\ backup'[k].dir = backup[k].dir
               /\ backup'[k].old = backup[k].old /\ backup'[k].receipt = backup[k].receipt
  <1> DEFINE k == cmd[w].rel
  <1>1. /\ cmd[w].kind = "sync" /\ cmd[w].step = "start" /\ Goes(w, "install", {})
        /\ backup' = [backup EXCEPT ![k].unit = {unit}]
        /\ UNCHANGED <<tree, unit, running, current>> /\ UNCHANGED job /\ UNCHANGED hist
    BY DEF RecordUnits, At
  <1>2. Went(w, "install", {})
    BY <1>1, GoesMoves DEF Went, Steps
  <1>3. k \in Release /\ backup[k] \in Backups /\ backup \in [Release -> Backups]
    BY CommandFacts DEF TypeInv
  <1>4. [backup[k] EXCEPT !.unit = {unit}] \in Backups
    BY <1>3 DEF Backups, TypeInv
  <1>5. /\ SameBackups(k) /\ backup'[k].unit = {unit} /\ backup'[k].dir = backup[k].dir
        /\ backup'[k].old = backup[k].old /\ backup'[k].receipt = backup[k].receipt
    BY <1>1, <1>3, <1>4 DEF Backups, SameBackups
  <1> QED
    BY <1>1, <1>2, <1>5

LEMMA InstallUnitsDoes ==
    ASSUME TypeInv, NEW w \in Where, InstallUnits(w)
    PROVE  LET c == cmd[w]
           IN  /\ c.kind = "sync" /\ c.step = "install" /\ unit' = c.rel
               /\ UNCHANGED <<tree, running, current, backup>> /\ UNCHANGED job
               /\ UNCHANGED <<edited, racing, touched, displaced, floor, before, newest, late,
                              strayed, stale, stranded>>
               /\ Went(w, "ok", {})
               /\ astray' = (astray \/ c.of # jobs)
  <1>1. cmd[w].kind = "sync" /\ cmd[w].step = "install" /\ Goes(w, "ok", {})
    BY DEF InstallUnits, At
  <1>2. Went(w, "ok", {})
    BY <1>1, GoesMoves DEF Went, Steps
  <1> QED
    BY <1>1, <1>2 DEF InstallUnits, Marks

\* Steps that only move the command: no file, backup or history changes.
Moves(w) == PublishingFails(w) \/ RollbackStarts(w) \/ RollbackFails(w) \/ SyncFails(w)

LEMMA MovesDo ==
    ASSUME TypeInv, NEW w \in Where, Moves(w)
    PROVE  LET c == cmd[w]
               k == c.rel
           IN  /\ UNCHANGED host /\ UNCHANGED job /\ UNCHANGED hist
               /\ \/ /\ c.kind = "apply" /\ c.step = "publish"
                     /\ Went(w, "undo", Entries(c.from, k))
                  \/ /\ c.kind = "rollback" /\ c.step = "start" /\ backup[k].receipt
                     /\ Went(w, "undo", DOMAIN backup[k].old)
                  \/ /\ c.kind = "rollback" /\ c.step = "start" /\ ~backup[k].receipt
                     /\ Went(w, "ok", {})
                  \/ Went(w, "failed", {})
  <1> DEFINE c == cmd[w]
             k == cmd[w].rel
  <1>1. UNCHANGED host /\ UNCHANGED job /\ UNCHANGED hist
    BY DEF Moves, PublishingFails, RollbackStarts, RollbackFails, SyncFails
  <1>2. \/ c.kind = "apply" /\ c.step = "publish" /\ Goes(w, "undo", Entries(c.from, k))
        \/ c.kind = "rollback" /\ c.step = "start" /\ backup[k].receipt
           /\ Goes(w, "undo", DOMAIN backup[k].old)
        \/ c.kind = "rollback" /\ c.step = "start" /\ ~backup[k].receipt /\ Goes(w, "ok", {})
        \/ Goes(w, "failed", {})
    BY DEF Moves, PublishingFails, RollbackStarts, RollbackFails, SyncFails, At
  <1>3. DOMAIN backup[k].old \subseteq File /\ Entries(c.from, k) \subseteq File
    BY BackupFacts, CommandFacts, EntriesAreFiles
  <1>4. \A step \in Steps, todo \in SUBSET File : Goes(w, step, todo) => Went(w, step, todo)
    BY GoesMoves DEF Went
  <1> QED
    BY <1>1, <1>2, <1>3, <1>4 DEF Steps

LEMMA CommandCases ==
    ASSUME NEW w \in Where, Command(w)
    PROVE  \/ ApplyStarts(w) \/ WriteReceipt(w) \/ PreparationFails(w) \/ Moves(w)
           \/ RestoreUnits(w) \/ RecordUnits(w) \/ InstallUnits(w)
           \/ (\E f \in File : Copy(w, f)) \/ (\E f \in File : Publish(w, f))
           \/ \E f \in File : Undo(w, f)
  BY DEF Command, Moves

\* The steps that are not those of a command, but an edit.
Others == Deployer \/ ConnectionLost \/ DeployerDies \/ HostRestarts \/ HostRestartsWriting

LEMMA NextCases ==
    ASSUME [Next]_vars
    PROVE  \/ \E w \in Where : Command(w)
           \/ Others
           \/ \E f \in File : Edit(f)
           \/ UNCHANGED vars
  BY DEF Next, Others

\* What the others leave alone, and which of them changes the rest.
LEMMA OthersKeep ==
    ASSUME TypeInv, Others
    PROVE  /\ UNCHANGED <<tree, unit, backup, touched, displaced, edited, racing, astray>>
           /\ UNCHANGED current \/ TruncateState \/ WriteState
           /\ UNCHANGED <<late, floor, stranded>> \/ WriteState \/ InterruptedLate
           /\ UNCHANGED <<before, newest>> \/ Guard
           /\ UNCHANGED <<base, target, jobs>> \/ \E t \in Release : Begin(t)
           /\ strayed => strayed'
  <1>1. UNCHANGED <<tree, unit, backup, touched, displaced, edited, racing, astray>>
    BY DEF Others, Deployer, Begin, Preflight, Guard, Applied, Synced, Restart, Verified,
       TruncateState, WriteState, Close, CommandFailed, VerificationFails, Interrupted,
       InterruptedLate, RolledBack,
       RolledBackStale, NotRolledBack, StartRollback, End, ConnectionLost, DeployerDies,
       HostRestarts, HostRestartsWriting, host, job, hist
  <1>2. UNCHANGED current \/ TruncateState \/ WriteState
    BY DEF Others, Deployer, Begin, Preflight, Guard, Applied, Synced, Restart, Verified,
       TruncateState, WriteState, Close, CommandFailed, VerificationFails, Interrupted,
       InterruptedLate, RolledBack,
       RolledBackStale, NotRolledBack, StartRollback, End, ConnectionLost, DeployerDies,
       HostRestarts, HostRestartsWriting, host, job, hist
  <1>3. UNCHANGED <<before, newest>> \/ Guard
    BY DEF Others, Deployer, Begin, Preflight, Guard, Applied, Synced, Restart, Verified,
       TruncateState, WriteState, Close, CommandFailed, VerificationFails, Interrupted,
       InterruptedLate, RolledBack,
       RolledBackStale, NotRolledBack, StartRollback, End, ConnectionLost, DeployerDies,
       HostRestarts, HostRestartsWriting, host, job, hist
  <1>4. UNCHANGED <<base, target, jobs>> \/ \E t \in Release : Begin(t)
    BY DEF Others, Deployer, Begin, Preflight, Guard, Applied, Synced, Restart, Verified,
       TruncateState, WriteState, Close, CommandFailed, VerificationFails, Interrupted,
       InterruptedLate, RolledBack,
       RolledBackStale, NotRolledBack, StartRollback, End, ConnectionLost, DeployerDies,
       HostRestarts, HostRestartsWriting, host, job, hist
  <1>5. UNCHANGED <<late, floor, stranded>> \/ WriteState \/ InterruptedLate
    BY DEF Others, Deployer, Begin, Preflight, Guard, Applied, Synced, Restart, Verified,
       TruncateState, WriteState, Close, CommandFailed, VerificationFails, Interrupted,
       InterruptedLate, RolledBack,
       RolledBackStale, NotRolledBack, StartRollback, End, ConnectionLost, DeployerDies,
       HostRestarts, HostRestartsWriting, host, job, hist
  <1>6. strayed => strayed'
    BY DEF Others, Deployer, Begin, Preflight, Guard, Applied, Synced, Restart, Verified,
       TruncateState, WriteState, Close, CommandFailed, VerificationFails, Interrupted,
       InterruptedLate, RolledBack,
       RolledBackStale, NotRolledBack, StartRollback, End, ConnectionLost, DeployerDies,
       HostRestarts, HostRestartsWriting, host, job, hist
  <1> QED
    BY <1>1, <1>2, <1>3, <1>4, <1>5, <1>6

\* Marks of a hotfix are only added.
LEMMA RacedIsMarks ==
    ASSUME racing \in [Release -> SUBSET File], NEW f \in File
    PROVE  /\ Raced(f) \in [Release -> SUBSET File]
           /\ \A k \in Release : racing[k] \subseteq Raced(f)[k]
           /\ \A k \in Release : InUse(k) /\ backup[k].dir => f \in Raced(f)[k]
           /\ \A k \in Release : Raced(f)[k] \subseteq racing[k] \cup {f}
  BY DEF Raced

LEMMA TypeOfOthers ==
    ASSUME TypeInv, CmdInv, Others
    PROVE  TypeInv'
  <1>1. cmd' \in [Where -> Commands]
    BY OthersCommands DEF Others
  <1>2. UNCHANGED <<tree, unit, backup, touched, displaced, edited, racing, astray>>
    BY OthersKeep
  <1>3. running' \in [File -> Content]
    BY DEF TypeInv, Others, Deployer, Begin, Preflight, Guard, Applied, Synced, Restart,
       Verified, TruncateState, WriteState, Close, CommandFailed, VerificationFails, Interrupted,
       InterruptedLate, RolledBack,
       RolledBackStale, NotRolledBack, StartRollback, End, ConnectionLost, DeployerDies,
       HostRestarts, HostRestartsWriting, host, job, hist
  <1>4. /\ current' \in Release \cup {NoRelease} /\ base' \in Release /\ target' \in Release
        /\ newest' \in Release /\ jobs' \in Nat
    <2>1. current' \in Release \cup {NoRelease}
      BY OthersKeep DEF TypeInv, TruncateState, WriteState
    <2>2. newest' \in Release
      BY OthersKeep DEF TypeInv, Guard
    <2>3. ASSUME NEW t \in Release, Begin(t)
          PROVE  base' \in Release /\ target' \in Release /\ jobs' \in Nat
      <3>1. base' = current /\ current # NoRelease /\ target' = t /\ jobs' = jobs + 1
        BY <2>3 DEF Begin
      <3> QED
        BY <3>1 DEF TypeInv
    <2>4. ASSUME UNCHANGED <<base, target, jobs>>
          PROVE  base' \in Release /\ target' \in Release /\ jobs' \in Nat
      BY <2>4 DEF TypeInv
    <2>5. base' \in Release /\ target' \in Release /\ jobs' \in Nat
      BY <2>3, <2>4, OthersKeep DEF TypeInv
    <2> QED
      BY <2>1, <2>2, <2>5
  <1>8. before' \in Befores
    BY OthersKeep DEF TypeInv, Guard, Befores
  <1>9. floor' \in Release /\ stranded' \subseteq File
    BY OthersKeep DEF TypeInv, WriteState, InterruptedLate, Befores
  <1>5. pc' \in {"idle", "preflight", "guard"} \cup Acting
    BY DEF TypeInv, Acting, Others, Deployer, Begin, Preflight, Guard, Applied, Synced, Restart,
       Verified, TruncateState, WriteState, Close, CommandFailed, VerificationFails, Interrupted,
       InterruptedLate, RolledBack,
       RolledBackStale, NotRolledBack, StartRollback, End, ConnectionLost, DeployerDies,
       HostRestarts, HostRestartsWriting, host, job, hist
  <1>6. late' \in BOOLEAN /\ strayed' \in BOOLEAN /\ stale' \in BOOLEAN
    BY DEF TypeInv, Others, Deployer, Begin, Preflight, Guard, Applied, Synced, Restart,
       Verified, TruncateState, WriteState, Close, CommandFailed, VerificationFails, Interrupted,
       InterruptedLate, RolledBack,
       RolledBackStale, NotRolledBack, StartRollback, End, ConnectionLost, DeployerDies,
       HostRestarts, HostRestartsWriting, host, job, hist, Runs
  <1>7. /\ tree' \in [File -> Content] /\ unit' \in Release /\ backup' \in [Release -> Backups]
        /\ touched' \in [Release -> SUBSET File] /\ edited' \subseteq File
        /\ displaced' \in [Release -> [File -> Content]]
        /\ racing' \in [Release -> SUBSET File] /\ astray' \in BOOLEAN
    BY <1>2 DEF TypeInv
  <1> QED
    BY <1>1, <1>3, <1>4, <1>5, <1>6, <1>7, <1>8, <1>9 DEF TypeInv

\* A command's step: what it writes has its type.
LEMMA TypeOfCommands ==
    ASSUME TypeInv, CmdInv, BackupInv, NEW w \in Where, Command(w)
    PROVE  TypeInv'
  <1> DEFINE k == cmd[w].rel
  <1>1. k \in Release
    BY CommandFacts
  <1>2. cmd' \in [Where -> Commands]
    BY GoingOn
  <1>3. /\ UNCHANGED <<current, base, target, newest, pc, jobs, floor, before, late, strayed>>
        /\ astray' \in BOOLEAN
    BY CommandGoes DEF job, TypeInv, Marks
  <1>4. UNCHANGED <<edited, stranded, stale>> /\ racing' \in [Release -> SUBSET File]
    <2>1. UNCHANGED <<edited, stranded, stale>>
      BY DEF Command, ApplyStarts, Copy, WriteReceipt, PreparationFails, Publish,
         PublishingFails, RollbackStarts, Undo, RestoreUnits, RollbackFails, RecordUnits,
         InstallUnits, SyncFails, hist
    <2>2. UNCHANGED racing \/ ApplyStarts(w) \/ \E f \in File : Undo(w, f)
      BY DEF Command, Copy, WriteReceipt, PreparationFails, Publish, PublishingFails,
         RollbackStarts, RestoreUnits, RollbackFails, RecordUnits, InstallUnits, SyncFails, hist
    <2>3. ASSUME NEW f \in File, Undo(w, f) PROVE UNCHANGED racing \/ racing' = Raced(f)
      BY <2>3, UndoDoes
    <2>4. ApplyStarts(w) => UNCHANGED racing \/ racing' = [racing EXCEPT ![k] = {}]
      BY ApplyStartsDoes
    <2>5. racing \in [Release -> SUBSET File]
      BY DEF TypeInv
    <2> QED
      BY <1>1, <2>1, <2>2, <2>3, <2>4, <2>5, RacedIsMarks
  <1>5. /\ tree' \in [File -> Content] /\ touched' \in [Release -> SUBSET File]
        /\ displaced' \in [Release -> [File -> Content]]
    <2>1. ASSUME NEW f \in File, Publish(w, f)
          PROVE  /\ tree' \in [File -> Content] /\ touched' \in [Release -> SUBSET File]
                 /\ displaced' \in [Release -> [File -> Content]]
      <3>1. tree' = [tree EXCEPT ![f] = Version[k][f]] /\ Version[k][f] \in Content
        BY <2>1, <1>1, PublishDoes, VersionIsContent
      <3>2. touched' = [touched EXCEPT ![k] = @ \cup {f}]
        BY <2>1, PublishDoes
      <3> DEFINE x == IF f \in touched[k] THEN displaced[k][f] ELSE tree[f]
      <3>3. displaced' = [displaced EXCEPT ![k][f] = x]
        BY <2>1, PublishDoes
      <3>5. x \in Content
        BY <1>1 DEF TypeInv
      <3> HIDE DEF x
      <3>4. [displaced[k] EXCEPT ![f] = x] \in [File -> Content]
        BY <1>1, <3>5 DEF TypeInv
      <3>6. tree' \in [File -> Content] /\ touched' \in [Release -> SUBSET File]
        BY <1>1, <3>1, <3>2 DEF TypeInv
      <3>7. displaced' \in [Release -> [File -> Content]]
        BY <1>1, <3>3, <3>4 DEF TypeInv
      <3> QED
        BY <3>6, <3>7
    <2>2. ASSUME NEW f \in File, Undo(w, f)
          PROVE  /\ tree' \in [File -> Content] /\ touched' \in [Release -> SUBSET File]
                 /\ displaced' \in [Release -> [File -> Content]]
      <3>1. f \in DOMAIN backup[k].old
        BY <2>2, UndoDoes DEF BackupInv, BackupOf, Suits
      <3> QED
        <4>1. tree' = [tree EXCEPT ![f] = backup[k].old[f]] /\ backup[k].old[f] \in Content
          BY <2>2, <3>1, <1>1, UndoDoes, BackupFacts
        <4>2. touched' = [touched EXCEPT ![k] = @ \ {f}] /\ UNCHANGED displaced
          BY <2>2, UndoDoes
        <4> QED
          BY <1>1, <4>1, <4>2 DEF TypeInv
    <2>3. ASSUME ~\E f \in File : Publish(w, f) \/ Undo(w, f)
          PROVE  UNCHANGED <<tree, touched, displaced>>
      <3>1. \/ ApplyStarts(w) \/ WriteReceipt(w) \/ PreparationFails(w) \/ Moves(w)
            \/ RestoreUnits(w) \/ RecordUnits(w) \/ InstallUnits(w) \/ \E f \in File : Copy(w, f)
        BY <2>3, CommandCases
      <3> QED
        BY <3>1 DEF ApplyStarts, WriteReceipt, PreparationFails, Moves, PublishingFails,
           RollbackStarts, RollbackFails, SyncFails, RestoreUnits, RecordUnits, InstallUnits,
           Copy, hist, host
    <2> QED
      BY <2>1, <2>2, <2>3 DEF TypeInv
  <1>6. unit' \in Release /\ running' \in [File -> Content]
    <2>1. CASE RestoreUnits(w)
      <3>1. backup[k].unit \subseteq Release
        BY <1>1, BackupFacts
      <3> QED
        BY <2>1, <3>1, RestoreUnitsDoes DEF TypeInv
    <2>2. CASE InstallUnits(w)
      BY <2>2, <1>1, InstallUnitsDoes DEF TypeInv
    <2>3. CASE ~(RestoreUnits(w) \/ InstallUnits(w))
      <3>1. UNCHANGED <<unit, running>>
        BY <2>3, CommandCases DEF ApplyStarts, WriteReceipt, PreparationFails, Moves,
           PublishingFails, RollbackStarts, RollbackFails, SyncFails, RecordUnits, Copy,
           Publish, Undo, host
      <3> QED
        BY <3>1 DEF TypeInv
    <2> QED
      BY <2>1, <2>2, <2>3
  <1>7. backup' \in [Release -> Backups]
    <2>1. CASE ApplyStarts(w) \/ WriteReceipt(w) \/ PreparationFails(w) \/ RecordUnits(w)
      BY <2>1, ApplyStartsDoes, WriteReceiptDoes, PreparationFailsDoes, RecordUnitsDoes
         DEF SameBackups, TypeInv
    <2>2. ASSUME NEW f \in File, Copy(w, f) PROVE backup' \in [Release -> Backups]
      BY <2>2, CopyDoes DEF SameBackups
    <2>3. CASE UNCHANGED backup
      BY <2>3 DEF TypeInv
    <2>4. Moves(w) \/ RestoreUnits(w) \/ InstallUnits(w)
            \/ (\E f \in File : Publish(w, f) \/ Undo(w, f)) => UNCHANGED backup
      BY DEF Moves, PublishingFails, RollbackStarts, RollbackFails, SyncFails,
         RestoreUnits, InstallUnits, Publish, Undo, host
    <2> QED
      BY <2>1, <2>2, <2>3, <2>4, CommandCases
  <1> QED
    BY <1>2, <1>3, <1>4, <1>5, <1>6, <1>7 DEF TypeInv

LEMMA TypeOfEdits ==
    ASSUME TypeInv, NEW f \in File, Edit(f)
    PROVE  TypeInv'
  <1>1. Edited \in Content
    BY DEF Content
  <1>2. racing' \in [Release -> SUBSET File]
    BY RacedIsMarks DEF TypeInv, Edit
  <1> QED
    BY <1>1, <1>2 DEF TypeInv, Edit, job

LEMMA TypeStep ==
    ASSUME TypeInv, CmdInv, BackupInv, [Next]_vars
    PROVE  TypeInv'
  <1>1. UNCHANGED vars => TypeInv'
    BY DEF TypeInv, vars, host, job, hist
  <1> QED
    BY <1>1, NextCases, TypeOfOthers, TypeOfCommands, TypeOfEdits

(***************************************************************************)
(* The commands.                                                           *)
(***************************************************************************)

\* What a step of a command leaves alone, whichever it is.
LEMMA CommandsKeep ==
    ASSUME TypeInv, CmdInv, NEW w \in Where, Command(w)
    PROVE  /\ UNCHANGED <<pc, base, target, report, jobs, late, strayed, current, newest,
                           floor, before>>
           /\ UNCHANGED <<edited, stranded, stale>>
           /\ astray => astray'
           /\ cmd[w].kind # "none"
           /\ \A v \in Where \ {w} : cmd'[v] = cmd[v]
           /\ \/ w = "stray" /\ cmd'[w] = Nobody
              \/ /\ cmd'[w].kind = cmd[w].kind /\ cmd'[w].rel = cmd[w].rel
                 /\ cmd'[w].from = cmd[w].from /\ cmd'[w].of = cmd[w].of
                 /\ cmd'[w].step \in StepsOf(cmd[w].kind)
  <1>1. /\ UNCHANGED <<pc, base, target, report, jobs, late, strayed, current, newest,
                           floor, before>>
        /\ cmd[w].kind # "none"
    BY CommandGoes DEF job
  <1>2. UNCHANGED <<edited, stranded, stale>>
    BY DEF Command, ApplyStarts, Copy, WriteReceipt, PreparationFails, Publish,
       PublishingFails, RollbackStarts, Undo, RestoreUnits, RollbackFails, RecordUnits,
       InstallUnits, SyncFails, hist
  <1>3. astray => astray'
    BY CommandGoes DEF Marks
  <1>4. /\ \A v \in Where \ {w} : cmd'[v] = cmd[v]
        /\ \/ w = "stray" /\ cmd'[w] = Nobody
           \/ \E step \in StepsOf(cmd[w].kind), todo \in SUBSET File :
                 Moved(cmd[w], cmd'[w], step, todo)
    BY GoingOn
  <1> QED
    BY <1>1, <1>2, <1>3, <1>4 DEF Moved

\* What awaits a command, and the marks, when the deployer goes on.
LEMMA PlacesOfOthers ==
    ASSUME TypeInv, CmdInv, Others
    PROVE  /\ cmd'["awaited"].kind = IF pc' \in Remote THEN pc' ELSE "none"
           /\ pc' \in Remote => cmd'["awaited"].of = jobs'
  <1>0. cmd["awaited"] \in Commands /\ "awaited" \in Where /\ "stray" \in Where
    BY DEF TypeInv, Where
  <1>1. cmd["awaited"].kind = IF pc \in Remote THEN pc ELSE "none"
    BY DEF CmdInv
  <1>2. pc \in Remote => cmd["awaited"].of = jobs
    BY DEF CmdInv
  <1>3. \A kind \in Kinds : Run(kind) => cmd'["awaited"] = Started(kind)
    BY RunStarts
  <1>4. Clears => cmd'["awaited"] = Nobody
    BY ClearsClear
  <1>5. Nobody.kind = "none" /\ \A kind : Started(kind).kind = kind /\ Started(kind).of = jobs
    BY DEF Nobody, Started
  <1>6. CASE \/ Guard \/ Applied \/ CommandFailed \/ VerificationFails \/ Interrupted
             \/ InterruptedLate
    <2>1. ASSUME NEW kind \in Remote, Run(kind), pc' = kind, UNCHANGED jobs
          PROVE  /\ cmd'["awaited"].kind = IF pc' \in Remote THEN pc' ELSE "none"
                 /\ pc' \in Remote => cmd'["awaited"].of = jobs'
      BY <1>3, <1>5, <2>1 DEF Kinds, Remote
    <2>2. (\E kind \in Remote : Run(kind) /\ pc' = kind /\ UNCHANGED jobs)
            \/ (Clears /\ pc' = "idle" /\ UNCHANGED jobs)
      BY <1>6 DEF Guard, Applied, CommandFailed, VerificationFails, Interrupted,
         InterruptedLate, StartRollback,
         Remote, End, Clears
    <2> QED
      BY <1>4, <1>5, <2>1, <2>2 DEF Remote
  <1>7. CASE Preflight \/ Synced \/ Close \/ RolledBack \/ RolledBackStale \/ NotRolledBack
    <2>1. (Clears \/ (UNCHANGED cmd /\ pc = "preflight")) /\ pc' \in {"idle", "guard", "restart"}
      BY <1>7 DEF Preflight, Synced, Close, RolledBack, RolledBackStale, NotRolledBack, End, Clears
    <2> QED
      BY <1>1, <1>4, <1>5, <2>1 DEF Remote
  <1>8. CASE (\E t \in Release : Begin(t)) \/ Restart \/ Verified \/ TruncateState \/ WriteState
    <2>1. /\ pc \notin Remote /\ pc' \notin Remote /\ UNCHANGED cmd
      BY <1>8 DEF Begin, Restart, Verified, TruncateState, WriteState, Remote
    <2> QED
      BY <1>1, <2>1
  <1>9. CASE ConnectionLost
    <2>1. cmd'["awaited"] = Started("rollback") /\ pc' = "rollback" /\ UNCHANGED jobs
      BY <1>9 DEF ConnectionLost
    <2> QED
      BY <1>5, <2>1 DEF Remote
  <1>10. CASE DeployerDies
    <2>1. cmd'["awaited"] = Nobody /\ pc' = "idle"
      BY <1>10 DEF DeployerDies
    <2> QED
      BY <1>5, <2>1 DEF Remote
  <1>11. CASE HostRestarts
    <2>1. /\ UNCHANGED <<pc, jobs>>
          /\ cmd'["awaited"] = Failing(cmd["awaited"]) \/ cmd'["awaited"] = cmd["awaited"]
      BY <1>11 DEF HostRestarts, Failing, job
    <2>2. /\ Failing(cmd["awaited"]).kind = cmd["awaited"].kind
          /\ Failing(cmd["awaited"]).of = cmd["awaited"].of
      BY <1>0 DEF Failing, Commands
    <2> QED
      BY <1>1, <1>2, <2>1, <2>2
  <1>12. CASE HostRestartsWriting
    <2>1. /\ cmd'["awaited"] = Started("rollback") /\ pc' = "rollback" /\ UNCHANGED jobs
      BY <1>12 DEF HostRestartsWriting
    <2> QED
      BY <1>5, <2>1 DEF Remote
  <1> QED
    BY <1>6, <1>7, <1>8, <1>9, <1>10, <1>11, <1>12 DEF Others, Deployer

LEMMA CmdOfCommands ==
    ASSUME TypeInv, CmdInv, NEW w \in Where, Command(w)
    PROVE  CmdInv'
  <1>1. Nobody.kind = "none" /\ Nobody.step = "none" /\ Nobody.of = 0
        /\ "none" \in StepsOf("none")
    BY DEF Nobody, StepsOf
  <1>2. jobs \in Nat
    BY DEF TypeInv
  <1>3. \A v \in Where :
           /\ cmd'[v].step \in StepsOf(cmd'[v].kind)
           /\ cmd'[v].kind = "none" => cmd'[v] = Nobody
           /\ cmd'[v].of <= jobs
           /\ (cmd'[v].kind # "none" /\ cmd'[v].of = jobs)
                => cmd'[v].rel = target /\ cmd'[v].from = base
    BY <1>1, <1>2, CommandsKeep DEF CmdInv, Mine
  <1>4. /\ cmd'["awaited"].kind = IF pc \in Remote THEN pc ELSE "none"
        /\ pc \in Remote => cmd'["awaited"].of = jobs
        /\ (cmd'["stray"].kind # "none" /\ cmd'["stray"].of = jobs) => pc \in {"rollback", "idle"}
    BY <1>1, <1>2, CommandsKeep DEF CmdInv, Mine, Where
  <1>5. ~strayed => cmd'["stray"].kind = "none" /\ ~astray'
    <2> SUFFICES ASSUME ~strayed PROVE cmd'["stray"].kind = "none" /\ ~astray'
      OBVIOUS
    <2>1. cmd["stray"].kind = "none" /\ ~astray
      BY DEF CmdInv
    <2>2. w = "awaited"
      BY <2>1, CommandsKeep DEF Where
    <2>3. pc \in Remote /\ cmd[w].of = jobs
      BY <2>2, CommandsKeep DEF CmdInv
    <2>4. astray' = astray \/ Marks(w)
      BY CommandGoes
    <2>5. ~astray'
      BY <2>1, <2>3, <2>4 DEF Marks, TypeInv
    <2>6. cmd'["stray"] = cmd["stray"]
      BY <2>2, CommandsKeep DEF Where
    <2> QED
      BY <2>1, <2>5, <2>6
  <1> QED
    BY <1>3, <1>4, <1>5, CommandsKeep DEF CmdInv, Mine

LEMMA CmdOfOthers ==
    ASSUME TypeInv, CmdInv, Others
    PROVE  CmdInv'
  <1>0. /\ "awaited" \in Where /\ "stray" \in Where /\ jobs \in Nat
        /\ \A v \in Where : cmd[v] \in Commands /\ cmd[v].of <= jobs
        /\ jobs' \in Nat /\ (jobs' = jobs \/ jobs' = jobs + 1)
    BY OthersKeep DEF TypeInv, CmdInv, Where, Begin
  <1>1. Nobody.kind = "none" /\ Nobody.step = "none" /\ Nobody.of = 0
        /\ StepsOf("none") = {"none"}
    BY DEF Nobody, StepsOf
  <1>2. \/ cmd'["awaited"] = cmd["awaited"] \/ Fresh(cmd'["awaited"])
        \/ cmd'["awaited"] = Failing(cmd["awaited"]) /\ Runs("awaited") /\ HostRestarts
    BY OthersCommands DEF Others
  <1>3. \/ cmd'["stray"] = cmd["stray"] \/ cmd'["stray"] = Nobody
        \/ cmd'["stray"] = cmd["awaited"] /\ Runs("awaited") /\ pc \in Acting
           /\ pc' \in {"rollback", "idle"} /\ strayed' /\ UNCHANGED <<jobs, base, target>>
    BY OthersCommands DEF Others
  <1>4. ASSUME NEW v \in Where, cmd'[v] = cmd[v]
        PROVE  /\ cmd'[v].step \in StepsOf(cmd'[v].kind)
               /\ cmd'[v].kind = "none" => cmd'[v] = Nobody
               /\ cmd'[v].of <= jobs'
               /\ (cmd'[v].kind # "none" /\ cmd'[v].of = jobs')
                    => cmd'[v].rel = target' /\ cmd'[v].from = base'
    <2>1. UNCHANGED <<base, target, jobs>> \/ jobs' = jobs + 1
      BY OthersKeep DEF Begin
    <2>2. cmd[v].of \in Nat
      BY <1>0 DEF Commands
    <2> QED
      BY <1>0, <1>4, <2>1, <2>2 DEF CmdInv, Mine
  <1>5. ASSUME NEW v \in Where, cmd'[v] = Nobody
        PROVE  /\ cmd'[v].step \in StepsOf(cmd'[v].kind)
               /\ cmd'[v].kind = "none" => cmd'[v] = Nobody
               /\ cmd'[v].of <= jobs'
               /\ (cmd'[v].kind # "none" /\ cmd'[v].of = jobs')
                    => cmd'[v].rel = target' /\ cmd'[v].from = base'
    BY <1>0, <1>1, <1>5
  <1>6. ASSUME NEW v \in Where, NEW kind \in Remote, cmd'[v] = Started(kind), UNCHANGED job
                  \/ UNCHANGED <<base, target, jobs>>
        PROVE  /\ cmd'[v].step \in StepsOf(cmd'[v].kind)
               /\ cmd'[v].kind = "none" => cmd'[v] = Nobody
               /\ cmd'[v].of <= jobs'
               /\ (cmd'[v].kind # "none" /\ cmd'[v].of = jobs')
                    => cmd'[v].rel = target' /\ cmd'[v].from = base'
    BY <1>0, <1>6 DEF Started, Remote, StepsOf, job
  <1>7. ASSUME NEW v \in Where, cmd'[v] = Failing(cmd["awaited"]), Runs("awaited"),
               UNCHANGED <<base, target, jobs>>
        PROVE  /\ cmd'[v].step \in StepsOf(cmd'[v].kind)
               /\ cmd'[v].kind = "none" => cmd'[v] = Nobody
               /\ cmd'[v].of <= jobs'
               /\ (cmd'[v].kind # "none" /\ cmd'[v].of = jobs')
                    => cmd'[v].rel = target' /\ cmd'[v].from = base'
    <2> DEFINE c == cmd["awaited"]
    <2>1. /\ Failing(c).kind = c.kind /\ Failing(c).of = c.of /\ Failing(c).rel = c.rel
          /\ Failing(c).from = c.from /\ Failing(c).step = "failed"
      BY <1>0 DEF Failing, Commands
    <2>2. c.kind \in Remote /\ "failed" \in StepsOf(c.kind)
      <3>1. c.step \in StepsOf(c.kind) /\ c.step # "none" /\ c.kind \in Kinds
        BY <1>0, <1>7 DEF CmdInv, Runs, Commands
      <3> QED
        BY <3>1 DEF StepsOf, Kinds, Remote
    <2>3. Mine("awaited") => c.rel = target /\ c.from = base
      BY <1>0 DEF CmdInv
    <2> QED
      BY <1>0, <1>7, <2>1, <2>2, <2>3 DEF Mine, Remote
  <1>8. ASSUME NEW v \in Where, cmd'[v] = cmd["awaited"], UNCHANGED <<base, target, jobs>>
        PROVE  /\ cmd'[v].step \in StepsOf(cmd'[v].kind)
               /\ cmd'[v].kind = "none" => cmd'[v] = Nobody
               /\ cmd'[v].of <= jobs'
               /\ (cmd'[v].kind # "none" /\ cmd'[v].of = jobs')
                    => cmd'[v].rel = target' /\ cmd'[v].from = base'
    BY <1>0, <1>8 DEF CmdInv, Mine
  <1>9. Fresh(cmd'["awaited"]) /\ cmd'["awaited"] # Nobody => UNCHANGED <<base, target, jobs>>
                                                               \/ cmd'["awaited"] = cmd["awaited"]
    <2>1. (\E t \in Release : Begin(t)) => UNCHANGED cmd
      BY DEF Begin
    <2> QED
      BY <2>1, OthersKeep
  <1>10. HostRestarts => UNCHANGED <<base, target, jobs>>
    BY DEF HostRestarts, job
  <1>11. \A v \in Where :
            /\ cmd'[v].step \in StepsOf(cmd'[v].kind)
            /\ cmd'[v].kind = "none" => cmd'[v] = Nobody
            /\ cmd'[v].of <= jobs'
            /\ (cmd'[v].kind # "none" /\ cmd'[v].of = jobs')
                 => cmd'[v].rel = target' /\ cmd'[v].from = base'
    <2> SUFFICES ASSUME NEW v \in Where
                 PROVE  /\ cmd'[v].step \in StepsOf(cmd'[v].kind)
                        /\ cmd'[v].kind = "none" => cmd'[v] = Nobody
                        /\ cmd'[v].of <= jobs'
                        /\ (cmd'[v].kind # "none" /\ cmd'[v].of = jobs')
                             => cmd'[v].rel = target' /\ cmd'[v].from = base'
      OBVIOUS
    <2>1. CASE v = "awaited"
      BY <2>1, <1>2, <1>4, <1>5, <1>6, <1>7, <1>9, <1>10 DEF Fresh
    <2>2. CASE v = "stray"
      BY <2>2, <1>3, <1>4, <1>5, <1>8
    <2> QED
      BY <2>1, <2>2 DEF Where
  <1>12. (cmd'["stray"].kind # "none" /\ cmd'["stray"].of = jobs') => pc' \in {"rollback", "idle"}
    <2>1. CASE cmd'["stray"] = cmd["stray"]
      <3>1. \/ jobs' = jobs + 1
            \/ UNCHANGED jobs /\ (pc \in {"rollback", "idle"} => pc' \in {"rollback", "idle"})
        BY DEF Others, Deployer, Begin, Preflight, Guard, Applied, Synced, Restart, Verified,
           TruncateState, WriteState, Close, CommandFailed, VerificationFails, Interrupted,
           InterruptedLate, RolledBack,
           RolledBackStale, NotRolledBack, StartRollback, End, ConnectionLost, DeployerDies,
           HostRestarts, HostRestartsWriting, job
      <3>2. cmd["stray"].of \in Nat
        BY <1>0 DEF Commands
      <3> QED
        BY <1>0, <2>1, <3>1, <3>2 DEF CmdInv, Mine
    <2> QED
      BY <1>1, <1>3, <2>1
  <1>13. ~strayed' => cmd'["stray"].kind = "none" /\ ~astray'
    BY <1>1, <1>3, OthersKeep DEF CmdInv, TypeInv
  <1> QED
    BY <1>11, <1>12, <1>13, PlacesOfOthers DEF CmdInv, Mine

LEMMA CmdStep ==
    ASSUME TypeInv, CmdInv, [Next]_vars
    PROVE  CmdInv'
  <1>1. UNCHANGED vars \/ (\E f \in File : Edit(f)) => CmdInv'
    BY DEF CmdInv, Mine, vars, host, job, hist, Edit
  <1> QED
    BY <1>1, NextCases, CmdOfCommands, CmdOfOthers

(***************************************************************************)
(* The backups.                                                            *)
(***************************************************************************)

\* A backup holds what the others may rely on.
Sane(k) ==
    /\ backup[k].receipt => backup[k].dir
    /\ ~backup[k].dir => DOMAIN backup[k].old = {}
    /\ ~backup[k].receipt => touched[k] = {} /\ backup[k].unit = {}
    /\ touched[k] \subseteq DOMAIN backup[k].old

\* Two commands never copy into one backup.
Apart == \A v, w \in Where : cmd[v].step = "copy" /\ cmd[w].step = "copy"
            /\ cmd[v].rel = cmd[w].rel => v = w

\* A command of another kind of step does not look at a backup.
LEMMA SuitsIdle ==
    \A b, c : /\ c.step \in {"none", "start", "ok", "failed"} /\ c.kind # "sync"
              /\ c.kind = "apply" => c.step # "ok"
              => Suits(b, c)
  BY DEF Suits

\* A command that is not copying relies on nothing in a backup without a receipt.
LEMMA SuitsUnwritten ==
    \A b, d, c : /\ Suits(b, c) /\ ~b.receipt /\ c.step # "copy"
                 /\ c.step \in StepsOf(c.kind) /\ c.kind \in Kinds
                 => Suits(d, c)
  BY DEF Suits, StepsOf, Kinds

LEMMA BackupOfCommands ==
    ASSUME TypeInv, CmdInv, BackupInv, NEW w \in Where, Command(w)
    PROVE  BackupInv'
  <1> DEFINE k == cmd[w].rel
             c == cmd[w]
  <1>0. /\ k \in Release /\ \A j \in Release : Sane(j)
        /\ \A v \in Where : BackupOf(v) /\ cmd[v].rel \in Release
        /\ \A v \in Where : cmd[v].step \in StepsOf(cmd[v].kind) /\ cmd[v].kind \in Kinds
    BY CommandFacts DEF BackupInv, Sane, CmdInv
  <1>1. Apart
    BY DEF BackupInv, Apart
  <1>2. \A v \in Where \ {w} : cmd'[v] = cmd[v]
    BY CommandsKeep
  <1>3. ASSUME \A j \in Release : Sane(j)', \A v \in Where : BackupOf(v)', Apart'
        PROVE  BackupInv'
    BY <1>3 DEF BackupInv, Sane, Apart
  <1>4. Nobody.kind = "none" /\ Nobody.step = "none"
    BY DEF Nobody
  <1>5. cmd'[w].step # "copy" => Apart'
    BY <1>1, <1>2 DEF Apart
  <1>6. ASSUME UNCHANGED backup
        PROVE  \A v \in Where \ {w} : BackupOf(v)'
    BY <1>0, <1>2, <1>6 DEF BackupOf
  <1>7. ASSUME SameBackups(k), UNCHANGED touched
        PROVE  /\ \A j \in Release \ {k} : Sane(j)'
               /\ \A v \in Where \ {w} : cmd[v].rel # k => BackupOf(v)'
    <2>1. \A j \in Release \ {k} : Sane(j)'
      BY <1>0, <1>7 DEF SameBackups, Sane
    <2>2. \A v \in Where \ {w} : cmd[v].rel # k => BackupOf(v)'
      BY <1>0, <1>2, <1>7 DEF SameBackups, BackupOf
    <2> QED
      BY <2>1, <2>2
  <1>8. /\ c.step = "copy" => ~backup[k].receipt /\ backup[k].dir
        /\ c.step = "copy" => c.todo \subseteq Entries(c.from, k)
        /\ c.step = "copy" => DOMAIN backup[k].old = Entries(c.from, k) \ c.todo
        /\ c.kind = "apply" /\ c.step \in {"publish", "undo", "units", "ok"} =>
              backup[k].receipt /\ DOMAIN backup[k].old = Entries(c.from, k)
        /\ c.step \in {"publish", "undo"} => c.todo \subseteq DOMAIN backup[k].old
        /\ c.step \in {"undo", "units"} \/ c.kind = "sync" => backup[k].receipt
    BY <1>0 DEF BackupOf, Suits
  <1>9. ASSUME c.step = "copy"
        PROVE  \A v \in Where \ {w} : cmd[v].rel = k => cmd[v].step # "copy"
    BY <1>1, <1>9 DEF Apart
  <1>10. CASE ApplyStarts(w)
    <2>1. /\ c.kind = "apply" /\ UNCHANGED touched
          /\ \/ /\ ~backup[k].dir
                /\ Went(w, "copy", Entries(c.from, k)) /\ SameBackups(k)
                /\ backup'[k].dir /\ backup'[k].old = backup[k].old
                /\ backup'[k].receipt = backup[k].receipt
                /\ backup'[k].unit = backup[k].unit
             \/ UNCHANGED backup /\ Went(w, "failed", {})
      BY <1>10, ApplyStartsDoes DEF hist
    <2>2. CASE UNCHANGED backup /\ Went(w, "failed", {})
      <3>1. cmd'[w] = Nobody \/ (cmd'[w].kind = "apply" /\ cmd'[w].step = "failed")
        BY <2>1, <2>2 DEF Went, Moved
      <3>2. BackupOf(w)' /\ cmd'[w].step # "copy"
        BY <3>1, <1>4, SuitsIdle DEF BackupOf
      <3>3. \A j \in Release : Sane(j)'
        BY <1>0, <2>1, <2>2 DEF Sane
      <3> QED
        BY <1>3, <1>5, <1>6, <2>2, <3>2, <3>3
    <2>3. CASE ~UNCHANGED backup
      <3>1. /\ ~backup[k].dir /\ Went(w, "copy", Entries(c.from, k)) /\ SameBackups(k)
            /\ backup'[k].dir /\ backup'[k].old = backup[k].old
            /\ backup'[k].receipt = backup[k].receipt /\ backup'[k].unit = backup[k].unit
        BY <2>1, <2>3
      <3>2. ~backup[k].receipt /\ DOMAIN backup[k].old = {}
        BY <1>0, <3>1 DEF Sane
      <3>3. \A j \in Release : Sane(j)'
        BY <1>0, <1>7, <2>1, <3>1, <3>2 DEF Sane
      <3>4. \A v \in Where \ {w} : cmd[v].rel = k => cmd[v].step # "copy"
        BY <1>0, <3>1 DEF BackupOf, Suits
      <3>5. \A v \in Where \ {w} : BackupOf(v)'
        <4> SUFFICES ASSUME NEW v \in Where \ {w} PROVE BackupOf(v)'
          OBVIOUS
        <4> QED
          BY <1>0, <1>2, <1>7, <2>1, <3>1, <3>2, <3>4, SuitsUnwritten DEF BackupOf
      <3>6. /\ cmd'[w].kind = "apply" /\ cmd'[w].step = "copy" /\ cmd'[w].rel = k
            /\ cmd'[w].from = c.from /\ cmd'[w].todo = Entries(c.from, k)
        BY <2>1, <3>1 DEF Went, Moved
      <3>7. BackupOf(w)'
        BY <3>1, <3>2, <3>6 DEF BackupOf, Suits, Entries
      <3>8. Apart'
        BY <1>1, <1>2, <3>4, <3>6 DEF Apart
      <3> QED
        BY <1>3, <3>3, <3>5, <3>7, <3>8
    <2> QED
      BY <2>1, <2>2, <2>3
  <1>11. ASSUME NEW f \in File, Copy(w, f) PROVE BackupInv'
    <2>1. /\ c.kind = "apply" /\ c.step = "copy" /\ f \in c.todo /\ UNCHANGED touched
          /\ Went(w, "copy", c.todo \ {f}) /\ SameBackups(k)
          /\ backup'[k].dir = backup[k].dir /\ backup'[k].receipt = backup[k].receipt
          /\ backup'[k].unit = backup[k].unit
          /\ DOMAIN backup'[k].old = DOMAIN backup[k].old \cup {f}
      BY <1>11, CopyDoes DEF hist
    <2>2. \A j \in Release : Sane(j)'
      BY <1>0, <1>7, <1>8, <2>1 DEF Sane
    <2>3. \A v \in Where \ {w} : BackupOf(v)'
      <3> SUFFICES ASSUME NEW v \in Where \ {w} PROVE BackupOf(v)'
        OBVIOUS
      <3> QED
        BY <1>0, <1>2, <1>7, <1>8, <1>9, <2>1, SuitsUnwritten DEF BackupOf
    <2>4. /\ cmd'[w].kind = "apply" /\ cmd'[w].step = "copy" /\ cmd'[w].rel = k
          /\ cmd'[w].from = c.from /\ cmd'[w].todo = c.todo \ {f}
      BY <2>1 DEF Went, Moved
    <2>5. BackupOf(w)'
      <3>1. /\ c.todo \subseteq Entries(c.from, k)
            /\ DOMAIN backup[k].old = Entries(c.from, k) \ c.todo
            /\ backup[k].dir /\ ~backup[k].receipt
        BY <1>8, <2>1
      <3>2. /\ cmd'[w].todo \subseteq Entries(c.from, k)
            /\ DOMAIN backup'[k].old = Entries(c.from, k) \ cmd'[w].todo
            /\ backup'[k].dir /\ ~backup'[k].receipt
        BY <2>1, <2>4, <3>1
      <3>3. /\ cmd'[w].todo \subseteq Entries(cmd'[w].from, cmd'[w].rel)
            /\ DOMAIN backup'[k].old = Entries(cmd'[w].from, cmd'[w].rel) \ cmd'[w].todo
        BY <2>4, <3>2
      <3> QED
        BY <2>4, <3>2, <3>3 DEF BackupOf, Suits, Entries
    <2>6. Apart'
      BY <1>1, <1>2, <1>9, <2>1, <2>4 DEF Apart
    <2> QED
      BY <1>3, <2>2, <2>3, <2>5, <2>6
  <1>12. CASE WriteReceipt(w)
    <2>1. /\ c.kind = "apply" /\ c.step = "copy" /\ c.todo = {} /\ UNCHANGED touched
          /\ Went(w, "publish", Entries(c.from, k)) /\ SameBackups(k)
          /\ backup'[k].receipt /\ backup'[k].dir = backup[k].dir
          /\ backup'[k].old = backup[k].old /\ backup'[k].unit = backup[k].unit
      BY <1>12, WriteReceiptDoes DEF hist
    <2>2. \A j \in Release : Sane(j)'
      BY <1>0, <1>7, <1>8, <2>1 DEF Sane
    <2>3. \A v \in Where \ {w} : BackupOf(v)'
      <3> SUFFICES ASSUME NEW v \in Where \ {w} PROVE BackupOf(v)'
        OBVIOUS
      <3> QED
        BY <1>0, <1>2, <1>7, <1>8, <1>9, <2>1, SuitsUnwritten DEF BackupOf
    <2>4. /\ cmd'[w].kind = "apply" /\ cmd'[w].step = "publish" /\ cmd'[w].rel = k
          /\ cmd'[w].from = c.from /\ cmd'[w].todo = Entries(c.from, k)
      BY <2>1 DEF Went, Moved
    <2>5. BackupOf(w)'
      <3>1. DOMAIN backup'[k].old = Entries(c.from, k)
        BY <1>8, <2>1
      <3>2. DOMAIN backup'[k].old = Entries(cmd'[w].from, cmd'[w].rel)
        BY <2>4, <3>1
      <3>3. cmd'[w].todo = DOMAIN backup'[k].old
        BY <2>4, <3>1
      <3> QED
        BY <2>1, <2>4, <3>2, <3>3 DEF BackupOf, Suits, Entries
    <2>6. \A v \in Where : BackupOf(v)'
      BY <2>3, <2>5
    <2>7. Apart'
      BY <1>5, <2>4
    <2> QED
      BY <1>3, <2>2, <2>6, <2>7
  <1>13. CASE PreparationFails(w)
    <2>1. /\ c.kind = "apply" /\ c.step = "copy" /\ UNCHANGED touched
          /\ Went(w, "failed", {}) /\ SameBackups(k)
          /\ ~backup'[k].dir /\ ~backup'[k].receipt
          /\ DOMAIN backup'[k].old = {} /\ backup'[k].unit = {}
      BY <1>13, PreparationFailsDoes DEF hist
    <2>2. \A j \in Release : Sane(j)'
      BY <1>0, <1>7, <1>8, <2>1 DEF Sane
    <2>3. \A v \in Where \ {w} : BackupOf(v)'
      <3> SUFFICES ASSUME NEW v \in Where \ {w} PROVE BackupOf(v)'
        OBVIOUS
      <3> QED
        BY <1>0, <1>2, <1>7, <1>8, <1>9, <2>1, SuitsUnwritten DEF BackupOf
    <2>4. cmd'[w] = Nobody \/ (cmd'[w].kind = "apply" /\ cmd'[w].step = "failed")
      BY <2>1 DEF Went, Moved
    <2>5. BackupOf(w)' /\ cmd'[w].step # "copy"
      BY <2>4, <1>4, SuitsIdle DEF BackupOf
    <2> QED
      BY <1>3, <1>5, <2>2, <2>3, <2>5
  <1>14. ASSUME NEW f \in File, Publish(w, f) PROVE BackupInv'
    <2>1. /\ c.kind = "apply" /\ c.step = "publish" /\ f \in c.todo /\ UNCHANGED backup
          /\ touched' = [touched EXCEPT ![k] = @ \cup {f}]
          /\ Went(w, IF c.todo = {f} THEN "ok" ELSE "publish", c.todo \ {f})
      BY <1>14, PublishDoes
    <2>2. \A j \in Release : Sane(j)'
      BY <1>0, <1>8, <2>1 DEF Sane, TypeInv
    <2>3. \/ cmd'[w] = Nobody
          \/ /\ cmd'[w].kind = "apply" /\ cmd'[w].step \in {"ok", "publish"}
             /\ cmd'[w].rel = k /\ cmd'[w].from = c.from /\ cmd'[w].todo = c.todo \ {f}
      BY <2>1 DEF Went, Moved
    <2>4. BackupOf(w)' /\ cmd'[w].step # "copy"
      BY <1>4, <1>8, <2>1, <2>3 DEF BackupOf, Suits, Entries
    <2> QED
      BY <1>3, <1>5, <1>6, <2>1, <2>2, <2>4
  <1>15. ASSUME NEW f \in File, Undo(w, f) PROVE BackupInv'
    <2>1. /\ c.step = "undo" /\ f \in c.todo /\ UNCHANGED backup
          /\ touched' = [touched EXCEPT ![k] = @ \ {f}]
          /\ Went(w, IF c.todo = {f} THEN "units" ELSE "undo", c.todo \ {f})
      BY <1>15, UndoDoes
    <2>2. \A j \in Release : Sane(j)'
      BY <1>0, <1>8, <2>1 DEF Sane, TypeInv
    <2>3. /\ cmd'[w].kind = c.kind /\ cmd'[w].step \in {"undo", "units"}
          /\ cmd'[w].rel = k /\ cmd'[w].from = c.from /\ cmd'[w].todo = c.todo \ {f}
      BY <2>1 DEF Went, Moved
    <2>4. BackupOf(w)' /\ cmd'[w].step # "copy"
      BY <1>8, <2>1, <2>3 DEF BackupOf, Suits, Entries
    <2> QED
      BY <1>3, <1>5, <1>6, <2>1, <2>2, <2>4
  <1>16. CASE RestoreUnits(w)
    <2>1. /\ c.step = "units" /\ UNCHANGED backup /\ UNCHANGED touched
          /\ Went(w, IF c.kind = "apply" THEN "failed" ELSE "ok", {})
      BY <1>16, RestoreUnitsDoes
    <2>2. \A j \in Release : Sane(j)'
      BY <1>0, <2>1 DEF Sane
    <2>3. c.kind # "sync"
      BY <2>1 DEF CmdInv, StepsOf
    <2>4. \/ cmd'[w] = Nobody
          \/ /\ cmd'[w].kind = c.kind
             /\ cmd'[w].step = IF c.kind = "apply" THEN "failed" ELSE "ok"
      BY <2>1 DEF Went, Moved
    <2>5. BackupOf(w)' /\ cmd'[w].step # "copy"
      BY <1>4, <2>3, <2>4, SuitsIdle DEF BackupOf
    <2> QED
      BY <1>3, <1>5, <1>6, <2>1, <2>2, <2>5
  <1>17. CASE RecordUnits(w)
    <2>1. /\ c.kind = "sync" /\ c.step = "start" /\ UNCHANGED touched
          /\ Went(w, "install", {}) /\ SameBackups(k)
          /\ backup'[k].unit = {unit} /\ backup'[k].dir = backup[k].dir
          /\ backup'[k].old = backup[k].old /\ backup'[k].receipt = backup[k].receipt
      BY <1>17, RecordUnitsDoes DEF hist
    <2>2. \A j \in Release : Sane(j)'
      BY <1>0, <1>7, <1>8, <2>1 DEF Sane
    <2>3. \A v \in Where \ {w} : BackupOf(v)'
      <3> SUFFICES ASSUME NEW v \in Where \ {w} PROVE BackupOf(v)'
        OBVIOUS
      <3>1. CASE cmd[v].rel = k
        <4>1. Suits(backup[k], cmd[v])
          BY <1>0, <3>1 DEF BackupOf
        <4>2. Suits(backup'[k], cmd[v])
          BY <2>1, <4>1 DEF Suits
        <4>3. cmd'[v] = cmd[v]
          BY <1>2
        <4> QED
          BY <3>1, <4>2, <4>3 DEF BackupOf
      <3>2. CASE cmd[v].rel # k
        BY <1>7, <2>1, <3>2
      <3> QED
        BY <3>1, <3>2
    <2>4. cmd'[w].kind = "sync" /\ cmd'[w].step = "install" /\ cmd'[w].rel = k
      BY <2>1 DEF Went, Moved
    <2>5. BackupOf(w)'
      BY <1>8, <2>1, <2>4 DEF BackupOf, Suits
    <2> QED
      BY <1>3, <1>5, <2>2, <2>3, <2>4, <2>5
  <1>18. CASE InstallUnits(w)
    <2>1. /\ c.kind = "sync" /\ UNCHANGED backup /\ UNCHANGED touched /\ Went(w, "ok", {})
      BY <1>18, InstallUnitsDoes
    <2>2. \A j \in Release : Sane(j)'
      BY <1>0, <2>1 DEF Sane
    <2>3. cmd'[w] = Nobody \/ (cmd'[w].kind = "sync" /\ cmd'[w].step = "ok" /\ cmd'[w].rel = k)
      BY <2>1 DEF Went, Moved
    <2>4. BackupOf(w)' /\ cmd'[w].step # "copy"
      BY <1>4, <1>8, <2>1, <2>3 DEF BackupOf, Suits
    <2> QED
      BY <1>3, <1>5, <1>6, <2>1, <2>2, <2>4
  <1>19. CASE Moves(w)
    <2>1. /\ UNCHANGED backup /\ UNCHANGED touched
          /\ \/ /\ c.kind = "apply" /\ c.step = "publish"
                /\ Went(w, "undo", Entries(c.from, k))
             \/ /\ c.kind = "rollback" /\ c.step = "start" /\ backup[k].receipt
                /\ Went(w, "undo", DOMAIN backup[k].old)
             \/ c.kind = "rollback" /\ Went(w, "ok", {})
             \/ Went(w, "failed", {})
      BY <1>19, MovesDo DEF host, hist
    <2>2. \A j \in Release : Sane(j)'
      BY <1>0, <2>1 DEF Sane
    <2>3. \/ cmd'[w] = Nobody
          \/ /\ cmd'[w].kind = c.kind /\ cmd'[w].rel = k /\ cmd'[w].from = c.from
             /\ \/ /\ c.kind = "apply" /\ c.step = "publish" /\ cmd'[w].step = "undo"
                   /\ cmd'[w].todo = Entries(c.from, k)
                \/ /\ c.kind = "rollback" /\ backup[k].receipt /\ cmd'[w].step = "undo"
                   /\ cmd'[w].todo = DOMAIN backup[k].old
                \/ c.kind = "rollback" /\ cmd'[w].step = "ok"
                \/ cmd'[w].step = "failed"
      BY <2>1 DEF Went, Moved
    <2>4. BackupOf(w)' /\ cmd'[w].step # "copy"
      BY <1>4, <1>8, <2>1, <2>3 DEF BackupOf, Suits, Entries
    <2> QED
      BY <1>3, <1>5, <1>6, <2>1, <2>2, <2>4
  <1> HIDE DEF c, k
  <1> QED
    BY <1>10, <1>11, <1>12, <1>13, <1>14, <1>15, <1>16, <1>17, <1>18, <1>19, CommandCases

LEMMA BackupOfOthers ==
    ASSUME TypeInv, CmdInv, BackupInv, Others
    PROVE  BackupInv'
  <1>0. /\ "awaited" \in Where /\ "stray" \in Where /\ UNCHANGED <<backup, touched>>
        /\ \A v \in Where : cmd[v] \in Commands
    BY OthersKeep DEF Where, TypeInv
  <1>1. \/ cmd'["awaited"] = cmd["awaited"] \/ Fresh(cmd'["awaited"])
        \/ cmd'["awaited"] = Failing(cmd["awaited"])
    BY OthersCommands DEF Others
  <1>2. \/ cmd'["stray"] = cmd["stray"] \/ cmd'["stray"] = Nobody
        \/ cmd'["stray"] = cmd["awaited"] /\ pc \in Acting /\ pc' \in {"rollback", "idle"}
    BY OthersCommands DEF Others
  <1>3. Nobody.kind = "none" /\ Nobody.step = "none"
    BY DEF Nobody
  <1>4. /\ Failing(cmd["awaited"]).step = "failed"
        /\ Failing(cmd["awaited"]).kind = cmd["awaited"].kind
        /\ Failing(cmd["awaited"]).rel = cmd["awaited"].rel
    BY <1>0 DEF Failing, Commands
  <1>5. ASSUME cmd'["awaited"] = Started("sync")
        PROVE  cmd'["awaited"] = cmd["awaited"] \/ backup[target].receipt
    <2>1. cmd'["awaited"] = cmd["awaited"] \/ cmd'["awaited"].kind # "sync" \/ Applied
            \/ (cmd'["awaited"].step = "failed")
      <3>1. Started("sync").kind = "sync"
        BY DEF Started
      <3>2. cmd'["awaited"].kind = IF pc' \in Remote THEN pc' ELSE "none"
        BY PlacesOfOthers
      <3>3. pc' = "sync" => pc = "sync" \/ Applied
        BY DEF Others, Deployer, Begin, Preflight, Guard, Applied, Synced, Restart, Verified,
           TruncateState, WriteState, Close, CommandFailed, VerificationFails, Interrupted,
           InterruptedLate, RolledBack,
           RolledBackStale, NotRolledBack, StartRollback, End, ConnectionLost, DeployerDies,
           HostRestarts, HostRestartsWriting, job
      <3>4. pc = "sync" /\ pc' = "sync" => \/ cmd'["awaited"] = cmd["awaited"]
                                           \/ cmd'["awaited"].step = "failed" \/ Applied
        <4>1. pc = "sync" /\ pc' = "sync" => HostRestarts \/ Applied
          BY DEF Others, Deployer, Begin, Preflight, Guard, Applied, Synced, Restart, Verified,
             TruncateState, WriteState, Close, CommandFailed, VerificationFails, Interrupted,
             InterruptedLate, RolledBack,
             RolledBackStale, NotRolledBack, StartRollback, End, ConnectionLost, DeployerDies,
             HostRestarts, HostRestartsWriting, job
        <4>2. HostRestarts => \/ cmd'["awaited"] = cmd["awaited"]
                              \/ cmd'["awaited"] = Failing(cmd["awaited"])
          BY DEF HostRestarts, Failing
        <4> QED
          BY <4>1, <4>2, <1>4
      <3> QED
        BY <1>5, <3>1, <3>2, <3>3, <3>4 DEF Remote
    <2>2. ASSUME Applied PROVE backup[target].receipt
      <3>1. pc = "apply" /\ cmd["awaited"].step = "ok"
        BY <2>2 DEF Applied, Succeeded
      <3>2. cmd["awaited"].kind = "apply" /\ cmd["awaited"].rel = target
        BY <1>0, <3>1 DEF CmdInv, Remote, Mine
      <3>3. BackupOf("awaited")
        BY <1>0 DEF BackupInv
      <3> QED
        BY <3>1, <3>2, <3>3 DEF BackupOf, Suits
    <2>3. Started("sync").kind = "sync" /\ Started("sync").step = "start"
      BY DEF Started
    <2> QED
      BY <1>5, <2>1, <2>2, <2>3
  <1>6. BackupOf("awaited")'
    <2>0. BackupOf("awaited")
      BY <1>0 DEF BackupInv
    <2>1. CASE cmd'["awaited"] = cmd["awaited"]
      BY <1>0, <2>0, <2>1 DEF BackupOf
    <2>2. CASE cmd'["awaited"] = Failing(cmd["awaited"])
      BY <1>0, <1>4, <2>0, <2>2 DEF BackupOf, Suits
    <2>3. CASE cmd'["awaited"] = Nobody
      BY <1>0, <1>3, <2>3, SuitsIdle DEF BackupOf
    <2>4. ASSUME NEW kind \in {"apply", "rollback"}, cmd'["awaited"] = Started(kind)
          PROVE  BackupOf("awaited")'
      <3>1. Started(kind).kind = kind /\ Started(kind).step = "start"
        BY DEF Started
      <3> QED
        BY <1>0, <2>4, <3>1, SuitsIdle DEF BackupOf
    <2>5. CASE cmd'["awaited"] = Started("sync") /\ backup[target].receipt
      <3>1. Started("sync").kind = "sync" /\ Started("sync").step = "start"
            /\ Started("sync").rel = target
        BY DEF Started
      <3> QED
        BY <1>0, <2>5, <3>1 DEF BackupOf, Suits
    <2> QED
      BY <1>1, <1>5, <2>1, <2>2, <2>3, <2>4, <2>5 DEF Fresh, Remote
  <1>7. BackupOf("stray")'
    <2>1. CASE cmd'["stray"] = cmd["stray"]
      BY <1>0, <2>1 DEF BackupInv, BackupOf
    <2>2. CASE cmd'["stray"] = Nobody
      BY <1>0, <1>3, <2>2, SuitsIdle DEF BackupOf
    <2>3. CASE cmd'["stray"] = cmd["awaited"]
      BY <1>0, <2>3 DEF BackupInv, BackupOf
    <2> QED
      BY <1>2, <2>1, <2>2, <2>3
  <1>8. Apart'
    <2>1. cmd'["awaited"].step = "copy" => cmd'["awaited"] = cmd["awaited"]
      <3>1. \A kind : Started(kind).step = "start"
        BY DEF Started
      <3> QED
        BY <1>1, <1>3, <1>4, <3>1 DEF Fresh
    <2>2. cmd'["awaited"].step = "copy" => cmd'["stray"] = cmd["stray"] \/ cmd'["stray"] = Nobody
      <3>1. ASSUME cmd'["awaited"].step = "copy"
            PROVE  pc' = "apply"
        <4>1. cmd["awaited"].kind = "apply"
          BY <2>1, <3>1, <1>0 DEF CmdInv, StepsOf, Commands, Kinds
        <4> QED
          BY <2>1, <3>1, <4>1, PlacesOfOthers DEF Remote
      <3> QED
        BY <1>2, <3>1
    <2> QED
      BY <2>1, <2>2, <1>3 DEF Apart, BackupInv, Where
  <1>9. \A k \in Release : Sane(k)'
    BY <1>0 DEF BackupInv, Sane
  <1> QED
    BY <1>6, <1>7, <1>8, <1>9 DEF BackupInv, Sane, Apart, Where

LEMMA BackupStep ==
    ASSUME TypeInv, CmdInv, BackupInv, [Next]_vars
    PROVE  BackupInv'
  <1>1. UNCHANGED <<backup, touched, cmd>> => BackupInv'
    BY DEF BackupInv, BackupOf
  <1>2. UNCHANGED vars \/ (\E f \in File : Edit(f)) => UNCHANGED <<backup, touched, cmd>>
    BY DEF vars, host, hist, Edit
  <1> QED
    BY <1>1, <1>2, NextCases, BackupOfCommands, BackupOfOthers

(***************************************************************************)
(* The copies.                                                             *)
(***************************************************************************)

\* A command of this deployment was one of it, and at the step it says.
LEMMA MineWas ==
    ASSUME TypeInv, CmdInv, NEW w \in Where, Command(w)
    PROVE  /\ UNCHANGED <<jobs, target, base, pc>>
           /\ \A v \in Where : Mine(v)' => Mine(v)
           /\ \A v \in Where \ {w} : cmd'[v] = cmd[v]
           /\ Mine(w) => cmd[w].rel = target /\ cmd[w].from = base
  BY CommandsKeep DEF Mine, CmdInv, Nobody

LEMMA CopyOfCommands ==
    ASSUME TypeInv, CmdInv, BackupInv, CopyInv, NEW w \in Where, Command(w)
    PROVE  CopyInv'
  <1> DEFINE c == cmd[w]
             k == c.rel
             Stepped(v) == cmd[v].step \in {"copy", "publish"}
  <1>0. /\ k \in Release /\ target \in Release
        /\ UNCHANGED <<target, jobs>> /\ (astray => astray')
        /\ \A v \in Where : Mine(v)' => Mine(v)
        /\ \A v \in Where \ {w} : cmd'[v] = cmd[v]
        /\ Mine(w) => k = target
    BY CommandsKeep, CommandFacts, MineWas DEF TypeInv
  <1>1. SUFFICES ASSUME ~astray' PROVE CopyInv'
    BY <1>0 DEF CopyInv
  <1>2. /\ ~astray
        /\ \A j \in Release, f \in File : f \in touched[j] =>
              backup[j].old[f] = displaced[j][f] \/ f \in racing[j]
        /\ \A v \in Where : Mine(v) /\ Stepped(v) =>
              \A f \in DOMAIN backup[target].old \ touched[target] :
                  backup[target].old[f] = tree[f] \/ f \in racing[target]
    BY <1>0, <1>1 DEF CopyInv, TypeInv
  <1>3. ASSUME /\ \A j \in Release, f \in File : f \in touched'[j] =>
                     backup'[j].old[f] = displaced'[j][f] \/ f \in racing'[j]
               /\ \A v \in Where : (Mine(v) /\ Stepped(v))' =>
                     \A f \in DOMAIN backup'[target].old \ touched'[target] :
                         backup'[target].old[f] = tree'[f] \/ f \in racing'[target]
        PROVE  CopyInv'
    <2>1. touched' \in [Release -> SUBSET File]
      BY TypeOfCommands DEF TypeInv
    <2> QED
      BY <1>0, <1>3, <2>1 DEF CopyInv
  <1>4. /\ c.step = "copy" => ~backup[k].receipt /\ touched[k] = {}
        /\ c.step \in {"publish", "undo"} => c.todo \subseteq DOMAIN backup[k].old
        /\ \A j \in Release : touched[j] \subseteq DOMAIN backup[j].old
        /\ ~backup[k].dir => DOMAIN backup[k].old = {}
    BY <1>0 DEF BackupInv, BackupOf, Suits
  <1>5. ASSUME c.kind # "none", c.of = jobs
        PROVE  k = target
    BY <1>0, <1>5 DEF Mine
  <1>6. c.kind # "none" /\ c.of \in Nat /\ jobs \in Nat
    BY CommandsKeep, CommandFacts DEF TypeInv
  <1>7. CASE ApplyStarts(w)
    <2>1. /\ UNCHANGED <<tree, touched, displaced>>
          /\ \/ /\ ~backup[k].dir /\ SameBackups(k) /\ backup'[k].old = backup[k].old
                /\ racing' = [racing EXCEPT ![k] = {}]
             \/ UNCHANGED <<backup, racing>> /\ Went(w, "failed", {})
      BY <1>7, ApplyStartsDoes
    <2>2. \A j \in Release : backup'[j].old = backup[j].old
      BY <1>0, <2>1 DEF SameBackups
    <2>3. \A v \in Where : (Mine(v) /\ Stepped(v))' =>
             (Mine(v) /\ Stepped(v)) \/ DOMAIN backup[target].old = {}
      <3>1. UNCHANGED backup => ~Stepped(w)' \/ ~backup[k].dir
        BY <2>1 DEF Went, Moved, Nobody
      <3>2. Stepped(w)' => DOMAIN backup[k].old = {}
        BY <1>4, <2>1, <3>1
      <3> QED
        BY <1>0, <3>2
    <2>4. UNCHANGED racing \/ (touched[k] = {} /\ DOMAIN backup[k].old = {})
      BY <1>0, <1>4, <2>1 DEF BackupInv
    <2>5. /\ \A j \in Release \ {k} : racing'[j] = racing[j]
          /\ \A j \in Release, g \in File : g \in touched[j] => racing'[j] = racing[j]
          /\ DOMAIN backup[target].old # {} => racing'[target] = racing[target]
      BY <1>0, <2>1, <2>4 DEF TypeInv
    <2>6. \A j \in Release, f \in File : f \in touched'[j] =>
             backup'[j].old[f] = displaced'[j][f] \/ f \in racing'[j]
      BY <1>2, <2>1, <2>2, <2>5
    <2>7. \A v \in Where : (Mine(v) /\ Stepped(v))' =>
             \A f \in DOMAIN backup'[target].old \ touched'[target] :
                 backup'[target].old[f] = tree'[f] \/ f \in racing'[target]
      BY <1>0, <1>2, <2>1, <2>2, <2>3, <2>5
    <2> QED
      BY <1>3, <2>6, <2>7
  <1>8. ASSUME NEW f \in File, Copy(w, f) PROVE CopyInv'
    <2>1. /\ c.step = "copy" /\ SameBackups(k) /\ UNCHANGED <<tree, touched, displaced, racing>>
          /\ DOMAIN backup'[k].old = DOMAIN backup[k].old \cup {f}
          /\ backup'[k].old[f] = tree[f]
          /\ \A g \in DOMAIN backup[k].old \ {f} : backup'[k].old[g] = backup[k].old[g]
      BY <1>8, CopyDoes DEF hist
    <2>2. touched[k] = {}
      BY <1>4, <2>1
    <2>3. \A j \in Release, g \in File : g \in touched'[j] =>
             backup'[j].old[g] = displaced'[j][g] \/ g \in racing'[j]
      BY <1>2, <2>1, <2>2 DEF SameBackups
    <2>4. ASSUME NEW v \in Where, Mine(v)', Stepped(v)',
                 NEW g \in DOMAIN backup'[target].old \ touched'[target]
          PROVE  backup'[target].old[g] = tree'[g] \/ g \in racing'[target]
      <3>1. Mine(v) /\ Stepped(v)
        BY <1>0, <2>1, <2>4
      <3>2. CASE k = target
        BY <1>2, <2>1, <2>4, <3>1, <3>2
      <3>3. CASE k # target
        <4>1. backup'[target] = backup[target]
          BY <1>0, <2>1, <3>3 DEF SameBackups
        <4> QED
          BY <1>2, <2>1, <2>4, <3>1, <4>1
      <3> QED
        BY <3>2, <3>3
    <2> QED
      BY <1>3, <2>3, <2>4
  <1>9. CASE WriteReceipt(w) \/ RecordUnits(w)
    <2>1. /\ UNCHANGED <<tree, touched, displaced, racing>> /\ SameBackups(k)
          /\ backup'[k].old = backup[k].old
          /\ Stepped(w) \/ Went(w, "install", {})
      BY <1>9, WriteReceiptDoes, RecordUnitsDoes DEF hist
    <2>2. \A j \in Release : backup'[j].old = backup[j].old
      BY <1>0, <2>1 DEF SameBackups
    <2>3. \A v \in Where : Stepped(v)' => Stepped(v)
      BY <1>0, <2>1 DEF Went, Moved, Nobody
    <2> QED
      BY <1>0, <1>2, <1>3, <2>1, <2>2, <2>3
  <1>10. CASE PreparationFails(w)
    <2>1. /\ c.step = "copy" /\ UNCHANGED <<tree, touched, displaced, racing>> /\ SameBackups(k)
          /\ DOMAIN backup'[k].old = {} /\ Went(w, "failed", {})
      BY <1>10, PreparationFailsDoes DEF hist
    <2>2. touched[k] = {}
      BY <1>4, <2>1
    <2>3. \A v \in Where : Stepped(v)' => Stepped(v)
      BY <1>0, <2>1 DEF Went, Moved, Nobody
    <2>4. \A j \in Release \ {k} : backup'[j] = backup[j]
      BY <2>1 DEF SameBackups
    <2>5. target = k \/ backup'[target] = backup[target]
      BY <1>0, <2>4
    <2> QED
      BY <1>0, <1>2, <1>3, <2>1, <2>2, <2>3, <2>4, <2>5
  <1>11. ASSUME NEW f \in File, Publish(w, f) PROVE CopyInv'
    <2>1. /\ c.step = "publish" /\ f \in c.todo /\ UNCHANGED <<backup, racing>>
          /\ tree' = [tree EXCEPT ![f] = Version[k][f]]
          /\ touched' = [touched EXCEPT ![k] = @ \cup {f}]
          /\ displaced' = [displaced EXCEPT ![k][f] =
                             IF f \in touched[k] THEN @ ELSE tree[f]]
          /\ astray' = (astray \/ c.of # jobs)
      BY <1>11, PublishDoes
    <2>2. c.of = jobs /\ k = target /\ Mine(w)
      BY <1>1, <1>5, <1>6, <2>1 DEF Mine
    <2>3. f \in DOMAIN backup[k].old
      BY <1>4, <2>1
    <2>4. f \notin touched[k] => backup[k].old[f] = tree[f] \/ f \in racing[k]
      BY <1>2, <2>1, <2>2, <2>3
    <2>5. /\ \A j \in Release \ {k} : touched'[j] = touched[j] /\ displaced'[j] = displaced[j]
          /\ touched'[k] = touched[k] \cup {f}
          /\ \A g \in File \ {f} : displaced'[k][g] = displaced[k][g]
          /\ displaced'[k][f] = IF f \in touched[k] THEN displaced[k][f] ELSE tree[f]
          /\ \A g \in File \ {f} : tree'[g] = tree[g]
      <3>1. /\ touched \in [Release -> SUBSET File] /\ tree \in [File -> Content]
            /\ displaced \in [Release -> [File -> Content]]
            /\ displaced[k] \in [File -> Content]
        BY <1>0 DEF TypeInv
      <3>2. displaced' = [displaced EXCEPT ![k] = [displaced[k] EXCEPT ![f] =
                             IF f \in touched[k] THEN displaced[k][f] ELSE tree[f]]]
        BY <2>1
      <3>3. displaced'[k] = [displaced[k] EXCEPT ![f] =
                             IF f \in touched[k] THEN displaced[k][f] ELSE tree[f]]
        BY <1>0, <3>1, <3>2
      <3> QED
        BY <1>0, <2>1, <3>1, <3>2, <3>3
    <2>6. \A j \in Release, g \in File : g \in touched'[j] =>
             backup'[j].old[g] = displaced'[j][g] \/ g \in racing'[j]
      BY <1>2, <2>1, <2>4, <2>5
    <2>7. \A g \in DOMAIN backup'[target].old \ touched'[target] :
             backup'[target].old[g] = tree'[g] \/ g \in racing'[target]
      <3>1. DOMAIN backup[target].old \subseteq File
        BY <1>0, BackupFacts
      <3> QED
        BY <1>2, <2>1, <2>2, <2>5, <3>1
    <2> QED
      BY <1>3, <2>6, <2>7
  <1>12. ASSUME NEW f \in File, Undo(w, f) PROVE CopyInv'
    <2>1. /\ c.step = "undo" /\ f \in c.todo /\ UNCHANGED <<backup, displaced>>
          /\ tree' = [tree EXCEPT ![f] = backup[k].old[f]]
          /\ touched' = [touched EXCEPT ![k] = @ \ {f}]
          /\ astray' = (astray \/ c.of # jobs)
          /\ Went(w, IF c.todo = {f} THEN "units" ELSE "undo", c.todo \ {f})
          /\ \A j \in Release : racing[j] \subseteq racing'[j]
      <3>1. /\ c.step = "undo" /\ f \in c.todo /\ UNCHANGED <<backup, displaced>>
            /\ tree' = [tree EXCEPT ![f] = backup[k].old[f]]
            /\ touched' = [touched EXCEPT ![k] = @ \ {f}]
            /\ astray' = (astray \/ c.of # jobs)
            /\ Went(w, IF c.todo = {f} THEN "units" ELSE "undo", c.todo \ {f})
        BY <1>12, UndoDoes
      <3>2. racing' = Raced(f) \/ racing' = racing
        BY <1>12, UndoDoes
      <3>3. \A j \in Release : racing[j] \subseteq Raced(f)[j]
        <4>1. racing \in [Release -> SUBSET File]
          BY DEF TypeInv
        <4> QED
          BY <4>1, RacedIsMarks
      <3> QED
        BY <3>1, <3>2, <3>3
    <2>2. k = target
      BY <1>1, <1>5, <1>6, <2>1
    <2>3. /\ \A j \in Release \ {k} : touched'[j] = touched[j]
          /\ touched'[k] = touched[k] \ {f}
          /\ tree'[f] = backup[k].old[f]
          /\ \A g \in File \ {f} : tree'[g] = tree[g]
      BY <1>0, <2>1 DEF TypeInv
    <2>4. \A j \in Release, g \in File : g \in touched'[j] =>
             backup'[j].old[g] = displaced'[j][g] \/ g \in racing'[j]
      BY <1>2, <2>1, <2>3
    <2>5. \A v \in Where : Stepped(v)' => Stepped(v)
      BY <1>0, <2>1 DEF Went, Moved, Nobody
    <2>6. ASSUME NEW v \in Where, Mine(v)', Stepped(v)',
                 NEW g \in DOMAIN backup'[target].old \ touched'[target]
          PROVE  backup'[target].old[g] = tree'[g] \/ g \in racing'[target]
      <3>1. g \in File
        BY <1>0, <2>1, <2>6, BackupFacts
      <3>2. CASE g = f
        BY <2>1, <2>2, <2>3, <3>2
      <3>3. CASE g # f
        BY <1>0, <1>2, <2>1, <2>2, <2>3, <2>5, <2>6, <3>1, <3>3
      <3> QED
        BY <3>2, <3>3
    <2> QED
      BY <1>3, <2>4, <2>6
  <1>13. CASE RestoreUnits(w) \/ InstallUnits(w) \/ Moves(w)
    <2>1. UNCHANGED <<tree, touched, displaced, backup, racing>>
      BY <1>13, RestoreUnitsDoes, InstallUnitsDoes, MovesDo DEF host, hist
    <2>2. \A v \in Where : Stepped(v)' => Stepped(v)
      <3>1. \E step \in Steps \ {"copy", "publish"}, todo \in SUBSET File : Went(w, step, todo)
        <4>1. DOMAIN backup[k].old \in SUBSET File /\ Entries(c.from, k) \in SUBSET File
                /\ {} \in SUBSET File
          BY <1>0, BackupFacts, EntriesAreFiles
        <4>2. /\ "ok" \in Steps \ {"copy", "publish"} /\ "failed" \in Steps \ {"copy", "publish"}
              /\ "undo" \in Steps \ {"copy", "publish"}
          BY DEF Steps
        <4>3. CASE RestoreUnits(w)
          BY <4>1, <4>2, <4>3, RestoreUnitsDoes
        <4>4. CASE InstallUnits(w)
          BY <4>1, <4>2, <4>4, InstallUnitsDoes
        <4>5. CASE Moves(w)
          BY <4>1, <4>2, <4>5, MovesDo
        <4> QED
          BY <1>13, <4>3, <4>4, <4>5
      <3> QED
        BY <1>0, <3>1 DEF Went, Moved, Nobody
    <2> QED
      BY <1>0, <1>2, <1>3, <2>1, <2>2
  <1> HIDE DEF c, k, Stepped
  <1> QED
    BY <1>7, <1>8, <1>9, <1>10, <1>11, <1>12, <1>13, CommandCases

\* Where a command of this deployment copies or replaces files, it did so before.
LEMMA SteppedWas ==
    ASSUME TypeInv, CmdInv, Others, NEW v \in Where,
           Mine(v)', cmd'[v].step \in {"copy", "publish", "undo"}
    PROVE  /\ UNCHANGED <<base, target, jobs>>
           /\ \E u \in Where : cmd'[v] = cmd[u] /\ Mine(u)
  <1>0. /\ "awaited" \in Where /\ "stray" \in Where /\ jobs \in Nat
        /\ \A u \in Where : cmd[u] \in Commands /\ cmd[u].of <= jobs /\ cmd[u].of \in Nat
    BY DEF TypeInv, CmdInv, Where, Commands
  <1>1. Nobody.step = "none" /\ \A kind : Started(kind).step = "start"
    BY DEF Nobody, Started
  <1>2. Failing(cmd["awaited"]).step = "failed"
    BY <1>0 DEF Failing, Commands
  <1>3. \E u \in Where : cmd'[v] = cmd[u]
    BY <1>0, <1>1, <1>2, OthersCommands DEF Others, Fresh, Where
  <1>4. UNCHANGED <<base, target, jobs>> \/ jobs' = jobs + 1
    BY OthersKeep DEF Begin
  <1> QED
    BY <1>0, <1>3, <1>4 DEF Mine

LEMMA CopyStep ==
    ASSUME TypeInv, CmdInv, BackupInv, CopyInv, [Next]_vars
    PROVE  CopyInv'
  <1>1. CASE Others
    <2>1. UNCHANGED <<tree, backup, touched, displaced, racing, astray>>
      BY <1>1, OthersKeep
    <2> QED
      BY <1>1, <2>1, SteppedWas DEF CopyInv
  <1>2. ASSUME NEW f \in File, Edit(f) PROVE CopyInv'
    <2>1. /\ UNCHANGED <<backup, cmd, pc, jobs, target, touched, displaced, astray>>
          /\ tree' = [tree EXCEPT ![f] = Edited]
          /\ \A k \in Release : racing[k] \subseteq racing'[k]
          /\ \A k \in Release : InUse(k) /\ backup[k].dir => f \in racing'[k]
          /\ target \in Release
      BY <1>2, RacedIsMarks DEF Edit, job, TypeInv
    <2>2. ASSUME NEW w \in Where, Mine(w), cmd[w].step \in {"copy", "publish"}
          PROVE  f \in racing'[target]
      <3>1. cmd[w].kind # "none" /\ cmd[w].rel = target
        BY <2>2 DEF Mine, CmdInv
      <3>2. cmd[w].kind = "apply"
        BY <2>2, CommandFacts DEF CmdInv, StepsOf, Kinds
      <3>3. backup[target].dir
        BY <2>1, <2>2, <3>1, <3>2 DEF BackupInv, BackupOf, Suits
      <3> QED
        BY <2>1, <3>1, <3>3 DEF InUse
    <2>3. \A g \in File \ {f} : tree'[g] = tree[g]
      BY <2>1 DEF TypeInv
    <2>4. DOMAIN backup[target].old \subseteq File
      BY BackupFacts DEF TypeInv
    <2> QED
      BY <2>1, <2>2, <2>3, <2>4 DEF CopyInv, Mine
  <1>3. UNCHANGED vars => CopyInv'
    BY DEF CopyInv, Mine, vars, host, job, hist
  <1> QED
    BY <1>1, <1>2, <1>3, NextCases, CopyOfCommands

(***************************************************************************)
(* Hotfixes.                                                               *)
(***************************************************************************)

\* A command never takes another release than the one it began with.
LEMMA InUseOfCommands ==
    ASSUME TypeInv, CmdInv, NEW w \in Where, Command(w), NEW k \in Release, InUse(k)'
    PROVE  InUse(k)
  BY CommandsKeep DEF InUse, Nobody

\* The deployer takes a release whose backup is not there yet, or goes on.
LEMMA InUseOfOthers ==
    ASSUME TypeInv, CmdInv, Others, NEW k \in Release, InUse(k)'
    PROVE  InUse(k) \/ ~backup[k].dir
  <1>0. /\ "awaited" \in Where /\ "stray" \in Where
        /\ \A u \in Where : cmd[u] \in Commands
    BY DEF TypeInv, Where
  <1>1. ASSUME pc' \in Acting, target' = k
        PROVE  InUse(k) \/ ~backup[k].dir
    <2>1. \/ pc \in Acting /\ UNCHANGED target
          \/ Guard /\ ~backup[target].dir /\ UNCHANGED target
      BY <1>1 DEF Others, Deployer, Begin, Preflight, Guard, Applied, Synced, Restart, Verified,
         TruncateState, WriteState, Close, CommandFailed, VerificationFails, Interrupted,
         InterruptedLate, RolledBack,
         RolledBackStale, NotRolledBack, StartRollback, End, ConnectionLost, DeployerDies,
         HostRestarts, HostRestartsWriting, job, Acting
    <2> QED
      BY <1>1, <2>1 DEF InUse
  <1>2. ASSUME NEW v \in Where, cmd'[v].kind # "none", cmd'[v].rel = k
        PROVE  InUse(k) \/ ~backup[k].dir
    <2>1. CASE \E u \in Where : cmd'[v] = cmd[u]
      BY <1>2, <2>1 DEF InUse
    <2>2. CASE cmd'[v] = Failing(cmd["awaited"])
      BY <1>0, <1>2, <2>2 DEF InUse, Failing, Commands
    <2>3. CASE v = "awaited" /\ Fresh(cmd'[v]) /\ cmd'[v] # cmd[v]
      <3>1. PICK kind \in Remote : cmd'[v] = Started(kind)
        BY <1>2, <2>3 DEF Fresh, Nobody
      <3>2. cmd'[v].kind = kind /\ cmd'[v].rel = target
        BY <3>1 DEF Started
      <3>3. pc' \in Acting
        BY <2>3, <3>1, <3>2, PlacesOfOthers DEF Remote, Acting
      <3>4. UNCHANGED target
        BY <2>3, OthersKeep DEF Begin
      <3> QED
        BY <1>1, <1>2, <3>2, <3>3, <3>4
    <2>4. cmd'[v] = Nobody => FALSE
      BY <1>2 DEF Nobody
    <2> QED
      BY <1>0, <2>1, <2>2, <2>3, <2>4, OthersCommands DEF Others, Where
  <1> QED
    BY <1>1, <1>2 DEF InUse

\* A file that passes the preflight is no hotfix.
LEMMA AcceptedIsNoHotfix ==
    ASSUME TypeInv, NEW b \in Release, NEW t \in Release, NoConflict(b, t),
           NEW f \in Entries(b, t)
    PROVE  tree[f] # Edited
  <1>1. \A k \in b..t : k \in Release
    BY DeployAssumption DEF Release
  <1>2. f \in File /\ tree[f] \in Accepted(b, t, f)
    BY DEF NoConflict, Entries
  <1> QED
    BY <1>1, <1>2, DeployAssumption DEF Accepted

\* The commands that may replace the files of their release without looking.
Overwrites(c) == c.kind = "apply" /\ c.step \in {"copy", "publish", "undo"}

\* Such a command works on a backup, and its release is in use.
LEMMA OverwritersHaveBackups ==
    ASSUME TypeInv, CmdInv, BackupInv, NEW v \in Where, Overwrites(cmd[v])
    PROVE  /\ cmd[v].rel \in Release /\ InUse(cmd[v].rel) /\ backup[cmd[v].rel].dir
  <1>1. cmd[v].rel \in Release /\ cmd[v].kind = "apply"
    BY CommandFacts DEF Overwrites
  <1>2. backup[cmd[v].rel].dir
    BY <1>1 DEF Overwrites, BackupInv, BackupOf, Suits
  <1> QED
    BY <1>1, <1>2 DEF InUse

\* A hotfix of f that comes, or comes back, is marked for every release in reach.
LEMMA RacedIsInReach ==
    ASSUME TypeInv, CmdInv, BackupInv, NEW f \in File
    PROVE  /\ \A v \in Where : Overwrites(cmd[v]) => f \in Raced(f)[cmd[v].rel]
           /\ \A k \in Release : InUse(k) /\ f \in DOMAIN backup[k].old => f \in Raced(f)[k]
           /\ \A k \in Release : racing[k] \subseteq Raced(f)[k]
  <1>1. racing \in [Release -> SUBSET File]
    BY DEF TypeInv
  <1>2. \A k \in Release : f \in DOMAIN backup[k].old => backup[k].dir
    BY DEF BackupInv
  <1> QED
    BY <1>1, <1>2, RacedIsMarks, OverwritersHaveBackups

LEMMA HotfixOfCommands ==
    ASSUME TypeInv, CmdInv, BackupInv, HotfixInv, NEW w \in Where, Command(w)
    PROVE  HotfixInv'
  <1> DEFINE c == cmd[w]
             k == c.rel
             Reached(f, v) == Overwrites(cmd[v]) /\ f \in Entries(cmd[v].from, cmd[v].rel)
  <1>0. /\ k \in Release /\ c.from \in Release /\ UNCHANGED edited
        /\ \A v \in Where \ {w} : cmd'[v] = cmd[v]
        /\ \A j \in Release : InUse(j)' => InUse(j)
        /\ \A v \in Where : cmd[v].rel \in Release
        /\ racing \in [Release -> SUBSET File]
    BY CommandsKeep, CommandFacts, InUseOfCommands DEF TypeInv
  <1>1. /\ \A f \in File : tree[f] = Edited =>
              /\ \A v \in Where : Reached(f, v) => f \in racing[cmd[v].rel]
              /\ \A j \in Release : InUse(j) /\ f \in DOMAIN backup[j].old => f \in racing[j]
        /\ \A j \in Release : \A f \in DOMAIN backup[j].old :
              backup[j].old[f] = Edited => f \in edited
        /\ \A f \in File : tree[f] = Edited => f \in edited
    BY DEF HotfixInv, Overwrites
  <1>2. ASSUME /\ \A f \in File : tree'[f] = Edited =>
                     /\ \A v \in Where : Reached(f, v)' => f \in racing'[cmd'[v].rel]
                     /\ \A j \in Release :
                           InUse(j) /\ f \in DOMAIN backup'[j].old => f \in racing'[j]
               /\ \A j \in Release : \A f \in DOMAIN backup'[j].old :
                     backup'[j].old[f] = Edited => f \in edited
               /\ \A f \in File : tree'[f] = Edited => f \in edited
        PROVE  HotfixInv'
    BY <1>0, <1>2 DEF HotfixInv, Overwrites
  <1>3. /\ c.step = "copy" => c.todo \subseteq Entries(c.from, k)
        /\ c.step \in {"publish", "undo"} => c.todo \subseteq DOMAIN backup[k].old
    BY <1>0 DEF BackupInv, BackupOf, Suits
  <1>4. ASSUME UNCHANGED <<tree, racing>>, \A j \in Release : backup'[j].old = backup[j].old,
               Overwrites(cmd'[w]) => Overwrites(cmd[w]) /\ cmd'[w].from = c.from
                                      /\ cmd'[w].rel = k
        PROVE  HotfixInv'
    BY <1>0, <1>1, <1>2, <1>4
  <1>5. ~Overwrites(Nobody)
    BY DEF Overwrites, Nobody
  <1>6. CASE ApplyStarts(w)
    <2>1. /\ c.kind = "apply" /\ UNCHANGED tree
          /\ \/ /\ NoConflict(c.from, k) /\ Went(w, "copy", Entries(c.from, k))
                /\ SameBackups(k) /\ backup'[k].old = backup[k].old /\ ~backup[k].dir
                /\ racing' = [racing EXCEPT ![k] = {}]
             \/ UNCHANGED <<backup, racing>> /\ Went(w, "failed", {})
      BY <1>6, ApplyStartsDoes
    <2>2. \A j \in Release : backup'[j].old = backup[j].old
      BY <1>0, <2>1 DEF SameBackups
    <2>3. CASE UNCHANGED racing /\ Went(w, "failed", {})
      BY <1>4, <1>5, <2>1, <2>2, <2>3 DEF Went, Moved, Overwrites
    <2>4. CASE /\ NoConflict(c.from, k) /\ Went(w, "copy", Entries(c.from, k))
               /\ ~backup[k].dir /\ racing' = [racing EXCEPT ![k] = {}]
      <3>1. \A f \in Entries(c.from, k) : tree[f] # Edited
        BY <1>0, <2>4, AcceptedIsNoHotfix
      <3>2. cmd'[w].from = c.from /\ cmd'[w].rel = k
        BY <2>4 DEF Went, Moved
      <3>3. \A v \in Where : Overwrites(cmd[v]) => cmd[v].rel # k
        BY <2>4, OverwritersHaveBackups
      <3>4. DOMAIN backup[k].old = {}
        BY <1>0, <2>4 DEF BackupInv
      <3>5. \A j \in Release \ {k} : racing'[j] = racing[j]
        BY <1>0, <2>4
      <3>6. \A f \in File : tree'[f] = Edited =>
               \A v \in Where : Reached(f, v)' => f \in racing'[cmd'[v].rel]
        <4> SUFFICES ASSUME NEW f \in File, tree'[f] = Edited, NEW v \in Where, Reached(f, v)'
                     PROVE  f \in racing'[cmd'[v].rel]
          OBVIOUS
        <4>1. v # w
          BY <2>1, <3>1, <3>2
        <4>2. cmd'[v] = cmd[v] /\ cmd[v].rel # k
          BY <1>0, <3>3, <4>1
        <4> QED
          BY <1>0, <1>1, <2>1, <3>5, <4>2
      <3>7. \A f \in File : tree'[f] = Edited =>
               \A j \in Release : InUse(j) /\ f \in DOMAIN backup'[j].old => f \in racing'[j]
        BY <1>1, <2>1, <2>2, <3>4, <3>5
      <3> HIDE DEF Reached
      <3> QED
        BY <1>1, <1>2, <2>1, <2>2, <3>6, <3>7
    <2> QED
      BY <2>1, <2>3, <2>4
  <1>7. ASSUME NEW f \in File, Copy(w, f) PROVE HotfixInv'
    <2>1. /\ c.kind = "apply" /\ c.step = "copy" /\ f \in c.todo /\ UNCHANGED <<tree, racing>>
          /\ Went(w, "copy", c.todo \ {f}) /\ SameBackups(k)
          /\ DOMAIN backup'[k].old = DOMAIN backup[k].old \cup {f}
          /\ backup'[k].old[f] = tree[f]
          /\ \A g \in DOMAIN backup[k].old \ {f} : backup'[k].old[g] = backup[k].old[g]
      BY <1>7, CopyDoes DEF hist
    <2>2. tree[f] = Edited => f \in racing[k]
      BY <1>1, <1>3, <2>1 DEF Overwrites
    <2>3. /\ cmd'[w].from = c.from /\ cmd'[w].rel = k /\ Overwrites(cmd[w])
      BY <2>1 DEF Went, Moved, Overwrites
    <2>4. \A j \in Release \ {k} : backup'[j].old = backup[j].old
      BY <2>1 DEF SameBackups
    <2>5. \A g \in File : tree[g] = Edited =>
             /\ \A v \in Where : Reached(g, v)' => g \in racing[cmd'[v].rel]
             /\ \A j \in Release : InUse(j) /\ g \in DOMAIN backup'[j].old => g \in racing[j]
      BY <1>0, <1>1, <2>1, <2>2, <2>3, <2>4
    <2>6. \A j \in Release : \A g \in DOMAIN backup'[j].old :
             backup'[j].old[g] = Edited => g \in edited
      BY <1>0, <1>1, <2>1, <2>4
    <2> QED
      BY <1>1, <1>2, <2>1, <2>5, <2>6
  <1>8. CASE WriteReceipt(w) \/ RecordUnits(w)
    <2>1. /\ UNCHANGED <<tree, racing>> /\ SameBackups(k) /\ backup'[k].old = backup[k].old
          /\ \/ Overwrites(cmd[w]) /\ Went(w, "publish", Entries(c.from, k))
             \/ Went(w, "install", {})
      BY <1>8, WriteReceiptDoes, RecordUnitsDoes DEF Overwrites, hist
    <2>2. \A j \in Release : backup'[j].old = backup[j].old
      BY <1>0, <2>1 DEF SameBackups
    <2> QED
      BY <1>4, <2>1, <2>2 DEF Went, Moved, Overwrites
  <1>9. CASE PreparationFails(w)
    <2>1. /\ UNCHANGED <<tree, racing>> /\ SameBackups(k)
          /\ DOMAIN backup'[k].old = {} /\ Went(w, "failed", {})
      BY <1>9, PreparationFailsDoes DEF hist
    <2>2. ~Overwrites(cmd'[w])
      BY <1>5, <2>1 DEF Went, Moved, Overwrites
    <2>3. \A j \in Release \ {k} : backup'[j].old = backup[j].old
      BY <2>1 DEF SameBackups
    <2> QED
      BY <1>0, <1>1, <1>2, <2>1, <2>2, <2>3
  <1>10. ASSUME NEW f \in File, Publish(w, f) PROVE HotfixInv'
    <2>1. /\ c.kind = "apply" /\ c.step = "publish" /\ UNCHANGED <<backup, racing>>
          /\ tree' = [tree EXCEPT ![f] = Version[k][f]]
          /\ Went(w, IF c.todo = {f} THEN "ok" ELSE "publish", c.todo \ {f})
      BY <1>10, PublishDoes
    <2>2. \A g \in File : tree'[g] = Edited => tree[g] = Edited
      <3>1. Version[k][f] # Edited
        BY <1>0, DeployAssumption
      <3> QED
        BY <2>1, <3>1 DEF TypeInv
    <2>3. Overwrites(cmd'[w]) => Overwrites(cmd[w]) /\ cmd'[w].from = c.from /\ cmd'[w].rel = k
      BY <1>5, <2>1 DEF Went, Moved, Overwrites
    <2> QED
      BY <1>0, <1>1, <1>2, <2>1, <2>2, <2>3
  <1>11. ASSUME NEW f \in File, Undo(w, f) PROVE HotfixInv'
    <2>1. /\ c.step = "undo" /\ f \in c.todo /\ UNCHANGED backup
          /\ tree' = [tree EXCEPT ![f] = backup[k].old[f]]
          /\ racing' = IF backup[k].old[f] = Edited THEN Raced(f) ELSE racing
          /\ Went(w, IF c.todo = {f} THEN "units" ELSE "undo", c.todo \ {f})
      BY <1>11, UndoDoes
    <2>2. f \in DOMAIN backup[k].old /\ (backup[k].old[f] = Edited => f \in edited)
      BY <1>0, <1>1, <1>3, <2>1
    <2>3. /\ tree'[f] = backup[k].old[f]
          /\ \A g \in File \ {f} : tree'[g] = tree[g]
      BY <2>1 DEF TypeInv
    <2>4. Overwrites(cmd'[w]) => Overwrites(cmd[w]) /\ cmd'[w].from = c.from /\ cmd'[w].rel = k
      BY <1>5, <2>1 DEF Went, Moved, Overwrites
    <2>5. \A v \in Where, g \in File : Reached(g, v)' => Reached(g, v) /\ cmd'[v].rel = cmd[v].rel
      BY <1>0, <2>4
    <2>6. \A j \in Release : racing[j] \subseteq racing'[j]
      BY <2>1, RacedIsInReach
    <2>7. tree'[f] = Edited =>
             /\ \A v \in Where : Overwrites(cmd[v]) => f \in racing'[cmd[v].rel]
             /\ \A j \in Release : InUse(j) /\ f \in DOMAIN backup[j].old => f \in racing'[j]
      BY <2>1, <2>3, RacedIsInReach
    <2>8. \A g \in File : tree'[g] = Edited =>
             /\ \A v \in Where : Reached(g, v)' => g \in racing'[cmd'[v].rel]
             /\ \A j \in Release : InUse(j) /\ g \in DOMAIN backup'[j].old => g \in racing'[j]
      <3> SUFFICES ASSUME NEW g \in File, tree'[g] = Edited
                   PROVE  /\ \A v \in Where : Reached(g, v)' => g \in racing'[cmd'[v].rel]
                          /\ \A j \in Release :
                                InUse(j) /\ g \in DOMAIN backup'[j].old => g \in racing'[j]
        OBVIOUS
      <3>1. CASE g = f
        BY <2>1, <2>5, <2>7, <3>1
      <3>2. CASE g # f
        BY <1>0, <1>1, <2>1, <2>3, <2>5, <2>6, <3>2
      <3> QED
        BY <3>1, <3>2
    <2> HIDE DEF Reached
    <2> QED
      BY <1>1, <1>2, <2>1, <2>2, <2>3, <2>8
  <1>12. CASE RestoreUnits(w) \/ InstallUnits(w)
    <2>1. UNCHANGED <<tree, backup, racing>> /\ (Went(w, "ok", {}) \/ Went(w, "failed", {}))
      BY <1>12, RestoreUnitsDoes, InstallUnitsDoes
    <2> QED
      BY <1>4, <1>5, <2>1 DEF Went, Moved, Overwrites
  <1>13. CASE Moves(w)
    <2>1. /\ UNCHANGED <<tree, backup, racing>>
          /\ \/ Overwrites(cmd[w]) /\ Went(w, "undo", Entries(c.from, k))
             \/ c.kind = "rollback" /\ Went(w, "undo", DOMAIN backup[k].old)
             \/ Went(w, "ok", {})
             \/ Went(w, "failed", {})
      BY <1>13, MovesDo DEF host, hist, Overwrites
    <2> QED
      BY <1>4, <1>5, <2>1 DEF Went, Moved, Overwrites
  <1> HIDE DEF c, k
  <1> QED
    BY <1>6, <1>7, <1>8, <1>9, <1>10, <1>11, <1>12, <1>13, CommandCases

LEMMA HotfixOfOthers ==
    ASSUME TypeInv, CmdInv, BackupInv, HotfixInv, Others
    PROVE  HotfixInv'
  <1>0. /\ UNCHANGED <<tree, backup, racing, edited>>
        /\ "awaited" \in Where /\ \A u \in Where : cmd[u] \in Commands
    BY OthersKeep DEF TypeInv, Where
  <1>1. \A k \in Release : InUse(k)' => InUse(k) \/ DOMAIN backup[k].old = {}
    BY InUseOfOthers DEF BackupInv
  <1>2. \A v \in Where : Overwrites(cmd'[v]) => \E u \in Where : cmd'[v] = cmd[u]
    <2>1. ~Overwrites(Nobody) /\ \A kind : ~Overwrites(Started(kind))
      BY DEF Overwrites, Nobody, Started
    <2>2. ~Overwrites(Failing(cmd["awaited"]))
      BY <1>0 DEF Overwrites, Failing, Commands
    <2> QED
      BY <2>1, <2>2, OthersCommands DEF Others, Fresh, Where
  <1> QED
    BY <1>0, <1>1, <1>2 DEF HotfixInv, Overwrites

LEMMA HotfixStep ==
    ASSUME TypeInv, CmdInv, BackupInv, HotfixInv, [Next]_vars
    PROVE  HotfixInv'
  <1>1. ASSUME NEW f \in File, Edit(f) PROVE HotfixInv'
    <2>1. /\ UNCHANGED <<backup, cmd, pc, target>> /\ edited' = edited \cup {f}
          /\ tree' = [tree EXCEPT ![f] = Edited] /\ racing' = Raced(f)
      BY <1>1 DEF Edit, job
    <2>2. \A g \in File \ {f} : tree'[g] = tree[g]
      BY <2>1 DEF TypeInv
    <2>3. \A k \in Release : InUse(k)' = InUse(k)
      BY <2>1 DEF InUse
    <2>4. /\ \A v \in Where : Overwrites(cmd[v]) => f \in racing'[cmd[v].rel]
          /\ \A k \in Release : InUse(k) /\ f \in DOMAIN backup[k].old => f \in racing'[k]
          /\ \A k \in Release : racing[k] \subseteq racing'[k]
          /\ \A v \in Where : cmd[v].rel \in Release
      BY <2>1, RacedIsInReach, CommandFacts
    <2> QED
      BY <2>1, <2>2, <2>3, <2>4 DEF HotfixInv, Overwrites
  <1>2. UNCHANGED vars => HotfixInv'
    BY DEF HotfixInv, InUse, vars, host, job, hist
  <1> QED
    BY <1>1, <1>2, NextCases, HotfixOfCommands, HotfixOfOthers

(***************************************************************************)
(* What the files may hold.                                                *)
(***************************************************************************)

\* No command is left of a deployment that awaits none.
LEMMA NoneIsMine ==
    ASSUME TypeInv, CmdInv, pc \in {"preflight", "guard", "restart", "verify", "state", "write", "close"},
           NEW v \in Where
    PROVE  ~Mine(v)
  <1>1. pc \notin Remote
    BY DEF Remote
  <1> QED
    BY <1>1 DEF CmdInv, Mine, Where

LEMMA OpenOfCommands ==
    ASSUME TypeInv, CmdInv, NEW w \in Where, Command(w)
    PROVE  /\ Open' => Open
           /\ cmd[w].of = jobs => Open /\ cmd[w].rel = target
  <1>1. cmd[w].kind # "none"
    BY CommandsKeep
  <1> QED
    BY <1>1, MineWas DEF Open, Mine

\* A deployment can change the tree once its apply runs, and again when it is
\* interrupted after current.json was written.
LEMMA OpenOfOthers ==
    ASSUME TypeInv, CmdInv, Others, Open'
    PROVE  \/ Open
           \/ Guard /\ ~backup[target].dir
           \/ InterruptedLate
  <1>0. /\ "awaited" \in Where /\ \A u \in Where : cmd[u] \in Commands
    BY DEF TypeInv, Where
  <1>1. ASSUME pc' \in Acting \ {"close"}
        PROVE  \/ Open
               \/ Guard /\ ~backup[target].dir
               \/ InterruptedLate
    <2>1. \/ pc \in Acting \ {"close"} \/ (Guard /\ ~backup[target].dir)
          \/ InterruptedLate
      BY <1>1 DEF Others, Deployer, Begin, Preflight, Guard, Applied, Synced, Restart, Verified,
         TruncateState, WriteState, Close, CommandFailed, VerificationFails, Interrupted,
         InterruptedLate, RolledBack,
         RolledBackStale, NotRolledBack, StartRollback, End, ConnectionLost, DeployerDies,
         HostRestarts, HostRestartsWriting, job, Acting
    <2> QED
      BY <1>1, <2>1 DEF Open
  <1>2. ASSUME NEW v \in Where, Mine(v)'
        PROVE  Open \/ pc' \in Acting \ {"close"}
    <2>1. UNCHANGED jobs \/ jobs' = jobs + 1
      BY OthersKeep DEF Begin
    <2>2. CASE \E u \in Where : cmd'[v] = cmd[u]
      BY <1>0, <1>2, <2>1, <2>2 DEF Mine, CmdInv, TypeInv, Commands, Open
    <2>3. CASE cmd'[v] = Failing(cmd["awaited"]) /\ HostRestarts
      <3>1. UNCHANGED jobs /\ Failing(cmd["awaited"]).kind = cmd["awaited"].kind
            /\ Failing(cmd["awaited"]).of = cmd["awaited"].of
        BY <1>0, <2>3 DEF HostRestarts, job, Failing, Commands
      <3> QED
        BY <1>0, <1>2, <2>3, <3>1 DEF Mine, Open
    <2>4. CASE v = "awaited" /\ Fresh(cmd'[v])
      <3>1. cmd'[v].kind # "none"
        BY <1>2 DEF Mine
      <3> QED
        BY <2>4, <3>1, PlacesOfOthers DEF Remote, Acting
    <2>5. cmd'[v] # Nobody
      BY <1>2 DEF Mine, Nobody
    <2> QED
      BY <2>2, <2>3, <2>4, <2>5, <1>0, OthersCommands DEF Others, Where
  <1> QED
    BY <1>1, <1>2 DEF Open

LEMMA BetweenGrows ==
    ASSUME newest \in Release, newest' \in Release, newest <= newest', NEW b \in Release, NEW f
    PROVE  Between(b, f) \subseteq Between(b, f)'
  <1>1. \A k : k \in b..newest => k \in b..newest'
    BY DeployAssumption DEF Release
  <1> QED
    BY <1>1 DEF Between

LEMMA TargetIsBetween ==
    ASSUME NEW b \in Release, target \in Release, newest \in Release,
           b <= target, target <= newest, NEW f
    PROVE  Version[target][f] \in Between(b, f)
  <1>1. target \in b..newest
    BY DeployAssumption DEF Release
  <1> QED
    BY <1>1 DEF Between

LEMMA RangeOfCommands ==
    ASSUME TypeInv, CmdInv, BackupInv, RangeInv, NEW w \in Where, Command(w)
    PROVE  RangeInv'
  <1> DEFINE c == cmd[w]
             k == c.rel
             Began(f) == f \in File \ before.stranded
             In(x, f) == x \in Between(before.floor, f)
  <1>0. /\ k \in Release /\ target \in Release /\ base \in Release /\ newest \in Release
        /\ before.floor \in Release
        /\ UNCHANGED <<pc, base, target, late, current, newest, floor, before, stranded>>
        /\ astray => astray'
        /\ Open' => Open
        /\ c.of = jobs => Open /\ k = target
    BY CommandsKeep, CommandFacts, OpenOfCommands DEF TypeInv, Befores
  <1>1. \A b, f : Between(b, f)' = Between(b, f)
    BY <1>0 DEF Between
  <1>2. SUFFICES ASSUME ~astray'
                 PROVE  /\ \A f \in File \ stranded : tree'[f] \in Between(floor, f)
                        /\ Open \/ pc = "close" =>
                             \A f \in File \ before.stranded :
                                /\ In(tree'[f], f)
                                /\ f \in DOMAIN backup'[target].old => In(backup'[target].old[f], f)
    BY <1>0, <1>1 DEF RangeInv, BeganBetween
  <1>3. /\ \A f \in File \ stranded : tree[f] \in Between(floor, f)
        /\ Open \/ pc = "close" =>
              \A f \in File \ before.stranded :
                 /\ In(tree[f], f)
                 /\ f \in DOMAIN backup[target].old => In(backup[target].old[f], f)
        /\ Open => /\ floor = before.floor /\ stranded = before.stranded
                   /\ target <= newest /\ before.floor <= base
        /\ base <= target
    BY <1>0, <1>2 DEF RangeInv, BeganBetween, TypeInv
  <1> DEFINE Goal ==
        /\ \A f \in File \ stranded : tree'[f] \in Between(floor, f)
        /\ Open \/ pc = "close" =>
             \A f \in File \ before.stranded :
                /\ In(tree'[f], f)
                /\ f \in DOMAIN backup'[target].old => In(backup'[target].old[f], f)
  <1>4. ASSUME NEW f \in File, Publish(w, f) \/ Undo(w, f)
        PROVE  Goal
    <2>1. /\ UNCHANGED backup /\ f \in c.todo /\ c.step \in {"publish", "undo"}
          /\ \/ tree' = [tree EXCEPT ![f] = Version[k][f]]
             \/ tree' = [tree EXCEPT ![f] = backup[k].old[f]]
          /\ astray' = (astray \/ c.of # jobs)
      BY <1>4, PublishDoes, UndoDoes
    <2>2. k = target /\ Open
      BY <1>0, <1>2, <2>1
    <2>3. f \in DOMAIN backup[k].old
      BY <2>1 DEF BackupInv, BackupOf, Suits
    <2>4. f \notin stranded => In(tree'[f], f)
      <3>1. before.floor <= target
        BY <1>0, <1>3, <2>2 DEF Release
      <3>2. Version[target][f] \in Between(before.floor, f)
        BY <1>0, <1>3, <2>2, <3>1, TargetIsBetween
      <3>3. f \notin stranded => In(backup[k].old[f], f)
        BY <1>3, <2>2, <2>3
      <3>4. tree'[f] \in {Version[k][f], backup[k].old[f]}
        BY <2>1 DEF TypeInv
      <3> QED
        BY <2>2, <3>2, <3>3, <3>4
    <2>5. \A g \in File \ {f} : tree'[g] = tree[g]
      BY <2>1 DEF TypeInv
    <2> HIDE DEF In
    <2>6. \A g \in File \ before.stranded : In(tree'[g], g)
      BY <1>3, <2>2, <2>4, <2>5
    <2>7. \A g \in File \ stranded : tree'[g] \in Between(floor, g)
      BY <1>3, <2>2, <2>6 DEF In
    <2> QED
      BY <1>3, <2>1, <2>2, <2>6, <2>7
  <1>5. ASSUME NEW f \in File, Copy(w, f)
        PROVE  Goal
    <2>1. /\ UNCHANGED tree /\ SameBackups(k)
          /\ DOMAIN backup'[k].old = DOMAIN backup[k].old \cup {f}
          /\ backup'[k].old[f] = tree[f]
          /\ \A g \in DOMAIN backup[k].old \ {f} : backup'[k].old[g] = backup[k].old[g]
      BY <1>5, CopyDoes
    <2> HIDE DEF In
    <2>2. CASE k = target
      BY <1>3, <2>1, <2>2
    <2>3. CASE k # target
      BY <1>0, <1>3, <2>1, <2>3 DEF SameBackups
    <2> QED
      BY <2>2, <2>3
  <1>6. ASSUME UNCHANGED tree,
               backup'[target].old = backup[target].old \/ DOMAIN backup'[target].old = {}
        PROVE  Goal
    BY <1>3, <1>6
  <1>7. ASSUME \/ ApplyStarts(w) \/ WriteReceipt(w) \/ PreparationFails(w) \/ Moves(w)
               \/ RestoreUnits(w) \/ RecordUnits(w) \/ InstallUnits(w)
        PROVE  /\ UNCHANGED tree
               /\ backup'[target].old = backup[target].old \/ DOMAIN backup'[target].old = {}
    <2>1. CASE ApplyStarts(w) \/ WriteReceipt(w) \/ PreparationFails(w) \/ RecordUnits(w)
      <3>1. /\ UNCHANGED tree
            /\ \/ UNCHANGED backup
               \/ /\ SameBackups(k)
                  /\ backup'[k].old = backup[k].old \/ DOMAIN backup'[k].old = {}
        BY <2>1, ApplyStartsDoes, WriteReceiptDoes, PreparationFailsDoes, RecordUnitsDoes
      <3> QED
        BY <1>0, <3>1 DEF SameBackups
    <2>2. CASE RestoreUnits(w) \/ InstallUnits(w) \/ Moves(w)
      BY <2>2, RestoreUnitsDoes, InstallUnitsDoes, MovesDo DEF host
    <2> QED
      BY <1>7, <2>1, <2>2
  <1>8. Goal
    <2> HIDE DEF c, k, Goal
    <2> QED
      BY <1>4, <1>5, <1>6, <1>7, CommandCases
  <1> QED
    BY <1>8

LEMMA RangeOfOthers ==
    ASSUME TypeInv, CmdInv, BackupInv, RangeInv, TargetInv, TypeInv', CmdInv', Others
    PROVE  RangeInv'
  <1>0. /\ UNCHANGED <<tree, backup, astray>>
        /\ target \in Release /\ base \in Release /\ newest \in Release /\ floor \in Release
        /\ target' \in Release /\ newest' \in Release /\ before.floor \in Release
        /\ current \in Release \cup {NoRelease} /\ NoRelease \notin Release
    <2>1. NoRelease \notin Release
      BY DeployAssumption DEF NoRelease, Release
    <2> QED
      BY <2>1, OthersKeep DEF TypeInv, Befores
  <1>1. /\ base <= target
        /\ current # NoRelease => floor <= current
        /\ pc \in {"preflight", "guard"} => current = base /\ floor <= base
        /\ Open \/ pc = "close" => target <= newest /\ before.floor <= base
        /\ Open => /\ floor = before.floor /\ stranded = before.stranded
                   /\ current \in {base, NoRelease} \/ (late /\ current = target)
        /\ pc = "close" => current = target /\ floor = target
        /\ pc = "write" => current = NoRelease
        /\ current = floor \/ current = NoRelease \/ late
        /\ ~astray =>
              /\ \A f \in File \ stranded : tree[f] \in Between(floor, f)
              /\ Open \/ pc = "close" => BeganBetween
    BY DEF RangeInv
  <1>2. CASE Guard
    <2>1. /\ pc = "guard" /\ UNCHANGED <<base, target, current, floor, stranded, late>>
          /\ pc' \in {"apply", "idle"}
          /\ ~backup[target].dir => /\ newest' = IF target > newest THEN target ELSE newest
                                    /\ before'.floor = floor /\ before'.stranded = stranded
          /\ backup[target].dir => pc' = "idle" /\ UNCHANGED newest
      BY <1>2 DEF Guard, End, host
    <2>2. newest <= newest' /\ (~backup[target].dir => target <= newest')
      BY <1>0, <2>1, DeployAssumption DEF Release
    <2>3. Open' => ~backup[target].dir /\ DOMAIN backup[target].old = {}
      <3>1. ~Open
        BY <2>1, NoneIsMine DEF Open, Acting
      <3>2. ~InterruptedLate
        BY <2>1 DEF InterruptedLate
      <3> QED
        BY <1>0, <3>1, <3>2, OpenOfOthers DEF BackupInv
    <2>4. ~astray => \A f \in File \ stranded : tree[f] \in Between(floor, f)'
      <3>1. \A f : Between(floor, f) \subseteq Between(floor, f)'
        BY <1>0, <2>1, <2>2, BetweenGrows
      <3> QED
        BY <1>1, <3>1
    <2>5. ~astray /\ Open' => BeganBetween'
      BY <1>0, <2>1, <2>3, <2>4 DEF BeganBetween
    <2> QED
      BY <1>0, <1>1, <2>1, <2>2, <2>3, <2>4, <2>5 DEF RangeInv
  <1>3. CASE TruncateState
    <2>1. /\ pc = "state" /\ pc' = "write" /\ current' = NoRelease
          /\ UNCHANGED <<base, target, newest, late, floor, before, stranded>>
      BY <1>3 DEF TruncateState, hist
    <2>2. Open
      BY <2>1 DEF Open, Acting
    <2>3. BeganBetween' = BeganBetween /\ \A b, f : Between(b, f)' = Between(b, f)
      BY <1>0, <2>1 DEF BeganBetween, Between
    <2> QED
      BY <1>0, <1>1, <2>1, <2>2, <2>3 DEF RangeInv
  <1>4. CASE WriteState
    <2>1. /\ pc = "write" /\ pc' = "close" /\ current' = target /\ floor' = target
          /\ stranded' = {f \in File \ Entries(base, target) : tree[f] # Absent}
          /\ UNCHANGED <<base, target, newest, before, cmd, jobs>>
      BY <1>4 DEF WriteState
    <2>2. Open /\ target <= newest
      BY <1>1, <2>1 DEF Open, Acting
    <2>3. ~Open'
      <3>1. \A v \in Where : ~Mine(v)
        BY <2>1, NoneIsMine
      <3> QED
        BY <2>1, <3>1 DEF Open, Mine
    <2>4. ~astray => \A f \in File \ stranded' : tree[f] \in Between(target, f)
      <3> SUFFICES ASSUME ~astray, NEW f \in File \ stranded' PROVE tree[f] \in Between(target, f)
        OBVIOUS
      <3>1. CASE f \in Entries(base, target)
        <4>1. tree[f] \in {Version[target][f], Edited}
          BY <2>1, <3>1 DEF TargetInv, OnTarget, AfterApply
        <4>2. Version[target][f] \in Between(target, f)
          BY <1>0, <2>2, TargetIsBetween DEF Release
        <4> QED
          BY <4>1, <4>2 DEF Between
      <3>2. CASE f \notin Entries(base, target)
        BY <2>1, <3>2 DEF Between
      <3> QED
        BY <3>1, <3>2
    <2>5. BeganBetween' = BeganBetween /\ \A b, f : Between(b, f)' = Between(b, f)
      BY <1>0, <2>1 DEF BeganBetween, Between
    <2>6. target <= target
      BY <1>0 DEF Release
    <2> QED
      BY <1>0, <1>1, <2>1, <2>2, <2>3, <2>4, <2>5, <2>6 DEF RangeInv
  <1>5. ASSUME NEW t \in Release, Begin(t) PROVE RangeInv'
    <2>1. /\ pc = "idle" /\ t >= current /\ pc' = "preflight" /\ base' = current /\ target' = t
          /\ current # NoRelease
          /\ UNCHANGED <<current, newest, floor, stranded, late>>
      BY <1>5 DEF Begin, host, hist
    <2>2. ~Open'
      <3>1. \A v \in Where : ~Mine(v)'
        BY <2>1, NoneIsMine, <1>5 DEF CmdInv, Mine, Remote, Where
      <3> QED
        BY <2>1, <3>1 DEF Open, Acting
    <2>3. \A b, f : Between(b, f)' = Between(b, f)
      BY <2>1 DEF Between
    <2>4. current <= t /\ floor <= current
      BY <1>0, <1>1, <2>1 DEF Release
    <2> QED
      BY <1>0, <1>1, <2>1, <2>2, <2>3, <2>4 DEF RangeInv
  <1>6. CASE InterruptedLate
    <2>1. /\ pc = "close" /\ pc' = "rollback" /\ late'
          /\ floor' = before.floor /\ stranded' = before.stranded
          /\ UNCHANGED <<current, base, target, newest, before>>
      BY <1>6 DEF InterruptedLate, StartRollback, host
    <2>2. BeganBetween' = BeganBetween /\ \A b, f : Between(b, f)' = Between(b, f)
      BY <1>0, <2>1 DEF BeganBetween, Between
    <2>3. before.floor <= target /\ current = target
      BY <1>0, <1>1, <2>1 DEF Release
    <2>4. ~astray => \A f \in File \ before.stranded : tree[f] \in Between(before.floor, f)
      BY <1>1, <2>1 DEF BeganBetween
    <2> QED
      BY <1>0, <1>1, <2>1, <2>2, <2>3, <2>4 DEF RangeInv
  <1>7. CASE ~(\/ Guard \/ TruncateState \/ WriteState \/ InterruptedLate
               \/ \E t \in Release : Begin(t))
    <2>1. UNCHANGED <<current, late, floor, stranded, before, newest, base, target, jobs>>
      BY <1>7, OthersKeep
    <2>2. Open' => Open
      BY <1>7, OpenOfOthers
    <2>3. /\ pc' = "close" => pc = "close"
          /\ pc' = "write" => pc = "write"
          /\ pc' \in {"preflight", "guard"} => pc \in {"preflight", "guard"}
      BY <1>7 DEF Others, Deployer, Preflight, Applied, Synced, Restart, Verified,
         Close, CommandFailed, VerificationFails, Interrupted, RolledBack,
         RolledBackStale, NotRolledBack, StartRollback, End, ConnectionLost, DeployerDies,
         HostRestarts, HostRestartsWriting, job
    <2>4. BeganBetween' = BeganBetween /\ \A b, f : Between(b, f)' = Between(b, f)
      BY <1>0, <2>1 DEF BeganBetween, Between
    <2> HIDE DEF BeganBetween, Open
    <2> QED
      BY <1>0, <1>1, <2>1, <2>2, <2>3, <2>4 DEF RangeInv
  <1> QED
    BY <1>2, <1>3, <1>4, <1>5, <1>6, <1>7

LEMMA RangeOfEdits ==
    ASSUME TypeInv, RangeInv, NEW f \in File, Edit(f)
    PROVE  RangeInv'
  <1>1. /\ UNCHANGED <<backup, cmd, pc, base, target, jobs, current, late, astray, newest>>
        /\ UNCHANGED <<floor, before, stranded>>
        /\ tree' = [tree EXCEPT ![f] = Edited]
    BY DEF Edit, job
  <1>2. Open' = Open
    BY <1>1 DEF Open, Mine
  <1>3. \A g \in File : tree'[g] = tree[g] \/ tree'[g] = Edited
    BY <1>1 DEF TypeInv
  <1>4. \A b, g : Edited \in Between(b, g)
    BY DEF Between
  <1>5. \A b, g : Between(b, g)' = Between(b, g)
    BY <1>1 DEF Between
  <1>6. BeganBetween => BeganBetween'
    BY <1>1, <1>3, <1>4, <1>5 DEF BeganBetween
  <1> QED
    BY <1>1, <1>2, <1>3, <1>4, <1>5, <1>6 DEF RangeInv

LEMMA RangeStep ==
    ASSUME TypeInv, CmdInv, BackupInv, RangeInv, TargetInv, TypeInv', CmdInv', [Next]_vars
    PROVE  RangeInv'
  <1>1. UNCHANGED vars => RangeInv'
    BY DEF RangeInv, BeganBetween, Open, Mine, Between, vars, host, job, hist
  <1> QED
    BY <1>1, NextCases, RangeOfCommands, RangeOfOthers, RangeOfEdits

(***************************************************************************)
(* The files of the target, once applied.                                  *)
(***************************************************************************)

\* A command that changes no file does not end apply, and begins to replace
\* files with all of them.
LEMMA ApplyEndsByPublishing ==
    ASSUME TypeInv, CmdInv, NEW w \in Where, Command(w), cmd[w].kind = "apply",
           ~\E f \in File : Publish(w, f) \/ Undo(w, f), cmd'[w] # Nobody
    PROVE  /\ UNCHANGED tree /\ cmd'[w].step # "ok"
           /\ cmd'[w].step = "publish" => cmd'[w].todo = Entries(cmd[w].from, cmd[w].rel)
  <1>1. CASE ApplyStarts(w)
    BY <1>1, ApplyStartsDoes DEF Went, Moved
  <1>2. ASSUME NEW f \in File, Copy(w, f)
        PROVE  /\ UNCHANGED tree /\ cmd'[w].step # "ok" /\ cmd'[w].step # "publish"
    BY <1>2, CopyDoes DEF Went, Moved
  <1>3. CASE WriteReceipt(w)
    BY <1>3, WriteReceiptDoes DEF Went, Moved
  <1>4. CASE PreparationFails(w)
    BY <1>4, PreparationFailsDoes DEF Went, Moved
  <1>5. CASE Moves(w)
    BY <1>5, MovesDo DEF Went, Moved, host
  <1>6. CASE RestoreUnits(w)
    BY <1>6, RestoreUnitsDoes DEF Went, Moved
  <1>7. ~RecordUnits(w) /\ ~InstallUnits(w)
    BY RecordUnitsDoes, InstallUnitsDoes
  <1> QED
    BY <1>1, <1>2, <1>3, <1>4, <1>5, <1>6, <1>7, CommandCases

\* Without a file replaced or restored the tree stays.
LEMMA TreeStays ==
    ASSUME NEW w \in Where, Command(w), ~\E f \in File : Publish(w, f) \/ Undo(w, f)
    PROVE  UNCHANGED tree
  BY CommandCases DEF ApplyStarts, Copy, WriteReceipt, PreparationFails, Moves,
     PublishingFails, RollbackStarts, RollbackFails, SyncFails, RestoreUnits, RecordUnits,
     InstallUnits, host

LEMMA TargetOfCommands ==
    ASSUME TypeInv, CmdInv, BackupInv, TargetInv, NEW w \in Where, Command(w)
    PROVE  TargetInv'
  <1> DEFINE c == cmd[w]
             a == cmd["awaited"]
  <1>0. /\ UNCHANGED <<pc, base, target, stranded, jobs>> /\ (astray => astray')
        /\ \A v \in Where \ {w} : cmd'[v] = cmd[v]
        /\ c.kind # "none" /\ target \in Release /\ base \in Release
        /\ "awaited" \in Where /\ "stray" \in Where /\ jobs \in Nat /\ c.of \in Nat
        /\ tree \in [File -> Content]
    BY CommandsKeep, CommandFacts DEF TypeInv, Where
  <1>1. SUFFICES ASSUME ~astray', pc = "apply" \/ pc \in AfterApply PROVE TargetInv'
    BY <1>0 DEF TargetInv, AfterApply
  <1>2. ~astray
    BY <1>0, <1>1 DEF TypeInv
  <1>3. c.of = jobs => w = "awaited" /\ c.kind = pc /\ c.rel = target /\ c.from = base
    BY <1>0, <1>1 DEF CmdInv, Mine, Where, AfterApply, Remote
  <1>4. pc = "apply" => a.kind = "apply" /\ a.rel = target /\ a.from = base
    BY <1>0 DEF CmdInv, Mine, Remote
  <1>5. ASSUME NEW f \in File, Publish(w, f) PROVE TargetInv'
    <2>1. /\ c.kind = "apply" /\ c.step = "publish" /\ f \in c.todo
          /\ tree' = [tree EXCEPT ![f] = Version[c.rel][f]]
          /\ Went(w, IF c.todo = {f} THEN "ok" ELSE "publish", c.todo \ {f})
          /\ astray' = (astray \/ c.of # jobs)
      BY <1>5, PublishDoes
    <2>2. w = "awaited" /\ pc = "apply" /\ c.rel = target /\ c.from = base
      BY <1>1, <1>3, <2>1
    <2>3. \A g \in Entries(base, target) \ c.todo : OnTarget(g)
      BY <1>2, <2>1, <2>2 DEF TargetInv
    <2>4. \A g \in Entries(base, target) \ (c.todo \ {f}) :
             tree'[g] \in {Version[target][g], Edited}
      BY <1>0, <2>1, <2>2, <2>3, EntriesAreFiles DEF OnTarget
    <2>5. /\ cmd'["awaited"].todo = c.todo \ {f}
          /\ cmd'["awaited"].step = "ok" => c.todo = {f}
      BY <2>1, <2>2 DEF Went, Moved
    <2> QED
      BY <1>0, <1>1, <2>2, <2>4, <2>5 DEF TargetInv, OnTarget, AfterApply
  <1>6. ASSUME NEW f \in File, Undo(w, f) PROVE TargetInv'
    <2>1. /\ c.step = "undo"
          /\ Went(w, IF c.todo = {f} THEN "units" ELSE "undo", c.todo \ {f})
          /\ astray' = (astray \/ c.of # jobs)
      BY <1>6, UndoDoes
    <2>2. w = "awaited" /\ c.kind = pc
      BY <1>1, <1>3, <2>1
    <2>3. pc = "apply"
      BY <1>1, <2>1, <2>2, CommandFacts DEF CmdInv, StepsOf, Kinds, AfterApply
    <2>4. cmd'["awaited"].step \in {"units", "undo"}
      BY <2>1, <2>2 DEF Went, Moved
    <2> QED
      BY <1>0, <2>3, <2>4 DEF TargetInv, AfterApply
  <1>7. ASSUME ~\E f \in File : Publish(w, f) \/ Undo(w, f) PROVE TargetInv'
    <2>1. UNCHANGED tree
      BY <1>7, TreeStays
    <2>2. CASE pc = "apply" /\ w = "awaited"
      <3>1. a.kind = "apply" /\ a.rel = target /\ a.from = base
        BY <1>4, <2>2
      <3>2. cmd'[w] # Nobody
        BY <1>0, <2>2, CommandsKeep DEF Nobody
      <3>3. cmd'[w].step # "ok" /\ (cmd'[w].step = "publish" => cmd'[w].todo = Entries(base, target))
        BY <1>7, <2>2, <3>1, <3>2, ApplyEndsByPublishing
      <3> QED
        BY <1>0, <2>2, <3>3 DEF TargetInv, AfterApply
    <2>3. CASE pc # "apply" \/ w # "awaited"
      <3>1. pc = "apply" => cmd'["awaited"] = cmd["awaited"]
        BY <1>0, <2>3
      <3> QED
        BY <1>0, <1>2, <2>1, <3>1 DEF TargetInv, OnTarget, AfterApply
    <2> QED
      BY <2>2, <2>3
  <1> HIDE DEF c, a
  <1> QED
    BY <1>5, <1>6, <1>7

LEMMA TargetOfOthers ==
    ASSUME TypeInv, CmdInv, TargetInv, Others
    PROVE  TargetInv'
  <1>0. /\ UNCHANGED <<tree, astray>> /\ astray \in BOOLEAN
        /\ "awaited" \in Where /\ cmd["awaited"] \in Commands
    BY OthersKeep DEF TypeInv, Where
  <1>1. SUFFICES ASSUME ~astray, pc' = "apply" \/ pc' \in AfterApply PROVE TargetInv'
    BY <1>0 DEF TargetInv, AfterApply
  <1>2. CASE pc' = "apply"
    <2>1. \/ Guard /\ Run("apply")
          \/ HostRestarts /\ UNCHANGED pc
      BY <1>2 DEF Others, Deployer, Begin, Preflight, Guard, Applied, Synced, Restart, Verified,
         TruncateState, WriteState, Close, CommandFailed, VerificationFails, Interrupted,
         InterruptedLate, RolledBack,
         RolledBackStale, NotRolledBack, StartRollback, End, ConnectionLost, DeployerDies,
         HostRestarts, HostRestartsWriting, job
    <2>2. CASE Guard /\ Run("apply")
      <3>1. cmd'["awaited"].step = "start"
        BY <2>2, RunStarts DEF Started, Kinds
      <3> QED
        BY <1>2, <3>1 DEF TargetInv, AfterApply
    <2>3. CASE HostRestarts /\ UNCHANGED pc
      <3>1. UNCHANGED <<base, target, stranded>>
        BY <2>3 DEF HostRestarts, job, hist
      <3>2. cmd'["awaited"] = cmd["awaited"] \/ cmd'["awaited"] = Failing(cmd["awaited"])
        BY <2>3 DEF HostRestarts, Failing
      <3>3. Failing(cmd["awaited"]).step = "failed"
        BY <1>0 DEF Failing, Commands
      <3> QED
        BY <1>0, <1>1, <1>2, <2>3, <3>1, <3>2, <3>3 DEF TargetInv, OnTarget, AfterApply
    <2> QED
      BY <2>1, <2>2, <2>3
  <1>3. CASE pc' \in AfterApply
    <2>1. /\ UNCHANGED <<base, target>>
          /\ pc \in AfterApply \/ (pc = "apply" /\ cmd["awaited"].step = "ok")
          /\ (pc = "close" /\ UNCHANGED stranded) \/ pc' # "close" \/ WriteState
      <3>1. \/ Applied \/ Synced \/ Restart \/ Verified \/ TruncateState \/ WriteState
            \/ (HostRestarts /\ UNCHANGED pc)
        BY <1>3 DEF AfterApply, Others, Deployer, Begin, Preflight, Guard, Applied, Synced,
           Restart, Verified, TruncateState, WriteState, Close, CommandFailed,
           VerificationFails, Interrupted, InterruptedLate, RolledBack, RolledBackStale,
           NotRolledBack, StartRollback, End, ConnectionLost, DeployerDies, HostRestarts,
           HostRestartsWriting, job
      <3> QED
        BY <1>3, <3>1 DEF AfterApply, Applied, Synced, Restart, Verified, TruncateState,
           WriteState, HostRestarts, Succeeded, job, hist
    <2>2. \A f \in Entries(base, target) : OnTarget(f)
      BY <1>1, <2>1 DEF TargetInv
    <2>3. ASSUME pc' = "close"
          PROVE  /\ stranded' \cap Entries(base, target) = {}
                 /\ \A f \in File \ (Entries(base, target) \cup stranded') :
                       tree[f] \in {Absent, Edited}
      <3>1. CASE WriteState
        BY <3>1 DEF WriteState
      <3>2. CASE ~WriteState
        BY <1>1, <2>1, <2>3, <3>2 DEF TargetInv
      <3> QED
        BY <3>1, <3>2
    <2> QED
      BY <1>0, <1>3, <2>1, <2>2, <2>3 DEF TargetInv, OnTarget, AfterApply
  <1> QED
    BY <1>1, <1>2, <1>3

LEMMA TargetStep ==
    ASSUME TypeInv, CmdInv, BackupInv, TargetInv, [Next]_vars
    PROVE  TargetInv'
  <1>1. ASSUME NEW f \in File, Edit(f) PROVE TargetInv'
    <2>1. /\ UNCHANGED <<cmd, pc, base, target, astray, stranded>>
          /\ tree' = [tree EXCEPT ![f] = Edited]
      BY <1>1 DEF Edit, job
    <2>2. \A g \in File : tree'[g] = tree[g] \/ tree'[g] = Edited
      BY <2>1 DEF TypeInv
    <2> QED
      BY <2>1, <2>2, EntriesAreFiles DEF TargetInv, OnTarget
  <1>2. UNCHANGED vars => TargetInv'
    BY DEF TargetInv, OnTarget, vars, host, job, hist
  <1> QED
    BY <1>1, <1>2, NextCases, TargetOfCommands, TargetOfOthers

(***************************************************************************)
(* What was there before, and what is reported.                            *)
(***************************************************************************)

LEMMA BeforeOfCommands ==
    ASSUME TypeInv, CmdInv, BackupInv, BeforeInv, NEW w \in Where, Command(w)
    PROVE  BeforeInv'
  <1> DEFINE c == cmd["awaited"]
             d == cmd'["awaited"]
             b == backup[target]
             n == backup'[target]
             Ok(x, f) == x = before.tree[f] \/ f \in edited
  <1>1. SUFFICES ASSUME ~strayed PROVE BeforeInv'
    <2>1. UNCHANGED strayed
      BY CommandsKeep
    <2> QED
      BY <2>1 DEF BeforeInv
  <1>2. /\ w = "awaited" /\ c.kind = pc /\ pc \in Remote /\ c.rel = target /\ c.from = base
        /\ c.kind # "none"
    <2>1. cmd["stray"].kind = "none" /\ cmd[w].kind # "none"
      BY <1>1, CommandsKeep DEF CmdInv
    <2>2. w = "awaited" /\ pc \in Remote
      BY <2>1 DEF CmdInv, Where
    <2> QED
      BY <2>1, <2>2 DEF CmdInv, Mine
  <1>3. /\ UNCHANGED <<pc, base, target, before, strayed, edited>>
        /\ target \in Release /\ tree \in [File -> Content] /\ before.tree \in [File -> Content]
        /\ DOMAIN b.old \subseteq File
    <2>1. /\ target \in Release /\ tree \in [File -> Content]
          /\ before.tree \in [File -> Content]
      BY DEF TypeInv, Befores
    <2>2. DOMAIN b.old \subseteq File
      BY <2>1, BackupFacts
    <2> QED
      BY <2>1, <2>2, CommandsKeep
  <1>4. /\ \A f \in DOMAIN b.old : Ok(b.old[f], f)
        /\ \A f \in File : ~b.receipt \/ f \notin DOMAIN b.old => Ok(tree[f], f)
        /\ b.unit \subseteq {before.unit}
        /\ b.unit = {} => unit = before.unit /\ c.step # "install"
        /\ pc = "apply" \/ (c.kind = "sync" /\ c.step = "start") => unit = before.unit
        /\ c.step = "undo" => \A f \in File \ c.todo : Ok(tree[f], f)
        /\ c.step = "units" => \A f \in File : Ok(tree[f], f)
    BY <1>1, <1>2 DEF BeforeInv, Restored, Remote, Acting
  <1>5. ASSUME /\ \A f \in DOMAIN n.old : Ok(n.old[f], f)
               /\ \A f \in File : ~n.receipt \/ f \notin DOMAIN n.old => Ok(tree'[f], f)
               /\ n.unit \subseteq {before.unit}
               /\ n.unit = {} => unit' = before.unit /\ d.step # "install"
               /\ pc = "apply" \/ (d.kind = "sync" /\ d.step = "start") => unit' = before.unit
               /\ d.step = "undo" => \A f \in File \ d.todo : Ok(tree'[f], f)
               /\ d.step = "units" => \A f \in File : Ok(tree'[f], f)
               /\ pc = "rollback" /\ d.step = "ok" =>
                     unit' = before.unit /\ \A f \in File : Ok(tree'[f], f)
               /\ pc = "sync" /\ d.step = "ok" => unit' = target
        PROVE  BeforeInv'
    <2>1. pc \notin AfterApply \ {"sync"}
      BY <1>2 DEF AfterApply, Remote
    <2> QED
      BY <1>2, <1>3, <1>5, <2>1 DEF BeforeInv, Restored, Remote
  <1>6. /\ c.step = "copy" => ~b.receipt /\ b.unit = {}
        /\ c.kind = "apply" /\ c.step \in {"publish", "undo", "units", "ok"} =>
              b.receipt /\ DOMAIN b.old = Entries(base, target)
        /\ c.step \in {"publish", "undo"} => c.todo \subseteq DOMAIN b.old /\ b.receipt
        /\ c.step \in {"undo", "units"} \/ c.kind = "sync" => b.receipt
        /\ ~b.receipt => b.unit = {}
    <2>1. Suits(b, c)
      BY <1>2 DEF BackupInv, BackupOf
    <2>2. c.step = "publish" => c.kind = "apply"
      BY <1>2 DEF CmdInv, StepsOf, Remote
    <2>3. ~b.receipt => b.unit = {}
      BY <1>3 DEF BackupInv
    <2> QED
      BY <1>2, <2>1, <2>2, <2>3 DEF Suits
  <1>7. \A step, todo : Went(w, step, todo) =>
           d.kind = c.kind /\ d.step = step /\ d.todo = todo
    BY <1>2 DEF Went, Moved
  <1> HIDE DEF c, d, b, n, Ok
  <1>8. CASE ApplyStarts(w)
    <2>1. /\ UNCHANGED <<tree, unit>> /\ pc = "apply" /\ d.step \in {"copy", "failed"}
          /\ n.old = b.old /\ n.receipt = b.receipt /\ n.unit = b.unit
      BY <1>2, <1>7, <1>8, ApplyStartsDoes DEF b, n, c
    <2> QED
      BY <1>4, <1>5, <2>1
  <1>9. ASSUME NEW f \in File, Copy(w, f) PROVE BeforeInv'
    <2>1. /\ UNCHANGED <<tree, unit>> /\ pc = "apply" /\ c.step = "copy" /\ d.step = "copy"
          /\ n.receipt = b.receipt /\ n.unit = b.unit
          /\ DOMAIN n.old = DOMAIN b.old \cup {f} /\ n.old[f] = tree[f]
          /\ \A g \in DOMAIN b.old \ {f} : n.old[g] = b.old[g]
      <3>1. Went(w, "copy", cmd[w].todo \ {f}) /\ cmd[w].kind = "apply"
        BY <1>9, CopyDoes
      <3>2. d.step = "copy" /\ pc = "apply"
        BY <1>2, <1>7, <3>1 DEF c
      <3>3. /\ UNCHANGED <<tree, unit>> /\ cmd[w].step = "copy"
            /\ backup'[target].receipt = backup[target].receipt
            /\ backup'[target].unit = backup[target].unit
            /\ DOMAIN backup'[target].old = DOMAIN backup[target].old \cup {f}
            /\ backup'[target].old[f] = tree[f]
            /\ \A g \in DOMAIN backup[target].old \ {f} :
                   backup'[target].old[g] = backup[target].old[g]
        <4>1. /\ UNCHANGED <<tree, unit>> /\ cmd[w].step = "copy"
              /\ backup'[cmd[w].rel].receipt = backup[cmd[w].rel].receipt
              /\ backup'[cmd[w].rel].unit = backup[cmd[w].rel].unit
              /\ DOMAIN backup'[cmd[w].rel].old = DOMAIN backup[cmd[w].rel].old \cup {f}
              /\ backup'[cmd[w].rel].old[f] = tree[f]
              /\ \A g \in DOMAIN backup[cmd[w].rel].old \ {f} :
                     backup'[cmd[w].rel].old[g] = backup[cmd[w].rel].old[g]
          BY <1>9, CopyDoes
        <4>2. cmd[w].rel = target
          BY <1>2 DEF c
        <4> QED
          BY <4>1, <4>2
      <3> QED
        BY <1>2, <3>2, <3>3 DEF b, n, c
    <2> QED
      BY <1>4, <1>5, <1>6, <2>1
  <1>10. CASE WriteReceipt(w)
    <2>1. /\ UNCHANGED <<tree, unit>> /\ pc = "apply" /\ c.step = "copy" /\ d.step = "publish"
          /\ n.old = b.old /\ n.unit = b.unit /\ n.receipt
      BY <1>2, <1>7, <1>10, WriteReceiptDoes DEF b, n, c
    <2> QED
      BY <1>4, <1>5, <1>6, <2>1
  <1>11. CASE PreparationFails(w)
    <2>1. /\ UNCHANGED <<tree, unit>> /\ pc = "apply" /\ c.step = "copy" /\ d.step = "failed"
          /\ ~n.receipt /\ DOMAIN n.old = {} /\ n.unit = {}
      BY <1>2, <1>7, <1>11, PreparationFailsDoes DEF b, n, c
    <2> QED
      BY <1>4, <1>5, <1>6, <2>1
  <1>12. ASSUME NEW f \in File, Publish(w, f) PROVE BeforeInv'
    <2>1. /\ UNCHANGED unit /\ pc = "apply" /\ c.step = "publish" /\ d.step \in {"ok", "publish"}
          /\ n = b /\ f \in c.todo /\ tree' = [tree EXCEPT ![f] = Version[target][f]]
      BY <1>2, <1>7, <1>12, PublishDoes DEF b, n, c
    <2>2. f \in DOMAIN b.old /\ b.receipt
      BY <1>6, <2>1
    <2>3. \A g \in File \ {f} : tree'[g] = tree[g]
      BY <1>3, <2>1
    <2> QED
      BY <1>4, <1>5, <2>1, <2>2, <2>3
  <1>13. ASSUME NEW f \in File, Undo(w, f) PROVE BeforeInv'
    <2>1. /\ UNCHANGED unit /\ c.step = "undo" /\ d.kind = c.kind
          /\ d.step = IF c.todo = {f} THEN "units" ELSE "undo"
          /\ d.todo = c.todo \ {f}
          /\ n = b /\ f \in c.todo /\ tree' = [tree EXCEPT ![f] = b.old[f]]
      BY <1>2, <1>7, <1>13, UndoDoes DEF b, n, c
    <2>2. f \in DOMAIN b.old
      BY <1>6, <2>1
    <2>3. Ok(tree'[f], f) /\ \A g \in File \ {f} : tree'[g] = tree[g]
      BY <1>3, <1>4, <2>1, <2>2
    <2>4. \A g \in File \ d.todo : Ok(tree'[g], g)
      BY <1>4, <2>1, <2>3
    <2>5. \A g \in File : ~n.receipt \/ g \notin DOMAIN n.old => Ok(tree'[g], g)
      BY <1>4, <2>1, <2>3
    <2>6. d.step = "units" => \A g \in File : Ok(tree'[g], g)
      BY <2>1, <2>4
    <2>7. d.step \in {"undo", "units"}
      BY <2>1
    <2> QED
      BY <1>4, <1>5, <2>1, <2>4, <2>5, <2>6, <2>7
  <1>14. CASE RestoreUnits(w)
    <2>1. /\ UNCHANGED tree /\ c.step = "units" /\ n = b /\ d.kind = c.kind
          /\ d.step = IF c.kind = "apply" THEN "failed" ELSE "ok"
          /\ IF b.unit = {} THEN unit' = unit ELSE unit' \in b.unit
      BY <1>2, <1>7, <1>14, RestoreUnitsDoes DEF b, n, c
    <2>2. unit' = before.unit
      BY <1>4, <2>1
    <2>3. pc # "sync"
      BY <1>2, <2>1 DEF CmdInv, StepsOf, c, Where
    <2>4. d.step \in {"failed", "ok"}
      BY <2>1
    <2> QED
      BY <1>4, <1>5, <2>1, <2>2, <2>3, <2>4
  <1>15. CASE RecordUnits(w)
    <2>1. /\ UNCHANGED <<tree, unit>> /\ c.kind = "sync" /\ c.step = "start" /\ pc = "sync"
          /\ d.step = "install" /\ n.unit = {unit} /\ n.old = b.old /\ n.receipt = b.receipt
      BY <1>2, <1>7, <1>15, RecordUnitsDoes DEF b, n, c
    <2> QED
      BY <1>4, <1>5, <2>1
  <1>16. CASE InstallUnits(w)
    <2>1. /\ UNCHANGED tree /\ c.step = "install" /\ pc = "sync" /\ unit' = target
          /\ d.step = "ok" /\ n = b
      BY <1>2, <1>7, <1>16, InstallUnitsDoes DEF b, n, c
    <2> QED
      BY <1>4, <1>5, <2>1
  <1>17. CASE Moves(w)
    <2>1. /\ UNCHANGED <<tree, unit>> /\ n = b /\ d.kind = c.kind
          /\ \/ c.kind = "apply" /\ c.step = "publish" /\ d.step = "undo" /\ d.todo = Entries(base, target)
             \/ c.kind = "rollback" /\ d.step = "undo" /\ d.todo = DOMAIN b.old
             \/ c.kind = "rollback" /\ ~b.receipt /\ d.step = "ok"
             \/ d.step = "failed"
      BY <1>2, <1>7, <1>17, MovesDo DEF b, n, c, host
    <2>2. d.step = "undo" => d.todo = DOMAIN b.old
      BY <1>6, <2>1
    <2>3. d.step = "ok" => ~b.receipt /\ b.unit = {}
      BY <1>6, <2>1
    <2>4. d.step \in {"undo", "ok", "failed"}
      BY <2>1
    <2>5. pc = "sync" => d.step # "ok"
      BY <1>2, <2>1
    <2> QED
      BY <1>4, <1>5, <2>1, <2>2, <2>3, <2>4, <2>5
  <1> QED
    BY <1>8, <1>9, <1>10, <1>11, <1>12, <1>13, <1>14, <1>15, <1>16, <1>17, CommandCases

LEMMA BeforeOfOthers ==
    ASSUME TypeInv, CmdInv, BackupInv, BeforeInv, Others
    PROVE  BeforeInv'
  <1> DEFINE d == cmd'["awaited"]
             c == cmd["awaited"]
             b == backup[target]
  <1>0. /\ UNCHANGED <<tree, unit, backup, edited>> /\ (strayed => strayed')
        /\ target \in Release /\ c \in Commands /\ "awaited" \in Where
    BY OthersKeep DEF TypeInv, Where
  <1>1. SUFFICES ASSUME ~strayed' PROVE BeforeInv'
    BY <1>0 DEF BeforeInv
  <1>2. ~strayed
    BY <1>0, <1>1
  <1>3. CASE pc' \notin Acting
    BY <1>3 DEF BeforeInv, Acting, AfterApply
  <1>4. CASE Guard /\ pc' \in Acting
    <2>1. /\ pc = "guard" /\ ~b.dir /\ Run("apply") /\ pc' = "apply" /\ UNCHANGED target
          /\ before'.tree = tree /\ before'.unit = unit
      BY <1>4 DEF Guard, End, Acting
    <2>2. DOMAIN b.old = {} /\ ~b.receipt /\ b.unit = {}
      BY <1>0, <2>1 DEF BackupInv
    <2>3. d.kind = "apply" /\ d.step = "start"
      BY <2>1, RunStarts DEF Started, Kinds
    <2> QED
      BY <1>0, <2>1, <2>2, <2>3 DEF BeforeInv, Restored, AfterApply
  <1>5. CASE pc' \in Acting /\ ~Guard
    <2>1. /\ UNCHANGED <<target, before>> /\ pc \in Acting
      <3>1. UNCHANGED before
        BY <1>5, OthersKeep
      <3>2. UNCHANGED target /\ pc \in Acting
        BY <1>5 DEF Others, Deployer, Begin, Preflight, Guard, Applied, Synced, Restart, Verified,
           TruncateState, WriteState, Close, CommandFailed, VerificationFails, Interrupted,
           InterruptedLate, RolledBack,
           RolledBackStale, NotRolledBack, StartRollback, End, ConnectionLost, DeployerDies,
           HostRestarts, HostRestartsWriting, job, Acting
      <3> QED
        BY <3>1, <3>2
    <2>2. /\ \A f \in DOMAIN b.old : b.old[f] = before.tree[f] \/ f \in edited
          /\ \A f \in File : ~b.receipt \/ f \notin DOMAIN b.old => Restored(f)
          /\ b.unit \subseteq {before.unit}
          /\ b.unit = {} => unit = before.unit
      BY <1>1, <1>2, <2>1 DEF BeforeInv
    <2>3. \/ Applied \/ Synced \/ Restart \/ Verified \/ TruncateState \/ WriteState
          \/ Run("rollback") /\ pc' = "rollback"
          \/ HostRestartsWriting
          \/ HostRestarts /\ UNCHANGED pc
      <3>1. ~ConnectionLost
        BY <1>1 DEF ConnectionLost
      <3>2. /\ ~Preflight /\ ~Close /\ ~RolledBack /\ ~RolledBackStale /\ ~NotRolledBack
            /\ ~DeployerDies /\ \A t \in Release : ~Begin(t)
        BY <1>5 DEF Begin, Preflight, Close, RolledBack, RolledBackStale, NotRolledBack, End,
           DeployerDies, Acting
      <3>3. CommandFailed \/ VerificationFails \/ Interrupted \/ InterruptedLate =>
               Run("rollback") /\ pc' = "rollback"
        BY DEF CommandFailed, VerificationFails, Interrupted, InterruptedLate, StartRollback
      <3>4. HostRestarts => UNCHANGED pc
        BY DEF HostRestarts, job
      <3> QED
        BY <1>5, <3>1, <3>2, <3>3, <3>4 DEF Others, Deployer
    <2>4. ASSUME d.step \notin {"install", "undo", "units", "ok"}, pc' # "apply",
                 d.kind = "sync" /\ d.step = "start" => unit = before.unit,
                 pc' \in AfterApply \ {"sync"} => unit = target,
                 pc' \in {"verify", "state", "write", "close"} =>
                    \A f \in File \ edited : running'[f] = tree[f]
          PROVE  BeforeInv'
      BY <1>0, <2>1, <2>2, <2>4 DEF BeforeInv, Restored
    <2>5. CASE Run("rollback") /\ pc' = "rollback"
      <3>1. d.kind = "rollback" /\ d.step = "start"
        BY <2>5, RunStarts DEF Started, Kinds
      <3> QED
        BY <2>4, <2>5, <3>1 DEF AfterApply
    <2>10. CASE HostRestartsWriting
      <3>1. d = Started("rollback") /\ pc' = "rollback"
        BY <2>10 DEF HostRestartsWriting
      <3>2. d.kind = "rollback" /\ d.step = "start"
        BY <3>1 DEF Started
      <3> QED
        BY <2>4, <3>1, <3>2 DEF AfterApply
    <2>6. CASE Applied
      <3>1. pc = "apply" /\ pc' = "sync" /\ Run("sync")
        BY <2>6 DEF Applied
      <3>2. d.kind = "sync" /\ d.step = "start"
        BY <3>1, RunStarts DEF Started, Kinds
      <3>3. unit = before.unit
        BY <1>1, <1>2, <2>1, <3>1 DEF BeforeInv
      <3> QED
        BY <2>4, <3>1, <3>2, <3>3 DEF AfterApply
    <2>7. CASE Synced
      <3>1. pc = "sync" /\ c.step = "ok" /\ pc' = "restart" /\ Clears
        BY <2>7 DEF Synced, Succeeded, Clears
      <3>2. d.kind = "none" /\ d.step = "none"
        BY <3>1, ClearsClear DEF Nobody
      <3>3. unit = target
        BY <1>1, <1>2, <3>1 DEF BeforeInv
      <3> QED
        BY <2>4, <3>1, <3>2, <3>3
    <2>8. CASE Restart \/ Verified \/ TruncateState \/ WriteState
      <3>1. /\ pc \in AfterApply \ {"sync"} /\ pc' \in AfterApply \ {"sync"} /\ UNCHANGED cmd
            /\ Restart \/ (pc \in {"verify", "state", "write"} /\ UNCHANGED running)
        BY <2>8 DEF Restart, Verified, TruncateState, WriteState, AfterApply, host
      <3>2. d.kind = "none" /\ d.step = "none"
        BY <1>0, <3>1 DEF CmdInv, AfterApply, Remote, Nobody
      <3>3. unit = target /\ (pc \in {"verify", "state", "write"} =>
                               \A f \in File \ edited : running[f] = tree[f])
        BY <1>1, <1>2, <3>1 DEF BeforeInv
      <3>4. \A f \in File \ edited : running'[f] = tree[f]
        BY <3>1, <3>3 DEF Restart
      <3> QED
        BY <2>4, <3>1, <3>2, <3>3, <3>4 DEF AfterApply
    <2>9. CASE HostRestarts /\ UNCHANGED pc
      <3>1. /\ running' = tree
            /\ d = IF Runs("awaited") THEN Failing(c) ELSE c
        BY <2>9 DEF HostRestarts, Failing
      <3>2. Failing(c).step = "failed" /\ Failing(c).kind = c.kind
        BY <1>0 DEF Failing, Commands
      <3>3. d.kind = c.kind /\ (d = c \/ d.step = "failed")
        BY <3>1, <3>2
      <3> QED
        BY <1>0, <1>1, <1>2, <2>1, <2>9, <3>1, <3>3 DEF BeforeInv, Restored
    <2> QED
      BY <2>3, <2>5, <2>6, <2>7, <2>8, <2>9, <2>10
  <1> QED
    BY <1>3, <1>4, <1>5

LEMMA BeforeStep ==
    ASSUME TypeInv, CmdInv, BackupInv, BeforeInv, [Next]_vars
    PROVE  BeforeInv'
  <1>1. ASSUME NEW f \in File, Edit(f) PROVE BeforeInv'
    <2>1. /\ UNCHANGED <<unit, running, backup, cmd, pc, target, before, strayed>>
          /\ edited' = edited \cup {f} /\ tree' = [tree EXCEPT ![f] = Edited]
      BY <1>1 DEF Edit, job
    <2>2. \A g \in File \ {f} : tree'[g] = tree[g]
      BY <2>1 DEF TypeInv
    <2>3. \A g \in File : Restored(g) => Restored(g)'
      BY <2>1, <2>2 DEF Restored
    <2>4. \A g \in File \ edited' : running[g] = tree[g] => running'[g] = tree'[g]
      BY <2>1, <2>2
    <2> QED
      BY <2>1, <2>3, <2>4 DEF BeforeInv
  <1>3. UNCHANGED vars => BeforeInv'
    BY DEF BeforeInv, Restored, vars, host, job, hist
  <1> QED
    BY <1>1, <1>3, NextCases, BeforeOfCommands, BeforeOfOthers

\* With no command left and no deployment going on, nothing changes what was
\* reported but the next deployment and a restart of the host.
LEMMA ReportOfCommands ==
    ASSUME TypeInv, CmdInv, ReportInv, NEW w \in Where, Command(w)
    PROVE  ReportInv'
  <1>1. UNCHANGED <<report, pc, strayed, edited>>
    BY CommandsKeep
  <1>2. ASSUME ~strayed PROVE pc # "idle"
    <2>1. cmd["stray"].kind = "none" /\ cmd[w].kind # "none"
      BY <1>2, CommandsKeep DEF CmdInv
    <2> QED
      BY <2>1 DEF CmdInv, Where, Remote
  <1> QED
    BY <1>1, <1>2 DEF ReportInv, ReportedIsTrue

LEMMA CloseIsTrue ==
    ASSUME TypeInv, CmdInv, HotfixInv, RangeInv, TargetInv, BeforeInv, Close
    PROVE  ReportInv'
  <1>1. /\ pc = "close" /\ pc' = "idle" /\ report' = "deployed"
        /\ UNCHANGED <<tree, unit, running, current, base, target, stranded, strayed, edited>>
    BY DEF Close, End, host, hist
  <1>2. SUFFICES ASSUME ~strayed
                 PROVE  /\ \A f \in File \ (stranded \cup edited) : tree[f] = Version[target][f]
                        /\ stranded \cap Entries(base, target) = {}
                        /\ \A f \in File \ edited : running[f] = tree[f]
                        /\ unit = target /\ current = target
    BY <1>1 DEF ReportInv, ReportedIsTrue
  <1>3. ~astray
    BY <1>2 DEF CmdInv
  <1>4. \A f \in File \ edited : tree[f] # Edited
    BY DEF HotfixInv
  <1>5. /\ \A f \in Entries(base, target) : OnTarget(f)
        /\ stranded \cap Entries(base, target) = {}
        /\ \A f \in File \ (Entries(base, target) \cup stranded) : tree[f] \in {Absent, Edited}
    BY <1>1, <1>3 DEF TargetInv, AfterApply
  <1>6. \A f \in File \ (stranded \cup edited) : tree[f] = Version[target][f]
    <2> SUFFICES ASSUME NEW f \in File \ (stranded \cup edited) PROVE tree[f] = Version[target][f]
      OBVIOUS
    <2>1. CASE f \in Entries(base, target)
      BY <1>4, <1>5, <2>1 DEF OnTarget
    <2>2. CASE f \notin Entries(base, target)
      BY <1>4, <1>5, <2>2 DEF Entries
    <2> QED
      BY <2>1, <2>2
  <1>7. unit = target /\ \A f \in File \ edited : running[f] = tree[f]
    BY <1>1, <1>2 DEF BeforeInv, AfterApply
  <1>8. current = target
    BY <1>1 DEF RangeInv
  <1> QED
    BY <1>5, <1>6, <1>7, <1>8

LEMMA RolledBackIsTrue ==
    ASSUME TypeInv, CmdInv, BackupInv, RangeInv, BeforeInv, RolledBack \/ RolledBackStale
    PROVE  ReportInv'
  <1>1. /\ pc = "rollback" /\ cmd["awaited"].step = "ok" /\ pc' = "idle"
        /\ report' = "rolled back"
        /\ UNCHANGED <<tree, unit, current, base, target, before, late, strayed, edited>>
        /\ running' = tree \/ stale'
    BY DEF RolledBack, RolledBackStale, End, Succeeded, host, hist
  <1>2. SUFFICES ASSUME ~strayed
                 PROVE  /\ \A f \in File \ edited : tree[f] = before.tree[f]
                        /\ unit = before.unit
                        /\ current \in {base, NoRelease} \/ (late /\ current = target)
    BY <1>1 DEF ReportInv, ReportedIsTrue
  <1>3. unit = before.unit /\ \A f \in File \ edited : tree[f] = before.tree[f]
    BY <1>1, <1>2 DEF BeforeInv, Restored, Acting
  <1>4. Open
    BY <1>1 DEF Open, Acting
  <1>5. current \in {base, NoRelease} \/ (late /\ current = target)
    BY <1>4 DEF RangeInv
  <1> QED
    BY <1>3, <1>5

LEMMA ReportOfOthers ==
    ASSUME TypeInv, CmdInv, BackupInv, HotfixInv, RangeInv, TargetInv, BeforeInv, ReportInv,
           Others
    PROVE  ReportInv'
  <1>1. CASE HostRestarts
    <2>1. /\ running' = tree /\ UNCHANGED <<tree, unit, current, pc, base, target, report>>
          /\ UNCHANGED <<before, late, stale, strayed, edited, stranded>>
      BY <1>1 DEF HostRestarts, job, hist
    <2> QED
      BY <2>1 DEF ReportInv, ReportedIsTrue
  <1>2. CASE ~(HostRestarts \/ Close \/ RolledBack \/ RolledBackStale)
    <2>1. report' \in {"none", "refused", "failed"} \/ (UNCHANGED report /\ pc # "idle")
      BY <1>2 DEF Others, Deployer, Begin, Preflight, Guard, Applied, Synced, Restart, Verified,
         TruncateState, WriteState, CommandFailed, VerificationFails, Interrupted,
         InterruptedLate, NotRolledBack, StartRollback, End, ConnectionLost, DeployerDies,
         HostRestartsWriting
    <2>2. report' \notin {"deployed", "rolled back"}
      BY <2>1 DEF ReportInv
    <2> QED
      BY <2>2 DEF ReportInv, ReportedIsTrue
  <1> QED
    BY <1>1, <1>2, CloseIsTrue, RolledBackIsTrue

LEMMA ReportStep ==
    ASSUME TypeInv, CmdInv, BackupInv, HotfixInv, RangeInv, TargetInv, BeforeInv, ReportInv,
           [Next]_vars
    PROVE  ReportInv'
  <1>1. ASSUME NEW f \in File, Edit(f) PROVE ReportInv'
    <2>1. /\ UNCHANGED <<unit, running, current, pc, base, target, report>>
          /\ UNCHANGED <<before, late, stale, strayed, stranded>>
          /\ edited' = edited \cup {f} /\ tree' = [tree EXCEPT ![f] = Edited]
      BY <1>1 DEF Edit, job
    <2>2. \A g \in File \ edited' : g \notin edited /\ tree'[g] = tree[g]
      BY <2>1 DEF TypeInv
    <2> QED
      BY <2>1, <2>2 DEF ReportInv, ReportedIsTrue
  <1>2. ASSUME UNCHANGED vars PROVE ReportInv'
    <2>1. /\ UNCHANGED <<tree, unit, running, current, pc, base, target, report>>
          /\ UNCHANGED <<before, late, stale, strayed, edited, stranded>>
      BY <1>2 DEF vars, host, job, hist
    <2> QED
      BY <2>1 DEF ReportInv, ReportedIsTrue
  <1> QED
    BY <1>1, <1>2, NextCases, ReportOfCommands, ReportOfOthers

(***************************************************************************)
(* The theorems.                                                           *)
(***************************************************************************)

LEMMA InvInit == Init => IInv
  <1> SUFFICES ASSUME Init PROVE IInv
    OBVIOUS
  <1>1. TypeInv
    BY TypeInit
  <1>2. /\ \A w \in Where : cmd[w] = Nobody
        /\ pc = "idle" /\ jobs = 0 /\ ~strayed /\ ~astray /\ ~late
        /\ report = "none" /\ tree = Version[0] /\ current = 0 /\ base = 0 /\ target = 0
        /\ newest = 0 /\ floor = 0 /\ stranded = {} /\ \A k \in Release : touched[k] = {}
    BY DEF Init
  <1>3. /\ Nobody.kind = "none" /\ Nobody.step = "none" /\ Nobody.of = 0
        /\ StepsOf("none") = {"none"}
    BY DEF Nobody, StepsOf
  <1>4. "awaited" \in Where /\ "stray" \in Where
    BY DEF Where
  <1>5. \A k \in Release : /\ ~backup[k].dir /\ ~backup[k].receipt
                           /\ backup[k].unit = {} /\ DOMAIN backup[k].old = {}
    BY NoBackupIsABackup DEF Init, NoBackup
  <1>6. 0 \in Release /\ \A f \in File : tree[f] = Version[0][f] /\ tree[f] # Edited
    BY <1>2, DeployAssumption DEF Release
  <1>7. CmdInv
    BY <1>2, <1>3, <1>4 DEF CmdInv, Mine, Remote
  <1>8. BackupInv
    <2>1. \A w \in Where : BackupOf(w)
      BY <1>2, <1>3, SuitsIdle DEF BackupOf
    <2> QED
      BY <1>2, <1>3, <1>5, <2>1 DEF BackupInv
  <1>9. CopyInv
    BY <1>2, <1>3 DEF CopyInv, Mine
  <1>10. HotfixInv
    BY <1>2, <1>3, <1>5, <1>6 DEF HotfixInv
  <1>11. RangeInv
    <2>1. ~Open
      BY <1>2, <1>3 DEF Open, Mine, Acting
    <2>2. \A f \in File : tree[f] \in Between(floor, f)
      BY <1>2, <1>6 DEF Between
    <2>3. base <= target /\ floor <= current
      BY <1>2
    <2> QED
      BY <1>2, <2>1, <2>2, <2>3 DEF RangeInv
  <1>12. TargetInv /\ BeforeInv /\ ReportInv
    BY <1>2 DEF TargetInv, BeforeInv, ReportInv, ReportedIsTrue, AfterApply, Acting
  <1> QED
    BY <1>1, <1>7, <1>8, <1>9, <1>10, <1>11, <1>12 DEF IInv

LEMMA InvNext == IInv /\ [Next]_vars => IInv'
  <1> SUFFICES ASSUME IInv, [Next]_vars PROVE IInv'
    OBVIOUS
  <1>1. /\ TypeInv /\ CmdInv /\ BackupInv /\ CopyInv /\ HotfixInv /\ RangeInv
        /\ TargetInv /\ BeforeInv /\ ReportInv
    BY DEF IInv
  <1>2. TypeInv' /\ CmdInv'
    BY <1>1, TypeStep, CmdStep
  <1>3. BackupInv' /\ CopyInv' /\ HotfixInv'
    BY <1>1, BackupStep, CopyStep, HotfixStep
  <1>4. RangeInv'
    BY <1>1, <1>2, RangeStep
  <1>5. TargetInv' /\ BeforeInv' /\ ReportInv'
    BY <1>1, TargetStep, BeforeStep, ReportStep
  <1> QED
    BY <1>2, <1>3, <1>4, <1>5 DEF IInv

\* What the other theorems rest on: the inductive invariant holds in every
\* state that apply, sync, rollback, the deployer, accidents and operators
\* reach.
THEOREM Invariance == Spec => []IInv
  BY InvInit, InvNext, PTL DEF Spec

\* As long as a file that a release replaced is not restored, the receipt and
\* the copy of what it displaced exist, whoever of the deployer, its
\* connection and the host went down, and wherever.
THEOREM RecoveryStaysComplete == Spec => []RecoveryIsComplete
  <1>1. IInv => RecoveryIsComplete
    <2> SUFFICES ASSUME IInv PROVE RecoveryIsComplete
      OBVIOUS
    <2>1. TypeInv /\ CmdInv /\ BackupInv /\ CopyInv
      BY DEF IInv
    <2>2. cmd["awaited"] # Nobody => pc \in {"apply", "sync", "rollback"}
      BY <2>1 DEF CmdInv, Where, Remote
    <2>3. \A k \in Release : touched[k] # {} => backup[k].receipt
      BY <2>1 DEF BackupInv, TypeInv, Backups
    <2> QED
      BY <2>1, <2>2, <2>3 DEF RecoveryIsComplete, TypeOK, TypeInv, BackupInv, CopyInv
  <1> QED
    BY <1>1, Invariance, PTL

\* A release, and its rollback, overwrites only a hotfix that was made after its
\* apply checked the files, on the host, and before the deployment was over; one
\* made before that check, the deployer's own preflight done or not, survives.
THEOREM HotfixesAreNotOverwritten == Spec => HotfixesSurvive
  <1>1. IInv /\ [Next]_vars =>
          [\A f \in File : tree[f] = Edited /\ tree'[f] # Edited
              => \E k \in Release : InUse(k) /\ f \in racing[k]]_vars
    <2> SUFFICES ASSUME IInv, [Next]_vars, NEW f \in File, tree[f] = Edited,
                        tree'[f] # Edited
                 PROVE  \E k \in Release : InUse(k) /\ f \in racing[k]
      OBVIOUS
    <2>1. TypeInv /\ CmdInv /\ BackupInv /\ HotfixInv
      BY DEF IInv
    <2>2. PICK w \in Where : Command(w) /\ \E g \in File : Publish(w, g) \/ Undo(w, g)
      <3>1. Others \/ UNCHANGED vars => UNCHANGED tree
        BY <2>1, OthersKeep DEF vars, host
      <3>2. \A g \in File : Edit(g) => tree'[f] \in {tree[f], Edited}
        BY <2>1 DEF Edit, TypeInv
      <3> QED
        BY <3>1, <3>2, NextCases, TreeStays
    <2>3. cmd[w].rel \in Release /\ InUse(cmd[w].rel) /\ BackupOf(w)
      BY <2>1, <2>2, CommandsKeep, CommandFacts DEF InUse, BackupInv
    <2>4. /\ f \in cmd[w].todo
          /\ cmd[w].step \in {"publish", "undo"}
      <3>1. PICK g \in File : Publish(w, g) \/ Undo(w, g)
        BY <2>2
      <3>2. /\ g \in cmd[w].todo /\ cmd[w].step \in {"publish", "undo"}
            /\ \A h \in File \ {g} : tree'[h] = tree[h]
        <4>1. /\ g \in cmd[w].todo /\ cmd[w].step \in {"publish", "undo"}
              /\ \/ tree' = [tree EXCEPT ![g] = Version[cmd[w].rel][g]]
                 \/ tree' = [tree EXCEPT ![g] = backup[cmd[w].rel].old[g]]
          BY <2>1, <3>1, PublishDoes, UndoDoes
        <4>2. tree \in [File -> Content]
          BY <2>1 DEF TypeInv
        <4> QED
          BY <4>1, <4>2
      <3> QED
        BY <3>2
    <2>5. f \in DOMAIN backup[cmd[w].rel].old
      BY <2>3, <2>4 DEF BackupOf, Suits
    <2> QED
      BY <2>1, <2>3, <2>5 DEF HotfixInv
  <1> QED
    BY <1>1, Invariance, PTL DEF Spec, HotfixesSurvive

\* After any interruption, a print of current.json cut off included, the release
\* that was tried last and every newer one find on the host only what their
\* preflight accepts or a hotfix, on the files that they and the release there
\* know; and current.json names that release, or is cut off, or was written by a
\* deployment that was then rolled back.
THEOREM NextReleasePasses == Spec => []NeverStuck
  <1>1. IInv => NeverStuck
    <2> SUFFICES ASSUME IInv
                 PROVE  ~astray => \A t \in Release : t >= newest =>
                           \A f \in Entries(floor, t) \ stranded :
                              tree[f] = Edited \/ tree[f] \in Accepted(floor, t, f)
      BY DEF NeverStuck, IInv, RangeInv
    <2> SUFFICES ASSUME ~astray, NEW t \in Release, t >= newest,
                        NEW f \in Entries(floor, t) \ stranded, tree[f] # Edited
                 PROVE  tree[f] \in Accepted(floor, t, f)
      OBVIOUS
    <2>1. floor \in Release /\ newest \in Release /\ f \in File
      BY EntriesAreFiles DEF IInv, TypeInv
    <2>2. tree[f] \in Between(floor, f)
      BY <2>1 DEF IInv, RangeInv
    <2>3. \A k \in floor..newest : k \in floor..t
      BY <2>1, DeployAssumption DEF Release
    <2> QED
      BY <2>2, <2>3 DEF Between, Accepted
  <1> QED
    BY <1>1, Invariance, PTL

\* When a deployment reports success, the files that nobody edited, the units,
\* what the services run and current.json are those of the target; when it
\* reports a rollback, the files, the units and what the services run are those
\* from before, and current.json too unless it was being written.
THEOREM ReportsAreTrue == Spec => []ReportedIsTrue
  <1>1. IInv => ReportedIsTrue
    BY DEF IInv, ReportInv
  <1> QED
    BY <1>1, Invariance, PTL
=============================================================================
