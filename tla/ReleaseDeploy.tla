----------------------------- MODULE ReleaseDeploy -----------------------------
(***************************************************************************)
(* Backend releases (scripts/deploy/gcp_release.py and                     *)
(* deploy_gcp_release.sh, docs/gcp-deployment.md).                         *)
(*                                                                         *)
(* The deployer, a shell script, runs one command after another on the     *)
(* host over ssh: preflight, apply, sync-units, restart, verify, and the   *)
(* write of current.json.  From apply on whatever fails, and a signal,     *)
(* make it roll back from the receipt that apply wrote before it touched   *)
(* a file.  A command outlives a connection that is lost, the deployer may *)
(* be killed, the host may go down, and an operator edits files.           *)
(*                                                                         *)
(* Abstractions: releases are numbered, 0 being what is installed first,   *)
(* and each is an ancestor of the next; the content of a file in one is a  *)
(* number, or Absent; all installed units are one more number; files are   *)
(* taken in any order; staged copies, modes and approved overrides are     *)
(* left out.  One deployer runs at a time (the workflow's concurrency      *)
(* group).  What was written stays when the host goes down.                *)
(***************************************************************************)
EXTENDS Integers, FiniteSets

CONSTANTS
    File,
    Last,       \* the newest release
    Version,    \* Version[k][f]: content of f in release k
    Absent,     \* content of a file that is not there
    Edited,     \* content of a file that an operator edited
    MaxJobs,    \* bound: deployments
    MaxFaults,  \* bound: failures, signals, losses and deaths
    MaxEdits    \* bound: files an operator edits

Release == 0..Last
\* current.json is empty, or only half is there.
NoRelease == -1
Content == {Absent, Edited} \cup UNION {{Version[k][f] : f \in File} : k \in Release}

ASSUME DeployAssumption ==
    /\ Last \in Nat \ {0} /\ MaxJobs \in Nat /\ MaxFaults \in Nat /\ MaxEdits \in Nat
    /\ Absent # Edited /\ Version \in [Release -> [File -> Content]]
    /\ \A k \in Release, f \in File : Version[k][f] # Edited

\* Where a command runs: the deployer waits for it, or lost it.
Where == {"awaited", "stray"}

VARIABLES
    tree,       \* host: content of each file
    unit,       \* host: release of the installed units
    running,    \* host: the tree that the services loaded
    current,    \* host: current.json
    backup,     \* host: backups/<release>
    cmd,        \* host: the commands that run
    pc, base, target,  \* the deployer
    report,     \* how the last deployment ended
    jobs, faults,
    edited,     \* history: files an operator edited
    racing,     \* history: racing[k]: those edited after apply's own preflight for k
    touched,    \* history: files a release replaced and nothing restored
    displaced,  \* history: what it replaced
    floor,      \* history: release that the files belong to when nothing is going on
    before,     \* history: the host when the last deployment began
    newest,     \* history: newest release applied
    late,       \* history: current.json names a release that was rolled back after
                \* it was written
    strayed,    \* history: a command outlived its connection
    astray,     \* history: one changed the host during a later deployment
    stale,      \* history: a restart failed at the end of a rollback
    stranded    \* history: files left there that the release of floor does not know

host == <<tree, unit, running, current, backup>>
job  == <<pc, base, target, report, jobs>>
hist == <<edited, racing, touched, displaced, floor, before, newest, late, strayed,
          astray, stale, stranded>>
vars == <<host, cmd, job, faults, hist>>

Nobody ==
    [kind |-> "none", from |-> 0, rel |-> 0, step |-> "none", todo |-> {}, of |-> 0]
NoBackup ==
    [dir |-> FALSE, receipt |-> FALSE, old |-> [f \in {} |-> Absent], unit |-> {}]

Init ==
    /\ tree = Version[0] /\ unit = 0 /\ running = Version[0] /\ current = 0
    /\ backup = [k \in Release |-> NoBackup]
    /\ cmd = [w \in Where |-> Nobody]
    /\ pc = "idle" /\ base = 0 /\ target = 0 /\ report = "none"
    /\ jobs = 0 /\ faults = 0
    /\ edited = {} /\ racing = [k \in Release |-> {}]
    /\ touched = [k \in Release |-> {}]
    /\ displaced = [k \in Release |-> Version[0]]
    /\ floor = 0
    /\ before = [tree |-> tree, unit |-> unit, floor |-> 0, stranded |-> {}]
    /\ newest = 0
    /\ late = FALSE /\ strayed = FALSE /\ astray = FALSE /\ stale = FALSE
    /\ stranded = {}

\* Files of the release from b to t, removed ones included.
Entries(b, t) == {f \in File : {Version[b][f], Version[t][f]} # {Absent}}

\* Any version from base to target, and a missing file, may be replaced.
Accepted(b, t, f) == {Absent} \cup {Version[k][f] : k \in b..t}

\* preflight of the release from b to t.
NoConflict(b, t) == \A f \in Entries(b, t) : tree[f] \in Accepted(b, t, f)

\* A command for the release of this deployment.
Started(kind) ==
    [kind |-> kind, from |-> base, rel |-> target, step |-> "start", todo |-> {},
     of |-> jobs]
Run(kind) == cmd' = [cmd EXCEPT !["awaited"] = Started(kind)]

\* The command of w goes on with its next step, or exits.
Goes(w, step, todo) ==
    cmd' = [cmd EXCEPT ![w] = IF w = "stray" /\ step \in {"ok", "failed"} THEN Nobody
                              ELSE [@ EXCEPT !.step = step, !.todo = todo]]

At(w, kind, step) == cmd[w].kind = kind /\ cmd[w].step = step

\* What w changes on the host, it changes for the deployment it belongs to.
Marks(w) == astray' = (astray \/ cmd[w].of # jobs)

Fault == faults < MaxFaults /\ faults' = faults + 1

\* The places from which the deployer rolls back, and the rollback itself.
Acting == {"apply", "sync", "restart", "verify", "state", "write", "close", "rollback"}

\* A command works for release k, or the deployer may still start one.
InUse(k) ==
    \/ \E w \in Where : cmd[w].kind # "none" /\ cmd[w].rel = k
    \/ pc \in Acting /\ target = k

\* A hotfix of f comes, or comes back, while a release is past its check.
Raced(f) ==
    [k \in Release |-> IF InUse(k) /\ backup[k].dir THEN racing[k] \cup {f} ELSE racing[k]]

-----------------------------------------------------------------------------
(* The operator.                                                           *)

\* A hotfix, while a release is going on or not.
Edit(f) ==
    /\ Cardinality(edited) < MaxEdits
    /\ tree' = [tree EXCEPT ![f] = Edited]
    /\ edited' = edited \cup {f}
    /\ racing' = Raced(f)
    /\ UNCHANGED <<unit, running, current, backup, cmd, job, faults, touched,
                   displaced, floor, before, newest, late, strayed, astray, stale, stranded>>

-----------------------------------------------------------------------------
(* apply_release, on the host.                                             *)

\* Fault: only the deployer's preflight counts.
ApplyStartsBlind(w) ==
    /\ At(w, "apply", "start")
    /\ LET k == cmd[w].rel
       IN  IF ~backup[k].dir
           THEN /\ backup' = [backup EXCEPT ![k].dir = TRUE]
                /\ racing' = [racing EXCEPT ![k] = {}]
                /\ Goes(w, "copy", Entries(cmd[w].from, k))
           ELSE /\ Goes(w, "failed", {})
                /\ UNCHANGED <<backup, racing>>
    /\ UNCHANGED <<tree, unit, running, current, job, faults, edited, touched, displaced,
                   floor, before, newest, late, strayed, astray, stale, stranded>>

\* Its own preflight, and a directory for the backup that is not there yet.
ApplyStarts(w) ==
    /\ At(w, "apply", "start")
    /\ LET k == cmd[w].rel
       IN  IF NoConflict(cmd[w].from, k) /\ ~backup[k].dir
           THEN /\ backup' = [backup EXCEPT ![k].dir = TRUE]
                /\ racing' = [racing EXCEPT ![k] = {}]
                /\ Goes(w, "copy", Entries(cmd[w].from, k))
           ELSE /\ Goes(w, "failed", {})
                /\ UNCHANGED <<backup, racing>>
    /\ UNCHANGED <<tree, unit, running, current, job, faults, edited, touched, displaced,
                   floor, before, newest, late, strayed, astray, stale, stranded>>

Copy(w, f) ==
    LET k == cmd[w].rel
    IN  /\ At(w, "apply", "copy") /\ f \in cmd[w].todo
        /\ backup' = [backup EXCEPT ![k].old =
                        [g \in DOMAIN @ \cup {f} |-> IF g = f THEN tree[f] ELSE @[g]]]
        /\ Goes(w, "copy", cmd[w].todo \ {f})
        /\ UNCHANGED <<tree, unit, running, current, job, faults, hist>>

\* Fault: the receipt is left for the end.
WriteReceiptLate(w) ==
    /\ At(w, "apply", "copy") /\ cmd[w].todo = {}
    /\ Goes(w, "publish", Entries(cmd[w].from, cmd[w].rel))
    /\ UNCHANGED <<host, job, faults, hist>>

\* The receipt is on disk before any file changes.
WriteReceipt(w) ==
    LET k == cmd[w].rel
    IN  /\ At(w, "apply", "copy") /\ cmd[w].todo = {}
        /\ backup' = [backup EXCEPT ![k].receipt = TRUE]
        /\ Goes(w, "publish", Entries(cmd[w].from, cmd[w].rel))
        /\ UNCHANGED <<tree, unit, running, current, job, faults, hist>>

\* The backup is taken away, and nothing has changed.
PreparationFails(w) ==
    LET k == cmd[w].rel
    IN  /\ At(w, "apply", "copy") /\ Fault
        /\ backup' = [backup EXCEPT ![k] = NoBackup]
        /\ Goes(w, "failed", {})
        /\ UNCHANGED <<tree, unit, running, current, job, hist>>

\* A file is replaced or removed.
Publish(w, f) ==
    LET k == cmd[w].rel
    IN  /\ At(w, "apply", "publish") /\ f \in cmd[w].todo
        /\ tree' = [tree EXCEPT ![f] = Version[k][f]]
        /\ touched' = [touched EXCEPT ![k] = @ \cup {f}]
        /\ displaced' = [displaced EXCEPT ![k][f] =
                           IF f \in touched[k] THEN @ ELSE tree[f]]
        /\ Goes(w, IF cmd[w].todo = {f} THEN "ok" ELSE "publish", cmd[w].todo \ {f})
        /\ Marks(w)
        /\ UNCHANGED <<unit, running, current, backup, job, faults, edited, racing,
                       floor, before, newest, late, strayed, stale, stranded>>

\* Staging or replacing raises: apply itself rolls back.
PublishingFails(w) ==
    /\ At(w, "apply", "publish") /\ Fault
    /\ Goes(w, "undo", Entries(cmd[w].from, cmd[w].rel))
    /\ UNCHANGED <<host, job, hist>>

-----------------------------------------------------------------------------
(* rollback_release, on the host, as a command or from apply.              *)

RollbackStarts(w) ==
    /\ At(w, "rollback", "start")
    /\ LET saved == backup[cmd[w].rel]
       IN  IF saved.receipt THEN Goes(w, "undo", DOMAIN saved.old) ELSE Goes(w, "ok", {})
    /\ UNCHANGED <<host, job, faults, hist>>

Undo(w, f) ==
    LET k == cmd[w].rel
    IN  /\ cmd[w].step = "undo" /\ f \in cmd[w].todo
        /\ tree' = [tree EXCEPT ![f] = backup[k].old[f]]
        /\ touched' = [touched EXCEPT ![k] = @ \ {f}]
        /\ racing' = IF backup[k].old[f] = Edited THEN Raced(f) ELSE racing
        /\ Goes(w, IF cmd[w].todo = {f} THEN "units" ELSE "undo", cmd[w].todo \ {f})
        /\ Marks(w)
        /\ UNCHANGED <<unit, running, current, backup, job, faults, edited, displaced,
                       floor, before, newest, late, strayed, stale, stranded>>

\* The units that the receipt remembers are restored, and the active ones
\* restarted.
RestoreUnits(w) ==
    LET k == cmd[w].rel
    IN  /\ cmd[w].step = "units"
        /\ unit' = IF backup[k].unit = {} THEN unit ELSE CHOOSE u \in backup[k].unit : TRUE
        /\ running' = IF backup[k].unit = {} THEN running ELSE tree
        /\ Goes(w, IF cmd[w].kind = "apply" THEN "failed" ELSE "ok", {})
        /\ Marks(w)
        /\ UNCHANGED <<tree, current, backup, job, faults, edited, racing, touched,
                       displaced, floor, before, newest, late, strayed, stale, stranded>>

RollbackFails(w) ==
    /\ cmd[w].step \in {"undo", "units"} /\ Fault
    /\ Goes(w, "failed", {})
    /\ UNCHANGED <<host, job, hist>>

-----------------------------------------------------------------------------
(* sync_systemd_units, on the host.                                        *)

\* What is installed is added to the receipt before it is replaced.
RecordUnits(w) ==
    LET k == cmd[w].rel
    IN  /\ At(w, "sync", "start")
        /\ backup' = [backup EXCEPT ![k].unit = {unit}]
        /\ Goes(w, "install", {})
        /\ UNCHANGED <<tree, unit, running, current, job, faults, hist>>

InstallUnits(w) ==
    /\ At(w, "sync", "install")
    /\ unit' = cmd[w].rel
    /\ Goes(w, "ok", {})
    /\ Marks(w)
    /\ UNCHANGED <<tree, running, current, backup, job, faults, edited, racing,
                   touched, displaced, floor, before, newest, late, strayed, stale,
                   stranded>>

SyncFails(w) ==
    /\ cmd[w].kind = "sync" /\ cmd[w].step \in {"start", "install"} /\ Fault
    /\ Goes(w, "failed", {})
    /\ UNCHANGED <<host, job, hist>>

-----------------------------------------------------------------------------
(* deploy_gcp_release.sh.                                                  *)

End(how) ==
    /\ pc' = "idle" /\ report' = how
    /\ cmd' = [cmd EXCEPT !["awaited"] = Nobody]

\* The base is what current.json says, and an ancestor of the target.  When
\* current.json says nothing, every deployment ends here.
Begin(t) ==
    /\ pc = "idle" /\ jobs < MaxJobs /\ current # NoRelease /\ t >= current
    /\ pc' = "preflight" /\ base' = current /\ target' = t
    /\ jobs' = jobs + 1 /\ report' = "none"
    /\ UNCHANGED <<host, cmd, faults, hist>>

Preflight ==
    /\ pc = "preflight"
    /\ IF NoConflict(base, target)
       THEN pc' = "guard" /\ UNCHANGED <<cmd, report>>
       ELSE End("refused")
    /\ UNCHANGED <<host, base, target, jobs, faults, hist>>

\* No backup of this release may be there.  Traps are set from here on.
Guard ==
    /\ pc = "guard"
    /\ IF backup[target].dir
       THEN End("refused") /\ UNCHANGED <<before, newest>>
       ELSE /\ pc' = "apply" /\ UNCHANGED report
            /\ Run("apply")
            /\ before' = [tree |-> tree, unit |-> unit, floor |-> floor,
                          stranded |-> stranded]
            /\ newest' = IF target > newest THEN target ELSE newest
    /\ UNCHANGED <<host, base, target, jobs, faults, edited, racing, touched,
                   displaced, floor, late, strayed, astray, stale, stranded>>

Succeeded == cmd["awaited"].step = "ok"
Failed    == cmd["awaited"].step = "failed"

Applied ==
    /\ pc = "apply" /\ Succeeded
    /\ pc' = "sync" /\ Run("sync")
    /\ UNCHANGED <<host, base, target, report, jobs, faults, hist>>

Synced ==
    /\ pc = "sync" /\ Succeeded
    /\ pc' = "restart" /\ cmd' = [cmd EXCEPT !["awaited"] = Nobody]
    /\ UNCHANGED <<host, base, target, report, jobs, faults, hist>>

\* Fault: current.json is written before the release is verified.
RestartRecordsState ==
    /\ pc = "restart"
    /\ running' = tree /\ current' = target
    /\ pc' = "verify"
    /\ UNCHANGED <<tree, unit, backup, cmd, base, target, report, jobs, faults, hist>>

Restart ==
    /\ pc = "restart"
    /\ running' = tree
    /\ pc' = "verify"
    /\ UNCHANGED <<tree, unit, current, backup, cmd, base, target, report, jobs,
                   faults, hist>>

Verified ==
    /\ pc = "verify"
    /\ pc' = "state"
    /\ UNCHANGED <<host, cmd, base, target, report, jobs, faults, hist>>

\* The shell empties current.json, and then prints into it.
TruncateState ==
    /\ pc = "state"
    /\ current' = NoRelease
    /\ pc' = "write"
    /\ UNCHANGED <<tree, unit, running, backup, cmd, base, target, report, jobs,
                   faults, hist>>

\* The files of an interrupted release that neither the base nor the target has
\* are in no manifest, and stay.
WriteState ==
    /\ pc = "write"
    /\ current' = target /\ floor' = target /\ late' = FALSE
    /\ stranded' = {f \in File \ Entries(base, target) : tree[f] # Absent}
    /\ pc' = "close"
    /\ UNCHANGED <<tree, unit, running, backup, cmd, base, target, report, jobs,
                   faults, edited, racing, touched, displaced, before, newest, strayed,
                   astray, stale>>

\* The traps are cleared.
Close ==
    /\ pc = "close"
    /\ End("deployed")
    /\ UNCHANGED <<host, base, target, jobs, faults, hist>>

\* The ERR trap, or that of a signal.
StartRollback == pc' = "rollback" /\ Run("rollback")

CommandFailed ==
    /\ pc \in {"apply", "sync"} /\ Failed
    /\ StartRollback
    /\ UNCHANGED <<host, base, target, report, jobs, faults, hist>>

VerificationFails ==
    /\ pc = "verify"
    /\ StartRollback
    /\ UNCHANGED <<host, base, target, report, jobs, faults, hist>>

\* A signal, or a short command that fails, whether it took effect or not; a disk
\* that is full makes the print fail, and current.json stays empty.
Interrupted ==
    /\ pc \in {"restart", "verify", "state", "write"} /\ Fault
    /\ StartRollback
    /\ UNCHANGED <<host, base, target, report, jobs, hist>>

\* The same after the print: nothing puts current.json back.
InterruptedLate ==
    /\ pc = "close" /\ Fault
    /\ StartRollback
    /\ late' = TRUE /\ floor' = before.floor /\ stranded' = before.stranded
    /\ UNCHANGED <<host, base, target, report, jobs, edited, racing, touched, displaced,
                   before, newest, strayed, astray, stale>>

\* Fault: the units go on with what they loaded.
RolledBackQuietly ==
    /\ pc = "rollback" /\ Succeeded
    /\ End("rolled back")
    /\ UNCHANGED <<host, base, target, jobs, faults, hist>>

\* rollback restarts the units, and does not mind when that fails.
RolledBack ==
    /\ pc = "rollback" /\ Succeeded
    /\ running' = tree
    /\ End("rolled back")
    /\ UNCHANGED <<tree, unit, current, backup, base, target, jobs, faults, hist>>

RolledBackStale ==
    /\ pc = "rollback" /\ Succeeded /\ Fault
    /\ stale' = TRUE
    /\ End("rolled back")
    /\ UNCHANGED <<host, base, target, jobs, edited, racing, touched, displaced,
                   floor, before, newest, late, strayed, astray, stranded>>

NotRolledBack ==
    /\ pc = "rollback" /\ Failed
    /\ End("failed")
    /\ UNCHANGED <<host, base, target, jobs, faults, hist>>

-----------------------------------------------------------------------------
(* Losses.                                                                 *)

Runs(w) == cmd[w].step \notin {"none", "ok", "failed"}

\* The connection is lost, or the deployer interrupted with its ssh: the
\* command goes on by itself, and the deployer rolls back.
ConnectionLost ==
    /\ pc \in {"apply", "sync"} /\ Runs("awaited") /\ cmd["stray"] = Nobody /\ Fault
    /\ pc' = "rollback"
    /\ cmd' = [awaited |-> Started("rollback"), stray |-> cmd["awaited"]]
    /\ strayed' = TRUE
    /\ UNCHANGED <<host, base, target, report, jobs, edited, racing, touched,
                   displaced, floor, before, newest, late, astray, stale, stranded>>

\* The deployer is killed, or loses its connection while it rolls back.
DeployerDies ==
    /\ pc # "idle" /\ cmd["stray"] = Nobody /\ Fault
    /\ pc' = "idle" /\ report' = "failed"
    /\ cmd' = [awaited |-> Nobody,
               stray   |-> IF Runs("awaited") THEN cmd["awaited"] ELSE Nobody]
    /\ strayed' = (strayed \/ Runs("awaited"))
    /\ UNCHANGED <<host, base, target, jobs, edited, racing, touched, displaced,
                   floor, before, newest, late, astray, stale, stranded>>

\* The host goes down and comes back: its commands are gone, and its services
\* load what is there.
HostRestarts ==
    /\ pc # "write" /\ Fault
    /\ running' = tree
    /\ cmd' = [awaited |-> IF Runs("awaited")
                           THEN [cmd["awaited"] EXCEPT !.step = "failed", !.todo = {}]
                           ELSE cmd["awaited"],
               stray   |-> Nobody]
    /\ UNCHANGED <<tree, unit, current, backup, job, hist>>

\* It goes down before the print: the deployer's command fails.
HostRestartsWriting ==
    /\ pc = "write" /\ Fault
    /\ running' = tree
    /\ pc' = "rollback"
    /\ cmd' = [awaited |-> Started("rollback"), stray |-> Nobody]
    /\ UNCHANGED <<tree, unit, current, backup, base, target, report, jobs, hist>>

-----------------------------------------------------------------------------
Command(w) ==
    \/ ApplyStarts(w) \/ WriteReceipt(w) \/ PreparationFails(w) \/ PublishingFails(w)
    \/ RollbackStarts(w) \/ RestoreUnits(w) \/ RollbackFails(w)
    \/ RecordUnits(w) \/ InstallUnits(w) \/ SyncFails(w)
    \/ \E f \in File : Copy(w, f) \/ Publish(w, f) \/ Undo(w, f)

Deployer ==
    \/ \E t \in Release : Begin(t)
    \/ Preflight \/ Guard \/ Applied \/ Synced \/ Restart \/ Verified
    \/ TruncateState \/ WriteState \/ Close
    \/ CommandFailed \/ VerificationFails \/ Interrupted \/ InterruptedLate
    \/ RolledBack \/ RolledBackStale \/ NotRolledBack

Next ==
    \/ \E w \in Where : Command(w)
    \/ Deployer
    \/ ConnectionLost \/ DeployerDies \/ HostRestarts \/ HostRestartsWriting
    \/ \E f \in File : Edit(f)

Spec == Init /\ [][Next]_vars

-----------------------------------------------------------------------------
(* Properties.                                                             *)

\* What the files, the backups and the deployer may hold: a receipt lies in a
\* backup with a copy of every file that its release replaced, and only the
\* three remote commands that change something are awaited.
TypeOK ==
    /\ tree \in [File -> Content] /\ running \in [File -> Content]
    /\ unit \in Release /\ current \in Release \cup {NoRelease}
    /\ \A k \in Release :
          backup[k].receipt => backup[k].dir /\ touched[k] \subseteq DOMAIN backup[k].old
    /\ cmd["awaited"] # Nobody => pc \in {"apply", "sync", "rollback"}

\* "A release failure restores files or leaves complete recovery"
\* (tests/test_gcp_release.py): as long as any file that a release replaced is
\* not restored, a receipt and a copy of what was there exist, whoever died,
\* and even with two commands at it; an edit made since that release checked the
\* file may be lost.  (With the types.)
RecoveryIsComplete ==
    /\ TypeOK
    /\ \A k \in Release : \A f \in touched[k] :
        /\ backup[k].receipt
        /\ backup[k].old[f] = displaced[k][f] \/ f \in racing[k] \/ astray

\* A hotfix is never overwritten by a release that checked the file after it was
\* made; the deployer's preflight is not enough, apply's own is what counts.  One
\* made after that check and before the deployment is over can be lost: apply
\* does not look again before it replaces a file, nor does a rollback.
HotfixesSurvive ==
    [][\A f \in File : tree[f] = Edited /\ tree'[f] # Edited
          => \E k \in Release : InUse(k) /\ f \in racing[k]]_vars

\* Whatever failed on the way, files nobody edited pass the preflight of the
\* release that was tried last, and of any newer one, from the release they
\* belong to.  That is the one in current.json, unless it was cut off while it
\* was written, or the deployment was rolled back after that; then current.json
\* put right is all it takes.  Not so when a command that was lost goes on
\* during a later deployment (astray), and on a file that an interrupted release
\* left behind (stranded) and a newer one brings back.
NeverStuck ==
    /\ current = floor \/ current = NoRelease \/ late
    /\ astray
        \/ \A t \in Release : t >= newest =>
              \A f \in Entries(floor, t) \ stranded :
                  tree[f] = Edited \/ tree[f] \in Accepted(floor, t, f)

\* What the deployer reports is so, for the files that nobody edited and unless a
\* command outlived its connection.  After a success the files, the services, the
\* units and current.json are all of the target, with no other file but those
\* stranded.  After a rollback (and no failed restart of a service) the files, the
\* services and the units are what they were; but current.json may be cut off, or
\* name the target after all if it was written before.
ReportedIsTrue ==
    \/ strayed
    \/ /\ report = "deployed" =>
             /\ \A f \in File \ (stranded \cup edited) : tree[f] = Version[target][f]
             /\ stranded \cap Entries(base, target) = {}
             /\ \A f \in File \ edited : running[f] = tree[f]
             /\ unit = target /\ current = target
       /\ report = "rolled back" /\ ~stale =>
             /\ \A f \in File \ edited :
                   tree[f] = before.tree[f] /\ running[f] = tree[f]
             /\ unit = before.unit
             /\ current \in {base, NoRelease} \/ (late /\ current = target)
=============================================================================
