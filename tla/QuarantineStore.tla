-------------------------- MODULE QuarantineStore --------------------------
(***************************************************************************)
(* The Linux quarantine store, crates/remediation/src/linux.rs.            *)
(*                                                                         *)
(* One process holds the store (an exclusive flock) and runs one operation *)
(* at a time: open with journal recovery, quarantine, restore, delete.     *)
(* Every system call that changes the disk is a step of its own, so other  *)
(* users of the file system act between any two of them, any call may fail *)
(* (at most MaxFaults times) and the process or the machine may stop       *)
(* anywhere (at most MaxCrashes times).                                    *)
(*                                                                         *)
(* Abstractions: a content stands for its SHA-256 (no collisions) and for  *)
(* its encoded copy; an inode number stands for the pair (st_dev, st_ino); *)
(* a record is its state, its original path, inode and hash; the audit log *)
(* is the set of successes it reports and whether its chain still verifies *)
(* (entries about failures differ in no property, so they are left out).   *)
(* When a step has failed, the unlink that cleans up after it succeeds.    *)
(***************************************************************************)
EXTENDS Naturals, FiniteSets

CONSTANTS
    Path,          \* absolute paths that are neither protected nor in the store
    Inode,         \* inode numbers
    Content,       \* file contents
    Id,            \* random 128-bit item identifiers
    NoFile,        \* "no such file", and the absent value of other fields
    Disturbances,  \* what others do to a file the store is working on
    TornAppends,   \* whether a failed append can leave bytes in the audit log
    MaxFaults, MaxCrashes, MaxEnv

ASSUME NoFileAssumption ==
    NoFile \notin Path /\ NoFile \notin Inode /\ NoFile \notin Content
      /\ NoFile \notin Id

ASSUME BoundsAssumption ==
    MaxFaults \in Nat /\ MaxCrashes \in Nat /\ MaxEnv \in Nat

\* "write": a file is modified in place after it was copied; "reuse": a freed
\* inode number is given to a new file; "swap": a name is given to another
\* file between the inode check and unlinkat.
ASSUME DisturbancesAssumption ==
    Disturbances \subseteq {"write", "reuse", "swap"} /\ TornAppends \in BOOLEAN

VARIABLES
    name,     \* name[p]: the inode path p refers to, or NoFile
    body,     \* body[i]: the content of inode i
    used,     \* inode numbers ever given to a file
    st,       \* st[id]: state in items/<id>.json, or "absent"
    orig,     \* orig[id]: path, ino and sha of the record (of the operation)
    data,     \* data[id]: content of items/<id>.data, or NoFile
    tmp,      \* tmp[id]: content of items/<id>.data.tmp, or NoFile
    spill,    \* <<id, p>>: .aw-restore-<id> exists in the directory of p
    chain,    \* whether the audit log on disk verifies
    audited,  \* entries <<action, id>> with outcome "ok" in the audit log
    proc,     \* proc[i]: the process that maps inode i
    pc, op,   \* the store's control point and current operation
    todo,     \* pending records recovery has still to resolve
    unsynced, \* directory changes a power loss may still undo
    removed,  \* removed[id]: content the store unlinked for id, or NoFile
    back,     \* ids whose content was written back by a restore
    purged,   \* ids whose content an administrator asked to delete
    faults, crashes, env  \* counters of the bounds

files   == <<name, body, used>>
record  == <<st, orig>>
copies  == <<data, tmp>>
log     == <<chain, audited>>
control == <<pc, op, todo>>
history == <<removed, back, purged>>
limits  == <<crashes, env>>
vars == <<name, body, used, st, orig, data, tmp, spill, chain, audited, proc,
          pc, op, todo, unsynced, removed, back, purged, faults, crashes, env>>

ItemState == {"pending", "quarantined", "restored", "deleted",
              "rolled_back", "failed"}

QuarantineSteps == {"qCopy", "qPending", "qRename", "qSyncItems", "qSame",
                    "qUnlink", "qRollBack", "qRollBackSave", "qSyncDir",
                    "qKill", "qFinal", "qAudit"}
RestoreSteps == {"rCreate", "rDecode", "rRename", "rLinked", "rSyncDir",
                 "rUnlinkData", "rSave"}
DeleteSteps  == {"dUnlink", "dSync", "dSave"}
RecoverSteps == {"recover", "recSave", "recAudit"}
Control == QuarantineSteps \cup RestoreSteps \cup DeleteSteps \cup RecoverSteps
             \cup {"closed", "idle", "report"}

\* The operation in progress. `expected` is expected_sha256 (NoFile if the
\* request has none), `path` and `ino` the file to quarantine or the restore
\* target, `result` the outcome to report or the state recovery decided on.
Operation ==
    [act : {"none", "quarantine", "restore", "delete", "recover"},
     id : Id \cup {NoFile}, path : Path \cup {NoFile},
     ino : Inode \cup {NoFile},
     expected : Content \cup {NoFile}, kill : BOOLEAN,
     result : {"ok", "error"} \cup ItemState]

OpFor(act, id, path, result) ==
    [act |-> act, id |-> id, path |-> path, ino |-> NoFile,
     expected |-> NoFile, kill |-> FALSE, result |-> result]
NoOp == OpFor("none", NoFile, NoFile, "ok")

Original   == [path : Path \cup {NoFile}, ino : Inode \cup {NoFile},
               sha : Content \cup {NoFile}]
NoOriginal == [path |-> NoFile, ino |-> NoFile, sha |-> NoFile]

----------------------------------------------------------------------------
(* Initial state: an empty store, some files, each of them possibly mapped *)
(* by a process.                                                           *)

Init ==
    /\ name \in [Path -> Inode \cup {NoFile}]
    /\ \A p, q \in Path : name[p] = name[q] => p = q \/ name[p] = NoFile
    /\ body \in [Inode -> Content]
    /\ used = {name[p] : p \in Path} \ {NoFile}
    /\ \A i, j \in Inode \ used : body[i] = body[j]
    /\ st = [i \in Id |-> "absent"]
    /\ orig = [i \in Id |-> NoOriginal]
    /\ data = [i \in Id |-> NoFile]
    /\ tmp = [i \in Id |-> NoFile]
    /\ spill = {}
    /\ chain = "intact"
    /\ audited = {}
    /\ proc \in [Inode -> {"none", "running"}]
    /\ \A i \in Inode : proc[i] = "running" => i \in used
    /\ pc = "closed"
    /\ op = NoOp
    /\ todo = {}
    /\ unsynced = {}
    /\ removed = [i \in Id |-> NoFile]
    /\ back = {}
    /\ purged = {}
    /\ faults = 0
    /\ crashes = 0
    /\ env = 0

----------------------------------------------------------------------------
(* Building blocks.                                                        *)

\* A system call fails.
Fault   == faults < MaxFaults /\ faults' = faults + 1
NoFault == faults' = faults

Goto(label) == pc' = label /\ op' = op /\ todo' = todo /\ proc' = proc

\* The guard `Paused` dropped on an early return: SIGCONT to what it stopped.
Resume ==
    proc' = [i \in Inode |->
               IF op.kill /\ i = op.ino /\ proc[i] = "paused"
               THEN "running" ELSE proc[i]]

\* Return to the caller with an error, which the outer function audits.
Return(result) ==
    /\ pc' = "report"
    /\ op' = [op EXCEPT !.result = result]
    /\ todo' = todo
    /\ Resume

\* The process lets the store go.
Leave == pc' = "closed" /\ op' = NoOp /\ todo' = {} /\ proc' = proc

\* write_atomic replaces the record or leaves the old one; when only the
\* last fsync fails it reports an error although the new one is in place.
\* A success has also synced the items directory.
Save(id, state, then) ==
    \/ /\ NoFault
       /\ st' = [st EXCEPT ![id] = state]
       /\ unsynced' = unsynced \ {"copy", "data"}
       /\ then
    \/ /\ Fault
       /\ st' \in {st, [st EXCEPT ![id] = state]}
       /\ unsynced' = unsynced
       /\ Return("error")

\* audit_event: the entry is in the log, or the call fails having written
\* nothing, part of a line, or a line the in-memory head does not count.
Append(action, id, outcome) ==
    /\ NoFault
    /\ audited' = IF outcome = "ok" THEN audited \cup {<<action, id>>} ELSE audited
    /\ chain' = chain
AppendFails   ==
    Fault /\ audited' = audited
      /\ chain' \in (IF TornAppends THEN {chain, "broken"} ELSE {chain})

FreeInodes ==
    IF "reuse" \in Disturbances
    THEN {i \in Inode : /\ \A p \in Path : name[p] # i
                        /\ proc[i] \in {"none", "killed"}
                        /\ ~(pc \in QuarantineSteps /\ op.ino = i)}
    ELSE Inode \ used

----------------------------------------------------------------------------
(* open_with and recover.                                                  *)

\* Mutant: pending records are not replayed.
OpenWithoutReplay ==
    /\ pc = "closed"
    /\ chain = "intact"
    /\ pc' = "recover" /\ op' = NoOp /\ todo' = {}
    /\ UNCHANGED <<files, record, copies, spill, log, proc, unsynced, history,
                   faults, limits>>

\* The store opens only if the audit chain verifies; recovery collects the
\* pending records.
Open ==
    /\ pc = "closed"
    /\ chain = "intact"
    /\ pc' = "recover"
    /\ op' = NoOp
    /\ todo' = {id \in Id : st[id] = "pending"}
    /\ UNCHANGED <<files, record, copies, spill, log, proc, unsynced, history,
                   faults, limits>>

\* Mutant: any file at the original path counts as the original.
OriginalPresentByName(id) == name[orig[id].path] # NoFile

OriginalPresent(id) == name[orig[id].path] = orig[id].ino

Verified(id) == data[id] # NoFile /\ data[id] = orig[id].sha

Resolve(id, outcome) ==
    /\ pc' = "recSave"
    /\ op' = OpFor("recover", id, NoFile, outcome)
    /\ todo' = todo \ {id}
    /\ UNCHANGED <<files, record, spill, log, proc, history, limits>>

\* The original is still there: discard the copies (errors are ignored).
ResolvePresent(id) ==
    /\ pc = "recover" /\ id \in todo
    /\ OriginalPresent(id)
    /\ \/ /\ NoFault
          /\ data' = [data EXCEPT ![id] = NoFile]
          /\ tmp' = [tmp EXCEPT ![id] = NoFile]
       \/ /\ Fault
          /\ data' \in {data, [data EXCEPT ![id] = NoFile]}
          /\ tmp' \in {tmp, [tmp EXCEPT ![id] = NoFile]}
    /\ UNCHANGED unsynced
    /\ Resolve(id, "rolled_back")

\* statat fails on the original's directory, or the name is another file:
\* either way it counts as gone. The temporary name goes if it can.
ResolveGone(id) ==
    /\ pc = "recover" /\ id \in todo
    /\ Verified(id)
    /\ \/ NoFault /\ ~OriginalPresent(id) /\ tmp' = [tmp EXCEPT ![id] = NoFile]
       \/ Fault /\ tmp' \in {tmp, [tmp EXCEPT ![id] = NoFile]}
    /\ UNCHANGED <<data, unsynced>>
    /\ Resolve(id, "quarantined")

\* The original is taken to be gone, and reading the copy fails or there is
\* none.
ResolveFailed(id) ==
    /\ pc = "recover" /\ id \in todo
    /\ IF OriginalPresent(id) \/ Verified(id) THEN Fault ELSE NoFault
    /\ UNCHANGED <<copies, unsynced>>
    /\ Resolve(id, "failed")

\* A recovery error makes open fail: the process gives the store up.
RecoverSave ==
    /\ pc = "recSave"
    /\ \/ /\ NoFault
          /\ st' = [st EXCEPT ![op.id] = op.result]
          /\ Goto("recAudit")
       \/ /\ Fault
          /\ st' \in {st, [st EXCEPT ![op.id] = op.result]}
          /\ Leave
    /\ UNCHANGED <<files, orig, copies, spill, log, unsynced, history, limits>>

RecoverAudit ==
    /\ pc = "recAudit"
    /\ \/ /\ Append("recover", op.id,
                    IF op.result = "failed" THEN "error" ELSE "ok")
          /\ pc' = "recover" /\ op' = NoOp /\ todo' = todo /\ proc' = proc
       \/ AppendFails /\ Leave
    /\ UNCHANGED <<files, record, copies, spill, unsynced, history, limits>>

\* Copies whose record was never written are strays.
RecoverDone ==
    /\ pc = "recover" /\ todo = {}
    /\ tmp' = [id \in Id |-> IF st[id] = "absent" THEN NoFile ELSE tmp[id]]
    /\ pc' = "idle" /\ op' = NoOp /\ todo' = {}
    /\ UNCHANGED <<files, record, data, spill, log, proc, unsynced, history,
                   faults, limits>>

Close ==
    /\ pc = "idle"
    /\ pc' = "closed"
    /\ UNCHANGED <<files, record, copies, spill, log, proc, op, todo, unsynced,
                   history, faults, limits>>

----------------------------------------------------------------------------
(* quarantine.                                                             *)

Fresh(id) == st[id] = "absent" /\ data[id] = NoFile /\ tmp[id] = NoFile

\* A check before the copy fails: no such file, a symbolic link in the path,
\* not a regular file, too large, hard links, protected, inside the store.
QuarantineRefused(p) ==
    /\ pc = "idle"
    /\ pc' = "report"
    /\ op' = OpFor("quarantine", NoFile, p, "error")
    /\ UNCHANGED <<files, record, copies, spill, log, proc, todo, unsynced,
                   history, faults, limits>>

\* The file is opened, which pins its inode, and with kill_processes the
\* processes that map it are paused; one that cannot be paused runs on.
QuarantineOpen(p, id, expected, kill) ==
    /\ pc = "idle"
    /\ name[p] # NoFile
    /\ Fresh(id)
    /\ orig' = [orig EXCEPT ![id] = [path |-> p, ino |-> name[p], sha |-> NoFile]]
    /\ \/ /\ NoFault
          /\ proc' = [proc EXCEPT ![name[p]] =
                        IF kill /\ @ = "running" THEN "paused" ELSE @]
       \/ kill /\ proc[name[p]] = "running" /\ Fault /\ proc' = proc
    /\ pc' = "qCopy"
    /\ op' = [act |-> "quarantine", id |-> id, path |-> p, ino |-> name[p],
              expected |-> expected, kill |-> kill, result |-> "ok"]
    /\ UNCHANGED <<files, st, copies, spill, log, todo, unsynced, history, limits>>

\* write_encoded: what the opened file holds, encoded, synced, decoded again
\* and compared.
CopyOf(i) == body[i]

\* Mutant: the hash of the copy is not compared with the expected one.
QuarantineCopyUnchecked ==
    /\ pc = "qCopy"
    /\ NoFault
    /\ tmp' = [tmp EXCEPT ![op.id] = body[op.ino]]
    /\ orig' = [orig EXCEPT ![op.id].sha = body[op.ino]]
    /\ Goto("qPending")
    /\ UNCHANGED <<files, st, data, spill, log, unsynced, history, limits>>

\* Compare the copy with the expected hash; a copy that fails or does not
\* match is unlinked again.
QuarantineCopy ==
    /\ pc = "qCopy"
    /\ \/ /\ NoFault
          /\ op.expected \in {NoFile, CopyOf(op.ino)}
          /\ tmp' = [tmp EXCEPT ![op.id] = CopyOf(op.ino)]
          /\ orig' = [orig EXCEPT ![op.id].sha = CopyOf(op.ino)]
          /\ Goto("qPending")
       \/ /\ IF op.expected \in {NoFile, CopyOf(op.ino)} THEN Fault ELSE NoFault
          /\ Return("error")
          /\ UNCHANGED <<tmp, orig>>
    /\ UNCHANGED <<files, st, data, spill, log, unsynced, history, limits>>

\* Mutant: an error of the journal write is ignored.
QuarantinePendingIgnored ==
    /\ pc = "qPending"
    /\ \/ Save(op.id, "pending", Goto("qRename"))
       \/ Fault /\ Goto("qRename") /\ UNCHANGED <<st, unsynced>>
    /\ UNCHANGED <<files, orig, copies, spill, log, history, limits>>

QuarantinePending ==
    /\ pc = "qPending"
    /\ Save(op.id, "pending", Goto("qRename"))
    /\ UNCHANGED <<files, orig, copies, spill, log, history, limits>>

QuarantineRename ==
    /\ pc = "qRename"
    /\ \/ /\ NoFault
          /\ data' = [data EXCEPT ![op.id] = tmp[op.id]]
          /\ tmp' = [tmp EXCEPT ![op.id] = NoFile]
          /\ unsynced' = unsynced \cup {"copy"}
          /\ Goto("qSyncItems")
       \/ Fault /\ Return("error") /\ UNCHANGED <<copies, unsynced>>
    /\ UNCHANGED <<files, record, spill, log, history, limits>>

QuarantineSyncItems ==
    /\ pc = "qSyncItems"
    /\ \/ NoFault /\ unsynced' = unsynced \ {"copy"} /\ Goto("qSame")
       \/ Fault /\ UNCHANGED unsynced /\ Return("error")
    /\ UNCHANGED <<files, record, copies, spill, log, history, limits>>

\* statat: does the name still refer to the inode that was copied?
QuarantineStillSame ==
    /\ pc = "qSame"
    /\ \/ NoFault /\ name[op.path] = op.ino /\ Goto("qUnlink")
       \/ /\ IF name[op.path] = op.ino THEN Fault ELSE NoFault
          /\ Goto("qRollBack")
    /\ UNCHANGED <<files, record, copies, spill, log, unsynced, history, limits>>

\* unlinkat removes whatever the name refers to now.
QuarantineUnlink ==
    /\ pc = "qUnlink"
    /\ \/ /\ NoFault
          /\ name[op.path] # NoFile
          /\ name' = [name EXCEPT ![op.path] = NoFile]
          /\ removed' = [removed EXCEPT ![op.id] = body[name[op.path]]]
          /\ unsynced' = unsynced \cup {"original"}
          /\ Goto("qSyncDir")
       \/ /\ IF name[op.path] = NoFile THEN NoFault ELSE Fault
          /\ Goto("qRollBack")
          /\ UNCHANGED <<name, removed, unsynced>>
    /\ UNCHANGED <<body, used, record, copies, spill, log, back, purged, limits>>

\* roll_back discards the copy (errors are ignored), then saves the record.
RollBack ==
    /\ pc = "qRollBack"
    /\ \/ NoFault /\ data' = [data EXCEPT ![op.id] = NoFile]
       \/ Fault /\ data' = data
    /\ Goto("qRollBackSave")
    /\ UNCHANGED <<files, record, tmp, spill, log, unsynced, history, limits>>

RollBackSave ==
    /\ pc = "qRollBackSave"
    /\ Save(op.id, "rolled_back", Return("error"))
    /\ UNCHANGED <<files, orig, copies, spill, log, history, limits>>

\* Mutant: a failed fsync of the directory is answered with a roll back.
QuarantineSyncDirRollsBack ==
    /\ pc = "qSyncDir"
    /\ \/ NoFault /\ unsynced' = unsynced \ {"original"} /\ Goto("qKill")
       \/ Fault /\ UNCHANGED unsynced /\ Goto("qRollBackSave")
    /\ UNCHANGED <<files, record, copies, spill, log, history, limits>>

QuarantineSyncDir ==
    /\ pc = "qSyncDir"
    /\ \/ NoFault /\ unsynced' = unsynced \ {"original"} /\ Goto("qKill")
       \/ Fault /\ UNCHANGED unsynced /\ Return("error")
    /\ UNCHANGED <<files, record, copies, spill, log, history, limits>>

\* Paused processes are killed; one that cannot be is resumed.
QuarantineKill ==
    /\ pc = "qKill"
    /\ \/ /\ NoFault
          /\ proc' = [proc EXCEPT ![op.ino] =
                        IF op.kill /\ @ = "paused" THEN "killed" ELSE @]
       \/ Fault /\ Resume
    /\ pc' = "qFinal" /\ op' = op /\ todo' = todo
    /\ UNCHANGED <<files, record, copies, spill, log, unsynced, history, limits>>

QuarantineFinal ==
    /\ pc = "qFinal"
    /\ Save(op.id, "quarantined", Goto("qAudit"))
    /\ UNCHANGED <<files, orig, copies, spill, log, history, limits>>

QuarantineAudit ==
    /\ pc = "qAudit"
    /\ \/ /\ Append("quarantine", op.id, "ok")
          /\ pc' = "idle" /\ op' = NoOp /\ todo' = todo /\ proc' = proc
       \/ AppendFails /\ Return("error")
    /\ UNCHANGED <<files, record, copies, spill, unsynced, history, limits>>

\* The entry of restore and delete, and of a quarantine that failed. What an
\* operation that is over left unsynced is taken to reach the disk.
Report ==
    /\ pc = "report"
    /\ Append(op.act, op.id, op.result) \/ AppendFails
    /\ pc' = "idle" /\ op' = NoOp /\ todo' = todo
    /\ unsynced' = {}
    /\ UNCHANGED <<files, record, copies, spill, proc, history, limits>>

----------------------------------------------------------------------------
(* restore and delete.                                                     *)

\* get fails, the item is not quarantined, or the target directory is not
\* safe.
Refuse(act, id) ==
    /\ pc = "idle"
    /\ pc' = "report"
    /\ op' = OpFor(act, id, NoFile, "error")
    /\ UNCHANGED <<files, record, copies, spill, log, proc, todo, unsynced,
                   history, faults, limits>>

\* Mutant: the state of the item is not checked.
BeginUnchecked(act, id, p, label) ==
    /\ pc = "idle"
    /\ st[id] # "absent"
    /\ pc' = label
    /\ op' = OpFor(act, id, p, "ok")
    /\ UNCHANGED <<files, record, copies, spill, log, proc, todo, unsynced,
                   removed, back, faults, limits>>

Begin(act, id, p, label) ==
    /\ pc = "idle"
    /\ st[id] = "quarantined"
    /\ pc' = label
    /\ op' = OpFor(act, id, p, "ok")
    /\ UNCHANGED <<files, record, copies, spill, log, proc, todo, unsynced,
                   removed, back, faults, limits>>

Restore(id, p) == Begin("restore", id, p, "rCreate") /\ purged' = purged

\* The temporary file is created with O_EXCL in the target's directory.
RestoreCreate ==
    /\ pc = "rCreate"
    /\ \/ /\ NoFault
          /\ <<op.id, op.path>> \notin spill
          /\ spill' = spill \cup {<<op.id, op.path>>}
          /\ Goto("rDecode")
       \/ /\ IF <<op.id, op.path>> \in spill THEN NoFault ELSE Fault
          /\ Return("error")
          /\ UNCHANGED spill
    /\ UNCHANGED <<files, record, copies, log, unsynced, history, limits>>

Cleanup == spill' = spill \ {<<op.id, op.path>>}

\* Decode, check the hash, set mode and owner, fsync.
RestoreDecode ==
    /\ pc = "rDecode"
    /\ \/ NoFault /\ Verified(op.id) /\ Goto("rRename") /\ UNCHANGED spill
       \/ /\ IF Verified(op.id) THEN Fault ELSE NoFault
          /\ Cleanup
          /\ Return("error")
    /\ UNCHANGED <<files, record, copies, log, unsynced, history, limits>>

\* RENAME_NOREPLACE, or link(2) where the file system lacks it (the
\* temporary name is then removed afterwards). An occupied name is refused.
RestoreRename ==
    /\ pc = "rRename"
    /\ \/ /\ NoFault
          /\ name[op.path] = NoFile
          /\ \E i \in FreeInodes :
               /\ name' = [name EXCEPT ![op.path] = i]
               /\ body' = [body EXCEPT ![i] = data[op.id]]
               /\ used' = used \cup {i}
               /\ op' = [op EXCEPT !.ino = i]
          /\ back' = back \cup {op.id}
          /\ unsynced' = unsynced \cup {"target"}
          /\ todo' = todo
          /\ proc' = proc
          /\ \/ Cleanup /\ pc' = "rSyncDir"
             \/ UNCHANGED spill /\ pc' = "rLinked"
       \/ /\ IF name[op.path] = NoFile /\ FreeInodes # {} THEN Fault ELSE NoFault
          /\ Cleanup
          /\ Return("error")
          /\ UNCHANGED <<files, unsynced, back>>
    /\ UNCHANGED <<record, copies, log, removed, purged, limits>>

RestoreLinked ==
    /\ pc = "rLinked"
    /\ (NoFault /\ Cleanup) \/ (Fault /\ UNCHANGED spill)
    /\ Goto("rSyncDir")
    /\ UNCHANGED <<files, record, copies, log, unsynced, history, limits>>

RestoreSyncDir ==
    /\ pc = "rSyncDir"
    /\ \/ NoFault /\ unsynced' = unsynced \ {"target"} /\ Goto("rUnlinkData")
       \/ Fault /\ UNCHANGED unsynced /\ Return("error")
    /\ UNCHANGED <<files, record, copies, spill, log, history, limits>>

UnlinkData(label) ==
    /\ \/ /\ NoFault
          /\ data' = [data EXCEPT ![op.id] = NoFile]
          /\ unsynced' = IF data[op.id] = NoFile THEN unsynced
                         ELSE unsynced \cup {"data"}
          /\ Goto(label)
       \/ Fault /\ UNCHANGED <<data, unsynced>> /\ Return("error")
    /\ UNCHANGED <<files, record, tmp, spill, log, history, limits>>

RestoreUnlinkData == pc = "rUnlinkData" /\ UnlinkData("rSave")

RestoreSave ==
    /\ pc = "rSave"
    /\ Save(op.id, "restored", Return("ok"))
    /\ UNCHANGED <<files, orig, copies, spill, log, history, limits>>

Delete(id) ==
    Begin("delete", id, NoFile, "dUnlink") /\ purged' = purged \cup {id}

\* A copy that is already missing is tolerated.
DeleteUnlink == pc = "dUnlink" /\ UnlinkData("dSync")

DeleteSync ==
    /\ pc = "dSync"
    /\ \/ NoFault /\ unsynced' = unsynced \ {"data"} /\ Goto("dSave")
       \/ Fault /\ UNCHANGED unsynced /\ Return("error")
    /\ UNCHANGED <<files, record, copies, spill, log, history, limits>>

DeleteSave ==
    /\ pc = "dSave"
    /\ Save(op.id, "deleted", Return("ok"))
    /\ UNCHANGED <<files, orig, copies, spill, log, history, limits>>

----------------------------------------------------------------------------
(* Crashes.                                                                *)

Stop ==
    /\ pc # "closed"
    /\ crashes < MaxCrashes
    /\ crashes' = crashes + 1
    /\ pc' = "closed" /\ op' = NoOp /\ todo' = {} /\ unsynced' = {}
    /\ chain' \in (IF TornAppends /\ pc \in {"qAudit", "recAudit", "report"}
                   THEN {chain, "broken"} ELSE {chain})
    /\ UNCHANGED <<record, audited, purged, faults, env>>

\* The process is killed. A copy in progress stays behind, and so do the
\* processes it had paused.
Kill ==
    /\ Stop
    /\ \/ tmp' = tmp
       \/ pc = "qCopy" /\ tmp' = [tmp EXCEPT ![op.id] = body[op.ino]]
    /\ UNCHANGED <<files, data, spill, proc, removed, back>>

\* The machine stops: directory changes that were not synced may be undone.
PowerLoss ==
    /\ Stop
    /\ \E lost \in SUBSET unsynced :
         /\ "original" \in lost =>
              name[op.path] = NoFile /\ \A p \in Path : name[p] # op.ino
         /\ "target" \in lost => name[op.path] = op.ino
         /\ name' = IF "original" \in lost
                    THEN [name EXCEPT ![op.path] = op.ino]
                    ELSE IF "target" \in lost
                         THEN [name EXCEPT ![op.path] = NoFile]
                         ELSE name
         /\ removed' = IF "original" \in lost
                       THEN [removed EXCEPT ![op.id] = NoFile] ELSE removed
         /\ back' = IF "target" \in lost THEN back \ {op.id} ELSE back
         /\ \/ spill' = spill
            \/ "target" \in lost /\ spill' = spill \cup {<<op.id, op.path>>}
         /\ data' = IF "copy" \in lost THEN [data EXCEPT ![op.id] = NoFile]
                    ELSE IF "data" \in lost
                         THEN [data EXCEPT ![op.id] = orig[op.id].sha]
                         ELSE data
         /\ tmp' = IF "copy" \in lost
                   THEN [tmp EXCEPT ![op.id] = orig[op.id].sha] ELSE tmp
    /\ proc' = [i \in Inode |-> IF proc[i] = "killed" THEN "killed" ELSE "none"]
    /\ UNCHANGED <<body, used>>

----------------------------------------------------------------------------
(* Other users of the file system.                                         *)

Outside ==
    /\ env < MaxEnv
    /\ env' = env + 1
    /\ UNCHANGED <<record, copies, spill, log, control, unsynced, history,
                   faults, crashes>>

\* Whether p may be given to another file right now: always, except between
\* the inode check and unlinkat when "swap" is not among the disturbances.
Swappable(p) == "swap" \in Disturbances \/ pc # "qUnlink" \/ p # op.path

EnvCreate(p, c) ==
    /\ Outside
    /\ name[p] = NoFile /\ Swappable(p)
    /\ \E i \in FreeInodes :
         /\ name' = [name EXCEPT ![p] = i]
         /\ body' = [body EXCEPT ![i] = c]
         /\ used' = used \cup {i}
    /\ UNCHANGED proc

EnvRemove(p) ==
    /\ Outside
    /\ name[p] # NoFile
    /\ name' = [name EXCEPT ![p] = NoFile]
    /\ UNCHANGED <<body, used, proc>>

EnvRename(p, q) ==
    /\ Outside
    /\ p # q /\ name[p] # NoFile /\ Swappable(q)
    /\ name' = [name EXCEPT ![p] = NoFile, ![q] = name[p]]
    /\ UNCHANGED <<body, used, proc>>

EnvWrite(i, c) ==
    /\ Outside
    /\ i \in used
    /\ "write" \in Disturbances
         \/ ~(pc \in QuarantineSteps \ {"qCopy"} /\ i = op.ino)
    /\ body' = [body EXCEPT ![i] = c]
    /\ UNCHANGED <<name, used, proc>>

----------------------------------------------------------------------------
Recover ==
    \/ Open \/ RecoverSave \/ RecoverAudit \/ RecoverDone
    \/ \E id \in Id : ResolvePresent(id) \/ ResolveGone(id) \/ ResolveFailed(id)

Quarantine ==
    \/ QuarantineCopy \/ QuarantinePending \/ QuarantineRename
    \/ QuarantineSyncItems \/ QuarantineStillSame \/ QuarantineUnlink
    \/ RollBack \/ RollBackSave \/ QuarantineSyncDir \/ QuarantineKill
    \/ QuarantineFinal \/ QuarantineAudit \/ Report

RestoreOrDelete ==
    \/ RestoreCreate \/ RestoreDecode \/ RestoreRename \/ RestoreLinked
    \/ RestoreSyncDir \/ RestoreUnlinkData \/ RestoreSave
    \/ DeleteUnlink \/ DeleteSync \/ DeleteSave

Request ==
    \/ \E p \in Path : QuarantineRefused(p)
    \/ \E p \in Path, id \in Id, e \in Content \cup {NoFile}, k \in BOOLEAN :
         QuarantineOpen(p, id, e, k)
    \/ \E id \in Id : Refuse("restore", id) \/ Refuse("delete", id)
    \/ \E id \in Id, p \in Path : Restore(id, p)
    \/ \E id \in Id : Delete(id)

Environment ==
    \/ \E p \in Path, c \in Content : EnvCreate(p, c)
    \/ \E p \in Path : EnvRemove(p)
    \/ \E p, q \in Path : EnvRename(p, q)
    \/ \E i \in Inode, c \in Content : EnvWrite(i, c)

Next == Recover \/ Quarantine \/ RestoreOrDelete \/ Request \/ Close
          \/ Kill \/ PowerLoss \/ Environment

Spec == Init /\ [][Next]_vars

\* A user or a service manager reopens a store that is closed, the process
\* that holds it keeps running its operation, and ends some time after.
Fairness ==
    /\ WF_vars(Recover) /\ WF_vars(Quarantine) /\ WF_vars(RestoreOrDelete)
    /\ SF_vars(Close)

FairSpec == Spec /\ Fairness

----------------------------------------------------------------------------
(* Properties.                                                             *)

FilesType ==
    /\ name \in [Path -> Inode \cup {NoFile}]
    /\ body \in [Inode -> Content]
    /\ used \in SUBSET Inode
    /\ proc \in [Inode -> {"none", "running", "paused", "killed"}]

StoreType ==
    /\ st \in [Id -> ItemState \cup {"absent"}]
    /\ orig \in [Id -> Original]
    /\ data \in [Id -> Content \cup {NoFile}]
    /\ tmp \in [Id -> Content \cup {NoFile}]
    /\ spill \in SUBSET (Id \X Path)
    /\ chain \in {"intact", "broken"}

ControlType ==
    /\ pc \in Control
    /\ op \in Operation
    /\ todo \in SUBSET Id
    /\ unsynced \in SUBSET {"copy", "original", "target", "data"}

HistoryType ==
    /\ removed \in [Id -> Content \cup {NoFile}]
    /\ back \in SUBSET Id
    /\ purged \in SUBSET Id
    /\ faults \in 0..MaxFaults
    /\ crashes \in 0..MaxCrashes
    /\ env \in 0..MaxEnv

\* The types of the variables; the counters stay within their bounds.
TypeOK == FilesType /\ StoreType /\ ControlType /\ HistoryType

\* "No data loss on crash": what the store unlinked for an item is in
\* items/<id>.data, or was written back by a restore, or an administrator
\* asked for its deletion, whatever failed or crashed on the way.
NoContentLost ==
    \A id \in Id : removed[id] # NoFile =>
        data[id] = removed[id] \/ id \in back \/ id \in purged

\* quarantine.md: "The quarantine re-checks the hash, so a file that changed
\* after the scan is left alone": whoever writes to, renames or recreates the
\* file until it is copied, nothing but the expected content is removed.
ChangedFileLeftAlone ==
    pc \in QuarantineSteps /\ op.expected # NoFile
      => removed[op.id] \in {NoFile, op.expected}

\* What ItemState says of the past: a rolled back item's original was never
\* removed by the store, a restored item's content was written back, and a
\* deleted item's deletion was asked for.
RecordTellsTheTruth ==
    \A id \in Id :
        /\ st[id] = "rolled_back" => removed[id] = NoFile
        /\ st[id] = "restored" => id \in back
        /\ st[id] = "deleted" => id \in purged

\* The store takes a name away only from a file whose content is committed,
\* under a pending record, as the copy of the item it is working on; so it
\* never removes a file it did not copy and a restore never overwrites one.
RemovesOnlyCopies ==
    \A p \in Path :
        (name[p] # NoFile /\ name'[p] # name[p] /\ env' = env
           /\ crashes' = crashes)
        => /\ name'[p] = NoFile
           /\ pc = "qUnlink" /\ p = op.path
           /\ st[op.id] = "pending" /\ "copy" \notin unsynced
           /\ data[op.id] = body[name[p]]

RemovesOnlyWhatItCopied == [][RemovesOnlyCopies]_vars

\* The lifecycle ItemState documents: records move only along its arrows.
MovesAlongLifecycle ==
    \A id \in Id : st'[id] # st[id] =>
        \/ st[id] = "absent" /\ st'[id] = "pending"
        \/ st[id] = "pending" /\ st'[id] \in {"quarantined", "rolled_back", "failed"}
        \/ st[id] = "quarantined" /\ st'[id] \in {"restored", "deleted"}

RecordLifecycle == [][MovesAlongLifecycle]_vars

\* Processes that map a file are killed only after the store removed the
\* file, which NoContentLost says is after its copy was safe.
KilledOnlyOnceStored ==
    \A i \in Inode : proc[i] = "killed" =>
        \E id \in Id : orig[id].ino = i /\ removed[id] # NoFile

\* Paused processes belong to the quarantine in progress: every error path
\* resumes them. (Only a crash can leave one stopped.)
PausedOnlyDuringQuarantine ==
    \A i \in Inode : proc[i] = "paused" /\ crashes = 0 =>
        pc \in QuarantineSteps /\ op.kill /\ op.ino = i

\* The audit log never reports as done what is not on disk.
AuditNeverAhead ==
    \A id \in Id :
        /\ <<"quarantine", id>> \in audited =>
             st[id] \in {"quarantined", "restored", "deleted"}
        /\ <<"restore", id>> \in audited => st[id] = "restored"
        /\ <<"delete", id>> \in audited => st[id] = "deleted"

\* Where the content of an item is: the mapping to Custody.
PlaceOf(id) ==
    {x \in {"home", "store", "back"} :
        \/ x = "home" /\ removed[id] = NoFile
        \/ x = "store" /\ Verified(id)
        \/ x = "back" /\ id \in back}

Promise == INSTANCE Custody WITH
    Undo <- TRUE, state <- st, place <- [id \in Id |-> PlaceOf(id)], asked <- purged

\* The store implements Custody, the promise it shares with the Windows
\* store: an item's content leaves its place only for the store, and the
\* store only when it is at home, was given back or was to be deleted.
ImplementsCustody == Promise!Spec

\* An interrupted operation is resolved: by its own completion, or by the
\* recovery of a later open.
PendingIsResolved ==
    \A id \in Id : st[id] = "pending" ~> st[id] # "pending"

----------------------------------------------------------------------------
(* What the documentation says and the code does not keep:                 *)
(* QuarantineStoreAuditGap.cfg has a counterexample.                       *)

\* docs/security/quarantine.md: "Every operation and every failure is in the
\* audit log": a completed operation has its entry once the store is idle.
EveryOperationAudited ==
    \A id \in Id : pc \in {"idle", "closed"} /\ faults = 0 =>
        /\ st[id] \in {"quarantined", "restored", "deleted"} =>
             \E a \in {"quarantine", "recover"} : <<a, id>> \in audited
        /\ st[id] = "restored" => <<"restore", id>> \in audited
        /\ st[id] = "deleted" => <<"delete", id>> \in audited

----------------------------------------------------------------------------
(* The inductive invariant QuarantineStoreProofs proves.                   *)

\* What the operation in progress has established when it is at pc.
QuarantinePhase ==
    /\ pc \in QuarantineSteps =>
         /\ op.act = "quarantine" /\ op.id \in Id
         /\ op.path \in Path /\ op.ino \in Inode
         /\ orig[op.id].path = op.path /\ orig[op.id].ino = op.ino
    /\ pc \in {"qCopy", "qPending"} => st[op.id] = "absent"
    /\ pc \in QuarantineSteps \ {"qCopy", "qPending", "qAudit"} =>
         st[op.id] = "pending"
    /\ pc = "qAudit" => st[op.id] = "quarantined"
    /\ pc \in {"qPending", "qRename"} =>
         orig[op.id].sha \in Content /\ tmp[op.id] = orig[op.id].sha
    /\ pc \in {"qSyncItems", "qSame", "qUnlink", "qSyncDir", "qKill", "qFinal"} =>
         orig[op.id].sha \in Content /\ data[op.id] = orig[op.id].sha

RestorePhase ==
    /\ pc \in RestoreSteps =>
         /\ op.act = "restore" /\ op.id \in Id /\ op.path \in Path
         /\ st[op.id] = "quarantined"
    /\ pc \in {"rRename", "rLinked", "rSyncDir", "rUnlinkData"} =>
         orig[op.id].sha \in Content /\ data[op.id] = orig[op.id].sha
    /\ pc \in {"rLinked", "rSyncDir", "rUnlinkData", "rSave"} => op.id \in back
    /\ pc \in DeleteSteps =>
         /\ op.act = "delete" /\ op.id \in Id
         /\ st[op.id] = "quarantined" /\ op.id \in purged

RecoverPhase ==
    /\ \A id \in Id : st[id] # "absent" =>
         orig[id].path \in Path /\ orig[id].ino \in Inode
    /\ \A id \in todo : st[id] = "pending"
    /\ todo # {} => pc \in RecoverSteps
    /\ pc \in {"recSave", "recAudit"} => op.id \in Id /\ op.id \notin todo
    /\ pc = "recSave" => st[op.id] = "pending"
    /\ pc = "recSave" => op.result \in {"rolled_back", "quarantined", "failed"}

\* Which changes may still be undone, and what then covers for them.
UnsyncedPhase ==
    /\ "copy" \in unsynced =>
         /\ pc \in {"qSyncItems", "report"}
         /\ op.act = "quarantine" /\ op.id \in Id
         /\ st[op.id] = "pending"
    /\ "original" \in unsynced =>
         /\ pc \in {"qSyncDir", "report"}
         /\ op.act = "quarantine"
         /\ op.id \in Id /\ op.path \in Path /\ op.ino \in Inode
         /\ orig[op.id].ino = op.ino
         /\ "copy" \notin unsynced
    /\ "target" \in unsynced =>
         /\ pc \in {"rLinked", "rSyncDir", "report"}
         /\ op.act = "restore" /\ op.id \in Id /\ op.path \in Path
         /\ st[op.id] = "quarantined"
         /\ orig[op.id].sha \in Content /\ data[op.id] = orig[op.id].sha
         /\ "data" \notin unsynced
    /\ "data" \in unsynced =>
         /\ pc \in {"rSave", "dSync", "report"}
         /\ op.act \in {"restore", "delete"} /\ op.id \in Id

Phase == QuarantinePhase /\ RestorePhase /\ RecoverPhase /\ UnsyncedPhase

\* Names and inodes, without "reuse" and "swap".
NamesInv ==
    /\ \A p, q \in Path : name[p] = name[q] => p = q \/ name[p] = NoFile
    /\ \A p \in Path : name[p] # NoFile => name[p] \in used
    /\ pc \in QuarantineSteps => op.ino \in used
    /\ pc = "qUnlink" => name[op.path] \in {op.ino, NoFile}

\* What the store removed had been copied; its inode has no name any more.
RemovedInv ==
    /\ \A id \in Id : removed[id] # NoFile =>
         /\ st[id] \notin {"absent", "rolled_back"}
         /\ orig[id].sha = removed[id]
         /\ orig[id].ino \in used
         /\ \A p \in Path : name[p] # orig[id].ino
         /\ \A other \in Id \ {id} : removed[other] # NoFile =>
              orig[other].ino # orig[id].ino
    /\ pc \in {"qPending", "qRename", "qSyncItems", "qSame", "qUnlink"} =>
         orig[op.id].sha = body[op.ino]
    /\ pc \in {"qCopy", "qPending", "qRename", "qSyncItems", "qSame", "qUnlink",
               "qRollBack", "qRollBackSave"} => removed[op.id] = NoFile
    /\ "copy" \in unsynced => removed[op.id] = NoFile
    /\ "original" \in unsynced => removed[op.id] # NoFile
    /\ pc = "recSave" /\ op.result = "rolled_back" => removed[op.id] = NoFile

IInv == TypeOK /\ Phase /\ NamesInv /\ RemovedInv /\ NoContentLost
          /\ RecordTellsTheTruth

\* What the copy of the item in progress is, in addition, when the record of
\* what was done to it is written; and that it is what the request expects.
CopyInv ==
    /\ pc \in {"qCopy", "qPending", "qRename"} => data[op.id] = NoFile
    /\ pc \in {"rSave", "dSync", "dSave"} => data[op.id] = NoFile
    /\ pc = "recSave" /\ op.result = "quarantined" => Verified(op.id)
    /\ pc \in QuarantineSteps \ {"qCopy"} /\ op.expected # NoFile
         => orig[op.id].sha = op.expected

\* What the entry about to be written reports as done is done.
AuditInv ==
    /\ AuditNeverAhead
    /\ pc = "report" /\ op.result = "ok" =>
         /\ op.id \in Id
         /\ \/ op.act = "restore" /\ st[op.id] = "restored"
            \/ op.act = "delete" /\ st[op.id] = "deleted"

\* The removal that a kill followed was synced: a power loss cannot undo it.
KilledInv ==
    /\ \A i \in Inode : proc[i] = "killed" =>
         \E id \in Id :
            /\ orig[id].ino = i /\ removed[id] # NoFile
            /\ "original" \in unsynced => id # op.id
    /\ pc \in {"qSyncDir", "qKill"} => removed[op.id] # NoFile

\* Nothing is paused any more once qKill was passed.
PausedInv ==
    /\ PausedOnlyDuringQuarantine
    /\ pc \in {"qFinal", "qAudit"} /\ crashes = 0 =>
         \A i \in Inode : proc[i] # "paused"
============================================================================
