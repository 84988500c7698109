---------------------------- MODULE WindowsStore ----------------------------
(***************************************************************************)
(* The Windows quarantine store, crates/remediation/src/windows.rs, with   *)
(* the commands of `abyssal-warden quarantine` (crates/cli/src/            *)
(* quarantine.rs) that use it and the service's comparison of its audit    *)
(* log with the anchors in the event log (crates/service/src/audit.rs).    *)
(*                                                                         *)
(* One process holds the store (the lock on .lock) and runs one operation  *)
(* at a time.  Every call that changes the disk is a step of its own: other *)
(* programs act between any two of them, any call may fail (MaxFaults) and *)
(* the process may stop anywhere (MaxCrashes).  The differences from the   *)
(* Linux store are modelled: the original is pinned by a handle that       *)
(* shares only reading, deleted through that handle, cannot be deleted     *)
(* while it runs; a restore links a temporary file to its target; nothing  *)
(* flushes a directory, so a loss of power is not modelled.                *)
(*                                                                         *)
(* A content stands for its SHA-256 and its encoded copy; a file index     *)
(* (with the volume it is on) is never used again; a record is its state,  *)
(* original path, file index and hash.                                     *)
(***************************************************************************)
EXTENDS AuditLog, WindowsAccess

CONSTANTS
    Path,       \* absolute paths outside the store, each in its own directory
    Inode,      \* file indices
    Content,    \* file contents
    Id,         \* random item identifiers
    NoFile,     \* "no such file", and the absent value of other fields
    User,       \* the account the store runs as
    FileOwner,  \* the owner recorded with a quarantined file
    DirAccess,  \* security descriptors a target directory may have
    RootAccess, \* security descriptors the store's root may have
    MAX_ALLOW_ENTRIES,
    Word,            \* number of values of the counters of AnchorComparison
    MaxLines, MaxFaults, MaxCrashes, MaxEnv

ASSUME WindowsAssumption ==
    /\ Word \in Nat \ {0}
    /\ NoFile \notin Path \cup Inode \cup Content \cup Id \cup RootAccess
    /\ IsFiniteSet(Content) /\ private_dacl(User) \in RootAccess
    /\ MAX_ALLOW_ENTRIES \in Nat /\ MaxLines \in Nat /\ MaxFaults \in Nat
    /\ MaxCrashes \in Nat /\ MaxEnv \in Nat

VARIABLES
    name,     \* name[p]: the file at p, or NoFile
    body,     \* body[i]: the content of file i
    used,     \* file indices given to a file so far
    busy,     \* files another program holds open without sharing
    running,  \* files that are the image of a running process
    root,     \* the descriptor of the store's root, or NoFile before it is created
    st,       \* st[id]: state in items/<id>.json, or "absent"
    orig,     \* orig[id]: path, index and hash of the record
    data,     \* data[id]: content of items/<id>.data, or NoFile
    tmp,      \* tmp[id]: content of items/<id>.data.tmp, or NoFile
    spill,    \* <<id, p, i>>: .aw-restore-<id> in p's directory is file i
    allowed,  \* contents on the allow-list
    lines,    \* audit.log
    head,     \* ChainHead of the process that holds the store
    journal,  \* texts of the anchors the event log received
    clock,    \* entries written so far: the time in an entry
    pc, op, todo,
    check,    \* the service's audit check: the chain it read, its AuditStatus
    removed,  \* removed[id]: content the store deleted for id, or NoFile
    back,     \* items whose content a restore wrote back
    purged,   \* items whose content an administrator asked to delete
    altered,  \* whether somebody changed audit.log behind the store's back
    faults, crashes, env

files   == <<name, body, used, busy, running, root>>
record  == <<st, orig>>
copies  == <<data, tmp>>
log     == <<lines, head, journal, clock>>
control == <<pc, op, todo>>
history == <<removed, back, purged>>
vars == <<name, body, used, busy, running, root, st, orig, data, tmp,
          spill, allowed, lines, head, journal, clock, pc, op, todo, check,
          removed, back, purged, altered, faults, crashes, env>>

ItemState == {"pending", "quarantined", "restored", "deleted",
              "rolled_back", "failed"}

QuarantineSteps == {"qCopy", "qPending", "qRename", "qDelete", "qKill", "qRetry",
                    "qRollBack", "qRollBackSave", "qFinal", "qAudit"}
RestoreSteps == {"rCreate", "rDecode", "rLink", "rUnlinkData", "rSave"}
DeleteSteps  == {"dUnlink", "dSave"}
ListSteps    == {"aAllow", "aAudit"}
RecoverSteps == {"recover", "recSave", "recAudit"}
Control == QuarantineSteps \cup RestoreSteps \cup DeleteSteps \cup ListSteps
             \cup RecoverSteps \cup {"closed", "idle", "report"}

\* The operation in progress. `allow`: the command adds what it restores to
\* the allow-list; `kill`: kill_processes; `sha`: expected_sha256, or the
\* content of an allow-list command.
Operation ==
    [act : {"none", "quarantine", "restore", "delete", "recover", "allow",
            "disallow"},
     id : Id \cup {NoFile}, path : Path \cup {NoFile},
     ino : Inode \cup {NoFile}, sha : Content \cup {NoFile},
     kill : BOOLEAN, allow : BOOLEAN, result : {"ok", "error"} \cup ItemState]

OpFor(act, id, path, result) ==
    [act |-> act, id |-> id, path |-> path, ino |-> NoFile, sha |-> NoFile,
     kill |-> FALSE, allow |-> FALSE, result |-> result]
NoOp == OpFor("none", NoFile, NoFile, "ok")

NoOriginal == [path |-> NoFile, ino |-> NoFile, sha |-> NoFile]

\* AuditStatus as check begins with it.  `late` is what had happened to the
\* log when the chain was read; `other_chains`, whether the count is above 0.
NoCheck == [at |-> "none", chain |-> <<>>, late |-> "no", chain_ok |-> FALSE,
            journal_checked |-> FALSE, consistent |-> FALSE,
            other_chains |-> FALSE, unanchored |-> 0]

Init ==
    /\ name \in [Path -> Inode \cup {NoFile}]
    /\ \A p, q \in Path : name[p] = name[q] => p = q \/ name[p] = NoFile
    /\ body \in [Inode -> Content]
    /\ used = {name[p] : p \in Path} \ {NoFile}
    /\ \A i, j \in Inode \ used : body[i] = body[j]
    /\ busy = {}
    /\ running \in SUBSET used
    /\ root = NoFile
    /\ st = [i \in Id |-> "absent"]
    /\ orig = [i \in Id |-> NoOriginal]
    /\ data = [i \in Id |-> NoFile]
    /\ tmp = [i \in Id |-> NoFile]
    /\ spill = {}
    /\ allowed \in {a \in SUBSET Content : Cardinality(a) <= MAX_ALLOW_ENTRIES}
    /\ lines = <<>> /\ head = Genesis /\ journal = {} /\ clock = 0
    /\ pc = "closed" /\ op = NoOp /\ todo = {}
    /\ check = NoCheck
    /\ removed = [i \in Id |-> NoFile]
    /\ back = {} /\ purged = {} /\ altered = "no"
    /\ faults = 0 /\ crashes = 0 /\ env = 0

----------------------------------------------------------------------------
(* Building blocks.                                                        *)

Fault   == faults < MaxFaults /\ faults' = faults + 1
NoFault == faults' = faults

Goto(label) == pc' = label /\ op' = op /\ todo' = todo

\* Back to the caller, who audits the outcome; the pinned file is let go.
Return(result) ==
    /\ pc' = "report"
    /\ op' = [op EXCEPT !.result = result]
    /\ todo' = todo

Leave == pc' = "closed" /\ op' = NoOp /\ todo' = {}

\* write_atomic: the new record replaces the old one or the call fails.
Save(id, state, then) ==
    \/ NoFault /\ st' = [st EXCEPT ![id] = state] /\ then
    \/ Fault /\ st' = st /\ Return("error")

\* audit_event: append, flush, anchor.  An anchor the event log does not take
\* is only remembered (anchor_failed).  An entry is told from any other by its
\* time.
Audit ==
    LET line == Line(head, [time |-> clock, by |-> "store"])
    IN  /\ lines' = Append(lines, line)
        /\ head' = NewHead(head, line)
        /\ clock' = clock + 1
        /\ \/ NoFault /\ journal' = journal \cup {AnchorText(head')}
           \/ Fault /\ journal' = journal

\* The append fails having written nothing or part of a line, or the flush
\* fails after a whole line the head in memory does not count.
AuditFails ==
    LET line == Line(head, [time |-> clock, by |-> "store"])
    IN  /\ Fault
        /\ lines' \in {lines, Append(lines, line),
                      Append(lines, PartOf(line))}
        /\ clock' = clock + 1
        /\ UNCHANGED <<head, journal>>

FreeInodes == Inode \ used

\* Mutant: the handle shares writing and deletion.
PinnedByNobody(i) == FALSE

\* The handle on the original shares only reading.
Pinned(i) == pc \in QuarantineSteps /\ op.ino = i

----------------------------------------------------------------------------
(* open_with and recover.                                                  *)

\* The store opens only if nobody else has access to its root, which it creates
\* for itself alone, and its audit chain verifies.
Open ==
    /\ pc = "closed"
    /\ root' = IF root = NoFile THEN private_dacl(User) ELSE root
    /\ check_private(root', {SYSTEM, ADMINISTRATORS, User})
    /\ Verifies(lines)
    /\ head' = HeadOf(lines)
    /\ pc' = "recover" /\ op' = NoOp
    /\ todo' = {id \in Id : st[id] = "pending"}
    /\ UNCHANGED <<name, body, used, busy, running, record, copies, spill,
                   allowed, lines, journal, clock, check, history, altered,
                   faults, crashes, env>>

\* The root is created and a later step of opening fails; if it is the one
\* that protects the root, the root keeps the access it inherited.
OpenFails ==
    /\ pc = "closed" /\ root = NoFile
    /\ Fault
    /\ root' \in RootAccess
    /\ UNCHANGED <<name, body, used, busy, running, record, copies, spill,
                   allowed, log, control, check, history, altered, crashes, env>>

\* Mutant: any file at the original path counts as the original.
OriginalPresentByName(id) == name[orig[id].path] # NoFile

\* A file that cannot be opened (another program holds it) counts as absent.
OriginalPresent(id) ==
    /\ name[orig[id].path] = orig[id].ino
    /\ orig[id].ino \notin busy

Verified(id) == data[id] # NoFile /\ data[id] = orig[id].sha

Resolve(id, outcome) ==
    /\ pc' = "recSave"
    /\ op' = OpFor("recover", id, NoFile, outcome)
    /\ todo' = todo \ {id}
    /\ UNCHANGED <<files, record, spill, allowed, log, check, history, altered,
                   crashes, env>>

ResolvePresent(id) ==
    /\ pc = "recover" /\ id \in todo
    /\ OriginalPresent(id)
    /\ \/ NoFault /\ data' = [data EXCEPT ![id] = NoFile]
                  /\ tmp' = [tmp EXCEPT ![id] = NoFile]
       \/ Fault /\ UNCHANGED copies
    /\ Resolve(id, "rolled_back")

ResolveGone(id) ==
    /\ pc = "recover" /\ id \in todo
    /\ ~OriginalPresent(id) /\ Verified(id)
    /\ NoFault
    /\ tmp' = [tmp EXCEPT ![id] = NoFile] /\ data' = data
    /\ Resolve(id, "quarantined")

\* No copy under its final name, or reading it fails.
ResolveFailed(id) ==
    /\ pc = "recover" /\ id \in todo
    /\ ~OriginalPresent(id)
    /\ IF Verified(id) THEN Fault ELSE NoFault
    /\ UNCHANGED copies
    /\ Resolve(id, "failed")

RecoverSave ==
    /\ pc = "recSave"
    /\ \/ NoFault /\ st' = [st EXCEPT ![op.id] = op.result] /\ Goto("recAudit")
       \/ Fault /\ st' = st /\ Leave
    /\ UNCHANGED <<files, orig, copies, spill, allowed, log, check, history,
                   altered, crashes, env>>

RecoverAudit ==
    /\ pc = "recAudit"
    /\ \/ Audit /\ pc' = "recover" /\ op' = NoOp /\ todo' = todo
       \/ AuditFails /\ Leave
    /\ UNCHANGED <<files, record, copies, spill, allowed, check, history,
                   altered, crashes, env>>

\* Copies whose record was never written are strays.
RecoverDone ==
    /\ pc = "recover" /\ todo = {}
    /\ tmp' = [id \in Id |-> IF st[id] = "absent" THEN NoFile ELSE tmp[id]]
    /\ pc' = "idle" /\ op' = NoOp /\ todo' = {}
    /\ UNCHANGED <<files, record, data, spill, allowed, log, check, history,
                   altered, faults, crashes, env>>

Close ==
    /\ pc = "idle" /\ Leave
    /\ UNCHANGED <<files, record, copies, spill, allowed, log, check, history,
                   altered, faults, crashes, env>>

----------------------------------------------------------------------------
(* quarantine.                                                             *)

Fresh(id) == st[id] = "absent" /\ data[id] = NoFile /\ tmp[id] = NoFile

\* The file at p has one link: no other path names it, and no temporary file.
OneLink(p) ==
    /\ \A q \in Path : name[q] = name[p] => q = p
    /\ \A s \in spill : s[3] # name[p]

\* Refused before anything is copied: no such file, in use, hard-linked, or
\* (at any time) a protected path, a reparse point on it, a directory, a file
\* too large or inside the store.
QuarantineRefused(p) ==
    /\ pc = "idle" /\ clock < MaxLines
    /\ pc' = "report"
    /\ op' = OpFor("quarantine", NoFile, p, "error")
    /\ UNCHANGED <<files, record, copies, spill, allowed, log, todo, check,
                   history, altered, faults, crashes, env>>

\* Open for reading and deletion, sharing only reading: the file is pinned.
QuarantinePin(p, id, sha, kill) ==
    /\ pc = "idle" /\ clock < MaxLines
    /\ name[p] # NoFile
    /\ name[p] \notin busy
    /\ OneLink(p)
    /\ Fresh(id)
    /\ orig' = [orig EXCEPT ![id] = [path |-> p, ino |-> name[p], sha |-> NoFile]]
    /\ pc' = "qCopy"
    /\ op' = [OpFor("quarantine", id, p, "ok") EXCEPT
                !.ino = name[p], !.sha = sha, !.kill = kill]
    /\ UNCHANGED <<files, st, copies, spill, allowed, log, todo, check, history,
                   altered, faults, crashes, env>>

\* write_encoded: the file through the pinned handle, read back and compared.
CopyOf(i) == body[i]

\* A failed copy, or one that is not what was expected, is removed.
QuarantineCopy ==
    LET c == CopyOf(op.ino)
    IN  /\ pc = "qCopy"
        /\ \/ /\ NoFault /\ op.sha \in {NoFile, c}
              /\ tmp' = [tmp EXCEPT ![op.id] = c]
              /\ orig' = [orig EXCEPT ![op.id].sha = c]
              /\ Goto("qPending")
           \/ /\ IF op.sha \in {NoFile, c} THEN Fault ELSE NoFault
              /\ UNCHANGED <<tmp, orig>>
              /\ Return("error")
        /\ UNCHANGED <<files, st, data, spill, allowed, log, check, history,
                       altered, crashes, env>>

QuarantinePending ==
    /\ pc = "qPending"
    /\ Save(op.id, "pending", Goto("qRename"))
    /\ UNCHANGED <<files, orig, copies, spill, allowed, log, check, history,
                   altered, crashes, env>>

\* A rename that fails leaves the pending record to the next recovery.
QuarantineRename ==
    /\ pc = "qRename"
    /\ \/ /\ NoFault
          /\ data' = [data EXCEPT ![op.id] = tmp[op.id]]
          /\ tmp' = [tmp EXCEPT ![op.id] = NoFile]
          /\ Goto("qDelete")
       \/ Fault /\ UNCHANGED copies /\ Return("error")
    /\ UNCHANGED <<files, record, spill, allowed, log, check, history, altered,
                   crashes, env>>

\* delete_by_handle through the pinned handle; a running image stays.
DeleteOriginal ==
    /\ NoFault /\ op.ino \notin running
    /\ name' = [name EXCEPT ![op.path] = NoFile]
    /\ removed' = [removed EXCEPT ![op.id] = body[op.ino]]
    /\ Goto("qFinal")

DeleteFails(next) ==
    /\ IF op.ino \in running THEN NoFault ELSE Fault
    /\ Goto(next) /\ UNCHANGED <<name, removed>>

QuarantineDelete ==
    /\ pc = "qDelete"
    /\ \/ DeleteOriginal
       \/ DeleteFails(IF op.kill /\ op.ino \in running THEN "qKill" ELSE "qRollBack")
    /\ UNCHANGED <<body, used, busy, running, root, record, copies, spill,
                   allowed, log, check, back, purged, altered, crashes, env>>

\* terminate_if_image, which may fail.
QuarantineKill ==
    /\ pc = "qKill"
    /\ \/ NoFault /\ running' = running \ {op.ino}
       \/ Fault /\ running' = running
    /\ Goto("qRetry")
    /\ UNCHANGED <<name, body, used, busy, root, record, copies, spill,
                   allowed, log, check, history, altered, crashes, env>>

\* Fifty more attempts.
QuarantineRetry ==
    /\ pc = "qRetry"
    /\ DeleteOriginal \/ DeleteFails("qRollBack")
    /\ UNCHANGED <<body, used, busy, running, root, record, copies, spill,
                   allowed, log, check, back, purged, altered, crashes, env>>

\* roll_back: remove the copy (errors are ignored), then save.
QuarantineRollBack ==
    /\ pc = "qRollBack"
    /\ \/ NoFault /\ data' = [data EXCEPT ![op.id] = NoFile]
       \/ Fault /\ data' = data
    /\ Goto("qRollBackSave")
    /\ UNCHANGED <<files, record, tmp, spill, allowed, log, check, history,
                   altered, crashes, env>>

QuarantineRollBackSave ==
    /\ pc = "qRollBackSave"
    /\ Save(op.id, "rolled_back", Return("error"))
    /\ UNCHANGED <<files, orig, copies, spill, allowed, log, check, history,
                   altered, crashes, env>>

QuarantineFinal ==
    /\ pc = "qFinal"
    /\ Save(op.id, "quarantined", Goto("qAudit"))
    /\ UNCHANGED <<files, orig, copies, spill, allowed, log, check, history,
                   altered, crashes, env>>

\* The success is audited inside the operation.
QuarantineAudit ==
    /\ pc = "qAudit"
    /\ \/ Audit /\ pc' = "idle" /\ op' = NoOp /\ todo' = todo
       \/ AuditFails /\ Return("error")
    /\ UNCHANGED <<files, record, copies, spill, allowed, check, history,
                   altered, crashes, env>>

----------------------------------------------------------------------------
(* restore and delete.                                                     *)

\* The caller's audit entry; a restore that succeeded goes on to the
\* allow-list unless the command said --no-allow.
Report ==
    /\ pc = "report"
    /\ \/ /\ Audit
          /\ todo' = todo
          /\ IF op.act = "restore" /\ op.result = "ok" /\ op.allow
             THEN pc' = "aAllow" /\ op' = [op EXCEPT !.act = "allow",
                                                     !.sha = orig[op.id].sha]
             ELSE pc' = "idle" /\ op' = NoOp
       \/ /\ AuditFails
          /\ pc' = "idle" /\ op' = NoOp /\ todo' = todo
    /\ UNCHANGED <<files, record, copies, spill, allowed, check, history,
                   altered, crashes, env>>

\* Only a quarantined item can be restored or deleted.
Refuse(act, id) ==
    /\ pc = "idle" /\ clock < MaxLines
    /\ st[id] # "quarantined"
    /\ pc' = "report"
    /\ op' = OpFor(act, id, NoFile, "error")
    /\ UNCHANGED <<files, record, copies, spill, allowed, log, todo, check,
                   history, altered, faults, crashes, env>>

Trusted == {SYSTEM, ADMINISTRATORS, TRUSTED_INSTALLER, User, FileOwner}

\* The target directory must exist, be reached through no reparse point and
\* be one in which nobody else can create files.
SafeTarget(d) ==
    /\ parse(d) # Unreadable
    /\ granted_to_others(parse(d), CREATE_IN_DIR, Trusted) = {}

\* d: the descriptor of p's directory.
RestoreBegin(id, p, d, allow) ==
    /\ pc = "idle" /\ clock < MaxLines
    /\ st[id] = "quarantined"
    /\ \/ /\ SafeTarget(d) /\ pc' = "rCreate"
          /\ op' = [OpFor("restore", id, p, "ok") EXCEPT !.allow = allow]
       \/ /\ ~SafeTarget(d) /\ pc' = "report"
          /\ op' = OpFor("restore", id, p, "error")
    /\ UNCHANGED <<files, record, copies, spill, allowed, log, todo, check,
                   history, altered, faults, crashes, env>>

\* The access rights of the handle of the temporary file: `.write(true)`.
RestoreAccess == {"write"}

\* delete_by_handle, whose handle "must have DELETE access"; the closure
\* `cleanup` ignores its result.
Cleanup(s) == IF "delete" \in RestoreAccess THEN spill \ {s} ELSE spill

TempOf == CHOOSE s \in spill : s[1] = op.id /\ s[2] = op.path

\* create_new: a temporary file left by an earlier attempt is in the way.
RestoreCreate ==
    /\ pc = "rCreate"
    /\ \/ /\ NoFault
          /\ \A s \in spill : <<s[1], s[2]>> # <<op.id, op.path>>
          /\ \E i \in FreeInodes :
                /\ used' = used \cup {i}
                /\ spill' = spill \cup {<<op.id, op.path, i>>}
          /\ Goto("rDecode")
       \/ /\ IF \E s \in spill : <<s[1], s[2]>> = <<op.id, op.path>>
             THEN NoFault ELSE Fault
          /\ UNCHANGED <<used, spill>>
          /\ Return("error")
    /\ UNCHANGED <<name, body, busy, running, root, record, copies, allowed,
                   log, check, history, altered, crashes, env>>

\* Decode into the temporary file, compare with the recorded hash, flush.
RestoreDecode ==
    /\ pc = "rDecode"
    /\ \/ /\ NoFault /\ Verified(op.id)
          /\ body' = [body EXCEPT ![TempOf[3]] = data[op.id]]
          /\ spill' = spill
          /\ Goto("rLink")
       \/ /\ IF Verified(op.id) THEN Fault ELSE NoFault
          /\ body' = body
          /\ spill' = Cleanup(TempOf)
          /\ Return("error")
    /\ UNCHANGED <<name, used, busy, running, root, record, copies, allowed,
                   log, check, history, altered, crashes, env>>

\* hard_link gives the content its name and fails if the name exists; the
\* temporary name goes if it can.
RestoreLink ==
    /\ pc = "rLink"
    /\ \/ /\ NoFault /\ name[op.path] = NoFile
          /\ name' = [name EXCEPT ![op.path] = TempOf[3]]
          /\ back' = back \cup {op.id}
          /\ Goto("rUnlinkData")
       \/ /\ IF name[op.path] = NoFile THEN Fault ELSE NoFault
          /\ UNCHANGED <<name, back>>
          /\ Return("error")
    /\ spill' = Cleanup(TempOf)
    /\ UNCHANGED <<body, used, busy, running, root, record, copies, allowed,
                   log, check, removed, purged, altered, crashes, env>>

RestoreUnlinkData ==
    /\ pc = "rUnlinkData"
    /\ \/ NoFault /\ data' = [data EXCEPT ![op.id] = NoFile] /\ Goto("rSave")
       \/ Fault /\ data' = data /\ Return("error")
    /\ UNCHANGED <<files, record, tmp, spill, allowed, log, check, history,
                   altered, crashes, env>>

RestoreSave ==
    /\ pc = "rSave"
    /\ Save(op.id, "restored", Return("ok"))
    /\ UNCHANGED <<files, orig, copies, spill, allowed, log, check, history,
                   altered, crashes, env>>

DeleteBegin(id) ==
    /\ pc = "idle" /\ clock < MaxLines
    /\ st[id] = "quarantined"
    /\ pc' = "dUnlink" /\ op' = OpFor("delete", id, NoFile, "ok") /\ todo' = todo
    /\ purged' = purged \cup {id}
    /\ UNCHANGED <<files, record, copies, spill, allowed, log, check, removed,
                   back, altered, faults, crashes, env>>

\* Content that is already missing is no error.
DeleteUnlink ==
    /\ pc = "dUnlink"
    /\ \/ NoFault /\ data' = [data EXCEPT ![op.id] = NoFile] /\ Goto("dSave")
       \/ Fault /\ data' = data /\ Return("error")
    /\ UNCHANGED <<files, record, tmp, spill, allowed, log, check, history,
                   altered, crashes, env>>

DeleteSave ==
    /\ pc = "dSave"
    /\ Save(op.id, "deleted", Return("ok"))
    /\ UNCHANGED <<files, orig, copies, spill, allowed, log, check, history,
                   altered, crashes, env>>

----------------------------------------------------------------------------
(* The allow-list.                                                         *)

\* allow: a content already listed is only audited again; a full list or a
\* failed write is an error without an entry.
Allowlist ==
    /\ pc = "aAllow"
    /\ \/ /\ op.sha \in allowed \/ Cardinality(allowed) < MAX_ALLOW_ENTRIES
          /\ NoFault
          /\ allowed' = allowed \cup {op.sha}
          /\ Goto("aAudit")
       \/ /\ op.sha \notin allowed
          /\ IF Cardinality(allowed) < MAX_ALLOW_ENTRIES THEN Fault ELSE NoFault
          /\ allowed' = allowed
          /\ pc' = "idle" /\ op' = NoOp /\ todo' = todo
    /\ UNCHANGED <<files, record, copies, spill, log, check, history, altered,
                   crashes, env>>

\* disallow: a content that is not listed is refused without an entry.
Disallow(c) ==
    /\ pc = "idle"
    /\ c \in allowed
    /\ \/ /\ NoFault
          /\ allowed' = allowed \ {c}
          /\ pc' = "aAudit" /\ op' = [OpFor("disallow", NoFile, NoFile, "ok") EXCEPT !.sha = c]
       \/ Fault /\ UNCHANGED <<allowed, pc, op>>
    /\ UNCHANGED <<files, record, copies, spill, log, todo, check, history,
                   altered, crashes, env>>

AllowlistAudit ==
    /\ pc = "aAudit"
    /\ Audit \/ AuditFails
    /\ pc' = "idle" /\ op' = NoOp /\ todo' = todo
    /\ UNCHANGED <<files, record, copies, spill, allowed, check, history, altered,
                   crashes, env>>

----------------------------------------------------------------------------
(* The service's audit check.                                              *)

\* check: the chain is read with the store open, and the store let go.
CheckChain ==
    /\ pc = "idle" /\ check.at = "none"
    /\ check' = [NoCheck EXCEPT !.at = "chain", !.chain = Chain(lines),
                                !.late = altered, !.chain_ok = TRUE]
    /\ Leave
    /\ UNCHANGED <<files, record, copies, spill, allowed, log, history, altered,
                   faults, crashes, env>>

\* "no quarantine store yet".
CheckNoStore ==
    /\ check.at = "none" /\ root = NoFile
    /\ check' = [NoCheck EXCEPT !.at = "done", !.late = altered,
                                !.chain_ok = TRUE, !.consistent = TRUE]
    /\ UNCHANGED <<files, record, copies, spill, allowed, log, control, history,
                   altered, faults, crashes, env>>

\* The store cannot be opened: the log is reported as invalid.
CheckRefused ==
    /\ pc = "closed" /\ check.at = "none" /\ root # NoFile
    /\ ~Verifies(lines) \/ ~check_private(root, {SYSTEM, ADMINISTRATORS, User})
    /\ check' = [NoCheck EXCEPT !.at = "done", !.late = altered]
    /\ UNCHANGED <<files, record, copies, spill, allowed, log, control, history,
                   altered, faults, crashes, env>>

\* parse_event_log and parse_journal: the anchors among the messages.
AnchorsRead == {Anchor(text) : text \in journal}

\* read_anchors runs the event log's tool, then the two are compared; when it
\* fails, the status is consistent all the same.  The counts are u64: a
\* difference below zero wraps.
CheckAnchors ==
    LET cmp == Compare(check.chain, AnchorsRead)
    IN  /\ check.at = "chain"
        /\ \/ /\ NoFault
              /\ check' = [check EXCEPT
                    !.at = "done", !.journal_checked = TRUE,
                    !.consistent = Consistent(cmp), !.other_chains = cmp.other # {},
                    !.unanchored = (Len(check.chain) - Cardinality(cmp.matched)
                                      - Cardinality(cmp.mismatched)) % Word]
           \/ /\ Fault
              /\ check' = [check EXCEPT !.at = "done", !.consistent = TRUE]
        /\ UNCHANGED <<files, record, copies, spill, allowed, log, control,
                       history, altered, crashes, env>>

\* The answer was given; another check may start.
CheckEnd ==
    /\ check.at = "done"
    /\ check' = NoCheck
    /\ UNCHANGED <<files, record, copies, spill, allowed, log, control, history,
                   altered, faults, crashes, env>>

----------------------------------------------------------------------------
(* Other programs, administrators and crashes.                             *)

Env == env < MaxEnv /\ env' = env + 1

EnvRemove(p) ==
    /\ Env /\ name[p] # NoFile
    /\ ~Pinned(name[p]) /\ name[p] \notin running
    /\ name' = [name EXCEPT ![p] = NoFile]
    /\ UNCHANGED <<body, used, busy, running, root, record, copies, spill,
                   allowed, log, control, check, history, altered, faults, crashes>>

EnvCreate(p, c) ==
    /\ Env /\ name[p] = NoFile
    /\ \E i \in FreeInodes :
          /\ used' = used \cup {i}
          /\ name' = [name EXCEPT ![p] = i]
          /\ body' = [body EXCEPT ![i] = c]
    /\ UNCHANGED <<busy, running, root, record, copies, spill, allowed,
                   log, control, check, history, altered, faults, crashes>>

EnvWrite(p, c) ==
    /\ Env /\ name[p] # NoFile
    /\ ~Pinned(name[p]) /\ name[p] \notin running
    /\ body' = [body EXCEPT ![name[p]] = c]
    /\ UNCHANGED <<name, used, busy, running, root, record, copies, spill,
                   allowed, log, control, check, history, altered, faults, crashes>>

\* A program opens a file without sharing it, or closes it.
EnvHold(p) ==
    /\ Env /\ name[p] # NoFile /\ ~Pinned(name[p])
    /\ busy' = IF name[p] \in busy THEN busy \ {name[p]} ELSE busy \cup {name[p]}
    /\ UNCHANGED <<name, body, used, running, root, record, copies, spill,
                   allowed, log, control, check, history, altered, faults, crashes>>

\* Somebody changes who has access to the store.
EnvGrant ==
    /\ Env /\ pc = "closed" /\ root # NoFile
    /\ root' \in RootAccess
    /\ UNCHANGED <<name, body, used, busy, running, record, copies, spill,
                   allowed, log, control, check, history, altered, faults, crashes>>

\* audit.log is cut back after line n (truncated, or restored from a backup),
\* or its last line is then edited.
Cut(n)  == SubSeq(lines, 1, n)
Edit(n) == [Cut(n) EXCEPT ![n].entry.by = "other"]

EnvAlter ==
    /\ Env /\ pc = "closed" /\ altered = "no" /\ Verifies(lines)
    /\ \E n \in DOMAIN lines : lines' \in {Cut(n - 1), Edit(n)}
    /\ altered' =
          LET gone == {a \in AnchorsRead : \/ a.seq \notin DOMAIN lines'
                                       \/ LineHash(lines'[a.seq]) # a.hash}
          IN  IF gone = {} THEN "unanchored"
              ELSE IF lines' = <<>> \/ HeadOf(lines').first # HeadOf(lines).first THEN "start"
              ELSE "tail"
    /\ UNCHANGED <<files, record, copies, spill, allowed, head, journal, clock,
                   control, check, history, faults, crashes>>

\* The process that holds the store stops: its handles are closed.
Crash ==
    /\ pc # "closed" /\ crashes < MaxCrashes
    /\ crashes' = crashes + 1
    /\ Leave
    /\ UNCHANGED <<files, record, copies, spill, allowed, log, check, history,
                   altered, faults, env>>

----------------------------------------------------------------------------

Recovery ==
    Open \/ OpenFails \/ RecoverSave \/ RecoverAudit \/ RecoverDone
      \/ \E id \in Id : ResolvePresent(id) \/ ResolveGone(id) \/ ResolveFailed(id)

Quarantine ==
    \/ \E p \in Path :
          \/ QuarantineRefused(p)
          \/ \E id \in Id, c \in Content \cup {NoFile}, kill \in BOOLEAN :
                QuarantinePin(p, id, c, kill)
    \/ QuarantineCopy \/ QuarantinePending \/ QuarantineRename
    \/ QuarantineDelete \/ QuarantineKill \/ QuarantineRetry
    \/ QuarantineRollBack \/ QuarantineRollBackSave
    \/ QuarantineFinal \/ QuarantineAudit

Manage ==
    \/ Report \/ Close \/ Allowlist \/ AllowlistAudit
    \/ \E id \in Id : \/ DeleteBegin(id) \/ Refuse("restore", id) \/ Refuse("delete", id)
                      \/ \E p \in Path, d \in DirAccess, allow \in BOOLEAN : RestoreBegin(id, p, d, allow)
    \/ RestoreCreate \/ RestoreDecode \/ RestoreLink \/ RestoreUnlinkData
    \/ RestoreSave \/ DeleteUnlink \/ DeleteSave
    \/ \E c \in Content : Disallow(c)

Check == CheckChain \/ CheckNoStore \/ CheckRefused \/ CheckAnchors \/ CheckEnd

Others ==
    \/ \E p \in Path : \/ EnvRemove(p) \/ EnvHold(p)
                      \/ \E c \in Content : EnvCreate(p, c) \/ EnvWrite(p, c)
    \/ EnvGrant \/ EnvAlter \/ Crash

Next == Recovery \/ Quarantine \/ Manage \/ Check \/ Others

Spec == Init /\ [][Next]_vars

----------------------------------------------------------------------------
(* Properties.                                                             *)

Entry   == [time : Nat, by : {"store", "other"}]
Hash    == Seq(Nat \X Entry)
LogLine == [seq : Nat, prev : Hash, entry : Entry, whole : BOOLEAN]

\* What was done to audit.log: its first line is another one or gone, a later
\* anchored line is, or only lines without an anchor are.
Alteration == {"no", "unanchored", "start", "tail"}
AuditCheck == [at : {"none", "chain", "done"}, chain : Seq(Hash), late : Alteration,
               chain_ok : BOOLEAN, journal_checked : BOOLEAN, consistent : BOOLEAN,
               other_chains : BOOLEAN, unanchored : 0..Word - 1]

FilesType ==
    /\ name \in [Path -> Inode \cup {NoFile}] /\ body \in [Inode -> Content]
    /\ used \subseteq Inode /\ busy \subseteq used /\ running \subseteq used
    /\ root \in RootAccess \cup {NoFile}

StoreType ==
    /\ st \in [Id -> ItemState \cup {"absent"}]
    /\ orig \in [Id -> [path : Path \cup {NoFile}, ino : Inode \cup {NoFile},
                        sha : Content \cup {NoFile}]]
    /\ data \in [Id -> Content \cup {NoFile}] /\ tmp \in [Id -> Content \cup {NoFile}]
    /\ spill \subseteq Id \X Path \X Inode
    /\ allowed \subseteq Content /\ Cardinality(allowed) <= MAX_ALLOW_ENTRIES
    /\ removed \in [Id -> Content \cup {NoFile}]
    /\ back \subseteq Id /\ purged \subseteq Id

ControlType == pc \in Control /\ op \in Operation /\ todo \subseteq Id

LogType ==
    /\ clock \in Nat /\ lines \in Seq(LogLine)
    /\ head \in [seq : Nat, hash : Hash, first : Hash]
    /\ journal \subseteq Nat \X Hash \X Hash
    /\ altered \in Alteration /\ check \in AuditCheck

\* The types of the variables.
TypeOK == FilesType /\ StoreType /\ ControlType /\ LogType

\* Where the content of an item is: the mapping to Custody.
PlaceOf(id) ==
    {x \in {"home", "store", "back"} :
        \/ x = "home" /\ removed[id] = NoFile
        \/ x = "store" /\ Verified(id)
        \/ x = "back" /\ id \in back}

Promise == INSTANCE Custody WITH
    Undo <- FALSE, state <- st, place <- [id \in Id |-> PlaceOf(id)], asked <- purged

\* The store implements Custody: its records follow the documented lifecycle,
\* and content the store removed is in the store until it was given back or
\* its deletion was asked for, through every failure and crash.
ImplementsCustody == Promise!Spec

\* Content the store deleted from its path is what its record names, and is in
\* the store until it was given back or its deletion was asked for: nothing
\* was written to the file between the copy and the deletion.
NothingLost ==
    \A id \in Id : removed[id] # NoFile =>
        /\ orig[id].sha = removed[id]
        /\ Verified(id) \/ id \in back \/ id \in purged

\* threat-model.md:300: "a forged but self-consistent local chain no longer
\* matches its anchors".  After an anchored entry of this chain was edited or
\* cut off, no check that read the anchors calls the log consistent, however
\* many entries the store has added since; if it was the first entry, so that
\* the log is another chain or empty, the check at least counts anchors of
\* other chains.
AlterationIsReported ==
    check.journal_checked =>
        /\ check.late = "tail" => ~check.consistent
        /\ check.late = "start" => ~check.consistent \/ check.other_chains

\* ipc/src/lib.rs:398, of AuditStatus::consistent: "Everything consistent (chain
\* valid, no mismatched or missing anchors)": a status that says so was not
\* given for a chain of which an anchored entry is missing or changed.
ConsistentIsVerified ==
    check.consistent => check.late # "tail"

\* quarantine.md:145: "A mismatch, or anchored entries missing from the local
\* log, means the local log was rewritten": a log nobody touched is never
\* reported so.
NoFalseAlarm ==
    altered = "no" /\ check.journal_checked => check.consistent

\* AnchorComparison: "Local entries with no anchor" are some of the entries.
UnanchoredAreEntries ==
    check.unanchored <= Len(check.chain)

\* cli/quarantine.rs on --no-allow: the restored file "will be detected, and
\* eligible for quarantine, again".  It is not while the store itself holds
\* a second name of it.
RestoredCanReturn ==
    \A p \in Path : pc \in {"idle", "closed"} /\ crashes = 0 /\ name[p] # NoFile
        => OneLink(p)

----------------------------------------------------------------------------
(* The inductive invariants WindowsStoreProofs proves.                     *)

BeforeDelete == {"qCopy", "qPending", "qRename", "qDelete", "qKill", "qRetry",
                 "qRollBack", "qRollBackSave"}

\* What a quarantine has established: the pinned file is still at its path,
\* under no other name and unchanged since it was copied.
QuarantinePhase ==
    pc \in QuarantineSteps =>
        /\ op.id \in Id /\ op.path \in Path /\ op.ino \in Inode
        /\ orig[op.id].path = op.path /\ orig[op.id].ino = op.ino
        /\ pc \in {"qCopy", "qPending"} => st[op.id] = "absent"
        /\ pc = "qCopy" => data[op.id] = NoFile /\ tmp[op.id] = NoFile
        /\ pc \in {"qPending", "qRename"} => tmp[op.id] # NoFile
        /\ pc \in (BeforeDelete \cup {"qFinal"}) \ {"qCopy", "qPending"} => st[op.id] = "pending"
        /\ pc \in {"qDelete", "qKill", "qRetry", "qFinal"} => data[op.id] # NoFile
        /\ pc \in BeforeDelete => /\ name[op.path] = op.ino /\ removed[op.id] = NoFile
                                  /\ \A q \in Path : name[q] = op.ino => q = op.path
        /\ pc \in BeforeDelete \ {"qCopy"} => orig[op.id].sha = body[op.ino]

\* What a restore or a deletion has established.
ManagePhase ==
    /\ pc \in RestoreSteps =>
         /\ op.id \in Id /\ op.path \in Path /\ st[op.id] = "quarantined"
         /\ pc \in {"rDecode", "rLink"} => \E s \in spill : s[1] = op.id /\ s[2] = op.path
         /\ pc = "rLink" => data[op.id] # NoFile
         /\ pc \in {"rUnlinkData", "rSave"} => op.id \in back
         /\ pc = "rSave" => data[op.id] = NoFile
    /\ pc \in DeleteSteps =>
         /\ op.act = "delete" /\ op.id \in Id
         /\ st[op.id] = "quarantined" /\ op.id \in purged
         /\ pc = "dSave" => data[op.id] = NoFile
    /\ pc = "report" /\ op.act = "restore" /\ op.result = "ok" =>
         op.id \in Id /\ st[op.id] = "restored"
    /\ pc = "aAllow" => op.sha \in Content

\* What recovery has found out about the item it is about to settle.
RecoverPhase ==
    /\ pc \in RecoverSteps => \A id \in todo : st[id] = "pending"
    /\ pc = "recSave" =>
         /\ op.id \in Id \ todo /\ st[op.id] = "pending"
         /\ op.result \in {"rolled_back", "quarantined", "failed"}
         /\ op.result = "rolled_back" => removed[op.id] = NoFile
         /\ op.result = "quarantined" => data[op.id] # NoFile

\* A copy is what the record says it is; a file that some record names was
\* never a temporary file of a restore.
CopiesAgree ==
    /\ \A p \in Path : name[p] # NoFile => name[p] \in used
    /\ \A s \in spill : s[3] \in used
    /\ \A id \in Id :
         /\ orig[id].ino # NoFile =>
              orig[id].ino \in used /\ \A s \in spill : s[3] # orig[id].ino
         /\ tmp[id] # NoFile => tmp[id] = orig[id].sha
         /\ data[id] # NoFile => data[id] = orig[id].sha
         /\ st[id] # "absent" => orig[id].sha # NoFile
         /\ st[id] = "absent" => /\ data[id] = NoFile /\ removed[id] = NoFile
                                 /\ id \notin back /\ id \notin purged

\* A file the store removed has no name any more, so recovery never takes
\* another file for it.
RemovedIsGone ==
    \A id \in Id : removed[id] # NoFile =>
        /\ orig[id].path \in Path /\ orig[id].ino # NoFile
        /\ \A p \in Path : name[p] # orig[id].ino

StoreInv == QuarantinePhase /\ ManagePhase /\ RecoverPhase /\ CopiesAgree
              /\ RemovedIsGone /\ NothingLost

\* The process knows the end of the log, unless an append failed on it; what
\* it appends after that does not verify.
HeadAgrees ==
    pc # "closed" => /\ head.seq <= Len(lines)
                     /\ Verifies(lines) /\ head.seq = Len(lines) => head = HeadOf(lines)

\* The entry a hash ends with was written before now.
Past(hash) == hash # <<>> /\ hash[Len(hash)][2].time < clock

\* An anchor is of an entry, and of a chain, written before now.
AnchorsArePast ==
    \A a \in AnchorsRead : a.seq >= 1 /\ Past(a.hash) /\ Past(a.chain)

\* So is the entry that gives the chain its identity.
StartIsPast ==
    /\ lines # <<>> => lines[1].entry.time < clock
    /\ head.first # GENESIS => Past(head.first)

\* The anchors of a log nobody touched are those of its chain.
AnchorsAreOurs ==
    altered = "no" /\ Verifies(lines) =>
        \A a \in AnchorsRead : lines # <<>> /\ a.chain = LineHash(lines[1])

\* Some anchor of the chain that begins with c[1] contradicts c.
Contradicts(anchors, c) ==
    c # <<>> /\ \E a \in anchors : /\ a.chain = c[1]
                                   /\ a.seq > Len(c) \/ c[a.seq] # a.hash

\* Some anchor is of another chain than c.
Disowns(anchors, c) == \E a \in anchors : c = <<>> \/ a.chain # c[1]

\* What the anchors say of chain c, which was altered in this way.
Shows(alteration, anchors, c) ==
    /\ alteration = "tail" => Contradicts(anchors, c)
    /\ alteration = "start" => Disowns(anchors, c)

\* The anchors give away an altered log, and the chain that a check read from it.
AlterationShows ==
    /\ Shows(altered, AnchorsRead, Chain(lines))
    /\ check.at = "chain" => Shows(check.late, AnchorsRead, check.chain)
    /\ check.at # "done" => ~check.journal_checked

LogInv == HeadAgrees /\ AnchorsArePast /\ StartIsPast /\ AnchorsAreOurs
            /\ AlterationShows /\ AlterationIsReported

IInv == TypeOK /\ StoreInv /\ LogInv
============================================================================
