------------------------ MODULE QuarantineStoreProofs ------------------------
(***************************************************************************)
(* Proofs about QuarantineStore, for any number of paths, inodes, contents *)
(* and items and any bounds on faults, crashes and outside changes.        *)
(*                                                                         *)
(* TypeOK and Phase are inductive whatever others do to the files. Without *)
(* disturbances they carry NamesInv and RemovedInv, and those carry what   *)
(* quarantine.md guarantees: NoContentLost, RecordTellsTheTruth and        *)
(* RemovesOnlyWhatItCopied. Every lemma about a step has one case per      *)
(* action of Next.                                                         *)
(*                                                                         *)
(* CopyInv adds to IInv what the steps that write a record rely on. Every  *)
(* step then is one of Custody's, or none: a step leaves every item's      *)
(* place and record alone, writes one item's record, or moves one item's   *)
(* content, and a lemma for each kind of step names the action of Custody. *)
(*                                                                         *)
(* AuditInv, KilledInv and PausedInv add what the entry about to be        *)
(* written, a kill and the end of a quarantine rely on.                    *)
(***************************************************************************)
EXTENDS QuarantineStore, TLAPS

\* A new operation, the empty one and one that was sent to another step are
\* operations: what OpFor builds and Return changes.
LEMMA OpForType ==
    ASSUME NEW act \in {"none", "quarantine", "restore", "delete", "recover"},
           NEW id \in Id \cup {NoFile}, NEW path \in Path \cup {NoFile},
           NEW result \in {"ok", "error"} \cup ItemState
    PROVE  OpFor(act, id, path, result) \in Operation
BY DEF OpFor, Operation

\* No operation is an operation.
LEMMA NoOpType == NoOp \in Operation
BY OpForType DEF NoOp

\* An error or a result keeps the operation's type.
LEMMA ReturnType ==
    ASSUME op \in Operation, NEW result \in {"ok", "error"}, Return(result)
    PROVE  op' \in Operation
BY DEF Return, Operation

\* The operation record keeps its type: it is built by OpFor or changed by
\* Return.
LEMMA OperationStep ==
    ASSUME TypeOK, Phase, [Next]_vars
    PROVE  op' \in Operation
<1> USE NoFileAssumption, NoOpType, ReturnType
    DEF Goto, Leave, Save, Resolve, Begin, UnlinkData, Stop, Outside, files,
        record, copies, log, control, history, limits, TypeOK, ControlType
<1>1. CASE Open BY <1>1 DEF Open
<1>2. CASE \E id \in Id : ResolvePresent(id)
  BY <1>2, OpForType DEF ResolvePresent, ItemState
<1>3. CASE \E id \in Id : ResolveGone(id)
  BY <1>3, OpForType DEF ResolveGone, ItemState
<1>4. CASE \E id \in Id : ResolveFailed(id)
  BY <1>4, OpForType DEF ResolveFailed, ItemState
<1>5. CASE RecoverSave BY <1>5 DEF RecoverSave
<1>6. CASE RecoverAudit BY <1>6 DEF RecoverAudit
<1>7. CASE RecoverDone BY <1>7 DEF RecoverDone
<1>8. CASE Close BY <1>8 DEF Close
<1>9. CASE \E p \in Path : QuarantineRefused(p)
  BY <1>9, OpForType DEF QuarantineRefused, ItemState
<1>10. CASE \E p \in Path, id \in Id,
                 e \in Content \cup {NoFile}, k \in BOOLEAN : QuarantineOpen(p, id, e, k)
  BY <1>10 DEF QuarantineOpen, TypeOK, FilesType, Operation
<1>11. CASE QuarantineCopy BY <1>11 DEF QuarantineCopy, CopyOf
<1>12. CASE QuarantinePending BY <1>12 DEF QuarantinePending
<1>13. CASE QuarantineRename BY <1>13 DEF QuarantineRename
<1>14. CASE QuarantineSyncItems BY <1>14 DEF QuarantineSyncItems
<1>15. CASE QuarantineStillSame BY <1>15 DEF QuarantineStillSame
<1>16. CASE QuarantineUnlink BY <1>16 DEF QuarantineUnlink
<1>17. CASE RollBack BY <1>17 DEF RollBack
<1>18. CASE RollBackSave BY <1>18 DEF RollBackSave
<1>19. CASE QuarantineSyncDir BY <1>19 DEF QuarantineSyncDir
<1>20. CASE QuarantineKill BY <1>20 DEF QuarantineKill
<1>21. CASE QuarantineFinal BY <1>21 DEF QuarantineFinal
<1>22. CASE QuarantineAudit BY <1>22 DEF QuarantineAudit
<1>23. CASE Report BY <1>23 DEF Report
<1>24. CASE \E a \in {"restore", "delete"}, id \in Id : Refuse(a, id)
  BY <1>24, OpForType DEF Refuse, ItemState
<1>25. CASE \E id \in Id, p \in Path : Restore(id, p)
  BY <1>25, OpForType DEF Restore, ItemState
<1>26. CASE \E id \in Id : Delete(id)
  BY <1>26, OpForType DEF Delete, ItemState
<1>27. CASE RestoreCreate BY <1>27 DEF RestoreCreate
<1>28. CASE RestoreDecode BY <1>28 DEF RestoreDecode
<1>29. CASE RestoreRename
  <2>1. CASE \E i \in Inode : op' = [op EXCEPT !.ino = i]
    BY <2>1 DEF Operation
  <2>2. QED BY <1>29, <2>1 DEF RestoreRename, FreeInodes
<1>30. CASE RestoreLinked BY <1>30 DEF RestoreLinked
<1>31. CASE RestoreSyncDir BY <1>31 DEF RestoreSyncDir
<1>32. CASE RestoreUnlinkData BY <1>32 DEF RestoreUnlinkData
<1>33. CASE RestoreSave BY <1>33 DEF RestoreSave
<1>34. CASE DeleteUnlink BY <1>34 DEF DeleteUnlink
<1>35. CASE DeleteSync BY <1>35 DEF DeleteSync
<1>36. CASE DeleteSave BY <1>36 DEF DeleteSave
<1>37. CASE Kill BY <1>37 DEF Kill
<1>38. CASE PowerLoss BY <1>38 DEF PowerLoss
<1>39. CASE \E p \in Path, c \in Content : EnvCreate(p, c)
  BY <1>39 DEF EnvCreate
<1>40. CASE \E p \in Path : EnvRemove(p) BY <1>40 DEF EnvRemove
<1>41. CASE \E p, q \in Path : EnvRename(p, q) BY <1>41 DEF EnvRename
<1>42. CASE \E i \in Inode, c \in Content : EnvWrite(i, c)
  BY <1>42 DEF EnvWrite
<1>43. CASE UNCHANGED vars BY <1>43 DEF vars
<1> HIDE DEF Goto, Leave, Save, Resolve, Begin, UnlinkData, Stop, Outside, files,
        record, copies, log, control, history, limits, TypeOK, ControlType
<1>44. QED
  BY <1>1, <1>2, <1>3, <1>4, <1>5, <1>6, <1>7, <1>8, <1>9, <1>10, <1>11, <1>12,
        <1>13, <1>14, <1>15, <1>16, <1>17, <1>18, <1>19, <1>20, <1>21,
        <1>22, <1>23, <1>24, <1>25, <1>26, <1>27, <1>28, <1>29, <1>30,
        <1>31, <1>32, <1>33, <1>34, <1>35, <1>36, <1>37, <1>38, <1>39,
        <1>40, <1>41, <1>42, <1>43
  DEF Next, Recover, Quarantine, RestoreOrDelete, Request, Environment

\* The control point is one of Control.
LEMMA PcStep ==
    ASSUME TypeOK, Phase, [Next]_vars
    PROVE  pc' \in Control /\ todo' \in SUBSET Id
<1> USE NoFileAssumption
    DEF Goto, Return, Leave, Resume, Save, Append, AppendFails, Fault, NoFault,
        Resolve, Begin, Cleanup, UnlinkData, Stop, Outside, files, record,
        copies, log, control, history, limits, TypeOK, ControlType,
        Control, QuarantineSteps, RestoreSteps, DeleteSteps, RecoverSteps
<1>1. CASE Open BY <1>1 DEF Open
<1>2. CASE \E id \in Id : ResolvePresent(id) BY <1>2 DEF ResolvePresent
<1>3. CASE \E id \in Id : ResolveGone(id) BY <1>3 DEF ResolveGone
<1>4. CASE \E id \in Id : ResolveFailed(id) BY <1>4 DEF ResolveFailed
<1>5. CASE RecoverSave BY <1>5 DEF RecoverSave
<1>6. CASE RecoverAudit BY <1>6 DEF RecoverAudit
<1>7. CASE RecoverDone BY <1>7 DEF RecoverDone
<1>8. CASE Close BY <1>8 DEF Close
<1>9. CASE \E p \in Path : QuarantineRefused(p) BY <1>9 DEF QuarantineRefused
<1>10. CASE \E p \in Path, id \in Id,
                 e \in Content \cup {NoFile}, k \in BOOLEAN : QuarantineOpen(p, id, e, k)
  BY <1>10 DEF QuarantineOpen
<1>11. CASE QuarantineCopy BY <1>11 DEF QuarantineCopy, CopyOf
<1>12. CASE QuarantinePending BY <1>12 DEF QuarantinePending
<1>13. CASE QuarantineRename BY <1>13 DEF QuarantineRename
<1>14. CASE QuarantineSyncItems BY <1>14 DEF QuarantineSyncItems
<1>15. CASE QuarantineStillSame BY <1>15 DEF QuarantineStillSame
<1>16. CASE QuarantineUnlink BY <1>16 DEF QuarantineUnlink
<1>17. CASE RollBack BY <1>17 DEF RollBack
<1>18. CASE RollBackSave BY <1>18 DEF RollBackSave
<1>19. CASE QuarantineSyncDir BY <1>19 DEF QuarantineSyncDir
<1>20. CASE QuarantineKill BY <1>20 DEF QuarantineKill
<1>21. CASE QuarantineFinal BY <1>21 DEF QuarantineFinal
<1>22. CASE QuarantineAudit BY <1>22 DEF QuarantineAudit
<1>23. CASE Report BY <1>23 DEF Report
<1>24. CASE \E a \in {"restore", "delete"}, id \in Id : Refuse(a, id)
  BY <1>24 DEF Refuse
<1>25. CASE \E id \in Id, p \in Path : Restore(id, p) BY <1>25 DEF Restore
<1>26. CASE \E id \in Id : Delete(id) BY <1>26 DEF Delete
<1>27. CASE RestoreCreate BY <1>27 DEF RestoreCreate
<1>28. CASE RestoreDecode BY <1>28 DEF RestoreDecode
<1>29. CASE RestoreRename BY <1>29 DEF RestoreRename
<1>30. CASE RestoreLinked BY <1>30 DEF RestoreLinked
<1>31. CASE RestoreSyncDir BY <1>31 DEF RestoreSyncDir
<1>32. CASE RestoreUnlinkData BY <1>32 DEF RestoreUnlinkData
<1>33. CASE RestoreSave BY <1>33 DEF RestoreSave
<1>34. CASE DeleteUnlink BY <1>34 DEF DeleteUnlink
<1>35. CASE DeleteSync BY <1>35 DEF DeleteSync
<1>36. CASE DeleteSave BY <1>36 DEF DeleteSave
<1>37. CASE Kill BY <1>37 DEF Kill
<1>38. CASE PowerLoss BY <1>38 DEF PowerLoss
<1>39. CASE \E p \in Path, c \in Content : EnvCreate(p, c)
  BY <1>39 DEF EnvCreate
<1>40. CASE \E p \in Path : EnvRemove(p) BY <1>40 DEF EnvRemove
<1>41. CASE \E p, q \in Path : EnvRename(p, q) BY <1>41 DEF EnvRename
<1>42. CASE \E i \in Inode, c \in Content : EnvWrite(i, c)
  BY <1>42 DEF EnvWrite
<1>43. CASE UNCHANGED vars BY <1>43 DEF vars
<1> HIDE DEF Goto, Return, Leave, Resume, Save, Append, AppendFails, Fault, NoFault,
        Resolve, Begin, Cleanup, UnlinkData, Stop, Outside, files, record,
        copies, log, control, history, limits, TypeOK, ControlType,
        Control, QuarantineSteps, RestoreSteps, DeleteSteps, RecoverSteps
<1>44. QED
  BY <1>1, <1>2, <1>3, <1>4, <1>5, <1>6, <1>7, <1>8, <1>9, <1>10, <1>11, <1>12,
        <1>13, <1>14, <1>15, <1>16, <1>17, <1>18, <1>19, <1>20, <1>21,
        <1>22, <1>23, <1>24, <1>25, <1>26, <1>27, <1>28, <1>29, <1>30,
        <1>31, <1>32, <1>33, <1>34, <1>35, <1>36, <1>37, <1>38, <1>39,
        <1>40, <1>41, <1>42, <1>43
  DEF Next, Recover, Quarantine, RestoreOrDelete, Request, Environment

\* The changes that may be undone are of the four kinds.
LEMMA UnsyncedTypeStep ==
    ASSUME TypeOK, Phase, [Next]_vars
    PROVE  unsynced' \in SUBSET {"copy", "original", "target", "data"}
<1> USE NoFileAssumption
    DEF Goto, Return, Leave, Resume, Save, Append, AppendFails, Fault, NoFault,
        Resolve, Begin, Cleanup, UnlinkData, Stop, Outside, files, record,
        copies, log, control, history, limits, TypeOK, ControlType
<1>1. CASE Open BY <1>1 DEF Open
<1>2. CASE \E id \in Id : ResolvePresent(id) BY <1>2 DEF ResolvePresent
<1>3. CASE \E id \in Id : ResolveGone(id) BY <1>3 DEF ResolveGone
<1>4. CASE \E id \in Id : ResolveFailed(id) BY <1>4 DEF ResolveFailed
<1>5. CASE RecoverSave BY <1>5 DEF RecoverSave
<1>6. CASE RecoverAudit BY <1>6 DEF RecoverAudit
<1>7. CASE RecoverDone BY <1>7 DEF RecoverDone
<1>8. CASE Close BY <1>8 DEF Close
<1>9. CASE \E p \in Path : QuarantineRefused(p) BY <1>9 DEF QuarantineRefused
<1>10. CASE \E p \in Path, id \in Id,
                 e \in Content \cup {NoFile}, k \in BOOLEAN : QuarantineOpen(p, id, e, k)
  BY <1>10 DEF QuarantineOpen
<1>11. CASE QuarantineCopy BY <1>11 DEF QuarantineCopy, CopyOf
<1>12. CASE QuarantinePending BY <1>12 DEF QuarantinePending
<1>13. CASE QuarantineRename BY <1>13 DEF QuarantineRename
<1>14. CASE QuarantineSyncItems BY <1>14 DEF QuarantineSyncItems
<1>15. CASE QuarantineStillSame BY <1>15 DEF QuarantineStillSame
<1>16. CASE QuarantineUnlink BY <1>16 DEF QuarantineUnlink
<1>17. CASE RollBack BY <1>17 DEF RollBack
<1>18. CASE RollBackSave BY <1>18 DEF RollBackSave
<1>19. CASE QuarantineSyncDir BY <1>19 DEF QuarantineSyncDir
<1>20. CASE QuarantineKill BY <1>20 DEF QuarantineKill
<1>21. CASE QuarantineFinal BY <1>21 DEF QuarantineFinal
<1>22. CASE QuarantineAudit BY <1>22 DEF QuarantineAudit
<1>23. CASE Report BY <1>23 DEF Report
<1>24. CASE \E a \in {"restore", "delete"}, id \in Id : Refuse(a, id)
  BY <1>24 DEF Refuse
<1>25. CASE \E id \in Id, p \in Path : Restore(id, p) BY <1>25 DEF Restore
<1>26. CASE \E id \in Id : Delete(id) BY <1>26 DEF Delete
<1>27. CASE RestoreCreate BY <1>27 DEF RestoreCreate
<1>28. CASE RestoreDecode BY <1>28 DEF RestoreDecode
<1>29. CASE RestoreRename BY <1>29 DEF RestoreRename
<1>30. CASE RestoreLinked BY <1>30 DEF RestoreLinked
<1>31. CASE RestoreSyncDir BY <1>31 DEF RestoreSyncDir
<1>32. CASE RestoreUnlinkData BY <1>32 DEF RestoreUnlinkData
<1>33. CASE RestoreSave BY <1>33 DEF RestoreSave
<1>34. CASE DeleteUnlink BY <1>34 DEF DeleteUnlink
<1>35. CASE DeleteSync BY <1>35 DEF DeleteSync
<1>36. CASE DeleteSave BY <1>36 DEF DeleteSave
<1>37. CASE Kill BY <1>37 DEF Kill
<1>38. CASE PowerLoss BY <1>38 DEF PowerLoss
<1>39. CASE \E p \in Path, c \in Content : EnvCreate(p, c)
  BY <1>39 DEF EnvCreate
<1>40. CASE \E p \in Path : EnvRemove(p) BY <1>40 DEF EnvRemove
<1>41. CASE \E p, q \in Path : EnvRename(p, q) BY <1>41 DEF EnvRename
<1>42. CASE \E i \in Inode, c \in Content : EnvWrite(i, c)
  BY <1>42 DEF EnvWrite
<1>43. CASE UNCHANGED vars BY <1>43 DEF vars
<1> HIDE DEF Goto, Return, Leave, Resume, Save, Append, AppendFails, Fault, NoFault,
        Resolve, Begin, Cleanup, UnlinkData, Stop, Outside, files, record,
        copies, log, control, history, limits, TypeOK, ControlType
<1>44. QED
  BY <1>1, <1>2, <1>3, <1>4, <1>5, <1>6, <1>7, <1>8, <1>9, <1>10, <1>11, <1>12,
        <1>13, <1>14, <1>15, <1>16, <1>17, <1>18, <1>19, <1>20, <1>21,
        <1>22, <1>23, <1>24, <1>25, <1>26, <1>27, <1>28, <1>29, <1>30,
        <1>31, <1>32, <1>33, <1>34, <1>35, <1>36, <1>37, <1>38, <1>39,
        <1>40, <1>41, <1>42, <1>43
  DEF Next, Recover, Quarantine, RestoreOrDelete, Request, Environment

\* Files, inodes and processes keep their types.
LEMMA FilesTypeStep ==
    ASSUME TypeOK, Phase, [Next]_vars
    PROVE  FilesType'
<1> USE NoFileAssumption
    DEF Goto, Return, Leave, Resume, Save, Append, AppendFails, Fault, NoFault,
        Resolve, Begin, Cleanup, UnlinkData, Stop, Outside, files, record,
        copies, log, control, history, limits, TypeOK, FilesType,
        StoreType, ControlType, Operation, Phase, QuarantinePhase,
        RestorePhase, FreeInodes, QuarantineSteps, RestoreSteps,
        DeleteSteps, RecoverSteps
<1>1. CASE Open BY <1>1 DEF Open
<1>2. CASE \E id \in Id : ResolvePresent(id) BY <1>2 DEF ResolvePresent
<1>3. CASE \E id \in Id : ResolveGone(id) BY <1>3 DEF ResolveGone
<1>4. CASE \E id \in Id : ResolveFailed(id) BY <1>4 DEF ResolveFailed
<1>5. CASE RecoverSave BY <1>5 DEF RecoverSave
<1>6. CASE RecoverAudit BY <1>6 DEF RecoverAudit
<1>7. CASE RecoverDone BY <1>7 DEF RecoverDone
<1>8. CASE Close BY <1>8 DEF Close
<1>9. CASE \E p \in Path : QuarantineRefused(p) BY <1>9 DEF QuarantineRefused
<1>10. CASE \E p \in Path, id \in Id,
                 e \in Content \cup {NoFile}, k \in BOOLEAN : QuarantineOpen(p, id, e, k)
  BY <1>10 DEF QuarantineOpen
<1>11. CASE QuarantineCopy BY <1>11 DEF QuarantineCopy, CopyOf
<1>12. CASE QuarantinePending BY <1>12 DEF QuarantinePending
<1>13. CASE QuarantineRename BY <1>13 DEF QuarantineRename
<1>14. CASE QuarantineSyncItems BY <1>14 DEF QuarantineSyncItems
<1>15. CASE QuarantineStillSame BY <1>15 DEF QuarantineStillSame
<1>16. CASE QuarantineUnlink BY <1>16 DEF QuarantineUnlink
<1>17. CASE RollBack BY <1>17 DEF RollBack
<1>18. CASE RollBackSave BY <1>18 DEF RollBackSave
<1>19. CASE QuarantineSyncDir BY <1>19 DEF QuarantineSyncDir
<1>20. CASE QuarantineKill BY <1>20 DEF QuarantineKill
<1>21. CASE QuarantineFinal BY <1>21 DEF QuarantineFinal
<1>22. CASE QuarantineAudit BY <1>22 DEF QuarantineAudit
<1>23. CASE Report BY <1>23 DEF Report
<1>24. CASE \E a \in {"restore", "delete"}, id \in Id : Refuse(a, id)
  BY <1>24 DEF Refuse
<1>25. CASE \E id \in Id, p \in Path : Restore(id, p) BY <1>25 DEF Restore
<1>26. CASE \E id \in Id : Delete(id) BY <1>26 DEF Delete
<1>27. CASE RestoreCreate BY <1>27 DEF RestoreCreate
<1>28. CASE RestoreDecode BY <1>28 DEF RestoreDecode
<1>29. CASE RestoreRename BY <1>29 DEF RestoreRename
<1>30. CASE RestoreLinked BY <1>30 DEF RestoreLinked
<1>31. CASE RestoreSyncDir BY <1>31 DEF RestoreSyncDir
<1>32. CASE RestoreUnlinkData BY <1>32 DEF RestoreUnlinkData
<1>33. CASE RestoreSave BY <1>33 DEF RestoreSave
<1>34. CASE DeleteUnlink BY <1>34 DEF DeleteUnlink
<1>35. CASE DeleteSync BY <1>35 DEF DeleteSync
<1>36. CASE DeleteSave BY <1>36 DEF DeleteSave
<1>37. CASE Kill BY <1>37 DEF Kill
<1>38. CASE PowerLoss
  <2>1. op.ino \in Inode \cup {NoFile}
    OBVIOUS
  <2>2. \E v \in {op.ino, NoFile} : name' = name \/ name' = [name EXCEPT ![op.path] = v]
    BY <1>38 DEF PowerLoss
  <2>3. name' \in [Path -> Inode \cup {NoFile}]
    BY <2>1, <2>2
  <2>4. proc' \in [Inode -> {"none", "running", "paused", "killed"}]
    BY <1>38 DEF PowerLoss
  <2>5. UNCHANGED <<body, used>>
    BY <1>38 DEF PowerLoss
  <2>6. QED BY <2>3, <2>4, <2>5
<1>39. CASE \E p \in Path, c \in Content : EnvCreate(p, c)
  BY <1>39 DEF EnvCreate
<1>40. CASE \E p \in Path : EnvRemove(p) BY <1>40 DEF EnvRemove
<1>41. CASE \E p, q \in Path : EnvRename(p, q) BY <1>41 DEF EnvRename
<1>42. CASE \E i \in Inode, c \in Content : EnvWrite(i, c)
  BY <1>42 DEF EnvWrite
<1>43. CASE UNCHANGED vars BY <1>43 DEF vars
<1> HIDE DEF Goto, Return, Leave, Resume, Save, Append, AppendFails, Fault, NoFault,
        Resolve, Begin, Cleanup, UnlinkData, Stop, Outside, files, record,
        copies, log, control, history, limits, TypeOK, FilesType,
        StoreType, ControlType, Operation, Phase, QuarantinePhase,
        RestorePhase, FreeInodes, QuarantineSteps, RestoreSteps,
        DeleteSteps, RecoverSteps
<1>44. QED
  BY <1>1, <1>2, <1>3, <1>4, <1>5, <1>6, <1>7, <1>8, <1>9, <1>10, <1>11, <1>12,
        <1>13, <1>14, <1>15, <1>16, <1>17, <1>18, <1>19, <1>20, <1>21,
        <1>22, <1>23, <1>24, <1>25, <1>26, <1>27, <1>28, <1>29, <1>30,
        <1>31, <1>32, <1>33, <1>34, <1>35, <1>36, <1>37, <1>38, <1>39,
        <1>40, <1>41, <1>42, <1>43
  DEF Next, Recover, Quarantine, RestoreOrDelete, Request, Environment

\* The original a record describes keeps its type.
LEMMA OrigTypeStep ==
    ASSUME TypeOK, Phase, [Next]_vars
    PROVE  orig' \in [Id -> Original]
<1> USE NoFileAssumption
    DEF files, record, copies, log, control, history, limits, Resolve, Begin,
        UnlinkData, Stop, Outside, TypeOK, StoreType
<1>1. CASE Open BY <1>1 DEF Open
<1>2. CASE \E id \in Id : ResolvePresent(id) BY <1>2 DEF ResolvePresent
<1>3. CASE \E id \in Id : ResolveGone(id) BY <1>3 DEF ResolveGone
<1>4. CASE \E id \in Id : ResolveFailed(id) BY <1>4 DEF ResolveFailed
<1>5. CASE RecoverSave BY <1>5 DEF RecoverSave
<1>6. CASE RecoverAudit BY <1>6 DEF RecoverAudit
<1>7. CASE RecoverDone BY <1>7 DEF RecoverDone
<1>8. CASE Close BY <1>8 DEF Close
<1>9. CASE \E p \in Path : QuarantineRefused(p) BY <1>9 DEF QuarantineRefused
<1>10. CASE \E p \in Path, id \in Id,
                 e \in Content \cup {NoFile}, k \in BOOLEAN : QuarantineOpen(p, id, e, k)
  BY <1>10 DEF QuarantineOpen, FilesType, Original
<1>11. CASE QuarantineCopy
  <2>1. body[op.ino] \in Content
    BY <1>11 DEF QuarantineCopy, CopyOf, FilesType, Phase, QuarantinePhase, QuarantineSteps
  <2>2. QED BY <1>11, <2>1 DEF QuarantineCopy, CopyOf, Original
<1>12. CASE QuarantinePending BY <1>12 DEF QuarantinePending
<1>13. CASE QuarantineRename BY <1>13 DEF QuarantineRename
<1>14. CASE QuarantineSyncItems BY <1>14 DEF QuarantineSyncItems
<1>15. CASE QuarantineStillSame BY <1>15 DEF QuarantineStillSame
<1>16. CASE QuarantineUnlink BY <1>16 DEF QuarantineUnlink
<1>17. CASE RollBack BY <1>17 DEF RollBack
<1>18. CASE RollBackSave BY <1>18 DEF RollBackSave
<1>19. CASE QuarantineSyncDir BY <1>19 DEF QuarantineSyncDir
<1>20. CASE QuarantineKill BY <1>20 DEF QuarantineKill
<1>21. CASE QuarantineFinal BY <1>21 DEF QuarantineFinal
<1>22. CASE QuarantineAudit BY <1>22 DEF QuarantineAudit
<1>23. CASE Report BY <1>23 DEF Report
<1>24. CASE \E a \in {"restore", "delete"}, id \in Id : Refuse(a, id)
  BY <1>24 DEF Refuse
<1>25. CASE \E id \in Id, p \in Path : Restore(id, p) BY <1>25 DEF Restore
<1>26. CASE \E id \in Id : Delete(id) BY <1>26 DEF Delete
<1>27. CASE RestoreCreate BY <1>27 DEF RestoreCreate
<1>28. CASE RestoreDecode BY <1>28 DEF RestoreDecode
<1>29. CASE RestoreRename BY <1>29 DEF RestoreRename
<1>30. CASE RestoreLinked BY <1>30 DEF RestoreLinked
<1>31. CASE RestoreSyncDir BY <1>31 DEF RestoreSyncDir
<1>32. CASE RestoreUnlinkData BY <1>32 DEF RestoreUnlinkData
<1>33. CASE RestoreSave BY <1>33 DEF RestoreSave
<1>34. CASE DeleteUnlink BY <1>34 DEF DeleteUnlink
<1>35. CASE DeleteSync BY <1>35 DEF DeleteSync
<1>36. CASE DeleteSave BY <1>36 DEF DeleteSave
<1>37. CASE Kill BY <1>37 DEF Kill
<1>38. CASE PowerLoss BY <1>38 DEF PowerLoss
<1>39. CASE \E p \in Path, c \in Content : EnvCreate(p, c)
  BY <1>39 DEF EnvCreate
<1>40. CASE \E p \in Path : EnvRemove(p) BY <1>40 DEF EnvRemove
<1>41. CASE \E p, q \in Path : EnvRename(p, q) BY <1>41 DEF EnvRename
<1>42. CASE \E i \in Inode, c \in Content : EnvWrite(i, c)
  BY <1>42 DEF EnvWrite
<1>43. CASE UNCHANGED vars BY <1>43 DEF vars
<1> HIDE DEF files, record, copies, log, control, history, limits, Resolve, Begin,
        UnlinkData, Stop, Outside, TypeOK, StoreType
<1>44. QED
  BY <1>1, <1>2, <1>3, <1>4, <1>5, <1>6, <1>7, <1>8, <1>9, <1>10, <1>11, <1>12,
        <1>13, <1>14, <1>15, <1>16, <1>17, <1>18, <1>19, <1>20, <1>21,
        <1>22, <1>23, <1>24, <1>25, <1>26, <1>27, <1>28, <1>29, <1>30,
        <1>31, <1>32, <1>33, <1>34, <1>35, <1>36, <1>37, <1>38, <1>39,
        <1>40, <1>41, <1>42, <1>43
  DEF Next, Recover, Quarantine, RestoreOrDelete, Request, Environment

\* Records and copies keep their types.
LEMMA CopiesTypeStep ==
    ASSUME TypeOK, Phase, [Next]_vars
    PROVE  /\ st' \in [Id -> ItemState \cup {"absent"}]
           /\ data' \in [Id -> Content \cup {NoFile}]
           /\ tmp' \in [Id -> Content \cup {NoFile}]
<1> USE NoFileAssumption
    DEF Goto, Return, Save, Resolve, Begin, UnlinkData, Stop, Outside, files,
        record, copies, log, control, history, limits, TypeOK, StoreType
<1>1. CASE Open BY <1>1 DEF Open
<1>2. CASE \E id \in Id : ResolvePresent(id)
  BY <1>2 DEF ResolvePresent, ItemState
<1>3. CASE \E id \in Id : ResolveGone(id) BY <1>3 DEF ResolveGone
<1>4. CASE \E id \in Id : ResolveFailed(id) BY <1>4 DEF ResolveFailed
<1>5. CASE RecoverSave BY <1>5 DEF RecoverSave, ItemState, Phase, RecoverPhase
<1>6. CASE RecoverAudit BY <1>6 DEF RecoverAudit
<1>7. CASE RecoverDone BY <1>7 DEF RecoverDone
<1>8. CASE Close BY <1>8 DEF Close
<1>9. CASE \E p \in Path : QuarantineRefused(p) BY <1>9 DEF QuarantineRefused
<1>10. CASE \E p \in Path, id \in Id,
                 e \in Content \cup {NoFile}, k \in BOOLEAN : QuarantineOpen(p, id, e, k)
  BY <1>10 DEF QuarantineOpen
<1>11. CASE QuarantineCopy BY <1>11 DEF QuarantineCopy, CopyOf, FilesType, Phase, QuarantinePhase, QuarantineSteps
<1>12. CASE QuarantinePending BY <1>12 DEF QuarantinePending, ItemState
<1>13. CASE QuarantineRename BY <1>13 DEF QuarantineRename, Phase, QuarantinePhase, QuarantineSteps
<1>14. CASE QuarantineSyncItems BY <1>14 DEF QuarantineSyncItems
<1>15. CASE QuarantineStillSame BY <1>15 DEF QuarantineStillSame
<1>16. CASE QuarantineUnlink BY <1>16 DEF QuarantineUnlink
<1>17. CASE RollBack BY <1>17 DEF RollBack
<1>18. CASE RollBackSave BY <1>18 DEF RollBackSave, ItemState
<1>19. CASE QuarantineSyncDir BY <1>19 DEF QuarantineSyncDir
<1>20. CASE QuarantineKill BY <1>20 DEF QuarantineKill
<1>21. CASE QuarantineFinal BY <1>21 DEF QuarantineFinal, ItemState
<1>22. CASE QuarantineAudit BY <1>22 DEF QuarantineAudit
<1>23. CASE Report BY <1>23 DEF Report
<1>24. CASE \E a \in {"restore", "delete"}, id \in Id : Refuse(a, id)
  BY <1>24 DEF Refuse
<1>25. CASE \E id \in Id, p \in Path : Restore(id, p) BY <1>25 DEF Restore
<1>26. CASE \E id \in Id : Delete(id) BY <1>26 DEF Delete
<1>27. CASE RestoreCreate BY <1>27 DEF RestoreCreate
<1>28. CASE RestoreDecode BY <1>28 DEF RestoreDecode
<1>29. CASE RestoreRename BY <1>29 DEF RestoreRename
<1>30. CASE RestoreLinked BY <1>30 DEF RestoreLinked
<1>31. CASE RestoreSyncDir BY <1>31 DEF RestoreSyncDir
<1>32. CASE RestoreUnlinkData BY <1>32 DEF RestoreUnlinkData
<1>33. CASE RestoreSave BY <1>33 DEF RestoreSave, ItemState
<1>34. CASE DeleteUnlink BY <1>34 DEF DeleteUnlink
<1>35. CASE DeleteSync BY <1>35 DEF DeleteSync
<1>36. CASE DeleteSave BY <1>36 DEF DeleteSave, ItemState
<1>37. CASE Kill BY <1>37 DEF Kill, FilesType, Phase, QuarantinePhase, QuarantineSteps
<1>38. CASE PowerLoss BY <1>38 DEF PowerLoss, Original, Phase, UnsyncedPhase
<1>39. CASE \E p \in Path, c \in Content : EnvCreate(p, c)
  BY <1>39 DEF EnvCreate
<1>40. CASE \E p \in Path : EnvRemove(p) BY <1>40 DEF EnvRemove
<1>41. CASE \E p, q \in Path : EnvRename(p, q) BY <1>41 DEF EnvRename
<1>42. CASE \E i \in Inode, c \in Content : EnvWrite(i, c)
  BY <1>42 DEF EnvWrite
<1>43. CASE UNCHANGED vars BY <1>43 DEF vars
<1> HIDE DEF Goto, Return, Save, Resolve, Begin, UnlinkData, Stop, Outside, files,
        record, copies, log, control, history, limits, TypeOK, StoreType
<1>44. QED
  BY <1>1, <1>2, <1>3, <1>4, <1>5, <1>6, <1>7, <1>8, <1>9, <1>10, <1>11, <1>12,
        <1>13, <1>14, <1>15, <1>16, <1>17, <1>18, <1>19, <1>20, <1>21,
        <1>22, <1>23, <1>24, <1>25, <1>26, <1>27, <1>28, <1>29, <1>30,
        <1>31, <1>32, <1>33, <1>34, <1>35, <1>36, <1>37, <1>38, <1>39,
        <1>40, <1>41, <1>42, <1>43
  DEF Next, Recover, Quarantine, RestoreOrDelete, Request, Environment

\* The temporary names of restores and the state of the audit chain keep
\* their types.
LEMMA SpillTypeStep ==
    ASSUME TypeOK, Phase, [Next]_vars
    PROVE  /\ spill' \in SUBSET (Id \X Path)
           /\ chain' \in {"intact", "broken"}
<1> USE NoFileAssumption
    DEF Append, AppendFails, Resolve, Begin, Cleanup, UnlinkData, Stop, Outside,
        files, record, copies, log, control, history, limits, TypeOK,
        StoreType, Phase, RestorePhase, UnsyncedPhase, RestoreSteps
<1>1. CASE Open BY <1>1 DEF Open
<1>2. CASE \E id \in Id : ResolvePresent(id) BY <1>2 DEF ResolvePresent
<1>3. CASE \E id \in Id : ResolveGone(id) BY <1>3 DEF ResolveGone
<1>4. CASE \E id \in Id : ResolveFailed(id) BY <1>4 DEF ResolveFailed
<1>5. CASE RecoverSave BY <1>5 DEF RecoverSave
<1>6. CASE RecoverAudit BY <1>6 DEF RecoverAudit
<1>7. CASE RecoverDone BY <1>7 DEF RecoverDone
<1>8. CASE Close BY <1>8 DEF Close
<1>9. CASE \E p \in Path : QuarantineRefused(p) BY <1>9 DEF QuarantineRefused
<1>10. CASE \E p \in Path, id \in Id,
                 e \in Content \cup {NoFile}, k \in BOOLEAN : QuarantineOpen(p, id, e, k)
  BY <1>10 DEF QuarantineOpen
<1>11. CASE QuarantineCopy BY <1>11 DEF QuarantineCopy, CopyOf
<1>12. CASE QuarantinePending BY <1>12 DEF QuarantinePending
<1>13. CASE QuarantineRename BY <1>13 DEF QuarantineRename
<1>14. CASE QuarantineSyncItems BY <1>14 DEF QuarantineSyncItems
<1>15. CASE QuarantineStillSame BY <1>15 DEF QuarantineStillSame
<1>16. CASE QuarantineUnlink BY <1>16 DEF QuarantineUnlink
<1>17. CASE RollBack BY <1>17 DEF RollBack
<1>18. CASE RollBackSave BY <1>18 DEF RollBackSave
<1>19. CASE QuarantineSyncDir BY <1>19 DEF QuarantineSyncDir
<1>20. CASE QuarantineKill BY <1>20 DEF QuarantineKill
<1>21. CASE QuarantineFinal BY <1>21 DEF QuarantineFinal
<1>22. CASE QuarantineAudit BY <1>22 DEF QuarantineAudit
<1>23. CASE Report BY <1>23 DEF Report
<1>24. CASE \E a \in {"restore", "delete"}, id \in Id : Refuse(a, id)
  BY <1>24 DEF Refuse
<1>25. CASE \E id \in Id, p \in Path : Restore(id, p) BY <1>25 DEF Restore
<1>26. CASE \E id \in Id : Delete(id) BY <1>26 DEF Delete
<1>27. CASE RestoreCreate BY <1>27 DEF RestoreCreate
<1>28. CASE RestoreDecode BY <1>28 DEF RestoreDecode
<1>29. CASE RestoreRename BY <1>29 DEF RestoreRename
<1>30. CASE RestoreLinked BY <1>30 DEF RestoreLinked
<1>31. CASE RestoreSyncDir BY <1>31 DEF RestoreSyncDir
<1>32. CASE RestoreUnlinkData BY <1>32 DEF RestoreUnlinkData
<1>33. CASE RestoreSave BY <1>33 DEF RestoreSave
<1>34. CASE DeleteUnlink BY <1>34 DEF DeleteUnlink
<1>35. CASE DeleteSync BY <1>35 DEF DeleteSync
<1>36. CASE DeleteSave BY <1>36 DEF DeleteSave
<1>37. CASE Kill BY <1>37 DEF Kill
<1>38. CASE PowerLoss BY <1>38 DEF PowerLoss
<1>39. CASE \E p \in Path, c \in Content : EnvCreate(p, c)
  BY <1>39 DEF EnvCreate
<1>40. CASE \E p \in Path : EnvRemove(p) BY <1>40 DEF EnvRemove
<1>41. CASE \E p, q \in Path : EnvRename(p, q) BY <1>41 DEF EnvRename
<1>42. CASE \E i \in Inode, c \in Content : EnvWrite(i, c)
  BY <1>42 DEF EnvWrite
<1>43. CASE UNCHANGED vars BY <1>43 DEF vars
<1> HIDE DEF Append, AppendFails, Resolve, Begin, Cleanup, UnlinkData, Stop, Outside,
        files, record, copies, log, control, history, limits, TypeOK,
        StoreType, Phase, RestorePhase, UnsyncedPhase, RestoreSteps
<1>44. QED
  BY <1>1, <1>2, <1>3, <1>4, <1>5, <1>6, <1>7, <1>8, <1>9, <1>10, <1>11, <1>12,
        <1>13, <1>14, <1>15, <1>16, <1>17, <1>18, <1>19, <1>20, <1>21,
        <1>22, <1>23, <1>24, <1>25, <1>26, <1>27, <1>28, <1>29, <1>30,
        <1>31, <1>32, <1>33, <1>34, <1>35, <1>36, <1>37, <1>38, <1>39,
        <1>40, <1>41, <1>42, <1>43
  DEF Next, Recover, Quarantine, RestoreOrDelete, Request, Environment

\* The history variables keep their types and the counters their bounds.
LEMMA HistoryTypeStep ==
    ASSUME TypeOK, Phase, [Next]_vars
    PROVE  HistoryType'
<1> USE NoFileAssumption, BoundsAssumption
    DEF Goto, Return, Leave, Resume, Save, Append, AppendFails, Fault, NoFault,
        Resolve, Begin, Cleanup, UnlinkData, Stop, Outside, files, record,
        copies, log, control, history, limits, TypeOK, FilesType,
        HistoryType, Phase, QuarantinePhase, RestorePhase,
        QuarantineSteps, RestoreSteps, DeleteSteps, RecoverSteps
<1>1. CASE Open BY <1>1 DEF Open
<1>2. CASE \E id \in Id : ResolvePresent(id) BY <1>2 DEF ResolvePresent
<1>3. CASE \E id \in Id : ResolveGone(id) BY <1>3 DEF ResolveGone
<1>4. CASE \E id \in Id : ResolveFailed(id) BY <1>4 DEF ResolveFailed
<1>5. CASE RecoverSave BY <1>5 DEF RecoverSave
<1>6. CASE RecoverAudit BY <1>6 DEF RecoverAudit
<1>7. CASE RecoverDone BY <1>7 DEF RecoverDone
<1>8. CASE Close BY <1>8 DEF Close
<1>9. CASE \E p \in Path : QuarantineRefused(p) BY <1>9 DEF QuarantineRefused
<1>10. CASE \E p \in Path, id \in Id,
                 e \in Content \cup {NoFile}, k \in BOOLEAN : QuarantineOpen(p, id, e, k)
  BY <1>10 DEF QuarantineOpen
<1>11. CASE QuarantineCopy BY <1>11 DEF QuarantineCopy, CopyOf
<1>12. CASE QuarantinePending BY <1>12 DEF QuarantinePending
<1>13. CASE QuarantineRename BY <1>13 DEF QuarantineRename
<1>14. CASE QuarantineSyncItems BY <1>14 DEF QuarantineSyncItems
<1>15. CASE QuarantineStillSame BY <1>15 DEF QuarantineStillSame
<1>16. CASE QuarantineUnlink BY <1>16 DEF QuarantineUnlink
<1>17. CASE RollBack BY <1>17 DEF RollBack
<1>18. CASE RollBackSave BY <1>18 DEF RollBackSave
<1>19. CASE QuarantineSyncDir BY <1>19 DEF QuarantineSyncDir
<1>20. CASE QuarantineKill BY <1>20 DEF QuarantineKill
<1>21. CASE QuarantineFinal BY <1>21 DEF QuarantineFinal
<1>22. CASE QuarantineAudit BY <1>22 DEF QuarantineAudit
<1>23. CASE Report BY <1>23 DEF Report
<1>24. CASE \E a \in {"restore", "delete"}, id \in Id : Refuse(a, id)
  BY <1>24 DEF Refuse
<1>25. CASE \E id \in Id, p \in Path : Restore(id, p) BY <1>25 DEF Restore
<1>26. CASE \E id \in Id : Delete(id) BY <1>26 DEF Delete
<1>27. CASE RestoreCreate BY <1>27 DEF RestoreCreate
<1>28. CASE RestoreDecode BY <1>28 DEF RestoreDecode
<1>29. CASE RestoreRename BY <1>29 DEF RestoreRename
<1>30. CASE RestoreLinked BY <1>30 DEF RestoreLinked
<1>31. CASE RestoreSyncDir BY <1>31 DEF RestoreSyncDir
<1>32. CASE RestoreUnlinkData BY <1>32 DEF RestoreUnlinkData
<1>33. CASE RestoreSave BY <1>33 DEF RestoreSave
<1>34. CASE DeleteUnlink BY <1>34 DEF DeleteUnlink
<1>35. CASE DeleteSync BY <1>35 DEF DeleteSync
<1>36. CASE DeleteSave BY <1>36 DEF DeleteSave
<1>37. CASE Kill BY <1>37 DEF Kill
<1>38. CASE PowerLoss
  <2>1. removed' \in [Id -> Content \cup {NoFile}]
    BY <1>38 DEF PowerLoss
  <2>2. QED BY <1>38, <2>1 DEF PowerLoss
<1>39. CASE \E p \in Path, c \in Content : EnvCreate(p, c)
  BY <1>39 DEF EnvCreate
<1>40. CASE \E p \in Path : EnvRemove(p) BY <1>40 DEF EnvRemove
<1>41. CASE \E p, q \in Path : EnvRename(p, q) BY <1>41 DEF EnvRename
<1>42. CASE \E i \in Inode, c \in Content : EnvWrite(i, c)
  BY <1>42 DEF EnvWrite
<1>43. CASE UNCHANGED vars BY <1>43 DEF vars
<1> HIDE DEF Goto, Return, Leave, Resume, Save, Append, AppendFails, Fault, NoFault,
        Resolve, Begin, Cleanup, UnlinkData, Stop, Outside, files, record,
        copies, log, control, history, limits, TypeOK, FilesType,
        HistoryType, Phase, QuarantinePhase, RestorePhase,
        QuarantineSteps, RestoreSteps, DeleteSteps, RecoverSteps
<1>44. QED
  BY <1>1, <1>2, <1>3, <1>4, <1>5, <1>6, <1>7, <1>8, <1>9, <1>10, <1>11, <1>12,
        <1>13, <1>14, <1>15, <1>16, <1>17, <1>18, <1>19, <1>20, <1>21,
        <1>22, <1>23, <1>24, <1>25, <1>26, <1>27, <1>28, <1>29, <1>30,
        <1>31, <1>32, <1>33, <1>34, <1>35, <1>36, <1>37, <1>38, <1>39,
        <1>40, <1>41, <1>42, <1>43
  DEF Next, Recover, Quarantine, RestoreOrDelete, Request, Environment

\* What a quarantine has established at each of its steps.
LEMMA QuarantinePhaseStep ==
    ASSUME TypeOK, Phase, [Next]_vars
    PROVE  QuarantinePhase'
<1> USE NoFileAssumption, BoundsAssumption
    DEF Goto, Return, Leave, Resume, Save, Append, AppendFails, Fault, NoFault,
        Resolve, Begin, Cleanup, UnlinkData, Stop, Outside, files, record,
        copies, log, control, history, limits, TypeOK, FilesType,
        StoreType, ControlType, HistoryType, Phase, QuarantinePhase,
        RestorePhase, RecoverPhase, Original, Operation, OpFor, NoOp,
        QuarantineSteps, RestoreSteps, DeleteSteps, RecoverSteps
<1>1. CASE Open BY <1>1 DEF Open
<1>2. CASE \E id \in Id : ResolvePresent(id) BY <1>2 DEF ResolvePresent
<1>3. CASE \E id \in Id : ResolveGone(id) BY <1>3 DEF ResolveGone
<1>4. CASE \E id \in Id : ResolveFailed(id) BY <1>4 DEF ResolveFailed
<1>5. CASE RecoverSave BY <1>5 DEF RecoverSave
<1>6. CASE RecoverAudit BY <1>6 DEF RecoverAudit
<1>7. CASE RecoverDone BY <1>7 DEF RecoverDone
<1>8. CASE Close BY <1>8 DEF Close
<1>9. CASE \E p \in Path : QuarantineRefused(p) BY <1>9 DEF QuarantineRefused
<1>10. CASE \E p \in Path, id \in Id,
                 e \in Content \cup {NoFile}, k \in BOOLEAN : QuarantineOpen(p, id, e, k)
  BY <1>10 DEF QuarantineOpen, Fresh
<1>11. CASE QuarantineCopy BY <1>11 DEF QuarantineCopy, CopyOf, Operation, FreeInodes
<1>12. CASE QuarantinePending BY <1>12 DEF QuarantinePending
<1>13. CASE QuarantineRename BY <1>13 DEF QuarantineRename
<1>14. CASE QuarantineSyncItems BY <1>14 DEF QuarantineSyncItems, Operation, FreeInodes
<1>15. CASE QuarantineStillSame BY <1>15 DEF QuarantineStillSame
<1>16. CASE QuarantineUnlink BY <1>16 DEF QuarantineUnlink
<1>17. CASE RollBack BY <1>17 DEF RollBack
<1>18. CASE RollBackSave BY <1>18 DEF RollBackSave
<1>19. CASE QuarantineSyncDir BY <1>19 DEF QuarantineSyncDir, Operation, FreeInodes
<1>20. CASE QuarantineKill BY <1>20 DEF QuarantineKill
<1>21. CASE QuarantineFinal BY <1>21 DEF QuarantineFinal
<1>22. CASE QuarantineAudit BY <1>22 DEF QuarantineAudit
<1>23. CASE Report BY <1>23 DEF Report
<1>24. CASE \E a \in {"restore", "delete"}, id \in Id : Refuse(a, id)
  BY <1>24 DEF Refuse
<1>25. CASE \E id \in Id, p \in Path : Restore(id, p) BY <1>25 DEF Restore
<1>26. CASE \E id \in Id : Delete(id) BY <1>26 DEF Delete
<1>27. CASE RestoreCreate BY <1>27 DEF RestoreCreate
<1>28. CASE RestoreDecode BY <1>28 DEF RestoreDecode
<1>29. CASE RestoreRename BY <1>29 DEF RestoreRename, Operation, FreeInodes
<1>30. CASE RestoreLinked BY <1>30 DEF RestoreLinked
<1>31. CASE RestoreSyncDir BY <1>31 DEF RestoreSyncDir, Operation, FreeInodes
<1>32. CASE RestoreUnlinkData BY <1>32 DEF RestoreUnlinkData
<1>33. CASE RestoreSave BY <1>33 DEF RestoreSave, Operation, FreeInodes
<1>34. CASE DeleteUnlink BY <1>34 DEF DeleteUnlink
<1>35. CASE DeleteSync BY <1>35 DEF DeleteSync, Operation, FreeInodes
<1>36. CASE DeleteSave BY <1>36 DEF DeleteSave
<1>37. CASE Kill BY <1>37 DEF Kill
<1>38. CASE PowerLoss BY <1>38 DEF PowerLoss
<1>39. CASE \E p \in Path, c \in Content : EnvCreate(p, c)
  BY <1>39 DEF EnvCreate
<1>40. CASE \E p \in Path : EnvRemove(p) BY <1>40 DEF EnvRemove
<1>41. CASE \E p, q \in Path : EnvRename(p, q) BY <1>41 DEF EnvRename
<1>42. CASE \E i \in Inode, c \in Content : EnvWrite(i, c)
  BY <1>42 DEF EnvWrite
<1>43. CASE UNCHANGED vars BY <1>43 DEF vars
<1> HIDE DEF Goto, Return, Leave, Resume, Save, Append, AppendFails, Fault, NoFault,
        Resolve, Begin, Cleanup, UnlinkData, Stop, Outside, files, record,
        copies, log, control, history, limits, TypeOK, FilesType,
        StoreType, ControlType, HistoryType, Phase, QuarantinePhase,
        RestorePhase, RecoverPhase, Original, Operation, OpFor, NoOp,
        QuarantineSteps, RestoreSteps, DeleteSteps, RecoverSteps
<1>44. QED
  BY <1>1, <1>2, <1>3, <1>4, <1>5, <1>6, <1>7, <1>8, <1>9, <1>10, <1>11, <1>12,
        <1>13, <1>14, <1>15, <1>16, <1>17, <1>18, <1>19, <1>20, <1>21,
        <1>22, <1>23, <1>24, <1>25, <1>26, <1>27, <1>28, <1>29, <1>30,
        <1>31, <1>32, <1>33, <1>34, <1>35, <1>36, <1>37, <1>38, <1>39,
        <1>40, <1>41, <1>42, <1>43
  DEF Next, Recover, Quarantine, RestoreOrDelete, Request, Environment

\* What a restore or a delete has established at each of its steps.
LEMMA RestorePhaseStep ==
    ASSUME TypeOK, Phase, [Next]_vars
    PROVE  RestorePhase'
<1> USE NoFileAssumption, BoundsAssumption
    DEF Goto, Return, Leave, Resume, Save, Append, AppendFails, Fault, NoFault,
        Resolve, Begin, Cleanup, UnlinkData, Stop, Outside, files, record,
        copies, log, control, history, limits, TypeOK, FilesType,
        StoreType, ControlType, HistoryType, Phase, QuarantinePhase,
        RestorePhase, RecoverPhase, UnsyncedPhase, Original, OpFor, NoOp,
        Verified, QuarantineSteps, RestoreSteps, DeleteSteps, RecoverSteps
<1>1. CASE Open BY <1>1 DEF Open
<1>2. CASE \E id \in Id : ResolvePresent(id) BY <1>2 DEF ResolvePresent
<1>3. CASE \E id \in Id : ResolveGone(id) BY <1>3 DEF ResolveGone
<1>4. CASE \E id \in Id : ResolveFailed(id) BY <1>4 DEF ResolveFailed
<1>5. CASE RecoverSave BY <1>5 DEF RecoverSave
<1>6. CASE RecoverAudit BY <1>6 DEF RecoverAudit
<1>7. CASE RecoverDone BY <1>7 DEF RecoverDone
<1>8. CASE Close BY <1>8 DEF Close
<1>9. CASE \E p \in Path : QuarantineRefused(p) BY <1>9 DEF QuarantineRefused
<1>10. CASE \E p \in Path, id \in Id,
                 e \in Content \cup {NoFile}, k \in BOOLEAN : QuarantineOpen(p, id, e, k)
  BY <1>10 DEF QuarantineOpen, Fresh
<1>11. CASE QuarantineCopy BY <1>11 DEF QuarantineCopy, CopyOf, Operation, FreeInodes
<1>12. CASE QuarantinePending BY <1>12 DEF QuarantinePending
<1>13. CASE QuarantineRename BY <1>13 DEF QuarantineRename
<1>14. CASE QuarantineSyncItems BY <1>14 DEF QuarantineSyncItems, Operation, FreeInodes
<1>15. CASE QuarantineStillSame BY <1>15 DEF QuarantineStillSame
<1>16. CASE QuarantineUnlink BY <1>16 DEF QuarantineUnlink
<1>17. CASE RollBack BY <1>17 DEF RollBack
<1>18. CASE RollBackSave BY <1>18 DEF RollBackSave
<1>19. CASE QuarantineSyncDir BY <1>19 DEF QuarantineSyncDir, Operation, FreeInodes
<1>20. CASE QuarantineKill BY <1>20 DEF QuarantineKill
<1>21. CASE QuarantineFinal BY <1>21 DEF QuarantineFinal
<1>22. CASE QuarantineAudit BY <1>22 DEF QuarantineAudit
<1>23. CASE Report BY <1>23 DEF Report
<1>24. CASE \E a \in {"restore", "delete"}, id \in Id : Refuse(a, id)
  BY <1>24 DEF Refuse
<1>25. CASE \E id \in Id, p \in Path : Restore(id, p) BY <1>25 DEF Restore
<1>26. CASE \E id \in Id : Delete(id) BY <1>26 DEF Delete
<1>27. CASE RestoreCreate BY <1>27 DEF RestoreCreate
<1>28. CASE RestoreDecode BY <1>28 DEF RestoreDecode
<1>29. CASE RestoreRename BY <1>29 DEF RestoreRename, Operation, FreeInodes
<1>30. CASE RestoreLinked BY <1>30 DEF RestoreLinked
<1>31. CASE RestoreSyncDir BY <1>31 DEF RestoreSyncDir, Operation, FreeInodes
<1>32. CASE RestoreUnlinkData BY <1>32 DEF RestoreUnlinkData
<1>33. CASE RestoreSave BY <1>33 DEF RestoreSave, Operation, FreeInodes
<1>34. CASE DeleteUnlink BY <1>34 DEF DeleteUnlink
<1>35. CASE DeleteSync BY <1>35 DEF DeleteSync, Operation, FreeInodes
<1>36. CASE DeleteSave BY <1>36 DEF DeleteSave
<1>37. CASE Kill BY <1>37 DEF Kill
<1>38. CASE PowerLoss BY <1>38 DEF PowerLoss
<1>39. CASE \E p \in Path, c \in Content : EnvCreate(p, c)
  BY <1>39 DEF EnvCreate
<1>40. CASE \E p \in Path : EnvRemove(p) BY <1>40 DEF EnvRemove
<1>41. CASE \E p, q \in Path : EnvRename(p, q) BY <1>41 DEF EnvRename
<1>42. CASE \E i \in Inode, c \in Content : EnvWrite(i, c)
  BY <1>42 DEF EnvWrite
<1>43. CASE UNCHANGED vars BY <1>43 DEF vars
<1> HIDE DEF Goto, Return, Leave, Resume, Save, Append, AppendFails, Fault, NoFault,
        Resolve, Begin, Cleanup, UnlinkData, Stop, Outside, files, record,
        copies, log, control, history, limits, TypeOK, FilesType,
        StoreType, ControlType, HistoryType, Phase, QuarantinePhase,
        RestorePhase, RecoverPhase, UnsyncedPhase, Original, OpFor, NoOp,
        Verified, QuarantineSteps, RestoreSteps, DeleteSteps, RecoverSteps
<1>44. QED
  BY <1>1, <1>2, <1>3, <1>4, <1>5, <1>6, <1>7, <1>8, <1>9, <1>10, <1>11, <1>12,
        <1>13, <1>14, <1>15, <1>16, <1>17, <1>18, <1>19, <1>20, <1>21,
        <1>22, <1>23, <1>24, <1>25, <1>26, <1>27, <1>28, <1>29, <1>30,
        <1>31, <1>32, <1>33, <1>34, <1>35, <1>36, <1>37, <1>38, <1>39,
        <1>40, <1>41, <1>42, <1>43
  DEF Next, Recover, Quarantine, RestoreOrDelete, Request, Environment

\* Recovery resolves records that are still pending.
LEMMA RecoverPhaseStep ==
    ASSUME TypeOK, Phase, [Next]_vars
    PROVE  RecoverPhase'
<1> USE NoFileAssumption, BoundsAssumption
    DEF Goto, Return, Leave, Resume, Save, Append, AppendFails, Fault, NoFault,
        Resolve, Begin, Cleanup, UnlinkData, Stop, Outside, files, record,
        copies, log, control, history, limits, TypeOK, FilesType,
        StoreType, ControlType, HistoryType, Phase, QuarantinePhase,
        RestorePhase, RecoverPhase, UnsyncedPhase, OpFor, NoOp,
        QuarantineSteps, RestoreSteps, DeleteSteps, RecoverSteps
<1>1. CASE Open BY <1>1 DEF Open
<1>2. CASE \E id \in Id : ResolvePresent(id) BY <1>2 DEF ResolvePresent
<1>3. CASE \E id \in Id : ResolveGone(id) BY <1>3 DEF ResolveGone
<1>4. CASE \E id \in Id : ResolveFailed(id) BY <1>4 DEF ResolveFailed
<1>5. CASE RecoverSave BY <1>5 DEF RecoverSave
<1>6. CASE RecoverAudit BY <1>6 DEF RecoverAudit
<1>7. CASE RecoverDone BY <1>7 DEF RecoverDone
<1>8. CASE Close BY <1>8 DEF Close
<1>9. CASE \E p \in Path : QuarantineRefused(p) BY <1>9 DEF QuarantineRefused
<1>10. CASE \E p \in Path, id \in Id,
                 e \in Content \cup {NoFile}, k \in BOOLEAN : QuarantineOpen(p, id, e, k)
  BY <1>10 DEF QuarantineOpen, Fresh
<1>11. CASE QuarantineCopy BY <1>11 DEF QuarantineCopy, CopyOf, Operation, FreeInodes
<1>12. CASE QuarantinePending BY <1>12 DEF QuarantinePending
<1>13. CASE QuarantineRename BY <1>13 DEF QuarantineRename
<1>14. CASE QuarantineSyncItems BY <1>14 DEF QuarantineSyncItems, Operation, FreeInodes
<1>15. CASE QuarantineStillSame BY <1>15 DEF QuarantineStillSame
<1>16. CASE QuarantineUnlink BY <1>16 DEF QuarantineUnlink
<1>17. CASE RollBack BY <1>17 DEF RollBack
<1>18. CASE RollBackSave BY <1>18 DEF RollBackSave
<1>19. CASE QuarantineSyncDir BY <1>19 DEF QuarantineSyncDir, Operation, FreeInodes
<1>20. CASE QuarantineKill BY <1>20 DEF QuarantineKill
<1>21. CASE QuarantineFinal BY <1>21 DEF QuarantineFinal
<1>22. CASE QuarantineAudit BY <1>22 DEF QuarantineAudit
<1>23. CASE Report BY <1>23 DEF Report
<1>24. CASE \E a \in {"restore", "delete"}, id \in Id : Refuse(a, id)
  BY <1>24 DEF Refuse
<1>25. CASE \E id \in Id, p \in Path : Restore(id, p) BY <1>25 DEF Restore
<1>26. CASE \E id \in Id : Delete(id) BY <1>26 DEF Delete
<1>27. CASE RestoreCreate BY <1>27 DEF RestoreCreate
<1>28. CASE RestoreDecode BY <1>28 DEF RestoreDecode
<1>29. CASE RestoreRename BY <1>29 DEF RestoreRename, Operation, FreeInodes
<1>30. CASE RestoreLinked BY <1>30 DEF RestoreLinked
<1>31. CASE RestoreSyncDir BY <1>31 DEF RestoreSyncDir, Operation, FreeInodes
<1>32. CASE RestoreUnlinkData BY <1>32 DEF RestoreUnlinkData
<1>33. CASE RestoreSave BY <1>33 DEF RestoreSave, Operation, FreeInodes
<1>34. CASE DeleteUnlink BY <1>34 DEF DeleteUnlink
<1>35. CASE DeleteSync BY <1>35 DEF DeleteSync, Operation, FreeInodes
<1>36. CASE DeleteSave BY <1>36 DEF DeleteSave
<1>37. CASE Kill BY <1>37 DEF Kill
<1>38. CASE PowerLoss BY <1>38 DEF PowerLoss
<1>39. CASE \E p \in Path, c \in Content : EnvCreate(p, c)
  BY <1>39 DEF EnvCreate
<1>40. CASE \E p \in Path : EnvRemove(p) BY <1>40 DEF EnvRemove
<1>41. CASE \E p, q \in Path : EnvRename(p, q) BY <1>41 DEF EnvRename
<1>42. CASE \E i \in Inode, c \in Content : EnvWrite(i, c)
  BY <1>42 DEF EnvWrite
<1>43. CASE UNCHANGED vars BY <1>43 DEF vars
<1> HIDE DEF Goto, Return, Leave, Resume, Save, Append, AppendFails, Fault, NoFault,
        Resolve, Begin, Cleanup, UnlinkData, Stop, Outside, files, record,
        copies, log, control, history, limits, TypeOK, FilesType,
        StoreType, ControlType, HistoryType, Phase, QuarantinePhase,
        RestorePhase, RecoverPhase, UnsyncedPhase, OpFor, NoOp,
        QuarantineSteps, RestoreSteps, DeleteSteps, RecoverSteps
<1>44. QED
  BY <1>1, <1>2, <1>3, <1>4, <1>5, <1>6, <1>7, <1>8, <1>9, <1>10, <1>11, <1>12,
        <1>13, <1>14, <1>15, <1>16, <1>17, <1>18, <1>19, <1>20, <1>21,
        <1>22, <1>23, <1>24, <1>25, <1>26, <1>27, <1>28, <1>29, <1>30,
        <1>31, <1>32, <1>33, <1>34, <1>35, <1>36, <1>37, <1>38, <1>39,
        <1>40, <1>41, <1>42, <1>43
  DEF Next, Recover, Quarantine, RestoreOrDelete, Request, Environment

\* Which changes a power loss may undo at each step.
LEMMA UnsyncedPhaseStep ==
    ASSUME TypeOK, Phase, [Next]_vars
    PROVE  UnsyncedPhase'
<1> USE NoFileAssumption, BoundsAssumption
    DEF Goto, Return, Leave, Resume, Save, Append, AppendFails, Fault, NoFault,
        Resolve, Begin, Cleanup, UnlinkData, Stop, Outside, files, record,
        copies, log, control, history, limits, TypeOK, FilesType,
        StoreType, ControlType, HistoryType, Phase, QuarantinePhase,
        RestorePhase, RecoverPhase, UnsyncedPhase, OpFor, NoOp, Verified,
        QuarantineSteps, RestoreSteps, DeleteSteps, RecoverSteps
<1>1. CASE Open BY <1>1 DEF Open
<1>2. CASE \E id \in Id : ResolvePresent(id) BY <1>2 DEF ResolvePresent
<1>3. CASE \E id \in Id : ResolveGone(id) BY <1>3 DEF ResolveGone
<1>4. CASE \E id \in Id : ResolveFailed(id) BY <1>4 DEF ResolveFailed
<1>5. CASE RecoverSave BY <1>5 DEF RecoverSave
<1>6. CASE RecoverAudit BY <1>6 DEF RecoverAudit
<1>7. CASE RecoverDone BY <1>7 DEF RecoverDone
<1>8. CASE Close BY <1>8 DEF Close
<1>9. CASE \E p \in Path : QuarantineRefused(p) BY <1>9 DEF QuarantineRefused
<1>10. CASE \E p \in Path, id \in Id,
                 e \in Content \cup {NoFile}, k \in BOOLEAN : QuarantineOpen(p, id, e, k)
  BY <1>10 DEF QuarantineOpen, Fresh
<1>11. CASE QuarantineCopy BY <1>11 DEF QuarantineCopy, CopyOf, Operation, FreeInodes
<1>12. CASE QuarantinePending BY <1>12 DEF QuarantinePending
<1>13. CASE QuarantineRename BY <1>13 DEF QuarantineRename
<1>14. CASE QuarantineSyncItems BY <1>14 DEF QuarantineSyncItems, Operation, FreeInodes
<1>15. CASE QuarantineStillSame BY <1>15 DEF QuarantineStillSame
<1>16. CASE QuarantineUnlink BY <1>16 DEF QuarantineUnlink
<1>17. CASE RollBack BY <1>17 DEF RollBack
<1>18. CASE RollBackSave BY <1>18 DEF RollBackSave
<1>19. CASE QuarantineSyncDir BY <1>19 DEF QuarantineSyncDir, Operation, FreeInodes
<1>20. CASE QuarantineKill BY <1>20 DEF QuarantineKill
<1>21. CASE QuarantineFinal BY <1>21 DEF QuarantineFinal
<1>22. CASE QuarantineAudit BY <1>22 DEF QuarantineAudit
<1>23. CASE Report BY <1>23 DEF Report
<1>24. CASE \E a \in {"restore", "delete"}, id \in Id : Refuse(a, id)
  BY <1>24 DEF Refuse
<1>25. CASE \E id \in Id, p \in Path : Restore(id, p) BY <1>25 DEF Restore
<1>26. CASE \E id \in Id : Delete(id) BY <1>26 DEF Delete
<1>27. CASE RestoreCreate BY <1>27 DEF RestoreCreate
<1>28. CASE RestoreDecode BY <1>28 DEF RestoreDecode
<1>29. CASE RestoreRename BY <1>29 DEF RestoreRename, Operation, FreeInodes
<1>30. CASE RestoreLinked BY <1>30 DEF RestoreLinked
<1>31. CASE RestoreSyncDir BY <1>31 DEF RestoreSyncDir, Operation, FreeInodes
<1>32. CASE RestoreUnlinkData BY <1>32 DEF RestoreUnlinkData
<1>33. CASE RestoreSave BY <1>33 DEF RestoreSave, Operation, FreeInodes
<1>34. CASE DeleteUnlink BY <1>34 DEF DeleteUnlink
<1>35. CASE DeleteSync BY <1>35 DEF DeleteSync, Operation, FreeInodes
<1>36. CASE DeleteSave BY <1>36 DEF DeleteSave
<1>37. CASE Kill BY <1>37 DEF Kill
<1>38. CASE PowerLoss BY <1>38 DEF PowerLoss
<1>39. CASE \E p \in Path, c \in Content : EnvCreate(p, c)
  BY <1>39 DEF EnvCreate
<1>40. CASE \E p \in Path : EnvRemove(p) BY <1>40 DEF EnvRemove
<1>41. CASE \E p, q \in Path : EnvRename(p, q) BY <1>41 DEF EnvRename
<1>42. CASE \E i \in Inode, c \in Content : EnvWrite(i, c)
  BY <1>42 DEF EnvWrite
<1>43. CASE UNCHANGED vars BY <1>43 DEF vars
<1> HIDE DEF Goto, Return, Leave, Resume, Save, Append, AppendFails, Fault, NoFault,
        Resolve, Begin, Cleanup, UnlinkData, Stop, Outside, files, record,
        copies, log, control, history, limits, TypeOK, FilesType,
        StoreType, ControlType, HistoryType, Phase, QuarantinePhase,
        RestorePhase, RecoverPhase, UnsyncedPhase, OpFor, NoOp, Verified,
        QuarantineSteps, RestoreSteps, DeleteSteps, RecoverSteps
<1>44. QED
  BY <1>1, <1>2, <1>3, <1>4, <1>5, <1>6, <1>7, <1>8, <1>9, <1>10, <1>11, <1>12,
        <1>13, <1>14, <1>15, <1>16, <1>17, <1>18, <1>19, <1>20, <1>21,
        <1>22, <1>23, <1>24, <1>25, <1>26, <1>27, <1>28, <1>29, <1>30,
        <1>31, <1>32, <1>33, <1>34, <1>35, <1>36, <1>37, <1>38, <1>39,
        <1>40, <1>41, <1>42, <1>43
  DEF Next, Recover, Quarantine, RestoreOrDelete, Request, Environment

\* Without "reuse" and "swap", the name that is unlinked refers to the inode
\* that was checked.
LEMMA NamesStep ==
    ASSUME Disturbances = {}, TypeOK, Phase, NamesInv, RemovedInv, [Next]_vars
    PROVE  NamesInv'
<1> USE NoFileAssumption
    DEF Goto, Return, Leave, Resume, Save, Append, AppendFails, Fault, NoFault,
        Resolve, Begin, Cleanup, UnlinkData, Stop, Outside, files, record,
        copies, log, control, history, limits, TypeOK, FilesType,
        StoreType, ControlType, HistoryType, Phase, QuarantinePhase,
        RestorePhase, RecoverPhase, UnsyncedPhase, NamesInv, OpFor, NoOp,
        QuarantineSteps, RestoreSteps, DeleteSteps, RecoverSteps,
        FreeInodes, Swappable, OriginalPresent, Fresh
<1>1. CASE Open BY <1>1 DEF Open
<1>2. CASE \E id \in Id : ResolvePresent(id) BY <1>2 DEF ResolvePresent
<1>3. CASE \E id \in Id : ResolveGone(id) BY <1>3 DEF ResolveGone
<1>4. CASE \E id \in Id : ResolveFailed(id) BY <1>4 DEF ResolveFailed
<1>5. CASE RecoverSave BY <1>5 DEF RecoverSave
<1>6. CASE RecoverAudit BY <1>6 DEF RecoverAudit
<1>7. CASE RecoverDone BY <1>7 DEF RecoverDone
<1>8. CASE Close BY <1>8 DEF Close
<1>9. CASE \E p \in Path : QuarantineRefused(p) BY <1>9 DEF QuarantineRefused
<1>10. CASE \E p \in Path, id \in Id,
                 e \in Content \cup {NoFile}, k \in BOOLEAN : QuarantineOpen(p, id, e, k)
  BY <1>10 DEF QuarantineOpen, Fresh
<1>11. CASE QuarantineCopy BY <1>11 DEF QuarantineCopy, CopyOf, Operation, FreeInodes
<1>12. CASE QuarantinePending BY <1>12 DEF QuarantinePending
<1>13. CASE QuarantineRename BY <1>13 DEF QuarantineRename
<1>14. CASE QuarantineSyncItems BY <1>14 DEF QuarantineSyncItems, Operation, FreeInodes
<1>15. CASE QuarantineStillSame BY <1>15 DEF QuarantineStillSame
<1>16. CASE QuarantineUnlink BY <1>16 DEF QuarantineUnlink
<1>17. CASE RollBack BY <1>17 DEF RollBack
<1>18. CASE RollBackSave BY <1>18 DEF RollBackSave
<1>19. CASE QuarantineSyncDir BY <1>19 DEF QuarantineSyncDir, Operation, FreeInodes
<1>20. CASE QuarantineKill BY <1>20 DEF QuarantineKill
<1>21. CASE QuarantineFinal BY <1>21 DEF QuarantineFinal
<1>22. CASE QuarantineAudit BY <1>22 DEF QuarantineAudit
<1>23. CASE Report BY <1>23 DEF Report
<1>24. CASE \E a \in {"restore", "delete"}, id \in Id : Refuse(a, id)
  BY <1>24 DEF Refuse
<1>25. CASE \E id \in Id, p \in Path : Restore(id, p) BY <1>25 DEF Restore
<1>26. CASE \E id \in Id : Delete(id) BY <1>26 DEF Delete
<1>27. CASE RestoreCreate BY <1>27 DEF RestoreCreate
<1>28. CASE RestoreDecode BY <1>28 DEF RestoreDecode
<1>29. CASE RestoreRename BY <1>29 DEF RestoreRename, Operation, FreeInodes
<1>30. CASE RestoreLinked BY <1>30 DEF RestoreLinked
<1>31. CASE RestoreSyncDir BY <1>31 DEF RestoreSyncDir, Operation, FreeInodes
<1>32. CASE RestoreUnlinkData BY <1>32 DEF RestoreUnlinkData
<1>33. CASE RestoreSave BY <1>33 DEF RestoreSave, Operation, FreeInodes
<1>34. CASE DeleteUnlink BY <1>34 DEF DeleteUnlink
<1>35. CASE DeleteSync BY <1>35 DEF DeleteSync, Operation, FreeInodes
<1>36. CASE DeleteSave BY <1>36 DEF DeleteSave
<1>37. CASE Kill BY <1>37 DEF Kill
<1>38. CASE PowerLoss
  <2> PICK lost \in SUBSET unsynced : PowerLoss!2!(lost)
    BY <1>38 DEF PowerLoss
  <2>1. CASE "original" \in lost
    <3>1. /\ op.id \in Id /\ op.path \in Path /\ op.ino \in used
          /\ removed[op.id] # NoFile /\ orig[op.id].ino = op.ino
      BY <2>1 DEF RemovedInv
    <3>2. /\ name' = [name EXCEPT ![op.path] = op.ino]
          /\ removed' = [removed EXCEPT ![op.id] = NoFile]
          /\ \A p \in Path : name[p] # op.ino
      BY <2>1
    <3>3. QED BY <1>38, <3>1, <3>2 DEF PowerLoss
  <2>2. CASE "original" \notin lost
    <3>1. removed' = removed /\ \A p \in Path : name'[p] \in {name[p], NoFile}
      BY <2>2
    <3>2. QED BY <1>38, <3>1 DEF PowerLoss
  <2>3. QED BY <2>1, <2>2
<1>39. CASE \E p \in Path, c \in Content : EnvCreate(p, c)
  BY <1>39 DEF EnvCreate
<1>40. CASE \E p \in Path : EnvRemove(p) BY <1>40 DEF EnvRemove
<1>41. CASE \E p, q \in Path : EnvRename(p, q) BY <1>41 DEF EnvRename
<1>42. CASE \E i \in Inode, c \in Content : EnvWrite(i, c)
  BY <1>42 DEF EnvWrite
<1>43. CASE UNCHANGED vars BY <1>43 DEF vars
<1> HIDE DEF Goto, Return, Leave, Resume, Save, Append, AppendFails, Fault, NoFault,
        Resolve, Begin, Cleanup, UnlinkData, Stop, Outside, files, record,
        copies, log, control, history, limits, TypeOK, FilesType,
        StoreType, ControlType, HistoryType, Phase, QuarantinePhase,
        RestorePhase, RecoverPhase, UnsyncedPhase, NamesInv, OpFor, NoOp,
        QuarantineSteps, RestoreSteps, DeleteSteps, RecoverSteps,
        FreeInodes, Swappable, OriginalPresent, Fresh
<1>44. QED
  BY <1>1, <1>2, <1>3, <1>4, <1>5, <1>6, <1>7, <1>8, <1>9, <1>10, <1>11, <1>12,
        <1>13, <1>14, <1>15, <1>16, <1>17, <1>18, <1>19, <1>20, <1>21,
        <1>22, <1>23, <1>24, <1>25, <1>26, <1>27, <1>28, <1>29, <1>30,
        <1>31, <1>32, <1>33, <1>34, <1>35, <1>36, <1>37, <1>38, <1>39,
        <1>40, <1>41, <1>42, <1>43
  DEF Next, Recover, Quarantine, RestoreOrDelete, Request, Environment

\* Without disturbances, what is removed was copied first, and its inode
\* never gets a name again.
LEMMA RemovedStep ==
    ASSUME Disturbances = {}, TypeOK, Phase, NamesInv, RemovedInv, [Next]_vars
    PROVE  RemovedInv'
<1> USE NoFileAssumption
    DEF Goto, Return, Leave, Resume, Save, Append, AppendFails, Fault, NoFault,
        Resolve, Begin, Cleanup, UnlinkData, Stop, Outside, files, record,
        copies, log, control, history, limits, TypeOK, FilesType,
        StoreType, ControlType, HistoryType, Phase, QuarantinePhase,
        RestorePhase, RecoverPhase, UnsyncedPhase, NamesInv, RemovedInv,
        OpFor, NoOp, Verified, QuarantineSteps, RestoreSteps, DeleteSteps,
        RecoverSteps, FreeInodes, Swappable, OriginalPresent, Fresh
<1>1. CASE Open BY <1>1 DEF Open
<1>2. CASE \E id \in Id : ResolvePresent(id) BY <1>2 DEF ResolvePresent
<1>3. CASE \E id \in Id : ResolveGone(id) BY <1>3 DEF ResolveGone
<1>4. CASE \E id \in Id : ResolveFailed(id) BY <1>4 DEF ResolveFailed
<1>5. CASE RecoverSave BY <1>5 DEF RecoverSave
<1>6. CASE RecoverAudit BY <1>6 DEF RecoverAudit
<1>7. CASE RecoverDone BY <1>7 DEF RecoverDone
<1>8. CASE Close BY <1>8 DEF Close
<1>9. CASE \E p \in Path : QuarantineRefused(p) BY <1>9 DEF QuarantineRefused
<1>10. CASE \E p \in Path, id \in Id,
                 e \in Content \cup {NoFile}, k \in BOOLEAN : QuarantineOpen(p, id, e, k)
  BY <1>10 DEF QuarantineOpen, Fresh
<1>11. CASE QuarantineCopy
  <2>1. CASE pc' = "report"
    BY <1>11, <2>1 DEF QuarantineCopy, CopyOf, Operation
  <2>2. CASE pc' # "report"
    <3>1. \A id \in Id : removed[id] # NoFile => orig'[id] = orig[id]
      BY <1>11, <2>2 DEF QuarantineCopy, CopyOf, Original
    <3>2. orig'[op.id].sha = body[op.ino] /\ removed[op.id] = NoFile
      BY <1>11, <2>2 DEF QuarantineCopy, CopyOf, Original
    <3>3. QED BY <1>11, <2>2, <3>1, <3>2 DEF QuarantineCopy, CopyOf
  <2>3. QED BY <2>1, <2>2
<1>12. CASE QuarantinePending BY <1>12 DEF QuarantinePending
<1>13. CASE QuarantineRename BY <1>13 DEF QuarantineRename
<1>14. CASE QuarantineSyncItems BY <1>14 DEF QuarantineSyncItems, Operation, FreeInodes
<1>15. CASE QuarantineStillSame BY <1>15 DEF QuarantineStillSame
<1>16. CASE QuarantineUnlink BY <1>16 DEF QuarantineUnlink
<1>17. CASE RollBack BY <1>17 DEF RollBack
<1>18. CASE RollBackSave BY <1>18 DEF RollBackSave
<1>19. CASE QuarantineSyncDir BY <1>19 DEF QuarantineSyncDir, Operation, FreeInodes
<1>20. CASE QuarantineKill BY <1>20 DEF QuarantineKill
<1>21. CASE QuarantineFinal BY <1>21 DEF QuarantineFinal
<1>22. CASE QuarantineAudit BY <1>22 DEF QuarantineAudit
<1>23. CASE Report BY <1>23 DEF Report
<1>24. CASE \E a \in {"restore", "delete"}, id \in Id : Refuse(a, id)
  BY <1>24 DEF Refuse
<1>25. CASE \E id \in Id, p \in Path : Restore(id, p) BY <1>25 DEF Restore
<1>26. CASE \E id \in Id : Delete(id) BY <1>26 DEF Delete
<1>27. CASE RestoreCreate BY <1>27 DEF RestoreCreate
<1>28. CASE RestoreDecode BY <1>28 DEF RestoreDecode
<1>29. CASE RestoreRename BY <1>29 DEF RestoreRename, Operation, FreeInodes
<1>30. CASE RestoreLinked BY <1>30 DEF RestoreLinked
<1>31. CASE RestoreSyncDir BY <1>31 DEF RestoreSyncDir, Operation, FreeInodes
<1>32. CASE RestoreUnlinkData BY <1>32 DEF RestoreUnlinkData
<1>33. CASE RestoreSave BY <1>33 DEF RestoreSave, Operation, FreeInodes
<1>34. CASE DeleteUnlink BY <1>34 DEF DeleteUnlink
<1>35. CASE DeleteSync BY <1>35 DEF DeleteSync, Operation, FreeInodes
<1>36. CASE DeleteSave BY <1>36 DEF DeleteSave
<1>37. CASE Kill BY <1>37 DEF Kill
<1>38. CASE PowerLoss
  <2> PICK lost \in SUBSET unsynced : PowerLoss!2!(lost)
    BY <1>38 DEF PowerLoss
  <2>1. CASE "original" \in lost
    <3>1. /\ op.id \in Id /\ op.path \in Path /\ op.ino \in used
          /\ removed[op.id] # NoFile /\ orig[op.id].ino = op.ino
      BY <2>1 DEF RemovedInv
    <3>2. /\ name' = [name EXCEPT ![op.path] = op.ino]
          /\ removed' = [removed EXCEPT ![op.id] = NoFile]
          /\ \A p \in Path : name[p] # op.ino
      BY <2>1
    <3>3. QED BY <1>38, <3>1, <3>2 DEF PowerLoss
  <2>2. CASE "original" \notin lost
    <3>1. removed' = removed /\ \A p \in Path : name'[p] \in {name[p], NoFile}
      BY <2>2
    <3>2. QED BY <1>38, <3>1 DEF PowerLoss
  <2>3. QED BY <2>1, <2>2
<1>39. CASE \E p \in Path, c \in Content : EnvCreate(p, c)
  BY <1>39 DEF EnvCreate
<1>40. CASE \E p \in Path : EnvRemove(p) BY <1>40 DEF EnvRemove
<1>41. CASE \E p, q \in Path : EnvRename(p, q) BY <1>41 DEF EnvRename
<1>42. CASE \E i \in Inode, c \in Content : EnvWrite(i, c)
  BY <1>42 DEF EnvWrite
<1>43. CASE UNCHANGED vars BY <1>43 DEF vars
<1> HIDE DEF Goto, Return, Leave, Resume, Save, Append, AppendFails, Fault, NoFault,
        Resolve, Begin, Cleanup, UnlinkData, Stop, Outside, files, record,
        copies, log, control, history, limits, TypeOK, FilesType,
        StoreType, ControlType, HistoryType, Phase, QuarantinePhase,
        RestorePhase, RecoverPhase, UnsyncedPhase, NamesInv, RemovedInv,
        OpFor, NoOp, Verified, QuarantineSteps, RestoreSteps, DeleteSteps,
        RecoverSteps, FreeInodes, Swappable, OriginalPresent, Fresh
<1>44. QED
  BY <1>1, <1>2, <1>3, <1>4, <1>5, <1>6, <1>7, <1>8, <1>9, <1>10, <1>11, <1>12,
        <1>13, <1>14, <1>15, <1>16, <1>17, <1>18, <1>19, <1>20, <1>21,
        <1>22, <1>23, <1>24, <1>25, <1>26, <1>27, <1>28, <1>29, <1>30,
        <1>31, <1>32, <1>33, <1>34, <1>35, <1>36, <1>37, <1>38, <1>39,
        <1>40, <1>41, <1>42, <1>43
  DEF Next, Recover, Quarantine, RestoreOrDelete, Request, Environment

\* No step drops the last copy of removed content.
LEMMA NoContentLostStep ==
    ASSUME Disturbances = {}, TypeOK, Phase, NamesInv, RemovedInv, NoContentLost, [Next]_vars
    PROVE  NoContentLost'
<1> USE NoFileAssumption
    DEF Goto, Return, Leave, Resume, Save, Append, AppendFails, Fault, NoFault,
        Resolve, Begin, Cleanup, UnlinkData, Stop, Outside, files, record,
        copies, log, control, history, limits, TypeOK, FilesType,
        StoreType, ControlType, HistoryType, Phase, QuarantinePhase,
        RestorePhase, RecoverPhase, UnsyncedPhase, NamesInv, RemovedInv,
        NoContentLost, OpFor, NoOp, Verified, QuarantineSteps,
        RestoreSteps, DeleteSteps, RecoverSteps, FreeInodes, Swappable,
        OriginalPresent, Fresh
<1>1. CASE Open BY <1>1 DEF Open
<1>2. CASE \E id \in Id : ResolvePresent(id) BY <1>2 DEF ResolvePresent
<1>3. CASE \E id \in Id : ResolveGone(id) BY <1>3 DEF ResolveGone
<1>4. CASE \E id \in Id : ResolveFailed(id) BY <1>4 DEF ResolveFailed
<1>5. CASE RecoverSave BY <1>5 DEF RecoverSave
<1>6. CASE RecoverAudit BY <1>6 DEF RecoverAudit
<1>7. CASE RecoverDone BY <1>7 DEF RecoverDone
<1>8. CASE Close BY <1>8 DEF Close
<1>9. CASE \E p \in Path : QuarantineRefused(p) BY <1>9 DEF QuarantineRefused
<1>10. CASE \E p \in Path, id \in Id,
                 e \in Content \cup {NoFile}, k \in BOOLEAN : QuarantineOpen(p, id, e, k)
  BY <1>10 DEF QuarantineOpen, Fresh
<1>11. CASE QuarantineCopy BY <1>11 DEF QuarantineCopy, CopyOf, Operation, FreeInodes
<1>12. CASE QuarantinePending BY <1>12 DEF QuarantinePending
<1>13. CASE QuarantineRename BY <1>13 DEF QuarantineRename
<1>14. CASE QuarantineSyncItems BY <1>14 DEF QuarantineSyncItems, Operation, FreeInodes
<1>15. CASE QuarantineStillSame BY <1>15 DEF QuarantineStillSame
<1>16. CASE QuarantineUnlink BY <1>16 DEF QuarantineUnlink
<1>17. CASE RollBack BY <1>17 DEF RollBack
<1>18. CASE RollBackSave BY <1>18 DEF RollBackSave
<1>19. CASE QuarantineSyncDir BY <1>19 DEF QuarantineSyncDir, Operation, FreeInodes
<1>20. CASE QuarantineKill BY <1>20 DEF QuarantineKill
<1>21. CASE QuarantineFinal BY <1>21 DEF QuarantineFinal
<1>22. CASE QuarantineAudit BY <1>22 DEF QuarantineAudit
<1>23. CASE Report BY <1>23 DEF Report
<1>24. CASE \E a \in {"restore", "delete"}, id \in Id : Refuse(a, id)
  BY <1>24 DEF Refuse
<1>25. CASE \E id \in Id, p \in Path : Restore(id, p) BY <1>25 DEF Restore
<1>26. CASE \E id \in Id : Delete(id) BY <1>26 DEF Delete
<1>27. CASE RestoreCreate BY <1>27 DEF RestoreCreate
<1>28. CASE RestoreDecode BY <1>28 DEF RestoreDecode
<1>29. CASE RestoreRename BY <1>29 DEF RestoreRename, Operation, FreeInodes
<1>30. CASE RestoreLinked BY <1>30 DEF RestoreLinked
<1>31. CASE RestoreSyncDir BY <1>31 DEF RestoreSyncDir, Operation, FreeInodes
<1>32. CASE RestoreUnlinkData BY <1>32 DEF RestoreUnlinkData
<1>33. CASE RestoreSave BY <1>33 DEF RestoreSave, Operation, FreeInodes
<1>34. CASE DeleteUnlink BY <1>34 DEF DeleteUnlink
<1>35. CASE DeleteSync BY <1>35 DEF DeleteSync, Operation, FreeInodes
<1>36. CASE DeleteSave BY <1>36 DEF DeleteSave
<1>37. CASE Kill BY <1>37 DEF Kill
<1>38. CASE PowerLoss BY <1>38 DEF PowerLoss
<1>39. CASE \E p \in Path, c \in Content : EnvCreate(p, c)
  BY <1>39 DEF EnvCreate
<1>40. CASE \E p \in Path : EnvRemove(p) BY <1>40 DEF EnvRemove
<1>41. CASE \E p, q \in Path : EnvRename(p, q) BY <1>41 DEF EnvRename
<1>42. CASE \E i \in Inode, c \in Content : EnvWrite(i, c)
  BY <1>42 DEF EnvWrite
<1>43. CASE UNCHANGED vars BY <1>43 DEF vars
<1> HIDE DEF Goto, Return, Leave, Resume, Save, Append, AppendFails, Fault, NoFault,
        Resolve, Begin, Cleanup, UnlinkData, Stop, Outside, files, record,
        copies, log, control, history, limits, TypeOK, FilesType,
        StoreType, ControlType, HistoryType, Phase, QuarantinePhase,
        RestorePhase, RecoverPhase, UnsyncedPhase, NamesInv, RemovedInv,
        NoContentLost, OpFor, NoOp, Verified, QuarantineSteps,
        RestoreSteps, DeleteSteps, RecoverSteps, FreeInodes, Swappable,
        OriginalPresent, Fresh
<1>44. QED
  BY <1>1, <1>2, <1>3, <1>4, <1>5, <1>6, <1>7, <1>8, <1>9, <1>10, <1>11, <1>12,
        <1>13, <1>14, <1>15, <1>16, <1>17, <1>18, <1>19, <1>20, <1>21,
        <1>22, <1>23, <1>24, <1>25, <1>26, <1>27, <1>28, <1>29, <1>30,
        <1>31, <1>32, <1>33, <1>34, <1>35, <1>36, <1>37, <1>38, <1>39,
        <1>40, <1>41, <1>42, <1>43
  DEF Next, Recover, Quarantine, RestoreOrDelete, Request, Environment

\* No step makes a record say what did not happen.
LEMMA RecordStep ==
    ASSUME Disturbances = {}, TypeOK, Phase, NamesInv, RemovedInv, RecordTellsTheTruth, [Next]_vars
    PROVE  RecordTellsTheTruth'
<1> USE NoFileAssumption
    DEF Goto, Return, Leave, Resume, Save, Append, AppendFails, Fault, NoFault,
        Resolve, Begin, Cleanup, UnlinkData, Stop, Outside, files, record,
        copies, log, control, history, limits, TypeOK, FilesType,
        StoreType, ControlType, HistoryType, Phase, QuarantinePhase,
        RestorePhase, RecoverPhase, UnsyncedPhase, NamesInv, RemovedInv,
        RecordTellsTheTruth, OpFor, NoOp, Verified, QuarantineSteps,
        RestoreSteps, DeleteSteps, RecoverSteps, FreeInodes, Swappable,
        OriginalPresent, Fresh
<1>1. CASE Open BY <1>1 DEF Open
<1>2. CASE \E id \in Id : ResolvePresent(id) BY <1>2 DEF ResolvePresent
<1>3. CASE \E id \in Id : ResolveGone(id) BY <1>3 DEF ResolveGone
<1>4. CASE \E id \in Id : ResolveFailed(id) BY <1>4 DEF ResolveFailed
<1>5. CASE RecoverSave BY <1>5 DEF RecoverSave
<1>6. CASE RecoverAudit BY <1>6 DEF RecoverAudit
<1>7. CASE RecoverDone BY <1>7 DEF RecoverDone
<1>8. CASE Close BY <1>8 DEF Close
<1>9. CASE \E p \in Path : QuarantineRefused(p) BY <1>9 DEF QuarantineRefused
<1>10. CASE \E p \in Path, id \in Id,
                 e \in Content \cup {NoFile}, k \in BOOLEAN : QuarantineOpen(p, id, e, k)
  BY <1>10 DEF QuarantineOpen, Fresh
<1>11. CASE QuarantineCopy BY <1>11 DEF QuarantineCopy, CopyOf, Operation, FreeInodes
<1>12. CASE QuarantinePending BY <1>12 DEF QuarantinePending
<1>13. CASE QuarantineRename BY <1>13 DEF QuarantineRename
<1>14. CASE QuarantineSyncItems BY <1>14 DEF QuarantineSyncItems, Operation, FreeInodes
<1>15. CASE QuarantineStillSame BY <1>15 DEF QuarantineStillSame
<1>16. CASE QuarantineUnlink BY <1>16 DEF QuarantineUnlink
<1>17. CASE RollBack BY <1>17 DEF RollBack
<1>18. CASE RollBackSave BY <1>18 DEF RollBackSave
<1>19. CASE QuarantineSyncDir BY <1>19 DEF QuarantineSyncDir, Operation, FreeInodes
<1>20. CASE QuarantineKill BY <1>20 DEF QuarantineKill
<1>21. CASE QuarantineFinal BY <1>21 DEF QuarantineFinal
<1>22. CASE QuarantineAudit BY <1>22 DEF QuarantineAudit
<1>23. CASE Report BY <1>23 DEF Report
<1>24. CASE \E a \in {"restore", "delete"}, id \in Id : Refuse(a, id)
  BY <1>24 DEF Refuse
<1>25. CASE \E id \in Id, p \in Path : Restore(id, p) BY <1>25 DEF Restore
<1>26. CASE \E id \in Id : Delete(id) BY <1>26 DEF Delete
<1>27. CASE RestoreCreate BY <1>27 DEF RestoreCreate
<1>28. CASE RestoreDecode BY <1>28 DEF RestoreDecode
<1>29. CASE RestoreRename BY <1>29 DEF RestoreRename, Operation, FreeInodes
<1>30. CASE RestoreLinked BY <1>30 DEF RestoreLinked
<1>31. CASE RestoreSyncDir BY <1>31 DEF RestoreSyncDir, Operation, FreeInodes
<1>32. CASE RestoreUnlinkData BY <1>32 DEF RestoreUnlinkData
<1>33. CASE RestoreSave BY <1>33 DEF RestoreSave, Operation, FreeInodes
<1>34. CASE DeleteUnlink BY <1>34 DEF DeleteUnlink
<1>35. CASE DeleteSync BY <1>35 DEF DeleteSync, Operation, FreeInodes
<1>36. CASE DeleteSave BY <1>36 DEF DeleteSave
<1>37. CASE Kill BY <1>37 DEF Kill
<1>38. CASE PowerLoss BY <1>38 DEF PowerLoss
<1>39. CASE \E p \in Path, c \in Content : EnvCreate(p, c)
  BY <1>39 DEF EnvCreate
<1>40. CASE \E p \in Path : EnvRemove(p) BY <1>40 DEF EnvRemove
<1>41. CASE \E p, q \in Path : EnvRename(p, q) BY <1>41 DEF EnvRename
<1>42. CASE \E i \in Inode, c \in Content : EnvWrite(i, c)
  BY <1>42 DEF EnvWrite
<1>43. CASE UNCHANGED vars BY <1>43 DEF vars
<1> HIDE DEF Goto, Return, Leave, Resume, Save, Append, AppendFails, Fault, NoFault,
        Resolve, Begin, Cleanup, UnlinkData, Stop, Outside, files, record,
        copies, log, control, history, limits, TypeOK, FilesType,
        StoreType, ControlType, HistoryType, Phase, QuarantinePhase,
        RestorePhase, RecoverPhase, UnsyncedPhase, NamesInv, RemovedInv,
        RecordTellsTheTruth, OpFor, NoOp, Verified, QuarantineSteps,
        RestoreSteps, DeleteSteps, RecoverSteps, FreeInodes, Swappable,
        OriginalPresent, Fresh
<1>44. QED
  BY <1>1, <1>2, <1>3, <1>4, <1>5, <1>6, <1>7, <1>8, <1>9, <1>10, <1>11, <1>12,
        <1>13, <1>14, <1>15, <1>16, <1>17, <1>18, <1>19, <1>20, <1>21,
        <1>22, <1>23, <1>24, <1>25, <1>26, <1>27, <1>28, <1>29, <1>30,
        <1>31, <1>32, <1>33, <1>34, <1>35, <1>36, <1>37, <1>38, <1>39,
        <1>40, <1>41, <1>42, <1>43
  DEF Next, Recover, Quarantine, RestoreOrDelete, Request, Environment

\* Records move along the arrows of the lifecycle.
LEMMA LifecycleStep ==
    ASSUME TypeOK, Phase, [Next]_vars
    PROVE  MovesAlongLifecycle
<1> USE NoFileAssumption
    DEF Goto, Return, Leave, Resume, Save, Append, AppendFails, Fault, NoFault,
        Resolve, Begin, Cleanup, UnlinkData, Stop, Outside, files, record,
        copies, log, control, history, limits, TypeOK, StoreType, Phase,
        QuarantinePhase, RestorePhase, RecoverPhase, UnsyncedPhase,
        MovesAlongLifecycle, QuarantineSteps, RestoreSteps, DeleteSteps,
        RecoverSteps
<1>1. CASE Open BY <1>1 DEF Open
<1>2. CASE \E id \in Id : ResolvePresent(id) BY <1>2 DEF ResolvePresent
<1>3. CASE \E id \in Id : ResolveGone(id) BY <1>3 DEF ResolveGone
<1>4. CASE \E id \in Id : ResolveFailed(id) BY <1>4 DEF ResolveFailed
<1>5. CASE RecoverSave BY <1>5 DEF RecoverSave
<1>6. CASE RecoverAudit BY <1>6 DEF RecoverAudit
<1>7. CASE RecoverDone BY <1>7 DEF RecoverDone
<1>8. CASE Close BY <1>8 DEF Close
<1>9. CASE \E p \in Path : QuarantineRefused(p) BY <1>9 DEF QuarantineRefused
<1>10. CASE \E p \in Path, id \in Id,
                 e \in Content \cup {NoFile}, k \in BOOLEAN : QuarantineOpen(p, id, e, k)
  BY <1>10 DEF QuarantineOpen, Fresh
<1>11. CASE QuarantineCopy BY <1>11 DEF QuarantineCopy, CopyOf
<1>12. CASE QuarantinePending BY <1>12 DEF QuarantinePending
<1>13. CASE QuarantineRename BY <1>13 DEF QuarantineRename
<1>14. CASE QuarantineSyncItems BY <1>14 DEF QuarantineSyncItems
<1>15. CASE QuarantineStillSame BY <1>15 DEF QuarantineStillSame
<1>16. CASE QuarantineUnlink BY <1>16 DEF QuarantineUnlink
<1>17. CASE RollBack BY <1>17 DEF RollBack
<1>18. CASE RollBackSave BY <1>18 DEF RollBackSave
<1>19. CASE QuarantineSyncDir BY <1>19 DEF QuarantineSyncDir
<1>20. CASE QuarantineKill BY <1>20 DEF QuarantineKill
<1>21. CASE QuarantineFinal BY <1>21 DEF QuarantineFinal
<1>22. CASE QuarantineAudit BY <1>22 DEF QuarantineAudit
<1>23. CASE Report BY <1>23 DEF Report
<1>24. CASE \E a \in {"restore", "delete"}, id \in Id : Refuse(a, id)
  BY <1>24 DEF Refuse
<1>25. CASE \E id \in Id, p \in Path : Restore(id, p) BY <1>25 DEF Restore
<1>26. CASE \E id \in Id : Delete(id) BY <1>26 DEF Delete
<1>27. CASE RestoreCreate BY <1>27 DEF RestoreCreate
<1>28. CASE RestoreDecode BY <1>28 DEF RestoreDecode
<1>29. CASE RestoreRename BY <1>29 DEF RestoreRename
<1>30. CASE RestoreLinked BY <1>30 DEF RestoreLinked
<1>31. CASE RestoreSyncDir BY <1>31 DEF RestoreSyncDir
<1>32. CASE RestoreUnlinkData BY <1>32 DEF RestoreUnlinkData
<1>33. CASE RestoreSave BY <1>33 DEF RestoreSave
<1>34. CASE DeleteUnlink BY <1>34 DEF DeleteUnlink
<1>35. CASE DeleteSync BY <1>35 DEF DeleteSync
<1>36. CASE DeleteSave BY <1>36 DEF DeleteSave
<1>37. CASE Kill BY <1>37 DEF Kill
<1>38. CASE PowerLoss BY <1>38 DEF PowerLoss
<1>39. CASE \E p \in Path, c \in Content : EnvCreate(p, c)
  BY <1>39 DEF EnvCreate
<1>40. CASE \E p \in Path : EnvRemove(p) BY <1>40 DEF EnvRemove
<1>41. CASE \E p, q \in Path : EnvRename(p, q) BY <1>41 DEF EnvRename
<1>42. CASE \E i \in Inode, c \in Content : EnvWrite(i, c)
  BY <1>42 DEF EnvWrite
<1>43. CASE UNCHANGED vars BY <1>43 DEF vars
<1> HIDE DEF Goto, Return, Leave, Resume, Save, Append, AppendFails, Fault, NoFault,
        Resolve, Begin, Cleanup, UnlinkData, Stop, Outside, files, record,
        copies, log, control, history, limits, TypeOK, StoreType, Phase,
        QuarantinePhase, RestorePhase, RecoverPhase, UnsyncedPhase,
        MovesAlongLifecycle, QuarantineSteps, RestoreSteps, DeleteSteps,
        RecoverSteps
<1>44. QED
  BY <1>1, <1>2, <1>3, <1>4, <1>5, <1>6, <1>7, <1>8, <1>9, <1>10, <1>11, <1>12,
        <1>13, <1>14, <1>15, <1>16, <1>17, <1>18, <1>19, <1>20, <1>21,
        <1>22, <1>23, <1>24, <1>25, <1>26, <1>27, <1>28, <1>29, <1>30,
        <1>31, <1>32, <1>33, <1>34, <1>35, <1>36, <1>37, <1>38, <1>39,
        <1>40, <1>41, <1>42, <1>43
  DEF Next, Recover, Quarantine, RestoreOrDelete, Request, Environment

\* The only step of the store that takes a name away is the unlink of the
\* copied original.
LEMMA RemovesStep ==
    ASSUME Disturbances = {}, TypeOK, Phase, NamesInv, RemovedInv, [Next]_vars
    PROVE  RemovesOnlyCopies
<1> USE NoFileAssumption
    DEF Goto, Return, Leave, Resume, Save, Append, AppendFails, Fault, NoFault,
        Resolve, Begin, Cleanup, UnlinkData, Stop, Outside, files, record,
        copies, log, control, history, limits, TypeOK, FilesType,
        StoreType, ControlType, HistoryType, Phase, QuarantinePhase,
        RestorePhase, RecoverPhase, UnsyncedPhase, NamesInv, RemovedInv,
        RemovesOnlyCopies, QuarantineSteps, RestoreSteps, DeleteSteps,
        RecoverSteps, FreeInodes
<1>1. CASE Open BY <1>1 DEF Open
<1>2. CASE \E id \in Id : ResolvePresent(id) BY <1>2 DEF ResolvePresent
<1>3. CASE \E id \in Id : ResolveGone(id) BY <1>3 DEF ResolveGone
<1>4. CASE \E id \in Id : ResolveFailed(id) BY <1>4 DEF ResolveFailed
<1>5. CASE RecoverSave BY <1>5 DEF RecoverSave
<1>6. CASE RecoverAudit BY <1>6 DEF RecoverAudit
<1>7. CASE RecoverDone BY <1>7 DEF RecoverDone
<1>8. CASE Close BY <1>8 DEF Close
<1>9. CASE \E p \in Path : QuarantineRefused(p) BY <1>9 DEF QuarantineRefused
<1>10. CASE \E p \in Path, id \in Id,
                 e \in Content \cup {NoFile}, k \in BOOLEAN : QuarantineOpen(p, id, e, k)
  BY <1>10 DEF QuarantineOpen, Fresh
<1>11. CASE QuarantineCopy BY <1>11 DEF QuarantineCopy, CopyOf
<1>12. CASE QuarantinePending BY <1>12 DEF QuarantinePending
<1>13. CASE QuarantineRename BY <1>13 DEF QuarantineRename
<1>14. CASE QuarantineSyncItems BY <1>14 DEF QuarantineSyncItems
<1>15. CASE QuarantineStillSame BY <1>15 DEF QuarantineStillSame
<1>16. CASE QuarantineUnlink BY <1>16 DEF QuarantineUnlink
<1>17. CASE RollBack BY <1>17 DEF RollBack
<1>18. CASE RollBackSave BY <1>18 DEF RollBackSave
<1>19. CASE QuarantineSyncDir BY <1>19 DEF QuarantineSyncDir
<1>20. CASE QuarantineKill BY <1>20 DEF QuarantineKill
<1>21. CASE QuarantineFinal BY <1>21 DEF QuarantineFinal
<1>22. CASE QuarantineAudit BY <1>22 DEF QuarantineAudit
<1>23. CASE Report BY <1>23 DEF Report
<1>24. CASE \E a \in {"restore", "delete"}, id \in Id : Refuse(a, id)
  BY <1>24 DEF Refuse
<1>25. CASE \E id \in Id, p \in Path : Restore(id, p) BY <1>25 DEF Restore
<1>26. CASE \E id \in Id : Delete(id) BY <1>26 DEF Delete
<1>27. CASE RestoreCreate BY <1>27 DEF RestoreCreate
<1>28. CASE RestoreDecode BY <1>28 DEF RestoreDecode
<1>29. CASE RestoreRename BY <1>29 DEF RestoreRename
<1>30. CASE RestoreLinked BY <1>30 DEF RestoreLinked
<1>31. CASE RestoreSyncDir BY <1>31 DEF RestoreSyncDir
<1>32. CASE RestoreUnlinkData BY <1>32 DEF RestoreUnlinkData
<1>33. CASE RestoreSave BY <1>33 DEF RestoreSave
<1>34. CASE DeleteUnlink BY <1>34 DEF DeleteUnlink
<1>35. CASE DeleteSync BY <1>35 DEF DeleteSync
<1>36. CASE DeleteSave BY <1>36 DEF DeleteSave
<1>37. CASE Kill BY <1>37 DEF Kill
<1>38. CASE PowerLoss BY <1>38 DEF PowerLoss
<1>39. CASE \E p \in Path, c \in Content : EnvCreate(p, c)
  BY <1>39 DEF EnvCreate
<1>40. CASE \E p \in Path : EnvRemove(p) BY <1>40 DEF EnvRemove
<1>41. CASE \E p, q \in Path : EnvRename(p, q) BY <1>41 DEF EnvRename
<1>42. CASE \E i \in Inode, c \in Content : EnvWrite(i, c)
  BY <1>42 DEF EnvWrite
<1>43. CASE UNCHANGED vars BY <1>43 DEF vars
<1> HIDE DEF Goto, Return, Leave, Resume, Save, Append, AppendFails, Fault, NoFault,
        Resolve, Begin, Cleanup, UnlinkData, Stop, Outside, files, record,
        copies, log, control, history, limits, TypeOK, FilesType,
        StoreType, ControlType, HistoryType, Phase, QuarantinePhase,
        RestorePhase, RecoverPhase, UnsyncedPhase, NamesInv, RemovedInv,
        RemovesOnlyCopies, QuarantineSteps, RestoreSteps, DeleteSteps,
        RecoverSteps, FreeInodes
<1>44. QED
  BY <1>1, <1>2, <1>3, <1>4, <1>5, <1>6, <1>7, <1>8, <1>9, <1>10, <1>11, <1>12,
        <1>13, <1>14, <1>15, <1>16, <1>17, <1>18, <1>19, <1>20, <1>21,
        <1>22, <1>23, <1>24, <1>25, <1>26, <1>27, <1>28, <1>29, <1>30,
        <1>31, <1>32, <1>33, <1>34, <1>35, <1>36, <1>37, <1>38, <1>39,
        <1>40, <1>41, <1>42, <1>43
  DEF Next, Recover, Quarantine, RestoreOrDelete, Request, Environment

----------------------------------------------------------------------------
(* The theorems.                                                           *)

\* A store that was just opened for the first time satisfies the invariant.
LEMMA InitInv == Init => IInv
<1> SUFFICES ASSUME Init PROVE IInv
  OBVIOUS
<1> USE NoFileAssumption, BoundsAssumption DEF Init
<1>1. TypeOK
  <2>1. FilesType BY DEF FilesType
  <2>2. StoreType BY DEF StoreType, Original, NoOriginal
  <2>3. ControlType BY NoOpType DEF ControlType, Control
  <2>4. HistoryType BY DEF HistoryType
  <2>5. QED BY <2>1, <2>2, <2>3, <2>4 DEF TypeOK
<1>2. Phase
  BY DEF Phase, QuarantinePhase, RestorePhase, RecoverPhase, UnsyncedPhase,
         QuarantineSteps, RestoreSteps, DeleteSteps, RecoverSteps
<1>3. NamesInv
  BY DEF NamesInv, QuarantineSteps
<1>4. RemovedInv /\ NoContentLost /\ RecordTellsTheTruth
  BY DEF RemovedInv, NoContentLost, RecordTellsTheTruth
<1>5. QED BY <1>1, <1>2, <1>3, <1>4 DEF IInv

\* Types and phases are kept together by every step: neither needs the
\* absence of disturbances.
LEMMA TypePhaseStep ==
    ASSUME TypeOK, Phase, [Next]_vars
    PROVE  TypeOK' /\ Phase'
<1>1. ControlType'
  BY OperationStep, PcStep, UnsyncedTypeStep DEF ControlType
<1>2. TypeOK'
  BY <1>1, FilesTypeStep, OrigTypeStep, CopiesTypeStep, SpillTypeStep,
     HistoryTypeStep DEF TypeOK, StoreType
<1>3. Phase'
  BY QuarantinePhaseStep, RestorePhaseStep, RecoverPhaseStep, UnsyncedPhaseStep
  DEF Phase
<1>4. QED BY <1>2, <1>3

\* The store's variables have their types and each operation has established,
\* at each of its steps, what the steps after it rely on; nothing others do
\* to the files can change that.
THEOREM TypeCorrect == Spec => [](TypeOK /\ Phase)
<1>1. Init => TypeOK /\ Phase
  BY InitInv DEF IInv
<1>2. TypeOK /\ Phase /\ [Next]_vars => TypeOK' /\ Phase'
  BY TypePhaseStep
<1>3. QED BY <1>1, <1>2, PTL DEF Spec

\* Records move only along the arrows of the lifecycle in record.rs, whatever
\* fails, crashes or is done to the files.
THEOREM LifecycleKept == Spec => RecordLifecycle
<1>1. TypeOK /\ Phase /\ [Next]_vars => [MovesAlongLifecycle]_vars
  BY LifecycleStep
<1>2. QED BY <1>1, TypeCorrect, PTL DEF Spec, RecordLifecycle

\* IInv is inductive when nobody writes to, swaps or reuses the inode of a
\* file the store is working on.
THEOREM Invariance ==
    ASSUME Disturbances = {}
    PROVE  Spec => []IInv
<1>1. IInv /\ [Next]_vars => IInv'
  BY TypePhaseStep, NamesStep, RemovedStep, NoContentLostStep, RecordStep
  DEF IInv
<1>2. QED BY <1>1, InitInv, PTL DEF Spec

\* "No data loss on crash", for every number of files, items, faults and
\* crashes, in the absence of disturbances.
THEOREM ContentSafe ==
    ASSUME Disturbances = {}
    PROVE  Spec => []NoContentLost
<1>1. IInv => NoContentLost
  BY DEF IInv
<1>2. QED BY <1>1, Invariance, PTL

\* What ItemState says of an item's past is true in the absence of
\* disturbances: rolled back means never removed, restored means written
\* back, deleted means asked for.
THEOREM RecordsTruthful ==
    ASSUME Disturbances = {}
    PROVE  Spec => []RecordTellsTheTruth
<1>1. IInv => RecordTellsTheTruth
  BY DEF IInv
<1>2. QED BY <1>1, Invariance, PTL

\* The store takes no name away but that of a file it has copied and
\* journalled, and a restore overwrites nothing, in the absence of
\* disturbances.
THEOREM RemovalsSafe ==
    ASSUME Disturbances = {}
    PROVE  Spec => RemovesOnlyWhatItCopied
<1>1. IInv /\ [Next]_vars => [RemovesOnlyCopies]_vars
  BY RemovesStep DEF IInv
<1>2. QED BY <1>1, Invariance, PTL DEF Spec, RemovesOnlyWhatItCopied

----------------------------------------------------------------------------
(* Changed files are left alone, and the store implements Custody.         *)

\* What CopyInv says is established by the step before and kept.
LEMMA CopyStep ==
    ASSUME TypeOK, Phase, CopyInv, [Next]_vars
    PROVE  CopyInv'
<1> USE NoFileAssumption
    DEF Goto, Return, Leave, Resume, Save, Append, AppendFails, Fault, NoFault,
        Resolve, Begin, Cleanup, UnlinkData, Stop, Outside, files, record, copies,
        log, control, history, limits, TypeOK, FilesType, StoreType, ControlType,
        HistoryType, Phase, QuarantinePhase, RestorePhase, RecoverPhase,
        UnsyncedPhase, OpFor, NoOp, Verified, QuarantineSteps, RestoreSteps,
        DeleteSteps, RecoverSteps, Fresh, CopyInv
<1>1. CASE Open BY <1>1 DEF Open
<1>2. CASE \E id \in Id : ResolvePresent(id) BY <1>2 DEF ResolvePresent
<1>3. CASE \E id \in Id : ResolveGone(id) BY <1>3 DEF ResolveGone
<1>4. CASE \E id \in Id : ResolveFailed(id) BY <1>4 DEF ResolveFailed
<1>5. CASE RecoverSave BY <1>5 DEF RecoverSave
<1>6. CASE RecoverAudit BY <1>6 DEF RecoverAudit
<1>7. CASE RecoverDone BY <1>7 DEF RecoverDone
<1>8. CASE Close BY <1>8 DEF Close
<1>9. CASE \E p \in Path : QuarantineRefused(p) BY <1>9 DEF QuarantineRefused
<1>10. CASE \E p \in Path, id \in Id,
                 e \in Content \cup {NoFile}, k \in BOOLEAN : QuarantineOpen(p, id, e, k)
  BY <1>10 DEF QuarantineOpen
<1>11. CASE QuarantineCopy BY <1>11 DEF QuarantineCopy, CopyOf, Original
<1>12. CASE QuarantinePending BY <1>12 DEF QuarantinePending
<1>13. CASE QuarantineRename BY <1>13 DEF QuarantineRename
<1>14. CASE QuarantineSyncItems BY <1>14 DEF QuarantineSyncItems, Operation
<1>15. CASE QuarantineStillSame BY <1>15 DEF QuarantineStillSame
<1>16. CASE QuarantineUnlink BY <1>16 DEF QuarantineUnlink
<1>17. CASE RollBack BY <1>17 DEF RollBack
<1>18. CASE RollBackSave BY <1>18 DEF RollBackSave
<1>19. CASE QuarantineSyncDir BY <1>19 DEF QuarantineSyncDir, Operation
<1>20. CASE QuarantineKill BY <1>20 DEF QuarantineKill
<1>21. CASE QuarantineFinal BY <1>21 DEF QuarantineFinal
<1>22. CASE QuarantineAudit BY <1>22 DEF QuarantineAudit
<1>23. CASE Report BY <1>23 DEF Report
<1>24. CASE \E a \in {"restore", "delete"}, id \in Id : Refuse(a, id)
  BY <1>24 DEF Refuse
<1>25. CASE \E id \in Id, p \in Path : Restore(id, p) BY <1>25 DEF Restore
<1>26. CASE \E id \in Id : Delete(id) BY <1>26 DEF Delete
<1>27. CASE RestoreCreate BY <1>27 DEF RestoreCreate
<1>28. CASE RestoreDecode BY <1>28 DEF RestoreDecode
<1>29. CASE RestoreRename BY <1>29 DEF RestoreRename, Operation
<1>30. CASE RestoreLinked BY <1>30 DEF RestoreLinked
<1>31. CASE RestoreSyncDir BY <1>31 DEF RestoreSyncDir, Operation
<1>32. CASE RestoreUnlinkData BY <1>32 DEF RestoreUnlinkData
<1>33. CASE RestoreSave BY <1>33 DEF RestoreSave, Operation
<1>34. CASE DeleteUnlink BY <1>34 DEF DeleteUnlink
<1>35. CASE DeleteSync BY <1>35 DEF DeleteSync, Operation
<1>36. CASE DeleteSave BY <1>36 DEF DeleteSave
<1>37. CASE Kill BY <1>37 DEF Kill
<1>38. CASE PowerLoss BY <1>38 DEF PowerLoss
<1>39. CASE \E p \in Path, c \in Content : EnvCreate(p, c) BY <1>39 DEF EnvCreate
<1>40. CASE \E p \in Path : EnvRemove(p) BY <1>40 DEF EnvRemove
<1>41. CASE \E p, q \in Path : EnvRename(p, q) BY <1>41 DEF EnvRename
<1>42. CASE \E i \in Inode, c \in Content : EnvWrite(i, c) BY <1>42 DEF EnvWrite
<1>43. CASE UNCHANGED vars BY <1>43 DEF vars
<1> HIDE DEF Goto, Return, Leave, Resume, Save, Append, AppendFails, Fault, NoFault,
        Resolve, Begin, Cleanup, UnlinkData, Stop, Outside, files, record, copies,
        log, control, history, limits, TypeOK, FilesType, StoreType, ControlType,
        HistoryType, Phase, QuarantinePhase, RestorePhase, RecoverPhase,
        UnsyncedPhase, OpFor, NoOp, Verified, QuarantineSteps, RestoreSteps,
        DeleteSteps, RecoverSteps, Fresh, CopyInv
<1>44. QED
  BY <1>1, <1>2, <1>3, <1>4, <1>5, <1>6, <1>7, <1>8, <1>9, <1>10, <1>11, <1>12,
     <1>13, <1>14, <1>15, <1>16, <1>17, <1>18, <1>19, <1>20, <1>21, <1>22, <1>23,
     <1>24, <1>25, <1>26, <1>27, <1>28, <1>29, <1>30, <1>31, <1>32, <1>33, <1>34,
     <1>35, <1>36, <1>37, <1>38, <1>39, <1>40, <1>41, <1>42, <1>43
  DEF Next, Recover, Quarantine, RestoreOrDelete, Request, Environment

----------------------------------------------------------------------------
(* The steps of Custody, in terms of the store's variables.                *)

\* The content of item id stays where it is.
SamePlace(id) ==
    /\ (removed[id] = NoFile)' <=> removed[id] = NoFile
    /\ Verified(id)' <=> Verified(id)
    /\ id \in back' <=> id \in back

Still(but) == \A id \in Id \ but : SamePlace(id)

\* When a record may be written, as Custody has it.
MayRecord(id, s) ==
    \/ st[id] = "absent" /\ s = "pending"
    \/ st[id] = "pending" /\ s = "quarantined" /\ Verified(id)
    \/ st[id] = "pending" /\ s = "rolled_back" /\ removed[id] = NoFile
    \/ st[id] = "pending" /\ s = "failed"
    \/ /\ st[id] = "quarantined" /\ ~Verified(id)
       /\ \/ s = "restored" /\ id \in back
          \/ s = "deleted" /\ id \in purged

\* Two items' places are the same sets when SamePlace holds of them.
LEMMA SamePlaces ==
    ASSUME NEW id \in Id, SamePlace(id)
    PROVE  PlaceOf(id)' = PlaceOf(id)
BY DEF SamePlace, PlaceOf

\* A step that changes no record and moves nothing is a stuttering step.
LEMMA StutterStep ==
    ASSUME Still({}), UNCHANGED <<st, purged>>
    PROVE  UNCHANGED Promise!vars
<1>1. \A id \in Id : PlaceOf(id)' = PlaceOf(id)
  BY SamePlaces DEF Still
<1>2. QED
  BY <1>1 DEF Promise!vars

\* A step that writes one item's record.
LEMMA RecordingStep ==
    ASSUME NEW id \in Id, NEW s, MayRecord(id, s), Still({}), UNCHANGED purged,
           st' = [st EXCEPT ![id] = s]
    PROVE  Promise!Next
<1>1. \A i \in Id : PlaceOf(i)' = PlaceOf(i)
  BY SamePlaces DEF Still
<1>2. Promise!Record(id, s)
  BY <1>1 DEF Promise!Record
<1>3. Promise!Begin(id) \/ Promise!Keep(id) \/ Promise!RollBack(id)
        \/ Promise!GiveUp(id) \/ Promise!Close(id)
  BY <1>2 DEF MayRecord, PlaceOf, Promise!Begin, Promise!Keep, Promise!RollBack,
              Promise!GiveUp, Promise!Close
<1>4. QED
  BY <1>3 DEF Promise!Next

\* A step that changes the place of one item to the set given.
LEMMA MoveStep ==
    ASSUME NEW id \in Id, NEW places, Still({id}), UNCHANGED <<st, purged>>,
           PlaceOf(id)' = places
    PROVE  Promise!Move(id, places)
<1>1. \A i \in Id \ {id} : PlaceOf(i)' = PlaceOf(i)
  BY SamePlaces DEF Still
<1>2. QED
  BY <1>1 DEF Promise!Move

\* The copy of a pending item is committed.
LEMMA DepositStep ==
    ASSUME NEW id \in Id, Still({id}), UNCHANGED <<st, purged>>, st[id] = "pending",
           Verified(id)', removed'[id] = removed[id], id \in back' <=> id \in back
    PROVE  Promise!Next
<1>1. PlaceOf(id)' = PlaceOf(id) \cup {"store"}
  BY DEF PlaceOf
<1>2. Promise!Deposit(id)
  BY <1>1, MoveStep DEF Promise!Deposit
<1>3. QED
  BY <1>2 DEF Promise!Next

\* The original of a pending item whose copy is committed is removed.
LEMMA TakeStep ==
    ASSUME NEW id \in Id, Still({id}), UNCHANGED <<st, purged>>, st[id] = "pending",
           Verified(id), Verified(id)', removed'[id] # NoFile,
           id \in back' <=> id \in back
    PROVE  Promise!Next
<1>1. PlaceOf(id)' = PlaceOf(id) \ {"home"} /\ "store" \in PlaceOf(id)
  BY DEF PlaceOf
<1>2. Promise!Take(id)
  BY <1>1, MoveStep DEF Promise!Take
<1>3. QED
  BY <1>2 DEF Promise!Next

\* The content of a quarantined item is written back.
LEMMA ReturnStep ==
    ASSUME NEW id \in Id, Still({id}), UNCHANGED <<st, purged>>, st[id] = "quarantined",
           Verified(id), Verified(id)', removed'[id] = removed[id], id \in back'
    PROVE  Promise!Next
<1>1. PlaceOf(id)' = PlaceOf(id) \cup {"back"} /\ "store" \in PlaceOf(id)
  BY DEF PlaceOf
<1>2. Promise!Return(id)
  BY <1>1, MoveStep DEF Promise!Return
<1>3. QED
  BY <1>2 DEF Promise!Next

\* The copy is dropped, of an item that is at home, back or to be deleted.
LEMMA DiscardStep ==
    ASSUME NEW id \in Id, Still({id}), UNCHANGED <<st, purged>>,
           \/ st[id] = "pending" /\ removed[id] = NoFile
           \/ st[id] = "quarantined" /\ (id \in back \/ id \in purged),
           ~Verified(id)', removed'[id] = removed[id], id \in back' <=> id \in back
    PROVE  Promise!Next
<1>1. /\ PlaceOf(id)' = PlaceOf(id) \ {"store"}
      /\ removed[id] = NoFile => "home" \in PlaceOf(id)
      /\ id \in back => "back" \in PlaceOf(id)
  BY DEF PlaceOf
<1>2. Promise!Discard(id)
  BY <1>1, MoveStep DEF Promise!Discard
<1>3. QED
  BY <1>2 DEF Promise!Next

\* A power loss undoes one change, and the content is still at home or in the
\* store.
LEMMA RevertStep ==
    ASSUME NEW id \in Id, Still({id}), UNCHANGED <<st, purged>>,
           removed'[id] = NoFile \/ Verified(id)',
           \/ (Verified(id)' <=> Verified(id)) /\ (id \in back' <=> id \in back)
           \/ removed'[id] = removed[id] /\ (id \in back' <=> id \in back)
           \/ removed'[id] = removed[id] /\ (Verified(id)' <=> Verified(id))
    PROVE  Promise!Next
<1>1. PICK x \in {"home", "store", "back"} :
        PlaceOf(id)' = PlaceOf(id) \cup {x} \/ PlaceOf(id)' = PlaceOf(id) \ {x}
  <2>1. CASE (Verified(id)' <=> Verified(id)) /\ (id \in back' <=> id \in back)
    <3>1. \/ PlaceOf(id)' = PlaceOf(id) \cup {"home"}
          \/ PlaceOf(id)' = PlaceOf(id) \ {"home"}
      BY <2>1 DEF PlaceOf
    <3>2. QED
      BY <3>1
  <2>2. CASE removed'[id] = removed[id] /\ (id \in back' <=> id \in back)
    <3>1. \/ PlaceOf(id)' = PlaceOf(id) \cup {"store"}
          \/ PlaceOf(id)' = PlaceOf(id) \ {"store"}
      BY <2>2 DEF PlaceOf
    <3>2. QED
      BY <3>1
  <2>3. CASE removed'[id] = removed[id] /\ (Verified(id)' <=> Verified(id))
    <3>1. \/ PlaceOf(id)' = PlaceOf(id) \cup {"back"}
          \/ PlaceOf(id)' = PlaceOf(id) \ {"back"}
      BY <2>3 DEF PlaceOf
    <3>2. QED
      BY <3>1
  <2>4. QED
    BY <2>1, <2>2, <2>3
<1>2. PlaceOf(id)' \cap {"home", "store"} # {}
  BY DEF PlaceOf
<1>3. Promise!Move(id, PlaceOf(id)')
  BY MoveStep
<1>4. Promise!Revert(id)
  BY <1>1, <1>2, <1>3 DEF Promise!Revert
<1>5. QED
  BY <1>4 DEF Promise!Next

\* The deletion of a quarantined item is asked for.
LEMMA AskStep ==
    ASSUME NEW id \in Id, Still({}), UNCHANGED st, st[id] = "quarantined",
           purged' = purged \cup {id}
    PROVE  Promise!Next
<1>1. \A i \in Id : PlaceOf(i)' = PlaceOf(i)
  BY SamePlaces DEF Still
<1>2. Promise!Ask(id)
  BY <1>1 DEF Promise!Ask
<1>3. QED
  BY <1>2 DEF Promise!Next

\* Every step of the store is a step of Custody or changes nothing it speaks of.
LEMMA SimulationStep ==
    ASSUME Disturbances = {}, IInv, CopyInv, [Next]_vars
    PROVE  Promise!Next \/ UNCHANGED Promise!vars
<1> USE NoFileAssumption
    DEF Goto, Return, Leave, Resume, Save, Append, AppendFails, Fault, NoFault,
        Resolve, Begin, Cleanup, UnlinkData, Stop, Outside, files, record, copies,
        log, control, history, limits, TypeOK, FilesType, StoreType, ControlType,
        HistoryType, Phase, QuarantinePhase, RestorePhase, RecoverPhase,
        UnsyncedPhase, NamesInv, RemovedInv, OpFor, NoOp, Verified, QuarantineSteps,
        RestoreSteps, DeleteSteps, RecoverSteps, OriginalPresent, CopyInv, Still,
        SamePlace, MayRecord, IInv
<1>1. CASE Open
  <2>1. Still({}) /\ UNCHANGED <<st, purged>>
    BY <1>1 DEF Open
  <2>2. QED
    BY <2>1, StutterStep
<1>2. CASE \E id \in Id : ResolvePresent(id)
  <2>1. PICK id \in Id : ResolvePresent(id)
    BY <1>2
  <2>2. \/ Still({}) /\ UNCHANGED <<st, purged>>
        \/ /\ Still({id}) /\ UNCHANGED <<st, purged>>
           /\ st[id] = "pending" /\ removed[id] = NoFile
           /\ ~Verified(id)'
           /\ removed'[id] = removed[id]
           /\ id \in back' <=> id \in back
    BY <2>1 DEF ResolvePresent
  <2>3. QED
    BY <2>2, StutterStep, DiscardStep
<1>3. CASE \E id \in Id : ResolveGone(id)
  <2>1. Still({}) /\ UNCHANGED <<st, purged>>
    BY <1>3 DEF ResolveGone
  <2>2. QED
    BY <2>1, StutterStep
<1>4. CASE \E id \in Id : ResolveFailed(id)
  <2>1. Still({}) /\ UNCHANGED <<st, purged>>
    BY <1>4 DEF ResolveFailed
  <2>2. QED
    BY <2>1, StutterStep
<1>5. CASE RecoverSave
  <2>1. \/ Still({}) /\ UNCHANGED <<st, purged>>
        \/ /\ Still({}) /\ UNCHANGED purged /\ op.id \in Id /\ MayRecord(op.id, op.result)
           /\ st' = [st EXCEPT ![op.id] = op.result]
    BY <1>5 DEF RecoverSave
  <2>2. QED
    BY <2>1, StutterStep, RecordingStep
<1>6. CASE RecoverAudit
  <2>1. Still({}) /\ UNCHANGED <<st, purged>>
    BY <1>6 DEF RecoverAudit
  <2>2. QED
    BY <2>1, StutterStep
<1>7. CASE RecoverDone
  <2>1. Still({}) /\ UNCHANGED <<st, purged>>
    BY <1>7 DEF RecoverDone
  <2>2. QED
    BY <2>1, StutterStep
<1>8. CASE Close
  <2>1. Still({}) /\ UNCHANGED <<st, purged>>
    BY <1>8 DEF Close
  <2>2. QED
    BY <2>1, StutterStep
<1>9. CASE \E p \in Path : QuarantineRefused(p)
  <2>1. Still({}) /\ UNCHANGED <<st, purged>>
    BY <1>9 DEF QuarantineRefused
  <2>2. QED
    BY <2>1, StutterStep
<1>10. CASE \E p \in Path, id \in Id,
                 e \in Content \cup {NoFile}, k \in BOOLEAN : QuarantineOpen(p, id, e, k)
  <2>1. Still({}) /\ UNCHANGED <<st, purged>>
    BY <1>10 DEF QuarantineOpen, Fresh
  <2>2. QED
    BY <2>1, StutterStep
<1>11. CASE QuarantineCopy
  <2>1. Still({}) /\ UNCHANGED <<st, purged>>
    BY <1>11 DEF QuarantineCopy, CopyOf, Operation
  <2>2. QED
    BY <2>1, StutterStep
<1>12. CASE QuarantinePending
  <2>1. \/ Still({}) /\ UNCHANGED <<st, purged>>
        \/ /\ Still({}) /\ UNCHANGED purged /\ op.id \in Id /\ MayRecord(op.id, "pending")
           /\ st' = [st EXCEPT ![op.id] = "pending"]
    BY <1>12 DEF QuarantinePending
  <2>2. QED
    BY <2>1, StutterStep, RecordingStep
<1>13. CASE QuarantineRename
  <2>1. PICK id : id = op.id
    OBVIOUS
  <2>2. \/ Still({}) /\ UNCHANGED <<st, purged>>
        \/ /\ id \in Id /\ Still({id}) /\ UNCHANGED <<st, purged>>
           /\ st[id] = "pending" /\ Verified(id)'
           /\ removed'[id] = removed[id]
           /\ id \in back' <=> id \in back
    BY <1>13, <2>1 DEF QuarantineRename
  <2>3. QED
    BY <2>2, StutterStep, DepositStep
<1>14. CASE QuarantineSyncItems
  <2>1. Still({}) /\ UNCHANGED <<st, purged>>
    BY <1>14 DEF QuarantineSyncItems, Operation
  <2>2. QED
    BY <2>1, StutterStep
<1>15. CASE QuarantineStillSame
  <2>1. Still({}) /\ UNCHANGED <<st, purged>>
    BY <1>15 DEF QuarantineStillSame
  <2>2. QED
    BY <2>1, StutterStep
<1>16. CASE QuarantineUnlink
  <2>1. PICK id : id = op.id
    OBVIOUS
  <2>2. \/ Still({}) /\ UNCHANGED <<st, purged>>
        \/ /\ id \in Id /\ Still({id}) /\ UNCHANGED <<st, purged>>
           /\ st[id] = "pending" /\ Verified(id) /\ Verified(id)'
           /\ removed'[id] # NoFile
           /\ id \in back' <=> id \in back
    BY <1>16, <2>1 DEF QuarantineUnlink
  <2>3. QED
    BY <2>2, StutterStep, TakeStep
<1>17. CASE RollBack
  <2>1. PICK id : id = op.id
    OBVIOUS
  <2>2. \/ Still({}) /\ UNCHANGED <<st, purged>>
        \/ /\ id \in Id /\ Still({id}) /\ UNCHANGED <<st, purged>>
           /\ st[id] = "pending" /\ removed[id] = NoFile
           /\ ~Verified(id)'
           /\ removed'[id] = removed[id]
           /\ id \in back' <=> id \in back
    BY <1>17, <2>1 DEF RollBack
  <2>3. QED
    BY <2>2, StutterStep, DiscardStep
<1>18. CASE RollBackSave
  <2>1. \/ Still({}) /\ UNCHANGED <<st, purged>>
        \/ /\ Still({}) /\ UNCHANGED purged /\ op.id \in Id /\ MayRecord(op.id, "rolled_back")
           /\ st' = [st EXCEPT ![op.id] = "rolled_back"]
    BY <1>18 DEF RollBackSave
  <2>2. QED
    BY <2>1, StutterStep, RecordingStep
<1>19. CASE QuarantineSyncDir
  <2>1. Still({}) /\ UNCHANGED <<st, purged>>
    BY <1>19 DEF QuarantineSyncDir, Operation
  <2>2. QED
    BY <2>1, StutterStep
<1>20. CASE QuarantineKill
  <2>1. Still({}) /\ UNCHANGED <<st, purged>>
    BY <1>20 DEF QuarantineKill
  <2>2. QED
    BY <2>1, StutterStep
<1>21. CASE QuarantineFinal
  <2>1. \/ Still({}) /\ UNCHANGED <<st, purged>>
        \/ /\ Still({}) /\ UNCHANGED purged /\ op.id \in Id /\ MayRecord(op.id, "quarantined")
           /\ st' = [st EXCEPT ![op.id] = "quarantined"]
    BY <1>21 DEF QuarantineFinal
  <2>2. QED
    BY <2>1, StutterStep, RecordingStep
<1>22. CASE QuarantineAudit
  <2>1. Still({}) /\ UNCHANGED <<st, purged>>
    BY <1>22 DEF QuarantineAudit
  <2>2. QED
    BY <2>1, StutterStep
<1>23. CASE Report
  <2>1. Still({}) /\ UNCHANGED <<st, purged>>
    BY <1>23 DEF Report
  <2>2. QED
    BY <2>1, StutterStep
<1>24. CASE \E a \in {"restore", "delete"}, id \in Id : Refuse(a, id)
  <2>1. Still({}) /\ UNCHANGED <<st, purged>>
    BY <1>24 DEF Refuse
  <2>2. QED
    BY <2>1, StutterStep
<1>25. CASE \E id \in Id, p \in Path : Restore(id, p)
  <2>1. Still({}) /\ UNCHANGED <<st, purged>>
    BY <1>25 DEF Restore
  <2>2. QED
    BY <2>1, StutterStep
<1>26. CASE \E id \in Id : Delete(id)
  <2>1. PICK id \in Id : Delete(id)
    BY <1>26
  <2>2. Still({}) /\ UNCHANGED st /\ st[id] = "quarantined" /\ purged' = purged \cup {id}
    BY <2>1 DEF Delete
  <2>3. QED
    BY <2>2, AskStep
<1>27. CASE RestoreCreate
  <2>1. Still({}) /\ UNCHANGED <<st, purged>>
    BY <1>27 DEF RestoreCreate
  <2>2. QED
    BY <2>1, StutterStep
<1>28. CASE RestoreDecode
  <2>1. Still({}) /\ UNCHANGED <<st, purged>>
    BY <1>28 DEF RestoreDecode
  <2>2. QED
    BY <2>1, StutterStep
<1>29. CASE RestoreRename
  <2>1. PICK id : id = op.id
    OBVIOUS
  <2>2. \/ Still({}) /\ UNCHANGED <<st, purged>>
        \/ /\ id \in Id /\ Still({id}) /\ UNCHANGED <<st, purged>>
           /\ st[id] = "quarantined" /\ Verified(id) /\ Verified(id)'
           /\ removed'[id] = removed[id]
           /\ id \in back'
    BY <1>29, <2>1 DEF RestoreRename
  <2>3. QED
    BY <2>2, StutterStep, ReturnStep
<1>30. CASE RestoreLinked
  <2>1. Still({}) /\ UNCHANGED <<st, purged>>
    BY <1>30 DEF RestoreLinked
  <2>2. QED
    BY <2>1, StutterStep
<1>31. CASE RestoreSyncDir
  <2>1. Still({}) /\ UNCHANGED <<st, purged>>
    BY <1>31 DEF RestoreSyncDir, Operation
  <2>2. QED
    BY <2>1, StutterStep
<1>32. CASE RestoreUnlinkData
  <2>1. PICK id : id = op.id
    OBVIOUS
  <2>2. \/ Still({}) /\ UNCHANGED <<st, purged>>
        \/ /\ id \in Id /\ Still({id}) /\ UNCHANGED <<st, purged>>
           /\ st[id] = "quarantined" /\ id \in back
           /\ ~Verified(id)'
           /\ removed'[id] = removed[id]
           /\ id \in back' <=> id \in back
    BY <1>32, <2>1 DEF RestoreUnlinkData
  <2>3. QED
    BY <2>2, StutterStep, DiscardStep
<1>33. CASE RestoreSave
  <2>1. \/ Still({}) /\ UNCHANGED <<st, purged>>
        \/ /\ Still({}) /\ UNCHANGED purged /\ op.id \in Id /\ MayRecord(op.id, "restored")
           /\ st' = [st EXCEPT ![op.id] = "restored"]
    BY <1>33 DEF RestoreSave
  <2>2. QED
    BY <2>1, StutterStep, RecordingStep
<1>34. CASE DeleteUnlink
  <2>1. PICK id : id = op.id
    OBVIOUS
  <2>2. \/ Still({}) /\ UNCHANGED <<st, purged>>
        \/ /\ id \in Id /\ Still({id}) /\ UNCHANGED <<st, purged>>
           /\ st[id] = "quarantined" /\ id \in purged
           /\ ~Verified(id)'
           /\ removed'[id] = removed[id]
           /\ id \in back' <=> id \in back
    BY <1>34, <2>1 DEF DeleteUnlink
  <2>3. QED
    BY <2>2, StutterStep, DiscardStep
<1>35. CASE DeleteSync
  <2>1. Still({}) /\ UNCHANGED <<st, purged>>
    BY <1>35 DEF DeleteSync, Operation
  <2>2. QED
    BY <2>1, StutterStep
<1>36. CASE DeleteSave
  <2>1. \/ Still({}) /\ UNCHANGED <<st, purged>>
        \/ /\ Still({}) /\ UNCHANGED purged /\ op.id \in Id /\ MayRecord(op.id, "deleted")
           /\ st' = [st EXCEPT ![op.id] = "deleted"]
    BY <1>36 DEF DeleteSave
  <2>2. QED
    BY <2>1, StutterStep, RecordingStep
<1>37. CASE Kill
  <2>1. Still({}) /\ UNCHANGED <<st, purged>>
    BY <1>37 DEF Kill
  <2>2. QED
    BY <2>1, StutterStep
<1>38. CASE PowerLoss
  <2>1. PICK id : id = op.id
    OBVIOUS
  <2>2. PICK lost \in SUBSET unsynced :
          /\ removed' = IF "original" \in lost THEN [removed EXCEPT ![id] = NoFile] ELSE removed
          /\ back' = IF "target" \in lost THEN back \ {id} ELSE back
          /\ data' = IF "copy" \in lost THEN [data EXCEPT ![id] = NoFile]
                     ELSE IF "data" \in lost THEN [data EXCEPT ![id] = orig[id].sha]
                     ELSE data
    BY <1>38, <2>1 DEF PowerLoss
  <2>3. UNCHANGED <<st, orig, purged>>
    BY <1>38 DEF PowerLoss
  <2>4. lost # {} => id \in Id
    <3>1. SUFFICES ASSUME NEW x \in lost PROVE id \in Id
      OBVIOUS
    <3>2. x \in unsynced /\ x \in {"copy", "original", "target", "data"}
      BY <2>2
    <3>3. QED
      BY <2>1, <3>2
  <2>5. CASE lost = {}
    BY <2>2, <2>3, <2>5, StutterStep
  <2>6. CASE "original" \in lost
    <3>1. "copy" \notin lost /\ "data" \notin lost /\ "target" \notin lost
      BY <2>2, <2>6
    <3>2. QED
      BY <2>2, <2>3, <2>4, <2>6, <3>1, RevertStep
  <2>7. CASE "target" \in lost
    <3>1. /\ "copy" \notin lost /\ "data" \notin lost /\ "original" \notin lost
          /\ Verified(id)
      BY <2>1, <2>2, <2>7
    <3>2. QED
      BY <2>2, <2>3, <2>4, <2>7, <3>1, RevertStep
  <2>8. CASE "copy" \in lost
    <3>1. /\ "target" \notin lost /\ "data" \notin lost /\ "original" \notin lost
          /\ removed[id] = NoFile
      BY <2>1, <2>2, <2>8
    <3>2. QED
      BY <2>2, <2>3, <2>4, <2>8, <3>1, RevertStep
  <2>9. CASE "data" \in lost
    <3>1. "target" \notin lost /\ "copy" \notin lost /\ "original" \notin lost
      BY <2>2, <2>9
    <3>2. CASE orig[id].sha = NoFile
      BY <2>2, <2>3, <2>4, <2>9, <3>1, <3>2, StutterStep
    <3>3. CASE orig[id].sha # NoFile
      BY <2>2, <2>3, <2>4, <2>9, <3>1, <3>3, RevertStep
    <3>4. QED
      BY <3>2, <3>3
  <2>10. QED
    BY <2>2, <2>5, <2>6, <2>7, <2>8, <2>9
<1>39. CASE \E p \in Path, c \in Content : EnvCreate(p, c)
  <2>1. Still({}) /\ UNCHANGED <<st, purged>>
    BY <1>39 DEF EnvCreate
  <2>2. QED
    BY <2>1, StutterStep
<1>40. CASE \E p \in Path : EnvRemove(p)
  <2>1. Still({}) /\ UNCHANGED <<st, purged>>
    BY <1>40 DEF EnvRemove
  <2>2. QED
    BY <2>1, StutterStep
<1>41. CASE \E p, q \in Path : EnvRename(p, q)
  <2>1. Still({}) /\ UNCHANGED <<st, purged>>
    BY <1>41 DEF EnvRename
  <2>2. QED
    BY <2>1, StutterStep
<1>42. CASE \E i \in Inode, c \in Content : EnvWrite(i, c)
  <2>1. Still({}) /\ UNCHANGED <<st, purged>>
    BY <1>42 DEF EnvWrite
  <2>2. QED
    BY <2>1, StutterStep
<1>43. CASE UNCHANGED vars
  <2>1. Still({}) /\ UNCHANGED <<st, purged>>
    BY <1>43 DEF vars
  <2>2. QED
    BY <2>1, StutterStep
<1> HIDE DEF Goto, Return, Leave, Resume, Save, Append, AppendFails, Fault, NoFault,
        Resolve, Begin, Cleanup, UnlinkData, Stop, Outside, files, record, copies,
        log, control, history, limits, TypeOK, FilesType, StoreType, ControlType,
        HistoryType, Phase, QuarantinePhase, RestorePhase, RecoverPhase,
        UnsyncedPhase, NamesInv, RemovedInv, OpFor, NoOp, Verified, QuarantineSteps,
        RestoreSteps, DeleteSteps, RecoverSteps, OriginalPresent, CopyInv, Still,
        SamePlace, MayRecord, IInv
<1>44. QED
  BY <1>1, <1>2, <1>3, <1>4, <1>5, <1>6, <1>7, <1>8, <1>9, <1>10, <1>11, <1>12,
     <1>13, <1>14, <1>15, <1>16, <1>17, <1>18, <1>19, <1>20, <1>21, <1>22, <1>23,
     <1>24, <1>25, <1>26, <1>27, <1>28, <1>29, <1>30, <1>31, <1>32, <1>33, <1>34,
     <1>35, <1>36, <1>37, <1>38, <1>39, <1>40, <1>41, <1>42, <1>43
  DEF Next, Recover, Quarantine, RestoreOrDelete, Request, Environment

----------------------------------------------------------------------------
(* What rests on CopyInv.                                                  *)

\* IInv and CopyInv together are inductive, in the absence of disturbances.
THEOREM CopiesKept ==
    ASSUME Disturbances = {}
    PROVE  Spec => [](IInv /\ CopyInv)
<1>1. Init => CopyInv
  BY DEF Init, CopyInv, QuarantineSteps
<1>2. IInv /\ CopyInv /\ [Next]_vars => CopyInv'
  BY CopyStep DEF IInv
<1>3. QED
  BY <1>1, <1>2, Invariance, PTL DEF Spec

\* quarantine.md: "a file that changed after the scan is left alone": what is
\* removed at the request to quarantine a hash has that hash, whoever writes,
\* renames or recreates the file until it is copied.
THEOREM ChangedLeftAlone ==
    ASSUME Disturbances = {}
    PROVE  Spec => []ChangedFileLeftAlone
<1>1. IInv /\ CopyInv => ChangedFileLeftAlone
  <2>1. SUFFICES ASSUME IInv, CopyInv, pc \in QuarantineSteps, op.expected # NoFile,
                        removed[op.id] # NoFile
                 PROVE  removed[op.id] = op.expected
    BY DEF ChangedFileLeftAlone
  <2>2. pc # "qCopy" /\ op.id \in Id /\ orig[op.id].sha = removed[op.id]
    BY <2>1 DEF IInv, RemovedInv, Phase, QuarantinePhase
  <2>3. orig[op.id].sha = op.expected
    BY <2>1, <2>2 DEF CopyInv
  <2>4. QED
    BY <2>2, <2>3
<1>2. QED
  BY <1>1, CopiesKept, PTL

\* The Linux store implements Custody: whatever fails or crashes on the way,
\* an item's content leaves its place only for the store, and the store only
\* when it is at home, was given back or was to be deleted, and its record
\* says so.
THEOREM StoreImplementsCustody ==
    ASSUME Disturbances = {}
    PROVE  Spec => ImplementsCustody
<1>1. Init => Promise!Init
  <2>1. SUFFICES ASSUME Init PROVE Promise!Init
    OBVIOUS
  <2>2. back = {} /\ \A id \in Id : removed[id] = NoFile /\ data[id] = NoFile
    BY <2>1 DEF Init
  <2>3. \A id \in Id : PlaceOf(id) = {"home"}
    BY <2>2 DEF PlaceOf, Verified
  <2>4. /\ st = [id \in Id |-> "absent"] /\ purged = {}
        /\ [id \in Id |-> PlaceOf(id)] = [id \in Id |-> {"home"}]
    BY <2>1, <2>3 DEF Init
  <2>5. QED
    BY <2>4 DEF Promise!Init
<1>2. IInv /\ CopyInv /\ [Next]_vars => [Promise!Next]_(Promise!vars)
  BY SimulationStep
<1>3. QED
  BY <1>1, <1>2, CopiesKept, PTL DEF Spec, ImplementsCustody, Promise!Spec
----------------------------------------------------------------------------
(* The audit log, and the processes that map a file.                       *)

\* The entry of a result is written after the record says so, and records do
\* not go back.
LEMMA AuditStep ==
    ASSUME TypeOK, Phase, MovesAlongLifecycle, AuditInv, [Next]_vars
    PROVE  AuditInv'
<1> USE NoFileAssumption
    DEF Goto, Return, Leave, Resume, Save, Append, AppendFails, Fault,
        NoFault, Resolve, Begin, Cleanup, UnlinkData, Stop, Outside,
        files, record, copies, log, control, history, limits,
        MovesAlongLifecycle, AuditInv, AuditNeverAhead, TypeOK,
        StoreType, ControlType, Operation, QuarantinePhase,
        RestorePhase, Phase, QuarantineSteps, RestoreSteps,
        DeleteSteps
<1>1. CASE Open BY <1>1 DEF Open
<1>2. CASE \E id \in Id : ResolvePresent(id) BY <1>2 DEF ResolvePresent
<1>3. CASE \E id \in Id : ResolveGone(id) BY <1>3 DEF ResolveGone
<1>4. CASE \E id \in Id : ResolveFailed(id) BY <1>4 DEF ResolveFailed
<1>5. CASE RecoverSave BY <1>5 DEF RecoverSave
<1>6. CASE RecoverAudit BY <1>6 DEF RecoverAudit
<1>7. CASE RecoverDone BY <1>7 DEF RecoverDone
<1>8. CASE Close BY <1>8 DEF Close
<1>9. CASE \E p \in Path : QuarantineRefused(p)
  BY <1>9 DEF QuarantineRefused, OpFor
<1>10. CASE \E p \in Path, id \in Id,
                 e \in Content \cup {NoFile}, k \in BOOLEAN : QuarantineOpen(p, id, e, k)
  BY <1>10 DEF QuarantineOpen, Fresh
<1>11. CASE QuarantineCopy BY <1>11 DEF QuarantineCopy, CopyOf
<1>12. CASE QuarantinePending BY <1>12 DEF QuarantinePending
<1>13. CASE QuarantineRename BY <1>13 DEF QuarantineRename
<1>14. CASE QuarantineSyncItems BY <1>14 DEF QuarantineSyncItems
<1>15. CASE QuarantineStillSame BY <1>15 DEF QuarantineStillSame
<1>16. CASE QuarantineUnlink BY <1>16 DEF QuarantineUnlink
<1>17. CASE RollBack BY <1>17 DEF RollBack
<1>18. CASE RollBackSave BY <1>18 DEF RollBackSave
<1>19. CASE QuarantineSyncDir BY <1>19 DEF QuarantineSyncDir
<1>20. CASE QuarantineKill BY <1>20 DEF QuarantineKill
<1>21. CASE QuarantineFinal BY <1>21 DEF QuarantineFinal
<1>22. CASE QuarantineAudit BY <1>22 DEF QuarantineAudit
<1>23. CASE Report BY <1>23 DEF Report
<1>24. CASE \E a \in {"restore", "delete"}, id \in Id : Refuse(a, id)
  BY <1>24 DEF Refuse, OpFor
<1>25. CASE \E id \in Id, p \in Path : Restore(id, p)
  BY <1>25 DEF Restore, OpFor
<1>26. CASE \E id \in Id : Delete(id) BY <1>26 DEF Delete, OpFor
<1>27. CASE RestoreCreate BY <1>27 DEF RestoreCreate
<1>28. CASE RestoreDecode BY <1>28 DEF RestoreDecode
<1>29. CASE RestoreRename BY <1>29 DEF RestoreRename
<1>30. CASE RestoreLinked BY <1>30 DEF RestoreLinked
<1>31. CASE RestoreSyncDir BY <1>31 DEF RestoreSyncDir
<1>32. CASE RestoreUnlinkData BY <1>32 DEF RestoreUnlinkData
<1>33. CASE RestoreSave BY <1>33 DEF RestoreSave
<1>34. CASE DeleteUnlink BY <1>34 DEF DeleteUnlink
<1>35. CASE DeleteSync BY <1>35 DEF DeleteSync
<1>36. CASE DeleteSave BY <1>36 DEF DeleteSave
<1>37. CASE Kill BY <1>37 DEF Kill
<1>38. CASE PowerLoss BY <1>38 DEF PowerLoss
<1>39. CASE \E p \in Path, c \in Content : EnvCreate(p, c)
  BY <1>39 DEF EnvCreate
<1>40. CASE \E p \in Path : EnvRemove(p) BY <1>40 DEF EnvRemove
<1>41. CASE \E p, q \in Path : EnvRename(p, q) BY <1>41 DEF EnvRename
<1>42. CASE \E i \in Inode, c \in Content : EnvWrite(i, c) BY <1>42 DEF EnvWrite
<1>43. CASE UNCHANGED vars BY <1>43 DEF vars
<1> HIDE DEF Goto, Return, Leave, Resume, Save, Append, AppendFails, Fault,
        NoFault, Resolve, Begin, Cleanup, UnlinkData, Stop, Outside,
        files, record, copies, log, control, history, limits,
        MovesAlongLifecycle, AuditInv, AuditNeverAhead, TypeOK,
        StoreType, ControlType, Operation, QuarantinePhase,
        RestorePhase, Phase, QuarantineSteps, RestoreSteps,
        DeleteSteps
<1>44. QED
  BY <1>1, <1>2, <1>3, <1>4, <1>5, <1>6, <1>7, <1>8, <1>9, <1>10, <1>11,
        <1>12, <1>13, <1>14, <1>15, <1>16, <1>17, <1>18, <1>19, <1>20,
        <1>21, <1>22, <1>23, <1>24, <1>25, <1>26, <1>27, <1>28, <1>29,
        <1>30, <1>31, <1>32, <1>33, <1>34, <1>35, <1>36, <1>37, <1>38,
        <1>39, <1>40, <1>41, <1>42, <1>43
  DEF Next, Recover, Quarantine, RestoreOrDelete, Request, Environment

\* A kill follows the removal, and its removal is synced.
LEMMA KilledStep ==
    ASSUME Disturbances = {}, TypeOK, Phase, RemovedInv, KilledInv, [Next]_vars
    PROVE  KilledInv'
<1> USE NoFileAssumption
    DEF Goto, Return, Leave, Resume, Save, Append, AppendFails, Fault,
        NoFault, Resolve, Begin, Cleanup, UnlinkData, Stop, Outside,
        files, record, copies, log, control, history, limits,
        KilledInv, TypeOK, FilesType, StoreType, ControlType,
        Operation, HistoryType, QuarantinePhase, UnsyncedPhase, Phase,
        RemovedInv, QuarantineSteps
<1>1. CASE Open BY <1>1 DEF Open
<1>2. CASE \E id \in Id : ResolvePresent(id) BY <1>2 DEF ResolvePresent
<1>3. CASE \E id \in Id : ResolveGone(id) BY <1>3 DEF ResolveGone
<1>4. CASE \E id \in Id : ResolveFailed(id) BY <1>4 DEF ResolveFailed
<1>5. CASE RecoverSave BY <1>5 DEF RecoverSave
<1>6. CASE RecoverAudit BY <1>6 DEF RecoverAudit
<1>7. CASE RecoverDone BY <1>7 DEF RecoverDone
<1>8. CASE Close BY <1>8 DEF Close
<1>9. CASE \E p \in Path : QuarantineRefused(p)
  BY <1>9 DEF QuarantineRefused, OpFor
<1>10. CASE \E p \in Path, id \in Id,
                 e \in Content \cup {NoFile}, k \in BOOLEAN : QuarantineOpen(p, id, e, k)
  BY <1>10 DEF QuarantineOpen, Fresh
<1>11. CASE QuarantineCopy BY <1>11 DEF QuarantineCopy, CopyOf
<1>12. CASE QuarantinePending BY <1>12 DEF QuarantinePending
<1>13. CASE QuarantineRename BY <1>13 DEF QuarantineRename
<1>14. CASE QuarantineSyncItems BY <1>14 DEF QuarantineSyncItems
<1>15. CASE QuarantineStillSame BY <1>15 DEF QuarantineStillSame
<1>16. CASE QuarantineUnlink
  <2>1. /\ pc = "qUnlink" /\ op.id \in Id /\ removed[op.id] = NoFile
        /\ UNCHANGED <<proc, orig, op>>
    BY <1>16 DEF QuarantineUnlink
  <2>2. CASE UNCHANGED <<removed, unsynced>> /\ pc' = "qRollBack"
    BY <2>1, <2>2
  <2>3. CASE \E c \in Content : removed' = [removed EXCEPT ![op.id] = c]
    <3>1. /\ removed'[op.id] # NoFile
          /\ \A id \in Id \ {op.id} : removed'[id] = removed[id]
      BY <2>1, <2>3
    <3>2. \A id \in Id : removed[id] # NoFile => removed'[id] # NoFile /\ id # op.id
      BY <2>1, <3>1
    <3>3. ASSUME NEW i \in Inode, proc[i] = "killed"
          PROVE  \E id \in Id : orig[id].ino = i /\ removed'[id] # NoFile /\ id # op.id
      <4>1. PICK id \in Id :
              /\ orig[id].ino = i /\ removed[id] # NoFile
              /\ "original" \in unsynced => id # op.id
        BY <3>3
      <4>2. QED BY <3>2, <4>1
    <3>4. QED BY <2>1, <3>1, <3>3
  <2>4. name[op.path] # NoFile => body[name[op.path]] \in Content
    BY <2>1
  <2>5. QED BY <1>16, <2>2, <2>3, <2>4 DEF QuarantineUnlink
<1>17. CASE RollBack BY <1>17 DEF RollBack
<1>18. CASE RollBackSave BY <1>18 DEF RollBackSave
<1>19. CASE QuarantineSyncDir BY <1>19 DEF QuarantineSyncDir
<1>20. CASE QuarantineKill BY <1>20 DEF QuarantineKill
<1>21. CASE QuarantineFinal BY <1>21 DEF QuarantineFinal
<1>22. CASE QuarantineAudit BY <1>22 DEF QuarantineAudit
<1>23. CASE Report BY <1>23 DEF Report
<1>24. CASE \E a \in {"restore", "delete"}, id \in Id : Refuse(a, id)
  BY <1>24 DEF Refuse, OpFor
<1>25. CASE \E id \in Id, p \in Path : Restore(id, p)
  BY <1>25 DEF Restore, OpFor
<1>26. CASE \E id \in Id : Delete(id) BY <1>26 DEF Delete, OpFor
<1>27. CASE RestoreCreate BY <1>27 DEF RestoreCreate
<1>28. CASE RestoreDecode BY <1>28 DEF RestoreDecode
<1>29. CASE RestoreRename BY <1>29 DEF RestoreRename
<1>30. CASE RestoreLinked BY <1>30 DEF RestoreLinked
<1>31. CASE RestoreSyncDir BY <1>31 DEF RestoreSyncDir
<1>32. CASE RestoreUnlinkData BY <1>32 DEF RestoreUnlinkData
<1>33. CASE RestoreSave BY <1>33 DEF RestoreSave
<1>34. CASE DeleteUnlink BY <1>34 DEF DeleteUnlink
<1>35. CASE DeleteSync BY <1>35 DEF DeleteSync
<1>36. CASE DeleteSave BY <1>36 DEF DeleteSave
<1>37. CASE Kill BY <1>37 DEF Kill
<1>38. CASE PowerLoss BY <1>38 DEF PowerLoss
<1>39. CASE \E p \in Path, c \in Content : EnvCreate(p, c)
  BY <1>39 DEF EnvCreate
<1>40. CASE \E p \in Path : EnvRemove(p) BY <1>40 DEF EnvRemove
<1>41. CASE \E p, q \in Path : EnvRename(p, q) BY <1>41 DEF EnvRename
<1>42. CASE \E i \in Inode, c \in Content : EnvWrite(i, c) BY <1>42 DEF EnvWrite
<1>43. CASE UNCHANGED vars BY <1>43 DEF vars
<1> HIDE DEF Goto, Return, Leave, Resume, Save, Append, AppendFails, Fault,
        NoFault, Resolve, Begin, Cleanup, UnlinkData, Stop, Outside,
        files, record, copies, log, control, history, limits,
        KilledInv, TypeOK, FilesType, StoreType, ControlType,
        Operation, HistoryType, QuarantinePhase, UnsyncedPhase, Phase,
        RemovedInv, QuarantineSteps
<1>44. QED
  BY <1>1, <1>2, <1>3, <1>4, <1>5, <1>6, <1>7, <1>8, <1>9, <1>10, <1>11,
        <1>12, <1>13, <1>14, <1>15, <1>16, <1>17, <1>18, <1>19, <1>20,
        <1>21, <1>22, <1>23, <1>24, <1>25, <1>26, <1>27, <1>28, <1>29,
        <1>30, <1>31, <1>32, <1>33, <1>34, <1>35, <1>36, <1>37, <1>38,
        <1>39, <1>40, <1>41, <1>42, <1>43
  DEF Next, Recover, Quarantine, RestoreOrDelete, Request, Environment

\* Each way out of a quarantine resumes or kills what it paused.
LEMMA PausedStep ==
    ASSUME TypeOK, Phase, PausedInv, [Next]_vars
    PROVE  PausedInv'
<1> USE NoFileAssumption, BoundsAssumption
    DEF Goto, Return, Leave, Resume, Save, Append, AppendFails, Fault,
        NoFault, Resolve, Begin, Cleanup, UnlinkData, Stop, Outside,
        files, record, copies, log, control, history, limits,
        PausedInv, PausedOnlyDuringQuarantine, TypeOK, FilesType,
        ControlType, HistoryType, Operation, QuarantineSteps,
        RecoverSteps, RestoreSteps, DeleteSteps, Control,
        QuarantinePhase, Phase
<1>1. CASE Open BY <1>1 DEF Open
<1>2. CASE \E id \in Id : ResolvePresent(id) BY <1>2 DEF ResolvePresent
<1>3. CASE \E id \in Id : ResolveGone(id) BY <1>3 DEF ResolveGone
<1>4. CASE \E id \in Id : ResolveFailed(id) BY <1>4 DEF ResolveFailed
<1>5. CASE RecoverSave BY <1>5 DEF RecoverSave
<1>6. CASE RecoverAudit BY <1>6 DEF RecoverAudit
<1>7. CASE RecoverDone BY <1>7 DEF RecoverDone
<1>8. CASE Close BY <1>8 DEF Close
<1>9. CASE \E p \in Path : QuarantineRefused(p)
  BY <1>9 DEF QuarantineRefused, OpFor
<1>10. CASE \E p \in Path, id \in Id,
                 e \in Content \cup {NoFile}, k \in BOOLEAN : QuarantineOpen(p, id, e, k)
  BY <1>10 DEF QuarantineOpen, Fresh
<1>11. CASE QuarantineCopy BY <1>11 DEF QuarantineCopy, CopyOf
<1>12. CASE QuarantinePending BY <1>12 DEF QuarantinePending
<1>13. CASE QuarantineRename BY <1>13 DEF QuarantineRename
<1>14. CASE QuarantineSyncItems BY <1>14 DEF QuarantineSyncItems
<1>15. CASE QuarantineStillSame BY <1>15 DEF QuarantineStillSame
<1>16. CASE QuarantineUnlink BY <1>16 DEF QuarantineUnlink
<1>17. CASE RollBack BY <1>17 DEF RollBack
<1>18. CASE RollBackSave BY <1>18 DEF RollBackSave
<1>19. CASE QuarantineSyncDir BY <1>19 DEF QuarantineSyncDir
<1>20. CASE QuarantineKill BY <1>20 DEF QuarantineKill
<1>21. CASE QuarantineFinal BY <1>21 DEF QuarantineFinal
<1>22. CASE QuarantineAudit BY <1>22 DEF QuarantineAudit
<1>23. CASE Report BY <1>23 DEF Report
<1>24. CASE \E a \in {"restore", "delete"}, id \in Id : Refuse(a, id)
  BY <1>24 DEF Refuse, OpFor
<1>25. CASE \E id \in Id, p \in Path : Restore(id, p)
  BY <1>25 DEF Restore, OpFor
<1>26. CASE \E id \in Id : Delete(id) BY <1>26 DEF Delete, OpFor
<1>27. CASE RestoreCreate BY <1>27 DEF RestoreCreate
<1>28. CASE RestoreDecode BY <1>28 DEF RestoreDecode
<1>29. CASE RestoreRename BY <1>29 DEF RestoreRename
<1>30. CASE RestoreLinked BY <1>30 DEF RestoreLinked
<1>31. CASE RestoreSyncDir BY <1>31 DEF RestoreSyncDir
<1>32. CASE RestoreUnlinkData BY <1>32 DEF RestoreUnlinkData
<1>33. CASE RestoreSave BY <1>33 DEF RestoreSave
<1>34. CASE DeleteUnlink BY <1>34 DEF DeleteUnlink
<1>35. CASE DeleteSync BY <1>35 DEF DeleteSync
<1>36. CASE DeleteSave BY <1>36 DEF DeleteSave
<1>37. CASE Kill BY <1>37 DEF Kill
<1>38. CASE PowerLoss BY <1>38 DEF PowerLoss
<1>39. CASE \E p \in Path, c \in Content : EnvCreate(p, c)
  BY <1>39 DEF EnvCreate
<1>40. CASE \E p \in Path : EnvRemove(p) BY <1>40 DEF EnvRemove
<1>41. CASE \E p, q \in Path : EnvRename(p, q) BY <1>41 DEF EnvRename
<1>42. CASE \E i \in Inode, c \in Content : EnvWrite(i, c) BY <1>42 DEF EnvWrite
<1>43. CASE UNCHANGED vars BY <1>43 DEF vars
<1> HIDE DEF Goto, Return, Leave, Resume, Save, Append, AppendFails, Fault,
        NoFault, Resolve, Begin, Cleanup, UnlinkData, Stop, Outside,
        files, record, copies, log, control, history, limits,
        PausedInv, PausedOnlyDuringQuarantine, TypeOK, FilesType,
        ControlType, HistoryType, Operation, QuarantineSteps,
        RecoverSteps, RestoreSteps, DeleteSteps, Control,
        QuarantinePhase, Phase
<1>44. QED
  BY <1>1, <1>2, <1>3, <1>4, <1>5, <1>6, <1>7, <1>8, <1>9, <1>10, <1>11,
        <1>12, <1>13, <1>14, <1>15, <1>16, <1>17, <1>18, <1>19, <1>20,
        <1>21, <1>22, <1>23, <1>24, <1>25, <1>26, <1>27, <1>28, <1>29,
        <1>30, <1>31, <1>32, <1>33, <1>34, <1>35, <1>36, <1>37, <1>38,
        <1>39, <1>40, <1>41, <1>42, <1>43
  DEF Next, Recover, Quarantine, RestoreOrDelete, Request, Environment

\* The audit log never reports as done what is not on disk, whatever fails,
\* crashes or is done to the files (linux.rs appends the entry last).
THEOREM AuditFollowsRecords == Spec => []AuditNeverAhead
<1>1. Init => AuditInv
  BY DEF Init, AuditInv, AuditNeverAhead
<1>2. TypeOK /\ Phase /\ AuditInv /\ [Next]_vars => AuditInv'
  BY AuditStep, LifecycleStep
<1>3. AuditInv => AuditNeverAhead
  BY DEF AuditInv
<1>4. QED BY <1>1, <1>2, <1>3, TypeCorrect, PTL DEF Spec

\* Processes that map a file are killed only after the store removed the file
\* for good, over power losses too, in the absence of disturbances.
THEOREM KillsFollowRemoval ==
    ASSUME Disturbances = {}
    PROVE  Spec => []KilledOnlyOnceStored
<1>1. Init => KilledInv
  BY DEF Init, KilledInv
<1>2. IInv /\ KilledInv /\ [Next]_vars => KilledInv'
  BY KilledStep DEF IInv
<1>3. KilledInv => KilledOnlyOnceStored
  <2>1. SUFFICES ASSUME KilledInv, NEW i \in Inode, proc[i] = "killed"
               PROVE  \E id \in Id : orig[id].ino = i /\ removed[id] # NoFile
    BY DEF KilledOnlyOnceStored
  <2>2. PICK id \in Id :
          /\ orig[id].ino = i /\ removed[id] # NoFile
          /\ "original" \in unsynced => id # op.id
    BY <2>1 DEF KilledInv
  <2>3. QED BY <2>2
<1>4. QED BY <1>1, <1>2, <1>3, Invariance, PTL DEF Spec

\* Every way out of a quarantine resumes or kills what it paused, unless the
\* process itself dies (the guard Paused of linux/processes.rs).
THEOREM NobodyStaysPaused == Spec => []PausedOnlyDuringQuarantine
<1>1. Init => PausedInv
  BY DEF Init, PausedInv, PausedOnlyDuringQuarantine
<1>2. TypeOK /\ Phase /\ PausedInv /\ [Next]_vars => PausedInv'
  BY PausedStep
<1>3. PausedInv => PausedOnlyDuringQuarantine
  BY DEF PausedInv
<1>4. QED BY <1>1, <1>2, <1>3, TypeCorrect, PTL DEF Spec
============================================================================
