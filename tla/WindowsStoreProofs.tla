------------------------- MODULE WindowsStoreProofs -------------------------
(***************************************************************************)
(* Theorems about WindowsStore, for any number of files, items, failures,  *)
(* crashes and interferences.                                              *)
(*                                                                         *)
(* IInv is inductive.  StoreInv follows an item through quarantine,        *)
(* restore, deletion and recovery: what a step relies on was established   *)
(* by the steps before it and nobody could undo it in between.  With it,   *)
(* every step is one of Custody's, or none.  LogInv follows the audit log: *)
(* the anchors of an untouched log are of its own chain, so the anchor of  *)
(* an entry that was edited or cut off contradicts what is left; no line   *)
(* the store appends later agrees with that anchor, as its time is later;  *)
(* so the comparison finds it.                                             *)
(***************************************************************************)
EXTENDS WindowsStore, TLAPS, FiniteSetTheorems, SequenceTheorems

----------------------------------------------------------------------------
(* Types.                                                                  *)

\* The operation records are well formed.
LEMMA OpTyped ==
    /\ NoOp \in Operation
    /\ \A act \in {"none", "quarantine", "restore", "delete", "recover", "allow", "disallow"},
         id \in Id \cup {NoFile}, p \in Path \cup {NoFile}, r \in {"ok", "error"} \cup ItemState :
           OpFor(act, id, p, r) \in Operation
BY DEF NoOp, OpFor, Operation

\* An operation keeps its type when the steps that set a field do.
LEMMA OpUpdated ==
    ASSUME NEW o \in Operation
    PROVE  /\ \A c \in Content \cup {NoFile} :
                 /\ [o EXCEPT !.sha = c] \in Operation
                 /\ [o EXCEPT !.act = "allow", !.sha = c] \in Operation
           /\ \A b \in BOOLEAN : [o EXCEPT !.allow = b] \in Operation
           /\ \A i \in Inode, c \in Content \cup {NoFile}, b \in BOOLEAN :
                 [o EXCEPT !.ino = i, !.sha = c, !.kill = b] \in Operation
<1>1. \A c \in Content \cup {NoFile} : [o EXCEPT !.sha = c] \in Operation
  BY DEF Operation
<1>2. \A c \in Content \cup {NoFile} : [o EXCEPT !.act = "allow", !.sha = c] \in Operation
  BY DEF Operation
<1>3. \A b \in BOOLEAN : [o EXCEPT !.allow = b] \in Operation
  BY DEF Operation
<1>4. \A i \in Inode, c \in Content \cup {NoFile}, b \in BOOLEAN :
        [o EXCEPT !.ino = i, !.sha = c, !.kill = b] \in Operation
  BY DEF Operation
<1>5. QED
  BY <1>1, <1>2, <1>3, <1>4

\* Every step keeps the types of the files and of their holders.
LEMMA FilesTypeStep ==
    ASSUME FilesType, StoreType, ControlType, ManagePhase, CopiesAgree, [Next]_vars
    PROVE  FilesType'
<1> USE WindowsAssumption
        DEF Goto, Return, Leave, Save, Fault, NoFault, files, record, copies,
        log, control, history, FilesType, StoreType, ControlType, NoOriginal
<1>1. CASE Open BY <1>1 DEF Open
<1>2. CASE \E id \in Id : ResolvePresent(id)
  BY <1>2 DEF ResolvePresent, Resolve, OriginalPresent
<1>3. CASE \E id \in Id : ResolveGone(id)
  BY <1>3 DEF ResolveGone, Resolve, OriginalPresent
<1>4. CASE \E id \in Id : ResolveFailed(id)
  BY <1>4 DEF ResolveFailed, Resolve, OriginalPresent
<1>5. CASE RecoverSave BY <1>5 DEF RecoverSave
<1>6. CASE RecoverAudit BY <1>6 DEF RecoverAudit
<1>7. CASE RecoverDone BY <1>7 DEF RecoverDone
<1>8. CASE \E p \in Path : QuarantineRefused(p) BY <1>8 DEF QuarantineRefused
<1>9. CASE \E p \in Path, id \in Id, c \in Content \cup {NoFile}, k \in BOOLEAN :
          QuarantinePin(p, id, c, k)
  BY <1>9 DEF QuarantinePin, Fresh, OneLink
<1>10. CASE QuarantineCopy BY <1>10 DEF QuarantineCopy, CopyOf
<1>11. CASE QuarantinePending BY <1>11 DEF QuarantinePending
<1>12. CASE QuarantineRename BY <1>12 DEF QuarantineRename
<1>13. CASE QuarantineDelete
  BY <1>13 DEF QuarantineDelete, DeleteOriginal, DeleteFails
<1>14. CASE QuarantineKill BY <1>14 DEF QuarantineKill
<1>15. CASE QuarantineRetry BY <1>15 DEF QuarantineRetry, DeleteOriginal, DeleteFails
<1>16. CASE QuarantineRollBack BY <1>16 DEF QuarantineRollBack
<1>17. CASE QuarantineRollBackSave BY <1>17 DEF QuarantineRollBackSave
<1>18. CASE QuarantineFinal BY <1>18 DEF QuarantineFinal
<1>19. CASE QuarantineAudit BY <1>19 DEF QuarantineAudit
<1>20. CASE Report BY <1>20 DEF Report
<1>21. CASE Close BY <1>21 DEF Close
<1>22. CASE Allowlist BY <1>22 DEF Allowlist
<1>23. CASE AllowlistAudit BY <1>23 DEF AllowlistAudit
<1>24. CASE \E id \in Id : DeleteBegin(id) BY <1>24 DEF DeleteBegin
<1>25. CASE \E a \in {"restore", "delete"}, id \in Id : Refuse(a, id)
  BY <1>25 DEF Refuse
<1>26. CASE \E id \in Id, p \in Path, d \in DirAccess, b \in BOOLEAN :
          RestoreBegin(id, p, d, b)
  BY <1>26 DEF RestoreBegin
<1>27. CASE RestoreCreate BY <1>27 DEF RestoreCreate, FreeInodes
<1>28. CASE RestoreDecode
  <2>1. TempOf \in spill
    BY <1>28 DEF RestoreDecode, TempOf, ManagePhase, RestoreSteps
  <2>2. TempOf[3] \in Inode /\ op.id \in Id
    BY <1>28, <2>1 DEF RestoreDecode, ManagePhase, RestoreSteps
  <2>3. QED
    BY <1>28, <2>1, <2>2 DEF RestoreDecode, Verified
<1>29. CASE RestoreLink
  <2>1. TempOf \in spill
    BY <1>29 DEF RestoreLink, TempOf, ManagePhase, RestoreSteps
  <2>2. TempOf[3] \in Inode /\ op.id \in Id
    BY <1>29, <2>1 DEF RestoreLink, ManagePhase, RestoreSteps
  <2>3. QED
    BY <1>29, <2>1, <2>2 DEF RestoreLink, Verified
<1>30. CASE RestoreUnlinkData BY <1>30 DEF RestoreUnlinkData
<1>31. CASE RestoreSave BY <1>31 DEF RestoreSave
<1>32. CASE DeleteUnlink BY <1>32 DEF DeleteUnlink
<1>33. CASE DeleteSave BY <1>33 DEF DeleteSave
<1>34. CASE \E c \in Content : Disallow(c) BY <1>34 DEF Disallow
<1>35. CASE CheckChain BY <1>35 DEF CheckChain
<1>36. CASE CheckRefused BY <1>36 DEF CheckRefused
<1>37. CASE CheckAnchors BY <1>37 DEF CheckAnchors
<1>38. CASE CheckEnd BY <1>38 DEF CheckEnd
<1>47. CASE CheckNoStore BY <1>47 DEF CheckNoStore
<1>48. CASE OpenFails BY <1>48 DEF OpenFails
<1>39. CASE \E p \in Path : EnvRemove(p) BY <1>39 DEF EnvRemove, Env, Pinned
<1>40. CASE \E p \in Path : EnvHold(p) BY <1>40 DEF EnvHold, Env, CopiesAgree
<1>41. CASE \E p \in Path, c \in Content : EnvCreate(p, c)
  BY <1>41 DEF EnvCreate, Env, FreeInodes
<1>42. CASE \E p \in Path, c \in Content : EnvWrite(p, c)
  BY <1>42 DEF EnvWrite, Env, Pinned
<1>43. CASE EnvGrant BY <1>43 DEF EnvGrant, Env
<1>44. CASE EnvAlter BY <1>44 DEF EnvAlter, Env
<1>45. CASE Crash BY <1>45 DEF Crash
<1>46. CASE UNCHANGED vars BY <1>46 DEF vars
<1>q. QED
  BY <1>1, <1>2, <1>3, <1>4, <1>5, <1>6, <1>7, <1>8, <1>9, <1>10, <1>11, <1>12, <1>13,
     <1>14, <1>15, <1>16, <1>17, <1>18, <1>19, <1>20, <1>21, <1>22, <1>23, <1>24,
     <1>25, <1>26, <1>27, <1>28, <1>29, <1>30, <1>31, <1>32, <1>33, <1>34, <1>35,
     <1>36, <1>37, <1>38, <1>39, <1>40, <1>41, <1>42, <1>43, <1>44, <1>45, <1>46, <1>47,
     <1>48
  DEF Next, Recovery, Quarantine, Manage, Check, Others

\* Every step keeps the types of the control state.
LEMMA ControlTypeStep ==
    ASSUME FilesType, StoreType, ControlType, ManagePhase, QuarantinePhase,
       RecoverPhase, [Next]_vars
    PROVE  ControlType'
<1> USE WindowsAssumption, OpTyped
        DEF Goto, Return, Leave, Save, Fault, NoFault, files, record, copies,
        log, control, history, ControlType, Control, QuarantineSteps,
        RestoreSteps, DeleteSteps, ListSteps, RecoverSteps, ItemState
<1>1. CASE Open BY <1>1 DEF Open
<1>2. CASE \E id \in Id : ResolvePresent(id)
  BY <1>2 DEF ResolvePresent, Resolve, OriginalPresent
<1>3. CASE \E id \in Id : ResolveGone(id)
  BY <1>3 DEF ResolveGone, Resolve, OriginalPresent
<1>4. CASE \E id \in Id : ResolveFailed(id)
  BY <1>4 DEF ResolveFailed, Resolve, OriginalPresent
<1>5. CASE RecoverSave BY <1>5 DEF RecoverSave
<1>6. CASE RecoverAudit BY <1>6 DEF RecoverAudit
<1>7. CASE RecoverDone BY <1>7 DEF RecoverDone
<1>8. CASE \E p \in Path : QuarantineRefused(p) BY <1>8 DEF QuarantineRefused
<1>9. CASE \E p \in Path, id \in Id, c \in Content \cup {NoFile}, k \in BOOLEAN :
          QuarantinePin(p, id, c, k)
  <2>1. PICK p \in Path, id \in Id, c \in Content \cup {NoFile}, k \in BOOLEAN :
          QuarantinePin(p, id, c, k)
    BY <1>9
  <2>2. name[p] \in Inode
    BY <2>1 DEF QuarantinePin, FilesType
  <2>3. OpFor("quarantine", id, p, "ok") \in Operation
    OBVIOUS
  <2>4. op' \in Operation
    BY <2>1, <2>2, <2>3, OpUpdated DEF QuarantinePin
  <2>5. QED
    BY <2>1, <2>4 DEF QuarantinePin
<1>10. CASE QuarantineCopy BY <1>10 DEF QuarantineCopy, Operation
<1>11. CASE QuarantinePending BY <1>11 DEF QuarantinePending, Operation
<1>12. CASE QuarantineRename BY <1>12 DEF QuarantineRename, Operation
<1>13. CASE QuarantineDelete
  BY <1>13 DEF QuarantineDelete, DeleteOriginal, DeleteFails
<1>14. CASE QuarantineKill BY <1>14 DEF QuarantineKill
<1>15. CASE QuarantineRetry BY <1>15 DEF QuarantineRetry, DeleteOriginal, DeleteFails
<1>16. CASE QuarantineRollBack BY <1>16 DEF QuarantineRollBack
<1>17. CASE QuarantineRollBackSave BY <1>17 DEF QuarantineRollBackSave, Operation
<1>18. CASE QuarantineFinal BY <1>18 DEF QuarantineFinal, Operation
<1>19. CASE QuarantineAudit BY <1>19 DEF QuarantineAudit, Operation
<1>20. CASE Report
  <2>1. \/ op' = NoOp
        \/ op.id \in Id /\ op' = [op EXCEPT !.act = "allow", !.sha = orig[op.id].sha]
    BY <1>20 DEF Report, ManagePhase
  <2>2. op.id \in Id => orig[op.id].sha \in Content \cup {NoFile}
    BY DEF StoreType
  <2>3. op.id \in Id => [op EXCEPT !.act = "allow", !.sha = orig[op.id].sha] \in Operation
    BY <2>2, OpUpdated
  <2>4. op' \in Operation
    BY <2>1, <2>3
  <2>5. QED
    BY <1>20, <2>4 DEF Report
<1>21. CASE Close BY <1>21 DEF Close
<1>22. CASE Allowlist BY <1>22 DEF Allowlist
<1>23. CASE AllowlistAudit BY <1>23 DEF AllowlistAudit
<1>24. CASE \E id \in Id : DeleteBegin(id) BY <1>24 DEF DeleteBegin
<1>25. CASE \E a \in {"restore", "delete"}, id \in Id : Refuse(a, id)
  BY <1>25 DEF Refuse
<1>26. CASE \E id \in Id, p \in Path, d \in DirAccess, b \in BOOLEAN :
          RestoreBegin(id, p, d, b)
  <2>1. PICK id \in Id, p \in Path, d \in DirAccess, b \in BOOLEAN :
          RestoreBegin(id, p, d, b)
    BY <1>26
  <2>2. /\ OpFor("restore", id, p, "ok") \in Operation
        /\ OpFor("restore", id, p, "error") \in Operation
    OBVIOUS
  <2>3. op' \in Operation
    BY <2>1, <2>2, OpUpdated DEF RestoreBegin
  <2>4. QED
    BY <2>1, <2>3 DEF RestoreBegin
<1>27. CASE RestoreCreate BY <1>27 DEF RestoreCreate, Operation
<1>28. CASE RestoreDecode BY <1>28 DEF RestoreDecode, Operation
<1>29. CASE RestoreLink BY <1>29 DEF RestoreLink, Operation
<1>30. CASE RestoreUnlinkData BY <1>30 DEF RestoreUnlinkData, Operation
<1>31. CASE RestoreSave BY <1>31 DEF RestoreSave, Operation
<1>32. CASE DeleteUnlink BY <1>32 DEF DeleteUnlink, Operation
<1>33. CASE DeleteSave BY <1>33 DEF DeleteSave, Operation
<1>34. CASE \E c \in Content : Disallow(c)
  <2>1. PICK c \in Content : Disallow(c)
    BY <1>34
  <2>2. OpFor("disallow", NoFile, NoFile, "ok") \in Operation
    OBVIOUS
  <2>3. op' \in Operation
    BY <2>1, <2>2, OpUpdated DEF Disallow
  <2>4. QED
    BY <2>1, <2>3 DEF Disallow
<1>35. CASE CheckChain BY <1>35 DEF CheckChain
<1>36. CASE CheckRefused BY <1>36 DEF CheckRefused
<1>37. CASE CheckAnchors BY <1>37 DEF CheckAnchors
<1>38. CASE CheckEnd BY <1>38 DEF CheckEnd
<1>47. CASE CheckNoStore BY <1>47 DEF CheckNoStore
<1>48. CASE OpenFails BY <1>48 DEF OpenFails
<1>39. CASE \E p \in Path : EnvRemove(p) BY <1>39 DEF EnvRemove, Env, Pinned
<1>40. CASE \E p \in Path : EnvHold(p) BY <1>40 DEF EnvHold, Env, Pinned
<1>41. CASE \E p \in Path, c \in Content : EnvCreate(p, c)
  BY <1>41 DEF EnvCreate, Env, FreeInodes
<1>42. CASE \E p \in Path, c \in Content : EnvWrite(p, c)
  BY <1>42 DEF EnvWrite, Env, Pinned
<1>43. CASE EnvGrant BY <1>43 DEF EnvGrant, Env
<1>44. CASE EnvAlter BY <1>44 DEF EnvAlter, Env
<1>45. CASE Crash BY <1>45 DEF Crash
<1>46. CASE UNCHANGED vars BY <1>46 DEF vars
<1>q. QED
  BY <1>1, <1>2, <1>3, <1>4, <1>5, <1>6, <1>7, <1>8, <1>9, <1>10, <1>11, <1>12, <1>13,
     <1>14, <1>15, <1>16, <1>17, <1>18, <1>19, <1>20, <1>21, <1>22, <1>23, <1>24,
     <1>25, <1>26, <1>27, <1>28, <1>29, <1>30, <1>31, <1>32, <1>33, <1>34, <1>35,
     <1>36, <1>37, <1>38, <1>39, <1>40, <1>41, <1>42, <1>43, <1>44, <1>45, <1>46, <1>47,
     <1>48
  DEF Next, Recovery, Quarantine, Manage, Check, Others

\* The allow-list never holds more than MAX_ALLOW_ENTRIES contents.
LEMMA AllowedStep ==
    ASSUME StoreType, ControlType, ManagePhase, [Next]_vars
    PROVE  allowed' \subseteq Content /\ Cardinality(allowed') <= MAX_ALLOW_ENTRIES
<1> USE WindowsAssumption
        DEF Goto, Return, Leave, Save, Fault, NoFault, files, record, copies,
        log, control, history, StoreType
<1>1. CASE Open BY <1>1 DEF Open
<1>2. CASE \E id \in Id : ResolvePresent(id)
  BY <1>2 DEF ResolvePresent, Resolve, OriginalPresent
<1>3. CASE \E id \in Id : ResolveGone(id)
  BY <1>3 DEF ResolveGone, Resolve, OriginalPresent
<1>4. CASE \E id \in Id : ResolveFailed(id)
  BY <1>4 DEF ResolveFailed, Resolve, OriginalPresent
<1>5. CASE RecoverSave BY <1>5 DEF RecoverSave
<1>6. CASE RecoverAudit BY <1>6 DEF RecoverAudit
<1>7. CASE RecoverDone BY <1>7 DEF RecoverDone
<1>8. CASE \E p \in Path : QuarantineRefused(p) BY <1>8 DEF QuarantineRefused
<1>9. CASE \E p \in Path, id \in Id, c \in Content \cup {NoFile}, k \in BOOLEAN :
          QuarantinePin(p, id, c, k)
  BY <1>9 DEF QuarantinePin, Fresh, OneLink
<1>10. CASE QuarantineCopy BY <1>10 DEF QuarantineCopy, CopyOf
<1>11. CASE QuarantinePending BY <1>11 DEF QuarantinePending
<1>12. CASE QuarantineRename BY <1>12 DEF QuarantineRename
<1>13. CASE QuarantineDelete
  BY <1>13 DEF QuarantineDelete, DeleteOriginal, DeleteFails
<1>14. CASE QuarantineKill BY <1>14 DEF QuarantineKill
<1>15. CASE QuarantineRetry BY <1>15 DEF QuarantineRetry, DeleteOriginal, DeleteFails
<1>16. CASE QuarantineRollBack BY <1>16 DEF QuarantineRollBack
<1>17. CASE QuarantineRollBackSave BY <1>17 DEF QuarantineRollBackSave
<1>18. CASE QuarantineFinal BY <1>18 DEF QuarantineFinal
<1>19. CASE QuarantineAudit BY <1>19 DEF QuarantineAudit
<1>20. CASE Report BY <1>20 DEF Report
<1>21. CASE Close BY <1>21 DEF Close
<1>22. CASE Allowlist
  <2>1. allowed' = allowed \/ (op.sha \in Content /\ allowed' = allowed \cup {op.sha})
    BY <1>22 DEF Allowlist, ManagePhase
  <2>2. CASE allowed' = allowed
    BY <2>2
  <2>3. CASE allowed' = allowed \cup {op.sha} /\ op.sha \in Content /\ op.sha \notin allowed
    <3>1. Cardinality(allowed) < MAX_ALLOW_ENTRIES
      BY <1>22, <2>3 DEF Allowlist
    <3>2. IsFiniteSet(allowed)
      BY FS_Subset
    <3>3. Cardinality(allowed') = Cardinality(allowed) + 1 /\ Cardinality(allowed) \in Nat
      BY <2>3, <3>2, FS_AddElement, FS_CardinalityType
    <3>4. QED
      BY <2>3, <3>1, <3>3
  <2>4. op.sha \in allowed => allowed \cup {op.sha} = allowed
    OBVIOUS
  <2>5. QED
    BY <2>1, <2>2, <2>3, <2>4
<1>23. CASE AllowlistAudit BY <1>23 DEF AllowlistAudit
<1>24. CASE \E id \in Id : DeleteBegin(id) BY <1>24 DEF DeleteBegin
<1>25. CASE \E a \in {"restore", "delete"}, id \in Id : Refuse(a, id)
  BY <1>25 DEF Refuse
<1>26. CASE \E id \in Id, p \in Path, d \in DirAccess, b \in BOOLEAN :
          RestoreBegin(id, p, d, b)
  BY <1>26 DEF RestoreBegin
<1>27. CASE RestoreCreate BY <1>27 DEF RestoreCreate, FreeInodes
<1>28. CASE RestoreDecode BY <1>28 DEF RestoreDecode, Cleanup, RestoreAccess
<1>29. CASE RestoreLink BY <1>29 DEF RestoreLink, Cleanup, RestoreAccess
<1>30. CASE RestoreUnlinkData BY <1>30 DEF RestoreUnlinkData
<1>31. CASE RestoreSave BY <1>31 DEF RestoreSave
<1>32. CASE DeleteUnlink BY <1>32 DEF DeleteUnlink
<1>33. CASE DeleteSave BY <1>33 DEF DeleteSave
<1>34. CASE \E c \in Content : Disallow(c)
  <2>1. PICK c \in Content : allowed' = allowed \/ allowed' = allowed \ {c}
    BY <1>34 DEF Disallow
  <2>2. /\ Cardinality(allowed') <= Cardinality(allowed)
        /\ Cardinality(allowed) \in Nat /\ Cardinality(allowed') \in Nat
    BY <2>1, FS_Subset, FS_CardinalityType
  <2>3. QED
    BY <2>1, <2>2
<1>35. CASE CheckChain BY <1>35 DEF CheckChain
<1>36. CASE CheckRefused BY <1>36 DEF CheckRefused
<1>37. CASE CheckAnchors BY <1>37 DEF CheckAnchors
<1>38. CASE CheckEnd BY <1>38 DEF CheckEnd
<1>47. CASE CheckNoStore BY <1>47 DEF CheckNoStore
<1>48. CASE OpenFails BY <1>48 DEF OpenFails
<1>39. CASE \E p \in Path : EnvRemove(p) BY <1>39 DEF EnvRemove, Env, Pinned
<1>40. CASE \E p \in Path : EnvHold(p) BY <1>40 DEF EnvHold, Env, Pinned
<1>41. CASE \E p \in Path, c \in Content : EnvCreate(p, c)
  BY <1>41 DEF EnvCreate, Env, FreeInodes
<1>42. CASE \E p \in Path, c \in Content : EnvWrite(p, c)
  BY <1>42 DEF EnvWrite, Env, Pinned
<1>43. CASE EnvGrant BY <1>43 DEF EnvGrant, Env
<1>44. CASE EnvAlter BY <1>44 DEF EnvAlter, Env
<1>45. CASE Crash BY <1>45 DEF Crash
<1>46. CASE UNCHANGED vars BY <1>46 DEF vars
<1>q. QED
  BY <1>1, <1>2, <1>3, <1>4, <1>5, <1>6, <1>7, <1>8, <1>9, <1>10, <1>11, <1>12, <1>13,
     <1>14, <1>15, <1>16, <1>17, <1>18, <1>19, <1>20, <1>21, <1>22, <1>23, <1>24,
     <1>25, <1>26, <1>27, <1>28, <1>29, <1>30, <1>31, <1>32, <1>33, <1>34, <1>35,
     <1>36, <1>37, <1>38, <1>39, <1>40, <1>41, <1>42, <1>43, <1>44, <1>45, <1>46, <1>47,
     <1>48
  DEF Next, Recovery, Quarantine, Manage, Check, Others

\* Every step keeps the types of the records, the copies and the history.
LEMMA StoreTypeStep ==
    ASSUME FilesType, StoreType, ControlType, QuarantinePhase, ManagePhase,
       RecoverPhase, [Next]_vars
    PROVE  StoreType'
<1> USE WindowsAssumption, AllowedStep
        DEF Goto, Return, Leave, Save, Fault, NoFault, files, record, copies,
        log, control, history, FilesType, StoreType, ControlType, ItemState
<1>1. CASE Open BY <1>1 DEF Open
<1>2. CASE \E id \in Id : ResolvePresent(id)
  <2>1. PICK id \in Id : ResolvePresent(id)
    BY <1>2
  <2>2. data' \in [Id -> Content \cup {NoFile}] /\ tmp' \in [Id -> Content \cup {NoFile}]
    BY <2>1 DEF ResolvePresent
  <2>3. QED
    BY <2>1, <2>2 DEF ResolvePresent, Resolve
<1>3. CASE \E id \in Id : ResolveGone(id)
  BY <1>3 DEF ResolveGone, Resolve, OriginalPresent
<1>4. CASE \E id \in Id : ResolveFailed(id)
  BY <1>4 DEF ResolveFailed, Resolve, OriginalPresent
<1>5. CASE RecoverSave BY <1>5 DEF RecoverSave, RecoverPhase
<1>6. CASE RecoverAudit BY <1>6 DEF RecoverAudit
<1>7. CASE RecoverDone BY <1>7 DEF RecoverDone
<1>8. CASE \E p \in Path : QuarantineRefused(p) BY <1>8 DEF QuarantineRefused
<1>9. CASE \E p \in Path, id \in Id, c \in Content \cup {NoFile}, k \in BOOLEAN :
          QuarantinePin(p, id, c, k)
  BY <1>9 DEF QuarantinePin, Fresh, OneLink
<1>10. CASE QuarantineCopy
  BY <1>10, SMTT(30) DEF QuarantineCopy, CopyOf, QuarantinePhase, QuarantineSteps
<1>11. CASE QuarantinePending
  BY <1>11 DEF QuarantinePending, QuarantinePhase, QuarantineSteps
<1>12. CASE QuarantineRename
  BY <1>12 DEF QuarantineRename, QuarantinePhase, QuarantineSteps
<1>13. CASE QuarantineDelete
  BY <1>13 DEF QuarantineDelete, QuarantinePhase, QuarantineSteps, DeleteOriginal,
     DeleteFails
<1>14. CASE QuarantineKill BY <1>14 DEF QuarantineKill
<1>15. CASE QuarantineRetry
  <2>1. op.id \in Id /\ op.ino \in Inode
    BY <1>15 DEF QuarantineRetry, QuarantinePhase, QuarantineSteps
  <2>2. removed' = removed \/ removed' = [removed EXCEPT ![op.id] = body[op.ino]]
    BY <1>15 DEF QuarantineRetry, DeleteOriginal, DeleteFails
  <2>3. removed' \in [Id -> Content \cup {NoFile}]
    BY <2>1, <2>2
  <2>4. QED
    BY <1>15, <2>3 DEF QuarantineRetry
<1>16. CASE QuarantineRollBack
  BY <1>16 DEF QuarantineRollBack, QuarantinePhase, QuarantineSteps
<1>17. CASE QuarantineRollBackSave
  BY <1>17 DEF QuarantineRollBackSave, QuarantinePhase, QuarantineSteps
<1>18. CASE QuarantineFinal
  BY <1>18 DEF QuarantineFinal, QuarantinePhase, QuarantineSteps
<1>19. CASE QuarantineAudit BY <1>19 DEF QuarantineAudit
<1>20. CASE Report BY <1>20 DEF Report
<1>21. CASE Close BY <1>21 DEF Close
<1>22. CASE Allowlist
  BY <1>22, AllowedStep DEF Allowlist
<1>23. CASE AllowlistAudit BY <1>23 DEF AllowlistAudit
<1>24. CASE \E id \in Id : DeleteBegin(id) BY <1>24 DEF DeleteBegin
<1>25. CASE \E a \in {"restore", "delete"}, id \in Id : Refuse(a, id)
  BY <1>25 DEF Refuse
<1>26. CASE \E id \in Id, p \in Path, d \in DirAccess, b \in BOOLEAN :
          RestoreBegin(id, p, d, b)
  BY <1>26 DEF RestoreBegin
<1>27. CASE RestoreCreate
  BY <1>27 DEF RestoreCreate, ManagePhase, RestoreSteps, DeleteSteps, Cleanup,
     FreeInodes, RestoreAccess
<1>28. CASE RestoreDecode
  BY <1>28 DEF RestoreDecode, ManagePhase, RestoreSteps, DeleteSteps, Cleanup,
     FreeInodes, RestoreAccess
<1>29. CASE RestoreLink
  BY <1>29 DEF RestoreLink, ManagePhase, RestoreSteps, DeleteSteps, Cleanup,
     FreeInodes, RestoreAccess
<1>30. CASE RestoreUnlinkData
  BY <1>30 DEF RestoreUnlinkData, ManagePhase, RestoreSteps, DeleteSteps, Cleanup,
     FreeInodes, RestoreAccess
<1>31. CASE RestoreSave
  BY <1>31 DEF RestoreSave, ManagePhase, RestoreSteps, DeleteSteps, Cleanup,
     FreeInodes, RestoreAccess
<1>32. CASE DeleteUnlink
  BY <1>32 DEF DeleteUnlink, ManagePhase, RestoreSteps, DeleteSteps, Cleanup,
     FreeInodes, RestoreAccess
<1>33. CASE DeleteSave
  BY <1>33 DEF DeleteSave, ManagePhase, RestoreSteps, DeleteSteps, Cleanup,
     FreeInodes, RestoreAccess
<1>34. CASE \E c \in Content : Disallow(c)
  BY <1>34, AllowedStep DEF Disallow
<1>35. CASE CheckChain BY <1>35 DEF CheckChain
<1>36. CASE CheckRefused BY <1>36 DEF CheckRefused
<1>37. CASE CheckAnchors BY <1>37 DEF CheckAnchors
<1>38. CASE CheckEnd BY <1>38 DEF CheckEnd
<1>47. CASE CheckNoStore BY <1>47 DEF CheckNoStore
<1>48. CASE OpenFails BY <1>48 DEF OpenFails
<1>39. CASE \E p \in Path : EnvRemove(p) BY <1>39 DEF EnvRemove, Env, Pinned
<1>40. CASE \E p \in Path : EnvHold(p) BY <1>40 DEF EnvHold, Env, Pinned
<1>41. CASE \E p \in Path, c \in Content : EnvCreate(p, c)
  BY <1>41 DEF EnvCreate, Env, FreeInodes
<1>42. CASE \E p \in Path, c \in Content : EnvWrite(p, c)
  BY <1>42 DEF EnvWrite, Env, Pinned
<1>43. CASE EnvGrant BY <1>43 DEF EnvGrant, Env
<1>44. CASE EnvAlter BY <1>44 DEF EnvAlter, Env
<1>45. CASE Crash BY <1>45 DEF Crash
<1>46. CASE UNCHANGED vars BY <1>46, SMTT(30) DEF vars
<1>q. QED
  BY <1>1, <1>2, <1>3, <1>4, <1>5, <1>6, <1>7, <1>8, <1>9, <1>10, <1>11, <1>12, <1>13,
     <1>14, <1>15, <1>16, <1>17, <1>18, <1>19, <1>20, <1>21, <1>22, <1>23, <1>24,
     <1>25, <1>26, <1>27, <1>28, <1>29, <1>30, <1>31, <1>32, <1>33, <1>34, <1>35,
     <1>36, <1>37, <1>38, <1>39, <1>40, <1>41, <1>42, <1>43, <1>44, <1>45, <1>46, <1>47,
     <1>48
  DEF Next, Recovery, Quarantine, Manage, Check, Others

----------------------------------------------------------------------------
(* The items: what each operation has established.                         *)

\* The pinned file stays at its path, unchanged since the copy, until the store
\* deletes it: nobody can write, rename or remove it meanwhile.
LEMMA QuarantinePhaseStep ==
    ASSUME FilesType, StoreType, ControlType, StoreInv, [Next]_vars
    PROVE  QuarantinePhase'
<1> USE WindowsAssumption
        DEF Goto, Return, Leave, Save, Fault, NoFault, OpFor, NoOp, files,
        record, copies, log, control, history, FilesType, StoreType,
        ControlType, Operation, QuarantineSteps, RestoreSteps, DeleteSteps,
        RecoverSteps, Verified, BeforeDelete, QuarantinePhase, StoreInv,
        CopiesAgree
<1>1. CASE Open BY <1>1 DEF Open
<1>2. CASE \E id \in Id : ResolvePresent(id)
  BY <1>2 DEF ResolvePresent, Resolve, OriginalPresent
<1>3. CASE \E id \in Id : ResolveGone(id)
  BY <1>3 DEF ResolveGone, Resolve, OriginalPresent
<1>4. CASE \E id \in Id : ResolveFailed(id)
  BY <1>4 DEF ResolveFailed, Resolve, OriginalPresent
<1>5. CASE RecoverSave BY <1>5 DEF RecoverSave
<1>6. CASE RecoverAudit BY <1>6 DEF RecoverAudit
<1>7. CASE RecoverDone BY <1>7 DEF RecoverDone
<1>8. CASE \E p \in Path : QuarantineRefused(p) BY <1>8 DEF QuarantineRefused
<1>9. CASE \E p \in Path, id \in Id, c \in Content \cup {NoFile}, k \in BOOLEAN :
          QuarantinePin(p, id, c, k)
  BY <1>9 DEF QuarantinePin, Fresh, OneLink
<1>10. CASE QuarantineCopy BY <1>10 DEF QuarantineCopy, CopyOf
<1>11. CASE QuarantinePending BY <1>11 DEF QuarantinePending
<1>12. CASE QuarantineRename BY <1>12 DEF QuarantineRename
<1>13. CASE QuarantineDelete
  BY <1>13 DEF QuarantineDelete, DeleteOriginal, DeleteFails
<1>14. CASE QuarantineKill BY <1>14 DEF QuarantineKill
<1>15. CASE QuarantineRetry BY <1>15 DEF QuarantineRetry, DeleteOriginal, DeleteFails
<1>16. CASE QuarantineRollBack BY <1>16 DEF QuarantineRollBack
<1>17. CASE QuarantineRollBackSave BY <1>17 DEF QuarantineRollBackSave
<1>18. CASE QuarantineFinal BY <1>18 DEF QuarantineFinal
<1>19. CASE QuarantineAudit BY <1>19 DEF QuarantineAudit
<1>20. CASE Report BY <1>20 DEF Report
<1>21. CASE Close BY <1>21 DEF Close
<1>22. CASE Allowlist BY <1>22 DEF Allowlist
<1>23. CASE AllowlistAudit BY <1>23 DEF AllowlistAudit
<1>24. CASE \E id \in Id : DeleteBegin(id) BY <1>24 DEF DeleteBegin
<1>25. CASE \E a \in {"restore", "delete"}, id \in Id : Refuse(a, id)
  BY <1>25 DEF Refuse
<1>26. CASE \E id \in Id, p \in Path, d \in DirAccess, b \in BOOLEAN :
          RestoreBegin(id, p, d, b)
  BY <1>26 DEF RestoreBegin
<1>27. CASE RestoreCreate BY <1>27 DEF RestoreCreate, FreeInodes
<1>28. CASE RestoreDecode BY <1>28 DEF RestoreDecode, Cleanup, RestoreAccess
<1>29. CASE RestoreLink BY <1>29 DEF RestoreLink, Cleanup, RestoreAccess
<1>30. CASE RestoreUnlinkData BY <1>30 DEF RestoreUnlinkData
<1>31. CASE RestoreSave BY <1>31 DEF RestoreSave
<1>32. CASE DeleteUnlink BY <1>32 DEF DeleteUnlink
<1>33. CASE DeleteSave BY <1>33 DEF DeleteSave
<1>34. CASE \E c \in Content : Disallow(c) BY <1>34 DEF Disallow
<1>35. CASE CheckChain BY <1>35 DEF CheckChain
<1>36. CASE CheckRefused BY <1>36 DEF CheckRefused
<1>37. CASE CheckAnchors BY <1>37 DEF CheckAnchors
<1>38. CASE CheckEnd BY <1>38 DEF CheckEnd
<1>47. CASE CheckNoStore BY <1>47 DEF CheckNoStore
<1>48. CASE OpenFails BY <1>48 DEF OpenFails
<1>39. CASE \E p \in Path : EnvRemove(p) BY <1>39 DEF EnvRemove, Env, Pinned
<1>40. CASE \E p \in Path : EnvHold(p) BY <1>40 DEF EnvHold, Env, Pinned
<1>41. CASE \E p \in Path, c \in Content : EnvCreate(p, c)
  BY <1>41 DEF EnvCreate, Env, FreeInodes
<1>42. CASE \E p \in Path, c \in Content : EnvWrite(p, c)
  BY <1>42 DEF EnvWrite, Env, Pinned
<1>43. CASE EnvGrant BY <1>43 DEF EnvGrant, Env
<1>44. CASE EnvAlter BY <1>44 DEF EnvAlter, Env
<1>45. CASE Crash BY <1>45 DEF Crash
<1>46. CASE UNCHANGED vars BY <1>46, SMTT(30) DEF vars
<1> HIDE DEF Goto, Return, Leave, Save, Fault, NoFault, OpFor, NoOp, files,
        record, copies, log, control, history, FilesType, StoreType,
        ControlType, Operation, QuarantineSteps, RestoreSteps, DeleteSteps,
        RecoverSteps, Verified, BeforeDelete, QuarantinePhase, StoreInv,
        CopiesAgree
<1>q. QED
  BY <1>1, <1>2, <1>3, <1>4, <1>5, <1>6, <1>7, <1>8, <1>9, <1>10, <1>11, <1>12, <1>13,
     <1>14, <1>15, <1>16, <1>17, <1>18, <1>19, <1>20, <1>21, <1>22, <1>23, <1>24,
     <1>25, <1>26, <1>27, <1>28, <1>29, <1>30, <1>31, <1>32, <1>33, <1>34, <1>35,
     <1>36, <1>37, <1>38, <1>39, <1>40, <1>41, <1>42, <1>43, <1>44, <1>45, <1>46, <1>47,
     <1>48
  DEF Next, Recovery, Quarantine, Manage, Check, Others

\* A restore unlinks the copy once the target is written, a deletion once it
\* was asked for.
LEMMA ManagePhaseStep ==
    ASSUME FilesType, StoreType, ControlType, StoreInv, [Next]_vars
    PROVE  ManagePhase'
<1> USE WindowsAssumption
        DEF Goto, Return, Leave, Save, Fault, NoFault, OpFor, NoOp, files,
        record, copies, log, control, history, FilesType, StoreType,
        ControlType, Operation, QuarantineSteps, RestoreSteps, DeleteSteps,
        RecoverSteps, Verified, ManagePhase, StoreInv, CopiesAgree
<1>1. CASE Open BY <1>1 DEF Open
<1>2. CASE \E id \in Id : ResolvePresent(id)
  BY <1>2 DEF ResolvePresent, Resolve, OriginalPresent
<1>3. CASE \E id \in Id : ResolveGone(id)
  BY <1>3 DEF ResolveGone, Resolve, OriginalPresent
<1>4. CASE \E id \in Id : ResolveFailed(id)
  BY <1>4 DEF ResolveFailed, Resolve, OriginalPresent
<1>5. CASE RecoverSave BY <1>5 DEF RecoverSave
<1>6. CASE RecoverAudit BY <1>6 DEF RecoverAudit
<1>7. CASE RecoverDone BY <1>7 DEF RecoverDone
<1>8. CASE \E p \in Path : QuarantineRefused(p) BY <1>8 DEF QuarantineRefused
<1>9. CASE \E p \in Path, id \in Id, c \in Content \cup {NoFile}, k \in BOOLEAN :
          QuarantinePin(p, id, c, k)
  BY <1>9 DEF QuarantinePin, Fresh, OneLink
<1>10. CASE QuarantineCopy BY <1>10 DEF QuarantineCopy, CopyOf
<1>11. CASE QuarantinePending BY <1>11 DEF QuarantinePending
<1>12. CASE QuarantineRename BY <1>12 DEF QuarantineRename
<1>13. CASE QuarantineDelete
  BY <1>13 DEF QuarantineDelete, DeleteOriginal, DeleteFails
<1>14. CASE QuarantineKill BY <1>14 DEF QuarantineKill
<1>15. CASE QuarantineRetry BY <1>15 DEF QuarantineRetry, DeleteOriginal, DeleteFails
<1>16. CASE QuarantineRollBack BY <1>16 DEF QuarantineRollBack
<1>17. CASE QuarantineRollBackSave BY <1>17 DEF QuarantineRollBackSave
<1>18. CASE QuarantineFinal BY <1>18 DEF QuarantineFinal
<1>19. CASE QuarantineAudit BY <1>19 DEF QuarantineAudit
<1>20. CASE Report
  <2>1. op.act = "restore" /\ op.result = "ok" => op.id \in Id /\ orig[op.id].sha \in Content
    BY <1>20 DEF Report
  <2>2. pc' = "idle" \/ (pc' = "aAllow" /\ op'.sha \in Content)
    BY <1>20, <2>1, ZenonT(40) DEF Report
  <2>3. QED
    BY <2>2
<1>21. CASE Close BY <1>21 DEF Close
<1>22. CASE Allowlist BY <1>22 DEF Allowlist
<1>23. CASE AllowlistAudit BY <1>23 DEF AllowlistAudit
<1>24. CASE \E id \in Id : DeleteBegin(id) BY <1>24 DEF DeleteBegin
<1>25. CASE \E a \in {"restore", "delete"}, id \in Id : Refuse(a, id)
  BY <1>25 DEF Refuse
<1>26. CASE \E id \in Id, p \in Path, d \in DirAccess, b \in BOOLEAN :
          RestoreBegin(id, p, d, b)
  BY <1>26 DEF RestoreBegin
<1>27. CASE RestoreCreate
  <2>1. \/ pc' = "report" /\ op'.result = "error"
        \/ /\ pc' = "rDecode" /\ op' = op /\ UNCHANGED <<st, data, back, purged>>
           /\ \E i \in Inode : <<op.id, op.path, i>> \in spill'
    BY <1>27 DEF RestoreCreate, FreeInodes
  <2>2. pc' = "rDecode" => \E s \in spill' : s[1] = op.id /\ s[2] = op.path
    BY <2>1
  <2>3. QED
    BY <1>27, <2>1, <2>2 DEF RestoreCreate
<1>28. CASE RestoreDecode BY <1>28 DEF RestoreDecode, Cleanup, RestoreAccess
<1>29. CASE RestoreLink BY <1>29 DEF RestoreLink, Cleanup, RestoreAccess
<1>30. CASE RestoreUnlinkData BY <1>30 DEF RestoreUnlinkData
<1>31. CASE RestoreSave BY <1>31 DEF RestoreSave
<1>32. CASE DeleteUnlink BY <1>32 DEF DeleteUnlink
<1>33. CASE DeleteSave BY <1>33 DEF DeleteSave
<1>34. CASE \E c \in Content : Disallow(c) BY <1>34 DEF Disallow
<1>35. CASE CheckChain BY <1>35 DEF CheckChain
<1>36. CASE CheckRefused BY <1>36 DEF CheckRefused
<1>37. CASE CheckAnchors BY <1>37 DEF CheckAnchors
<1>38. CASE CheckEnd BY <1>38 DEF CheckEnd
<1>47. CASE CheckNoStore BY <1>47 DEF CheckNoStore
<1>48. CASE OpenFails BY <1>48 DEF OpenFails
<1>39. CASE \E p \in Path : EnvRemove(p) BY <1>39 DEF EnvRemove, Env, Pinned
<1>40. CASE \E p \in Path : EnvHold(p) BY <1>40 DEF EnvHold, Env, Pinned
<1>41. CASE \E p \in Path, c \in Content : EnvCreate(p, c)
  BY <1>41 DEF EnvCreate, Env, FreeInodes
<1>42. CASE \E p \in Path, c \in Content : EnvWrite(p, c)
  BY <1>42 DEF EnvWrite, Env, Pinned
<1>43. CASE EnvGrant BY <1>43 DEF EnvGrant, Env
<1>44. CASE EnvAlter BY <1>44 DEF EnvAlter, Env
<1>45. CASE Crash BY <1>45 DEF Crash
<1>46. CASE UNCHANGED vars BY <1>46 DEF vars
<1>q. QED
  BY <1>1, <1>2, <1>3, <1>4, <1>5, <1>6, <1>7, <1>8, <1>9, <1>10, <1>11, <1>12, <1>13,
     <1>14, <1>15, <1>16, <1>17, <1>18, <1>19, <1>20, <1>21, <1>22, <1>23, <1>24,
     <1>25, <1>26, <1>27, <1>28, <1>29, <1>30, <1>31, <1>32, <1>33, <1>34, <1>35,
     <1>36, <1>37, <1>38, <1>39, <1>40, <1>41, <1>42, <1>43, <1>44, <1>45, <1>46, <1>47,
     <1>48
  DEF Next, Recovery, Quarantine, Manage, Check, Others

\* What recovery found out about an item still holds when it writes the record.
LEMMA RecoverPhaseStep ==
    ASSUME FilesType, StoreType, ControlType, StoreInv, [Next]_vars
    PROVE  RecoverPhase'
<1> USE WindowsAssumption
        DEF Goto, Return, Leave, Save, Fault, NoFault, OpFor, NoOp, files,
        record, copies, log, control, history, FilesType, StoreType,
        ControlType, Operation, QuarantineSteps, RestoreSteps, DeleteSteps,
        RecoverSteps, Verified, RecoverPhase, RemovedIsGone, StoreInv
<1>1. CASE Open BY <1>1 DEF Open
<1>2. CASE \E id \in Id : ResolvePresent(id)
  BY <1>2 DEF ResolvePresent, Resolve, OriginalPresent
<1>3. CASE \E id \in Id : ResolveGone(id)
  BY <1>3 DEF ResolveGone, Resolve, OriginalPresent
<1>4. CASE \E id \in Id : ResolveFailed(id)
  BY <1>4 DEF ResolveFailed, Resolve, OriginalPresent
<1>5. CASE RecoverSave BY <1>5 DEF RecoverSave
<1>6. CASE RecoverAudit BY <1>6 DEF RecoverAudit
<1>7. CASE RecoverDone BY <1>7 DEF RecoverDone
<1>8. CASE \E p \in Path : QuarantineRefused(p) BY <1>8 DEF QuarantineRefused
<1>9. CASE \E p \in Path, id \in Id, c \in Content \cup {NoFile}, k \in BOOLEAN :
          QuarantinePin(p, id, c, k)
  BY <1>9 DEF QuarantinePin, Fresh, OneLink
<1>10. CASE QuarantineCopy BY <1>10 DEF QuarantineCopy, CopyOf
<1>11. CASE QuarantinePending BY <1>11 DEF QuarantinePending
<1>12. CASE QuarantineRename BY <1>12 DEF QuarantineRename
<1>13. CASE QuarantineDelete
  BY <1>13 DEF QuarantineDelete, DeleteOriginal, DeleteFails
<1>14. CASE QuarantineKill BY <1>14 DEF QuarantineKill
<1>15. CASE QuarantineRetry BY <1>15 DEF QuarantineRetry, DeleteOriginal, DeleteFails
<1>16. CASE QuarantineRollBack BY <1>16 DEF QuarantineRollBack
<1>17. CASE QuarantineRollBackSave BY <1>17 DEF QuarantineRollBackSave
<1>18. CASE QuarantineFinal BY <1>18 DEF QuarantineFinal
<1>19. CASE QuarantineAudit BY <1>19 DEF QuarantineAudit
<1>20. CASE Report BY <1>20 DEF Report
<1>21. CASE Close BY <1>21 DEF Close
<1>22. CASE Allowlist BY <1>22 DEF Allowlist
<1>23. CASE AllowlistAudit BY <1>23 DEF AllowlistAudit
<1>24. CASE \E id \in Id : DeleteBegin(id) BY <1>24 DEF DeleteBegin
<1>25. CASE \E a \in {"restore", "delete"}, id \in Id : Refuse(a, id)
  BY <1>25 DEF Refuse
<1>26. CASE \E id \in Id, p \in Path, d \in DirAccess, b \in BOOLEAN :
          RestoreBegin(id, p, d, b)
  BY <1>26 DEF RestoreBegin
<1>27. CASE RestoreCreate BY <1>27 DEF RestoreCreate, FreeInodes
<1>28. CASE RestoreDecode BY <1>28 DEF RestoreDecode, Cleanup, RestoreAccess
<1>29. CASE RestoreLink BY <1>29 DEF RestoreLink, Cleanup, RestoreAccess
<1>30. CASE RestoreUnlinkData BY <1>30 DEF RestoreUnlinkData
<1>31. CASE RestoreSave BY <1>31 DEF RestoreSave
<1>32. CASE DeleteUnlink BY <1>32 DEF DeleteUnlink
<1>33. CASE DeleteSave BY <1>33 DEF DeleteSave
<1>34. CASE \E c \in Content : Disallow(c) BY <1>34 DEF Disallow
<1>35. CASE CheckChain BY <1>35 DEF CheckChain
<1>36. CASE CheckRefused BY <1>36 DEF CheckRefused
<1>37. CASE CheckAnchors BY <1>37 DEF CheckAnchors
<1>38. CASE CheckEnd BY <1>38 DEF CheckEnd
<1>47. CASE CheckNoStore BY <1>47 DEF CheckNoStore
<1>48. CASE OpenFails BY <1>48 DEF OpenFails
<1>39. CASE \E p \in Path : EnvRemove(p) BY <1>39 DEF EnvRemove, Env, Pinned
<1>40. CASE \E p \in Path : EnvHold(p) BY <1>40 DEF EnvHold, Env, Pinned
<1>41. CASE \E p \in Path, c \in Content : EnvCreate(p, c)
  BY <1>41 DEF EnvCreate, Env, FreeInodes
<1>42. CASE \E p \in Path, c \in Content : EnvWrite(p, c)
  BY <1>42 DEF EnvWrite, Env, Pinned
<1>43. CASE EnvGrant BY <1>43 DEF EnvGrant, Env
<1>44. CASE EnvAlter BY <1>44 DEF EnvAlter, Env
<1>45. CASE Crash BY <1>45 DEF Crash
<1>46. CASE UNCHANGED vars BY <1>46, SMTT(30) DEF vars
<1>q. QED
  BY <1>1, <1>2, <1>3, <1>4, <1>5, <1>6, <1>7, <1>8, <1>9, <1>10, <1>11, <1>12, <1>13,
     <1>14, <1>15, <1>16, <1>17, <1>18, <1>19, <1>20, <1>21, <1>22, <1>23, <1>24,
     <1>25, <1>26, <1>27, <1>28, <1>29, <1>30, <1>31, <1>32, <1>33, <1>34, <1>35,
     <1>36, <1>37, <1>38, <1>39, <1>40, <1>41, <1>42, <1>43, <1>44, <1>45, <1>46, <1>47,
     <1>48
  DEF Next, Recovery, Quarantine, Manage, Check, Others

\* The copies are what the records say.
LEMMA CopiesAgreeStep ==
    ASSUME FilesType, StoreType, ControlType, StoreInv, [Next]_vars
    PROVE  CopiesAgree'
<1> USE WindowsAssumption
        DEF Goto, Return, Leave, Save, Fault, NoFault, OpFor, NoOp, files,
        record, copies, log, control, history, FilesType, StoreType,
        ControlType, Operation, QuarantineSteps, RestoreSteps, DeleteSteps,
        RecoverSteps, Verified, CopiesAgree, StoreInv, BeforeDelete,
        QuarantinePhase, ManagePhase, RecoverPhase
<1>1. CASE Open BY <1>1 DEF Open
<1>2. CASE \E id \in Id : ResolvePresent(id)
  BY <1>2 DEF ResolvePresent, Resolve, OriginalPresent
<1>3. CASE \E id \in Id : ResolveGone(id)
  BY <1>3 DEF ResolveGone, Resolve, OriginalPresent
<1>4. CASE \E id \in Id : ResolveFailed(id)
  BY <1>4 DEF ResolveFailed, Resolve, OriginalPresent
<1>5. CASE RecoverSave BY <1>5 DEF RecoverSave
<1>6. CASE RecoverAudit BY <1>6 DEF RecoverAudit
<1>7. CASE RecoverDone BY <1>7 DEF RecoverDone
<1>8. CASE \E p \in Path : QuarantineRefused(p) BY <1>8 DEF QuarantineRefused
<1>9. CASE \E p \in Path, id \in Id, c \in Content \cup {NoFile}, k \in BOOLEAN :
          QuarantinePin(p, id, c, k)
  BY <1>9 DEF QuarantinePin, Fresh, OneLink
<1>10. CASE QuarantineCopy BY <1>10 DEF QuarantineCopy, CopyOf
<1>11. CASE QuarantinePending BY <1>11 DEF QuarantinePending
<1>12. CASE QuarantineRename BY <1>12 DEF QuarantineRename
<1>13. CASE QuarantineDelete
  BY <1>13 DEF QuarantineDelete, DeleteOriginal, DeleteFails
<1>14. CASE QuarantineKill BY <1>14 DEF QuarantineKill
<1>15. CASE QuarantineRetry BY <1>15 DEF QuarantineRetry, DeleteOriginal, DeleteFails
<1>16. CASE QuarantineRollBack BY <1>16 DEF QuarantineRollBack
<1>17. CASE QuarantineRollBackSave BY <1>17 DEF QuarantineRollBackSave
<1>18. CASE QuarantineFinal BY <1>18 DEF QuarantineFinal
<1>19. CASE QuarantineAudit BY <1>19 DEF QuarantineAudit
<1>20. CASE Report BY <1>20 DEF Report
<1>21. CASE Close BY <1>21 DEF Close
<1>22. CASE Allowlist BY <1>22 DEF Allowlist
<1>23. CASE AllowlistAudit BY <1>23 DEF AllowlistAudit
<1>24. CASE \E id \in Id : DeleteBegin(id) BY <1>24 DEF DeleteBegin
<1>25. CASE \E a \in {"restore", "delete"}, id \in Id : Refuse(a, id)
  BY <1>25 DEF Refuse
<1>26. CASE \E id \in Id, p \in Path, d \in DirAccess, b \in BOOLEAN :
          RestoreBegin(id, p, d, b)
  BY <1>26 DEF RestoreBegin
<1>27. CASE RestoreCreate BY <1>27 DEF RestoreCreate, FreeInodes
<1>28. CASE RestoreDecode BY <1>28 DEF RestoreDecode, Cleanup, RestoreAccess
<1>29. CASE RestoreLink
  <2>1. TempOf \in spill /\ spill' = spill
    BY <1>29 DEF RestoreLink, Cleanup, RestoreAccess, TempOf
  <2>2. TempOf[3] \in used /\ op.path \in Path /\ op.id \in Id
    BY <1>29, <2>1 DEF RestoreLink
  <2>3. \A p \in Path : name'[p] # NoFile => name'[p] \in used
    BY <1>29, <2>2 DEF RestoreLink
  <2>4. UNCHANGED <<used, st, orig, data, tmp, removed, purged>>
    BY <1>29 DEF RestoreLink
  <2>5. st[op.id] = "quarantined" /\ back' \subseteq back \cup {op.id}
    BY <1>29 DEF RestoreLink
  <2>6. QED
    BY <2>1, <2>2, <2>3, <2>4, <2>5
<1>30. CASE RestoreUnlinkData BY <1>30 DEF RestoreUnlinkData
<1>31. CASE RestoreSave BY <1>31 DEF RestoreSave
<1>32. CASE DeleteUnlink BY <1>32 DEF DeleteUnlink
<1>33. CASE DeleteSave BY <1>33 DEF DeleteSave
<1>34. CASE \E c \in Content : Disallow(c) BY <1>34 DEF Disallow
<1>35. CASE CheckChain BY <1>35 DEF CheckChain
<1>36. CASE CheckRefused BY <1>36 DEF CheckRefused
<1>37. CASE CheckAnchors BY <1>37 DEF CheckAnchors
<1>38. CASE CheckEnd BY <1>38 DEF CheckEnd
<1>47. CASE CheckNoStore BY <1>47 DEF CheckNoStore
<1>48. CASE OpenFails BY <1>48 DEF OpenFails
<1>39. CASE \E p \in Path : EnvRemove(p) BY <1>39 DEF EnvRemove, Env, Pinned
<1>40. CASE \E p \in Path : EnvHold(p) BY <1>40 DEF EnvHold, Env, Pinned
<1>41. CASE \E p \in Path, c \in Content : EnvCreate(p, c)
  BY <1>41 DEF EnvCreate, Env, FreeInodes
<1>42. CASE \E p \in Path, c \in Content : EnvWrite(p, c)
  BY <1>42 DEF EnvWrite, Env, Pinned
<1>43. CASE EnvGrant BY <1>43 DEF EnvGrant, Env
<1>44. CASE EnvAlter BY <1>44 DEF EnvAlter, Env
<1>45. CASE Crash BY <1>45 DEF Crash
<1>46. CASE UNCHANGED vars BY <1>46 DEF vars
<1>q. QED
  BY <1>1, <1>2, <1>3, <1>4, <1>5, <1>6, <1>7, <1>8, <1>9, <1>10, <1>11, <1>12, <1>13,
     <1>14, <1>15, <1>16, <1>17, <1>18, <1>19, <1>20, <1>21, <1>22, <1>23, <1>24,
     <1>25, <1>26, <1>27, <1>28, <1>29, <1>30, <1>31, <1>32, <1>33, <1>34, <1>35,
     <1>36, <1>37, <1>38, <1>39, <1>40, <1>41, <1>42, <1>43, <1>44, <1>45, <1>46, <1>47,
     <1>48
  DEF Next, Recovery, Quarantine, Manage, Check, Others

\* A file the store removed gets no name again.
LEMMA RemovedIsGoneStep ==
    ASSUME FilesType, StoreType, ControlType, StoreInv, [Next]_vars
    PROVE  RemovedIsGone'
<1> USE WindowsAssumption
        DEF Goto, Return, Leave, Save, Fault, NoFault, OpFor, NoOp, files,
        record, copies, log, control, history, FilesType, StoreType,
        ControlType, Operation, QuarantineSteps, RestoreSteps, DeleteSteps,
        RecoverSteps, Verified, CopiesAgree, StoreInv, RemovedIsGone,
        BeforeDelete, QuarantinePhase, ManagePhase, TempOf
<1>1. CASE Open BY <1>1 DEF Open
<1>2. CASE \E id \in Id : ResolvePresent(id)
  BY <1>2 DEF ResolvePresent, Resolve, OriginalPresent
<1>3. CASE \E id \in Id : ResolveGone(id)
  BY <1>3 DEF ResolveGone, Resolve, OriginalPresent
<1>4. CASE \E id \in Id : ResolveFailed(id)
  BY <1>4 DEF ResolveFailed, Resolve, OriginalPresent
<1>5. CASE RecoverSave BY <1>5 DEF RecoverSave
<1>6. CASE RecoverAudit BY <1>6 DEF RecoverAudit
<1>7. CASE RecoverDone BY <1>7 DEF RecoverDone
<1>8. CASE \E p \in Path : QuarantineRefused(p) BY <1>8 DEF QuarantineRefused
<1>9. CASE \E p \in Path, id \in Id, c \in Content \cup {NoFile}, k \in BOOLEAN :
          QuarantinePin(p, id, c, k)
  BY <1>9 DEF QuarantinePin, Fresh, OneLink
<1>10. CASE QuarantineCopy
  <2>1. UNCHANGED <<name, removed>>
    BY <1>10 DEF QuarantineCopy
  <2>2. orig' = orig \/ orig' = [orig EXCEPT ![op.id].sha = CopyOf(op.ino)]
    BY <1>10 DEF QuarantineCopy
  <2>3. \A id \in Id : orig'[id].path = orig[id].path /\ orig'[id].ino = orig[id].ino
    BY <2>2 DEF CopyOf
  <2>4. QED
    BY <2>1, <2>3
<1>11. CASE QuarantinePending BY <1>11 DEF QuarantinePending
<1>12. CASE QuarantineRename BY <1>12 DEF QuarantineRename
<1>13. CASE QuarantineDelete
  BY <1>13 DEF QuarantineDelete, DeleteOriginal, DeleteFails
<1>14. CASE QuarantineKill BY <1>14 DEF QuarantineKill
<1>15. CASE QuarantineRetry BY <1>15 DEF QuarantineRetry, DeleteOriginal, DeleteFails
<1>16. CASE QuarantineRollBack BY <1>16 DEF QuarantineRollBack
<1>17. CASE QuarantineRollBackSave BY <1>17 DEF QuarantineRollBackSave
<1>18. CASE QuarantineFinal BY <1>18 DEF QuarantineFinal
<1>19. CASE QuarantineAudit BY <1>19 DEF QuarantineAudit
<1>20. CASE Report BY <1>20 DEF Report
<1>21. CASE Close BY <1>21 DEF Close
<1>22. CASE Allowlist BY <1>22 DEF Allowlist
<1>23. CASE AllowlistAudit BY <1>23 DEF AllowlistAudit
<1>24. CASE \E id \in Id : DeleteBegin(id) BY <1>24 DEF DeleteBegin
<1>25. CASE \E a \in {"restore", "delete"}, id \in Id : Refuse(a, id)
  BY <1>25 DEF Refuse
<1>26. CASE \E id \in Id, p \in Path, d \in DirAccess, b \in BOOLEAN :
          RestoreBegin(id, p, d, b)
  BY <1>26 DEF RestoreBegin
<1>27. CASE RestoreCreate BY <1>27 DEF RestoreCreate, FreeInodes
<1>28. CASE RestoreDecode BY <1>28 DEF RestoreDecode, Cleanup, RestoreAccess
<1>29. CASE RestoreLink BY <1>29 DEF RestoreLink, Cleanup, RestoreAccess
<1>30. CASE RestoreUnlinkData BY <1>30 DEF RestoreUnlinkData
<1>31. CASE RestoreSave BY <1>31 DEF RestoreSave
<1>32. CASE DeleteUnlink BY <1>32 DEF DeleteUnlink
<1>33. CASE DeleteSave BY <1>33 DEF DeleteSave
<1>34. CASE \E c \in Content : Disallow(c) BY <1>34 DEF Disallow
<1>35. CASE CheckChain BY <1>35 DEF CheckChain
<1>36. CASE CheckRefused BY <1>36 DEF CheckRefused
<1>37. CASE CheckAnchors BY <1>37 DEF CheckAnchors
<1>38. CASE CheckEnd BY <1>38 DEF CheckEnd
<1>47. CASE CheckNoStore BY <1>47 DEF CheckNoStore
<1>48. CASE OpenFails BY <1>48 DEF OpenFails
<1>39. CASE \E p \in Path : EnvRemove(p) BY <1>39 DEF EnvRemove, Env, Pinned
<1>40. CASE \E p \in Path : EnvHold(p) BY <1>40 DEF EnvHold, Env, Pinned
<1>41. CASE \E p \in Path, c \in Content : EnvCreate(p, c)
  BY <1>41 DEF EnvCreate, Env, FreeInodes
<1>42. CASE \E p \in Path, c \in Content : EnvWrite(p, c)
  BY <1>42 DEF EnvWrite, Env, Pinned
<1>43. CASE EnvGrant BY <1>43 DEF EnvGrant, Env
<1>44. CASE EnvAlter BY <1>44 DEF EnvAlter, Env
<1>45. CASE Crash BY <1>45 DEF Crash
<1>46. CASE UNCHANGED vars BY <1>46 DEF vars
<1>q. QED
  BY <1>1, <1>2, <1>3, <1>4, <1>5, <1>6, <1>7, <1>8, <1>9, <1>10, <1>11, <1>12, <1>13,
     <1>14, <1>15, <1>16, <1>17, <1>18, <1>19, <1>20, <1>21, <1>22, <1>23, <1>24,
     <1>25, <1>26, <1>27, <1>28, <1>29, <1>30, <1>31, <1>32, <1>33, <1>34, <1>35,
     <1>36, <1>37, <1>38, <1>39, <1>40, <1>41, <1>42, <1>43, <1>44, <1>45, <1>46, <1>47,
     <1>48
  DEF Next, Recovery, Quarantine, Manage, Check, Others

\* The copy of a removed file is kept.
LEMMA NothingLostStep ==
    ASSUME FilesType, StoreType, ControlType, StoreInv, [Next]_vars
    PROVE  NothingLost'
<1> USE WindowsAssumption
        DEF Goto, Return, Leave, Save, Fault, NoFault, OpFor, NoOp, files,
        record, copies, log, control, history, FilesType, StoreType,
        ControlType, Operation, QuarantineSteps, RestoreSteps, DeleteSteps,
        RecoverSteps, Verified, CopiesAgree, StoreInv, RemovedIsGone,
        NothingLost, BeforeDelete, QuarantinePhase, ManagePhase, RecoverPhase
<1>1. CASE Open BY <1>1 DEF Open
<1>2. CASE \E id \in Id : ResolvePresent(id)
  BY <1>2 DEF ResolvePresent, Resolve, OriginalPresent
<1>3. CASE \E id \in Id : ResolveGone(id)
  BY <1>3 DEF ResolveGone, Resolve, OriginalPresent
<1>4. CASE \E id \in Id : ResolveFailed(id)
  BY <1>4 DEF ResolveFailed, Resolve, OriginalPresent
<1>5. CASE RecoverSave BY <1>5 DEF RecoverSave
<1>6. CASE RecoverAudit BY <1>6 DEF RecoverAudit
<1>7. CASE RecoverDone BY <1>7 DEF RecoverDone
<1>8. CASE \E p \in Path : QuarantineRefused(p) BY <1>8 DEF QuarantineRefused
<1>9. CASE \E p \in Path, id \in Id, c \in Content \cup {NoFile}, k \in BOOLEAN :
          QuarantinePin(p, id, c, k)
  BY <1>9 DEF QuarantinePin, Fresh, OneLink
<1>10. CASE QuarantineCopy BY <1>10 DEF QuarantineCopy, CopyOf
<1>11. CASE QuarantinePending BY <1>11 DEF QuarantinePending
<1>12. CASE QuarantineRename BY <1>12 DEF QuarantineRename
<1>13. CASE QuarantineDelete
  BY <1>13 DEF QuarantineDelete, DeleteOriginal, DeleteFails
<1>14. CASE QuarantineKill BY <1>14 DEF QuarantineKill
<1>15. CASE QuarantineRetry BY <1>15 DEF QuarantineRetry, DeleteOriginal, DeleteFails
<1>16. CASE QuarantineRollBack BY <1>16 DEF QuarantineRollBack
<1>17. CASE QuarantineRollBackSave BY <1>17 DEF QuarantineRollBackSave
<1>18. CASE QuarantineFinal BY <1>18 DEF QuarantineFinal
<1>19. CASE QuarantineAudit BY <1>19 DEF QuarantineAudit
<1>20. CASE Report BY <1>20 DEF Report
<1>21. CASE Close BY <1>21 DEF Close
<1>22. CASE Allowlist BY <1>22 DEF Allowlist
<1>23. CASE AllowlistAudit BY <1>23 DEF AllowlistAudit
<1>24. CASE \E id \in Id : DeleteBegin(id) BY <1>24 DEF DeleteBegin
<1>25. CASE \E a \in {"restore", "delete"}, id \in Id : Refuse(a, id)
  BY <1>25 DEF Refuse
<1>26. CASE \E id \in Id, p \in Path, d \in DirAccess, b \in BOOLEAN :
          RestoreBegin(id, p, d, b)
  BY <1>26 DEF RestoreBegin
<1>27. CASE RestoreCreate BY <1>27 DEF RestoreCreate, FreeInodes
<1>28. CASE RestoreDecode BY <1>28 DEF RestoreDecode, Cleanup, RestoreAccess
<1>29. CASE RestoreLink BY <1>29 DEF RestoreLink, Cleanup, RestoreAccess
<1>30. CASE RestoreUnlinkData BY <1>30 DEF RestoreUnlinkData
<1>31. CASE RestoreSave BY <1>31 DEF RestoreSave
<1>32. CASE DeleteUnlink BY <1>32 DEF DeleteUnlink
<1>33. CASE DeleteSave BY <1>33 DEF DeleteSave
<1>34. CASE \E c \in Content : Disallow(c) BY <1>34 DEF Disallow
<1>35. CASE CheckChain BY <1>35 DEF CheckChain
<1>36. CASE CheckRefused BY <1>36 DEF CheckRefused
<1>37. CASE CheckAnchors BY <1>37 DEF CheckAnchors
<1>38. CASE CheckEnd BY <1>38 DEF CheckEnd
<1>47. CASE CheckNoStore BY <1>47 DEF CheckNoStore
<1>48. CASE OpenFails BY <1>48 DEF OpenFails
<1>39. CASE \E p \in Path : EnvRemove(p) BY <1>39 DEF EnvRemove, Env, Pinned
<1>40. CASE \E p \in Path : EnvHold(p) BY <1>40 DEF EnvHold, Env, Pinned
<1>41. CASE \E p \in Path, c \in Content : EnvCreate(p, c)
  BY <1>41 DEF EnvCreate, Env, FreeInodes
<1>42. CASE \E p \in Path, c \in Content : EnvWrite(p, c)
  BY <1>42 DEF EnvWrite, Env, Pinned
<1>43. CASE EnvGrant BY <1>43 DEF EnvGrant, Env
<1>44. CASE EnvAlter BY <1>44 DEF EnvAlter, Env
<1>45. CASE Crash BY <1>45 DEF Crash
<1>46. CASE UNCHANGED vars BY <1>46 DEF vars
<1>q. QED
  BY <1>1, <1>2, <1>3, <1>4, <1>5, <1>6, <1>7, <1>8, <1>9, <1>10, <1>11, <1>12, <1>13,
     <1>14, <1>15, <1>16, <1>17, <1>18, <1>19, <1>20, <1>21, <1>22, <1>23, <1>24,
     <1>25, <1>26, <1>27, <1>28, <1>29, <1>30, <1>31, <1>32, <1>33, <1>34, <1>35,
     <1>36, <1>37, <1>38, <1>39, <1>40, <1>41, <1>42, <1>43, <1>44, <1>45, <1>46, <1>47,
     <1>48
  DEF Next, Recovery, Quarantine, Manage, Check, Others

----------------------------------------------------------------------------
(* The steps of Custody, in terms of the store's variables.                *)

\* The content of item id stays where it is.
SamePlace(id) ==
    /\ (removed[id] = NoFile)' <=> removed[id] = NoFile
    /\ Verified(id)' <=> Verified(id)
    /\ id \in back' <=> id \in back

Still(but) == \A id \in Id \ but : SamePlace(id)

\* When a record may be written, as Custody has it.
MayRecord(id, s) ==
    \/ st[id] = "absent" /\ s = "pending"
    \/ st[id] = "pending" /\ s = "quarantined" /\ Verified(id)
    \/ st[id] = "pending" /\ s = "rolled_back" /\ removed[id] = NoFile
    \/ st[id] = "pending" /\ s = "failed"
    \/ /\ st[id] = "quarantined" /\ ~Verified(id)
       /\ \/ s = "restored" /\ id \in back
          \/ s = "deleted" /\ id \in purged

\* Two items' places are the same sets when SamePlace holds of them.
LEMMA SamePlaces ==
    ASSUME NEW id \in Id, SamePlace(id)
    PROVE  PlaceOf(id)' = PlaceOf(id)
BY DEF SamePlace, PlaceOf

\* A step that changes no record and moves nothing is a stuttering step.
LEMMA StutterStep ==
    ASSUME Still({}), UNCHANGED <<st, purged>>
    PROVE  UNCHANGED Promise!vars
<1>1. \A id \in Id : PlaceOf(id)' = PlaceOf(id)
  BY SamePlaces DEF Still
<1>2. QED
  BY <1>1 DEF Promise!vars

\* A step that writes one item's record.
LEMMA RecordingStep ==
    ASSUME NEW id \in Id, NEW s, MayRecord(id, s), Still({}), UNCHANGED purged,
           st' = [st EXCEPT ![id] = s]
    PROVE  Promise!Next
<1>1. \A i \in Id : PlaceOf(i)' = PlaceOf(i)
  BY SamePlaces DEF Still
<1>2. Promise!Record(id, s)
  BY <1>1 DEF Promise!Record
<1>3. Promise!Begin(id) \/ Promise!Keep(id) \/ Promise!RollBack(id)
        \/ Promise!GiveUp(id) \/ Promise!Close(id)
  BY <1>2 DEF MayRecord, PlaceOf, Promise!Begin, Promise!Keep, Promise!RollBack,
              Promise!GiveUp, Promise!Close
<1>4. QED
  BY <1>3 DEF Promise!Next

\* A step that changes the place of one item to the set given.
LEMMA MoveStep ==
    ASSUME NEW id \in Id, NEW places, Still({id}), UNCHANGED <<st, purged>>,
           PlaceOf(id)' = places
    PROVE  Promise!Move(id, places)
<1>1. \A i \in Id \ {id} : PlaceOf(i)' = PlaceOf(i)
  BY SamePlaces DEF Still
<1>2. QED
  BY <1>1 DEF Promise!Move

\* The copy of a pending item is committed.
LEMMA DepositStep ==
    ASSUME NEW id \in Id, Still({id}), UNCHANGED <<st, purged>>, st[id] = "pending",
           Verified(id)', removed'[id] = removed[id], id \in back' <=> id \in back
    PROVE  Promise!Next
<1>1. PlaceOf(id)' = PlaceOf(id) \cup {"store"}
  BY DEF PlaceOf
<1>2. Promise!Deposit(id)
  BY <1>1, MoveStep DEF Promise!Deposit
<1>3. QED
  BY <1>2 DEF Promise!Next

\* The original of a pending item whose copy is committed is removed.
LEMMA TakeStep ==
    ASSUME NEW id \in Id, Still({id}), UNCHANGED <<st, purged>>, st[id] = "pending",
           Verified(id), Verified(id)', removed'[id] # NoFile,
           id \in back' <=> id \in back
    PROVE  Promise!Next
<1>1. PlaceOf(id)' = PlaceOf(id) \ {"home"} /\ "store" \in PlaceOf(id)
  BY DEF PlaceOf
<1>2. Promise!Take(id)
  BY <1>1, MoveStep DEF Promise!Take
<1>3. QED
  BY <1>2 DEF Promise!Next

\* The content of a quarantined item is written back.
LEMMA ReturnStep ==
    ASSUME NEW id \in Id, Still({id}), UNCHANGED <<st, purged>>, st[id] = "quarantined",
           Verified(id), Verified(id)', removed'[id] = removed[id], id \in back'
    PROVE  Promise!Next
<1>1. PlaceOf(id)' = PlaceOf(id) \cup {"back"} /\ "store" \in PlaceOf(id)
  BY DEF PlaceOf
<1>2. Promise!Return(id)
  BY <1>1, MoveStep DEF Promise!Return
<1>3. QED
  BY <1>2 DEF Promise!Next

\* The copy is dropped, of an item that is at home, back or to be deleted.
LEMMA DiscardStep ==
    ASSUME NEW id \in Id, Still({id}), UNCHANGED <<st, purged>>,
           \/ st[id] = "pending" /\ removed[id] = NoFile
           \/ st[id] = "quarantined" /\ (id \in back \/ id \in purged),
           ~Verified(id)', removed'[id] = removed[id], id \in back' <=> id \in back
    PROVE  Promise!Next
<1>1. /\ PlaceOf(id)' = PlaceOf(id) \ {"store"}
      /\ removed[id] = NoFile => "home" \in PlaceOf(id)
      /\ id \in back => "back" \in PlaceOf(id)
  BY DEF PlaceOf
<1>2. Promise!Discard(id)
  BY <1>1, MoveStep DEF Promise!Discard
<1>3. QED
  BY <1>2 DEF Promise!Next

\* The deletion of a quarantined item is asked for.
LEMMA AskStep ==
    ASSUME NEW id \in Id, Still({}), UNCHANGED st, st[id] = "quarantined",
           purged' = purged \cup {id}
    PROVE  Promise!Next
<1>1. \A i \in Id : PlaceOf(i)' = PlaceOf(i)
  BY SamePlaces DEF Still
<1>2. Promise!Ask(id)
  BY <1>1 DEF Promise!Ask
<1>3. QED
  BY <1>2 DEF Promise!Next

\* Every step of the store is a step of Custody or changes nothing it speaks of.
LEMMA SimulationStep ==
    ASSUME FilesType, StoreType, ControlType, StoreInv, [Next]_vars
    PROVE  Promise!Next \/ UNCHANGED Promise!vars
<1> USE WindowsAssumption
        DEF Goto, Return, Leave, Save, Fault, NoFault, OpFor, NoOp, files,
        record, copies, log, control, history, FilesType, StoreType,
        ControlType, Operation, QuarantineSteps, RestoreSteps, DeleteSteps,
        RecoverSteps, Verified, BeforeDelete, QuarantinePhase, ManagePhase,
        RecoverPhase, CopiesAgree, RemovedIsGone, StoreInv, SamePlace, Still,
        MayRecord
<1>1. CASE Open
  <2>1. Still({}) /\ UNCHANGED <<st, purged>>
    BY <1>1 DEF Open
  <2>2. QED
    BY <2>1, StutterStep
<1>2. CASE \E id \in Id : ResolvePresent(id)
  <2>1. PICK id \in Id : ResolvePresent(id)
    BY <1>2
  <2>2. \/ Still({}) /\ UNCHANGED <<st, purged>>
        \/ /\ Still({id}) /\ UNCHANGED <<st, purged>>
           /\ st[id] = "pending" /\ removed[id] = NoFile
           /\ ~Verified(id)'
           /\ removed'[id] = removed[id]
           /\ id \in back' <=> id \in back
    BY <2>1 DEF ResolvePresent, Resolve, OriginalPresent
  <2>3. QED
    BY <2>2, StutterStep, DiscardStep
<1>3. CASE \E id \in Id : ResolveGone(id)
  <2>1. Still({}) /\ UNCHANGED <<st, purged>>
    BY <1>3 DEF ResolveGone, Resolve, OriginalPresent
  <2>2. QED
    BY <2>1, StutterStep
<1>4. CASE \E id \in Id : ResolveFailed(id)
  <2>1. Still({}) /\ UNCHANGED <<st, purged>>
    BY <1>4 DEF ResolveFailed, Resolve, OriginalPresent
  <2>2. QED
    BY <2>1, StutterStep
<1>5. CASE RecoverSave
  <2>1. \/ Still({}) /\ UNCHANGED <<st, purged>>
        \/ /\ Still({}) /\ UNCHANGED purged
           /\ op.id \in Id /\ MayRecord(op.id, op.result)
           /\ st' = [st EXCEPT ![op.id] = op.result]
    BY <1>5 DEF RecoverSave
  <2>2. QED
    BY <2>1, StutterStep, RecordingStep
<1>6. CASE RecoverAudit
  <2>1. Still({}) /\ UNCHANGED <<st, purged>>
    BY <1>6 DEF RecoverAudit
  <2>2. QED
    BY <2>1, StutterStep
<1>7. CASE RecoverDone
  <2>1. Still({}) /\ UNCHANGED <<st, purged>>
    BY <1>7 DEF RecoverDone
  <2>2. QED
    BY <2>1, StutterStep
<1>8. CASE \E p \in Path : QuarantineRefused(p)
  <2>1. Still({}) /\ UNCHANGED <<st, purged>>
    BY <1>8 DEF QuarantineRefused
  <2>2. QED
    BY <2>1, StutterStep
<1>9. CASE \E p \in Path, id \in Id, c \in Content \cup {NoFile}, k \in BOOLEAN :
          QuarantinePin(p, id, c, k)
  <2>1. Still({}) /\ UNCHANGED <<st, purged>>
    BY <1>9 DEF QuarantinePin, Fresh, OneLink
  <2>2. QED
    BY <2>1, StutterStep
<1>10. CASE QuarantineCopy
  <2>1. Still({}) /\ UNCHANGED <<st, purged>>
    BY <1>10 DEF QuarantineCopy, CopyOf
  <2>2. QED
    BY <2>1, StutterStep
<1>11. CASE QuarantinePending
  <2>1. \/ Still({}) /\ UNCHANGED <<st, purged>>
        \/ /\ Still({}) /\ UNCHANGED purged
           /\ op.id \in Id /\ MayRecord(op.id, "pending")
           /\ st' = [st EXCEPT ![op.id] = "pending"]
    BY <1>11 DEF QuarantinePending
  <2>2. QED
    BY <2>1, StutterStep, RecordingStep
<1>12. CASE QuarantineRename
  <2>1. PICK id : id = op.id
    OBVIOUS
  <2>2. \/ Still({}) /\ UNCHANGED <<st, purged>>
        \/ /\ id \in Id /\ Still({id}) /\ UNCHANGED <<st, purged>>
           /\ st[id] = "pending" /\ Verified(id)'
           /\ removed'[id] = removed[id]
           /\ id \in back' <=> id \in back
    BY <1>12, <2>1 DEF QuarantineRename
  <2>3. QED
    BY <2>2, StutterStep, DepositStep
<1>13. CASE QuarantineDelete
  <2>1. PICK id : id = op.id
    OBVIOUS
  <2>2. \/ Still({}) /\ UNCHANGED <<st, purged>>
        \/ /\ id \in Id /\ Still({id}) /\ UNCHANGED <<st, purged>>
           /\ st[id] = "pending" /\ Verified(id) /\ Verified(id)'
           /\ removed'[id] # NoFile
           /\ id \in back' <=> id \in back
    BY <1>13, <2>1 DEF QuarantineDelete, DeleteOriginal, DeleteFails
  <2>3. QED
    BY <2>2, StutterStep, TakeStep
<1>14. CASE QuarantineKill
  <2>1. Still({}) /\ UNCHANGED <<st, purged>>
    BY <1>14 DEF QuarantineKill
  <2>2. QED
    BY <2>1, StutterStep
<1>15. CASE QuarantineRetry
  <2>1. PICK id : id = op.id
    OBVIOUS
  <2>2. \/ Still({}) /\ UNCHANGED <<st, purged>>
        \/ /\ id \in Id /\ Still({id}) /\ UNCHANGED <<st, purged>>
           /\ st[id] = "pending" /\ Verified(id) /\ Verified(id)'
           /\ removed'[id] # NoFile
           /\ id \in back' <=> id \in back
    BY <1>15, <2>1 DEF QuarantineRetry, DeleteOriginal, DeleteFails
  <2>3. QED
    BY <2>2, StutterStep, TakeStep
<1>16. CASE QuarantineRollBack
  <2>1. PICK id : id = op.id
    OBVIOUS
  <2>2. \/ Still({}) /\ UNCHANGED <<st, purged>>
        \/ /\ id \in Id /\ Still({id}) /\ UNCHANGED <<st, purged>>
           /\ st[id] = "pending" /\ removed[id] = NoFile
           /\ ~Verified(id)'
           /\ removed'[id] = removed[id]
           /\ id \in back' <=> id \in back
    BY <1>16, <2>1 DEF QuarantineRollBack
  <2>3. QED
    BY <2>2, StutterStep, DiscardStep
<1>17. CASE QuarantineRollBackSave
  <2>1. \/ Still({}) /\ UNCHANGED <<st, purged>>
        \/ /\ Still({}) /\ UNCHANGED purged
           /\ op.id \in Id /\ MayRecord(op.id, "rolled_back")
           /\ st' = [st EXCEPT ![op.id] = "rolled_back"]
    BY <1>17 DEF QuarantineRollBackSave
  <2>2. QED
    BY <2>1, StutterStep, RecordingStep
<1>18. CASE QuarantineFinal
  <2>1. \/ Still({}) /\ UNCHANGED <<st, purged>>
        \/ /\ Still({}) /\ UNCHANGED purged
           /\ op.id \in Id /\ MayRecord(op.id, "quarantined")
           /\ st' = [st EXCEPT ![op.id] = "quarantined"]
    BY <1>18 DEF QuarantineFinal
  <2>2. QED
    BY <2>1, StutterStep, RecordingStep
<1>19. CASE QuarantineAudit
  <2>1. Still({}) /\ UNCHANGED <<st, purged>>
    BY <1>19 DEF QuarantineAudit
  <2>2. QED
    BY <2>1, StutterStep
<1>20. CASE Report
  <2>1. Still({}) /\ UNCHANGED <<st, purged>>
    BY <1>20 DEF Report
  <2>2. QED
    BY <2>1, StutterStep
<1>21. CASE Close
  <2>1. Still({}) /\ UNCHANGED <<st, purged>>
    BY <1>21 DEF Close
  <2>2. QED
    BY <2>1, StutterStep
<1>22. CASE Allowlist
  <2>1. Still({}) /\ UNCHANGED <<st, purged>>
    BY <1>22 DEF Allowlist
  <2>2. QED
    BY <2>1, StutterStep
<1>23. CASE AllowlistAudit
  <2>1. Still({}) /\ UNCHANGED <<st, purged>>
    BY <1>23 DEF AllowlistAudit
  <2>2. QED
    BY <2>1, StutterStep
<1>24. CASE \E id \in Id : DeleteBegin(id)
  <2>1. PICK id \in Id : DeleteBegin(id)
    BY <1>24
  <2>2. /\ Still({}) /\ UNCHANGED st /\ st[id] = "quarantined"
        /\ purged' = purged \cup {id}
    BY <2>1 DEF DeleteBegin
  <2>3. QED
    BY <2>2, AskStep
<1>25. CASE \E a \in {"restore", "delete"}, id \in Id : Refuse(a, id)
  <2>1. Still({}) /\ UNCHANGED <<st, purged>>
    BY <1>25 DEF Refuse
  <2>2. QED
    BY <2>1, StutterStep
<1>26. CASE \E id \in Id, p \in Path, d \in DirAccess, b \in BOOLEAN :
          RestoreBegin(id, p, d, b)
  <2>1. Still({}) /\ UNCHANGED <<st, purged>>
    BY <1>26 DEF RestoreBegin
  <2>2. QED
    BY <2>1, StutterStep
<1>27. CASE RestoreCreate
  <2>1. Still({}) /\ UNCHANGED <<st, purged>>
    BY <1>27 DEF RestoreCreate, FreeInodes
  <2>2. QED
    BY <2>1, StutterStep
<1>28. CASE RestoreDecode
  <2>1. Still({}) /\ UNCHANGED <<st, purged>>
    BY <1>28 DEF RestoreDecode, Cleanup, RestoreAccess
  <2>2. QED
    BY <2>1, StutterStep
<1>29. CASE RestoreLink
  <2>1. PICK id : id = op.id
    OBVIOUS
  <2>2. \/ Still({}) /\ UNCHANGED <<st, purged>>
        \/ /\ id \in Id /\ Still({id}) /\ UNCHANGED <<st, purged>>
           /\ st[id] = "quarantined" /\ Verified(id) /\ Verified(id)'
           /\ removed'[id] = removed[id]
           /\ id \in back'
    BY <1>29, <2>1 DEF RestoreLink
  <2>3. QED
    BY <2>2, StutterStep, ReturnStep
<1>30. CASE RestoreUnlinkData
  <2>1. PICK id : id = op.id
    OBVIOUS
  <2>2. \/ Still({}) /\ UNCHANGED <<st, purged>>
        \/ /\ id \in Id /\ Still({id}) /\ UNCHANGED <<st, purged>>
           /\ st[id] = "quarantined" /\ id \in back
           /\ ~Verified(id)'
           /\ removed'[id] = removed[id]
           /\ id \in back' <=> id \in back
    BY <1>30, <2>1 DEF RestoreUnlinkData
  <2>3. QED
    BY <2>2, StutterStep, DiscardStep
<1>31. CASE RestoreSave
  <2>1. \/ Still({}) /\ UNCHANGED <<st, purged>>
        \/ /\ Still({}) /\ UNCHANGED purged
           /\ op.id \in Id /\ MayRecord(op.id, "restored")
           /\ st' = [st EXCEPT ![op.id] = "restored"]
    BY <1>31 DEF RestoreSave
  <2>2. QED
    BY <2>1, StutterStep, RecordingStep
<1>32. CASE DeleteUnlink
  <2>1. PICK id : id = op.id
    OBVIOUS
  <2>2. \/ Still({}) /\ UNCHANGED <<st, purged>>
        \/ /\ id \in Id /\ Still({id}) /\ UNCHANGED <<st, purged>>
           /\ st[id] = "quarantined" /\ id \in purged
           /\ ~Verified(id)'
           /\ removed'[id] = removed[id]
           /\ id \in back' <=> id \in back
    BY <1>32, <2>1 DEF DeleteUnlink
  <2>3. QED
    BY <2>2, StutterStep, DiscardStep
<1>33. CASE DeleteSave
  <2>1. \/ Still({}) /\ UNCHANGED <<st, purged>>
        \/ /\ Still({}) /\ UNCHANGED purged
           /\ op.id \in Id /\ MayRecord(op.id, "deleted")
           /\ st' = [st EXCEPT ![op.id] = "deleted"]
    BY <1>33 DEF DeleteSave
  <2>2. QED
    BY <2>1, StutterStep, RecordingStep
<1>34. CASE \E c \in Content : Disallow(c)
  <2>1. Still({}) /\ UNCHANGED <<st, purged>>
    BY <1>34 DEF Disallow
  <2>2. QED
    BY <2>1, StutterStep
<1>35. CASE CheckChain
  <2>1. Still({}) /\ UNCHANGED <<st, purged>>
    BY <1>35 DEF CheckChain
  <2>2. QED
    BY <2>1, StutterStep
<1>36. CASE CheckRefused
  <2>1. Still({}) /\ UNCHANGED <<st, purged>>
    BY <1>36 DEF CheckRefused
  <2>2. QED
    BY <2>1, StutterStep
<1>37. CASE CheckAnchors
  <2>1. Still({}) /\ UNCHANGED <<st, purged>>
    BY <1>37 DEF CheckAnchors
  <2>2. QED
    BY <2>1, StutterStep
<1>38. CASE CheckEnd
  <2>1. Still({}) /\ UNCHANGED <<st, purged>>
    BY <1>38 DEF CheckEnd
  <2>2. QED
    BY <2>1, StutterStep
<1>47. CASE CheckNoStore
  <2>1. Still({}) /\ UNCHANGED <<st, purged>>
    BY <1>47 DEF CheckNoStore
  <2>2. QED
    BY <2>1, StutterStep
<1>48. CASE OpenFails
  <2>1. Still({}) /\ UNCHANGED <<st, purged>>
    BY <1>48 DEF OpenFails
  <2>2. QED
    BY <2>1, StutterStep
<1>39. CASE \E p \in Path : EnvRemove(p)
  <2>1. Still({}) /\ UNCHANGED <<st, purged>>
    BY <1>39 DEF EnvRemove, Env, Pinned
  <2>2. QED
    BY <2>1, StutterStep
<1>40. CASE \E p \in Path : EnvHold(p)
  <2>1. Still({}) /\ UNCHANGED <<st, purged>>
    BY <1>40 DEF EnvHold, Env, Pinned
  <2>2. QED
    BY <2>1, StutterStep
<1>41. CASE \E p \in Path, c \in Content : EnvCreate(p, c)
  <2>1. Still({}) /\ UNCHANGED <<st, purged>>
    BY <1>41 DEF EnvCreate, Env, FreeInodes
  <2>2. QED
    BY <2>1, StutterStep
<1>42. CASE \E p \in Path, c \in Content : EnvWrite(p, c)
  <2>1. Still({}) /\ UNCHANGED <<st, purged>>
    BY <1>42 DEF EnvWrite, Env, Pinned
  <2>2. QED
    BY <2>1, StutterStep
<1>43. CASE EnvGrant
  <2>1. Still({}) /\ UNCHANGED <<st, purged>>
    BY <1>43 DEF EnvGrant, Env
  <2>2. QED
    BY <2>1, StutterStep
<1>44. CASE EnvAlter
  <2>1. Still({}) /\ UNCHANGED <<st, purged>>
    BY <1>44 DEF EnvAlter, Env
  <2>2. QED
    BY <2>1, StutterStep
<1>45. CASE Crash
  <2>1. Still({}) /\ UNCHANGED <<st, purged>>
    BY <1>45 DEF Crash
  <2>2. QED
    BY <2>1, StutterStep
<1>46. CASE UNCHANGED vars
  <2>1. Still({}) /\ UNCHANGED <<st, purged>>
    BY <1>46 DEF vars
  <2>2. QED
    BY <2>1, StutterStep
<1>q. QED
  BY <1>1, <1>2, <1>3, <1>4, <1>5, <1>6, <1>7, <1>8, <1>9, <1>10, <1>11, <1>12, <1>13,
     <1>14, <1>15, <1>16, <1>17, <1>18, <1>19, <1>20, <1>21, <1>22, <1>23, <1>24,
     <1>25, <1>26, <1>27, <1>28, <1>29, <1>30, <1>31, <1>32, <1>33, <1>34, <1>35,
     <1>36, <1>37, <1>38, <1>39, <1>40, <1>41, <1>42, <1>43, <1>44, <1>45, <1>46, <1>47,
     <1>48
  DEF Next, Recovery, Quarantine, Manage, Check, Others

----------------------------------------------------------------------------
(* The audit log: what one line adds to a chain.                           *)

\* What Append gives.
LEMMA AppendedTo ==
    ASSUME NEW S, NEW s \in Seq(S), NEW e \in S
    PROVE  /\ Append(s, e) \in Seq(S) /\ Append(s, e) # <<>>
           /\ Len(Append(s, e)) = Len(s) + 1 /\ Append(s, e)[Len(s) + 1] = e
BY AppendProperties

\* A line's hash is not empty and ends with the line's own number and entry.
LEMMA HashOfLine ==
    ASSUME NEW line \in LogLine
    PROVE  /\ LineHash(line) \in Hash /\ LineHash(line) # <<>>
           /\ LineHash(line)[Len(LineHash(line))] = <<line.seq, line.entry>>
<1>1. line.prev \in Seq(Nat \X Entry) /\ <<line.seq, line.entry>> \in Nat \X Entry
  BY DEF LogLine, Hash
<1> DEFINE last == <<line.seq, line.entry>>
           hash == Append(line.prev, last)
<1>s. PICK S : S = Nat \X Entry
  OBVIOUS
<1>e. PICK e : e = last
  OBVIOUS
<1>2. /\ hash \in Seq(Nat \X Entry) /\ hash # <<>>
      /\ Len(hash) = Len(line.prev) + 1 /\ hash[Len(line.prev) + 1] = last
  <2>1. line.prev \in Seq(S) /\ e \in S
    BY <1>1, <1>s, <1>e
  <2>2. /\ Append(line.prev, e) \in Seq(S) /\ Append(line.prev, e) # <<>>
        /\ Len(Append(line.prev, e)) = Len(line.prev) + 1
        /\ Append(line.prev, e)[Len(line.prev) + 1] = e
    BY <2>1, AppendedTo
  <2>3. QED
    BY <2>2, <1>s, <1>e
<1>3. QED
  BY <1>2 DEF LineHash, Hash

\* The line the store appends next.
NextLine == Line(head, [time |-> clock, by |-> "store"])

\* It has the type of a line, and its number and time are new.
LEMMA NextLineType ==
    ASSUME LogType
    PROVE  /\ NextLine \in LogLine /\ PartOf(NextLine) \in LogLine
           /\ LineHash(PartOf(NextLine)) = LineHash(NextLine)
           /\ NextLine.seq = head.seq + 1 /\ NextLine.entry.time = clock
           /\ PartOf(NextLine).entry.time = clock
<1> DEFINE entry == [time |-> clock, by |-> "store"]
           fields(w) == [seq |-> head.seq + 1, prev |-> head.hash, entry |-> entry,
                         whole |-> w]
<1>h. head \in [seq : Nat, hash : Hash, first : Hash] /\ clock \in Nat
  BY DEF LogType
<1>2. head.seq + 1 \in Nat /\ head.hash \in Hash /\ entry \in Entry
  BY <1>h DEF Entry
<1> HIDE DEF entry
<1>3. \A w \in BOOLEAN : /\ fields(w) \in LogLine /\ fields(w).seq = head.seq + 1
                         /\ fields(w).prev = head.hash /\ fields(w).entry = entry
  BY <1>2 DEF LogLine
<1>4. NextLine = fields(TRUE)
  BY DEF NextLine, Line, entry
<1> HIDE DEF fields
<1>5. /\ NextLine \in LogLine /\ NextLine.seq = head.seq + 1
      /\ NextLine.prev = head.hash /\ NextLine.entry = entry
  BY <1>3, <1>4
<1>6. PartOf(NextLine) = fields(FALSE)
  BY <1>5 DEF PartOf, fields
<1>7. /\ PartOf(NextLine) \in LogLine /\ PartOf(NextLine).seq = head.seq + 1
      /\ PartOf(NextLine).prev = head.hash /\ PartOf(NextLine).entry = entry
  BY <1>3, <1>6
<1>8. LineHash(PartOf(NextLine)) = LineHash(NextLine)
  BY <1>5, <1>7 DEF LineHash
<1>9. QED
  BY <1>5, <1>7, <1>8 DEF entry

\* A line that is appended leaves the others where they are.
LEMMA Appended ==
    ASSUME NEW s \in Seq(LogLine), NEW line \in LogLine
    PROVE  /\ Append(s, line) \in Seq(LogLine) /\ Append(s, line) # <<>>
           /\ Len(Append(s, line)) = Len(s) + 1 /\ Len(s) \in Nat
           /\ \A i \in 1..Len(s) : Append(s, line)[i] = s[i]
           /\ Append(s, line)[Len(s) + 1] = line
           /\ DOMAIN Append(s, line) = 1..Len(s) + 1 /\ DOMAIN s = 1..Len(s)
           /\ s # <<>> => 1 \in 1..Len(s)
BY AppendProperties, EmptySeq

\* What verifies after an append verified before, and the line was numbered.
LEMMA VerifiedBefore ==
    ASSUME NEW s \in Seq(LogLine), NEW line \in LogLine, Verifies(Append(s, line))
    PROVE  Verifies(s) /\ line.seq = Len(s) + 1
<1>1. \A n \in DOMAIN s :
        /\ s[n].whole /\ s[n].seq = n
        /\ s[n].prev = IF n = 1 THEN GENESIS ELSE LineHash(s[n - 1])
  <2> SUFFICES ASSUME NEW n \in DOMAIN s
               PROVE  /\ s[n].whole /\ s[n].seq = n
                      /\ s[n].prev = IF n = 1 THEN GENESIS ELSE LineHash(s[n - 1])
    OBVIOUS
  <2>1. n \in 1..Len(s) /\ n \in DOMAIN Append(s, line) /\ Append(s, line)[n] = s[n]
    BY Appended
  <2>2. n # 1 => n - 1 \in 1..Len(s) /\ Append(s, line)[n - 1] = s[n - 1]
    BY <2>1, Appended
  <2>3. QED
    BY <2>1, <2>2 DEF Verifies
<1>2. Len(s) + 1 \in DOMAIN Append(s, line) /\ Append(s, line)[Len(s) + 1] = line
  BY Appended
<1>3. QED
  BY <1>1, <1>2 DEF Verifies

\* The head of a verified log moves with it.
LEMMA HeadMoves ==
    ASSUME LogType, Verifies(lines), head.seq = Len(lines), head = HeadOf(lines)
    PROVE  NewHead(head, NextLine) = HeadOf(Append(lines, NextLine))
<1> DEFINE after == Append(lines, NextLine)
<1>1. /\ NextLine \in LogLine /\ lines \in Seq(LogLine) /\ NextLine.seq = head.seq + 1
  BY NextLineType DEF LogType
<1>2. /\ after # <<>> /\ Len(after) = Len(lines) + 1 /\ after[Len(lines) + 1] = NextLine
      /\ \A i \in 1..Len(lines) : after[i] = lines[i]
      /\ lines # <<>> => 1 \in 1..Len(lines)
  BY <1>1, Appended
<1>3. HeadOf(after) = [seq |-> Len(lines) + 1, hash |-> LineHash(NextLine),
                       first |-> LineHash(after[1])]
  BY <1>2 DEF HeadOf
<1>4. CASE lines = <<>>
  <2>1. Len(lines) = 0 /\ head.first = GENESIS /\ after[1] = NextLine
    BY <1>2, <1>4 DEF HeadOf, Genesis
  <2>2. QED
    BY <1>1, <1>3, <2>1 DEF NewHead
<1>5. CASE lines # <<>>
  <2>1. after[1] = lines[1] /\ lines[1] \in LogLine
    BY <1>1, <1>2, <1>5
  <2>2. head.first = LineHash(after[1]) /\ head.first # GENESIS
    BY <1>5, <2>1, HashOfLine DEF HeadOf, GENESIS
  <2>3. QED
    BY <1>1, <1>3, <2>2 DEF NewHead
<1>6. QED
  BY <1>4, <1>5

----------------------------------------------------------------------------
(* Steps that touch the log.                                               *)

\* Most steps leave the log alone; the others are these.
LogSteps ==
    \/ UNCHANGED <<log, altered, check>> /\ (pc = "closed" => pc' = "closed")
    \/ pc # "closed" /\ UNCHANGED <<altered, check>> /\ (Audit \/ AuditFails)
    \/ Open \/ EnvAlter
    \/ CheckChain \/ CheckNoStore \/ CheckRefused \/ CheckAnchors \/ CheckEnd

\* Every step is one of them.
LEMMA LogStepKinds ==
    ASSUME [Next]_vars
    PROVE  LogSteps
<1> USE DEF LogSteps, Goto, Return, Leave, Save, log, control, history
<1>1. CASE Open BY <1>1
<1>2. CASE \E id \in Id : ResolvePresent(id) BY <1>2 DEF ResolvePresent, Resolve
<1>3. CASE \E id \in Id : ResolveGone(id) BY <1>3 DEF ResolveGone, Resolve
<1>4. CASE \E id \in Id : ResolveFailed(id) BY <1>4 DEF ResolveFailed, Resolve
<1>5. CASE RecoverSave BY <1>5 DEF RecoverSave
<1>6. CASE RecoverAudit BY <1>6 DEF RecoverAudit
<1>7. CASE RecoverDone BY <1>7 DEF RecoverDone
<1>8. CASE \E p \in Path : QuarantineRefused(p) BY <1>8 DEF QuarantineRefused
<1>9. CASE \E p \in Path, id \in Id, c \in Content \cup {NoFile}, k \in BOOLEAN :
          QuarantinePin(p, id, c, k)
  BY <1>9 DEF QuarantinePin
<1>10. CASE QuarantineCopy BY <1>10 DEF QuarantineCopy
<1>11. CASE QuarantinePending BY <1>11 DEF QuarantinePending
<1>12. CASE QuarantineRename BY <1>12 DEF QuarantineRename
<1>13. CASE QuarantineDelete BY <1>13 DEF QuarantineDelete
<1>14. CASE QuarantineKill BY <1>14 DEF QuarantineKill
<1>15. CASE QuarantineRetry BY <1>15 DEF QuarantineRetry
<1>16. CASE QuarantineRollBack BY <1>16 DEF QuarantineRollBack
<1>17. CASE QuarantineRollBackSave BY <1>17 DEF QuarantineRollBackSave
<1>18. CASE QuarantineFinal BY <1>18 DEF QuarantineFinal
<1>19. CASE QuarantineAudit BY <1>19 DEF QuarantineAudit
<1>20. CASE Report BY <1>20 DEF Report
<1>21. CASE Close BY <1>21 DEF Close
<1>22. CASE Allowlist BY <1>22 DEF Allowlist
<1>23. CASE AllowlistAudit BY <1>23 DEF AllowlistAudit
<1>24. CASE \E id \in Id : DeleteBegin(id) BY <1>24 DEF DeleteBegin
<1>25. CASE \E a \in {"restore", "delete"}, id \in Id : Refuse(a, id)
  BY <1>25 DEF Refuse
<1>26. CASE \E id \in Id, p \in Path, d \in DirAccess, b \in BOOLEAN :
          RestoreBegin(id, p, d, b)
  BY <1>26 DEF RestoreBegin
<1>27. CASE RestoreCreate BY <1>27 DEF RestoreCreate
<1>28. CASE RestoreDecode BY <1>28 DEF RestoreDecode
<1>29. CASE RestoreLink BY <1>29 DEF RestoreLink
<1>30. CASE RestoreUnlinkData BY <1>30 DEF RestoreUnlinkData
<1>31. CASE RestoreSave BY <1>31 DEF RestoreSave
<1>32. CASE DeleteUnlink BY <1>32 DEF DeleteUnlink
<1>33. CASE DeleteSave BY <1>33 DEF DeleteSave
<1>34. CASE \E c \in Content : Disallow(c) BY <1>34 DEF Disallow
<1>35. CASE CheckChain BY <1>35
<1>36. CASE CheckRefused BY <1>36
<1>37. CASE CheckAnchors BY <1>37
<1>38. CASE CheckEnd BY <1>38
<1>47. CASE CheckNoStore BY <1>47
<1>48. CASE OpenFails BY <1>48 DEF OpenFails
<1>39. CASE \E p \in Path : EnvRemove(p) BY <1>39 DEF EnvRemove
<1>40. CASE \E p \in Path : EnvHold(p) BY <1>40 DEF EnvHold
<1>41. CASE \E p \in Path, c \in Content : EnvCreate(p, c) BY <1>41 DEF EnvCreate
<1>42. CASE \E p \in Path, c \in Content : EnvWrite(p, c) BY <1>42 DEF EnvWrite
<1>43. CASE EnvGrant BY <1>43 DEF EnvGrant
<1>44. CASE EnvAlter BY <1>44
<1>45. CASE Crash BY <1>45 DEF Crash
<1>46. CASE UNCHANGED vars BY <1>46 DEF vars
<1>q. QED
  BY <1>1, <1>2, <1>3, <1>4, <1>5, <1>6, <1>7, <1>8, <1>9, <1>10, <1>11, <1>12, <1>13,
     <1>14, <1>15, <1>16, <1>17, <1>18, <1>19, <1>20, <1>21, <1>22, <1>23, <1>24,
     <1>25, <1>26, <1>27, <1>28, <1>29, <1>30, <1>31, <1>32, <1>33, <1>34, <1>35,
     <1>36, <1>37, <1>38, <1>39, <1>40, <1>41, <1>42, <1>43, <1>44, <1>45, <1>46, <1>47,
     <1>48
  DEF Next, Recovery, Quarantine, Manage, Check, Others

\* What the fields of a head, of its anchor and of the log's own head are.
LEMMA HeadTypes ==
    ASSUME LogType
    PROVE  /\ NewHead(head, NextLine) \in [seq : Nat, hash : Hash, first : Hash]
           /\ AnchorText(NewHead(head, NextLine)) \in Nat \X Hash \X Hash
           /\ HeadOf(lines) \in [seq : Nat, hash : Hash, first : Hash]
<1>1. /\ NextLine \in LogLine /\ lines \in Seq(LogLine)
      /\ head \in [seq : Nat, hash : Hash, first : Hash]
  BY NextLineType DEF LogType
<1>2. NextLine.seq \in Nat /\ LineHash(NextLine) \in Hash /\ head.first \in Hash
  BY <1>1, HashOfLine DEF LogLine
<1>3. NewHead(head, NextLine) \in [seq : Nat, hash : Hash, first : Hash]
  BY <1>2 DEF NewHead
<1>4. AnchorText(NewHead(head, NextLine)) \in Nat \X Hash \X Hash
  BY <1>3 DEF AnchorText
<1>5. HeadOf(lines) \in [seq : Nat, hash : Hash, first : Hash]
  <2>1. CASE lines = <<>>
    <3>1. <<>> \in Hash
      BY DEF Hash
    <3>2. QED
      BY <2>1, <3>1 DEF HeadOf, Genesis, GENESIS
  <2>2. CASE lines # <<>>
    <3>1. lines[Len(lines)] \in LogLine /\ lines[1] \in LogLine /\ Len(lines) \in Nat
      BY <1>1, <2>2, EmptySeq
    <3>2. LineHash(lines[Len(lines)]) \in Hash /\ LineHash(lines[1]) \in Hash
      BY <3>1, HashOfLine
    <3>3. QED
      BY <2>2, <3>1, <3>2 DEF HeadOf
  <2>3. QED
    BY <2>1, <2>2
<1>6. QED
  BY <1>3, <1>4, <1>5

\* A log that was cut back or edited is a log.
LEMMA AlteredLog ==
    ASSUME LogType, NEW n \in DOMAIN lines
    PROVE  /\ Cut(n - 1) \in Seq(LogLine) /\ Edit(n) \in Seq(LogLine)
           /\ Len(Cut(n - 1)) = n - 1 /\ \A i \in 1..n - 1 : Cut(n - 1)[i] = lines[i]
           /\ Len(Edit(n)) = n /\ \A i \in 1..n - 1 : Edit(n)[i] = lines[i]
           /\ Edit(n)[n].entry.time = lines[n].entry.time
<1>0. lines \in Seq(LogLine)
  BY DEF LogType
<1>1. lines \in Seq(LogLine) /\ n \in 1..Len(lines) /\ Len(lines) \in Nat
  BY <1>0, LenProperties
<1>2. \A k \in 0..Len(lines) :
        /\ SubSeq(lines, 1, k) \in Seq(LogLine) /\ Len(SubSeq(lines, 1, k)) = k
        /\ \A i \in 1..k : SubSeq(lines, 1, k)[i] = lines[i]
  BY <1>1, SubSeqProperties
<1>3. /\ Cut(n - 1) \in Seq(LogLine) /\ Len(Cut(n - 1)) = n - 1
      /\ \A i \in 1..n - 1 : Cut(n - 1)[i] = lines[i]
  <2>1. n - 1 \in 0..Len(lines)
    BY <1>1
  <2>2. QED
    BY <1>2, <2>1 DEF Cut
<1>4. /\ Cut(n) \in Seq(LogLine) /\ Len(Cut(n)) = n
      /\ \A i \in 1..n : Cut(n)[i] = lines[i]
  <2>1. n \in 0..Len(lines)
    BY <1>1
  <2>2. QED
    BY <1>2, <2>1 DEF Cut
<1>5. PICK s : s = Cut(n)
  OBVIOUS
<1>6. s \in Seq(LogLine) /\ Len(s) = n /\ n \in 1..Len(s) /\ s[n] \in LogLine
  BY <1>1, <1>4, <1>5
<1>7. [s[n] EXCEPT !.entry.by = "other"] \in LogLine
  <2>1. s[n].entry \in Entry
    BY <1>6 DEF LogLine
  <2>2. [s[n].entry EXCEPT !.by = "other"] \in Entry
    BY <2>1 DEF Entry
  <2>3. PICK e : e = [s[n].entry EXCEPT !.by = "other"]
    OBVIOUS
  <2>4. [s[n] EXCEPT !.entry = e] \in LogLine
    BY <1>6, <2>2, <2>3 DEF LogLine
  <2>5. [s[n] EXCEPT !.entry.by = "other"] = [s[n] EXCEPT !.entry = e]
    BY <2>3
  <2>6. QED
    BY <2>4, <2>5
<1>8. PICK l : l = [s[n] EXCEPT !.entry.by = "other"]
  OBVIOUS
<1>t. l.entry.time = s[n].entry.time
  <2>1. s[n].entry \in Entry
    BY <1>6 DEF LogLine
  <2>2. l.entry = [s[n].entry EXCEPT !.by = "other"]
    BY <1>6, <1>8 DEF LogLine
  <2>3. QED
    BY <2>1, <2>2 DEF Entry
<1>9. Edit(n) = [s EXCEPT ![n] = l]
  BY <1>5, <1>8 DEF Edit
<1>10. /\ Edit(n) \in Seq(LogLine) /\ Len(Edit(n)) = n
       /\ \A i \in 1..n - 1 : Edit(n)[i] = s[i]
       /\ Edit(n)[n] = l
  BY <1>1, <1>6, <1>7, <1>8, <1>9, ExceptSeq
<1>11. Edit(n)[n].entry.time = lines[n].entry.time
  BY <1>1, <1>4, <1>5, <1>10, <1>t
<1>12. QED
  BY <1>1, <1>3, <1>4, <1>5, <1>10, <1>11

\* The chain of a log, entry by entry.
LEMMA ChainOf ==
    ASSUME NEW s \in Seq(LogLine)
    PROVE  /\ Chain(s) \in Seq(Hash) /\ Len(Chain(s)) = Len(s)
           /\ \A i \in 1..Len(s) : Chain(s)[i] = LineHash(s[i])
<1>1. Len(s) \in Nat /\ DOMAIN s = 1..Len(s) /\ \A i \in 1..Len(s) : s[i] \in LogLine
  OBVIOUS
<1>2. \A i \in 1..Len(s) : LineHash(s[i]) \in Hash
  BY <1>1, HashOfLine
<1>3. Chain(s) = [i \in 1..Len(s) |-> LineHash(s[i])]
  BY <1>1 DEF Chain
<1>4. Chain(s) \in [1..Len(s) -> Hash]
  BY <1>2, <1>3
<1>5. Chain(s) \in Seq(Hash) /\ Len(Chain(s)) = Len(s)
  BY <1>1, <1>4, SeqDef, LenProperties
<1>6. QED
  BY <1>3, <1>5

\* The number of unanchored entries is a u64.
LEMMA UnanchoredType ==
    ASSUME LogType, NEW anchors
    PROVE  LET cmp == Compare(check.chain, anchors)
           IN  (Len(check.chain) - Cardinality(cmp.matched)
                   - Cardinality(cmp.mismatched)) % Word \in 0..Word - 1
<1> DEFINE cmp == Compare(check.chain, anchors)
<1>1. check.chain \in Seq(Hash) /\ Word \in Nat \ {0}
  BY WindowsAssumption DEF LogType, AuditCheck
<1>2. Len(check.chain) \in Nat /\ DOMAIN check.chain = 1..Len(check.chain)
  BY <1>1, LenProperties
<1>3. /\ cmp.matched \subseteq 1..Len(check.chain)
      /\ cmp.mismatched \subseteq 1..Len(check.chain)
  BY <1>2 DEF Compare
<1>4. IsFiniteSet(1..Len(check.chain))
  <2>1. \A k \in Int : IsFiniteSet(1..k)
    BY FS_Interval
  <2>2. QED
    BY <1>2, <2>1
<1>5. IsFiniteSet(cmp.matched) /\ IsFiniteSet(cmp.mismatched)
  BY <1>3, <1>4, FS_Subset
<1>6. Cardinality(cmp.matched) \in Nat /\ Cardinality(cmp.mismatched) \in Nat
  BY <1>5, FS_CardinalityType
<1> HIDE DEF cmp
<1>7. (Len(check.chain) - Cardinality(cmp.matched) - Cardinality(cmp.mismatched)) \in Int
  BY <1>2, <1>6
<1>8. \A x \in Int : x % Word \in 0..Word - 1
  BY <1>1
<1>9. (Len(check.chain) - Cardinality(cmp.matched) - Cardinality(cmp.mismatched)) % Word
        \in 0..Word - 1
  BY <1>7, <1>8
<1>10. QED
  BY <1>9 DEF cmp

\* Every step keeps the types of the log, of the anchors and of the check.
LEMMA LogTypeStep ==
    ASSUME LogType, [Next]_vars
    PROVE  LogType'
<1>t. /\ clock \in Nat /\ lines \in Seq(LogLine) /\ check \in AuditCheck
      /\ head \in [seq : Nat, hash : Hash, first : Hash]
      /\ journal \subseteq Nat \X Hash \X Hash
      /\ altered \in Alteration
  BY DEF LogType
<1> SUFFICES /\ clock' \in Nat /\ lines' \in Seq(LogLine) /\ check' \in AuditCheck
             /\ head' \in [seq : Nat, hash : Hash, first : Hash]
             /\ journal' \subseteq Nat \X Hash \X Hash
             /\ altered' \in Alteration
  BY DEF LogType
<1>l. LogSteps
  BY LogStepKinds
<1>k. NoCheck \in AuditCheck
  <2>1. <<>> \in Seq(Hash) /\ 0 \in 0..Word - 1
    BY WindowsAssumption, EmptySeq
  <2>2. QED
    BY <2>1 DEF NoCheck, AuditCheck, Alteration
<1>1. CASE UNCHANGED <<log, altered, check>>
  BY <1>t, <1>1 DEF log
<1>2. CASE UNCHANGED <<altered, check>> /\ Audit
  <2>1. lines' = Append(lines, NextLine) /\ head' = NewHead(head, NextLine) /\ clock' = clock + 1
    BY <1>2 DEF Audit, NextLine
  <2>2. lines' \in Seq(LogLine)
    BY <1>t, <2>1, NextLineType, Appended
  <2>3. head' \in [seq : Nat, hash : Hash, first : Hash]
    BY <2>1, HeadTypes
  <2>4. journal' \subseteq Nat \X Hash \X Hash
    <3>1. journal' \subseteq journal \cup {AnchorText(head')}
      BY <1>2 DEF Audit
    <3>2. AnchorText(head') \in Nat \X Hash \X Hash
      BY <2>1, HeadTypes
    <3>3. QED
      BY <1>t, <3>1, <3>2
  <2>u. altered' = altered /\ check' = check
    BY <1>2
  <2>c. clock' \in Nat
    <3>1. clock \in Nat
      BY <1>t
    <3>2. clock' = clock + 1
      BY <2>1
    <3>3. QED
      BY <3>1, <3>2
  <2>5. QED
    BY <1>t, <2>u, <2>c, <2>1, <2>2, <2>3, <2>4
<1>3. CASE UNCHANGED <<altered, check>> /\ AuditFails
  <2>1. /\ lines' \in {lines, Append(lines, NextLine), Append(lines, PartOf(NextLine))}
        /\ clock' = clock + 1 /\ head' = head /\ journal' = journal
    BY <1>3 DEF AuditFails, NextLine
  <2>2. lines' \in Seq(LogLine)
    <3>1. NextLine \in LogLine /\ PartOf(NextLine) \in LogLine
      BY NextLineType
    <3>2. \A l \in LogLine : Append(lines, l) \in Seq(LogLine)
      BY <1>t, Appended
    <3>3. QED
      BY <1>t, <2>1, <3>1, <3>2
  <2>u. altered' = altered /\ check' = check
    BY <1>3
  <2>c. clock' \in Nat
    <3>1. clock \in Nat
      BY <1>t
    <3>2. clock' = clock + 1
      BY <2>1
    <3>3. QED
      BY <3>1, <3>2
  <2>3. QED
    BY <1>t, <2>u, <2>c, <2>1, <2>2
<1>4. CASE Open
  BY <1>t, <1>4, HeadTypes DEF Open
<1>5. CASE EnvAlter
  <2>1. PICK n \in DOMAIN lines : lines' \in {Cut(n - 1), Edit(n)}
    BY <1>5 DEF EnvAlter
  <2>2. lines' \in Seq(LogLine)
    BY <2>1, AlteredLog
  <2>3. altered' \in Alteration
    BY <1>5 DEF EnvAlter, Alteration
  <2>4. QED
    BY <1>t, <1>5, <2>2, <2>3 DEF EnvAlter
<1>6. CASE CheckChain
  <2>1. Chain(lines) \in Seq(Hash) /\ 0 \in 0..Word - 1
    <3>1. Chain(lines) \in Seq(Hash)
      BY <1>t, ChainOf
    <3>2. QED
      BY <3>1, WindowsAssumption
  <2>2. check' = [NoCheck EXCEPT !.at = "chain", !.chain = Chain(lines),
                                 !.late = altered, !.chain_ok = TRUE]
    BY <1>6 DEF CheckChain
  <2>3. check' \in AuditCheck
    BY <1>t, <1>k, <2>1, <2>2 DEF AuditCheck
  <2>4. QED
    BY <1>t, <1>6, <2>3 DEF CheckChain, log
<1>7. CASE CheckRefused
  <2>1. check' \in AuditCheck
    BY <1>t, <1>k, <1>7 DEF CheckRefused, AuditCheck
  <2>2. QED
    BY <1>t, <1>7, <2>1 DEF CheckRefused, log
<1>11. CASE CheckNoStore
  <2>1. check' \in AuditCheck
    BY <1>t, <1>k, <1>11 DEF CheckNoStore, AuditCheck
  <2>2. QED
    BY <1>t, <1>11, <2>1 DEF CheckNoStore, log
<1>8. CASE CheckAnchors
  <2> DEFINE cmp == Compare(check.chain, AnchorsRead)
             rest == (Len(check.chain) - Cardinality(cmp.matched)
                        - Cardinality(cmp.mismatched)) % Word
  <2>u. rest \in 0..Word - 1
    BY UnanchoredType
  <2>b. PICK agree \in BOOLEAN, other \in BOOLEAN :
          agree = Consistent(cmp) /\ other = (cmp.other # {})
    BY DEF Consistent
  <2>c. \/ check' = [check EXCEPT !.at = "done", !.journal_checked = TRUE,
                       !.consistent = agree, !.other_chains = other, !.unanchored = rest]
        \/ check' = [check EXCEPT !.at = "done", !.consistent = TRUE]
    BY <1>8, <2>b DEF CheckAnchors
  <2> HIDE DEF cmp, rest
  <2>1. check' \in AuditCheck
    BY <1>t, <2>u, <2>b, <2>c DEF AuditCheck
  <2>2. QED
    BY <1>t, <1>8, <2>1 DEF CheckAnchors, log
<1>9. CASE CheckEnd
  BY <1>t, <1>k, <1>9 DEF CheckEnd, log
<1>10. QED
  BY <1>l, <1>1, <1>2, <1>3, <1>4, <1>5, <1>6, <1>7, <1>8, <1>9, <1>11 DEF LogSteps

\* The fields of an anchor that was read.
LEMMA AnchorType ==
    ASSUME LogType, NEW a \in AnchorsRead
    PROVE  a.seq \in Nat /\ a.hash \in Hash /\ a.chain \in Hash
<1>1. PICK t \in journal : a = [seq |-> t[1], hash |-> t[2], chain |-> t[3]]
  BY DEF AnchorsRead, Anchor
<1>2. t \in Nat \X Hash \X Hash
  BY DEF LogType
<1>3. QED
  BY <1>1, <1>2

\* An audited entry adds at most the anchor of its own line.
LEMMA NewAnchor ==
    ASSUME LogType, Audit
    PROVE  /\ AnchorsRead \subseteq AnchorsRead'
           /\ \A a \in AnchorsRead' :
                \/ a \in AnchorsRead
                \/ /\ a.seq = head.seq + 1 /\ a.hash = LineHash(NextLine)
                   /\ a.chain = NewHead(head, NextLine).first
<1>1. /\ journal' \in {journal, journal \cup {AnchorText(head')}}
      /\ head' = NewHead(head, NextLine)
  BY DEF Audit, NextLine
<1>2. NewHead(head, NextLine).hash = LineHash(NextLine)
  BY DEF NewHead
<1>3. NewHead(head, NextLine).seq = head.seq + 1
  BY NextLineType DEF NewHead
<1>4. Anchor(AnchorText(head')) = [seq |-> head'.seq, hash |-> head'.hash, chain |-> head'.first]
  BY DEF Anchor, AnchorText
<1>5. AnchorsRead \subseteq AnchorsRead'
  BY <1>1 DEF AnchorsRead
<1>6. \A a \in AnchorsRead' : a \in AnchorsRead \/ a = Anchor(AnchorText(head'))
  BY <1>1 DEF AnchorsRead
<1>7. QED
  BY <1>1, <1>2, <1>3, <1>4, <1>5, <1>6

\* More anchors show no less.
LEMMA MoreAnchors ==
    ASSUME NEW A, NEW B, A \subseteq B, NEW c, NEW x, Shows(x, A, c)
    PROVE  Shows(x, B, c)
BY DEF Shows, Contradicts, Disowns

\* The time in the entry a hash ends with.
LEMMA HashTime ==
    ASSUME NEW h \in Hash, h # <<>>
    PROVE  h[Len(h)][2].time \in Nat
<1>1. h \in Seq(Nat \X Entry)
  BY DEF Hash
<1>2. PICK S : S = Nat \X Entry
  OBVIOUS
<1>3. h \in Seq(S)
  BY <1>1, <1>2
<1>4. Len(h) \in Nat \ {0}
  BY <1>3, EmptySeq
<1>5. h[Len(h)] \in S
  BY <1>3, <1>4
<1>6. h[Len(h)][2] \in Entry
  BY <1>2, <1>5
<1>7. QED
  BY <1>6 DEF Entry

\* What is past stays so, and a line written now is past from then on; it is
\* none of the lines that were past before.
LEMMA TimePasses ==
    ASSUME LogType, clock' = clock + 1
    PROVE  /\ \A h \in Hash : Past(h) => Past(h)'
           /\ \A l \in LogLine : l.entry.time = clock =>
                 LineHash(l) \in Hash /\ ~Past(LineHash(l)) /\ Past(LineHash(l))'
<1>1. clock \in Nat
  BY DEF LogType
<1>2. ASSUME NEW h \in Hash, Past(h) PROVE Past(h)'
  <2>1. h # <<>> /\ h[Len(h)][2].time < clock
    BY <1>2 DEF Past
  <2>2. h[Len(h)][2].time \in Nat
    BY <2>1, HashTime
  <2>3. h[Len(h)][2].time < clock + 1
    BY <1>1, <2>1, <2>2
  <2>4. QED
    BY <2>1, <2>3 DEF Past
<1>3. ASSUME NEW l \in LogLine, l.entry.time = clock
      PROVE  LineHash(l) \in Hash /\ ~Past(LineHash(l)) /\ Past(LineHash(l))'
  <2>1. /\ LineHash(l) \in Hash /\ LineHash(l) # <<>>
        /\ LineHash(l)[Len(LineHash(l))] = <<l.seq, l.entry>>
    BY HashOfLine
  <2>2. LineHash(l)[Len(LineHash(l))][2].time = clock
    BY <1>3, <2>1
  <2>3. PICK h : h = LineHash(l)
    OBVIOUS
  <2>4. h # <<>> /\ h[Len(h)][2].time = clock
    BY <2>1, <2>2, <2>3
  <2>5. ~Past(h) /\ Past(h)'
    BY <1>1, <2>4 DEF Past
  <2>6. QED
    BY <2>1, <2>3, <2>5
<1>4. QED
  BY <1>2, <1>3

\* A line the store appends never agrees with an anchor from before.
LEMMA StillContradicted ==
    ASSUME LogType, AnchorsArePast, NEW line \in LogLine, line.entry.time = clock,
           Contradicts(AnchorsRead, Chain(lines))
    PROVE  Contradicts(AnchorsRead, Chain(Append(lines, line)))
<1> DEFINE c == Chain(lines)
           d == Chain(Append(lines, line))
<1>1. lines \in Seq(LogLine)
  BY DEF LogType
<1>2. /\ Append(lines, line) \in Seq(LogLine) /\ Len(lines) \in Nat
      /\ Len(Append(lines, line)) = Len(lines) + 1
      /\ \A i \in 1..Len(lines) : Append(lines, line)[i] = lines[i]
      /\ Append(lines, line)[Len(lines) + 1] = line
  BY <1>1, Appended
<1>3. /\ c \in Seq(Hash) /\ Len(c) = Len(lines)
      /\ \A i \in 1..Len(lines) : c[i] = LineHash(lines[i])
  BY <1>1, ChainOf
<1>4. /\ d \in Seq(Hash) /\ Len(d) = Len(lines) + 1
      /\ \A i \in 1..Len(lines) + 1 : d[i] = LineHash(Append(lines, line)[i])
  BY <1>2, ChainOf
<1> HIDE DEF c, d
<1>5. /\ \A i \in 1..Len(lines) : d[i] = c[i]
      /\ d[Len(lines) + 1] = LineHash(line)
  BY <1>2, <1>3, <1>4
<1>6. PICK a \in AnchorsRead : c # <<>> /\ a.chain = c[1] /\ (a.seq > Len(c) \/ c[a.seq] # a.hash)
  BY DEF Contradicts, c
<1>7. a.seq \in Nat /\ a.seq >= 1 /\ a.hash # <<>> /\ a.hash[Len(a.hash)][2].time < clock
  BY AnchorType DEF AnchorsArePast, Past
<1>8. Len(lines) >= 1
  BY <1>2, <1>3, <1>6, EmptySeq
<1>9. d # <<>> /\ a.chain = d[1]
  BY <1>2, <1>4, <1>5, <1>6, <1>8, EmptySeq
<1>10. a.hash # LineHash(line)
  <2>1. LineHash(line)[Len(LineHash(line))] = <<line.seq, line.entry>>
    BY HashOfLine
  <2>2. clock \in Nat
    BY DEF LogType
  <2>3. LineHash(line)[Len(LineHash(line))][2].time = clock
    BY <2>1
  <2>4. QED
    BY <1>7, <2>2, <2>3
<1>11. a.seq > Len(d) \/ d[a.seq] # a.hash
  <2>1. CASE a.seq > Len(lines) + 1
    BY <1>4, <2>1
  <2>2. CASE a.seq = Len(lines) + 1
    BY <1>5, <1>10, <2>2
  <2>3. CASE a.seq \in 1..Len(lines)
    <3>1. c[a.seq] # a.hash
      BY <1>2, <1>3, <1>6, <2>3
    <3>2. QED
      BY <1>5, <2>3, <3>1
  <2>4. QED
    BY <1>2, <1>7, <2>1, <2>2, <2>3
<1>12. QED
  BY <1>9, <1>11 DEF Contradicts, d

\* Nor does it make the log the chain of an anchor from before.
LEMMA StillDisowned ==
    ASSUME LogType, AnchorsArePast, NEW line \in LogLine, line.entry.time = clock,
           Disowns(AnchorsRead, Chain(lines))
    PROVE  Disowns(AnchorsRead, Chain(Append(lines, line)))
<1> DEFINE c == Chain(lines)
           d == Chain(Append(lines, line))
<1>1. lines \in Seq(LogLine)
  BY DEF LogType
<1>2. /\ Append(lines, line) \in Seq(LogLine) /\ Len(lines) \in Nat
      /\ Len(Append(lines, line)) = Len(lines) + 1
      /\ \A i \in 1..Len(lines) : Append(lines, line)[i] = lines[i]
      /\ Append(lines, line)[Len(lines) + 1] = line
  BY <1>1, Appended
<1>3. /\ c \in Seq(Hash) /\ Len(c) = Len(lines)
      /\ \A i \in 1..Len(lines) : c[i] = LineHash(lines[i])
  BY <1>1, ChainOf
<1>4. /\ d \in Seq(Hash) /\ Len(d) = Len(lines) + 1
      /\ \A i \in 1..Len(lines) + 1 : d[i] = LineHash(Append(lines, line)[i])
  BY <1>2, ChainOf
<1>5. PICK a \in AnchorsRead : c = <<>> \/ a.chain # c[1]
  BY DEF Disowns
<1> HIDE DEF c, d
<1>6. CASE c = <<>>
  <2>1. Len(lines) = 0
    BY <1>2, <1>3, <1>6, EmptySeq
  <2>2. d[1] = LineHash(line)
    BY <1>2, <1>4, <2>1
  <2>3. a.chain # <<>> /\ a.chain[Len(a.chain)][2].time < clock
    BY DEF AnchorsArePast, Past
  <2>4. LineHash(line)[Len(LineHash(line))] = <<line.seq, line.entry>>
    BY HashOfLine
  <2>5. LineHash(line)[Len(LineHash(line))][2].time = clock
    BY <2>4
  <2>6. clock \in Nat
    BY DEF LogType
  <2>7. a.chain # d[1]
    BY <2>2, <2>3, <2>5, <2>6
  <2>8. QED
    BY <2>7 DEF Disowns, d
<1>7. CASE c # <<>>
  <2>1. Len(lines) >= 1
    BY <1>2, <1>3, <1>7, EmptySeq
  <2>2. d[1] = c[1]
    BY <1>2, <1>3, <1>4, <2>1
  <2>3. QED
    BY <1>5, <1>7, <2>2 DEF Disowns, d
<1>8. QED
  BY <1>6, <1>7

\* What the anchors show of an altered log, they show after another line.
LEMMA StillShows ==
    ASSUME LogType, AnchorsArePast, NEW line \in LogLine, line.entry.time = clock,
           NEW x, Shows(x, AnchorsRead, Chain(lines))
    PROVE  Shows(x, AnchorsRead, Chain(Append(lines, line)))
BY StillContradicted, StillDisowned DEF Shows

\* An audited entry keeps the invariants of the log.
LEMMA AuditKeeps ==
    ASSUME LogType, LogInv, pc # "closed", Audit, UNCHANGED <<altered, check>>
    PROVE  LogInv'
<1> USE DEF LogInv
<1>1. /\ NextLine \in LogLine /\ lines \in Seq(LogLine) /\ clock \in Nat /\ head.seq \in Nat
      /\ NextLine.seq = head.seq + 1 /\ NextLine.entry.time = clock
  BY NextLineType DEF LogType
<1>2. lines' = Append(lines, NextLine) /\ head' = NewHead(head, NextLine) /\ clock' = clock + 1
  BY DEF Audit, NextLine
<1>3. /\ lines' # <<>> /\ Len(lines') = Len(lines) + 1 /\ Len(lines) \in Nat
      /\ \A i \in 1..Len(lines) : lines'[i] = lines[i]
      /\ lines # <<>> => 1 \in 1..Len(lines)
  BY <1>1, <1>2, Appended
<1>4. head'.seq = head.seq + 1
  BY <1>1, <1>2 DEF NewHead
<1>5. Verifies(lines') => Verifies(lines) /\ head.seq = Len(lines) /\ head' = HeadOf(lines')
  <2> HAVE Verifies(lines')
  <2>1. Verifies(lines) /\ head.seq + 1 = Len(lines) + 1
    BY <1>1, <1>2, VerifiedBefore
  <2>2. head.seq = Len(lines)
    BY <1>1, <1>3, <2>1
  <2>3. head = HeadOf(lines)
    BY <2>1, <2>2 DEF HeadAgrees
  <2>4. QED
    BY <1>2, <2>1, <2>2, <2>3, HeadMoves
<1>6. HeadAgrees'
  BY <1>1, <1>3, <1>4, <1>5 DEF HeadAgrees
<1>p. /\ \A h \in Hash : Past(h) => Past(h)'
      /\ \A l \in LogLine : l.entry.time = clock => Past(LineHash(l))'
  BY <1>2, TimePasses
<1>n. PICK l \in LogLine : l = NextLine /\ l.entry.time = clock
  BY <1>1
<1>f. PICK f \in Hash : f = head.first
  BY DEF LogType
<1>h. PICK g \in Hash : g = NewHead(head, NextLine).first /\ Past(g)'
  <2>1. (f = GENESIS /\ NewHead(head, NextLine).first = LineHash(l))
          \/ (f # GENESIS /\ NewHead(head, NextLine).first = f)
    BY <1>n, <1>f DEF NewHead
  <2>2. f # GENESIS => Past(f)
    BY <1>f DEF StartIsPast
  <2>3. LineHash(l) \in Hash
    BY <1>n, HashOfLine
  <2>4. QED
    BY <1>p, <1>n, <2>1, <2>2, <2>3
<1>7. AnchorsArePast'
  <2> SUFFICES ASSUME NEW a \in AnchorsRead'
               PROVE  a.seq >= 1 /\ Past(a.hash)' /\ Past(a.chain)'
    BY DEF AnchorsArePast
  <2>1. CASE a \in AnchorsRead
    <3>1. a.seq >= 1 /\ Past(a.hash) /\ Past(a.chain) /\ a.hash \in Hash /\ a.chain \in Hash
      BY <2>1, AnchorType DEF AnchorsArePast
    <3>2. QED
      BY <1>p, <3>1
  <2>2. CASE a.seq = head.seq + 1 /\ a.hash = LineHash(NextLine)
               /\ a.chain = NewHead(head, NextLine).first
    <3>1. Past(LineHash(l))' /\ a.hash = LineHash(l) /\ a.chain = g
      BY <1>p, <1>n, <1>h, <2>2
    <3>2. a.seq >= 1
      BY <1>1, <2>2
    <3>3. QED
      BY <1>h, <3>1, <3>2
  <2>3. QED
    BY <2>1, <2>2, NewAnchor
<1>s. StartIsPast'
  <2>1. lines'[1].entry.time < clock'
    <3>1. CASE lines = <<>>
      <4>1. lines'[1] = NextLine
        BY <1>1, <1>2, <3>1, Appended
      <4>2. QED
        BY <1>1, <1>2, <4>1
    <3>2. CASE lines # <<>>
      <4>1. lines[1].entry.time < clock /\ lines'[1] = lines[1] /\ lines[1] \in LogLine
        BY <1>1, <1>3, <3>2 DEF StartIsPast
      <4>2. lines[1].entry.time \in Nat
        BY <4>1 DEF LogLine, Entry
      <4>3. QED
        BY <1>1, <1>2, <4>1, <4>2
    <3>3. QED
      BY <3>1, <3>2
  <2>2. head'.first = g
    BY <1>2, <1>h
  <2>3. Past(head.first)'
    BY <1>h, <2>2 DEF Past
  <2>4. QED
    BY <2>1, <2>3 DEF StartIsPast
<1>8. AnchorsAreOurs'
  <2> SUFFICES ASSUME altered = "no", Verifies(lines'), NEW a \in AnchorsRead'
               PROVE  a.chain = LineHash(lines'[1])
    BY <1>3 DEF AnchorsAreOurs
  <2>1. CASE a \in AnchorsRead
    BY <1>3, <1>5, <2>1 DEF AnchorsAreOurs
  <2>2. CASE a.chain = NewHead(head, NextLine).first
    BY <1>2, <1>3, <1>5, <2>2 DEF HeadOf
  <2>3. QED
    BY <2>1, <2>2, NewAnchor
<1>9. AlterationShows'
  <2>1. Shows(altered, AnchorsRead', Chain(lines'))
    <3>1. Shows(altered, AnchorsRead, Chain(lines'))
      BY <1>1, <1>2, StillShows DEF AlterationShows
    <3>2. QED
      BY <3>1, NewAnchor, MoreAnchors
  <2>2. check.at = "chain" => Shows(check.late, AnchorsRead', check.chain)
    BY NewAnchor, MoreAnchors DEF AlterationShows
  <2>3. altered' = altered /\ check' = check
    OBVIOUS
  <2>4. QED
    BY <2>1, <2>2, <2>3 DEF AlterationShows
<1>10. AlterationIsReported'
  BY DEF AlterationIsReported
<1>11. QED
  BY <1>6, <1>7, <1>s, <1>8, <1>9, <1>10

\* So does an append that fails, having written a line, part of one or none.
LEMMA AuditFailsKeeps ==
    ASSUME LogType, LogInv, pc # "closed", AuditFails, UNCHANGED <<altered, check>>
    PROVE  LogInv'
<1> USE DEF LogInv
<1>1. lines \in Seq(LogLine) /\ clock \in Nat /\ head.seq \in Nat
  BY DEF LogType
<1>2. head' = head /\ clock' = clock + 1 /\ journal' = journal /\ AnchorsRead' = AnchorsRead
  BY DEF AuditFails, AnchorsRead
<1>3. altered' = altered /\ check' = check
  OBVIOUS
<1>4. lines' = lines \/ \E l \in LogLine : l.entry.time = clock /\ lines' = Append(lines, l)
  BY NextLineType DEF AuditFails, NextLine
<1>5. lines' # lines => /\ HeadAgrees' /\ AnchorsAreOurs'
                        /\ Shows(altered, AnchorsRead, Chain(lines'))
                        /\ lines'[1].entry.time < clock'
  <2> HAVE lines' # lines
  <2>1. PICK l \in LogLine : l.entry.time = clock /\ lines' = Append(lines, l)
    BY <1>4
  <2>2. /\ lines' # <<>> /\ Len(lines') = Len(lines) + 1 /\ Len(lines) \in Nat
        /\ \A i \in 1..Len(lines) : lines'[i] = lines[i]
        /\ lines # <<>> => 1 \in 1..Len(lines)
    BY <1>1, <2>1, Appended
  <2>3. Verifies(lines') => Verifies(lines)
    BY <1>1, <2>1, VerifiedBefore
  <2>4. HeadAgrees'
    BY <1>1, <1>2, <2>2 DEF HeadAgrees
  <2>5. AnchorsAreOurs'
    BY <1>2, <1>3, <2>2, <2>3 DEF AnchorsAreOurs
  <2>6. Shows(altered, AnchorsRead, Chain(lines'))
    BY <2>1, StillShows DEF AlterationShows
  <2>7. lines'[1].entry.time < clock'
    <3>1. CASE lines = <<>>
      <4>1. lines'[1] = l
        BY <1>1, <2>1, <3>1, Appended
      <4>2. QED
        BY <1>1, <1>2, <2>1, <4>1
    <3>2. CASE lines # <<>>
      <4>1. lines[1].entry.time < clock /\ lines'[1] = lines[1] /\ lines[1] \in LogLine
        BY <1>1, <2>2, <3>2 DEF StartIsPast
      <4>2. lines[1].entry.time \in Nat
        BY <4>1 DEF LogLine, Entry
      <4>3. QED
        BY <1>1, <1>2, <4>1, <4>2
    <3>3. QED
      BY <3>1, <3>2
  <2>8. QED
    BY <2>4, <2>5, <2>6, <2>7
<1>s. StartIsPast'
  <2>1. lines' # <<>> => lines'[1].entry.time < clock'
    <3>1. CASE lines' = lines /\ lines # <<>>
      <4>1. lines[1].entry.time < clock /\ lines[1] \in LogLine
        BY <1>1, <3>1, EmptySeq DEF StartIsPast
      <4>2. lines[1].entry.time \in Nat
        BY <4>1 DEF LogLine, Entry
      <4>3. QED
        BY <1>1, <1>2, <3>1, <4>1, <4>2
    <3>2. QED
      BY <1>5, <3>1
  <2>2. PICK f \in Hash : f = head.first
    BY DEF LogType
  <2>3. f # GENESIS => Past(f)'
    BY <1>2, <2>2, TimePasses DEF StartIsPast
  <2>4. head.first # GENESIS => Past(head.first)'
    BY <1>2, <2>2, <2>3 DEF Past
  <2>5. QED
    BY <1>2, <2>1, <2>4 DEF StartIsPast
<1>6. HeadAgrees' /\ AnchorsAreOurs' /\ Shows(altered, AnchorsRead, Chain(lines'))
  <2>1. CASE lines' = lines
    BY <1>2, <1>3, <2>1 DEF HeadAgrees, AnchorsAreOurs, AlterationShows
  <2>2. QED
    BY <1>5, <2>1
<1>7. AnchorsArePast'
  <2> SUFFICES ASSUME NEW a \in AnchorsRead
               PROVE  a.seq >= 1 /\ Past(a.hash)' /\ Past(a.chain)'
    BY <1>2 DEF AnchorsArePast
  <2>1. a.seq >= 1 /\ Past(a.hash) /\ Past(a.chain) /\ a.hash \in Hash /\ a.chain \in Hash
    BY AnchorType DEF AnchorsArePast
  <2>2. QED
    BY <1>2, <2>1, TimePasses
<1>8. AlterationShows' /\ AlterationIsReported'
  BY <1>2, <1>3, <1>6 DEF AlterationShows, AlterationIsReported
<1>9. QED
  BY <1>6, <1>7, <1>s, <1>8

\* Somebody's alteration is contradicted by an anchor it left behind.
LEMMA EnvAlterKeeps ==
    ASSUME LogType, LogInv, EnvAlter
    PROVE  LogInv'
<1> USE DEF LogInv
<1>1. /\ pc = "closed" /\ pc' = pc /\ altered = "no" /\ Verifies(lines)
      /\ head' = head /\ clock' = clock /\ journal' = journal /\ check' = check
  BY DEF EnvAlter, control
<1>2. AnchorsRead' = AnchorsRead
  BY <1>1 DEF AnchorsRead
<1>3. lines \in Seq(LogLine) /\ lines' \in Seq(LogLine)
  BY AlteredLog, ZenonT(30) DEF LogType, EnvAlter
<1>4. HeadAgrees' /\ AnchorsArePast' /\ AlterationIsReported'
  BY <1>1, <1>2 DEF HeadAgrees, AnchorsArePast, Past, AlterationIsReported
<1>s. StartIsPast'
  <2>1. PICK n \in DOMAIN lines : lines' \in {Cut(n - 1), Edit(n)}
    BY DEF EnvAlter
  <2>2. n \in 1..Len(lines) /\ Len(lines) \in Nat
    BY <1>3, <2>1, LenProperties
  <2>3. lines' # <<>> => lines # <<>> /\ lines'[1].entry.time = lines[1].entry.time
    <3> HAVE lines' # <<>>
    <3>1. Len(lines') \in Nat /\ Len(lines') >= 1
      BY <1>3, EmptySeq, LenProperties
    <3>2. lines # <<>>
      BY <1>3, <2>2, EmptySeq
    <3>3. CASE n = 1
      <4>1. lines' = Edit(n)
        BY <2>1, <3>1, <3>3, AlteredLog
      <4>2. QED
        BY <3>2, <3>3, <4>1, AlteredLog
    <3>4. CASE n # 1
      <4>1. 1 \in 1..n - 1
        BY <2>2, <3>4
      <4>2. lines'[1] = lines[1]
        BY <2>1, <4>1, AlteredLog
      <4>3. QED
        BY <3>2, <4>2
    <3>5. QED
      BY <3>3, <3>4
  <2>4. QED
    BY <1>1, <2>3 DEF StartIsPast, Past
<1>5. altered' # "no"
  BY DEF EnvAlter
<1>6. altered' = "tail" => Contradicts(AnchorsRead, Chain(lines'))
  <2> HAVE altered' = "tail"
  <2>1. /\ lines' # <<>> /\ HeadOf(lines').first = HeadOf(lines).first
        /\ \E a \in AnchorsRead : a.seq \notin DOMAIN lines' \/ LineHash(lines'[a.seq]) # a.hash
    BY DEF EnvAlter
  <2>2. PICK a \in AnchorsRead : a.seq \notin DOMAIN lines' \/ LineHash(lines'[a.seq]) # a.hash
    BY <2>1
  <2>3. lines # <<>> /\ a.chain = LineHash(lines[1])
    BY <1>1 DEF AnchorsAreOurs
  <2>4. a.chain = LineHash(lines'[1])
    BY <2>1, <2>3 DEF HeadOf
  <2>5. /\ Chain(lines') \in Seq(Hash) /\ Len(Chain(lines')) = Len(lines')
        /\ \A i \in 1..Len(lines') : Chain(lines')[i] = LineHash(lines'[i])
    BY <1>3, ChainOf
  <2>6. Len(lines') \in Nat /\ Len(lines') >= 1 /\ DOMAIN lines' = 1..Len(lines')
    BY <1>3, <2>1, EmptySeq, LenProperties
  <2>7. a.seq \in Nat /\ a.seq >= 1
    BY AnchorType DEF AnchorsArePast
  <2>8. Chain(lines') # <<>> /\ a.chain = Chain(lines')[1]
    BY <2>4, <2>5, <2>6, EmptySeq
  <2>9. a.seq > Len(Chain(lines')) \/ Chain(lines')[a.seq] # a.hash
    BY <2>2, <2>5, <2>6, <2>7
  <2>10. QED
    BY <2>8, <2>9 DEF Contradicts
<1>7. altered' = "start" => Disowns(AnchorsRead, Chain(lines'))
  <2> HAVE altered' = "start"
  <2>1. /\ lines' = <<>> \/ HeadOf(lines').first # HeadOf(lines).first
        /\ \E a \in AnchorsRead : TRUE
    BY DEF EnvAlter
  <2>2. PICK a \in AnchorsRead : TRUE
    BY <2>1
  <2>3. lines # <<>> /\ a.chain = LineHash(lines[1])
    BY <1>1 DEF AnchorsAreOurs
  <2>4. /\ Chain(lines') \in Seq(Hash) /\ Len(Chain(lines')) = Len(lines')
        /\ \A i \in 1..Len(lines') : Chain(lines')[i] = LineHash(lines'[i])
    BY <1>3, ChainOf
  <2>5. CASE lines' = <<>>
    <3>1. Chain(lines') = <<>>
      BY <2>4, <2>5, EmptySeq
    <3>2. QED
      BY <2>2, <3>1 DEF Disowns
  <2>6. CASE lines' # <<>>
    <3>1. a.chain # LineHash(lines'[1])
      BY <2>1, <2>3, <2>6 DEF HeadOf
    <3>2. 1 \in 1..Len(lines')
      BY <1>3, <2>6, EmptySeq, LenProperties
    <3>3. QED
      BY <2>2, <2>4, <3>1, <3>2 DEF Disowns
  <2>7. QED
    BY <2>5, <2>6
<1>8. AlterationShows'
  BY <1>1, <1>2, <1>6, <1>7 DEF AlterationShows, Shows
<1>9. QED
  BY <1>4, <1>s, <1>5, <1>8 DEF AnchorsAreOurs

\* A comparison of a contradicted chain does not come out as consistent.
LEMMA ContradictedIsInconsistent ==
    ASSUME LogType, AnchorsArePast, Contradicts(AnchorsRead, check.chain)
    PROVE  ~Consistent(Compare(check.chain, AnchorsRead))
<1> DEFINE c == check.chain
           cmp == Compare(c, AnchorsRead)
<1>1. c \in Seq(Hash)
  BY DEF LogType, AuditCheck
<1>2. Len(c) \in Nat /\ DOMAIN c = 1..Len(c)
  BY <1>1, LenProperties
<1>3. PICK a \in AnchorsRead : c # <<>> /\ a.chain = c[1] /\ (a.seq > Len(c) \/ c[a.seq] # a.hash)
  BY DEF Contradicts
<1>4. a.seq \in Nat /\ a.seq >= 1
  BY AnchorType DEF AnchorsArePast
<1>5. CASE a.seq > Len(c)
  <2>1. a.seq \in cmp.missing
    BY <1>3, <1>5 DEF Compare
  <2>2. QED
    BY <2>1 DEF Consistent
<1>6. CASE a.seq \in DOMAIN c /\ c[a.seq] # a.hash
  <2>1. a.seq \in cmp.mismatched
    BY <1>3, <1>6 DEF Compare
  <2>2. QED
    BY <2>1 DEF Consistent
<1>7. QED
  BY <1>2, <1>3, <1>4, <1>5, <1>6

\* A comparison of a disowned chain counts anchors of other chains.
LEMMA DisownedIsCounted ==
    ASSUME Disowns(AnchorsRead, check.chain)
    PROVE  Compare(check.chain, AnchorsRead).other # {}
<1>1. PICK a \in AnchorsRead : check.chain = <<>> \/ a.chain # check.chain[1]
  BY DEF Disowns
<1>2. a \in Compare(check.chain, AnchorsRead).other
  BY <1>1 DEF Compare
<1>3. QED
  BY <1>2

\* The steps of a check keep them: what it compares is what it read.
LEMMA CheckKeeps ==
    ASSUME LogType, LogInv,
           CheckChain \/ CheckNoStore \/ CheckRefused \/ CheckAnchors \/ CheckEnd
    PROVE  LogInv'
<1> USE DEF LogInv
<1>1. UNCHANGED <<log, altered>> /\ (pc = "closed" => pc' = "closed")
  BY DEF CheckChain, CheckNoStore, CheckRefused, CheckAnchors, CheckEnd, Leave, control, log
<1>2. AnchorsRead' = AnchorsRead
  BY <1>1 DEF AnchorsRead, log
<1>3. HeadAgrees' /\ AnchorsArePast' /\ StartIsPast' /\ AnchorsAreOurs'
  BY <1>1, <1>2 DEF HeadAgrees, AnchorsArePast, StartIsPast, Past, AnchorsAreOurs, log
<1>4. Shows(altered', AnchorsRead', Chain(lines'))
  BY <1>1, <1>2 DEF AlterationShows, log
<1> SUFFICES /\ check'.at = "chain" => Shows(check'.late, AnchorsRead, check'.chain)
             /\ check'.at # "done" => ~check'.journal_checked
             /\ check'.journal_checked =>
                  /\ check'.late = "tail" => ~check'.consistent
                  /\ check'.late = "start" => ~check'.consistent \/ check'.other_chains
  BY <1>2, <1>3, <1>4 DEF AlterationShows, AlterationIsReported
<1>5. CASE CheckChain
  <2>1. /\ check'.chain = Chain(lines) /\ check'.late = altered /\ ~check'.journal_checked
    BY <1>5 DEF CheckChain, NoCheck
  <2>2. QED
    BY <2>1 DEF AlterationShows
<1>6. CASE CheckRefused
  BY <1>6 DEF CheckRefused, NoCheck
<1>10. CASE CheckNoStore
  BY <1>10 DEF CheckNoStore, NoCheck
<1>7. CASE CheckAnchors
  <2>0. check \in AuditCheck
    BY DEF LogType
  <2> DEFINE cmp == Compare(check.chain, AnchorsRead)
  <2>b. PICK agree \in BOOLEAN, other \in BOOLEAN :
          agree = Consistent(cmp) /\ other = (cmp.other # {})
    BY DEF Consistent
  <2>c. PICK rest : rest = (Len(check.chain) - Cardinality(cmp.matched)
                              - Cardinality(cmp.mismatched)) % Word
    OBVIOUS
  <2>1. /\ check.at = "chain"
        /\ \/ check' = [check EXCEPT !.at = "done", !.journal_checked = TRUE,
                          !.consistent = agree, !.other_chains = other, !.unanchored = rest]
           \/ check' = [check EXCEPT !.at = "done", !.consistent = TRUE]
    BY <1>7, <2>b, <2>c DEF CheckAnchors
  <2>2. Shows(check.late, AnchorsRead, check.chain) /\ ~check.journal_checked
    BY <2>1 DEF AlterationShows
  <2>3. check.late = "tail" => ~agree
    BY <2>b, <2>2, ContradictedIsInconsistent DEF Shows
  <2>4. check.late = "start" => other
    BY <2>b, <2>2, DisownedIsCounted DEF Shows
  <2> HIDE DEF cmp
  <2>5. CASE check' = [check EXCEPT !.at = "done", !.journal_checked = TRUE,
                         !.consistent = agree, !.other_chains = other, !.unanchored = rest]
    <3>1. /\ check'.at = "done" /\ check'.late = check.late
          /\ check'.consistent = agree /\ check'.other_chains = other
      BY <2>0, <2>5 DEF AuditCheck
    <3>2. QED
      BY <2>3, <2>4, <3>1
  <2>6. CASE check' = [check EXCEPT !.at = "done", !.consistent = TRUE]
    <3>1. check'.at = "done" /\ check'.journal_checked = check.journal_checked
      BY <2>0, <2>6 DEF AuditCheck
    <3>2. QED
      BY <2>2, <3>1
  <2>7. QED
    BY <2>1, <2>5, <2>6
<1>8. CASE CheckEnd
  BY <1>8 DEF CheckEnd, NoCheck
<1>9. QED
  BY <1>5, <1>6, <1>7, <1>8, <1>10

\* Every step keeps the invariants of the log.
LEMMA LogInvStep ==
    ASSUME LogType, LogInv, [Next]_vars
    PROVE  LogInv'
<1>l. LogSteps
  BY LogStepKinds
<1>1. CASE UNCHANGED <<log, altered, check>> /\ (pc = "closed" => pc' = "closed")
  BY <1>1 DEF log, LogInv, HeadAgrees, AnchorsArePast, StartIsPast, Past,
     AnchorsAreOurs, AlterationShows, AlterationIsReported, AnchorsRead
<1>2. CASE pc # "closed" /\ UNCHANGED <<altered, check>> /\ Audit
  BY <1>2, AuditKeeps
<1>3. CASE pc # "closed" /\ UNCHANGED <<altered, check>> /\ AuditFails
  BY <1>3, AuditFailsKeeps
<1>4. CASE Open
  <2>1. /\ UNCHANGED <<lines, journal, clock, altered, check>> /\ head' = HeadOf(lines)
        /\ AnchorsRead' = AnchorsRead
    BY <1>4 DEF Open, AnchorsRead
  <2>2. HeadOf(lines).seq = Len(lines) /\ Len(lines) \in Nat
    BY LenProperties DEF HeadOf, Genesis, LogType
  <2>3. HeadAgrees'
    BY <2>1, <2>2 DEF HeadAgrees
  <2>4. StartIsPast'
    <3>1. lines # <<>> => lines[1].entry.time < clock /\ lines[1] \in LogLine
      BY EmptySeq DEF LogInv, StartIsPast, LogType
    <3>2. HeadOf(lines).first = IF lines = <<>> THEN GENESIS ELSE LineHash(lines[1])
      BY DEF HeadOf, Genesis
    <3>3. lines # <<>> => Past(LineHash(lines[1]))
      <4> HAVE lines # <<>>
      <4>1. /\ LineHash(lines[1]) # <<>>
            /\ LineHash(lines[1])[Len(LineHash(lines[1]))] = <<lines[1].seq, lines[1].entry>>
        BY <3>1, HashOfLine
      <4>2. QED
        BY <3>1, <4>1 DEF Past
    <3>4. QED
      BY <2>1, <3>1, <3>2, <3>3 DEF StartIsPast, Past
  <2>5. QED
    BY <2>1, <2>3, <2>4 DEF LogInv, AnchorsArePast, Past, AnchorsAreOurs, AlterationShows,
       AlterationIsReported
<1>5. CASE EnvAlter
  BY <1>5, EnvAlterKeeps
<1>6. CASE CheckChain \/ CheckNoStore \/ CheckRefused \/ CheckAnchors \/ CheckEnd
  BY <1>6, CheckKeeps
<1>7. QED
  BY <1>l, <1>1, <1>2, <1>3, <1>4, <1>5, <1>6 DEF LogSteps

----------------------------------------------------------------------------
(* The theorems.                                                           *)

\* The initial states satisfy the invariant.
LEMMA InitInv == Init => IInv
<1> SUFFICES ASSUME Init PROVE IInv
  OBVIOUS
<1>1. FilesType
  BY WindowsAssumption DEF Init, FilesType
<1>2. StoreType
  BY WindowsAssumption DEF Init, StoreType, NoOriginal, ItemState
<1>3. ControlType
  BY OpTyped DEF Init, ControlType, Control
<1>4. LogType
  <2>1. <<>> \in Seq(LogLine) /\ <<>> \in Hash /\ <<>> \in Seq(Hash) /\ 0 \in 0..Word - 1
    BY WindowsAssumption, EmptySeq DEF Hash
  <2>2. Genesis \in [seq : Nat, hash : Hash, first : Hash]
    BY <2>1 DEF Genesis, GENESIS
  <2>3. QED
    BY <2>1, <2>2 DEF Init, LogType, NoCheck, AuditCheck, Alteration
<1>5. StoreInv
  BY DEF Init, StoreInv, QuarantinePhase, ManagePhase, RecoverPhase, CopiesAgree,
     RemovedIsGone, NothingLost, QuarantineSteps, RestoreSteps, DeleteSteps,
     RecoverSteps, NoOriginal
<1>6. LogInv
  BY DEF Init, LogInv, HeadAgrees, AnchorsArePast, StartIsPast, AnchorsAreOurs, Shows,
     AlterationShows, AlterationIsReported, AnchorsRead, NoCheck, Genesis
<1>7. QED
  BY <1>1, <1>2, <1>3, <1>4, <1>5, <1>6 DEF IInv, TypeOK

\* Every step keeps it.
LEMMA StepInv == IInv /\ [Next]_vars => IInv'
<1> SUFFICES ASSUME IInv, [Next]_vars PROVE IInv'
  OBVIOUS
<1>1. FilesType /\ StoreType /\ ControlType /\ LogType /\ StoreInv /\ LogInv
  BY DEF IInv, TypeOK
<1>2. QuarantinePhase /\ ManagePhase /\ RecoverPhase /\ CopiesAgree
  BY <1>1 DEF StoreInv
<1>3. TypeOK'
  BY <1>1, <1>2, FilesTypeStep, StoreTypeStep, ControlTypeStep, LogTypeStep DEF TypeOK
<1>4. StoreInv'
  BY <1>1, QuarantinePhaseStep, ManagePhaseStep, RecoverPhaseStep, CopiesAgreeStep,
     RemovedIsGoneStep, NothingLostStep DEF StoreInv
<1>5. LogInv'
  BY <1>1, LogInvStep
<1>6. QED
  BY <1>3, <1>4, <1>5 DEF IInv

\* The invariant holds in every reachable state of the Windows store: with any
\* calls of its other operations, failures, crashes and other programs.
THEOREM Invariance == Spec => []IInv
BY InitInv, StepInv, PTL DEF Spec

\* Content the Windows store removed is in the store, unchanged, until it was
\* given back or its deletion was asked for.
THEOREM WindowsNothingLost == Spec => []NothingLost
<1>1. IInv => NothingLost
  BY DEF IInv, StoreInv
<1>2. QED
  BY <1>1, Invariance, PTL

\* The Windows store implements Custody, the promise it shares with the Linux
\* store: an item's content leaves its place only for the store, and the store
\* only when it is at home, was given back or was to be deleted, and its record
\* says so.
THEOREM WindowsImplementsCustody == Spec => ImplementsCustody
<1>1. Init => Promise!Init
  <2>1. SUFFICES ASSUME Init PROVE Promise!Init
    OBVIOUS
  <2>2. back = {} /\ \A id \in Id : removed[id] = NoFile /\ data[id] = NoFile
    BY <2>1 DEF Init
  <2>3. \A id \in Id : PlaceOf(id) = {"home"}
    BY <2>2 DEF PlaceOf, Verified
  <2>4. /\ st = [id \in Id |-> "absent"] /\ purged = {}
        /\ [id \in Id |-> PlaceOf(id)] = [id \in Id |-> {"home"}]
    BY <2>1, <2>3 DEF Init
  <2>5. QED
    BY <2>4 DEF Promise!Init
<1>2. IInv /\ [Next]_vars => [Promise!Next]_(Promise!vars)
  BY SimulationStep DEF IInv, TypeOK
<1>3. QED
  BY <1>1, <1>2, Invariance, PTL DEF Spec, ImplementsCustody, Promise!Spec

\* threat-model.md: "a forged but self-consistent local chain no longer matches
\* its anchors": no audit check that read the anchors after an anchored entry
\* was edited or cut off calls the log consistent, however many entries were
\* added since; if the first entry was, it counts anchors of other chains.
\* (A check that cannot read the anchors calls any log consistent: the
\* violation run of ConsistentIsVerified.)
THEOREM AlterationReported == Spec => []AlterationIsReported
<1>1. IInv => AlterationIsReported
  BY DEF IInv, LogInv
<1>2. QED
  BY <1>1, Invariance, PTL
============================================================================
