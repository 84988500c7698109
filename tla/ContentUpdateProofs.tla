------------------------ MODULE ContentUpdateProofs ------------------------
(***************************************************************************)
(* Proofs about ContentUpdate, for any number of commands, bundles and     *)
(* releases.                                                               *)
(*                                                                         *)
(* Everything rests on the lock.  CommandStep reduces the 20 actions to    *)
(* six kinds of step of one command, and AgreesStep shows from them that   *)
(* the command that has opened the state is the only one, and that it      *)
(* works on what the file holds until it saves.  What it saves is what it  *)
(* read, or that with entries raised (FileStep), so the file only grows.   *)
(* What a scan is given passed the check against the file and is in the    *)
(* file it saves (ServedIsChecked), which is why a later scan is never     *)
(* given anything older.                                                   *)
(*                                                                         *)
(* The last part follows the directories through an update: where the      *)
(* copies of an installed bundle are at each step of the swap, whether it  *)
(* is killed there or a rename fails.                                      *)
(***************************************************************************)
EXTENDS ContentUpdate, SequenceTheorems, FiniteSetTheorems, TLAPS

---------------------------------------------------------------------------
(* The operators of the content state *)

\* g is f, or what accepting bundles and timestamps makes of f.
Grows(f, g) ==
  /\ f.revoked \subseteq g.revoked
  /\ \A n \in Name :
       /\ g.stamps[n] >= f.stamps[n]
       /\ f.bundles[n] # None =>
            /\ g.bundles[n] # None
            /\ \/ g.bundles[n] = f.bundles[n]
               \/ g.bundles[n].sequence > f.bundles[n].sequence

\* What is accepted has a sequence, and is not the absence of an entry.
LEMMA AcceptedType ==
    /\ \A m \in Offered : /\ m.name \in Name /\ m.sequence \in Nat /\ m.revokes \in SUBSET Key
                          /\ [sequence |-> m.sequence, id |-> m.id] \in Accepted
    /\ \A r \in Accepted : r.sequence \in Nat
BY DirAssumption DEF Offered, Accepted

LEMMA GrowsReflexive == ASSUME NEW f \in State PROVE Grows(f, f)
BY DEF Grows, State

LEMMA GrowsTransitive ==
    ASSUME NEW f \in State, NEW g \in State, NEW h \in State, Grows(f, g), Grows(g, h)
    PROVE  Grows(f, h)
<1>1. f.revoked \subseteq h.revoked
  BY DEF Grows
<1>2. ASSUME NEW n \in Name PROVE h.stamps[n] >= f.stamps[n]
  BY DEF Grows, State
<1>3. ASSUME NEW n \in Name, f.bundles[n] # None
      PROVE  /\ h.bundles[n] # None
             /\ \/ h.bundles[n] = f.bundles[n]
                \/ h.bundles[n].sequence > f.bundles[n].sequence
  <2>1. g.bundles[n] # None /\ h.bundles[n] # None
    BY <1>3 DEF Grows
  <2>2. f.bundles[n].sequence \in Nat /\ g.bundles[n].sequence \in Nat /\ h.bundles[n].sequence \in Nat
    BY <1>3, <2>1, AcceptedType DEF State
  <2>3. QED
    BY <1>3, <2>1, <2>2 DEF Grows
<1>4. QED
  BY <1>1, <1>2, <1>3 DEF Grows

\* Recording an accepted bundle raises its entry or leaves it.
LEMMA RecordStep ==
    ASSUME NEW f \in State, NEW m \in Offered
    PROVE  Record(f, m) \in State /\ Grows(f, Record(f, m))
<1> DEFINE r == f.bundles[m.name]
           new == IF r = None \/ m.sequence > r.sequence
                  THEN [sequence |-> m.sequence, id |-> m.id] ELSE r
<1>1. m.name \in Name /\ m.revokes \in SUBSET Key /\ new \in Accepted \cup {None}
  BY AcceptedType DEF State
<1>2. /\ Record(f, m).revoked = f.revoked \cup m.revokes
      /\ Record(f, m).bundles = [f.bundles EXCEPT ![m.name] = new]
      /\ Record(f, m).stamps = f.stamps
  BY <1>1 DEF Record, State
<1>3. [f.bundles EXCEPT ![m.name] = new] \in [Name -> Accepted \cup {None}]
  BY <1>1 DEF State
<1>4. f.revoked \cup m.revokes \in SUBSET Key
  BY <1>1 DEF State
<1>5. Record(f, m) \in State
  BY <1>1, <1>2, <1>3, <1>4 DEF Record, State
<1>6. Grows(f, Record(f, m))
  <2>1. f.revoked \subseteq Record(f, m).revoked
    BY <1>2
  <2>2. \A n \in Name : Record(f, m).stamps[n] >= f.stamps[n]
    BY <1>2 DEF State
  <2>3. ASSUME NEW n \in Name, f.bundles[n] # None
        PROVE  /\ Record(f, m).bundles[n] # None
               /\ \/ Record(f, m).bundles[n] = f.bundles[n]
                  \/ Record(f, m).bundles[n].sequence > f.bundles[n].sequence
    <3>1. CASE n # m.name
      <4>1. Record(f, m).bundles[n] = f.bundles[n]
        BY <1>2, <3>1 DEF State
      <4>2. QED BY <2>3, <4>1
    <3>2. CASE n = m.name
      <4>1. Record(f, m).bundles[n] = new
        BY <1>1, <1>2, <3>2 DEF State
      <4>2. CASE m.sequence > r.sequence
        <5>1. new = [sequence |-> m.sequence, id |-> m.id]
          BY <4>2
        <5>2. new.sequence = m.sequence /\ new # None
          BY <5>1, NoneAssumption DEF Offered
        <5>3. QED BY <3>2, <4>1, <4>2, <5>2
      <4>3. CASE ~(m.sequence > r.sequence)
        BY <2>3, <3>2, <4>1, <4>3
      <4>4. QED BY <4>2, <4>3
    <3>3. QED BY <3>1, <3>2
  <2>4. QED
    BY <2>1, <2>2, <2>3 DEF Grows
<1>7. QED
  BY <1>5, <1>6

\* Recording a timestamp raises its version or leaves it.
LEMMA RecordTimestampStep ==
    ASSUME NEW f \in State, NEW s \in Stamp
    PROVE  RecordTimestamp(f, s.ts) \in State /\ Grows(f, RecordTimestamp(f, s.ts))
<1> DEFINE b == s.ts.bundle
           v == Larger(f.stamps[b], s.ts.version)
<1>1. b \in Name /\ s.ts.version \in Nat /\ f.stamps[b] \in Nat
  BY StampAssumption DEF State
<1>2. v \in Nat /\ v >= f.stamps[b]
  BY <1>1 DEF Larger
<1>3. RecordTimestamp(f, s.ts) = [bundles |-> f.bundles, revoked |-> f.revoked,
                                  stamps |-> [f.stamps EXCEPT ![b] = v]]
  BY <1>1 DEF RecordTimestamp, State
<1>4. [f.stamps EXCEPT ![b] = v] \in [Name -> Nat]
  BY <1>1, <1>2 DEF State
<1>5. RecordTimestamp(f, s.ts) \in State
  BY <1>3, <1>4 DEF State
<1>6. \A n \in Name : [f.stamps EXCEPT ![b] = v][n] >= f.stamps[n]
  BY <1>1, <1>2 DEF State
<1>7. Grows(f, RecordTimestamp(f, s.ts))
  BY <1>3, <1>6 DEF Grows
<1>8. QED
  BY <1>5, <1>7

\* Recording all bundles of a scan.
LEMMA RecordAllStep ==
    ASSUME NEW f \in State, NEW ms \in SUBSET Offered
    PROVE  RecordAll(f, ms) \in State /\ Grows(f, RecordAll(f, ms))
<1> DEFINE of(n) == CHOOSE m \in ms : m.name = n
           new == [n \in Name |-> IF \E m \in ms : m.name = n
                                  THEN Record(f, of(n)).bundles[n] ELSE f.bundles[n]]
<1>1. \A n \in Name : (\E m \in ms : m.name = n) => of(n) \in Offered
  OBVIOUS
<1>2. ASSUME NEW n \in Name
      PROVE  /\ new[n] \in Accepted \cup {None}
             /\ f.bundles[n] # None =>
                  /\ new[n] # None
                  /\ new[n] = f.bundles[n] \/ new[n].sequence > f.bundles[n].sequence
  <2>1. CASE \E m \in ms : m.name = n
    <3>1. new[n] = Record(f, of(n)).bundles[n] /\ of(n) \in Offered
      BY <1>1, <2>1
    <3>2. Record(f, of(n)) \in State /\ Grows(f, Record(f, of(n)))
      BY <3>1, RecordStep
    <3>3. QED BY <3>1, <3>2 DEF State, Grows
  <2>2. CASE ~ \E m \in ms : m.name = n
    <3>1. new[n] = f.bundles[n]
      BY <2>2
    <3>2. QED BY <3>1 DEF State
  <2>3. QED BY <2>1, <2>2
<1>3. RecordAll(f, ms) = [bundles |-> new, revoked |-> f.revoked \cup UNION {m.revokes : m \in ms},
                          stamps |-> f.stamps]
  BY DEF RecordAll
<1>4. f.revoked \cup UNION {m.revokes : m \in ms} \in SUBSET Key
  BY AcceptedType DEF State
<1>5. new \in [Name -> Accepted \cup {None}]
  BY <1>2
<1>6. RecordAll(f, ms) \in State
  BY <1>3, <1>4, <1>5 DEF State
<1>7. \A n \in Name : f.stamps[n] >= f.stamps[n]
  BY DEF State
<1>8. Grows(f, RecordAll(f, ms))
  BY <1>2, <1>3, <1>7 DEF Grows
<1>9. QED
  BY <1>6, <1>8

\* Revoking marks the keys named and changes nothing else of a set of keys.
LEMMA RevokeStep ==
    ASSUME NEW t \in TrustSet, NEW ids
    PROVE  /\ Revoke(t, ids) \in TrustSet
           /\ Revoke(t, ids).threshold = t.threshold /\ Revoke(t, ids).floor = t.floor
           /\ \A k \in Revoke(t, ids).keys :
                /\ k.id \in ids => k.revoked
                /\ \E old \in t.keys : old.id = k.id /\ (old.revoked => k.revoked)
<1> DEFINE mark(k) == [k EXCEPT !.revoked = @ \/ k.id \in ids]
<1>1. \A k \in t.keys : /\ mark(k) \in TrustedKey /\ mark(k).id = k.id
                        /\ mark(k).revoked = (k.revoked \/ k.id \in ids)
  BY DEF TrustSet, TrustedKey
<1>2. Revoke(t, ids) = [keys |-> {mark(k) : k \in t.keys}, threshold |-> t.threshold, floor |-> t.floor]
  <2>1. \A S : [t EXCEPT !.keys = S] = [keys |-> S, threshold |-> t.threshold, floor |-> t.floor]
    BY DEF TrustSet
  <2>2. Revoke(t, ids) = [t EXCEPT !.keys = {mark(k) : k \in t.keys}]
    BY DEF Revoke
  <2>3. QED BY <2>1, <2>2
<1>3. {mark(k) : k \in t.keys} \in SUBSET TrustedKey
  BY <1>1
<1>4. Revoke(t, ids) \in TrustSet
  BY <1>2, <1>3 DEF TrustSet
<1>5. ASSUME NEW k \in Revoke(t, ids).keys
      PROVE  /\ k.id \in ids => k.revoked
             /\ \E old \in t.keys : old.id = k.id /\ (old.revoked => k.revoked)
  <2>1. PICK old \in t.keys : k = mark(old)
    BY <1>2, <1>5
  <2>2. QED BY <1>1, <2>1
<1>6. QED
  BY <1>2, <1>4, <1>5

---------------------------------------------------------------------------
(* The type invariant *)

\* The clock and the counters.
LEMMA CounterTypeStep ==
    ASSUME TypeOK, [Next]_vars
    PROVE  /\ now' \in 1..MaxTime
           /\ runs' \in 0..MaxRuns
           /\ crashes' \in 0..MaxCrashes
<1>t. /\ now \in 1..MaxTime
      /\ runs \in 0..MaxRuns
      /\ crashes \in 0..MaxCrashes
  BY DEF TypeOK
<1> USE <1>t, BoundAssumption
    DEF disk, history
<1>1. CASE \E p \in Proc, args \in Args : StartUpdate(p, args)
  BY <1>1 DEF StartUpdate
<1>2. CASE \E p \in Proc, args \in Args, op \in {"scan", "verify"}, given \in Given, i \in BOOLEAN :
            StartScan(p, args, op, given, i)
  BY <1>2 DEF StartScan
<1>3. CASE \E p \in Proc : FetchTimestamp(p) BY <1>3 DEF FetchTimestamp
<1>4. CASE \E p \in Proc : Open(p) BY <1>4 DEF Open
<1>5. CASE \E p \in Proc : AcceptTimestamp(p) BY <1>5 DEF AcceptTimestamp, Ended
<1>6. CASE \E p \in Proc : Recover(p) BY <1>6 DEF Recover
<1>7. CASE \E p \in Proc : AlreadyCurrent(p) BY <1>7 DEF AlreadyCurrent, Ended
<1>8. CASE \E p \in Proc : CreateStaging(p) BY <1>8 DEF CreateStaging
<1>9. CASE \E p \in Proc : Download(p) BY <1>9 DEF Download
<1>10. CASE \E p \in Proc : DownloadFails(p)
  BY <1>10 DEF DownloadFails, Ended, Drop
<1>11. CASE \E p \in Proc : VerifyStaged(p) BY <1>11 DEF VerifyStaged, Ended, Drop
<1>12. CASE \E p \in Proc : SetAside(p) BY <1>12 DEF SetAside
<1>13. CASE \E p \in Proc : SetAsideFails(p)
  BY <1>13 DEF SetAsideFails, Ended, Drop
<1>14. CASE \E p \in Proc : SwapIn(p) BY <1>14 DEF SwapIn, Drop
<1>15. CASE \E p \in Proc : SwapFails(p) BY <1>15 DEF SwapFails, Drop, Ended
<1>16. CASE \E p \in Proc : RecordUpdate(p) BY <1>16 DEF RecordUpdate, Ended
<1>17. CASE \E p \in Proc : RemoveOld(p) BY <1>17 DEF RemoveOld, Ended
<1>18. CASE \E p \in Proc : Load(p) BY <1>18 DEF Load, Ended
<1>19. CASE \E p \in Proc : Kill(p) BY <1>19 DEF Kill, Ended
<1>20. CASE Tick BY <1>20 DEF Tick
<1>21. CASE UNCHANGED vars BY <1>21 DEF vars
<1>22. QED
  BY <1>1, <1>2, <1>3, <1>4, <1>5, <1>6, <1>7, <1>8, <1>9, <1>10, <1>11, <1>12,
     <1>13, <1>14, <1>15, <1>16, <1>17, <1>18, <1>19, <1>20, <1>21
  DEF Next

\* The directories below content_dir.
LEMMA DiskTypeStep ==
    ASSUME TypeOK, UpdateAgrees, [Next]_vars
    PROVE  /\ installed' \in [Name -> Dir \cup {None}]
           /\ aside' \subseteq Copy
           /\ staging' \subseteq [name: Name, dir: Dir \cup {None}]
           /\ had' \in SUBSET Name
<1>t. /\ installed \in [Name -> Dir \cup {None}]
      /\ aside \subseteq Copy
      /\ staging \subseteq [name: Name, dir: Dir \cup {None}]
      /\ had \in SUBSET Name
      /\ run \in [Proc -> Run \cup {Idle}]
  BY DEF TypeOK
<1>r. \A p \in Proc : run[p].pc # "idle" => run[p] \in Run
  BY <1>t DEF Idle
<1>n. \A p \in Proc : run[p].pc \in Locked \ {"load"} =>
        /\ run[p] \in Run /\ run[p].stamp \in Stamp /\ run[p].stamp.ts.bundle \in Name
        /\ run[p].pc \in {"verify", "aside", "swap", "record", "cleanup"} => run[p].dir \in Dir
  <2>1. TAKE p \in Proc
  <2>2. HAVE run[p].pc \in Locked \ {"load"}
  <2>3. run[p] \in Run /\ run[p] # Idle
    BY <1>r, <2>2 DEF Locked, Idle
  <2>4. QED
    BY <2>2, <2>3, StampAssumption DEF UpdateAgrees
<1> USE <1>t
    DEF disk, history
<1>1. CASE \E p \in Proc, args \in Args : StartUpdate(p, args)
  BY <1>1 DEF StartUpdate
<1>2. CASE \E p \in Proc, args \in Args, op \in {"scan", "verify"}, given \in Given, i \in BOOLEAN :
            StartScan(p, args, op, given, i)
  BY <1>2 DEF StartScan
<1>3. CASE \E p \in Proc : FetchTimestamp(p) BY <1>3 DEF FetchTimestamp
<1>4. CASE \E p \in Proc : Open(p) BY <1>4 DEF Open
<1>5. CASE \E p \in Proc : AcceptTimestamp(p) BY <1>5 DEF AcceptTimestamp, Ended
<1>6. CASE \E p \in Proc : Recover(p)
  <2>1. PICK p \in Proc : Recover(p)
    BY <1>6
  <2>2. run[p].stamp.ts.bundle \in Name
    BY <2>1, <1>n DEF Recover, Locked
  <2>3. staging' \subseteq staging /\ UNCHANGED had
    BY <2>1 DEF Recover
  <2>4. aside' \subseteq aside
    BY <2>1 DEF Recover
  <2>5. \/ UNCHANGED installed
        \/ \E back \in aside : installed' = [installed EXCEPT ![run[p].stamp.ts.bundle] = back.dir]
    BY <2>1 DEF Recover, OfName
  <2>6. installed' \in [Name -> Dir \cup {None}]
    BY <2>2, <2>5 DEF Copy
  <2>7. QED
    BY <2>3, <2>4, <2>6
<1>7. CASE \E p \in Proc : AlreadyCurrent(p) BY <1>7 DEF AlreadyCurrent, Ended
<1>8. CASE \E p \in Proc : CreateStaging(p) BY <1>8, <1>n DEF CreateStaging, Locked
<1>9. CASE \E p \in Proc : Download(p)
  <2>1. PICK p \in Proc : Download(p)
    BY <1>9
  <2>2. run[p].stamp.ts.bundle \in Name
    BY <2>1, <1>n DEF Download, Locked
  <2>3. QED
    BY <2>1, <2>2 DEF Download
<1>10. CASE \E p \in Proc : DownloadFails(p)
  BY <1>10 DEF DownloadFails, Ended, Drop
<1>11. CASE \E p \in Proc : VerifyStaged(p) BY <1>11 DEF VerifyStaged, Ended, Drop
<1>12. CASE \E p \in Proc : SetAside(p)
  <2>1. PICK p \in Proc : SetAside(p)
    BY <1>12
  <2>2. run[p].stamp.ts.bundle \in Name
    BY <2>1, <1>n DEF SetAside, Locked
  <2>3. QED
    BY <2>1, <2>2 DEF SetAside, Copy
<1>13. CASE \E p \in Proc : SetAsideFails(p)
  BY <1>13 DEF SetAsideFails, Ended, Drop
<1>14. CASE \E p \in Proc : SwapIn(p)
  <2>1. PICK p \in Proc : SwapIn(p)
    BY <1>14
  <2>2. run[p].stamp.ts.bundle \in Name /\ run[p].dir \in Dir
    BY <2>1, <1>n DEF SwapIn, Locked
  <2>3. QED
    BY <2>1, <2>2 DEF SwapIn, Drop
<1>15. CASE \E p \in Proc : SwapFails(p)
  <2>1. PICK p \in Proc : SwapFails(p)
    BY <1>15
  <2>2. run[p].stamp.ts.bundle \in Name /\ run[p] \in Run
    BY <2>1, <1>n DEF SwapFails, Locked
  <2>3. run[p].old # None => run[p].old.dir \in Dir
    BY <2>2 DEF Run, Copy
  <2>4. QED
    BY <2>1, <2>2, <2>3 DEF SwapFails, Drop
<1>16. CASE \E p \in Proc : RecordUpdate(p) BY <1>16 DEF RecordUpdate, Ended
<1>17. CASE \E p \in Proc : RemoveOld(p) BY <1>17 DEF RemoveOld, Ended
<1>18. CASE \E p \in Proc : Load(p) BY <1>18 DEF Load, Ended
<1>19. CASE \E p \in Proc : Kill(p) BY <1>19 DEF Kill, Ended
<1>20. CASE Tick BY <1>20 DEF Tick
<1>21. CASE UNCHANGED vars BY <1>21 DEF vars
<1>22. QED
  BY <1>1, <1>2, <1>3, <1>4, <1>5, <1>6, <1>7, <1>8, <1>9, <1>10, <1>11, <1>12,
     <1>13, <1>14, <1>15, <1>16, <1>17, <1>18, <1>19, <1>20, <1>21
  DEF Next

\* The lock.
LEMMA LockTypeStep ==
    ASSUME TypeOK, [Next]_vars
    PROVE  /\ lock' \in Proc \cup {None}
<1>t. /\ lock \in Proc \cup {None}
  BY DEF TypeOK
<1> USE <1>t
    DEF disk, history
<1>1. CASE \E p \in Proc, args \in Args : StartUpdate(p, args)
  BY <1>1 DEF StartUpdate
<1>2. CASE \E p \in Proc, args \in Args, op \in {"scan", "verify"}, given \in Given, i \in BOOLEAN :
            StartScan(p, args, op, given, i)
  BY <1>2 DEF StartScan
<1>3. CASE \E p \in Proc : FetchTimestamp(p) BY <1>3 DEF FetchTimestamp
<1>4. CASE \E p \in Proc : Open(p) BY <1>4 DEF Open
<1>5. CASE \E p \in Proc : AcceptTimestamp(p) BY <1>5 DEF AcceptTimestamp, Ended
<1>6. CASE \E p \in Proc : Recover(p) BY <1>6 DEF Recover
<1>7. CASE \E p \in Proc : AlreadyCurrent(p) BY <1>7 DEF AlreadyCurrent, Ended
<1>8. CASE \E p \in Proc : CreateStaging(p) BY <1>8 DEF CreateStaging
<1>9. CASE \E p \in Proc : Download(p) BY <1>9 DEF Download
<1>10. CASE \E p \in Proc : DownloadFails(p)
  BY <1>10 DEF DownloadFails, Ended, Drop
<1>11. CASE \E p \in Proc : VerifyStaged(p) BY <1>11 DEF VerifyStaged, Ended, Drop
<1>12. CASE \E p \in Proc : SetAside(p) BY <1>12 DEF SetAside
<1>13. CASE \E p \in Proc : SetAsideFails(p)
  BY <1>13 DEF SetAsideFails, Ended, Drop
<1>14. CASE \E p \in Proc : SwapIn(p) BY <1>14 DEF SwapIn, Drop
<1>15. CASE \E p \in Proc : SwapFails(p) BY <1>15 DEF SwapFails, Drop, Ended
<1>16. CASE \E p \in Proc : RecordUpdate(p) BY <1>16 DEF RecordUpdate, Ended
<1>17. CASE \E p \in Proc : RemoveOld(p) BY <1>17 DEF RemoveOld, Ended
<1>18. CASE \E p \in Proc : Load(p) BY <1>18 DEF Load, Ended
<1>19. CASE \E p \in Proc : Kill(p) BY <1>19 DEF Kill, Ended
<1>20. CASE Tick BY <1>20 DEF Tick
<1>21. CASE UNCHANGED vars BY <1>21 DEF vars
<1>22. QED
  BY <1>1, <1>2, <1>3, <1>4, <1>5, <1>6, <1>7, <1>8, <1>9, <1>10, <1>11, <1>12,
     <1>13, <1>14, <1>15, <1>16, <1>17, <1>18, <1>19, <1>20, <1>21
  DEF Next

\* A command that starts.
LEMMA StartType ==
    ASSUME NEW op \in {"update", "scan", "verify"}, NEW args \in Args, FromArgsOk(args), now \in 1..MaxTime
    PROVE  /\ \A keys \in TrustSet :
                [Start(op, args) EXCEPT !.keys = keys, !.pc = "fetch"] \in Run
           /\ \A dirs \in Seq([name: Name, dir: Dir \cup {None}]) :
                [Start(op, args) EXCEPT !.dirs = dirs, !.pc = "open"] \in Run
<1>1. FromArgs(args) \in TrustSet /\ args.expired \in BOOLEAN
  BY ArgsAssumption
<1>2. NoFile \in State
  BY DEF NoFile, State
<1>3. <<>> \in Seq([name: Name, dir: Dir \cup {None}])
  BY EmptySeq
<1>4. QED
  BY <1>1, <1>2, <1>3 DEF Start, Run

\* The directories a scan lists.
LEMMA ListedType ==
    ASSUME NEW given \in Given, NEW names \in Found \cup {<<>>}
    PROVE  given \o [i \in DOMAIN names |-> [name |-> names[i], dir |-> None]]
             \in Seq([name: Name, dir: Dir \cup {None}])
<1> DEFINE D == [name: Name, dir: Dir \cup {None}]
           found == [i \in DOMAIN names |-> [name |-> names[i], dir |-> None]]
<1>1. PICK k \in Nat : names \in [1..k -> Name]
  <2>1. CASE names \in Found
    <3>1. PICK k \in 0..Cardinality(Name) : names \in [1..k -> Name]
      BY <2>1 DEF Found
    <3>2. QED BY <3>1
  <2>2. CASE names = <<>>
    BY <2>2
  <2>3. QED BY <2>1, <2>2
<1>2. found \in [1..k -> D]
  BY <1>1
<1>3. found \in Seq(D)
  BY <1>2
<1>4. given \in Seq(D)
  <2>1. CASE given = <<>> BY <2>1, EmptySeq
  <2>2. CASE given # <<>>
    <3>1. PICK d \in Dir : given = <<[name |-> d.manifest.name, dir |-> d]>>
      BY <2>2 DEF Given
    <3>2. [name |-> d.manifest.name, dir |-> d] \in D
      BY DirAssumption
    <3>3. QED BY <3>1, <3>2
  <2>3. QED BY <2>1, <2>2
<1>5. QED
  BY <1>3, <1>4, ConcatProperties

\* The commands.
LEMMA RunTypeStep ==
    ASSUME TypeOK, UpdateAgrees, [Next]_vars
    PROVE  /\ run' \in [Proc -> Run \cup {Idle}]
<1>t. /\ run \in [Proc -> Run \cup {Idle}]
      /\ now \in 1..MaxTime
      /\ installed \in [Name -> Dir \cup {None}]
      /\ file \in State
  BY DEF TypeOK
<1>r. \A p \in Proc : run[p].pc # "idle" => run[p] \in Run
  BY <1>t DEF Idle
<1> USE <1>t
    DEF disk, history
<1>1. CASE \E p \in Proc, args \in Args : StartUpdate(p, args)
  <2>1. PICK p \in Proc, args \in Args : StartUpdate(p, args)
    BY <1>1
  <2>2. FromArgsOk(args) /\ FromArgs(args) \in TrustSet
    BY <2>1, ArgsAssumption DEF StartUpdate
  <2>3. Revoke(FromArgs(args), file.revoked) \in TrustSet
    BY <2>2, RevokeStep
  <2>4. [Start("update", args) EXCEPT !.keys = Revoke(FromArgs(args), file.revoked), !.pc = "fetch"] \in Run
    BY <2>2, <2>3, StartType
  <2>5. QED
    BY <2>1, <2>4 DEF StartUpdate
<1>2. CASE \E p \in Proc, args \in Args, op \in {"scan", "verify"}, given \in Given, i \in BOOLEAN :
            StartScan(p, args, op, given, i)
  <2>1. PICK p \in Proc, args \in Args, op \in {"scan", "verify"}, given \in Given, i \in BOOLEAN :
          StartScan(p, args, op, given, i)
    BY <1>2
  <2>2. PICK names \in Found \cup {<<>>} :
          run' = [run EXCEPT ![p] = [Start(op, args) EXCEPT
            !.dirs = given \o [j \in DOMAIN names |-> [name |-> names[j], dir |-> None]], !.pc = "open"]]
    BY <2>1 DEF StartScan
  <2>3. given \o [j \in DOMAIN names |-> [name |-> names[j], dir |-> None]]
          \in Seq([name: Name, dir: Dir \cup {None}])
    BY ListedType
  <2>4. [Start(op, args) EXCEPT
            !.dirs = given \o [j \in DOMAIN names |-> [name |-> names[j], dir |-> None]], !.pc = "open"] \in Run
    BY <2>1, <2>3, StartType DEF StartScan
  <2>5. QED
    BY <2>2, <2>4
<1>3. CASE \E p \in Proc : FetchTimestamp(p)
  <2>1. PICK p \in Proc : FetchTimestamp(p)
    BY <1>3
  <2>2. run[p] \in Run
    BY <2>1, <1>r DEF FetchTimestamp
  <2>3. QED
    BY <2>1, <2>2 DEF FetchTimestamp, Ended, Run, Locked
<1>4. CASE \E p \in Proc : Open(p)
  <2>1. PICK p \in Proc : Open(p)
    BY <1>4
  <2>2. run[p] \in Run
    BY <2>1, <1>r DEF Open
  <2>3. Revoke(run[p].keys, file.revoked) \in TrustSet
    BY <2>2, RevokeStep DEF Run
  <2>4. QED
    BY <2>1, <2>2, <2>3 DEF Open, Run, Locked
<1>5. CASE \E p \in Proc : AcceptTimestamp(p)
  <2>1. PICK p \in Proc : AcceptTimestamp(p)
    BY <1>5
  <2>2. run[p] \in Run
    BY <2>1, <1>r DEF AcceptTimestamp
  <2>3. [run[p] EXCEPT !.pc = "recover"] \in Run
    BY <2>2 DEF Run, Locked
  <2>4. \/ run' = [run EXCEPT ![p] = [run[p] EXCEPT !.pc = "recover"]]
        \/ run' = [run EXCEPT ![p] = Idle]
    BY <2>1 DEF AcceptTimestamp, Ended
  <2>5. QED
    BY <2>3, <2>4
<1>6. CASE \E p \in Proc : Recover(p)
  <2>1. PICK p \in Proc : Recover(p)
    BY <1>6
  <2>2. run[p] \in Run
    BY <2>1, <1>r DEF Recover
  <2>3. QED
    BY <2>1, <2>2 DEF Recover, Ended, Run, Locked
<1>7. CASE \E p \in Proc : AlreadyCurrent(p)
  <2>1. PICK p \in Proc : AlreadyCurrent(p)
    BY <1>7
  <2>2. run[p] \in Run
    BY <2>1, <1>r DEF AlreadyCurrent
  <2>3. QED
    BY <2>1, <2>2 DEF AlreadyCurrent, Ended, Run, Locked
<1>8. CASE \E p \in Proc : CreateStaging(p)
  <2>1. PICK p \in Proc : CreateStaging(p)
    BY <1>8
  <2>2. run[p] \in Run
    BY <2>1, <1>r DEF CreateStaging
  <2>3. QED
    BY <2>1, <2>2 DEF CreateStaging, Ended, Run, Locked
<1>9. CASE \E p \in Proc : Download(p)
  <2>1. PICK p \in Proc : Download(p)
    BY <1>9
  <2>2. run[p] \in Run
    BY <2>1, <1>r DEF Download
  <2>3. QED
    BY <2>1, <2>2 DEF Download, Ended, Run, Locked
<1>10. CASE \E p \in Proc : DownloadFails(p)
  <2>1. PICK p \in Proc : DownloadFails(p)
    BY <1>10
  <2>2. run[p] \in Run
    BY <2>1, <1>r DEF DownloadFails
  <2>3. QED
    BY <2>1, <2>2 DEF DownloadFails, Ended, Run, Locked
<1>11. CASE \E p \in Proc : VerifyStaged(p)
  <2>1. PICK p \in Proc : VerifyStaged(p)
    BY <1>11
  <2>2. run[p] \in Run
    BY <2>1, <1>r DEF VerifyStaged
  <2>3. [run[p] EXCEPT !.pc = "aside"] \in Run
    BY <2>2 DEF Run, Locked
  <2>4. \/ run' = [run EXCEPT ![p] = [run[p] EXCEPT !.pc = "aside"]]
        \/ run' = [run EXCEPT ![p] = Idle]
    BY <2>1 DEF VerifyStaged, Ended
  <2>5. QED
    BY <2>3, <2>4
<1>12. CASE \E p \in Proc : SetAside(p)
  <2>1. PICK p \in Proc : SetAside(p)
    BY <1>12
  <2>2. run[p] \in Run /\ run[p] # Idle
    BY <2>1, <1>r DEF SetAside, Idle
  <2>3. run[p].stamp.ts.bundle \in Name
    BY <2>1, <2>2, StampAssumption DEF SetAside, UpdateAgrees, Locked
  <2>4. installed[run[p].stamp.ts.bundle] # None =>
          [name |-> run[p].stamp.ts.bundle, dir |-> installed[run[p].stamp.ts.bundle]] \in Copy
    BY <2>3 DEF Copy
  <2>5. CASE installed[run[p].stamp.ts.bundle] = None
    <3>1. [run[p] EXCEPT !.pc = "swap"] \in Run
      BY <2>2 DEF Run, Locked
    <3>2. run' = [run EXCEPT ![p] = [run[p] EXCEPT !.pc = "swap"]]
      BY <2>1, <2>5 DEF SetAside
    <3>3. QED BY <3>1, <3>2
  <2>6. CASE installed[run[p].stamp.ts.bundle] # None
    <3>1. PICK old \in Copy : old = [name |-> run[p].stamp.ts.bundle, dir |-> installed[run[p].stamp.ts.bundle]]
      BY <2>4, <2>6
    <3>2. [run[p] EXCEPT !.pc = "swap", !.old = old] \in Run
      BY <2>2 DEF Run, Locked
    <3>3. run' = [run EXCEPT ![p] = [run[p] EXCEPT !.pc = "swap", !.old = old]]
      BY <2>1, <2>6, <3>1 DEF SetAside
    <3>4. QED BY <3>2, <3>3
  <2>7. QED
    BY <2>5, <2>6
<1>13. CASE \E p \in Proc : SetAsideFails(p)
  <2>1. PICK p \in Proc : SetAsideFails(p)
    BY <1>13
  <2>2. run[p] \in Run
    BY <2>1, <1>r DEF SetAsideFails
  <2>3. QED
    BY <2>1, <2>2 DEF SetAsideFails, Ended, Run, Locked
<1>14. CASE \E p \in Proc : SwapIn(p)
  <2>1. PICK p \in Proc : SwapIn(p)
    BY <1>14
  <2>2. run[p] \in Run
    BY <2>1, <1>r DEF SwapIn
  <2>3. QED
    BY <2>1, <2>2 DEF SwapIn, Ended, Run, Locked
<1>15. CASE \E p \in Proc : SwapFails(p)
  <2>1. PICK p \in Proc : SwapFails(p)
    BY <1>15
  <2>2. run[p] \in Run
    BY <2>1, <1>r DEF SwapFails
  <2>3. QED
    BY <2>1, <2>2 DEF SwapFails, Ended, Run, Locked
<1>16. CASE \E p \in Proc : RecordUpdate(p)
  <2>1. PICK p \in Proc : RecordUpdate(p)
    BY <1>16
  <2>2. run[p] \in Run
    BY <2>1, <1>r DEF RecordUpdate
  <2>3. [run[p] EXCEPT !.pc = "cleanup"] \in Run
    BY <2>2 DEF Run, Locked
  <2>4. \/ run' = [run EXCEPT ![p] = [run[p] EXCEPT !.pc = "cleanup"]]
        \/ run' = [run EXCEPT ![p] = Idle]
    BY <2>1 DEF RecordUpdate, Ended
  <2>5. QED
    BY <2>3, <2>4
<1>17. CASE \E p \in Proc : RemoveOld(p)
  <2>1. PICK p \in Proc : RemoveOld(p)
    BY <1>17
  <2>2. run[p] \in Run
    BY <2>1, <1>r DEF RemoveOld
  <2>3. QED
    BY <2>1, <2>2 DEF RemoveOld, Ended, Run, Locked
<1>18. CASE \E p \in Proc : Load(p) BY <1>18 DEF Load, Ended
<1>19. CASE \E p \in Proc : Kill(p) BY <1>19 DEF Kill, Ended
<1>20. CASE Tick BY <1>20 DEF Tick
<1>21. CASE UNCHANGED vars BY <1>21 DEF vars
<1>22. QED
  BY <1>1, <1>2, <1>3, <1>4, <1>5, <1>6, <1>7, <1>8, <1>9, <1>10, <1>11, <1>12,
     <1>13, <1>14, <1>15, <1>16, <1>17, <1>18, <1>19, <1>20, <1>21
  DEF Next

\* The elements of a sequence.
LEMMA Elements == ASSUME NEW D, NEW s \in Seq(D) PROVE \A i \in DOMAIN s : s[i] \in D
OBVIOUS

\* What a scan loads.
LEMMA LoadedType ==
    ASSUME TypeOK, NEW p \in Proc, run[p].pc = "load", LoadBundles(run[p])
    PROVE  /\ \A i \in DOMAIN run[p].dirs : DirOf(run[p].dirs[i]) \in Dir
           /\ Loaded(run[p]) \in SUBSET Offered
<1>1. run[p] \in Run /\ installed \in [Name -> Dir \cup {None}]
  BY DEF TypeOK, Idle
<1>2. \A i \in DOMAIN run[p].dirs : run[p].dirs[i] \in [name: Name, dir: Dir \cup {None}]
  <2>1. run[p].dirs \in Seq([name: Name, dir: Dir \cup {None}])
    BY <1>1 DEF Run
  <2>2. QED BY <2>1, Elements
<1>3. \A i \in DOMAIN run[p].dirs : DirOf(run[p].dirs[i]) \in Dir
  BY <1>1, <1>2 DEF DirOf, LoadBundles
<1>4. QED
  BY <1>3 DEF Loaded, ManifestAt, Offered

---------------------------------------------------------------------------
(* What a step does to the command that takes it *)

Others(p) == \A q \in Proc \ {p} : run'[q] = run[q]
Staged == {"verify", "aside", "swap", "record", "cleanup"}

\* A command starts; an update fetches its timestamp before it opens the state.
Starts(p) ==
  /\ Others(p) /\ UNCHANGED <<lock, file, served>>
  /\ run[p] = Idle /\ run'[p].pc \in {"fetch", "open"} /\ run'[p] \in Run
  /\ run'[p].pc = "open" => run'[p].op # "update"
Fetches(p) ==
  /\ Others(p) /\ UNCHANGED <<lock, file, served>>
  /\ run[p].pc = "fetch" /\ run'[p].pc = "open" /\ run'[p].stamp \in Stamp

\* It takes the lock and reads the file.
Opens(p) ==
  /\ Others(p) /\ UNCHANGED <<file, served>>
  /\ lock = None /\ lock' = p
  /\ run[p].pc = "open" /\ run'[p].pc = IF run[p].op = "update" THEN "check" ELSE "load"
  /\ run'[p].state = file /\ run'[p].keys = Revoke(run[p].keys, file.revoked)
  /\ run'[p].stamp = run[p].stamp

\* It works under the lock on what it read.
Works(p) ==
  /\ Others(p) /\ UNCHANGED <<lock, file, served>>
  /\ run[p].pc \in Locked \ {"cleanup", "load"} /\ run'[p].pc \in Locked \ {"cleanup", "load"}
  /\ run'[p].state = run[p].state /\ run'[p].keys = run[p].keys /\ run'[p].stamp = run[p].stamp
  /\ run'[p].pc \in Staged =>
       \/ run[p].pc \in Staged /\ run'[p].dir = run[p].dir
       \/ run'[p].dir \in Dir /\ Matches(run'[p].dir, run[p].stamp.ts)

\* An update saves the state and goes on to clean up.
Saves(p) ==
  /\ Others(p) /\ UNCHANGED <<lock, served>>
  /\ run[p].pc = "record" /\ run'[p].pc = "cleanup"
  /\ run'[p].stamp = run[p].stamp /\ run'[p].dir = run[p].dir

\* It ends, having saved or not.
Ends(p) ==
  /\ Others(p)
  /\ run[p] # Idle /\ run'[p] = Idle /\ lock' = (IF lock = p THEN None ELSE lock)
  /\ ~UNCHANGED <<file, served>> => run[p].pc \in Locked

\* Every step is one of these, of one command, or concerns none.
LEMMA CommandStep ==
    ASSUME TypeOK, UpdateAgrees, [Next]_vars
    PROVE  \/ UNCHANGED <<run, lock, file, served>>
           \/ \E p \in Proc : Starts(p) \/ Fetches(p) \/ Opens(p) \/ Works(p) \/ Saves(p) \/ Ends(p)
<1>t. /\ run \in [Proc -> Run \cup {Idle}]
  BY DEF TypeOK
<1>r. \A p \in Proc : run[p].pc # "idle" => run[p] \in Run
  BY <1>t DEF Idle
<1>u. \A p \in Proc : run'[p].pc # "idle" => run'[p] \in Run
  BY RunTypeStep DEF Idle
<1> USE <1>t
    DEF disk, history
<1>1. CASE \E p \in Proc, args \in Args : StartUpdate(p, args)
  <2>1. PICK p \in Proc, args \in Args : StartUpdate(p, args)
    BY <1>1
  <2>2. PICK keys : run' = [run EXCEPT ![p] = [Start("update", args) EXCEPT !.keys = keys, !.pc = "fetch"]]
    BY <2>1 DEF StartUpdate
  <2>3. run'[p].pc = "fetch"
    BY <2>2 DEF Start
  <2>4. Starts(p)
    BY <1>u, <2>1, <2>2, <2>3 DEF StartUpdate, Starts, Others, Idle
  <2>5. QED
    BY <2>4
<1>2. CASE \E p \in Proc, args \in Args, op \in {"scan", "verify"}, given \in Given, i \in BOOLEAN :
            StartScan(p, args, op, given, i)
  <2>1. PICK p \in Proc, args \in Args, op \in {"scan", "verify"}, given \in Given, i \in BOOLEAN :
          StartScan(p, args, op, given, i)
    BY <1>2
  <2>2. PICK dirs : run' = [run EXCEPT ![p] = [Start(op, args) EXCEPT !.dirs = dirs, !.pc = "open"]]
    BY <2>1 DEF StartScan
  <2>3. run'[p].pc = "open" /\ run'[p].op = op
    BY <2>2 DEF Start
  <2>4. Starts(p)
    BY <1>u, <2>1, <2>2, <2>3 DEF StartScan, Starts, Others, Idle
  <2>5. QED
    BY <2>4
<1>3. CASE \E p \in Proc : FetchTimestamp(p)
  <2>1. PICK p \in Proc : FetchTimestamp(p)
    BY <1>3
  <2>2. run[p] \in Run
    BY <2>1, <1>r DEF FetchTimestamp
  <2>3. PICK s \in Stamp : run' = [run EXCEPT ![p] = [run[p] EXCEPT !.stamp = s, !.pc = "open"]]
    BY <2>1 DEF FetchTimestamp
  <2>4. run'[p].stamp = s /\ run'[p].pc = "open"
    BY <2>2, <2>3 DEF Run
  <2>5. Fetches(p)
    BY <2>1, <2>3, <2>4 DEF FetchTimestamp, Fetches, Others
  <2>6. QED
    BY <2>5
<1>4. CASE \E p \in Proc : Open(p)
  <2>1. PICK p \in Proc : Open(p)
    BY <1>4
  <2>2. run[p] \in Run
    BY <2>1, <1>r DEF Open
  <2>3. PICK next : /\ next = (IF run[p].op = "update" THEN "check" ELSE "load")
                    /\ run' = [run EXCEPT ![p] = [run[p] EXCEPT !.state = file,
                                 !.keys = Revoke(run[p].keys, file.revoked), !.pc = next]]
    BY <2>1 DEF Open
  <2>4. /\ run'[p].pc = next /\ run'[p].state = file /\ run'[p].stamp = run[p].stamp
        /\ run'[p].keys = Revoke(run[p].keys, file.revoked)
    BY <2>2, <2>3 DEF Run
  <2>5. Opens(p)
    BY <2>1, <2>3, <2>4 DEF Open, Opens, Others
  <2>6. QED
    BY <2>5
<1>5. CASE \E p \in Proc : AcceptTimestamp(p)
  <2>1. PICK p \in Proc : AcceptTimestamp(p)
    BY <1>5
  <2>2. run[p] \in Run /\ run[p] # Idle
    BY <2>1, <1>r DEF AcceptTimestamp, Idle
  <2>3. CASE Fresh(run[p])
    <3>1. /\ run' = [run EXCEPT ![p] = [run[p] EXCEPT !.pc = "recover"]]
          /\ UNCHANGED <<lock, file, served>>
      BY <2>1, <2>3 DEF AcceptTimestamp
    <3>2. /\ run'[p].pc = "recover" /\ run'[p].state = run[p].state /\ run'[p].keys = run[p].keys
          /\ run'[p].stamp = run[p].stamp /\ run'[p].dir = run[p].dir
      BY <2>2, <3>1 DEF Run
    <3>3. Works(p)
      BY <2>1, <3>1, <3>2 DEF AcceptTimestamp, Works, Others, Locked, Staged
    <3>4. QED BY <3>3
  <2>4. CASE ~(Fresh(run[p]))
    <3>1. Ends(p)
      BY <2>1, <2>2, <2>4 DEF AcceptTimestamp, Ends, Others, Ended, Locked
    <3>2. QED BY <3>1
  <2>5. QED
    BY <2>3, <2>4
<1>6. CASE \E p \in Proc : Recover(p)
  <2>1. PICK p \in Proc : Recover(p)
    BY <1>6
  <2>2. run[p] \in Run
    BY <2>1, <1>r DEF Recover
  <2>3. /\ run' = [run EXCEPT ![p] = [run[p] EXCEPT !.pc = "compare"]]
        /\ UNCHANGED <<lock, file, served>>
    BY <2>1 DEF Recover
  <2>4. /\ run'[p].pc = "compare" /\ run'[p].state = run[p].state /\ run'[p].keys = run[p].keys
        /\ run'[p].stamp = run[p].stamp /\ run'[p].dir = run[p].dir
    BY <2>2, <2>3 DEF Run
  <2>5. Works(p)
    BY <2>1, <2>3, <2>4 DEF Recover, Works, Others, Locked, Staged
  <2>6. QED
    BY <2>5
<1>7. CASE \E p \in Proc : AlreadyCurrent(p)
  <2>1. PICK p \in Proc : AlreadyCurrent(p)
    BY <1>7
  <2>2. run[p] # Idle
    BY <2>1 DEF AlreadyCurrent, Idle
  <2>3. Ends(p)
    BY <2>1, <2>2 DEF AlreadyCurrent, Ends, Others, Ended, Locked
  <2>4. QED
    BY <2>3
<1>8. CASE \E p \in Proc : CreateStaging(p)
  <2>1. PICK p \in Proc : CreateStaging(p)
    BY <1>8
  <2>2. run[p] \in Run
    BY <2>1, <1>r DEF CreateStaging
  <2>3. /\ run' = [run EXCEPT ![p] = [run[p] EXCEPT !.pc = "download"]]
        /\ UNCHANGED <<lock, file, served>>
    BY <2>1 DEF CreateStaging
  <2>4. /\ run'[p].pc = "download" /\ run'[p].state = run[p].state /\ run'[p].keys = run[p].keys
        /\ run'[p].stamp = run[p].stamp /\ run'[p].dir = run[p].dir
    BY <2>2, <2>3 DEF Run
  <2>5. Works(p)
    BY <2>1, <2>3, <2>4 DEF CreateStaging, Works, Others, Locked, Staged
  <2>6. QED
    BY <2>5
<1>9. CASE \E p \in Proc : Download(p)
  <2>1. PICK p \in Proc : Download(p)
    BY <1>9
  <2>2. run[p] \in Run
    BY <2>1, <1>r DEF Download
  <2>3. PICK d \in Dir : /\ Matches(d, run[p].stamp.ts) /\ UNCHANGED <<lock, file, served>>
                         /\ run' = [run EXCEPT ![p] = [run[p] EXCEPT !.dir = d, !.pc = "verify"]]
    BY <2>1 DEF Download
  <2>4. /\ run'[p].pc = "verify" /\ run'[p].state = run[p].state /\ run'[p].keys = run[p].keys
        /\ run'[p].stamp = run[p].stamp /\ run'[p].dir = d
    BY <2>2, <2>3 DEF Run
  <2>5. Works(p)
    BY <2>1, <2>3, <2>4 DEF Download, Works, Others, Locked
  <2>6. QED
    BY <2>5
<1>10. CASE \E p \in Proc : DownloadFails(p)
  <2>1. PICK p \in Proc : DownloadFails(p)
    BY <1>10
  <2>2. run[p] # Idle
    BY <2>1 DEF DownloadFails, Idle
  <2>3. Ends(p)
    BY <2>1, <2>2 DEF DownloadFails, Ends, Others, Ended, Locked
  <2>4. QED
    BY <2>3
<1>11. CASE \E p \in Proc : VerifyStaged(p)
  <2>1. PICK p \in Proc : VerifyStaged(p)
    BY <1>11
  <2>2. run[p] \in Run /\ run[p] # Idle
    BY <2>1, <1>r DEF VerifyStaged, Idle
  <2>3. CASE Acceptable(run[p])
    <3>1. /\ run' = [run EXCEPT ![p] = [run[p] EXCEPT !.pc = "aside"]]
          /\ UNCHANGED <<lock, file, served>>
      BY <2>1, <2>3 DEF VerifyStaged
    <3>2. /\ run'[p].pc = "aside" /\ run'[p].state = run[p].state /\ run'[p].keys = run[p].keys
          /\ run'[p].stamp = run[p].stamp /\ run'[p].dir = run[p].dir
      BY <2>2, <3>1 DEF Run
    <3>3. Works(p)
      BY <2>1, <3>1, <3>2 DEF VerifyStaged, Works, Others, Locked, Staged
    <3>4. QED BY <3>3
  <2>4. CASE ~(Acceptable(run[p]))
    <3>1. Ends(p)
      BY <2>1, <2>2, <2>4 DEF VerifyStaged, Ends, Others, Ended, Locked
    <3>2. QED BY <3>1
  <2>5. QED
    BY <2>3, <2>4
<1>12. CASE \E p \in Proc : SetAside(p)
  <2>1. PICK p \in Proc : SetAside(p)
    BY <1>12
  <2>2. run[p] \in Run
    BY <2>1, <1>r DEF SetAside
  <2>3. PICK old : /\ run' = [run EXCEPT ![p] = [run[p] EXCEPT !.pc = "swap", !.old = old]]
                   /\ UNCHANGED <<lock, file, served>>
    <3>1. UNCHANGED <<lock, file, served>>
      BY <2>1 DEF SetAside
    <3>2. CASE installed[run[p].stamp.ts.bundle] = None
      <4>1. run' = [run EXCEPT ![p] = [run[p] EXCEPT !.pc = "swap"]]
        BY <2>1, <3>2 DEF SetAside
      <4>2. [run[p] EXCEPT !.pc = "swap"] = [run[p] EXCEPT !.pc = "swap", !.old = run[p].old]
        BY <2>2 DEF Run
      <4>3. QED BY <3>1, <4>1, <4>2
    <3>3. CASE installed[run[p].stamp.ts.bundle] # None
      BY <2>1, <3>1, <3>3 DEF SetAside
    <3>4. QED BY <3>2, <3>3
  <2>4. /\ run'[p].pc = "swap" /\ run'[p].state = run[p].state /\ run'[p].keys = run[p].keys
        /\ run'[p].stamp = run[p].stamp /\ run'[p].dir = run[p].dir
    BY <2>2, <2>3 DEF Run
  <2>5. Works(p)
    BY <2>1, <2>3, <2>4 DEF SetAside, Works, Others, Locked, Staged
  <2>6. QED
    BY <2>5
<1>13. CASE \E p \in Proc : SetAsideFails(p)
  <2>1. PICK p \in Proc : SetAsideFails(p)
    BY <1>13
  <2>2. run[p] # Idle
    BY <2>1 DEF SetAsideFails, Idle
  <2>3. Ends(p)
    BY <2>1, <2>2 DEF SetAsideFails, Ends, Others, Ended, Locked
  <2>4. QED
    BY <2>3
<1>14. CASE \E p \in Proc : SwapIn(p)
  <2>1. PICK p \in Proc : SwapIn(p)
    BY <1>14
  <2>2. run[p] \in Run
    BY <2>1, <1>r DEF SwapIn
  <2>3. /\ run' = [run EXCEPT ![p] = [run[p] EXCEPT !.pc = "record"]]
        /\ UNCHANGED <<lock, file, served>>
    BY <2>1 DEF SwapIn
  <2>4. /\ run'[p].pc = "record" /\ run'[p].state = run[p].state /\ run'[p].keys = run[p].keys
        /\ run'[p].stamp = run[p].stamp /\ run'[p].dir = run[p].dir
    BY <2>2, <2>3 DEF Run
  <2>5. Works(p)
    BY <2>1, <2>3, <2>4 DEF SwapIn, Works, Others, Locked, Staged
  <2>6. QED
    BY <2>5
<1>15. CASE \E p \in Proc : SwapFails(p)
  <2>1. PICK p \in Proc : SwapFails(p)
    BY <1>15
  <2>2. run[p] # Idle
    BY <2>1 DEF SwapFails, Idle
  <2>3. Ends(p)
    BY <2>1, <2>2 DEF SwapFails, Ends, Others, Ended, Locked
  <2>4. QED
    BY <2>3
<1>16. CASE \E p \in Proc : RecordUpdate(p)
  <2>1. PICK p \in Proc : RecordUpdate(p)
    BY <1>16
  <2>2. run[p] \in Run /\ run[p] # Idle
    BY <2>1, <1>r DEF RecordUpdate, Idle
  <2>3. CASE run' = [run EXCEPT ![p] = [run[p] EXCEPT !.pc = "cleanup"]] /\ UNCHANGED lock
    <3>1. run'[p].pc = "cleanup" /\ run'[p].stamp = run[p].stamp /\ run'[p].dir = run[p].dir
      BY <2>2, <2>3 DEF Run
    <3>2. Saves(p)
      BY <2>1, <2>3, <3>1 DEF RecordUpdate, Saves, Others
    <3>3. QED BY <3>2
  <2>4. CASE Ended(p)
    <3>1. Ends(p)
      BY <2>1, <2>2, <2>4 DEF RecordUpdate, Ends, Others, Ended, Locked
    <3>2. QED BY <3>1
  <2>5. QED
    BY <2>1, <2>3, <2>4 DEF RecordUpdate
<1>17. CASE \E p \in Proc : RemoveOld(p)
  <2>1. PICK p \in Proc : RemoveOld(p)
    BY <1>17
  <2>2. run[p] # Idle
    BY <2>1 DEF RemoveOld, Idle
  <2>3. Ends(p)
    BY <2>1, <2>2 DEF RemoveOld, Ends, Others, Ended, Locked
  <2>4. QED
    BY <2>3
<1>18. CASE \E p \in Proc : Load(p)
  <2>1. PICK p \in Proc : Load(p)
    BY <1>18
  <2>2. run[p] # Idle
    BY <2>1 DEF Load, Idle
  <2>3. Ends(p)
    BY <2>1, <2>2 DEF Load, Ends, Others, Ended, Locked
  <2>4. QED
    BY <2>3
<1>19. CASE \E p \in Proc : Kill(p)
  <2>1. PICK p \in Proc : Kill(p)
    BY <1>19
  <2>2. Ends(p)
    BY <2>1 DEF Kill, Ends, Others, Ended
  <2>3. QED
    BY <2>2
<1>20. CASE Tick BY <1>20 DEF Tick
<1>21. CASE UNCHANGED vars BY <1>21 DEF vars
<1>22. QED
  BY <1>1, <1>2, <1>3, <1>4, <1>5, <1>6, <1>7, <1>8, <1>9, <1>10, <1>11, <1>12,
     <1>13, <1>14, <1>15, <1>16, <1>17, <1>18, <1>19, <1>20, <1>21
  DEF Next

---------------------------------------------------------------------------
(* The lock, what is read under it, and what an update works on *)

LEMMA AgreesStep ==
    ASSUME IInv, [Next]_vars
    PROVE  LockAgrees' /\ StateAgrees' /\ UpdateAgrees'
<1>t. run \in [Proc -> Run \cup {Idle}] /\ lock \in Proc \cup {None} /\ TypeOK /\ UpdateAgrees
  BY DEF IInv, TypeOK
<1>i. Idle.pc = "idle"
  BY DEF Idle
<1>p. \A p \in Proc : p # None
  BY ProcAssumption
<1>a. \A p \in Proc : run[p].pc \in Locked <=> lock = p
  BY DEF IInv, LockAgrees
<1>s. \A p \in Proc : run[p].pc \in Locked \ {"cleanup"} =>
        /\ run[p].state = file
        /\ \A k \in run[p].keys.keys : k.id \in file.revoked => k.revoked
  BY DEF IInv, StateAgrees
<1>u. \A p \in Proc : run[p] # Idle =>
        /\ run[p].pc \in Locked \ {"load"} \/ (run[p].pc = "open" /\ run[p].op = "update") =>
             run[p].stamp \in Stamp
        /\ run[p].pc \in Staged => run[p].dir \in Dir /\ Matches(run[p].dir, run[p].stamp.ts)
  BY DEF IInv, UpdateAgrees, Staged
<1>1. CASE UNCHANGED <<run, lock, file, served>>
  BY <1>1 DEF IInv, LockAgrees, StateAgrees, UpdateAgrees
<1>2. CASE \E p \in Proc : Starts(p)
  <2>1. PICK p \in Proc : Starts(p)
    BY <1>2
  <2>2. /\ \A q \in Proc \ {p} : run'[q] = run[q]
        /\ lock' = lock /\ file' = file
        /\ run[p] = Idle /\ run'[p].pc \in {"fetch", "open"}
        /\ run'[p].pc = "open" => run'[p].op # "update"
    BY <2>1 DEF Starts, Others
  <2>3. LockAgrees'
    BY <1>a, <1>i, <2>2 DEF LockAgrees, Locked
  <2>4. StateAgrees'
    BY <1>s, <2>2 DEF StateAgrees, Locked
  <2>5. UpdateAgrees'
    BY <1>u, <2>2 DEF UpdateAgrees, Locked, Staged
  <2>6. QED BY <2>3, <2>4, <2>5
<1>3. CASE \E p \in Proc : Fetches(p)
  <2>1. PICK p \in Proc : Fetches(p)
    BY <1>3
  <2>2. /\ \A q \in Proc \ {p} : run'[q] = run[q]
        /\ lock' = lock /\ file' = file
        /\ run[p].pc = "fetch" /\ run'[p].pc = "open" /\ run'[p].stamp \in Stamp
    BY <2>1 DEF Fetches, Others
  <2>3. LockAgrees'
    BY <1>a, <2>2 DEF LockAgrees, Locked
  <2>4. StateAgrees'
    BY <1>s, <2>2 DEF StateAgrees, Locked
  <2>5. UpdateAgrees'
    BY <1>u, <2>2 DEF UpdateAgrees, Locked, Staged
  <2>6. QED BY <2>3, <2>4, <2>5
<1>4. CASE \E p \in Proc : Opens(p)
  <2>1. PICK p \in Proc : Opens(p)
    BY <1>4
  <2>2. /\ \A q \in Proc \ {p} : run'[q] = run[q]
        /\ lock = None /\ lock' = p /\ file' = file
        /\ run[p].pc = "open" /\ run'[p].pc = IF run[p].op = "update" THEN "check" ELSE "load"
        /\ run'[p].state = file /\ run'[p].keys = Revoke(run[p].keys, file.revoked)
        /\ run'[p].stamp = run[p].stamp
    BY <2>1 DEF Opens, Others
  <2>3. run[p] # Idle /\ run[p].keys \in TrustSet
    BY <1>t, <2>2 DEF Idle, Run
  <2>4. LockAgrees'
    BY <1>a, <1>p, <2>2 DEF LockAgrees, Locked
  <2>5. \A k \in run'[p].keys.keys : k.id \in file.revoked => k.revoked
    BY <2>2, <2>3, RevokeStep
  <2>6. StateAgrees'
    BY <1>s, <2>2, <2>5 DEF StateAgrees
  <2>7. UpdateAgrees'
    BY <1>u, <2>2, <2>3 DEF UpdateAgrees, Locked, Staged
  <2>8. QED BY <2>4, <2>6, <2>7
<1>5. CASE \E p \in Proc : Works(p)
  <2>1. PICK p \in Proc : Works(p)
    BY <1>5
  <2>2. /\ \A q \in Proc \ {p} : run'[q] = run[q]
        /\ lock' = lock /\ file' = file
        /\ run[p].pc \in Locked \ {"cleanup", "load"} /\ run'[p].pc \in Locked \ {"cleanup", "load"}
        /\ run'[p].state = run[p].state /\ run'[p].keys = run[p].keys
        /\ run'[p].stamp = run[p].stamp
        /\ run'[p].pc \in Staged =>
             \/ run[p].pc \in Staged /\ run'[p].dir = run[p].dir
             \/ run'[p].dir \in Dir /\ Matches(run'[p].dir, run[p].stamp.ts)
    BY <2>1 DEF Works, Others
  <2>3. run[p] # Idle
    BY <1>i, <2>2 DEF Locked
  <2>4. LockAgrees'
    BY <1>a, <2>2 DEF LockAgrees
  <2>5. StateAgrees'
    BY <1>s, <2>2 DEF StateAgrees
  <2>6. UpdateAgrees'
    <3>1. ASSUME NEW q \in Proc, (run[q] # Idle)'
          PROVE  /\ run'[q].pc \in Locked \ {"load"} \/ (run'[q].pc = "open" /\ run'[q].op = "update") =>
                      run'[q].stamp \in Stamp
                 /\ run'[q].pc \in Staged =>
                      run'[q].dir \in Dir /\ Matches(run'[q].dir, run'[q].stamp.ts)
      <4>1. CASE q # p BY <1>u, <2>2, <3>1, <4>1
      <4>2. CASE q = p
        <5>1. run[p].stamp \in Stamp
          BY <1>u, <2>2, <2>3
        <5>2. QED BY <1>u, <2>2, <2>3, <4>2, <5>1
      <4>3. QED BY <4>1, <4>2
    <3>2. QED BY <3>1 DEF UpdateAgrees, Staged
  <2>7. QED BY <2>4, <2>5, <2>6
<1>6. CASE \E p \in Proc : Saves(p)
  <2>1. PICK p \in Proc : Saves(p)
    BY <1>6
  <2>2. /\ \A q \in Proc \ {p} : run'[q] = run[q]
        /\ lock' = lock
        /\ run[p].pc = "record" /\ run'[p].pc = "cleanup"
        /\ run'[p].stamp = run[p].stamp /\ run'[p].dir = run[p].dir
    BY <2>1 DEF Saves, Others
  <2>3. run[p] # Idle /\ lock = p
    BY <1>a, <1>i, <2>2 DEF Locked
  <2>4. LockAgrees'
    BY <1>a, <2>2 DEF LockAgrees, Locked
  <2>5. StateAgrees'
    BY <1>a, <2>2, <2>3 DEF StateAgrees
  <2>6. UpdateAgrees'
    BY <1>u, <2>2, <2>3 DEF UpdateAgrees, Locked, Staged
  <2>7. QED BY <2>4, <2>5, <2>6
<1>7. CASE \E p \in Proc : Ends(p)
  <2>1. PICK p \in Proc : Ends(p)
    BY <1>7
  <2>2. /\ \A q \in Proc \ {p} : run'[q] = run[q]
        /\ run'[p] = Idle /\ lock' = (IF lock = p THEN None ELSE lock)
        /\ file' # file => run[p].pc \in Locked
    BY <2>1 DEF Ends, Others
  <2>3. run'[p].pc = "idle" /\ "idle" \notin Locked
    BY <1>i, <2>2 DEF Locked
  <2>4. LockAgrees'
    <3>1. ASSUME NEW q \in Proc PROVE run'[q].pc \in Locked <=> lock' = q
      <4>1. CASE q = p BY <1>p, <2>2, <2>3, <4>1
      <4>2. CASE q # p
        <5>1. run'[q] = run[q] /\ (lock' = q <=> lock = q)
          BY <1>p, <2>2, <4>2
        <5>2. QED BY <1>a, <5>1
      <4>3. QED BY <4>1, <4>2
    <3>2. QED BY <3>1 DEF LockAgrees
  <2>5. StateAgrees'
    <3>1. ASSUME NEW q \in Proc, run'[q].pc \in Locked \ {"cleanup"}
          PROVE  /\ run'[q].state = file'
                 /\ \A k \in run'[q].keys.keys : k.id \in file'.revoked => k.revoked
      <4>1. q # p /\ run'[q] = run[q]
        BY <2>2, <2>3, <3>1
      <4>2. file' = file
        BY <1>a, <2>2, <3>1, <4>1
      <4>3. QED BY <1>s, <3>1, <4>1, <4>2
    <3>2. QED BY <3>1 DEF StateAgrees
  <2>6. UpdateAgrees'
    BY <1>u, <2>2 DEF UpdateAgrees, Staged
  <2>7. QED BY <2>4, <2>5, <2>6
<1>8. QED
  BY <1>t, <1>1, <1>2, <1>3, <1>4, <1>5, <1>6, <1>7, CommandStep

---------------------------------------------------------------------------
(* The state file, and what scans are given *)

\* A save that fails leaves the old file or the new one.
LEMMA SaveStep ==
    ASSUME file \in State, NEW state \in State, Grows(file, state), NEW s \in SaveResult(state)
    PROVE  s.file \in State /\ Grows(file, s.file) /\ (s.ok => s.file = state)
<1>1. s.file = file \/ s.file = state
  BY DEF SaveResult
<1>2. s.ok => s.file = state
  <2>1. \/ s = [ok |-> TRUE, file |-> state]
        \/ s = [ok |-> FALSE, file |-> file]
        \/ s = [ok |-> FALSE, file |-> state]
    BY DEF SaveResult
  <2>2. QED BY <2>1
<1>3. QED
  BY <1>1, <1>2, GrowsReflexive

\* Only the holder of the lock writes the file, and it writes what it read or more.
LEMMA FileStep ==
    ASSUME IInv, [Next]_vars
    PROVE  file' \in State /\ Grows(file, file')
<1>t. file \in State /\ TypeOK
  BY DEF IInv, TypeOK
<1>g. Grows(file, file)
  BY <1>t, GrowsReflexive
<1>a. \A p \in Proc :
        /\ run[p].pc \in Locked \ {"cleanup"} => run[p].state = file
        /\ run[p] # Idle /\ run[p].pc \in Locked \ {"load"} => run[p].stamp \in Stamp
        /\ run[p] # Idle /\ run[p].pc \in Staged => run[p].dir \in Dir
  BY DEF IInv, StateAgrees, UpdateAgrees, Staged
<1> USE <1>t, <1>g
    DEF disk, history
<1>1. CASE \E p \in Proc, args \in Args : StartUpdate(p, args)
  BY <1>1 DEF StartUpdate
<1>2. CASE \E p \in Proc, args \in Args, op \in {"scan", "verify"}, given \in Given, i \in BOOLEAN :
            StartScan(p, args, op, given, i)
  BY <1>2 DEF StartScan
<1>3. CASE \E p \in Proc : FetchTimestamp(p) BY <1>3 DEF FetchTimestamp
<1>4. CASE \E p \in Proc : Open(p) BY <1>4 DEF Open
<1>5. CASE \E p \in Proc : AcceptTimestamp(p) BY <1>5 DEF AcceptTimestamp, Ended
<1>6. CASE \E p \in Proc : Recover(p) BY <1>6 DEF Recover
<1>7. CASE \E p \in Proc : AlreadyCurrent(p)
  <2>1. PICK p \in Proc : AlreadyCurrent(p)
    BY <1>7
  <2>2. run[p].pc \in Locked \ {"cleanup", "load"} /\ run[p] # Idle
    BY <2>1 DEF AlreadyCurrent, Locked, Idle
  <2>3. run[p].state = file /\ run[p].stamp \in Stamp
    BY <1>a, <2>2
  <2>4. PICK s \in SaveResult(RecordTimestamp(file, run[p].stamp.ts)) : file' = s.file
    BY <2>1, <2>3 DEF AlreadyCurrent
  <2>5. QED BY <2>3, <2>4, RecordTimestampStep, SaveStep
<1>8. CASE \E p \in Proc : CreateStaging(p) BY <1>8 DEF CreateStaging
<1>9. CASE \E p \in Proc : Download(p) BY <1>9 DEF Download
<1>10. CASE \E p \in Proc : DownloadFails(p)
  BY <1>10 DEF DownloadFails, Ended, Drop
<1>11. CASE \E p \in Proc : VerifyStaged(p) BY <1>11 DEF VerifyStaged, Ended, Drop
<1>12. CASE \E p \in Proc : SetAside(p) BY <1>12 DEF SetAside
<1>13. CASE \E p \in Proc : SetAsideFails(p)
  BY <1>13 DEF SetAsideFails, Ended, Drop
<1>14. CASE \E p \in Proc : SwapIn(p) BY <1>14 DEF SwapIn, Drop
<1>15. CASE \E p \in Proc : SwapFails(p) BY <1>15 DEF SwapFails, Drop, Ended
<1>16. CASE \E p \in Proc : RecordUpdate(p)
  <2>1. PICK p \in Proc : RecordUpdate(p)
    BY <1>16
  <2>2. run[p].pc \in Locked \ {"cleanup", "load"} /\ run[p].pc \in Staged /\ run[p] # Idle
    BY <2>1 DEF RecordUpdate, Locked, Staged, Idle
  <2>3. run[p].state = file /\ run[p].stamp \in Stamp /\ run[p].dir \in Dir
    BY <1>a, <2>2
  <2> DEFINE one == Record(file, run[p].dir.manifest)
             both == RecordTimestamp(one, run[p].stamp.ts)
  <2>4. PICK s \in SaveResult(both) : file' = s.file
    BY <2>1, <2>3 DEF RecordUpdate
  <2>5. run[p].dir.manifest \in Offered
    BY <2>3 DEF Offered
  <2>6. one \in State /\ Grows(file, one)
    BY <2>5, RecordStep
  <2>7. both \in State /\ Grows(one, both)
    BY <2>3, <2>6, RecordTimestampStep
  <2>8. Grows(file, both)
    BY <2>6, <2>7, GrowsTransitive
  <2>9. QED BY <2>4, <2>7, <2>8, SaveStep
<1>17. CASE \E p \in Proc : RemoveOld(p) BY <1>17 DEF RemoveOld, Ended
<1>18. CASE \E p \in Proc : Load(p)
  <2>1. PICK p \in Proc : Load(p)
    BY <1>18
  <2>2. CASE LoadBundles(run[p]) /\ run[p].op = "scan"
    <3>1. run[p].pc \in Locked \ {"cleanup"} /\ run[p].pc = "load"
      BY <2>1 DEF Load, Locked
    <3>2. run[p].state = file
      BY <1>a, <3>1
    <3>3. PICK s \in SaveResult(RecordAll(file, Loaded(run[p]))) : file' = s.file
      BY <2>1, <2>2, <3>2 DEF Load
    <3>4. Loaded(run[p]) \in SUBSET Offered
      BY <1>t, <2>2, <3>1, LoadedType
    <3>5. QED BY <3>3, <3>4, RecordAllStep, SaveStep
  <2>3. CASE ~(LoadBundles(run[p]) /\ run[p].op = "scan")
    <3>1. UNCHANGED file
      BY <2>1, <2>3 DEF Load
    <3>2. QED BY <1>g, <3>1
  <2>4. QED BY <2>2, <2>3
<1>19. CASE \E p \in Proc : Kill(p) BY <1>19 DEF Kill, Ended
<1>20. CASE Tick BY <1>20 DEF Tick
<1>21. CASE UNCHANGED vars BY <1>21 DEF vars
<1>22. QED
  BY <1>1, <1>2, <1>3, <1>4, <1>5, <1>6, <1>7, <1>8, <1>9, <1>10, <1>11, <1>12,
     <1>13, <1>14, <1>15, <1>16, <1>17, <1>18, <1>19, <1>20, <1>21
  DEF Next

\* What is given to a scan that did not have it before comes from a step that
\* loaded all bundles under the lock, checked them against the file and saved.
Serves(p) ==
  /\ run[p].pc = "load" /\ LoadBundles(run[p])
  /\ run[p].state = file /\ file' = RecordAll(file, Loaded(run[p]))
  /\ \A n \in Name : served'[n] =
       IF \E m \in Loaded(run[p]) : m.name = n
       THEN CHOOSE m \in Loaded(run[p]) : m.name = n ELSE served[n]

\* Every step gives scans nothing new, or serves.
LEMMA ServedStep ==
    ASSUME IInv, [Next]_vars
    PROVE  /\ served' \in [Name -> Offered \cup {None}]
           /\ UNCHANGED served \/ \E p \in Proc : Serves(p)
<1>t. file \in State /\ served \in [Name -> Offered \cup {None}] /\ TypeOK
  BY DEF IInv, TypeOK
<1>a. \A p \in Proc : run[p].pc \in Locked \ {"cleanup"} => run[p].state = file
  BY DEF IInv, StateAgrees
<1> USE <1>t
    DEF disk, history
<1>1. CASE \E p \in Proc, args \in Args : StartUpdate(p, args)
  BY <1>1 DEF StartUpdate
<1>2. CASE \E p \in Proc, args \in Args, op \in {"scan", "verify"}, given \in Given, i \in BOOLEAN :
            StartScan(p, args, op, given, i)
  BY <1>2 DEF StartScan
<1>3. CASE \E p \in Proc : FetchTimestamp(p) BY <1>3 DEF FetchTimestamp
<1>4. CASE \E p \in Proc : Open(p) BY <1>4 DEF Open
<1>5. CASE \E p \in Proc : AcceptTimestamp(p) BY <1>5 DEF AcceptTimestamp, Ended
<1>6. CASE \E p \in Proc : Recover(p) BY <1>6 DEF Recover
<1>7. CASE \E p \in Proc : AlreadyCurrent(p) BY <1>7 DEF AlreadyCurrent, Ended
<1>8. CASE \E p \in Proc : CreateStaging(p) BY <1>8 DEF CreateStaging
<1>9. CASE \E p \in Proc : Download(p) BY <1>9 DEF Download
<1>10. CASE \E p \in Proc : DownloadFails(p)
  BY <1>10 DEF DownloadFails, Ended, Drop
<1>11. CASE \E p \in Proc : VerifyStaged(p) BY <1>11 DEF VerifyStaged, Ended, Drop
<1>12. CASE \E p \in Proc : SetAside(p) BY <1>12 DEF SetAside
<1>13. CASE \E p \in Proc : SetAsideFails(p)
  BY <1>13 DEF SetAsideFails, Ended, Drop
<1>14. CASE \E p \in Proc : SwapIn(p) BY <1>14 DEF SwapIn, Drop
<1>15. CASE \E p \in Proc : SwapFails(p) BY <1>15 DEF SwapFails, Drop, Ended
<1>16. CASE \E p \in Proc : RecordUpdate(p) BY <1>16 DEF RecordUpdate, Ended
<1>17. CASE \E p \in Proc : RemoveOld(p) BY <1>17 DEF RemoveOld, Ended
<1>18. CASE \E p \in Proc : Load(p)
  <2>1. PICK p \in Proc : Load(p)
    BY <1>18
  <2>2. CASE LoadBundles(run[p]) /\ run[p].op = "scan"
    <3> DEFINE ms == Loaded(run[p])
               given(ok) == [n \in Name |-> IF ok /\ \E m \in ms : m.name = n
                                           THEN CHOOSE m \in ms : m.name = n ELSE served[n]]
    <3>1. run[p].pc \in Locked \ {"cleanup"} /\ run[p].pc = "load"
      BY <2>1 DEF Load, Locked
    <3>2. run[p].state = file
      BY <1>a, <3>1
    <3>3. PICK s \in SaveResult(RecordAll(file, ms)) : file' = s.file /\ served' = given(s.ok)
      BY <2>1, <2>2, <3>2 DEF Load
    <3>4. ms \in SUBSET Offered
      BY <1>t, <2>2, <3>1, LoadedType
    <3>5. s.ok => s.file = RecordAll(file, ms)
      BY <1>t, <3>4, RecordAllStep, SaveStep
    <3>6. given(s.ok) \in [Name -> Offered \cup {None}]
      <4>1. \A n \in Name : (\E m \in ms : m.name = n) => (CHOOSE m \in ms : m.name = n) \in Offered
        BY <3>4
      <4>2. QED BY <1>t, <4>1
    <3>7. CASE s.ok
      <4>1. Serves(p)
        BY <2>2, <3>1, <3>2, <3>3, <3>5, <3>7 DEF Serves
      <4>2. QED BY <3>3, <3>6, <4>1
    <3>8. CASE ~s.ok
      <4>1. served' = served
        BY <1>t, <3>3, <3>8
      <4>2. QED BY <1>t, <4>1
    <3>9. QED BY <3>7, <3>8
  <2>3. CASE ~(LoadBundles(run[p]) /\ run[p].op = "scan")
    <3>1. UNCHANGED served
      BY <2>1, <2>3 DEF Load
    <3>2. QED BY <1>t, <3>1
  <2>4. QED BY <2>2, <2>3
<1>19. CASE \E p \in Proc : Kill(p) BY <1>19 DEF Kill, Ended
<1>20. CASE Tick BY <1>20 DEF Tick
<1>21. CASE UNCHANGED vars BY <1>21 DEF vars
<1>22. QED
  BY <1>1, <1>2, <1>3, <1>4, <1>5, <1>6, <1>7, <1>8, <1>9, <1>10, <1>11, <1>12,
     <1>13, <1>14, <1>15, <1>16, <1>17, <1>18, <1>19, <1>20, <1>21
  DEF Next

\* A bundle that is served passed the check against the file: it is ahead of
\* the accepted one, or is that one.
LEMMA ServedIsChecked ==
    ASSUME IInv, NEW p \in Proc, Serves(p), NEW n \in Name, \E m \in Loaded(run[p]) : m.name = n
    PROVE  /\ served'[n] \in Offered /\ served'[n].name = n /\ served'[n] \in Loaded(run[p])
           /\ file'.bundles[n] = Record(file, served'[n]).bundles[n]
           /\ \/ file.bundles[n] = None
              \/ served'[n].sequence > file.bundles[n].sequence
              \/ /\ served'[n].sequence = file.bundles[n].sequence
                 /\ served'[n].id = file.bundles[n].id
<1> DEFINE ms == Loaded(run[p])
           m == served'[n]
<1>t. TypeOK /\ file \in State
  BY DEF IInv, TypeOK
<1>1. m = (CHOOSE x \in ms : x.name = n)
  BY DEF Serves
<1>2. ms \in SUBSET Offered
  BY <1>t, LoadedType DEF Serves
<1>3. m \in ms /\ m.name = n
  BY <1>1
<1>4. file' = RecordAll(file, ms)
  BY DEF Serves
<1>5. file'.bundles[n] = Record(file, m).bundles[n]
  BY <1>1, <1>4 DEF RecordAll
<1>6. PICK i \in DOMAIN run[p].dirs : m = ManifestAt(run[p], i)
  BY <1>3 DEF Loaded
<1>7. Check(file, m, run[p].keys.floor[m.name]) = "ok"
  BY <1>6 DEF Serves, LoadBundles, LoadsAt
<1>8. m.sequence \in Nat
  BY <1>2, <1>3, AcceptedType
<1>9. CASE file.bundles[n] = None
  BY <1>2, <1>3, <1>5, <1>9
<1>10. CASE file.bundles[n] # None
  <2>1. file.bundles[n].sequence \in Nat
    BY <1>t, <1>10, AcceptedType DEF State
  <2>2. /\ ~(m.sequence < file.bundles[n].sequence)
        /\ ~(m.sequence = file.bundles[n].sequence /\ m.id # file.bundles[n].id)
    BY <1>3, <1>7, <1>10 DEF Check
  <2>3. QED BY <1>2, <1>3, <1>5, <1>8, <2>1, <2>2
<1>11. QED BY <1>9, <1>10

LEMMA ServedAgreesStep ==
    ASSUME IInv, [Next]_vars
    PROVE  ServedAgrees'
<1>t. file \in State /\ file' \in State /\ Grows(file, file') /\ served \in [Name -> Offered \cup {None}]
  BY FileStep DEF IInv, TypeOK
<1>s. \A n \in Name : served[n] # None =>
        /\ file.bundles[n] # None
        /\ \/ file.bundles[n].sequence > served[n].sequence
           \/ /\ file.bundles[n].sequence = served[n].sequence
              /\ file.bundles[n].id = served[n].id
  BY DEF IInv, ServedAgrees
<1>k. ASSUME NEW n \in Name, served'[n] = served[n], served[n] # None
      PROVE  /\ file'.bundles[n] # None
             /\ \/ file'.bundles[n].sequence > served'[n].sequence
                \/ /\ file'.bundles[n].sequence = served'[n].sequence
                   /\ file'.bundles[n].id = served'[n].id
  <2>1. file.bundles[n] # None /\ file'.bundles[n] # None
    BY <1>s, <1>t, <1>k DEF Grows
  <2>2. /\ served[n].sequence \in Nat
        /\ file.bundles[n].sequence \in Nat /\ file'.bundles[n].sequence \in Nat
    BY <1>t, <1>k, <2>1, AcceptedType DEF State
  <2>3. \/ file'.bundles[n] = file.bundles[n]
        \/ file'.bundles[n].sequence > file.bundles[n].sequence
    BY <1>t, <2>1 DEF Grows
  <2>4. QED BY <1>s, <1>k, <2>1, <2>2, <2>3
<1>1. CASE UNCHANGED served
  BY <1>k, <1>1 DEF ServedAgrees
<1>2. CASE \E p \in Proc : Serves(p)
  <2>1. PICK p \in Proc : Serves(p)
    BY <1>2
  <2>2. ASSUME NEW n \in Name, served'[n] # None
        PROVE  /\ file'.bundles[n] # None
               /\ \/ file'.bundles[n].sequence > served'[n].sequence
                  \/ /\ file'.bundles[n].sequence = served'[n].sequence
                     /\ file'.bundles[n].id = served'[n].id
    <3>1. CASE ~ \E m \in Loaded(run[p]) : m.name = n
      <4>1. served'[n] = served[n]
        BY <2>1, <3>1 DEF Serves
      <4>2. QED BY <1>k, <2>2, <4>1
    <3>2. CASE \E m \in Loaded(run[p]) : m.name = n
      <4> DEFINE m == served'[n]
                 r == file.bundles[n]
      <4>1. /\ m \in Offered /\ m.name = n
            /\ file'.bundles[n] = Record(file, m).bundles[n]
            /\ r = None \/ m.sequence > r.sequence \/ (m.sequence = r.sequence /\ m.id = r.id)
        BY <2>1, <3>2, ServedIsChecked
      <4>2. Record(file, m).bundles[n] =
              IF r = None \/ m.sequence > r.sequence THEN [sequence |-> m.sequence, id |-> m.id] ELSE r
        BY <1>t, <4>1 DEF Record, State
      <4>3. CASE r = None \/ m.sequence > r.sequence
        <5>1. file'.bundles[n] = [sequence |-> m.sequence, id |-> m.id]
          BY <4>1, <4>2, <4>3
        <5>2. file'.bundles[n] # None
          BY <4>1, <5>1, NoneAssumption DEF Offered
        <5>3. QED BY <5>1, <5>2
      <4>4. CASE ~(r = None \/ m.sequence > r.sequence)
        BY <4>1, <4>2, <4>4
      <4>5. QED BY <4>3, <4>4
    <3>3. QED BY <3>1, <3>2
  <2>3. QED BY <2>2 DEF ServedAgrees
<1>3. QED
  BY <1>1, <1>2, ServedStep

---------------------------------------------------------------------------
(* The invariant *)

LEMMA InitInv == Init => IInv
<1> SUFFICES ASSUME Init PROVE IInv
  OBVIOUS
<1>1. NoFile \in State
  BY DEF NoFile, State
<1>2. run = [p \in Proc |-> Idle] /\ lock = None /\ served = [n \in Name |-> None]
  BY DEF Init
<1>3. TypeOK
  BY <1>1, BoundAssumption DEF Init, TypeOK
<1>4. \A p \in Proc : run[p] = Idle /\ run[p].pc = "idle" /\ p # None
  BY <1>2, ProcAssumption DEF Idle
<1>5. LockAgrees /\ StateAgrees /\ UpdateAgrees
  BY <1>2, <1>4 DEF LockAgrees, StateAgrees, UpdateAgrees, Locked
<1>6. ServedAgrees
  BY <1>2 DEF ServedAgrees
<1>7. QED
  BY <1>3, <1>5, <1>6 DEF IInv

LEMMA TypeStep == ASSUME IInv, [Next]_vars PROVE TypeOK'
<1>1. TypeOK /\ UpdateAgrees
  BY DEF IInv
<1>2. QED
  BY <1>1, CounterTypeStep, DiskTypeStep, LockTypeStep, RunTypeStep, FileStep, ServedStep
  DEF TypeOK

LEMMA NextInv == ASSUME IInv, [Next]_vars PROVE IInv'
BY TypeStep, AgreesStep, ServedAgreesStep DEF IInv

\* However many commands run side by side, and wherever they are killed or fail:
\* the lock is held by the one that opened the state, that one works on what the
\* file holds, and what scans were given is in the file (ContentState::open, save).
THEOREM ContentInvariant == Spec => []IInv
<1>1. Init => IInv
  BY InitInv
<1>2. IInv /\ [Next]_vars => IInv'
  BY NextInv
<1>3. QED
  BY <1>1, <1>2, PTL DEF Spec

\* No command takes back what the state file records (ContentState::record,
\* record_timestamp, save).
THEOREM StateGrows == Spec => StateOnlyGrows
<1>1. IInv /\ [Next]_vars =>
        [/\ file.revoked \subseteq file'.revoked
         /\ \A n \in Name :
              /\ file'.stamps[n] >= file.stamps[n]
              /\ file.bundles[n] # None =>
                   /\ file'.bundles[n] # None
                   /\ \/ file'.bundles[n] = file.bundles[n]
                      \/ file'.bundles[n].sequence > file.bundles[n].sequence]_vars
  <2> SUFFICES ASSUME IInv, [Next]_vars PROVE Grows(file, file')
    BY DEF Grows
  <2>1. QED BY FileStep
<1>2. QED
  BY <1>1, ContentInvariant, PTL DEF Spec, StateOnlyGrows

\* No scan is given an older release than an earlier scan was, nor another one of
\* the same sequence (load_bundles, ContentState::check).
THEOREM NeverRolledBack == Spec => NoRollback
<1>1. ASSUME IInv, [Next]_vars, NEW n \in Name, served[n] # None, served'[n] # served[n]
      PROVE  served'[n].sequence > served[n].sequence
  <2>t. /\ served \in [Name -> Offered \cup {None}] /\ served' \in [Name -> Offered \cup {None}]
        /\ file \in State
    BY <1>1, ServedStep DEF IInv, TypeOK
  <2>1. PICK p \in Proc : Serves(p)
    BY <1>1, ServedStep
  <2>2. \E m \in Loaded(run[p]) : m.name = n
    BY <1>1, <2>1 DEF Serves
  <2> DEFINE m == served'[n]
             o == served[n]
             r == file.bundles[n]
  <2>3. /\ m \in Offered
        /\ r = None \/ m.sequence > r.sequence \/ (m.sequence = r.sequence /\ m.id = r.id)
    BY <1>1, <2>1, <2>2, ServedIsChecked
  <2>4. /\ r # None
        /\ r.sequence > o.sequence \/ (r.sequence = o.sequence /\ r.id = o.id)
    BY <1>1 DEF IInv, ServedAgrees
  <2>5. o \in Offered /\ o.sequence \in Nat /\ m.sequence \in Nat /\ r.sequence \in Nat
    BY <1>1, <2>t, <2>3, <2>4, AcceptedType DEF State
  <2>6. m.id # o.id
    <3>1. SUFFICES ASSUME m.id = o.id PROVE FALSE
      OBVIOUS
    <3>2. PICK d \in Dir, e \in Dir : d.manifest = m /\ e.manifest = o
      BY <2>3, <2>5 DEF Offered
    <3>3. m = o
      BY <3>1, <3>2, IdAssumption
    <3>4. QED BY <1>1, <3>3
  <2>7. QED BY <2>3, <2>4, <2>5, <2>6
<1>2. IInv /\ [Next]_vars =>
        [\A n \in Name : served[n] # None /\ served'[n] # served[n] =>
           served'[n].sequence > served[n].sequence]_vars
  BY <1>1
<1>3. QED
  BY <1>2, ContentInvariant, PTL DEF Spec, NoRollback

\* A bundle that loads has a signature of a key that is not revoked.
LEMMA LoadedIsSigned ==
    ASSUME NEW t \in TrustSet, NEW d \in Dir, NEW at, NEW expired, LoadBundle(t, d, at, expired) = "ok"
    PROVE  \E x \in Range(d.sigs), k \in t.keys : k.id = x.by /\ ~k.revoked
<1> DEFINE m == d.manifest
           read == SubSeq(d.sigs, 1, Smaller(Len(d.sigs), MaxSignatures))
<1>1. VerifySignatures(t, m, d.sigs, at) = "ok"
  BY DEF LoadBundle
<1>2. ~(Cardinality(Signers(t, m, read, at)) < Required(t))
  BY <1>1 DEF VerifySignatures
<1>3. Required(t) \in Nat /\ Required(t) >= 1
  BY DEF Required, Larger, TrustSet
<1>4. Signers(t, m, read, at) # {}
  <2>1. ASSUME NEW S, ~(Cardinality(S) < Required(t)) PROVE S # {}
    <3>1. Cardinality({}) < Required(t)
      BY <1>3, FS_EmptySet
    <3>2. QED BY <2>1, <3>1
  <2>2. QED BY <1>2, <2>1
<1>5. PICK x \in Range(read) : VerifyRole(t, m.id, x, at, "content") = "ok"
  BY <1>4 DEF Signers
<1>6. \E k \in t.keys : k.id = x.by /\ ~k.revoked
  <2> DEFINE hit == {k \in t.keys : k.id = x.by /\ x.over = m.id /\ "content" \in k.roles}
             key == CHOOSE k \in hit : TRUE
  <2>1. hit # {} /\ ~key.revoked
    BY <1>5 DEF VerifyRole
  <2>2. key \in hit
    BY <2>1
  <2>3. QED BY <2>1, <2>2
<1>7. x \in Range(d.sigs)
  <2>1. d.sigs \in Seq(Range(d.sigs)) /\ Len(d.sigs) \in Nat
    BY DirAssumption
  <2> DEFINE n == Smaller(Len(d.sigs), MaxSignatures)
  <2>2. n \in Nat /\ n <= Len(d.sigs)
    BY <2>1, TrustConstants DEF Smaller
  <2>3. \A i \in 1..n : d.sigs[i] \in Range(d.sigs)
    BY <2>1, <2>2
  <2>4. read \in Seq(Range(d.sigs))
    BY <2>2, <2>3, SubSeqProperties
  <2>5. \A i \in DOMAIN read : read[i] \in Range(d.sigs)
    BY <2>4, Elements
  <2>6. QED BY <1>5, <2>5 DEF Range
<1>8. QED
  BY <1>6, <1>7

\* No scan is given a bundle all of whose signatures are of keys that bundles
\* accepted before revoked (load_bundles, TrustSet::revoke, verify_signatures).
THEOREM RevokedNeverCount == Spec => RevokedKeysSignNothing
<1>1. ASSUME IInv, [Next]_vars, NEW n \in Name, served'[n] # served[n]
      PROVE  \E d \in Dir : d.manifest = served'[n] /\ {s.by : s \in Range(d.sigs)} \ file.revoked # {}
  <2>1. PICK p \in Proc : Serves(p)
    BY <1>1, ServedStep
  <2>2. \E m \in Loaded(run[p]) : m.name = n
    BY <1>1, <2>1 DEF Serves
  <2>3. served'[n] \in Loaded(run[p])
    BY <1>1, <2>1, <2>2, ServedIsChecked
  <2>4. PICK i \in DOMAIN run[p].dirs : served'[n] = ManifestAt(run[p], i)
    BY <2>3 DEF Loaded
  <2> DEFINE d == DirOf(run[p].dirs[i])
             t == KeysAt(run[p], i)
  <2>5. d \in Dir /\ d.manifest = served'[n]
    BY <1>1, <2>1, <2>4, LoadedType DEF IInv, Serves, ManifestAt
  <2>6. LoadBundle(t, d, run[p].at, run[p].expired) = "ok"
    BY <2>1 DEF Serves, LoadBundles, LoadsAt
  <2>7. run[p].keys \in TrustSet
    BY <1>1, <2>1 DEF IInv, TypeOK, Serves, Run, Idle
  <2>8. PICK ids : t = Revoke(run[p].keys, ids)
    BY DEF KeysAt
  <2>9. PICK x \in Range(d.sigs), k \in t.keys : k.id = x.by /\ ~k.revoked
    BY <2>5, <2>6, <2>7, <2>8, RevokeStep, LoadedIsSigned
  <2>10. PICK old \in run[p].keys.keys : old.id = k.id /\ (old.revoked => k.revoked)
    BY <2>7, <2>8, <2>9, RevokeStep
  <2>11. \A j \in run[p].keys.keys : j.id \in file.revoked => j.revoked
    BY <1>1, <2>1 DEF IInv, StateAgrees, Serves, Locked
  <2>12. x.by \notin file.revoked
    BY <2>9, <2>10, <2>11
  <2>13. x.by \in {s.by : s \in Range(d.sigs)}
    BY <2>9
  <2>14. QED BY <2>5, <2>12, <2>13
<1>2. IInv /\ [Next]_vars =>
        [\A n \in Name : served'[n] # served[n] =>
           \E d \in Dir : /\ d.manifest = served'[n]
                          /\ {s.by : s \in Range(d.sigs)} \ file.revoked # {}]_vars
  BY <1>1
<1>3. QED
  BY <1>2, ContentInvariant, PTL DEF Spec, RevokedKeysSignNothing

---------------------------------------------------------------------------
(* The copies of installed bundles *)

Swapping == {"swap", "record", "cleanup"}

\* A step that moves no directory and no command into the swap disturbs no copy.
LEMMA QuietCopies ==
    ASSUME CopyInv, UNCHANGED <<installed, aside, had>>, NEW p \in Proc,
           \A q \in Proc \ {p} : run'[q] = run[q],
           run'[p] = Idle \/ (run'[p].pc \notin Swapping /\ run'[p].old = None)
    PROVE  CopyInv'
<1>1. ASSUME NEW q \in Proc
      PROVE  /\ run'[q].pc \in Swapping /\ run'[q].old # None =>
                  run'[q].old.name = run'[q].stamp.ts.bundle
             /\ run'[q] # Idle /\ run'[q].pc \notin Swapping => run'[q].old = None
             /\ run'[q].pc = "swap" /\ run'[q].old # None => run'[q].old \in aside'
             /\ run'[q].pc \in {"record", "cleanup"} => installed'[run'[q].stamp.ts.bundle] # None
  <2>1. CASE q # p
    BY <2>1 DEF CopyInv, Swapping
  <2>2. CASE q = p
    BY <2>2 DEF Swapping, Idle
  <2>3. QED BY <2>1, <2>2
<1>2. QED
  BY <1>1 DEF CopyInv, Swapping

\* The copies survive every step of an update, and every way it can be cut short.
LEMMA CopyStep ==
    ASSUME IInv, CopyInv, Extends = {}, "put_back" \notin Faults, [Next]_vars
    PROVE  CopyInv'
<1>t. /\ run \in [Proc -> Run \cup {Idle}] /\ installed \in [Name -> Dir \cup {None}]
      /\ aside \subseteq Copy /\ had \in SUBSET Name
  BY DEF IInv, TypeOK
<1>r. \A p \in Proc : run[p].pc # "idle" => run[p] \in Run
  BY <1>t DEF Idle
<1>i. Idle.pc = "idle"
  BY DEF Idle
<1>n. \A p \in Proc : run[p].pc \in Locked \ {"load"} =>
        /\ run[p].stamp \in Stamp /\ run[p].stamp.ts.bundle \in Name
        /\ run[p].pc \in Staged => /\ run[p].dir \in Dir
                                   /\ Whole(run[p].dir, run[p].stamp.ts.bundle)
  BY <1>i, StampAssumption DEF IInv, UpdateAgrees, Locked, Staged, Matches, Whole
<1>l. \A p, q \in Proc : run[p].pc \in Locked /\ q # p => run[q].pc \notin Swapping
  BY DEF IInv, LockAgrees, Locked, Swapping
<1>d. /\ \A d \in Dir : d # None
      /\ \A n \in Name : installed[n] # None => installed[n] \in Dir /\ Whole(installed[n], n)
      /\ \A x \in aside : x.dir \in Dir /\ x.name \in Name /\ Whole(x.dir, x.name)
      /\ \A n \in had : installed[n] # None \/ \E x \in aside : x.name = n
  BY <1>t, DirAssumption DEF CopyInv, Copy
<1>o. \A p \in Proc :
        /\ run[p].pc \in Swapping /\ run[p].old # None =>
             run[p].old.name = run[p].stamp.ts.bundle
        /\ run[p].pc = "swap" /\ run[p].old # None => run[p].old \in aside
        /\ run[p] # Idle /\ run[p].pc \notin Swapping => run[p].old = None
        /\ run[p].pc \in {"record", "cleanup"} => installed[run[p].stamp.ts.bundle] # None
  BY DEF CopyInv, Swapping
<1> USE
    DEF disk, history
<1>1. CASE \E p \in Proc, args \in Args : StartUpdate(p, args)
  <2>1. PICK p \in Proc, args \in Args : StartUpdate(p, args)
    BY <1>1
  <2>2. PICK keys : run' = [run EXCEPT ![p] = [Start("update", args) EXCEPT !.keys = keys, !.pc = "fetch"]]
    BY <2>1 DEF StartUpdate
  <2>3. UNCHANGED <<installed, aside, had>>
    BY <2>1 DEF StartUpdate
  <2>4. run'[p].pc = "fetch" /\ run'[p].old = None /\ \A q \in Proc \ {p} : run'[q] = run[q]
    BY <1>t, <2>2 DEF Start
  <2>5. QED BY <2>3, <2>4, QuietCopies DEF Swapping
<1>2. CASE \E p \in Proc, args \in Args, op \in {"scan", "verify"}, given \in Given, i \in BOOLEAN :
            StartScan(p, args, op, given, i)
  <2>1. PICK p \in Proc, args \in Args, op \in {"scan", "verify"}, given \in Given, i \in BOOLEAN : 
          StartScan(p, args, op, given, i)
    BY <1>2
  <2>2. PICK dirs : run' = [run EXCEPT ![p] = [Start(op, args) EXCEPT !.dirs = dirs, !.pc = "open"]]
    BY <2>1 DEF StartScan
  <2>3. UNCHANGED <<installed, aside, had>>
    BY <2>1 DEF StartScan
  <2>4. run'[p].pc = "open" /\ run'[p].old = None /\ \A q \in Proc \ {p} : run'[q] = run[q]
    BY <1>t, <2>2 DEF Start
  <2>5. QED BY <2>3, <2>4, QuietCopies DEF Swapping
<1>3. CASE \E p \in Proc : FetchTimestamp(p)
  <2>1. PICK p \in Proc : FetchTimestamp(p)
    BY <1>3
  <2>2. run[p] \in Run /\ run[p] # Idle /\ run[p].pc \notin Swapping
    BY <1>r, <2>1 DEF FetchTimestamp, Swapping, Idle
  <2>3. PICK s : run' = [run EXCEPT ![p] = [run[p] EXCEPT !.stamp = s, !.pc = "open"]]
    BY <2>1 DEF FetchTimestamp
  <2>4. [run[p] EXCEPT !.stamp = s, !.pc = "open"].pc = "open"
        /\ [run[p] EXCEPT !.stamp = s, !.pc = "open"].old = run[p].old
    BY <2>2 DEF Run
  <2>5. UNCHANGED <<installed, aside, had>>
    BY <2>1 DEF FetchTimestamp
  <2>6. run'[p].pc \notin Swapping /\ run'[p].old = None /\ \A q \in Proc \ {p} : run'[q] = run[q]
    BY <1>t, <1>o, <2>2, <2>3, <2>4 DEF Swapping
  <2>7. QED BY <2>5, <2>6, QuietCopies
<1>4. CASE \E p \in Proc : Open(p)
  <2>1. PICK p \in Proc : Open(p)
    BY <1>4
  <2>2. run[p] \in Run /\ run[p] # Idle /\ run[p].pc \notin Swapping
    BY <1>r, <2>1 DEF Open, Swapping, Idle
  <2>3. PICK next : /\ next = (IF run[p].op = "update" THEN "check" ELSE "load")
        /\ run' = [run EXCEPT ![p] = [run[p] EXCEPT !.state = file,
             !.keys = Revoke(run[p].keys, file.revoked), !.pc = next]]
    BY <2>1 DEF Open
  <2>4. [run[p] EXCEPT !.state = file,
             !.keys = Revoke(run[p].keys, file.revoked), !.pc = next].pc = next
        /\ [run[p] EXCEPT !.state = file,
             !.keys = Revoke(run[p].keys, file.revoked), !.pc = next].old = run[p].old
    BY <2>2 DEF Run
  <2>5. UNCHANGED <<installed, aside, had>>
    BY <2>1 DEF Open
  <2>6. run'[p].pc \notin Swapping /\ run'[p].old = None /\ \A q \in Proc \ {p} : run'[q] = run[q]
    BY <1>t, <1>o, <2>2, <2>3, <2>4 DEF Swapping
  <2>7. QED BY <2>5, <2>6, QuietCopies
<1>5. CASE \E p \in Proc : AcceptTimestamp(p)
  <2>1. PICK p \in Proc : AcceptTimestamp(p)
    BY <1>5
  <2>2. run[p] \in Run /\ run[p] # Idle /\ run[p].pc \notin Swapping
    BY <1>r, <2>1 DEF AcceptTimestamp, Swapping, Idle
  <2>3. run' = [run EXCEPT ![p] = [run[p] EXCEPT !.pc = "recover"]] \/ run' = [run EXCEPT ![p] = Idle]
    BY <2>1 DEF AcceptTimestamp, Ended
  <2>4. [run[p] EXCEPT !.pc = "recover"].pc = "recover" /\ [run[p] EXCEPT !.pc = "recover"].old = run[p].old
    BY <2>2 DEF Run
  <2>5. UNCHANGED <<installed, aside, had>>
    BY <2>1 DEF AcceptTimestamp
  <2>6. /\ run'[p] = Idle \/ (run'[p].pc \notin Swapping /\ run'[p].old = None)
        /\ \A q \in Proc \ {p} : run'[q] = run[q]
    BY <1>t, <1>o, <2>2, <2>3, <2>4 DEF Swapping
  <2>7. QED BY <2>5, <2>6, QuietCopies
<1>6. CASE \E p \in Proc : Recover(p)
  <2>1. PICK p \in Proc : Recover(p)
    BY <1>6
  <2> DEFINE n == run[p].stamp.ts.bundle
  <2>2. run[p] \in Run /\ run[p].pc \in Locked \ {"load"} /\ n \in Name /\ run[p] # Idle
    BY <1>r, <1>n, <2>1 DEF Recover, Locked, Idle
  <2>3. /\ run' = [run EXCEPT ![p] = [run[p] EXCEPT !.pc = "compare"]] /\ had' = had
        /\ \A x \in OfName(aside, n) : x.name = n
    BY <2>1 DEF Recover, OfName
  <2>4. run[p].pc = "recover" /\ run'[p].pc = "compare" /\ run'[p].old = run[p].old
    BY <1>t, <2>1, <2>2, <2>3 DEF Run, Recover
  <2>5. \A q \in Proc :
        /\ run'[q].pc \in Swapping /\ run'[q].old # None => run'[q].old.name = run'[q].stamp.ts.bundle
        /\ run'[q] # Idle /\ run'[q].pc \notin Swapping => run'[q].old = None
        /\ run'[q].pc = "swap" /\ run'[q].old # None => run'[q].old \in aside'
        /\ run'[q].pc \in {"record", "cleanup"} => installed'[run'[q].stamp.ts.bundle] # None
    BY <1>t, <1>l, <1>o, <2>2, <2>3, <2>4 DEF Swapping
  <2>6. /\ aside' \subseteq aside
        /\ \A x \in aside : x.name # n => x \in aside'
        /\ \/ /\ installed[n] = None
              /\ \E back \in OfName(aside, n) : installed' = [installed EXCEPT ![n] = back.dir]
           \/ installed' = installed /\ (installed[n] # None \/ OfName(aside, n) = {})
    BY <2>1, <2>3 DEF Recover
  <2>7. \A m \in Name : installed'[m] # None => Whole(installed'[m], m)
    BY <1>d, <1>t, <2>2, <2>3, <2>6 DEF OfName
  <2>8. \A x \in aside' : Whole(x.dir, x.name)
    BY <1>d, <2>6
  <2>9. ASSUME NEW m \in had PROVE installed'[m] # None \/ \E x \in aside' : x.name = m
    <3>1. CASE m = n
      <4>1. CASE installed[n] # None BY <1>t, <2>6, <3>1, <4>1
      <4>2. CASE installed[n] = None
        <5>1. PICK x \in aside : x.name = n
          BY <1>d, <3>1, <4>2
        <5>2. x \in OfName(aside, n)
          BY <5>1 DEF OfName
        <5>3. PICK back \in OfName(aside, n) : installed' = [installed EXCEPT ![n] = back.dir]
          BY <2>6, <4>2, <5>2
        <5>4. back.dir # None
          BY <1>d, <5>3 DEF OfName
        <5>5. QED BY <1>t, <2>2, <3>1, <5>3, <5>4
      <4>3. QED BY <4>1, <4>2
    <3>2. CASE m # n
      <4>1. installed'[m] = installed[m]
        BY <1>t, <2>6, <3>2
      <4>2. QED BY <1>d, <2>6, <3>2, <4>1
    <3>3. QED BY <3>1, <3>2
  <2>10. QED BY <2>3, <2>5, <2>7, <2>8, <2>9 DEF CopyInv, Swapping
<1>7. CASE \E p \in Proc : AlreadyCurrent(p)
  <2>1. PICK p \in Proc : AlreadyCurrent(p)
    BY <1>7
  <2>2. run' = [run EXCEPT ![p] = Idle] /\ UNCHANGED <<installed, aside, had>>
    BY <2>1 DEF AlreadyCurrent, Ended
  <2>3. run'[p] = Idle /\ \A q \in Proc \ {p} : run'[q] = run[q]
    BY <1>t, <2>2
  <2>4. QED BY <2>2, <2>3, QuietCopies
<1>8. CASE \E p \in Proc : CreateStaging(p)
  <2>1. PICK p \in Proc : CreateStaging(p)
    BY <1>8
  <2>2. run[p] \in Run /\ run[p] # Idle /\ run[p].pc \notin Swapping
    BY <1>r, <2>1 DEF CreateStaging, Swapping, Idle
  <2>3. run' = [run EXCEPT ![p] = [run[p] EXCEPT !.pc = "download"]]
    BY <2>1 DEF CreateStaging
  <2>4. [run[p] EXCEPT !.pc = "download"].pc = "download"
        /\ [run[p] EXCEPT !.pc = "download"].old = run[p].old
    BY <2>2 DEF Run
  <2>5. UNCHANGED <<installed, aside, had>>
    BY <2>1 DEF CreateStaging
  <2>6. run'[p].pc \notin Swapping /\ run'[p].old = None /\ \A q \in Proc \ {p} : run'[q] = run[q]
    BY <1>t, <1>o, <2>2, <2>3, <2>4 DEF Swapping
  <2>7. QED BY <2>5, <2>6, QuietCopies
<1>9. CASE \E p \in Proc : Download(p)
  <2>1. PICK p \in Proc : Download(p)
    BY <1>9
  <2>2. run[p] \in Run /\ run[p] # Idle /\ run[p].pc \notin Swapping
    BY <1>r, <2>1 DEF Download, Swapping, Idle
  <2>3. PICK d : run' = [run EXCEPT ![p] = [run[p] EXCEPT !.dir = d, !.pc = "verify"]]
    BY <2>1 DEF Download
  <2>4. [run[p] EXCEPT !.dir = d, !.pc = "verify"].pc = "verify"
        /\ [run[p] EXCEPT !.dir = d, !.pc = "verify"].old = run[p].old
    BY <2>2 DEF Run
  <2>5. UNCHANGED <<installed, aside, had>>
    BY <2>1 DEF Download
  <2>6. run'[p].pc \notin Swapping /\ run'[p].old = None /\ \A q \in Proc \ {p} : run'[q] = run[q]
    BY <1>t, <1>o, <2>2, <2>3, <2>4 DEF Swapping
  <2>7. QED BY <2>5, <2>6, QuietCopies
<1>10. CASE \E p \in Proc : DownloadFails(p)
  <2>1. PICK p \in Proc : DownloadFails(p)
    BY <1>10
  <2>2. run' = [run EXCEPT ![p] = Idle] /\ UNCHANGED <<installed, aside, had>>
    BY <2>1 DEF DownloadFails, Ended
  <2>3. run'[p] = Idle /\ \A q \in Proc \ {p} : run'[q] = run[q]
    BY <1>t, <2>2
  <2>4. QED BY <2>2, <2>3, QuietCopies
<1>11. CASE \E p \in Proc : VerifyStaged(p)
  <2>1. PICK p \in Proc : VerifyStaged(p)
    BY <1>11
  <2>2. run[p] \in Run /\ run[p] # Idle /\ run[p].pc \notin Swapping
    BY <1>r, <2>1 DEF VerifyStaged, Swapping, Idle
  <2>3. run' = [run EXCEPT ![p] = [run[p] EXCEPT !.pc = "aside"]] \/ run' = [run EXCEPT ![p] = Idle]
    BY <2>1 DEF VerifyStaged, Ended
  <2>4. [run[p] EXCEPT !.pc = "aside"].pc = "aside" /\ [run[p] EXCEPT !.pc = "aside"].old = run[p].old
    BY <2>2 DEF Run
  <2>5. UNCHANGED <<installed, aside, had>>
    BY <2>1 DEF VerifyStaged
  <2>6. /\ run'[p] = Idle \/ (run'[p].pc \notin Swapping /\ run'[p].old = None)
        /\ \A q \in Proc \ {p} : run'[q] = run[q]
    BY <1>t, <1>o, <2>2, <2>3, <2>4 DEF Swapping
  <2>7. QED BY <2>5, <2>6, QuietCopies
<1>12. CASE \E p \in Proc : SetAside(p)
  <2>1. PICK p \in Proc : SetAside(p)
    BY <1>12
  <2> DEFINE n == run[p].stamp.ts.bundle
  <2>2. run[p] \in Run /\ run[p].pc \in Locked \ {"load"} /\ n \in Name /\ run[p] # Idle
    BY <1>r, <1>n, <2>1 DEF SetAside, Locked, Idle
  <2> DEFINE old == [name |-> n, dir |-> installed[n]]
  <2>3. run[p].pc = "aside" /\ run[p].old = None /\ had' = had
    BY <1>o, <2>1, <2>2 DEF SetAside, Swapping
  <2>4. CASE installed[n] = None
    <3>1. run' = [run EXCEPT ![p] = [run[p] EXCEPT !.pc = "swap"]] /\ UNCHANGED <<installed, aside>>
      BY <2>1, <2>4 DEF SetAside
    <3>2. run'[p].pc = "swap" /\ run'[p].old = None
      BY <1>t, <2>2, <2>3, <3>1 DEF Run
    <3>3. \A q \in Proc :
          /\ run'[q].pc \in Swapping /\ run'[q].old # None => run'[q].old.name = run'[q].stamp.ts.bundle
          /\ run'[q] # Idle /\ run'[q].pc \notin Swapping => run'[q].old = None
          /\ run'[q].pc = "swap" /\ run'[q].old # None => run'[q].old \in aside'
          /\ run'[q].pc \in {"record", "cleanup"} => installed'[run'[q].stamp.ts.bundle] # None
      BY <1>t, <1>o, <3>1, <3>2 DEF Swapping
    <3>4. QED BY <1>d, <2>3, <3>1, <3>3 DEF CopyInv, Swapping
  <2>5. CASE installed[n] # None
    <3>1. /\ run' = [run EXCEPT ![p] = [run[p] EXCEPT !.pc = "swap", !.old = old]]
          /\ aside' = aside \cup {old} /\ installed' = [installed EXCEPT ![n] = None]
      BY <2>1, <2>5 DEF SetAside
    <3>2. run'[p].pc = "swap" /\ run'[p].old = old /\ run'[p].stamp = run[p].stamp
      BY <1>t, <2>2, <3>1 DEF Run
    <3>3. \A q \in Proc \ {p} : run'[q] = run[q] /\ run[q].pc \notin Swapping
      BY <1>t, <1>l, <2>2, <3>1
    <3>4. \A q \in Proc :
          /\ run'[q].pc \in Swapping /\ run'[q].old # None => run'[q].old.name = run'[q].stamp.ts.bundle
          /\ run'[q] # Idle /\ run'[q].pc \notin Swapping => run'[q].old = None
          /\ run'[q].pc = "swap" /\ run'[q].old # None => run'[q].old \in aside'
          /\ run'[q].pc \in {"record", "cleanup"} => installed'[run'[q].stamp.ts.bundle] # None
      BY <1>o, <3>1, <3>2, <3>3 DEF Swapping
    <3>5. \A m \in Name : m # n => installed'[m] = installed[m]
      BY <1>t, <3>1
    <3>6. installed'[n] = None /\ Whole(installed[n], n)
      BY <1>d, <1>t, <2>2, <2>5, <3>1
    <3>7. \A m \in Name : installed'[m] # None => Whole(installed'[m], m)
      BY <1>d, <3>5, <3>6
    <3>8. \A x \in aside' : Whole(x.dir, x.name)
      BY <1>d, <3>1, <3>6
    <3>9. old \in aside' /\ old.name = n /\ aside \subseteq aside'
      BY <3>1
    <3>10. ASSUME NEW m \in had PROVE installed'[m] # None \/ \E x \in aside' : x.name = m
      <4>1. CASE m = n BY <3>9, <4>1
      <4>2. CASE m # n BY <1>d, <1>t, <3>5, <3>9, <4>2
      <4>3. QED BY <4>1, <4>2
    <3>11. QED BY <2>3, <3>4, <3>7, <3>8, <3>10 DEF CopyInv, Swapping
  <2>6. QED BY <2>4, <2>5
<1>13. CASE \E p \in Proc : SetAsideFails(p)
  <2>1. PICK p \in Proc : SetAsideFails(p)
    BY <1>13
  <2>2. run' = [run EXCEPT ![p] = Idle] /\ UNCHANGED <<installed, aside, had>>
    BY <2>1 DEF SetAsideFails, Ended
  <2>3. run'[p] = Idle /\ \A q \in Proc \ {p} : run'[q] = run[q]
    BY <1>t, <2>2
  <2>4. QED BY <2>2, <2>3, QuietCopies
<1>14. CASE \E p \in Proc : SwapIn(p)
  <2>1. PICK p \in Proc : SwapIn(p)
    BY <1>14
  <2> DEFINE n == run[p].stamp.ts.bundle
  <2>2. run[p] \in Run /\ run[p].pc \in Locked \ {"load"} /\ n \in Name /\ run[p] # Idle
    BY <1>r, <1>n, <2>1 DEF SwapIn, Locked, Idle
  <2>3. /\ run' = [run EXCEPT ![p] = [run[p] EXCEPT !.pc = "record"]] /\ run[p].pc = "swap"
        /\ installed' = [installed EXCEPT ![n] = run[p].dir]
        /\ had' = had \cup {n} /\ aside' = aside
    BY <2>1 DEF SwapIn
  <2>4. /\ run'[p].pc = "record" /\ run'[p].old = run[p].old /\ run'[p].stamp = run[p].stamp
    BY <1>t, <2>2, <2>3 DEF Run
  <2>5. run[p].dir # None /\ Whole(run[p].dir, n)
    BY <1>d, <1>n, <2>2, <2>3 DEF Staged
  <2>6. installed'[n] = run[p].dir /\ \A m \in Name : m # n => installed'[m] = installed[m]
    BY <1>t, <2>2, <2>3
  <2>7. \A q \in Proc \ {p} : run'[q] = run[q] /\ run[q].pc \notin Swapping
    BY <1>t, <1>l, <2>2, <2>3
  <2>8. \A q \in Proc :
        /\ run'[q].pc \in Swapping /\ run'[q].old # None => run'[q].old.name = run'[q].stamp.ts.bundle
        /\ run'[q] # Idle /\ run'[q].pc \notin Swapping => run'[q].old = None
        /\ run'[q].pc = "swap" /\ run'[q].old # None => run'[q].old \in aside'
        /\ run'[q].pc \in {"record", "cleanup"} => installed'[run'[q].stamp.ts.bundle] # None
    BY <1>o, <2>3, <2>4, <2>5, <2>6, <2>7 DEF Swapping
  <2>9. \A m \in Name : installed'[m] # None => Whole(installed'[m], m)
    BY <1>d, <2>5, <2>6
  <2>10. \A m \in had' : installed'[m] # None \/ \E x \in aside' : x.name = m
    BY <1>d, <1>t, <2>3, <2>5, <2>6
  <2>11. QED BY <1>d, <2>3, <2>8, <2>9, <2>10 DEF CopyInv, Swapping
<1>15. CASE \E p \in Proc : SwapFails(p)
  <2>1. PICK p \in Proc : SwapFails(p)
    BY <1>15
  <2> DEFINE n == run[p].stamp.ts.bundle
  <2>2. run[p] \in Run /\ run[p].pc \in Locked \ {"load"} /\ n \in Name /\ run[p] # Idle
    BY <1>r, <1>n, <2>1 DEF SwapFails, Locked, Idle
  <2>3. /\ run' = [run EXCEPT ![p] = Idle] /\ run[p].pc = "swap" /\ had' = had
        /\ \/ /\ run[p].old # None
              /\ installed' = [installed EXCEPT ![n] = run[p].old.dir]
              /\ aside' = aside \ {run[p].old}
           \/ UNCHANGED <<installed, aside>>
    BY <2>1 DEF SwapFails, Ended
  <2>4. \A q \in Proc :
        /\ run'[q].pc \in Swapping /\ run'[q].old # None => run'[q].old.name = run'[q].stamp.ts.bundle
        /\ run'[q] # Idle /\ run'[q].pc \notin Swapping => run'[q].old = None
        /\ run'[q].pc = "swap" /\ run'[q].old # None => run'[q].old \in aside'
        /\ run'[q].pc \in {"record", "cleanup"} => installed'[run'[q].stamp.ts.bundle] # None
    BY <1>t, <1>i, <1>l, <1>o, <2>2, <2>3 DEF Swapping
  <2>5. CASE UNCHANGED <<installed, aside>>
    BY <1>d, <2>3, <2>4, <2>5 DEF CopyInv, Swapping
  <2>6. CASE /\ run[p].old # None
             /\ installed' = [installed EXCEPT ![n] = run[p].old.dir]
             /\ aside' = aside \ {run[p].old}
    <3>1. run[p].old \in aside /\ run[p].old.name = n
      BY <1>o, <2>3, <2>6 DEF Swapping
    <3>2. run[p].old.dir # None /\ Whole(run[p].old.dir, n)
      BY <1>d, <3>1
    <3>3. installed'[n] = run[p].old.dir /\ \A m \in Name : m # n => installed'[m] = installed[m]
      BY <1>t, <2>2, <2>6
    <3>4. \A m \in Name : installed'[m] # None => Whole(installed'[m], m)
      BY <1>d, <3>2, <3>3
    <3>5. \A m \in had : installed'[m] # None \/ \E x \in aside' : x.name = m
      BY <1>d, <1>t, <2>6, <3>1, <3>2, <3>3
    <3>6. \A x \in aside' : Whole(x.dir, x.name)
      BY <1>d, <2>6
    <3>7. QED BY <2>3, <2>4, <3>4, <3>5, <3>6 DEF CopyInv, Swapping
  <2>7. QED BY <2>3, <2>5, <2>6
<1>16. CASE \E p \in Proc : RecordUpdate(p)
  <2>1. PICK p \in Proc : RecordUpdate(p)
    BY <1>16
  <2>2. /\ run[p] \in Run /\ run[p].pc = "record" /\ run[p].pc \in Locked
        /\ UNCHANGED <<installed, aside, had>>
    BY <1>r, <2>1 DEF RecordUpdate, Locked
  <2>3. CASE run' = [run EXCEPT ![p] = [run[p] EXCEPT !.pc = "cleanup"]]
    <3>1. run'[p].pc = "cleanup" /\ run'[p].old = run[p].old /\ run'[p].stamp = run[p].stamp
      BY <1>t, <2>2, <2>3 DEF Run
    <3>2. \A q \in Proc :
          /\ run'[q].pc \in Swapping /\ run'[q].old # None => run'[q].old.name = run'[q].stamp.ts.bundle
          /\ run'[q] # Idle /\ run'[q].pc \notin Swapping => run'[q].old = None
          /\ run'[q].pc = "swap" /\ run'[q].old # None => run'[q].old \in aside'
          /\ run'[q].pc \in {"record", "cleanup"} => installed'[run'[q].stamp.ts.bundle] # None
      BY <1>t, <1>o, <2>2, <2>3, <3>1 DEF Swapping
    <3>3. QED BY <1>d, <2>2, <3>2 DEF CopyInv, Swapping
  <2>4. CASE run' = [run EXCEPT ![p] = Idle]
    <3>1. run'[p] = Idle /\ \A q \in Proc \ {p} : run'[q] = run[q]
      BY <1>t, <2>4
    <3>2. QED BY <2>2, <3>1, QuietCopies
  <2>5. QED BY <2>1, <2>3, <2>4 DEF RecordUpdate, Ended
<1>17. CASE \E p \in Proc : RemoveOld(p)
  <2>1. PICK p \in Proc : RemoveOld(p)
    BY <1>17
  <2> DEFINE n == run[p].stamp.ts.bundle
  <2>2. run[p] \in Run /\ run[p].pc \in Locked \ {"load"} /\ n \in Name /\ run[p] # Idle
    BY <1>r, <1>n, <2>1 DEF RemoveOld, Locked, Idle
  <2>3. /\ run' = [run EXCEPT ![p] = Idle] /\ run[p].pc = "cleanup"
        /\ UNCHANGED <<installed, had>>
        /\ aside' = aside \ {run[p].old} \/ aside' = aside
    BY <2>1 DEF RemoveOld, Ended
  <2>4. \A q \in Proc :
        /\ run'[q].pc \in Swapping /\ run'[q].old # None => run'[q].old.name = run'[q].stamp.ts.bundle
        /\ run'[q] # Idle /\ run'[q].pc \notin Swapping => run'[q].old = None
        /\ run'[q].pc = "swap" /\ run'[q].old # None => run'[q].old \in aside'
        /\ run'[q].pc \in {"record", "cleanup"} => installed'[run'[q].stamp.ts.bundle] # None
    BY <1>t, <1>i, <1>l, <1>o, <2>2, <2>3 DEF Swapping
  <2>5. \A x \in aside : x # None
    BY <1>t, NoneAssumption DEF Copy
  <2>6. \A x \in aside : x.name # n => x \in aside'
    BY <1>o, <2>3, <2>5 DEF Swapping
  <2>7. installed[n] # None
    BY <1>o, <2>3
  <2>8. ASSUME NEW m \in had PROVE installed'[m] # None \/ \E x \in aside' : x.name = m
    <3>1. CASE m = n BY <2>3, <2>7, <3>1
    <3>2. CASE m # n BY <1>d, <2>3, <2>6, <3>2
    <3>3. QED BY <3>1, <3>2
  <2>9. QED BY <1>d, <2>3, <2>4, <2>8 DEF CopyInv, Swapping
<1>18. CASE \E p \in Proc : Load(p)
  <2>1. PICK p \in Proc : Load(p)
    BY <1>18
  <2>2. run' = [run EXCEPT ![p] = Idle] /\ UNCHANGED <<installed, aside, had>>
    BY <2>1 DEF Load, Ended
  <2>3. run'[p] = Idle /\ \A q \in Proc \ {p} : run'[q] = run[q]
    BY <1>t, <2>2
  <2>4. QED BY <2>2, <2>3, QuietCopies
<1>19. CASE \E p \in Proc : Kill(p)
  <2>1. PICK p \in Proc : Kill(p)
    BY <1>19
  <2>2. run' = [run EXCEPT ![p] = Idle] /\ UNCHANGED <<installed, aside, had>>
    BY <2>1 DEF Kill, Ended
  <2>3. run'[p] = Idle /\ \A q \in Proc \ {p} : run'[q] = run[q]
    BY <1>t, <2>2
  <2>4. QED BY <2>2, <2>3, QuietCopies
<1>20. CASE Tick
  <2>1. UNCHANGED <<installed, aside, had, run>>
    BY <1>20 DEF Tick
  <2>2. QED BY <2>1 DEF CopyInv
<1>21. CASE UNCHANGED vars BY <1>21 DEF vars, CopyInv
<1>22. QED
  BY <1>1, <1>2, <1>3, <1>4, <1>5, <1>6, <1>7, <1>8, <1>9, <1>10, <1>11, <1>12,
     <1>13, <1>14, <1>15, <1>16, <1>17, <1>18, <1>19, <1>20, <1>21
  DEF Next

\* A bundle that was installed is never lost: after any kill and any failed
\* rename it is in place or set aside under its name, provided no directory name
\* begins like another's and recover's own rename does not fail (update/lib.rs
\* install, recover).
THEOREM CopiesSurvive ==
    ASSUME Extends = {}, "put_back" \notin Faults
    PROVE  Spec => []CopySurvives
<1>1. Init => CopyInv
  <2>1. Idle.pc = "idle"
    BY DEF Idle
  <2>2. QED BY <2>1 DEF Init, CopyInv
<1>2. IInv /\ CopyInv /\ [Next]_vars => CopyInv'
  BY CopyStep
<1>3. TypeOK /\ CopyInv => CopySurvives
  BY DEF TypeOK, CopyInv, CopySurvives
<1>4. IInv => TypeOK
  BY DEF IInv
<1>5. QED
  BY <1>1, <1>2, <1>3, <1>4, ContentInvariant, PTL DEF Spec
=============================================================================
