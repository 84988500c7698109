-------------------------- MODULE ServiceJobsProofs --------------------------
(***************************************************************************)
(* Proofs about ServiceJobs, for any numbers of jobs and workers and any   *)
(* bounds on the queue, the history, failing writes and crashes.           *)
(*                                                                         *)
(* The invariant IInv ties the four places that know of a job together:    *)
(* the table in memory, the queue, the workers and the record on disk. It  *)
(* carries NoOrphanReports and CancelledActsNot, and every step from a     *)
(* state that satisfies it moves records forward only. Every lemma about a *)
(* step has one case per action of Next.                                   *)
(***************************************************************************)
EXTENDS ServiceJobs, TLAPS, FiniteSetTheorems, SequenceTheorems,
        WellFoundedInduction

----------------------------------------------------------------------------
(* Facts about the operators.                                              *)

\* A set of naturals that is not empty has a least element.
LEMMA LeastExists ==
    ASSUME NEW S, S \subseteq Nat, S # {}
    PROVE  \E x \in S : \A y \in S : x <= y
<1>1. PICK x \in S : \A y \in S : ~(<<y, x>> \in OpToRel(<, Nat))
  BY NatLessThanWellFounded, WFMin
<1>2. \A y \in S : ~(y < x)
  BY <1>1 DEF OpToRel
<1>3. \A y \in S : y \in Nat /\ x \in Nat
  BY <1>1
<1>4. \A y \in S : x <= y
  BY <1>2, <1>3
<1>5. QED
  BY <1>4

\* The job prune deletes next is one of those it has still to delete.
LEMMA VictimType ==
    ASSUME victims \in SUBSET Job, victims # {}
    PROVE  Victim \in victims
<1>1. \E x \in victims : \A y \in victims : x <= y
  BY LeastExists, JobAssumption
<1>2. QED
  BY <1>1 DEF Victim

Elements(s) == {s[i] : i \in DOMAIN s}
Distinct(s) == \A i, k \in DOMAIN s : s[i] = s[k] => i = k

\* What submit does to the queue: the job comes after all others.
LEMMA AppendQueue ==
    ASSUME NEW S, NEW s \in Seq(S), NEW e \in S
    PROVE  /\ Append(s, e) \in Seq(S) /\ Len(Append(s, e)) = Len(s) + 1
           /\ Elements(Append(s, e)) = Elements(s) \cup {e}
           /\ Distinct(s) /\ e \notin Elements(s) => Distinct(Append(s, e))
BY DEF Elements, Distinct

\* What a worker does to the queue: the first job leaves it.
LEMMA TailQueue ==
    ASSUME NEW S, NEW s \in Seq(S), s # <<>>
    PROVE  /\ Head(s) \in Elements(s) /\ Head(s) \in S
           /\ Tail(s) \in Seq(S) /\ Len(Tail(s)) = Len(s) - 1
           /\ Distinct(s) => /\ Elements(Tail(s)) = Elements(s) \ {Head(s)}
                             /\ Distinct(Tail(s))
<1>1. /\ Head(s) = s[1] /\ 1 \in DOMAIN s /\ Len(s) \in Nat /\ Len(s) > 0
      /\ DOMAIN s = 1..Len(s)
  OBVIOUS
<1>2. /\ Tail(s) \in Seq(S) /\ Len(Tail(s)) = Len(s) - 1
      /\ \A i \in 1..Len(s) - 1 : Tail(s)[i] = s[i + 1]
      /\ DOMAIN Tail(s) = 1..Len(s) - 1
  OBVIOUS
<1>3. ASSUME Distinct(s) PROVE Elements(Tail(s)) = Elements(s) \ {Head(s)}
  <2>1. ASSUME NEW x \in Elements(Tail(s)) PROVE x \in Elements(s) /\ x # Head(s)
    BY <1>1, <1>2, <1>3, <2>1 DEF Elements, Distinct
  <2>2. ASSUME NEW x \in Elements(s), x # Head(s) PROVE x \in Elements(Tail(s))
    <3>1. PICK i \in 1..Len(s) : s[i] = x
      BY <1>1 DEF Elements
    <3>2. i - 1 \in 1..Len(s) - 1 /\ Tail(s)[i - 1] = x
      BY <1>1, <1>2, <2>2, <3>1
    <3>3. QED
      BY <1>2, <3>2 DEF Elements
  <2>3. QED
    BY <2>1, <2>2
<1>4. ASSUME Distinct(s) PROVE Distinct(Tail(s))
  BY <1>1, <1>2, <1>4 DEF Distinct
<1>5. Head(s) \in Elements(s) /\ Head(s) \in S
  BY <1>1 DEF Elements
<1>6. QED
  BY <1>2, <1>3, <1>4, <1>5

\* What cancel does to the queue: one job leaves it.
LEMMA RemoveQueue ==
    ASSUME NEW S, NEW s \in Seq(S), NEW e \in Elements(s), Distinct(s)
    PROVE  /\ RemoveFirst(s, e) \in Seq(S) /\ Len(RemoveFirst(s, e)) = Len(s) - 1
           /\ Elements(RemoveFirst(s, e)) = Elements(s) \ {e}
           /\ Distinct(RemoveFirst(s, e))
<1> DEFINE I == {i \in 1..Len(s) : s[i] = e}
           k == SelectInSeq(s, LAMBDA v : v = e)
           r == RemoveFirst(s, e)
<1>1. Len(s) \in Nat /\ DOMAIN s = 1..Len(s) /\ \A i \in 1..Len(s) : s[i] \in S
  OBVIOUS
<1>2. I # {} /\ I \subseteq Nat
  BY <1>1 DEF Elements
<1>3. k \in 1..Len(s) /\ s[k] = e
  <2>1. \E x \in I : \A y \in I : x <= y
    BY <1>2, LeastExists
  <2>2. k = Min(I)
    BY <1>2 DEF SelectInSeq
  <2>3. k \in I
    BY <2>1, <2>2 DEF Min
  <2>4. QED
    BY <2>3
<1>4. r = SubSeq(s, 1, k - 1) \o SubSeq(s, k + 1, Len(s))
  BY <1>1, <1>3 DEF RemoveFirst, RemoveAt
<1> HIDE DEF k, I, r
<1> DEFINE t == SubSeq(s, 1, k - 1)
           u == SubSeq(s, k + 1, Len(s))
<1>5. /\ t \in Seq(S) /\ Len(t) = k - 1
      /\ \A i \in 1..k - 1 : t[i] = s[i]
  <2>1. /\ t \in Seq(S) /\ Len(t) = IF 1 <= k - 1 THEN (k - 1) - 1 + 1 ELSE 0
        /\ \A i \in 1..(k - 1) - 1 + 1 : t[i] = s[1 + i - 1]
    <3>1. k - 1 \in Int /\ 1 \in Int /\ \A i \in 1..k - 1 : s[i] \in S
      BY <1>1, <1>3
    <3>2. QED
      BY <3>1, SubSeqProperties
  <2>2. \A i \in 1..k - 1 : 1 + i - 1 = i
    OBVIOUS
  <2>3. QED
    BY <1>1, <1>3, <2>1, <2>2
<1>6. /\ u \in Seq(S) /\ Len(u) = Len(s) - k
      /\ \A i \in 1..Len(s) - k : u[i] = s[k + i]
  <2>1. /\ u \in Seq(S)
        /\ Len(u) = IF k + 1 <= Len(s) THEN Len(s) - (k + 1) + 1 ELSE 0
        /\ \A i \in 1..Len(s) - (k + 1) + 1 : u[i] = s[(k + 1) + i - 1]
    <3>1. k + 1 \in Int /\ Len(s) \in Int /\ \A i \in k + 1..Len(s) : s[i] \in S
      BY <1>1, <1>3
    <3>2. QED
      BY <3>1, SubSeqProperties
  <2> HIDE DEF t, u
  <2>2. \A i \in 1..Len(s) - k : (k + 1) + i - 1 = k + i
    BY <1>3
  <2>3. Len(s) - (k + 1) + 1 = Len(s) - k /\ (k + 1 <= Len(s) \/ Len(s) - k = 0)
    <3>1. \A m, n \in Int : n <= m => m - (n + 1) + 1 = m - n /\ (n + 1 <= m \/ m - n = 0)
      OBVIOUS
    <3>2. Len(s) \in Int /\ k \in Int /\ k <= Len(s)
      BY <1>1, <1>3
    <3>3. QED
      BY <3>1, <3>2
  <2>4. Len(u) = Len(s) - k
    BY <2>1, <2>3
  <2>5. \A i \in 1..Len(s) - k : u[i] = s[(k + 1) + i - 1]
    BY <2>1, <2>3
  <2>6. QED
    BY <2>1, <2>2, <2>4, <2>5
<1> HIDE DEF t, u
<1>7. /\ r \in Seq(S) /\ Len(r) = Len(s) - 1 /\ DOMAIN r = 1..Len(s) - 1
      /\ \A i \in 1..Len(s) - 1 : r[i] = IF i < k THEN s[i] ELSE s[i + 1]
  <2>1. r = t \o u
    BY <1>4 DEF t, u
  <2>2. /\ r \in Seq(S) /\ Len(r) = Len(t) + Len(u)
        /\ \A i \in 1..Len(t) + Len(u) : r[i] = IF i <= Len(t) THEN t[i] ELSE u[i - Len(t)]
    BY <1>5, <1>6, <2>1, ConcatProperties
  <2>3. Len(r) = Len(s) - 1 /\ DOMAIN r = 1..Len(s) - 1
    BY <1>1, <1>3, <1>5, <1>6, <2>2
  <2>4. ASSUME NEW i \in 1..Len(s) - 1 PROVE r[i] = IF i < k THEN s[i] ELSE s[i + 1]
    <3> Len(t) + Len(u) = Len(s) - 1 /\ Len(t) = k - 1 /\ k \in Int /\ i \in Int
      BY <1>1, <1>3, <1>5, <1>6
    <3>1. CASE i < k
      <4>1. i \in 1..k - 1 /\ i <= k - 1
        BY <3>1
      <4>2. r[i] = t[i]
        BY <2>2, <4>1
      <4>3. QED
        BY <1>5, <3>1, <4>1, <4>2
    <3>2. CASE i >= k
      <4>1. i - (k - 1) \in 1..Len(s) - k /\ k + (i - (k - 1)) = i + 1
        BY <1>1, <1>3, <3>2
      <4>2. r[i] = u[i - (k - 1)]
        <5>1. ~(i <= k - 1)
          BY <3>2
        <5>2. QED
          BY <2>2, <5>1
      <4>3. QED
        BY <1>3, <1>6, <3>2, <4>1, <4>2
    <3>3. QED
      BY <1>3, <3>1, <3>2
  <2>5. QED
    BY <2>2, <2>3, <2>4
<1>8. Distinct(r)
  <2>1. ASSUME NEW i \in 1..Len(s) - 1, NEW j \in 1..Len(s) - 1, r[i] = r[j]
        PROVE  i = j
    <3> DEFINE at(x) == IF x < k THEN x ELSE x + 1
    <3>1. at(i) \in DOMAIN s /\ at(j) \in DOMAIN s
      BY <1>1, <1>3
    <3>2. s[at(i)] = s[at(j)]
      BY <1>7, <2>1
    <3>3. at(i) = at(j)
      BY <3>1, <3>2 DEF Distinct
    <3>4. QED
      BY <1>3, <3>3
  <2>2. QED
    BY <1>7, <2>1 DEF Distinct
<1>9. ASSUME NEW x \in Elements(r) PROVE x \in Elements(s) /\ x # e
  BY <1>1, <1>3, <1>7, <1>9, SMTT(30) DEF Elements, Distinct
<1>10. ASSUME NEW x \in Elements(s), x # e PROVE x \in Elements(r)
  <2>1. PICK i \in 1..Len(s) : s[i] = x
    BY <1>1 DEF Elements
  <2>2. CASE i < k
    <3>1. i \in 1..Len(s) - 1 /\ r[i] = x
      BY <1>1, <1>3, <1>7, <2>1, <2>2
    <3>2. QED
      BY <1>7, <3>1 DEF Elements
  <2>3. CASE i > k
    <3>1. i - 1 \in 1..Len(s) - 1 /\ r[i - 1] = x
      BY <1>1, <1>3, <1>7, <2>1, <2>3
    <3>2. QED
      BY <1>7, <3>1 DEF Elements
  <2>4. QED
    BY <1>3, <1>10, <2>1, <2>2, <2>3
<1>11. QED
  BY <1>7, <1>8, <1>9, <1>10 DEF r

\* The elements of the queue, as QueueAgrees speaks of them.
LEMMA QueueElements ==
    ASSUME TypeOK
    PROVE  \A j : j \in Elements(queue) <=> \E i \in DOMAIN queue : queue[i] = j
BY DEF Elements

\* A worker that executes has a job.
LEMMA JobOf ==
    ASSUME TypeOK, ThreadsAgree
    PROVE  \A w \in Worker : pc[w] \in Executing => job[w] \in Job
BY DEF TypeOK, ThreadsAgree

\* A worker that prunes has a victim, which has ended.
LEMMA VictimOf ==
    ASSUME TypeOK, PruneAgrees
    PROVE  \A w \in Worker : pc[w] \in Pruning =>
             Victim \in victims /\ Victim \in Job /\ mem[Victim] \in Finished
BY VictimType DEF TypeOK, PruneAgrees

\* The three operations on the queue, in terms of the invariant.
LEMMA QueueTaken ==
    ASSUME TypeOK, QueueAgrees, queue # <<>>
    PROVE  /\ Head(queue) \in Job /\ mem[Head(queue)] = "queued"
           /\ Tail(queue) \in Seq(Job) /\ Len(Tail(queue)) <= MaxQueued
           /\ Elements(Tail(queue)) = Elements(queue) \ {Head(queue)}
           /\ Distinct(Tail(queue))
<1>1. queue \in Seq(Job) /\ Distinct(queue) /\ Len(queue) <= MaxQueued
  BY DEF TypeOK, QueueAgrees, Distinct
<1>2. /\ Head(queue) \in Elements(queue) /\ Head(queue) \in Job
      /\ Tail(queue) \in Seq(Job) /\ Len(Tail(queue)) = Len(queue) - 1
      /\ Elements(Tail(queue)) = Elements(queue) \ {Head(queue)}
      /\ Distinct(Tail(queue))
  BY <1>1, TailQueue
<1>3. mem[Head(queue)] = "queued"
  BY <1>2 DEF QueueAgrees, Elements
<1>4. Len(Tail(queue)) <= MaxQueued
  BY <1>1, <1>2, LimitsAssumption
<1>5. QED
  BY <1>2, <1>3, <1>4

LEMMA QueueAppended ==
    ASSUME TypeOK, QueueAgrees, Len(queue) < MaxQueued, NEW j \in Job, mem[j] # "queued"
    PROVE  /\ Append(queue, j) \in Seq(Job) /\ Len(Append(queue, j)) <= MaxQueued
           /\ Elements(Append(queue, j)) = Elements(queue) \cup {j}
           /\ Distinct(Append(queue, j))
<1>1. queue \in Seq(Job) /\ Distinct(queue) /\ j \notin Elements(queue)
  BY DEF TypeOK, QueueAgrees, Distinct, Elements
<1>2. /\ Append(queue, j) \in Seq(Job) /\ Len(Append(queue, j)) = Len(queue) + 1
      /\ Elements(Append(queue, j)) = Elements(queue) \cup {j}
      /\ Distinct(Append(queue, j))
  BY <1>1, AppendQueue
<1>3. QED
  BY <1>1, <1>2, LimitsAssumption

LEMMA QueueRemoved ==
    ASSUME TypeOK, QueueAgrees, NEW j \in Job, \E i \in DOMAIN queue : queue[i] = j
    PROVE  /\ mem[j] = "queued"
           /\ RemoveFirst(queue, j) \in Seq(Job)
           /\ Len(RemoveFirst(queue, j)) <= MaxQueued
           /\ Elements(RemoveFirst(queue, j)) = Elements(queue) \ {j}
           /\ Distinct(RemoveFirst(queue, j))
<1>1. /\ queue \in Seq(Job) /\ Distinct(queue) /\ j \in Elements(queue)
      /\ mem[j] = "queued" /\ Len(queue) <= MaxQueued
  BY DEF TypeOK, QueueAgrees, Distinct, Elements
<1>2. /\ RemoveFirst(queue, j) \in Seq(Job) /\ Len(RemoveFirst(queue, j)) = Len(queue) - 1
      /\ Elements(RemoveFirst(queue, j)) = Elements(queue) \ {j}
      /\ Distinct(RemoveFirst(queue, j))
  BY <1>1, RemoveQueue
<1>3. Len(RemoveFirst(queue, j)) <= MaxQueued
  BY <1>1, <1>2, LimitsAssumption
<1>4. QED
  BY <1>1, <1>2, <1>3

\* The position of a new job is a number.
LEMMA CreatedType ==
    Cardinality({k \in Job : created[k] > 0}) + 1 \in Nat \ {0}
<1>1. IsFiniteSet({k \in Job : created[k] > 0})
  BY FS_Subset, JobAssumption
<1>2. QED
  BY <1>1, FS_CardinalityType

\* So is the number of records a restart could not write, which is zero only
\* if it wrote them all.
LEMMA UnsavedType ==
    ASSUME NEW unsaved \in SUBSET Unsettled
    PROVE  Cardinality(unsaved) \in Nat /\ (Cardinality(unsaved) = 0 => unsaved = {})
<1>1. IsFiniteSet(unsaved)
  BY FS_Subset, JobAssumption DEF Unsettled
<1>2. QED
  BY <1>1, FS_CardinalityType, FS_EmptySet

----------------------------------------------------------------------------
(* The parts of the invariant, step by step.                               *)

\* The table keeps its type.
LEMMA MemTypeStep ==
    ASSUME TypeOK, QueueAgrees, ThreadsAgree, PruneAgrees, [Next]_vars
    PROVE  /\ mem' \in [Job -> JobState \cup {"absent"}]
<1>t. /\ mem \in [Job -> JobState \cup {"absent"}]
      /\ disk \in [Job -> JobState \cup {"absent"}]
      /\ result \in [Worker -> Finished]
  BY DEF TypeOK
<1>a. \A w \in Worker : pc[w] \in Executing => job[w] \in Job
  BY JobOf
<1>b. \A w \in Worker : pc[w] \in Pruning =>
        Victim \in victims /\ Victim \in Job /\ mem[Victim] \in Finished
  BY VictimOf
<1>c. queue # <<>> => /\ Head(queue) \in Job /\ mem[Head(queue)] = "queued"
                    /\ Tail(queue) \in Seq(Job) /\ Len(Tail(queue)) <= MaxQueued
  BY QueueTaken
<1> USE JobAssumption, LimitsAssumption, <1>t
    DEF NoFault, Fault, records, threads, wakes, JobState, Finished, Executing, Pruning
<1>1. CASE Restart
  BY <1>1 DEF Restart, Settled, Unsettled
<1>2. CASE Shutdown BY <1>2 DEF Shutdown
<1>3. CASE Exit BY <1>3 DEF Exit, Gone
<1>4. CASE Crash BY <1>4 DEF Crash, Gone, Unsettled
<1>5. CASE NotifyOne BY <1>5 DEF NotifyOne
<1>6. CASE NotifyAll BY <1>6 DEF NotifyAll
<1>7. CASE \E j \in Job : Submit(j) BY <1>7 DEF Submit, SaveJob
<1>8. CASE \E j \in Job : Cancel(j) BY <1>8 DEF Cancel, SaveJob
<1>9. CASE \E w \in Worker : WorkerCheck(w)
  BY <1>9, <1>c, SMTT(30) DEF WorkerCheck, SaveJob, Goto
<1>10. CASE \E w \in Worker : ExecuteStart(w)
  BY <1>10 DEF ExecuteStart, Exec, Goto, Returns
<1>11. CASE \E w \in Worker : RunChild(w)
  BY <1>11 DEF RunChild, Exec, Goto, Returns
<1>12. CASE \E w \in Worker : Remediate(w)
  BY <1>12 DEF Remediate, Exec, Goto
<1>13. CASE \E w \in Worker : SaveReport(w)
  BY <1>13 DEF SaveReport, Exec, Goto, Returns
<1>14. CASE \E w \in Worker : WorkerFinish(w)
  BY <1>14, <1>a DEF WorkerFinish, SaveJob, Goto
<1>15. CASE \E w \in Worker : PruneReport(w) BY <1>15 DEF PruneReport, Goto
<1>16. CASE \E w \in Worker : PruneRecord(w)
  BY <1>16, <1>b DEF PruneRecord, Goto
<1>17. CASE \E w \in Worker : SpuriousWake(w)
  BY <1>17 DEF SpuriousWake, Goto
<1>18. CASE UNCHANGED vars BY <1>18 DEF vars
<1>19. QED
  BY <1>1, <1>2, <1>3, <1>4, <1>5, <1>6, <1>7, <1>8, <1>9, <1>10, <1>11, <1>12,
     <1>13, <1>14, <1>15, <1>16, <1>17, <1>18
  DEF Next, Request, WorkerStep

\* The records keep their types.
LEMMA DiskTypeStep ==
    ASSUME TypeOK, QueueAgrees, ThreadsAgree, PruneAgrees, [Next]_vars
    PROVE  /\ disk' \in [Job -> JobState \cup {"absent"}]
<1>t. /\ disk \in [Job -> JobState \cup {"absent"}]
      /\ result \in [Worker -> Finished]
  BY DEF TypeOK
<1>a. \A w \in Worker : pc[w] \in Executing => job[w] \in Job
  BY JobOf
<1>b. \A w \in Worker : pc[w] \in Pruning =>
        Victim \in victims /\ Victim \in Job /\ mem[Victim] \in Finished
  BY VictimOf
<1>c. queue # <<>> => /\ Head(queue) \in Job /\ mem[Head(queue)] = "queued"
                    /\ Tail(queue) \in Seq(Job) /\ Len(Tail(queue)) <= MaxQueued
  BY QueueTaken
<1> USE JobAssumption, LimitsAssumption, <1>t
    DEF NoFault, Fault, records, threads, wakes, JobState, Finished, Executing, Pruning
<1>1. CASE Restart BY <1>1 DEF Restart, Settled, Unsettled
<1>2. CASE Shutdown BY <1>2 DEF Shutdown
<1>3. CASE Exit BY <1>3 DEF Exit, Gone
<1>4. CASE Crash BY <1>4 DEF Crash, Gone, Unsettled
<1>5. CASE NotifyOne BY <1>5 DEF NotifyOne
<1>6. CASE NotifyAll BY <1>6 DEF NotifyAll
<1>7. CASE \E j \in Job : Submit(j) BY <1>7 DEF Submit, SaveJob
<1>8. CASE \E j \in Job : Cancel(j) BY <1>8 DEF Cancel, SaveJob
<1>9. CASE \E w \in Worker : WorkerCheck(w)
  BY <1>9, <1>c DEF WorkerCheck, SaveJob, Goto
<1>10. CASE \E w \in Worker : ExecuteStart(w)
  BY <1>10 DEF ExecuteStart, Exec, Goto, Returns
<1>11. CASE \E w \in Worker : RunChild(w)
  BY <1>11 DEF RunChild, Exec, Goto, Returns
<1>12. CASE \E w \in Worker : Remediate(w)
  BY <1>12 DEF Remediate, Exec, Goto
<1>13. CASE \E w \in Worker : SaveReport(w)
  BY <1>13 DEF SaveReport, Exec, Goto, Returns
<1>14. CASE \E w \in Worker : WorkerFinish(w)
  BY <1>14, <1>a DEF WorkerFinish, SaveJob, Goto
<1>15. CASE \E w \in Worker : PruneReport(w) BY <1>15 DEF PruneReport, Goto
<1>16. CASE \E w \in Worker : PruneRecord(w)
  BY <1>16, <1>b DEF PruneRecord, Goto
<1>17. CASE \E w \in Worker : SpuriousWake(w)
  BY <1>17 DEF SpuriousWake, Goto
<1>18. CASE UNCHANGED vars BY <1>18 DEF vars
<1>19. QED
  BY <1>1, <1>2, <1>3, <1>4, <1>5, <1>6, <1>7, <1>8, <1>9, <1>10, <1>11, <1>12,
     <1>13, <1>14, <1>15, <1>16, <1>17, <1>18
  DEF Next, Request, WorkerStep

\* The reports and what was quarantined keep their types.
LEMMA ReportsTypeStep ==
    ASSUME TypeOK, QueueAgrees, ThreadsAgree, PruneAgrees, [Next]_vars
    PROVE  /\ reports' \in SUBSET Job /\ quarantined' \in SUBSET Job
<1>t. /\ reports \in SUBSET Job /\ quarantined \in SUBSET Job
  BY DEF TypeOK
<1>a. \A w \in Worker : pc[w] \in Executing => job[w] \in Job
  BY JobOf
<1> USE JobAssumption, LimitsAssumption, <1>t
    DEF NoFault, Fault, records, threads, wakes, Executing, Pruning
<1>1. CASE Restart BY <1>1 DEF Restart, Settled, Unsettled
<1>2. CASE Shutdown BY <1>2 DEF Shutdown
<1>3. CASE Exit BY <1>3 DEF Exit, Gone
<1>4. CASE Crash BY <1>4 DEF Crash, Gone, Unsettled
<1>5. CASE NotifyOne BY <1>5 DEF NotifyOne
<1>6. CASE NotifyAll BY <1>6 DEF NotifyAll
<1>7. CASE \E j \in Job : Submit(j) BY <1>7 DEF Submit, SaveJob
<1>8. CASE \E j \in Job : Cancel(j) BY <1>8 DEF Cancel, SaveJob
<1>9. CASE \E w \in Worker : WorkerCheck(w)
  BY <1>9 DEF WorkerCheck, SaveJob, Goto
<1>10. CASE \E w \in Worker : ExecuteStart(w)
  BY <1>10 DEF ExecuteStart, Exec, Goto, Returns
<1>11. CASE \E w \in Worker : RunChild(w)
  BY <1>11 DEF RunChild, Exec, Goto, Returns
<1>12. CASE \E w \in Worker : Remediate(w)
  BY <1>12, <1>a DEF Remediate, Exec, Goto
<1>13. CASE \E w \in Worker : SaveReport(w)
  BY <1>13, <1>a DEF SaveReport, Exec, Goto, Returns
<1>14. CASE \E w \in Worker : WorkerFinish(w)
  BY <1>14 DEF WorkerFinish, SaveJob, Goto
<1>15. CASE \E w \in Worker : PruneReport(w) BY <1>15 DEF PruneReport, Goto
<1>16. CASE \E w \in Worker : PruneRecord(w) BY <1>16 DEF PruneRecord, Goto
<1>17. CASE \E w \in Worker : SpuriousWake(w)
  BY <1>17 DEF SpuriousWake, Goto
<1>18. CASE UNCHANGED vars BY <1>18 DEF vars
<1>19. QED
  BY <1>1, <1>2, <1>3, <1>4, <1>5, <1>6, <1>7, <1>8, <1>9, <1>10, <1>11, <1>12,
     <1>13, <1>14, <1>15, <1>16, <1>17, <1>18
  DEF Next, Request, WorkerStep

\* The threads' variables keep their types.
LEMMA ThreadsTypeStep ==
    ASSUME TypeOK, QueueAgrees, ThreadsAgree, PruneAgrees, [Next]_vars
    PROVE  /\ service' \in {"down", "up", "stopping"}
           /\ pc' \in [Worker -> {"off", "check", "sleep", "ended"} \cup Executing \cup Pruning]
           /\ job' \in [Worker -> Job \cup {None}]
           /\ result' \in [Worker -> Finished]
           /\ victims' \in SUBSET Job
           /\ owed' \in Nat /\ owedAll' \in BOOLEAN
<1>t. /\ service \in {"down", "up", "stopping"}
      /\ pc \in [Worker -> {"off", "check", "sleep", "ended"} \cup Executing \cup Pruning]
      /\ job \in [Worker -> Job \cup {None}]
      /\ result \in [Worker -> Finished]
      /\ victims \in SUBSET Job
      /\ owed \in Nat /\ owedAll \in BOOLEAN
  BY DEF TypeOK
<1>a. \A w \in Worker : pc[w] \in Executing => job[w] \in Job
  BY JobOf
<1>c. queue # <<>> => /\ Head(queue) \in Job /\ mem[Head(queue)] = "queued"
                    /\ Tail(queue) \in Seq(Job) /\ Len(Tail(queue)) <= MaxQueued
  BY QueueTaken
<1> USE JobAssumption, LimitsAssumption, <1>t
    DEF NoFault, Fault, records, threads, wakes, Finished, Executing, Pruning
<1>1. CASE Restart BY <1>1 DEF Restart, Settled, Unsettled
<1>2. CASE Shutdown BY <1>2 DEF Shutdown
<1>3. CASE Exit BY <1>3 DEF Exit, Gone
<1>4. CASE Crash BY <1>4 DEF Crash, Gone, Unsettled
<1>5. CASE NotifyOne BY <1>5 DEF NotifyOne
<1>6. CASE NotifyAll BY <1>6 DEF NotifyAll
<1>7. CASE \E j \in Job : Submit(j) BY <1>7 DEF Submit, SaveJob
<1>8. CASE \E j \in Job : Cancel(j) BY <1>8 DEF Cancel, SaveJob
<1>9. CASE \E w \in Worker : WorkerCheck(w)
  BY <1>9, <1>c DEF WorkerCheck, SaveJob, Goto
<1>10. CASE \E w \in Worker : ExecuteStart(w)
  BY <1>10 DEF ExecuteStart, Exec, Goto, Returns
<1>11. CASE \E w \in Worker : RunChild(w)
  BY <1>11 DEF RunChild, Exec, Goto, Returns
<1>12. CASE \E w \in Worker : Remediate(w)
  BY <1>12 DEF Remediate, Exec, Goto
<1>13. CASE \E w \in Worker : SaveReport(w)
  BY <1>13 DEF SaveReport, Exec, Goto, Returns
<1>14. CASE \E w \in Worker : WorkerFinish(w)
  BY <1>14, <1>a DEF WorkerFinish, SaveJob, Goto, Excess
<1>15. CASE \E w \in Worker : PruneReport(w) BY <1>15 DEF PruneReport, Goto
<1>16. CASE \E w \in Worker : PruneRecord(w) BY <1>16 DEF PruneRecord, Goto
<1>17. CASE \E w \in Worker : SpuriousWake(w)
  BY <1>17 DEF SpuriousWake, Goto
<1>18. CASE UNCHANGED vars BY <1>18 DEF vars
<1>19. QED
  BY <1>1, <1>2, <1>3, <1>4, <1>5, <1>6, <1>7, <1>8, <1>9, <1>10, <1>11, <1>12,
     <1>13, <1>14, <1>15, <1>16, <1>17, <1>18
  DEF Next, Request, WorkerStep

\* The queue keeps its type and its bound.
LEMMA QueueTypeStep ==
    ASSUME TypeOK, QueueAgrees, ThreadsAgree, PruneAgrees, RecordsAgree, [Next]_vars
    PROVE  /\ queue' \in Seq(Job) /\ Len(queue') <= MaxQueued
<1>t. /\ queue \in Seq(Job) /\ Len(queue) <= MaxQueued
  BY DEF TypeOK
<1>c. queue # <<>> => /\ Head(queue) \in Job /\ mem[Head(queue)] = "queued"
                    /\ Tail(queue) \in Seq(Job) /\ Len(Tail(queue)) <= MaxQueued
  BY QueueTaken
<1>d. \A j \in Job : Len(queue) < MaxQueued /\ mem[j] # "queued" =>
        Append(queue, j) \in Seq(Job) /\ Len(Append(queue, j)) <= MaxQueued
  BY QueueAppended
<1>e. \A j \in Job : (\E i \in DOMAIN queue : queue[i] = j) =>
        /\ RemoveFirst(queue, j) \in Seq(Job) /\ mem[j] = "queued"
        /\ Len(RemoveFirst(queue, j)) <= MaxQueued
  BY QueueRemoved
<1> USE JobAssumption, LimitsAssumption, <1>t
    DEF NoFault, Fault, records, threads, wakes
<1>1. CASE Restart BY <1>1 DEF Restart, Settled, Unsettled
<1>2. CASE Shutdown BY <1>2 DEF Shutdown
<1>3. CASE Exit BY <1>3 DEF Exit, Gone
<1>4. CASE Crash BY <1>4 DEF Crash, Gone, Unsettled
<1>5. CASE NotifyOne BY <1>5 DEF NotifyOne
<1>6. CASE NotifyAll BY <1>6 DEF NotifyAll
<1>7. CASE \E j \in Job : Submit(j)
  BY <1>7, <1>d DEF Submit, SaveJob, RecordsAgree
<1>8. CASE \E j \in Job : Cancel(j) BY <1>8, <1>e DEF Cancel, SaveJob
<1>9. CASE \E w \in Worker : WorkerCheck(w)
  BY <1>9, <1>c DEF WorkerCheck, SaveJob, Goto
<1>10. CASE \E w \in Worker : ExecuteStart(w)
  BY <1>10 DEF ExecuteStart, Exec, Goto, Returns
<1>11. CASE \E w \in Worker : RunChild(w)
  BY <1>11 DEF RunChild, Exec, Goto, Returns
<1>12. CASE \E w \in Worker : Remediate(w)
  BY <1>12 DEF Remediate, Exec, Goto
<1>13. CASE \E w \in Worker : SaveReport(w)
  BY <1>13 DEF SaveReport, Exec, Goto, Returns
<1>14. CASE \E w \in Worker : WorkerFinish(w)
  BY <1>14 DEF WorkerFinish, SaveJob, Goto
<1>15. CASE \E w \in Worker : PruneReport(w) BY <1>15 DEF PruneReport, Goto
<1>16. CASE \E w \in Worker : PruneRecord(w) BY <1>16 DEF PruneRecord, Goto
<1>17. CASE \E w \in Worker : SpuriousWake(w)
  BY <1>17 DEF SpuriousWake, Goto
<1>18. CASE UNCHANGED vars BY <1>18 DEF vars
<1>19. QED
  BY <1>1, <1>2, <1>3, <1>4, <1>5, <1>6, <1>7, <1>8, <1>9, <1>10, <1>11, <1>12,
     <1>13, <1>14, <1>15, <1>16, <1>17, <1>18
  DEF Next, Request, WorkerStep

\* The cancel flags keep their types.
LEMMA FlagsTypeStep ==
    ASSUME TypeOK, QueueAgrees, ThreadsAgree, PruneAgrees, [Next]_vars
    PROVE  /\ cancels' \in SUBSET Job /\ flagged' \in SUBSET cancels'
<1>t. /\ cancels \in SUBSET Job /\ flagged \in SUBSET cancels
  BY DEF TypeOK
<1>c. queue # <<>> => /\ Head(queue) \in Job /\ mem[Head(queue)] = "queued"
                    /\ Tail(queue) \in Seq(Job) /\ Len(Tail(queue)) <= MaxQueued
  BY QueueTaken
<1> USE JobAssumption, LimitsAssumption, <1>t
    DEF NoFault, Fault, records, threads, wakes
<1>1. CASE Restart BY <1>1 DEF Restart, Settled, Unsettled
<1>2. CASE Shutdown BY <1>2 DEF Shutdown
<1>3. CASE Exit BY <1>3 DEF Exit, Gone
<1>4. CASE Crash BY <1>4 DEF Crash, Gone, Unsettled
<1>5. CASE NotifyOne BY <1>5 DEF NotifyOne
<1>6. CASE NotifyAll BY <1>6 DEF NotifyAll
<1>7. CASE \E j \in Job : Submit(j) BY <1>7 DEF Submit, SaveJob
<1>8. CASE \E j \in Job : Cancel(j) BY <1>8 DEF Cancel, SaveJob
<1>9. CASE \E w \in Worker : WorkerCheck(w)
  BY <1>9, <1>c DEF WorkerCheck, SaveJob, Goto
<1>10. CASE \E w \in Worker : ExecuteStart(w)
  BY <1>10 DEF ExecuteStart, Exec, Goto, Returns
<1>11. CASE \E w \in Worker : RunChild(w)
  BY <1>11 DEF RunChild, Exec, Goto, Returns
<1>12. CASE \E w \in Worker : Remediate(w)
  BY <1>12 DEF Remediate, Exec, Goto
<1>13. CASE \E w \in Worker : SaveReport(w)
  BY <1>13 DEF SaveReport, Exec, Goto, Returns
<1>14. CASE \E w \in Worker : WorkerFinish(w)
  BY <1>14 DEF WorkerFinish, SaveJob, Goto
<1>15. CASE \E w \in Worker : PruneReport(w) BY <1>15 DEF PruneReport, Goto
<1>16. CASE \E w \in Worker : PruneRecord(w) BY <1>16 DEF PruneRecord, Goto
<1>17. CASE \E w \in Worker : SpuriousWake(w)
  BY <1>17 DEF SpuriousWake, Goto
<1>18. CASE UNCHANGED vars BY <1>18 DEF vars
<1>19. QED
  BY <1>1, <1>2, <1>3, <1>4, <1>5, <1>6, <1>7, <1>8, <1>9, <1>10, <1>11, <1>12,
     <1>13, <1>14, <1>15, <1>16, <1>17, <1>18
  DEF Next, Request, WorkerStep

\* The counters keep their types.
LEMMA CountersTypeStep ==
    ASSUME TypeOK, QueueAgrees, ThreadsAgree, PruneAgrees, [Next]_vars
    PROVE  /\ created' \in [Job -> Nat]
           /\ faults' \in 0..MaxFaults /\ crashes' \in 0..MaxCrashes
<1>t. /\ created \in [Job -> Nat]
      /\ faults \in 0..MaxFaults /\ crashes \in 0..MaxCrashes
  BY DEF TypeOK
<1> USE JobAssumption, LimitsAssumption, <1>t
    DEF NoFault, Fault, records, threads, wakes
<1>1. CASE Restart BY <1>1, UnsavedType DEF Restart, Settled, Unsettled
<1>2. CASE Shutdown BY <1>2 DEF Shutdown
<1>3. CASE Exit BY <1>3 DEF Exit, Gone
<1>4. CASE Crash BY <1>4 DEF Crash, Gone, Unsettled
<1>5. CASE NotifyOne BY <1>5 DEF NotifyOne
<1>6. CASE NotifyAll BY <1>6 DEF NotifyAll
<1>7. CASE \E j \in Job : Submit(j)
  BY <1>7, CreatedType DEF Submit, SaveJob
<1>8. CASE \E j \in Job : Cancel(j) BY <1>8 DEF Cancel, SaveJob
<1>9. CASE \E w \in Worker : WorkerCheck(w)
  BY <1>9 DEF WorkerCheck, SaveJob, Goto
<1>10. CASE \E w \in Worker : ExecuteStart(w)
  BY <1>10 DEF ExecuteStart, Exec, Goto, Returns
<1>11. CASE \E w \in Worker : RunChild(w)
  BY <1>11 DEF RunChild, Exec, Goto, Returns
<1>12. CASE \E w \in Worker : Remediate(w)
  BY <1>12 DEF Remediate, Exec, Goto
<1>13. CASE \E w \in Worker : SaveReport(w)
  BY <1>13 DEF SaveReport, Exec, Goto, Returns
<1>14. CASE \E w \in Worker : WorkerFinish(w)
  BY <1>14 DEF WorkerFinish, SaveJob, Goto
<1>15. CASE \E w \in Worker : PruneReport(w) BY <1>15 DEF PruneReport, Goto
<1>16. CASE \E w \in Worker : PruneRecord(w) BY <1>16 DEF PruneRecord, Goto
<1>17. CASE \E w \in Worker : SpuriousWake(w)
  BY <1>17 DEF SpuriousWake, Goto
<1>18. CASE UNCHANGED vars BY <1>18 DEF vars
<1>19. QED
  BY <1>1, <1>2, <1>3, <1>4, <1>5, <1>6, <1>7, <1>8, <1>9, <1>10, <1>11, <1>12,
     <1>13, <1>14, <1>15, <1>16, <1>17, <1>18
  DEF Next, Request, WorkerStep

\* The queue holds exactly the queued jobs, each once.
LEMMA QueueStep ==
    ASSUME TypeOK, QueueAgrees, ThreadsAgree, PruneAgrees,
           RecordsAgree, [Next]_vars
    PROVE  Distinct(queue') /\ \A j \in Job : mem'[j] = "queued" <=> j \in Elements(queue')
<1>t. /\ mem \in [Job -> JobState \cup {"absent"}]
      /\ disk \in [Job -> JobState \cup {"absent"}]
      /\ result \in [Worker -> Finished]
  BY DEF TypeOK
<1>a. \A w \in Worker : pc[w] \in Executing => job[w] \in Job
  BY JobOf
<1>k. \A w \in Worker : pc[w] \in Executing => mem[job[w]] = "running"
  BY <1>a DEF QueueAgrees
<1>b. \A w \in Worker : pc[w] \in Pruning =>
        Victim \in victims /\ Victim \in Job /\ mem[Victim] \in Finished
  BY VictimOf
<1>q. Distinct(queue) /\ \A j \in Job : mem[j] = "queued" <=> j \in Elements(queue)
  BY DEF QueueAgrees, Distinct, Elements
<1>s. Distinct(<<>>) /\ Elements(<<>>) = {}
  BY DEF Distinct, Elements
<1>c. queue # <<>> =>
        /\ Head(queue) \in Job /\ mem[Head(queue)] = "queued"
        /\ Elements(Tail(queue)) = Elements(queue) \ {Head(queue)}
        /\ Distinct(Tail(queue))
  BY QueueTaken
<1>d. \A j \in Job : Len(queue) < MaxQueued /\ mem[j] # "queued" =>
        /\ Elements(Append(queue, j)) = Elements(queue) \cup {j}
        /\ Distinct(Append(queue, j))
  BY QueueAppended
<1>e. \A j \in Job : (\E i \in DOMAIN queue : queue[i] = j) =>
        /\ Elements(RemoveFirst(queue, j)) = Elements(queue) \ {j} /\ mem[j] = "queued"
        /\ Distinct(RemoveFirst(queue, j))
  BY QueueRemoved
<1> USE JobAssumption, <1>t, <1>q, <1>s
    DEF NoFault, Fault, records, threads, wakes, Finished, Executing, Pruning
<1>1. CASE Restart
  BY <1>1 DEF Restart, Settled, Unsettled, ThreadsAgree, Serving
<1>2. CASE Shutdown BY <1>2 DEF Shutdown
<1>3. CASE Exit BY <1>3 DEF Exit, Gone
<1>4. CASE Crash BY <1>4 DEF Crash, Gone, Unsettled
<1>5. CASE NotifyOne BY <1>5 DEF NotifyOne
<1>6. CASE NotifyAll BY <1>6 DEF NotifyAll
<1>7. CASE \E j \in Job : Submit(j)
  <2>1. PICK j \in Job : Submit(j)
    BY <1>7
  <2>2. CASE UNCHANGED <<mem, queue>>
    BY <2>2
  <2>3. CASE mem' = [mem EXCEPT ![j] = "queued"] /\ queue' = Append(queue, j)
    <3>1. mem[j] # "queued" /\ Len(queue) < MaxQueued
      BY <2>1 DEF Submit, RecordsAgree
    <3>2. Distinct(queue') /\ Elements(queue') = Elements(queue) \cup {j}
      BY <1>d, <2>3, <3>1
    <3>3. QED
      BY <2>3, <3>2
  <2>4. QED
    BY <2>1, <2>2, <2>3 DEF Submit
<1>8. CASE \E j \in Job : Cancel(j) BY <1>8, <1>e DEF Cancel, SaveJob
<1>9. CASE \E w \in Worker : WorkerCheck(w)
  <2>1. CASE UNCHANGED <<mem, queue>>
    BY <2>1
  <2>2. CASE /\ queue # <<>> /\ queue' = Tail(queue)
             /\ mem' = [mem EXCEPT ![Head(queue)] = "running"]
    BY <1>c, <2>2
  <2>3. QED
    BY <1>9, <2>1, <2>2 DEF WorkerCheck
<1>10. CASE \E w \in Worker : ExecuteStart(w)
  BY <1>10 DEF ExecuteStart, Exec, Goto, Returns
<1>11. CASE \E w \in Worker : RunChild(w)
  BY <1>11 DEF RunChild, Exec, Goto, Returns
<1>12. CASE \E w \in Worker : Remediate(w)
  BY <1>12 DEF Remediate, Exec, Goto
<1>13. CASE \E w \in Worker : SaveReport(w)
  BY <1>13 DEF SaveReport, Exec, Goto, Returns
<1>14. CASE \E w \in Worker : WorkerFinish(w)
  BY <1>14, <1>a, <1>k DEF WorkerFinish, SaveJob, Goto
<1>15. CASE \E w \in Worker : PruneReport(w) BY <1>15 DEF PruneReport, Goto
<1>16. CASE \E w \in Worker : PruneRecord(w)
  BY <1>16, <1>b DEF PruneRecord, Goto
<1>17. CASE \E w \in Worker : SpuriousWake(w)
  BY <1>17 DEF SpuriousWake, Goto
<1>18. CASE UNCHANGED vars BY <1>18 DEF vars
<1>19. QED
  BY <1>1, <1>2, <1>3, <1>4, <1>5, <1>6, <1>7, <1>8, <1>9, <1>10, <1>11, <1>12,
     <1>13, <1>14, <1>15, <1>16, <1>17, <1>18
  DEF Next, Request, WorkerStep

\* A job is running exactly when a worker executes it.
LEMMA RunningStep ==
    ASSUME TypeOK, QueueAgrees, ThreadsAgree, PruneAgrees,
           RecordsAgree, [Next]_vars
    PROVE  \A j \in Job : mem'[j] = "running" <=>
             \E w \in Worker : pc'[w] \in Executing /\ job'[w] = j
<1>t. /\ mem \in [Job -> JobState \cup {"absent"}]
      /\ disk \in [Job -> JobState \cup {"absent"}]
      /\ result \in [Worker -> Finished]
      /\ pc \in [Worker -> {"off", "check", "sleep", "ended"} \cup Executing \cup Pruning]
      /\ job \in [Worker -> Job \cup {None}]
  BY DEF TypeOK
<1>a. \A w \in Worker : pc[w] \in Executing => job[w] \in Job
  BY JobOf
<1>b. \A w \in Worker : pc[w] \in Pruning =>
        Victim \in victims /\ Victim \in Job /\ mem[Victim] \in Finished
  BY VictimOf
<1>c. queue # <<>> =>
        /\ Head(queue) \in Job /\ mem[Head(queue)] = "queued"
        /\ Elements(Tail(queue)) = Elements(queue) \ {Head(queue)}
        /\ Distinct(Tail(queue))
  BY QueueTaken
<1>e. \A j \in Job : (\E i \in DOMAIN queue : queue[i] = j) =>
        /\ Elements(RemoveFirst(queue, j)) = Elements(queue) \ {j} /\ mem[j] = "queued"
        /\ Distinct(RemoveFirst(queue, j))
  BY QueueRemoved
<1>r. \A j \in Job : mem[j] = "running" <=>
          \E w \in Worker : pc[w] \in Executing /\ job[w] = j
  BY DEF QueueAgrees
<1>u. \A v, w \in Worker : job[v] = job[w] => v = w \/ job[v] = None
  BY DEF QueueAgrees
<1>x. \A w \in Worker : job[w] # None <=> pc[w] \in Executing
  BY DEF ThreadsAgree
<1> USE JobAssumption, <1>t, <1>r
    DEF NoFault, Fault, records, threads, wakes, Finished, Executing, Pruning
<1>1. CASE Restart
  BY <1>1 DEF Restart, Settled, Unsettled, ThreadsAgree
<1>2. CASE Shutdown BY <1>2 DEF Shutdown
<1>3. CASE Exit BY <1>3 DEF Exit, Gone
<1>4. CASE Crash BY <1>4 DEF Crash, Gone, Unsettled
<1>5. CASE NotifyOne BY <1>5 DEF NotifyOne
<1>6. CASE NotifyAll BY <1>6 DEF NotifyAll
<1>7. CASE \E j \in Job : Submit(j)
  <2>1. PICK j \in Job : Submit(j)
    BY <1>7
  <2>2. mem[j] = "absent" /\ mem' \in {mem, [mem EXCEPT ![j] = "queued"]}
    BY <2>1 DEF Submit, RecordsAgree
  <2>3. QED
    BY <2>1, <2>2 DEF Submit
<1>8. CASE \E j \in Job : Cancel(j)
  <2>1. PICK j \in Job : Cancel(j)
    BY <1>8
  <2>2. \/ UNCHANGED mem
        \/ mem[j] = "queued" /\ mem' = [mem EXCEPT ![j] = "cancelled"]
    BY <1>e, <2>1 DEF Cancel
  <2>3. QED
    BY <2>1, <2>2 DEF Cancel
<1>9. CASE \E w \in Worker : WorkerCheck(w)
  BY <1>9, <1>c, <1>x DEF WorkerCheck, SaveJob, Goto
<1>10. CASE \E w \in Worker : ExecuteStart(w)
  BY <1>10 DEF ExecuteStart, Exec, Goto, Returns
<1>11. CASE \E w \in Worker : RunChild(w)
  BY <1>11 DEF RunChild, Exec, Goto, Returns
<1>12. CASE \E w \in Worker : Remediate(w)
  BY <1>12 DEF Remediate, Exec, Goto
<1>13. CASE \E w \in Worker : SaveReport(w)
  BY <1>13 DEF SaveReport, Exec, Goto, Returns
<1>14. CASE \E w \in Worker : WorkerFinish(w)
  BY <1>14, <1>a, <1>u, <1>x DEF WorkerFinish, SaveJob, Goto
<1>15. CASE \E w \in Worker : PruneReport(w) BY <1>15 DEF PruneReport, Goto
<1>16. CASE \E w \in Worker : PruneRecord(w)
  BY <1>16, <1>b DEF PruneRecord, Goto
<1>17. CASE \E w \in Worker : SpuriousWake(w)
  BY <1>17 DEF SpuriousWake, Goto
<1>18. CASE UNCHANGED vars BY <1>18 DEF vars
<1>19. QED
  BY <1>1, <1>2, <1>3, <1>4, <1>5, <1>6, <1>7, <1>8, <1>9, <1>10, <1>11, <1>12,
     <1>13, <1>14, <1>15, <1>16, <1>17, <1>18
  DEF Next, Request, WorkerStep

\* No two workers execute the same job.
LEMMA OneWorkerStep ==
    ASSUME TypeOK, QueueAgrees, ThreadsAgree, PruneAgrees, [Next]_vars
    PROVE  \A v, w \in Worker : job'[v] = job'[w] => v = w \/ job'[v] = None
<1>t. /\ mem \in [Job -> JobState \cup {"absent"}]
      /\ pc \in [Worker -> {"off", "check", "sleep", "ended"} \cup Executing \cup Pruning]
      /\ job \in [Worker -> Job \cup {None}]
  BY DEF TypeOK
<1>c. queue # <<>> =>
        /\ Head(queue) \in Job /\ mem[Head(queue)] = "queued"
        /\ Elements(Tail(queue)) = Elements(queue) \ {Head(queue)}
        /\ Distinct(Tail(queue))
  BY QueueTaken
<1>r. \A j \in Job : mem[j] = "running" <=>
          \E w \in Worker : pc[w] \in Executing /\ job[w] = j
  BY DEF QueueAgrees
<1>u. \A v, w \in Worker : job[v] = job[w] => v = w \/ job[v] = None
  BY DEF QueueAgrees
<1>x. \A w \in Worker : job[w] # None <=> pc[w] \in Executing
  BY DEF ThreadsAgree
<1> USE JobAssumption, <1>t, <1>r, <1>u, <1>x
    DEF NoFault, Fault, records, threads, wakes, Executing
<1>1. CASE Restart BY <1>1 DEF Restart, Settled, Unsettled
<1>2. CASE Shutdown BY <1>2 DEF Shutdown
<1>3. CASE Exit BY <1>3 DEF Exit, Gone
<1>4. CASE Crash BY <1>4 DEF Crash, Gone, Unsettled
<1>5. CASE NotifyOne BY <1>5 DEF NotifyOne
<1>6. CASE NotifyAll BY <1>6 DEF NotifyAll
<1>7. CASE \E j \in Job : Submit(j) BY <1>7 DEF Submit, SaveJob
<1>8. CASE \E j \in Job : Cancel(j) BY <1>8 DEF Cancel, SaveJob
<1>9. CASE \E w \in Worker : WorkerCheck(w)
  <2>1. PICK u \in Worker : WorkerCheck(u)
    BY <1>9
  <2>2. CASE UNCHANGED job
    BY <2>2
  <2>3. CASE queue # <<>> /\ job' = [job EXCEPT ![u] = Head(queue)]
    <3>1. ASSUME NEW v \in Worker, job[v] = Head(queue) PROVE FALSE
      <4>1. Head(queue) \in Job /\ mem[Head(queue)] = "queued"
        BY <1>c, <2>3
      <4>2. pc[v] \in Executing
        BY <3>1, <4>1
      <4>3. mem[Head(queue)] = "running"
        BY <3>1, <4>1, <4>2, ZenonT(40)
      <4>4. QED
        BY <4>1, <4>3
    <3>2. QED
      BY <2>3, <3>1
  <2>4. QED
    BY <2>1, <2>2, <2>3 DEF WorkerCheck
<1>10. CASE \E w \in Worker : ExecuteStart(w)
  BY <1>10 DEF ExecuteStart, Exec, Goto, Returns
<1>11. CASE \E w \in Worker : RunChild(w)
  BY <1>11 DEF RunChild, Exec, Goto, Returns
<1>12. CASE \E w \in Worker : Remediate(w)
  BY <1>12 DEF Remediate, Exec, Goto
<1>13. CASE \E w \in Worker : SaveReport(w)
  BY <1>13 DEF SaveReport, Exec, Goto, Returns
<1>14. CASE \E w \in Worker : WorkerFinish(w)
  BY <1>14 DEF WorkerFinish, SaveJob, Goto
<1>15. CASE \E w \in Worker : PruneReport(w) BY <1>15 DEF PruneReport, Goto
<1>16. CASE \E w \in Worker : PruneRecord(w) BY <1>16 DEF PruneRecord, Goto
<1>17. CASE \E w \in Worker : SpuriousWake(w)
  BY <1>17 DEF SpuriousWake, Goto
<1>18. CASE UNCHANGED vars BY <1>18 DEF vars
<1>19. QED
  BY <1>1, <1>2, <1>3, <1>4, <1>5, <1>6, <1>7, <1>8, <1>9, <1>10, <1>11, <1>12,
     <1>13, <1>14, <1>15, <1>16, <1>17, <1>18
  DEF Next, Request, WorkerStep

\* The jobs with a cancel flag are the running ones.
LEMMA CancelsStep ==
    ASSUME TypeOK, QueueAgrees, ThreadsAgree, PruneAgrees,
           RecordsAgree, [Next]_vars
    PROVE  \A j \in Job : mem'[j] = "running" <=> j \in cancels'
<1>t. /\ mem \in [Job -> JobState \cup {"absent"}]
      /\ disk \in [Job -> JobState \cup {"absent"}]
      /\ result \in [Worker -> Finished]
  BY DEF TypeOK
<1>f. \A j \in Job : mem[j] = "running" <=> j \in cancels
  BY DEF QueueAgrees
<1>a. \A w \in Worker : pc[w] \in Executing => job[w] \in Job
  BY JobOf
<1>b. \A w \in Worker : pc[w] \in Pruning =>
        Victim \in victims /\ Victim \in Job /\ mem[Victim] \in Finished
  BY VictimOf
<1>c. queue # <<>> =>
        /\ Head(queue) \in Job /\ mem[Head(queue)] = "queued"
        /\ Elements(Tail(queue)) = Elements(queue) \ {Head(queue)}
        /\ Distinct(Tail(queue))
  BY QueueTaken
<1>e. \A j \in Job : (\E i \in DOMAIN queue : queue[i] = j) =>
        /\ Elements(RemoveFirst(queue, j)) = Elements(queue) \ {j} /\ mem[j] = "queued"
        /\ Distinct(RemoveFirst(queue, j))
  BY QueueRemoved
<1> USE JobAssumption, <1>t, <1>f
    DEF NoFault, Fault, records, threads, wakes, Finished, Executing, Pruning
<1>1. CASE Restart
  BY <1>1 DEF Restart, Settled, Unsettled, ThreadsAgree
<1>2. CASE Shutdown BY <1>2 DEF Shutdown
<1>3. CASE Exit BY <1>3 DEF Exit, Gone
<1>4. CASE Crash BY <1>4 DEF Crash, Gone, Unsettled
<1>5. CASE NotifyOne BY <1>5 DEF NotifyOne
<1>6. CASE NotifyAll BY <1>6 DEF NotifyAll
<1>7. CASE \E j \in Job : Submit(j)
  BY <1>7, ZenonT(40) DEF Submit, RecordsAgree
<1>8. CASE \E j \in Job : Cancel(j) BY <1>8, <1>e, ZenonT(40) DEF Cancel, SaveJob
<1>9. CASE \E w \in Worker : WorkerCheck(w)
  BY <1>9, <1>c DEF WorkerCheck, SaveJob, Goto
<1>10. CASE \E w \in Worker : ExecuteStart(w)
  BY <1>10 DEF ExecuteStart, Exec, Goto, Returns
<1>11. CASE \E w \in Worker : RunChild(w)
  BY <1>11 DEF RunChild, Exec, Goto, Returns
<1>12. CASE \E w \in Worker : Remediate(w)
  BY <1>12 DEF Remediate, Exec, Goto
<1>13. CASE \E w \in Worker : SaveReport(w)
  BY <1>13 DEF SaveReport, Exec, Goto, Returns
<1>14. CASE \E w \in Worker : WorkerFinish(w)
  BY <1>14, <1>a DEF WorkerFinish, SaveJob, Goto
<1>15. CASE \E w \in Worker : PruneReport(w) BY <1>15 DEF PruneReport, Goto
<1>16. CASE \E w \in Worker : PruneRecord(w)
  BY <1>16, <1>b DEF PruneRecord, Goto
<1>17. CASE \E w \in Worker : SpuriousWake(w)
  BY <1>17 DEF SpuriousWake, Goto
<1>18. CASE UNCHANGED vars BY <1>18 DEF vars
<1>19. QED
  BY <1>1, <1>2, <1>3, <1>4, <1>5, <1>6, <1>7, <1>8, <1>9, <1>10, <1>11, <1>12,
     <1>13, <1>14, <1>15, <1>16, <1>17, <1>18
  DEF Next, Request, WorkerStep

\* While the lock is free nothing is being pruned.
LEMMA LockVictims ==
    ASSUME PruneAgrees, LockFree
    PROVE  victims = {}
BY DEF PruneAgrees, LockFree

\* What ThreadsAgree says of a service that is down and of its threads.
LEMMA ThreadsStep ==
    ASSUME TypeOK, QueueAgrees, ThreadsAgree, PruneAgrees, [Next]_vars
    PROVE  ThreadsAgree'
<1>t. /\ service \in {"down", "up", "stopping"}
      /\ pc \in [Worker -> {"off", "check", "sleep", "ended"} \cup Executing \cup Pruning]
      /\ job \in [Worker -> Job \cup {None}]
  BY DEF TypeOK
<1>c. queue # <<>> => Head(queue) \in Job /\ mem[Head(queue)] = "queued"
  BY QueueTaken
<1> USE JobAssumption, <1>t
    DEF ThreadsAgree, NoFault, Fault, records, threads, wakes, Finished, Executing, Pruning
<1>1. CASE Restart BY <1>1 DEF Restart, Settled, Unsettled
<1>2. CASE Shutdown BY <1>2 DEF Shutdown
<1>3. CASE Exit BY <1>3 DEF Exit, Gone
<1>4. CASE Crash BY <1>4 DEF Crash, Gone, Unsettled
<1>5. CASE NotifyOne BY <1>5 DEF NotifyOne
<1>6. CASE NotifyAll BY <1>6 DEF NotifyAll
<1>7. CASE \E j \in Job : Submit(j) BY <1>7 DEF Submit, SaveJob
<1>8. CASE \E j \in Job : Cancel(j) BY <1>8 DEF Cancel, SaveJob
<1>9. CASE \E w \in Worker : WorkerCheck(w)
  BY <1>9, <1>c DEF WorkerCheck, SaveJob, Goto
<1>10. CASE \E w \in Worker : ExecuteStart(w)
  BY <1>10 DEF ExecuteStart, Exec, Goto, Returns
<1>11. CASE \E w \in Worker : RunChild(w)
  BY <1>11 DEF RunChild, Exec, Goto, Returns
<1>12. CASE \E w \in Worker : Remediate(w)
  BY <1>12 DEF Remediate, Exec, Goto
<1>13. CASE \E w \in Worker : SaveReport(w)
  BY <1>13 DEF SaveReport, Exec, Goto, Returns
<1>14. CASE \E w \in Worker : WorkerFinish(w)
  BY <1>14 DEF WorkerFinish, SaveJob, Goto
<1>15. CASE \E w \in Worker : PruneReport(w) BY <1>15 DEF PruneReport, Goto
<1>16. CASE \E w \in Worker : PruneRecord(w) BY <1>16 DEF PruneRecord, Goto
<1>17. CASE \E w \in Worker : SpuriousWake(w)
  BY <1>17 DEF SpuriousWake, Goto
<1>18. CASE UNCHANGED vars BY <1>18 DEF vars
<1>19. QED
  BY <1>1, <1>2, <1>3, <1>4, <1>5, <1>6, <1>7, <1>8, <1>9, <1>10, <1>11, <1>12,
     <1>13, <1>14, <1>15, <1>16, <1>17, <1>18
  DEF Next, Request, WorkerStep

\* Only jobs that have ended are pruned.
LEMMA VictimsStep ==
    ASSUME TypeOK, QueueAgrees, ThreadsAgree, PruneAgrees, [Next]_vars
    PROVE  \A j \in victims' : mem'[j] \in Finished
<1>t. /\ mem \in [Job -> JobState \cup {"absent"}]
      /\ victims \in SUBSET Job
  BY DEF TypeOK
<1>v. \A j \in victims : mem[j] \in Finished
  BY DEF PruneAgrees
<1>b. \A w \in Worker : pc[w] \in Pruning =>
        Victim \in victims /\ Victim \in Job /\ mem[Victim] \in Finished
  BY VictimOf
<1> USE JobAssumption, <1>t, <1>v
    DEF NoFault, Fault, records, threads, wakes, Finished, Executing, Pruning
<1>1. CASE Restart
  BY <1>1 DEF Restart, ThreadsAgree
<1>2. CASE Shutdown BY <1>2 DEF Shutdown
<1>3. CASE Exit BY <1>3 DEF Exit, Gone
<1>4. CASE Crash BY <1>4 DEF Crash, Gone, Unsettled
<1>5. CASE NotifyOne BY <1>5 DEF NotifyOne
<1>6. CASE NotifyAll BY <1>6 DEF NotifyAll
<1>7. CASE \E j \in Job : Submit(j)
  BY <1>7, LockVictims DEF Submit
<1>8. CASE \E j \in Job : Cancel(j)
  BY <1>8, LockVictims DEF Cancel
<1>9. CASE \E w \in Worker : WorkerCheck(w)
  BY <1>9, LockVictims DEF WorkerCheck
<1>10. CASE \E w \in Worker : ExecuteStart(w)
  BY <1>10 DEF ExecuteStart, Exec, Goto, Returns
<1>11. CASE \E w \in Worker : RunChild(w)
  BY <1>11 DEF RunChild, Exec, Goto, Returns
<1>12. CASE \E w \in Worker : Remediate(w)
  BY <1>12 DEF Remediate, Exec, Goto
<1>13. CASE \E w \in Worker : SaveReport(w)
  BY <1>13 DEF SaveReport, Exec, Goto, Returns
<1>14. CASE \E w \in Worker : WorkerFinish(w)
  BY <1>14 DEF WorkerFinish, Excess
<1>15. CASE \E w \in Worker : PruneReport(w) BY <1>15 DEF PruneReport, Goto
<1>16. CASE \E w \in Worker : PruneRecord(w)
  BY <1>16, <1>b DEF PruneRecord, Goto
<1>17. CASE \E w \in Worker : SpuriousWake(w)
  BY <1>17 DEF SpuriousWake, Goto
<1>18. CASE UNCHANGED vars BY <1>18 DEF vars
<1>19. QED
  BY <1>1, <1>2, <1>3, <1>4, <1>5, <1>6, <1>7, <1>8, <1>9, <1>10, <1>11, <1>12,
     <1>13, <1>14, <1>15, <1>16, <1>17, <1>18
  DEF Next, Request, WorkerStep

\* The worker that prunes is one, and has something to delete.
LEMMA PruningStep ==
    ASSUME TypeOK, QueueAgrees, ThreadsAgree, PruneAgrees, [Next]_vars
    PROVE  /\ victims' # {} <=> \E w \in Worker : pc'[w] \in Pruning
           /\ \A v, w \in Worker : pc'[v] \in Pruning /\ pc'[w] \in Pruning => v = w
<1>t. /\ pc \in [Worker -> {"off", "check", "sleep", "ended"} \cup Executing \cup Pruning]
  BY DEF TypeOK
<1>v. /\ victims # {} <=> \E w \in Worker : pc[w] \in Pruning
      /\ \A v, w \in Worker : pc[v] \in Pruning /\ pc[w] \in Pruning => v = w
  BY DEF PruneAgrees
<1> USE JobAssumption, <1>t, <1>v
    DEF LockFree, NoFault, Fault, records, threads, wakes, Finished, Executing, Pruning
<1>1. CASE Restart
  BY <1>1 DEF Restart, ThreadsAgree
<1>2. CASE Shutdown BY <1>2 DEF Shutdown
<1>3. CASE Exit BY <1>3 DEF Exit, Gone
<1>4. CASE Crash BY <1>4 DEF Crash, Gone, Unsettled
<1>5. CASE NotifyOne BY <1>5 DEF NotifyOne
<1>6. CASE NotifyAll BY <1>6 DEF NotifyAll
<1>7. CASE \E j \in Job : Submit(j) BY <1>7 DEF Submit, SaveJob
<1>8. CASE \E j \in Job : Cancel(j) BY <1>8 DEF Cancel, SaveJob
<1>9. CASE \E w \in Worker : WorkerCheck(w)
  BY <1>9 DEF WorkerCheck, SaveJob, Goto
<1>10. CASE \E w \in Worker : ExecuteStart(w)
  BY <1>10 DEF ExecuteStart, Exec, Goto, Returns
<1>11. CASE \E w \in Worker : RunChild(w)
  BY <1>11 DEF RunChild, Exec, Goto, Returns
<1>12. CASE \E w \in Worker : Remediate(w)
  BY <1>12 DEF Remediate, Exec, Goto
<1>13. CASE \E w \in Worker : SaveReport(w)
  BY <1>13 DEF SaveReport, Exec, Goto, Returns
<1>14. CASE \E w \in Worker : WorkerFinish(w)
  <2>1. PICK u \in Worker : WorkerFinish(u)
    BY <1>14
  <2>2. /\ \A w \in Worker : pc[w] \notin Pruning
        /\ pc' = [pc EXCEPT ![u] = IF victims' = {} THEN "check" ELSE "pruneReport"]
    BY <2>1 DEF WorkerFinish, Goto
  <2>3. CASE victims' = {}
    BY <2>2, <2>3
  <2>4. CASE victims' # {}
    BY <2>2, <2>4
  <2>5. QED
    BY <2>3, <2>4
<1>15. CASE \E w \in Worker : PruneReport(w) BY <1>15 DEF PruneReport, Goto
<1>16. CASE \E w \in Worker : PruneRecord(w) BY <1>16 DEF PruneRecord, Goto
<1>17. CASE \E w \in Worker : SpuriousWake(w)
  BY <1>17 DEF SpuriousWake, Goto
<1>18. CASE UNCHANGED vars BY <1>18 DEF vars
<1>19. QED
  BY <1>1, <1>2, <1>3, <1>4, <1>5, <1>6, <1>7, <1>8, <1>9, <1>10, <1>11, <1>12,
     <1>13, <1>14, <1>15, <1>16, <1>17, <1>18
  DEF Next, Request, WorkerStep

\* Without failures, the report of the job whose record goes is gone.
LEMMA PrunedReportStep ==
    ASSUME TypeOK, QueueAgrees, ThreadsAgree, PruneAgrees, [Next]_vars
    PROVE  \A w \in Worker : pc'[w] = "pruneRecord" /\ faults' = 0 => Victim' \notin reports'
<1>t. /\ pc \in [Worker -> {"off", "check", "sleep", "ended"} \cup Executing \cup Pruning]
      /\ reports \in SUBSET Job /\ quarantined \in SUBSET Job
      /\ faults \in 0..MaxFaults /\ crashes \in 0..MaxCrashes
  BY DEF TypeOK
<1>r. \A w \in Worker : pc[w] \in Executing => job[w] \in Job /\ mem[job[w]] = "running"
  BY JobOf DEF QueueAgrees
<1>v. /\ \A v, w \in Worker : pc[v] \in Pruning /\ pc[w] \in Pruning => v = w
      /\ \A w \in Worker : pc[w] = "pruneRecord" /\ faults = 0 => Victim \notin reports
  BY DEF PruneAgrees
<1>b. \A w \in Worker : pc[w] \in Pruning =>
        Victim \in victims /\ Victim \in Job /\ mem[Victim] \in Finished
  BY VictimOf
<1> USE JobAssumption, <1>t, <1>v
    DEF LockFree, Victim, NoFault, Fault, records, threads, wakes, Finished, Executing, Pruning
<1>1. CASE Restart BY <1>1 DEF Restart, Settled, Unsettled
<1>2. CASE Shutdown BY <1>2 DEF Shutdown
<1>3. CASE Exit BY <1>3 DEF Exit, Gone
<1>4. CASE Crash BY <1>4 DEF Crash, Gone, Unsettled
<1>5. CASE NotifyOne BY <1>5 DEF NotifyOne
<1>6. CASE NotifyAll BY <1>6 DEF NotifyAll
<1>7. CASE \E j \in Job : Submit(j) BY <1>7 DEF Submit, SaveJob
<1>8. CASE \E j \in Job : Cancel(j) BY <1>8 DEF Cancel, SaveJob
<1>9. CASE \E w \in Worker : WorkerCheck(w)
  BY <1>9 DEF WorkerCheck, SaveJob, Goto
<1>10. CASE \E w \in Worker : ExecuteStart(w)
  BY <1>10 DEF ExecuteStart, Exec, Goto, Returns
<1>11. CASE \E w \in Worker : RunChild(w)
  BY <1>11 DEF RunChild, Exec, Goto, Returns
<1>12. CASE \E w \in Worker : Remediate(w)
  BY <1>12 DEF Remediate, Exec, Goto
<1>13. CASE \E w \in Worker : SaveReport(w)
  BY <1>13, <1>r, <1>b DEF SaveReport, Exec, Goto, Returns
<1>14. CASE \E w \in Worker : WorkerFinish(w)
  BY <1>14 DEF WorkerFinish, SaveJob, Goto
<1>15. CASE \E w \in Worker : PruneReport(w) BY <1>15 DEF PruneReport, Goto
<1>16. CASE \E w \in Worker : PruneRecord(w) BY <1>16 DEF PruneRecord, Goto
<1>17. CASE \E w \in Worker : SpuriousWake(w)
  BY <1>17 DEF SpuriousWake, Goto
<1>18. CASE UNCHANGED vars BY <1>18 DEF vars
<1>19. QED
  BY <1>1, <1>2, <1>3, <1>4, <1>5, <1>6, <1>7, <1>8, <1>9, <1>10, <1>11, <1>12,
     <1>13, <1>14, <1>15, <1>16, <1>17, <1>18
  DEF Next, Request, WorkerStep

\* What the record of a job that has not ended says.
LEMMA JournalStep ==
    ASSUME TypeOK, QueueAgrees, ThreadsAgree, PruneAgrees,
           RecordsAgree, [Next]_vars
    PROVE  \A j \in Job :
             /\ mem'[j] = "queued" => disk'[j] = "queued"
             /\ mem'[j] = "running" => disk'[j] \in {"queued", "running"}
<1>t. /\ mem \in [Job -> JobState \cup {"absent"}]
      /\ disk \in [Job -> JobState \cup {"absent"}]
      /\ result \in [Worker -> Finished]
  BY DEF TypeOK
<1>r. \A w \in Worker : pc[w] \in Executing => job[w] \in Job /\ mem[job[w]] = "running"
  BY JobOf DEF QueueAgrees
<1>b. \A w \in Worker : pc[w] \in Pruning =>
        Victim \in victims /\ Victim \in Job /\ mem[Victim] \in Finished
  BY VictimOf
<1>c. queue # <<>> => Head(queue) \in Job /\ mem[Head(queue)] = "queued"
  BY QueueTaken
<1>e. \A j \in Job : (\E i \in DOMAIN queue : queue[i] = j) => mem[j] = "queued"
  BY QueueRemoved
<1>j. \A j \in Job :
        /\ mem[j] = "queued" => disk[j] = "queued"
        /\ mem[j] = "running" => disk[j] \in {"queued", "running"}
  BY DEF RecordsAgree
<1> USE JobAssumption, <1>t, <1>j
    DEF SaveJob, NoFault, Fault, records, threads, wakes, Finished, Executing, Pruning
<1>1. CASE Restart
  BY <1>1 DEF Restart, Settled, Unsettled
<1>2. CASE Shutdown BY <1>2 DEF Shutdown
<1>3. CASE Exit BY <1>3 DEF Exit, Gone
<1>4. CASE Crash BY <1>4 DEF Crash, Gone, Unsettled
<1>5. CASE NotifyOne BY <1>5 DEF NotifyOne
<1>6. CASE NotifyAll BY <1>6 DEF NotifyAll
<1>7. CASE \E j \in Job : Submit(j) BY <1>7, ZenonT(40) DEF Submit, SaveJob
<1>8. CASE \E j \in Job : Cancel(j) BY <1>8, <1>e, ZenonT(40) DEF Cancel, SaveJob
<1>9. CASE \E w \in Worker : WorkerCheck(w)
  BY <1>9, <1>c DEF WorkerCheck, SaveJob, Goto
<1>10. CASE \E w \in Worker : ExecuteStart(w)
  BY <1>10 DEF ExecuteStart, Exec, Goto, Returns
<1>11. CASE \E w \in Worker : RunChild(w)
  BY <1>11 DEF RunChild, Exec, Goto, Returns
<1>12. CASE \E w \in Worker : Remediate(w)
  BY <1>12 DEF Remediate, Exec, Goto
<1>13. CASE \E w \in Worker : SaveReport(w)
  BY <1>13 DEF SaveReport, Exec, Goto, Returns
<1>14. CASE \E w \in Worker : WorkerFinish(w)
  BY <1>14, <1>r DEF WorkerFinish, SaveJob, Goto
<1>15. CASE \E w \in Worker : PruneReport(w) BY <1>15 DEF PruneReport, Goto
<1>16. CASE \E w \in Worker : PruneRecord(w)
  BY <1>16, <1>b DEF PruneRecord, Goto
<1>17. CASE \E w \in Worker : SpuriousWake(w)
  BY <1>17 DEF SpuriousWake, Goto
<1>18. CASE UNCHANGED vars BY <1>18 DEF vars
<1>19. QED
  BY <1>1, <1>2, <1>3, <1>4, <1>5, <1>6, <1>7, <1>8, <1>9, <1>10, <1>11, <1>12,
     <1>13, <1>14, <1>15, <1>16, <1>17, <1>18
  DEF Next, Request, WorkerStep

\* Nothing is known of a job that was never submitted.
LEMMA UnsubmittedStep ==
    ASSUME TypeOK, QueueAgrees, ThreadsAgree, PruneAgrees,
           RecordsAgree, [Next]_vars
    PROVE  \A j \in Job : created'[j] = 0 => mem'[j] = "absent" /\ disk'[j] = "absent"
<1>t. /\ mem \in [Job -> JobState \cup {"absent"}]
      /\ disk \in [Job -> JobState \cup {"absent"}]
      /\ result \in [Worker -> Finished]
      /\ created \in [Job -> Nat]
  BY DEF TypeOK
<1>r. \A w \in Worker : pc[w] \in Executing => job[w] \in Job /\ mem[job[w]] = "running"
  BY JobOf DEF QueueAgrees
<1>b. \A w \in Worker : pc[w] \in Pruning =>
        Victim \in victims /\ Victim \in Job /\ mem[Victim] \in Finished
  BY VictimOf
<1>c. queue # <<>> => Head(queue) \in Job /\ mem[Head(queue)] = "queued"
  BY QueueTaken
<1>e. \A j \in Job : (\E i \in DOMAIN queue : queue[i] = j) => mem[j] = "queued"
  BY QueueRemoved
<1>j. \A j \in Job : created[j] = 0 => mem[j] = "absent" /\ disk[j] = "absent"
  BY DEF RecordsAgree
<1> USE JobAssumption, <1>t, <1>j
    DEF SaveJob, NoFault, Fault, records, threads, wakes, Finished, Executing, Pruning
<1>1. CASE Restart
  BY <1>1 DEF Restart, Settled, Unsettled
<1>2. CASE Shutdown BY <1>2 DEF Shutdown
<1>3. CASE Exit BY <1>3 DEF Exit, Gone
<1>4. CASE Crash BY <1>4 DEF Crash, Gone, Unsettled
<1>5. CASE NotifyOne BY <1>5 DEF NotifyOne
<1>6. CASE NotifyAll BY <1>6 DEF NotifyAll
<1>7. CASE \E j \in Job : Submit(j) BY <1>7, CreatedType DEF Submit, SaveJob
<1>8. CASE \E j \in Job : Cancel(j) BY <1>8, <1>e DEF Cancel, SaveJob
<1>9. CASE \E w \in Worker : WorkerCheck(w)
  BY <1>9, <1>c DEF WorkerCheck, SaveJob, Goto
<1>10. CASE \E w \in Worker : ExecuteStart(w)
  BY <1>10 DEF ExecuteStart, Exec, Goto, Returns
<1>11. CASE \E w \in Worker : RunChild(w)
  BY <1>11 DEF RunChild, Exec, Goto, Returns
<1>12. CASE \E w \in Worker : Remediate(w)
  BY <1>12 DEF Remediate, Exec, Goto
<1>13. CASE \E w \in Worker : SaveReport(w)
  BY <1>13 DEF SaveReport, Exec, Goto, Returns
<1>14. CASE \E w \in Worker : WorkerFinish(w)
  BY <1>14, <1>r DEF WorkerFinish, SaveJob, Goto
<1>15. CASE \E w \in Worker : PruneReport(w) BY <1>15 DEF PruneReport, Goto
<1>16. CASE \E w \in Worker : PruneRecord(w)
  BY <1>16, <1>b DEF PruneRecord, Goto
<1>17. CASE \E w \in Worker : SpuriousWake(w)
  BY <1>17 DEF SpuriousWake, Goto
<1>18. CASE UNCHANGED vars BY <1>18 DEF vars
<1>19. QED
  BY <1>1, <1>2, <1>3, <1>4, <1>5, <1>6, <1>7, <1>8, <1>9, <1>10, <1>11, <1>12,
     <1>13, <1>14, <1>15, <1>16, <1>17, <1>18
  DEF Next, Request, WorkerStep

\* Unless a write failed, memory and disk agree.
LEMMA MemoryStep ==
    ASSUME TypeOK, QueueAgrees, ThreadsAgree, PruneAgrees,
           RecordsAgree, [Next]_vars
    PROVE  Serving' /\ faults' = 0 => mem' = disk'
<1>t. /\ mem \in [Job -> JobState \cup {"absent"}]
      /\ disk \in [Job -> JobState \cup {"absent"}]
      /\ faults \in 0..MaxFaults /\ crashes \in 0..MaxCrashes
  BY DEF TypeOK
<1>j. Serving /\ faults = 0 => mem = disk
  BY DEF RecordsAgree
<1> USE JobAssumption, <1>t, <1>j
    DEF SaveJob, Serving, NoFault, Fault, records, threads, wakes, Finished, Executing, Pruning
<1>1. CASE Restart
  <2>1. PICK unsaved \in SUBSET Unsettled :
          /\ faults' = faults + Cardinality(unsaved)
          /\ disk' = [j \in Job |-> IF j \in unsaved THEN disk[j] ELSE Settled[j]]
    BY <1>1 DEF Restart
  <2>2. faults' = 0 => unsaved = {}
    BY <2>1, UnsavedType
  <2>3. QED
    BY <1>1, <2>1, <2>2 DEF Restart, Settled
<1>2. CASE Shutdown BY <1>2 DEF Shutdown
<1>3. CASE Exit BY <1>3 DEF Exit, Gone
<1>4. CASE Crash BY <1>4 DEF Crash, Gone, Unsettled
<1>5. CASE NotifyOne BY <1>5 DEF NotifyOne
<1>6. CASE NotifyAll BY <1>6 DEF NotifyAll
<1>7. CASE \E j \in Job : Submit(j)
  <2>1. PICK j \in Job : Submit(j)
    BY <1>7
  <2>2. ASSUME faults' = 0
        PROVE  /\ Serving /\ faults = 0
               /\ \/ UNCHANGED <<mem, disk>>
                  \/ /\ mem' = [mem EXCEPT ![j] = "queued"]
                     /\ disk' = [disk EXCEPT ![j] = "queued"]
    BY <2>1, <2>2 DEF Submit, ThreadsAgree
  <2>3. ASSUME faults' = 0 PROVE mem' = disk'
    <3>1. mem = disk
      BY <1>j, <2>2, <2>3
    <3>2. QED
      BY <2>2, <2>3, <3>1, Zenon
  <2>4. QED
    BY <2>3
<1>8. CASE \E j \in Job : Cancel(j)
  <2>1. PICK j \in Job : Cancel(j)
    BY <1>8
  <2>2. ASSUME faults' = 0
        PROVE  /\ Serving /\ faults = 0
               /\ \/ UNCHANGED <<mem, disk>>
                  \/ /\ mem' = [mem EXCEPT ![j] = "cancelled"]
                     /\ disk' = [disk EXCEPT ![j] = "cancelled"]
    BY <2>1, <2>2 DEF Cancel, ThreadsAgree
  <2>3. ASSUME faults' = 0 PROVE mem' = disk'
    <3>1. mem = disk
      BY <1>j, <2>2, <2>3
    <3>2. QED
      BY <2>2, <2>3, <3>1, Zenon
  <2>4. QED
    BY <2>3
<1>9. CASE \E w \in Worker : WorkerCheck(w)
  <2>1. PICK w \in Worker : WorkerCheck(w)
    BY <1>9
  <2>2. ASSUME faults' = 0
        PROVE  /\ Serving /\ faults = 0
               /\ \/ UNCHANGED <<mem, disk>>
                  \/ /\ mem' = [mem EXCEPT ![Head(queue)] = "running"]
                     /\ disk' = [disk EXCEPT ![Head(queue)] = "running"]
    BY <2>1, <2>2 DEF WorkerCheck, ThreadsAgree
  <2>3. ASSUME faults' = 0 PROVE mem' = disk'
    <3>1. mem = disk
      BY <1>j, <2>2, <2>3
    <3>2. QED
      BY <2>2, <2>3, <3>1, Zenon
  <2>4. QED
    BY <2>3
<1>10. CASE \E w \in Worker : ExecuteStart(w)
  BY <1>10 DEF ExecuteStart, Exec, Goto, Returns
<1>11. CASE \E w \in Worker : RunChild(w)
  BY <1>11 DEF RunChild, Exec, Goto, Returns
<1>12. CASE \E w \in Worker : Remediate(w)
  BY <1>12 DEF Remediate, Exec, Goto
<1>13. CASE \E w \in Worker : SaveReport(w)
  BY <1>13 DEF SaveReport, Exec, Goto, Returns
<1>14. CASE \E w \in Worker : WorkerFinish(w)
  BY <1>14 DEF WorkerFinish, SaveJob, Goto
<1>15. CASE \E w \in Worker : PruneReport(w) BY <1>15 DEF PruneReport, Goto
<1>16. CASE \E w \in Worker : PruneRecord(w)
  <2>1. PICK w \in Worker : PruneRecord(w)
    BY <1>16
  <2>2. ASSUME faults' = 0
        PROVE  /\ Serving /\ faults = 0
               /\ \/ UNCHANGED <<mem, disk>>
                  \/ /\ mem' = [mem EXCEPT ![Victim] = "absent"]
                     /\ disk' = [disk EXCEPT ![Victim] = "absent"]
    BY <2>1, <2>2 DEF PruneRecord, ThreadsAgree
  <2>3. ASSUME faults' = 0 PROVE mem' = disk'
    <3>1. mem = disk
      BY <1>j, <2>2, <2>3
    <3>2. QED
      BY <2>2, <2>3, <3>1, Zenon
  <2>4. QED
    BY <2>3
<1>17. CASE \E w \in Worker : SpuriousWake(w)
  BY <1>17 DEF SpuriousWake, Goto
<1>18. CASE UNCHANGED vars BY <1>18 DEF vars
<1>19. QED
  BY <1>1, <1>2, <1>3, <1>4, <1>5, <1>6, <1>7, <1>8, <1>9, <1>10, <1>11, <1>12,
     <1>13, <1>14, <1>15, <1>16, <1>17, <1>18
  DEF Next, Request, WorkerStep

\* What the record of a job that has quarantined something says.
LEMMA ActedRecordStep ==
    ASSUME TypeOK, QueueAgrees, ThreadsAgree, PruneAgrees,
           RecordsAgree, ActsAgree, [Next]_vars
    PROVE  \A j \in quarantined' : /\ created'[j] # 0
                                   /\ disk'[j] \notin {"cancelled", "timed_out"}
                                   /\ mem'[j] # "queued"
<1>t. /\ mem \in [Job -> JobState \cup {"absent"}]
      /\ disk \in [Job -> JobState \cup {"absent"}]
      /\ reports \in SUBSET Job /\ quarantined \in SUBSET Job
      /\ result \in [Worker -> Finished]
      /\ created \in [Job -> Nat]
  BY DEF TypeOK
<1>r. \A w \in Worker : pc[w] \in Executing => job[w] \in Job /\ mem[job[w]] = "running"
  BY JobOf DEF QueueAgrees
<1>b. \A w \in Worker : pc[w] \in Pruning =>
        Victim \in victims /\ Victim \in Job /\ mem[Victim] \in Finished
  BY VictimOf
<1>c. queue # <<>> => Head(queue) \in Job /\ mem[Head(queue)] = "queued"
  BY QueueTaken
<1>e. \A j \in Job : (\E i \in DOMAIN queue : queue[i] = j) => mem[j] = "queued"
  BY QueueRemoved
<1>s. \A j \in Job : created[j] = 0 => mem[j] = "absent" /\ disk[j] = "absent"
  BY DEF RecordsAgree
<1>i. \A j \in Job : mem[j] = "running" => disk[j] \in {"queued", "running"}
  BY DEF RecordsAgree
<1>q. /\ \A j \in quarantined :
           created[j] # 0 /\ disk[j] \notin {"cancelled", "timed_out"} /\ mem[j] # "queued"
      /\ \A w \in Worker : job[w] \in quarantined =>
           \/ pc[w] = "saveReport"
           \/ pc[w] = "finish" /\ result[w] = "completed"
  BY DEF ActsAgree
<1> USE JobAssumption, <1>t, <1>q
    DEF SaveJob, NoFault, Fault, records, threads, wakes, Finished, Executing, Pruning
<1>1. CASE Restart
  BY <1>1 DEF Restart, Settled, Unsettled
<1>2. CASE Shutdown BY <1>2 DEF Shutdown
<1>3. CASE Exit BY <1>3 DEF Exit, Gone
<1>4. CASE Crash BY <1>4 DEF Crash, Gone, Unsettled
<1>5. CASE NotifyOne BY <1>5 DEF NotifyOne
<1>6. CASE NotifyAll BY <1>6 DEF NotifyAll
<1>7. CASE \E j \in Job : Submit(j)
  <2>1. PICK k \in Job : Submit(k)
    BY <1>7
  <2>2. k \notin quarantined
    BY <2>1, <1>q DEF Submit
  <2>3. /\ \A j \in Job : j # k => created'[j] = created[j] /\ mem'[j] = mem[j] /\ disk'[j] = disk[j]
        /\ quarantined' = quarantined
    BY <2>1 DEF Submit
  <2>4. QED
    BY <2>2, <2>3
<1>8. CASE \E j \in Job : Cancel(j)
  <2>1. PICK k \in Job : Cancel(k)
    BY <1>8
  <2>2. \/ UNCHANGED <<mem, disk>>
        \/ /\ k \notin quarantined
           /\ \A j \in Job : j # k => mem'[j] = mem[j] /\ disk'[j] = disk[j]
    BY <2>1, <1>e, <1>q DEF Cancel
  <2>3. UNCHANGED <<quarantined, created>>
    BY <2>1 DEF Cancel
  <2>4. QED
    BY <2>2, <2>3
<1>9. CASE \E w \in Worker : WorkerCheck(w)
  BY <1>9, <1>c DEF WorkerCheck, SaveJob, Goto
<1>10. CASE \E w \in Worker : ExecuteStart(w)
  BY <1>10 DEF ExecuteStart, Exec, Goto, Returns
<1>11. CASE \E w \in Worker : RunChild(w)
  BY <1>11 DEF RunChild, Exec, Goto, Returns
<1>12. CASE \E w \in Worker : Remediate(w)
  <2>1. PICK w \in Worker : Remediate(w)
    BY <1>12
  <2>2. job[w] \in Job /\ mem[job[w]] = "running" /\ disk[job[w]] \in {"queued", "running"}
    BY <2>1, <1>r, <1>i DEF Remediate, Exec
  <2>3. created[job[w]] # 0
    BY <2>2, <1>s
  <2>4. quarantined' \subseteq quarantined \cup {job[w]} /\ UNCHANGED records
    BY <2>1 DEF Remediate, Exec
  <2>5. QED
    BY <2>2, <2>3, <2>4
<1>13. CASE \E w \in Worker : SaveReport(w)
  BY <1>13 DEF SaveReport, Exec, Goto, Returns
<1>14. CASE \E w \in Worker : WorkerFinish(w)
  BY <1>14, <1>r DEF WorkerFinish, SaveJob, Goto
<1>15. CASE \E w \in Worker : PruneReport(w) BY <1>15 DEF PruneReport, Goto
<1>16. CASE \E w \in Worker : PruneRecord(w)
  BY <1>16, <1>b DEF PruneRecord, Goto
<1>17. CASE \E w \in Worker : SpuriousWake(w)
  BY <1>17 DEF SpuriousWake, Goto
<1>18. CASE UNCHANGED vars BY <1>18 DEF vars
<1>19. QED
  BY <1>1, <1>2, <1>3, <1>4, <1>5, <1>6, <1>7, <1>8, <1>9, <1>10, <1>11, <1>12,
     <1>13, <1>14, <1>15, <1>16, <1>17, <1>18
  DEF Next, Request, WorkerStep

\* A job that has quarantined something goes on to complete.
LEMMA ActingStep ==
    ASSUME TypeOK, QueueAgrees, ThreadsAgree, PruneAgrees,
           RecordsAgree, ActsAgree, [Next]_vars
    PROVE  \A w \in Worker : job'[w] \in quarantined' =>
             \/ pc'[w] = "saveReport"
             \/ pc'[w] = "finish" /\ result'[w] = "completed"
<1>t. /\ reports \in SUBSET Job /\ quarantined \in SUBSET Job
      /\ pc \in [Worker -> {"off", "check", "sleep", "ended"} \cup Executing \cup Pruning]
      /\ job \in [Worker -> Job \cup {None}]
      /\ result \in [Worker -> Finished]
  BY DEF TypeOK
<1>r. \A w \in Worker : pc[w] \in Executing => job[w] \in Job /\ mem[job[w]] = "running"
  BY JobOf DEF QueueAgrees
<1>c. queue # <<>> => Head(queue) \in Job /\ mem[Head(queue)] = "queued"
  BY QueueTaken
<1>u. \A v, w \in Worker : job[v] = job[w] => v = w \/ job[v] = None
  BY DEF QueueAgrees
<1>q. /\ \A j \in quarantined :
           created[j] # 0 /\ disk[j] \notin {"cancelled", "timed_out"} /\ mem[j] # "queued"
      /\ \A w \in Worker : job[w] \in quarantined =>
           \/ pc[w] = "saveReport"
           \/ pc[w] = "finish" /\ result[w] = "completed"
  BY DEF ActsAgree
<1>n. \A w \in Worker : job[w] # None <=> pc[w] \in Executing
  BY DEF ThreadsAgree
<1> USE JobAssumption, <1>t, <1>q
    DEF LockFree, NoFault, Fault, records, threads, wakes, Finished, Executing, Pruning
<1>1. CASE Restart
  BY <1>1, <1>n DEF Restart, ThreadsAgree
<1>2. CASE Shutdown BY <1>2 DEF Shutdown
<1>3. CASE Exit BY <1>3 DEF Exit, Gone
<1>4. CASE Crash BY <1>4 DEF Crash, Gone, Unsettled
<1>5. CASE NotifyOne BY <1>5, <1>n DEF NotifyOne
<1>6. CASE NotifyAll BY <1>6, <1>n DEF NotifyAll
<1>7. CASE \E j \in Job : Submit(j) BY <1>7 DEF Submit, SaveJob
<1>8. CASE \E j \in Job : Cancel(j) BY <1>8 DEF Cancel, SaveJob
<1>9. CASE \E w \in Worker : WorkerCheck(w)
  <2>1. PICK u \in Worker : WorkerCheck(u)
    BY <1>9
  <2>2. /\ \A w \in Worker : w # u => pc'[w] = pc[w]
        /\ UNCHANGED <<result, quarantined>> /\ pc[u] = "check"
        /\ \/ UNCHANGED job
           \/ queue # <<>> /\ job' = [job EXCEPT ![u] = Head(queue)]
    BY <2>1 DEF WorkerCheck, Goto
  <2>3. job'[u] \notin quarantined
    BY <2>2, <1>c, <1>n
  <2>4. QED
    BY <2>2, <2>3
<1>10. CASE \E w \in Worker : ExecuteStart(w)
  BY <1>10 DEF ExecuteStart, Exec, Goto, Returns
<1>11. CASE \E w \in Worker : RunChild(w)
  BY <1>11 DEF RunChild, Exec, Goto, Returns
<1>12. CASE \E w \in Worker : Remediate(w)
  BY <1>12, <1>r, <1>u DEF Remediate, Exec, Goto
<1>13. CASE \E w \in Worker : SaveReport(w)
  BY <1>13 DEF SaveReport, Exec, Goto, Returns
<1>14. CASE \E w \in Worker : WorkerFinish(w)
  <2>1. PICK u \in Worker : WorkerFinish(u)
    BY <1>14
  <2>2. /\ \A w \in Worker : w # u => job'[w] = job[w] /\ pc'[w] = pc[w] /\ result'[w] = result[w]
        /\ UNCHANGED quarantined /\ job'[u] = None
    BY <2>1 DEF WorkerFinish, Goto
  <2>3. QED
    BY <2>2
<1>15. CASE \E w \in Worker : PruneReport(w) BY <1>15 DEF PruneReport, Goto
<1>16. CASE \E w \in Worker : PruneRecord(w) BY <1>16 DEF PruneRecord, Goto
<1>17. CASE \E w \in Worker : SpuriousWake(w)
  BY <1>17 DEF SpuriousWake, Goto
<1>18. CASE UNCHANGED vars BY <1>18 DEF vars
<1>19. QED
  BY <1>1, <1>2, <1>3, <1>4, <1>5, <1>6, <1>7, <1>8, <1>9, <1>10, <1>11, <1>12,
     <1>13, <1>14, <1>15, <1>16, <1>17, <1>18
  DEF Next, Request, WorkerStep

\* A report never outlives its record.
LEMMA OrphanStep ==
    ASSUME TypeOK, QueueAgrees, ThreadsAgree, PruneAgrees,
           RecordsAgree, NoOrphanReports, [Next]_vars
    PROVE  NoOrphanReports'
<1>t. /\ mem \in [Job -> JobState \cup {"absent"}]
      /\ disk \in [Job -> JobState \cup {"absent"}]
      /\ reports \in SUBSET Job /\ quarantined \in SUBSET Job
      /\ result \in [Worker -> Finished]
      /\ faults \in 0..MaxFaults /\ crashes \in 0..MaxCrashes
  BY DEF TypeOK
<1>r. \A w \in Worker : pc[w] \in Executing => job[w] \in Job /\ mem[job[w]] = "running"
  BY JobOf DEF QueueAgrees
<1>b. \A w \in Worker : pc[w] \in Pruning =>
        Victim \in victims /\ Victim \in Job /\ mem[Victim] \in Finished
  BY VictimOf
<1>c. queue # <<>> => Head(queue) \in Job /\ mem[Head(queue)] = "queued"
  BY QueueTaken
<1>e. \A j \in Job : (\E i \in DOMAIN queue : queue[i] = j) => mem[j] = "queued"
  BY QueueRemoved
<1>i. \A j \in Job : mem[j] = "running" => disk[j] \in {"queued", "running"}
  BY DEF RecordsAgree
<1> USE JobAssumption, LimitsAssumption, <1>t
    DEF SaveJob, NoOrphanReports, NoFault, Fault, records, threads, wakes, Finished, Executing, Pruning
<1>1. CASE Restart
  BY <1>1, UnsavedType DEF Restart, Settled, Unsettled
<1>2. CASE Shutdown BY <1>2 DEF Shutdown
<1>3. CASE Exit BY <1>3 DEF Exit, Gone
<1>4. CASE Crash BY <1>4 DEF Crash, Gone, Unsettled
<1>5. CASE NotifyOne BY <1>5 DEF NotifyOne
<1>6. CASE NotifyAll BY <1>6 DEF NotifyAll
<1>7. CASE \E j \in Job : Submit(j)
  <2>1. PICK k \in Job : Submit(k)
    BY <1>7
  <2>2. /\ \A j \in Job : disk'[j] = disk[j] \/ disk'[j] = "queued"
        /\ UNCHANGED reports /\ (faults' = faults \/ faults' = faults + 1)
    BY <2>1 DEF Submit
  <2>3. QED
    BY <2>2
<1>8. CASE \E j \in Job : Cancel(j)
  <2>1. PICK k \in Job : Cancel(k)
    BY <1>8
  <2>2. /\ \A j \in Job : disk'[j] = disk[j] \/ disk'[j] = "cancelled"
        /\ UNCHANGED reports /\ (faults' = faults \/ faults' = faults + 1)
    BY <2>1 DEF Cancel
  <2>3. QED
    BY <2>2
<1>9. CASE \E w \in Worker : WorkerCheck(w)
  BY <1>9, <1>c DEF WorkerCheck, SaveJob, Goto
<1>10. CASE \E w \in Worker : ExecuteStart(w)
  BY <1>10 DEF ExecuteStart, Exec, Goto, Returns
<1>11. CASE \E w \in Worker : RunChild(w)
  BY <1>11 DEF RunChild, Exec, Goto, Returns
<1>12. CASE \E w \in Worker : Remediate(w)
  BY <1>12 DEF Remediate, Exec, Goto
<1>13. CASE \E w \in Worker : SaveReport(w)
  <2>1. PICK w \in Worker : SaveReport(w)
    BY <1>13
  <2>2. /\ UNCHANGED disk /\ (faults' = faults \/ faults' = faults + 1)
        /\ reports' \subseteq reports \cup {job[w]} /\ pc[w] = "saveReport"
    BY <2>1 DEF SaveReport, Exec
  <2>3. disk[job[w]] # "absent"
    BY <2>2, <1>r, <1>i
  <2>4. QED
    BY <2>2, <2>3
<1>14. CASE \E w \in Worker : WorkerFinish(w)
  BY <1>14, <1>r DEF WorkerFinish, SaveJob, Goto
<1>15. CASE \E w \in Worker : PruneReport(w)
  <2>1. /\ UNCHANGED disk /\ (faults' = faults \/ faults' = faults + 1)
        /\ reports' \subseteq reports
    BY <1>15 DEF PruneReport
  <2>2. QED
    BY <2>1
<1>16. CASE \E w \in Worker : PruneRecord(w)
  <2>1. PICK w \in Worker : PruneRecord(w)
    BY <1>16
  <2>2. faults = 0 => Victim \notin reports
    BY <2>1 DEF PruneRecord, PruneAgrees
  <2>3. QED
    BY <2>1, <2>2, <1>b DEF PruneRecord
<1>17. CASE \E w \in Worker : SpuriousWake(w)
  BY <1>17 DEF SpuriousWake, Goto
<1>18. CASE UNCHANGED vars BY <1>18 DEF vars
<1>19. QED
  BY <1>1, <1>2, <1>3, <1>4, <1>5, <1>6, <1>7, <1>8, <1>9, <1>10, <1>11, <1>12,
     <1>13, <1>14, <1>15, <1>16, <1>17, <1>18
  DEF Next, Request, WorkerStep

\* A job shown as cancelled or timed out has quarantined nothing.
LEMMA CancelledStep ==
    ASSUME TypeOK, QueueAgrees, ThreadsAgree, PruneAgrees,
           RecordsAgree, ActsAgree,
           CancelledActsNot, [Next]_vars
    PROVE  CancelledActsNot'
<1>t. /\ mem \in [Job -> JobState \cup {"absent"}]
      /\ reports \in SUBSET Job /\ quarantined \in SUBSET Job
      /\ result \in [Worker -> Finished]
  BY DEF TypeOK
<1>r. \A w \in Worker : pc[w] \in Executing => job[w] \in Job /\ mem[job[w]] = "running"
  BY JobOf DEF QueueAgrees
<1>c. queue # <<>> => Head(queue) \in Job /\ mem[Head(queue)] = "queued"
  BY QueueTaken
<1>e. \A j \in Job : (\E i \in DOMAIN queue : queue[i] = j) => mem[j] = "queued"
  BY QueueRemoved
<1>q. \A j \in quarantined :
        created[j] # 0 /\ disk[j] \notin {"cancelled", "timed_out"} /\ mem[j] # "queued"
  BY DEF ActsAgree
<1> USE JobAssumption, <1>t
    DEF CancelledActsNot, NoFault, Fault, records, threads, wakes, Finished, Executing, Pruning
<1>1. CASE Restart
  BY <1>1, <1>q DEF Restart, Settled, Unsettled
<1>2. CASE Shutdown BY <1>2 DEF Shutdown
<1>3. CASE Exit BY <1>3 DEF Exit, Gone
<1>4. CASE Crash BY <1>4 DEF Crash, Gone, Unsettled
<1>5. CASE NotifyOne BY <1>5 DEF NotifyOne
<1>6. CASE NotifyAll BY <1>6 DEF NotifyAll
<1>7. CASE \E j \in Job : Submit(j) BY <1>7 DEF Submit, SaveJob
<1>8. CASE \E j \in Job : Cancel(j) BY <1>8, <1>e, <1>q DEF Cancel, SaveJob
<1>9. CASE \E w \in Worker : WorkerCheck(w)
  BY <1>9, <1>c DEF WorkerCheck, SaveJob, Goto
<1>10. CASE \E w \in Worker : ExecuteStart(w)
  BY <1>10 DEF ExecuteStart, Exec, Goto, Returns
<1>11. CASE \E w \in Worker : RunChild(w)
  BY <1>11 DEF RunChild, Exec, Goto, Returns
<1>12. CASE \E w \in Worker : Remediate(w)
  BY <1>12, <1>r DEF Remediate, Exec, Goto
<1>13. CASE \E w \in Worker : SaveReport(w)
  BY <1>13 DEF SaveReport, Exec, Goto, Returns
<1>14. CASE \E w \in Worker : WorkerFinish(w)
  <2>1. PICK w \in Worker : WorkerFinish(w)
    BY <1>14
  <2>2. job[w] \in quarantined => result[w] = "completed"
    BY <2>1 DEF WorkerFinish, ActsAgree
  <2>3. QED
    BY <2>1, <2>2, <1>r DEF WorkerFinish
<1>15. CASE \E w \in Worker : PruneReport(w) BY <1>15 DEF PruneReport, Goto
<1>16. CASE \E w \in Worker : PruneRecord(w) BY <1>16 DEF PruneRecord, Goto
<1>17. CASE \E w \in Worker : SpuriousWake(w)
  BY <1>17 DEF SpuriousWake, Goto
<1>18. CASE UNCHANGED vars BY <1>18 DEF vars
<1>19. QED
  BY <1>1, <1>2, <1>3, <1>4, <1>5, <1>6, <1>7, <1>8, <1>9, <1>10, <1>11, <1>12,
     <1>13, <1>14, <1>15, <1>16, <1>17, <1>18
  DEF Next, Request, WorkerStep

\* The record of a job only moves forward.
LEMMA ForwardStep ==
    ASSUME TypeOK, QueueAgrees, ThreadsAgree, PruneAgrees,
           RecordsAgree, [Next]_vars
    PROVE  MovesForward
<1>t. /\ mem \in [Job -> JobState \cup {"absent"}]
      /\ disk \in [Job -> JobState \cup {"absent"}]
      /\ result \in [Worker -> Finished]
  BY DEF TypeOK
<1>r. \A w \in Worker : pc[w] \in Executing => job[w] \in Job /\ mem[job[w]] = "running"
  BY JobOf DEF QueueAgrees
<1>b. \A w \in Worker : pc[w] \in Pruning =>
        Victim \in victims /\ Victim \in Job /\ mem[Victim] \in Finished
  BY VictimOf
<1>c. queue # <<>> => Head(queue) \in Job /\ mem[Head(queue)] = "queued"
  BY QueueTaken
<1>e. \A j \in Job : (\E i \in DOMAIN queue : queue[i] = j) => mem[j] = "queued"
  BY QueueRemoved
<1>s. \A j \in Job : created[j] = 0 => mem[j] = "absent" /\ disk[j] = "absent"
  BY DEF RecordsAgree
<1>i. \A j \in Job : mem[j] = "running" => disk[j] \in {"queued", "running"}
  BY DEF RecordsAgree
<1>j. \A j \in Job : mem[j] = "queued" => disk[j] = "queued"
  BY DEF RecordsAgree
<1> USE JobAssumption, <1>t, <1>i, <1>j
    DEF SaveJob, MovesForward, NoFault, Fault, records, threads, wakes, Finished, Executing, Pruning
<1>1. CASE Restart
  BY <1>1 DEF Restart, Settled, Unsettled
<1>2. CASE Shutdown BY <1>2 DEF Shutdown
<1>3. CASE Exit BY <1>3 DEF Exit, Gone
<1>4. CASE Crash BY <1>4 DEF Crash, Gone, Unsettled
<1>5. CASE NotifyOne BY <1>5 DEF NotifyOne
<1>6. CASE NotifyAll BY <1>6 DEF NotifyAll
<1>7. CASE \E j \in Job : Submit(j) BY <1>7, <1>s, ZenonT(40) DEF Submit, SaveJob
<1>8. CASE \E j \in Job : Cancel(j)
  <2>1. PICK k \in Job : Cancel(k)
    BY <1>8
  <2>2. \/ UNCHANGED disk
        \/ /\ disk[k] = "queued"
           /\ \A j \in Job : disk'[j] = IF j = k THEN "cancelled" ELSE disk[j]
    BY <2>1, <1>e DEF Cancel
  <2>3. QED
    BY <2>2
<1>9. CASE \E w \in Worker : WorkerCheck(w)
  BY <1>9, <1>c DEF WorkerCheck, SaveJob, Goto
<1>10. CASE \E w \in Worker : ExecuteStart(w)
  BY <1>10 DEF ExecuteStart, Exec, Goto, Returns
<1>11. CASE \E w \in Worker : RunChild(w)
  BY <1>11 DEF RunChild, Exec, Goto, Returns
<1>12. CASE \E w \in Worker : Remediate(w)
  BY <1>12 DEF Remediate, Exec, Goto
<1>13. CASE \E w \in Worker : SaveReport(w)
  BY <1>13 DEF SaveReport, Exec, Goto, Returns
<1>14. CASE \E w \in Worker : WorkerFinish(w)
  BY <1>14, <1>r DEF WorkerFinish, SaveJob, Goto
<1>15. CASE \E w \in Worker : PruneReport(w) BY <1>15 DEF PruneReport, Goto
<1>16. CASE \E w \in Worker : PruneRecord(w)
  BY <1>16, <1>b DEF PruneRecord, Goto
<1>17. CASE \E w \in Worker : SpuriousWake(w)
  BY <1>17 DEF SpuriousWake, Goto
<1>18. CASE UNCHANGED vars BY <1>18 DEF vars
<1>19. QED
  BY <1>1, <1>2, <1>3, <1>4, <1>5, <1>6, <1>7, <1>8, <1>9, <1>10, <1>11, <1>12,
     <1>13, <1>14, <1>15, <1>16, <1>17, <1>18
  DEF Next, Request, WorkerStep

----------------------------------------------------------------------------
(* The invariant and what follows from it.                                 *)

\* The service is down at first, and nothing has been submitted.
LEMMA InitInv ==
    ASSUME Init
    PROVE  IInv
<1> USE JobAssumption, LimitsAssumption DEF Init, JobState, Finished, Executing, Pruning
<1>1. queue = <<>> /\ queue \in Seq(Job) /\ Len(queue) = 0 /\ DOMAIN queue = {}
  OBVIOUS
<1>2. TypeOK
  <2>1. /\ queue \in Seq(Job) /\ Len(queue) <= MaxQueued
        /\ cancels \in SUBSET Job /\ flagged \in SUBSET cancels
    BY <1>1
  <2>2. faults \in 0..MaxFaults /\ crashes \in 0..MaxCrashes /\ owed \in Nat
    OBVIOUS
  <2>3. /\ service \in {"down", "up", "stopping"}
        /\ mem \in [Job -> JobState \cup {"absent"}]
        /\ disk \in [Job -> JobState \cup {"absent"}]
        /\ reports \in SUBSET Job /\ quarantined \in SUBSET Job
        /\ created \in [Job -> Nat] /\ victims \in SUBSET Job
    OBVIOUS
  <2>4. /\ pc \in [Worker -> {"off", "check", "sleep", "ended"} \cup Executing \cup Pruning]
        /\ job \in [Worker -> Job \cup {None}] /\ result \in [Worker -> Finished]
    OBVIOUS
  <2>5. owedAll \in BOOLEAN
    BY Zenon
  <2>6. QED
    BY <2>1, <2>2, <2>3, <2>4, <2>5 DEF TypeOK
<1>3. QueueAgrees
  BY <1>1 DEF QueueAgrees
<1>4. ThreadsAgree
  BY <1>1 DEF ThreadsAgree
<1>5. PruneAgrees /\ RecordsAgree
  BY DEF PruneAgrees, RecordsAgree, Serving
<1>6. ActsAgree /\ NoOrphanReports /\ CancelledActsNot
  BY DEF ActsAgree, NoOrphanReports, CancelledActsNot
<1>7. QED
  BY <1>2, <1>3, <1>4, <1>5, <1>6 DEF IInv

\* Every step of the job manager preserves the invariant: the pieces above,
\* put together.
LEMMA StepInv ==
    ASSUME IInv, [Next]_vars
    PROVE  IInv'
<1>1. /\ TypeOK /\ QueueAgrees /\ ThreadsAgree /\ PruneAgrees /\ RecordsAgree
      /\ ActsAgree /\ NoOrphanReports /\ CancelledActsNot
  BY DEF IInv
<1>2. TypeOK'
  BY <1>1, MemTypeStep, DiskTypeStep, ReportsTypeStep, ThreadsTypeStep, QueueTypeStep,
     FlagsTypeStep, CountersTypeStep DEF TypeOK
<1>3. QueueAgrees'
  <2>1. \A j \in Job : mem'[j] = "queued" <=> \E i \in DOMAIN queue' : queue'[i] = j
    BY <1>1, QueueStep DEF Elements
  <2>2. \A i, k \in DOMAIN queue' : queue'[i] = queue'[k] => i = k
    BY <1>1, QueueStep DEF Distinct
  <2>3. \A j \in Job :
          /\ mem'[j] = "running" <=> \E w \in Worker : pc'[w] \in Executing /\ job'[w] = j
          /\ mem'[j] = "running" <=> j \in cancels'
    BY <1>1, RunningStep, CancelsStep
  <2>4. \A v, w \in Worker : job'[v] = job'[w] => v = w \/ job'[v] = None
    BY <1>1, OneWorkerStep
  <2>5. QED
    BY <2>1, <2>2, <2>3, <2>4 DEF QueueAgrees
<1>4. ThreadsAgree'
  BY <1>1, ThreadsStep
<1>5. PruneAgrees'
  BY <1>1, VictimsStep, PruningStep, PrunedReportStep DEF PruneAgrees
<1>6. RecordsAgree'
  BY <1>1, JournalStep, UnsubmittedStep, MemoryStep DEF RecordsAgree
<1>7. ActsAgree'
  BY <1>1, ActedRecordStep, ActingStep DEF ActsAgree
<1>8. NoOrphanReports' /\ CancelledActsNot'
  BY <1>1, OrphanStep, CancelledStep
<1>9. QED
  BY <1>2, <1>3, <1>4, <1>5, <1>6, <1>7, <1>8 DEF IInv

\* The inductive invariant holds of every run of the job manager, however
\* many jobs, workers, failed writes and crashes there are.
THEOREM JobsInvariant == Spec => []IInv
<1>1. Init => IInv
  BY InitInv
<1>2. IInv /\ [Next]_vars => IInv'
  BY StepInv
<1>3. QED
  BY <1>1, <1>2, PTL DEF Spec

\* The variables of jobs.rs, store.rs and runner.rs have their types; among
\* them, the queue never exceeds max_queued_jobs.
THEOREM JobsTypeCorrect == Spec => []TypeOK
<1>1. IInv => TypeOK
  BY DEF IInv
<1>2. QED
  BY <1>1, JobsInvariant, PTL

\* A job that Manager::jobs calls queued is in the queue, once; one it calls
\* running is executed by one worker and has a cancel flag.
THEOREM QueueAlwaysAgrees == Spec => []QueueAgrees
<1>1. IInv => QueueAgrees
  BY DEF IInv
<1>2. QED
  BY <1>1, JobsInvariant, PTL

\* Store::prune and save_report never leave a report without a record, unless
\* an unlink failed.
THEOREM NoReportIsOrphaned == Spec => []NoOrphanReports
<1>1. IInv => NoOrphanReports
  BY DEF IInv
<1>2. QED
  BY <1>1, JobsInvariant, PTL

\* A job that ends as cancelled or timed out has not been remediated.
THEOREM CancelledNeverActed == Spec => []CancelledActsNot
<1>1. IInv => CancelledActsNot
  BY DEF IInv
<1>2. QED
  BY <1>1, JobsInvariant, PTL

\* What clients are shown is what a restart would find, unless a write failed.
THEOREM MemoryAlwaysOnDisk == Spec => []MemoryIsOnDisk
<1>1. IInv => MemoryIsOnDisk
  BY DEF IInv, RecordsAgree, MemoryIsOnDisk
<1>2. QED
  BY <1>1, JobsInvariant, PTL

\* The record of a job on disk only moves forward, across crashes and
\* restarts: no job runs twice, and only an ended one is deleted.
THEOREM RecordsMoveForward == Spec => JobLifecycle
<1>1. IInv /\ [Next]_vars => [MovesForward]_vars
  BY ForwardStep DEF IInv
<1>2. QED
  BY <1>1, JobsInvariant, PTL DEF Spec, JobLifecycle

============================================================================
