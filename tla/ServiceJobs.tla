---------------------------- MODULE ServiceJobs ----------------------------
(***************************************************************************)
(* The service's job manager, crates/service/src/jobs.rs, with the history *)
(* it keeps (store.rs) and the child runner it calls (runner.rs).          *)
(*                                                                         *)
(* Client threads submit and cancel jobs, workers take them from a queue,  *)
(* and everything a lock of Manager::state covers is one step: only the    *)
(* pruning at the end of a job is split, at each file it removes, because  *)
(* a crash may fall in between. Any write of a job record may fail (at     *)
(* most MaxFaults times) and the process may die anywhere (at most         *)
(* MaxCrashes times); it is then started again (Restart=on-failure).       *)
(*                                                                         *)
(* Abstractions: a job is its identifier, drawn at random by submit, and   *)
(* its state; a child is how it ends; a quarantine is the fact that the    *)
(* store was asked for one (QuarantineStore is that store). State::specs   *)
(* always holds exactly the queued jobs and is left out.                   *)
(***************************************************************************)
EXTENDS Naturals, Sequences, SequencesExt, FiniteSets

CONSTANTS
    Job,          \* identifiers (UUIDs), in the order of the BTreeMap
    Worker,       \* worker threads: max_concurrent_jobs of them
    MaxQueued,    \* max_queued_jobs
    History,      \* history_limit
    None,         \* the worker has no job
    MaxFaults, MaxCrashes

ASSUME JobAssumption == Job \subseteq Nat /\ IsFiniteSet(Job) /\ None \notin Job

ASSUME LimitsAssumption ==
    /\ MaxQueued \in Nat \ {0} /\ History \in Nat \ {0}
    /\ MaxFaults \in Nat /\ MaxCrashes \in Nat

VARIABLES
    service,     \* "down", "up", or "stopping" (State::shutdown)
    mem,         \* mem[j]: state of j in State::jobs, or "absent"
    disk,        \* disk[j]: state of j in jobs/<id>.json, or "absent"
    reports,     \* jobs with a file reports/<id>.json
    created,     \* created[j]: created_at, as a position; 0 if never submitted
    queue,       \* State::queue
    cancels,     \* State::cancels: jobs with a cancel flag
    flagged,     \* jobs whose cancel flag is set
    pc, job,     \* pc[w], job[w]: a worker's control point and job
    result,      \* result[w]: the JobResult its execute returns
    victims,     \* finished jobs prune has still to delete
    owed,        \* notify_one calls of submits that have dropped the lock
    owedAll,     \* shutdown has dropped the lock and not yet notified all
    quarantined, \* jobs for which the service quarantined something
    faults, crashes

vars == <<service, mem, disk, reports, created, queue, cancels, flagged, pc,
          job, result, victims, owed, owedAll, quarantined, faults, crashes>>
records == <<mem, disk, created>>
threads == <<pc, job, result>>
wakes   == <<owed, owedAll>>

Finished  == {"completed", "failed", "cancelled", "timed_out"}
JobState  == {"queued", "running"} \cup Finished
Pruning   == {"pruneReport", "pruneRecord"}
Executing == {"exec", "child", "remediate", "saveReport", "finish"}

\* Nobody holds Manager::state across steps; only pruning does.
LockFree == \A w \in Worker : pc[w] \notin Pruning

Serving == service # "down"

NoFault == UNCHANGED faults
Fault   == faults < MaxFaults /\ faults' = faults + 1

\* store.save_job, its error ignored or only logged.
SaveJob(j, s) ==
    \/ NoFault /\ disk' = [disk EXCEPT ![j] = s]
    \/ Fault /\ UNCHANGED disk

Init ==
    /\ service = "down"
    /\ mem = [j \in Job |-> "absent"]
    /\ disk = [j \in Job |-> "absent"]
    /\ reports = {}
    /\ created = [j \in Job |-> 0]
    /\ queue = <<>>
    /\ cancels = {} /\ flagged = {}
    /\ pc = [w \in Worker |-> "off"]
    /\ job = [w \in Worker |-> None]
    /\ result = [w \in Worker |-> "failed"]
    /\ victims = {}
    /\ owed = 0 /\ owedAll = FALSE
    /\ quarantined = {}
    /\ faults = 0 /\ crashes = 0

----------------------------------------------------------------------------
(* Start and stop of the service.                                          *)

\* A record that was not finished when the service stopped becomes failed.
Unsettled  == {j \in Job : disk[j] \in {"queued", "running"}}
Settled == [j \in Job |-> IF j \in Unsettled THEN "failed" ELSE disk[j]]

\* Manager::new and start_workers; the error of a save is ignored.
Restart ==
    /\ service = "down"
    /\ service' = "up"
    /\ mem' = Settled
    /\ \E unsaved \in SUBSET Unsettled :
         /\ faults + Cardinality(unsaved) <= MaxFaults
         /\ faults' = faults + Cardinality(unsaved)
         /\ disk' = [j \in Job |-> IF j \in unsaved THEN disk[j] ELSE Settled[j]]
    /\ pc' = [w \in Worker |-> "check"]
    /\ UNCHANGED <<created, reports, queue, cancels, flagged, job, result,
                   victims, wakes, quarantined, crashes>>

\* Mutant: the workers are not woken.
ShutdownSilent ==
    /\ service = "up" /\ LockFree
    /\ service' = "stopping"
    /\ flagged' = cancels
    /\ UNCHANGED <<records, reports, queue, cancels, threads, victims, wakes,
                   quarantined, faults, crashes>>

\* Manager::shutdown up to dropping the lock.
Shutdown ==
    /\ service = "up" /\ LockFree
    /\ service' = "stopping"
    /\ flagged' = cancels
    /\ owedAll' = TRUE
    /\ UNCHANGED <<records, reports, queue, cancels, threads, victims, owed,
                   quarantined, faults, crashes>>

\* What is left of the process's memory once it has ended: nothing.
Gone ==
    /\ service' = "down"
    /\ mem' = [j \in Job |-> "absent"]
    /\ queue' = <<>> /\ cancels' = {} /\ flagged' = {} /\ victims' = {}
    /\ pc' = [w \in Worker |-> "off"]
    /\ job' = [w \in Worker |-> None]
    /\ result' = [w \in Worker |-> "failed"]
    /\ owed' = 0 /\ owedAll' = FALSE
    /\ UNCHANGED <<created, quarantined, faults>>

\* run_with_stop returns after it has joined every worker.
Exit ==
    /\ service = "stopping"
    /\ \A w \in Worker : pc[w] = "ended"
    /\ Gone
    /\ UNCHANGED <<disk, reports, crashes>>

\* The process dies, between two steps or while Manager::new saves records.
Crash ==
    /\ crashes < MaxCrashes
    /\ crashes' = crashes + 1
    /\ \/ Serving /\ UNCHANGED disk
       \/ /\ service = "down"
          /\ \E done \in SUBSET Unsettled :
               /\ done # {}
               /\ disk' = [j \in Job |-> IF j \in done THEN "failed" ELSE disk[j]]
    /\ Gone
    /\ UNCHANGED reports

----------------------------------------------------------------------------
(* Client threads and the scheduler.                                       *)

\* Mutant: the waiting workers are not told.
SubmitSilent(j) ==
    /\ service = "up" /\ LockFree
    /\ Len(queue) < MaxQueued
    /\ created[j] = 0
    /\ NoFault
    /\ disk' = [disk EXCEPT ![j] = "queued"]
    /\ mem' = [mem EXCEPT ![j] = "queued"]
    /\ created' = [created EXCEPT ![j] = Cardinality({k \in Job : created[k] > 0}) + 1]
    /\ queue' = Append(queue, j)
    /\ UNCHANGED <<service, reports, cancels, flagged, threads, victims, wakes,
                   quarantined, crashes>>

\* Manager::submit up to dropping the lock; it refuses when the service is
\* shutting down, the queue is full, or the record cannot be written.
Submit(j) ==
    /\ service = "up" /\ LockFree
    /\ Len(queue) < MaxQueued
    /\ created[j] = 0
    /\ \/ /\ NoFault
          /\ disk' = [disk EXCEPT ![j] = "queued"]
          /\ mem' = [mem EXCEPT ![j] = "queued"]
          /\ created' = [created EXCEPT ![j] = Cardinality({k \in Job : created[k] > 0}) + 1]
          /\ queue' = Append(queue, j)
          /\ owed' = owed + 1
       \/ Fault /\ UNCHANGED <<records, queue, owed>>
    /\ UNCHANGED <<service, reports, cancels, flagged, threads, victims, owedAll,
                   quarantined, crashes>>

\* wake.notify_one: one sleeping worker, if any, competes for the lock again.
NotifyOne ==
    /\ owed > 0
    /\ owed' = owed - 1
    /\ IF \E w \in Worker : pc[w] = "sleep"
       THEN \E w \in Worker : pc[w] = "sleep" /\ pc' = [pc EXCEPT ![w] = "check"]
       ELSE UNCHANGED pc
    /\ UNCHANGED <<service, records, reports, queue, cancels, flagged, job, result,
                   victims, owedAll, quarantined, faults, crashes>>

\* wake.notify_all
NotifyAll ==
    /\ owedAll
    /\ owedAll' = FALSE
    /\ pc' = [w \in Worker |-> IF pc[w] = "sleep" THEN "check" ELSE pc[w]]
    /\ UNCHANGED <<service, records, reports, queue, cancels, flagged, job, result,
                   victims, owed, quarantined, faults, crashes>>

\* Mutant: the cancelled job stays in the queue.
CancelKeepsQueued(j) ==
    /\ Serving /\ LockFree
    /\ \/ /\ j \in cancels
          /\ flagged' = flagged \cup {j}
          /\ UNCHANGED <<mem, disk, queue, faults>>
       \/ /\ j \notin cancels /\ \E i \in DOMAIN queue : queue[i] = j
          /\ mem' = [mem EXCEPT ![j] = "cancelled"]
          /\ SaveJob(j, "cancelled")
          /\ UNCHANGED <<flagged, queue>>
    /\ UNCHANGED <<service, created, reports, cancels, threads, victims, wakes,
                   quarantined, crashes>>

\* Manager::cancel: a running job's flag is set, a queued job ends at once,
\* any other request is refused.
Cancel(j) ==
    /\ Serving /\ LockFree
    /\ \/ /\ j \in cancels
          /\ flagged' = flagged \cup {j}
          /\ UNCHANGED <<mem, disk, queue, faults>>
       \/ /\ j \notin cancels /\ \E i \in DOMAIN queue : queue[i] = j
          /\ queue' = RemoveFirst(queue, j)
          /\ mem' = [mem EXCEPT ![j] = "cancelled"]
          /\ SaveJob(j, "cancelled")
          /\ UNCHANGED flagged
    /\ UNCHANGED <<service, created, reports, cancels, threads, victims, wakes,
                   quarantined, crashes>>

----------------------------------------------------------------------------
(* Worker threads.                                                         *)

Goto(w, label) == pc' = [pc EXCEPT ![w] = label]

\* The loop under the lock: end, take the next job, or wait on the condition
\* variable (which releases the lock).
WorkerCheck(w) ==
    /\ pc[w] = "check" /\ LockFree
    /\ \/ /\ service = "stopping"
          /\ Goto(w, "ended")
          /\ UNCHANGED <<mem, disk, queue, cancels, job, faults>>
       \/ /\ service = "up" /\ queue # <<>>
          /\ queue' = Tail(queue)
          /\ cancels' = cancels \cup {Head(queue)}
          /\ mem' = [mem EXCEPT ![Head(queue)] = "running"]
          /\ SaveJob(Head(queue), "running")
          /\ job' = [job EXCEPT ![w] = Head(queue)]
          /\ Goto(w, "exec")
       \/ /\ service = "up" /\ queue = <<>>
          /\ Goto(w, "sleep")
          /\ UNCHANGED <<mem, disk, queue, cancels, job, faults>>
    /\ UNCHANGED <<service, created, reports, flagged, result, victims, wakes,
                   quarantined, crashes>>

\* Condition variables may wake without a notification.
SpuriousWake(w) ==
    /\ pc[w] = "sleep"
    /\ Goto(w, "check")
    /\ UNCHANGED <<service, records, reports, queue, cancels, flagged, job, result,
                   victims, wakes, quarantined, faults, crashes>>

\* A step of execute, which holds no lock and leaves the manager alone.
Exec(w, from) ==
    /\ pc[w] = from
    /\ UNCHANGED <<service, records, queue, cancels, flagged, job, victims, wakes,
                   crashes>>

Returns(w, s) == Goto(w, "finish") /\ result' = [result EXCEPT ![w] = s]

\* Identity, state directory, command and spawn: each can fail.
ExecuteStart(w) ==
    /\ Exec(w, "exec")
    /\ \/ Goto(w, "child") /\ UNCHANGED result
       \/ Returns(w, "failed")
    /\ UNCHANGED <<reports, quarantined, faults>>

\* runner::run. The child ends by itself, with a report that can be read or
\* not (exit code 2, a signal, too much output, not JSON); or a poll finds it
\* running past its deadline, or running with the flag set, and kills it.
RunChild(w) ==
    /\ Exec(w, "child")
    /\ \/ Goto(w, "remediate") /\ UNCHANGED result
       \/ Returns(w, "failed")
       \/ Returns(w, "timed_out")
       \/ job[w] \in flagged /\ Returns(w, "cancelled")
    /\ UNCHANGED <<reports, quarantined, faults>>

\* Manager::remediate: the allow-list, then, if the job asks for it and its
\* scan completed, the quarantine of what it found.
Remediate(w) ==
    /\ Exec(w, "remediate")
    /\ Goto(w, "saveReport")
    /\ quarantined' \in {quarantined, quarantined \cup {job[w]}}
    /\ UNCHANGED <<reports, result, faults>>

\* Mutant: a flag that was set late still makes the job cancelled.
SaveReportLate(w) ==
    /\ Exec(w, "saveReport")
    /\ NoFault /\ reports' = reports \cup {job[w]}
    /\ Returns(w, IF job[w] \in flagged THEN "cancelled" ELSE "completed")
    /\ UNCHANGED quarantined

\* store.save_report; an error goes into the result, which stays completed.
SaveReport(w) ==
    /\ Exec(w, "saveReport")
    /\ \/ NoFault /\ reports' = reports \cup {job[w]}
       \/ Fault /\ UNCHANGED reports
    /\ Returns(w, "completed")
    /\ UNCHANGED quarantined

\* The first of the finished jobs, in the order of the BTreeMap, that exceed
\* the limit: what store.prune deletes.
Excess(m) ==
    LET finished == {j \in Job : m[j] \in Finished}
    IN  {j \in finished :
           Cardinality({k \in finished : k < j}) + History < Cardinality(finished)}

\* Back under the lock: the result is applied and saved, then prune starts.
WorkerFinish(w) ==
    /\ pc[w] = "finish" /\ LockFree
    /\ cancels' = cancels \ {job[w]} /\ flagged' = flagged \ {job[w]}
    /\ mem' = [mem EXCEPT ![job[w]] = result[w]]
    /\ SaveJob(job[w], result[w])
    /\ job' = [job EXCEPT ![w] = None]
    /\ result' = [result EXCEPT ![w] = "failed"]
    /\ victims' = Excess(mem')
    /\ Goto(w, IF victims' = {} THEN "check" ELSE "pruneReport")
    /\ UNCHANGED <<service, created, reports, queue, wakes, quarantined, crashes>>

Victim == CHOOSE j \in victims : \A k \in victims : j <= k

\* Mutant: the record goes before the report.
PruneReportLast(w) ==
    /\ pc[w] = "pruneReport"
    /\ NoFault /\ disk' = [disk EXCEPT ![Victim] = "absent"]
    /\ Goto(w, "pruneRecord")
    /\ UNCHANGED <<service, mem, created, reports, queue, cancels, flagged, job,
                   result, victims, wakes, quarantined, crashes>>

\* store.prune, first half of a round: the report (its error is ignored).
PruneReport(w) ==
    /\ pc[w] = "pruneReport"
    /\ \/ NoFault /\ reports' = reports \ {Victim}
       \/ Fault /\ UNCHANGED reports
    /\ Goto(w, "pruneRecord")
    /\ UNCHANGED <<service, records, queue, cancels, flagged, job, result, victims,
                   wakes, quarantined, crashes>>

\* Second half: the record, and with it the job in memory; on an error the
\* job stays in both. After the last round the lock is released.
PruneRecord(w) ==
    /\ pc[w] = "pruneRecord"
    /\ \/ /\ NoFault
          /\ disk' = [disk EXCEPT ![Victim] = "absent"]
          /\ mem' = [mem EXCEPT ![Victim] = "absent"]
       \/ Fault /\ UNCHANGED <<mem, disk>>
    /\ victims' = victims \ {Victim}
    /\ Goto(w, IF victims' = {} THEN "check" ELSE "pruneReport")
    /\ UNCHANGED <<service, created, reports, queue, cancels, flagged, job, result,
                   wakes, quarantined, crashes>>

----------------------------------------------------------------------------
WorkerStep(w) ==
    \/ WorkerCheck(w) \/ ExecuteStart(w) \/ RunChild(w) \/ Remediate(w)
    \/ SaveReport(w) \/ WorkerFinish(w) \/ PruneReport(w) \/ PruneRecord(w)

Request == \E j \in Job : Submit(j) \/ Cancel(j)

Next ==
    \/ Restart \/ Shutdown \/ Exit \/ Crash \/ NotifyOne \/ NotifyAll \/ Request
    \/ \E w \in Worker : WorkerStep(w) \/ SpuriousWake(w)

Spec == Init /\ [][Next]_vars

\* Threads run; a child ends or meets its deadline, and its pipes close with
\* it; main joins the workers. Nobody need ever ask for anything.
Fairness ==
    /\ \A w \in Worker : WF_vars(WorkerStep(w))
    /\ WF_vars(NotifyOne) /\ WF_vars(NotifyAll) /\ WF_vars(Exit)

FairSpec == Spec /\ Fairness

----------------------------------------------------------------------------
(* Properties.                                                             *)

\* The types of the variables.
TypeOK ==
    /\ service \in {"down", "up", "stopping"}
    /\ mem \in [Job -> JobState \cup {"absent"}]
    /\ disk \in [Job -> JobState \cup {"absent"}]
    /\ reports \in SUBSET Job /\ quarantined \in SUBSET Job
    /\ created \in [Job -> Nat]
    /\ queue \in Seq(Job) /\ Len(queue) <= MaxQueued
    /\ cancels \in SUBSET Job /\ flagged \in SUBSET cancels
    /\ pc \in [Worker -> {"off", "check", "sleep", "ended"} \cup Executing \cup Pruning]
    /\ job \in [Worker -> Job \cup {None}]
    /\ result \in [Worker -> Finished]
    /\ victims \in SUBSET Job
    /\ owed \in Nat /\ owedAll \in BOOLEAN
    /\ faults \in 0..MaxFaults /\ crashes \in 0..MaxCrashes

\* A job is queued exactly when it is in the queue, once, and running exactly
\* when one worker, and no other, executes it and can be told to stop.
QueueAgrees ==
    /\ \A j \in Job :
         /\ mem[j] = "queued" <=> \E i \in DOMAIN queue : queue[i] = j
         /\ mem[j] = "running" <=> \E w \in Worker : pc[w] \in Executing /\ job[w] = j
         /\ mem[j] = "running" <=> j \in cancels
    /\ \A i, k \in DOMAIN queue : queue[i] = queue[k] => i = k
    /\ \A v, w \in Worker : job[v] = job[w] => v = w \/ job[v] = None

\* A job's record moves forward only, across restarts too: it never runs
\* again once it has ended, and only an ended job's record is deleted.
MovesForward ==
    \A j \in Job : disk'[j] # disk[j] =>
        \/ disk[j] = "absent" /\ disk'[j] = "queued" /\ created[j] = 0
        \/ disk[j] = "queued" /\ disk'[j] \in {"running"} \cup Finished
        \/ disk[j] = "running" /\ disk'[j] \in Finished
        \/ mem[j] \in Finished /\ disk'[j] = "absent"

JobLifecycle == [][MovesForward]_vars

\* Unless a write failed, what clients are shown is what a restart would
\* find: memory and disk agree whenever the lock is free.
MemoryIsOnDisk == Serving /\ LockFree /\ faults = 0 => mem = disk

\* A report never outlives its job record, whatever a crash interrupts:
\* nothing else would ever delete it. (An unlink that fails can leave one.)
NoOrphanReports ==
    \A j \in reports : disk[j] # "absent" \/ faults > 0

\* A job that is shown as cancelled or timed out has quarantined nothing.
CancelledActsNot ==
    \A j \in quarantined : mem[j] \notin {"cancelled", "timed_out"}

\* Every accepted job ends, or the service that accepted it does.
EveryJobEnds ==
    \A j \in Job :
        mem[j] \in {"queued", "running"} ~> mem[j] \notin {"queued", "running"}

\* A service that is told to stop does.
StopCompletes == service = "stopping" ~> service = "down"

----------------------------------------------------------------------------
(* What a comment says and the code does not keep.                         *)

\* store.rs, prune: "Deletes the oldest finished jobs beyond `keep`": no job
\* that stays is older than one that goes.
DeletesOldest ==
    \A j \in Job : disk[j] # "absent" /\ disk'[j] = "absent" =>
        \A k \in Job : disk'[k] \in Finished => created[j] < created[k]

PrunesOldest == [][DeletesOldest]_vars

----------------------------------------------------------------------------
(* The inductive invariant ServiceJobsProofs proves.                       *)

\* Nothing is left of a service that is down, and its threads are those of a
\* service that is not; a worker has a job exactly while it executes one.
ThreadsAgree ==
    /\ service = "down" =>
         /\ mem = [j \in Job |-> "absent"]
         /\ queue = <<>> /\ cancels = {} /\ victims = {}
    /\ \A w \in Worker :
         /\ pc[w] = "off" <=> service = "down"
         /\ job[w] # None <=> pc[w] \in Executing

\* One worker at a time prunes, only jobs that have ended, and the report of
\* the job it is at is gone before the record goes.
PruneAgrees ==
    /\ \A j \in victims : mem[j] \in Finished
    /\ victims # {} <=> \E w \in Worker : pc[w] \in Pruning
    /\ \A v, w \in Worker : pc[v] \in Pruning /\ pc[w] \in Pruning => v = w
    /\ \A w \in Worker : pc[w] = "pruneRecord" /\ faults = 0 => Victim \notin reports

\* What the record of a job that has not ended says, and what is known of one
\* that was never submitted; without failed writes the two agree at any time.
RecordsAgree ==
    /\ \A j \in Job :
         /\ mem[j] = "queued" => disk[j] = "queued"
         /\ mem[j] = "running" => disk[j] \in {"queued", "running"}
         /\ created[j] = 0 => mem[j] = "absent" /\ disk[j] = "absent"
    /\ Serving /\ faults = 0 => mem = disk

\* Only a job whose child has ended with a report may have quarantined
\* something, and it goes on to complete.
ActsAgree ==
    /\ \A j \in quarantined :
         /\ created[j] # 0
         /\ disk[j] \notin {"cancelled", "timed_out"} /\ mem[j] # "queued"
    /\ \A w \in Worker : job[w] \in quarantined =>
         \/ pc[w] = "saveReport"
         \/ pc[w] = "finish" /\ result[w] = "completed"

IInv ==
    /\ TypeOK /\ QueueAgrees /\ ThreadsAgree /\ PruneAgrees /\ RecordsAgree
    /\ ActsAgree /\ NoOrphanReports /\ CancelledActsNot
============================================================================
