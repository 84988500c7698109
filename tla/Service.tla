------------------------------ MODULE Service ------------------------------
(***************************************************************************)
(* The service process: its endpoint (accept, identify, dispatch), its     *)
(* scheduler with the file of last runs, and the command line that waits   *)
(* for a job.  The queue and the workers are those of ServiceJobs; here a  *)
(* job is what a client sees of it: queued, running, finished, pruned.     *)
(* (crates/service/src/{lib,server,schedule,client}.rs, service_cmd.rs)    *)
(***************************************************************************)
EXTENDS ServicePolicy, FiniteSetsExt, TLC

CONSTANTS
    Worlds,             \* platform, configuration file and account files at the start
    Accounts,           \* contents of passwd and group over time
    FirstRuns,          \* contents of schedules.json at the first start
    Clients, Cli,       \* raw connections, and the connection of the CLI
    Uids(_),            \* the users who connect, under a configuration
    Requests(_),        \* what raw clients send
    Outcomes(_),        \* how children end, and the report they leave
    Commands(_),        \* what the user of the CLI asks for
    JobIds, Items,      \* job ids and quarantine ids
    Self,               \* the service's uid
    MaxConnections, MaxRequests, MaxPaths, MaxEvery, MaxListed,
    Horizon,            \* bound: the clock stops here
    MaxConnects(_),     \* bound: raw connections and commands altogether
    MaxFaults           \* bound: restarts, edits of the account files, failing
                        \* saves, spawns, writes and store calls altogether

VARIABLES
    platform, config,
    files,      \* passwd and group now
    now,        \* the clock
    last,       \* schedules.json: name -> time of the last run, or None
    jobs,       \* job id -> what the manager and the store know of it
    conn,       \* connection -> its thread
    active,     \* the endpoint's count of connections
    sched,      \* the scheduler thread
    items,      \* quarantine id -> "quarantined", "restored", "deleted"
    allowed,    \* quarantine ids whose content is allow-listed
    audit,      \* the last audit check kept in memory: None, TRUE or FALSE
    cli,        \* the command line
    started,    \* history: schedule -> time its last start was recorded, or made
    calm,       \* history: schedules whose last start is recorded undisturbed
    trespass,   \* history: somebody not entitled to it touched the store
    budget      \* what is left of the bounds

vars == <<platform, config, files, now, last, jobs, conn, active, sched, items,
          allowed, audit, cli, started, calm, trespass, budget>>

----------------------------------------------------------------------------
\* The defaults of ServiceConfig; whether the process is privileged is kept
\* with the configuration.
DefaultConfig ==
    [root |-> TRUE, admin_users |-> {}, admin_group |-> None, max_concurrent_jobs |-> 1,
     max_queued_jobs |-> 32, history_limit |-> 200, audit_check_hours |-> 24,
     paths_absolute |-> TRUE, update_source |-> None, content |-> FALSE,
     keyrings |-> FALSE, schedules |-> <<>>]

\* The configurations run_with_stop accepts.
Loaded(w) == LoadConfig(w.file, w.root, DefaultConfig, MaxPaths, MaxEvery)
Configs == {Loaded(w) : w \in Worlds} \ {None}

Schedules == {config.schedules[i].name : i \in DOMAIN config.schedules}
Schedule(n) == First(config.schedules, LAMBDA s : s.name = n)

Finished == {"completed", "failed", "cancelled", "timed_out"}
JobsIn(S) == {j \in JobIds : jobs[j].st \in S}
Known == JobIds \ JobsIn({"none", "pruned"})

NoJob == [st |-> "none", owner |-> None, spec |-> None, schedule |-> None,
          child |-> None, args |-> None, report |-> None, flag |-> FALSE, earned |-> FALSE]

NoReply == [code |-> "ok", jobs |-> {}, st |-> None, report |-> None, audit |-> None,
            private |-> FALSE]
Error(code) == [NoReply EXCEPT !.code = code]

Free == [pc |-> "none", uid |-> None, admin |-> FALSE, truth |-> FALSE, left |-> 0,
         req |-> None, seen |-> None, reply |-> NoReply]
Threads == {c \in DOMAIN conn : conn[c].pc \notin {"none", "backlog"}}

Idle == [pc |-> "sleep", at |-> 0, seen |-> None, todo |-> <<>>, read |-> None,
         refused |-> {}, since |-> None]
NoCommand == [pc |-> "off", cmd |-> None, job |-> None, exit |-> None]

\* What the constants are: account files of some length, known platforms, a
\* table of last runs, requests as a client can encode them.  Only a command
\* that submits a job can wait for it (service_cmd.rs), only a child that
\* completed leaves a report (runner.rs, run_job).
Lines(s) == Len(s) \in Nat /\ DOMAIN s = 1..Len(s)
HasFields(r, F) == r = [f \in F |-> r[f]]
IsRequest(r) == HasFields(r, {"version", "op", "paths", "arg", "quarantine", "allow"})
Times == 0..Horizon
RunTimes(f) == \A n \in DOMAIN f : f[n] \in Times \cup {None}
Submits == {"scan", "system_check", "run_schedule"}

ASSUME SizesAssumption ==
    /\ MaxConnections \in Nat /\ MaxRequests \in Nat /\ Horizon \in Nat \ {0}
    /\ IsFiniteSet(Clients) /\ Cli \notin Clients /\ None \notin JobIds
ASSUME WorldsAssumption ==
    /\ \A w \in Worlds : w.platform \in {"unix", "windows"} /\ w.accounts \in Accounts
    /\ \A f \in Accounts : Lines(f.passwd) /\ Lines(f.group)
    /\ \A f \in FirstRuns : RunTimes(f)
ASSUME CommandsAssumption ==
    \A c \in Configs :
        /\ \A cmd \in Commands(c) : IsRequest(cmd.req) /\ (cmd.wait => cmd.req.op \in Submits)
        /\ \A o \in Outcomes(c) : o.st \in Finished /\ (o.report # None => o.st = "completed")
\* schedules.json knows, of every schedule, a run before the first start of the
\* service or none.
ASSUME FirstRunsAssumption ==
    /\ None \notin Times
    /\ \A c \in Configs :
          /\ c.schedules \in Seq({c.schedules[i] : i \in DOMAIN c.schedules})
          /\ \A f \in FirstRuns, i \in DOMAIN c.schedules :
                c.schedules[i].name \in DOMAIN f
    /\ \A f \in FirstRuns : \A n \in DOMAIN f : f[n] \in {0, 1, None}

Goto(c, pc) == conn' = [conn EXCEPT ![c].pc = pc]
Answer(c, reply) == conn' = [conn EXCEPT ![c].pc = "reply", ![c].reply = reply]
Spend(b) == budget[b] > 0 /\ budget' = [budget EXCEPT ![b] = @ - 1]

----------------------------------------------------------------------------
(* Jobs.                                                                   *)

\* Manager::submit: the queue has room; the record is saved before the job
\* is queued.
Room == Cardinality(JobsIn({"queued"})) < config.max_queued_jobs
NewJob(j) == LET fresh == JobsIn({"none"})
             IN  fresh # {} /\ j = CHOOSE k \in fresh : TRUE
Submitted(j, owner, name, spec, earned) ==
    [jobs EXCEPT ![j] = [NoJob EXCEPT !.st = "queued", !.owner = owner, !.spec = spec,
                                      !.schedule = name, !.earned = earned]]

\* A request to submit, answered by a job, "busy" or "internal".
SubmitFor(c, owner, spec) ==
    \/ /\ Room
       /\ \E j \in JobIds :
             /\ NewJob(j)
             /\ jobs' = Submitted(j, owner, None, spec, conn[c].truth)
             /\ Answer(c, [NoReply EXCEPT !.jobs = {j}])
       /\ UNCHANGED budget
    \/ ~Room /\ Answer(c, Error("busy")) /\ UNCHANGED <<jobs, budget>>
    \/ Room /\ Spend("faults") /\ Answer(c, Error("internal")) /\ UNCHANGED jobs

\* A worker takes the job; without an identity for the child it fails.
JobRuns(j) ==
    /\ jobs[j].st = "queued"
    /\ LET id == Identity(platform, config.root, Self, jobs[j].spec)
       IN  jobs' = [jobs EXCEPT ![j].st = IF id = None THEN "failed" ELSE "running",
                                ![j].child = id,
                                ![j].args = ChildArgs(jobs[j].spec, config, FALSE)]
    /\ UNCHANGED <<platform, config, files, now, last, conn, active, sched, items, allowed,
                   audit, cli, started, calm, trespass, budget>>

\* The child ends; the report is kept when it completed (and was saved).
JobEnds(j) ==
    /\ jobs[j].st = "running"
    /\ \E o \in Outcomes(config) :
          /\ o.st = "cancelled" => jobs[j].flag
          /\ jobs' = [jobs EXCEPT ![j].st = o.st, ![j].report = o.report]
    /\ UNCHANGED <<platform, config, files, now, last, conn, active, sched, items, allowed,
                   audit, cli, started, calm, trespass, budget>>

\* A finished job beyond the history limit is deleted with its report.
JobPruned(j) ==
    /\ jobs[j].st \in Finished
    /\ Cardinality(JobsIn(Finished)) > config.history_limit
    /\ jobs' = [jobs EXCEPT ![j].st = "pruned", ![j].report = None]
    /\ UNCHANGED <<platform, config, files, now, last, conn, active, sched, items, allowed,
                   audit, cli, started, calm, trespass, budget>>

----------------------------------------------------------------------------
(* The scheduler thread.  It reads the clock and the last runs once per    *)
(* round; a start is submit, read of the file, write of the file.          *)

DueLater(n) == sched.at > NextDue(Schedule(n), sched.seen[n], sched.at)

Due(n) == sched.at >= NextDue(Schedule(n), sched.seen[n], sched.at)

RoundStart ==
    /\ sched.pc = "sleep" /\ now > sched.at
    /\ sched' = [Idle EXCEPT !.pc = "each", !.at = now, !.seen = last,
                             !.todo = config.schedules,
                             !.since = IF sched.since = None THEN now ELSE sched.since]
    /\ UNCHANGED <<platform, config, files, now, last, jobs, conn, active, items, allowed,
                   audit, cli, started, calm, trespass, budget>>

\* The next schedule of the round: not due, refused, or started.
RoundEach ==
    /\ sched.pc = "each" /\ sched.todo # <<>>
    /\ LET n == Head(sched.todo).name
           skip == [sched EXCEPT !.todo = Tail(@)]
       IN  \/ /\ ~Due(n)
              /\ sched' = skip
              /\ UNCHANGED <<jobs, started, calm, budget>>
           \/ /\ Due(n)
              /\ (~Room /\ UNCHANGED budget) \/ (Room /\ Spend("faults"))
              /\ sched' = [skip EXCEPT !.refused = @ \cup {n}]
              /\ UNCHANGED <<jobs, started, calm>>
           \/ /\ Due(n) /\ Room
              /\ \E j \in JobIds :
                    /\ NewJob(j)
                    /\ jobs' = Submitted(j, Self, n, SpecOf(Schedule(n)), TRUE)
              /\ sched' = [sched EXCEPT !.pc = "read"]
              /\ started' = [started EXCEPT ![n] = now]
              /\ calm' = calm \ {n}
              /\ UNCHANGED budget
    /\ UNCHANGED <<platform, config, files, now, last, conn, active, items, allowed, audit,
                   cli, trespass>>

StartRead ==
    /\ sched.pc = "read"
    /\ sched' = [sched EXCEPT !.pc = "save", !.read = last]
    /\ UNCHANGED <<platform, config, files, now, last, jobs, conn, active, items, allowed,
                   audit, cli, started, calm, trespass, budget>>

StartSaveForgets ==
    /\ sched.pc = "save"
    /\ last' = sched.read
    /\ calm' = calm \cup {Head(sched.todo).name}
    /\ sched' = [sched EXCEPT !.pc = "each", !.todo = Tail(@), !.read = None]
    /\ UNCHANGED <<platform, config, files, now, jobs, conn, active, items, allowed, audit,
                   cli, started, trespass, budget>>

\* The run is recorded at the time of the write; a failed write is logged.
StartSave ==
    /\ sched.pc = "save"
    /\ LET n == Head(sched.todo).name
       IN  \/ /\ last' = [sched.read EXCEPT ![n] = now]
              /\ started' = [started EXCEPT ![n] = now]
              /\ calm' = {m \in calm : last'[m] = last[m]} \cup {n}
              /\ UNCHANGED budget
           \/ Spend("faults") /\ UNCHANGED <<last, started, calm>>
    /\ sched' = [sched EXCEPT !.pc = "each", !.todo = Tail(@), !.read = None]
    /\ UNCHANGED <<platform, config, files, now, jobs, conn, active, items, allowed, audit,
                   cli, trespass>>

RoundEnd ==
    /\ sched.pc = "each" /\ sched.todo = <<>>
    /\ sched' = [Idle EXCEPT !.at = sched.at, !.refused = sched.refused,
                             !.since = sched.since]
    /\ UNCHANGED <<platform, config, files, now, last, jobs, conn, active, items, allowed,
                   audit, cli, started, calm, trespass, budget>>

\* Time passes; the machine may also have been suspended.  Without a schedule
\* nothing depends on the clock.
Tick ==
    /\ now < Horizon /\ Schedules # {}
    /\ now' \in (now + 1)..Horizon
    /\ UNCHANGED <<platform, config, files, last, jobs, conn, active, sched, items, allowed,
                   audit, cli, started, calm, trespass, budget>>

----------------------------------------------------------------------------
(* The endpoint.                                                           *)

\* A client connects; the kernel queues the connection and keeps its uid.
Connect(c, uid) ==
    /\ c \in Clients /\ conn[c].pc = "none" /\ Spend("connects")
    /\ conn' = [conn EXCEPT ![c] = [Free EXCEPT !.pc = "backlog", !.uid = uid]]
    /\ UNCHANGED <<platform, config, files, now, last, jobs, active, sched, items, allowed,
                   audit, cli, started, calm, trespass>>

\* The rule itself, over the files as they are: what "administrator" means.
Entitled(uid) ==
    \/ uid = 0
    \/ \E i \in DOMAIN files.passwd :
          LET u == files.passwd[i]
          IN  /\ u.fields >= 7 /\ u.uid = uid
              /\ \/ \E a \in config.admin_users : a.name = u.name
                 \/ \E k \in DOMAIN files.group :
                       LET g == files.group[k]
                       IN  /\ g.fields >= 4 /\ g.name = config.admin_group
                           /\ u.gid = g.gid \/ u.name \in g.members
    \/ \E a \in config.admin_users : a.uid = uid

\* The connection closes without an answer: an error to the CLI.
Dropped(c) ==
    /\ conn' = [conn EXCEPT ![c] = Free]
    /\ cli' = IF c = Cli THEN [cli EXCEPT !.pc = "done", !.exit = 2] ELSE cli

\* handle_unix reads the accounts when the thread starts (handle_pipe asks
\* for the client's token); the answer is kept for the whole connection.
Identify(c) ==
    conn' = [conn EXCEPT ![c].pc = "read", ![c].left = MaxRequests,
                         ![c].admin = IsAdmin(files, conn[c].uid, config),
                         ![c].truth = Entitled(conn[c].uid)]

AcceptUncounted(c) ==
    /\ conn[c].pc = "backlog" /\ active < MaxConnections /\ Identify(c)
    /\ UNCHANGED <<platform, config, files, now, last, jobs, active, sched, items, allowed,
                   audit, cli, started, calm, trespass, budget>>

\* serve and spawn_client: over the limit the connection is dropped; a
\* thread that cannot be started leaves the count as it is.
Accept(c) ==
    /\ conn[c].pc = "backlog"
    /\ \/ /\ active >= MaxConnections
          /\ Dropped(c) /\ UNCHANGED <<active, budget>>
       \/ /\ active < MaxConnections
          /\ active' = active + 1 /\ Identify(c) /\ UNCHANGED <<cli, budget>>
       \/ /\ active < MaxConnections /\ Spend("faults")
          /\ active' = active + 1 /\ Dropped(c)
    /\ UNCHANGED <<platform, config, files, now, last, jobs, sched, items, allowed, audit,
                   started, calm, trespass>>

\* The request the CLI sends: the command's, or a poll of its job.
CliRequest ==
    CASE cli.pc = "ask"    -> cli.cmd.req
      [] cli.pc = "poll"   -> [cli.cmd.req EXCEPT !.op = "job", !.arg = cli.job]
      [] cli.pc = "report" -> [cli.cmd.req EXCEPT !.op = "report", !.arg = cli.job]

\* converse: one frame is read; a bad one is answered and ends the thread.
Read(c) ==
    /\ conn[c].pc = "read" /\ conn[c].left > 0
    /\ c = Cli => conn[c].left = MaxRequests
    /\ \/ \E r \in (IF c = Cli THEN {CliRequest} ELSE Requests(config)) :
             conn' = [conn EXCEPT ![c].pc = "dispatch", ![c].req = r]
       \/ /\ c \in Clients
          /\ \E f \in Frames \ {"request", "closed", "io"} :
                conn' = [conn EXCEPT ![c].pc = "reply", ![c].left = 1,
                                     ![c].reply = Error("bad_request")]
    /\ UNCHANGED <<platform, config, files, now, last, jobs, active, sched, items, allowed,
                   audit, cli, started, calm, trespass, budget>>

\* The thread ends: closed, timed out, or out of requests.
Hangup(c) ==
    /\ conn[c].pc = "read"
    /\ c = Cli => conn[c].left < MaxRequests
    /\ conn' = [conn EXCEPT ![c] = Free]
    /\ active' = active - 1
    /\ UNCHANGED <<platform, config, files, now, last, jobs, sched, items, allowed, audit,
                   cli, started, calm, trespass, budget>>

\* What dispatch decides before it executes: validation, then authorisation.
Verdict(c) ==
    LET v == Validate(conn[c].req, MaxPaths)
    IN  IF v # "ok" THEN v ELSE Authorize(conn[c].admin, conn[c].req)

Visible(c, j) == j \in Known /\ CanAccessJob(conn[c].uid, conn[c].admin, jobs[j].owner)

Executes(c, op) == conn[c].pc = "dispatch" /\ Verdict(c) = "ok" /\ conn[c].req.op = op

Refuse(c) ==
    /\ conn[c].pc = "dispatch" /\ Verdict(c) # "ok"
    /\ Answer(c, Error(Verdict(c)))
    /\ UNCHANGED <<platform, config, files, now, last, jobs, active, sched, items, allowed,
                   audit, cli, started, calm, trespass, budget>>

\* Newest first, at most MaxListed: an arbitrary choice of that many here.
Listed(c) == {S \in SUBSET {j \in Known : Visible(c, j)} :
                Cardinality(S) = Min({MaxListed, Cardinality({j \in Known : Visible(c, j)})})}

\* The operations that only read: ping, status, schedules, jobs, job.
Query(c) ==
    /\ \/ /\ Executes(c, "ping") \/ Executes(c, "schedules")
          /\ Answer(c, NoReply)
       \/ /\ Executes(c, "status")
          /\ Answer(c, [NoReply EXCEPT !.private = conn[c].admin /\ audit # None])
       \/ /\ Executes(c, "jobs")
          /\ \E S \in Listed(c) : Answer(c, [NoReply EXCEPT !.jobs = S])
       \/ /\ Executes(c, "job")
          /\ LET j == conn[c].req.arg
             IN  Answer(c, IF Visible(c, j)
                           THEN [NoReply EXCEPT !.jobs = {j}, !.st = jobs[j].st]
                           ELSE Error("not_found"))
    /\ UNCHANGED <<platform, config, files, now, last, jobs, active, sched, items, allowed,
                   audit, cli, started, calm, trespass, budget>>

LookUpUnseen(c) ==
    /\ Executes(c, "report") \/ Executes(c, "cancel")
    /\ IF conn[c].req.arg \in Known THEN Goto(c, "act") ELSE Answer(c, Error("not_found"))
    /\ UNCHANGED <<platform, config, files, now, last, jobs, active, sched, items, allowed,
                   audit, cli, started, calm, trespass, budget>>

\* report and cancel look the job up, then act on it: it may finish or be
\* pruned in between.
LookUp(c) ==
    /\ Executes(c, "report") \/ Executes(c, "cancel")
    /\ IF Visible(c, conn[c].req.arg) THEN Goto(c, "act") ELSE Answer(c, Error("not_found"))
    /\ UNCHANGED <<platform, config, files, now, last, jobs, active, sched, items, allowed,
                   audit, cli, started, calm, trespass, budget>>

ReadReport(c) ==
    /\ conn[c].pc = "act" /\ conn[c].req.op = "report"
    /\ LET j == conn[c].req.arg
           found == IF jobs[j].report = None THEN Error("not_found")
                    ELSE [NoReply EXCEPT !.jobs = {j}, !.report = jobs[j].report]
       IN  \/ Answer(c, found) /\ UNCHANGED budget
           \/ Answer(c, Error("internal")) /\ Spend("faults")
    /\ UNCHANGED <<platform, config, files, now, last, jobs, active, sched, items, allowed,
                   audit, cli, started, calm, trespass>>

CancelJob(c) ==
    /\ conn[c].pc = "act" /\ conn[c].req.op = "cancel"
    /\ LET j == conn[c].req.arg
       IN  CASE jobs[j].st = "queued" ->
                  jobs' = [jobs EXCEPT ![j].st = "cancelled"] /\ Answer(c, NoReply)
             [] jobs[j].st = "running" ->
                  jobs' = [jobs EXCEPT ![j].flag = TRUE] /\ Answer(c, NoReply)
             [] OTHER -> Answer(c, Error("not_found")) /\ UNCHANGED jobs
    /\ UNCHANGED <<platform, config, files, now, last, active, sched, items, allowed,
                   audit, cli, started, calm, trespass, budget>>

\* scan and system_check.
Scan(c) ==
    /\ Executes(c, "scan")
    /\ LET as == ScanIdentity(platform, conn[c].uid, conn[c].admin)
           spec == [kind |-> "scan", quarantine |-> conn[c].req.quarantine, run_as |-> as,
                    paths |-> conn[c].req.paths]
       IN  IF as = None THEN Answer(c, Error("unsupported")) /\ UNCHANGED <<jobs, budget>>
           ELSE SubmitFor(c, conn[c].uid, spec)
    /\ UNCHANGED <<platform, config, files, now, last, active, sched, items, allowed,
                   audit, cli, started, calm, trespass>>

SystemCheck(c) ==
    /\ Executes(c, "system_check")
    /\ SubmitFor(c, conn[c].uid,
                 [kind |-> "system_check", quarantine |-> FALSE, run_as |-> RunAsService,
                  paths |-> <<>>])
    /\ UNCHANGED <<platform, config, files, now, last, active, sched, items, allowed,
                   audit, cli, started, calm, trespass>>

\* run_schedule is schedule::start on the client's thread: the same three
\* steps as the scheduler's, with no lock around them.
RunSchedule(c) ==
    /\ Executes(c, "run_schedule")
    /\ LET n == conn[c].req.arg
       IN  \/ /\ n \notin Schedules /\ Answer(c, Error("not_found"))
              /\ UNCHANGED <<jobs, started, calm, budget>>
           \/ /\ n \in Schedules /\ ~Room /\ Answer(c, Error("busy"))
              /\ UNCHANGED <<jobs, started, calm, budget>>
           \/ /\ n \in Schedules /\ Room /\ Spend("faults")
              /\ Answer(c, Error("internal"))
              /\ UNCHANGED <<jobs, started, calm>>
           \/ /\ n \in Schedules /\ Room
              /\ \E j \in JobIds :
                    /\ NewJob(j)
                    /\ jobs' = Submitted(j, Self, n, SpecOf(Schedule(n)), conn[c].truth)
                    /\ conn' = [conn EXCEPT ![c].pc = "state",
                                            ![c].reply = [NoReply EXCEPT !.jobs = {j}]]
              /\ started' = [started EXCEPT ![n] = now]
              /\ calm' = calm \ {n}
              /\ UNCHANGED budget
    /\ UNCHANGED <<platform, config, files, now, last, active, sched, items, allowed,
                   audit, cli, trespass>>

RunScheduleRead(c) ==
    /\ conn[c].pc = "state"
    /\ conn' = [conn EXCEPT ![c].pc = "save", ![c].seen = last]
    /\ UNCHANGED <<platform, config, files, now, last, jobs, active, sched, items, allowed,
                   audit, cli, started, calm, trespass, budget>>

RunScheduleSave(c) ==
    /\ conn[c].pc = "save"
    /\ conn' = [conn EXCEPT ![c].pc = "reply", ![c].seen = None]
    /\ LET n == conn[c].req.arg
       IN  \/ /\ last' = [conn[c].seen EXCEPT ![n] = now]
              /\ started' = [started EXCEPT ![n] = now]
              /\ calm' = {m \in calm : last'[m] = last[m]}
                         \cup (IF sched.pc = "sleep" THEN {n} ELSE {})
              /\ UNCHANGED budget
           \/ Spend("faults") /\ UNCHANGED <<last, started, calm>>
    /\ UNCHANGED <<platform, config, files, now, jobs, active, sched, items, allowed, audit,
                   cli, trespass>>

\* The quarantine operations run while the handler holds the store.  A
\* restore that cannot be allow-listed is answered as a failure, and the
\* file is back all the same.
QuarantineOp(c) ==
    /\ \/ /\ Executes(c, "quarantine_list")
          /\ Answer(c, [NoReply EXCEPT !.private = TRUE])
          /\ UNCHANGED <<items, allowed, budget>>
       \/ /\ Executes(c, "quarantine_restore")
          /\ LET i == conn[c].req.arg
             IN  \/ /\ i \in Items /\ items[i] = "quarantined"
                    /\ items' = [items EXCEPT ![i] = "restored"]
                    /\ \/ /\ allowed' = IF conn[c].req.allow THEN allowed \cup {i} ELSE allowed
                          /\ Answer(c, NoReply) /\ UNCHANGED budget
                       \/ /\ conn[c].req.allow /\ Spend("faults")
                          /\ Answer(c, Error("internal")) /\ UNCHANGED allowed
                 \/ /\ i \notin Items \/ items[i] # "quarantined"
                    /\ Answer(c, Error("internal")) /\ UNCHANGED <<items, allowed, budget>>
       \/ /\ Executes(c, "quarantine_delete")
          /\ LET i == conn[c].req.arg
             IN  IF i \in Items /\ items[i] = "quarantined"
                 THEN items' = [items EXCEPT ![i] = "deleted"] /\ Answer(c, NoReply)
                 ELSE Answer(c, Error("internal")) /\ UNCHANGED items
          /\ UNCHANGED <<allowed, budget>>
    /\ trespass' = (trespass \/ ~conn[c].truth)
    /\ UNCHANGED <<platform, config, files, now, last, jobs, active, sched, audit, cli,
                   started, calm>>

\* verify_audit: check the chain (WindowsStore, AuditLog), keep the result.
VerifyAudit(c) ==
    /\ Executes(c, "verify_audit")
    /\ audit' \in BOOLEAN
    /\ Answer(c, [NoReply EXCEPT !.audit = audit', !.private = TRUE])
    /\ trespass' = (trespass \/ ~conn[c].truth)
    /\ UNCHANGED <<platform, config, files, now, last, jobs, active, sched, items, allowed,
                   cli, started, calm, budget>>

----------------------------------------------------------------------------
(* Replies, and what the command line makes of them.                       *)

\* The exit status of a report, as for a local scan.
ReportExit(report) == IF report = "findings" THEN 1 ELSE 0

\* A finished job that did not complete: its summary, and no report.
UnfinishedExit(st) == IF st = "cancelled" THEN 130 ELSE 2

CliAfterAnyEnd(reply) ==
    LET quit(code) == [cli EXCEPT !.pc = "done", !.exit = code]
    IN  CASE reply.code # "ok" -> quit(2)
          [] reply.code = "ok" /\ cli.pc = "ask" /\ ~cli.cmd.wait -> quit(0)
          [] reply.code = "ok" /\ cli.pc = "ask" /\ cli.cmd.wait ->
                [cli EXCEPT !.pc = "poll", !.job = CHOOSE j \in reply.jobs : TRUE]
          [] reply.code = "ok" /\ cli.pc = "poll" /\ reply.st \notin Finished -> cli
          [] OTHER -> quit(ReportExit(reply.report))

\* run_inner, wait_and_print, print_report: where a reply leads.
CliAfter(reply) ==
    LET quit(code) == [cli EXCEPT !.pc = "done", !.exit = code]
        job        == CHOOSE j \in reply.jobs : TRUE
    IN  CASE reply.code # "ok" -> quit(2)
          [] reply.code = "ok" /\ cli.pc = "ask" /\ cli.cmd.wait ->
                [cli EXCEPT !.pc = "poll", !.job = job]
          [] reply.code = "ok" /\ cli.pc = "ask" /\ ~cli.cmd.wait ->
                quit(IF reply.audit = FALSE THEN 1 ELSE 0)
          [] reply.code = "ok" /\ cli.pc = "poll" /\ reply.st \notin Finished -> cli
          [] reply.code = "ok" /\ cli.pc = "poll" /\ reply.st = "completed" ->
                [cli EXCEPT !.pc = "report"]
          [] reply.code = "ok" /\ cli.pc = "poll" /\ reply.st \in Finished \ {"completed"} ->
                quit(UnfinishedExit(reply.st))
          [] OTHER -> quit(ReportExit(reply.report))

\* write_frame and the next round of converse; a write that fails ends the
\* thread, and the CLI sees the connection close.
Reply(c) ==
    /\ conn[c].pc = "reply"
    /\ conn' = [conn EXCEPT ![c].pc = "read", ![c].left = @ - 1, ![c].req = None,
                            ![c].reply = NoReply]
    /\ cli' = IF c = Cli THEN CliAfter(conn[c].reply) ELSE cli
    /\ UNCHANGED <<platform, config, files, now, last, jobs, active, sched, items, allowed,
                   audit, started, calm, trespass, budget>>

ReplyFails(c) ==
    /\ conn[c].pc = "reply" /\ Spend("faults")
    /\ active' = active - 1
    /\ Dropped(c)
    /\ UNCHANGED <<platform, config, files, now, last, jobs, sched, items, allowed, audit,
                   started, calm, trespass>>

\* The user runs a command.  A deletion without --yes is refused at once.
CliStart(cmd) ==
    /\ cli.pc = "off" /\ Spend("connects")
    /\ cli' = [NoCommand EXCEPT !.cmd = cmd,
                                !.pc = IF cmd.req.op = "quarantine_delete" /\ ~cmd.yes
                                       THEN "done" ELSE "ask",
                                !.exit = IF cmd.req.op = "quarantine_delete" /\ ~cmd.yes
                                         THEN 2 ELSE None]
    /\ UNCHANGED <<platform, config, files, now, last, jobs, conn, active, sched, items,
                   allowed, audit, started, calm, trespass>>

\* client::call: one connection per request.  On Windows the pipe must be
\* owned by the service; the read gives up after its timeout.
CliConnect ==
    /\ cli.pc \in {"ask", "poll", "report"} /\ conn[Cli].pc = "none"
    /\ conn' = [conn EXCEPT ![Cli] = [Free EXCEPT !.pc = "backlog", !.uid = cli.cmd.uid]]
    /\ UNCHANGED <<platform, config, files, now, last, jobs, active, sched, items, allowed,
                   audit, cli, started, calm, trespass, budget>>

CliGivesUp ==
    /\ cli.pc \in {"ask", "poll", "report"} /\ conn[Cli].pc # "none" /\ Spend("faults")
    /\ cli' = [cli EXCEPT !.pc = "done", !.exit = 2]
    /\ conn' = [conn EXCEPT ![Cli] = Free]
    /\ active' = active - Cardinality({Cli} \cap Threads)
    /\ UNCHANGED <<platform, config, files, now, last, jobs, sched, items, allowed, audit,
                   started, calm, trespass>>

----------------------------------------------------------------------------
\* An administrator edits passwd or group; connections keep what they saw.
EditAccounts ==
    /\ Spend("faults")
    /\ files' \in Accounts \ {files}
    /\ UNCHANGED <<platform, config, now, last, jobs, conn, active, sched, items, allowed,
                   audit, cli, started, calm, trespass>>

\* The service dies at any point and is started again: run_with_stop binds
\* the endpoint, Manager::new settles the jobs, the scheduler starts over.
Restart ==
    /\ Spend("faults")
    /\ jobs' = [j \in JobIds |-> IF jobs[j].st \in {"queued", "running"}
                                 THEN [jobs[j] EXCEPT !.st = "failed"] ELSE jobs[j]]
    /\ conn' = [c \in DOMAIN conn |-> Free]
    /\ active' = 0
    /\ sched' = Idle
    /\ cli' = IF cli.pc \in {"ask", "poll", "report"}
              THEN [cli EXCEPT !.pc = "done", !.exit = 2] ELSE cli
    /\ UNCHANGED <<platform, config, files, now, last, items, allowed, audit, started, calm,
                   trespass>>

----------------------------------------------------------------------------
\* run_with_stop refuses a configuration that load rejects.
Init ==
    /\ \E w \in Worlds :
          /\ platform = w.platform
          /\ config = Loaded(w)
          /\ files = w.accounts
    /\ config # None
    /\ now = 1
    /\ last \in FirstRuns
    /\ jobs = [j \in JobIds |-> NoJob]
    /\ conn = [c \in Clients \cup {Cli} |-> Free]
    /\ active = 0
    /\ sched = Idle
    /\ items = [i \in Items |-> "quarantined"]
    /\ allowed = {}
    /\ audit = TRUE
    /\ cli = NoCommand
    /\ started = last
    /\ calm = {}
    /\ trespass = FALSE
    /\ budget = [connects |-> MaxConnects(config), faults |-> MaxFaults]

Scheduler == RoundStart \/ RoundEach \/ StartRead \/ StartSave \/ RoundEnd

Handler(c) ==
    \/ Accept(c) \/ Read(c) \/ Hangup(c) \/ Refuse(c) \/ Query(c)
    \/ LookUp(c) \/ ReadReport(c) \/ CancelJob(c) \/ Scan(c) \/ SystemCheck(c)
    \/ RunSchedule(c) \/ RunScheduleRead(c) \/ RunScheduleSave(c) \/ QuarantineOp(c)
    \/ VerifyAudit(c) \/ Reply(c) \/ ReplyFails(c)

CommandLine == CliConnect \/ CliGivesUp \/ \E cmd \in Commands(config) : CliStart(cmd)

Next ==
    \/ Scheduler
    \/ \E c \in Clients \cup {Cli} : Handler(c)
    \/ \E c \in Clients, uid \in Uids(config) : Connect(c, uid)
    \/ CommandLine
    \/ \E j \in JobIds : JobRuns(j) \/ JobEnds(j) \/ JobPruned(j)
    \/ Tick \/ EditAccounts \/ Restart

Spec == Init /\ [][Next]_vars

----------------------------------------------------------------------------
(* Properties.                                                             *)

ItemStates == {"quarantined", "restored", "deleted"}

\* The types; no more threads than the count says, and never more counted
\* than MAX_CONNECTIONS (server.rs, spawn_client).
TypeOK ==
    /\ platform \in {"unix", "windows"} /\ files \in Accounts /\ now \in Times
    /\ RunTimes(last)
    /\ \A j \in JobIds : jobs[j].st \in Finished \cup {"none", "queued", "running", "pruned"}
    /\ \A c \in DOMAIN conn : conn[c].pc \in {"none", "backlog", "read", "dispatch",
                                             "act", "state", "save", "reply"}
    /\ sched.pc \in {"sleep", "each", "read", "save"}
    /\ \A i \in Items : items[i] \in ItemStates
    /\ allowed \subseteq Items /\ audit \in BOOLEAN \cup {None}
    /\ cli.pc \in {"off", "ask", "poll", "report", "done"}
    /\ Cardinality(Threads) <= active /\ active <= MaxConnections

\* The authorisation matrix of privilege-model.md, over whole histories: a
\* child with capabilities or the service's own rights, a quarantine and a
\* change of the store exist only because of the configuration or of somebody
\* who was an administrator when they connected, whatever happens to the
\* account files meanwhile; any other child scans as the one who asked.
PrivilegeIsEarned ==
    /\ ~trespass
    /\ \A j \in JobIds : ~jobs[j].earned =>
          /\ jobs[j].spec # None => ~jobs[j].spec.quarantine
          /\ jobs[j].args # None => jobs[j].args.command = "scan"
          /\ jobs[j].child # None =>
                /\ jobs[j].child.as = "user" => jobs[j].child.caps = {}
                /\ jobs[j].child.uid = jobs[j].owner

\* What is answered to somebody who is no administrator is about their own
\* jobs only, and never the state of the audit log (server.rs, execute).
OthersStayPrivate ==
    \A c \in DOMAIN conn :
        conn[c].pc = "reply" /\ ~conn[c].truth =>
            /\ \A j \in conn[c].reply.jobs : jobs[j].owner = conn[c].uid
            /\ ~conn[c].reply.private

\* The last start of n still covers time t: the interval is not over, or
\* fewer than every / Day times of day have passed since its day.
CoversBy(s, start, t) ==
    LET first == (start \div Day) + 1
    IN  IF s.at = None THEN t - start < s.every
        ELSE Cardinality({d \in first..(Horizon \div Day) : d * Day + s.at <= t})
                < s.every \div Day
Covers(n, t) == CoversBy(Schedule(n), started[n], t)

\* "A run missed while the machine was off starts once, as soon as the service
\* is up; runs never pile up" (schedule.rs): the scheduler does not start what
\* its last, undisturbed start still covers, over suspends and restarts.
RunsNeverPileUp ==
    [][\A n \in calm :
         sched.pc = "each" /\ sched'.pc = "read" /\ Head(sched.todo).name = n
            => ~Covers(n, sched.at)]_vars

\* After a round every schedule is covered by a start or was refused in that
\* round (ADR-0018: every N hours, or every N days at HH:MM).  A schedule that
\* never ran is covered until its time of day has come once between two rounds.
DueRuns ==
    sched.pc = "sleep" /\ sched.at > 0 =>
        \A n \in Schedules :
            \/ n \in sched.refused
            \/ started[n] # None /\ Covers(n, sched.at)
            \/ /\ started[n] = None /\ Schedule(n).at # None
               /\ \A d \in 0..(Horizon \div Day) :
                     d * Day + Schedule(n).at \notin sched.since..sched.at

\* With --wait, status 0 is the verdict of a job that completed with a clean
\* report, 1 of one with findings (service_cmd.rs: "the exit status is then
\* that of a local scan"), although the job may be cancelled, pruned or
\* interrupted between two polls.
WaitVerdictIsReal ==
    cli.pc = "done" /\ cli.exit \in {0, 1} /\ cli.cmd.wait =>
        /\ cli.job # None
        /\ jobs[cli.job].st \in {"completed", "pruned"}
        /\ jobs[cli.job].report # None =>
              cli.exit = (IF jobs[cli.job].report = "findings" THEN 1 ELSE 0)
----------------------------------------------------------------------------
(* The inductive invariant behind the properties, in the parts its proof   *)
(* takes one after the other.                                              *)

\* What the manager knows of a job: nothing of one that was never submitted,
\* a report only of one that completed; one that nobody entitled asked for
\* scans with the rights of its owner.
JobOk(r) ==
    /\ HasFields(r, DOMAIN NoJob)
    /\ r.st \in Finished \cup {"none", "queued", "running", "pruned"}
    /\ r.st = "none" => r = NoJob
    /\ r.report # None => r.st = "completed"
    /\ r.st # "none" /\ ~r.earned =>
          /\ platform = "unix"
          /\ r.spec.kind = "scan" /\ ~r.spec.quarantine
          /\ r.spec.run_as = RunAsCaller(r.owner)
          /\ r.args # None => r.args.command = "scan"
          /\ r.child # None => /\ r.child.as = "user" => r.child.caps = {}
                               /\ r.child.uid = r.owner
JobsOk == HasFields(jobs, JobIds) /\ \A j \in JobIds : JobOk(jobs[j])

\* A job that was submitted, and is the caller's own unless they are an
\* administrator.
MaySee(r, j, J) ==
    j \in JobIds /\ J[j].st # "none" /\ (r.truth \/ J[j].owner = r.uid)

\* What a connection thread has established at each of its steps.
ConnOk(r, J) ==
    /\ HasFields(r, DOMAIN Free)
    /\ r.pc \in {"none", "backlog", "read", "dispatch", "act", "state", "save", "reply"}
    /\ r.admin => r.truth
    /\ r.pc = "act" => r.req.op \in {"report", "cancel"} /\ MaySee(r, r.req.arg, J)
    /\ r.pc \in {"state", "save"} => r.req.op = "run_schedule" /\ r.truth
    /\ r.pc \in {"state", "save", "reply"} =>
          (\A j \in r.reply.jobs : MaySee(r, j, J)) /\ (r.reply.private => r.truth)
    /\ r.pc = "save" => RunTimes(r.seen)
ConnsOk == HasFields(conn, Clients \cup {Cli})
           /\ \A c \in Clients \cup {Cli} : ConnOk(conn[c], jobs)

\* The command line and its connection agree on the request that is under
\* way, and a reply says what was true of the job when it was made.
Asking == cli.pc \in {"ask", "poll", "report"}
Ended(j, J) == j \in JobIds /\ J[j].st \in {"completed", "pruned"}
ReplyFits(reply, J) ==
    reply.code = "ok" =>
        /\ cli.pc = "ask" /\ cli.cmd.wait => \E j \in JobIds : reply.jobs = {j}
        /\ cli.pc = "poll" /\ reply.st = "completed" => Ended(cli.job, J)
        /\ cli.pc = "report" /\ J[cli.job].report # None =>
              reply.report = J[cli.job].report
CliOk ==
    LET r == conn[Cli]
    IN  /\ HasFields(cli, DOMAIN NoCommand)
        /\ cli.pc \in {"off", "ask", "poll", "report", "done"}
        /\ Asking => IsRequest(cli.cmd.req) /\ (cli.cmd.wait => cli.cmd.req.op \in Submits)
        /\ cli.job \in JobIds \cup {None} /\ (cli.pc = "poll" => cli.job # None)
        /\ cli.pc = "report" => Ended(cli.job, jobs)
        /\ r.pc \in {"backlog", "dispatch", "act", "state", "save", "reply"} => Asking
        /\ r.pc = "read" => \/ r.left = MaxRequests /\ Asking
                            \/ r.left = MaxRequests - 1
        /\ r.pc \in {"dispatch", "act", "state", "save", "reply"} => r.left = MaxRequests
        /\ r.pc \in {"dispatch", "act", "state", "save"} => r.req = CliRequest
        /\ r.pc \in {"state", "save", "reply"} => ReplyFits(r.reply, jobs)

\* The scheduler's and the connections' copies of the table of last runs.
TablesOk ==
    /\ HasFields(sched, DOMAIN Idle)
    /\ sched.pc = "save" => RunTimes(sched.read)

IInv ==
    /\ TypeOK /\ config \in Configs /\ active \in Nat /\ items \in [Items -> ItemStates]
    /\ JobsOk /\ ConnsOk /\ CliOk /\ TablesOk /\ ~trespass /\ WaitVerdictIsReal

----------------------------------------------------------------------------
(* The inductive invariants behind RunsNeverPileUp and DueRuns.            *)

\* A copy of the table of last runs may be old, but is never ahead of the
\* starts.
Behind(table, starts) ==
    /\ DOMAIN table = DOMAIN starts
    /\ \A n \in DOMAIN starts :
          table[n] # None =>
              table[n] \in Times /\ starts[n] \in Times /\ table[n] <= starts[n]

\* The copies that are in use: the scheduler's and those of connections.
TablesBehind ==
    /\ Schedules \subseteq DOMAIN started
    /\ \A n \in DOMAIN started : started[n] \in 0..now \cup {None}
    /\ Behind(last, started)
    /\ sched.pc # "sleep" => Behind(sched.seen, started)
    /\ sched.pc = "save" => Behind(sched.read, started)
    /\ \A c \in Clients \cup {Cli} :
          /\ conn[c].pc \in {"state", "save"} => conn[c].req.arg \in Schedules
          /\ conn[c].pc = "save" => Behind(conn[c].seen, started)

\* What is left of the round; its first schedule is being started, or not yet.
Names(s) == {s[i].name : i \in DOMAIN s}
TodoOk ==
    /\ sched.at \in 0..now
    /\ sched.pc # "sleep" =>
          /\ sched.todo \in Seq({config.schedules[i] : i \in DOMAIN config.schedules})
          /\ \A i, j \in DOMAIN sched.todo :
                sched.todo[i].name = sched.todo[j].name => i = j
    /\ sched.pc \in {"read", "save"} =>
          sched.todo # <<>> /\ started[Head(sched.todo).name] \in sched.at..now
Ahead == IF sched.pc = "each" THEN Names(sched.todo) ELSE Names(Tail(sched.todo))

\* An undisturbed start is in the file, and the scheduler knows of it.
CalmOk ==
    \A n \in calm :
        /\ n \in Schedules /\ started[n] # None /\ last[n] = started[n]
        /\ sched.pc # "sleep" /\ n \in Ahead => sched.seen[n] = started[n]

RoundInv == TablesBehind /\ TodoOk /\ CalmOk

\* A daily schedule has run before, and no copy of the table forgets it; what
\* the round has passed is covered or was refused.
AtATime == {n \in Schedules : Schedule(n).at # None}
Ran(names, table) == \A n \in names : table[n] # None
DailyRan ==
    /\ Ran(AtATime, last)
    /\ sched.pc # "sleep" => Ran(AtATime, sched.seen)
    /\ sched.pc = "save" => Ran(AtATime, sched.read)
    /\ \A c \in Clients \cup {Cli} : conn[c].pc = "save" => Ran(AtATime, conn[c].seen)
Covered(n) == n \in sched.refused \/ (started[n] # None /\ Covers(n, sched.at))
PassedCovered ==
    /\ sched.pc = "sleep" /\ sched.at > 0 => \A n \in Schedules : Covered(n)
    /\ sched.pc # "sleep" => \A n \in Schedules \ Names(sched.todo) : Covered(n)

CoverInv == DailyRan /\ PassedCovered
=============================================================================
