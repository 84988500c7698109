--------------------------- MODULE ServiceProofs ---------------------------
(***************************************************************************)
(* Proofs about Service, for any users, requests, configurations, account  *)
(* files, numbers of connections and jobs and any faults.                  *)
(*                                                                         *)
(* The argument.  JobsGrow says what any step may do to a job: it keeps    *)
(* its owner, and stays completed once it completed until it is pruned.    *)
(* So what a connection thread has checked of a job (ConnOk) and what the  *)
(* command line was told of its own (CliOk) outlive the steps of others,   *)
(* and each action has to be looked at only for the connection it serves.  *)
(* What a job may do is settled when it is submitted (JobOk): somebody who *)
(* is not entitled gets past policy::authorize only with a scan that runs  *)
(* as them, and is_admin takes nobody else for an administrator            *)
(* (AdminIsEntitled).                                                      *)
(*                                                                         *)
(* Schedules.  Most steps only let time pass (QuietSteps); of the others,  *)
(* RoundInv keeps that a copy of the table of last runs is never ahead of  *)
(* the starts, and that the scheduler has not missed an undisturbed start. *)
(* CoverInv keeps that what a round has passed is covered or was refused:  *)
(* a start covers its round (StartCovers), a schedule that is not due is   *)
(* covered (NotDueIsCovered), and a later start covers what an earlier one *)
(* did (LaterCovers).                                                      *)
(***************************************************************************)
EXTENDS Service, FiniteSetTheorems, WellFoundedInduction, TLAPS

\* A set of positive integers that is not empty has a least element, which
\* Min finds.
LEMMA MinIsLeast ==
    ASSUME NEW S, S \subseteq Nat, S # {}
    PROVE  SE!Min(S) \in S
<1>1. PICK x \in S : \A y \in S : ~(<<y, x>> \in OpToRel(<, Nat))
  BY NatLessThanWellFounded, WFMin
<1>2. \A y \in S : ~(y < x)
  BY <1>1, Zenon DEF OpToRel
<1>3. \A y \in S : x =< y
  BY <1>2
<1> QED
  BY <1>3 DEF SE!Min

\* Accounts::user and Accounts::group_by_name give a line of the file, well
\* formed and with the uid or the name asked for.
LEMMA UserIsALine ==
    ASSUME NEW f, Lines(f.passwd), NEW uid, User(f, uid) # None
    PROVE  \E i \in DOMAIN f.passwd :
              /\ User(f, uid) = f.passwd[i]
              /\ PasswdLine(f.passwd[i]) /\ f.passwd[i].uid = uid
<1> DEFINE I == {i \in 1..Len(f.passwd) : PasswdLine(f.passwd[i]) /\ f.passwd[i].uid = uid}
           k == IF I # {} THEN SE!Min(I) ELSE 0
<1>1. User(f, uid) = IF k = 0 THEN None ELSE f.passwd[k]
  BY DEF User, First, SE!SelectInSeq
<1>2. k # 0 /\ User(f, uid) = f.passwd[k]
  BY <1>1
<1>3. k \in I
  <2>1. I # {}
    BY <1>2
  <2>2. I \subseteq Nat
    BY DEF Lines
  <2> QED
    BY <2>1, <2>2, MinIsLeast
<1> QED
  BY <1>2, <1>3 DEF Lines

LEMMA GroupIsALine ==
    ASSUME NEW f, Lines(f.group), NEW name, GroupByName(f, name) # None
    PROVE  \E i \in DOMAIN f.group :
              /\ GroupByName(f, name) = f.group[i]
              /\ GroupLine(f.group[i]) /\ f.group[i].name = name
<1> DEFINE I == {i \in 1..Len(f.group) : GroupLine(f.group[i]) /\ f.group[i].name = name}
           k == IF I # {} THEN SE!Min(I) ELSE 0
<1>1. GroupByName(f, name) = IF k = 0 THEN None ELSE f.group[k]
  BY DEF GroupByName, First, SE!SelectInSeq
<1>2. k # 0 /\ GroupByName(f, name) = f.group[k]
  BY <1>1
<1>3. k \in I
  <2>1. I # {}
    BY <1>2
  <2>2. I \subseteq Nat
    BY DEF Lines
  <2> QED
    BY <2>1, <2>2, MinIsLeast
<1> QED
  BY <1>2, <1>3 DEF Lines

\* Accounts::is_admin takes nobody for an administrator whom the files and the
\* configuration, read as a whole, do not make one: the first line of a uid or
\* of a group decides, and it is one of the lines.
LEMMA AdminIsEntitled ==
    ASSUME NEW uid, Lines(files.passwd), Lines(files.group), IsAdmin(files, uid, config)
    PROVE  Entitled(uid)
<1> DEFINE user  == User(files, uid)
           group == GroupByName(files, config.admin_group)
<1>1. \/ uid = 0
      \/ \E a \in config.admin_users :
            a.uid = uid \/ (user # None /\ a.name = user.name)
      \/ /\ user # None /\ group # None
         /\ user.gid = group.gid \/ user.name \in group.members
  BY DEF IsAdmin
<1>2. CASE uid = 0
  BY <1>2 DEF Entitled
<1>3. CASE \E a \in config.admin_users : a.uid = uid
  BY <1>3 DEF Entitled
<1>4. CASE user # None /\ \E a \in config.admin_users : a.name = user.name
  <2>1. PICK i \in DOMAIN files.passwd : user = files.passwd[i]
             /\ PasswdLine(files.passwd[i]) /\ files.passwd[i].uid = uid
    BY <1>4, UserIsALine
  <2> QED
    BY <1>4, <2>1 DEF Entitled, PasswdLine
<1>5. CASE user # None /\ group # None /\ (user.gid = group.gid \/ user.name \in group.members)
  <2>1. PICK i \in DOMAIN files.passwd : user = files.passwd[i]
             /\ PasswdLine(files.passwd[i]) /\ files.passwd[i].uid = uid
    BY <1>5, UserIsALine
  <2>2. PICK k \in DOMAIN files.group : group = files.group[k]
             /\ GroupLine(files.group[k]) /\ files.group[k].name = config.admin_group
    BY <1>5, GroupIsALine
  <2>3. /\ files.passwd[i].fields >= 7 /\ files.passwd[i].uid = uid
        /\ files.group[k].fields >= 4 /\ files.group[k].name = config.admin_group
        /\ \/ files.passwd[i].gid = files.group[k].gid
           \/ files.passwd[i].name \in files.group[k].members
    BY <1>5, <2>1, <2>2 DEF PasswdLine, GroupLine
  <2> HIDE DEF user, group
  <2> QED
    BY <2>3 DEF Entitled
<1> QED
  BY <1>1, <1>2, <1>3, <1>4, <1>5

----------------------------------------------------------------------------
(* Jobs.                                                                   *)

\* What a step may do to a job: one that exists keeps its owner, one that
\* completed stays completed until it is pruned, and loses its report at most.
Grows(r, s) ==
    /\ r.st # "none" => s.st # "none" /\ s.owner = r.owner
    /\ r.st \in {"completed", "pruned"} =>
          s.st \in {"completed", "pruned"} /\ s.report \in {r.report, None}
JobsGrow == \A j \in JobIds : Grows(jobs[j], jobs'[j])

LEMMA NoJobMoves ==
    ASSUME JobsOk, UNCHANGED <<jobs, platform>>
    PROVE  JobsOk' /\ JobsGrow
  BY DEF JobsOk, JobsGrow, Grows, JobOk

LEMMA OneJobMoves ==
    ASSUME JobsOk, UNCHANGED platform, NEW j \in JobIds, NEW r,
           jobs' = [jobs EXCEPT ![j] = r], JobOk(r), Grows(jobs[j], r)
    PROVE  JobsOk' /\ JobsGrow
<1>1. \A k \in JobIds : jobs'[k] = IF k = j THEN r ELSE jobs[k]
  BY DEF JobsOk, HasFields
<1>2. HasFields(jobs, JobIds)'
  BY DEF JobsOk, HasFields
<1>3. \A k \in JobIds : JobOk(jobs'[k]) /\ Grows(jobs[k], jobs'[k])
  <2> TAKE k \in JobIds
  <2>1. Grows(jobs[k], jobs[k]) /\ JobOk(jobs[k])
    BY DEF Grows, JobsOk
  <2> QED
    BY <1>1, <2>1
<1>4. \A k \in JobIds : JobOk(jobs[k])'
  BY <1>3 DEF JobOk
<1> QED
  BY <1>2, <1>3, <1>4 DEF JobsOk, JobsGrow

\* Manager::submit takes an id that was never used.
LEMMA SubmitMoves ==
    ASSUME JobsOk, UNCHANGED platform, NEW j \in JobIds, NewJob(j),
           NEW owner, NEW name, NEW spec, NEW earned,
           jobs' = Submitted(j, owner, name, spec, earned),
           ~earned => /\ platform = "unix" /\ spec.kind = "scan" /\ ~spec.quarantine
                      /\ spec.run_as = RunAsCaller(owner)
    PROVE  /\ JobsOk' /\ JobsGrow /\ jobs[j].st = "none"
           /\ jobs'[j].st = "queued" /\ jobs'[j].owner = owner
<1> DEFINE r == [NoJob EXCEPT !.st = "queued", !.owner = owner, !.spec = spec,
                              !.schedule = name, !.earned = earned]
<1>1. jobs[j].st = "none"
  BY DEF NewJob, JobsIn
<1>2. jobs' = [jobs EXCEPT ![j] = r]
  BY DEF Submitted
<1>3. /\ HasFields(r, DOMAIN NoJob)
      /\ r.st = "queued" /\ r.owner = owner /\ r.spec = spec /\ r.earned = earned
      /\ r.child = None /\ r.args = None /\ r.report = None
  BY DEF NoJob, HasFields
<1>3a. JobOk(r)
  BY <1>3 DEF JobOk
<1>4. Grows(jobs[j], r)
  BY <1>1 DEF Grows
<1>5. jobs'[j] = r
  BY <1>2 DEF JobsOk, HasFields
<1> HIDE DEF r
<1>6. JobsOk' /\ JobsGrow
  BY <1>2, <1>3a, <1>4, OneJobMoves
<1> QED
  BY <1>1, <1>3, <1>5, <1>6

\* A worker starts the child of a job with an identity its specification
\* allows; without one the job fails.
LEMMA JobRunsMoves ==
    ASSUME JobsOk, NEW j \in JobIds, JobRuns(j)
    PROVE  JobsOk' /\ JobsGrow
<1> DEFINE id == Identity(platform, config.root, Self, jobs[j].spec)
           r == [jobs[j] EXCEPT !.st = IF id = None THEN "failed" ELSE "running",
                                !.child = id, !.args = ChildArgs(jobs[j].spec, config, FALSE)]
<1>1. jobs[j].st = "queued" /\ UNCHANGED platform /\ JobOk(jobs[j])
  BY DEF JobRuns, JobsOk
<1>2. jobs' = [jobs EXCEPT ![j] = r]
  BY DEF JobRuns, JobsOk, HasFields
<1>3. /\ HasFields(r, DOMAIN NoJob) /\ r.child = id
      /\ r.st = (IF id = None THEN "failed" ELSE "running")
      /\ r.args = ChildArgs(jobs[j].spec, config, FALSE)
      /\ \A f \in {"owner", "spec", "report", "earned"} : r[f] = jobs[j][f]
  <2> HIDE DEF id
  <2> QED
    BY <1>1 DEF JobOk, HasFields, NoJob
<1>4. ChildArgs(jobs[j].spec, config, FALSE).command = jobs[j].spec.kind
  BY DEF ChildArgs
<1>5. platform = "unix" /\ jobs[j].spec.run_as = RunAsCaller(jobs[j].owner) /\ id # None
        => /\ id.as = "user" => id.caps = {}
           /\ id.uid = jobs[j].owner
  BY DEF Identity, RunAsCaller
<1> HIDE DEF id, r
<1>6. JobOk(r)
  <2>1. r.st \in {"failed", "running"} /\ r.report = None
    BY <1>1, <1>3 DEF JobOk
  <2>2. r.owner = jobs[j].owner /\ r.spec = jobs[j].spec /\ r.earned = jobs[j].earned
    BY <1>3
  <2> QED
    BY <1>1, <1>3, <1>4, <1>5, <2>1, <2>2 DEF JobOk, Finished
<1>7. Grows(jobs[j], r)
  BY <1>1, <1>3 DEF Grows
<1> QED
  BY <1>1, <1>2, <1>6, <1>7, OneJobMoves

\* The end of a child, pruning, the restart of the service and a cancellation
\* only move a job on.
LEMMA JobEndsMoves ==
    ASSUME JobsOk, config \in Configs, NEW j \in JobIds, JobEnds(j) \/ JobPruned(j)
    PROVE  JobsOk' /\ JobsGrow
<1>1. /\ UNCHANGED platform /\ JobOk(jobs[j])
      /\ jobs[j].st \in Finished \cup {"running"}
  BY DEF JobEnds, JobPruned, JobsOk
<1>2. PICK st, report : jobs' = [jobs EXCEPT ![j].st = st, ![j].report = report]
            /\ st \in Finished \cup {"pruned"} /\ (report # None => st = "completed")
            /\ (jobs[j].st \in Finished => st = "pruned")
  <2>1. CASE JobEnds(j)
    <3>1. PICK o \in Outcomes(config) :
                  jobs' = [jobs EXCEPT ![j].st = o.st, ![j].report = o.report]
      BY <2>1 DEF JobEnds
    <3>2. o.st \in Finished /\ (o.report # None => o.st = "completed")
      BY CommandsAssumption
    <3>3. jobs[j].st = "running"
      BY <2>1 DEF JobEnds
    <3> QED
      BY <3>1, <3>2, <3>3 DEF Finished
  <2>2. CASE JobPruned(j)
    BY <2>2 DEF JobPruned
  <2> QED
    BY <2>1, <2>2
<1> DEFINE r == [jobs[j] EXCEPT !.st = st, !.report = report]
<1>3. jobs' = [jobs EXCEPT ![j] = r]
  BY <1>2 DEF JobsOk, HasFields
<1>4. /\ HasFields(r, DOMAIN NoJob) /\ r.st = st /\ r.report = report
      /\ r.owner = jobs[j].owner /\ r.spec = jobs[j].spec /\ r.earned = jobs[j].earned
      /\ r.child = jobs[j].child /\ r.args = jobs[j].args
  BY <1>1 DEF JobOk, HasFields, NoJob
<1> HIDE DEF r
<1>5. jobs[j].st # "none" /\ st # "none"
  BY <1>1, <1>2 DEF Finished
<1>6. JobOk(r)
  BY <1>1, <1>2, <1>4, <1>5 DEF JobOk
<1>7. Grows(jobs[j], r)
  BY <1>1, <1>2, <1>4, <1>5 DEF Grows, Finished
<1> QED
  BY <1>1, <1>3, <1>6, <1>7, OneJobMoves

LEMMA CancelMoves ==
    ASSUME JobsOk, NEW c, NEW j \in JobIds, j = conn[c].req.arg, CancelJob(c)
    PROVE  JobsOk' /\ JobsGrow
<1>1. UNCHANGED platform /\ JobOk(jobs[j])
  BY DEF CancelJob, JobsOk
<1>2. CASE jobs[j].st = "queued"
  <2> DEFINE r == [jobs[j] EXCEPT !.st = "cancelled"]
  <2>1. jobs' = [jobs EXCEPT ![j] = r]
    BY <1>2, SMTT(30) DEF CancelJob, JobsOk, HasFields
  <2>2. /\ HasFields(r, DOMAIN NoJob) /\ r.st = "cancelled" /\ r.report = jobs[j].report
        /\ r.owner = jobs[j].owner /\ r.spec = jobs[j].spec /\ r.earned = jobs[j].earned
        /\ r.child = jobs[j].child /\ r.args = jobs[j].args
    BY <1>1, ZenonT(30) DEF JobOk, HasFields, NoJob
  <2> HIDE DEF r
  <2>3. JobOk(r) /\ Grows(jobs[j], r)
    BY <1>1, <1>2, <2>2 DEF JobOk, Grows, Finished
  <2> QED
    BY <1>1, <2>1, <2>3, OneJobMoves
<1>3. CASE jobs[j].st = "running"
  <2> DEFINE r == [jobs[j] EXCEPT !.flag = TRUE]
  <2>1. jobs' = [jobs EXCEPT ![j] = r]
    BY <1>3, SMTT(30) DEF CancelJob, JobsOk, HasFields
  <2>2. /\ HasFields(r, DOMAIN NoJob) /\ r.st = jobs[j].st /\ r.report = jobs[j].report
        /\ r.owner = jobs[j].owner /\ r.spec = jobs[j].spec /\ r.earned = jobs[j].earned
        /\ r.child = jobs[j].child /\ r.args = jobs[j].args
    BY <1>1, ZenonT(30) DEF JobOk, HasFields, NoJob
  <2> HIDE DEF r
  <2>3. JobOk(r) /\ Grows(jobs[j], r)
    BY <1>1, <1>3, <2>2 DEF JobOk, Grows, Finished
  <2> QED
    BY <1>1, <2>1, <2>3, OneJobMoves
<1>4. CASE jobs[j].st \notin {"queued", "running"}
  <2>1. UNCHANGED jobs
    BY <1>4 DEF CancelJob
  <2> QED
    BY <1>1, <2>1, NoJobMoves
<1> QED
  BY <1>2, <1>3, <1>4

LEMMA RestartMoves ==
    ASSUME JobsOk, Restart
    PROVE  JobsOk' /\ JobsGrow
<1>1. UNCHANGED platform /\ HasFields(jobs, JobIds)'
  BY DEF Restart, HasFields
<1>2. ASSUME NEW j \in JobIds
      PROVE  JobOk(jobs[j])' /\ Grows(jobs[j], jobs'[j])
  <2>1. JobOk(jobs[j])
    BY DEF JobsOk
  <2>2. CASE jobs[j].st \in {"queued", "running"}
    <3> DEFINE r == [jobs[j] EXCEPT !.st = "failed"]
    <3>1. jobs'[j] = r
      BY <2>2 DEF Restart
    <3>2. /\ HasFields(r, DOMAIN NoJob) /\ r.st = "failed" /\ r.report = jobs[j].report
          /\ r.owner = jobs[j].owner /\ r.spec = jobs[j].spec /\ r.earned = jobs[j].earned
          /\ r.child = jobs[j].child /\ r.args = jobs[j].args
      BY <2>1 DEF JobOk, HasFields, NoJob
    <3> HIDE DEF r
    <3>3. JobOk(r) /\ Grows(jobs[j], r)
      BY <2>1, <2>2, <3>2 DEF JobOk, Grows, Finished
    <3> QED
      BY <1>1, <3>1, <3>3 DEF JobOk
  <2>3. CASE jobs[j].st \notin {"queued", "running"}
    <3>1. jobs'[j] = jobs[j]
      BY <2>3 DEF Restart
    <3> QED
      BY <1>1, <2>1, <3>1 DEF JobOk, Grows
  <2> QED
    BY <2>2, <2>3
<1> QED
  BY <1>1, <1>2 DEF JobsOk, JobsGrow

----------------------------------------------------------------------------
(* Connections.                                                            *)

Conns == Clients \cup {Cli}
Live == {"read", "dispatch", "act", "state", "save", "reply"}

\* A connection that does nothing keeps what it has established, whatever
\* happens to the jobs meanwhile.
LEMMA ConnKept ==
    ASSUME JobsGrow, NEW r, ConnOk(r, jobs)
    PROVE  ConnOk(r, jobs')
<1>1. \A j : MaySee(r, j, jobs) => MaySee(r, j, jobs')
  BY DEF JobsGrow, Grows, MaySee
<1> QED
  BY <1>1 DEF ConnOk

LEMMA OneConnMoves ==
    ASSUME ConnsOk, JobsGrow, NEW c \in Conns, NEW r,
           conn' = [conn EXCEPT ![c] = r], ConnOk(r, jobs')
    PROVE  ConnsOk' /\ conn'[c] = r /\ \A d \in Conns \ {c} : conn'[d] = conn[d]
<1>1. \A d \in Conns : conn'[d] = IF d = c THEN r ELSE conn[d]
  BY DEF ConnsOk, HasFields, Conns
<1>2. HasFields(conn, Conns)'
  BY DEF ConnsOk, HasFields, Conns
<1>3. \A d \in Conns : ConnOk(conn'[d], jobs')
  BY <1>1, ConnKept DEF ConnsOk, Conns
<1> QED
  BY <1>1, <1>2, <1>3 DEF ConnsOk, Conns

LEMMA NoConnMoves ==
    ASSUME ConnsOk, JobsGrow, UNCHANGED conn
    PROVE  ConnsOk'
  BY ConnKept DEF ConnsOk

\* A step of the thread of connection c that leaves the thread running.
Served(c) ==
    /\ ConnsOk' /\ \A d \in Conns \ {c} : conn'[d] = conn[d]
    /\ conn[c].pc \in Live /\ conn'[c].pc \in Live

Answered(c, reply) ==
    /\ Served(c) /\ conn'[c].pc = "reply" /\ conn'[c].reply = reply
    /\ conn'[c].left = conn[c].left

LEMMA FreeOk ==
    ASSUME NEW J
    PROVE  ConnOk(Free, J) /\ Free.pc = "none"
  BY DEF ConnOk, Free, HasFields

\* A thread that answers says only what its client may know.
LEMMA AnswerServes ==
    ASSUME ConnsOk, JobsGrow, NEW c \in Conns, NEW reply, Answer(c, reply),
           conn[c].pc \in Live,
           \A j \in reply.jobs : MaySee(conn[c], j, jobs'),
           reply.private => conn[c].truth
    PROVE  Answered(c, reply)
<1> DEFINE r == [conn[c] EXCEPT !.pc = "reply", !.reply = reply]
<1>1. conn' = [conn EXCEPT ![c] = r]
  BY DEF Answer, ConnsOk, HasFields, Conns
<1>2. ConnOk(conn[c], jobs)
  BY DEF ConnsOk, Conns
<1>3. /\ HasFields(r, DOMAIN Free) /\ r.pc = "reply" /\ r.reply = reply
      /\ r.uid = conn[c].uid /\ r.admin = conn[c].admin /\ r.truth = conn[c].truth
      /\ r.left = conn[c].left
  BY <1>2 DEF ConnOk, HasFields, Free
<1> HIDE DEF r
<1>4. ConnOk(r, jobs')
  BY <1>2, <1>3 DEF ConnOk, MaySee
<1>5. ConnsOk' /\ conn'[c] = r /\ \A d \in Conns \ {c} : conn'[d] = conn[d]
  BY <1>1, <1>4, OneConnMoves
<1> QED
  BY <1>3, <1>5 DEF Served, Answered, Live

LEMMA ErrorServes ==
    ASSUME ConnsOk, JobsGrow, NEW c \in Conns, NEW code, Answer(c, Error(code)),
           conn[c].pc \in Live
    PROVE  Answered(c, Error(code)) /\ Error(code).code = code
<1>1. Error(code).jobs = {} /\ Error(code).private = FALSE /\ Error(code).code = code
  BY DEF Error, NoReply
<1> QED
  BY <1>1, AnswerServes

\* What a request that is executed has passed: policy::authorize lets only an
\* administrator ask for these.
LEMMA ExecutedIsAllowed ==
    ASSUME NEW c \in Conns, NEW op, Executes(c, op), ConnsOk
    PROVE  /\ conn[c].pc = "dispatch" /\ conn[c].pc \in Live /\ conn[c].req.op = op
           /\ conn[c].admin => conn[c].truth
           /\ op \in AdminOps => conn[c].admin
           /\ op = "scan" /\ conn[c].req.quarantine => conn[c].admin
<1>1. conn[c].pc = "dispatch" /\ conn[c].req.op = op /\ Verdict(c) = "ok"
  BY DEF Executes
<1>2. Authorize(conn[c].admin, conn[c].req) = "ok"
  BY <1>1 DEF Verdict
<1>3. conn[c].admin => conn[c].truth
  BY DEF ConnsOk, ConnOk, Conns
<1> QED
  BY <1>1, <1>2, <1>3 DEF Authorize, Live

----------------------------------------------------------------------------
(* The command line.                                                       *)

Busy == {"dispatch", "act", "state", "save"}

\* While the service works on the command line's request, it is the one the
\* command line waits for.
LEMMA CliAsked ==
    ASSUME CliOk, conn[Cli].pc \in Busy
    PROVE  /\ Asking /\ conn[Cli].left = MaxRequests
           /\ cli.pc = "ask" /\ cli.cmd.wait => conn[Cli].req.op \in Submits
           /\ cli.pc = "poll" => conn[Cli].req.op = "job" /\ conn[Cli].req.arg = cli.job
           /\ cli.pc = "report" => conn[Cli].req.op = "report" /\ conn[Cli].req.arg = cli.job
<1>1. /\ Asking /\ conn[Cli].left = MaxRequests /\ conn[Cli].req = CliRequest
      /\ IsRequest(cli.cmd.req) /\ (cli.cmd.wait => cli.cmd.req.op \in Submits)
  BY DEF CliOk, Busy
<1>2. CASE cli.pc = "ask"
  BY <1>1, <1>2 DEF CliRequest
<1>3. CASE cli.pc = "poll"
  <2>1. conn[Cli].req = [cli.cmd.req EXCEPT !.op = "job", !.arg = cli.job]
    BY <1>1, <1>3 DEF CliRequest
  <2>2. conn[Cli].req.op = "job" /\ conn[Cli].req.arg = cli.job
    BY <1>1, <2>1 DEF IsRequest, HasFields
  <2> QED
    BY <1>1, <1>3, <2>2
<1>4. CASE cli.pc = "report"
  <2>1. conn[Cli].req = [cli.cmd.req EXCEPT !.op = "report", !.arg = cli.job]
    BY <1>1, <1>4 DEF CliRequest
  <2>2. conn[Cli].req.op = "report" /\ conn[Cli].req.arg = cli.job
    BY <1>1, <2>1 DEF IsRequest, HasFields
  <2> QED
    BY <1>1, <1>4, <2>2
<1> QED
  BY <1>1, <1>2, <1>3, <1>4 DEF Asking

\* A step of others leaves the command line what it knew.
LEMMA CliKept ==
    ASSUME CliOk, JobsGrow, UNCHANGED <<cli, conn[Cli]>>
    PROVE  CliOk'
<1>1. \A j : Ended(j, jobs) => Ended(j, jobs') /\ jobs'[j].report \in {jobs[j].report, None}
  BY DEF Ended, JobsGrow, Grows
<1>2. cli.pc = "report" => Ended(cli.job, jobs)
  BY DEF CliOk
<1>3. conn[Cli].pc \in {"state", "save", "reply"} => ReplyFits(conn[Cli].reply, jobs')
  <2> HAVE conn[Cli].pc \in {"state", "save", "reply"}
  <2>1. ReplyFits(conn[Cli].reply, jobs)
    BY DEF CliOk
  <2> QED
    BY <1>1, <1>2, <2>1 DEF ReplyFits
<1>4. (conn[Cli].pc \in {"state", "save", "reply"} => ReplyFits(conn[Cli].reply, jobs))'
  BY <1>3 DEF ReplyFits
<1>5. (cli.pc = "report" => Ended(cli.job, jobs))'
  BY <1>1, <1>2
<1> QED
  BY <1>4, <1>5 DEF CliOk, Asking, CliRequest

\* An answer to the command line fits its question.
LEMMA CliAnswered ==
    ASSUME CliOk, JobsGrow, UNCHANGED cli, NEW c \in Conns, NEW reply, Answered(c, reply),
           conn[c].pc \in Busy, c = Cli => ReplyFits(reply, jobs')
    PROVE  CliOk'
<1>1. CASE c # Cli
  <2>1. UNCHANGED conn[Cli]
    BY <1>1 DEF Answered, Served, Conns
  <2> QED
    BY <2>1, CliKept
<1>2. CASE c = Cli
  <2>1. /\ conn'[Cli].pc = "reply" /\ conn'[Cli].reply = reply
        /\ conn'[Cli].left = MaxRequests /\ Asking
    BY <1>2, CliAsked DEF Answered
  <2>2. ReplyFits(conn[Cli].reply, jobs)'
    BY <1>2, <2>1 DEF ReplyFits
  <2>3. (cli.pc = "report" => Ended(cli.job, jobs))'
    BY DEF CliOk, Ended, JobsGrow, Grows
  <2> QED
    BY <2>1, <2>2, <2>3 DEF CliOk, Asking
<1> QED
  BY <1>1, <1>2

LEMMA FitsNoQuestion ==
    ASSUME CliOk, conn[Cli].pc \in Busy, NEW reply, NEW J,
           conn[Cli].req.op \notin Submits \cup {"job", "report"}
    PROVE  ReplyFits(reply, J)
  BY CliAsked DEF ReplyFits

LEMMA ErrorFits ==
    ASSUME NEW code, code # "ok", NEW J
    PROVE  ReplyFits(Error(code), J)
  BY DEF ReplyFits, Error, NoReply

----------------------------------------------------------------------------
(* The steps of a connection thread.                                       *)

Books == JobsOk /\ ConnsOk /\ CliOk
Moved(c) == JobsOk' /\ JobsGrow /\ Served(c) /\ CliOk'

LEMMA AnswerMoves ==
    ASSUME Books, JobsOk', JobsGrow, UNCHANGED cli, NEW c \in Conns, NEW reply,
           Answer(c, reply), conn[c].pc \in Busy,
           \A j \in reply.jobs : MaySee(conn[c], j, jobs'),
           reply.private => conn[c].truth,
           c = Cli => ReplyFits(reply, jobs')
    PROVE  Moved(c)
<1>1. Answered(c, reply)
  BY AnswerServes DEF Books, Busy, Live
<1>2. CliOk'
  BY <1>1, CliAnswered DEF Books
<1> QED
  BY <1>1, <1>2 DEF Moved, Answered

LEMMA ErrorMoves ==
    ASSUME Books, UNCHANGED <<jobs, platform, cli>>, NEW c \in Conns, NEW code,
           code # "ok", Answer(c, Error(code)), conn[c].pc \in Busy
    PROVE  Moved(c)
<1>1. Error(code).jobs = {} /\ Error(code).private = FALSE
  BY DEF Error, NoReply
<1>2. JobsOk' /\ JobsGrow
  BY NoJobMoves DEF Books
<1>3. ReplyFits(Error(code), jobs')
  BY ErrorFits
<1> QED
  BY <1>1, <1>2, <1>3, AnswerMoves

LEMMA RefuseMoves ==
    ASSUME Books, NEW c \in Conns, Refuse(c)
    PROVE  Moved(c)
<1>1. /\ conn[c].pc \in Busy /\ Verdict(c) # "ok" /\ Answer(c, Error(Verdict(c)))
      /\ UNCHANGED <<jobs, platform, cli>>
  BY DEF Refuse, Busy
<1> QED
  BY <1>1, ErrorMoves

\* What somebody who is no administrator can see is theirs.
LEMMA VisibleMaySee ==
    ASSUME ConnsOk, NEW c \in Conns, NEW j, Visible(c, j)
    PROVE  j \in JobIds /\ MaySee(conn[c], j, jobs)
<1>1. conn[c].admin => conn[c].truth
  BY DEF ConnsOk, ConnOk, Conns
<1> QED
  BY <1>1 DEF Visible, Known, JobsIn, CanAccessJob, MaySee

LEMMA QueryMoves ==
    ASSUME Books, NEW c \in Conns, Query(c)
    PROVE  Moved(c)
<1>1. UNCHANGED <<jobs, platform, cli>>
  BY DEF Query
<1>2. JobsOk' /\ JobsGrow
  BY <1>1, NoJobMoves DEF Books
<1>3. ConnsOk /\ CliOk
  BY DEF Books
<1>n. NoReply.jobs = {} /\ NoReply.private = FALSE
  BY DEF NoReply
<1>4. ASSUME NEW op \in {"ping", "schedules"}, Executes(c, op), Answer(c, NoReply)
      PROVE  Moved(c)
  <2>1. conn[c].pc \in Busy /\ conn[c].req.op = op
    BY <1>4 DEF Executes, Busy
  <2>2. c = Cli => ReplyFits(NoReply, jobs')
    BY <1>3, <2>1, FitsNoQuestion DEF Submits
  <2> QED
    BY <1>1, <1>2, <1>4, <1>n, <2>1, <2>2, AnswerMoves
<1>5. ASSUME Executes(c, "status"),
             Answer(c, [NoReply EXCEPT !.private = conn[c].admin /\ audit # None])
      PROVE  Moved(c)
  <2> DEFINE reply == [NoReply EXCEPT !.private = conn[c].admin /\ audit # None]
  <2>1. conn[c].pc \in Busy /\ conn[c].req.op = "status" /\ (conn[c].admin => conn[c].truth)
    BY <1>3, <1>5, ExecutedIsAllowed DEF Busy
  <2>2. reply.jobs = {} /\ (reply.private => conn[c].truth)
    BY <2>1 DEF NoReply
  <2> HIDE DEF reply
  <2>3. c = Cli => ReplyFits(reply, jobs')
    BY <1>3, <2>1, FitsNoQuestion DEF Submits
  <2>4. Answer(c, reply)
    BY <1>5 DEF reply
  <2> QED
    BY <1>1, <1>2, <2>1, <2>2, <2>3, <2>4, AnswerMoves
<1>6. ASSUME NEW S \in Listed(c), Executes(c, "jobs"), Answer(c, [NoReply EXCEPT !.jobs = S])
      PROVE  Moved(c)
  <2> DEFINE reply == [NoReply EXCEPT !.jobs = S]
  <2>1. conn[c].pc \in Busy /\ conn[c].req.op = "jobs"
    BY <1>6 DEF Executes, Busy
  <2>2. reply.jobs = S /\ reply.private = FALSE
    BY DEF NoReply
  <2>3. \A j \in S : MaySee(conn[c], j, jobs')
    <3>1. \A j \in S : Visible(c, j)
      BY DEF Listed
    <3> QED
      BY <1>1, <1>3, <3>1, VisibleMaySee
  <2> HIDE DEF reply
  <2>4. c = Cli => ReplyFits(reply, jobs')
    BY <1>3, <2>1, FitsNoQuestion DEF Submits
  <2>5. Answer(c, reply)
    BY <1>6 DEF reply
  <2> QED
    BY <1>1, <1>2, <2>1, <2>2, <2>3, <2>4, <2>5, AnswerMoves
<1>7. ASSUME NEW j, j = conn[c].req.arg, Executes(c, "job"), ~Visible(c, j),
             Answer(c, Error("not_found"))
      PROVE  Moved(c)
  <2>1. conn[c].pc \in Busy
    BY <1>7 DEF Executes, Busy
  <2> QED
    BY <1>1, <1>7, <2>1, ErrorMoves
<1>8. ASSUME NEW j, j = conn[c].req.arg, Executes(c, "job"), Visible(c, j),
             Answer(c, [NoReply EXCEPT !.jobs = {j}, !.st = jobs[j].st])
      PROVE  Moved(c)
  <2> DEFINE reply == [NoReply EXCEPT !.jobs = {j}, !.st = jobs[j].st]
  <2>1. conn[c].pc \in Busy /\ conn[c].req.op = "job"
    BY <1>8 DEF Executes, Busy
  <2>2. reply.jobs = {j} /\ reply.private = FALSE /\ reply.st = jobs[j].st
    BY DEF NoReply
  <2>3. j \in JobIds /\ MaySee(conn[c], j, jobs')
    BY <1>1, <1>3, <1>8, VisibleMaySee
  <2> HIDE DEF reply
  <2>4. c = Cli => ReplyFits(reply, jobs')
    <3> SUFFICES ASSUME c = Cli PROVE ReplyFits(reply, jobs')
      OBVIOUS
    <3>1. cli.pc # "report" /\ ~(cli.pc = "ask" /\ cli.cmd.wait)
      BY <1>3, <2>1, CliAsked DEF Submits
    <3>2. cli.pc = "poll" => cli.job = j
      BY <1>3, <1>8, <2>1, CliAsked
    <3> QED
      BY <1>1, <2>2, <2>3, <3>1, <3>2 DEF ReplyFits, Ended
  <2>5. Answer(c, reply)
    BY <1>8 DEF reply
  <2> QED
    BY <1>1, <1>2, <2>1, <2>2, <2>3, <2>4, <2>5, AnswerMoves
<1> QED
  BY <1>4, <1>5, <1>6, <1>7, <1>8 DEF Query

\* report and cancel: the job that is acted on is one the client may see.
LEMMA LookUpMoves ==
    ASSUME Books, NEW c \in Conns, LookUp(c)
    PROVE  Moved(c)
<1>1. UNCHANGED <<jobs, platform, cli>>
  BY DEF LookUp
<1>2. JobsOk' /\ JobsGrow /\ ConnsOk /\ CliOk
  BY <1>1, NoJobMoves DEF Books
<1>3. /\ conn[c].pc = "dispatch" /\ conn[c].req.op \in {"report", "cancel"}
  BY DEF LookUp, Executes
<1>4. CASE ~Visible(c, conn[c].req.arg)
  <2>1. Answer(c, Error("not_found"))
    BY <1>4 DEF LookUp
  <2> QED
    BY <1>1, <1>3, <2>1, ErrorMoves DEF Busy
<1>5. CASE Visible(c, conn[c].req.arg)
  <2> DEFINE r == [conn[c] EXCEPT !.pc = "act"]
  <2>1. conn' = [conn EXCEPT ![c] = r]
    BY <1>2, <1>5 DEF LookUp, Goto, ConnsOk, HasFields, Conns
  <2>2. ConnOk(conn[c], jobs)
    BY <1>2 DEF ConnsOk, Conns
  <2>3. /\ HasFields(r, DOMAIN Free) /\ r.pc = "act" /\ r.uid = conn[c].uid
        /\ r.admin = conn[c].admin /\ r.truth = conn[c].truth /\ r.req = conn[c].req
        /\ r.left = conn[c].left
    BY <2>2 DEF ConnOk, HasFields, Free
  <2> HIDE DEF r
  <2>4. MaySee(conn[c], conn[c].req.arg, jobs')
    BY <1>1, <1>2, <1>5, VisibleMaySee
  <2>5. ConnOk(r, jobs')
    BY <1>3, <2>2, <2>3, <2>4 DEF ConnOk, MaySee
  <2>6. ConnsOk' /\ conn'[c] = r /\ \A d \in Conns \ {c} : conn'[d] = conn[d]
    BY <1>2, <2>1, <2>5, OneConnMoves
  <2>7. Served(c)
    BY <1>3, <2>3, <2>6 DEF Served, Live
  <2>8. CliOk'
    <3>1. CASE c # Cli
      BY <1>1, <1>2, <2>6, <3>1, CliKept DEF Conns
    <3>2. CASE c = Cli
      BY <1>1, <1>2, <1>3, <2>3, <2>6, <3>2 DEF CliOk, Asking, CliRequest
    <3> QED
      BY <3>1, <3>2
  <2> QED
    BY <1>2, <2>7, <2>8 DEF Moved
<1> QED
  BY <1>4, <1>5

LEMMA ReadReportMoves ==
    ASSUME Books, NEW c \in Conns, ReadReport(c)
    PROVE  Moved(c)
<1> DEFINE j == conn[c].req.arg
           reply == [NoReply EXCEPT !.jobs = {j}, !.report = jobs[j].report]
<1>1. UNCHANGED <<jobs, platform, cli>>
  BY DEF ReadReport
<1>2. JobsOk' /\ JobsGrow /\ ConnsOk /\ CliOk
  BY <1>1, NoJobMoves DEF Books
<1>3. conn[c].pc = "act" /\ conn[c].req.op = "report" /\ conn[c].pc \in Busy
  BY DEF ReadReport, Busy
<1>4. MaySee(conn[c], j, jobs')
  BY <1>1, <1>2, <1>3 DEF ConnsOk, ConnOk, Conns
<1>5. CASE Answer(c, Error("internal")) \/ Answer(c, Error("not_found"))
  BY <1>1, <1>3, <1>5, ErrorMoves
<1>6. CASE Answer(c, reply)
  <2>1. reply.jobs = {j} /\ reply.private = FALSE /\ reply.report = jobs[j].report
    BY DEF NoReply
  <2>2. c = Cli => ReplyFits(reply, jobs')
    <3> SUFFICES ASSUME c = Cli PROVE ReplyFits(reply, jobs')
      OBVIOUS
    <3>1. cli.pc # "poll" /\ ~(cli.pc = "ask" /\ cli.cmd.wait)
      BY <1>2, <1>3, CliAsked DEF Submits
    <3>2. cli.pc = "report" => cli.job = j
      BY <1>2, <1>3, CliAsked
    <3> QED
      BY <1>1, <2>1, <3>1, <3>2 DEF ReplyFits
  <2> HIDE DEF reply, j
  <2> QED
    BY <1>1, <1>2, <1>3, <1>4, <1>6, <2>1, <2>2, AnswerMoves
<1> QED
  BY <1>5, <1>6 DEF ReadReport

LEMMA CancelJobMoves ==
    ASSUME Books, NEW c \in Conns, CancelJob(c)
    PROVE  Moved(c)
<1> DEFINE j == conn[c].req.arg
<1>1. conn[c].pc \in Busy /\ conn[c].req.op = "cancel" /\ UNCHANGED <<platform, cli>>
  BY DEF CancelJob, Busy
<1>2. ConnsOk /\ CliOk /\ JobsOk
  BY DEF Books
<1>3. j \in JobIds
  BY <1>2 DEF CancelJob, ConnsOk, ConnOk, Conns, MaySee
<1>4. JobsOk' /\ JobsGrow
  BY <1>2, <1>3, CancelMoves
<1>5. c = Cli => \A reply : ReplyFits(reply, jobs')
  BY <1>1, <1>2, FitsNoQuestion DEF Submits
<1>6. CASE Answer(c, NoReply)
  <2>1. NoReply.jobs = {} /\ NoReply.private = FALSE
    BY DEF NoReply
  <2> QED
    BY <1>1, <1>4, <1>5, <1>6, <2>1, AnswerMoves
<1>7. CASE Answer(c, Error("not_found")) /\ UNCHANGED jobs
  BY <1>1, <1>7, ErrorMoves
<1> QED
  BY <1>6, <1>7 DEF CancelJob

\* A request to submit a job: the job is its caller's, and without an entitled
\* caller it is a scan that runs as them.
LEMMA SubmitForMoves ==
    ASSUME Books, UNCHANGED <<platform, cli>>, NEW c \in Conns, NEW spec,
           conn[c].pc \in Busy, conn[c].req.op \in Submits,
           SubmitFor(c, conn[c].uid, spec),
           ~conn[c].truth => /\ platform = "unix" /\ spec.kind = "scan" /\ ~spec.quarantine
                             /\ spec.run_as = RunAsCaller(conn[c].uid)
    PROVE  Moved(c)
<1>1. CASE \E code \in {"busy", "internal"} : Answer(c, Error(code)) /\ UNCHANGED jobs
  BY <1>1, ErrorMoves
<1>2. CASE \E j \in JobIds :
             /\ NewJob(j)
             /\ jobs' = Submitted(j, conn[c].uid, None, spec, conn[c].truth)
             /\ Answer(c, [NoReply EXCEPT !.jobs = {j}])
  <2>1. PICK j \in JobIds :
             /\ NewJob(j)
             /\ jobs' = Submitted(j, conn[c].uid, None, spec, conn[c].truth)
             /\ Answer(c, [NoReply EXCEPT !.jobs = {j}])
    BY <1>2
  <2>2. /\ JobsOk' /\ JobsGrow
        /\ jobs'[j].st = "queued" /\ jobs'[j].owner = conn[c].uid
    BY <2>1, SubmitMoves DEF Books
  <2> DEFINE reply == [NoReply EXCEPT !.jobs = {j}]
  <2>3. reply.jobs = {j} /\ reply.private = FALSE
    BY DEF NoReply
  <2>4. MaySee(conn[c], j, jobs')
    BY <2>2 DEF MaySee
  <2>5. c = Cli => ReplyFits(reply, jobs')
    <3> SUFFICES ASSUME c = Cli PROVE ReplyFits(reply, jobs')
      OBVIOUS
    <3>1. cli.pc \notin {"poll", "report"}
      BY CliAsked DEF Submits, Books
    <3> QED
      BY <2>3, <3>1 DEF ReplyFits
  <2> HIDE DEF reply
  <2>6. Answer(c, reply)
    BY <2>1 DEF reply
  <2> QED
    BY <2>2, <2>3, <2>4, <2>5, <2>6, AnswerMoves
<1> QED
  BY <1>1, <1>2 DEF SubmitFor

LEMMA ScanMoves ==
    ASSUME Books, NEW c \in Conns, Scan(c)
    PROVE  Moved(c)
<1> DEFINE as == ScanIdentity(platform, conn[c].uid, conn[c].admin)
           spec == [kind |-> "scan", quarantine |-> conn[c].req.quarantine, run_as |-> as,
                    paths |-> conn[c].req.paths]
<1>1. Executes(c, "scan") /\ UNCHANGED <<platform, cli>>
  BY DEF Scan
<1>2. /\ conn[c].pc \in Busy /\ conn[c].req.op \in Submits
      /\ conn[c].admin => conn[c].truth
      /\ conn[c].req.quarantine => conn[c].admin
  BY <1>1, ExecutedIsAllowed DEF Books, Busy, Submits
<1>3. CASE as = None
  <2>1. Answer(c, Error("unsupported")) /\ UNCHANGED jobs
    BY <1>3 DEF Scan
  <2> QED
    BY <1>1, <1>2, <2>1, ErrorMoves
<1>4. CASE as # None
  <2>1. SubmitFor(c, conn[c].uid, spec)
    BY <1>4 DEF Scan
  <2>2. ~conn[c].truth => /\ platform = "unix" /\ spec.kind = "scan" /\ ~spec.quarantine
                          /\ spec.run_as = RunAsCaller(conn[c].uid)
    BY <1>2, <1>4 DEF ScanIdentity, ScanAsCaller
  <2> HIDE DEF spec
  <2> QED
    BY <1>1, <1>2, <2>1, <2>2, SubmitForMoves
<1> QED
  BY <1>3, <1>4

LEMMA SystemCheckMoves ==
    ASSUME Books, NEW c \in Conns, SystemCheck(c)
    PROVE  Moved(c)
<1> DEFINE spec == [kind |-> "system_check", quarantine |-> FALSE,
                    run_as |-> RunAsService, paths |-> <<>>]
<1>1. Executes(c, "system_check") /\ UNCHANGED <<platform, cli>>
      /\ SubmitFor(c, conn[c].uid, spec)
  BY DEF SystemCheck
<1> HIDE DEF spec
<1>2. conn[c].pc \in Busy /\ conn[c].req.op \in Submits /\ conn[c].truth
  BY <1>1, ExecutedIsAllowed DEF Books, Busy, Submits, AdminOps
<1> QED
  BY <1>1, <1>2, SubmitForMoves

\* run_schedule: only an administrator gets to its three steps.
LEMMA RunScheduleMoves ==
    ASSUME Books, NEW c \in Conns, RunSchedule(c)
    PROVE  Moved(c)
<1>1. Executes(c, "run_schedule") /\ UNCHANGED <<platform, cli>>
  BY DEF RunSchedule
<1>2. /\ conn[c].pc = "dispatch" /\ conn[c].pc \in Busy /\ conn[c].truth
      /\ conn[c].req.op = "run_schedule"
  BY <1>1, ExecutedIsAllowed DEF Books, Busy, AdminOps
<1>3. CASE \E code \in {"not_found", "busy", "internal"} :
             Answer(c, Error(code)) /\ UNCHANGED jobs
  BY <1>1, <1>2, <1>3, ErrorMoves
<1>4. CASE \E j \in JobIds :
             /\ NewJob(j)
             /\ jobs' = Submitted(j, Self, conn[c].req.arg,
                                  SpecOf(Schedule(conn[c].req.arg)), conn[c].truth)
             /\ conn' = [conn EXCEPT ![c].pc = "state",
                                     ![c].reply = [NoReply EXCEPT !.jobs = {j}]]
  <2>1. PICK j \in JobIds :
             /\ NewJob(j)
             /\ jobs' = Submitted(j, Self, conn[c].req.arg,
                                  SpecOf(Schedule(conn[c].req.arg)), conn[c].truth)
             /\ conn' = [conn EXCEPT ![c].pc = "state",
                                     ![c].reply = [NoReply EXCEPT !.jobs = {j}]]
    BY <1>4
  <2>2. JobsOk' /\ JobsGrow /\ jobs'[j].st = "queued"
    BY <1>1, <1>2, <2>1, SubmitMoves DEF Books
  <2> DEFINE reply == [NoReply EXCEPT !.jobs = {j}]
             r == [conn[c] EXCEPT !.pc = "state", !.reply = reply]
  <2>3. reply.jobs = {j} /\ reply.private = FALSE
    BY DEF NoReply
  <2> HIDE DEF reply
  <2>4. ConnsOk /\ ConnOk(conn[c], jobs) /\ CliOk
    BY DEF Books, ConnsOk, Conns
  <2>5. conn' = [conn EXCEPT ![c] = r]
    BY <2>1, <2>4 DEF ConnsOk, HasFields, Conns, reply
  <2>6. /\ HasFields(r, DOMAIN Free) /\ r.pc = "state" /\ r.uid = conn[c].uid
        /\ r.admin = conn[c].admin /\ r.truth = conn[c].truth /\ r.req = conn[c].req
        /\ r.left = conn[c].left /\ r.reply = reply
    BY <2>4 DEF ConnOk, HasFields, Free
  <2> HIDE DEF r
  <2>7. MaySee(r, j, jobs')
    BY <1>2, <2>2, <2>6 DEF MaySee
  <2>8. ConnOk(r, jobs')
    BY <1>2, <2>3, <2>4, <2>6, <2>7 DEF ConnOk
  <2>9. ConnsOk' /\ conn'[c] = r /\ \A d \in Conns \ {c} : conn'[d] = conn[d]
    BY <2>2, <2>4, <2>5, <2>8, OneConnMoves
  <2>10. Served(c)
    BY <1>2, <2>6, <2>9 DEF Served, Live
  <2>11. CliOk'
    <3>1. CASE c # Cli
      BY <1>1, <2>2, <2>4, <2>9, <3>1, CliKept DEF Conns
    <3>2. CASE c = Cli
      <4>1. cli.pc = "ask" /\ Asking
        BY <1>2, <2>4, <3>2, CliAsked DEF Asking
      <4>2. ReplyFits(conn[Cli].reply, jobs)'
        BY <1>1, <2>3, <2>6, <2>9, <3>2, <4>1 DEF ReplyFits
      <4> QED
        BY <1>1, <1>2, <2>4, <2>6, <2>9, <3>2, <4>1, <4>2 DEF CliOk, Asking, CliRequest
    <3> QED
      BY <3>1, <3>2
  <2> QED
    BY <2>2, <2>10, <2>11 DEF Moved
<1> QED
  BY <1>3, <1>4 DEF RunSchedule

LEMMA RunScheduleTableMoves ==
    ASSUME Books, RunTimes(last), NEW c \in Conns, RunScheduleRead(c) \/ RunScheduleSave(c)
    PROVE  Moved(c)
<1>1. UNCHANGED <<jobs, platform, cli>>
  BY DEF RunScheduleRead, RunScheduleSave
<1>2. JobsOk' /\ JobsGrow /\ ConnsOk /\ CliOk /\ ConnOk(conn[c], jobs)
  BY <1>1, NoJobMoves DEF Books, ConnsOk, Conns
<1>3. PICK pc \in {"save", "reply"}, seen \in {last, None} :
           /\ conn' = [conn EXCEPT ![c].pc = pc, ![c].seen = seen]
           /\ pc = "save" => RunTimes(seen)
  <2>1. CASE RunScheduleRead(c)
    BY <2>1 DEF RunScheduleRead
  <2>2. CASE RunScheduleSave(c)
    BY <2>2 DEF RunScheduleSave
  <2> QED
    BY <2>1, <2>2
<1>4. conn[c].pc \in {"state", "save"}
  BY DEF RunScheduleRead, RunScheduleSave
<1> DEFINE r == [conn[c] EXCEPT !.pc = pc, !.seen = seen]
<1>5. conn' = [conn EXCEPT ![c] = r]
  BY <1>2, <1>3 DEF ConnsOk, HasFields, Conns
<1>6. /\ HasFields(r, DOMAIN Free) /\ r.pc = pc /\ r.uid = conn[c].uid
      /\ r.admin = conn[c].admin /\ r.truth = conn[c].truth /\ r.req = conn[c].req
      /\ r.left = conn[c].left /\ r.reply = conn[c].reply /\ r.seen = seen
  BY <1>2 DEF ConnOk, HasFields, Free
<1> HIDE DEF r
<1>7. ConnOk(r, jobs')
  <2>1. \A j \in conn[c].reply.jobs : MaySee(conn[c], j, jobs')
    BY <1>1, <1>2, <1>4 DEF ConnOk
  <2>2. \A j \in r.reply.jobs : MaySee(r, j, jobs')
    BY <1>6, <2>1 DEF MaySee
  <2> QED
    BY <1>2, <1>3, <1>4, <1>6, <2>2 DEF ConnOk
<1>8. ConnsOk' /\ conn'[c] = r /\ \A d \in Conns \ {c} : conn'[d] = conn[d]
  BY <1>2, <1>5, <1>7, OneConnMoves
<1>9. Served(c)
  BY <1>3, <1>4, <1>6, <1>8 DEF Served, Live
<1>10. CliOk'
  <2>1. CASE c # Cli
    BY <1>1, <1>2, <1>8, <2>1, CliKept DEF Conns
  <2>2. CASE c = Cli
    <3>1. Asking /\ conn[Cli].left = MaxRequests /\ conn[Cli].req = CliRequest
          /\ ReplyFits(conn[Cli].reply, jobs)
      BY <1>2, <1>4, <2>2 DEF CliOk
    <3>2. ReplyFits(conn[Cli].reply, jobs)'
      BY <1>1, <1>6, <1>8, <2>2, <3>1 DEF ReplyFits, Ended
    <3> QED
      BY <1>1, <1>2, <1>3, <1>6, <1>8, <2>2, <3>1, <3>2 DEF CliOk, Asking, CliRequest
  <2> QED
    BY <2>1, <2>2
<1> QED
  BY <1>2, <1>9, <1>10 DEF Moved

\* The quarantine and the audit log: only an administrator gets there.
LEMMA StoreMoves ==
    ASSUME Books, NEW c \in Conns, QuarantineOp(c) \/ VerifyAudit(c)
    PROVE  Moved(c) /\ conn[c].truth
<1>1. UNCHANGED <<jobs, platform, cli>>
  BY DEF QuarantineOp, VerifyAudit
<1>2. JobsOk' /\ JobsGrow /\ ConnsOk /\ CliOk
  BY <1>1, NoJobMoves DEF Books
<1>3. PICK op \in {"quarantine_list", "quarantine_restore", "quarantine_delete",
                   "verify_audit"} : Executes(c, op)
  BY DEF QuarantineOp, VerifyAudit
<1>4. conn[c].pc \in Busy /\ conn[c].req.op = op /\ conn[c].truth
  BY <1>2, <1>3, ExecutedIsAllowed DEF Busy, AdminOps
<1>5. c = Cli => \A reply : ReplyFits(reply, jobs')
  BY <1>2, <1>3, <1>4, FitsNoQuestion DEF Submits
<1>6. ASSUME NEW reply, reply.jobs = {}, Answer(c, reply)
      PROVE  Moved(c)
  BY <1>1, <1>2, <1>4, <1>5, <1>6, AnswerMoves
<1>7. CASE Answer(c, Error("internal"))
  BY <1>1, <1>4, <1>7, ErrorMoves
<1>8. /\ NoReply.jobs = {} /\ [NoReply EXCEPT !.private = TRUE].jobs = {}
      /\ [NoReply EXCEPT !.audit = audit', !.private = TRUE].jobs = {}
  BY DEF NoReply
<1>9. \/ Answer(c, Error("internal")) \/ Answer(c, NoReply)
      \/ Answer(c, [NoReply EXCEPT !.private = TRUE])
      \/ Answer(c, [NoReply EXCEPT !.audit = audit', !.private = TRUE])
  BY DEF QuarantineOp, VerifyAudit
<1> QED
  BY <1>4, <1>6, <1>7, <1>8, <1>9

----------------------------------------------------------------------------
(* What becomes of the command line.                                       *)

\* The connection of the command line is closed, or about to be.
Closing == conn'[Cli].pc = "none" \/ (conn'[Cli].pc = "read" /\ conn'[Cli].left = MaxRequests - 1)

\* A command that ends, with a status that says nothing of a job or with one
\* that its job bears out.
LEMMA CliQuits ==
    ASSUME CliOk, Closing, NEW code, cli' = [cli EXCEPT !.pc = "done", !.exit = code],
           code \in {0, 1} /\ cli.cmd.wait =>
              /\ Ended(cli.job, jobs')
              /\ jobs'[cli.job].report # None =>
                    code = (IF jobs'[cli.job].report = "findings" THEN 1 ELSE 0)
    PROVE  CliOk' /\ WaitVerdictIsReal'
<1>1. /\ HasFields(cli', DOMAIN NoCommand) /\ cli'.pc = "done" /\ cli'.exit = code
      /\ cli'.cmd = cli.cmd /\ cli'.job = cli.job
  BY DEF CliOk, HasFields, NoCommand
<1>2. CliOk'
  BY <1>1 DEF CliOk, Asking, Closing
<1>3. WaitVerdictIsReal'
  BY <1>1, SizesAssumption DEF WaitVerdictIsReal, Ended
<1> QED
  BY <1>2, <1>3

\* run_inner, wait_and_print: where a reply leads.
LEMMA CliReads ==
    ASSUME CliOk, conn[Cli].pc = "reply", Closing, UNCHANGED jobs,
           cli' = CliAfter(conn[Cli].reply)
    PROVE  CliOk' /\ WaitVerdictIsReal'
<1> DEFINE reply == conn[Cli].reply
<1>1. Asking /\ ReplyFits(reply, jobs) /\ HasFields(cli, DOMAIN NoCommand)
  BY DEF CliOk
<1>2. CASE reply.code # "ok"
  <2>1. cli' = [cli EXCEPT !.pc = "done", !.exit = 2]
    BY <1>2 DEF CliAfter
  <2>2. 2 \notin {0, 1}
    OBVIOUS
  <2> QED
    BY <2>1, <2>2, CliQuits
<1>3. CASE reply.code = "ok" /\ cli.pc = "ask" /\ cli.cmd.wait
  <2>1. PICK j \in JobIds : reply.jobs = {j}
    BY <1>1, <1>3 DEF ReplyFits
  <2>2. (CHOOSE k \in reply.jobs : TRUE) = j
    BY <2>1
  <2>3. cli' = [cli EXCEPT !.pc = "poll", !.job = j]
    BY <1>3, <2>2 DEF CliAfter
  <2>4. /\ HasFields(cli', DOMAIN NoCommand) /\ cli'.pc = "poll" /\ cli'.job = j
        /\ cli'.cmd = cli.cmd
    BY <1>1, <2>3 DEF HasFields, NoCommand
  <2>5. CliOk'
    BY <1>1, <2>4, SizesAssumption DEF CliOk, Asking, Closing
  <2> QED
    BY <2>4, <2>5 DEF WaitVerdictIsReal
<1>4. CASE reply.code = "ok" /\ cli.pc = "ask" /\ ~cli.cmd.wait
  <2>1. cli' = [cli EXCEPT !.pc = "done", !.exit = IF reply.audit = FALSE THEN 1 ELSE 0]
    BY <1>4 DEF CliAfter
  <2> QED
    BY <1>4, <2>1, CliQuits
<1>5. CASE reply.code = "ok" /\ cli.pc = "poll" /\ reply.st \notin Finished
  <2>1. cli' = cli
    BY <1>5 DEF CliAfter, Finished
  <2> QED
    BY <1>1, <1>5, <2>1 DEF CliOk, Asking, Closing, WaitVerdictIsReal
<1>6. CASE reply.code = "ok" /\ cli.pc = "poll" /\ reply.st = "completed"
  <2>1. cli' = [cli EXCEPT !.pc = "report"]
    BY <1>6 DEF CliAfter, Finished
  <2>2. /\ HasFields(cli', DOMAIN NoCommand) /\ cli'.pc = "report" /\ cli'.job = cli.job
        /\ cli'.cmd = cli.cmd
    BY <1>1, <2>1 DEF HasFields, NoCommand
  <2>3. Ended(cli.job, jobs)
    BY <1>1, <1>6 DEF ReplyFits
  <2>4. (cli.pc = "report" => Ended(cli.job, jobs))'
    BY <2>2, <2>3
  <2>5. CliOk'
    BY <1>1, <2>2, <2>4 DEF CliOk, Asking, Closing
  <2> QED
    BY <2>2, <2>5 DEF WaitVerdictIsReal
<1>7. CASE reply.code = "ok" /\ cli.pc = "poll" /\ reply.st \in Finished \ {"completed"}
  <2>1. cli' = [cli EXCEPT !.pc = "done", !.exit = UnfinishedExit(reply.st)]
    BY <1>7 DEF CliAfter
  <2>2. UnfinishedExit(reply.st) \notin {0, 1}
    BY DEF UnfinishedExit
  <2> QED
    BY <2>1, <2>2, CliQuits
<1>8. CASE reply.code = "ok" /\ cli.pc = "report"
  <2>1. cli' = [cli EXCEPT !.pc = "done", !.exit = ReportExit(reply.report)]
    BY <1>8 DEF CliAfter
  <2>2. Ended(cli.job, jobs')
    BY <1>8 DEF CliOk
  <2>3. jobs'[cli.job].report # None =>
           ReportExit(reply.report) = (IF jobs'[cli.job].report = "findings" THEN 1 ELSE 0)
    BY <1>1, <1>8 DEF ReplyFits, ReportExit
  <2> QED
    BY <2>1, <2>2, <2>3, CliQuits
<1> QED
  BY <1>1, <1>2, <1>3, <1>4, <1>5, <1>6, <1>7, <1>8 DEF Asking

\* Other steps leave a verdict true: a job that completed stays completed
\* until it is pruned.
LEMMA VerdictKept ==
    ASSUME CliOk, WaitVerdictIsReal, JobsGrow, UNCHANGED cli
    PROVE  WaitVerdictIsReal'
<1> SUFFICES ASSUME cli.pc = "done", cli.exit \in {0, 1}, cli.cmd.wait
             PROVE  /\ cli.job # None
                    /\ jobs'[cli.job].st \in {"completed", "pruned"}
                    /\ jobs'[cli.job].report # None =>
                          cli.exit = (IF jobs'[cli.job].report = "findings" THEN 1 ELSE 0)
  BY DEF WaitVerdictIsReal
<1>1. /\ cli.job \in JobIds /\ cli.job # None
      /\ jobs[cli.job].st \in {"completed", "pruned"}
      /\ jobs[cli.job].report # None =>
            cli.exit = (IF jobs[cli.job].report = "findings" THEN 1 ELSE 0)
  BY DEF CliOk, WaitVerdictIsReal
<1>2. /\ jobs'[cli.job].st \in {"completed", "pruned"}
      /\ jobs'[cli.job].report \in {jobs[cli.job].report, None}
  BY <1>1 DEF JobsGrow, Grows
<1> QED
  BY <1>1, <1>2

LEMMA ReplyMoves ==
    ASSUME Books, WaitVerdictIsReal, NEW c \in Conns, Reply(c)
    PROVE  Moved(c) /\ WaitVerdictIsReal'
<1>1. UNCHANGED <<jobs, platform>> /\ conn[c].pc = "reply"
  BY DEF Reply
<1>2. JobsOk' /\ JobsGrow /\ ConnsOk /\ CliOk /\ ConnOk(conn[c], jobs)
  BY <1>1, NoJobMoves DEF Books, ConnsOk, Conns
<1> DEFINE r == [conn[c] EXCEPT !.pc = "read", !.left = @ - 1, !.req = None, !.reply = NoReply]
<1>3. conn' = [conn EXCEPT ![c] = r]
  BY <1>2 DEF Reply, ConnsOk, HasFields, Conns
<1>4. /\ HasFields(r, DOMAIN Free) /\ r.pc = "read" /\ r.uid = conn[c].uid
      /\ r.admin = conn[c].admin /\ r.truth = conn[c].truth /\ r.left = conn[c].left - 1
  BY <1>2 DEF ConnOk, HasFields, Free
<1> HIDE DEF r
<1>5. ConnOk(r, jobs')
  BY <1>2, <1>4 DEF ConnOk
<1>6. ConnsOk' /\ conn'[c] = r /\ \A d \in Conns \ {c} : conn'[d] = conn[d]
  BY <1>2, <1>3, <1>5, OneConnMoves
<1>7. Served(c)
  BY <1>1, <1>4, <1>6 DEF Served, Live
<1>8. CASE c # Cli
  <2>1. UNCHANGED <<cli, conn[Cli]>>
    BY <1>6, <1>8 DEF Reply, Conns
  <2> QED
    BY <1>2, <1>7, <2>1, CliKept, VerdictKept DEF Moved
<1>9. CASE c = Cli
  <2>1. Closing
    BY <1>1, <1>2, <1>4, <1>6, <1>9 DEF Closing, CliOk
  <2>2. cli' = CliAfter(conn[Cli].reply)
    BY <1>9 DEF Reply
  <2>3. CliOk' /\ WaitVerdictIsReal'
    BY <1>1, <1>2, <1>9, <2>1, <2>2, CliReads
  <2> QED
    BY <1>2, <1>7, <2>3 DEF Moved
<1> QED
  BY <1>8, <1>9

\* converse reads a request, the command line's own on its connection.
LEMMA ReadMoves ==
    ASSUME Books, NEW c \in Conns, Read(c)
    PROVE  Moved(c)
<1>1. UNCHANGED <<jobs, platform, cli>> /\ conn[c].pc = "read"
  BY DEF Read
<1>2. JobsOk' /\ JobsGrow /\ ConnsOk /\ CliOk /\ ConnOk(conn[c], jobs)
  BY <1>1, NoJobMoves DEF Books, ConnsOk, Conns
<1>3. CASE \E req : /\ conn' = [conn EXCEPT ![c].pc = "dispatch", ![c].req = req]
                    /\ c = Cli => req = CliRequest
  <2>1. PICK req : /\ conn' = [conn EXCEPT ![c].pc = "dispatch", ![c].req = req]
                   /\ c = Cli => req = CliRequest
    BY <1>3
  <2> DEFINE r == [conn[c] EXCEPT !.pc = "dispatch", !.req = req]
  <2>2. conn' = [conn EXCEPT ![c] = r]
    BY <1>2, <2>1 DEF ConnsOk, HasFields, Conns
  <2>3. /\ HasFields(r, DOMAIN Free) /\ r.pc = "dispatch" /\ r.uid = conn[c].uid
        /\ r.admin = conn[c].admin /\ r.truth = conn[c].truth /\ r.left = conn[c].left
        /\ r.req = req
    BY <1>2 DEF ConnOk, HasFields, Free
  <2> HIDE DEF r
  <2>4. ConnOk(r, jobs')
    BY <1>2, <2>3 DEF ConnOk
  <2>5. ConnsOk' /\ conn'[c] = r /\ \A d \in Conns \ {c} : conn'[d] = conn[d]
    BY <1>2, <2>2, <2>4, OneConnMoves
  <2>6. Served(c)
    BY <1>1, <2>3, <2>5 DEF Served, Live
  <2>7. CliOk'
    <3>1. CASE c # Cli
      BY <1>1, <1>2, <2>5, <3>1, CliKept DEF Conns
    <3>2. CASE c = Cli
      <4>1. conn[Cli].left = MaxRequests /\ Asking
        BY <1>1, <1>2, <3>2, SizesAssumption DEF Read, CliOk
      <4> QED
        BY <1>1, <1>2, <2>1, <2>3, <2>5, <3>2, <4>1 DEF CliOk, Asking, CliRequest
    <3> QED
      BY <3>1, <3>2
  <2> QED
    BY <1>2, <2>6, <2>7 DEF Moved
<1>4. CASE /\ c \in Clients
           /\ conn' = [conn EXCEPT ![c].pc = "reply", ![c].left = 1,
                                   ![c].reply = Error("bad_request")]
  <2> DEFINE r == [conn[c] EXCEPT !.pc = "reply", !.left = 1, !.reply = Error("bad_request")]
  <2>1. Error("bad_request").jobs = {} /\ Error("bad_request").private = FALSE
    BY DEF Error, NoReply
  <2>2. conn' = [conn EXCEPT ![c] = r]
    BY <1>2, <1>4 DEF ConnsOk, HasFields, Conns
  <2>3. /\ HasFields(r, DOMAIN Free) /\ r.pc = "reply" /\ r.uid = conn[c].uid
        /\ r.admin = conn[c].admin /\ r.truth = conn[c].truth
        /\ r.reply = Error("bad_request")
    BY <1>2 DEF ConnOk, HasFields, Free
  <2> HIDE DEF r
  <2>4. ConnOk(r, jobs')
    BY <1>2, <2>1, <2>3 DEF ConnOk
  <2>5. ConnsOk' /\ conn'[c] = r /\ \A d \in Conns \ {c} : conn'[d] = conn[d]
    BY <1>2, <2>2, <2>4, OneConnMoves
  <2>6. Served(c)
    BY <1>1, <2>3, <2>5 DEF Served, Live
  <2>7. UNCHANGED <<cli, conn[Cli]>>
    BY <1>1, <1>4, <2>5, SizesAssumption DEF Conns
  <2> QED
    BY <1>2, <2>6, <2>7, CliKept DEF Moved
<1> QED
  BY <1>3, <1>4 DEF Read

----------------------------------------------------------------------------
(* The count of connections.                                               *)

Counted == active \in Nat /\ Cardinality(Threads) <= active /\ active <= MaxConnections

LEMMA ThreadsFinite ==
    ASSUME ConnsOk
    PROVE  /\ Threads = {c \in Conns : conn[c].pc \in Live}
           /\ IsFiniteSet(Threads) /\ Cardinality(Threads) \in Nat
<1>1. DOMAIN conn = Conns
  BY DEF ConnsOk, HasFields, Conns
<1>2. \A c \in Conns : conn[c].pc \notin {"none", "backlog"} <=> conn[c].pc \in Live
  BY DEF ConnsOk, ConnOk, Conns, Live
<1>3. Threads = {c \in Conns : conn[c].pc \in Live}
  BY <1>1, <1>2 DEF Threads
<1>4. IsFiniteSet(Conns)
  BY SizesAssumption, FS_AddElement DEF Conns
<1>5. IsFiniteSet(Threads)
  BY <1>3, <1>4, FS_Subset
<1> QED
  BY <1>3, <1>5, FS_CardinalityType

LEMMA ThreadsNext ==
    ASSUME ConnsOk'
    PROVE  Threads' = {c \in Conns : conn'[c].pc \in Live}
<1>1. (Threads = {c \in Conns : conn[c].pc \in Live})'
  BY ThreadsFinite, PTL
<1> QED
  BY <1>1 DEF Conns, Live

LEMMA SameThreads ==
    ASSUME ConnsOk, ConnsOk', Counted, UNCHANGED active,
           \A c \in Conns : conn'[c].pc \in Live <=> conn[c].pc \in Live
    PROVE  Counted'
<1>1. Threads' = {c \in Conns : conn'[c].pc \in Live}
  BY ThreadsNext
<1> QED
  BY <1>1, ThreadsFinite DEF Counted

LEMMA ServedCounted ==
    ASSUME ConnsOk, Counted, UNCHANGED active, NEW c \in Conns, Served(c)
    PROVE  Counted'
<1>1. \A d \in Conns : conn'[d].pc \in Live <=> conn[d].pc \in Live
  BY DEF Served
<1> QED
  BY <1>1, SameThreads DEF Served

\* A connection is closed: its thread, if it has one, is gone.
LEMMA ClosedThreads ==
    ASSUME ConnsOk, JobsGrow, NEW c \in Conns, conn' = [conn EXCEPT ![c] = Free]
    PROVE  /\ ConnsOk' /\ conn'[c] = Free /\ conn'[c].pc = "none"
           /\ \A d \in Conns \ {c} : conn'[d] = conn[d]
           /\ Threads' = Threads \ {c}
<1>1. ConnOk(Free, jobs') /\ Free.pc = "none"
  BY FreeOk
<1>2. ConnsOk' /\ conn'[c] = Free /\ \A d \in Conns \ {c} : conn'[d] = conn[d]
  BY <1>1, OneConnMoves
<1>4. Threads' = {d \in Conns : conn'[d].pc \in Live}
  BY <1>2, ThreadsNext
<1>5. Threads = {d \in Conns : conn[d].pc \in Live}
  BY ThreadsFinite
<1>6. Threads' = Threads \ {c}
  BY <1>1, <1>2, <1>4, <1>5 DEF Live
<1> QED
  BY <1>1, <1>2, <1>6

\* Whoever closes a connection takes its thread, if any, off the count.
LEMMA ClosedCounted ==
    ASSUME ConnsOk, JobsGrow, Counted, NEW c \in Conns, conn' = [conn EXCEPT ![c] = Free],
           active' = active - Cardinality({c} \cap Threads)
    PROVE  Counted'
<1>1. Threads' = Threads \ {c}
  BY ClosedThreads
<1>2. IsFiniteSet(Threads) /\ Cardinality(Threads) \in Nat
  BY ThreadsFinite
<1>3. CASE c \in Threads
  <2>1. {c} \cap Threads = {c}
    BY <1>3
  <2>2. Cardinality({c} \cap Threads) = 1
    BY <2>1, FS_Singleton
  <2>3. Cardinality(Threads \ {c}) = Cardinality(Threads) - 1
    BY <1>2, <1>3, FS_RemoveElement
  <2>4. Cardinality(Threads \ {c}) \in Nat
    BY <1>2, FS_RemoveElement, FS_CardinalityType
  <2> QED
    BY <1>1, <1>2, <2>2, <2>3, <2>4, SizesAssumption DEF Counted
<1>4. CASE c \notin Threads
  <2>1. {c} \cap Threads = {} /\ Threads \ {c} = Threads
    BY <1>4
  <2>2. Cardinality({c} \cap Threads) = 0
    BY <2>1, FS_EmptySet
  <2> QED
    BY <1>1, <1>2, <2>1, <2>2 DEF Counted
<1> QED
  BY <1>3, <1>4

----------------------------------------------------------------------------
(* Connections come and go.                                                *)

Settled == JobsOk' /\ JobsGrow /\ ConnsOk' /\ CliOk' /\ WaitVerdictIsReal' /\ Counted'

LEMMA MovedSettles ==
    ASSUME Books, WaitVerdictIsReal, Counted, UNCHANGED <<active, cli>>,
           NEW c \in Conns, Moved(c)
    PROVE  Settled
<1>1. Counted'
  BY ServedCounted DEF Books, Moved
<1>2. WaitVerdictIsReal'
  BY VerdictKept DEF Books, Moved
<1> QED
  BY <1>1, <1>2 DEF Settled, Moved, Served

\* A connection that is dropped is an error to the command line.
LEMMA DroppedSettles ==
    ASSUME Books, WaitVerdictIsReal, UNCHANGED <<jobs, platform>>, NEW c \in Conns,
           Dropped(c), Counted'
    PROVE  Settled
<1>1. JobsOk' /\ JobsGrow /\ ConnsOk /\ CliOk
  BY NoJobMoves DEF Books
<1>2. conn' = [conn EXCEPT ![c] = Free]
  BY DEF Dropped
<1>3. /\ ConnsOk' /\ conn'[c].pc = "none"
      /\ \A d \in Conns \ {c} : conn'[d] = conn[d]
  BY <1>1, <1>2, ClosedThreads
<1>4. CASE c # Cli
  <2>1. UNCHANGED <<cli, conn[Cli]>>
    BY <1>3, <1>4 DEF Dropped, Conns
  <2> QED
    BY <1>1, <1>3, <2>1, CliKept, VerdictKept DEF Settled
<1>5. CASE c = Cli
  <2>1. cli' = [cli EXCEPT !.pc = "done", !.exit = 2]
    BY <1>5 DEF Dropped
  <2>2. Closing
    BY <1>3, <1>5 DEF Closing
  <2>3. 2 \notin {0, 1}
    OBVIOUS
  <2>4. CliOk' /\ WaitVerdictIsReal'
    BY <1>1, <2>1, <2>2, <2>3, CliQuits
  <2> QED
    BY <1>1, <1>3, <2>4 DEF Settled
<1> QED
  BY <1>4, <1>5

\* handle_unix: the administrator decision is taken from the files as they are.
LEMMA IdentifySettles ==
    ASSUME Books, WaitVerdictIsReal, UNCHANGED <<jobs, platform, cli>>, NEW c \in Conns,
           files \in Accounts, conn[c].pc = "backlog", Identify(c), Counted,
           active < MaxConnections, active' = active + 1
    PROVE  Settled
<1>1. JobsOk' /\ JobsGrow /\ ConnsOk /\ CliOk /\ ConnOk(conn[c], jobs)
  BY NoJobMoves DEF Books, ConnsOk, Conns
<1> DEFINE admin == IsAdmin(files, conn[c].uid, config)
           truth == Entitled(conn[c].uid)
           r == [conn[c] EXCEPT !.pc = "read", !.left = MaxRequests,
                                !.admin = admin, !.truth = truth]
<1>2. admin => truth
  <2>1. Lines(files.passwd) /\ Lines(files.group)
    BY WorldsAssumption
  <2> QED
    BY <2>1, AdminIsEntitled
<1> HIDE DEF admin, truth
<1>3. conn' = [conn EXCEPT ![c] = r]
  BY <1>1 DEF Identify, ConnsOk, HasFields, Conns, admin, truth
<1>4. /\ HasFields(r, DOMAIN Free) /\ r.pc = "read" /\ r.left = MaxRequests
      /\ r.admin = admin /\ r.truth = truth
  BY <1>1 DEF ConnOk, HasFields, Free
<1> HIDE DEF r
<1>5. ConnOk(r, jobs')
  BY <1>2, <1>4 DEF ConnOk
<1>6. ConnsOk' /\ conn'[c] = r /\ \A d \in Conns \ {c} : conn'[d] = conn[d]
  BY <1>1, <1>3, <1>5, OneConnMoves
<1>7. Counted'
  <2>2. Threads' = {d \in Conns : conn'[d].pc \in Live}
    BY <1>6, ThreadsNext
  <2>3. /\ Threads = {d \in Conns : conn[d].pc \in Live}
        /\ IsFiniteSet(Threads) /\ Cardinality(Threads) \in Nat
    BY <1>1, ThreadsFinite
  <2>4. c \notin Threads /\ Threads' = Threads \cup {c}
    BY <1>4, <1>6, <2>2, <2>3 DEF Live
  <2>5. Cardinality(Threads') = Cardinality(Threads) + 1
    BY <2>3, <2>4, FS_AddElement
  <2> QED
    BY <2>3, <2>5, SizesAssumption DEF Counted
<1>8. CliOk'
  <2>1. CASE c # Cli
    BY <1>1, <1>6, <2>1, CliKept DEF Conns
  <2>2. CASE c = Cli
    BY <1>1, <1>4, <1>6, <2>2 DEF CliOk, Asking
  <2> QED
    BY <2>1, <2>2
<1> QED
  BY <1>1, <1>6, <1>7, <1>8, VerdictKept DEF Settled

LEMMA AcceptSettles ==
    ASSUME Books, WaitVerdictIsReal, Counted, files \in Accounts, NEW c \in Conns, Accept(c)
    PROVE  Settled
<1>1. UNCHANGED <<jobs, platform>> /\ conn[c].pc = "backlog"
  BY DEF Accept
<1>2. JobsGrow /\ ConnsOk
  BY <1>1, NoJobMoves DEF Books
<1>3. CASE active < MaxConnections /\ active' = active + 1 /\ Identify(c) /\ UNCHANGED cli
  BY <1>1, <1>3, IdentifySettles
<1>4. CASE Dropped(c) /\ (active' = active \/ (active < MaxConnections /\ active' = active + 1))
  <2>1. Threads' = Threads \ {c}
    BY <1>2, <1>4, ClosedThreads DEF Dropped
  <2>2. c \notin Threads
    BY <1>1 DEF Threads
  <2>3. Threads' = Threads /\ Cardinality(Threads) \in Nat
    BY <1>2, <2>1, <2>2, ThreadsFinite
  <2>4. Counted'
    BY <1>4, <2>3, SizesAssumption DEF Counted
  <2> QED
    BY <1>1, <1>4, <2>4, DroppedSettles
<1> QED
  BY <1>3, <1>4 DEF Accept

LEMMA HangupSettles ==
    ASSUME Books, WaitVerdictIsReal, Counted, NEW c \in Conns, Hangup(c) \/ ReplyFails(c)
    PROVE  Settled
<1>1. /\ UNCHANGED <<jobs, platform>> /\ conn[c].pc \in {"read", "reply"}
      /\ conn' = [conn EXCEPT ![c] = Free] /\ active' = active - 1
  BY DEF Hangup, ReplyFails, Dropped
<1>2. JobsOk' /\ JobsGrow /\ ConnsOk /\ CliOk
  BY <1>1, NoJobMoves DEF Books
<1>3. Counted'
  <2>1. c \in Threads
    BY <1>1, <1>2, ThreadsFinite DEF Live
  <2>2. {c} \cap Threads = {c}
    BY <2>1
  <2>3. Cardinality({c} \cap Threads) = 1
    BY <2>2, FS_Singleton
  <2> QED
    BY <1>1, <1>2, <2>3, ClosedCounted
<1>4. CASE ReplyFails(c)
  <2>1. Dropped(c)
    BY <1>4 DEF ReplyFails
  <2> QED
    BY <1>1, <1>3, <2>1, DroppedSettles
<1>5. CASE Hangup(c)
  <2>1. /\ ConnsOk' /\ conn'[c].pc = "none"
        /\ \A d \in Conns \ {c} : conn'[d] = conn[d]
    BY <1>1, <1>2, ClosedThreads
  <2>2. UNCHANGED cli
    BY <1>5 DEF Hangup
  <2>3. CliOk'
    <3>1. CASE c # Cli
      BY <1>2, <2>1, <2>2, <3>1, CliKept DEF Conns
    <3>2. CASE c = Cli
      BY <1>1, <1>2, <2>1, <2>2, <3>2 DEF CliOk, Asking
    <3> QED
      BY <3>1, <3>2
  <2> QED
    BY <1>2, <1>3, <2>1, <2>2, <2>3, VerdictKept DEF Settled
<1> QED
  BY <1>4, <1>5

LEMMA ConnectSettles ==
    ASSUME Books, WaitVerdictIsReal, Counted, UNCHANGED <<jobs, platform, active, cli>>,
           NEW c \in Conns, NEW uid, conn[c].pc = "none", c = Cli => Asking,
           conn' = [conn EXCEPT ![c] = [Free EXCEPT !.pc = "backlog", !.uid = uid]]
    PROVE  Settled
<1> DEFINE r == [Free EXCEPT !.pc = "backlog", !.uid = uid]
<1>1. JobsOk' /\ JobsGrow /\ ConnsOk /\ CliOk
  BY NoJobMoves DEF Books
<1>2. HasFields(r, DOMAIN Free) /\ r.pc = "backlog" /\ r.admin = FALSE
  BY DEF Free, HasFields
<1>3. conn' = [conn EXCEPT ![c] = r]
  OBVIOUS
<1> HIDE DEF r
<1>4. ConnOk(r, jobs')
  BY <1>2 DEF ConnOk
<1>5. ConnsOk' /\ conn'[c] = r /\ \A d \in Conns \ {c} : conn'[d] = conn[d]
  BY <1>1, <1>3, <1>4, OneConnMoves
<1>6. \A d \in Conns : conn'[d].pc \in Live <=> conn[d].pc \in Live
  BY <1>2, <1>5 DEF Live
<1>7. Counted'
  BY <1>1, <1>5, <1>6, SameThreads
<1>8. CliOk'
  <2>1. CASE c # Cli
    BY <1>1, <1>5, <2>1, CliKept DEF Conns
  <2>2. CASE c = Cli
    BY <1>1, <1>2, <1>5, <2>2 DEF CliOk, Asking
  <2> QED
    BY <2>1, <2>2
<1> QED
  BY <1>1, <1>5, <1>7, <1>8, VerdictKept DEF Settled

LEMMA CliStartSettles ==
    ASSUME Books, Counted, config \in Configs, NEW cmd \in Commands(config), CliStart(cmd)
    PROVE  Settled
<1>1. UNCHANGED <<jobs, platform, conn, active>> /\ cli.pc = "off"
  BY DEF CliStart
<1>2. JobsOk' /\ JobsGrow /\ ConnsOk /\ ConnsOk' /\ CliOk
  BY <1>1, NoJobMoves, NoConnMoves DEF Books
<1>3. Counted'
  BY <1>1, <1>2, SameThreads
<1>4. PICK pc \in {"done", "ask"}, exit \in {2, None} :
           cli' = [NoCommand EXCEPT !.cmd = cmd, !.pc = pc, !.exit = exit]
           /\ (pc = "done" => exit = 2)
  BY DEF CliStart
<1>5. /\ HasFields(cli', DOMAIN NoCommand) /\ cli'.pc = pc /\ cli'.exit = exit
      /\ cli'.cmd = cmd /\ cli'.job = None
  BY <1>4 DEF NoCommand, HasFields
<1>6. IsRequest(cmd.req) /\ (cmd.wait => cmd.req.op \in Submits)
  BY CommandsAssumption
<1>7. CliOk'
  BY <1>1, <1>2, <1>4, <1>5, <1>6 DEF CliOk, Asking
<1>8. WaitVerdictIsReal'
  BY <1>4, <1>5 DEF WaitVerdictIsReal
<1> QED
  BY <1>2, <1>3, <1>7, <1>8 DEF Settled

LEMMA CliConnectSettles ==
    ASSUME Books, WaitVerdictIsReal, Counted, CliConnect
    PROVE  Settled
<1>1. /\ UNCHANGED <<jobs, platform, active, cli>> /\ Cli \in Conns /\ conn[Cli].pc = "none"
      /\ Asking
      /\ conn' = [conn EXCEPT ![Cli] = [Free EXCEPT !.pc = "backlog", !.uid = cli.cmd.uid]]
  BY DEF CliConnect, Conns, Asking
<1> QED
  BY <1>1, ConnectSettles

LEMMA CliGivesUpSettles ==
    ASSUME Books, Counted, CliGivesUp
    PROVE  Settled
<1>1. /\ UNCHANGED <<jobs, platform>> /\ Cli \in Conns
      /\ cli' = [cli EXCEPT !.pc = "done", !.exit = 2]
      /\ conn' = [conn EXCEPT ![Cli] = Free]
      /\ active' = active - Cardinality({Cli} \cap Threads)
  BY DEF CliGivesUp, Conns
<1>2. JobsOk' /\ JobsGrow /\ ConnsOk /\ CliOk
  BY <1>1, NoJobMoves DEF Books
<1>3. ConnsOk' /\ conn'[Cli].pc = "none"
  BY <1>1, <1>2, ClosedThreads
<1>4. Counted'
  BY <1>1, <1>2, ClosedCounted
<1>5. 2 \notin {0, 1} /\ Closing
  BY <1>3 DEF Closing
<1>6. CliOk' /\ WaitVerdictIsReal'
  BY <1>1, <1>2, <1>5, CliQuits
<1> QED
  BY <1>2, <1>3, <1>4, <1>6 DEF Settled

\* The service is started again: no connection, no thread.
LEMMA RestartSettles ==
    ASSUME Books, WaitVerdictIsReal, Restart
    PROVE  Settled
<1>1. JobsOk' /\ JobsGrow /\ ConnsOk /\ CliOk
  BY RestartMoves DEF Books
<1>2. \A c \in Conns : conn'[c] = Free /\ conn'[c].pc = "none" /\ ConnOk(conn'[c], jobs')
  BY <1>1, FreeOk DEF Restart, ConnsOk, HasFields, Conns
<1>3. ConnsOk'
  <2>1. HasFields(conn, Conns)'
    BY <1>1 DEF Restart, ConnsOk, HasFields, Conns
  <2> QED
    BY <1>2, <2>1 DEF ConnsOk, Conns
<1>4. Counted'
  <2>1. Threads' = {}
    BY <1>2, <1>3, ThreadsNext DEF Live
  <2>2. Cardinality(Threads') = 0
    BY <2>1, FS_EmptySet
  <2>3. active' = 0
    BY DEF Restart
  <2> QED
    BY <2>2, <2>3, SizesAssumption DEF Counted
<1>5. Closing
  BY <1>2 DEF Closing, Conns
<1>6. CASE Asking
  <2>1. cli' = [cli EXCEPT !.pc = "done", !.exit = 2]
    BY <1>6 DEF Restart, Asking
  <2>2. 2 \notin {0, 1}
    OBVIOUS
  <2>3. CliOk' /\ WaitVerdictIsReal'
    BY <1>1, <1>5, <2>1, <2>2, CliQuits
  <2> QED
    BY <1>1, <1>3, <1>4, <2>3 DEF Settled
<1>7. CASE ~Asking
  <2>1. UNCHANGED cli
    BY <1>7 DEF Restart, Asking
  <2>2. CliOk'
    BY <1>1, <1>5, <1>7, <2>1 DEF CliOk, Asking, Closing
  <2> QED
    BY <1>1, <1>3, <1>4, <2>1, <2>2, VerdictKept DEF Settled
<1> QED
  BY <1>6, <1>7

\* A step that touches neither connections nor command line.
LEMMA JobsSettle ==
    ASSUME Books, WaitVerdictIsReal, Counted, JobsOk', JobsGrow,
           UNCHANGED <<conn, active, cli>>
    PROVE  Settled
<1>1. ConnsOk /\ ConnsOk' /\ CliOk /\ CliOk'
  BY NoConnMoves, CliKept DEF Books
<1> QED
  BY <1>1, SameThreads, VerdictKept DEF Settled, Books

\* schedule::start on the scheduler's thread.
LEMMA RoundEachMoves ==
    ASSUME JobsOk, RoundEach
    PROVE  JobsOk' /\ JobsGrow
<1>1. UNCHANGED platform
  BY DEF RoundEach
<1>2. CASE UNCHANGED jobs
  BY <1>1, <1>2, NoJobMoves
<1>3. CASE \E j \in JobIds : \E n, spec :
             NewJob(j) /\ jobs' = Submitted(j, Self, n, spec, TRUE)
  <2>1. PICK j \in JobIds : \E n, spec : NewJob(j) /\ jobs' = Submitted(j, Self, n, spec, TRUE)
    BY <1>3
  <2>2. PICK n, spec : NewJob(j) /\ jobs' = Submitted(j, Self, n, spec, TRUE)
    BY <2>1
  <2> QED
    BY <1>1, <2>2, SubmitMoves
<1>4. UNCHANGED jobs \/ \E j \in JobIds : \E n, spec :
         NewJob(j) /\ jobs' = Submitted(j, Self, n, spec, TRUE)
  BY DEF RoundEach
<1> QED
  BY <1>2, <1>3, <1>4

----------------------------------------------------------------------------
(* The rest of the state.                                                  *)

Rest ==
    /\ platform \in {"unix", "windows"} /\ files \in Accounts /\ now \in Times
    /\ config \in Configs /\ RunTimes(last) /\ TablesOk
    /\ sched.pc \in {"sleep", "each", "read", "save"}
    /\ items \in [Items -> ItemStates] /\ allowed \subseteq Items
    /\ audit \in BOOLEAN \cup {None} /\ ~trespass

LEMMA RecordedIsTimes ==
    ASSUME NEW f, RunTimes(f), NEW n, NEW t \in Times
    PROVE  RunTimes([f EXCEPT ![n] = t])
  BY DEF RunTimes

\* The scheduler's steps.
LEMMA SchedulerRest ==
    ASSUME Rest, Scheduler
    PROVE  Rest'
<1>1. /\ UNCHANGED <<platform, config, files, now, items, allowed, audit, trespass>>
      /\ HasFields(sched, DOMAIN Idle)
  BY DEF Scheduler, RoundStart, RoundEach, StartRead, StartSave, RoundEnd, Rest, TablesOk
<1>2. HasFields(Idle, DOMAIN Idle) /\ Idle.pc = "sleep"
  BY DEF HasFields, Idle
<1>3. CASE RoundStart
  <2>1. HasFields(sched', DOMAIN Idle) /\ sched'.pc = "each"
    BY <1>3 DEF RoundStart, HasFields, Idle
  <2> QED
    BY <1>1, <1>3, <2>1 DEF RoundStart, Rest, TablesOk, RunTimes
<1>4. CASE RoundEach
  <2>1. HasFields(sched', DOMAIN Idle) /\ sched'.pc \in {"each", "read"}
    BY <1>1, <1>4 DEF RoundEach, HasFields, Idle
  <2> QED
    BY <1>1, <1>4, <2>1 DEF RoundEach, Rest, TablesOk, RunTimes
<1>5. CASE StartRead
  <2>1. HasFields(sched', DOMAIN Idle) /\ sched'.pc = "save" /\ sched'.read = last
    BY <1>1, <1>5 DEF StartRead, HasFields, Idle
  <2> QED
    BY <1>1, <1>5, <2>1 DEF StartRead, Rest, TablesOk, RunTimes
<1>6. CASE StartSave
  <2>1. HasFields(sched', DOMAIN Idle) /\ sched'.pc = "each"
    BY <1>1, <1>6 DEF StartSave, HasFields, Idle
  <2>2. RunTimes(sched.read) /\ now \in Times /\ RunTimes(last)
    BY <1>6 DEF StartSave, Rest, TablesOk
  <2>3. RunTimes(last')
    <3>1. CASE \E n : last' = [sched.read EXCEPT ![n] = now]
      BY <2>2, <3>1, RecordedIsTimes
    <3>2. CASE UNCHANGED last
      BY <2>2, <3>2
    <3> QED
      BY <1>6, <3>1, <3>2 DEF StartSave
  <2> QED
    BY <1>1, <1>6, <2>1, <2>3 DEF StartSave, Rest, TablesOk, RunTimes
<1>7. CASE RoundEnd
  <2>1. HasFields(sched', DOMAIN Idle) /\ sched'.pc = "sleep"
    BY <1>7 DEF RoundEnd, HasFields, Idle
  <2> QED
    BY <1>1, <1>7, <2>1 DEF RoundEnd, Rest, TablesOk, RunTimes
<1> QED
  BY <1>3, <1>4, <1>5, <1>6, <1>7 DEF Scheduler

\* The steps of connection threads.
LEMMA HandlerRest ==
    ASSUME Rest, Books, NEW c \in Conns, Handler(c)
    PROVE  Rest'
<1>1. CASE RunScheduleSave(c)
  <2>1. RunTimes(conn[c].seen) /\ now \in Times /\ RunTimes(last)
    BY <1>1 DEF RunScheduleSave, Books, ConnsOk, ConnOk, Conns, Rest
  <2>2. RunTimes(last')
    <3>1. CASE \E n : last' = [conn[c].seen EXCEPT ![n] = now]
      BY <2>1, <3>1, RecordedIsTimes
    <3>2. CASE UNCHANGED last
      BY <2>1, <3>2
    <3> QED
      BY <1>1, <3>1, <3>2 DEF RunScheduleSave
  <2> QED
    BY <1>1, <2>2 DEF RunScheduleSave, Rest, TablesOk
<1>2. CASE QuarantineOp(c)
  <2>1. conn[c].truth
    BY <1>2, StoreMoves
  <2>2. items' \in [Items -> ItemStates] /\ allowed' \subseteq Items
    <3>1. items \in [Items -> ItemStates] /\ allowed \subseteq Items
      BY DEF Rest
    <3>2. \/ UNCHANGED items
          \/ \E i \in Items, st \in ItemStates : items' = [items EXCEPT ![i] = st]
      BY <1>2 DEF QuarantineOp, ItemStates
    <3>3. UNCHANGED allowed \/ \E i \in Items : allowed' = allowed \cup {i}
      BY <1>2 DEF QuarantineOp
    <3> QED
      BY <3>1, <3>2, <3>3
  <2>3. /\ UNCHANGED <<platform, config, files, now, last, sched, audit>>
        /\ trespass' = (trespass \/ ~conn[c].truth)
    BY <1>2 DEF QuarantineOp
  <2>4. ~trespass'
    BY <2>1, <2>3 DEF Rest
  <2> QED
    BY <2>2, <2>3, <2>4 DEF Rest, TablesOk
<1>3. CASE VerifyAudit(c)
  <2>1. conn[c].truth
    BY <1>3, StoreMoves
  <2>2. /\ UNCHANGED <<platform, config, files, now, last, sched, items, allowed>>
        /\ audit' \in BOOLEAN /\ trespass' = (trespass \/ ~conn[c].truth)
    BY <1>3 DEF VerifyAudit
  <2>3. ~trespass'
    BY <2>1, <2>2 DEF Rest
  <2> QED
    BY <2>2, <2>3 DEF Rest, TablesOk
<1>4. ASSUME UNCHANGED <<platform, config, files, now, last, sched, items, allowed, audit,
                         trespass>>
      PROVE  Rest'
  BY <1>4 DEF Rest, TablesOk
<1>5. CASE ~RunScheduleSave(c) /\ ~QuarantineOp(c) /\ ~VerifyAudit(c)
  <2>1. UNCHANGED <<platform, config, files, now, last, sched, items, allowed, audit, trespass>>
    BY <1>5, Zenon DEF Handler, Accept, Read, Hangup, Refuse, Query, LookUp, ReadReport, CancelJob,
          Scan, SystemCheck, RunSchedule, RunScheduleRead, Reply, ReplyFails
  <2> QED
    BY <1>4, <2>1
<1> QED
  BY <1>1, <1>2, <1>3, <1>5

LEMMA NextRest ==
    ASSUME Rest, Books, [Next]_vars
    PROVE  Rest'
<1>1. ASSUME UNCHANGED <<platform, config, files, now, last, sched, items, allowed, audit,
                         trespass>>
      PROVE  Rest'
  BY <1>1 DEF Rest, TablesOk
<1>2. CASE Scheduler
  BY <1>2, SchedulerRest
<1>3. CASE \E c \in Conns : Handler(c)
  BY <1>3, HandlerRest
<1>4. CASE Tick
  <2>1. now' \in Times
    BY <1>4, SizesAssumption DEF Tick, Rest, Times
  <2> QED
    BY <1>4, <2>1 DEF Tick, Rest, TablesOk
<1>5. CASE EditAccounts
  BY <1>5 DEF EditAccounts, Rest, TablesOk
<1>6. CASE Restart
  <2>1. HasFields(sched', DOMAIN Idle) /\ sched'.pc = "sleep"
    BY <1>6 DEF Restart, HasFields, Idle
  <2> QED
    BY <1>6, <2>1 DEF Restart, Rest, TablesOk
<1>7. CASE \E c \in Clients, uid \in Uids(config) : Connect(c, uid)
  BY <1>1, <1>7 DEF Connect
<1>8. CASE CommandLine
  BY <1>1, <1>8 DEF CommandLine, CliConnect, CliGivesUp, CliStart
<1>9. CASE \E j \in JobIds : JobRuns(j) \/ JobEnds(j) \/ JobPruned(j)
  BY <1>1, <1>9 DEF JobRuns, JobEnds, JobPruned
<1>10. CASE UNCHANGED vars
  BY <1>1, <1>10 DEF vars
<1> QED
  BY <1>2, <1>3, <1>4, <1>5, <1>6, <1>7, <1>8, <1>9, <1>10 DEF Next, Conns

----------------------------------------------------------------------------
(* The theorems.                                                           *)

LEMMA NextSettles ==
    ASSUME Rest, Books, WaitVerdictIsReal, Counted, [Next]_vars
    PROVE  Settled
<1>1. /\ JobsOk /\ config \in Configs /\ files \in Accounts /\ RunTimes(last)
  BY DEF Books, Rest
<1>2. ASSUME UNCHANGED <<jobs, platform, conn, active, cli>>
      PROVE  Settled
  BY <1>1, <1>2, NoJobMoves, JobsSettle
<1>3. CASE Scheduler
  <2>1. CASE RoundEach
    <3>1. JobsOk' /\ JobsGrow
      BY <1>1, <2>1, RoundEachMoves
    <3>2. UNCHANGED <<conn, active, cli>>
      BY <2>1 DEF RoundEach
    <3> QED
      BY <3>1, <3>2, JobsSettle
  <2>2. CASE RoundStart \/ StartRead \/ StartSave \/ RoundEnd
    BY <1>2, <2>2 DEF RoundStart, StartRead, StartSave, RoundEnd
  <2> QED
    BY <1>3, <2>1, <2>2 DEF Scheduler
<1>4. CASE \E c \in Conns : Handler(c)
  <2>1. PICK c \in Conns : Handler(c)
    BY <1>4
  <2>2. CASE Accept(c)
    BY <1>1, <2>2, AcceptSettles
  <2>3. CASE Hangup(c) \/ ReplyFails(c)
    BY <2>3, HangupSettles
  <2>4. CASE Reply(c)
    <3>1. Moved(c) /\ WaitVerdictIsReal' /\ UNCHANGED active
      BY <2>4, ReplyMoves DEF Reply
    <3>2. Counted'
      BY <3>1, ServedCounted DEF Moved, Books
    <3> QED
      BY <3>1, <3>2 DEF Settled, Moved, Served
  <2>5. CASE \/ Read(c) \/ Refuse(c) \/ Query(c) \/ LookUp(c) \/ ReadReport(c)
             \/ CancelJob(c) \/ Scan(c) \/ SystemCheck(c) \/ RunSchedule(c)
             \/ RunScheduleRead(c) \/ RunScheduleSave(c) \/ QuarantineOp(c)
             \/ VerifyAudit(c)
    <3>1. UNCHANGED <<active, cli>>
      BY <2>5, Zenon DEF Read, Refuse, Query, LookUp, ReadReport, CancelJob, Scan, SystemCheck,
            RunSchedule, RunScheduleRead, RunScheduleSave, QuarantineOp, VerifyAudit
    <3>2. Moved(c)
      BY <1>1, <2>5, ReadMoves, RefuseMoves, QueryMoves, LookUpMoves, ReadReportMoves,
         CancelJobMoves, ScanMoves, SystemCheckMoves, RunScheduleMoves,
         RunScheduleTableMoves, StoreMoves
    <3> QED
      BY <3>1, <3>2, MovedSettles, Zenon
  <2> QED
    BY <2>1, <2>2, <2>3, <2>4, <2>5 DEF Handler
<1>5. CASE \E c \in Clients, uid \in Uids(config) : Connect(c, uid)
  <2>1. PICK c \in Clients, uid \in Uids(config) : Connect(c, uid)
    BY <1>5
  <2>2. /\ UNCHANGED <<jobs, platform, active, cli>> /\ c \in Conns /\ c # Cli
        /\ conn[c].pc = "none"
        /\ conn' = [conn EXCEPT ![c] = [Free EXCEPT !.pc = "backlog", !.uid = uid]]
    BY <2>1, SizesAssumption DEF Connect, Conns
  <2> QED
    BY <2>2, ConnectSettles
<1>6. CASE CommandLine
  BY <1>1, <1>6, CliConnectSettles, CliGivesUpSettles, CliStartSettles DEF CommandLine
<1>7. CASE \E j \in JobIds : JobRuns(j) \/ JobEnds(j) \/ JobPruned(j)
  <2>1. JobsOk' /\ JobsGrow
    BY <1>1, <1>7, JobRunsMoves, JobEndsMoves
  <2>2. UNCHANGED <<conn, active, cli>>
    BY <1>7 DEF JobRuns, JobEnds, JobPruned
  <2> QED
    BY <2>1, <2>2, JobsSettle
<1>8. CASE Tick \/ EditAccounts
  BY <1>2, <1>8 DEF Tick, EditAccounts
<1>9. CASE Restart
  BY <1>9, RestartSettles
<1>10. CASE UNCHANGED vars
  BY <1>2, <1>10 DEF vars
<1> QED
  BY <1>3, <1>4, <1>5, <1>6, <1>7, <1>8, <1>9, <1>10 DEF Next, Conns

LEMMA InvParts == IInv <=> Rest /\ Books /\ WaitVerdictIsReal /\ Counted
<1>1. JobsOk /\ ConnsOk /\ CliOk =>
        /\ \A j \in JobIds : jobs[j].st \in Finished \cup {"none", "queued", "running", "pruned"}
        /\ \A c \in DOMAIN conn : conn[c].pc \in {"none", "backlog", "read", "dispatch",
                                                 "act", "state", "save", "reply"}
        /\ cli.pc \in {"off", "ask", "poll", "report", "done"}
  BY DEF JobsOk, JobOk, ConnsOk, ConnOk, CliOk, HasFields
<1>2. items \in [Items -> ItemStates] => \A i \in Items : items[i] \in ItemStates
  OBVIOUS
<1> QED
  BY <1>1, <1>2 DEF IInv, TypeOK, Rest, Books, Counted

LEMMA InitInv == Init => IInv
<1> SUFFICES ASSUME Init PROVE Rest /\ Books /\ WaitVerdictIsReal /\ Counted
  BY InvParts
<1>1. Rest
  <2>1. PICK w \in Worlds : platform = w.platform /\ config = Loaded(w) /\ files = w.accounts
    BY DEF Init
  <2>2. config \in Configs
    BY <2>1 DEF Init, Configs
  <2>3. HasFields(sched, DOMAIN Idle) /\ sched.pc = "sleep"
    BY DEF Init, HasFields, Idle
  <2>4. now \in Times /\ RunTimes(last)
    BY SizesAssumption, WorldsAssumption DEF Init, Times
  <2>5. items \in [Items -> ItemStates] /\ allowed = {} /\ audit = TRUE /\ trespass = FALSE
    BY DEF Init, ItemStates
  <2> QED
    BY <2>1, <2>2, <2>3, <2>4, <2>5, WorldsAssumption DEF Rest, TablesOk
<1>2. JobsOk
  <2>1. HasFields(NoJob, DOMAIN NoJob) /\ NoJob.st = "none" /\ NoJob.report = None
    BY DEF HasFields, NoJob
  <2> QED
    BY <2>1 DEF Init, JobsOk, JobOk, HasFields
<1>3. ConnsOk /\ conn[Cli].pc = "none"
  BY FreeOk DEF Init, ConnsOk, HasFields
<1>4. CliOk /\ WaitVerdictIsReal
  <2>1. /\ HasFields(cli, DOMAIN NoCommand) /\ cli.pc = "off" /\ cli.job = None
    BY DEF Init, HasFields, NoCommand
  <2> QED
    BY <1>3, <2>1 DEF CliOk, Asking, WaitVerdictIsReal
<1>5. Counted
  <2>1. Threads = {}
    BY FreeOk DEF Init, Threads
  <2>2. Cardinality(Threads) = 0
    BY <2>1, FS_EmptySet
  <2> QED
    BY <2>2, SizesAssumption DEF Init, Counted
<1> QED
  BY <1>1, <1>2, <1>3, <1>4, <1>5 DEF Books

\* The service's books agree in every reachable state: who asked for a job and
\* with which rights it runs, what each connection thread has checked, which
\* request the command line waits for, how many threads there are.
THEOREM ServiceInvariant == Spec => []IInv
<1>1. IInv /\ [Next]_vars => IInv'
  <2> SUFFICES ASSUME Rest, Books, WaitVerdictIsReal, Counted, [Next]_vars
               PROVE  IInv'
    BY InvParts
  <2>1. Rest' /\ Settled
    BY NextRest, NextSettles
  <2>2. Rest' /\ Books' /\ WaitVerdictIsReal' /\ Counted'
    BY <2>1 DEF Settled, Books
  <2>3. (Rest /\ Books /\ WaitVerdictIsReal /\ Counted => IInv)'
    BY InvParts, PTL
  <2> QED
    BY <2>2, <2>3
<1> QED
  BY InitInv, <1>1, PTL DEF Spec

\* Types, and a count of threads that is never too low nor above
\* MAX_CONNECTIONS, whatever fails (server.rs, spawn_client).
THEOREM ServiceTypes == Spec => []TypeOK
<1>1. IInv => TypeOK
  BY DEF IInv
<1> QED
  BY <1>1, ServiceInvariant, PTL

\* A capability, the service's own rights, a quarantine or a change of the
\* store go back to the configuration or to somebody who was an administrator
\* when they connected (policy.rs, server.rs, runner.rs).
THEOREM PrivilegesAreEarned == Spec => []PrivilegeIsEarned
<1>1. IInv => PrivilegeIsEarned
  <2> SUFFICES ASSUME IInv, NEW j \in JobIds, ~jobs[j].earned
               PROVE  /\ jobs[j].spec # None => ~jobs[j].spec.quarantine
                      /\ jobs[j].args # None => jobs[j].args.command = "scan"
                      /\ jobs[j].child # None =>
                            /\ jobs[j].child.as = "user" => jobs[j].child.caps = {}
                            /\ jobs[j].child.uid = jobs[j].owner
    BY DEF IInv, PrivilegeIsEarned
  <2>1. JobOk(jobs[j])
    BY DEF IInv, JobsOk
  <2>2. CASE jobs[j].st = "none"
    BY <2>1, <2>2 DEF JobOk, NoJob
  <2>3. CASE jobs[j].st # "none"
    BY <2>1, <2>3 DEF JobOk
  <2> QED
    BY <2>2, <2>3
<1> QED
  BY <1>1, ServiceInvariant, PTL

\* Answers to somebody who is no administrator are about their own jobs
\* (server.rs, execute), also when a job is looked up in one step and acted on
\* in another.
THEOREM PrivacyKept == Spec => []OthersStayPrivate
<1>1. IInv => OthersStayPrivate
  <2> SUFFICES ASSUME IInv, NEW c \in Conns, conn[c].pc = "reply", ~conn[c].truth
               PROVE  /\ \A j \in conn[c].reply.jobs : jobs[j].owner = conn[c].uid
                      /\ ~conn[c].reply.private
    BY DEF IInv, ConnsOk, HasFields, OthersStayPrivate, Conns
  <2>1. ConnOk(conn[c], jobs)
    BY DEF IInv, ConnsOk, Conns
  <2> QED
    BY <2>1 DEF ConnOk, MaySee
<1> QED
  BY <1>1, ServiceInvariant, PTL

\* With --wait, exit status 0 or 1 is the verdict of a report of a job that
\* completed (service_cmd.rs, wait_and_print).
THEOREM VerdictsAreReal == Spec => []WaitVerdictIsReal
<1>1. IInv => WaitVerdictIsReal
  BY DEF IInv
<1> QED
  BY <1>1, ServiceInvariant, PTL
----------------------------------------------------------------------------
(* Schedules.                                                              *)

\* The first schedule of a name is one of the configuration's.
LEMMA ScheduleIsAnEntry ==
    ASSUME NEW n \in Schedules,
           config.schedules \in Seq({config.schedules[i] : i \in DOMAIN config.schedules})
    PROVE  \E i \in DOMAIN config.schedules :
              Schedule(n) = config.schedules[i] /\ config.schedules[i].name = n
<1> DEFINE I == {i \in 1..Len(config.schedules) : config.schedules[i].name = n}
           k == IF I # {} THEN SE!Min(I) ELSE 0
<1>1. Schedule(n) = IF k = 0 THEN None ELSE config.schedules[k]
  BY DEF Schedule, First, SE!SelectInSeq
<1>2. Len(config.schedules) \in Nat /\ DOMAIN config.schedules = 1..Len(config.schedules)
  OBVIOUS
<1>3. I # {} /\ I \subseteq Nat \ {0}
  BY <1>2 DEF Schedules
<1>4. k \in I /\ k # 0
  BY <1>3, MinIsLeast
<1> HIDE DEF k
<1> QED
  BY <1>1, <1>2, <1>4

\* What ServiceConfig::validate lets through.
ValidTimes(s) ==
    /\ s.every \in Nat \ {0}
    /\ s.at # None => s.at \in 0..(Day - 1) /\ s.every % Day = 0

LEMMA ScheduleIsValid ==
    ASSUME config \in Configs, NEW n \in Schedules
    PROVE  ValidTimes(Schedule(n))
<1>1. PICK w \in Worlds : config = Loaded(w) /\ config # None
  BY DEF Configs
<1>2. config.schedules \in Seq({config.schedules[i] : i \in DOMAIN config.schedules})
  BY FirstRunsAssumption
<1>3. PICK i \in DOMAIN config.schedules : Schedule(n) = config.schedules[i]
  BY <1>2, ScheduleIsAnEntry
<1>4. config # DefaultConfig
  BY <1>3 DEF DefaultConfig
<1>5. ConfigOk(config, MaxPaths, MaxEvery)
  BY <1>1, <1>4 DEF Loaded, LoadConfig
<1>6. ScheduleOk(config, config.schedules[i], MaxPaths, MaxEvery)
  BY <1>3, <1>5 DEF ConfigOk, SchedulesOk
<1> QED
  BY <1>3, <1>6 DEF ScheduleOk, ValidTimes

\* Days and the hours in them.
LEMMA DivBounds ==
    ASSUME NEW x \in Nat
    PROVE  /\ x \div Day \in Nat
           /\ (x \div Day) * Day <= x
           /\ x < ((x \div Day) + 1) * Day
<1>1. \A d \in Nat \ {0} : x \div d \in Nat
  OBVIOUS
<1>2. \A d \in Nat \ {0} : (x \div d) * d <= x
  OBVIOUS
<1>3. \A d \in Nat \ {0} : x < ((x \div d) + 1) * d
  OBVIOUS
<1> QED
  BY <1>1, <1>2, <1>3, DayAssumption

LEMMA DayOrder ==
    ASSUME NEW a \in Nat, NEW b \in Nat
    PROVE  /\ a < b => (a + 1) * Day <= b * Day
           /\ a <= b => a * Day <= b * Day
           /\ a * Day \in Nat /\ (a + 1) * Day \in Nat
<1>1. \A k \in Nat \ {0} : a < b => (a + 1) * k <= b * k
  OBVIOUS
<1>2. \A k \in Nat \ {0} : a <= b => a * k <= b * k
  OBVIOUS
<1>3. \A k \in Nat \ {0} : a * k \in Nat /\ (a + 1) * k \in Nat
  OBVIOUS
<1> QED
  BY <1>1, <1>2, <1>3, DayAssumption

LEMMA DivMonotone ==
    ASSUME NEW x \in Nat, NEW y \in Nat, x <= y
    PROVE  x \div Day <= y \div Day
<1>1. \A d \in Nat \ {0} : x \div d <= y \div d
  OBVIOUS
<1> QED
  BY <1>1, DayAssumption

LEMMA WholeDays ==
    ASSUME NEW e \in Nat \ {0}, e % Day = 0
    PROVE  e \div Day \in Nat \ {0}
<1>1. \A d \in Nat \ {0} : e % d = 0 => e \div d \in Nat \ {0}
  OBVIOUS
<1> QED
  BY <1>1, DayAssumption

\* The times of day that have come since a start.
DaysSince(s, start, t) ==
    {d \in ((start \div Day) + 1)..(Horizon \div Day) : d * Day + s.at <= t}

LEMMA DaysFinite ==
    ASSUME NEW s, NEW start \in Nat, NEW t \in Nat
    PROVE  IsFiniteSet(DaysSince(s, start, t))
<1> DEFINE a == (start \div Day) + 1
           b == Horizon \div Day
<1>1. a \in Int /\ b \in Int
  BY DivBounds, SizesAssumption
<1> HIDE DEF a, b
<1>2. IsFiniteSet(a..b)
  BY <1>1, FS_Interval
<1>3. DaysSince(s, start, t) \subseteq a..b
  BY DEF DaysSince, a, b
<1> QED
  BY <1>2, <1>3, FS_Subset

\* A start covers what came before it.
LEMMA StartCovers ==
    ASSUME NEW s, ValidTimes(s), NEW start \in Nat, NEW t \in Nat, t <= start
    PROVE  CoversBy(s, start, t)
<1>1. CASE s.at = None
  <2>1. t - start < s.every
    BY DEF ValidTimes
  <2> QED
    BY <1>1, <2>1 DEF CoversBy
<1>2. CASE s.at # None
  <2>1. s.at \in Nat /\ s.every \div Day \in Nat \ {0}
    BY <1>2, WholeDays DEF ValidTimes
  <2>2. ASSUME NEW d \in ((start \div Day) + 1)..(Horizon \div Day)
        PROVE  ~(d * Day + s.at <= t)
    <3>1. PICK q \in Nat : q = start \div Day /\ start < (q + 1) * Day /\ (q + 1) * Day \in Nat
      BY DivBounds, DayOrder
    <3>2. d \in Nat /\ q + 1 <= d
      BY <2>2, <3>1, DivBounds, SizesAssumption
    <3>3. (q + 1) * Day <= d * Day /\ d * Day \in Nat
      BY <3>1, <3>2, DayOrder
    <3> QED
      BY <2>1, <3>1, <3>3
  <2>3. DaysSince(s, start, t) = {}
    BY <2>2 DEF DaysSince
  <2>4. Cardinality(DaysSince(s, start, t)) = 0
    BY <2>3, FS_EmptySet
  <2> QED
    BY <1>2, <2>1, <2>4 DEF CoversBy, DaysSince
<1> QED
  BY <1>1, <1>2

\* A later start covers no less.
LEMMA LaterCovers ==
    ASSUME NEW s, ValidTimes(s), NEW a \in Nat, NEW b \in Nat, a <= b, NEW t \in Nat,
           CoversBy(s, a, t)
    PROVE  CoversBy(s, b, t)
<1>1. CASE s.at = None
  BY <1>1 DEF CoversBy, ValidTimes
<1>2. CASE s.at # None
  <2>1. s.every \div Day \in Nat
    BY <1>2, WholeDays DEF ValidTimes
  <2>2. PICK p \in Nat, q \in Nat : p = a \div Day /\ q = b \div Day /\ p <= q
    BY DivBounds, DivMonotone
  <2>3. DaysSince(s, b, t) \subseteq DaysSince(s, a, t)
    BY <2>2 DEF DaysSince
  <2>4. /\ Cardinality(DaysSince(s, b, t)) <= Cardinality(DaysSince(s, a, t))
        /\ Cardinality(DaysSince(s, b, t)) \in Nat /\ Cardinality(DaysSince(s, a, t)) \in Nat
    BY <2>3, DaysFinite, FS_Subset, FS_CardinalityType
  <2>5. Cardinality(DaysSince(s, a, t)) < s.every \div Day
    BY <1>2 DEF CoversBy, DaysSince
  <2>6. Cardinality(DaysSince(s, b, t)) < s.every \div Day
    BY <2>1, <2>4, <2>5
  <2> QED
    BY <1>2, <2>6 DEF CoversBy, DaysSince
<1> QED
  BY <1>1, <1>2

\* next_due and the rule agree: what is not due is covered by its last run,
\* what is due is not.
LEMMA NotDueIsCovered ==
    ASSUME NEW s, ValidTimes(s), NEW start \in Times, NEW t \in Times, t < NextDue(s, start, t)
    PROVE  CoversBy(s, start, t)
<1>1. start \in Nat /\ t \in Nat /\ start # None
  BY FirstRunsAssumption, SizesAssumption DEF Times
<1>2. CASE s.at = None
  BY <1>1, <1>2 DEF CoversBy, NextDue, ValidTimes
<1>3. CASE s.at # None
  <2>1. PICK e \in Nat \ {0}, h \in Nat : e = s.every \div Day /\ h = s.at
    BY <1>3, WholeDays DEF ValidTimes
  <2>2. PICK q \in Nat : q = start \div Day
    BY <1>1, DivBounds
  <2>3. t < (q + e) * Day + h
    BY <1>1, <1>3, <2>1, <2>2 DEF NextDue
  <2>4. ASSUME NEW d \in DaysSince(s, start, t)
        PROVE  d \in (q + 1)..(q + e - 1)
    <3>1. d \in Nat /\ q + 1 <= d /\ d * Day + h <= t
      BY <2>1, <2>2, <2>4, DivBounds, SizesAssumption DEF DaysSince
    <3>2. d * Day \in Nat /\ (q + e) * Day \in Nat /\ q + e \in Nat
      BY <2>1, <2>2, <3>1, DayOrder
    <3>3. d * Day < (q + e) * Day
      BY <1>1, <2>1, <2>3, <3>1, <3>2
    <3>4. ~(q + e <= d)
      BY <3>1, <3>2, <3>3, DayOrder
    <3> QED
      BY <2>1, <2>2, <3>1, <3>4
  <2>5. /\ IsFiniteSet((q + 1)..(q + e - 1))
        /\ Cardinality((q + 1)..(q + e - 1)) = e - 1
    <3>1. PICK a \in Int, b \in Int : a = q + 1 /\ b = q + e - 1 /\ b - a + 1 = e - 1 /\ b - a + 1 >= 0
      BY <2>1, <2>2
    <3>2. IsFiniteSet(a..b) /\ Cardinality(a..b) = IF a > b THEN 0 ELSE b - a + 1
      BY FS_Interval
    <3>3. a > b => e - 1 = 0
      BY <2>1, <3>1
    <3> QED
      BY <3>1, <3>2, <3>3
  <2>6. /\ Cardinality(DaysSince(s, start, t)) <= e - 1
        /\ Cardinality(DaysSince(s, start, t)) \in Nat
    BY <1>1, <2>4, <2>5, DaysFinite, FS_Subset, FS_CardinalityType
  <2>7. Cardinality(DaysSince(s, start, t)) < e
    BY <2>1, <2>6
  <2> QED
    BY <1>3, <2>1, <2>7 DEF CoversBy, DaysSince
<1> QED
  BY <1>2, <1>3

LEMMA DueIsNotCovered ==
    ASSUME NEW s, ValidTimes(s), NEW start \in Times, NEW t \in Times, t >= NextDue(s, start, t)
    PROVE  ~CoversBy(s, start, t)
<1>1. start \in Nat /\ t \in Nat /\ start # None /\ t <= Horizon /\ Horizon \in Nat
  BY FirstRunsAssumption, SizesAssumption DEF Times
<1>2. CASE s.at = None
  BY <1>1, <1>2 DEF CoversBy, NextDue, ValidTimes
<1>3. CASE s.at # None
  <2>1. PICK e \in Nat \ {0}, h \in Nat : e = s.every \div Day /\ h = s.at
    BY <1>3, WholeDays DEF ValidTimes
  <2>2. PICK q \in Nat : q = start \div Day
    BY <1>1, DivBounds
  <2>3. t >= (q + e) * Day + h
    BY <1>1, <1>3, <2>1, <2>2 DEF NextDue
  <2>4. q + e <= Horizon \div Day
    <3>1. PICK b \in Nat : b = Horizon \div Day /\ Horizon < (b + 1) * Day /\ (b + 1) * Day \in Nat
      BY <1>1, DivBounds, DayOrder
    <3>2. (q + e) * Day \in Nat /\ q + e \in Nat
      BY <2>1, <2>2, DayOrder
    <3>3. (q + e) * Day < (b + 1) * Day
      BY <1>1, <2>1, <2>3, <3>1, <3>2
    <3>4. ~(b < q + e)
      BY <3>1, <3>2, <3>3, DayOrder
    <3> QED
      BY <3>1, <3>2, <3>4
  <2>5. ASSUME NEW d \in (q + 1)..(q + e)
        PROVE  d \in DaysSince(s, start, t)
    <3>1. d \in Nat /\ q + 1 <= d /\ d <= q + e /\ q + e \in Nat
      BY <2>1, <2>2, <2>5
    <3>2. d * Day <= (q + e) * Day /\ d * Day \in Nat /\ (q + e) * Day \in Nat
      BY <3>1, DayOrder
    <3>3. d * Day + h <= t
      BY <1>1, <2>1, <2>3, <3>2
    <3>4. d <= Horizon \div Day /\ Horizon \div Day \in Nat
      BY <1>1, <2>4, <3>1, DivBounds
    <3> QED
      BY <2>1, <2>2, <3>1, <3>3, <3>4 DEF DaysSince
  <2>6. IsFiniteSet((q + 1)..(q + e)) /\ Cardinality((q + 1)..(q + e)) = e
    <3>1. PICK a \in Int, b \in Int : a = q + 1 /\ b = q + e /\ b - a + 1 = e /\ ~(a > b)
      BY <2>1, <2>2
    <3>2. IsFiniteSet(a..b) /\ Cardinality(a..b) = IF a > b THEN 0 ELSE b - a + 1
      BY FS_Interval
    <3> QED
      BY <3>1, <3>2
  <2>7. /\ e <= Cardinality(DaysSince(s, start, t))
        /\ Cardinality(DaysSince(s, start, t)) \in Nat
    BY <1>1, <2>5, <2>6, DaysFinite, FS_Subset, FS_CardinalityType
  <2>8. ~(Cardinality(DaysSince(s, start, t)) < e)
    BY <2>1, <2>7
  <2> QED
    BY <1>3, <2>1, <2>8 DEF CoversBy, DaysSince
<1> QED
  BY <1>2, <1>3

----------------------------------------------------------------------------
(* Steps that leave the schedules alone.                                   *)

\* No connection comes to a step of run_schedule.
Elsewhere == \A d \in Conns : conn'[d] = conn[d] \/ conn'[d].pc \notin {"state", "save"}

\* What most steps do to the schedules: nothing, but time passes.
Quiet ==
    /\ UNCHANGED <<config, last, sched, started, calm>> /\ now' \in Times /\ now <= now'
    /\ Elsewhere

LEMMA OneElsewhere ==
    ASSUME ConnsOk, NEW c \in Conns, NEW r, conn' = [conn EXCEPT ![c] = r],
           r.pc \notin {"state", "save"}
    PROVE  Elsewhere
BY DEF ConnsOk, HasFields, Conns, Elsewhere

LEMMA AnswerElsewhere ==
    ASSUME ConnsOk, NEW c \in Conns, NEW reply, Answer(c, reply)
    PROVE  Elsewhere
<1> DEFINE r == [conn[c] EXCEPT !.pc = "reply", !.reply = reply]
<1>1. conn' = [conn EXCEPT ![c] = r]
  BY DEF Answer, ConnsOk, HasFields, Conns
<1>2. HasFields(conn[c], DOMAIN Free)
  BY DEF ConnsOk, ConnOk, Conns
<1>3. r.pc = "reply"
  BY <1>2 DEF HasFields, Free
<1> HIDE DEF r
<1> QED
  BY <1>1, <1>3, OneElsewhere

LEMMA PlaceElsewhere ==
    ASSUME ConnsOk, NEW c \in Conns, NEW pc \in {"act", "read", "dispatch", "reply"},
           \/ Goto(c, pc)
           \/ \E r : conn' = [conn EXCEPT ![c].pc = pc, ![c].req = r]
           \/ \E k, r : conn' = [conn EXCEPT ![c].pc = pc, ![c].left = k, ![c].reply = r]
           \/ \E k, a, t : conn' = [conn EXCEPT ![c].pc = pc, ![c].left = k, ![c].admin = a,
                                                ![c].truth = t]
           \/ \E k, q, r : conn' = [conn EXCEPT ![c].pc = pc, ![c].left = k, ![c].req = q,
                                                ![c].reply = r]
    PROVE  Elsewhere
<1>1. HasFields(conn[c], DOMAIN Free) /\ HasFields(conn, Conns) /\ c \in DOMAIN conn
  BY ZenonT(30) DEF ConnsOk, ConnOk, Conns, HasFields
<1>2. PICK r : conn' = [conn EXCEPT ![c] = r] /\ r.pc = pc
  <2>1. CASE Goto(c, pc)
    <3> DEFINE v == [conn[c] EXCEPT !.pc = pc]
    <3>1. conn' = [conn EXCEPT ![c] = v] /\ v.pc = pc
      BY <1>1, <2>1 DEF Goto, HasFields, Free
    <3> QED
      BY <3>1
  <2>2. CASE \E r : conn' = [conn EXCEPT ![c].pc = pc, ![c].req = r]
    <3>1. PICK r : conn' = [conn EXCEPT ![c].pc = pc, ![c].req = r]
      BY <2>2
    <3> DEFINE v == [conn[c] EXCEPT !.pc = pc, !.req = r]
    <3>2. conn' = [conn EXCEPT ![c] = v] /\ v.pc = pc
      BY <1>1, <3>1 DEF HasFields, Free
    <3> QED
      BY <3>2
  <2>3. CASE \E k, r : conn' = [conn EXCEPT ![c].pc = pc, ![c].left = k, ![c].reply = r]
    <3>1. PICK k, r : conn' = [conn EXCEPT ![c].pc = pc, ![c].left = k, ![c].reply = r]
      BY <2>3
    <3> DEFINE v == [conn[c] EXCEPT !.pc = pc, !.left = k, !.reply = r]
    <3>2. conn' = [conn EXCEPT ![c] = v] /\ v.pc = pc
      BY <1>1, <3>1 DEF HasFields, Free
    <3> QED
      BY <3>2, ZenonT(30)
  <2>4. CASE \E k, a, t : conn' = [conn EXCEPT ![c].pc = pc, ![c].left = k, ![c].admin = a,
                                               ![c].truth = t]
    <3>1. PICK k, a, t : conn' = [conn EXCEPT ![c].pc = pc, ![c].left = k, ![c].admin = a,
                                              ![c].truth = t]
      BY <2>4
    <3> DEFINE v == [conn[c] EXCEPT !.pc = pc, !.left = k, !.admin = a, !.truth = t]
    <3>2. conn' = [conn EXCEPT ![c] = v] /\ v.pc = pc
      BY <1>1, <3>1 DEF HasFields, Free
    <3> QED
      BY <3>2, ZenonT(30)
  <2>5. CASE \E k, q, r : conn' = [conn EXCEPT ![c].pc = pc, ![c].left = k, ![c].req = q,
                                               ![c].reply = r]
    <3>1. PICK k, q, r : conn' = [conn EXCEPT ![c].pc = pc, ![c].left = k, ![c].req = q,
                                              ![c].reply = r]
      BY <2>5
    <3> DEFINE v == [conn[c] EXCEPT !.pc = pc, !.left = k, !.req = q, !.reply = r]
    <3>2. conn' = [conn EXCEPT ![c] = v] /\ v.pc = pc
      BY <1>1, <3>1 DEF HasFields, Free
    <3> QED
      BY <3>2, ZenonT(30)
  <2> QED
    BY <2>1, <2>2, <2>3, <2>4, <2>5
<1> QED
  BY <1>2, OneElsewhere, ZenonT(30)

LEMMA HandlerElsewhere ==
    ASSUME ConnsOk, NEW c \in Conns, Handler(c),
           ~RunSchedule(c), ~RunScheduleRead(c), ~RunScheduleSave(c)
    PROVE  Elsewhere
<1>1. ASSUME Dropped(c) PROVE Elsewhere
  BY <1>1, FreeOk, OneElsewhere, Zenon DEF Dropped
<1>2. CASE Accept(c)
  <2>1. ASSUME Identify(c) PROVE Elsewhere
    <3>1. \E k, a, t : conn' = [conn EXCEPT ![c].pc = "read", ![c].left = k, ![c].admin = a,
                                            ![c].truth = t]
      BY <2>1, ZenonT(30) DEF Identify
    <3> QED
      BY <3>1, PlaceElsewhere, Zenon
  <2> QED
    BY <1>1, <1>2, <2>1 DEF Accept
<1>3. CASE Read(c)
  <2>1. \/ \E r : conn' = [conn EXCEPT ![c].pc = "dispatch", ![c].req = r]
        \/ \E k, r : conn' = [conn EXCEPT ![c].pc = "reply", ![c].left = k, ![c].reply = r]
    BY <1>3 DEF Read
  <2> QED
    BY <2>1, PlaceElsewhere, Zenon
<1>4. CASE Hangup(c)
  BY <1>4, FreeOk, OneElsewhere, Zenon DEF Hangup
<1>5. CASE Reply(c)
  <2>1. \E k, q, r : conn' = [conn EXCEPT ![c].pc = "read", ![c].left = k, ![c].req = q,
                                          ![c].reply = r]
    BY <1>5 DEF Reply
  <2> QED
    BY <2>1, PlaceElsewhere, Zenon
<1>6. CASE ReplyFails(c)
  BY <1>1, <1>6, Zenon DEF ReplyFails
<1>7. CASE LookUp(c)
  BY <1>7, PlaceElsewhere, AnswerElsewhere, Zenon DEF LookUp
<1>8. CASE Refuse(c)
  BY <1>8, AnswerElsewhere DEF Refuse
<1>9. CASE Query(c)
  BY <1>9, AnswerElsewhere DEF Query
<1>10. CASE ReadReport(c)
  BY <1>10, AnswerElsewhere DEF ReadReport
<1>11. CASE CancelJob(c)
  BY <1>11, AnswerElsewhere DEF CancelJob
<1>12. CASE Scan(c)
  BY <1>12, AnswerElsewhere DEF Scan, SubmitFor
<1>13. CASE SystemCheck(c)
  BY <1>13, AnswerElsewhere DEF SystemCheck, SubmitFor
<1>14. CASE QuarantineOp(c)
  BY <1>14, AnswerElsewhere DEF QuarantineOp
<1>15. CASE VerifyAudit(c)
  BY <1>15, AnswerElsewhere DEF VerifyAudit
<1> QED
  BY <1>2, <1>3, <1>4, <1>5, <1>6, <1>7, <1>8, <1>9, <1>10, <1>11, <1>12, <1>13, <1>14, <1>15
     DEF Handler

\* The steps that are about the schedules.
Scheduling ==
    \/ Scheduler \/ Restart
    \/ \E c \in Conns : RunSchedule(c) \/ RunScheduleRead(c) \/ RunScheduleSave(c)

LEMMA QuietSteps ==
    ASSUME Rest, ConnsOk, [Next]_vars
    PROVE  Quiet \/ Scheduling
<1>1. now \in Times /\ now <= now
  BY SizesAssumption DEF Rest, Times
<1>2. UNCHANGED conn => Elsewhere
  BY DEF Elsewhere
<1>3. CASE \E c \in Conns : Handler(c) /\ ~RunSchedule(c) /\ ~RunScheduleRead(c)
                              /\ ~RunScheduleSave(c)
  <2>1. PICK c \in Conns : Handler(c) /\ ~RunSchedule(c) /\ ~RunScheduleRead(c)
                             /\ ~RunScheduleSave(c)
    BY <1>3
  <2>2. Elsewhere
    BY <2>1, HandlerElsewhere, Zenon
  <2>3. UNCHANGED <<config, now, last, sched, started, calm>>
    BY <2>1, Zenon DEF Handler, Accept, Read, Hangup, Refuse, Query, LookUp, ReadReport, CancelJob,
                Scan, SystemCheck, QuarantineOp, VerifyAudit, Reply, ReplyFails
  <2> QED
    BY <1>1, <2>2, <2>3 DEF Quiet
<1>4. CASE \E c \in Clients, uid \in Uids(config) : Connect(c, uid)
  <2>1. PICK c \in Clients, uid \in Uids(config) : Connect(c, uid)
    BY <1>4
  <2> DEFINE r == [Free EXCEPT !.pc = "backlog", !.uid = uid]
  <2>2. r.pc = "backlog" /\ conn' = [conn EXCEPT ![c] = r]
    BY <2>1 DEF Connect, Free
  <2> HIDE DEF r
  <2>3. Elsewhere
    BY <2>2, OneElsewhere DEF Conns
  <2> QED
    BY <1>1, <2>1, <2>3 DEF Connect, Quiet
<1>5. CASE CommandLine
  <2>1. UNCHANGED <<config, now, last, sched, started, calm>>
    BY <1>5 DEF CommandLine, CliConnect, CliGivesUp, CliStart
  <2>2. Elsewhere
    <3>1. CASE CliConnect
      <4> DEFINE r == [Free EXCEPT !.pc = "backlog", !.uid = cli.cmd.uid]
      <4>1. r.pc = "backlog" /\ conn' = [conn EXCEPT ![Cli] = r]
        BY <3>1 DEF CliConnect, Free
      <4> HIDE DEF r
      <4> QED
        BY <4>1, OneElsewhere DEF Conns
    <3>2. CASE CliGivesUp
      BY <3>2, FreeOk, OneElsewhere DEF CliGivesUp, Conns
    <3>3. CASE \E cmd \in Commands(config) : CliStart(cmd)
      BY <1>2, <3>3 DEF CliStart
    <3> QED
      BY <1>5, <3>1, <3>2, <3>3 DEF CommandLine
  <2> QED
    BY <1>1, <2>1, <2>2 DEF Quiet
<1>6. CASE \E j \in JobIds : JobRuns(j) \/ JobEnds(j) \/ JobPruned(j)
  BY <1>1, <1>2, <1>6 DEF JobRuns, JobEnds, JobPruned, Quiet
<1>7. CASE Tick
  <2>1. now' \in Times /\ now <= now'
    BY <1>1, <1>7, SizesAssumption DEF Tick, Times
  <2> QED
    BY <1>2, <1>7, <2>1 DEF Tick, Quiet
<1>8. CASE EditAccounts
  BY <1>1, <1>2, <1>8 DEF EditAccounts, Quiet
<1>9. CASE UNCHANGED vars
  BY <1>1, <1>2, <1>9 DEF vars, Quiet
<1> QED
  BY <1>3, <1>4, <1>5, <1>6, <1>7, <1>8, <1>9 DEF Next, Conns, Scheduling

----------------------------------------------------------------------------
(* The tables of last runs and the starts.                                 *)

\* Starts only move forward.
Later(a, b) ==
    /\ DOMAIN b = DOMAIN a
    /\ \A n \in DOMAIN a : a[n] \in Times => b[n] \in Times /\ a[n] <= b[n]

LEMMA BehindLater ==
    ASSUME NEW table, NEW a, NEW b, Behind(table, a), Later(a, b)
    PROVE  Behind(table, b)
<1> SUFFICES ASSUME NEW n \in DOMAIN a, table[n] # None
             PROVE  table[n] \in Times /\ b[n] \in Times /\ table[n] <= b[n]
  BY DEF Behind, Later
<1>1. /\ table[n] \in Times /\ a[n] \in Times /\ table[n] <= a[n]
      /\ b[n] \in Times /\ a[n] <= b[n]
  BY DEF Behind, Later
<1>2. table[n] \in Int /\ a[n] \in Int /\ b[n] \in Int
  BY <1>1 DEF Times
<1> QED
  BY <1>1, <1>2

LEMMA RecordedBehind ==
    ASSUME NEW table, NEW starts, NEW n, NEW t \in Times, Behind(table, starts)
    PROVE  Behind([table EXCEPT ![n] = t], [starts EXCEPT ![n] = t])
<1>1. t <= t
  BY DEF Times
<1> QED
  BY <1>1 DEF Behind

\* A start now is later than any before.
LEMMA StartedNow ==
    ASSUME now \in Times, \A m \in DOMAIN started : started[m] \in 0..now \cup {None},
           NEW n, started' = [started EXCEPT ![n] = now]
    PROVE  /\ Later(started, started')
           /\ \A m \in DOMAIN started' : started'[m] \in 0..now \cup {None}
<1>1. now \in Nat /\ now \in 0..now
  BY SizesAssumption DEF Times
<1>2. \A m \in DOMAIN started : started[m] \in Times => started[m] \in Int /\ started[m] <= now
                                                        /\ started[m] <= started[m]
  <2> SUFFICES ASSUME NEW m \in DOMAIN started, started[m] \in Times
               PROVE  started[m] \in Int /\ started[m] <= now /\ started[m] <= started[m]
    OBVIOUS
  <2>1. started[m] # None /\ started[m] \in Int
    BY FirstRunsAssumption DEF Times
  <2>2. started[m] \in 0..now
    BY <2>1
  <2> QED
    BY <1>1, <2>1, <2>2
<1> QED
  BY <1>1, <1>2 DEF Later

\* The part of TablesBehind about the connections.
ConnTables ==
    \A c \in Conns :
        /\ conn[c].pc \in {"state", "save"} => conn[c].req.arg \in Schedules
        /\ conn[c].pc = "save" => Behind(conn[c].seen, started)

LEMMA TablesParts ==
    TablesBehind <=>
        /\ Schedules \subseteq DOMAIN started
        /\ \A n \in DOMAIN started : started[n] \in 0..now \cup {None}
        /\ Behind(last, started)
        /\ sched.pc # "sleep" => Behind(sched.seen, started)
        /\ sched.pc = "save" => Behind(sched.read, started)
        /\ ConnTables
BY DEF TablesBehind, ConnTables, Conns

LEMMA ConnTablesKept ==
    ASSUME ConnTables, UNCHANGED config, Later(started, started'), Elsewhere
    PROVE  ConnTables'
<1> SUFFICES ASSUME NEW c \in Conns
             PROVE  /\ conn'[c].pc \in {"state", "save"} => conn'[c].req.arg \in Schedules
                    /\ conn'[c].pc = "save" => Behind(conn'[c].seen, started')
  BY DEF ConnTables, Schedules
<1>1. CASE conn'[c].pc \in {"state", "save"}
  <2>1. conn'[c] = conn[c]
    BY <1>1 DEF Elsewhere
  <2>2. conn[c].pc = "save" => Behind(conn[c].seen, started')
    BY BehindLater DEF ConnTables
  <2> QED
    BY <2>1, <2>2 DEF ConnTables
<1> QED
  BY <1>1

LEMMA SameLater ==
    ASSUME UNCHANGED started
    PROVE  Later(started, started')
<1>1. \A n \in DOMAIN started : started[n] \in Times => started[n] <= started[n]
  BY DEF Times
<1> QED
  BY <1>1 DEF Later

\* A range that ends later.
LEMMA LongerRange ==
    ASSUME NEW a \in Nat, NEW b \in Nat, a <= b, NEW k \in Nat
    PROVE  \A x \in k..a : x \in k..b
OBVIOUS

\* Time alone changes nothing.
LEMMA QuietKeeps ==
    ASSUME Rest, RoundInv, Quiet
    PROVE  RoundInv'
<1>1. /\ UNCHANGED <<config, last, sched, started, calm>> /\ Elsewhere
      /\ now \in Nat /\ now' \in Nat /\ now <= now'
  BY SizesAssumption DEF Quiet, Rest, Times
<1>2. \A k \in Nat : \A x \in k..now : x \in k..now'
  BY <1>1, LongerRange
<1>3. Schedules' = Schedules
  BY <1>1 DEF Schedules
<1>4. TablesBehind'
  <2>1. ConnTables'
    BY <1>1, TablesParts, ConnTablesKept, SameLater DEF RoundInv
  <2>2. \A n \in DOMAIN started' : started'[n] \in 0..now' \cup {None}
    BY <1>1, <1>2 DEF RoundInv, TablesBehind
  <2> QED
    BY <1>1, <1>3, <2>1, <2>2 DEF RoundInv, TablesBehind, ConnTables, Conns
<1>5. TodoOk'
  <2>1. sched.at \in 0..now'
    BY <1>2 DEF RoundInv, TodoOk
  <2>2. sched.pc \in {"read", "save"} => started[Head(sched.todo).name] \in sched.at..now'
    <3>1. sched.at \in Nat
      BY <2>1, <1>1
    <3> QED
      BY <1>2, <3>1 DEF RoundInv, TodoOk
  <2> QED
    BY <1>1, <2>1, <2>2 DEF RoundInv, TodoOk
<1>6. CalmOk'
  BY <1>1, <1>3 DEF RoundInv, CalmOk, Ahead, Names
<1> QED
  BY <1>4, <1>5, <1>6 DEF RoundInv

----------------------------------------------------------------------------
(* The steps of the scheduler and of run_schedule.                         *)

Entries == {config.schedules[i] : i \in DOMAIN config.schedules}

LEMMA TailNames ==
    ASSUME NEW S, NEW s \in Seq(S), s # <<>>,
           \A i, j \in DOMAIN s : s[i].name = s[j].name => i = j
    PROVE  /\ Tail(s) \in Seq(S) /\ Head(s) \in S
           /\ \A i, j \in DOMAIN Tail(s) : Tail(s)[i].name = Tail(s)[j].name => i = j
           /\ Names(s) = {Head(s).name} \cup Names(Tail(s))
           /\ Head(s).name \notin Names(Tail(s))
<1>1. /\ Len(s) \in Nat \ {0} /\ DOMAIN s = 1..Len(s) /\ Head(s) = s[1] /\ 1 \in DOMAIN s
      /\ Tail(s) \in Seq(S) /\ Head(s) \in S
  OBVIOUS
<1>2. DOMAIN Tail(s) = 1..(Len(s) - 1)
  BY <1>1
<1>3. \A i \in DOMAIN Tail(s) : Tail(s)[i] = s[i + 1] /\ i + 1 \in DOMAIN s /\ i + 1 # 1
  BY <1>1, <1>2
<1>4. \A k \in DOMAIN s : k = 1 \/ (k - 1 \in DOMAIN Tail(s) /\ k - 1 + 1 = k)
  BY <1>1, <1>2
<1>5. \A i, j \in DOMAIN Tail(s) : Tail(s)[i].name = Tail(s)[j].name => i = j
  <2> SUFFICES ASSUME NEW i \in DOMAIN Tail(s), NEW j \in DOMAIN Tail(s),
                      Tail(s)[i].name = Tail(s)[j].name
               PROVE  i = j
    OBVIOUS
  <2>1. i + 1 = j + 1
    BY <1>3
  <2> QED
    BY <1>1, <1>2, <2>1
<1>6. Names(s) \subseteq {Head(s).name} \cup Names(Tail(s))
  <2> SUFFICES ASSUME NEW k \in DOMAIN s
               PROVE  s[k].name \in {Head(s).name} \cup Names(Tail(s))
    BY DEF Names
  <2>1. CASE k = 1
    BY <1>1, <2>1
  <2>2. CASE k # 1
    <3>1. k - 1 \in DOMAIN Tail(s) /\ Tail(s)[k - 1] = s[k]
      BY <1>3, <1>4, <2>2
    <3> QED
      BY <3>1 DEF Names
  <2> QED
    BY <2>1, <2>2
<1>7. {Head(s).name} \cup Names(Tail(s)) \subseteq Names(s)
  BY <1>1, <1>3 DEF Names
<1>8. Head(s).name \notin Names(Tail(s))
  BY <1>1, <1>3 DEF Names
<1> QED
  BY <1>1, <1>5, <1>6, <1>7, <1>8

\* What a round has to do while it goes on.
LEMMA TodoFacts ==
    ASSUME RoundInv, sched.pc # "sleep", sched.todo # <<>>
    PROVE  LET s == sched.todo
               n == Head(s).name
           IN  /\ n \in Schedules /\ n \in DOMAIN started
               /\ Tail(s) \in Seq(Entries)
               /\ \A i, j \in DOMAIN Tail(s) : Tail(s)[i].name = Tail(s)[j].name => i = j
               /\ Names(s) = {n} \cup Names(Tail(s)) /\ n \notin Names(Tail(s))
<1>1. /\ sched.todo \in Seq(Entries)
      /\ \A i, j \in DOMAIN sched.todo : sched.todo[i].name = sched.todo[j].name => i = j
  BY DEF RoundInv, TodoOk, Entries
<1>2. PICK s : s = sched.todo
  OBVIOUS
<1>3. /\ Tail(s) \in Seq(Entries) /\ Head(s) \in Entries
      /\ \A i, j \in DOMAIN Tail(s) : Tail(s)[i].name = Tail(s)[j].name => i = j
      /\ Names(s) = {Head(s).name} \cup Names(Tail(s))
      /\ Head(s).name \notin Names(Tail(s))
  BY <1>1, <1>2, TailNames
<1>4. Head(s).name \in Schedules
  BY <1>3 DEF Entries, Schedules
<1> QED
  BY <1>2, <1>3, <1>4 DEF RoundInv, TablesBehind

\* A round begins.
LEMMA RoundStartKeeps ==
    ASSUME Rest, RoundInv, RoundStart
    PROVE  RoundInv'
<1>1. /\ UNCHANGED <<config, now, last, conn, started, calm>> /\ sched.pc = "sleep"
      /\ sched'.pc = "each" /\ sched'.at = now /\ sched'.seen = last
      /\ sched'.todo = config.schedules
  BY DEF RoundStart, Idle
<1>2. /\ now \in Nat /\ config \in Configs
      /\ config.schedules \in Seq(Entries)
      /\ \A i, j \in DOMAIN config.schedules :
            config.schedules[i].name = config.schedules[j].name => i = j
  <2>1. now \in Nat /\ config \in Configs
    BY SizesAssumption DEF Rest, Times
  <2>2. config.schedules \in Seq(Entries)
    BY <2>1, FirstRunsAssumption DEF Entries
  <2>3. PICK w \in Worlds : config = Loaded(w) /\ config # None
    BY <2>1 DEF Configs
  <2>4. CASE config = DefaultConfig
    BY <2>1, <2>2, <2>4 DEF DefaultConfig
  <2>5. CASE config # DefaultConfig
    <3>1. ConfigOk(config, MaxPaths, MaxEvery)
      BY <2>3, <2>5 DEF Loaded, LoadConfig
    <3> QED
      BY <2>1, <2>2, <3>1 DEF ConfigOk, SchedulesOk
  <2> QED
    BY <2>4, <2>5
<1>3. Schedules' = Schedules /\ Entries' = Entries
  BY <1>1 DEF Schedules, Entries
<1>4. TablesBehind'
  <2>1. ConnTables'
    BY <1>1, TablesParts, ConnTablesKept, SameLater DEF RoundInv, Elsewhere
  <2> QED
    BY <1>1, <1>3, <2>1 DEF RoundInv, TablesBehind, ConnTables, Conns
<1>5. TodoOk'
  <2>1. now \in 0..now
    BY <1>2
  <2> QED
    BY <1>1, <1>2, <1>3, <2>1 DEF TodoOk, Entries
<1>6. CalmOk'
  BY <1>1, <1>3 DEF RoundInv, CalmOk
<1> QED
  BY <1>4, <1>5, <1>6 DEF RoundInv

\* The next schedule of a round.
LEMMA RoundEachKeeps ==
    ASSUME Rest, RoundInv, RoundEach
    PROVE  RoundInv'
<1> DEFINE n == Head(sched.todo).name
<1>1. /\ UNCHANGED <<config, now, last, conn>> /\ sched.pc = "each" /\ sched.todo # <<>>
      /\ now \in Times /\ now \in Nat
  BY SizesAssumption DEF RoundEach, Rest, Times
<1>2. Schedules' = Schedules /\ Entries' = Entries
  BY <1>1 DEF Schedules, Entries
<1>3. /\ n \in Schedules /\ n \in DOMAIN started /\ Tail(sched.todo) \in Seq(Entries)
      /\ \A i, j \in DOMAIN Tail(sched.todo) :
            Tail(sched.todo)[i].name = Tail(sched.todo)[j].name => i = j
      /\ Names(sched.todo) = {n} \cup Names(Tail(sched.todo))
      /\ n \notin Names(Tail(sched.todo))
  BY <1>1, TodoFacts
<1>4. HasFields(sched, DOMAIN Idle)
  BY DEF Rest, TablesOk
<1>5. CASE UNCHANGED <<started, calm>> /\ sched'.pc = "each"
           /\ sched'.todo = Tail(sched.todo) /\ sched'.seen = sched.seen /\ sched'.at = sched.at
  <2>1. ConnTables'
    BY <1>1, <1>5, TablesParts, ConnTablesKept, SameLater DEF RoundInv, Elsewhere
  <2>2. TablesBehind'
    BY <1>1, <1>2, <1>5, <2>1 DEF RoundInv, TablesBehind, ConnTables, Conns
  <2>3. TodoOk'
    BY <1>1, <1>2, <1>3, <1>5 DEF RoundInv, TodoOk, Entries
  <2>4. CalmOk'
    BY <1>1, <1>2, <1>3, <1>5 DEF RoundInv, CalmOk, Ahead
  <2> QED
    BY <2>2, <2>3, <2>4 DEF RoundInv
<1>6. CASE /\ sched' = [sched EXCEPT !.pc = "read"]
           /\ started' = [started EXCEPT ![n] = now] /\ calm' = calm \ {n}
  <2>1. /\ sched'.pc = "read" /\ sched'.todo = sched.todo /\ sched'.seen = sched.seen
        /\ sched'.at = sched.at
    BY <1>4, <1>6 DEF HasFields, Idle
  <2>2. /\ Later(started, started')
        /\ \A m \in DOMAIN started' : started'[m] \in 0..now \cup {None}
    BY <1>1, <1>6, StartedNow DEF RoundInv, TablesBehind
  <2>3. ConnTables'
    BY <1>1, <2>2, TablesParts, ConnTablesKept DEF RoundInv, Elsewhere
  <2>4. Behind(last, started') /\ Behind(sched.seen, started')
    BY <1>1, <2>2, BehindLater DEF RoundInv, TablesBehind
  <2>5. DOMAIN started' = DOMAIN started /\ started'[n] = now
        /\ \A m \in DOMAIN started \ {n} : started'[m] = started[m]
    BY <1>3, <1>6
  <2> HIDE DEF n
  <2>6. TablesBehind'
    BY <1>1, <1>2, <2>1, <2>2, <2>3, <2>4, <2>5, TablesParts
       DEF RoundInv, TablesBehind, ConnTables, Conns
  <2>7. TodoOk'
    <3>1. sched.at \in 0..now
      BY DEF RoundInv, TodoOk
    <3>2. now \in sched.at..now
      BY <1>1, <3>1
    <3> QED
      BY <1>1, <1>2, <2>1, <2>5, <3>1, <3>2 DEF RoundInv, TodoOk, n
  <2>8. CalmOk'
    <3> SUFFICES ASSUME NEW m \in calm, m # n
                 PROVE  /\ m \in Schedules /\ started'[m] # None /\ last[m] = started'[m]
                        /\ m \in Names(Tail(sched.todo)) => sched.seen[m] = started'[m]
      BY <1>1, <1>2, <1>6, <2>1 DEF CalmOk, Ahead
    <3>1. /\ m \in Schedules /\ started[m] # None /\ last[m] = started[m]
          /\ m \in Names(sched.todo) => sched.seen[m] = started[m]
      BY <1>1 DEF RoundInv, CalmOk, Ahead
    <3>2. started'[m] = started[m]
      BY <2>5, <3>1 DEF RoundInv, TablesBehind
    <3> QED
      BY <1>3, <3>1, <3>2
  <2> QED
    BY <2>6, <2>7, <2>8 DEF RoundInv
<1>7. \/ UNCHANGED <<started, calm>> /\ \E x : sched' = [sched EXCEPT !.todo = Tail(@), !.refused = x]
      \/ /\ sched' = [sched EXCEPT !.pc = "read"]
         /\ started' = [started EXCEPT ![n] = now] /\ calm' = calm \ {n}
  <2>1. sched.refused = sched.refused /\ [sched EXCEPT !.todo = Tail(@)]
          = [sched EXCEPT !.todo = Tail(@), !.refused = sched.refused]
    BY <1>4 DEF HasFields, Idle
  <2>2. [[sched EXCEPT !.todo = Tail(@)] EXCEPT !.refused = @ \cup {n}]
          = [sched EXCEPT !.todo = Tail(@), !.refused = sched.refused \cup {n}]
    BY <1>4 DEF HasFields, Idle
  <2> QED
    BY <2>1, <2>2 DEF RoundEach
<1>8. ASSUME NEW x, sched' = [sched EXCEPT !.todo = Tail(@), !.refused = x]
      PROVE  /\ sched'.pc = "each" /\ sched'.todo = Tail(sched.todo)
             /\ sched'.seen = sched.seen /\ sched'.at = sched.at
  BY <1>1, <1>4, <1>8 DEF HasFields, Idle
<1> HIDE DEF n
<1> QED
  BY <1>5, <1>6, <1>7, <1>8

\* The table is read again before a start is recorded.
LEMMA StartReadKeeps ==
    ASSUME Rest, RoundInv, StartRead
    PROVE  RoundInv'
<1>1. /\ UNCHANGED <<config, now, last, conn, started, calm>> /\ sched.pc = "read"
      /\ sched' = [sched EXCEPT !.pc = "save", !.read = last]
  BY DEF StartRead
<1>2. /\ sched'.pc = "save" /\ sched'.read = last /\ sched'.todo = sched.todo
      /\ sched'.seen = sched.seen /\ sched'.at = sched.at
  BY <1>1 DEF Rest, TablesOk, HasFields, Idle
<1>3. Schedules' = Schedules
  BY <1>1 DEF Schedules
<1>4. ConnTables'
  BY <1>1, TablesParts, ConnTablesKept, SameLater DEF RoundInv, Elsewhere
<1>5. TablesBehind'
  BY <1>1, <1>2, <1>3, <1>4 DEF RoundInv, TablesBehind, ConnTables, Conns
<1>6. TodoOk'
  BY <1>1, <1>2 DEF RoundInv, TodoOk
<1>7. CalmOk'
  BY <1>1, <1>2, <1>3 DEF RoundInv, CalmOk, Ahead
<1> QED
  BY <1>5, <1>6, <1>7 DEF RoundInv

\* A start is recorded, or the write fails.
LEMMA StartSaveKeeps ==
    ASSUME Rest, RoundInv, StartSave
    PROVE  RoundInv'
<1>1. PICK n : n = Head(sched.todo).name
  OBVIOUS
<1>2. /\ UNCHANGED <<config, now, conn>> /\ sched.pc = "save" /\ sched.todo # <<>>
      /\ now \in Times /\ now \in Nat
  BY SizesAssumption DEF StartSave, Rest, Times, RoundInv, TodoOk
<1>3. Schedules' = Schedules /\ Entries' = Entries
  BY <1>2 DEF Schedules, Entries
<1>4. /\ n \in Schedules /\ n \in DOMAIN started /\ Tail(sched.todo) \in Seq(Entries)
      /\ \A i, j \in DOMAIN Tail(sched.todo) :
            Tail(sched.todo)[i].name = Tail(sched.todo)[j].name => i = j
      /\ n \notin Names(Tail(sched.todo))
  BY <1>1, <1>2, TodoFacts
<1>5. /\ sched'.pc = "each" /\ sched'.todo = Tail(sched.todo)
      /\ sched'.seen = sched.seen /\ sched'.at = sched.at
  BY DEF StartSave, Rest, TablesOk, HasFields, Idle
<1>6. TodoOk'
  BY <1>2, <1>3, <1>4, <1>5 DEF RoundInv, TodoOk, Entries
<1>7. CASE UNCHANGED <<last, started, calm>>
  <2>1. ConnTables'
    BY <1>2, <1>7, TablesParts, ConnTablesKept, SameLater DEF RoundInv, Elsewhere
  <2>2. TablesBehind'
    BY <1>2, <1>3, <1>5, <1>7, <2>1 DEF RoundInv, TablesBehind, ConnTables, Conns
  <2>3. CalmOk'
    BY <1>2, <1>3, <1>5, <1>7 DEF RoundInv, CalmOk, Ahead
  <2> QED
    BY <1>6, <2>2, <2>3 DEF RoundInv
<1>8. CASE /\ last' = [sched.read EXCEPT ![n] = now] /\ started' = [started EXCEPT ![n] = now]
           /\ calm' = {m \in calm : last'[m] = last[m]} \cup {n}
  <2>1. /\ Later(started, started')
        /\ \A m \in DOMAIN started' : started'[m] \in 0..now \cup {None}
    BY <1>2, <1>8, StartedNow DEF RoundInv, TablesBehind
  <2>2. ConnTables'
    BY <1>2, <2>1, TablesParts, ConnTablesKept DEF RoundInv, Elsewhere
  <2>3. Behind(sched.seen, started')
    BY <1>2, <2>1, BehindLater DEF RoundInv, TablesBehind
  <2>4. Behind(last', started') /\ Behind(sched.read, started)
    BY <1>2, <1>8, RecordedBehind DEF RoundInv, TablesBehind
  <2>5. DOMAIN started' = DOMAIN started /\ started'[n] = now /\ last'[n] = now
        /\ \A m \in DOMAIN started \ {n} : started'[m] = started[m]
    BY <1>4, <1>8, <2>4 DEF Behind
  <2>6. TablesBehind'
    BY <1>2, <1>3, <1>5, <2>1, <2>2, <2>3, <2>4, <2>5 DEF RoundInv, TablesBehind, ConnTables, Conns
  <2>7. CalmOk'
    <3>1. ASSUME NEW m \in calm, m # n, last'[m] = last[m]
          PROVE  /\ m \in Schedules /\ started'[m] # None /\ last'[m] = started'[m]
                 /\ m \in Names(Tail(sched.todo)) => sched.seen[m] = started'[m]
      <4>1. /\ m \in Schedules /\ started[m] # None /\ last[m] = started[m]
            /\ m \in Names(Tail(sched.todo)) => sched.seen[m] = started[m]
        BY <1>2 DEF RoundInv, CalmOk, Ahead
      <4>2. started'[m] = started[m]
        BY <2>5, <3>1, <4>1 DEF RoundInv, TablesBehind
      <4> QED
        BY <3>1, <4>1, <4>2
    <3>2. now # None
      BY <1>2, FirstRunsAssumption
    <3> QED
      BY <1>3, <1>4, <1>5, <1>8, <2>5, <3>1, <3>2 DEF CalmOk, Ahead
  <2> QED
    BY <1>6, <2>6, <2>7 DEF RoundInv
<1> QED
  BY <1>1, <1>7, <1>8 DEF StartSave

\* A round is over, or the service dies and starts again.
LEMMA AsleepKeeps ==
    ASSUME Rest, RoundInv, UNCHANGED <<config, now, last, started, calm>>, Elsewhere,
           sched'.pc = "sleep", sched'.at \in {0, sched.at}
    PROVE  RoundInv'
<1>1. Schedules' = Schedules /\ now \in Nat
  BY SizesAssumption DEF Schedules, Rest, Times
<1>2. ConnTables'
  BY TablesParts, ConnTablesKept, SameLater DEF RoundInv
<1>3. TablesBehind'
  BY <1>1, <1>2 DEF RoundInv, TablesBehind, ConnTables, Conns
<1>4. TodoOk'
  <2>1. 0 \in 0..now
    BY <1>1
  <2> QED
    BY <2>1 DEF RoundInv, TodoOk
<1>5. CalmOk'
  BY <1>1 DEF RoundInv, CalmOk
<1> QED
  BY <1>3, <1>4, <1>5 DEF RoundInv

LEMMA RestartElsewhere ==
    ASSUME ConnsOk, Restart
    PROVE  Elsewhere
<1>1. \A d \in Conns : conn'[d] = Free
  BY DEF Restart, ConnsOk, HasFields, Conns
<1> QED
  BY <1>1, FreeOk DEF Elsewhere

\* run_schedule: the job is submitted.
LEMMA RunScheduleKeeps ==
    ASSUME Rest, ConnsOk, RoundInv, NEW c \in Conns, RunSchedule(c)
    PROVE  RoundInv'
<1>1. UNCHANGED <<config, now, last, sched>> /\ now \in Times /\ now \in Nat
  BY SizesAssumption DEF RunSchedule, Rest, Times
<1>2. PICK n : n = conn[c].req.arg
  OBVIOUS
<1>3. Schedules' = Schedules
  BY <1>1 DEF Schedules
<1>4. CASE UNCHANGED <<started, calm>> /\ \E code : Answer(c, Error(code))
  <2>1. Elsewhere
    BY <1>4, AnswerElsewhere
  <2>2. now <= now
    BY <1>1
  <2>3. Quiet
    BY <1>1, <1>4, <2>1, <2>2 DEF Quiet
  <2> QED
    BY <2>3, QuietKeeps
<1>5. CASE /\ n \in Schedules /\ started' = [started EXCEPT ![n] = now] /\ calm' = calm \ {n}
           /\ \E r : conn' = [conn EXCEPT ![c].pc = "state", ![c].reply = r]
  <2>1. /\ Later(started, started')
        /\ \A m \in DOMAIN started' : started'[m] \in 0..now \cup {None}
    BY <1>1, <1>5, StartedNow DEF RoundInv, TablesBehind
  <2>2. n \in DOMAIN started /\ DOMAIN started' = DOMAIN started /\ started'[n] = now
        /\ \A m \in DOMAIN started \ {n} : started'[m] = started[m]
    BY <1>5 DEF RoundInv, TablesBehind
  <2>3. /\ conn'[c].pc = "state" /\ conn'[c].req = conn[c].req
        /\ \A d \in Conns \ {c} : conn'[d] = conn[d]
    <3>1. HasFields(conn[c], DOMAIN Free) /\ HasFields(conn, Conns)
      BY DEF ConnsOk, ConnOk, Conns
    <3>2. PICK r : conn' = [conn EXCEPT ![c].pc = "state", ![c].reply = r]
      BY <1>5
    <3> QED
      BY <3>1, <3>2 DEF HasFields, Free
  <2>4. ConnTables'
    <3> SUFFICES ASSUME NEW d \in Conns
                 PROVE  /\ conn'[d].pc \in {"state", "save"} => conn'[d].req.arg \in Schedules
                        /\ conn'[d].pc = "save" => Behind(conn'[d].seen, started')
      BY <1>3 DEF ConnTables
    <3>1. CASE d = c
      BY <1>2, <1>5, <2>3, <3>1
    <3>2. CASE d # c
      <4>1. conn[d].pc = "save" => Behind(conn[d].seen, started')
        BY <2>1, BehindLater, TablesParts DEF ConnTables, RoundInv
      <4> QED
        BY <2>3, <3>2, <4>1, TablesParts DEF ConnTables, RoundInv
    <3> QED
      BY <3>1, <3>2
  <2>5. /\ Behind(last, started')
        /\ sched.pc # "sleep" => Behind(sched.seen, started')
        /\ sched.pc = "save" => Behind(sched.read, started')
    BY <2>1, BehindLater DEF RoundInv, TablesBehind
  <2>6. TablesBehind'
    BY <1>1, <1>3, <2>1, <2>2, <2>4, <2>5 DEF RoundInv, TablesBehind, ConnTables, Conns
  <2>7. TodoOk'
    <3>1. sched.at \in 0..now /\ now \in sched.at..now
      BY <1>1 DEF RoundInv, TodoOk
    <3>2. \A m \in DOMAIN started : started'[m] = started[m] \/ started'[m] = now
      BY <2>2
    <3>3. ASSUME sched.pc \in {"read", "save"}
          PROVE  started'[Head(sched.todo).name] \in sched.at..now
      <4>1. sched.todo # <<>> /\ started[Head(sched.todo).name] \in sched.at..now
        BY <3>3 DEF RoundInv, TodoOk
      <4>2. Head(sched.todo).name \in DOMAIN started
        BY <3>3, <4>1, TodoFacts
      <4> QED
        BY <3>1, <3>2, <4>1, <4>2
    <3> QED
      BY <1>1, <3>1, <3>3 DEF RoundInv, TodoOk
  <2>8. CalmOk'
    <3> SUFFICES ASSUME NEW m \in calm, m # n
                 PROVE  /\ m \in Schedules /\ started'[m] # None /\ last[m] = started'[m]
                        /\ sched.pc # "sleep" /\ m \in Ahead => sched.seen[m] = started'[m]
      BY <1>1, <1>3, <1>5 DEF CalmOk, Ahead
    <3>1. /\ m \in Schedules /\ started[m] # None /\ last[m] = started[m]
          /\ sched.pc # "sleep" /\ m \in Ahead => sched.seen[m] = started[m]
      BY DEF RoundInv, CalmOk
    <3>2. started'[m] = started[m]
      BY <2>2, <3>1 DEF RoundInv, TablesBehind
    <3> QED
      BY <3>1, <3>2
  <2> QED
    BY <2>6, <2>7, <2>8 DEF RoundInv
<1> QED
  BY <1>2, <1>4, <1>5 DEF RunSchedule

\* run_schedule: the table is read, then written.
LEMMA RunScheduleReadKeeps ==
    ASSUME Rest, ConnsOk, RoundInv, NEW c \in Conns, RunScheduleRead(c)
    PROVE  RoundInv'
<1>1. UNCHANGED <<config, now, last, sched, started, calm>> /\ conn[c].pc = "state"
  BY DEF RunScheduleRead
<1>2. Schedules' = Schedules
  BY <1>1 DEF Schedules
<1>3. /\ conn'[c].pc = "save" /\ conn'[c].req = conn[c].req /\ conn'[c].seen = last
      /\ \A d \in Conns \ {c} : conn'[d] = conn[d]
  <2>1. HasFields(conn[c], DOMAIN Free) /\ HasFields(conn, Conns)
    BY DEF ConnsOk, ConnOk, Conns
  <2> QED
    BY <2>1 DEF RunScheduleRead, HasFields, Free
<1>4. ConnTables'
  <2> SUFFICES ASSUME NEW d \in Conns
               PROVE  /\ conn'[d].pc \in {"state", "save"} => conn'[d].req.arg \in Schedules
                      /\ conn'[d].pc = "save" => Behind(conn'[d].seen, started)
    BY <1>1, <1>2 DEF ConnTables
  <2>1. CASE d = c
    BY <1>1, <1>3, <2>1, TablesParts DEF ConnTables, RoundInv
  <2>2. CASE d # c
    BY <1>3, <2>2, TablesParts DEF ConnTables, RoundInv
  <2> QED
    BY <2>1, <2>2
<1>5. TablesBehind'
  BY <1>1, <1>2, <1>4 DEF RoundInv, TablesBehind, ConnTables, Conns
<1>6. TodoOk'
  BY <1>1 DEF RoundInv, TodoOk
<1>7. CalmOk'
  BY <1>1, <1>2 DEF RoundInv, CalmOk, Ahead
<1> QED
  BY <1>5, <1>6, <1>7 DEF RoundInv

LEMMA RunScheduleSaveKeeps ==
    ASSUME Rest, ConnsOk, RoundInv, NEW c \in Conns, RunScheduleSave(c)
    PROVE  RoundInv'
<1>1. /\ UNCHANGED <<config, now, sched>> /\ conn[c].pc = "save"
      /\ now \in Times /\ now \in Nat /\ now # None
  BY SizesAssumption, FirstRunsAssumption DEF RunScheduleSave, Rest, Times
<1>2. Schedules' = Schedules
  BY <1>1 DEF Schedules
<1>3. Elsewhere
  <2>1. HasFields(conn[c], DOMAIN Free) /\ HasFields(conn, Conns)
    BY DEF ConnsOk, ConnOk, Conns
  <2>2. conn'[c].pc = "reply" /\ \A d \in Conns \ {c} : conn'[d] = conn[d]
    BY <2>1 DEF RunScheduleSave, HasFields, Free
  <2> QED
    BY <2>2 DEF Elsewhere
<1>4. PICK n : n = conn[c].req.arg
  OBVIOUS
<1>5. n \in Schedules /\ n \in DOMAIN started /\ Behind(conn[c].seen, started)
  BY <1>1, <1>4, TablesParts DEF ConnTables, RoundInv
<1>6. CASE UNCHANGED <<last, started, calm>>
  <2>1. now <= now
    BY <1>1
  <2>2. Quiet
    BY <1>1, <1>3, <1>6, <2>1 DEF Quiet
  <2> QED
    BY <2>2, QuietKeeps
<1>7. CASE /\ last' = [conn[c].seen EXCEPT ![n] = now]
           /\ started' = [started EXCEPT ![n] = now]
           /\ calm' = {m \in calm : last'[m] = last[m]}
                      \cup (IF sched.pc = "sleep" THEN {n} ELSE {})
  <2>1. /\ Later(started, started')
        /\ \A m \in DOMAIN started' : started'[m] \in 0..now \cup {None}
    BY <1>1, <1>7, StartedNow DEF RoundInv, TablesBehind
  <2>2. ConnTables'
    BY <1>1, <1>3, <2>1, TablesParts, ConnTablesKept DEF RoundInv
  <2>3. Behind(last', started')
    BY <1>1, <1>5, <1>7, RecordedBehind
  <2>4. DOMAIN started' = DOMAIN started /\ started'[n] = now /\ last'[n] = now
        /\ \A m \in DOMAIN started \ {n} : started'[m] = started[m]
    BY <1>5, <1>7 DEF Behind
  <2>5. /\ sched.pc # "sleep" => Behind(sched.seen, started')
        /\ sched.pc = "save" => Behind(sched.read, started')
    BY <2>1, BehindLater DEF RoundInv, TablesBehind
  <2>6. TablesBehind'
    BY <1>1, <1>2, <2>1, <2>2, <2>3, <2>4, <2>5 DEF RoundInv, TablesBehind, ConnTables, Conns
  <2>7. TodoOk'
    <3>1. sched.at \in 0..now /\ now \in sched.at..now
      BY <1>1 DEF RoundInv, TodoOk
    <3>2. \A m \in DOMAIN started : started'[m] = started[m] \/ started'[m] = now
      BY <2>4
    <3>3. ASSUME sched.pc \in {"read", "save"}
          PROVE  started'[Head(sched.todo).name] \in sched.at..now
      <4>1. sched.todo # <<>> /\ started[Head(sched.todo).name] \in sched.at..now
        BY <3>3 DEF RoundInv, TodoOk
      <4>2. Head(sched.todo).name \in DOMAIN started
        BY <3>3, <4>1, TodoFacts
      <4> QED
        BY <3>1, <3>2, <4>1, <4>2
    <3> QED
      BY <1>1, <3>1, <3>3 DEF RoundInv, TodoOk
  <2>8. CalmOk'
    <3>1. ASSUME NEW m \in calm, last'[m] = last[m]
          PROVE  /\ m \in Schedules /\ started'[m] # None /\ last'[m] = started'[m]
                 /\ sched.pc # "sleep" /\ m \in Ahead => sched.seen[m] = started'[m]
      <4>1. /\ m \in Schedules /\ started[m] # None /\ last[m] = started[m]
            /\ sched.pc # "sleep" /\ m \in Ahead => sched.seen[m] = started[m]
        BY DEF RoundInv, CalmOk
      <4>2. started'[m] = started[m]
        <5>1. CASE m = n
          BY <2>4, <3>1, <4>1, <5>1
        <5>2. CASE m # n
          BY <2>4, <4>1, <5>2 DEF RoundInv, TablesBehind
        <5> QED
          BY <5>1, <5>2
      <4> QED
        BY <3>1, <4>1, <4>2
    <3>2. sched.pc = "sleep" => started'[n] # None /\ last'[n] = started'[n]
      BY <1>1, <2>4
    <3> QED
      BY <1>1, <1>2, <1>5, <1>7, <3>1, <3>2 DEF CalmOk, Ahead
  <2> QED
    BY <2>6, <2>7, <2>8 DEF RoundInv
<1> QED
  BY <1>4, <1>6, <1>7 DEF RunScheduleSave

----------------------------------------------------------------------------
(* Undisturbed starts, and that runs never pile up.                        *)

LEMMA RoundInvStep ==
    ASSUME Rest, ConnsOk, RoundInv, [Next]_vars
    PROVE  RoundInv'
<1>1. CASE Quiet
  BY <1>1, QuietKeeps
<1>2. CASE RoundEnd
  <2>1. sched'.pc = "sleep" /\ sched'.at = sched.at
    BY <1>2 DEF RoundEnd, Idle
  <2>2. UNCHANGED <<config, now, last, started, calm>> /\ Elsewhere
    BY <1>2 DEF RoundEnd, Elsewhere
  <2> QED
    BY <2>1, <2>2, AsleepKeeps
<1>3. CASE Restart
  <2>1. sched'.pc = "sleep" /\ sched'.at = 0
    BY <1>3 DEF Restart, Idle
  <2>2. UNCHANGED <<config, now, last, started, calm>> /\ Elsewhere
    BY <1>3, RestartElsewhere DEF Restart
  <2> QED
    BY <2>1, <2>2, AsleepKeeps
<1> QED
  BY <1>1, <1>2, <1>3, QuietSteps, RoundStartKeeps, RoundEachKeeps, StartReadKeeps,
     StartSaveKeeps, RunScheduleKeeps, RunScheduleReadKeeps, RunScheduleSaveKeeps
     DEF Scheduling, Scheduler

LEMMA InitRound == Init => RoundInv
<1> SUFFICES ASSUME Init PROVE RoundInv
  OBVIOUS
<1>1. config \in Configs
  BY DEF Init, Configs
<1>2. /\ now = 1 /\ last \in FirstRuns /\ started = last /\ calm = {}
      /\ sched.pc = "sleep" /\ sched.at = 0
      /\ \A c \in Conns : conn[c].pc = "none"
  BY DEF Init, Idle, Free, Conns
<1>3. \A n \in DOMAIN last : last[n] \in {0, 1, None}
  BY <1>2, FirstRunsAssumption
<1>4. Schedules \subseteq DOMAIN started
  <2>1. \A i \in DOMAIN config.schedules : config.schedules[i].name \in DOMAIN last
    BY <1>1, <1>2, FirstRunsAssumption
  <2> QED
    BY <1>2, <2>1 DEF Schedules
<1>5. 0 \in Times /\ 1 \in Times /\ 0 \in 0..1 /\ 1 \in 0..1 /\ 0 <= 0 /\ 1 <= 1
  BY SizesAssumption DEF Times
<1>6. Behind(last, started)
  BY <1>2, <1>3, <1>5 DEF Behind
<1>7. \A n \in DOMAIN started : started[n] \in 0..now \cup {None}
  BY <1>2, <1>3, <1>5
<1>8. TablesBehind
  BY <1>2, <1>4, <1>6, <1>7 DEF TablesBehind, Conns
<1>9. TodoOk
  BY <1>2, <1>5 DEF TodoOk
<1>10. CalmOk
  BY <1>2 DEF CalmOk
<1> QED
  BY <1>8, <1>9, <1>10 DEF RoundInv

LEMMA RoundsAreInOrder == Spec => []RoundInv
<1>1. IInv => Rest /\ ConnsOk
  BY InvParts DEF Books
<1>2. IInv /\ RoundInv /\ [Next]_vars => RoundInv'
  BY <1>1, RoundInvStep
<1> QED
  BY InitRound, <1>2, ServiceInvariant, PTL DEF Spec

\* The scheduler does not start what its last, undisturbed start still covers,
\* over suspends, restarts and runs that clients ask for (schedule.rs: "runs
\* never pile up").
THEOREM NoPileUp == Spec => RunsNeverPileUp
<1> DEFINE Step == \A n \in calm :
                     sched.pc = "each" /\ sched'.pc = "read" /\ Head(sched.todo).name = n
                        => ~Covers(n, sched.at)
<1>1. ASSUME IInv, RoundInv, [Next]_vars PROVE Step
  <2> SUFFICES ASSUME NEW n \in calm, sched.pc = "each", sched'.pc = "read",
                      Head(sched.todo).name = n
               PROVE  ~Covers(n, sched.at)
    OBVIOUS
  <2>1. Rest /\ ConnsOk
    BY <1>1, InvParts DEF Books
  <2>2. RoundEach
    <3>1. Quiet => sched' = sched
      BY DEF Quiet
    <3>2. RoundStart => sched'.pc = "each"
      BY DEF RoundStart, Idle
    <3>3. (RoundEnd \/ Restart) => sched'.pc = "sleep"
      <4>1. RoundEnd => sched'.pc = "sleep"
        BY DEF RoundEnd, Idle
      <4>2. Restart => sched'.pc = "sleep"
        BY DEF Restart, Idle
      <4> QED
        BY <4>1, <4>2
    <3>4. (StartRead \/ StartSave) => sched.pc # "each"
      BY DEF StartRead, StartSave
    <3>5. \A c : (RunSchedule(c) \/ RunScheduleRead(c) \/ RunScheduleSave(c)) => sched' = sched
      BY DEF RunSchedule, RunScheduleRead, RunScheduleSave
    <3> QED
      BY <1>1, <2>1, <3>1, <3>2, <3>3, <3>4, <3>5, QuietSteps DEF Scheduling, Scheduler
  <2>3. sched.todo # <<>>
    BY <2>2 DEF RoundEach
  <2>4. Due(n)
    <3>1. HasFields(sched, DOMAIN Idle)
      BY <2>1 DEF Rest, TablesOk
    <3>2. ~Due(n) => sched'.pc = "each"
      BY <2>2, <3>1 DEF RoundEach, HasFields, Idle
    <3> QED
      BY <3>2
  <2>5. n \in Names(sched.todo) /\ n \in Schedules /\ n \in DOMAIN started
    BY <1>1, <2>3, TodoFacts
  <2>6. sched.seen[n] = started[n] /\ started[n] # None
    BY <1>1, <2>5 DEF RoundInv, CalmOk, Ahead
  <2>7. sched.at \in Times /\ started[n] \in Times
    <3>1. now \in Nat /\ now <= Horizon /\ Horizon \in Nat
      BY <2>1, SizesAssumption DEF Rest, Times
    <3>2. sched.at \in 0..now /\ started[n] \in 0..now
      BY <1>1, <2>5, <2>6 DEF RoundInv, TodoOk, TablesBehind
    <3> QED
      BY <3>1, <3>2 DEF Times
  <2>8. ValidTimes(Schedule(n))
    BY <2>1, <2>5, ScheduleIsValid DEF Rest
  <2>9. sched.at >= NextDue(Schedule(n), started[n], sched.at)
    BY <2>4, <2>6 DEF Due
  <2> QED
    BY <2>7, <2>8, <2>9, DueIsNotCovered DEF Covers
<1>2. IInv /\ RoundInv /\ [Next]_vars => [Step]_vars
  BY <1>1
<1> QED
  BY <1>2, ServiceInvariant, RoundsAreInOrder, PTL DEF Spec, RunsNeverPileUp

----------------------------------------------------------------------------
(* What is due runs.                                                       *)

\* A schedule with a time of day has a last run in schedules.json.
DailyRanBefore ==
    \A f \in FirstRuns, c \in Configs : \A i \in DOMAIN c.schedules :
        c.schedules[i].at # None => f[c.schedules[i].name] # None

ConnRan == \A c \in Conns : conn[c].pc = "save" => Ran(AtATime, conn[c].seen)

LEMMA SameSchedules ==
    ASSUME UNCHANGED config
    PROVE  /\ Schedules' = Schedules /\ AtATime' = AtATime
           /\ \A n : Schedule(n)' = Schedule(n)
<1>1. Schedules' = Schedules
  BY DEF Schedules
<1>2. \A n : Schedule(n)' = Schedule(n)
  BY DEF Schedule, First, SE!SelectInSeq
<1>3. AtATime' = AtATime
  BY <1>1, <1>2 DEF AtATime
<1> QED
  BY <1>1, <1>2, <1>3

LEMMA ConnRanKept ==
    ASSUME ConnRan, UNCHANGED config, Elsewhere
    PROVE  ConnRan'
<1>1. AtATime' = AtATime
  BY SameSchedules
<1> QED
  BY <1>1 DEF ConnRan, Elsewhere

LEMMA RecordedRan ==
    ASSUME Rest, RoundInv, NEW table, NEW n, Behind(table, started), Ran(AtATime, table)
    PROVE  Ran(AtATime, [table EXCEPT ![n] = now])
<1>1. now # None
  BY FirstRunsAssumption DEF Rest
<1>2. AtATime \subseteq DOMAIN table
  BY DEF AtATime, RoundInv, TablesBehind, Behind
<1> QED
  BY <1>1, <1>2 DEF Ran

LEMMA LaterStarts ==
    ASSUME Rest, RoundInv,
           UNCHANGED started \/ \E n : started' = [started EXCEPT ![n] = now]
    PROVE  Later(started, started')
BY SameLater, StartedNow DEF Rest, RoundInv, TablesBehind

\* A start that covered a round still does, whatever starts later.
LEMMA StillCovered ==
    ASSUME Rest, RoundInv, UNCHANGED config, NEW n \in Schedules, Covered(n),
           sched'.at = sched.at, sched.refused \subseteq sched'.refused,
           Later(started, started')
    PROVE  Covered(n)'
<1>1. CASE n \in sched.refused
  BY <1>1 DEF Covered
<1>2. CASE started[n] # None /\ Covers(n, sched.at)
  <2>1. now \in Nat /\ now <= Horizon /\ Horizon \in Nat /\ None \notin Times
    BY SizesAssumption, FirstRunsAssumption DEF Rest, Times
  <2>2. started[n] \in 0..now /\ sched.at \in 0..now /\ n \in DOMAIN started
    BY <1>2 DEF RoundInv, TodoOk, TablesBehind
  <2>3. started[n] \in Times /\ started[n] \in Nat /\ sched.at \in Nat
    BY <2>1, <2>2 DEF Times
  <2>4. started'[n] \in Times /\ started[n] <= started'[n]
    BY <2>2, <2>3 DEF Later
  <2>5. started'[n] \in Nat /\ started'[n] # None
    BY <2>1, <2>4 DEF Times
  <2>6. ValidTimes(Schedule(n))
    BY ScheduleIsValid DEF Rest
  <2>7. CoversBy(Schedule(n), started'[n], sched.at)
    BY <1>2, <2>3, <2>4, <2>5, <2>6, LaterCovers DEF Covers
  <2>8. Schedule(n)' = Schedule(n)
    BY SameSchedules
  <2> QED
    BY <2>5, <2>7, <2>8 DEF Covered, Covers
<1> QED
  BY <1>1, <1>2 DEF Covered

\* A schedule that the round looks at and does not find due.
LEMMA NotDueCovered ==
    ASSUME Rest, RoundInv, DailyRan, NEW n \in Schedules, sched.pc # "sleep", ~Due(n)
    PROVE  started[n] # None /\ Covers(n, sched.at)
<1>1. PICK s : s = Schedule(n) /\ ValidTimes(s)
  BY ScheduleIsValid DEF Rest
<1>2. now \in Nat /\ now <= Horizon /\ Horizon \in Nat /\ None \notin Times
  BY SizesAssumption, FirstRunsAssumption DEF Rest, Times
<1>3. sched.at \in Times /\ sched.at \in Nat
  BY <1>2 DEF RoundInv, TodoOk, Times
<1>4. sched.seen[n] # None
  <2>1. CASE s.at # None
    BY <1>1, <2>1 DEF DailyRan, Ran, AtATime
  <2>2. ASSUME s.at = None, sched.seen[n] = None PROVE FALSE
    <3>1. NextDue(s, None, sched.at) = sched.at
      BY <2>2 DEF NextDue
    <3>2. sched.at >= sched.at
      BY <1>3
    <3> QED
      BY <1>1, <2>2, <3>1, <3>2 DEF Due
  <2> QED
    BY <2>1, <2>2
<1>5. /\ sched.seen[n] \in Times /\ started[n] \in Times /\ sched.seen[n] <= started[n]
  BY <1>4 DEF RoundInv, TablesBehind, Behind
<1>6. sched.seen[n] \in Nat /\ started[n] \in Nat /\ started[n] # None
  BY <1>2, <1>5 DEF Times
<1>7. sched.at < NextDue(s, sched.seen[n], sched.at)
  <2>1. NextDue(s, sched.seen[n], sched.at) \in Int
    <3>1. CASE s.at = None
      BY <1>1, <1>4, <1>6, <3>1 DEF NextDue, ValidTimes
    <3>2. CASE s.at # None
      <4>1. PICK e \in Nat \ {0}, h \in Nat : e = s.every \div Day /\ h = s.at
        BY <1>1, <3>2, WholeDays DEF ValidTimes
      <4>2. PICK q \in Nat : q = sched.seen[n] \div Day
        BY <1>6, DivBounds
      <4>3. NextDue(s, sched.seen[n], sched.at) = (q + e) * Day + h
        BY <1>4, <3>2, <4>1, <4>2 DEF NextDue
      <4> QED
        BY <4>1, <4>2, <4>3, DayAssumption
    <3> QED
      BY <3>1, <3>2
  <2> QED
    BY <1>1, <1>3, <2>1 DEF Due
<1>8. CoversBy(s, sched.seen[n], sched.at)
  BY <1>1, <1>3, <1>5, <1>7, NotDueIsCovered
<1>9. CoversBy(s, started[n], sched.at)
  BY <1>1, <1>3, <1>5, <1>6, <1>8, LaterCovers
<1> QED
  BY <1>1, <1>6, <1>9 DEF Covers

\* The first of the round is being started: at the round's time or later.
LEMMA StartingCovered ==
    ASSUME Rest, RoundInv, sched.pc \in {"read", "save"}
    PROVE  Covered(Head(sched.todo).name)
<1>1. PICK n : n = Head(sched.todo).name
  OBVIOUS
<1>2. sched.todo # <<>> /\ started[n] \in sched.at..now /\ sched.at \in 0..now
  BY <1>1 DEF RoundInv, TodoOk
<1>3. n \in Schedules /\ n \in DOMAIN started
  BY <1>1, <1>2, TodoFacts
<1>4. now \in Nat /\ now <= Horizon /\ Horizon \in Nat /\ None \notin Times
  BY SizesAssumption, FirstRunsAssumption DEF Rest, Times
<1>5. sched.at \in Nat /\ started[n] \in Nat /\ sched.at <= started[n] /\ started[n] \in Times
  BY <1>2, <1>4 DEF Times
<1>6. started[n] # None
  BY <1>4, <1>5
<1>7. ValidTimes(Schedule(n))
  BY <1>3, ScheduleIsValid DEF Rest
<1>8. CoversBy(Schedule(n), started[n], sched.at)
  BY <1>5, <1>7, StartCovers
<1> QED
  BY <1>1, <1>6, <1>8 DEF Covered, Covers


LEMMA CoverParts ==
    CoverInv <=>
        /\ Ran(AtATime, last)
        /\ sched.pc # "sleep" => Ran(AtATime, sched.seen)
        /\ sched.pc = "save" => Ran(AtATime, sched.read)
        /\ ConnRan
        /\ PassedCovered
BY DEF CoverInv, DailyRan, ConnRan, Conns

\* A step that leaves the scheduler alone and forgets no run.
LEMMA AsideCovers ==
    ASSUME Rest, RoundInv, CoverInv, UNCHANGED <<config, sched>>, ConnRan',
           Ran(AtATime, last'), Later(started, started')
    PROVE  CoverInv'
<1>1. Schedules' = Schedules /\ AtATime' = AtATime
  BY SameSchedules
<1>2. sched'.at = sched.at /\ sched.refused \subseteq sched'.refused
  OBVIOUS
<1>3. \A n \in Schedules : Covered(n) => Covered(n)'
  BY <1>2, StillCovered
<1>4. PassedCovered'
  BY <1>1, <1>3, CoverParts DEF PassedCovered
<1>5. /\ Ran(AtATime', last')
      /\ sched'.pc # "sleep" => Ran(AtATime', sched'.seen)
      /\ sched'.pc = "save" => Ran(AtATime', sched'.read)
  BY <1>1, CoverParts
<1> QED
  BY <1>4, <1>5 DEF CoverInv, DailyRan, ConnRan, Conns

\* A step of the round: what it passes is covered.
LEMMA RoundCovers ==
    ASSUME Rest, RoundInv, CoverInv, UNCHANGED <<config, conn>>,
           Later(started, started'), sched.pc # "sleep", sched'.pc # "sleep",
           sched'.at = sched.at, sched'.seen = sched.seen,
           sched.refused \subseteq sched'.refused, Ran(AtATime, last'),
           sched'.pc = "save" => Ran(AtATime, sched'.read),
           \A n \in Schedules \ Names(sched'.todo) : n \in Names(sched.todo) => Covered(n)'
    PROVE  CoverInv'
<1>1. Schedules' = Schedules /\ AtATime' = AtATime
  BY SameSchedules
<1>2. \A n \in Schedules : Covered(n) => Covered(n)'
  BY StillCovered
<1>3. \A n \in Schedules \ Names(sched.todo) : Covered(n)
  BY CoverParts DEF PassedCovered
<1>4. \A n \in Schedules \ Names(sched'.todo) : Covered(n)'
  BY <1>2, <1>3
<1>5. Names(sched.todo)' = Names(sched'.todo)
  BY DEF Names
<1>6. PassedCovered'
  BY <1>1, <1>4, <1>5 DEF PassedCovered
<1>7. ConnRan'
  BY ConnRanKept, CoverParts DEF Elsewhere
<1>8. /\ Ran(AtATime', last')
      /\ sched'.pc # "sleep" => Ran(AtATime', sched'.seen)
      /\ sched'.pc = "save" => Ran(AtATime', sched'.read)
  BY <1>1, CoverParts
<1> QED
  BY <1>6, <1>7, <1>8 DEF CoverInv, DailyRan, ConnRan, Conns

LEMMA RoundStartCovers ==
    ASSUME Rest, RoundInv, CoverInv, RoundStart
    PROVE  CoverInv'
<1>1. UNCHANGED <<config, last, conn>>
  BY DEF RoundStart
<1>2. /\ sched'.pc = "each" /\ sched'.seen = last /\ sched'.todo = config.schedules
  BY DEF RoundStart, Idle
<1>3. Schedules' = Schedules /\ AtATime' = AtATime
  BY <1>1, SameSchedules
<1>4. Names(sched.todo)' = Schedules
  BY <1>2 DEF Names, Schedules
<1>5. PassedCovered'
  BY <1>2, <1>3, <1>4 DEF PassedCovered
<1>6. ConnRan'
  BY <1>1, ConnRanKept, CoverParts DEF Elsewhere
<1>7. /\ Ran(AtATime', last')
      /\ sched'.pc # "sleep" => Ran(AtATime', sched'.seen)
      /\ sched'.pc = "save" => Ran(AtATime', sched'.read)
  BY <1>1, <1>2, <1>3, CoverParts
<1> QED
  BY <1>5, <1>6, <1>7 DEF CoverInv, DailyRan, ConnRan, Conns

\* The round is over, or the service starts again.
LEMMA AsleepCovers ==
    ASSUME Rest, RoundInv, CoverInv, UNCHANGED <<config, last, started>>, Elsewhere,
           sched'.pc = "sleep",
           \/ sched'.at = 0
           \/ /\ sched.pc # "sleep" /\ sched.todo = <<>>
              /\ sched'.at = sched.at /\ sched'.refused = sched.refused
    PROVE  CoverInv'
<1>1. Schedules' = Schedules /\ AtATime' = AtATime
  BY SameSchedules
<1>2. ConnRan'
  BY ConnRanKept, CoverParts
<1>3. PassedCovered'
  <2>1. CASE sched'.at = 0
    BY <2>1 DEF PassedCovered
  <2>2. CASE /\ sched.pc # "sleep" /\ sched.todo = <<>>
             /\ sched'.at = sched.at /\ sched'.refused = sched.refused
    <3>1. Names(sched.todo) = {}
      BY <2>2 DEF Names
    <3>2. \A n \in Schedules : Covered(n)
      BY <2>2, <3>1, CoverParts DEF PassedCovered
    <3>3. \A n \in Schedules : Covered(n)'
      BY <2>2, <3>2, StillCovered, SameLater
    <3> QED
      BY <1>1, <3>3 DEF PassedCovered
  <2> QED
    BY <2>1, <2>2
<1>4. Ran(AtATime', last')
  BY <1>1, CoverParts
<1> QED
  BY <1>2, <1>3, <1>4 DEF CoverInv, DailyRan, ConnRan, Conns

LEMMA RoundEachCovers ==
    ASSUME Rest, RoundInv, CoverInv, RoundEach
    PROVE  CoverInv'
<1>1. PICK n : n = Head(sched.todo).name
  OBVIOUS
<1>2. /\ UNCHANGED <<config, now, last, conn>> /\ sched.pc = "each" /\ sched.todo # <<>>
  BY DEF RoundEach
<1>3. n \in Schedules /\ Names(sched.todo) = {n} \cup Names(Tail(sched.todo))
  BY <1>1, <1>2, TodoFacts
<1>4. HasFields(sched, DOMAIN Idle)
  BY DEF Rest, TablesOk
<1>5. Ran(AtATime, last') /\ DailyRan
  BY <1>2, CoverParts DEF CoverInv
<1>6. CASE ~Due(n) /\ sched' = [sched EXCEPT !.todo = Tail(@)] /\ UNCHANGED started
  <2>1. /\ sched'.pc = "each" /\ sched'.todo = Tail(sched.todo)
        /\ sched'.seen = sched.seen /\ sched'.at = sched.at /\ sched'.refused = sched.refused
    BY <1>2, <1>4, <1>6 DEF HasFields, Idle
  <2>2. Covered(n)
    BY <1>2, <1>3, <1>5, <1>6, NotDueCovered DEF Covered
  <2>3. Later(started, started')
    BY <1>6, SameLater
  <2>4. Covered(n)'
    BY <1>2, <1>3, <2>1, <2>2, <2>3, StillCovered
  <2> QED
    BY <1>2, <1>3, <1>5, <2>1, <2>3, <2>4, RoundCovers
<1>7. CASE /\ sched' = [[sched EXCEPT !.todo = Tail(@)] EXCEPT !.refused = @ \cup {n}]
           /\ UNCHANGED started
  <2>1. /\ sched'.pc = "each" /\ sched'.todo = Tail(sched.todo)
        /\ sched'.seen = sched.seen /\ sched'.at = sched.at
        /\ sched'.refused = sched.refused \cup {n}
    BY <1>2, <1>4, <1>7 DEF HasFields, Idle
  <2>2. Covered(n)'
    BY <2>1 DEF Covered
  <2>3. Later(started, started')
    BY <1>7, SameLater
  <2> QED
    BY <1>2, <1>3, <1>5, <2>1, <2>2, <2>3, RoundCovers
<1>8. CASE sched' = [sched EXCEPT !.pc = "read"] /\ started' = [started EXCEPT ![n] = now]
  <2>1. /\ sched'.pc = "read" /\ sched'.todo = sched.todo
        /\ sched'.seen = sched.seen /\ sched'.at = sched.at /\ sched'.refused = sched.refused
    BY <1>4, <1>8 DEF HasFields, Idle
  <2>2. Later(started, started')
    BY <1>8, LaterStarts
  <2> QED
    BY <1>2, <1>5, <2>1, <2>2, RoundCovers
<1> QED
  BY <1>1, <1>6, <1>7, <1>8 DEF RoundEach

LEMMA StartReadCovers ==
    ASSUME Rest, RoundInv, CoverInv, StartRead
    PROVE  CoverInv'
<1>1. /\ UNCHANGED <<config, last, conn, started>> /\ sched.pc = "read"
  BY DEF StartRead
<1>2. /\ sched'.pc = "save" /\ sched'.read = last /\ sched'.todo = sched.todo
      /\ sched'.seen = sched.seen /\ sched'.at = sched.at /\ sched'.refused = sched.refused
  BY DEF StartRead, Rest, TablesOk, HasFields, Idle
<1>3. Later(started, started') /\ Ran(AtATime, last)
  BY <1>1, SameLater, CoverParts
<1> QED
  BY <1>1, <1>2, <1>3, RoundCovers

LEMMA StartSaveCovers ==
    ASSUME Rest, RoundInv, CoverInv, StartSave
    PROVE  CoverInv'
<1>1. PICK n : n = Head(sched.todo).name
  OBVIOUS
<1>2. /\ UNCHANGED <<config, now, conn>> /\ sched.pc = "save" /\ sched.todo # <<>>
  BY DEF StartSave, RoundInv, TodoOk
<1>3. n \in Schedules /\ Names(sched.todo) = {n} \cup Names(Tail(sched.todo))
  BY <1>1, <1>2, TodoFacts
<1>4. /\ sched'.pc = "each" /\ sched'.todo = Tail(sched.todo)
      /\ sched'.seen = sched.seen /\ sched'.at = sched.at /\ sched'.refused = sched.refused
  BY DEF StartSave, Rest, TablesOk, HasFields, Idle
<1>5. \/ last' = [sched.read EXCEPT ![n] = now] /\ started' = [started EXCEPT ![n] = now]
      \/ UNCHANGED <<last, started>>
  BY <1>1 DEF StartSave
<1>6. Later(started, started')
  BY <1>5, LaterStarts
<1>7. Ran(AtATime, last')
  <2>1. Behind(sched.read, started) /\ Ran(AtATime, sched.read) /\ Ran(AtATime, last)
    BY <1>2, CoverParts DEF RoundInv, TablesBehind
  <2>2. Ran(AtATime, [sched.read EXCEPT ![n] = now])
    BY <2>1, RecordedRan
  <2> QED
    BY <1>5, <2>1, <2>2
<1>8. Covered(n)
  BY <1>1, <1>2, StartingCovered
<1>9. Covered(n)'
  BY <1>2, <1>3, <1>4, <1>6, <1>8, StillCovered
<1> QED
  BY <1>2, <1>3, <1>4, <1>6, <1>7, <1>9, RoundCovers

\* Runs that clients ask for only add starts.
LEMMA RunScheduleCovers ==
    ASSUME Rest, ConnsOk, RoundInv, CoverInv, NEW c \in Conns,
           RunSchedule(c) \/ RunScheduleRead(c) \/ RunScheduleSave(c)
    PROVE  CoverInv'
<1>1. UNCHANGED <<config, now, sched>>
  BY DEF RunSchedule, RunScheduleRead, RunScheduleSave
<1>2. HasFields(conn[c], DOMAIN Free) /\ HasFields(conn, Conns)
  BY DEF ConnsOk, ConnOk, Conns
<1>3. AtATime' = AtATime
  BY <1>1, SameSchedules
<1>4. ConnRan /\ Ran(AtATime, last)
  BY CoverParts
<1>5. CASE RunSchedule(c)
  <2>1. UNCHANGED started \/ \E n : started' = [started EXCEPT ![n] = now]
    BY <1>5 DEF RunSchedule
  <2>2. conn'[c].pc # "save" /\ \A d \in Conns \ {c} : conn'[d] = conn[d]
    <3>1. CASE \E r : Answer(c, r)
      BY <1>2, <3>1 DEF Answer, HasFields, Free
    <3>2. CASE \E r : conn' = [conn EXCEPT ![c].pc = "state", ![c].reply = r]
      BY <1>2, <3>2 DEF HasFields, Free
    <3> QED
      BY <1>5, <3>1, <3>2 DEF RunSchedule
  <2>3. ConnRan'
    BY <1>3, <1>4, <2>2 DEF ConnRan
  <2>4. last' = last
    BY <1>5 DEF RunSchedule
  <2> QED
    BY <1>1, <1>4, <2>1, <2>3, <2>4, LaterStarts, AsideCovers
<1>6. CASE RunScheduleRead(c)
  <2>1. UNCHANGED <<last, started>>
    BY <1>6 DEF RunScheduleRead
  <2>2. conn'[c].seen = last /\ \A d \in Conns \ {c} : conn'[d] = conn[d]
    BY <1>2, <1>6 DEF RunScheduleRead, HasFields, Free
  <2>3. ConnRan'
    BY <1>3, <1>4, <2>2 DEF ConnRan
  <2> QED
    BY <1>1, <1>4, <2>1, <2>3, SameLater, AsideCovers
<1>7. CASE RunScheduleSave(c)
  <2>1. conn'[c].pc = "reply" /\ (\A d \in Conns \ {c} : conn'[d] = conn[d])
        /\ conn[c].pc = "save"
    BY <1>2, <1>7 DEF RunScheduleSave, HasFields, Free
  <2>2. ConnRan'
    BY <1>3, <1>4, <2>1 DEF ConnRan
  <2>3. \E n : \/ /\ last' = [conn[c].seen EXCEPT ![n] = now]
                  /\ started' = [started EXCEPT ![n] = now]
               \/ UNCHANGED <<last, started>>
    BY <1>7 DEF RunScheduleSave
  <2>4. Behind(conn[c].seen, started) /\ Ran(AtATime, conn[c].seen)
    BY <1>4, <2>1, TablesParts DEF ConnTables, ConnRan, RoundInv
  <2>5. Ran(AtATime, last')
    <3>1. \A n : Ran(AtATime, [conn[c].seen EXCEPT ![n] = now])
      BY <2>4, RecordedRan
    <3> QED
      BY <1>4, <2>3, <3>1
  <2> QED
    BY <1>1, <2>2, <2>3, <2>5, LaterStarts, AsideCovers
<1> QED
  BY <1>5, <1>6, <1>7

LEMMA CoverInvStep ==
    ASSUME Rest, ConnsOk, RoundInv, CoverInv, [Next]_vars
    PROVE  CoverInv'
<1>1. CASE Quiet
  <2>1. UNCHANGED <<config, last, sched, started>> /\ Elsewhere
    BY <1>1 DEF Quiet
  <2>2. ConnRan' /\ Ran(AtATime, last')
    BY <2>1, ConnRanKept, CoverParts
  <2> QED
    BY <2>1, <2>2, SameLater, AsideCovers
<1>2. CASE RoundEnd
  <2>1. sched.pc # "sleep" /\ sched.todo = <<>>
    BY <1>2 DEF RoundEnd
  <2>2. sched'.pc = "sleep" /\ sched'.at = sched.at /\ sched'.refused = sched.refused
    BY <1>2 DEF RoundEnd, Idle
  <2>3. UNCHANGED <<config, last, started>> /\ Elsewhere
    BY <1>2 DEF RoundEnd, Elsewhere
  <2> QED
    BY <2>1, <2>2, <2>3, AsleepCovers
<1>3. CASE Restart
  <2>1. sched'.pc = "sleep" /\ sched'.at = 0
    BY <1>3 DEF Restart, Idle
  <2>2. UNCHANGED <<config, last, started>> /\ Elsewhere
    BY <1>3, RestartElsewhere DEF Restart
  <2> QED
    BY <2>1, <2>2, AsleepCovers
<1> QED
  BY <1>1, <1>2, <1>3, QuietSteps, RoundStartCovers, RoundEachCovers, StartReadCovers,
     StartSaveCovers, RunScheduleCovers DEF Scheduling, Scheduler

LEMMA InitCover == DailyRanBefore /\ Init => CoverInv
<1> SUFFICES ASSUME DailyRanBefore, Init PROVE CoverInv
  OBVIOUS
<1>1. config \in Configs /\ last \in FirstRuns
  BY DEF Init, Configs
<1>2. sched.pc = "sleep" /\ sched.at = 0 /\ \A c \in Conns : conn[c].pc = "none"
  BY DEF Init, Idle, Free, Conns
<1>3. Ran(AtATime, last)
  <2> SUFFICES ASSUME NEW n \in Schedules, Schedule(n).at # None PROVE last[n] # None
    BY DEF Ran, AtATime
  <2>1. config.schedules \in Seq({config.schedules[i] : i \in DOMAIN config.schedules})
    BY <1>1, FirstRunsAssumption
  <2>2. PICK i \in DOMAIN config.schedules :
           Schedule(n) = config.schedules[i] /\ config.schedules[i].name = n
    BY <2>1, ScheduleIsAnEntry
  <2> QED
    BY <1>1, <2>2 DEF DailyRanBefore
<1>4. PassedCovered
  BY <1>2 DEF PassedCovered
<1> QED
  BY <1>2, <1>3, <1>4, CoverParts DEF ConnRan

\* After a round every schedule is covered by a start or was refused in that
\* round, whatever clients, suspends, restarts and failed writes did meanwhile
\* (scheduler.rs), where schedules.json knows a run of every schedule with a
\* time of day.
THEOREM WhatIsDueRuns ==
    ASSUME DailyRanBefore
    PROVE  Spec => []DueRuns
<1>1. IInv => Rest /\ ConnsOk
  BY InvParts DEF Books
<1>2. Init => CoverInv
  BY InitCover
<1>3. IInv /\ RoundInv /\ CoverInv /\ [Next]_vars => CoverInv'
  BY <1>1, CoverInvStep
<1>4. CoverInv => DueRuns
  BY DEF CoverInv, PassedCovered, Covered, DueRuns
<1> QED
  BY <1>2, <1>3, <1>4, ServiceInvariant, RoundsAreInOrder, PTL DEF Spec
=============================================================================
