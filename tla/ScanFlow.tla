------------------------------ MODULE ScanFlow ------------------------------
(***************************************************************************)
(* One scan of the command line tool from the files to the exit code: safe *)
(* reading (engine/fsio.rs), evaluation of each file by every detector     *)
(* (process_file and run_detectors of engine/scanner.rs), archive          *)
(* expansion (engine/archive.rs), the report (Aggregator), the allow-list, *)
(* automatic quarantine (remediation/report.rs) and run_scan (cli/main.rs).*)
(* Scanner models the threads and channels around this; here a worker      *)
(* takes a path and hands its result over in one step.                     *)
(*                                                                         *)
(* A file on disk is a node of Node, with one or more paths; the object it *)
(* holds is a record of sizes, archive entries and what the parsers find   *)
(* in it.  One unit of size is one chunk of a read or of decompression.    *)
(***************************************************************************)
EXTENDS Detectors, TLC

CONSTANTS
  Path, Node,         \* paths of the scan; files on disk
  NodeOf,             \* the file each path names; a path may be a link to one
  Scene,              \* what may be on disk: paths and the object of each file,
                      \* and whether --follow-symlinks is given
  Detector,           \* sequence of the detectors given to the scan
  Config,             \* ScanConfig but for the symlink policy, a record
  Allowed,            \* hashes on the allow-list
  Protected,          \* paths below a system directory
  Worker,
  Quarantines,        \* --quarantine was given
  MaxGrowth,          \* bound: how often a file grows
  None

ASSUME FlowConstants ==
  /\ ConfigOk(Config)
  /\ \A i \in DOMAIN Detector : Loads(Detector[i])
  /\ MaxGrowth \in Nat

VARIABLES
  scene,      \* what is on disk
  todo,       \* paths the walk found that no worker has taken
  worker,     \* each worker's place in process_file
  seen,       \* files a worker began to read (Shared::seen)
  grown,      \* by how much each file has grown
  kept,       \* files still on disk (not quarantined or removed)
  cancelled,
  report,     \* Aggregator, then ScanReport
  phase,      \* "scan", "report", "remediate", "exit" or "ended"
  exit,
  inspected,  \* what the detectors saw: triples of path, member chain, detector
  outcome     \* what became of each path

vars == <<scene, todo, worker, seen, grown, kept, cancelled, report, phase, exit, inspected,
          outcome>>

Object == scene.object

Grown == "grown"    \* the hash of a file that grew: nothing lists it

WantsContent == \E i \in DOMAIN Detector : NeedsContent(Detector[i])

MagicZip(o) == o.magic = "zip"
MayContainZip(o) == o.magic \in {"zip", "mz"}

NoResult == [findings |-> {}, issues |-> <<>>, skips |-> <<>>, members |-> 0]
Idle == [pc |-> "idle", path |-> None]

Issue(kind, p, chain) == [kind |-> kind, path |-> p, chain |-> chain]
Skip(reason, p, chain) == [reason |-> reason, path |-> p, chain |-> chain]

---------------------------------------------------------------------------
(* Aggregator: everything is counted, up to a limit it is listed *)

NoReport ==
  [findings |-> {}, found |-> 0, omitted |-> 0, issues |-> <<>>, issue_count |-> 0,
   skips |-> <<>>, skip_count |-> 0, scanned |-> 0, status |-> "running"]

AddFinding(r, f) ==
  [r EXCEPT !.found = @ + 1,
            !.findings = IF r.found - r.omitted < Config.max_recorded_findings
                         THEN @ \cup {f} ELSE @,
            !.omitted = IF r.found - r.omitted < Config.max_recorded_findings THEN @ ELSE @ + 1]

AddIssue(r, i) ==
  [r EXCEPT !.issue_count = @ + 1,
            !.issues = IF Len(@) < Config.max_recorded_entries THEN Append(@, i) ELSE @]

AddSkip(r, s) ==
  [r EXCEPT !.skip_count = @ + 1,
            !.skips = IF Len(@) < Config.max_recorded_entries THEN Append(@, s) ELSE @]

Handle(r, out) ==
  LET counted == [r EXCEPT !.scanned = @ + 1]
      found   == FoldSet(LAMBDA f, acc : AddFinding(acc, f), counted, out.findings)
      issues  == FoldLeft(AddIssue, found, out.issues)
  IN  FoldLeft(AddSkip, issues, out.skips)

---------------------------------------------------------------------------
(* Reading a file *)

w(k) == worker[k]
SizeNow(p) == Object[NodeOf[p]].size + grown[NodeOf[p]]

Set(k, r) == worker' = [worker EXCEPT ![k] = r]

\* What else a step leaves alone.
OnlyWorker ==
  UNCHANGED <<todo, seen, grown, kept, cancelled, report, phase, exit, inspected, outcome>>

\* The file yields one message and the worker takes the next.
Send(k, what, r) ==
  /\ Set(k, Idle)
  /\ report' = r
  /\ outcome' = [outcome EXCEPT ![w(k).path] = what]
  /\ UNCHANGED <<todo, seen, grown, kept, cancelled, phase, exit, inspected>>

SendIssue(k, kind) ==
  Send(k, "issue", AddIssue(report, Issue(kind, w(k).path, <<>>)))
SendSkip(k, reason) ==
  Send(k, reason, AddSkip(report, Skip(reason, w(k).path, <<>>)))

Drop(k) == Send(k, "dropped", report)        \* a cancelled file yields no message

TakeMarksSeen(k) ==
  /\ phase = "scan" /\ w(k).pc = "idle" /\ todo # {}
  /\ \E p \in todo :
       /\ todo' = todo \ {p}
       /\ Set(k, [pc |-> "open", path |-> p, late |-> FALSE, stat |-> 0, total |-> 0,
                  keep |-> FALSE, out |-> NoResult, obs |-> None, next |-> 1,
                  cskip |-> FALSE, stack |-> <<>>, cur |-> None,
                  budget |-> Config.max_total_bytes, reported |-> FALSE])
       /\ seen' = seen \cup {NodeOf[p]}
  /\ UNCHANGED <<grown, kept, cancelled, report, phase, exit, inspected, outcome>>

Take(k) ==
  /\ phase = "scan" /\ w(k).pc = "idle" /\ todo # {}
  /\ \E p \in todo :
       /\ todo' = todo \ {p}
       /\ Set(k, [pc |-> "open", path |-> p, late |-> FALSE, stat |-> 0, total |-> 0,
                  keep |-> FALSE, out |-> NoResult, obs |-> None, next |-> 1,
                  cskip |-> FALSE, stack |-> <<>>, cur |-> None,
                  budget |-> Config.max_total_bytes, reported |-> FALSE])
  /\ UNCHANGED <<seen, grown, kept, cancelled, report, phase, exit, inspected, outcome>>

\* open_for_scan and the checks on the handle.  A path of type "link" is refused
\* unless links are followed; a "fifo" opens (non-blocking) and is refused by type.
\* `seen` exists only when links are followed.
Open(k) ==
  LET p == w(k).path
      n == NodeOf[p]
      o == Object[n]
      refused == p.link /\ ~scene.follow
      again   == scene.follow /\ n \in seen
  IN
  /\ w(k).pc = "open"
  /\ \/ n \notin kept /\ SendIssue(k, "not_found")
     \/ n \in kept /\ o.opens # "ok" /\ SendIssue(k, o.opens)
     \/ /\ n \in kept /\ o.opens = "ok"
        /\ \/ refused /\ SendSkip(k, "symlink_not_followed")
           \/ ~refused /\ o.type # "file" /\ SendSkip(k, "not_regular_file")
           \/ /\ ~refused /\ o.type = "file"
              /\ \/ /\ SizeNow(p) > Config.max_file_size
                    /\ SendSkip(k, "exceeds_max_file_size")
                 \/ /\ SizeNow(p) <= Config.max_file_size /\ again
                    /\ SendSkip(k, "duplicate_file")
                 \/ /\ SizeNow(p) <= Config.max_file_size /\ ~again
                    /\ seen' = IF scene.follow THEN seen \cup {n} ELSE seen
                    /\ Set(k, [w(k) EXCEPT !.pc = "read", !.stat = SizeNow(p),
                                 !.keep = (WantsContent \/ Config.archives)
                                            /\ SizeNow(p) <= Config.max_content_size])
                    /\ UNCHANGED <<todo, grown, kept, cancelled, report, phase, exit, inspected,
                                   outcome>>

FirstDetector(k, obs) ==
  [w(k) EXCEPT !.pc = "detect", !.obs = obs, !.next = 1, !.cskip = FALSE]

\* One turn of the read loop.
Read(k) ==
  LET p == w(k).path
      o == Object[NodeOf[p]]
      total == w(k).total + 1
      keep  == /\ w(k).keep
               /\ Config.archives /\ ~WantsContent => MayContainZip(o)
               /\ total <= Config.max_content_size
      hash  == IF w(k).total = o.size THEN o.sha256 ELSE Grown
  IN
  /\ w(k).pc = "read"
  /\ \/ cancelled /\ Drop(k)
     \/ /\ ~cancelled /\ w(k).late
        /\ SendIssue(k, "timeout")
     \/ /\ ~cancelled /\ ~w(k).late /\ o.read_fails
        /\ SendIssue(k, "io")
     \/ /\ ~cancelled /\ ~w(k).late /\ w(k).total < SizeNow(p)
        /\ \/ /\ total > Config.max_file_size
              /\ SendSkip(k, "exceeds_max_file_size")
           \/ /\ total <= Config.max_file_size
              /\ Set(k, [w(k) EXCEPT !.total = total, !.keep = keep])
              /\ OnlyWorker
     \/ /\ ~cancelled /\ ~w(k).late /\ w(k).total = SizeNow(p)
        /\ Set(k, FirstDetector(k, [path |-> p, object |-> o, sha256 |-> hash, chain |-> <<>>,
                                    content |-> w(k).keep /\ WantsContent]))
        /\ OnlyWorker

---------------------------------------------------------------------------
(* Detectors *)

AfterDetectorsSilent(k) == w(k)

\* What the end of run_detectors adds.
AfterDetectors(k) ==
  LET r == w(k) IN
  IF r.cskip
  THEN [r EXCEPT !.out.skips =
          Append(@, Skip("content_not_inspected", r.path, r.obs.chain))]
  ELSE r

\* Archive entries the loop of `expand` visits.
Visits(o) == IF Len(o.entries) <= Config.max_entries THEN Len(o.entries) ELSE Config.max_entries

\* expand: an archive is opened and its first entry is next.
Expand(r, o, chain, depth, strict) ==
  IF ~o.zip
  THEN [r EXCEPT !.pc = "entry",
                 !.out.issues = IF strict THEN Append(@, Issue("archive_error", r.path, chain))
                                ELSE @]
  ELSE [r EXCEPT !.pc = "entry",
                 !.stack = Append(@, [object |-> o, next |-> 1, chain |-> chain,
                                      depth |-> depth]),
                 !.out.skips = IF Len(o.entries) > Config.max_entries
                               THEN Append(@, Skip("archive_limit_reached", r.path, chain))
                               ELSE @]

\* After the detectors of a file on disk: its archive.
ExpandFile(r) ==
  LET o == r.obs.object IN
  IF ~Config.archives THEN [r EXCEPT !.pc = "deliver"]
  ELSE IF r.keep /\ MayContainZip(o) THEN Expand(r, o, <<>>, 1, MagicZip(o))
  ELSE IF ~r.keep /\ MagicZip(o) /\ r.total > 0
       THEN [r EXCEPT !.pc = "deliver",
                      !.out.skips = Append(@, Skip("archive_too_large", r.path, <<>>))]
  ELSE [r EXCEPT !.pc = "deliver"]

\* After the detectors of a member: an archive inside the archive.
ExpandMember(r) ==
  LET o == r.obs.object
      depth == Last(r.stack).depth
  IN
  IF ~(r.cur.keep /\ MagicZip(o)) THEN [r EXCEPT !.pc = "entry"]
  ELSE IF depth < Config.max_depth
       THEN Expand(r, o, r.obs.chain, depth + 1, TRUE)
  ELSE [r EXCEPT !.pc = "entry",
                 !.out.skips = Append(@, Skip("archive_limit_reached", r.path, r.obs.chain))]

AfterObject(r) == IF r.obs.chain = <<>> THEN ExpandFile(r) ELSE ExpandMember(r)

\* One detector, or the end of them.
Detect(k) ==
  LET r == w(k)
      d == Detector[r.next]
      after == [r EXCEPT !.next = @ + 1]
  IN
  /\ r.pc = "detect"
  /\ \/ /\ r.next > Len(Detector)
        /\ Set(k, AfterObject(AfterDetectors(k)))
        /\ OnlyWorker
     \/ r.next <= Len(Detector) /\ cancelled /\ Drop(k)
     \/ /\ r.next <= Len(Detector) /\ ~cancelled /\ r.late
        /\ Set(k, [AfterObject(AfterDetectors(k)) EXCEPT !.out.issues =
                     Append(@, Issue("timeout", r.path, r.obs.chain))])
        /\ OnlyWorker
     \/ /\ r.next <= Len(Detector) /\ ~cancelled /\ ~r.late
        /\ \/ /\ NeedsContent(d) /\ ~r.obs.content
              /\ Set(k, [after EXCEPT !.cskip = TRUE])
              /\ OnlyWorker
           \/ /\ NeedsContent(d) => r.obs.content
              /\ Set(k, [after EXCEPT !.out.findings = @ \cup Findings(d, r.obs)])
              /\ inspected' = inspected \cup {<<r.path, r.obs.chain, r.next>>}
              /\ UNCHANGED <<todo, seen, grown, kept, cancelled, report, phase, exit, outcome>>
           \* An error, or a panic, after which the worker's detector is made anew.
           \/ /\ NeedsContent(d) /\ r.obs.content /\ r.obs.object.breaks
              /\ Set(k, [after EXCEPT !.out.issues =
                           Append(@, Issue("detector_failed", r.path, r.obs.chain))])
              /\ OnlyWorker

---------------------------------------------------------------------------
(* Expander *)

Stopped(k) ==       \* check(), and what expand_archive does with a stop
  \/ cancelled /\ Drop(k)
  \/ /\ ~cancelled /\ w(k).late
     /\ Set(k, [w(k) EXCEPT !.pc = "deliver", !.stack = <<>>,
                  !.out.issues = Append(@, Issue("timeout", w(k).path, <<>>))])
     /\ OnlyWorker

Running(k) == ~cancelled /\ ~w(k).late

\* One turn of the loop over the entries of the innermost archive.
Entry(k) ==
  LET r == w(k)
      top == Last(r.stack)
      e == top.object.entries[top.next]
      chain == Append(top.chain, top.next)
      moved == [r EXCEPT !.stack[Len(r.stack)].next = @ + 1]
      skip(reason) == [moved EXCEPT !.out.skips = Append(@, Skip(reason, r.path, chain))]
      error(where) == [moved EXCEPT !.out.issues =
                         Append(@, Issue("archive_error", r.path, where))]
  IN
  /\ r.pc = "entry"
  /\ \/ r.stack = <<>> /\ Set(k, [r EXCEPT !.pc = "deliver"]) /\ OnlyWorker
     \/ /\ r.stack # <<>> /\ top.next > Visits(top.object)
        /\ Set(k, [r EXCEPT !.stack = Front(@)]) /\ OnlyWorker
     \/ r.stack # <<>> /\ top.next <= Visits(top.object) /\ Stopped(k)
     \/ /\ r.stack # <<>> /\ top.next <= Visits(top.object) /\ Running(k)
        /\ r.budget = 0
        /\ Set(k, [r EXCEPT !.stack = Front(@), !.reported = TRUE,
                     !.out.skips = IF r.reported THEN @
                       ELSE Append(@, Skip("archive_limit_reached", r.path, top.chain))])
        /\ OnlyWorker
     \/ /\ r.stack # <<>> /\ top.next <= Visits(top.object) /\ Running(k)
        /\ r.budget # 0
        /\ Set(k, CASE e.meta = "unreadable"  -> error(top.chain)
                    [] e.meta = "dir"         -> moved
                    [] e.meta = "encrypted"   -> skip("archive_member_encrypted")
                    [] e.meta = "symlink"     -> skip("archive_member_unsupported")
                    [] e.body = "unsupported" -> skip("archive_member_unsupported")
                    [] e.body = "unreadable"  -> error(chain)
                    [] OTHER -> [moved EXCEPT !.pc = "member",
                                   !.cur = [object |-> e.object, body |-> e.body,
                                            chain |-> chain, total |-> 0, keep |-> TRUE]])
        /\ OnlyWorker

\* The limits on a member of which `total` units have been decompressed.
OverBudget(r) ==
  [r EXCEPT !.pc = "entry", !.budget = 0, !.reported = TRUE,
            !.out.skips = Append(@, Skip("archive_limit_reached", r.path, r.cur.chain))]
OverSize(r, total) ==
  [r EXCEPT !.pc = "entry", !.budget = @ - total,
            !.out.skips = Append(@, Skip("exceeds_max_file_size", r.path, r.cur.chain))]
Accept(r, total) ==
  [r EXCEPT !.cur.total = total, !.cur.keep = @ /\ total <= Config.max_member_content]

ChargeSizeFirst(r, total) ==
  CASE total > Config.max_file_size -> OverSize(r, total)
    [] total <= Config.max_file_size /\ total > r.budget -> OverBudget(r)
    [] OTHER -> Accept(r, total)

Charge(r, total) ==
  CASE total > r.budget -> OverBudget(r)
    [] total <= r.budget /\ total > Config.max_file_size -> OverSize(r, total)
    [] OTHER -> Accept(r, total)

\* One turn of the loop that decompresses a member.
Member(k) ==
  LET r == w(k)
      c == r.cur
  IN
  /\ r.pc = "member"
  /\ \/ Stopped(k)
     \/ /\ Running(k) /\ c.body = "panic"
        /\ Set(k, [r EXCEPT !.pc = "deliver", !.stack = <<>>,
                     !.out.issues = Append(@, Issue("archive_error", r.path, <<>>))])
        /\ OnlyWorker
     \/ /\ Running(k) /\ c.body # "panic" /\ c.total < c.object.size
        /\ Set(k, Charge(r, c.total + 1))
        /\ OnlyWorker
     \/ /\ Running(k) /\ c.body = "corrupt" /\ c.total = c.object.size
        /\ Set(k, [r EXCEPT !.pc = "entry", !.budget = @ - c.total,
                     !.out.issues = Append(@, Issue("archive_error", r.path, c.chain))])
        /\ OnlyWorker
     \/ /\ Running(k) /\ c.body = "ok" /\ c.total = c.object.size
        /\ Set(k, [FirstDetector(k, [path |-> r.path, object |-> c.object,
                                     sha256 |-> c.object.sha256, chain |-> c.chain,
                                     content |-> c.keep /\ WantsContent])
                   EXCEPT !.budget = @ - c.total, !.out.members = @ + 1])
        /\ OnlyWorker

Deliver(k) == w(k).pc = "deliver" /\ Send(k, "scanned", Handle(report, w(k).out))

---------------------------------------------------------------------------
(* run_scan after the scan *)

\* Scanner::scan returns: no path is left, or the scan was cancelled.
Finish ==
  /\ phase = "scan"
  /\ \A k \in Worker : w(k).pc = "idle"
  /\ todo = {} \/ cancelled
  /\ phase' = "report"
  /\ report' = [report EXCEPT !.status = IF cancelled THEN "cancelled" ELSE "completed"]
  /\ UNCHANGED <<todo, worker, seen, grown, kept, cancelled, exit, inspected, outcome>>

ExitWith(code) == phase' = "ended" /\ exit' = code

\* apply_allowlist: mark_allowed, unless the list cannot be read.
ApplyAllowlist ==
  /\ phase = "report"
  /\ \/ ExitWith(2) /\ UNCHANGED report
     \/ /\ phase' = IF Quarantines /\ report.status = "completed" THEN "remediate" ELSE "exit"
        /\ report' = [report EXCEPT !.findings =
             {IF f.target.sha256 \in Allowed THEN [f EXCEPT !.status = "allowed"] ELSE f :
                f \in @}]
        /\ UNCHANGED exit
  /\ UNCHANGED <<todo, worker, seen, grown, kept, cancelled, inspected, outcome>>

QuarantinableByPath(f) ==
  LET p == f.target.path
      n == NodeOf[p]
  IN  /\ n \in kept /\ ~p.link
      /\ SizeNow(p) <= Config.max_file_size
      /\ ~\E q \in scene.paths : q # p /\ ~q.link /\ NodeOf[q] = n

\* QuarantineStore::quarantine, as QuarantineStore.tla models it: the content must
\* be the expected one, the path free of links and the only name of the file.
Quarantinable(f) ==
  LET p == f.target.path
      n == NodeOf[p]
  IN  /\ n \in kept /\ ~p.link
      /\ SizeNow(p) <= Config.max_file_size
      /\ ~\E q \in scene.paths : q # p /\ ~q.link /\ NodeOf[q] = n
      /\ f.target.sha256 = IF grown[n] = 0 THEN Object[n].sha256 ELSE Grown

\* One finding of quarantine_report.  The code takes them in the order of the
\* report, which the model leaves open.
Remediate ==
  /\ phase = "remediate"
  /\ \E f \in report.findings :
       /\ f.status = "not_attempted"
       /\ \/ /\ ~Eligible(f, Protected)
             /\ report' = [report EXCEPT !.findings = (@ \ {f}) \cup
                             {[f EXCEPT !.status = "not_eligible"]}]
             /\ UNCHANGED kept
          \/ /\ Eligible(f, Protected) /\ Quarantinable(f)
             /\ report' = [report EXCEPT !.findings = (@ \ {f}) \cup
                             {[f EXCEPT !.status = "quarantined"]}]
             /\ kept' = kept \ {NodeOf[f.target.path]}
          \/ /\ Eligible(f, Protected)       \* refused, or the store fails
             /\ report' = [report EXCEPT !.findings = (@ \ {f}) \cup
                             {[f EXCEPT !.status = "failed"]}]
             /\ UNCHANGED kept
  /\ UNCHANGED <<todo, worker, seen, grown, cancelled, phase, exit, inspected, outcome>>

Remediated ==
  /\ phase = "remediate"
  /\ \A f \in report.findings : f.status # "not_attempted"
  /\ phase' = "exit"
  /\ UNCHANGED <<todo, worker, seen, grown, kept, cancelled, report, exit, inspected, outcome>>

ExitCodeListed ==
  IF report.status = "cancelled" THEN 130
  ELSE IF \E f \in report.findings : f.status # "allowed" THEN 1
  ELSE IF report.status # "completed" \/ report.issue_count > 0 THEN 3
  ELSE 0

IsComplete == report.status = "completed" /\ report.issue_count = 0

ExitCode ==
  IF report.status = "cancelled" THEN 130
  ELSE IF \/ \E f \in report.findings : f.status # "allowed"
          \/ report.omitted > 0 THEN 1
  ELSE IF ~IsComplete THEN 3
  ELSE 0

\* The report is written, or not, and the process ends.
Exit ==
  /\ phase = "exit"
  /\ \/ ExitWith(ExitCode)
     \/ ExitWith(2)
  /\ UNCHANGED <<todo, worker, seen, grown, kept, cancelled, report, inspected, outcome>>

---------------------------------------------------------------------------
(* The environment *)

\* The per-file time limit of a worker's file passes.
Deadline(k) ==
  /\ w(k).pc # "idle" /\ ~w(k).late
  /\ Set(k, [w(k) EXCEPT !.late = TRUE])
  /\ OnlyWorker

Cancel ==       \* Ctrl-C
  /\ phase = "scan" /\ ~cancelled
  /\ cancelled' = TRUE
  /\ UNCHANGED <<todo, worker, seen, grown, kept, report, phase, exit, inspected, outcome>>

Grow ==         \* another program appends to a file
  /\ phase # "ended"
  /\ \E n \in kept : grown[n] < MaxGrowth /\ grown' = [grown EXCEPT ![n] = @ + 1]
  /\ UNCHANGED <<todo, worker, seen, kept, cancelled, report, phase, exit, inspected, outcome>>

Init ==
  /\ scene \in Scene
  /\ todo = scene.paths
  /\ worker = [k \in Worker |-> Idle]
  /\ seen = {}
  /\ grown = [n \in Node |-> 0]
  /\ kept = Node
  /\ cancelled = FALSE
  /\ report = NoReport
  /\ phase = "scan"
  /\ exit = None
  /\ inspected = {}
  /\ outcome = [p \in Path |-> "none"]

Step(k) ==
  \/ Take(k) \/ Open(k) \/ Read(k) \/ Detect(k) \/ Entry(k) \/ Member(k) \/ Deliver(k)

Next ==
  /\ \/ \E k \in Worker : Step(k) \/ Deadline(k)
     \/ Finish \/ ApplyAllowlist \/ Remediate \/ Remediated \/ Exit
     \/ Cancel \/ Grow
  /\ UNCHANGED scene

Spec == Init /\ [][Next]_vars

---------------------------------------------------------------------------
(* Properties *)

\* Type correctness; the decompression budget of a file never runs below zero
\* (u64 in archive.rs, where an underflow would end the worker).
TypeOK ==
  /\ todo \subseteq Path /\ seen \subseteq Node /\ kept \subseteq Node
  /\ \A k \in Worker :
       /\ w(k).pc \in {"idle", "open", "read", "detect", "entry", "member", "deliver"}
       /\ w(k).pc # "idle" => w(k).path \in Path /\ w(k).budget \in 0..Config.max_total_bytes
  /\ phase \in {"scan", "report", "remediate", "exit", "ended"}
  /\ exit \in {None, 0, 1, 2, 3, 130}
  /\ Cardinality(report.findings) <= Config.max_recorded_findings
  /\ Len(report.issues) <= Config.max_recorded_entries
  /\ Len(report.skips) <= Config.max_recorded_entries

\* The members a scan is to inspect in an object: those of the archive it is and
\* of the archives among them.
RECURSIVE Chains(_, _)
Chains(o, chain) ==
  {chain} \cup
  (IF ~o.zip THEN {}
   ELSE UNION {LET e == o.entries[i] IN
               IF e.meta = "dir" THEN {}
               ELSE IF MagicZip(e.object) THEN Chains(e.object, Append(chain, i))
               ELSE {Append(chain, i)} : i \in DOMAIN o.entries})

\* "Whatever is not inspected is reported, never silently dropped" (archive.rs): a
\* file that is handed over as scanned although some detector did not see it, or
\* some member of it, carries a skip or an issue.
NothingSilent ==
  \A k \in Worker :
    w(k).pc = "deliver" =>
      \/ w(k).out.skips # <<>> \/ w(k).out.issues # <<>>
      \/ \A c \in Chains(Object[NodeOf[w(k).path]], <<>>) :
           c = <<>> \/ Config.archives =>
             \A i \in DOMAIN Detector : <<w(k).path, c, i>> \in inspected

OtherPaths(p) == {q \in Path \ {p} : NodeOf[q] = NodeOf[p]}

\* When links are followed and two workers meet one file through two paths, the
\* second is skipped as a duplicate while the first is still reading.  If the
\* scan ends complete (ScanReport::is_complete), the first was scanned after all;
\* the one exception is a file that grew over the size limit while it was read.
DuplicateIsCovered ==
  phase # "scan" /\ IsComplete =>
    \A p \in Path : outcome[p] = "duplicate_file" =>
      \E q \in OtherPaths(p) :
        \/ outcome[q] = "scanned"
        \/ outcome[q] = "exceeds_max_file_size" /\ grown[NodeOf[p]] > 0

\* What SkipReason::DuplicateFile says (core/report.rs): "The same file (device
\* and inode) was already scanned through another path".
DuplicateWasScanned ==
  phase # "scan" /\ report.status = "completed" =>
    \A p \in Path : outcome[p] = "duplicate_file" =>
      \E q \in OtherPaths(p) : outcome[q] = "scanned"

Listed(sha256) ==
  \E i \in DOMAIN Detector :
    /\ Detector[i].type = "hash"
    /\ \E s \in ToSet(Lookup(Detector[i].database, sha256)) : s.category = "malware"

\* Automatic quarantine removes a file only after a scan that completed, if its
\* content at that moment is byte for byte one that a signature lists as malware
\* and the user has not allowed, outside the system directories; whatever else
\* the detectors say of it, and whatever happens to it after it was scanned.
QuarantineIsEarned ==
  [][\A n \in kept \ kept' :
       /\ report.status = "completed" /\ grown[n] = 0
       /\ Listed(Object[n].sha256) /\ Object[n].sha256 \notin Allowed
       /\ \A p \in Path : NodeOf[p] = n /\ ~p.link => p \notin Protected]_vars

\* The member of o that the chain of entries leads to.
RECURSIVE At(_, _)
At(o, chain) == IF chain = <<>> THEN o ELSE At(o.entries[Head(chain)].object, Tail(chain))

\* The exit code 0 ("completed, no findings, every entry processed") or 3 is never
\* given when a detector saw listed content, on disk or inside an archive, that is
\* not on the allow-list, however many findings were cut from the report.
CleanExitIsClean ==
  exit \in {0, 3} =>
    \A t \in inspected :
      LET n == NodeOf[t[1]]
          o == At(Object[n], t[2])
      IN  outcome[t[1]] = "scanned" /\ grown[n] = 0 /\ Detector[t[3]].type = "hash"
            /\ Lookup(Detector[t[3]].database, o.sha256) # <<>>
          => o.sha256 \in Allowed

\* What RemediationStatus::Failed promises (core/finding.rs): "Remediation was
\* attempted and failed; the original file is left in place".
FailedMeansInPlace ==
  \A f \in report.findings : f.status = "failed" => NodeOf[f.target.path] \in kept
=============================================================================
