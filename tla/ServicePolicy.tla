--------------------------- MODULE ServicePolicy ---------------------------
(***************************************************************************)
(* The pure decisions of the service: who is an administrator, which       *)
(* requests are well formed and allowed, with which identity a job's child *)
(* runs, which configurations are accepted and when a schedule is due.     *)
(* (crates/ipc, crates/service/src/{accounts,config,schedule,runner}.rs)   *)
(***************************************************************************)
EXTENDS Integers, Sequences, FiniteSets

SE == INSTANCE SequencesExt

CONSTANTS
    Day,        \* hours in a day: 24 in the code, less in a small instance
    None        \* an absent value

ASSUME DayAssumption == Day \in Nat \ {0}

----------------------------------------------------------------------------
(* Accounts: the lines of /etc/passwd and /etc/group, in file order.       *)

\* A number that does not parse.
NotANumber == -1

\* parse_passwd and parse_group skip lines with too few fields, no name or
\* no numeric ids.
PasswdLine(l) == /\ l.fields >= 7 /\ l.name # None
                 /\ l.uid # NotANumber /\ l.gid # NotANumber
GroupLine(l)  == l.fields >= 4 /\ l.name # None /\ l.gid # NotANumber

\* The first element that satisfies Test, or None.
First(seq, Test(_)) ==
    LET i == SE!SelectInSeq(seq, Test) IN IF i = 0 THEN None ELSE seq[i]

\* Accounts::load reads both files again for every connection; the first
\* line that was kept decides.
User(files, uid) == First(files.passwd, LAMBDA l : PasswdLine(l) /\ l.uid = uid)
GroupByName(files, name) ==
    First(files.group, LAMBDA l : GroupLine(l) /\ l.name = name)

\* Root, a listed administrator (by name or uid), or a member of the admin
\* group, listed or primary.
IsAdmin(files, uid, c) ==
    LET user  == User(files, uid)
        group == GroupByName(files, c.admin_group)
    IN  \/ uid = 0
        \/ \E a \in c.admin_users :
              a.uid = uid \/ (user # None /\ a.name = user.name)
        \/ /\ user # None /\ group # None
           /\ user.gid = group.gid \/ user.name \in group.members

----------------------------------------------------------------------------
(* Requests.  The text of a path, a name or an id is one of a few classes. *)

Ops == {"ping", "status", "scan", "system_check", "jobs", "job", "report",
        "cancel", "schedules", "run_schedule", "quarantine_list",
        "quarantine_restore", "quarantine_delete", "verify_audit"}

\* read_frame and decode: what a read of one request gives the server.
Frames == {"request", "closed", "io", "too_large", "malformed"}

ErrorCode == {"bad_request", "version_mismatch", "unauthorized", "not_found",
              "busy", "unsupported", "internal"}

\* A scan needs one to MAX_PATHS absolute paths without NUL.
PathsOk(paths, maxPaths) ==
    /\ Len(paths) \in 1..maxPaths
    /\ \A i \in DOMAIN paths : paths[i] = "absolute"

\* Request::validate: "ok" or the code of the rejection.
Validate(r, maxPaths) ==
    CASE ~r.version -> "version_mismatch"
      [] r.version /\ r.op = "scan" /\ ~PathsOk(r.paths, maxPaths) -> "bad_request"
      [] r.version /\ r.op \in {"run_schedule", "quarantine_restore",
                                "quarantine_delete"} /\ r.arg = "invalid" -> "bad_request"
      [] OTHER -> "ok"

AdminOps == {"system_check", "run_schedule", "quarantine_list",
             "quarantine_restore", "quarantine_delete", "verify_audit"}

AuthorizeScans(admin, r) ==
    IF r.op \in AdminOps /\ ~admin THEN "unauthorized" ELSE "ok"

\* policy::authorize.
Authorize(admin, r) ==
    IF (r.op \in AdminOps \/ (r.op = "scan" /\ r.quarantine)) /\ ~admin
    THEN "unauthorized" ELSE "ok"

\* policy::can_access_job and policy::scan_as_caller.
CanAccessJob(uid, admin, owner) == admin \/ uid = owner
ScanAsCaller(admin) == ~admin

----------------------------------------------------------------------------
(* Identities.  A job is run for the service or for the caller who asked.  *)

RunAsService  == [who |-> "service", uid |-> None]
RunAsCaller(uid) == [who |-> "caller", uid |-> uid]

\* scan_identity: on Windows the service scans only for administrators.
ScanIdentity(platform, uid, admin) ==
    CASE ~ScanAsCaller(admin) -> RunAsService
      [] ScanAsCaller(admin) /\ platform = "unix" -> RunAsCaller(uid)
      [] OTHER -> None

Caps(kind) ==
    CASE kind = "scan"         -> {"dac_read_search"}
      [] kind = "system_check" -> {"dac_read_search", "sys_ptrace"}
      [] kind = "update"       -> {}

\* Manager::identity and setpriv_args: the account the child runs as and the
\* capabilities it keeps; "inherit" keeps the service's own, None is an error.
Identity(platform, root, self, spec) ==
    CASE platform = "windows" -> [as |-> "inherit", uid |-> self, caps |-> {"own"}]
      [] platform = "unix" /\ root /\ spec.run_as.who = "service" ->
            [as |-> "account", uid |-> None, caps |-> Caps(spec.kind)]
      [] platform = "unix" /\ root /\ spec.run_as.who = "caller" ->
            [as |-> "user", uid |-> spec.run_as.uid, caps |-> {}]
      [] platform = "unix" /\ ~root /\ (spec.run_as.who = "service"
                                        \/ spec.run_as.uid = self) ->
            [as |-> "inherit", uid |-> self, caps |-> {"own"}]
      [] OTHER -> None

\* child_args: the command and options of the scanner child.  It never
\* quarantines and never applies an allow-list; the paths come after "--".
\* Installed content is used when an update left a bundle (use_installed).
ChildArgs(spec, c, installed) ==
    LET content == (IF c.content THEN {"content"} ELSE {})
                   \cup (IF installed THEN {"installed", "content-dir"} ELSE {})
        keyrings == IF c.keyrings THEN {"keyring"} ELSE {}
    IN  [command |-> spec.kind,
         options |->
            CASE spec.kind = "update" -> {"source", "content-dir", "content-state"} \cup keyrings
              [] spec.kind # "update" ->
                   content \cup keyrings
                   \cup (IF content # {} THEN {"content-state"} ELSE {})
                   \cup (IF spec.kind = "scan" THEN {"no-allowlist", "scan-timeout", "--"} ELSE {}),
         paths |-> IF spec.kind = "scan" THEN spec.paths ELSE <<>>]

----------------------------------------------------------------------------
(* Schedules and configurations.                                           *)

\* next_due: when s is next due, given its last run.
NextDue(s, last, now) ==
    CASE s.at = None /\ last = None -> now
      [] s.at = None /\ last # None -> last + s.every
      [] s.at # None /\ last # None ->
            ((last \div Day) + (s.every \div Day)) * Day + s.at
      [] OTHER -> LET today == (now \div Day) * Day + s.at
                  IN  IF today >= now THEN today ELSE today + Day

\* schedule::spec: a scheduled job always runs for the service.
SpecOf(s) == [kind |-> s.kind, quarantine |-> s.quarantine, run_as |-> RunAsService,
              paths |-> IF s.kind = "scan" THEN s.paths ELSE <<>>]

\* The checks of one schedule in ServiceConfig::validate.
ScheduleOk(c, s, maxPaths, maxEvery) ==
    /\ s.name # None
    /\ s.every \in 1..maxEvery
    /\ s.at # None => s.at \in 0..(Day - 1) /\ s.every % Day = 0
    /\ CASE s.kind = "scan"         -> PathsOk(s.paths, maxPaths)
         [] s.kind = "system_check" -> s.paths = <<>> /\ ~s.quarantine
         [] s.kind = "update"       -> /\ s.paths = <<>> /\ ~s.quarantine /\ ~s.heuristics
                                       /\ c.update_source # None

\* ServiceConfig::validate: the limits; the names of the schedules differ.
LimitsOk(c) ==
    /\ c.max_concurrent_jobs \in 1..8
    /\ c.max_queued_jobs \in 1..1000
    /\ c.history_limit \in 1..100000
    /\ c.audit_check_hours \in 0..(24 * 365)

SchedulesOk(c, maxPaths, maxEvery) ==
    /\ \A i, j \in DOMAIN c.schedules :
          c.schedules[i].name = c.schedules[j].name => i = j
    /\ \A i \in DOMAIN c.schedules : ScheduleOk(c, c.schedules[i], maxPaths, maxEvery)

\* The paths are absolute, the source an https URL or a directory.
ConfigOk(c, maxPaths, maxEvery) ==
    /\ LimitsOk(c)
    /\ c.paths_absolute
    /\ c.update_source \in {None, "https", "directory"}
    /\ SchedulesOk(c, maxPaths, maxEvery)

\* load: a missing file gives the defaults; as root the file must belong to
\* root and be writable by nobody else (check_trusted_file).
LoadConfig(f, root, default, maxPaths, maxEvery) ==
    CASE f = None -> default
      [] f # None /\ root /\ ~f.trusted -> None
      [] f # None /\ (root => f.trusted) /\ ~ConfigOk(f.config, maxPaths, maxEvery) -> None
      [] OTHER -> f.config
=============================================================================
