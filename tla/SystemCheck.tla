---------------------------- MODULE SystemCheck ----------------------------
(***************************************************************************)
(* abyssal-warden system-check on Linux (crates/system, cli/system_cmd.rs):*)
(* the checks in the order run_checks calls them, each read of /proc and   *)
(* /sys a step of its own, while processes start and exit, modules come    *)
(* and go, a helper program may hang and the user may cancel.              *)
(*                                                                         *)
(* What is inspected is a scene: the files, programs, processes, modules   *)
(* and kernel flags of the system and the options of the command.  denied  *)
(* names the reads that fail; flags the facts about kernel and boot.       *)
(***************************************************************************)
EXTENDS SystemRules, FiniteSetsExt, TLC

CONSTANTS
    Pid,        \* process numbers, naturals
    Module,     \* loadable kernel modules
    Scenes,     \* the systems inspected
    PidReuse,   \* whether a number is given out again during the run
    DEFAULT_PID_MAX  \* the numbers probed when pid_max cannot be read

Process == {"none", "proc", "thread", "unlisted"}

ASSUME PidAssumption == Pid \subseteq Nat /\ IsFiniteSet(Pid) /\ DEFAULT_PID_MAX \in Nat

ASSUME SceneAssumption ==
    \A s \in Scenes : /\ s.procs \in [Pid -> Process] /\ s.modules \subseteq Module
                      /\ s.changes \in Nat

VARIABLES
    scene,      \* the system and the options
    pc,         \* the check, or the step of it, that runs
    run,        \* Run and the check's locals
    views,      \* kernel::modules: what it has read of the loaded modules
    search,     \* find_hidden's locals
    users,      \* Ctx: homes inspected
    limited,    \* Ctx: other users' files are out of reach
    checks,     \* status of the finished checks
    findings, entries, issues,
    procs,      \* what answers at /proc/PID: none, proc, thread or unlisted
    touched,    \* numbers whose process started or exited during the run
    mods,       \* loaded modules
    churn,      \* how often a module was loaded or unloaded
    left,       \* changes the environment may still make
    cancelled,  \* CancellationToken
    scan,       \* report on the referenced programs
    exit        \* exit status, NotYet while running

look == <<views, search>>
ctx  == <<users, limited, checks, findings, entries, issues>>
env  == <<procs, touched, mods, churn, left>>
vars == <<scene, pc, run, look, ctx, env, cancelled, scan, exit>>

NotYet == 255

(* The locals of a check, all unset.                                       *)
Idle == [nth |-> 0, partial |-> FALSE, todo |-> {}, inodes |-> {},
         tool |-> "idle", caller |-> "none"]
NoSearch == [todo |-> {}, listed |-> {}, cands |-> {}]

Init ==
    /\ scene \in Scenes
    /\ pc = "open" /\ run = Idle /\ views = <<>> /\ search = NoSearch
    /\ users = {} /\ limited = FALSE
    /\ checks = [c \in {} |-> "none"] /\ findings = {} /\ entries = {} /\ issues = {}
    /\ procs = scene.procs /\ touched = {}
    /\ mods = scene.modules /\ churn = [m \in Module |-> 0] /\ left = scene.changes
    /\ cancelled = FALSE
    /\ scan = [detected |-> FALSE, complete |-> TRUE]
    /\ exit = NotYet

(* Helpers for the steps.  Denied: the read fails with an error other than *)
(* "not found".  Where the code asks io_error, that is an issue and makes  *)
(* the check partial.                                                      *)
Denied(what) == what \in scene.denied

IoError(what) == IF Denied(what) THEN {what} ELSE {}

Status(partial) == IF partial \/ cancelled THEN "partial" ELSE "completed"

(* Run::finish and the next check.                                         *)
Finish(id, status, next) ==
    /\ checks' = (id :> status) @@ checks
    /\ run' = Idle
    /\ pc' = next

-----------------------------------------------------------------------------
(* run_checks: the root, the users, the persistence checks.                *)

OpenRoot ==
    /\ pc = "open"
    /\ IF Denied("root") THEN pc' = "done" /\ exit' = 2
                         ELSE pc' = "passwd" /\ UNCHANGED exit
    /\ UNCHANGED <<scene, run, look, ctx, env, cancelled, scan>>

(* The files a check inspects: the system's and those in the homes known.  *)
FilesOf(nth, homes) ==
    {f \in scene.files : PlaceOf(f) \in PersistenceChecks[nth].places
                         /\ f.user \in homes \cup {NoUser}}

ReadPasswd ==
    /\ pc = "passwd"
    /\ LET all  == ParsePasswd(scene.passwd)
           few  == scene.live /\ ~scene.root
           mine == IF few THEN all \cap {scene.euid} ELSE all
       IN /\ users' = IF Denied("passwd") THEN {} ELSE mine
          /\ limited' = (few /\ ~Denied("passwd"))
    /\ pc' = "persistence"
    /\ run' = [Idle EXCEPT !.nth = 1, !.todo = FilesOf(1, users')]
    /\ UNCHANGED <<scene, look, checks, findings, entries, issues, env, cancelled, scan, exit>>

(* A file whose inode a systemd directory already gave is passed over,     *)
(* whatever its other name was.                                            *)
Passed(f) == f.place = "unit" /\ f.ino \in run.inodes


(* persistence::read and extra::program: a file longer than 1 MiB is read  *)
(* up to there and makes the check partial, unless it is a binary program. *)
ReadFile(f) ==
    /\ run' = [run EXCEPT
         !.todo    = @ \ {f},
         !.inodes  = @ \cup {f.ino},
         !.partial = @ \/ f.read = "denied"
                       \/ (f.read = "ok" /\ f.rest # {} /\ ~Unsearched(PlaceOf(f), f))]
    /\ issues' = issues \cup IF f.read = "denied" THEN {f.place} ELSE {}

Inspect(f) ==
    /\ pc = "persistence" /\ f \in run.todo
    /\ ~(cancelled /\ PlaceOf(f).stops)
    /\ IF Passed(f) \/ ~f.fits \/ f.read \in {"missing", "passed"}
       THEN /\ run' = [run EXCEPT !.todo = @ \ {f}, !.inodes = @ \cup {f.ino}]
            /\ UNCHANGED <<findings, entries, issues>>
       ELSE LET new == Entries(PlaceOf(f), f)
            IN /\ ReadFile(f)
               /\ entries' = entries \cup new
               /\ findings' = findings \cup Plain(UNION {Record(e, scene.exes) : e \in new})
    /\ UNCHANGED <<scene, pc, look, users, limited, checks, env, cancelled, scan, exit>>

(* The loops of some checks end at a cancellation.                         *)
InspectStop ==
    /\ pc = "persistence" /\ cancelled
    /\ \E f \in run.todo : PlaceOf(f).stops
    /\ run' = [run EXCEPT !.todo = {f \in @ : ~PlaceOf(f).stops}]
    /\ UNCHANGED <<scene, pc, look, ctx, env, cancelled, scan, exit>>

FinishPersistence ==
    /\ pc = "persistence" /\ run.todo = {}
    /\ LET c    == PersistenceChecks[run.nth]
           next == run.nth + 1
       IN /\ checks' = (c.id :> Status(run.partial \/ (c.limits /\ limited))) @@ checks
          /\ IF next \in DOMAIN PersistenceChecks
             THEN /\ run' = [Idle EXCEPT !.nth = next, !.todo = FilesOf(next, users)]
                  /\ UNCHANGED pc
             ELSE run' = Idle /\ pc' = "boot"
    /\ UNCHANGED <<scene, look, users, limited, findings, entries, issues, env, cancelled, scan, exit>>

-----------------------------------------------------------------------------
(* Boot, kernel and eBPF.                                                  *)

(* boot::check: what it can see.  A configured command line or a loader    *)
(* entry that cannot be read, or is past the 200th, is passed over         *)
(* ("config"), and so is what cannot be examined under /boot               *)
(* ("boot_stat"); the walk ends at a cancellation.                         *)
BootSees(flag) ==
    CASE flag = "secure_boot_off" -> scene.live /\ ~Denied("efivar")
      [] flag = "weak_cmdline"    -> scene.live /\ ~Denied("cmdline")
      [] flag = "weak_config"     -> ~Denied("config")
      [] flag = "boot_writable"   -> ~cancelled /\ ~Denied("boot") /\ ~Denied("boot_stat")
      [] OTHER -> FALSE

(* Of more than MAX_BOOT_FILES the walk sees some.                         *)
Boot ==
    /\ pc = "boot"
    /\ \E missed \in {{}} \cup {{"boot_writable"} : m \in scene.flags \cap {"boot_many"}} :
         findings' = findings \cup Plain({x \in scene.flags : BootSees(x)} \ missed)
    /\ LET errors == (IF scene.live THEN IoError("efivar") \cup IoError("cmdline") ELSE {})
                     \cup (IF cancelled THEN {} ELSE IoError("boot"))
       IN /\ issues' = issues \cup errors
          /\ Finish("boot", Status(errors # {} \/ "boot_many" \in scene.flags),
                    IF scene.live THEN "self" ELSE "packages")
    /\ UNCHANGED <<scene, look, users, limited, entries, env, cancelled, scan, exit>>

(* processes::self_integrity.                                              *)
SelfIntegrity ==
    /\ pc = "self"
    /\ findings' = findings \cup Plain(IF Denied("maps") THEN {} ELSE scene.flags \cap {"injected"})
    /\ issues' = issues \cup IoError("maps")
    /\ Finish("self_integrity", Status(Denied("maps")), "modules")
    /\ UNCHANGED <<scene, look, users, limited, entries, env, cancelled, scan, exit>>

(* kernel::modules reads /proc/modules and then /sys/module.  A tampered   *)
(* module is missing from the first.                                       *)
View == IF Len(views) % 2 = 0 THEN mods \ scene.tampered ELSE mods

CrossView(p, s) == {<<m, "proc">> : m \in s \ p} \cup {<<m, "sys">> : m \in p \ s}

Mismatch(first) == CrossView(views[first], views[first + 1])

ReadModules ==
    /\ pc = "modules" /\ ~Denied("modules")
    /\ Len(views) < 2 \/ (Len(views) \in 2..3 /\ Mismatch(1) # {} /\ ~Denied("again"))
    /\ views' = Append(views, View)
    /\ UNCHANGED <<scene, pc, run, search, ctx, env, cancelled, scan, exit>>

ModulesReport ==
    /\ pc = "modules"
    /\ \/ Denied("modules")
       \/ Len(views) = 2 /\ (Mismatch(1) = {} \/ Denied("again"))
       \/ Len(views) = 4
    /\ findings' = findings \cup
         IF Len(views) = 4
         THEN {<<"module_hidden", x[1]>> : x \in Mismatch(1) \cap Mismatch(3)} ELSE {}
    /\ issues' = issues \cup IoError("modules")
    /\ views' = <<>>
    /\ Finish("modules", Status(Denied("modules")), "ebpf")
    /\ UNCHANGED <<scene, search, users, limited, entries, env, cancelled, scan, exit>>

(* tool::run: a helper is started, and waited for until it ends, the       *)
(* deadline passes or the run is cancelled; its output is read to the end. *)
(* One that cannot be started counts as one that was killed.               *)
StartTool(caller) == run' = [run EXCEPT !.tool = "running", !.caller = caller]

ToolEnds ==
    /\ run.tool = "running"
    /\ run' = [run EXCEPT !.tool = "ended"]
    /\ UNCHANGED <<scene, pc, look, ctx, env, cancelled, scan, exit>>

(* Waiting for the helper without a deadline.                              *)
ToolDeadlineNever ==
    /\ run.tool = "running" /\ cancelled
    /\ run' = [run EXCEPT !.tool = "killed"]
    /\ UNCHANGED <<scene, pc, look, ctx, env, cancelled, scan, exit>>

ToolDeadline ==
    /\ run.tool = "running"
    /\ run' = [run EXCEPT !.tool = "killed"]
    /\ UNCHANGED <<scene, pc, look, ctx, env, cancelled, scan, exit>>

(* The reader is joined: it ends when nobody holds the pipe any more.      *)
Joined(caller) == run.caller = caller /\ run.tool \in {"ended", "killed"} /\ ~Denied("pipe")

Ebpf ==
    /\ pc = "ebpf" /\ run.tool = "idle"
    /\ scene.root /\ scene.bpftool
    /\ StartTool("ebpf")
    /\ UNCHANGED <<scene, pc, look, ctx, env, cancelled, scan, exit>>

(* Without bpftool, the processes' descriptors: partial when a process     *)
(* cannot be read, also one that has just exited.                          *)
EbpfReport ==
    /\ pc = "ebpf"
    /\ (scene.root /\ scene.bpftool) => Joined("ebpf")
    /\ \E unread \in BOOLEAN :
         Finish("ebpf", Status(\/ run.tool # "ended" /\ (unread \/ ~scene.root)
                               \/ Denied("bpffs")), "taint")
    /\ UNCHANGED <<scene, look, users, limited, findings, entries, issues, env, cancelled, scan, exit>>

Taint ==
    /\ pc = "taint"
    /\ findings' = findings \cup Plain(
         IF Denied("tainted") THEN {} ELSE scene.flags \cap {"kernel_forced", "kernel_taint_info"})
    /\ issues' = issues \cup IoError("tainted")
    /\ Finish("taint", Status(Denied("tainted")), IF scene.hidden THEN "hidden" ELSE "deleted")
    /\ UNCHANGED <<scene, look, users, limited, entries, env, cancelled, scan, exit>>

-----------------------------------------------------------------------------
(* processes::hidden and find_hidden.                                      *)

Listed(p) == procs[p] = "proc"

Probe(p) == CASE procs[p] \in {"proc", "unlisted"} -> "process"
              [] procs[p] = "thread" -> "thread"
              [] OTHER -> "absent"

StartListing ==
    /\ pc = "hidden"
    /\ IF Denied("proc")
       THEN /\ Finish("hidden", "partial", "deleted") /\ issues' = issues \cup {"proc"}
            /\ UNCHANGED search
       ELSE /\ pc' = "list" /\ search' = [NoSearch EXCEPT !.todo = Pid]
            /\ UNCHANGED <<run, checks, issues>>
    /\ UNCHANGED <<scene, views, users, limited, findings, entries, env, cancelled, scan, exit>>

(* listed_pids: the directory is read entry by entry, in ascending order.  *)
ListOne ==
    /\ pc \in {"list", "relist"} /\ search.todo # {}
    /\ LET p == Min(search.todo)
       IN search' = [search EXCEPT !.todo = @ \ {p},
                                   !.listed = IF Listed(p) THEN @ \cup {p} ELSE @]
    /\ UNCHANGED <<scene, pc, run, views, ctx, env, cancelled, scan, exit>>

(* The numbers probed: up to pid_max, or a default if it cannot be read.   *)
Swept == {p \in Pid : Denied("pid_max") => p <= DEFAULT_PID_MAX}

ListDone ==
    /\ pc \in {"list", "relist"} /\ search.todo = {}
    /\ \/ /\ pc = "list" /\ pc' = "sweep"
          /\ search' = [search EXCEPT !.todo = Swept \ search.listed]
       \/ /\ pc = "relist" /\ pc' = "confirm"
          /\ search' = [search EXCEPT !.todo = search.cands \ search.listed, !.cands = {}]
    /\ UNCHANGED <<scene, run, views, ctx, env, cancelled, scan, exit>>

(* The sweep's threads probe the numbers in any order.                     *)
SweepOne ==
    /\ pc \in {"sweep", "confirm"}
    /\ \E p \in search.todo :
         /\ pc = "confirm" => p = Min(search.todo)
         /\ search' = [search EXCEPT !.todo = @ \ {p},
                                     !.cands = IF Probe(p) = "process" THEN @ \cup {p} ELSE @]
    /\ UNCHANGED <<scene, pc, run, views, ctx, env, cancelled, scan, exit>>

SweepStop ==
    /\ pc = "sweep" /\ cancelled /\ search.todo # {}
    /\ search' = [search EXCEPT !.todo = {}]
    /\ UNCHANGED <<scene, pc, run, views, ctx, env, cancelled, scan, exit>>

(* Reporting the candidates without the second listing.                    *)
RelistNever ==
    /\ pc = "sweep" /\ search.todo = {} /\ search.cands # {}
    /\ pc' = "confirm"
    /\ search' = [search EXCEPT !.todo = search.cands, !.cands = {}]
    /\ UNCHANGED <<scene, run, views, ctx, env, cancelled, scan, exit>>

Relist ==
    /\ pc = "sweep" /\ search.todo = {} /\ search.cands # {} /\ ~Denied("relist")
    /\ pc' = "relist"
    /\ search' = [search EXCEPT !.todo = Pid, !.listed = {}]
    /\ UNCHANGED <<scene, run, views, ctx, env, cancelled, scan, exit>>

HiddenReport ==
    /\ pc \in {"sweep", "confirm"} /\ search.todo = {}
    /\ pc = "sweep" => search.cands = {} \/ Denied("relist")
    /\ findings' = findings \cup
         IF pc = "confirm" THEN {<<"hidden_process", p>> : p \in search.cands} ELSE {}
    /\ search' = NoSearch
    /\ Finish("hidden", Status(~scene.root), "deleted")
    /\ UNCHANGED <<scene, views, users, limited, entries, issues, env, cancelled, scan, exit>>

(* processes::deleted: other users' programs are not readable without root.*)
Deleted ==
    /\ pc = "deleted"
    /\ findings' = findings \cup
         IF Denied("proc") \/ cancelled THEN {}
         ELSE {<<"deleted_exec", p>> : p \in {q \in scene.deleted : Listed(q)}}
    /\ issues' = issues \cup IoError("proc")
    /\ Finish("deleted", Status(Denied("proc") \/ ~scene.root), "packages")
    /\ UNCHANGED <<scene, look, users, limited, entries, env, cancelled, scan, exit>>

-----------------------------------------------------------------------------
(* packages::check.                                                        *)

Targets == PackageTargets(scene.critical, entries, scene.exes)

NothingToVerify == ~scene.verifyAll /\ Targets = {}

ToHash == Records(scene.manager, scene.verifyAll, Targets, scene.exes)

(* dpkg: what is known of the md5sums files of the packages selected.      *)
Md5sums(state) ==
    \E x \in Looked(scene.verifyAll, Targets, scene.exes) : scene.exes[x].db = state

(* A .list file that cannot be read, or only in part, selects nothing, and *)
(* nobody is told.                                                         *)
Packages ==
    /\ pc = "packages" /\ run.tool = "idle"
    /\ LET end(status) == Finish("packages", status, "referenced") /\ UNCHANGED issues
       IN \/ ~scene.packages /\ end("skipped")
          \/ /\ scene.packages
             /\ \/ scene.manager = "none" /\ end("unsupported")
                \/ scene.manager # "none" /\ NothingToVerify /\ end(Status(FALSE))
                \/ /\ scene.manager = "rpm" /\ ~NothingToVerify
                   /\ StartTool("packages") /\ UNCHANGED <<pc, checks, issues>>
                \/ /\ scene.manager = "dpkg" /\ ~NothingToVerify /\ Denied("dpkg")
                   /\ Finish("packages", "partial", "referenced")
                   /\ issues' = issues \cup {"dpkg"}
                \/ /\ scene.manager = "dpkg" /\ ~NothingToVerify /\ ~Denied("dpkg")
                   /\ run' = [Idle EXCEPT !.todo = ToHash,
                                           !.partial = Md5sums("denied") \/ Md5sums("cut")]
                   /\ issues' = issues \cup IF Md5sums("denied") THEN {"md5sums"} ELSE {}
                   /\ pc' = "hash" /\ UNCHANGED checks
    /\ UNCHANGED <<scene, look, users, limited, findings, entries, env, cancelled, scan, exit>>

(* The exit status of rpm is not looked at: one that fails ("rpm") gives   *)
(* no records, and the check is completed.                                 *)
RpmAnswered ==
    /\ pc = "packages" /\ Joined("packages")
    /\ IF run.tool = "ended"
       THEN /\ pc' = "hash" /\ UNCHANGED checks
            /\ run' = [Idle EXCEPT !.todo = IF Denied("rpm") THEN {} ELSE ToHash]
       ELSE Finish("packages", "failed", "referenced")
    /\ UNCHANGED <<scene, look, users, limited, findings, entries, issues, env, cancelled, scan, exit>>

(* A file over 1 GiB is only noted, an unreadable one makes it partial.    *)
HashOne ==
    /\ pc = "hash" /\ ~cancelled
    /\ \E x \in run.todo :
         LET e == scene.exes[x]
         IN /\ run' = [run EXCEPT !.todo = @ \ {x}, !.partial = @ \/ e.hash = "denied"]
            /\ findings' = findings \cup
                 IF e.hash = "ok" /\ e.there /\ e.modified THEN {<<"package_modified", x>>} ELSE {}
    /\ UNCHANGED <<scene, pc, look, users, limited, checks, entries, issues, env, cancelled, scan, exit>>

PackagesReport ==
    /\ pc = "hash" /\ (run.todo = {} \/ cancelled)
    /\ Finish("packages", Status(run.partial), "referenced")
    /\ UNCHANGED <<scene, look, users, limited, findings, entries, issues, env, cancelled, scan, exit>>

-----------------------------------------------------------------------------
(* system_cmd: the programs the entries start are scanned, the findings    *)
(* linked to the entries, the report is written.                           *)

ScanReferenced ==
    /\ pc = "referenced"
    /\ IF scene.content /\ ~cancelled
       THEN \E names \in FirstNames(entries, scene.exes) :
              LET kinds == {scene.exes[names[h]].content : h \in DOMAIN names}
              IN /\ scan' = [detected |-> "detected" \in kinds, complete |-> "issue" \notin kinds]
                 /\ findings' = findings \cup
                      {<<"launches_detected", Executable(e)>> : e \in Correlate(entries, names, scene.exes)}
       ELSE UNCHANGED <<scan, findings>>
    /\ pc' = "report"
    /\ UNCHANGED <<scene, run, look, users, limited, checks, entries, issues, env, cancelled, exit>>

Report ==
    /\ pc = "report"
    /\ exit' = CASE Denied("output") -> 2
                 [] ~Denied("output") /\ cancelled -> 130
                 [] OTHER -> ExitCode(findings, checks, issues, scan)
    /\ pc' = "done"
    /\ UNCHANGED <<scene, run, look, ctx, env, cancelled, scan>>

-----------------------------------------------------------------------------
(* The environment.                                                        *)

ProcStart ==
    /\ left > 0
    /\ \E p \in Pid :
         /\ procs[p] = "none" /\ (p \in touched => PidReuse)
         /\ procs' = [procs EXCEPT ![p] = "proc"] /\ touched' = touched \cup {p}
    /\ left' = left - 1
    /\ UNCHANGED <<scene, pc, run, look, ctx, mods, churn, cancelled, scan, exit>>

ProcExit ==
    /\ left > 0
    /\ \E p \in Pid :
         /\ procs[p] # "none"
         /\ procs' = [procs EXCEPT ![p] = "none"] /\ touched' = touched \cup {p}
    /\ left' = left - 1
    /\ UNCHANGED <<scene, pc, run, look, ctx, mods, churn, cancelled, scan, exit>>

ModuleChange ==
    /\ left > 0
    /\ \E m \in Module :
         /\ mods' = IF m \in mods THEN mods \ {m} ELSE mods \cup {m}
         /\ churn' = [churn EXCEPT ![m] = @ + 1]
    /\ left' = left - 1
    /\ UNCHANGED <<scene, pc, run, look, ctx, procs, touched, cancelled, scan, exit>>

(* Ctrl-C.                                                                 *)
Cancel ==
    /\ pc # "done" /\ ~cancelled
    /\ cancelled' = TRUE
    /\ UNCHANGED <<scene, pc, run, look, ctx, env, scan, exit>>

Program ==
    \/ OpenRoot \/ ReadPasswd
    \/ \E f \in run.todo : Inspect(f)
    \/ InspectStop \/ FinishPersistence
    \/ Boot \/ SelfIntegrity \/ ReadModules \/ ModulesReport
    \/ ToolDeadline \/ Ebpf \/ EbpfReport \/ Taint
    \/ StartListing \/ ListOne \/ ListDone \/ SweepOne \/ SweepStop \/ Relist \/ HiddenReport
    \/ Deleted \/ Packages \/ RpmAnswered \/ HashOne \/ PackagesReport
    \/ ScanReferenced \/ Report

Next == Program \/ ToolEnds \/ ProcStart \/ ProcExit \/ ModuleChange \/ Cancel

(* The program runs; nothing else is bound to happen.                      *)
Spec == Init /\ [][Next]_vars /\ WF_vars(Program)

-----------------------------------------------------------------------------
(* A process is reported as hidden only if it really is missing from the   *)
(* listing of /proc, not because it started, or exited, between two of the *)
(* reads; a module only if it is missing from a view, or was loaded and    *)
(* unloaded three times between the four reads (find_hidden and            *)
(* kernel::modules, which both look twice).                                *)
HiddenIsReal ==
    \A p \in Pid : <<"hidden_process", p>> \in findings => scene.procs[p] = "unlisted"
ModulesAreReal ==
    \A m \in Module : <<"module_hidden", m>> \in findings => m \in scene.tampered \/ churn[m] >= 3

AccusedIsReal == HiddenIsReal /\ ModulesAreReal

(* What there is to review in the system: the rules, applied to every file *)
(* as if it had been read whole, to what was the case all along, and to    *)
(* every program a file starts.                                            *)
Inspected ==
    {f \in scene.files :
       /\ f.fits /\ f.read # "missing"
       /\ f.user \in {NoUser, 0} \cup {u.uid : u \in {v \in scene.passwd : v.login}}}

WholeEntries(f) ==
    Entries(PlaceOf(f), [f EXCEPT !.read = "ok", !.lines = @ \cup f.rest \cup f.over])

BreaksRule(f)  == \E e \in WholeEntries(f) : Record(e, scene.exes) # {}
Starts(f, x)   == \E e \in WholeEntries(f) : Executable(e) = x
Started        == {x \in DOMAIN scene.exes : \E f \in Inspected : Starts(f, x)}
Verified       == IF scene.verifyAll THEN DOMAIN scene.exes ELSE scene.critical \cup Started
Changed(x)     == scene.exes[x].there /\ scene.exes[x].packaged /\ scene.exes[x].modified

RunningFlags == {"weak_cmdline", "injected", "kernel_forced"}

SuspectsAtRest ==
    {<<"file", f>> : f \in {g \in Inspected : BreaksRule(g)}}
    \cup {<<"flag", x>> : x \in scene.flags \cap {"weak_config", "boot_writable"}}
    \cup {<<"package", x>> : x \in {y \in Verified : scene.packages /\ Changed(y)}}
    \cup {<<"content", x>> : x \in {y \in Started : scene.content
                                       /\ scene.exes[y].there /\ scene.exes[y].content # "clean"}}

SuspectsRunning ==
    {<<"flag", x>> : x \in scene.flags \cap RunningFlags}
    \cup {<<"module", m>> : m \in {n \in scene.tampered \cap mods : churn[n] = 0}}
    \cup {<<"process", p>> : p \in {q \in Pid \ touched : scene.hidden /\ procs[q] = "unlisted"}}
    \cup {<<"deleted", p>> : p \in {q \in scene.deleted \ touched : procs[q] = "proc"}}

Suspects == SuspectsAtRest \cup IF scene.live THEN SuspectsRunning ELSE {}

(* Exit status 0 means that everything was looked at and nothing calls for *)
(* review ("All checks completed, nothing to review"), whatever failed on  *)
(* the way.  It does not: KnownLapse lists what is passed over in silence. *)
CleanExitSawAll == exit = 0 => Suspects = {}

(* What the checks pass over without an issue and without ending partial:  *)
(* a unit whose inode has another name in the directories (systemd.rs);    *)
(* the homes when /etc/passwd cannot be read (lib.rs, a warning); a file   *)
(* the check does not get to, lines past a limit; ...                      *)
PassedOver(f) ==
    \/ /\ f.place = "unit"
       /\ \E g \in scene.files : g.place = "unit" /\ g.ino = f.ino /\ (~g.fits \/ g.user # f.user)
    \/ f.user # NoUser /\ Denied("passwd")
    \/ f.read = "passed" \/ f.over # {}

(* ... configured command lines, and what cannot be examined under /boot;  *)
(* the second look at modules and at processes, process numbers past the   *)
(* default; ...                                                            *)
RunningLapse(kind, x) ==
    \/ kind = "flag" /\ x = "weak_config" /\ Denied("config")
    \/ kind = "flag" /\ x = "boot_writable" /\ Denied("boot_stat")
    \/ kind = "module" /\ Denied("again")
    \/ kind = "process" /\ Denied("relist")
    \/ kind = "process" /\ Denied("pid_max") /\ x > DEFAULT_PID_MAX

(* ... a program over 1 GiB, without a record or of an rpm that failed     *)
(* (packages.rs), one with a name that is not UTF-8, and one that only     *)
(* files that were passed over start.                                      *)
NotHashed(x) ==
    \/ scene.exes[x].hash = "large"
    \/ scene.exes[x].db = "lost" /\ (scene.manager = "rpm" \/ ~scene.verifyAll)
    \/ scene.manager = "rpm" /\ Denied("rpm")

NotStarted(x) ==
    \/ scene.exes[x].lossy
    \/ \A f \in Inspected : Starts(f, x) => PassedOver(f)

ProgramLapse(kind, x) ==
    \/ kind = "package" /\ NotHashed(x)
    \/ kind = "package" /\ ~scene.verifyAll /\ x \notin scene.critical /\ NotStarted(x)
    \/ kind = "content" /\ NotStarted(x)

KnownLapse(s) ==
    \/ s[1] = "file" /\ PassedOver(s[2])
    \/ s[1] \in {"flag", "module", "process"} /\ RunningLapse(s[1], s[2])
    \/ s[1] \in {"package", "content"} /\ ProgramLapse(s[1], s[2])


(* The command ends, also when a helper program hangs.                     *)
Terminates == <>(exit # NotYet)

-----------------------------------------------------------------------------
(* The inductive invariants SystemCheckProofs proves.                      *)

(* The types of what changes while it is looked at, and of what was seen.  *)
WatchType ==
    /\ scene \in Scenes
    /\ procs \in [Pid -> Process] /\ touched \subseteq Pid
    /\ mods \subseteq Module /\ churn \in [Module -> Nat] /\ left \in Nat
    /\ views \in Seq(SUBSET Module)
    /\ search \in [todo : SUBSET Pid, listed : SUBSET Pid, cands : SUBSET Pid]

(* A number that is not given out again is used by one process: one that   *)
(* was there and went, or one that came and may have gone.                 *)
UsedOnce ==
    \A p \in Pid :
        /\ p \notin touched => procs[p] = scene.procs[p]
        /\ p \in touched => /\ procs[p] \in {"none", "proc"}
                            /\ scene.procs[p] # "none" => procs[p] = "none"

Gone(p) == p \in touched /\ procs[p] = "none"

(* What each pass of find_hidden has learnt: a number that was not listed  *)
(* is not that of an ordinary process that was there all along; one that   *)
(* answered all the same is hidden or new; one that is new and not listed  *)
(* a second time has gone, and does not answer again.                      *)
SearchInv ==
    /\ pc = "list" => \A p \in Pid \ (search.todo \cup search.listed) :
                         scene.procs[p] # "proc" \/ Gone(p)
    /\ pc = "sweep" => \A p \in search.todo : scene.procs[p] # "proc" \/ Gone(p)
    /\ pc \in {"list", "sweep", "relist"} => \A p \in search.cands :
         scene.procs[p] = "unlisted" \/ (scene.procs[p] = "none" /\ p \in touched)
    /\ pc = "relist" => \A p \in search.cands \ (search.todo \cup search.listed) :
                           scene.procs[p] = "unlisted" \/ Gone(p)
    /\ pc = "confirm" =>
         /\ \A p \in search.todo : scene.procs[p] = "unlisted" \/ Gone(p)
         /\ \A p \in search.cands : scene.procs[p] = "unlisted"

(* Whether module m changed between two of the reads, or since the last.   *)
Flip(m, k) == IF k + 1 \in DOMAIN views /\ (m \in views[k]) # (m \in views[k + 1]) THEN 1 ELSE 0
Since(m)   == IF views # <<>> /\ (m \in views[Len(views)]) # (m \in mods) THEN 1 ELSE 0

(* Every difference between two reads is a load or an unload.              *)
ViewsInv ==
    /\ Len(views) <= 4
    /\ \A m \in Module \ scene.tampered :
         churn[m] >= Flip(m, 1) + Flip(m, 2) + Flip(m, 3) + Since(m)

WatchInv == WatchType /\ UsedOnce /\ SearchInv /\ HiddenIsReal /\ ViewsInv /\ ModulesAreReal
=============================================================================
