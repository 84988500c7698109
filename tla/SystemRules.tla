---------------------------- MODULE SystemRules ----------------------------
(***************************************************************************)
(* What the system checks make of one file: which of the 18 persistence    *)
(* checks inspects it, which entries it gives, and which rules an entry    *)
(* breaks.  Pure operators; SystemCheck runs them against a scene.         *)
(*                                                                         *)
(* A file of the inspected system is a record                              *)
(*   place  where it is (one of the places below)                          *)
(*   ino    its inode; fits: its name is one the check accepts             *)
(*   user   uid of the home directory it is in, or NoUser                  *)
(*   runs   uid its commands run as                                        *)
(*   read   "ok", "missing", "denied", or "passed": a file the check does  *)
(*          not get to (past the 20,000th entry of its directory, a name   *)
(*          that is not UTF-8, or /etc/modules, /etc/dracut.conf or        *)
(*          /etc/pam.conf when stat fails)                                 *)
(*   elf    a binary                                                       *)
(*   self   the program the file itself is, or NoExe                       *)
(*   meta   owner and write bits                                           *)
(*   lines  commands in its first MiB; rest: the ones after it; over: the  *)
(*          ones past the number a check takes (10,000 keys, 1,000         *)
(*          modules, 256 preloaded libraries)                              *)
(* A line is [hit, exe, special]: whether a command pattern matches it,    *)
(* the absolute path it starts (or NoExe), and whether it is one of the    *)
(* lines the PAM check selects.  A program is a record [there, meta, dirs, *)
(* temp, hidden, ...] of the scene; dirs are the directories above it that *)
(* can be examined, db is what becomes of its record in the package        *)
(* database: "ok", "lost" (not found: an unreadable or cut .list, another  *)
(* spelling, an unknown digest, past the 2,000th program), "denied" or     *)
(* "cut" (its md5sums file cannot be read, or only the start of it).       *)
(***************************************************************************)
EXTENDS Naturals, FiniteSets, Sequences

CONSTANTS NoUser, NoExe, NoLine

-----------------------------------------------------------------------------
(* Who may change a file or a directory.                                   *)

WritableByNonRoot(m) == m.uid # 0 \/ m.group \/ m.world

DirWritableByNonRoot(m) ==
    m.uid # 0 \/ (~m.sticky /\ (m.group \/ m.world))

(* Ctx::writable_chain: the program or a directory above it can be changed *)
(* by someone else than root.                                              *)
WritableChain(p) ==
    /\ p.there
    /\ WritableByNonRoot(p.meta) \/ \E d \in p.dirs : DirWritableByNonRoot(d)

-----------------------------------------------------------------------------
(* The places the persistence checks look at.                              *)
(*   scope   how the scope of an entry is decided (see Scope)              *)
(*   form    "command": every line is an entry; "text": the file is one    *)
(*           entry whose lines are searched; "script": the file is a       *)
(*           program, and its lines are searched; "program": the same, but *)
(*           a binary's lines are not                                      *)
(*   bare    when the file also is an entry without a command              *)
(*   find    whether the started program is looked for                     *)
(*   stops   whether a cancellation is noticed between files               *)

Place(id, scope, form, bare, find, stops) ==
    [id |-> id, scope |-> scope, form |-> form, bare |-> bare,
     find |-> find, stops |-> stops]

UnitFile      == Place("unit", "unit", "command", "ifnone", TRUE, TRUE)
Crontab       == Place("crontab", "job", "command", "never", TRUE, FALSE)
CronScript    == Place("cron_script", "system", "script", "never", TRUE, TRUE)
LdSoPreload   == Place("ld_so_preload", "system", "command", "never", TRUE, FALSE)
Profile       == Place("profile", "home", "text", "never", TRUE, TRUE)
EnvironFile   == Place("environ", "place", "text", "never", FALSE, FALSE)
DesktopEntry  == Place("desktop", "user", "command", "ifnone", TRUE, FALSE)
AuthorizedKeys == Place("keys", "home", "command", "always", TRUE, FALSE)
PamStack      == Place("pam", "system", "command", "never", TRUE, FALSE)
RcLocalFile   == Place("rc_local", "system", "text", "never", TRUE, FALSE)
UdevRules     == Place("udev", "system", "command", "never", TRUE, FALSE)
InitScript    == Place("init_script", "system", "program", "never", TRUE, TRUE)
AtJob         == Place("at_job", "owner", "text", "never", TRUE, FALSE)
Generator     == Place("generator", "system", "program", "never", TRUE, FALSE)
ModulesLoad   == Place("modules_load", "system", "command", "never", FALSE, FALSE)
Modprobe      == Place("modprobe", "system", "command", "never", TRUE, FALSE)
MotdScript    == Place("motd", "system", "program", "never", TRUE, FALSE)
SshRcFile     == Place("ssh_rc", "home", "text", "never", TRUE, FALSE)
InitramfsHook == Place("initramfs", "system", "program", "never", TRUE, FALSE)
DracutConf    == Place("dracut", "system", "text", "never", FALSE, FALSE)
GrubScript    == Place("grub", "system", "program", "never", TRUE, FALSE)

(* run_all: the checks in the order they run.  limits: the check calls     *)
(* note_user_limits, and is partial when other users' files are out of     *)
(* reach.                                                                  *)
PersistenceChecks ==
    << [id |-> "systemd",        places |-> {UnitFile},             limits |-> TRUE],
       [id |-> "cron",           places |-> {Crontab, CronScript},  limits |-> FALSE],
       [id |-> "ld_preload",     places |-> {LdSoPreload},          limits |-> FALSE],
       [id |-> "shell_profiles", places |-> {Profile},              limits |-> TRUE],
       [id |-> "environment",    places |-> {EnvironFile},          limits |-> TRUE],
       [id |-> "xdg_autostart",  places |-> {DesktopEntry},         limits |-> TRUE],
       [id |-> "ssh",            places |-> {AuthorizedKeys},       limits |-> TRUE],
       [id |-> "pam",            places |-> {PamStack},             limits |-> FALSE],
       [id |-> "rc_local",       places |-> {RcLocalFile},          limits |-> FALSE],
       [id |-> "udev",           places |-> {UdevRules},            limits |-> FALSE],
       [id |-> "sysv_init",      places |-> {InitScript},           limits |-> FALSE],
       [id |-> "at_jobs",        places |-> {AtJob},                limits |-> FALSE],
       [id |-> "generators",     places |-> {Generator},            limits |-> FALSE],
       [id |-> "kernel_modules", places |-> {ModulesLoad, Modprobe}, limits |-> FALSE],
       [id |-> "motd",           places |-> {MotdScript},           limits |-> FALSE],
       [id |-> "ssh_rc",         places |-> {SshRcFile},            limits |-> TRUE],
       [id |-> "initramfs_hooks", places |-> {InitramfsHook, DracutConf}, limits |-> FALSE],
       [id |-> "boot_loader",    places |-> {GrubScript},           limits |-> FALSE] >>

Places == UNION {PersistenceChecks[i].places : i \in DOMAIN PersistenceChecks}

PlaceOf(f) == CHOOSE p \in Places : p.id = f.place

(* Who an entry is run for: root ("system") or a user.                     *)
Scope(p, f) ==
    LET root == CASE p.scope = "system" -> TRUE
                  [] p.scope = "user"   -> FALSE
                  [] p.scope = "unit"   -> f.user = NoUser /\ f.runs = 0
                  [] p.scope = "job"    -> f.runs = 0
                  [] p.scope = "home"   -> f.user \in {NoUser, 0}
                  [] p.scope = "place"  -> f.user = NoUser
                  [] p.scope = "owner"  -> f.meta.uid = 0
    IN IF root THEN "system" ELSE "user"

(* The lines a check takes out of what it could read.  The PAM check       *)
(* looks only at modules from unusual places and at pam_exec, the text of  *)
(* a binary program is not searched.                                       *)
Unsearched(p, f) == p.form = "program" /\ f.elf

LinesRead(p, f) ==
    IF f.read # "ok" \/ Unsearched(p, f) THEN {}
    ELSE {l \in f.lines : p.id = "pam" => l.special}

Found(p, f, cmd, text) ==
    [file |-> f, scope |-> Scope(p, f), command |-> cmd, text |-> text, find |-> p.find]

(* The entries a file gives: a script is one even when it could not be     *)
(* read.                                                                   *)
Entries(p, f) ==
    LET lines == LinesRead(p, f)
        bare  == {Found(p, f, NoLine, {})}
        self  == [hit |-> FALSE, exe |-> f.self, special |-> FALSE]
    IN CASE p.form \in {"script", "program"} -> {Found(p, f, self, lines)}
         [] f.read # "ok"      -> {}
         [] p.form = "text"    -> {Found(p, f, NoLine, lines)}
         [] p.form = "command" ->
              {Found(p, f, l, {}) : l \in lines}
              \cup IF p.bare = "always" \/ (p.bare = "ifnone" /\ lines = {})
                   THEN bare ELSE {}

Executable(e) ==
    IF e.find /\ e.command # NoLine THEN e.command.exe ELSE NoExe

(* Ctx::record: the rules an entry breaks.                                 *)
Record(e, exes) ==
    LET cmd    == IF e.command = NoLine THEN {} ELSE {e.command}
        starts == IF e.find THEN {l \in cmd \cup e.text : l.exe # NoExe} ELSE {}
        m      == e.file.meta
        loose  == IF e.scope = "system" THEN WritableByNonRoot(m)
                  ELSE m.world \/ (e.file.user # NoUser /\ m.uid \notin {e.file.user, 0})
    IN {"command" : l \in {k \in cmd \cup e.text : k.hit}}
       \cup {"temp_exec" : l \in {k \in starts : exes[k.exe].temp}}
       \cup {"hidden_exec" : l \in {k \in starts \cap cmd :
                                      exes[k.exe].hidden /\ ~exes[k.exe].temp}}
       \cup {"writable_exec" : l \in {k \in starts :
                                        e.scope = "system" /\ WritableChain(exes[k.exe])}}
       \cup (IF loose THEN {"writable_definition"} ELSE {})
       \cup (IF e.file.place \in {"ld_so_preload", "pam"} THEN {e.file.place} ELSE {})

(* A finding is a rule and what breaks it; for these rules one is enough.  *)
Plain(rules) == {<<r, NoExe>> : r \in rules}

(* parse_passwd: whose home directories are inspected.                     *)
ParsePasswd(passwd) ==
    {u.uid : u \in {v \in passwd : v.uid = 0 \/ v.login \/ (v.uid >= 1000 /\ v.uid < 65534)}}

(* Findings that do not count for the exit status.                         *)
Informational == {"kernel_taint_info", "secure_boot_off"}

(* packages::check: the programs that are verified.                        *)
PackageTargets(critical, entries, exes) ==
    {x \in critical \cup {y \in {Executable(e) : e \in entries} \ {NoExe} :
                            ~exes[y].lossy /\ ~exes[y].temp} : exes[x].there}

(* rpm_records, dpkg_records: the files whose digests are looked for, and  *)
(* the recorded digests that are found.  dpkg's .list files are read only  *)
(* to select packages.                                                     *)
Looked(all, targets, exes) ==
    {x \in DOMAIN exes : exes[x].packaged /\ (all \/ x \in targets)}

Records(manager, all, targets, exes) ==
    {x \in Looked(all, targets, exes) :
       IF manager = "rpm" THEN exes[x].db # "lost"
       ELSE exes[x].db = "ok" \/ (exes[x].db = "lost" /\ all)}

(* What system-check hands to the scanner: one logical path per host file, *)
(* the first entry that names it.                                          *)
Referenced(entries, exes) ==
    {x \in {Executable(e) : e \in entries} \ {NoExe} : ~exes[x].lossy /\ exes[x].there}

FirstNames(entries, exes) ==
    LET hosts == {exes[x].host : x \in Referenced(entries, exes)}
    IN {m \in [hosts -> Referenced(entries, exes)] : \A h \in hosts : exes[m[h]].host = h}

(* correlate: an entry starts a program the scan detected.                 *)
Correlate(entries, names, exes) ==
    {e \in entries : \E h \in DOMAIN names :
        Executable(e) = names[h] /\ exes[names[h]].content = "detected"}

(* exit_code: 1 for anything to review, 3 for incomplete coverage, else 0. *)
ExitCode(findings, checks, issues, scan) ==
    CASE (\E f \in findings : f[1] \notin Informational) \/ scan.detected -> 1
      [] \/ \E c \in DOMAIN checks : checks[c] \in {"partial", "failed", "unsupported"}
         \/ issues # {}
         \/ ~scan.complete -> 3
      [] OTHER -> 0
=============================================================================
