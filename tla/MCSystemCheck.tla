--------------------------- MODULE MCSystemCheck ---------------------------
(***************************************************************************)
(* The systems that system-check is run on.  Every scene is an ordinary    *)
(* system with one or two things changed.                                  *)
(***************************************************************************)
EXTENDS SystemCheck

CONSTANTS none, noexe, noline, m1, m2, ls, tool, link

Owned(uid) == [uid |-> uid, group |-> FALSE, world |-> FALSE, sticky |-> FALSE]
Loose      == [Owned(0) EXCEPT !.world = TRUE]

Program0(host) ==
    [there |-> TRUE, meta |-> Owned(0), dirs |-> {Owned(0)}, temp |-> FALSE, hidden |-> FALSE,
     lossy |-> FALSE, host |-> host, packaged |-> TRUE, modified |-> FALSE, hash |-> "ok",
     db |-> "ok", content |-> "clean"]

MCExes == (ls :> Program0("ls")) @@ (tool :> Program0("tool")) @@ (link :> Program0("tool"))

Line(exe) == [hit |-> FALSE, exe |-> exe, special |-> FALSE]
HitLine   == [hit |-> TRUE, exe |-> noexe, special |-> FALSE]

File(place, ino) ==
    [place |-> place, ino |-> ino, fits |-> TRUE, user |-> none, runs |-> 0, read |-> "ok",
     elf |-> FALSE, self |-> noexe, meta |-> Owned(0), lines |-> {Line(tool)}, rest |-> {},
     over |-> {}]

Home(f, uid) == [f EXCEPT !.user = uid, !.runs = uid, !.meta = Owned(uid)]

Base ==
    [live |-> TRUE, root |-> TRUE, euid |-> 0, denied |-> {}, flags |-> {},
     passwd |-> {[uid |-> 0, login |-> TRUE], [uid |-> 1000, login |-> TRUE],
                 [uid |-> 33, login |-> FALSE]},
     files |-> {File("unit", 1)}, exes |-> MCExes, critical |-> {ls},
     procs |-> [p \in Pid |-> IF p = 1 THEN "proc" ELSE "none"], deleted |-> {},
     modules |-> {m1}, tampered |-> {}, changes |-> 0,
     hidden |-> TRUE, packages |-> TRUE, verifyAll |-> FALSE, manager |-> "dpkg",
     bpftool |-> FALSE, content |-> TRUE]

Exe(x, key, v) == [Base EXCEPT !.exes[x] = [@ EXCEPT ![key] = v]]

(* Files of every place, harmless, suspicious, loose, cut and unreadable.  *)
SystemPlaces == {p.id : p \in Places} \ {"keys"}

FileScenes ==
    UNION {{[Base EXCEPT !.files = {File(p, 1)}],
            [Base EXCEPT !.files = {[File(p, 1) EXCEPT !.lines = {HitLine, [Line(tool) EXCEPT !.special = TRUE]}],
                                    File("unit", 2)}],
            [Base EXCEPT !.files = {[File(p, 1) EXCEPT !.meta = Loose,
                                                       !.lines = {[l EXCEPT !.special = TRUE] : l \in @}]}],
            [Base EXCEPT !.files = {[File(p, 1) EXCEPT !.rest = {HitLine}]}],
            [Base EXCEPT !.files = {[File(p, 1) EXCEPT !.read = "denied", !.lines = {HitLine}]}]}
           : p \in SystemPlaces}
    \cup UNION {{[Base EXCEPT !.files = {Home([File(p, 1) EXCEPT !.lines = {HitLine}], u)},
                              !.root = r, !.euid = IF r THEN 0 ELSE 1000]
                 : u \in {0, 33, 1000}, r \in BOOLEAN}
                : p \in {"unit", "profile", "environ", "desktop", "keys", "ssh_rc"}}

(* Hard links, missing files, binaries, jobs of other users.               *)
OddFileScenes ==
    {[Base EXCEPT !.files = {File("unit", 1), [File("unit", 1) EXCEPT !.user = 1000]}],
     [Base EXCEPT !.files = {[File("unit", 1) EXCEPT !.fits = FALSE], File("crontab", 2)}],
     [Base EXCEPT !.files = {[File("unit", 1) EXCEPT !.read = "missing"], File("udev", 2)}],
     [Base EXCEPT !.files = {[File("grub", 1) EXCEPT !.elf = TRUE, !.self = tool, !.lines = {}]}],
     [Base EXCEPT !.files = {[File("cron_script", 1) EXCEPT !.elf = TRUE, !.self = tool, !.lines = {HitLine}]}],
     [Base EXCEPT !.files = {[File("cron_script", 1) EXCEPT !.elf = TRUE, !.self = tool, !.rest = {HitLine}]}],
     [Base EXCEPT !.files = {[File("unit", 1) EXCEPT !.lines = {}]}],
     [Base EXCEPT !.files = {[File("crontab", 1) EXCEPT !.runs = 1000, !.meta = Owned(1000)]}]}

(* Programs: loose, in a temporary directory, changed, detected, aliased.  *)
ExeScenes ==
    {Exe(tool, "meta", Loose), Exe(tool, "dirs", {Owned(0), Owned(1000)}),
     Exe(tool, "dirs", {[Loose EXCEPT !.sticky = TRUE]}), Exe(tool, "temp", TRUE),
     Exe(tool, "hidden", TRUE), Exe(tool, "modified", TRUE), Exe(ls, "modified", TRUE),
     Exe(tool, "content", "detected"), Exe(tool, "content", "issue"), Exe(ls, "hash", "denied"),
     [Exe(tool, "content", "detected") EXCEPT
        !.exes[link].content = "detected",
        !.files = {[File("unit", 1) EXCEPT !.lines = {Line(link)}], File("crontab", 2)}],
     [Exe(ls, "modified", TRUE) EXCEPT !.exes[ls].db = "denied"],
     [Exe(ls, "modified", TRUE) EXCEPT !.exes[ls].db = "cut"],
     [Exe(ls, "modified", TRUE) EXCEPT !.exes[ls].db = "lost", !.verifyAll = TRUE],
     [Base EXCEPT !.critical = {}, !.files = {}],
     [Exe(ls, "modified", TRUE) EXCEPT !.verifyAll = TRUE, !.critical = {}, !.files = {}]}

(* Kernel, boot, options and reads that fail.                              *)
SystemScenes ==
    {[Base EXCEPT !.flags = {x}] :
       x \in {"weak_cmdline", "weak_config", "boot_writable", "boot_many", "secure_boot_off",
              "injected", "kernel_forced", "kernel_taint_info"}}
    \cup {[Base EXCEPT !.denied = {x}, !.flags = {"weak_cmdline", "injected", "kernel_forced"}] :
            x \in {"root", "boot", "cmdline", "maps", "modules", "tainted", "proc", "dpkg",
                   "bpffs", "output"}}
    \cup {[Base EXCEPT !.denied = {x}] :
            x \in {"boot", "efivar", "cmdline", "maps", "modules", "tainted", "proc", "dpkg",
                   "bpffs"}}
    \cup {[Base EXCEPT !.denied = {"boot"}, !.flags = {"boot_writable"}],
          [Base EXCEPT !.denied = {"efivar"}, !.flags = {"secure_boot_off"}],
          [Base EXCEPT !.flags = {"boot_writable", "boot_many"}]}
    \cup {[Base EXCEPT !.live = FALSE], [Base EXCEPT !.content = FALSE],
          [Base EXCEPT !.packages = FALSE], [Base EXCEPT !.hidden = FALSE],
          [Base EXCEPT !.manager = "none"],
          [Base EXCEPT !.manager = "rpm", !.bpftool = TRUE],
          [Base EXCEPT !.manager = "rpm", !.exes[ls].modified = TRUE]}

(* Processes and modules that change while they are looked at.             *)
ProcessScenes ==
    {[Base EXCEPT !.files = {}, !.content = FALSE, !.manager = "none",
                  !.changes = IF k = "none" /\ d \cup t = {} THEN 3 ELSE 2,
                  !.procs[2] = k, !.deleted = d, !.tampered = t] :
       k \in {"none", "proc", "thread", "unlisted"}, d \in {{}, {1}}, t \in {{}, {m1}}}

(* What is passed over without an issue: a unit whose inode has another    *)
(* name in the directory, homes without /etc/passwd, a file past the end   *)
(* of a long directory, keys past the limit, an unreadable boot            *)
(* configuration, second looks that fail, an unreadable pid_max, a program *)
(* over 1 GiB, one without a record, an rpm that fails, a lossy name.      *)
Hit(f) == [f EXCEPT !.lines = {HitLine}]

SilentScenes ==
    {[Base EXCEPT !.files = {Hit(File("unit", 1)), [Hit(File("unit", 1)) EXCEPT !.fits = FALSE]}],
     [Base EXCEPT !.denied = {"passwd"}, !.files = {Home(Hit(File("profile", 1)), 1000)}],
     [Base EXCEPT !.files = {[Hit(File("dracut", 1)) EXCEPT !.read = "passed"]}],
     [Base EXCEPT !.files = {Home([File("keys", 1) EXCEPT !.over = {HitLine}], 1000)}],
     [Base EXCEPT !.files = {[File("unit", 1) EXCEPT !.read = "passed"]},
                  !.exes[tool].content = "detected"],
     [Base EXCEPT !.denied = {"config"}, !.flags = {"weak_config"}],
     [Base EXCEPT !.denied = {"boot_stat"}, !.flags = {"boot_writable"}],
     [Base EXCEPT !.denied = {"again"}, !.tampered = {m1}],
     [Base EXCEPT !.denied = {"relist"}, !.procs[2] = "unlisted"],
     [Base EXCEPT !.denied = {"pid_max"}, !.procs[3] = "unlisted"],
     [Exe(ls, "modified", TRUE) EXCEPT !.exes[ls].hash = "large"],
     [Exe(ls, "modified", TRUE) EXCEPT !.exes[ls].db = "lost"],
     [Exe(ls, "modified", TRUE) EXCEPT !.exes[ls].db = "lost", !.manager = "rpm"],
     [Exe(ls, "modified", TRUE) EXCEPT !.denied = {"rpm"}, !.manager = "rpm"],
     [Exe(tool, "modified", TRUE) EXCEPT !.exes[tool].lossy = TRUE],
     [Exe(tool, "content", "detected") EXCEPT !.exes[tool].lossy = TRUE]}

(* The same failures where they do not matter, because the check looks     *)
(* elsewhere as well.                                                      *)
NearScenes ==
    {[Base EXCEPT !.denied = {"pid_max"}, !.procs[2] = "unlisted"],
     [Base EXCEPT !.denied = {"passwd"}, !.files = {Hit(File("profile", 1))}],
     [Base EXCEPT !.denied = {"config"}, !.flags = {"weak_cmdline"}],
     [Exe(ls, "modified", TRUE) EXCEPT !.exes[ls].lossy = TRUE]}

MCScenes ==
    FileScenes \cup OddFileScenes \cup ExeScenes \cup SystemScenes \cup ProcessScenes
    \cup SilentScenes \cup NearScenes

(* A helper whose pipe somebody else keeps open.                           *)
HeldPipeScenes == {[Base EXCEPT !.manager = "rpm", !.denied = {"pipe"}]}
=============================================================================
