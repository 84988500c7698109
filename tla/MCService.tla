------------------------------ MODULE MCService ------------------------------
(* Small instances of Service: root, alice (in the admin group, or not any   *)
(* more after an edit) and bob; an interval schedule and a daily one.        *)
EXTENDS Service

CONSTANTS j1, j2, j3, c1, c2, k

Line(n, name, uid, gid) == [fields |-> n, name |-> name, uid |-> uid, gid |-> gid]
Passwd == <<Line(7, "root", 0, 0), Line(3, "bad", 1001, 10), Line(7, "alice", 1000, 10),
            Line(7, "bob", 1001, 1001)>>
Group(gid, m) == [fields |-> 4, name |-> "wheel", gid |-> gid, members |-> m]
MCAccounts == {[passwd |-> Passwd, group |-> <<Group(10, {})>>],
               [passwd |-> Passwd, group |-> <<Group(11, {})>>]}

Sched(name, every, at, q) ==
    [name |-> name, kind |-> "scan", paths |-> <<"absolute">>, every |-> every, at |-> at,
     heuristics |-> FALSE, quarantine |-> q]
Conf(schedules) ==
    [DefaultConfig EXCEPT !.admin_users = {[uid |-> 42, name |-> "nobody"]},
                          !.admin_group = "wheel", !.max_queued_jobs = 2,
                          !.history_limit = 1, !.schedules = schedules]
World(p, schedules, acc) ==
    [platform |-> p, root |-> TRUE, accounts |-> acc,
     file |-> [trusted |-> TRUE, config |-> Conf(schedules)]]
Member == [passwd |-> Passwd, group |-> <<Group(10, {})>>]
Daily(every) == <<Sched("hourly", 2, None, FALSE), Sched("daily", every, 1, TRUE)>>
\* Clients of both platforms; a schedule that is accepted, and two files that
\* are not: not a multiple of a day, not owned by root.
MCWorlds == {World("unix", <<>>, Member), World("windows", <<>>, Member),
             World("unix", Daily(3), Member), World("unix", Daily(2), Member),
             [World("unix", <<>>, Member) EXCEPT !.file.trusted = FALSE]}
MCFirstRuns == {[n \in {"hourly", "daily"} |-> IF n = "daily" THEN 0 ELSE None]}
NeverRun == {[n \in {"hourly", "daily"} |-> None]}

Req(op, arg, q) == [version |-> TRUE, op |-> op, paths |-> <<"absolute">>, arg |-> arg,
                    quarantine |-> q, allow |-> TRUE]
ScheduleRequests == {Req("run_schedule", "daily", FALSE), Req("run_schedule", "none", FALSE),
              Req("run_schedule", "invalid", FALSE)}
MCRequests(c) ==
    IF c.schedules # <<>> THEN ScheduleRequests
    ELSE {Req("scan", None, FALSE), Req("scan", None, TRUE), Req("system_check", None, FALSE),
          Req("ping", None, FALSE), Req("schedules", None, FALSE),
     Req("jobs", None, FALSE), Req("status", None, FALSE),
          Req("report", j1, FALSE), Req("cancel", j1, FALSE),
          Req("quarantine_list", None, FALSE), Req("quarantine_restore", "q1", FALSE),
          Req("quarantine_delete", "q1", FALSE), Req("verify_audit", None, FALSE),
          [Req("ping", None, FALSE) EXCEPT !.version = FALSE],
          [Req("scan", None, FALSE) EXCEPT !.paths = <<"relative">>]}
Cmd(req, uid, wait) == [req |-> req, uid |-> uid, wait |-> wait, yes |-> FALSE]
MCCommands(c) ==
    IF c.schedules # <<>> THEN {}
    ELSE {Cmd(Req("scan", None, FALSE), 1001, TRUE),
          Cmd(Req("verify_audit", None, FALSE), 1000, FALSE),
          Cmd(Req("quarantine_delete", "q1", FALSE), 1000, FALSE)}
MCUids(c) == IF c.schedules # <<>> THEN {0} ELSE {1000, 1001}
MCOutcomes(c) == IF c.schedules # <<>> THEN {}
                 ELSE [st : Finished, report : {None}]
                      \cup [st : {"completed"}, report : {"clean", "findings"}]
MCConnects(c) == IF c.schedules # <<>> THEN 1 ELSE 2
NoConnects(c) == 0
MCItems == {"q1"}
=============================================================================
