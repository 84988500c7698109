------------------------------ MODULE Desktop ------------------------------
(***************************************************************************)
(* The desktop app (gui/app.rs, gui/tasks.rs): one thread draws the window *)
(* and handles clicks; every scan, update and service request runs on a    *)
(* thread of its own and reports through a channel that the window's       *)
(* thread drains between frames.  A scan is a child process of the app or, *)
(* through the service, a job of it.  The child, the service's jobs and    *)
(* its quarantine are external.                                            *)
(*                                                                         *)
(* What a page shows (texts, the outcome of an update or of an action) is  *)
(* left out, except for what its buttons act on.                           *)
(***************************************************************************)
EXTENDS Naturals, Sequences, FiniteSets

CONSTANTS
  Path,        \* paths the user may add
  Item,        \* items the service holds in quarantine
  None,        \* no value
  MaxScans, MaxCalls, MaxProgress   \* bounds: scans, service requests and updates, progress lines

ASSUME DesktopConstants ==
  /\ IsFiniteSet(Path) /\ IsFiniteSet(Item)
  /\ MaxScans \in Nat /\ MaxCalls \in Nat /\ MaxProgress \in Nat

VARIABLES
  page, service, use_service,   \* what the user sees and chose
  running,     \* the scan the window shows as running: [scan, progress, job]
  result,      \* the last result: [report] or [error]
  updating,
  quarantine,  \* the items listed; None before there is a list
  schedules,   \* the schedules are listed
  confirm,     \* the open question: [kind, item]
  events,      \* the channel
  thread,      \* the scan's thread: [pc, scan, paths]
  handle,      \* CancelHandle: the child is in it
  child,       \* the child process: "ended" without a report, by itself or killed
  job,         \* the service's job of each scan: "over" if it failed or was cancelled
  calls,       \* the other threads: [id, kind, item, reply]
  held,        \* items in the service's quarantine
  window,      \* "open", or "gone" once it is closed
  scans, asked_for,   \* scans started, and requests made so far
  progressed,  \* progress lines sent by this scan
  asked, acted \* history: what the user confirmed, what the service did

form == <<page, service, use_service>>
shown == <<result, updating, quarantine, schedules>>
work == <<thread, handle, child, job, progressed>>
outside == <<held, acted>>
vars == <<form, running, shown, confirm, events, work, calls, outside, window, scans, asked_for, asked>>

Page == {"status", "scan", "results", "update", "quarantine"}

\* RunningScan, the scan's thread and its result, and the pending question.
Running  == [scan : 1..MaxScans, progress : 0..MaxProgress, job : 1..MaxScans \cup {None}]
Thread   == [pc : {"idle"}, scan : {0}, paths : {{}}]
              \cup [pc : {"spawn", "store", "read", "submit", "poll", "report"},
                    scan : 1..MaxScans, paths : SUBSET Path]
Result   == [kind : {"report", "error"}, paths : SUBSET Path]
Question == [kind : {"restore", "delete"}, item : Item]

\* Events, and the threads that send one: a request knows what it is about
\* and, once it was answered, the event it will send.
Answer    == {"ok", "error"}
CallEvent == [type : {"service", "update_done", "schedules", "done"}, scan : {0}, value : Answer]
               \cup [type : {"quarantine"}, scan : {0}, value : SUBSET Item]
ScanThreadEvent ==
  [type : {"progress"}, scan : 1..MaxScans, value : 0..MaxProgress]
    \cup [type : {"job"}, scan : 1..MaxScans, value : 1..MaxScans]
    \cup [type : {"scan_done"}, scan : 1..MaxScans, value : Result]
Call ==
  [id : 0..MaxCalls, kind : {"status", "update", "list", "schedules", "run"}, item : {None},
   reply : CallEvent \cup {None}]
    \cup [id : 0..MaxCalls, kind : {"restore", "delete"}, item : Item, reply : CallEvent \cup {None}]
    \cup [id : 0..MaxCalls, kind : {"cancel"}, item : 1..MaxScans, reply : {None}]

\* None is the None of an Option, which no value inside a Some equals.
ASSUME NoneAssumption == None \notin Running /\ None \notin Question

NoThread == [pc |-> "idle", scan |-> 0, paths |-> {}]

\* with_context and new: the app opens on the status page and asks for the service.
Init ==
  /\ page = "status" /\ service = "checking" /\ use_service = FALSE
  /\ running = None /\ result = None /\ updating = FALSE
  /\ quarantine = None /\ schedules = FALSE /\ confirm = None
  /\ events = <<>> /\ thread = NoThread /\ handle = FALSE /\ progressed = 0
  /\ child = "none" /\ job = [n \in 1..MaxScans |-> "none"]
  /\ calls = {[id |-> 0, kind |-> "status", item |-> None, reply |-> None]}
  /\ held = Item /\ window = "open" /\ scans = 0 /\ asked_for = 0
  /\ asked = {} /\ acted = {}

Connected == service = "connected"
ViaService == use_service /\ Connected

Event(type, value) == [type |-> type, scan |-> 0, value |-> value]
ScanEvent(type, value) == [type |-> type, scan |-> thread.scan, value |-> value]
Send(e) == events' = Append(events, e)

\* A thread for one request to the service, or for the update.
Spawn(kind, item) ==
  /\ asked_for < MaxCalls
  /\ asked_for' = asked_for + 1
  /\ calls' = calls \cup {[id |-> asked_for + 1, kind |-> kind, item |-> item, reply |-> None]}
NoSpawn == UNCHANGED <<calls, asked_for>>

---------------------------------------------------------------------------
(* Clicks *)

Click(p) == window = "open" /\ page = p

\* nav, on_page_opened.
OpenPage(p) ==
  /\ window = "open" /\ page # p
  /\ page' = p
  /\ IF p = "quarantine" /\ Connected THEN Spawn("list", None)
     ELSE IF p = "update" /\ Connected THEN Spawn("schedules", None)
     ELSE NoSpawn
  /\ UNCHANGED <<service, use_service, running, shown, confirm, events, work, outside, window,
                 scans, asked>>

CheckAgain ==
  /\ Click("status") /\ service = "absent"
  /\ service' = "checking"
  /\ Spawn("status", None)
  /\ UNCHANGED <<page, use_service, running, shown, confirm, events, work, outside, window,
                 scans, asked>>

UseService ==
  /\ Click("status") /\ Connected
  /\ use_service' = ~use_service
  /\ UNCHANGED <<page, service, running, shown, confirm, events, work, calls, outside, window,
                 scans, asked_for, asked>>

\* The paths are those of the form, which is disabled while a scan runs.
Started(paths) ==
  /\ paths # {} /\ scans < MaxScans /\ scans' = scans + 1
  /\ thread' = [pc |-> IF ViaService THEN "submit" ELSE "spawn", scan |-> scans + 1, paths |-> paths]
  /\ running' = [scan |-> scans + 1, progress |-> 0, job |-> None]
  /\ handle' = FALSE /\ progressed' = 0
  /\ UNCHANGED <<form, shown, confirm, events, child, job, calls, outside, window, asked_for, asked>>

\* Mutant: the start button stays while a scan runs.
StartScanAnyTime(paths) == Click("scan") /\ thread.pc \in {"idle", "read", "poll"} /\ Started(paths)

StartScan(paths) == Click("scan") /\ running = None /\ Started(paths)

\* kill does nothing to a child that has ended.
KillStored == child' = IF handle /\ child = "running" THEN "ended" ELSE child

CancelScan ==
  /\ Click("scan") /\ running # None
  /\ IF running.job # None
     THEN Spawn("cancel", running.job) /\ UNCHANGED child
     ELSE NoSpawn /\ KillStored
  /\ UNCHANGED <<form, running, shown, confirm, events, thread, handle, job, progressed, outside,
                 window, scans, asked>>

StartUpdate ==
  /\ Click("update") /\ ~updating
  /\ updating' = TRUE
  /\ Spawn("update", None)
  /\ UNCHANGED <<form, running, result, quarantine, schedules, confirm, events, work,
                 outside, window, scans, asked>>

RunSchedule ==
  /\ Click("update") /\ Connected /\ schedules
  /\ Spawn("run", None)
  /\ UNCHANGED <<form, running, shown, confirm, events, work, outside, window, scans, asked>>

Refresh ==
  /\ Click("quarantine") /\ Connected
  /\ Spawn("list", None)
  /\ UNCHANGED <<form, running, shown, confirm, events, work, outside, window, scans, asked>>

\* Restore… and Delete… beside an item of the list, which may be out of date.
Ask(kind, item) ==
  /\ Click("quarantine") /\ Connected
  /\ quarantine # None /\ item \in quarantine
  /\ confirm' = [kind |-> kind, item |-> item]
  /\ UNCHANGED <<form, running, shown, events, work, calls, outside, window, scans, asked_for, asked>>

\* Mutant: the answer is for the first item of the list as it is now.
DecideFromList(yes) ==
  /\ window = "open" /\ confirm # None
  /\ confirm' = None
  /\ IF yes
     THEN /\ asked' = asked \cup {confirm}
          /\ quarantine # None
          /\ \E item \in quarantine : Spawn(confirm.kind, item)
     ELSE UNCHANGED asked /\ NoSpawn
  /\ UNCHANGED <<form, running, shown, events, work, outside, window, scans>>

\* confirm_window, over any page.
Decide(yes) ==
  /\ window = "open" /\ confirm # None
  /\ confirm' = None
  /\ IF yes
     THEN asked' = asked \cup {confirm} /\ Spawn(confirm.kind, confirm.item)
     ELSE UNCHANGED asked /\ NoSpawn
  /\ UNCHANGED <<form, running, shown, events, work, outside, window, scans>>

\* on_exit, after which the process ends: its threads and its memory are gone.
Close ==
  /\ window = "open"
  /\ window' = "gone"
  /\ IF running # None THEN KillStored ELSE UNCHANGED child
  /\ page' = "status" /\ service' = "checking" /\ use_service' = FALSE
  /\ running' = None /\ result' = None /\ updating' = FALSE
  /\ quarantine' = None /\ schedules' = FALSE /\ confirm' = None
  /\ events' = <<>> /\ thread' = NoThread /\ handle' = FALSE /\ progressed' = 0 /\ calls' = {}
  /\ UNCHANGED <<job, outside, scans, asked_for, asked>>

---------------------------------------------------------------------------
(* handle_events *)

\* Mutant: the running scan is not cleared.
OnScanDoneKeeps(e) ==
  /\ result' = e.value /\ page' = "results"
  /\ UNCHANGED <<service, use_service, running, updating, quarantine, schedules>>
  /\ NoSpawn

OnScanDone(e) ==
  /\ running' = None
  /\ result' = e.value /\ page' = "results"
  /\ UNCHANGED <<service, use_service, updating, quarantine, schedules>>
  /\ NoSpawn

OnScanEvent(e) ==
  /\ running' = CASE running = None       -> running
                  [] running # None /\ e.type = "progress" -> [running EXCEPT !.progress = e.value]
                  [] running # None /\ e.type = "job"      -> [running EXCEPT !.job = e.value]
  /\ UNCHANGED <<page, service, use_service, shown>> /\ NoSpawn

OnService(e) ==
  /\ service' = IF e.value = "ok" THEN "connected" ELSE "absent"
  /\ use_service' = (use_service \/ e.value = "ok")
  /\ UNCHANGED <<page, running, shown>> /\ NoSpawn

OnUpdateDone(e) ==
  /\ updating' = FALSE
  /\ UNCHANGED <<page, service, use_service, running, result, quarantine, schedules>>
  /\ NoSpawn

OnList(e) ==
  /\ IF e.type = "quarantine" THEN quarantine' = e.value /\ UNCHANGED schedules
                              ELSE schedules' = (e.value = "ok") /\ UNCHANGED quarantine
  /\ UNCHANGED <<page, service, use_service, running, result, updating>>
  /\ NoSpawn

\* An action may have changed the list that is open.
OnDone(e) ==
  /\ IF page = "quarantine" /\ asked_for < MaxCalls THEN Spawn("list", None) ELSE NoSpawn
  /\ UNCHANGED <<page, service, use_service, running, shown>>

Handle ==
  /\ window = "open" /\ events # <<>>
  /\ events' = Tail(events)
  /\ LET e == Head(events)
     IN  \/ e.type = "service" /\ OnService(e)
         \/ e.type \in {"progress", "job"} /\ OnScanEvent(e)
         \/ e.type = "scan_done" /\ OnScanDone(e)
         \/ e.type = "update_done" /\ OnUpdateDone(e)
         \/ e.type \in {"quarantine", "schedules"} /\ OnList(e)
         \/ e.type = "done" /\ OnDone(e)
  /\ UNCHANGED <<confirm, work, outside, window, scans, asked>>

---------------------------------------------------------------------------
(* The scan's thread *)

Report == [kind |-> "report", paths |-> thread.paths]
Failed == [kind |-> "error", paths |-> {}]
Finish(value) == Send(ScanEvent("scan_done", value)) /\ thread' = NoThread
At(pc) == window # "gone" /\ thread.pc = pc
Goto(pc) == thread' = [thread EXCEPT !.pc = pc]
Rest == UNCHANGED <<form, running, shown, confirm, calls, outside, window, scans, asked_for, asked>>

\* run_child: the child is started, and only then put where cancel finds it.
SpawnChild ==
  /\ At("spawn")
  /\ \/ child' = "running" /\ Goto("store") /\ UNCHANGED events
     \/ Finish(Failed) /\ UNCHANGED child
  /\ UNCHANGED <<handle, job, progressed>> /\ Rest

StoreChild ==
  /\ At("store") /\ handle' = TRUE /\ Goto("read")
  /\ UNCHANGED <<events, child, job, progressed>> /\ Rest

\* A progress line on the child's stderr.
ReadProgress ==
  /\ At("read") /\ progressed < MaxProgress
  /\ progressed' = progressed + 1
  /\ Send(ScanEvent("progress", progressed + 1))
  /\ UNCHANGED <<thread, handle, child, job>> /\ Rest

\* Both pipes are at their end: take the child out and wait for it.  A report
\* comes with exit codes 0, 1 and 3, and may still be unreadable.
Reap ==
  /\ At("read") /\ child \in {"reported", "ended"}
  /\ handle' = FALSE /\ child' = "none"
  /\ \/ child = "reported" /\ Finish(Report)
     \/ Finish(Failed)
  /\ UNCHANGED <<job, progressed>> /\ Rest

\* scan_service: submit, announce the job, poll until it has finished, fetch.
Submit ==
  /\ At("submit")
  /\ \/ job' = [job EXCEPT ![thread.scan] = "running"] /\ Goto("poll") /\ Send(ScanEvent("job", thread.scan))
     \/ Finish(Failed) /\ UNCHANGED job
  /\ UNCHANGED <<handle, child, progressed>> /\ Rest

\* A job that did not complete, a call that fails and a job that is gone are errors.
Poll ==
  /\ At("poll")
  /\ \/ job[thread.scan] = "completed" /\ Goto("report") /\ UNCHANGED events
     \/ Finish(Failed)
  /\ UNCHANGED <<handle, child, job, progressed>> /\ Rest

FetchReport ==
  /\ At("report")
  /\ \/ Finish(Report)
     \/ Finish(Failed)
  /\ UNCHANGED <<handle, child, job, progressed>> /\ Rest

---------------------------------------------------------------------------
(* The other threads *)

\* What a request comes back with.  A list that could not be read has no buttons.
Reply(c, answer) ==
  CASE c.kind = "status"    -> Event("service", answer)
    [] c.kind = "update"    -> Event("update_done", answer)
    [] c.kind = "list"      -> Event("quarantine", IF answer = "ok" THEN held ELSE {})
    [] c.kind = "schedules" -> Event("schedules", answer)
    [] OTHER                -> Event("done", answer)

\* The request reaches the service, or the update's child ends.
Perform(c) ==
  /\ window # "gone" /\ c.kind # "cancel" /\ c.reply = None
  /\ \E answer \in (IF c.kind \in {"update", "run"} THEN {"ok"} ELSE Answer) :
       /\ calls' = (calls \ {c}) \cup {[c EXCEPT !.reply = Reply(c, answer)]}
       /\ IF c.kind \in {"restore", "delete"} /\ answer = "ok"
          THEN /\ c.item \in held
               /\ held' = held \ {c.item} /\ acted' = acted \cup {[kind |-> c.kind, item |-> c.item]}
          ELSE UNCHANGED outside
  /\ UNCHANGED <<form, running, shown, confirm, events, work, window, scans, asked_for, asked>>

Respond(c) ==
  /\ window # "gone" /\ c.kind # "cancel" /\ c.reply # None
  /\ calls' = calls \ {c}
  /\ Send(c.reply)
  /\ UNCHANGED <<form, running, shown, confirm, work, outside, window, scans, asked_for, asked>>

\* cancel_service_job: the answer is not looked at.
CancelJob(c) ==
  /\ window # "gone" /\ c.kind = "cancel"
  /\ calls' = calls \ {c}
  /\ job' \in {job, [job EXCEPT ![c.item] = IF @ = "running" THEN "over" ELSE @]}
  /\ UNCHANGED <<form, running, shown, confirm, events, thread, handle, child, progressed, outside,
                 window, scans, asked_for, asked>>

---------------------------------------------------------------------------
(* Outside the app *)

ChildEnds ==
  /\ child = "running"
  /\ child' \in {"reported", "ended"}
  /\ UNCHANGED <<form, running, shown, confirm, events, thread, handle, job, progressed, calls, outside,
                 window, scans, asked_for, asked>>

JobEnds(n) ==
  /\ job[n] = "running"
  /\ \E end \in {"completed", "over"} : job' = [job EXCEPT ![n] = end]
  /\ UNCHANGED <<form, running, shown, confirm, events, thread, handle, child, progressed, calls,
                 outside, window, scans, asked_for, asked>>

User ==
  \/ \E p \in Page : OpenPage(p)
  \/ CheckAgain \/ UseService \/ CancelScan \/ StartUpdate
  \/ RunSchedule \/ Refresh \/ Close
  \/ \E chosen \in SUBSET Path : StartScan(chosen)
  \/ \E k \in {"restore", "delete"}, i \in Item : Ask(k, i)
  \/ \E yes \in BOOLEAN : Decide(yes)

ScanThread == SpawnChild \/ StoreChild \/ ReadProgress \/ Reap \/ Submit \/ Poll \/ FetchReport
CallThread == \E c \in calls : Perform(c) \/ Respond(c) \/ CancelJob(c)

Next == User \/ Handle \/ ScanThread \/ CallThread \/ ChildEnds \/ \E n \in 1..MaxScans : JobEnds(n)

Spec == Init /\ [][Next]_vars

---------------------------------------------------------------------------
(* Properties *)

\* Every variable stays in its type.
TypeOK ==
  /\ page \in Page /\ service \in {"checking", "connected", "absent"} /\ use_service \in BOOLEAN
  /\ running \in Running \cup {None} /\ result \in Result \cup {None} /\ updating \in BOOLEAN
  /\ quarantine \in {None} \cup SUBSET Item /\ schedules \in BOOLEAN
  /\ confirm \in Question \cup {None}
  /\ events \in Seq(CallEvent \cup ScanThreadEvent)
  /\ thread \in Thread /\ handle \in BOOLEAN /\ progressed \in 0..MaxProgress
  /\ child \in {"none", "running", "reported", "ended"}
  /\ job \in [1..MaxScans -> {"none", "running", "completed", "over"}]
  /\ calls \in SUBSET Call
  /\ held \in SUBSET Item /\ window \in {"open", "gone"}
  /\ scans \in 0..MaxScans /\ asked_for \in 0..MaxCalls
  /\ asked \in SUBSET Question /\ acted \in SUBSET Question

\* Progress, job and result never cross scans: whatever is in the channel, and
\* the thread that will send more, belongs to the scan the window shows as
\* running, its result comes last, and the child in the cancel handle is its own.
EventsAreOfTheScanShown ==
  LET scanEvents == {i \in DOMAIN events : events[i].scan # 0}
  IN  window = "open" =>
        /\ \A i \in scanEvents : running # None /\ events[i].scan = running.scan
        /\ thread.pc # "idle" => running # None /\ thread.scan = running.scan
        /\ \A i, j \in scanEvents : events[i].type = "scan_done" => j <= i /\ thread.pc = "idle"
        /\ handle => thread.pc = "read"

\* "Nothing is quarantined or deleted unless you ask for it": the service
\* restores or deletes only what the user was shown and confirmed, whatever lists
\* arrive between the question and the answer, and each of these at most once.
OnlyWhatWasConfirmed ==
  /\ acted \subseteq asked
  /\ \A x, y \in acted : x.item = y.item => x = y

\* The window never waits for nothing: while it shows a scan or an update as
\* running (and offers no way to start another), a thread still works on it or
\* its result is in the channel, whatever was cancelled, failed or clicked.
NeverStuckBusy ==
  window = "open" =>
    /\ running # None =>
         thread.pc # "idle" \/ \E i \in DOMAIN events : events[i].type = "scan_done"
    /\ updating =>
         \/ \E c \in calls : c.kind = "update"
         \/ \E i \in DOMAIN events : events[i].type = "update_done"

\* "Never leave a scanner running after the window closes" (on_exit).
NothingLeftRunning ==
  window = "gone" => child # "running" /\ \A n \in 1..MaxScans : job[n] # "running"

---------------------------------------------------------------------------
(* The inductive invariant DesktopProofs proves. *)

\* A request to restore or delete was confirmed, an update's thread will say
\* that it is done, and what the service has acted on it no longer holds.
RequestsAgree ==
  /\ \A c \in calls : c.kind \in {"restore", "delete"} =>
       [kind |-> c.kind, item |-> c.item] \in asked
  /\ \A c \in calls : c.kind = "update" /\ c.reply # None => c.reply.type = "update_done"
  /\ \A x \in acted : x.item \notin held

IInv == TypeOK /\ RequestsAgree /\ EventsAreOfTheScanShown /\ OnlyWhatWasConfirmed
          /\ NeverStuckBusy
=============================================================================
