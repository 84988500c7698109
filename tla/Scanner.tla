------------------------------- MODULE Scanner -------------------------------
(***************************************************************************)
(* The threads of one scan, crates/engine/src/scanner.rs: the walker that  *)
(* enumerates entries, the workers that evaluate files, and the            *)
(* coordinator (the caller's thread) that collects results, applies the    *)
(* stop conditions and runs the stall watchdog. They share a bounded work  *)
(* queue, a bounded message channel, one slot per worker, a stop token and *)
(* two counters.                                                           *)
(*                                                                         *)
(* Abstractions: what an evaluation finds is left out; a message says only *)
(* which entry it accounts for. Time is the fact that a file can be past   *)
(* its limit plus grace (`slow`). A call may block for ever: nothing       *)
(* forces an evaluation to end.                                            *)
(***************************************************************************)
EXTENDS Naturals, Sequences, FiniteSets

CONSTANTS
    Entry,        \* directory entries below the scan roots, numbered in the
                  \* order the walk meets them
    None,         \* no entry
    N,            \* config.workers
    QueueCap,     \* capacity of the work queue (n_workers * 16 in the code)
    MsgCap,       \* capacity of the message channel (256 in the code)
    MayStop,      \* whether the user cancels or the scan has a time limit
    MayFail,      \* whether threads panic and spawning fails
    Prompt        \* whether results are received before a later file stalls

ASSUME EntryAssumption ==
    Entry \subseteq Nat /\ IsFiniteSet(Entry) /\ None \notin Entry
ASSUME SizeAssumption ==
    N \in Nat \ {0} /\ QueueCap \in Nat \ {0} /\ MsgCap \in Nat \ {0}
ASSUME FlagAssumption ==
    MayStop \in BOOLEAN /\ MayFail \in BOOLEAN /\ Prompt \in BOOLEAN

\* Identifiers of workers: the initial N, and room for one more replacement
\* than the code may start.
Worker == 1..(2 * N + 1)

VARIABLES
    toWalk,      \* entries the walker has not reached
    walker,      \* the walker's control point
    held,        \* the entry the walker is handing over
    queue,       \* the work queue
    msgs, rx,    \* the message channel, and whether msg_rx is still open
    wpc, item,   \* each worker's control point and entry
    slot, slow,  \* each worker's slot, and whether it is past the limit
    flag,        \* workers whose slot is marked abandoned
    stop,        \* the internal stop token
    enqueued, dequeued,
    cpc, wi, upto, seen,  \* coordinator: control point, watchdog loop, stalled file
    started, live,  \* coordinator: workers started, workers believed live
    walkerDone, reason, panicked, spawnError,
    reported,    \* entries the report accounts for
    unscanned,   \* whether the report says that queued files were not scanned
    status       \* the result, "running" until scan returns

threads == <<toWalk, walker, held, wpc, item>>
counts  == <<enqueued, dequeued>>
outcome == <<reported, unscanned, status>>
coord   == <<cpc, wi, upto, seen, started, live, walkerDone, reason, panicked,
             spawnError>>
vars == <<toWalk, walker, held, queue, msgs, rx, wpc, item, slot, slow, flag,
          stop, enqueued, dequeued, cpc, wi, upto, seen, started, live,
          walkerDone, reason, panicked, spawnError, reported, unscanned, status>>

Result(w, e)     == [kind |-> "result", entry |-> e, who |-> w, panic |-> FALSE]
Exited(w, panic) ==
    [kind |-> "exited", entry |-> None, who |-> w, panic |-> panic]
Msg == [kind : {"result", "exited"}, entry : Entry \cup {None},
        who : Worker \cup {0}, panic : BOOLEAN]

----------------------------------------------------------------------------
(* `scan` up to its loop: all threads are started, or spawning one of them *)
(* failed and the scan stops at once; it may have been cancelled before.   *)

Init ==
    /\ toWalk = Entry
    /\ held = None
    /\ queue = <<>> /\ msgs = <<>> /\ rx = TRUE
    /\ spawnError \in (IF MayFail THEN BOOLEAN ELSE {FALSE})
    /\ walker = IF spawnError THEN "done" ELSE "walk"
    /\ walkerDone = spawnError
    /\ reason \in (IF MayStop THEN {"none", "cancelled"} ELSE {"none"})
    /\ stop = (spawnError \/ reason = "cancelled")
    /\ started \in 0..N
    /\ ~spawnError => started = N
    /\ wpc = [w \in Worker |-> IF w <= started THEN "recv" ELSE "none"]
    /\ live = 1..started
    /\ item = [w \in Worker |-> None]
    /\ slot = [w \in Worker |-> None]
    /\ slow = {} /\ flag = {}
    /\ enqueued = 0 /\ dequeued = 0
    /\ cpc = "recv" /\ wi = 1 /\ upto = 0 /\ seen = None
    /\ panicked = FALSE
    /\ reported = {} /\ unscanned = FALSE /\ status = "running"

----------------------------------------------------------------------------
(* walker_main, walk, enqueue.                                             *)

Walker(label) ==
    /\ walker' = label
    /\ UNCHANGED <<wpc, item, slot, slow, flag, stop, dequeued, coord, outcome, rx>>

\* Read the next entry: a file goes to the queue, anything else (a
\* directory, a link, an exclusion, an error) is reported by the walker.
WalkNext ==
    /\ walker = "walk" /\ ~stop /\ toWalk # {}
    /\ \E e \in toWalk :
         /\ \A f \in toWalk : e <= f
         /\ held' = e
         /\ toWalk' = toWalk \ {e}
    /\ Walker("push") \/ Walker("send")
    /\ UNCHANGED <<queue, msgs, enqueued>>

WalkEnd ==
    /\ walker = "walk" /\ (stop \/ toWalk = {})
    /\ Walker("exit")
    /\ UNCHANGED <<toWalk, held, queue, msgs, enqueued>>

\* try_send until there is room or the scan stops.
WalkPush ==
    /\ walker = "push"
    /\ \/ /\ Len(queue) < QueueCap
          /\ queue' = Append(queue, held)
          /\ Walker("count")
       \/ Len(queue) >= QueueCap /\ stop /\ Walker("exit") /\ UNCHANGED queue
    /\ UNCHANGED <<toWalk, held, msgs, enqueued>>

WalkCount ==
    /\ walker = "count"
    /\ enqueued' = enqueued + 1
    /\ held' = None
    /\ Walker("walk")
    /\ UNCHANGED <<toWalk, queue, msgs>>

\* Mutant: the receiver outlives the loop, so a full channel blocks.
SendBlocks(m) == Len(msgs) < MsgCap /\ msgs' = Append(msgs, m)

\* A blocking send, which fails once the receiver is gone.
Send(m) == IF rx THEN Len(msgs) < MsgCap /\ msgs' = Append(msgs, m)
                 ELSE msgs' = msgs

WalkSend ==
    /\ walker = "send"
    /\ Send(Result(0, held))
    /\ held' = None
    /\ Walker(IF rx THEN "walk" ELSE "exit")
    /\ UNCHANGED <<toWalk, queue, enqueued>>

\* The exit notice is dropped before the sender of the work queue.
WalkExit ==
    /\ walker = "exit"
    /\ Send(Exited(0, FALSE))
    /\ Walker("drop")
    /\ UNCHANGED <<toWalk, held, queue, enqueued>>

\* A panic in the walk: its exit notice says so.
WalkPanic ==
    /\ MayFail /\ walker = "walk"
    /\ Send(Exited(0, TRUE))
    /\ Walker("drop")
    /\ UNCHANGED <<toWalk, held, queue, enqueued>>

WalkDrop ==
    /\ walker = "drop"
    /\ Walker("done")
    /\ UNCHANGED <<toWalk, held, queue, msgs, enqueued>>

----------------------------------------------------------------------------
(* worker_main.                                                            *)

WorkerAt(w, label, next) ==
    /\ wpc[w] = label
    /\ wpc' = [wpc EXCEPT ![w] = next]
    /\ UNCHANGED <<toWalk, walker, held, rx, flag, stop, enqueued, coord, outcome>>

\* recv returns the next file, or an error when the queue is empty and
\* the walker has dropped its end.
WorkerRecv(w) ==
    \/ /\ queue # <<>>
       /\ WorkerAt(w, "recv", "count")
       /\ item' = [item EXCEPT ![w] = Head(queue)]
       /\ queue' = Tail(queue)
       /\ UNCHANGED <<msgs, slot, slow, dequeued>>
    \/ /\ queue = <<>> /\ walker = "done"
       /\ WorkerAt(w, "recv", "exit")
       /\ UNCHANGED <<item, queue, msgs, slot, slow, dequeued>>

\* Count the file; drain it when the scan is stopping, else start on it.
WorkerCount(w) ==
    /\ dequeued' = dequeued + 1
    /\ IF stop THEN WorkerAt(w, "count", "recv") /\ UNCHANGED slot
               ELSE /\ WorkerAt(w, "count", "process")
                    /\ slot' = [slot EXCEPT ![w] = item[w]]
    /\ UNCHANGED <<item, queue, msgs, slow>>

\* The file passes its time limit plus the grace period: seconds, in which a
\* coordinator that polls every 50 ms receives what w had sent before.
FileStalls(w) ==
    /\ slot[w] # None /\ w \notin slow
    /\ Prompt => \A k \in 1..Len(msgs) : msgs[k].who # w
    /\ slow' = slow \cup {w}
    /\ UNCHANGED <<threads, queue, msgs, rx, slot, flag, stop, counts, coord,
                   outcome>>

\* process_file returns a message, or none when it noticed the stop token;
\* the slot is cleared.
WorkerFinish(w) ==
    /\ WorkerAt(w, "process", "check")
    /\ \/ item' = item
       \/ stop /\ item' = [item EXCEPT ![w] = None]
    /\ slot' = [slot EXCEPT ![w] = None]
    /\ slow' = slow \ {w}
    /\ UNCHANGED <<queue, msgs, dequeued>>

\* An abandoned worker leaves without sending: its file was reported.
WorkerCheck(w) ==
    /\ WorkerAt(w, "check", IF w \in flag THEN "exit"
                            ELSE IF item[w] = None THEN "recv" ELSE "send")
    /\ UNCHANGED <<item, queue, msgs, slot, slow, dequeued>>

WorkerSend(w) ==
    /\ WorkerAt(w, "send", IF rx THEN "recv" ELSE "exit")
    /\ Send(Result(w, item[w]))
    /\ UNCHANGED <<item, queue, slot, slow, dequeued>>

WorkerExit(w) ==
    /\ WorkerAt(w, "exit", "gone")
    /\ Send(Exited(w, FALSE))
    /\ UNCHANGED <<item, queue, slot, slow, dequeued>>

\* A panic outside the detectors: the exit notice is still sent.
WorkerPanic(w) ==
    /\ MayFail
    /\ WorkerAt(w, "process", "gone")
    /\ Send(Exited(w, TRUE))
    /\ UNCHANGED <<item, queue, slot, slow, dequeued>>

----------------------------------------------------------------------------
(* The coordinator's loop.                                                 *)

Coord(label, next) ==
    /\ cpc = label
    /\ cpc' = next
    /\ UNCHANGED <<toWalk, walker, held, queue, item, slot, slow, counts, spawnError>>

\* Mutant: the loop ends with the walker.
AllDeadWithWalker == walkerDone

\* The loop ends when the walker and every worker believed live have ended.
AllDead == walkerDone /\ live = {}

\* recv_timeout: nothing arrived within the tick.
CoordTick ==
    /\ ~AllDead /\ msgs = <<>>
    /\ Coord("recv", "limits")
    /\ UNCHANGED <<msgs, rx, wpc, flag, stop, wi, upto, seen, started, live, walkerDone,
                   reason, panicked, outcome>>

CoordRecv ==
    /\ ~AllDead /\ msgs # <<>>
    /\ Coord("recv", "limits")
    /\ LET m == Head(msgs) IN
         /\ msgs' = Tail(msgs)
         /\ reported' = IF m.kind = "result" THEN reported \cup {m.entry}
                        ELSE reported
         /\ walkerDone' = (walkerDone \/ (m.kind = "exited" /\ m.who = 0))
         /\ live' = IF m.kind = "exited" THEN live \ {m.who} ELSE live
         /\ panicked' = (panicked \/ m.panic)
    /\ UNCHANGED <<rx, wpc, flag, stop, wi, upto, seen, started, reason, unscanned, status>>

\* The user cancelled, or the whole-scan time limit passed.
StopFor(why) == reason' = why /\ stop' = TRUE

CoordLimits ==
    /\ Coord("limits", "watch")
    /\ wi' = 1 /\ upto' = started
    /\ \/ UNCHANGED <<reason, stop>>
       \/ MayStop /\ reason = "none" /\ (StopFor("cancelled") \/ StopFor("time"))
    /\ UNCHANGED <<msgs, rx, wpc, flag, seen, started, live, walkerDone, panicked,
                   outcome>>

\* The watchdog looks at one slot after the other, up to the workers that were
\* there when its loop began.
CoordWatch ==
    /\ wi <= upto
    /\ IF wi \in live /\ slot[wi] # None /\ wi \in slow
       THEN Coord("watch", "abandon") /\ seen' = slot[wi] /\ wi' = wi
       ELSE Coord("watch", "watch") /\ seen' = None /\ wi' = wi + 1
    /\ UNCHANGED <<msgs, rx, wpc, flag, stop, upto, started, live, walkerDone, reason,
                   panicked, outcome>>

\* At most N replacements, and none once the scan stops.
MayReplace == Cardinality(flag') <= N /\ reason = "none"

\* It gives the worker up, reports the file it saw, and starts another
\* worker, if it may and the thread can be spawned.
CoordAbandon ==
    /\ Coord("abandon", "watch")
    /\ flag' = flag \cup {wi}
    /\ reported' = reported \cup {seen}
    /\ \/ /\ MayReplace
          /\ started' = started + 1
          /\ live' = (live \ {wi}) \cup {started + 1}
          /\ wpc' = [wpc EXCEPT ![started + 1] = "recv"]
       \/ /\ ~MayReplace \/ MayFail
          /\ live' = live \ {wi}
          /\ UNCHANGED <<started, wpc>>
    /\ wi' = wi + 1
    /\ seen' = None
    /\ UNCHANGED <<msgs, rx, stop, upto, walkerDone, reason, panicked, unscanned, status>>

\* Mutant: nobody tells the walker that no worker is left.
CoordStallsSilent ==
    /\ wi > upto
    /\ Coord("watch", "recv")
    /\ UNCHANGED <<msgs, rx, wpc, flag, stop, wi, upto, seen, started, live,
                   walkerDone, reason, panicked, outcome>>

\* No worker left and the walker still busy: stop, so that it can finish.
CoordStalls ==
    /\ wi > upto
    /\ Coord("watch", "recv")
    /\ IF reason = "none" /\ live = {} /\ ~walkerDone THEN StopFor("stalls")
       ELSE UNCHANGED <<reason, stop>>
    /\ UNCHANGED <<msgs, rx, wpc, flag, wi, upto, seen, started, live, walkerDone,
                   panicked, outcome>>

\* Mutant: what is left on the queue is not noticed.
CoordTallyNothing ==
    /\ AllDead
    /\ Coord("recv", "join")
    /\ rx' = FALSE
    /\ UNCHANGED <<msgs, wpc, flag, stop, wi, upto, seen, started, live, walkerDone,
                   reason, panicked, outcome>>

\* After the loop: close the channel and compare the two counters.
CoordTally ==
    /\ AllDead
    /\ Coord("recv", "join")
    /\ rx' = FALSE
    /\ IF enqueued > dequeued /\ reason = "none"
       THEN reason' = "stalls" /\ unscanned' = TRUE
       ELSE UNCHANGED <<reason, unscanned>>
    /\ UNCHANGED <<msgs, wpc, flag, stop, wi, upto, seen, started, live, walkerDone,
                   panicked, reported, status>>

\* Join every thread that was not detached; StopOnDrop cancels the token.
CoordJoin ==
    /\ Coord("join", "returned")
    /\ walker = "done"
    /\ \A w \in 1..started : w \in flag \/ wpc[w] = "gone"
    /\ status' = IF spawnError \/ panicked THEN "error"
                 ELSE CASE reason = "none" -> "completed"
                        [] reason = "cancelled" -> "cancelled"
                        [] OTHER -> "time_limit"
    /\ stop' = TRUE
    /\ UNCHANGED <<msgs, rx, wpc, flag, wi, upto, seen, started, live, walkerDone,
                   reason, panicked, reported, unscanned>>

----------------------------------------------------------------------------
WalkStep == WalkEnd \/ WalkPush \/ WalkCount \/ WalkSend \/ WalkExit \/ WalkDrop

WorkerStep(w) ==
    WorkerRecv(w) \/ WorkerCount(w) \/ WorkerCheck(w) \/ WorkerSend(w)
      \/ WorkerExit(w)

Coordinate ==
    CoordTick \/ CoordRecv \/ CoordLimits \/ CoordWatch \/ CoordAbandon
      \/ CoordStalls \/ CoordTally \/ CoordJoin

Next ==
    \/ WalkNext \/ WalkStep \/ WalkPanic \/ Coordinate
    \/ \E w \in Worker : WorkerStep(w) \/ FileStalls(w) \/ WorkerFinish(w)
                          \/ WorkerPanic(w)

Spec == Init /\ [][Next]_vars

\* Threads keep running and time passes, but nothing makes an evaluation end.
ThreadFairness ==
    /\ WF_vars(WalkStep) /\ WF_vars(Coordinate)
    /\ \A w \in Worker : WF_vars(WorkerStep(w)) /\ WF_vars(FileStalls(w))

\* Directory reads complete.
FairSpec == Spec /\ ThreadFairness /\ WF_vars(WalkNext)

\* A directory read may block for ever, as a file read may.
HungWalkSpec == Spec /\ ThreadFairness

----------------------------------------------------------------------------
(* Properties.                                                             *)

\* The types of the variables.
TypeOK ==
    /\ toWalk \in SUBSET Entry
    /\ walker \in {"walk", "push", "count", "send", "exit", "drop", "done"}
    /\ held \in Entry \cup {None}
    /\ queue \in Seq(Entry) /\ Len(queue) <= QueueCap
    /\ msgs \in Seq(Msg) /\ Len(msgs) <= MsgCap
    /\ rx \in BOOLEAN /\ stop \in BOOLEAN
    /\ wpc \in [Worker -> {"none", "recv", "count", "process", "check", "send",
                           "exit", "gone"}]
    /\ item \in [Worker -> Entry \cup {None}]
    /\ slot \in [Worker -> Entry \cup {None}]
    /\ slow \in SUBSET Worker /\ flag \in SUBSET Worker
    /\ enqueued \in Nat /\ dequeued \in Nat
    /\ cpc \in {"recv", "limits", "watch", "abandon", "join", "returned"}
    /\ wi \in Nat /\ upto \in 0..(2 * N + 1) /\ seen \in Entry \cup {None}
    /\ started \in 0..(2 * N + 1) /\ live \in SUBSET Worker
    /\ walkerDone \in BOOLEAN /\ panicked \in BOOLEAN /\ spawnError \in BOOLEAN
    /\ reason \in {"none", "cancelled", "time", "stalls"}
    /\ reported \in SUBSET Entry /\ unscanned \in BOOLEAN
    /\ status \in {"running", "completed", "cancelled", "time_limit", "error"}

\* A scan that reports `completed` has walked everything and left nothing on
\* the queue, whatever stalled: the counters of Shared see to it.
CompletedMeansDrained ==
    status = "completed" => toWalk = {} /\ queue = <<>> /\ held = None

\* A completed scan in which no worker was abandoned accounts for every
\* entry: no result is still in the channel, or with a worker, when the loop
\* ends.
CompletedAccountsForAll ==
    status = "completed" /\ flag = {} => reported = Entry

\* "Capping replacements bounds the total": at most `workers` replacements,
\* so at most twice as many threads.
ThreadsBounded == started <= 2 * N

\* "Every scan finishes", given that directory reads complete.
Finishes == <>(status # "running")

\* StopOnDrop: after the scan has returned, every thread ends unless its
\* evaluation blocks.
ThreadsEnd ==
    status # "running" ~>
        /\ walker = "done"
        /\ \A w \in Worker : wpc[w] \in {"none", "gone", "process"}

\* ADR-0009: "every file is accounted for as scanned, skipped, or an issue",
\* in a scan that reports `completed`.
EveryFileAccounted == status = "completed" => reported = Entry

----------------------------------------------------------------------------
(* The inductive invariant ScannerProofs proves.                           *)

\* The report will not say `completed`: a thread was not started, the scan is
\* to stop, or a panic is known, or on its way from one of these threads.
Trouble(S) ==
    \/ spawnError \/ panicked \/ reason # "none"
    \/ \E i \in DOMAIN msgs : msgs[i].panic /\ msgs[i].who \in S

\* The coordinator's own variables.
CoordAgrees ==
    /\ rx <=> cpc \notin {"join", "returned"}
    /\ ~rx => walkerDone /\ live = {}
    /\ cpc = "returned" => walker = "done"
    /\ stop /\ cpc # "returned" => spawnError \/ reason # "none"
    /\ status # "running" => cpc = "returned"
    /\ status = "completed" => ~spawnError /\ ~panicked /\ reason = "none"
    /\ cpc = "abandon" => wi \in live /\ seen \in Entry

\* The coordinator's books on workers agree with the threads: a worker it no
\* longer counts as live was abandoned or has ended.
WorkersAgree ==
    /\ live \subseteq 1..started /\ flag \subseteq 1..started /\ live \cap flag = {}
    /\ started <= N + Cardinality(flag) /\ ThreadsBounded
    /\ \A w \in Worker :
         /\ w > started => wpc[w] = "none"
         /\ w <= started /\ w \notin live \cup flag => wpc[w] = "gone"
         /\ wpc[w] \in {"count", "process", "send"} => item[w] # None

\* The walker holds an entry only while it hands it over, and ends with every
\* entry walked unless there is trouble.
WalkerAgrees ==
    /\ walker = "walk" => held = None
    /\ walker \in {"push", "count", "send"} => held # None
    /\ walkerDone => walker \in {"drop", "done"}
    /\ walker \in {"exit", "drop", "done"} =>
         Trouble({0}) \/ (toWalk = {} /\ held = None)

\* A message is of a thread the coordinator has not seen end, and an exit
\* notice is of a thread that has ended.
MessageAgrees(m) ==
    /\ m.kind = "result" => m.entry # None
    /\ m.kind = "exited" =>
         IF m.who = 0 THEN walker \in {"drop", "done"} ELSE wpc[m.who] = "gone"
    /\ IF m.who = 0 THEN ~walkerDone ELSE m.who \in live \cup flag

\* An exit notice is its thread's last message.
MessagesAgree ==
    /\ \A i \in DOMAIN msgs : MessageAgrees(msgs[i])
    /\ \A i, j \in DOMAIN msgs :
         i < j /\ msgs[i].kind = "exited" => msgs[j].who # msgs[i].who

\* Workers that have taken a file and not yet counted it.
Counting == {w \in Worker : wpc[w] = "count"}

\* The counters differ by what is on the queue or taken and not yet counted,
\* and a queue that is not empty when the loop ends is noticed.
CountsAgree ==
    /\ enqueued + (IF walker = "count" THEN 1 ELSE 0)
         = dequeued + Len(queue) + Cardinality(Counting)
    /\ ~rx /\ reason = "none" => queue = <<>>

\* Where an entry can be while the scan goes well.
InQueue(e)   == \E i \in DOMAIN queue : queue[i] = e
AtWorker(e)  ==
    \E w \in Worker : item[w] = e /\ wpc[w] \in {"count", "process", "check", "send"}
InChannel(e) == \E i \in DOMAIN msgs : msgs[i].kind = "result" /\ msgs[i].entry = e

Located(e) ==
    \/ e \in toWalk \cup reported
    \/ e = held /\ walker \in {"push", "send"}
    \/ InQueue(e) \/ AtWorker(e) \/ InChannel(e)

\* No entry is lost while no worker is abandoned.
NoneLost == ~Trouble(Worker \cup {0}) /\ flag = {} => \A e \in Entry : Located(e)

IInv ==
    TypeOK /\ CoordAgrees /\ WorkersAgree /\ WalkerAgrees /\ MessagesAgree
      /\ CountsAgree /\ NoneLost
==============================================================================
