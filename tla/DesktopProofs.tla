--------------------------- MODULE DesktopProofs ---------------------------
(***************************************************************************)
(* Theorems about Desktop, for any sets of paths and items and any number  *)
(* of scans, requests and progress lines: the events in the channel belong *)
(* to the scan the window shows, only what was confirmed is done, and the  *)
(* window never waits for nothing.                                         *)
(***************************************************************************)
EXTENDS Desktop, TLAPS, SequenceTheorems

\* The two operations on the channel.
LEMMA SendEvent ==
    ASSUME NEW T, NEW s \in Seq(T), NEW e \in T
    PROVE  /\ Append(s, e) \in Seq(T) /\ Len(Append(s, e)) = Len(s) + 1
           /\ DOMAIN Append(s, e) = DOMAIN s \cup {Len(s) + 1}
           /\ \A i \in DOMAIN s : Append(s, e)[i] = s[i] /\ i <= Len(s)
           /\ Append(s, e)[Len(s) + 1] = e
BY AppendProperties

LEMMA TakeEvent ==
    ASSUME NEW T, NEW s \in Seq(T), s # <<>>
    PROVE  /\ Head(s) \in T /\ Head(s) = s[1] /\ 1 \in DOMAIN s
           /\ Tail(s) \in Seq(T)
           /\ \A i \in DOMAIN Tail(s) : i \in Nat /\ i + 1 \in DOMAIN s /\ Tail(s)[i] = s[i + 1]
           /\ \A i \in DOMAIN s : i # 1 => i - 1 \in DOMAIN Tail(s) /\ Tail(s)[i - 1] = s[i]
BY HeadTailProperties

\* The window, its page and the counters.
LEMMA FormTypeStep ==
    ASSUME TypeOK, [Next]_vars
    PROVE  /\ window' \in {"open", "gone"} /\ page' \in Page
           /\ service' \in {"checking", "connected", "absent"}
           /\ scans' \in 0..MaxScans /\ asked_for' \in 0..MaxCalls /\ progressed' \in 0..MaxProgress
           /\ child' \in {"none", "running", "reported", "ended"}
<1>t. /\ window \in {"open", "gone"} /\ page \in Page
      /\ service \in {"checking", "connected", "absent"}
      /\ scans \in 0..MaxScans /\ asked_for \in 0..MaxCalls /\ progressed \in 0..MaxProgress
      /\ child \in {"none", "running", "reported", "ended"}
  BY DEF TypeOK
<1> USE DesktopConstants, <1>t
    DEF form, shown, work, outside, Page
<1>1. CASE \E p \in Page : OpenPage(p) BY <1>1 DEF OpenPage, Spawn, NoSpawn
<1>2. CASE CheckAgain BY <1>2 DEF CheckAgain, Click, Spawn
<1>3. CASE UseService BY <1>3 DEF UseService, Click
<1>4. CASE CancelScan BY <1>4 DEF CancelScan, Click, Spawn, NoSpawn, KillStored
<1>5. CASE StartUpdate BY <1>5 DEF StartUpdate, Click, Spawn
<1>6. CASE RunSchedule BY <1>6 DEF RunSchedule, Click, Spawn
<1>7. CASE Refresh BY <1>7 DEF Refresh, Click, Spawn
<1>8. CASE Close BY <1>8 DEF Close, KillStored
<1>9. CASE \E chosen \in SUBSET Path : StartScan(chosen)
  BY <1>9 DEF StartScan, Started, Click
<1>10. CASE \E k \in {"restore", "delete"}, i \in Item : Ask(k, i)
  BY <1>10 DEF Ask, Click
<1>11. CASE \E yes \in BOOLEAN : Decide(yes) BY <1>11 DEF Decide, Spawn, NoSpawn
<1>12. CASE Handle
  BY <1>12 DEF Handle, OnService, OnScanEvent, OnScanDone, OnUpdateDone, OnList,
     OnDone, Spawn, NoSpawn
<1>13. CASE SpawnChild BY <1>13 DEF SpawnChild, At, Goto, Finish, Send, Rest
<1>14. CASE StoreChild BY <1>14 DEF StoreChild, At, Goto, Rest
<1>15. CASE ReadProgress BY <1>15 DEF ReadProgress, At, Send, Rest
<1>16. CASE Reap BY <1>16 DEF Reap, At, Finish, Send, Rest
<1>17. CASE Submit BY <1>17 DEF Submit, At, Goto, Finish, Send, Rest
<1>18. CASE Poll BY <1>18 DEF Poll, At, Goto, Finish, Send, Rest
<1>19. CASE FetchReport BY <1>19 DEF FetchReport, At, Finish, Send, Rest
<1>20. CASE \E c \in calls : Perform(c) BY <1>20 DEF Perform
<1>21. CASE \E c \in calls : Respond(c) BY <1>21 DEF Respond, Send
<1>22. CASE \E c \in calls : CancelJob(c) BY <1>22 DEF CancelJob
<1>23. CASE ChildEnds BY <1>23 DEF ChildEnds
<1>24. CASE \E n \in 1..MaxScans : JobEnds(n) BY <1>24 DEF JobEnds
<1>25. CASE UNCHANGED vars BY <1>25 DEF vars
<1>26. QED
  BY <1>1, <1>2, <1>3, <1>4, <1>5, <1>6, <1>7, <1>8, <1>9, <1>10, <1>11, <1>12,
     <1>13, <1>14, <1>15, <1>16, <1>17, <1>18, <1>19, <1>20, <1>21, <1>22, <1>23,
     <1>24, <1>25
  DEF Next, User, ScanThread, CallThread

\* The flags.
LEMMA FlagsTypeStep ==
    ASSUME TypeOK, [Next]_vars
    PROVE  /\ use_service' \in BOOLEAN /\ updating' \in BOOLEAN
           /\ schedules' \in BOOLEAN /\ handle' \in BOOLEAN
<1>t. /\ use_service \in BOOLEAN /\ updating \in BOOLEAN
      /\ schedules \in BOOLEAN /\ handle \in BOOLEAN
  BY DEF TypeOK
<1> USE <1>t
    DEF form, shown, work, outside
<1>1. CASE \E p \in Page : OpenPage(p) BY <1>1 DEF OpenPage, Spawn, NoSpawn
<1>2. CASE CheckAgain BY <1>2 DEF CheckAgain, Click, Spawn
<1>3. CASE UseService BY <1>3 DEF UseService, Click
<1>4. CASE CancelScan BY <1>4 DEF CancelScan, Click, Spawn, NoSpawn, KillStored
<1>5. CASE StartUpdate BY <1>5 DEF StartUpdate, Click, Spawn
<1>6. CASE RunSchedule BY <1>6 DEF RunSchedule, Click, Spawn
<1>7. CASE Refresh BY <1>7 DEF Refresh, Click, Spawn
<1>8. CASE Close BY <1>8 DEF Close, KillStored
<1>9. CASE \E chosen \in SUBSET Path : StartScan(chosen)
  BY <1>9 DEF StartScan, Started, Click
<1>10. CASE \E k \in {"restore", "delete"}, i \in Item : Ask(k, i)
  BY <1>10 DEF Ask, Click
<1>11. CASE \E yes \in BOOLEAN : Decide(yes) BY <1>11 DEF Decide, Spawn, NoSpawn
<1>12. CASE Handle
  BY <1>12, Zenon DEF Handle, OnService, OnScanEvent, OnScanDone, OnUpdateDone,
     OnList, OnDone, Spawn, NoSpawn
<1>13. CASE SpawnChild BY <1>13 DEF SpawnChild, At, Goto, Finish, Send, Rest
<1>14. CASE StoreChild BY <1>14 DEF StoreChild, At, Goto, Rest
<1>15. CASE ReadProgress BY <1>15 DEF ReadProgress, At, Send, Rest
<1>16. CASE Reap BY <1>16 DEF Reap, At, Finish, Send, Rest
<1>17. CASE Submit BY <1>17 DEF Submit, At, Goto, Finish, Send, Rest
<1>18. CASE Poll BY <1>18 DEF Poll, At, Goto, Finish, Send, Rest
<1>19. CASE FetchReport BY <1>19 DEF FetchReport, At, Finish, Send, Rest
<1>20. CASE \E c \in calls : Perform(c) BY <1>20 DEF Perform
<1>21. CASE \E c \in calls : Respond(c) BY <1>21 DEF Respond, Send
<1>22. CASE \E c \in calls : CancelJob(c) BY <1>22 DEF CancelJob
<1>23. CASE ChildEnds BY <1>23 DEF ChildEnds
<1>24. CASE \E n \in 1..MaxScans : JobEnds(n) BY <1>24 DEF JobEnds
<1>25. CASE UNCHANGED vars BY <1>25 DEF vars
<1>26. QED
  BY <1>1, <1>2, <1>3, <1>4, <1>5, <1>6, <1>7, <1>8, <1>9, <1>10, <1>11, <1>12,
     <1>13, <1>14, <1>15, <1>16, <1>17, <1>18, <1>19, <1>20, <1>21, <1>22, <1>23,
     <1>24, <1>25
  DEF Next, User, ScanThread, CallThread

\* The scan's thread.
LEMMA ThreadTypeStep ==
    ASSUME TypeOK, [Next]_vars
    PROVE  /\ thread' \in Thread
<1>t. /\ thread \in Thread
      /\ scans \in 0..MaxScans /\ asked_for \in 0..MaxCalls /\ progressed \in 0..MaxProgress
  BY DEF TypeOK
<1> USE DesktopConstants, <1>t
    DEF form, shown, work, outside, NoThread, Thread
<1>1. CASE \E p \in Page : OpenPage(p) BY <1>1 DEF OpenPage, Spawn, NoSpawn
<1>2. CASE CheckAgain BY <1>2 DEF CheckAgain, Click, Spawn
<1>3. CASE UseService BY <1>3 DEF UseService, Click
<1>4. CASE CancelScan BY <1>4 DEF CancelScan, Click, Spawn, NoSpawn, KillStored
<1>5. CASE StartUpdate BY <1>5 DEF StartUpdate, Click, Spawn
<1>6. CASE RunSchedule BY <1>6 DEF RunSchedule, Click, Spawn
<1>7. CASE Refresh BY <1>7 DEF Refresh, Click, Spawn
<1>8. CASE Close BY <1>8 DEF Close, KillStored
<1>9. CASE \E chosen \in SUBSET Path : StartScan(chosen)
  BY <1>9 DEF StartScan, Started, Click
<1>10. CASE \E k \in {"restore", "delete"}, i \in Item : Ask(k, i)
  BY <1>10 DEF Ask, Click
<1>11. CASE \E yes \in BOOLEAN : Decide(yes) BY <1>11 DEF Decide, Spawn, NoSpawn
<1>12. CASE Handle
  BY <1>12 DEF Handle, OnService, OnScanEvent, OnScanDone, OnUpdateDone, OnList,
     OnDone, Spawn, NoSpawn
<1>13. CASE SpawnChild BY <1>13 DEF SpawnChild, At, Goto, Finish, Send, Rest
<1>14. CASE StoreChild BY <1>14 DEF StoreChild, At, Goto, Rest
<1>15. CASE ReadProgress BY <1>15 DEF ReadProgress, At, Send, Rest
<1>16. CASE Reap BY <1>16 DEF Reap, At, Finish, Send, Rest
<1>17. CASE Submit BY <1>17 DEF Submit, At, Goto, Finish, Send, Rest
<1>18. CASE Poll BY <1>18 DEF Poll, At, Goto, Finish, Send, Rest
<1>19. CASE FetchReport BY <1>19 DEF FetchReport, At, Finish, Send, Rest
<1>20. CASE \E c \in calls : Perform(c) BY <1>20 DEF Perform
<1>21. CASE \E c \in calls : Respond(c) BY <1>21 DEF Respond, Send
<1>22. CASE \E c \in calls : CancelJob(c) BY <1>22 DEF CancelJob
<1>23. CASE ChildEnds BY <1>23 DEF ChildEnds
<1>24. CASE \E n \in 1..MaxScans : JobEnds(n) BY <1>24 DEF JobEnds
<1>25. CASE UNCHANGED vars BY <1>25 DEF vars
<1>26. QED
  BY <1>1, <1>2, <1>3, <1>4, <1>5, <1>6, <1>7, <1>8, <1>9, <1>10, <1>11, <1>12,
     <1>13, <1>14, <1>15, <1>16, <1>17, <1>18, <1>19, <1>20, <1>21, <1>22, <1>23,
     <1>24, <1>25
  DEF Next, User, ScanThread, CallThread

\* The running scan.
LEMMA RunningTypeStep ==
    ASSUME TypeOK, [Next]_vars
    PROVE  /\ running' \in Running \cup {None}
<1>t. /\ running \in Running \cup {None}
      /\ scans \in 0..MaxScans /\ asked_for \in 0..MaxCalls /\ progressed \in 0..MaxProgress
  BY DEF TypeOK
<1>h. events # <<>> => Head(events) \in CallEvent \cup ScanThreadEvent
  BY TakeEvent DEF TypeOK
<1> USE DesktopConstants, <1>t
    DEF form, shown, work, outside, Running
<1>1. CASE \E p \in Page : OpenPage(p) BY <1>1 DEF OpenPage, Spawn, NoSpawn
<1>2. CASE CheckAgain BY <1>2 DEF CheckAgain, Click, Spawn
<1>3. CASE UseService BY <1>3 DEF UseService, Click
<1>4. CASE CancelScan BY <1>4 DEF CancelScan, Click, Spawn, NoSpawn, KillStored
<1>5. CASE StartUpdate BY <1>5 DEF StartUpdate, Click, Spawn
<1>6. CASE RunSchedule BY <1>6 DEF RunSchedule, Click, Spawn
<1>7. CASE Refresh BY <1>7 DEF Refresh, Click, Spawn
<1>8. CASE Close BY <1>8 DEF Close, KillStored
<1>9. CASE \E chosen \in SUBSET Path : StartScan(chosen)
  BY <1>9 DEF StartScan, Started, Click
<1>10. CASE \E k \in {"restore", "delete"}, i \in Item : Ask(k, i)
  BY <1>10 DEF Ask, Click
<1>11. CASE \E yes \in BOOLEAN : Decide(yes) BY <1>11 DEF Decide, Spawn, NoSpawn
<1>12. CASE Handle
  <2>1. running' = running \/ running' = None
          \/ /\ running # None /\ Head(events).type = "progress"
             /\ running' = [running EXCEPT !.progress = Head(events).value]
          \/ /\ running # None /\ Head(events).type = "job"
             /\ running' = [running EXCEPT !.job = Head(events).value]
    BY <1>12 DEF Handle, OnService, OnScanEvent, OnScanDone, OnUpdateDone, OnList, OnDone
  <2>2. /\ Head(events).type = "progress" => Head(events).value \in 0..MaxProgress
        /\ Head(events).type = "job" => Head(events).value \in 1..MaxScans
    BY <1>12, <1>h DEF Handle, CallEvent, ScanThreadEvent
  <2>3. QED
    BY <2>1, <2>2
<1>13. CASE SpawnChild BY <1>13 DEF SpawnChild, At, Goto, Finish, Send, Rest
<1>14. CASE StoreChild BY <1>14 DEF StoreChild, At, Goto, Rest
<1>15. CASE ReadProgress BY <1>15 DEF ReadProgress, At, Send, Rest
<1>16. CASE Reap BY <1>16 DEF Reap, At, Finish, Send, Rest
<1>17. CASE Submit BY <1>17 DEF Submit, At, Goto, Finish, Send, Rest
<1>18. CASE Poll BY <1>18 DEF Poll, At, Goto, Finish, Send, Rest
<1>19. CASE FetchReport BY <1>19 DEF FetchReport, At, Finish, Send, Rest
<1>20. CASE \E c \in calls : Perform(c) BY <1>20 DEF Perform
<1>21. CASE \E c \in calls : Respond(c) BY <1>21 DEF Respond, Send
<1>22. CASE \E c \in calls : CancelJob(c) BY <1>22 DEF CancelJob
<1>23. CASE ChildEnds BY <1>23 DEF ChildEnds
<1>24. CASE \E n \in 1..MaxScans : JobEnds(n) BY <1>24 DEF JobEnds
<1>25. CASE UNCHANGED vars BY <1>25 DEF vars
<1>26. QED
  BY <1>1, <1>2, <1>3, <1>4, <1>5, <1>6, <1>7, <1>8, <1>9, <1>10, <1>11, <1>12,
     <1>13, <1>14, <1>15, <1>16, <1>17, <1>18, <1>19, <1>20, <1>21, <1>22, <1>23,
     <1>24, <1>25
  DEF Next, User, ScanThread, CallThread

\* What the pages show.
LEMMA ShownTypeStep ==
    ASSUME TypeOK, [Next]_vars
    PROVE  /\ quarantine' \in {None} \cup SUBSET Item /\ result' \in Result \cup {None}
<1>t. /\ quarantine \in {None} \cup SUBSET Item /\ result \in Result \cup {None}
  BY DEF TypeOK
<1>h. events # <<>> => Head(events) \in CallEvent \cup ScanThreadEvent
  BY TakeEvent DEF TypeOK
<1> USE <1>t
    DEF form, shown, work, outside
<1>1. CASE \E p \in Page : OpenPage(p) BY <1>1 DEF OpenPage, Spawn, NoSpawn
<1>2. CASE CheckAgain BY <1>2 DEF CheckAgain, Click, Spawn
<1>3. CASE UseService BY <1>3 DEF UseService, Click
<1>4. CASE CancelScan BY <1>4 DEF CancelScan, Click, Spawn, NoSpawn, KillStored
<1>5. CASE StartUpdate BY <1>5 DEF StartUpdate, Click, Spawn
<1>6. CASE RunSchedule BY <1>6 DEF RunSchedule, Click, Spawn
<1>7. CASE Refresh BY <1>7 DEF Refresh, Click, Spawn
<1>8. CASE Close BY <1>8 DEF Close, KillStored
<1>9. CASE \E chosen \in SUBSET Path : StartScan(chosen)
  BY <1>9 DEF StartScan, Started, Click
<1>10. CASE \E k \in {"restore", "delete"}, i \in Item : Ask(k, i)
  BY <1>10 DEF Ask, Click
<1>11. CASE \E yes \in BOOLEAN : Decide(yes) BY <1>11 DEF Decide, Spawn, NoSpawn
<1>12. CASE Handle
  <2>1. /\ \/ UNCHANGED quarantine
           \/ Head(events).type = "quarantine" /\ quarantine' = Head(events).value
        /\ \/ UNCHANGED result
           \/ Head(events).type = "scan_done" /\ result' = Head(events).value
    BY <1>12 DEF Handle, OnService, OnScanEvent, OnScanDone, OnUpdateDone, OnList, OnDone
  <2>2. /\ Head(events).type = "quarantine" => Head(events).value \in SUBSET Item
        /\ Head(events).type = "scan_done" => Head(events).value \in Result
    BY <1>12, <1>h DEF Handle, CallEvent, ScanThreadEvent
  <2>3. QED
    BY <2>1, <2>2
<1>13. CASE SpawnChild BY <1>13 DEF SpawnChild, At, Goto, Finish, Send, Rest
<1>14. CASE StoreChild BY <1>14 DEF StoreChild, At, Goto, Rest
<1>15. CASE ReadProgress BY <1>15 DEF ReadProgress, At, Send, Rest
<1>16. CASE Reap BY <1>16 DEF Reap, At, Finish, Send, Rest
<1>17. CASE Submit BY <1>17 DEF Submit, At, Goto, Finish, Send, Rest
<1>18. CASE Poll BY <1>18 DEF Poll, At, Goto, Finish, Send, Rest
<1>19. CASE FetchReport BY <1>19 DEF FetchReport, At, Finish, Send, Rest
<1>20. CASE \E c \in calls : Perform(c) BY <1>20 DEF Perform
<1>21. CASE \E c \in calls : Respond(c) BY <1>21 DEF Respond, Send
<1>22. CASE \E c \in calls : CancelJob(c) BY <1>22 DEF CancelJob
<1>23. CASE ChildEnds BY <1>23 DEF ChildEnds
<1>24. CASE \E n \in 1..MaxScans : JobEnds(n) BY <1>24 DEF JobEnds
<1>25. CASE UNCHANGED vars BY <1>25 DEF vars
<1>26. QED
  BY <1>1, <1>2, <1>3, <1>4, <1>5, <1>6, <1>7, <1>8, <1>9, <1>10, <1>11, <1>12,
     <1>13, <1>14, <1>15, <1>16, <1>17, <1>18, <1>19, <1>20, <1>21, <1>22, <1>23,
     <1>24, <1>25
  DEF Next, User, ScanThread, CallThread

\* The open question and the history of questions.
LEMMA QuestionTypeStep ==
    ASSUME TypeOK, [Next]_vars
    PROVE  /\ confirm' \in Question \cup {None}
           /\ asked' \in SUBSET Question /\ acted' \in SUBSET Question
<1>t. /\ confirm \in Question \cup {None}
      /\ asked \in SUBSET Question /\ acted \in SUBSET Question
      /\ calls \in SUBSET Call
  BY DEF TypeOK
<1> USE <1>t
    DEF form, shown, work, outside
<1>1. CASE \E p \in Page : OpenPage(p) BY <1>1 DEF OpenPage, Spawn, NoSpawn
<1>2. CASE CheckAgain BY <1>2 DEF CheckAgain, Click, Spawn
<1>3. CASE UseService BY <1>3 DEF UseService, Click
<1>4. CASE CancelScan BY <1>4 DEF CancelScan, Click, Spawn, NoSpawn, KillStored
<1>5. CASE StartUpdate BY <1>5 DEF StartUpdate, Click, Spawn
<1>6. CASE RunSchedule BY <1>6 DEF RunSchedule, Click, Spawn
<1>7. CASE Refresh BY <1>7 DEF Refresh, Click, Spawn
<1>8. CASE Close BY <1>8 DEF Close, KillStored
<1>9. CASE \E chosen \in SUBSET Path : StartScan(chosen)
  BY <1>9 DEF StartScan, Started, Click
<1>10. CASE \E k \in {"restore", "delete"}, i \in Item : Ask(k, i)
  BY <1>10 DEF Ask, Click, Question
<1>11. CASE \E yes \in BOOLEAN : Decide(yes) BY <1>11 DEF Decide, Spawn, NoSpawn
<1>12. CASE Handle
  BY <1>12 DEF Handle, OnService, OnScanEvent, OnScanDone, OnUpdateDone, OnList,
     OnDone, Spawn, NoSpawn
<1>13. CASE SpawnChild BY <1>13 DEF SpawnChild, At, Goto, Finish, Send, Rest
<1>14. CASE StoreChild BY <1>14 DEF StoreChild, At, Goto, Rest
<1>15. CASE ReadProgress BY <1>15 DEF ReadProgress, At, Send, Rest
<1>16. CASE Reap BY <1>16 DEF Reap, At, Finish, Send, Rest
<1>17. CASE Submit BY <1>17 DEF Submit, At, Goto, Finish, Send, Rest
<1>18. CASE Poll BY <1>18 DEF Poll, At, Goto, Finish, Send, Rest
<1>19. CASE FetchReport BY <1>19 DEF FetchReport, At, Finish, Send, Rest
<1>20. CASE \E c \in calls : Perform(c)
  <2>1. PICK c \in calls : Perform(c)
    BY <1>20
  <2>2. c.kind \in {"restore", "delete"} => [kind |-> c.kind, item |-> c.item] \in Question
    BY DEF Call, Question
  <2>3. QED
    BY <2>1, <2>2 DEF Perform
<1>21. CASE \E c \in calls : Respond(c) BY <1>21 DEF Respond, Send
<1>22. CASE \E c \in calls : CancelJob(c) BY <1>22 DEF CancelJob
<1>23. CASE ChildEnds BY <1>23 DEF ChildEnds
<1>24. CASE \E n \in 1..MaxScans : JobEnds(n) BY <1>24 DEF JobEnds
<1>25. CASE UNCHANGED vars BY <1>25 DEF vars
<1>26. QED
  BY <1>1, <1>2, <1>3, <1>4, <1>5, <1>6, <1>7, <1>8, <1>9, <1>10, <1>11, <1>12,
     <1>13, <1>14, <1>15, <1>16, <1>17, <1>18, <1>19, <1>20, <1>21, <1>22, <1>23,
     <1>24, <1>25
  DEF Next, User, ScanThread, CallThread

\* The items the service holds, and its jobs.
LEMMA HeldTypeStep ==
    ASSUME TypeOK, [Next]_vars
    PROVE  /\ held' \in SUBSET Item
           /\ job' \in [1..MaxScans -> {"none", "running", "completed", "over"}]
<1>t. /\ held \in SUBSET Item
      /\ job \in [1..MaxScans -> {"none", "running", "completed", "over"}]
      /\ calls \in SUBSET Call
  BY DEF TypeOK
<1> USE <1>t
    DEF form, shown, work, outside
<1>1. CASE \E p \in Page : OpenPage(p) BY <1>1 DEF OpenPage, Spawn, NoSpawn
<1>2. CASE CheckAgain BY <1>2 DEF CheckAgain, Click, Spawn
<1>3. CASE UseService BY <1>3 DEF UseService, Click
<1>4. CASE CancelScan BY <1>4 DEF CancelScan, Click, Spawn, NoSpawn, KillStored
<1>5. CASE StartUpdate BY <1>5 DEF StartUpdate, Click, Spawn
<1>6. CASE RunSchedule BY <1>6 DEF RunSchedule, Click, Spawn
<1>7. CASE Refresh BY <1>7 DEF Refresh, Click, Spawn
<1>8. CASE Close BY <1>8 DEF Close, KillStored
<1>9. CASE \E chosen \in SUBSET Path : StartScan(chosen)
  BY <1>9 DEF StartScan, Started, Click
<1>10. CASE \E k \in {"restore", "delete"}, i \in Item : Ask(k, i)
  BY <1>10 DEF Ask, Click
<1>11. CASE \E yes \in BOOLEAN : Decide(yes) BY <1>11 DEF Decide, Spawn, NoSpawn
<1>12. CASE Handle
  BY <1>12 DEF Handle, OnService, OnScanEvent, OnScanDone, OnUpdateDone, OnList,
     OnDone, Spawn, NoSpawn
<1>13. CASE SpawnChild BY <1>13 DEF SpawnChild, At, Goto, Finish, Send, Rest
<1>14. CASE StoreChild BY <1>14 DEF StoreChild, At, Goto, Rest
<1>15. CASE ReadProgress BY <1>15 DEF ReadProgress, At, Send, Rest
<1>16. CASE Reap BY <1>16 DEF Reap, At, Finish, Send, Rest
<1>17. CASE Submit BY <1>17 DEF Submit, At, Goto, Finish, Send, Rest
<1>18. CASE Poll BY <1>18 DEF Poll, At, Goto, Finish, Send, Rest
<1>19. CASE FetchReport BY <1>19 DEF FetchReport, At, Finish, Send, Rest
<1>20. CASE \E c \in calls : Perform(c) BY <1>20 DEF Perform
<1>21. CASE \E c \in calls : Respond(c) BY <1>21 DEF Respond, Send
<1>22. CASE \E c \in calls : CancelJob(c)
  <2>1. PICK c \in calls : CancelJob(c)
    BY <1>22
  <2>2. c.item \in 1..MaxScans
    BY <2>1 DEF CancelJob, Call
  <2>3. QED
    BY <2>1, <2>2 DEF CancelJob
<1>23. CASE ChildEnds BY <1>23 DEF ChildEnds
<1>24. CASE \E n \in 1..MaxScans : JobEnds(n) BY <1>24 DEF JobEnds
<1>25. CASE UNCHANGED vars BY <1>25 DEF vars
<1>26. QED
  BY <1>1, <1>2, <1>3, <1>4, <1>5, <1>6, <1>7, <1>8, <1>9, <1>10, <1>11, <1>12,
     <1>13, <1>14, <1>15, <1>16, <1>17, <1>18, <1>19, <1>20, <1>21, <1>22, <1>23,
     <1>24, <1>25
  DEF Next, User, ScanThread, CallThread

\* What a request comes back with.
LEMMA ReplyType ==
    ASSUME TypeOK, NEW c \in calls, c.kind # "cancel", NEW answer \in Answer
    PROVE  /\ Reply(c, answer) \in CallEvent
           /\ c.kind = "update" => Reply(c, answer).type = "update_done"
<1>1. c \in Call /\ held \in SUBSET Item
  BY DEF TypeOK
<1>2. c.kind \in {"status", "update", "list", "schedules", "run", "restore", "delete"}
  BY <1>1 DEF Call
<1>3. QED
  BY <1>1, <1>2 DEF Reply, Event, CallEvent, Answer

\* The threads of requests.
LEMMA CallsTypeStep ==
    ASSUME TypeOK, [Next]_vars
    PROVE  /\ calls' \in SUBSET Call
<1>t. /\ calls \in SUBSET Call
      /\ scans \in 0..MaxScans /\ asked_for \in 0..MaxCalls /\ progressed \in 0..MaxProgress
      /\ confirm \in Question \cup {None}
      /\ running \in Running \cup {None}
  BY DEF TypeOK
<1>n. asked_for < MaxCalls => asked_for + 1 \in 0..MaxCalls
  BY DesktopConstants, <1>t
<1> USE <1>t, <1>n
    DEF form, shown, work, outside, Spawn, NoSpawn
<1>1. CASE \E p \in Page : OpenPage(p) BY <1>1 DEF OpenPage, Call
<1>2. CASE CheckAgain BY <1>2 DEF CheckAgain, Click, Call
<1>3. CASE UseService BY <1>3 DEF UseService, Click
<1>4. CASE CancelScan
  <2>1. running # None /\ running.job # None => running.job \in 1..MaxScans
    BY DEF Running
  <2>2. QED
    BY <1>4, <2>1 DEF CancelScan, Call
<1>5. CASE StartUpdate BY <1>5 DEF StartUpdate, Click, Call
<1>6. CASE RunSchedule BY <1>6 DEF RunSchedule, Click, Call
<1>7. CASE Refresh BY <1>7 DEF Refresh, Click, Call
<1>8. CASE Close BY <1>8 DEF Close, KillStored
<1>9. CASE \E chosen \in SUBSET Path : StartScan(chosen)
  BY <1>9 DEF StartScan, Started, Click
<1>10. CASE \E k \in {"restore", "delete"}, i \in Item : Ask(k, i)
  BY <1>10 DEF Ask, Click
<1>11. CASE \E yes \in BOOLEAN : Decide(yes)
  <2>1. confirm # None => confirm.kind \in {"restore", "delete"} /\ confirm.item \in Item
    BY DEF Question
  <2>2. QED
    BY <1>11, <2>1 DEF Decide, Call
<1>12. CASE Handle
  <2>1. \/ UNCHANGED calls
        \/ /\ asked_for < MaxCalls
           /\ calls' = calls \cup
             {[id |-> asked_for + 1, kind |-> "list", item |-> None, reply |-> None]}
    BY <1>12 DEF Handle, OnService, OnScanEvent, OnScanDone, OnUpdateDone, OnList, OnDone
  <2>2. QED
    BY <2>1 DEF Call
<1>13. CASE SpawnChild BY <1>13 DEF SpawnChild, At, Goto, Finish, Send, Rest
<1>14. CASE StoreChild BY <1>14 DEF StoreChild, At, Goto, Rest
<1>15. CASE ReadProgress BY <1>15 DEF ReadProgress, At, Send, Rest
<1>16. CASE Reap BY <1>16 DEF Reap, At, Finish, Send, Rest
<1>17. CASE Submit BY <1>17 DEF Submit, At, Goto, Finish, Send, Rest
<1>18. CASE Poll BY <1>18 DEF Poll, At, Goto, Finish, Send, Rest
<1>19. CASE FetchReport BY <1>19 DEF FetchReport, At, Finish, Send, Rest
<1>20. CASE \E c \in calls : Perform(c)
  <2>1. PICK c \in calls : Perform(c)
    BY <1>20
  <2>2. PICK answer \in Answer : calls' = (calls \ {c}) \cup {[c EXCEPT !.reply = Reply(c, answer)]}
    BY <2>1 DEF Perform, Answer
  <2>3. c.kind # "cancel" /\ Reply(c, answer) \in CallEvent
    BY <2>1, ReplyType DEF Perform
  <2>4. [c EXCEPT !.reply = Reply(c, answer)] \in Call
    BY <2>3 DEF Call
  <2>5. QED
    BY <2>2, <2>4
<1>21. CASE \E c \in calls : Respond(c) BY <1>21 DEF Respond, Send
<1>22. CASE \E c \in calls : CancelJob(c) BY <1>22 DEF CancelJob
<1>23. CASE ChildEnds BY <1>23 DEF ChildEnds
<1>24. CASE \E n \in 1..MaxScans : JobEnds(n) BY <1>24 DEF JobEnds
<1>25. CASE UNCHANGED vars BY <1>25 DEF vars
<1>26. QED
  BY <1>1, <1>2, <1>3, <1>4, <1>5, <1>6, <1>7, <1>8, <1>9, <1>10, <1>11, <1>12,
     <1>13, <1>14, <1>15, <1>16, <1>17, <1>18, <1>19, <1>20, <1>21, <1>22, <1>23,
     <1>24, <1>25
  DEF Next, User, ScanThread, CallThread

\* The channel.
LEMMA EventsTypeStep ==
    ASSUME TypeOK, [Next]_vars
    PROVE  /\ events' \in Seq(CallEvent \cup ScanThreadEvent)
<1>t. /\ events \in Seq(CallEvent \cup ScanThreadEvent)
      /\ calls \in SUBSET Call
      /\ thread \in Thread
      /\ scans \in 0..MaxScans /\ asked_for \in 0..MaxCalls /\ progressed \in 0..MaxProgress
  BY DEF TypeOK
<1>s. thread.pc # "idle" => thread.scan \in 1..MaxScans /\ thread.paths \in SUBSET Path
  BY <1>t DEF Thread
<1> USE <1>t
    DEF form, shown, work, outside
<1>1. CASE \E p \in Page : OpenPage(p) BY <1>1 DEF OpenPage, Spawn, NoSpawn
<1>2. CASE CheckAgain BY <1>2 DEF CheckAgain, Click, Spawn
<1>3. CASE UseService BY <1>3 DEF UseService, Click
<1>4. CASE CancelScan BY <1>4 DEF CancelScan, Click, Spawn, NoSpawn, KillStored
<1>5. CASE StartUpdate BY <1>5 DEF StartUpdate, Click, Spawn
<1>6. CASE RunSchedule BY <1>6 DEF RunSchedule, Click, Spawn
<1>7. CASE Refresh BY <1>7 DEF Refresh, Click, Spawn
<1>8. CASE Close BY <1>8 DEF Close, KillStored
<1>9. CASE \E chosen \in SUBSET Path : StartScan(chosen)
  BY <1>9 DEF StartScan, Started, Click
<1>10. CASE \E k \in {"restore", "delete"}, i \in Item : Ask(k, i)
  BY <1>10 DEF Ask, Click
<1>11. CASE \E yes \in BOOLEAN : Decide(yes) BY <1>11 DEF Decide, Spawn, NoSpawn
<1>12. CASE Handle
  BY <1>12, TakeEvent DEF Handle, OnService, OnScanEvent, OnScanDone, OnUpdateDone,
     OnList, OnDone, Spawn, NoSpawn
<1>13. CASE SpawnChild
  <2>1. UNCHANGED events \/ \E e \in ScanThreadEvent : events' = Append(events, e)
    BY <1>13, <1>s
    DEF SpawnChild, At, Finish, Send, ScanEvent, Failed, ScanThreadEvent, Result
  <2>2. QED
    BY <2>1, SendEvent
<1>14. CASE StoreChild BY <1>14 DEF StoreChild, At, Goto, Rest
<1>15. CASE ReadProgress
  <2>1. UNCHANGED events \/ \E e \in ScanThreadEvent : events' = Append(events, e)
    BY <1>15, <1>s, DesktopConstants DEF ReadProgress, At, Send, ScanEvent, ScanThreadEvent
  <2>2. QED
    BY <2>1, SendEvent
<1>16. CASE Reap
  <2>1. UNCHANGED events \/ \E e \in ScanThreadEvent : events' = Append(events, e)
    BY <1>16, <1>s
    DEF Reap, At, Finish, Send, ScanEvent, Report, Failed, ScanThreadEvent, Result
  <2>2. QED
    BY <2>1, SendEvent
<1>17. CASE Submit
  <2>1. UNCHANGED events \/ \E e \in ScanThreadEvent : events' = Append(events, e)
    BY <1>17, <1>s DEF Submit, At, Finish, Send, ScanEvent, Failed, ScanThreadEvent, Result
  <2>2. QED
    BY <2>1, SendEvent
<1>18. CASE Poll
  <2>1. UNCHANGED events \/ \E e \in ScanThreadEvent : events' = Append(events, e)
    BY <1>18, <1>s DEF Poll, At, Finish, Send, ScanEvent, Failed, ScanThreadEvent, Result
  <2>2. QED
    BY <2>1, SendEvent
<1>19. CASE FetchReport
  <2>1. UNCHANGED events \/ \E e \in ScanThreadEvent : events' = Append(events, e)
    BY <1>19, <1>s
    DEF FetchReport, At, Finish, Send, ScanEvent, Report, Failed, ScanThreadEvent, Result
  <2>2. QED
    BY <2>1, SendEvent
<1>20. CASE \E c \in calls : Perform(c) BY <1>20 DEF Perform
<1>21. CASE \E c \in calls : Respond(c)
  <2>1. PICK c \in calls : Respond(c)
    BY <1>21
  <2>2. c.reply \in CallEvent /\ events' = Append(events, c.reply)
    BY <2>1 DEF Respond, Send, Call
  <2>3. QED
    BY <2>2, SendEvent
<1>22. CASE \E c \in calls : CancelJob(c) BY <1>22 DEF CancelJob
<1>23. CASE ChildEnds BY <1>23 DEF ChildEnds
<1>24. CASE \E n \in 1..MaxScans : JobEnds(n) BY <1>24 DEF JobEnds
<1>25. CASE UNCHANGED vars BY <1>25 DEF vars
<1>26. QED
  BY <1>1, <1>2, <1>3, <1>4, <1>5, <1>6, <1>7, <1>8, <1>9, <1>10, <1>11, <1>12,
     <1>13, <1>14, <1>15, <1>16, <1>17, <1>18, <1>19, <1>20, <1>21, <1>22, <1>23,
     <1>24, <1>25
  DEF Next, User, ScanThread, CallThread

----------------------------------------------------------------------------
(* What the window asked for.                                              *)

\* A request to restore or delete was confirmed, and acted on once.
LEMMA RequestsStep ==
    ASSUME TypeOK, RequestsAgree, [Next]_vars
    PROVE  RequestsAgree'
<1>t. /\ calls \in SUBSET Call
      /\ confirm \in Question \cup {None}
  BY DEF TypeOK
<1>r. /\ \A c \in calls : c.kind \in {"restore", "delete"} =>
           [kind |-> c.kind, item |-> c.item] \in asked
      /\ \A c \in calls : c.kind = "update" /\ c.reply # None => c.reply.type = "update_done"
      /\ \A x \in acted : x.item \notin held
  BY DEF RequestsAgree
<1> USE <1>t, <1>r
    DEF form, shown, work, outside, RequestsAgree, Spawn, NoSpawn
<1>1. CASE \E p \in Page : OpenPage(p) BY <1>1 DEF OpenPage
<1>2. CASE CheckAgain BY <1>2 DEF CheckAgain, Click
<1>3. CASE UseService BY <1>3 DEF UseService, Click
<1>4. CASE CancelScan BY <1>4 DEF CancelScan, Click, KillStored
<1>5. CASE StartUpdate BY <1>5 DEF StartUpdate, Click
<1>6. CASE RunSchedule BY <1>6 DEF RunSchedule, Click
<1>7. CASE Refresh BY <1>7 DEF Refresh, Click
<1>8. CASE Close BY <1>8 DEF Close, KillStored
<1>9. CASE \E chosen \in SUBSET Path : StartScan(chosen)
  BY <1>9 DEF StartScan, Started, Click
<1>10. CASE \E k \in {"restore", "delete"}, i \in Item : Ask(k, i)
  BY <1>10 DEF Ask, Click
<1>11. CASE \E yes \in BOOLEAN : Decide(yes)
  <2>1. confirm # None => confirm = [kind |-> confirm.kind, item |-> confirm.item]
    BY DEF Question
  <2>2. confirm # None => confirm.kind \in {"restore", "delete"}
    BY DEF Question
  <2>3. QED
    BY <1>11, <2>1, <2>2 DEF Decide
<1>12. CASE Handle
  <2>1. /\ \/ UNCHANGED calls
           \/ calls' = calls \cup
             {[id |-> asked_for + 1, kind |-> "list", item |-> None, reply |-> None]}
        /\ UNCHANGED <<asked, acted, held>>
    BY <1>12 DEF Handle, OnService, OnScanEvent, OnScanDone, OnUpdateDone, OnList, OnDone
  <2>2. QED
    BY <2>1
<1>13. CASE SpawnChild BY <1>13 DEF SpawnChild, At, Goto, Finish, Send, Rest
<1>14. CASE StoreChild BY <1>14 DEF StoreChild, At, Goto, Rest
<1>15. CASE ReadProgress BY <1>15 DEF ReadProgress, At, Send, Rest
<1>16. CASE Reap BY <1>16 DEF Reap, At, Finish, Send, Rest
<1>17. CASE Submit BY <1>17 DEF Submit, At, Goto, Finish, Send, Rest
<1>18. CASE Poll BY <1>18 DEF Poll, At, Goto, Finish, Send, Rest
<1>19. CASE FetchReport BY <1>19 DEF FetchReport, At, Finish, Send, Rest
<1>20. CASE \E c \in calls : Perform(c)
  <2>1. PICK c \in calls : Perform(c)
    BY <1>20
  <2>2. PICK answer \in Answer :
          /\ calls' = (calls \ {c}) \cup {[c EXCEPT !.reply = Reply(c, answer)]}
          /\ \/ UNCHANGED <<held, acted>>
             \/ /\ held' = held \ {c.item}
                /\ acted' = acted \cup {[kind |-> c.kind, item |-> c.item]}
    BY <2>1 DEF Perform, Answer
  <2>3. c.kind = "update" => Reply(c, answer).type = "update_done"
    BY <2>1, ReplyType DEF Perform
  <2>4. c \in Call
    OBVIOUS
  <2>5. /\ [c EXCEPT !.reply = Reply(c, answer)].kind = c.kind
        /\ [c EXCEPT !.reply = Reply(c, answer)].item = c.item
        /\ [c EXCEPT !.reply = Reply(c, answer)].reply = Reply(c, answer)
    BY <2>4 DEF Call
  <2>6. UNCHANGED asked
    BY <2>1 DEF Perform
  <2>7. \A x \in acted' : x.item \notin held'
    BY <2>2
  <2>8. \A d \in calls' : \/ d \in calls
                          \/ d.kind = c.kind /\ d.item = c.item /\ d.reply = Reply(c, answer)
    BY <2>2, <2>5
  <2>9. QED
    BY <2>3, <2>6, <2>7, <2>8
<1>21. CASE \E c \in calls : Respond(c) BY <1>21 DEF Respond, Send
<1>22. CASE \E c \in calls : CancelJob(c) BY <1>22 DEF CancelJob
<1>23. CASE ChildEnds BY <1>23 DEF ChildEnds
<1>24. CASE \E n \in 1..MaxScans : JobEnds(n) BY <1>24 DEF JobEnds
<1>25. CASE UNCHANGED vars BY <1>25 DEF vars
<1>26. QED
  BY <1>1, <1>2, <1>3, <1>4, <1>5, <1>6, <1>7, <1>8, <1>9, <1>10, <1>11, <1>12,
     <1>13, <1>14, <1>15, <1>16, <1>17, <1>18, <1>19, <1>20, <1>21, <1>22, <1>23,
     <1>24, <1>25
  DEF Next, User, ScanThread, CallThread

\* Only what was confirmed is done, and once.
LEMMA ConfirmedStep ==
    ASSUME TypeOK, RequestsAgree, OnlyWhatWasConfirmed, [Next]_vars
    PROVE  OnlyWhatWasConfirmed'
<1>t. /\ calls \in SUBSET Call
  BY DEF TypeOK
<1>r. /\ \A c \in calls : c.kind \in {"restore", "delete"} =>
           [kind |-> c.kind, item |-> c.item] \in asked
      /\ \A c \in calls : c.kind = "update" /\ c.reply # None => c.reply.type = "update_done"
      /\ \A x \in acted : x.item \notin held
  BY DEF RequestsAgree
<1> USE <1>r
    DEF form, shown, work, outside, OnlyWhatWasConfirmed
<1>1. CASE \E p \in Page : OpenPage(p) BY <1>1 DEF OpenPage, Spawn, NoSpawn
<1>2. CASE CheckAgain BY <1>2 DEF CheckAgain, Click, Spawn
<1>3. CASE UseService BY <1>3 DEF UseService, Click
<1>4. CASE CancelScan BY <1>4 DEF CancelScan, Click, Spawn, NoSpawn, KillStored
<1>5. CASE StartUpdate BY <1>5 DEF StartUpdate, Click, Spawn
<1>6. CASE RunSchedule BY <1>6 DEF RunSchedule, Click, Spawn
<1>7. CASE Refresh BY <1>7 DEF Refresh, Click, Spawn
<1>8. CASE Close BY <1>8 DEF Close, KillStored
<1>9. CASE \E chosen \in SUBSET Path : StartScan(chosen)
  BY <1>9 DEF StartScan, Started, Click
<1>10. CASE \E k \in {"restore", "delete"}, i \in Item : Ask(k, i)
  BY <1>10 DEF Ask, Click
<1>11. CASE \E yes \in BOOLEAN : Decide(yes) BY <1>11 DEF Decide, Spawn, NoSpawn
<1>12. CASE Handle
  BY <1>12 DEF Handle, OnService, OnScanEvent, OnScanDone, OnUpdateDone, OnList,
     OnDone, Spawn, NoSpawn
<1>13. CASE SpawnChild BY <1>13 DEF SpawnChild, At, Goto, Finish, Send, Rest
<1>14. CASE StoreChild BY <1>14 DEF StoreChild, At, Goto, Rest
<1>15. CASE ReadProgress BY <1>15 DEF ReadProgress, At, Send, Rest
<1>16. CASE Reap BY <1>16 DEF Reap, At, Finish, Send, Rest
<1>17. CASE Submit BY <1>17 DEF Submit, At, Goto, Finish, Send, Rest
<1>18. CASE Poll BY <1>18 DEF Poll, At, Goto, Finish, Send, Rest
<1>19. CASE FetchReport BY <1>19 DEF FetchReport, At, Finish, Send, Rest
<1>20. CASE \E c \in calls : Perform(c)
  <2>1. PICK c \in calls : Perform(c)
    BY <1>20
  <2>2. /\ UNCHANGED asked
        /\ \/ UNCHANGED acted
           \/ /\ c.kind \in {"restore", "delete"} /\ c.item \in held
              /\ acted' = acted \cup {[kind |-> c.kind, item |-> c.item]}
    BY <2>1 DEF Perform
  <2>3. QED
    BY <2>2
<1>21. CASE \E c \in calls : Respond(c) BY <1>21 DEF Respond, Send
<1>22. CASE \E c \in calls : CancelJob(c) BY <1>22 DEF CancelJob
<1>23. CASE ChildEnds BY <1>23 DEF ChildEnds
<1>24. CASE \E n \in 1..MaxScans : JobEnds(n) BY <1>24 DEF JobEnds
<1>25. CASE UNCHANGED vars BY <1>25 DEF vars
<1>26. QED
  BY <1>1, <1>2, <1>3, <1>4, <1>5, <1>6, <1>7, <1>8, <1>9, <1>10, <1>11, <1>12,
     <1>13, <1>14, <1>15, <1>16, <1>17, <1>18, <1>19, <1>20, <1>21, <1>22, <1>23,
     <1>24, <1>25
  DEF Next, User, ScanThread, CallThread

----------------------------------------------------------------------------
(* The channel.                                                            *)

\* The two parts of NeverStuckBusy.
ScanIsAlive ==
    window = "open" /\ running # None =>
        thread.pc # "idle" \/ \E i \in DOMAIN events : events[i].type = "scan_done"
UpdateIsAlive ==
    window = "open" /\ updating =>
        \/ \E c \in calls : c.kind = "update"
        \/ \E i \in DOMAIN events : events[i].type = "update_done"

\* While the window shows a scan, its thread or its result is there.
LEMMA ScanAliveStep ==
    ASSUME TypeOK, ScanIsAlive, [Next]_vars
    PROVE  ScanIsAlive'
<1>t. /\ events \in Seq(CallEvent \cup ScanThreadEvent)
      /\ thread \in Thread
      /\ calls \in SUBSET Call
  BY DEF TypeOK
<1>s. thread.pc # "idle" => thread.scan \in 1..MaxScans /\ thread.paths \in SUBSET Path
  BY <1>t DEF Thread
<1> USE <1>t
    DEF form, shown, work, outside, ScanIsAlive
<1>1. CASE \E p \in Page : OpenPage(p) BY <1>1 DEF OpenPage, Spawn, NoSpawn
<1>2. CASE CheckAgain BY <1>2 DEF CheckAgain, Click, Spawn
<1>3. CASE UseService BY <1>3 DEF UseService, Click
<1>4. CASE CancelScan BY <1>4 DEF CancelScan, Click, Spawn, NoSpawn, KillStored
<1>5. CASE StartUpdate BY <1>5 DEF StartUpdate, Click, Spawn
<1>6. CASE RunSchedule BY <1>6 DEF RunSchedule, Click, Spawn
<1>7. CASE Refresh BY <1>7 DEF Refresh, Click, Spawn
<1>8. CASE Close BY <1>8 DEF Close, KillStored
<1>9. CASE \E chosen \in SUBSET Path : StartScan(chosen)
  <2>1. thread'.pc # "idle"
    BY <1>9 DEF StartScan, Started
  <2>2. QED
    BY <2>1
<1>10. CASE \E k \in {"restore", "delete"}, i \in Item : Ask(k, i)
  BY <1>10 DEF Ask, Click
<1>11. CASE \E yes \in BOOLEAN : Decide(yes) BY <1>11 DEF Decide, Spawn, NoSpawn
<1>12. CASE Handle
  <2>1. /\ running' # None => running # None /\ Head(events).type # "scan_done"
        /\ UNCHANGED <<window, thread>> /\ events' = Tail(events) /\ events # <<>>
    BY <1>12 DEF Handle, OnService, OnScanEvent, OnScanDone, OnUpdateDone, OnList, OnDone
  <2>2. \A i \in DOMAIN events : events[i].type = "scan_done" /\ Head(events).type # "scan_done" =>
          i - 1 \in DOMAIN Tail(events) /\ Tail(events)[i - 1].type = "scan_done"
    BY <2>1, TakeEvent
  <2>3. QED
    BY <2>1, <2>2
<1>13. CASE SpawnChild
  <2>1. \/ thread'.pc # "idle"
        \/ \E e \in ScanThreadEvent : e.type = "scan_done" /\ events' = Append(events, e)
    BY <1>13, <1>s
    DEF SpawnChild, At, Goto, Finish, Send, ScanEvent, Failed, ScanThreadEvent, Result,
        Thread
  <2>2. QED
    BY <2>1, SendEvent
<1>14. CASE StoreChild BY <1>14 DEF StoreChild, At, Goto, Rest, Thread
<1>15. CASE ReadProgress
  <2>1. thread'.pc = "read"
    BY <1>15 DEF ReadProgress, At
  <2>2. QED
    BY <2>1
<1>16. CASE Reap
  <2>1. \/ thread'.pc # "idle"
        \/ \E e \in ScanThreadEvent : e.type = "scan_done" /\ events' = Append(events, e)
    BY <1>16, <1>s
    DEF Reap, At, Goto, Finish, Send, ScanEvent, Report, Failed, ScanThreadEvent, Result,
        Thread
  <2>2. QED
    BY <2>1, SendEvent
<1>17. CASE Submit
  <2>1. \/ thread'.pc # "idle"
        \/ \E e \in ScanThreadEvent : e.type = "scan_done" /\ events' = Append(events, e)
    BY <1>17, <1>s
    DEF Submit, At, Goto, Finish, Send, ScanEvent, Failed, ScanThreadEvent, Result, Thread
  <2>2. QED
    BY <2>1, SendEvent
<1>18. CASE Poll
  <2>1. \/ thread'.pc # "idle"
        \/ \E e \in ScanThreadEvent : e.type = "scan_done" /\ events' = Append(events, e)
    BY <1>18, <1>s
    DEF Poll, At, Goto, Finish, Send, ScanEvent, Failed, ScanThreadEvent, Result, Thread
  <2>2. QED
    BY <2>1, SendEvent
<1>19. CASE FetchReport
  <2>1. \/ thread'.pc # "idle"
        \/ \E e \in ScanThreadEvent : e.type = "scan_done" /\ events' = Append(events, e)
    BY <1>19, <1>s
    DEF FetchReport, At, Goto, Finish, Send, ScanEvent, Report, Failed, ScanThreadEvent,
        Result, Thread
  <2>2. QED
    BY <2>1, SendEvent
<1>20. CASE \E c \in calls : Perform(c) BY <1>20 DEF Perform
<1>21. CASE \E c \in calls : Respond(c)
  <2>1. PICK c \in calls : Respond(c)
    BY <1>21
  <2>2. /\ c.reply \in CallEvent /\ events' = Append(events, c.reply)
        /\ UNCHANGED <<window, running, thread>>
    BY <2>1 DEF Respond, Send, Call
  <2>3. QED
    BY <2>2, SendEvent
<1>22. CASE \E c \in calls : CancelJob(c) BY <1>22 DEF CancelJob
<1>23. CASE ChildEnds BY <1>23 DEF ChildEnds
<1>24. CASE \E n \in 1..MaxScans : JobEnds(n) BY <1>24 DEF JobEnds
<1>25. CASE UNCHANGED vars BY <1>25 DEF vars
<1>26. QED
  BY <1>1, <1>2, <1>3, <1>4, <1>5, <1>6, <1>7, <1>8, <1>9, <1>10, <1>11, <1>12,
     <1>13, <1>14, <1>15, <1>16, <1>17, <1>18, <1>19, <1>20, <1>21, <1>22, <1>23,
     <1>24, <1>25
  DEF Next, User, ScanThread, CallThread

\* While the window shows an update, its thread or its result is there.
LEMMA UpdateAliveStep ==
    ASSUME TypeOK, RequestsAgree, UpdateIsAlive, [Next]_vars
    PROVE  UpdateIsAlive'
<1>t. /\ events \in Seq(CallEvent \cup ScanThreadEvent)
      /\ calls \in SUBSET Call
      /\ thread \in Thread
      /\ scans \in 0..MaxScans /\ asked_for \in 0..MaxCalls /\ progressed \in 0..MaxProgress
  BY DEF TypeOK
<1>s. thread.pc # "idle" => thread.scan \in 1..MaxScans /\ thread.paths \in SUBSET Path
  BY <1>t DEF Thread
<1>r. /\ \A c \in calls : c.kind \in {"restore", "delete"} =>
           [kind |-> c.kind, item |-> c.item] \in asked
      /\ \A c \in calls : c.kind = "update" /\ c.reply # None => c.reply.type = "update_done"
      /\ \A x \in acted : x.item \notin held
  BY DEF RequestsAgree
<1> USE <1>t
    DEF form, shown, work, outside, UpdateIsAlive, Spawn, NoSpawn
<1>1. CASE \E p \in Page : OpenPage(p) BY <1>1 DEF OpenPage
<1>2. CASE CheckAgain BY <1>2 DEF CheckAgain, Click
<1>3. CASE UseService BY <1>3 DEF UseService, Click
<1>4. CASE CancelScan BY <1>4 DEF CancelScan, Click, KillStored
<1>5. CASE StartUpdate
  <2>1. [id |-> asked_for + 1, kind |-> "update", item |-> None, reply |-> None] \in calls'
    BY <1>5 DEF StartUpdate
  <2>2. \E c \in calls' : c.kind = "update"
    BY <2>1
  <2>3. QED
    BY <2>2
<1>6. CASE RunSchedule BY <1>6 DEF RunSchedule, Click
<1>7. CASE Refresh BY <1>7 DEF Refresh, Click
<1>8. CASE Close BY <1>8 DEF Close, KillStored
<1>9. CASE \E chosen \in SUBSET Path : StartScan(chosen)
  BY <1>9 DEF StartScan, Started, Click
<1>10. CASE \E k \in {"restore", "delete"}, i \in Item : Ask(k, i)
  BY <1>10 DEF Ask, Click
<1>11. CASE \E yes \in BOOLEAN : Decide(yes) BY <1>11 DEF Decide
<1>12. CASE Handle
  <2>1. /\ updating' => updating /\ Head(events).type # "update_done"
        /\ UNCHANGED window /\ calls \subseteq calls' /\ events' = Tail(events) /\ events # <<>>
    BY <1>12 DEF Handle, OnService, OnScanEvent, OnScanDone, OnUpdateDone, OnList, OnDone
  <2>2. \A i \in DOMAIN events : events[i].type = "update_done" /\ Head(events).type # "update_done" =>
          i - 1 \in DOMAIN Tail(events) /\ Tail(events)[i - 1].type = "update_done"
    BY <2>1, TakeEvent
  <2>3. QED
    BY <2>1, <2>2
<1>13. CASE SpawnChild
  <2>1. /\ UNCHANGED events \/ \E e \in ScanThreadEvent : events' = Append(events, e)
        /\ UNCHANGED <<window, updating, calls>>
    BY <1>13, <1>s, DesktopConstants
    DEF SpawnChild, At, Goto, Finish, Send, Rest, ScanEvent, Report, Failed,
        ScanThreadEvent, Result
  <2>2. QED
    BY <2>1, SendEvent
<1>14. CASE StoreChild BY <1>14 DEF StoreChild, At, Goto, Rest
<1>15. CASE ReadProgress
  <2>1. /\ UNCHANGED events \/ \E e \in ScanThreadEvent : events' = Append(events, e)
        /\ UNCHANGED <<window, updating, calls>>
    BY <1>15, <1>s, DesktopConstants
    DEF ReadProgress, At, Goto, Finish, Send, Rest, ScanEvent, Report, Failed,
        ScanThreadEvent, Result
  <2>2. QED
    BY <2>1, SendEvent
<1>16. CASE Reap
  <2>1. /\ UNCHANGED events \/ \E e \in ScanThreadEvent : events' = Append(events, e)
        /\ UNCHANGED <<window, updating, calls>>
    BY <1>16, <1>s, DesktopConstants
    DEF Reap, At, Goto, Finish, Send, Rest, ScanEvent, Report, Failed, ScanThreadEvent,
        Result
  <2>2. QED
    BY <2>1, SendEvent
<1>17. CASE Submit
  <2>1. /\ UNCHANGED events \/ \E e \in ScanThreadEvent : events' = Append(events, e)
        /\ UNCHANGED <<window, updating, calls>>
    BY <1>17, <1>s, DesktopConstants
    DEF Submit, At, Goto, Finish, Send, Rest, ScanEvent, Report, Failed, ScanThreadEvent,
        Result
  <2>2. QED
    BY <2>1, SendEvent
<1>18. CASE Poll
  <2>1. /\ UNCHANGED events \/ \E e \in ScanThreadEvent : events' = Append(events, e)
        /\ UNCHANGED <<window, updating, calls>>
    BY <1>18, <1>s, DesktopConstants
    DEF Poll, At, Goto, Finish, Send, Rest, ScanEvent, Report, Failed, ScanThreadEvent,
        Result
  <2>2. QED
    BY <2>1, SendEvent
<1>19. CASE FetchReport
  <2>1. /\ UNCHANGED events \/ \E e \in ScanThreadEvent : events' = Append(events, e)
        /\ UNCHANGED <<window, updating, calls>>
    BY <1>19, <1>s, DesktopConstants
    DEF FetchReport, At, Goto, Finish, Send, Rest, ScanEvent, Report, Failed,
        ScanThreadEvent, Result
  <2>2. QED
    BY <2>1, SendEvent
<1>20. CASE \E c \in calls : Perform(c)
  <2>1. PICK c \in calls : Perform(c)
    BY <1>20
  <2>2. PICK answer : calls' = (calls \ {c}) \cup {[c EXCEPT !.reply = Reply(c, answer)]}
    BY <2>1 DEF Perform
  <2>3. [c EXCEPT !.reply = Reply(c, answer)].kind = c.kind
    BY DEF Call
  <2>4. UNCHANGED <<window, updating, events>>
    BY <2>1 DEF Perform
  <2>5. QED
    BY <2>2, <2>3, <2>4
<1>21. CASE \E c \in calls : Respond(c)
  <2>1. PICK c \in calls : Respond(c)
    BY <1>21
  <2>2. /\ c.reply \in CallEvent /\ events' = Append(events, c.reply)
        /\ UNCHANGED <<window, updating>> /\ calls' = calls \ {c}
        /\ c.kind = "update" => c.reply.type = "update_done"
    BY <2>1, <1>r DEF Respond, Send, Call
  <2>3. QED
    BY <2>2, SendEvent
<1>22. CASE \E c \in calls : CancelJob(c) BY <1>22 DEF CancelJob
<1>23. CASE ChildEnds BY <1>23 DEF ChildEnds
<1>24. CASE \E n \in 1..MaxScans : JobEnds(n) BY <1>24 DEF JobEnds
<1>25. CASE UNCHANGED vars BY <1>25 DEF vars
<1>26. QED
  BY <1>1, <1>2, <1>3, <1>4, <1>5, <1>6, <1>7, <1>8, <1>9, <1>10, <1>11, <1>12,
     <1>13, <1>14, <1>15, <1>16, <1>17, <1>18, <1>19, <1>20, <1>21, <1>22, <1>23,
     <1>24, <1>25
  DEF Next, User, ScanThread, CallThread

\* The parts of EventsAreOfTheScanShown: whose events are in the channel,
\* whose the thread and the child in the handle are, and what comes last.
OwnEvents ==
    window = "open" => \A i \in DOMAIN events : events[i].scan # 0 =>
        running # None /\ events[i].scan = running.scan
OwnThread ==
    window = "open" =>
        /\ thread.pc # "idle" => running # None /\ thread.scan = running.scan
        /\ handle => thread.pc = "read"
ResultLast ==
    window = "open" => \A i, j \in DOMAIN events :
        events[i].scan # 0 /\ events[j].scan # 0 /\ events[i].type = "scan_done" =>
            j <= i /\ thread.pc = "idle"

\* Together they are the property.
LEMMA EventParts == EventsAreOfTheScanShown <=> OwnEvents /\ OwnThread /\ ResultLast
BY DEF EventsAreOfTheScanShown, OwnEvents, OwnThread, ResultLast

\* An event other than the result keeps the running scan.
LEMMA RunningKept ==
    ASSUME TypeOK, Handle, Head(events).type # "scan_done", running # None
    PROVE  running' # None /\ running'.scan = running.scan
<1>1. running \in Running /\ Head(events) \in CallEvent \cup ScanThreadEvent
  BY TakeEvent DEF TypeOK, Handle
<1>2. \/ UNCHANGED running
      \/ Head(events).type = "progress" /\ running' = [running EXCEPT !.progress = Head(events).value]
      \/ Head(events).type = "job" /\ running' = [running EXCEPT !.job = Head(events).value]
  BY DEF Handle, OnService, OnScanEvent, OnScanDone, OnUpdateDone, OnList, OnDone, shown
<1>3. /\ Head(events).type = "progress" => Head(events).value \in 0..MaxProgress
      /\ Head(events).type = "job" => Head(events).value \in 1..MaxScans
  BY <1>1 DEF CallEvent, ScanThreadEvent
<1>4. running' \in Running /\ running'.scan = running.scan
  BY <1>1, <1>2, <1>3 DEF Running
<1>5. QED
  BY <1>4, NoneAssumption

\* The events in the channel are the running scan's.
LEMMA OwnEventsStep ==
    ASSUME TypeOK, OwnEvents, OwnThread, ResultLast, [Next]_vars
    PROVE  OwnEvents'
<1>t. /\ events \in Seq(CallEvent \cup ScanThreadEvent)
      /\ thread \in Thread
      /\ calls \in SUBSET Call
      /\ scans \in 0..MaxScans /\ asked_for \in 0..MaxCalls /\ progressed \in 0..MaxProgress
      /\ running \in Running \cup {None}
  BY DEF TypeOK
<1>s. thread.pc # "idle" => thread.scan \in 1..MaxScans /\ thread.paths \in SUBSET Path
  BY <1>t DEF Thread
<1>h. events # <<>> =>
        /\ Head(events) = events[1] /\ 1 \in DOMAIN events
        /\ Head(events).type \in {"progress", "job", "scan_done"} => Head(events).scan # 0
        /\ \A i \in DOMAIN Tail(events) :
             i \in Nat /\ i + 1 \in DOMAIN events /\ Tail(events)[i] = events[i + 1]
  <2>1. events # <<>> => Head(events) \in CallEvent \cup ScanThreadEvent
    BY <1>t, TakeEvent
  <2>2. events # <<>> /\ Head(events).type \in {"progress", "job", "scan_done"} =>
          Head(events).scan # 0
    BY <2>1 DEF CallEvent, ScanThreadEvent
  <2>3. QED
    BY <1>t, <2>2, TakeEvent
<1> USE <1>t
    DEF form, shown, work, outside, OwnEvents
<1>1. CASE \E p \in Page : OpenPage(p) BY <1>1 DEF OpenPage, Spawn, NoSpawn
<1>2. CASE CheckAgain BY <1>2 DEF CheckAgain, Click, Spawn
<1>3. CASE UseService BY <1>3 DEF UseService, Click
<1>4. CASE CancelScan BY <1>4 DEF CancelScan, Click, Spawn, NoSpawn, KillStored
<1>5. CASE StartUpdate BY <1>5 DEF StartUpdate, Click, Spawn
<1>6. CASE RunSchedule BY <1>6 DEF RunSchedule, Click, Spawn
<1>7. CASE Refresh BY <1>7 DEF Refresh, Click, Spawn
<1>8. CASE Close BY <1>8 DEF Close, KillStored
<1>9. CASE \E chosen \in SUBSET Path : StartScan(chosen)
  <2>1. running = None /\ UNCHANGED <<events, window>>
    BY <1>9 DEF StartScan, Started
  <2>2. QED
    BY <2>1
<1>10. CASE \E k \in {"restore", "delete"}, i \in Item : Ask(k, i)
  BY <1>10 DEF Ask, Click
<1>11. CASE \E yes \in BOOLEAN : Decide(yes) BY <1>11 DEF Decide, Spawn, NoSpawn
<1>12. CASE Handle
  <2>1. events # <<>> /\ events' = Tail(events) /\ UNCHANGED window /\ window = "open"
    BY <1>12 DEF Handle
  <2>2. CASE Head(events).type = "scan_done"
    <3>1. \A i \in DOMAIN events : events[i].scan # 0 => i <= 1
      BY <1>h, <2>1, <2>2 DEF ResultLast
    <3>2. \A i \in DOMAIN Tail(events) : i \in Nat \ {0}
      BY <1>t, <2>1, TakeEvent
    <3>3. \A i \in DOMAIN Tail(events) : Tail(events)[i].scan = 0
      BY <1>h, <2>1, <3>1, <3>2
    <3>4. QED
      BY <2>1, <3>3
  <2>3. CASE Head(events).type # "scan_done"
    <3>1. running # None => running' # None /\ running'.scan = running.scan
      BY <1>12, <2>3, RunningKept
    <3>2. QED
      BY <1>h, <2>1, <3>1
  <2>4. QED
    BY <2>2, <2>3
<1>13. CASE SpawnChild
  <2>1. /\ UNCHANGED <<window, running>> /\ thread.pc # "idle"
        /\ \/ UNCHANGED events
           \/ \E e \in ScanThreadEvent : e.scan = thread.scan /\ events' = Append(events, e)
    BY <1>13, <1>s, DesktopConstants
    DEF SpawnChild, At, Goto, Finish, Send, Rest, ScanEvent, Report, Failed,
        ScanThreadEvent, Result
  <2>2. QED
    BY <2>1, SendEvent DEF OwnEvents, OwnThread
<1>14. CASE StoreChild BY <1>14 DEF StoreChild, At, Goto, Rest
<1>15. CASE ReadProgress
  <2>1. /\ UNCHANGED <<window, running>> /\ thread.pc # "idle"
        /\ \/ UNCHANGED events
           \/ \E e \in ScanThreadEvent : e.scan = thread.scan /\ events' = Append(events, e)
    BY <1>15, <1>s, DesktopConstants
    DEF ReadProgress, At, Goto, Finish, Send, Rest, ScanEvent, Report, Failed,
        ScanThreadEvent, Result
  <2>2. QED
    BY <2>1, SendEvent DEF OwnEvents, OwnThread
<1>16. CASE Reap
  <2>1. /\ UNCHANGED <<window, running>> /\ thread.pc # "idle"
        /\ \/ UNCHANGED events
           \/ \E e \in ScanThreadEvent : e.scan = thread.scan /\ events' = Append(events, e)
    BY <1>16, <1>s, DesktopConstants
    DEF Reap, At, Goto, Finish, Send, Rest, ScanEvent, Report, Failed, ScanThreadEvent,
        Result
  <2>2. QED
    BY <2>1, SendEvent DEF OwnEvents, OwnThread
<1>17. CASE Submit
  <2>1. /\ UNCHANGED <<window, running>> /\ thread.pc # "idle"
        /\ \/ UNCHANGED events
           \/ \E e \in ScanThreadEvent : e.scan = thread.scan /\ events' = Append(events, e)
    BY <1>17, <1>s, DesktopConstants
    DEF Submit, At, Goto, Finish, Send, Rest, ScanEvent, Report, Failed, ScanThreadEvent,
        Result
  <2>2. QED
    BY <2>1, SendEvent DEF OwnEvents, OwnThread
<1>18. CASE Poll
  <2>1. /\ UNCHANGED <<window, running>> /\ thread.pc # "idle"
        /\ \/ UNCHANGED events
           \/ \E e \in ScanThreadEvent : e.scan = thread.scan /\ events' = Append(events, e)
    BY <1>18, <1>s, DesktopConstants
    DEF Poll, At, Goto, Finish, Send, Rest, ScanEvent, Report, Failed, ScanThreadEvent,
        Result
  <2>2. QED
    BY <2>1, SendEvent DEF OwnEvents, OwnThread
<1>19. CASE FetchReport
  <2>1. /\ UNCHANGED <<window, running>> /\ thread.pc # "idle"
        /\ \/ UNCHANGED events
           \/ \E e \in ScanThreadEvent : e.scan = thread.scan /\ events' = Append(events, e)
    BY <1>19, <1>s, DesktopConstants
    DEF FetchReport, At, Goto, Finish, Send, Rest, ScanEvent, Report, Failed,
        ScanThreadEvent, Result
  <2>2. QED
    BY <2>1, SendEvent DEF OwnEvents, OwnThread
<1>20. CASE \E c \in calls : Perform(c) BY <1>20 DEF Perform
<1>21. CASE \E c \in calls : Respond(c)
  <2>1. PICK c \in calls : Respond(c)
    BY <1>21
  <2>2. /\ c.reply \in CallEvent /\ events' = Append(events, c.reply)
        /\ UNCHANGED <<window, running, thread>>
    BY <2>1 DEF Respond, Send, Call
  <2>3. c.reply.scan = 0
    BY <2>2 DEF CallEvent
  <2>4. QED
    BY <2>2, <2>3, SendEvent DEF OwnEvents
<1>22. CASE \E c \in calls : CancelJob(c) BY <1>22 DEF CancelJob
<1>23. CASE ChildEnds BY <1>23 DEF ChildEnds
<1>24. CASE \E n \in 1..MaxScans : JobEnds(n) BY <1>24 DEF JobEnds
<1>25. CASE UNCHANGED vars BY <1>25 DEF vars
<1>26. QED
  BY <1>1, <1>2, <1>3, <1>4, <1>5, <1>6, <1>7, <1>8, <1>9, <1>10, <1>11, <1>12,
     <1>13, <1>14, <1>15, <1>16, <1>17, <1>18, <1>19, <1>20, <1>21, <1>22, <1>23,
     <1>24, <1>25
  DEF Next, User, ScanThread, CallThread

\* The thread is the running scan's, and so is the child in the handle.
LEMMA OwnThreadStep ==
    ASSUME TypeOK, OwnEvents, OwnThread, ResultLast, [Next]_vars
    PROVE  OwnThread'
<1>t. /\ thread \in Thread
      /\ running \in Running \cup {None}
      /\ scans \in 0..MaxScans /\ asked_for \in 0..MaxCalls /\ progressed \in 0..MaxProgress
  BY DEF TypeOK
<1>h. events # <<>> =>
        /\ Head(events) = events[1] /\ 1 \in DOMAIN events
        /\ Head(events).type \in {"progress", "job", "scan_done"} => Head(events).scan # 0
        /\ \A i \in DOMAIN Tail(events) :
             i \in Nat /\ i + 1 \in DOMAIN events /\ Tail(events)[i] = events[i + 1]
  <2>1. events # <<>> => Head(events) \in CallEvent \cup ScanThreadEvent
    BY TakeEvent DEF TypeOK
  <2>2. events # <<>> /\ Head(events).type \in {"progress", "job", "scan_done"} =>
          Head(events).scan # 0
    BY <2>1 DEF CallEvent, ScanThreadEvent
  <2>3. QED
    <3>1. events \in Seq(CallEvent \cup ScanThreadEvent)
      BY DEF TypeOK
    <3>2. QED
      BY <2>2, <3>1, TakeEvent
<1> USE <1>t
    DEF form, shown, work, outside, OwnThread
<1>1. CASE \E p \in Page : OpenPage(p) BY <1>1 DEF OpenPage, Spawn, NoSpawn
<1>2. CASE CheckAgain BY <1>2 DEF CheckAgain, Click, Spawn
<1>3. CASE UseService BY <1>3 DEF UseService, Click
<1>4. CASE CancelScan BY <1>4 DEF CancelScan, Click, Spawn, NoSpawn, KillStored
<1>5. CASE StartUpdate BY <1>5 DEF StartUpdate, Click, Spawn
<1>6. CASE RunSchedule BY <1>6 DEF RunSchedule, Click, Spawn
<1>7. CASE Refresh BY <1>7 DEF Refresh, Click, Spawn
<1>8. CASE Close BY <1>8 DEF Close, KillStored
<1>9. CASE \E chosen \in SUBSET Path : StartScan(chosen)
  <2>1. /\ running' = [scan |-> scans + 1, progress |-> 0, job |-> None]
        /\ scans + 1 \in 1..MaxScans /\ thread'.scan = scans + 1 /\ handle' = FALSE
    BY <1>9, DesktopConstants DEF StartScan, Started
  <2>2. running' \in Running /\ running'.scan = scans + 1
    BY <2>1, DesktopConstants DEF Running
  <2>3. QED
    BY <2>1, <2>2, NoneAssumption
<1>10. CASE \E k \in {"restore", "delete"}, i \in Item : Ask(k, i)
  BY <1>10 DEF Ask, Click
<1>11. CASE \E yes \in BOOLEAN : Decide(yes) BY <1>11 DEF Decide, Spawn, NoSpawn
<1>12. CASE Handle
  <2>1. events # <<>> /\ UNCHANGED <<thread, handle, window>> /\ window = "open"
    BY <1>12 DEF Handle
  <2>2. CASE Head(events).type = "scan_done"
    <3>1. thread.pc = "idle"
      BY <1>h, <2>1, <2>2 DEF ResultLast
    <3>2. QED
      BY <2>1, <3>1
  <2>3. CASE Head(events).type # "scan_done"
    <3>1. running # None => running' # None /\ running'.scan = running.scan
      BY <1>12, <2>3, RunningKept
    <3>2. QED
      BY <2>1, <3>1
  <2>4. QED
    BY <2>2, <2>3
<1>13. CASE SpawnChild
  BY <1>13 DEF SpawnChild, At, Goto, Finish, Send, Rest, NoThread, Thread
<1>14. CASE StoreChild BY <1>14 DEF StoreChild, At, Goto, Rest, Thread
<1>15. CASE ReadProgress BY <1>15 DEF ReadProgress, At, Send, Rest
<1>16. CASE Reap BY <1>16 DEF Reap, At, Finish, Send, Rest, NoThread
<1>17. CASE Submit
  BY <1>17 DEF Submit, At, Goto, Finish, Send, Rest, NoThread, Thread
<1>18. CASE Poll BY <1>18 DEF Poll, At, Goto, Finish, Send, Rest, NoThread, Thread
<1>19. CASE FetchReport BY <1>19 DEF FetchReport, At, Finish, Send, Rest, NoThread
<1>20. CASE \E c \in calls : Perform(c) BY <1>20 DEF Perform
<1>21. CASE \E c \in calls : Respond(c) BY <1>21 DEF Respond, Send
<1>22. CASE \E c \in calls : CancelJob(c) BY <1>22 DEF CancelJob
<1>23. CASE ChildEnds BY <1>23 DEF ChildEnds
<1>24. CASE \E n \in 1..MaxScans : JobEnds(n) BY <1>24 DEF JobEnds
<1>25. CASE UNCHANGED vars BY <1>25 DEF vars
<1>26. QED
  BY <1>1, <1>2, <1>3, <1>4, <1>5, <1>6, <1>7, <1>8, <1>9, <1>10, <1>11, <1>12,
     <1>13, <1>14, <1>15, <1>16, <1>17, <1>18, <1>19, <1>20, <1>21, <1>22, <1>23,
     <1>24, <1>25
  DEF Next, User, ScanThread, CallThread

\* A scan's own event appended to a channel that holds no result of a scan.
LEMMA AppendedLast ==
    ASSUME events \in Seq(CallEvent \cup ScanThreadEvent), NEW e \in ScanThreadEvent,
           events' = Append(events, e), UNCHANGED window,
           e.type = "scan_done" => thread'.pc = "idle",
           window = "open" => \A i \in DOMAIN events :
               events[i].scan # 0 => events[i].type # "scan_done"
    PROVE  ResultLast'
<1> DEFINE n == Len(events)
<1>1. /\ n \in Nat /\ DOMAIN events = 1..n /\ DOMAIN events' = 1..(n + 1)
      /\ \A i \in 1..n : events'[i] = events[i]
      /\ events'[n + 1] = e
  BY SendEvent
<1>2. SUFFICES ASSUME window = "open", NEW i \in 1..(n + 1), NEW j \in 1..(n + 1),
                      events'[i].scan # 0, events'[i].type = "scan_done"
               PROVE  j <= i /\ thread'.pc = "idle"
  BY <1>1 DEF ResultLast
<1>3. CASE i = n + 1 BY <1>1, <1>2, <1>3
<1>4. CASE i # n + 1
  <2>1. i \in 1..n /\ events[i].scan # 0 /\ events[i].type = "scan_done"
    BY <1>1, <1>2, <1>4
  <2>2. QED BY <1>1, <1>2, <2>1
<1>5. QED BY <1>3, <1>4

\* The result of a scan comes last.
LEMMA ResultLastStep ==
    ASSUME TypeOK, OwnEvents, OwnThread, ResultLast, [Next]_vars
    PROVE  ResultLast'
<1>t. /\ events \in Seq(CallEvent \cup ScanThreadEvent)
      /\ thread \in Thread
      /\ calls \in SUBSET Call
      /\ scans \in 0..MaxScans /\ asked_for \in 0..MaxCalls /\ progressed \in 0..MaxProgress
  BY DEF TypeOK
<1>s. thread.pc # "idle" => thread.scan \in 1..MaxScans /\ thread.paths \in SUBSET Path
  BY <1>t DEF Thread
<1>h. events # <<>> =>
        /\ Head(events) = events[1] /\ 1 \in DOMAIN events
        /\ Head(events).type \in {"progress", "job", "scan_done"} => Head(events).scan # 0
        /\ \A i \in DOMAIN Tail(events) :
             i \in Nat /\ i + 1 \in DOMAIN events /\ Tail(events)[i] = events[i + 1]
  <2>1. events # <<>> => Head(events) \in CallEvent \cup ScanThreadEvent
    BY <1>t, TakeEvent
  <2>2. events # <<>> /\ Head(events).type \in {"progress", "job", "scan_done"} =>
          Head(events).scan # 0
    BY <2>1 DEF CallEvent, ScanThreadEvent
  <2>3. QED
    BY <1>t, <2>2, TakeEvent
<1> USE <1>t
    DEF form, shown, work, outside, ResultLast
<1>1. CASE \E p \in Page : OpenPage(p) BY <1>1 DEF OpenPage, Spawn, NoSpawn
<1>2. CASE CheckAgain BY <1>2 DEF CheckAgain, Click, Spawn
<1>3. CASE UseService BY <1>3 DEF UseService, Click
<1>4. CASE CancelScan BY <1>4 DEF CancelScan, Click, Spawn, NoSpawn, KillStored
<1>5. CASE StartUpdate BY <1>5 DEF StartUpdate, Click, Spawn
<1>6. CASE RunSchedule BY <1>6 DEF RunSchedule, Click, Spawn
<1>7. CASE Refresh BY <1>7 DEF Refresh, Click, Spawn
<1>8. CASE Close BY <1>8 DEF Close, KillStored
<1>9. CASE \E chosen \in SUBSET Path : StartScan(chosen)
  <2>1. running = None /\ UNCHANGED <<events, window>>
    BY <1>9 DEF StartScan, Started
  <2>2. window = "open" => \A i \in DOMAIN events : events[i].scan = 0
    BY <2>1 DEF OwnEvents
  <2>3. QED
    BY <2>1, <2>2
<1>10. CASE \E k \in {"restore", "delete"}, i \in Item : Ask(k, i)
  BY <1>10 DEF Ask, Click
<1>11. CASE \E yes \in BOOLEAN : Decide(yes) BY <1>11 DEF Decide, Spawn, NoSpawn
<1>12. CASE Handle
  <2>1. events # <<>> /\ events' = Tail(events) /\ UNCHANGED <<window, thread>>
    BY <1>12 DEF Handle
  <2>2. QED
    BY <1>h, <2>1
<1>13. CASE SpawnChild
  <2>1. /\ UNCHANGED <<window, running>> /\ thread.pc # "idle"
        /\ \/ UNCHANGED events
           \/ \E e \in ScanThreadEvent :
                /\ e.type = "scan_done" => thread'.pc = "idle"
                /\ events' = Append(events, e)
    BY <1>13, <1>s, DesktopConstants
    DEF SpawnChild, NoThread, At, Goto, Finish, Send, Rest, ScanEvent, Report, Failed,
        ScanThreadEvent, Result
  <2>2. window = "open" => \A i \in DOMAIN events :
          events[i].scan # 0 => events[i].type # "scan_done"
    BY <2>1 DEF ResultLast
  <2>3. QED
    BY <2>1, <2>2, AppendedLast DEF ResultLast
<1>14. CASE StoreChild
  <2>1. thread.pc # "idle" /\ UNCHANGED <<events, window>>
    BY <1>14 DEF StoreChild, At, Rest
  <2>2. QED
    BY <2>1
<1>15. CASE ReadProgress
  <2>1. /\ UNCHANGED <<window, running>> /\ thread.pc # "idle"
        /\ \/ UNCHANGED events
           \/ \E e \in ScanThreadEvent :
                /\ e.type = "scan_done" => thread'.pc = "idle"
                /\ events' = Append(events, e)
    BY <1>15, <1>s, DesktopConstants
    DEF ReadProgress, NoThread, At, Goto, Finish, Send, Rest, ScanEvent, Report, Failed,
        ScanThreadEvent, Result
  <2>2. window = "open" => \A i \in DOMAIN events :
          events[i].scan # 0 => events[i].type # "scan_done"
    BY <2>1 DEF ResultLast
  <2>3. QED
    BY <2>1, <2>2, AppendedLast DEF ResultLast
<1>16. CASE Reap
  <2>1. /\ UNCHANGED <<window, running>> /\ thread.pc # "idle"
        /\ \/ UNCHANGED events
           \/ \E e \in ScanThreadEvent :
                /\ e.type = "scan_done" => thread'.pc = "idle"
                /\ events' = Append(events, e)
    BY <1>16, <1>s, DesktopConstants
    DEF Reap, NoThread, At, Goto, Finish, Send, Rest, ScanEvent, Report, Failed,
        ScanThreadEvent, Result
  <2>2. window = "open" => \A i \in DOMAIN events :
          events[i].scan # 0 => events[i].type # "scan_done"
    BY <2>1 DEF ResultLast
  <2>3. QED
    BY <2>1, <2>2, AppendedLast DEF ResultLast
<1>17. CASE Submit
  <2>1. /\ UNCHANGED <<window, running>> /\ thread.pc # "idle"
        /\ \/ UNCHANGED events
           \/ \E e \in ScanThreadEvent :
                /\ e.type = "scan_done" => thread'.pc = "idle"
                /\ events' = Append(events, e)
    BY <1>17, <1>s, DesktopConstants
    DEF Submit, NoThread, At, Goto, Finish, Send, Rest, ScanEvent, Report, Failed,
        ScanThreadEvent, Result
  <2>2. window = "open" => \A i \in DOMAIN events :
          events[i].scan # 0 => events[i].type # "scan_done"
    BY <2>1 DEF ResultLast
  <2>3. QED
    BY <2>1, <2>2, AppendedLast DEF ResultLast
<1>18. CASE Poll
  <2>1. /\ UNCHANGED <<window, running>> /\ thread.pc # "idle"
        /\ \/ UNCHANGED events
           \/ \E e \in ScanThreadEvent :
                /\ e.type = "scan_done" => thread'.pc = "idle"
                /\ events' = Append(events, e)
    BY <1>18, <1>s, DesktopConstants
    DEF Poll, NoThread, At, Goto, Finish, Send, Rest, ScanEvent, Report, Failed,
        ScanThreadEvent, Result
  <2>2. window = "open" => \A i \in DOMAIN events :
          events[i].scan # 0 => events[i].type # "scan_done"
    BY <2>1 DEF ResultLast
  <2>3. QED
    BY <2>1, <2>2, AppendedLast DEF ResultLast
<1>19. CASE FetchReport
  <2>1. /\ UNCHANGED <<window, running>> /\ thread.pc # "idle"
        /\ \/ UNCHANGED events
           \/ \E e \in ScanThreadEvent :
                /\ e.type = "scan_done" => thread'.pc = "idle"
                /\ events' = Append(events, e)
    BY <1>19, <1>s, DesktopConstants
    DEF FetchReport, NoThread, At, Goto, Finish, Send, Rest, ScanEvent, Report, Failed,
        ScanThreadEvent, Result
  <2>2. window = "open" => \A i \in DOMAIN events :
          events[i].scan # 0 => events[i].type # "scan_done"
    BY <2>1 DEF ResultLast
  <2>3. QED
    BY <2>1, <2>2, AppendedLast DEF ResultLast
<1>20. CASE \E c \in calls : Perform(c) BY <1>20 DEF Perform
<1>21. CASE \E c \in calls : Respond(c)
  <2>1. PICK c \in calls : Respond(c)
    BY <1>21
  <2>2. /\ c.reply \in CallEvent /\ events' = Append(events, c.reply)
        /\ UNCHANGED <<window, running, thread>>
    BY <2>1 DEF Respond, Send, Call
  <2>3. c.reply.scan = 0
    BY <2>2 DEF CallEvent
  <2>4. QED
    BY <2>2, <2>3, SendEvent
<1>22. CASE \E c \in calls : CancelJob(c) BY <1>22 DEF CancelJob
<1>23. CASE ChildEnds BY <1>23 DEF ChildEnds
<1>24. CASE \E n \in 1..MaxScans : JobEnds(n) BY <1>24 DEF JobEnds
<1>25. CASE UNCHANGED vars BY <1>25 DEF vars
<1>26. QED
  BY <1>1, <1>2, <1>3, <1>4, <1>5, <1>6, <1>7, <1>8, <1>9, <1>10, <1>11, <1>12,
     <1>13, <1>14, <1>15, <1>16, <1>17, <1>18, <1>19, <1>20, <1>21, <1>22, <1>23,
     <1>24, <1>25
  DEF Next, User, ScanThread, CallThread

----------------------------------------------------------------------------
(* The invariant and what follows from it.                                 *)

\* The window opens with nothing running.
LEMMA InitInv ==
    ASSUME Init
    PROVE  IInv
<1> USE DesktopConstants DEF Init
<1>1. events = <<>> /\ events \in Seq(CallEvent \cup ScanThreadEvent) /\ DOMAIN events = {}
  OBVIOUS
<1>2. TypeOK
  <2>1. /\ page \in Page
      /\ service \in {"checking", "connected", "absent"}
        /\ window \in {"open", "gone"} /\ child \in {"none", "running", "reported", "ended"}
    BY DEF Page
  <2>2. /\ use_service \in BOOLEAN /\ updating \in BOOLEAN /\ schedules \in BOOLEAN
        /\ handle \in BOOLEAN
    BY Zenon
  <2>3. /\ running \in Running \cup {None} /\ result \in Result \cup {None}
        /\ quarantine \in {None} \cup SUBSET Item /\ confirm \in Question \cup {None}
    OBVIOUS
  <2>4. thread \in Thread
    BY DEF NoThread, Thread
  <2>5. progressed \in 0..MaxProgress /\ scans \in 0..MaxScans /\ asked_for \in 0..MaxCalls
    OBVIOUS
  <2>6. job \in [1..MaxScans -> {"none", "running", "completed", "over"}]
    OBVIOUS
  <2>7. calls \in SUBSET Call
    BY DEF Call
  <2>8. held \in SUBSET Item /\ asked \in SUBSET Question /\ acted \in SUBSET Question
    OBVIOUS
  <2>9. QED
    BY <1>1, <2>1, <2>2, <2>3, <2>4, <2>5, <2>6, <2>7, <2>8 DEF TypeOK
<1>3. RequestsAgree
  BY DEF RequestsAgree
<1>4. EventsAreOfTheScanShown
  BY <1>1 DEF EventsAreOfTheScanShown, NoThread
<1>5. OnlyWhatWasConfirmed /\ NeverStuckBusy
  BY DEF OnlyWhatWasConfirmed, NeverStuckBusy
<1>6. QED
  BY <1>2, <1>3, <1>4, <1>5 DEF IInv

\* Every click, event and step of a thread preserves the invariant.
LEMMA StepInv ==
    ASSUME IInv, [Next]_vars
    PROVE  IInv'
<1>1. /\ TypeOK /\ RequestsAgree /\ EventsAreOfTheScanShown /\ OnlyWhatWasConfirmed
      /\ NeverStuckBusy
  BY DEF IInv
<1>2. TypeOK'
  BY <1>1, FormTypeStep, FlagsTypeStep, ThreadTypeStep, RunningTypeStep, ShownTypeStep,
     QuestionTypeStep, HeldTypeStep, CallsTypeStep, EventsTypeStep DEF TypeOK
<1>3. RequestsAgree' /\ OnlyWhatWasConfirmed'
  BY <1>1, RequestsStep, ConfirmedStep
<1>4. EventsAreOfTheScanShown'
  <2>1. OwnEvents /\ OwnThread /\ ResultLast
    BY <1>1, EventParts
  <2>2. OwnEvents' /\ OwnThread' /\ ResultLast'
    BY <1>1, <2>1, OwnEventsStep, OwnThreadStep, ResultLastStep
  <2>3. QED
    BY <2>2 DEF EventsAreOfTheScanShown, OwnEvents, OwnThread, ResultLast
<1>5. NeverStuckBusy'
  <2>1. ScanIsAlive /\ UpdateIsAlive
    BY <1>1 DEF NeverStuckBusy, ScanIsAlive, UpdateIsAlive
  <2>2. ScanIsAlive' /\ UpdateIsAlive'
    BY <1>1, <2>1, ScanAliveStep, UpdateAliveStep
  <2>3. QED
    BY <2>2 DEF NeverStuckBusy, ScanIsAlive, UpdateIsAlive
<1>6. QED
  BY <1>2, <1>3, <1>4, <1>5 DEF IInv

\* The inductive invariant of the window and its threads.
THEOREM DesktopInvariant == Spec => []IInv
<1>1. Init => IInv
  BY InitInv
<1>2. IInv /\ [Next]_vars => IInv'
  BY StepInv
<1>3. QED
  BY <1>1, <1>2, PTL DEF Spec

\* Events of one scan are never taken for those of another (handle_events
\* looks at no scan number), and the cancel button reaches its own child.
THEOREM EventsNeverCross == Spec => []EventsAreOfTheScanShown
<1>1. IInv => EventsAreOfTheScanShown
  BY DEF IInv
<1>2. QED
  BY <1>1, DesktopInvariant, PTL

\* The service restores and deletes only what the user confirmed, once each.
THEOREM ActsAsConfirmed == Spec => []OnlyWhatWasConfirmed
<1>1. IInv => OnlyWhatWasConfirmed
  BY DEF IInv
<1>2. QED
  BY <1>1, DesktopInvariant, PTL

\* Whatever the window shows as running has a thread or a result on its way.
THEOREM WindowNeverStuck == Spec => []NeverStuckBusy
<1>1. IInv => NeverStuckBusy
  BY DEF IInv
<1>2. QED
  BY <1>1, DesktopInvariant, PTL
============================================================================
