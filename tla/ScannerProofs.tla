---------------------------- MODULE ScannerProofs ----------------------------
(***************************************************************************)
(* Proofs about Scanner, for any entries, workers and capacities.          *)
(*                                                                         *)
(* The inductive invariant IInv relates what the coordinator believes to   *)
(* what the threads do. An exit notice is its thread's last message        *)
(* (MessagesAgree), so when the loop ends nothing of a thread that was not *)
(* abandoned is left in the channel. The two counters differ by what is    *)
(* queued or taken and not yet counted (CountsAgree), so comparing them    *)
(* after the loop finds a queue that is not empty. The walker ends with    *)
(* entries left only in trouble that keeps the report from saying          *)
(* `completed` (WalkerAgrees, TroubleStays), and an entry is always        *)
(* somewhere (NoneLost).                                                   *)
(***************************************************************************)
EXTENDS Scanner, FiniteSetTheorems, SequenceTheorems, TLAPS

\* A message or an entry put at the end of a bounded sequence.
LEMMA Put ==
    ASSUME NEW T, NEW s \in Seq(T), NEW e \in T
    PROVE  /\ Append(s, e) \in Seq(T) /\ Len(Append(s, e)) = Len(s) + 1
           /\ Len(s) \in Nat /\ DOMAIN s = 1..Len(s)
           /\ DOMAIN Append(s, e) = 1..(Len(s) + 1)
           /\ \A i \in 1..Len(s) : Append(s, e)[i] = s[i]
           /\ Append(s, e)[Len(s) + 1] = e
BY AppendProperties

\* The head of a sequence taken from it.
LEMMA Taken ==
    ASSUME NEW T, NEW s \in Seq(T), s # <<>>
    PROVE  /\ Head(s) \in T /\ Head(s) = s[1] /\ 1 \in DOMAIN s
           /\ Tail(s) \in Seq(T) /\ Len(Tail(s)) = Len(s) - 1 /\ Len(s) \in Nat \ {0}
           /\ DOMAIN s = 1..Len(s) /\ DOMAIN Tail(s) = 1..(Len(s) - 1)
           /\ \A i \in 1..(Len(s) - 1) : Tail(s)[i] = s[i + 1]
BY HeadTailProperties

\* The walker's variables keep their types.
LEMMA WalkerTypeStep ==
    ASSUME TypeOK, [Next]_vars
    PROVE  /\ toWalk' \in SUBSET Entry
           /\ walker' \in {"walk", "push", "count", "send", "exit", "drop", "done"}
           /\ held' \in Entry \cup {None}
<1>t. /\ toWalk \in SUBSET Entry
      /\ walker \in {"walk", "push", "count", "send", "exit", "drop", "done"}
      /\ held \in Entry \cup {None}
  BY DEF TypeOK
<1> USE <1>t
    DEF threads, counts, outcome, coord
<1>1. CASE WalkNext BY <1>1 DEF WalkNext, Walker
<1>2. CASE WalkEnd BY <1>2 DEF WalkEnd, Walker
<1>3. CASE WalkPush BY <1>3 DEF WalkPush, Walker
<1>4. CASE WalkCount BY <1>4 DEF WalkCount, Walker
<1>5. CASE WalkSend BY <1>5 DEF WalkSend, Walker, Send
<1>6. CASE WalkExit BY <1>6 DEF WalkExit, Walker, Send
<1>7. CASE WalkPanic BY <1>7 DEF WalkPanic, Walker, Send
<1>8. CASE WalkDrop BY <1>8 DEF WalkDrop, Walker
<1>9. CASE CoordTick BY <1>9 DEF CoordTick, Coord
<1>10. CASE CoordRecv BY <1>10 DEF CoordRecv, Coord
<1>11. CASE CoordLimits BY <1>11 DEF CoordLimits, Coord, StopFor
<1>12. CASE CoordWatch BY <1>12 DEF CoordWatch, Coord
<1>13. CASE CoordAbandon BY <1>13 DEF CoordAbandon, Coord
<1>14. CASE CoordStalls BY <1>14 DEF CoordStalls, Coord, StopFor
<1>15. CASE CoordTally BY <1>15 DEF CoordTally, Coord
<1>16. CASE CoordJoin BY <1>16 DEF CoordJoin, Coord
<1>17. CASE \E w \in Worker : WorkerRecv(w) BY <1>17 DEF WorkerRecv, WorkerAt
<1>18. CASE \E w \in Worker : WorkerCount(w) BY <1>18 DEF WorkerCount, WorkerAt
<1>19. CASE \E w \in Worker : WorkerCheck(w) BY <1>19 DEF WorkerCheck, WorkerAt
<1>20. CASE \E w \in Worker : WorkerSend(w) BY <1>20 DEF WorkerSend, WorkerAt, Send
<1>21. CASE \E w \in Worker : WorkerExit(w) BY <1>21 DEF WorkerExit, WorkerAt, Send
<1>22. CASE \E w \in Worker : FileStalls(w) BY <1>22 DEF FileStalls
<1>23. CASE \E w \in Worker : WorkerFinish(w) BY <1>23 DEF WorkerFinish, WorkerAt
<1>24. CASE \E w \in Worker : WorkerPanic(w)
  BY <1>24 DEF WorkerPanic, WorkerAt, Send
<1>25. CASE UNCHANGED vars BY <1>25 DEF vars
<1>26. QED
  BY <1>1, <1>2, <1>3, <1>4, <1>5, <1>6, <1>7, <1>8, <1>9, <1>10, <1>11, <1>12,
     <1>13, <1>14, <1>15, <1>16, <1>17, <1>18, <1>19, <1>20, <1>21, <1>22, <1>23,
     <1>24, <1>25
  DEF Next, WalkStep, Coordinate, WorkerStep

\* The queue.
LEMMA QueueTypeStep ==
    ASSUME TypeOK, WalkerAgrees, [Next]_vars
    PROVE  /\ queue' \in Seq(Entry) /\ Len(queue') <= QueueCap
<1>t. /\ queue \in Seq(Entry) /\ Len(queue) <= QueueCap
      /\ held \in Entry \cup {None}
      /\ walker \in {"walk", "push", "count", "send", "exit", "drop", "done"}
  BY DEF TypeOK
<1> USE <1>t
    DEF threads, counts, outcome, coord
<1>1. CASE WalkNext BY <1>1 DEF WalkNext, Walker
<1>2. CASE WalkEnd BY <1>2 DEF WalkEnd, Walker
<1>3. CASE WalkPush
  <2>1. held \in Entry
    BY <1>3 DEF WalkPush, WalkerAgrees
  <2>2. QED
    BY <1>3, <2>1, AppendProperties, SizeAssumption DEF WalkPush, Walker
<1>4. CASE WalkCount BY <1>4 DEF WalkCount, Walker
<1>5. CASE WalkSend BY <1>5 DEF WalkSend, Walker, Send
<1>6. CASE WalkExit BY <1>6 DEF WalkExit, Walker, Send
<1>7. CASE WalkPanic BY <1>7 DEF WalkPanic, Walker, Send
<1>8. CASE WalkDrop BY <1>8 DEF WalkDrop, Walker
<1>9. CASE CoordTick BY <1>9 DEF CoordTick, Coord
<1>10. CASE CoordRecv BY <1>10 DEF CoordRecv, Coord
<1>11. CASE CoordLimits BY <1>11 DEF CoordLimits, Coord, StopFor
<1>12. CASE CoordWatch BY <1>12 DEF CoordWatch, Coord
<1>13. CASE CoordAbandon BY <1>13 DEF CoordAbandon, Coord
<1>14. CASE CoordStalls BY <1>14 DEF CoordStalls, Coord, StopFor
<1>15. CASE CoordTally BY <1>15 DEF CoordTally, Coord
<1>16. CASE CoordJoin BY <1>16 DEF CoordJoin, Coord
<1>17. CASE \E w \in Worker : WorkerRecv(w)
  <2>1. CASE queue # <<>>
    <3>1. UNCHANGED queue \/ queue' = Tail(queue)
      BY <1>17 DEF WorkerRecv
    <3>2. Tail(queue) \in Seq(Entry) /\ Len(Tail(queue)) = Len(queue) - 1 /\ Len(queue) \in Nat
      BY <2>1, Taken
    <3>3. QED
      BY <3>1, <3>2, SizeAssumption
  <2>2. CASE queue = <<>>
    BY <1>17, <2>2 DEF WorkerRecv
  <2>3. QED
    BY <2>1, <2>2
<1>18. CASE \E w \in Worker : WorkerCount(w) BY <1>18 DEF WorkerCount, WorkerAt
<1>19. CASE \E w \in Worker : WorkerCheck(w) BY <1>19 DEF WorkerCheck, WorkerAt
<1>20. CASE \E w \in Worker : WorkerSend(w) BY <1>20 DEF WorkerSend, WorkerAt, Send
<1>21. CASE \E w \in Worker : WorkerExit(w) BY <1>21 DEF WorkerExit, WorkerAt, Send
<1>22. CASE \E w \in Worker : FileStalls(w) BY <1>22 DEF FileStalls
<1>23. CASE \E w \in Worker : WorkerFinish(w) BY <1>23 DEF WorkerFinish, WorkerAt
<1>24. CASE \E w \in Worker : WorkerPanic(w)
  BY <1>24 DEF WorkerPanic, WorkerAt, Send
<1>25. CASE UNCHANGED vars BY <1>25 DEF vars
<1>26. QED
  BY <1>1, <1>2, <1>3, <1>4, <1>5, <1>6, <1>7, <1>8, <1>9, <1>10, <1>11, <1>12,
     <1>13, <1>14, <1>15, <1>16, <1>17, <1>18, <1>19, <1>20, <1>21, <1>22, <1>23,
     <1>24, <1>25
  DEF Next, WalkStep, Coordinate, WorkerStep

\* The workers' variables.
LEMMA WorkerTypeStep ==
    ASSUME TypeOK, CoordAgrees, WorkersAgree, [Next]_vars
    PROVE  /\ wpc' \in [Worker -> {"none", "recv", "count", "process", "check", "send",
                           "exit", "gone"}]
           /\ item' \in [Worker -> Entry \cup {None}]
           /\ slot' \in [Worker -> Entry \cup {None}]
           /\ slow' \in SUBSET Worker
           /\ flag' \in SUBSET Worker
           /\ enqueued' \in Nat
           /\ dequeued' \in Nat
<1>t. /\ wpc \in [Worker -> {"none", "recv", "count", "process", "check", "send",
                           "exit", "gone"}]
      /\ item \in [Worker -> Entry \cup {None}]
      /\ slot \in [Worker -> Entry \cup {None}]
      /\ slow \in SUBSET Worker
      /\ flag \in SUBSET Worker
      /\ enqueued \in Nat
      /\ dequeued \in Nat
      /\ queue \in Seq(Entry) /\ Len(queue) <= QueueCap
      /\ started \in 0..(2 * N + 1)
      /\ wi \in Nat /\ upto \in 0..(2 * N + 1)
  BY DEF TypeOK
<1> USE <1>t
    DEF threads, counts, outcome, coord
<1>1. CASE WalkNext BY <1>1 DEF WalkNext, Walker
<1>2. CASE WalkEnd BY <1>2 DEF WalkEnd, Walker
<1>3. CASE WalkPush BY <1>3 DEF WalkPush, Walker
<1>4. CASE WalkCount BY <1>4 DEF WalkCount, Walker
<1>5. CASE WalkSend BY <1>5 DEF WalkSend, Walker, Send
<1>6. CASE WalkExit BY <1>6 DEF WalkExit, Walker, Send
<1>7. CASE WalkPanic BY <1>7 DEF WalkPanic, Walker, Send
<1>8. CASE WalkDrop BY <1>8 DEF WalkDrop, Walker
<1>9. CASE CoordTick BY <1>9 DEF CoordTick, Coord
<1>10. CASE CoordRecv BY <1>10 DEF CoordRecv, Coord
<1>11. CASE CoordLimits BY <1>11 DEF CoordLimits, Coord, StopFor
<1>12. CASE CoordWatch BY <1>12 DEF CoordWatch, Coord
<1>13. CASE CoordAbandon
  <2>1. wi \in Worker /\ started + 1 \in Worker
    BY <1>13, SizeAssumption
    DEF CoordAbandon, Coord, CoordAgrees, WorkersAgree, ThreadsBounded, Worker
  <2>2. QED
    BY <1>13, <2>1 DEF CoordAbandon, Coord
<1>14. CASE CoordStalls BY <1>14 DEF CoordStalls, Coord, StopFor
<1>15. CASE CoordTally BY <1>15 DEF CoordTally, Coord
<1>16. CASE CoordJoin BY <1>16 DEF CoordJoin, Coord
<1>17. CASE \E w \in Worker : WorkerRecv(w)
  BY <1>17, HeadTailProperties DEF WorkerRecv, WorkerAt
<1>18. CASE \E w \in Worker : WorkerCount(w) BY <1>18 DEF WorkerCount, WorkerAt
<1>19. CASE \E w \in Worker : WorkerCheck(w) BY <1>19 DEF WorkerCheck, WorkerAt
<1>20. CASE \E w \in Worker : WorkerSend(w) BY <1>20 DEF WorkerSend, WorkerAt, Send
<1>21. CASE \E w \in Worker : WorkerExit(w) BY <1>21 DEF WorkerExit, WorkerAt, Send
<1>22. CASE \E w \in Worker : FileStalls(w) BY <1>22 DEF FileStalls
<1>23. CASE \E w \in Worker : WorkerFinish(w) BY <1>23 DEF WorkerFinish, WorkerAt
<1>24. CASE \E w \in Worker : WorkerPanic(w)
  BY <1>24 DEF WorkerPanic, WorkerAt, Send
<1>25. CASE UNCHANGED vars BY <1>25 DEF vars
<1>26. QED
  BY <1>1, <1>2, <1>3, <1>4, <1>5, <1>6, <1>7, <1>8, <1>9, <1>10, <1>11, <1>12,
     <1>13, <1>14, <1>15, <1>16, <1>17, <1>18, <1>19, <1>20, <1>21, <1>22, <1>23,
     <1>24, <1>25
  DEF Next, WalkStep, Coordinate, WorkerStep

\* The coordinator's variables.
LEMMA CoordTypeStep ==
    ASSUME TypeOK, CoordAgrees, WorkersAgree, [Next]_vars
    PROVE  /\ cpc' \in {"recv", "limits", "watch", "abandon", "join", "returned"}
           /\ wi' \in Nat /\ upto' \in 0..(2 * N + 1)
           /\ seen' \in Entry \cup {None}
           /\ started' \in 0..(2 * N + 1)
           /\ live' \in SUBSET Worker
<1>t. /\ cpc \in {"recv", "limits", "watch", "abandon", "join", "returned"}
      /\ wi \in Nat /\ upto \in 0..(2 * N + 1)
      /\ seen \in Entry \cup {None}
      /\ started \in 0..(2 * N + 1)
      /\ live \in SUBSET Worker
      /\ slot \in [Worker -> Entry \cup {None}]
  BY DEF TypeOK
<1> USE <1>t
    DEF threads, counts, outcome, coord
<1>1. CASE WalkNext BY <1>1 DEF WalkNext, Walker
<1>2. CASE WalkEnd BY <1>2 DEF WalkEnd, Walker
<1>3. CASE WalkPush BY <1>3 DEF WalkPush, Walker
<1>4. CASE WalkCount BY <1>4 DEF WalkCount, Walker
<1>5. CASE WalkSend BY <1>5 DEF WalkSend, Walker, Send
<1>6. CASE WalkExit BY <1>6 DEF WalkExit, Walker, Send
<1>7. CASE WalkPanic BY <1>7 DEF WalkPanic, Walker, Send
<1>8. CASE WalkDrop BY <1>8 DEF WalkDrop, Walker
<1>9. CASE CoordTick BY <1>9 DEF CoordTick, Coord
<1>10. CASE CoordRecv BY <1>10 DEF CoordRecv, Coord
<1>11. CASE CoordLimits BY <1>11 DEF CoordLimits, Coord, StopFor
<1>12. CASE CoordWatch BY <1>12 DEF CoordWatch, Coord, Worker
<1>13. CASE CoordAbandon
  <2>1. wi \in Worker /\ started + 1 \in Worker /\ started + 1 \in 0..(2 * N + 1)
    BY <1>13, SizeAssumption
    DEF CoordAbandon, Coord, CoordAgrees, WorkersAgree, ThreadsBounded, Worker
  <2>2. live \ {wi} \in SUBSET Worker /\ (live \ {wi}) \cup {started + 1} \in SUBSET Worker
    BY <2>1
  <2>3. /\ live' = live \ {wi} \/ live' = (live \ {wi}) \cup {started + 1}
        /\ started' = started \/ started' = started + 1
        /\ cpc' = "watch" /\ seen' = None /\ wi' = wi + 1 /\ UNCHANGED upto
    BY <1>13 DEF CoordAbandon, Coord
  <2>4. live' \in SUBSET Worker
    BY <2>2, <2>3
  <2>5. QED
    BY <2>1, <2>3, <2>4
<1>14. CASE CoordStalls BY <1>14 DEF CoordStalls, Coord, StopFor
<1>15. CASE CoordTally BY <1>15 DEF CoordTally, Coord
<1>16. CASE CoordJoin BY <1>16 DEF CoordJoin, Coord
<1>17. CASE \E w \in Worker : WorkerRecv(w) BY <1>17 DEF WorkerRecv, WorkerAt
<1>18. CASE \E w \in Worker : WorkerCount(w) BY <1>18 DEF WorkerCount, WorkerAt
<1>19. CASE \E w \in Worker : WorkerCheck(w) BY <1>19 DEF WorkerCheck, WorkerAt
<1>20. CASE \E w \in Worker : WorkerSend(w) BY <1>20 DEF WorkerSend, WorkerAt, Send
<1>21. CASE \E w \in Worker : WorkerExit(w) BY <1>21 DEF WorkerExit, WorkerAt, Send
<1>22. CASE \E w \in Worker : FileStalls(w) BY <1>22 DEF FileStalls
<1>23. CASE \E w \in Worker : WorkerFinish(w) BY <1>23 DEF WorkerFinish, WorkerAt
<1>24. CASE \E w \in Worker : WorkerPanic(w)
  BY <1>24 DEF WorkerPanic, WorkerAt, Send
<1>25. CASE UNCHANGED vars BY <1>25 DEF vars
<1>26. QED
  BY <1>1, <1>2, <1>3, <1>4, <1>5, <1>6, <1>7, <1>8, <1>9, <1>10, <1>11, <1>12,
     <1>13, <1>14, <1>15, <1>16, <1>17, <1>18, <1>19, <1>20, <1>21, <1>22, <1>23,
     <1>24, <1>25
  DEF Next, WalkStep, Coordinate, WorkerStep

\* The flags.
LEMMA FlagTypeStep ==
    ASSUME TypeOK, [Next]_vars
    PROVE  /\ rx' \in BOOLEAN /\ stop' \in BOOLEAN /\ walkerDone' \in BOOLEAN
           /\ panicked' \in BOOLEAN
      /\ spawnError' \in BOOLEAN /\ unscanned' \in BOOLEAN
<1>t. /\ rx \in BOOLEAN /\ stop \in BOOLEAN /\ walkerDone \in BOOLEAN /\ panicked \in BOOLEAN
      /\ spawnError \in BOOLEAN /\ unscanned \in BOOLEAN
  BY DEF TypeOK
<1> USE <1>t
    DEF threads, counts, outcome, coord
<1>1. CASE WalkNext BY <1>1 DEF WalkNext, Walker
<1>2. CASE WalkEnd BY <1>2 DEF WalkEnd, Walker
<1>3. CASE WalkPush BY <1>3 DEF WalkPush, Walker
<1>4. CASE WalkCount BY <1>4 DEF WalkCount, Walker
<1>5. CASE WalkSend BY <1>5 DEF WalkSend, Walker, Send
<1>6. CASE WalkExit BY <1>6 DEF WalkExit, Walker, Send
<1>7. CASE WalkPanic BY <1>7 DEF WalkPanic, Walker, Send
<1>8. CASE WalkDrop BY <1>8 DEF WalkDrop, Walker
<1>9. CASE CoordTick BY <1>9 DEF CoordTick, Coord
<1>10. CASE CoordRecv BY <1>10 DEF CoordRecv, Coord
<1>11. CASE CoordLimits BY <1>11 DEF CoordLimits, Coord, StopFor
<1>12. CASE CoordWatch BY <1>12 DEF CoordWatch, Coord
<1>13. CASE CoordAbandon BY <1>13 DEF CoordAbandon, Coord
<1>14. CASE CoordStalls BY <1>14 DEF CoordStalls, Coord, StopFor
<1>15. CASE CoordTally BY <1>15 DEF CoordTally, Coord
<1>16. CASE CoordJoin BY <1>16 DEF CoordJoin, Coord
<1>17. CASE \E w \in Worker : WorkerRecv(w) BY <1>17 DEF WorkerRecv, WorkerAt
<1>18. CASE \E w \in Worker : WorkerCount(w) BY <1>18 DEF WorkerCount, WorkerAt
<1>19. CASE \E w \in Worker : WorkerCheck(w) BY <1>19 DEF WorkerCheck, WorkerAt
<1>20. CASE \E w \in Worker : WorkerSend(w) BY <1>20 DEF WorkerSend, WorkerAt, Send
<1>21. CASE \E w \in Worker : WorkerExit(w) BY <1>21 DEF WorkerExit, WorkerAt, Send
<1>22. CASE \E w \in Worker : FileStalls(w) BY <1>22 DEF FileStalls
<1>23. CASE \E w \in Worker : WorkerFinish(w) BY <1>23 DEF WorkerFinish, WorkerAt
<1>24. CASE \E w \in Worker : WorkerPanic(w)
  BY <1>24 DEF WorkerPanic, WorkerAt, Send
<1>25. CASE UNCHANGED vars BY <1>25 DEF vars
<1>26. QED
  BY <1>1, <1>2, <1>3, <1>4, <1>5, <1>6, <1>7, <1>8, <1>9, <1>10, <1>11, <1>12,
     <1>13, <1>14, <1>15, <1>16, <1>17, <1>18, <1>19, <1>20, <1>21, <1>22, <1>23,
     <1>24, <1>25
  DEF Next, WalkStep, Coordinate, WorkerStep

\* What the scan will return.
LEMMA OutcomeTypeStep ==
    ASSUME TypeOK, CoordAgrees, MessagesAgree, [Next]_vars
    PROVE  /\ reason' \in {"none", "cancelled", "time", "stalls"}
           /\ reported' \in SUBSET Entry
           /\ status' \in {"running", "completed", "cancelled", "time_limit", "error"}
<1>t. /\ reason \in {"none", "cancelled", "time", "stalls"}
      /\ reported \in SUBSET Entry
      /\ status \in {"running", "completed", "cancelled", "time_limit", "error"}
      /\ msgs \in Seq(Msg) /\ Len(msgs) <= MsgCap
  BY DEF TypeOK
<1> USE <1>t
    DEF threads, counts, outcome, coord
<1>1. CASE WalkNext BY <1>1 DEF WalkNext, Walker
<1>2. CASE WalkEnd BY <1>2 DEF WalkEnd, Walker
<1>3. CASE WalkPush BY <1>3 DEF WalkPush, Walker
<1>4. CASE WalkCount BY <1>4 DEF WalkCount, Walker
<1>5. CASE WalkSend BY <1>5 DEF WalkSend, Walker, Send
<1>6. CASE WalkExit BY <1>6 DEF WalkExit, Walker, Send
<1>7. CASE WalkPanic BY <1>7 DEF WalkPanic, Walker, Send
<1>8. CASE WalkDrop BY <1>8 DEF WalkDrop, Walker
<1>9. CASE CoordTick BY <1>9 DEF CoordTick, Coord
<1>10. CASE CoordRecv
  <2>1. msgs # <<>> /\ Head(msgs) = msgs[1] /\ 1 \in DOMAIN msgs /\ msgs[1] \in Msg
    BY <1>10, HeadTailProperties DEF CoordRecv
  <2>2. Head(msgs).kind = "result" => Head(msgs).entry \in Entry
    BY <2>1 DEF MessagesAgree, MessageAgrees, Msg
  <2>3. QED
    BY <1>10, <2>2 DEF CoordRecv, Coord
<1>11. CASE CoordLimits BY <1>11 DEF CoordLimits, Coord, StopFor
<1>12. CASE CoordWatch BY <1>12 DEF CoordWatch, Coord
<1>13. CASE CoordAbandon BY <1>13 DEF CoordAbandon, Coord, CoordAgrees
<1>14. CASE CoordStalls BY <1>14 DEF CoordStalls, Coord, StopFor
<1>15. CASE CoordTally BY <1>15 DEF CoordTally, Coord
<1>16. CASE CoordJoin BY <1>16 DEF CoordJoin, Coord
<1>17. CASE \E w \in Worker : WorkerRecv(w) BY <1>17 DEF WorkerRecv, WorkerAt
<1>18. CASE \E w \in Worker : WorkerCount(w) BY <1>18 DEF WorkerCount, WorkerAt
<1>19. CASE \E w \in Worker : WorkerCheck(w) BY <1>19 DEF WorkerCheck, WorkerAt
<1>20. CASE \E w \in Worker : WorkerSend(w) BY <1>20 DEF WorkerSend, WorkerAt, Send
<1>21. CASE \E w \in Worker : WorkerExit(w) BY <1>21 DEF WorkerExit, WorkerAt, Send
<1>22. CASE \E w \in Worker : FileStalls(w) BY <1>22 DEF FileStalls
<1>23. CASE \E w \in Worker : WorkerFinish(w) BY <1>23 DEF WorkerFinish, WorkerAt
<1>24. CASE \E w \in Worker : WorkerPanic(w)
  BY <1>24 DEF WorkerPanic, WorkerAt, Send
<1>25. CASE UNCHANGED vars BY <1>25 DEF vars
<1>26. QED
  BY <1>1, <1>2, <1>3, <1>4, <1>5, <1>6, <1>7, <1>8, <1>9, <1>10, <1>11, <1>12,
     <1>13, <1>14, <1>15, <1>16, <1>17, <1>18, <1>19, <1>20, <1>21, <1>22, <1>23,
     <1>24, <1>25
  DEF Next, WalkStep, Coordinate, WorkerStep

\* Sending keeps the channel's type and bound.
LEMMA PutMessage ==
    ASSUME msgs \in Seq(Msg), Len(msgs) <= MsgCap, NEW m \in Msg,
           UNCHANGED msgs \/ (Len(msgs) < MsgCap /\ msgs' = Append(msgs, m))
    PROVE  msgs' \in Seq(Msg) /\ Len(msgs') <= MsgCap
BY Put, SizeAssumption

\* The message channel.
LEMMA MessageTypeStep ==
    ASSUME TypeOK, WorkersAgree, WalkerAgrees, [Next]_vars
    PROVE  msgs' \in Seq(Msg) /\ Len(msgs') <= MsgCap
<1>t. /\ msgs \in Seq(Msg) /\ Len(msgs) <= MsgCap
      /\ held \in Entry \cup {None}
      /\ item \in [Worker -> Entry \cup {None}]
  BY DEF TypeOK
<1> USE <1>t
    DEF threads, counts, outcome, coord
<1>1. CASE WalkNext BY <1>1 DEF WalkNext, Walker
<1>2. CASE WalkEnd BY <1>2 DEF WalkEnd, Walker
<1>3. CASE WalkPush BY <1>3 DEF WalkPush, Walker
<1>4. CASE WalkCount BY <1>4 DEF WalkCount, Walker
<1>5. CASE WalkSend
  <2>1. Result(0, held) \in Msg
    BY <1>5, <1>t, EntryAssumption
    DEF WalkSend, Walker, Result, Exited, Msg, WorkersAgree, WalkerAgrees
  <2>2. \/ UNCHANGED msgs
        \/ Len(msgs) < MsgCap /\ msgs' = Append(msgs, Result(0, held))
    BY <1>5 DEF WalkSend, Send
  <2>3. QED
    BY <1>t, <2>1, <2>2, PutMessage
<1>6. CASE WalkExit
  <2>1. Exited(0, FALSE) \in Msg
    BY <1>6, <1>t, EntryAssumption
    DEF WalkExit, Walker, Result, Exited, Msg, WorkersAgree, WalkerAgrees
  <2>2. \/ UNCHANGED msgs
        \/ Len(msgs) < MsgCap /\ msgs' = Append(msgs, Exited(0, FALSE))
    BY <1>6 DEF WalkExit, Send
  <2>3. QED
    BY <1>t, <2>1, <2>2, PutMessage
<1>7. CASE WalkPanic
  <2>1. Exited(0, TRUE) \in Msg
    BY <1>7, <1>t, EntryAssumption
    DEF WalkPanic, Walker, Result, Exited, Msg, WorkersAgree, WalkerAgrees
  <2>2. \/ UNCHANGED msgs
        \/ Len(msgs) < MsgCap /\ msgs' = Append(msgs, Exited(0, TRUE))
    BY <1>7 DEF WalkPanic, Send
  <2>3. QED
    BY <1>t, <2>1, <2>2, PutMessage
<1>8. CASE WalkDrop BY <1>8 DEF WalkDrop, Walker
<1>9. CASE CoordTick BY <1>9 DEF CoordTick, Coord
<1>10. CASE CoordRecv
  <2>1. msgs # <<>> /\ msgs' = Tail(msgs)
    BY <1>10 DEF CoordRecv
  <2>2. QED
    BY <1>t, <2>1, Taken, SizeAssumption
<1>11. CASE CoordLimits BY <1>11 DEF CoordLimits, Coord, StopFor
<1>12. CASE CoordWatch BY <1>12 DEF CoordWatch, Coord
<1>13. CASE CoordAbandon BY <1>13 DEF CoordAbandon, Coord
<1>14. CASE CoordStalls BY <1>14 DEF CoordStalls, Coord, StopFor
<1>15. CASE CoordTally BY <1>15 DEF CoordTally, Coord
<1>16. CASE CoordJoin BY <1>16 DEF CoordJoin, Coord
<1>17. CASE \E w \in Worker : WorkerRecv(w) BY <1>17 DEF WorkerRecv, WorkerAt
<1>18. CASE \E w \in Worker : WorkerCount(w) BY <1>18 DEF WorkerCount, WorkerAt
<1>19. CASE \E w \in Worker : WorkerCheck(w) BY <1>19 DEF WorkerCheck, WorkerAt
<1>20. CASE \E w \in Worker : WorkerSend(w)
  <2>w. PICK w \in Worker : WorkerSend(w)
    BY <1>20
  <2>1. Result(w, item[w]) \in Msg
    BY <2>w, <1>t, EntryAssumption
    DEF WorkerSend, WorkerAt, Result, Exited, Msg, WorkersAgree, WalkerAgrees
  <2>2. \/ UNCHANGED msgs
        \/ Len(msgs) < MsgCap /\ msgs' = Append(msgs, Result(w, item[w]))
    BY <2>w DEF WorkerSend, Send
  <2>3. QED
    BY <1>t, <2>1, <2>2, PutMessage
<1>21. CASE \E w \in Worker : WorkerExit(w)
  <2>w. PICK w \in Worker : WorkerExit(w)
    BY <1>21
  <2>1. Exited(w, FALSE) \in Msg
    BY <2>w, <1>t, EntryAssumption
    DEF WorkerExit, WorkerAt, Result, Exited, Msg, WorkersAgree, WalkerAgrees
  <2>2. \/ UNCHANGED msgs
        \/ Len(msgs) < MsgCap /\ msgs' = Append(msgs, Exited(w, FALSE))
    BY <2>w DEF WorkerExit, Send
  <2>3. QED
    BY <1>t, <2>1, <2>2, PutMessage
<1>22. CASE \E w \in Worker : FileStalls(w) BY <1>22 DEF FileStalls
<1>23. CASE \E w \in Worker : WorkerFinish(w) BY <1>23 DEF WorkerFinish, WorkerAt
<1>24. CASE \E w \in Worker : WorkerPanic(w)
  <2>w. PICK w \in Worker : WorkerPanic(w)
    BY <1>24
  <2>1. Exited(w, TRUE) \in Msg
    BY <2>w, <1>t, EntryAssumption
    DEF WorkerPanic, WorkerAt, Result, Exited, Msg, WorkersAgree, WalkerAgrees
  <2>2. \/ UNCHANGED msgs
        \/ Len(msgs) < MsgCap /\ msgs' = Append(msgs, Exited(w, TRUE))
    BY <2>w DEF WorkerPanic, Send
  <2>3. QED
    BY <1>t, <2>1, <2>2, PutMessage
<1>25. CASE UNCHANGED vars BY <1>25 DEF vars
<1>26. QED
  BY <1>1, <1>2, <1>3, <1>4, <1>5, <1>6, <1>7, <1>8, <1>9, <1>10, <1>11, <1>12,
     <1>13, <1>14, <1>15, <1>16, <1>17, <1>18, <1>19, <1>20, <1>21, <1>22, <1>23,
     <1>24, <1>25
  DEF Next, WalkStep, Coordinate, WorkerStep

\* Together: the type invariant.
LEMMA TypeStep ==
    ASSUME TypeOK, CoordAgrees, WorkersAgree, WalkerAgrees, MessagesAgree, [Next]_vars
    PROVE  TypeOK'
BY WalkerTypeStep, QueueTypeStep, WorkerTypeStep, CoordTypeStep, FlagTypeStep,
   OutcomeTypeStep, MessageTypeStep DEF TypeOK

\* The coordinator's control point and what it stands for.
LEMMA CoordAgreesStep ==
    ASSUME TypeOK, CoordAgrees, WorkersAgree, WalkerAgrees, [Next]_vars
    PROVE  CoordAgrees'
<1>t. /\ rx \in BOOLEAN /\ stop \in BOOLEAN /\ walkerDone \in BOOLEAN /\ panicked \in BOOLEAN
      /\ spawnError \in BOOLEAN /\ unscanned \in BOOLEAN
      /\ wi \in Nat /\ upto \in 0..(2 * N + 1)
      /\ slot \in [Worker -> Entry \cup {None}]
      /\ cpc \in {"recv", "limits", "watch", "abandon", "join", "returned"}
      /\ walker \in {"walk", "push", "count", "send", "exit", "drop", "done"}
      /\ live \in SUBSET Worker
  BY DEF TypeOK
<1> USE <1>t
    DEF threads, counts, outcome, coord, CoordAgrees
<1>1. CASE WalkNext BY <1>1 DEF WalkNext, Walker, WalkerAgrees
<1>2. CASE WalkEnd BY <1>2 DEF WalkEnd, Walker, WalkerAgrees
<1>3. CASE WalkPush BY <1>3 DEF WalkPush, Walker, WalkerAgrees
<1>4. CASE WalkCount BY <1>4 DEF WalkCount, Walker, WalkerAgrees
<1>5. CASE WalkSend BY <1>5 DEF WalkSend, Walker, Send, WalkerAgrees
<1>6. CASE WalkExit BY <1>6 DEF WalkExit, Walker, Send, WalkerAgrees
<1>7. CASE WalkPanic BY <1>7 DEF WalkPanic, Walker, Send, WalkerAgrees
<1>8. CASE WalkDrop BY <1>8 DEF WalkDrop, Walker
<1>9. CASE CoordTick BY <1>9 DEF CoordTick, Coord
<1>10. CASE CoordRecv BY <1>10 DEF CoordRecv, Coord, AllDead
<1>11. CASE CoordLimits BY <1>11 DEF CoordLimits, Coord, StopFor
<1>12. CASE CoordWatch BY <1>12 DEF CoordWatch, Coord, Worker
<1>13. CASE CoordAbandon BY <1>13 DEF CoordAbandon, Coord
<1>14. CASE CoordStalls BY <1>14 DEF CoordStalls, Coord, StopFor
<1>15. CASE CoordTally BY <1>15 DEF CoordTally, Coord, AllDead
<1>16. CASE CoordJoin BY <1>16 DEF CoordJoin, Coord
<1>17. CASE \E w \in Worker : WorkerRecv(w) BY <1>17 DEF WorkerRecv, WorkerAt
<1>18. CASE \E w \in Worker : WorkerCount(w) BY <1>18 DEF WorkerCount, WorkerAt
<1>19. CASE \E w \in Worker : WorkerCheck(w) BY <1>19 DEF WorkerCheck, WorkerAt
<1>20. CASE \E w \in Worker : WorkerSend(w) BY <1>20 DEF WorkerSend, WorkerAt, Send
<1>21. CASE \E w \in Worker : WorkerExit(w) BY <1>21 DEF WorkerExit, WorkerAt, Send
<1>22. CASE \E w \in Worker : FileStalls(w) BY <1>22 DEF FileStalls
<1>23. CASE \E w \in Worker : WorkerFinish(w) BY <1>23 DEF WorkerFinish, WorkerAt
<1>24. CASE \E w \in Worker : WorkerPanic(w)
  BY <1>24 DEF WorkerPanic, WorkerAt, Send
<1>25. CASE UNCHANGED vars BY <1>25 DEF vars
<1>26. QED
  BY <1>1, <1>2, <1>3, <1>4, <1>5, <1>6, <1>7, <1>8, <1>9, <1>10, <1>11, <1>12,
     <1>13, <1>14, <1>15, <1>16, <1>17, <1>18, <1>19, <1>20, <1>21, <1>22, <1>23,
     <1>24, <1>25
  DEF Next, WalkStep, Coordinate, WorkerStep

\* The workers are finitely many, and so are those abandoned.
LEMMA WorkersFinite == ASSUME NEW S \in SUBSET Worker PROVE IsFiniteSet(S) /\ Cardinality(S) \in Nat
<1>1. IsFiniteSet(Worker)
  BY SizeAssumption, FS_Interval DEF Worker
<1>2. QED
  BY <1>1, FS_Subset, FS_CardinalityType

\* The parts of WorkersAgree: the books, and the threads.
Books ==
    /\ live \subseteq 1..started /\ flag \subseteq 1..started /\ live \cap flag = {}
    /\ started <= N + Cardinality(flag) /\ ThreadsBounded
WorkerAgrees(w) ==
    /\ w > started => wpc[w] = "none"
    /\ w <= started /\ w \notin live \cup flag => wpc[w] = "gone"
    /\ wpc[w] \in {"count", "process", "send"} => item[w] # None

\* Together they are WorkersAgree.
LEMMA WorkerParts == WorkersAgree <=> Books /\ \A w \in Worker : WorkerAgrees(w)
BY DEF WorkersAgree, Books, WorkerAgrees

\* The coordinator's books on workers.
LEMMA BooksStep ==
    ASSUME TypeOK, CoordAgrees, Books, [Next]_vars
    PROVE  Books'
<1>t. /\ started \in 0..(2 * N + 1)
      /\ live \in SUBSET Worker
      /\ flag \in SUBSET Worker
  BY DEF TypeOK
<1> USE <1>t
    DEF threads, counts, outcome, coord, Books, ThreadsBounded
<1>1. CASE WalkNext BY <1>1 DEF WalkNext, Walker
<1>2. CASE WalkEnd BY <1>2 DEF WalkEnd, Walker
<1>3. CASE WalkPush BY <1>3 DEF WalkPush, Walker
<1>4. CASE WalkCount BY <1>4 DEF WalkCount, Walker
<1>5. CASE WalkSend BY <1>5 DEF WalkSend, Walker, Send
<1>6. CASE WalkExit BY <1>6 DEF WalkExit, Walker, Send
<1>7. CASE WalkPanic BY <1>7 DEF WalkPanic, Walker, Send
<1>8. CASE WalkDrop BY <1>8 DEF WalkDrop, Walker
<1>9. CASE CoordTick BY <1>9 DEF CoordTick, Coord
<1>10. CASE CoordRecv BY <1>10 DEF CoordRecv, Coord
<1>11. CASE CoordLimits BY <1>11 DEF CoordLimits, Coord, StopFor
<1>12. CASE CoordWatch BY <1>12 DEF CoordWatch, Coord
<1>13. CASE CoordAbandon
  <2>1. wi \in live /\ wi \notin flag /\ wi \in 1..started
    BY <1>13 DEF CoordAbandon, Coord, CoordAgrees
  <2>2. Cardinality(flag \cup {wi}) = Cardinality(flag) + 1 /\ Cardinality(flag) \in Nat
    BY <2>1, WorkersFinite, FS_AddElement
  <2>3. flag' = flag \cup {wi}
    BY <1>13 DEF CoordAbandon
  <2>4. CASE started' = started /\ live' = live \ {wi}
    BY <2>1, <2>2, <2>3, <2>4, SizeAssumption
  <2>5. CASE MayReplace /\ started' = started + 1 /\ live' = (live \ {wi}) \cup {started + 1}
    <3>1. started + 1 <= N + Cardinality(flag') /\ Cardinality(flag') <= N
      BY <2>2, <2>3, <2>5, SizeAssumption DEF MayReplace
    <3>2. started + 1 <= 2 * N
      BY <2>2, <2>3, <3>1, SizeAssumption
    <3>3. live' \subseteq 1..started' /\ flag' \subseteq 1..started' /\ live' \cap flag' = {}
      BY <2>1, <2>3, <2>5
    <3>4. QED
      BY <2>5, <3>1, <3>2, <3>3
  <2>6. QED
    BY <1>13, <2>4, <2>5 DEF CoordAbandon
<1>14. CASE CoordStalls BY <1>14 DEF CoordStalls, Coord, StopFor
<1>15. CASE CoordTally BY <1>15 DEF CoordTally, Coord
<1>16. CASE CoordJoin BY <1>16 DEF CoordJoin, Coord
<1>17. CASE \E w \in Worker : WorkerRecv(w) BY <1>17 DEF WorkerRecv, WorkerAt
<1>18. CASE \E w \in Worker : WorkerCount(w) BY <1>18 DEF WorkerCount, WorkerAt
<1>19. CASE \E w \in Worker : WorkerCheck(w) BY <1>19 DEF WorkerCheck, WorkerAt
<1>20. CASE \E w \in Worker : WorkerSend(w) BY <1>20 DEF WorkerSend, WorkerAt, Send
<1>21. CASE \E w \in Worker : WorkerExit(w) BY <1>21 DEF WorkerExit, WorkerAt, Send
<1>22. CASE \E w \in Worker : FileStalls(w) BY <1>22 DEF FileStalls
<1>23. CASE \E w \in Worker : WorkerFinish(w) BY <1>23 DEF WorkerFinish, WorkerAt
<1>24. CASE \E w \in Worker : WorkerPanic(w)
  BY <1>24 DEF WorkerPanic, WorkerAt, Send
<1>25. CASE UNCHANGED vars BY <1>25 DEF vars
<1>26. QED
  BY <1>1, <1>2, <1>3, <1>4, <1>5, <1>6, <1>7, <1>8, <1>9, <1>10, <1>11, <1>12,
     <1>13, <1>14, <1>15, <1>16, <1>17, <1>18, <1>19, <1>20, <1>21, <1>22, <1>23,
     <1>24, <1>25
  DEF Next, WalkStep, Coordinate, WorkerStep

\* Each worker's own control point.
LEMMA WorkerAgreesStep ==
    ASSUME TypeOK, MessagesAgree, Books,
           NEW v \in Worker, WorkerAgrees(v), [Next]_vars
    PROVE  WorkerAgrees(v)'
<1>t. /\ queue \in Seq(Entry) /\ Len(queue) <= QueueCap
      /\ msgs \in Seq(Msg) /\ Len(msgs) <= MsgCap
      /\ started \in 0..(2 * N + 1)
      /\ live \in SUBSET Worker
      /\ flag \in SUBSET Worker
      /\ wpc \in [Worker -> {"none", "recv", "count", "process", "check", "send",
                           "exit", "gone"}]
      /\ item \in [Worker -> Entry \cup {None}]
  BY DEF TypeOK
<1> USE <1>t
    DEF threads, counts, outcome, coord, WorkerAgrees
<1>1. CASE WalkNext BY <1>1 DEF WalkNext, Walker
<1>2. CASE WalkEnd BY <1>2 DEF WalkEnd, Walker
<1>3. CASE WalkPush BY <1>3 DEF WalkPush, Walker
<1>4. CASE WalkCount BY <1>4 DEF WalkCount, Walker
<1>5. CASE WalkSend BY <1>5 DEF WalkSend, Walker, Send
<1>6. CASE WalkExit BY <1>6 DEF WalkExit, Walker, Send
<1>7. CASE WalkPanic BY <1>7 DEF WalkPanic, Walker, Send
<1>8. CASE WalkDrop BY <1>8 DEF WalkDrop, Walker
<1>9. CASE CoordTick BY <1>9 DEF CoordTick, Coord
<1>10. CASE CoordRecv
  <2>1. msgs # <<>> /\ Head(msgs) = msgs[1] /\ 1 \in DOMAIN msgs /\ Head(msgs) \in Msg
    BY <1>10, Taken DEF CoordRecv
  <2>2. MessageAgrees(Head(msgs))
    BY <2>1 DEF MessagesAgree
  <2>3. /\ live' = IF Head(msgs).kind = "exited" THEN live \ {Head(msgs).who} ELSE live
        /\ UNCHANGED <<wpc, item, started, flag>>
    BY <1>10 DEF CoordRecv, Coord
  <2>4. v = Head(msgs).who /\ Head(msgs).kind = "exited" => wpc[v] = "gone"
    BY <2>2 DEF MessageAgrees, Worker
  <2>5. QED
    BY <2>3, <2>4
<1>11. CASE CoordLimits BY <1>11 DEF CoordLimits, Coord, StopFor
<1>12. CASE CoordWatch BY <1>12 DEF CoordWatch, Coord
<1>13. CASE CoordAbandon
  <2>1. started + 1 \in Worker
    BY SizeAssumption DEF Books, ThreadsBounded, Worker
  <2>2. /\ flag' = flag \cup {wi} /\ UNCHANGED item
        /\ \/ started' = started /\ live' = live \ {wi} /\ UNCHANGED wpc
           \/ /\ started' = started + 1 /\ live' = (live \ {wi}) \cup {started + 1}
              /\ wpc' = [wpc EXCEPT ![started + 1] = "recv"]
    BY <1>13 DEF CoordAbandon, Coord
  <2>3. CASE UNCHANGED <<wpc, started>>
    BY <2>2, <2>3
  <2>4. CASE /\ started' = started + 1 /\ live' = (live \ {wi}) \cup {started + 1}
             /\ wpc' = [wpc EXCEPT ![started + 1] = "recv"]
    <3>1. CASE v = started + 1
      <4>1. wpc'[v] = "recv" /\ v \in live' /\ ~(v > started')
        BY <2>1, <2>4, <3>1
      <4>2. QED BY <4>1
    <3>2. CASE v # started + 1
      <4>1. wpc'[v] = wpc[v] /\ (v > started' => v > started) /\ (v <= started' => v <= started)
        BY <2>1, <2>4, <3>2 DEF Worker
      <4>2. v \notin live' \cup flag' => v \notin live \cup flag
        BY <2>2, <2>4, <3>2
      <4>3. QED BY <2>2, <4>1, <4>2
    <3>3. QED BY <3>1, <3>2
  <2>5. QED
    BY <2>2, <2>3, <2>4
<1>14. CASE CoordStalls BY <1>14 DEF CoordStalls, Coord, StopFor
<1>15. CASE CoordTally BY <1>15 DEF CoordTally, Coord
<1>16. CASE CoordJoin BY <1>16 DEF CoordJoin, Coord
<1>17. CASE \E w \in Worker : WorkerRecv(w)
  <2>1. PICK u \in Worker : WorkerRecv(u)
    BY <1>17
  <2>2. queue # <<>> => Head(queue) # None
    BY Taken, EntryAssumption
  <2>3. QED
    BY <2>1, <2>2 DEF WorkerRecv, WorkerAt
<1>18. CASE \E w \in Worker : WorkerCount(w)
  <2>1. PICK u \in Worker : WorkerCount(u)
    BY <1>18
  <2>2. QED
    BY <2>1 DEF WorkerCount, WorkerAt
<1>19. CASE \E w \in Worker : WorkerCheck(w)
  <2>1. PICK u \in Worker : WorkerCheck(u)
    BY <1>19
  <2>2. QED
    BY <2>1 DEF WorkerCheck, WorkerAt
<1>20. CASE \E w \in Worker : WorkerSend(w)
  <2>1. PICK u \in Worker : WorkerSend(u)
    BY <1>20
  <2>2. QED
    BY <2>1 DEF WorkerSend, WorkerAt
<1>21. CASE \E w \in Worker : WorkerExit(w)
  <2>1. PICK u \in Worker : WorkerExit(u)
    BY <1>21
  <2>2. QED
    BY <2>1 DEF WorkerExit, WorkerAt
<1>22. CASE \E w \in Worker : FileStalls(w) BY <1>22 DEF FileStalls
<1>23. CASE \E w \in Worker : WorkerFinish(w)
  <2>1. PICK u \in Worker : WorkerFinish(u)
    BY <1>23
  <2>2. QED
    BY <2>1 DEF WorkerFinish, WorkerAt
<1>24. CASE \E w \in Worker : WorkerPanic(w)
  <2>1. PICK u \in Worker : WorkerPanic(u)
    BY <1>24
  <2>2. QED
    BY <2>1 DEF WorkerPanic, WorkerAt
<1>25. CASE UNCHANGED vars BY <1>25 DEF vars
<1>26. QED
  BY <1>1, <1>2, <1>3, <1>4, <1>5, <1>6, <1>7, <1>8, <1>9, <1>10, <1>11, <1>12,
     <1>13, <1>14, <1>15, <1>16, <1>17, <1>18, <1>19, <1>20, <1>21, <1>22, <1>23,
     <1>24, <1>25
  DEF Next, WalkStep, Coordinate, WorkerStep

\* Together: the books agree with the threads.
LEMMA WorkersAgreeStep ==
    ASSUME TypeOK, CoordAgrees, MessagesAgree, WorkersAgree, [Next]_vars
    PROVE  WorkersAgree'
<1>1. Books'
  BY BooksStep, WorkerParts
<1>2. \A w \in Worker : WorkerAgrees(w)'
  BY WorkerAgreesStep, WorkerParts
<1>3. QED
  BY <1>1, <1>2 DEF WorkersAgree, Books, WorkerAgrees

\* A message put into the channel does not hide a panic.
LEMMA PutKeepsTrouble ==
    ASSUME NEW S, msgs \in Seq(Msg), NEW m \in Msg, UNCHANGED msgs \/ msgs' = Append(msgs, m),
           UNCHANGED <<spawnError, panicked, reason>>, Trouble(S)
    PROVE  Trouble(S)'
<1>1. CASE UNCHANGED msgs BY <1>1 DEF Trouble
<1>2. CASE msgs' = Append(msgs, m)
  <2>1. \A i \in DOMAIN msgs : i \in DOMAIN msgs' /\ msgs'[i] = msgs[i]
    BY <1>2, Put
  <2>2. QED BY <2>1 DEF Trouble
<1>3. QED BY <1>1, <1>2

\* A panic in the channel is trouble.
LEMMA PutPanic ==
    ASSUME NEW S, msgs \in Seq(Msg), NEW m \in Msg, m.panic, m.who \in S, msgs' = Append(msgs, m)
    PROVE  Trouble(S)'
<1>1. Len(msgs) + 1 \in DOMAIN msgs' /\ msgs'[Len(msgs) + 1] = m
  BY Put
<1>2. QED BY <1>1 DEF Trouble

\* Trouble does not go away.
LEMMA TroubleStays ==
    ASSUME TypeOK, NEW S, Trouble(S), [Next]_vars
    PROVE  Trouble(S)'
<1>t. /\ msgs \in Seq(Msg) /\ Len(msgs) <= MsgCap
      /\ held \in Entry \cup {None}
      /\ item \in [Worker -> Entry \cup {None}]
  BY DEF TypeOK
<1> USE <1>t
    DEF outcome, coord
<1>1. CASE WalkNext BY <1>1 DEF WalkNext, Walker, Trouble
<1>2. CASE WalkEnd BY <1>2 DEF WalkEnd, Walker, Trouble
<1>3. CASE WalkPush BY <1>3 DEF WalkPush, Walker, Trouble
<1>4. CASE WalkCount BY <1>4 DEF WalkCount, Walker, Trouble
<1>5. CASE WalkSend
  <2>1. Result(0, held) \in Msg
    BY <1>5, <1>t, EntryAssumption DEF WalkSend, Walker, Result, Exited, Msg
  <2>2. /\ UNCHANGED msgs \/ msgs' = Append(msgs, Result(0, held))
        /\ UNCHANGED <<spawnError, panicked, reason>>
    BY <1>5 DEF WalkSend, Walker, Send, coord
  <2>3. QED
    BY <1>t, <2>1, <2>2, PutKeepsTrouble
<1>6. CASE WalkExit
  <2>1. Exited(0, FALSE) \in Msg
    BY <1>6, <1>t, EntryAssumption DEF WalkExit, Walker, Result, Exited, Msg
  <2>2. /\ UNCHANGED msgs \/ msgs' = Append(msgs, Exited(0, FALSE))
        /\ UNCHANGED <<spawnError, panicked, reason>>
    BY <1>6 DEF WalkExit, Walker, Send, coord
  <2>3. QED
    BY <1>t, <2>1, <2>2, PutKeepsTrouble
<1>7. CASE WalkPanic
  <2>1. Exited(0, TRUE) \in Msg
    BY <1>7, <1>t, EntryAssumption DEF WalkPanic, Walker, Result, Exited, Msg
  <2>2. /\ UNCHANGED msgs \/ msgs' = Append(msgs, Exited(0, TRUE))
        /\ UNCHANGED <<spawnError, panicked, reason>>
    BY <1>7 DEF WalkPanic, Walker, Send, coord
  <2>3. QED
    BY <1>t, <2>1, <2>2, PutKeepsTrouble
<1>8. CASE WalkDrop BY <1>8 DEF WalkDrop, Walker, Trouble
<1>9. CASE CoordTick BY <1>9 DEF CoordTick, Coord, Trouble
<1>10. CASE CoordRecv
  <2>1. /\ msgs # <<>> /\ msgs' = Tail(msgs) /\ panicked' = (panicked \/ Head(msgs).panic)
        /\ UNCHANGED <<spawnError, reason>>
    BY <1>10 DEF CoordRecv, Coord
  <2>2. CASE \E i \in DOMAIN msgs : msgs[i].panic /\ msgs[i].who \in S
    <3>1. PICK i \in DOMAIN msgs : msgs[i].panic /\ msgs[i].who \in S
      BY <2>2
    <3>2. CASE i = 1
      BY <2>1, <3>1, <3>2, Taken DEF Trouble
    <3>3. CASE i # 1
      <4>1. i - 1 \in DOMAIN msgs' /\ msgs'[i - 1] = msgs[i]
        BY <2>1, <3>1, <3>3, Taken
      <4>2. QED BY <3>1, <4>1 DEF Trouble
    <3>4. QED BY <3>2, <3>3
  <2>3. CASE ~ \E i \in DOMAIN msgs : msgs[i].panic /\ msgs[i].who \in S
    BY <2>1, <2>3 DEF Trouble
  <2>4. QED
    BY <2>2, <2>3
<1>11. CASE CoordLimits BY <1>11 DEF CoordLimits, Coord, StopFor, Trouble
<1>12. CASE CoordWatch BY <1>12 DEF CoordWatch, Coord, Trouble
<1>13. CASE CoordAbandon BY <1>13 DEF CoordAbandon, Coord, Trouble
<1>14. CASE CoordStalls BY <1>14 DEF CoordStalls, Coord, StopFor, Trouble
<1>15. CASE CoordTally BY <1>15 DEF CoordTally, Coord, Trouble
<1>16. CASE CoordJoin BY <1>16 DEF CoordJoin, Coord, Trouble
<1>17. CASE \E w \in Worker : WorkerRecv(w)
  BY <1>17 DEF WorkerRecv, WorkerAt, Trouble
<1>18. CASE \E w \in Worker : WorkerCount(w)
  BY <1>18 DEF WorkerCount, WorkerAt, Trouble
<1>19. CASE \E w \in Worker : WorkerCheck(w)
  BY <1>19 DEF WorkerCheck, WorkerAt, Trouble
<1>20. CASE \E w \in Worker : WorkerSend(w)
  <2>w. PICK w \in Worker : WorkerSend(w)
    BY <1>20
  <2>1. Result(w, item[w]) \in Msg
    BY <2>w, <1>t, EntryAssumption DEF WorkerSend, WorkerAt, Result, Exited, Msg
  <2>2. /\ UNCHANGED msgs \/ msgs' = Append(msgs, Result(w, item[w]))
        /\ UNCHANGED <<spawnError, panicked, reason>>
    BY <2>w DEF WorkerSend, WorkerAt, Send, coord
  <2>3. QED
    BY <1>t, <2>1, <2>2, PutKeepsTrouble
<1>21. CASE \E w \in Worker : WorkerExit(w)
  <2>w. PICK w \in Worker : WorkerExit(w)
    BY <1>21
  <2>1. Exited(w, FALSE) \in Msg
    BY <2>w, <1>t, EntryAssumption DEF WorkerExit, WorkerAt, Result, Exited, Msg
  <2>2. /\ UNCHANGED msgs \/ msgs' = Append(msgs, Exited(w, FALSE))
        /\ UNCHANGED <<spawnError, panicked, reason>>
    BY <2>w DEF WorkerExit, WorkerAt, Send, coord
  <2>3. QED
    BY <1>t, <2>1, <2>2, PutKeepsTrouble
<1>22. CASE \E w \in Worker : FileStalls(w) BY <1>22 DEF FileStalls, Trouble
<1>23. CASE \E w \in Worker : WorkerFinish(w)
  BY <1>23 DEF WorkerFinish, WorkerAt, Trouble
<1>24. CASE \E w \in Worker : WorkerPanic(w)
  <2>w. PICK w \in Worker : WorkerPanic(w)
    BY <1>24
  <2>1. Exited(w, TRUE) \in Msg
    BY <2>w, <1>t, EntryAssumption DEF WorkerPanic, WorkerAt, Result, Exited, Msg
  <2>2. /\ UNCHANGED msgs \/ msgs' = Append(msgs, Exited(w, TRUE))
        /\ UNCHANGED <<spawnError, panicked, reason>>
    BY <2>w DEF WorkerPanic, WorkerAt, Send, coord
  <2>3. QED
    BY <1>t, <2>1, <2>2, PutKeepsTrouble
<1>25. CASE UNCHANGED vars BY <1>25 DEF vars, Trouble
<1>26. QED
  BY <1>1, <1>2, <1>3, <1>4, <1>5, <1>6, <1>7, <1>8, <1>9, <1>10, <1>11, <1>12,
     <1>13, <1>14, <1>15, <1>16, <1>17, <1>18, <1>19, <1>20, <1>21, <1>22, <1>23,
     <1>24, <1>25
  DEF Next, WalkStep, Coordinate, WorkerStep

\* The walker's control point.
LEMMA WalkerAgreesStep ==
    ASSUME TypeOK, CoordAgrees, WalkerAgrees, MessagesAgree, [Next]_vars
    PROVE  WalkerAgrees'
<1>t. /\ walker \in {"walk", "push", "count", "send", "exit", "drop", "done"}
      /\ held \in Entry \cup {None}
      /\ rx \in BOOLEAN /\ stop \in BOOLEAN /\ walkerDone \in BOOLEAN /\ panicked \in BOOLEAN
      /\ spawnError \in BOOLEAN /\ unscanned \in BOOLEAN
      /\ msgs \in Seq(Msg) /\ Len(msgs) <= MsgCap
      /\ toWalk \in SUBSET Entry
  BY DEF TypeOK
<1>s. stop /\ walker # "done" => Trouble({0})
  BY DEF CoordAgrees, Trouble
<1>k. Trouble({0}) => Trouble({0})'
  BY TroubleStays
<1>r. walker \notin {"drop", "done"} => rx
  BY DEF CoordAgrees, WalkerAgrees
<1> USE <1>t, <1>k
    DEF threads, counts, outcome, coord, WalkerAgrees
<1>1. CASE WalkNext BY <1>1, EntryAssumption DEF WalkNext, Walker
<1>2. CASE WalkEnd BY <1>2, <1>s DEF WalkEnd, Walker
<1>3. CASE WalkPush BY <1>3, <1>s DEF WalkPush, Walker
<1>4. CASE WalkCount BY <1>4 DEF WalkCount, Walker
<1>5. CASE WalkSend BY <1>5, <1>r DEF WalkSend, Walker, Send
<1>6. CASE WalkExit BY <1>6 DEF WalkExit, Walker, Send
<1>7. CASE WalkPanic
  <2>1. /\ msgs' = Append(msgs, Exited(0, TRUE)) /\ walker = "walk"
        /\ walker' = "drop" /\ UNCHANGED walkerDone
    BY <1>7, <1>r DEF WalkPanic, Walker, Send
  <2>2. Exited(0, TRUE) \in Msg /\ Exited(0, TRUE).panic /\ Exited(0, TRUE).who \in {0}
    BY DEF Exited, Msg
  <2>3. Trouble({0})'
    BY <2>1, <2>2, PutPanic
  <2>4. QED
    BY <2>1, <2>3
<1>8. CASE WalkDrop BY <1>8 DEF WalkDrop, Walker
<1>9. CASE CoordTick BY <1>9 DEF CoordTick, Coord
<1>10. CASE CoordRecv
  <2>1. msgs # <<>> /\ Head(msgs) = msgs[1] /\ 1 \in DOMAIN msgs
    BY <1>10, Taken DEF CoordRecv
  <2>2. MessageAgrees(Head(msgs))
    BY <2>1 DEF MessagesAgree
  <2>3. /\ walkerDone' = (walkerDone \/ (Head(msgs).kind = "exited" /\ Head(msgs).who = 0))
        /\ UNCHANGED <<walker, toWalk, held>>
    BY <1>10 DEF CoordRecv, Coord
  <2>4. QED
    BY <2>2, <2>3 DEF MessageAgrees
<1>11. CASE CoordLimits BY <1>11 DEF CoordLimits, Coord, StopFor
<1>12. CASE CoordWatch BY <1>12 DEF CoordWatch, Coord
<1>13. CASE CoordAbandon BY <1>13 DEF CoordAbandon, Coord
<1>14. CASE CoordStalls BY <1>14 DEF CoordStalls, Coord, StopFor
<1>15. CASE CoordTally BY <1>15 DEF CoordTally, Coord
<1>16. CASE CoordJoin BY <1>16 DEF CoordJoin, Coord
<1>17. CASE \E w \in Worker : WorkerRecv(w) BY <1>17 DEF WorkerRecv, WorkerAt
<1>18. CASE \E w \in Worker : WorkerCount(w) BY <1>18 DEF WorkerCount, WorkerAt
<1>19. CASE \E w \in Worker : WorkerCheck(w) BY <1>19 DEF WorkerCheck, WorkerAt
<1>20. CASE \E w \in Worker : WorkerSend(w) BY <1>20 DEF WorkerSend, WorkerAt, Send
<1>21. CASE \E w \in Worker : WorkerExit(w) BY <1>21 DEF WorkerExit, WorkerAt, Send
<1>22. CASE \E w \in Worker : FileStalls(w) BY <1>22 DEF FileStalls
<1>23. CASE \E w \in Worker : WorkerFinish(w) BY <1>23 DEF WorkerFinish, WorkerAt
<1>24. CASE \E w \in Worker : WorkerPanic(w)
  BY <1>24 DEF WorkerPanic, WorkerAt, Send
<1>25. CASE UNCHANGED vars BY <1>25 DEF vars
<1>26. QED
  BY <1>1, <1>2, <1>3, <1>4, <1>5, <1>6, <1>7, <1>8, <1>9, <1>10, <1>11, <1>12,
     <1>13, <1>14, <1>15, <1>16, <1>17, <1>18, <1>19, <1>20, <1>21, <1>22, <1>23,
     <1>24, <1>25
  DEF Next, WalkStep, Coordinate, WorkerStep

\* A message goes on agreeing with its thread until an exit notice of that
\* thread is received.
LEMMA MessageStays ==
    ASSUME TypeOK, WorkersAgree, NEW m \in Msg, MessageAgrees(m),
           CoordRecv => ~(Head(msgs).kind = "exited" /\ Head(msgs).who = m.who), [Next]_vars
    PROVE  MessageAgrees(m)'
<1>t. /\ walker \in {"walk", "push", "count", "send", "exit", "drop", "done"}
      /\ wpc \in [Worker -> {"none", "recv", "count", "process", "check", "send",
                           "exit", "gone"}]
      /\ live \in SUBSET Worker
      /\ flag \in SUBSET Worker
      /\ rx \in BOOLEAN /\ stop \in BOOLEAN /\ walkerDone \in BOOLEAN /\ panicked \in BOOLEAN
      /\ spawnError \in BOOLEAN /\ unscanned \in BOOLEAN
      /\ started \in 0..(2 * N + 1)
  BY DEF TypeOK
<1>m. m.who \in Worker \cup {0}
  BY DEF Msg
<1> USE <1>t, <1>m
    DEF threads, counts, outcome, coord, MessageAgrees
<1>1. CASE WalkNext BY <1>1 DEF WalkNext, Walker
<1>2. CASE WalkEnd BY <1>2 DEF WalkEnd, Walker
<1>3. CASE WalkPush BY <1>3 DEF WalkPush, Walker
<1>4. CASE WalkCount BY <1>4 DEF WalkCount, Walker
<1>5. CASE WalkSend BY <1>5 DEF WalkSend, Walker, Send
<1>6. CASE WalkExit BY <1>6 DEF WalkExit, Walker, Send
<1>7. CASE WalkPanic BY <1>7 DEF WalkPanic, Walker, Send
<1>8. CASE WalkDrop BY <1>8 DEF WalkDrop, Walker
<1>9. CASE CoordTick BY <1>9 DEF CoordTick, Coord
<1>10. CASE CoordRecv BY <1>10 DEF CoordRecv, Coord
<1>11. CASE CoordLimits BY <1>11 DEF CoordLimits, Coord, StopFor
<1>12. CASE CoordWatch BY <1>12 DEF CoordWatch, Coord
<1>13. CASE CoordAbandon
  <2>1. /\ flag' = flag \cup {wi} /\ UNCHANGED <<walker, walkerDone>>
        /\ live \cup flag \subseteq live' \cup flag'
        /\ wpc' = wpc \/ wpc' = [wpc EXCEPT ![started + 1] = "recv"]
    BY <1>13 DEF CoordAbandon, Coord
  <2>2. started + 1 \in Worker /\ wpc[started + 1] = "none"
    BY SizeAssumption DEF WorkersAgree, ThreadsBounded, Worker
  <2>3. QED
    BY <2>1, <2>2
<1>14. CASE CoordStalls BY <1>14 DEF CoordStalls, Coord, StopFor
<1>15. CASE CoordTally BY <1>15 DEF CoordTally, Coord
<1>16. CASE CoordJoin BY <1>16 DEF CoordJoin, Coord
<1>17. CASE \E w \in Worker : WorkerRecv(w)
  <2>1. PICK u \in Worker : WorkerRecv(u)
    BY <1>17
  <2>2. QED
    BY <2>1 DEF WorkerRecv, WorkerAt
<1>18. CASE \E w \in Worker : WorkerCount(w)
  <2>1. PICK u \in Worker : WorkerCount(u)
    BY <1>18
  <2>2. QED
    BY <2>1 DEF WorkerCount, WorkerAt
<1>19. CASE \E w \in Worker : WorkerCheck(w)
  <2>1. PICK u \in Worker : WorkerCheck(u)
    BY <1>19
  <2>2. QED
    BY <2>1 DEF WorkerCheck, WorkerAt
<1>20. CASE \E w \in Worker : WorkerSend(w)
  <2>1. PICK u \in Worker : WorkerSend(u)
    BY <1>20
  <2>2. QED
    BY <2>1 DEF WorkerSend, WorkerAt
<1>21. CASE \E w \in Worker : WorkerExit(w)
  <2>1. PICK u \in Worker : WorkerExit(u)
    BY <1>21
  <2>2. QED
    BY <2>1 DEF WorkerExit, WorkerAt
<1>22. CASE \E w \in Worker : FileStalls(w) BY <1>22 DEF FileStalls
<1>23. CASE \E w \in Worker : WorkerFinish(w)
  <2>1. PICK u \in Worker : WorkerFinish(u)
    BY <1>23
  <2>2. QED
    BY <2>1 DEF WorkerFinish, WorkerAt
<1>24. CASE \E w \in Worker : WorkerPanic(w)
  <2>1. PICK u \in Worker : WorkerPanic(u)
    BY <1>24
  <2>2. QED
    BY <2>1 DEF WorkerPanic, WorkerAt
<1>25. CASE UNCHANGED vars BY <1>25 DEF vars
<1>26. QED
  BY <1>1, <1>2, <1>3, <1>4, <1>5, <1>6, <1>7, <1>8, <1>9, <1>10, <1>11, <1>12,
     <1>13, <1>14, <1>15, <1>16, <1>17, <1>18, <1>19, <1>20, <1>21, <1>22, <1>23,
     <1>24, <1>25
  DEF Next, WalkStep, Coordinate, WorkerStep

\* A thread that has not ended sends.
LEMMA PutAgrees ==
    ASSUME msgs \in Seq(Msg), NEW m \in Msg, msgs' = Append(msgs, m), MessagesAgree,
           \A x \in Msg : MessageAgrees(x) => MessageAgrees(x)',
           MessageAgrees(m)',
           \A x \in Msg : MessageAgrees(x) /\ x.kind = "exited" => x.who # m.who
    PROVE  MessagesAgree'
<1> DEFINE n == Len(msgs)
<1>1. /\ n \in Nat /\ DOMAIN msgs = 1..n /\ DOMAIN msgs' = 1..(n + 1)
      /\ \A i \in 1..n : msgs'[i] = msgs[i] /\ msgs[i] \in Msg
      /\ msgs'[n + 1] = m
  BY Put
<1>2. \A i \in 1..n : MessageAgrees(msgs[i])
  BY <1>1 DEF MessagesAgree
<1>3. \A i \in 1..n : MessageAgrees(msgs[i])'
  <2>1. TAKE i \in 1..n
  <2>2. PICK x \in Msg : x = msgs[i] /\ x = msgs'[i]
    BY <1>1
  <2>3. MessageAgrees(x)'
    BY <1>2, <2>2
  <2>4. QED
    BY <2>2, <2>3 DEF MessageAgrees
<1>4. \A i \in 1..(n + 1) : MessageAgrees(msgs[i])'
  BY <1>1, <1>3 DEF MessageAgrees
<1>5. ASSUME NEW i \in 1..(n + 1), NEW j \in 1..(n + 1), i < j, msgs'[i].kind = "exited"
      PROVE  msgs'[j].who # msgs'[i].who
  <2>1. i \in 1..n /\ msgs'[i] = msgs[i] /\ msgs[i] \in Msg
    BY <1>1, <1>5
  <2>2. CASE j = n + 1 BY <1>1, <1>2, <1>5, <2>1, <2>2
  <2>3. CASE j # n + 1
    <3>1. j \in 1..n /\ msgs'[j] = msgs[j]
      BY <1>1, <2>3
    <3>2. QED BY <1>1, <1>5, <2>1, <3>1 DEF MessagesAgree
  <2>4. QED BY <2>2, <2>3
<1>6. QED
  BY <1>1, <1>4, <1>5 DEF MessagesAgree

\* A message is received.
LEMMA TakeAgrees ==
    ASSUME TypeOK, WorkersAgree, MessagesAgree, CoordRecv
    PROVE  MessagesAgree'
<1> DEFINE n == Len(msgs)
<1>1. msgs \in Seq(Msg) /\ msgs # <<>> /\ msgs' = Tail(msgs)
  BY DEF CoordRecv, TypeOK
<1>2. /\ n \in Nat \ {0} /\ DOMAIN msgs = 1..n /\ DOMAIN msgs' = 1..(n - 1)
      /\ \A i \in 1..(n - 1) : msgs'[i] = msgs[i + 1] /\ msgs[i + 1] \in Msg
      /\ Head(msgs) = msgs[1]
  BY <1>1, Taken
<1>3. \A i \in 1..(n - 1) : MessageAgrees(msgs[i])'
  <2>1. TAKE i \in 1..(n - 1)
  <2>2. PICK x \in Msg : x = msgs[i + 1] /\ x = msgs'[i]
    BY <1>2
  <2>3. MessageAgrees(x)
    BY <1>2, <2>2 DEF MessagesAgree
  <2>4. ~(Head(msgs).kind = "exited" /\ Head(msgs).who = x.who)
    BY <1>2, <2>2 DEF MessagesAgree
  <2>5. [Next]_vars
    BY DEF Next, Coordinate
  <2>6. MessageAgrees(x)'
    BY <2>3, <2>4, <2>5, MessageStays
  <2>7. QED
    BY <2>2, <2>6 DEF MessageAgrees
<1>4. ASSUME NEW i \in 1..(n - 1), NEW j \in 1..(n - 1), i < j, msgs'[i].kind = "exited"
      PROVE  msgs'[j].who # msgs'[i].who
  <2>1. i + 1 \in 1..n /\ j + 1 \in 1..n /\ i + 1 < j + 1
    BY <1>2, <1>4
  <2>2. QED
    BY <1>2, <1>4, <2>1 DEF MessagesAgree
<1>5. QED
  BY <1>2, <1>3, <1>4 DEF MessagesAgree

\* The channel stays as it is.
LEMMA SameAgrees ==
    ASSUME TypeOK, UNCHANGED msgs, MessagesAgree,
           \A x \in Msg : MessageAgrees(x) => MessageAgrees(x)'
    PROVE  MessagesAgree'
<1>1. \A i \in DOMAIN msgs : msgs[i] \in Msg /\ MessageAgrees(msgs[i])
  BY DEF TypeOK, MessagesAgree
<1>2. \A i \in DOMAIN msgs : MessageAgrees(msgs[i])'
  <2>1. TAKE i \in DOMAIN msgs
  <2>2. PICK x \in Msg : x = msgs[i]
    BY <1>1
  <2>3. MessageAgrees(x)'
    BY <1>1, <2>2
  <2>4. QED
    BY <2>2, <2>3 DEF MessageAgrees
<1>3. QED
  BY <1>2 DEF MessagesAgree

\* The messages in the channel and their order.
LEMMA MessagesAgreeStep ==
    ASSUME TypeOK, WorkersAgree, WalkerAgrees, MessagesAgree, [Next]_vars
    PROVE  MessagesAgree'
<1>t. /\ msgs \in Seq(Msg) /\ Len(msgs) <= MsgCap
      /\ held \in Entry \cup {None}
      /\ item \in [Worker -> Entry \cup {None}]
      /\ walker \in {"walk", "push", "count", "send", "exit", "drop", "done"}
      /\ wpc \in [Worker -> {"none", "recv", "count", "process", "check", "send",
                           "exit", "gone"}]
      /\ rx \in BOOLEAN /\ stop \in BOOLEAN /\ walkerDone \in BOOLEAN /\ panicked \in BOOLEAN
      /\ spawnError \in BOOLEAN /\ unscanned \in BOOLEAN
      /\ live \in SUBSET Worker
      /\ flag \in SUBSET Worker
      /\ started \in 0..(2 * N + 1)
  BY DEF TypeOK
<1>c. ~CoordRecv => \A x \in Msg : MessageAgrees(x) => MessageAgrees(x)'
  BY MessageStays
<1>d. ~CoordRecv /\ UNCHANGED msgs => MessagesAgree'
  BY <1>c, SameAgrees
<1> USE <1>t
    DEF threads, counts, outcome, coord
<1>1. CASE WalkNext BY <1>1, <1>d DEF WalkNext, Walker, CoordRecv, Coord
<1>2. CASE WalkEnd BY <1>2, <1>d DEF WalkEnd, Walker, CoordRecv, Coord
<1>3. CASE WalkPush BY <1>3, <1>d DEF WalkPush, Walker, CoordRecv, Coord
<1>4. CASE WalkCount BY <1>4, <1>d DEF WalkCount, Walker, CoordRecv, Coord
<1>5. CASE WalkSend
  <2>n. ~CoordRecv
    BY <1>5 DEF WalkSend, Walker, coord, CoordRecv, Coord
  <2>1. Result(0, held) \in Msg
    BY <1>5, EntryAssumption DEF WalkSend, Walker, Result, Exited, Msg
  <2>2. ~walkerDone /\ walker \notin {"drop", "done"}
    BY <1>5 DEF WalkSend, Walker, WalkerAgrees
  <2>3. CASE UNCHANGED msgs
    BY <1>d, <2>n, <2>3
  <2>4. CASE msgs' = Append(msgs, Result(0, held))
    <3>1. PICK m \in Msg : m = Result(0, held)
      BY <2>1
    <3>2. m.who = 0 /\ m.kind = "result" /\ m.entry # None
      BY <3>1, <1>5, EntryAssumption
      DEF WalkSend, Walker, Result, Exited, WorkersAgree, WalkerAgrees
    <3>3. MessageAgrees(m)'
      BY <1>5, <2>2, <3>2 DEF WalkSend, Walker, MessageAgrees
    <3>4. \A x \in Msg : MessageAgrees(x) /\ x.kind = "exited" => x.who # m.who
      BY <2>2, <3>2 DEF MessageAgrees
    <3>5. QED
      BY <1>c, <2>n, <2>4, <3>1, <3>3, <3>4, PutAgrees
  <2>5. QED
    BY <1>5, <2>3, <2>4 DEF WalkSend, Send
<1>6. CASE WalkExit
  <2>n. ~CoordRecv
    BY <1>6 DEF WalkExit, Walker, coord, CoordRecv, Coord
  <2>1. Exited(0, FALSE) \in Msg
    BY <1>6, EntryAssumption DEF WalkExit, Walker, Result, Exited, Msg
  <2>2. ~walkerDone /\ walker \notin {"drop", "done"}
    BY <1>6 DEF WalkExit, Walker, WalkerAgrees
  <2>3. CASE UNCHANGED msgs
    BY <1>d, <2>n, <2>3
  <2>4. CASE msgs' = Append(msgs, Exited(0, FALSE))
    <3>1. PICK m \in Msg : m = Exited(0, FALSE)
      BY <2>1
    <3>2. m.who = 0 /\ m.kind = "exited"
      BY <3>1, <1>6, EntryAssumption
      DEF WalkExit, Walker, Result, Exited, WorkersAgree, WalkerAgrees
    <3>3. MessageAgrees(m)'
      BY <1>6, <2>2, <3>2 DEF WalkExit, Walker, MessageAgrees
    <3>4. \A x \in Msg : MessageAgrees(x) /\ x.kind = "exited" => x.who # m.who
      BY <2>2, <3>2 DEF MessageAgrees
    <3>5. QED
      BY <1>c, <2>n, <2>4, <3>1, <3>3, <3>4, PutAgrees
  <2>5. QED
    BY <1>6, <2>3, <2>4 DEF WalkExit, Send
<1>7. CASE WalkPanic
  <2>n. ~CoordRecv
    BY <1>7 DEF WalkPanic, Walker, coord, CoordRecv, Coord
  <2>1. Exited(0, TRUE) \in Msg
    BY <1>7, EntryAssumption DEF WalkPanic, Walker, Result, Exited, Msg
  <2>2. ~walkerDone /\ walker \notin {"drop", "done"}
    BY <1>7 DEF WalkPanic, Walker, WalkerAgrees
  <2>3. CASE UNCHANGED msgs
    BY <1>d, <2>n, <2>3
  <2>4. CASE msgs' = Append(msgs, Exited(0, TRUE))
    <3>1. PICK m \in Msg : m = Exited(0, TRUE)
      BY <2>1
    <3>2. m.who = 0 /\ m.kind = "exited"
      BY <3>1, <1>7, EntryAssumption
      DEF WalkPanic, Walker, Result, Exited, WorkersAgree, WalkerAgrees
    <3>3. MessageAgrees(m)'
      BY <1>7, <2>2, <3>2 DEF WalkPanic, Walker, MessageAgrees
    <3>4. \A x \in Msg : MessageAgrees(x) /\ x.kind = "exited" => x.who # m.who
      BY <2>2, <3>2 DEF MessageAgrees
    <3>5. QED
      BY <1>c, <2>n, <2>4, <3>1, <3>3, <3>4, PutAgrees
  <2>5. QED
    BY <1>7, <2>3, <2>4 DEF WalkPanic, Send
<1>8. CASE WalkDrop BY <1>8, <1>d DEF WalkDrop, Walker, CoordRecv, Coord
<1>9. CASE CoordTick BY <1>9, <1>d DEF CoordTick, Coord, CoordRecv, Coord
<1>10. CASE CoordRecv BY <1>10, TakeAgrees DEF CoordRecv, Coord
<1>11. CASE CoordLimits
  BY <1>11, <1>d DEF CoordLimits, Coord, StopFor, CoordRecv, Coord
<1>12. CASE CoordWatch BY <1>12, <1>d DEF CoordWatch, Coord, CoordRecv, Coord
<1>13. CASE CoordAbandon BY <1>13, <1>d DEF CoordAbandon, Coord, CoordRecv, Coord
<1>14. CASE CoordStalls
  BY <1>14, <1>d DEF CoordStalls, Coord, StopFor, CoordRecv, Coord
<1>15. CASE CoordTally BY <1>15, <1>d DEF CoordTally, Coord, CoordRecv, Coord
<1>16. CASE CoordJoin BY <1>16, <1>d DEF CoordJoin, Coord, CoordRecv, Coord
<1>17. CASE \E w \in Worker : WorkerRecv(w)
  BY <1>17, <1>d DEF WorkerRecv, WorkerAt, CoordRecv, Coord
<1>18. CASE \E w \in Worker : WorkerCount(w)
  BY <1>18, <1>d DEF WorkerCount, WorkerAt, CoordRecv, Coord
<1>19. CASE \E w \in Worker : WorkerCheck(w)
  BY <1>19, <1>d DEF WorkerCheck, WorkerAt, CoordRecv, Coord
<1>20. CASE \E w \in Worker : WorkerSend(w)
  <2>w. PICK w \in Worker : WorkerSend(w)
    BY <1>20
  <2>n. ~CoordRecv
    BY <2>w DEF WorkerSend, WorkerAt, coord, CoordRecv, Coord
  <2>1. Result(w, item[w]) \in Msg
    BY <2>w, EntryAssumption DEF WorkerSend, WorkerAt, Result, Exited, Msg
  <2>2. w \in live \cup flag /\ w # 0 /\ wpc[w] # "gone"
    <3>1. wpc[w] \notin {"none", "gone"}
      BY <2>w DEF WorkerSend, WorkerAt
    <3>2. w \in Nat \ {0} /\ started \in Nat
      BY SizeAssumption DEF Worker
    <3>3. QED
      BY <3>1, <3>2 DEF WorkersAgree
  <2>3. CASE UNCHANGED msgs
    BY <1>d, <2>n, <2>3
  <2>4. CASE msgs' = Append(msgs, Result(w, item[w]))
    <3>1. PICK m \in Msg : m = Result(w, item[w])
      BY <2>1
    <3>2. m.who = w /\ m.kind = "result" /\ m.entry # None
      BY <3>1, <2>w, EntryAssumption
      DEF WorkerSend, WorkerAt, Result, Exited, WorkersAgree, WalkerAgrees
    <3>3. MessageAgrees(m)'
      BY <2>w, <2>2, <3>2 DEF WorkerSend, WorkerAt, MessageAgrees
    <3>4. \A x \in Msg : MessageAgrees(x) /\ x.kind = "exited" => x.who # m.who
      BY <2>2, <3>2 DEF MessageAgrees
    <3>5. QED
      BY <1>c, <2>n, <2>4, <3>1, <3>3, <3>4, PutAgrees
  <2>5. QED
    BY <2>w, <2>3, <2>4 DEF WorkerSend, Send
<1>21. CASE \E w \in Worker : WorkerExit(w)
  <2>w. PICK w \in Worker : WorkerExit(w)
    BY <1>21
  <2>n. ~CoordRecv
    BY <2>w DEF WorkerExit, WorkerAt, coord, CoordRecv, Coord
  <2>1. Exited(w, FALSE) \in Msg
    BY <2>w, EntryAssumption DEF WorkerExit, WorkerAt, Result, Exited, Msg
  <2>2. w \in live \cup flag /\ w # 0 /\ wpc[w] # "gone"
    <3>1. wpc[w] \notin {"none", "gone"}
      BY <2>w DEF WorkerExit, WorkerAt
    <3>2. w \in Nat \ {0} /\ started \in Nat
      BY SizeAssumption DEF Worker
    <3>3. QED
      BY <3>1, <3>2 DEF WorkersAgree
  <2>3. CASE UNCHANGED msgs
    BY <1>d, <2>n, <2>3
  <2>4. CASE msgs' = Append(msgs, Exited(w, FALSE))
    <3>1. PICK m \in Msg : m = Exited(w, FALSE)
      BY <2>1
    <3>2. m.who = w /\ m.kind = "exited"
      BY <3>1, <2>w, EntryAssumption
      DEF WorkerExit, WorkerAt, Result, Exited, WorkersAgree, WalkerAgrees
    <3>3. MessageAgrees(m)'
      BY <2>w, <2>2, <3>2 DEF WorkerExit, WorkerAt, MessageAgrees
    <3>4. \A x \in Msg : MessageAgrees(x) /\ x.kind = "exited" => x.who # m.who
      BY <2>2, <3>2 DEF MessageAgrees
    <3>5. QED
      BY <1>c, <2>n, <2>4, <3>1, <3>3, <3>4, PutAgrees
  <2>5. QED
    BY <2>w, <2>3, <2>4 DEF WorkerExit, Send
<1>22. CASE \E w \in Worker : FileStalls(w)
  BY <1>22, <1>d DEF FileStalls, CoordRecv, Coord
<1>23. CASE \E w \in Worker : WorkerFinish(w)
  BY <1>23, <1>d DEF WorkerFinish, WorkerAt, CoordRecv, Coord
<1>24. CASE \E w \in Worker : WorkerPanic(w)
  <2>w. PICK w \in Worker : WorkerPanic(w)
    BY <1>24
  <2>n. ~CoordRecv
    BY <2>w DEF WorkerPanic, WorkerAt, coord, CoordRecv, Coord
  <2>1. Exited(w, TRUE) \in Msg
    BY <2>w, EntryAssumption DEF WorkerPanic, WorkerAt, Result, Exited, Msg
  <2>2. w \in live \cup flag /\ w # 0 /\ wpc[w] # "gone"
    <3>1. wpc[w] \notin {"none", "gone"}
      BY <2>w DEF WorkerPanic, WorkerAt
    <3>2. w \in Nat \ {0} /\ started \in Nat
      BY SizeAssumption DEF Worker
    <3>3. QED
      BY <3>1, <3>2 DEF WorkersAgree
  <2>3. CASE UNCHANGED msgs
    BY <1>d, <2>n, <2>3
  <2>4. CASE msgs' = Append(msgs, Exited(w, TRUE))
    <3>1. PICK m \in Msg : m = Exited(w, TRUE)
      BY <2>1
    <3>2. m.who = w /\ m.kind = "exited"
      BY <3>1, <2>w, EntryAssumption
      DEF WorkerPanic, WorkerAt, Result, Exited, WorkersAgree, WalkerAgrees
    <3>3. MessageAgrees(m)'
      BY <2>w, <2>2, <3>2 DEF WorkerPanic, WorkerAt, MessageAgrees
    <3>4. \A x \in Msg : MessageAgrees(x) /\ x.kind = "exited" => x.who # m.who
      BY <2>2, <3>2 DEF MessageAgrees
    <3>5. QED
      BY <1>c, <2>n, <2>4, <3>1, <3>3, <3>4, PutAgrees
  <2>5. QED
    BY <2>w, <2>3, <2>4 DEF WorkerPanic, Send
<1>25. CASE UNCHANGED vars BY <1>25, <1>d DEF vars, CoordRecv, Coord
<1>26. QED
  BY <1>1, <1>2, <1>3, <1>4, <1>5, <1>6, <1>7, <1>8, <1>9, <1>10, <1>11, <1>12,
     <1>13, <1>14, <1>15, <1>16, <1>17, <1>18, <1>19, <1>20, <1>21, <1>22, <1>23,
     <1>24, <1>25
  DEF Next, WalkStep, Coordinate, WorkerStep

\* The parts of CountsAgree.
Balance ==
    enqueued + (IF walker = "count" THEN 1 ELSE 0)
      = dequeued + Len(queue) + Cardinality(Counting)
TallyAgrees == ~rx /\ reason = "none" => queue = <<>>

\* The counters, the queue and the workers that have not counted.
LEMMA BalanceStep ==
    ASSUME TypeOK, WorkersAgree, WalkerAgrees, Balance, [Next]_vars
    PROVE  Balance'
<1>t. /\ queue \in Seq(Entry) /\ Len(queue) <= QueueCap
      /\ held \in Entry \cup {None}
      /\ wpc \in [Worker -> {"none", "recv", "count", "process", "check", "send",
                           "exit", "gone"}]
      /\ enqueued \in Nat
      /\ dequeued \in Nat
      /\ started \in 0..(2 * N + 1)
  BY DEF TypeOK
<1>f. IsFiniteSet(Counting) /\ Cardinality(Counting) \in Nat
  BY WorkersFinite DEF Counting
<1> USE <1>t
    DEF threads, counts, outcome, coord, Balance
<1>1. CASE WalkNext
  <2>1. Counting' = Counting
    BY <1>1 DEF WalkNext, Walker, Counting
  <2>2. QED
    BY <1>1, <2>1 DEF WalkNext, Walker
<1>2. CASE WalkEnd
  <2>1. Counting' = Counting
    BY <1>2 DEF WalkEnd, Walker, Counting
  <2>2. QED
    BY <1>2, <2>1 DEF WalkEnd, Walker
<1>3. CASE WalkPush
  <2>1. /\ Counting' = Counting /\ walker = "push" /\ held \in Entry
        /\ UNCHANGED <<enqueued, dequeued>>
    BY <1>3 DEF WalkPush, Walker, Counting, WalkerAgrees
  <2>2. CASE queue' = Append(queue, held) /\ walker' = "count"
    <3>1. Len(queue') = Len(queue) + 1 /\ Len(queue) \in Nat
      BY <2>1, <2>2, Put
    <3>2. Cardinality(Counting') = Cardinality(Counting)
      BY <2>1
    <3>3. QED
      BY <1>f, <2>1, <2>2, <3>1, <3>2
  <2>3. CASE UNCHANGED queue /\ walker' = "exit"
    BY <2>1, <2>3
  <2>4. QED
    BY <1>3, <2>2, <2>3 DEF WalkPush, Walker
<1>4. CASE WalkCount
  <2>1. Counting' = Counting
    BY <1>4 DEF WalkCount, Walker, Counting
  <2>2. QED
    BY <1>4, <2>1 DEF WalkCount, Walker
<1>5. CASE WalkSend
  <2>1. Counting' = Counting
    BY <1>5 DEF WalkSend, Walker, Send, Counting
  <2>2. QED
    BY <1>5, <2>1 DEF WalkSend, Walker, Send
<1>6. CASE WalkExit
  <2>1. Counting' = Counting
    BY <1>6 DEF WalkExit, Walker, Send, Counting
  <2>2. QED
    BY <1>6, <2>1 DEF WalkExit, Walker, Send
<1>7. CASE WalkPanic
  <2>1. Counting' = Counting
    BY <1>7 DEF WalkPanic, Walker, Send, Counting
  <2>2. QED
    BY <1>7, <2>1 DEF WalkPanic, Walker, Send
<1>8. CASE WalkDrop
  <2>1. Counting' = Counting
    BY <1>8 DEF WalkDrop, Walker, Counting
  <2>2. QED
    BY <1>8, <2>1 DEF WalkDrop, Walker
<1>9. CASE CoordTick
  <2>1. Counting' = Counting
    BY <1>9 DEF CoordTick, Coord, Counting
  <2>2. QED
    BY <1>9, <2>1 DEF CoordTick, Coord
<1>10. CASE CoordRecv
  <2>1. Counting' = Counting
    BY <1>10 DEF CoordRecv, Coord, Counting
  <2>2. QED
    BY <1>10, <2>1 DEF CoordRecv, Coord
<1>11. CASE CoordLimits
  <2>1. Counting' = Counting
    BY <1>11 DEF CoordLimits, Coord, StopFor, Counting
  <2>2. QED
    BY <1>11, <2>1 DEF CoordLimits, Coord, StopFor
<1>12. CASE CoordWatch
  <2>1. Counting' = Counting
    BY <1>12 DEF CoordWatch, Coord, Counting
  <2>2. QED
    BY <1>12, <2>1 DEF CoordWatch, Coord
<1>13. CASE CoordAbandon
  <2>1. started + 1 \in Worker /\ wpc[started + 1] = "none"
    BY SizeAssumption DEF WorkersAgree, ThreadsBounded, Worker
  <2>2. wpc' = wpc \/ wpc' = [wpc EXCEPT ![started + 1] = "recv"]
    BY <1>13 DEF CoordAbandon
  <2>3. Counting' = Counting
    BY <2>1, <2>2 DEF Counting
  <2>4. QED
    BY <1>13, <2>3 DEF CoordAbandon, Coord
<1>14. CASE CoordStalls
  <2>1. Counting' = Counting
    BY <1>14 DEF CoordStalls, Coord, StopFor, Counting
  <2>2. QED
    BY <1>14, <2>1 DEF CoordStalls, Coord, StopFor
<1>15. CASE CoordTally
  <2>1. Counting' = Counting
    BY <1>15 DEF CoordTally, Coord, Counting
  <2>2. QED
    BY <1>15, <2>1 DEF CoordTally, Coord
<1>16. CASE CoordJoin
  <2>1. Counting' = Counting
    BY <1>16 DEF CoordJoin, Coord, Counting
  <2>2. QED
    BY <1>16, <2>1 DEF CoordJoin, Coord
<1>17. CASE \E w \in Worker : WorkerRecv(w)
  <2>1. PICK u \in Worker : WorkerRecv(u)
    BY <1>17
  <2>2. u \notin Counting /\ UNCHANGED <<walker, enqueued, dequeued>>
    BY <2>1 DEF WorkerRecv, WorkerAt, Counting
  <2>3. CASE queue # <<>>
    <3>1. Counting' = Counting \cup {u} /\ queue' = Tail(queue)
      BY <2>1, <2>3 DEF WorkerRecv, WorkerAt, Counting
    <3>2. Cardinality(Counting') = Cardinality(Counting) + 1
      BY <1>f, <2>2, <3>1, FS_AddElement
    <3>3. Len(queue') = Len(queue) - 1 /\ Len(queue) \in Nat
      BY <2>3, <3>1, Taken
    <3>4. QED
      BY <1>f, <2>2, <3>2, <3>3
  <2>4. CASE queue = <<>>
    <3>1. Counting' = Counting /\ UNCHANGED queue
      BY <2>1, <2>4 DEF WorkerRecv, WorkerAt, Counting
    <3>2. QED
      BY <2>2, <3>1
  <2>5. QED
    BY <2>3, <2>4
<1>18. CASE \E w \in Worker : WorkerCount(w)
  <2>1. PICK u \in Worker : WorkerCount(u)
    BY <1>18
  <2>2. u \in Counting /\ UNCHANGED <<walker, enqueued, queue>> /\ dequeued' = dequeued + 1
    BY <2>1 DEF WorkerCount, WorkerAt, Counting
  <2>3. Counting' = Counting \ {u}
    BY <2>1 DEF WorkerCount, WorkerAt, Counting
  <2>4. Cardinality(Counting') = Cardinality(Counting) - 1
    BY <1>f, <2>2, <2>3, FS_RemoveElement
  <2>5. Len(queue) \in Nat
    BY <1>t
  <2>6. QED
    BY <1>f, <2>2, <2>4, <2>5
<1>19. CASE \E w \in Worker : WorkerCheck(w)
  <2>1. PICK u \in Worker : WorkerCheck(u)
    BY <1>19
  <2>2. Counting' = Counting
    BY <2>1 DEF WorkerCheck, WorkerAt, Counting
  <2>3. QED
    BY <2>1, <2>2 DEF WorkerCheck, WorkerAt
<1>20. CASE \E w \in Worker : WorkerSend(w)
  <2>1. PICK u \in Worker : WorkerSend(u)
    BY <1>20
  <2>2. Counting' = Counting
    BY <2>1 DEF WorkerSend, WorkerAt, Counting
  <2>3. QED
    BY <2>1, <2>2 DEF WorkerSend, WorkerAt
<1>21. CASE \E w \in Worker : WorkerExit(w)
  <2>1. PICK u \in Worker : WorkerExit(u)
    BY <1>21
  <2>2. Counting' = Counting
    BY <2>1 DEF WorkerExit, WorkerAt, Counting
  <2>3. QED
    BY <2>1, <2>2 DEF WorkerExit, WorkerAt
<1>22. CASE \E w \in Worker : FileStalls(w)
  <2>1. Counting' = Counting
    BY <1>22 DEF FileStalls, Counting
  <2>2. QED
    BY <1>22, <2>1 DEF FileStalls
<1>23. CASE \E w \in Worker : WorkerFinish(w)
  <2>1. PICK u \in Worker : WorkerFinish(u)
    BY <1>23
  <2>2. Counting' = Counting
    BY <2>1 DEF WorkerFinish, WorkerAt, Counting
  <2>3. QED
    BY <2>1, <2>2 DEF WorkerFinish, WorkerAt
<1>24. CASE \E w \in Worker : WorkerPanic(w)
  <2>1. PICK u \in Worker : WorkerPanic(u)
    BY <1>24
  <2>2. Counting' = Counting
    BY <2>1 DEF WorkerPanic, WorkerAt, Counting
  <2>3. QED
    BY <2>1, <2>2 DEF WorkerPanic, WorkerAt
<1>25. CASE UNCHANGED vars BY <1>25 DEF vars, Counting
<1>26. QED
  BY <1>1, <1>2, <1>3, <1>4, <1>5, <1>6, <1>7, <1>8, <1>9, <1>10, <1>11, <1>12,
     <1>13, <1>14, <1>15, <1>16, <1>17, <1>18, <1>19, <1>20, <1>21, <1>22, <1>23,
     <1>24, <1>25
  DEF Next, WalkStep, Coordinate, WorkerStep

\* A queue that is not empty when the loop ends.
LEMMA TallyStep ==
    ASSUME TypeOK, CoordAgrees, WalkerAgrees, Balance, TallyAgrees, [Next]_vars
    PROVE  TallyAgrees'
<1>t. /\ queue \in Seq(Entry) /\ Len(queue) <= QueueCap
      /\ enqueued \in Nat
      /\ dequeued \in Nat
      /\ rx \in BOOLEAN /\ stop \in BOOLEAN /\ walkerDone \in BOOLEAN /\ panicked \in BOOLEAN
      /\ spawnError \in BOOLEAN /\ unscanned \in BOOLEAN
  BY DEF TypeOK
<1> USE <1>t
    DEF threads, counts, outcome, coord, TallyAgrees
<1>1. CASE WalkNext BY <1>1 DEF WalkNext, Walker
<1>2. CASE WalkEnd BY <1>2 DEF WalkEnd, Walker
<1>3. CASE WalkPush BY <1>3 DEF WalkPush, Walker, CoordAgrees, WalkerAgrees
<1>4. CASE WalkCount BY <1>4 DEF WalkCount, Walker
<1>5. CASE WalkSend BY <1>5 DEF WalkSend, Walker, Send
<1>6. CASE WalkExit BY <1>6 DEF WalkExit, Walker, Send
<1>7. CASE WalkPanic BY <1>7 DEF WalkPanic, Walker, Send
<1>8. CASE WalkDrop BY <1>8 DEF WalkDrop, Walker
<1>9. CASE CoordTick BY <1>9 DEF CoordTick, Coord
<1>10. CASE CoordRecv BY <1>10 DEF CoordRecv, Coord
<1>11. CASE CoordLimits BY <1>11 DEF CoordLimits, Coord, StopFor
<1>12. CASE CoordWatch BY <1>12 DEF CoordWatch, Coord
<1>13. CASE CoordAbandon BY <1>13 DEF CoordAbandon, Coord
<1>14. CASE CoordStalls BY <1>14 DEF CoordStalls, Coord, StopFor
<1>15. CASE CoordTally
  <2>1. walkerDone /\ UNCHANGED queue
    BY <1>15 DEF CoordTally, Coord, AllDead
  <2>2. walker # "count"
    BY <2>1 DEF WalkerAgrees
  <2>3. Len(queue) \in Nat /\ (Len(queue) = 0 => queue = <<>>)
    BY EmptySeq
  <2>4. Cardinality(Counting) \in Nat
    BY WorkersFinite DEF Counting
  <2>5. ~(enqueued > dequeued) => queue = <<>>
    BY <2>2, <2>3, <2>4 DEF Balance
  <2>6. QED
    BY <1>15, <2>1, <2>5 DEF CoordTally, Coord
<1>16. CASE CoordJoin BY <1>16 DEF CoordJoin, Coord
<1>17. CASE \E w \in Worker : WorkerRecv(w) BY <1>17 DEF WorkerRecv, WorkerAt
<1>18. CASE \E w \in Worker : WorkerCount(w) BY <1>18 DEF WorkerCount, WorkerAt
<1>19. CASE \E w \in Worker : WorkerCheck(w) BY <1>19 DEF WorkerCheck, WorkerAt
<1>20. CASE \E w \in Worker : WorkerSend(w) BY <1>20 DEF WorkerSend, WorkerAt, Send
<1>21. CASE \E w \in Worker : WorkerExit(w) BY <1>21 DEF WorkerExit, WorkerAt, Send
<1>22. CASE \E w \in Worker : FileStalls(w) BY <1>22 DEF FileStalls
<1>23. CASE \E w \in Worker : WorkerFinish(w) BY <1>23 DEF WorkerFinish, WorkerAt
<1>24. CASE \E w \in Worker : WorkerPanic(w)
  BY <1>24 DEF WorkerPanic, WorkerAt, Send
<1>25. CASE UNCHANGED vars BY <1>25 DEF vars
<1>26. QED
  BY <1>1, <1>2, <1>3, <1>4, <1>5, <1>6, <1>7, <1>8, <1>9, <1>10, <1>11, <1>12,
     <1>13, <1>14, <1>15, <1>16, <1>17, <1>18, <1>19, <1>20, <1>21, <1>22, <1>23,
     <1>24, <1>25
  DEF Next, WalkStep, Coordinate, WorkerStep

\* Together: the counters.
LEMMA CountsAgreeStep ==
    ASSUME TypeOK, CoordAgrees, WorkersAgree, WalkerAgrees, CountsAgree, [Next]_vars
    PROVE  CountsAgree'
<1>1. Balance /\ TallyAgrees
  BY DEF CountsAgree, Balance, TallyAgrees
<1>2. Balance' /\ TallyAgrees'
  BY <1>1, BalanceStep, TallyStep
<1>3. QED
  BY <1>2 DEF CountsAgree, Balance, TallyAgrees

\* The two kinds of message.
LEMMA MessageForms ==
    ASSUME NEW w \in Worker \cup {0}, NEW e \in Entry \cup {None}, NEW b \in BOOLEAN
    PROVE  /\ Result(w, e) \in Msg /\ Result(w, e).kind = "result" /\ Result(w, e).entry = e
           /\ Exited(w, b) \in Msg /\ Exited(w, b).kind = "exited" /\ Exited(w, b).panic = b
           /\ Exited(w, b).who = w
BY DEF Result, Exited, Msg

\* A message put into the channel joins those that were there.
LEMMA PutInChannel ==
    ASSUME msgs \in Seq(Msg), NEW m \in Msg, msgs' = Append(msgs, m), NEW e,
           InChannel(e) \/ (m.kind = "result" /\ m.entry = e)
    PROVE  InChannel(e)'
<1>1. /\ \A i \in DOMAIN msgs : i \in DOMAIN msgs' /\ msgs'[i] = msgs[i]
      /\ Len(msgs) + 1 \in DOMAIN msgs' /\ msgs'[Len(msgs) + 1] = m
  BY Put
<1>2. QED
  BY <1>1 DEF InChannel

\* So does a file put on the queue.
LEMMA PutInQueue ==
    ASSUME queue \in Seq(Entry), NEW f \in Entry, queue' = Append(queue, f), NEW e,
           InQueue(e) \/ f = e
    PROVE  InQueue(e)'
<1>1. /\ \A i \in DOMAIN queue : i \in DOMAIN queue' /\ queue'[i] = queue[i]
      /\ Len(queue) + 1 \in DOMAIN queue' /\ queue'[Len(queue) + 1] = f
  BY Put
<1>2. QED
  BY <1>1 DEF InQueue

\* What is not the head stays in the channel,
LEMMA TakeInChannel ==
    ASSUME msgs \in Seq(Msg), msgs # <<>>, msgs' = Tail(msgs), NEW e, InChannel(e)
    PROVE  InChannel(e)' \/ (Head(msgs).kind = "result" /\ Head(msgs).entry = e)
<1>1. PICK i \in DOMAIN msgs : msgs[i].kind = "result" /\ msgs[i].entry = e
  BY DEF InChannel
<1>2. CASE i = 1 BY <1>1, <1>2, Taken
<1>3. CASE i # 1
  <2>1. i - 1 \in DOMAIN msgs' /\ msgs'[i - 1] = msgs[i]
    BY <1>1, <1>3, Taken
  <2>2. QED BY <1>1, <2>1 DEF InChannel
<1>4. QED BY <1>2, <1>3

\* and on the queue.
LEMMA TakeInQueue ==
    ASSUME queue \in Seq(Entry), queue # <<>>, queue' = Tail(queue), NEW e, InQueue(e)
    PROVE  InQueue(e)' \/ Head(queue) = e
<1>1. PICK i \in DOMAIN queue : queue[i] = e
  BY DEF InQueue
<1>2. CASE i = 1 BY <1>1, <1>2, Taken
<1>3. CASE i # 1
  <2>1. i - 1 \in DOMAIN queue' /\ queue'[i - 1] = queue[i]
    BY <1>1, <1>3, Taken
  <2>2. QED BY <1>1, <2>1 DEF InQueue
<1>4. QED BY <1>2, <1>3

\* While the scan goes well an entry is always somewhere.
LEMMA LocatedStep ==
    ASSUME TypeOK, CoordAgrees, WorkersAgree, WalkerAgrees, ~Trouble(Worker \cup {0}),
           ~Trouble(Worker \cup {0})', flag = {}, flag' = {}, NEW e \in Entry,
           Located(e), [Next]_vars
    PROVE  Located(e)'
<1>t. /\ queue \in Seq(Entry) /\ Len(queue) <= QueueCap
      /\ held \in Entry \cup {None}
      /\ msgs \in Seq(Msg) /\ Len(msgs) <= MsgCap
      /\ wpc \in [Worker -> {"none", "recv", "count", "process", "check", "send",
                           "exit", "gone"}]
      /\ item \in [Worker -> Entry \cup {None}]
      /\ started \in 0..(2 * N + 1)
      /\ walker \in {"walk", "push", "count", "send", "exit", "drop", "done"}
      /\ rx \in BOOLEAN /\ stop \in BOOLEAN /\ walkerDone \in BOOLEAN /\ panicked \in BOOLEAN
      /\ spawnError \in BOOLEAN /\ unscanned \in BOOLEAN
  BY DEF TypeOK
<1>w. walker \notin {"drop", "done"} => rx /\ ~stop
  BY DEF CoordAgrees, WalkerAgrees, Trouble
<1>u. \A u \in Worker : wpc[u] \notin {"none", "gone"} => rx /\ ~stop /\ u \notin flag
  <2>1. TAKE u \in Worker
  <2>2. HAVE wpc[u] \notin {"none", "gone"}
  <2>3. u \in Nat /\ started \in Nat
    BY <1>t, SizeAssumption DEF Worker
  <2>4. live # {}
    BY <2>2, <2>3 DEF WorkersAgree
  <2>5. QED
    BY <2>4 DEF CoordAgrees, Trouble
<1> USE <1>t
    DEF threads, counts, outcome, coord, Located
<1>1. CASE WalkNext
  BY <1>1 DEF WalkNext, Walker, AtWorker, InQueue, InChannel, WalkerAgrees
<1>2. CASE WalkEnd BY <1>2 DEF WalkEnd, Walker, AtWorker, InQueue, InChannel
<1>3. CASE WalkPush
  <2>1. held \in Entry /\ ~stop
    BY <1>3, <1>w DEF WalkPush, Walker, WalkerAgrees
  <2>2. /\ queue' = Append(queue, held) /\ walker' = "count"
        /\ UNCHANGED <<toWalk, reported, wpc, item, msgs>>
    BY <1>3, <2>1 DEF WalkPush, Walker
  <2>3. InQueue(e) \/ held = e => InQueue(e)'
    BY <2>1, <2>2, PutInQueue
  <2>4. AtWorker(e) => AtWorker(e)'
    BY <2>2 DEF AtWorker
  <2>5. InChannel(e) => InChannel(e)'
    BY <2>2 DEF InChannel
  <2>6. QED
    BY <2>2, <2>3, <2>4, <2>5
<1>4. CASE WalkCount BY <1>4 DEF WalkCount, Walker, AtWorker, InQueue, InChannel
<1>5. CASE WalkSend
  <2>1. Result(0, held) \in Msg
    BY <1>5, EntryAssumption DEF WalkSend, Walker, Result, Exited, Msg
  <2>2. rx
    BY <1>5, <1>w DEF WalkSend
  <2>3. /\ msgs' = Append(msgs, Result(0, held))
        /\ UNCHANGED <<toWalk, reported, wpc, item, queue>>
    BY <1>5, <2>2 DEF WalkSend, Walker, Send
  <2>4. PICK m \in Msg : m = Result(0, held)
    BY <2>1
  <2>5. InChannel(e) \/ (m.kind = "result" /\ m.entry = e) => InChannel(e)'
    BY <2>3, <2>4, PutInChannel
  <2>6. AtWorker(e) => AtWorker(e)'
    BY <2>3 DEF AtWorker
  <2>7. InQueue(e) => InQueue(e)'
    BY <2>3 DEF InQueue
  <2>8. m.kind = "result" /\ m.entry = held
    BY <1>5, <2>4 DEF WalkSend, Result, Exited
  <2>9. QED
    BY <2>3, <2>5, <2>6, <2>7, <2>8
<1>6. CASE WalkExit
  <2>1. Exited(0, FALSE) \in Msg
    BY <1>6, EntryAssumption DEF WalkExit, Walker, Result, Exited, Msg
  <2>2. rx
    BY <1>6, <1>w DEF WalkExit
  <2>3. /\ msgs' = Append(msgs, Exited(0, FALSE))
        /\ UNCHANGED <<toWalk, reported, wpc, item, queue>>
    BY <1>6, <2>2 DEF WalkExit, Walker, Send
  <2>4. PICK m \in Msg : m = Exited(0, FALSE)
    BY <2>1
  <2>5. InChannel(e) \/ (m.kind = "result" /\ m.entry = e) => InChannel(e)'
    BY <2>3, <2>4, PutInChannel
  <2>6. AtWorker(e) => AtWorker(e)'
    BY <2>3 DEF AtWorker
  <2>7. InQueue(e) => InQueue(e)'
    BY <2>3 DEF InQueue
  <2>8. walker = "exit"
    BY <1>6, <2>4 DEF WalkExit, Result, Exited
  <2>9. QED
    BY <2>3, <2>5, <2>6, <2>7, <2>8
<1>7. CASE WalkPanic
  <2>1. msgs' = Append(msgs, Exited(0, TRUE))
    BY <1>7, <1>w DEF WalkPanic, Walker, Send
  <2>2. Exited(0, TRUE) \in Msg /\ Exited(0, TRUE).panic /\ Exited(0, TRUE).who = 0
    BY DEF Exited, Msg
  <2>3. QED
    BY <2>1, <2>2, PutPanic
<1>8. CASE WalkDrop BY <1>8 DEF WalkDrop, Walker, AtWorker, InQueue, InChannel
<1>9. CASE CoordTick BY <1>9 DEF CoordTick, Coord, AtWorker, InQueue, InChannel
<1>10. CASE CoordRecv
  <2>1. msgs # <<>> /\ msgs' = Tail(msgs)
    BY <1>10 DEF CoordRecv
  <2>2. /\ reported' = IF Head(msgs).kind = "result" THEN reported \cup {Head(msgs).entry}
                       ELSE reported
        /\ UNCHANGED <<toWalk, held, walker, queue, wpc, item>>
    BY <1>10 DEF CoordRecv, Coord
  <2>3. InChannel(e) => InChannel(e)' \/ e \in reported'
    BY <2>1, <2>2, TakeInChannel
  <2>4. AtWorker(e) => AtWorker(e)'
    BY <2>2 DEF AtWorker
  <2>5. InQueue(e) => InQueue(e)'
    BY <2>2 DEF InQueue
  <2>6. e \in toWalk \cup reported => e \in toWalk' \cup reported'
    BY <2>2
  <2>7. QED
    BY <2>2, <2>3, <2>4, <2>5, <2>6
<1>11. CASE CoordLimits
  BY <1>11 DEF CoordLimits, Coord, StopFor, AtWorker, InQueue, InChannel
<1>12. CASE CoordWatch BY <1>12 DEF CoordWatch, Coord, AtWorker, InQueue, InChannel
<1>13. CASE CoordAbandon
  <2>1. flag' # {}
    BY <1>13 DEF CoordAbandon
  <2>2. QED
    BY <2>1
<1>14. CASE CoordStalls
  BY <1>14 DEF CoordStalls, Coord, StopFor, AtWorker, InQueue, InChannel
<1>15. CASE CoordTally BY <1>15 DEF CoordTally, Coord, AtWorker, InQueue, InChannel
<1>16. CASE CoordJoin BY <1>16 DEF CoordJoin, Coord, AtWorker, InQueue, InChannel
<1>17. CASE \E w \in Worker : WorkerRecv(w)
  <2>1. PICK u \in Worker : WorkerRecv(u)
    BY <1>17
  <2>2. UNCHANGED <<toWalk, reported, held, walker, msgs>>
    BY <2>1 DEF WorkerRecv, WorkerAt
  <2>3. AtWorker(e) => AtWorker(e)'
    BY <2>1 DEF WorkerRecv, WorkerAt, AtWorker
  <2>4. InQueue(e) => InQueue(e)' \/ AtWorker(e)'
    <3>1. CASE queue # <<>>
      <4>1. /\ queue' = Tail(queue) /\ wpc' = [wpc EXCEPT ![u] = "count"]
            /\ item' = [item EXCEPT ![u] = Head(queue)]
        BY <2>1, <3>1 DEF WorkerRecv, WorkerAt
      <4>2. item'[u] = Head(queue) /\ wpc'[u] = "count"
        BY <4>1
      <4>3. QED
        BY <3>1, <4>1, <4>2, TakeInQueue DEF AtWorker
    <3>2. CASE queue = <<>>
      BY <2>1, <3>2 DEF WorkerRecv, InQueue
    <3>3. QED
      BY <3>1, <3>2
  <2>5. InChannel(e) => InChannel(e)'
    BY <2>2 DEF InChannel
  <2>6. QED
    BY <2>2, <2>3, <2>4, <2>5
<1>18. CASE \E w \in Worker : WorkerCount(w)
  <2>1. PICK u \in Worker : WorkerCount(u)
    BY <1>18
  <2>2. UNCHANGED <<toWalk, reported, held, walker, queue, msgs>>
    BY <2>1 DEF WorkerCount, WorkerAt
  <2>3. u \notin flag /\ ~stop
    BY <2>1, <1>u DEF WorkerCount, WorkerAt
  <2>4. AtWorker(e) => AtWorker(e)'
    BY <2>1, <2>3, EntryAssumption DEF WorkerCount, WorkerAt, AtWorker
  <2>5. InQueue(e) => InQueue(e)'
    BY <2>2 DEF InQueue
  <2>6. InChannel(e) => InChannel(e)'
    BY <2>2 DEF InChannel
  <2>7. QED
    BY <2>2, <2>4, <2>5, <2>6
<1>19. CASE \E w \in Worker : WorkerCheck(w)
  <2>1. PICK u \in Worker : WorkerCheck(u)
    BY <1>19
  <2>2. UNCHANGED <<toWalk, reported, held, walker, queue, msgs>>
    BY <2>1 DEF WorkerCheck, WorkerAt
  <2>3. u \notin flag /\ ~stop
    BY <2>1, <1>u DEF WorkerCheck, WorkerAt
  <2>4. AtWorker(e) => AtWorker(e)'
    BY <2>1, <2>3, EntryAssumption DEF WorkerCheck, WorkerAt, AtWorker
  <2>5. InQueue(e) => InQueue(e)'
    BY <2>2 DEF InQueue
  <2>6. InChannel(e) => InChannel(e)'
    BY <2>2 DEF InChannel
  <2>7. QED
    BY <2>2, <2>4, <2>5, <2>6
<1>20. CASE \E w \in Worker : WorkerSend(w)
  <2>1. PICK u \in Worker : WorkerSend(u)
    BY <1>20
  <2>2. rx
    BY <2>1, <1>u DEF WorkerSend, WorkerAt
  <2>3. PICK m \in Msg : m = Result(u, item[u]) /\ m.kind = "result" /\ m.entry = item[u]
    BY <2>1, MessageForms
  <2>4. /\ UNCHANGED <<toWalk, reported, held, walker, queue>>
        /\ msgs' = Append(msgs, m)
    BY <2>1, <2>2, <2>3 DEF WorkerSend, WorkerAt, Send
  <2>5. (AtWorker(e) => AtWorker(e)' \/ e = item[u])
    BY <2>1 DEF WorkerSend, WorkerAt, AtWorker
  <2>6. InQueue(e) => InQueue(e)'
    BY <2>4 DEF InQueue
  <2>7. InChannel(e) \/ (m.kind = "result" /\ m.entry = e) => InChannel(e)'
    BY <2>4, PutInChannel
  <2>8. QED
    BY <2>3, <2>4, <2>5, <2>6, <2>7
<1>21. CASE \E w \in Worker : WorkerExit(w)
  <2>1. PICK u \in Worker : WorkerExit(u)
    BY <1>21
  <2>2. rx
    BY <2>1, <1>u DEF WorkerExit, WorkerAt
  <2>3. PICK m \in Msg : m = Exited(u, FALSE)
    BY <2>1, MessageForms
  <2>4. /\ UNCHANGED <<toWalk, reported, held, walker, queue>>
        /\ msgs' = Append(msgs, m)
    BY <2>1, <2>2, <2>3 DEF WorkerExit, WorkerAt, Send
  <2>5. (AtWorker(e) => AtWorker(e)')
    BY <2>1 DEF WorkerExit, WorkerAt, AtWorker
  <2>6. InQueue(e) => InQueue(e)'
    BY <2>4 DEF InQueue
  <2>7. InChannel(e) \/ (m.kind = "result" /\ m.entry = e) => InChannel(e)'
    BY <2>4, PutInChannel
  <2>8. QED
    BY <2>3, <2>4, <2>5, <2>6, <2>7
<1>22. CASE \E w \in Worker : FileStalls(w)
  BY <1>22 DEF FileStalls, AtWorker, InQueue, InChannel
<1>23. CASE \E w \in Worker : WorkerFinish(w)
  <2>1. PICK u \in Worker : WorkerFinish(u)
    BY <1>23
  <2>2. UNCHANGED <<toWalk, reported, held, walker, queue, msgs>>
    BY <2>1 DEF WorkerFinish, WorkerAt
  <2>3. u \notin flag /\ ~stop
    BY <2>1, <1>u DEF WorkerFinish, WorkerAt
  <2>4. AtWorker(e) => AtWorker(e)'
    BY <2>1, <2>3, EntryAssumption DEF WorkerFinish, WorkerAt, AtWorker
  <2>5. InQueue(e) => InQueue(e)'
    BY <2>2 DEF InQueue
  <2>6. InChannel(e) => InChannel(e)'
    BY <2>2 DEF InChannel
  <2>7. QED
    BY <2>2, <2>4, <2>5, <2>6
<1>24. CASE \E w \in Worker : WorkerPanic(w)
  <2>1. PICK u \in Worker : WorkerPanic(u)
    BY <1>24
  <2>2. rx
    BY <2>1, <1>u DEF WorkerPanic, WorkerAt
  <2>3. PICK m \in Msg : m = Exited(u, TRUE) /\ m.panic /\ m.who = u
    BY MessageForms, ZenonT(30)
  <2>4. msgs' = Append(msgs, m)
    BY <2>1, <2>2, <2>3 DEF WorkerPanic, Send
  <2>5. QED
    BY <2>3, <2>4, PutPanic
<1>25. CASE UNCHANGED vars BY <1>25 DEF vars, AtWorker, InQueue, InChannel
<1>26. QED
  BY <1>1, <1>2, <1>3, <1>4, <1>5, <1>6, <1>7, <1>8, <1>9, <1>10, <1>11, <1>12,
     <1>13, <1>14, <1>15, <1>16, <1>17, <1>18, <1>19, <1>20, <1>21, <1>22, <1>23,
     <1>24, <1>25
  DEF Next, WalkStep, Coordinate, WorkerStep

\* An abandoned worker stays abandoned.
LEMMA AbandonedStay ==
    ASSUME TypeOK, [Next]_vars
    PROVE  flag \subseteq flag'
<1> USE
    DEF threads, counts, outcome, coord
<1>1. CASE WalkNext BY <1>1 DEF WalkNext, Walker
<1>2. CASE WalkEnd BY <1>2 DEF WalkEnd, Walker
<1>3. CASE WalkPush BY <1>3 DEF WalkPush, Walker
<1>4. CASE WalkCount BY <1>4 DEF WalkCount, Walker
<1>5. CASE WalkSend BY <1>5 DEF WalkSend, Walker, Send
<1>6. CASE WalkExit BY <1>6 DEF WalkExit, Walker, Send
<1>7. CASE WalkPanic BY <1>7 DEF WalkPanic, Walker, Send
<1>8. CASE WalkDrop BY <1>8 DEF WalkDrop, Walker
<1>9. CASE CoordTick BY <1>9 DEF CoordTick, Coord
<1>10. CASE CoordRecv BY <1>10 DEF CoordRecv, Coord
<1>11. CASE CoordLimits BY <1>11 DEF CoordLimits, Coord, StopFor
<1>12. CASE CoordWatch BY <1>12 DEF CoordWatch, Coord
<1>13. CASE CoordAbandon BY <1>13 DEF CoordAbandon, Coord
<1>14. CASE CoordStalls BY <1>14 DEF CoordStalls, Coord, StopFor
<1>15. CASE CoordTally BY <1>15 DEF CoordTally, Coord
<1>16. CASE CoordJoin BY <1>16 DEF CoordJoin, Coord
<1>17. CASE \E w \in Worker : WorkerRecv(w) BY <1>17 DEF WorkerRecv, WorkerAt
<1>18. CASE \E w \in Worker : WorkerCount(w) BY <1>18 DEF WorkerCount, WorkerAt
<1>19. CASE \E w \in Worker : WorkerCheck(w) BY <1>19 DEF WorkerCheck, WorkerAt
<1>20. CASE \E w \in Worker : WorkerSend(w) BY <1>20 DEF WorkerSend, WorkerAt, Send
<1>21. CASE \E w \in Worker : WorkerExit(w) BY <1>21 DEF WorkerExit, WorkerAt, Send
<1>22. CASE \E w \in Worker : FileStalls(w) BY <1>22 DEF FileStalls
<1>23. CASE \E w \in Worker : WorkerFinish(w) BY <1>23 DEF WorkerFinish, WorkerAt
<1>24. CASE \E w \in Worker : WorkerPanic(w)
  BY <1>24 DEF WorkerPanic, WorkerAt, Send
<1>25. CASE UNCHANGED vars BY <1>25 DEF vars
<1>26. QED
  BY <1>1, <1>2, <1>3, <1>4, <1>5, <1>6, <1>7, <1>8, <1>9, <1>10, <1>11, <1>12,
     <1>13, <1>14, <1>15, <1>16, <1>17, <1>18, <1>19, <1>20, <1>21, <1>22, <1>23,
     <1>24, <1>25
  DEF Next, WalkStep, Coordinate, WorkerStep

\* Together: no entry is lost.
LEMMA NoneLostStep ==
    ASSUME TypeOK, CoordAgrees, WorkersAgree, WalkerAgrees, NoneLost, [Next]_vars
    PROVE  NoneLost'
<1>1. SUFFICES ASSUME ~Trouble(Worker \cup {0})', flag' = {}
               PROVE  \A e \in Entry : Located(e)'
  BY DEF NoneLost
<1>2. ~Trouble(Worker \cup {0})
  BY <1>1, TroubleStays
<1>3. flag = {}
  BY <1>1, AbandonedStay
<1>4. QED
  BY <1>1, <1>2, <1>3, LocatedStep DEF NoneLost

\* The initial states satisfy the inductive invariant.
LEMMA InitIInv == Init => IInv
<1>1. SUFFICES ASSUME Init PROVE IInv
  OBVIOUS
<1>2. started \in 0..N /\ N \in Nat \ {0} /\ QueueCap \in Nat \ {0} /\ MsgCap \in Nat \ {0}
  BY <1>1, SizeAssumption DEF Init
<1>3. TypeOK
  <2>1. /\ rx \in BOOLEAN /\ stop \in BOOLEAN /\ walkerDone \in BOOLEAN
        /\ panicked \in BOOLEAN /\ spawnError \in BOOLEAN /\ unscanned \in BOOLEAN
    BY <1>1 DEF Init
  <2>2. live \in SUBSET Worker /\ started \in 0..(2 * N + 1)
    BY <1>1, <1>2 DEF Init, Worker
  <2>3. queue \in Seq(Entry) /\ msgs \in Seq(Msg) /\ Len(queue) = 0 /\ Len(msgs) = 0
    BY <1>1, EmptySeq DEF Init
  <2>4. QED
    BY <1>1, <1>2, <2>1, <2>2, <2>3 DEF Init, TypeOK
<1>4. CoordAgrees
  BY <1>1 DEF Init, CoordAgrees
<1>5. WorkersAgree
  <2>1. flag = {} /\ Cardinality(flag) = 0
    BY <1>1, FS_EmptySet DEF Init
  <2>2. live \subseteq 1..started /\ started <= N /\ started <= 2 * N
    BY <1>1, <1>2 DEF Init
  <2>3. \A w \in Worker : wpc[w] = (IF w <= started THEN "recv" ELSE "none") /\ w \in Nat \ {0}
    BY <1>1, <1>2 DEF Init, Worker
  <2>4. \A w \in Worker : w <= started => w \in live
    BY <1>1, <2>3 DEF Init
  <2>5. QED
    BY <1>2, <2>1, <2>2, <2>3, <2>4 DEF WorkersAgree, ThreadsBounded
<1>6. WalkerAgrees
  BY <1>1 DEF Init, WalkerAgrees, Trouble
<1>7. MessagesAgree
  BY <1>1 DEF Init, MessagesAgree
<1>8. CountsAgree
  <2>1. Counting = {} /\ walker # "count"
    BY <1>1 DEF Init, Counting
  <2>2. Cardinality(Counting) = 0
    BY <2>1, FS_EmptySet
  <2>3. QED
    BY <1>1, <2>1, <2>2 DEF Init, CountsAgree
<1>9. NoneLost
  BY <1>1 DEF Init, NoneLost, Located
<1>10. QED
  BY <1>3, <1>4, <1>5, <1>6, <1>7, <1>8, <1>9 DEF IInv

\* Every step keeps it.
LEMMA NextIInv == IInv /\ [Next]_vars => IInv'
<1>1. SUFFICES ASSUME IInv, [Next]_vars PROVE IInv'
  OBVIOUS
<1>2. TypeOK'       BY <1>1, TypeStep DEF IInv
<1>3. CoordAgrees'  BY <1>1, CoordAgreesStep DEF IInv
<1>4. WorkersAgree' BY <1>1, WorkersAgreeStep DEF IInv
<1>5. WalkerAgrees' BY <1>1, WalkerAgreesStep DEF IInv
<1>6. MessagesAgree' BY <1>1, MessagesAgreeStep DEF IInv
<1>7. CountsAgree'  BY <1>1, CountsAgreeStep DEF IInv
<1>8. NoneLost'     BY <1>1, NoneLostStep DEF IInv
<1>9. QED
  BY <1>2, <1>3, <1>4, <1>5, <1>6, <1>7, <1>8 DEF IInv

\* The inductive invariant holds in every state of a scan, for any number of
\* entries and workers and any capacities: the coordinator's books agree with
\* the threads, the channel and the counters.
THEOREM ScannerInvariant == Spec => []IInv
BY InitIInv, NextIInv, PTL DEF Spec

\* The types of the variables.
THEOREM ScannerTypeCorrect == Spec => []TypeOK
<1>1. IInv => TypeOK BY DEF IInv
<1>2. QED BY <1>1, ScannerInvariant, PTL

\* What a scan that reports `completed` has come to: the walker ended by
\* itself, and no panic is in the channel that has not been received.
LEMMA CompletedState ==
    ASSUME IInv, status = "completed"
    PROVE  walker = "done" /\ ~rx /\ walkerDone /\ live = {} /\ reason = "none"
           /\ ~spawnError /\ ~panicked
BY DEF IInv, CoordAgrees

\* When nobody was abandoned the channel is empty at that point.
LEMMA NothingInChannel ==
    ASSUME IInv, walkerDone, live = {}, flag = {}
    PROVE  DOMAIN msgs = {}
<1>1. \A i \in DOMAIN msgs : MessageAgrees(msgs[i])
  BY DEF IInv, MessagesAgree
<1>2. \A i \in DOMAIN msgs : FALSE
  BY <1>1 DEF MessageAgrees
<1>3. QED
  BY <1>2

\* The walker has walked everything: its own panic would have been received.
LEMMA WalkedAll ==
    ASSUME IInv, status = "completed"
    PROVE  toWalk = {} /\ held = None
<1>1. walker = "done" /\ walkerDone /\ reason = "none" /\ ~spawnError /\ ~panicked
  BY CompletedState
<1>2. \A i \in DOMAIN msgs : msgs[i].who # 0
  BY <1>1 DEF IInv, MessagesAgree, MessageAgrees
<1>3. ~Trouble({0})
  BY <1>1, <1>2 DEF Trouble
<1>4. QED
  BY <1>1, <1>3 DEF IInv, WalkerAgrees

\* A completed scan has walked everything and left nothing on the queue.
THEOREM CompletedIsDrained == Spec => []CompletedMeansDrained
<1>1. IInv => CompletedMeansDrained
  <2>1. SUFFICES ASSUME IInv, status = "completed"
                 PROVE  toWalk = {} /\ queue = <<>> /\ held = None
    BY DEF CompletedMeansDrained
  <2>2. queue = <<>>
    BY <2>1, CompletedState DEF IInv, CountsAgree
  <2>3. QED
    BY <2>1, <2>2, WalkedAll
<1>2. QED BY <1>1, ScannerInvariant, PTL

\* A completed scan that abandoned nobody accounts for every entry.
THEOREM CompletedIsAccounted == Spec => []CompletedAccountsForAll
<1>1. IInv => CompletedAccountsForAll
  <2>1. SUFFICES ASSUME IInv, status = "completed", flag = {}
                 PROVE  reported = Entry
    BY DEF CompletedAccountsForAll
  <2>2. /\ walker = "done" /\ ~rx /\ walkerDone /\ live = {}
        /\ reason = "none" /\ ~spawnError /\ ~panicked
    BY <2>1, CompletedState
  <2>3. DOMAIN msgs = {}
    BY <2>1, <2>2, NothingInChannel
  <2>4. ~Trouble(Worker \cup {0})
    BY <2>2, <2>3 DEF Trouble
  <2>5. queue = <<>>
    BY <2>1, <2>2 DEF IInv, CountsAgree
  <2>6. \A w \in Worker : wpc[w] \in {"none", "gone"}
    <3>1. \A w \in Worker : w \in Nat /\ started \in Nat
      BY <2>1, SizeAssumption DEF Worker, IInv, TypeOK
    <3>2. QED
      BY <2>1, <2>2, <3>1 DEF IInv, WorkersAgree
  <2>7. \A e \in Entry : e \in reported
    <3>1. TAKE e \in Entry
    <3>2. Located(e)
      BY <2>1, <2>4 DEF IInv, NoneLost
    <3>3. ~InQueue(e)
      BY <2>5 DEF InQueue
    <3>4. ~AtWorker(e)
      BY <2>6 DEF AtWorker
    <3>5. ~InChannel(e)
      BY <2>3 DEF InChannel
    <3>6. e \notin toWalk
      BY <2>1, WalkedAll
    <3>7. QED
      BY <2>2, <3>2, <3>3, <3>4, <3>5, <3>6 DEF Located
  <2>8. reported \subseteq Entry
    BY <2>1 DEF IInv, TypeOK
  <2>9. QED
    BY <2>7, <2>8
<1>2. QED BY <1>1, ScannerInvariant, PTL

\* At most as many replacements as workers are ever started.
THEOREM ThreadsAreBounded == Spec => []ThreadsBounded
<1>1. IInv => ThreadsBounded BY DEF IInv, WorkersAgree
<1>2. QED BY <1>1, ScannerInvariant, PTL
==============================================================================
