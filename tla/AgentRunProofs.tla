--------------------------- MODULE AgentRunProofs ---------------------------
(***************************************************************************)
(* Proofs of AgentRun's safety properties for every set of readers, every   *)
(* number of tries, every batch size and every bound. The parts of IndInv   *)
(* are kept by every step, one lemma per part and one step per action; the  *)
(* theorems at the end follow from them.                                    *)
(***************************************************************************)
EXTENDS AgentRunInv, TLAPS

ReaderMove(r) == ReadRow(r) \/ Fetch(r) \/ Drop(r)

\* The worker's initial local state is one.
LEMMA NoWorkerTyped == NoWorker \in Workers
  BY DEF NoWorker, Workers, WorkerPcs

\* A batch ends inside the stream.
LEMMA UptoTyped ==
  ASSUME TypeOK, NEW r \in Readers
  PROVE  /\ Upto(r) \in Nat
         /\ reader[r].cursor <= Len(log) => reader[r].cursor <= Upto(r) /\ Upto(r) <= Len(log)
<1>1. reader[r].cursor \in Nat /\ Len(log) \in Nat
  BY DEF TypeOK, ReaderStates
<1> QED BY <1>1, ConstantAssumption DEF Upto

\* What the steps of a reader leave alone, and that the others leave readers alone.
LEMMA ReaderFrame ==
  /\ \A r \in Readers : ReaderMove(r) =>
        UNCHANGED <<row, jobVars, cancelVars, w, output, log, history>>
  /\ Enqueue \/ Arq \/ Agent \/ Worker \/ Watch \/ Troubles \/ Canceller => UNCHANGED reader
<1>1. \A r \in Readers : ReaderMove(r) =>
        UNCHANGED <<row, jobVars, cancelVars, w, output, log, history>>
  BY DEF ReaderMove, Fetch, ReadRow, FetchEnd, MakeUpEnd, FetchMore, Drop
<1>2. Enqueue \/ Arq \/ Watch \/ Troubles \/ Canceller => UNCHANGED reader
  BY DEF Enqueue, Arq, Dequeue, GiveUp, Watch, Troubles, Crash, FailInside, FailBefore,
         FailHandler, Trouble, Canceller, LoadForCancel, RequestCancel, PublishCancel,
         KeyExpire
<1>3. Agent => UNCHANGED reader
  BY DEF Agent, Loading, ReceiveCustom, ReceiveLast, SaveOutput, StreamEnd
<1>4. Worker => UNCHANGED reader
  BY DEF Worker, Load, Validate, Reject, Begin, Announce, Observe, Flush, PublishCustom,
         PublishLast, Decide, Mark, End, Check, Finish, HandleCancel, HandleError, Clear
<1> QED BY <1>1, <1>2, <1>3, <1>4

\* The worker's local state keeps its type.
LEMMA WorkerTyped ==
  TypeOK /\ [Next]_vars => (w \in Workers)'
<1> SUFFICES ASSUME TypeOK, [Next]_vars PROVE (w \in Workers)'
  OBVIOUS
<1> USE ConstantAssumption DEF Active, Terminal, Threads, LastChunks, ChunkKinds,
   BeforeTry, InsideTry, Settling, Handlers, Leaving, WorkerPcs
<1>1. CASE Enqueue
  BY <1>1 DEF Enqueue, TypeOK, Workers
<1>2. CASE Dequeue
  BY <1>2 DEF Dequeue, TypeOK, Workers, NoWorker
<1>3. CASE GiveUp
  BY <1>3 DEF GiveUp, TypeOK, Workers
<1>4. ASSUME NEW t \in Threads, Loading(t) PROVE (w \in Workers)'
  <2>1. /\ w.chunks + 1 \in Nat
        /\ w.buf \cup {t} \in SUBSET Threads /\ w.buf \ {t} \in SUBSET Threads
    BY DEF TypeOK, Workers
  <2>2. CASE w' = [w EXCEPT !.buf = w.buf \cup {t}, !.chunks = w.chunks + 1]
    BY <2>1, <2>2 DEF TypeOK, Workers
  <2>3. CASE w' = [w EXCEPT !.buf = w.buf \ {t}, !.chunks = w.chunks + 1]
    BY <2>1, <2>3 DEF TypeOK, Workers
  <2>4. \/ w' = [w EXCEPT !.buf = w.buf \cup {t}, !.chunks = w.chunks + 1]
        \/ w' = [w EXCEPT !.buf = w.buf \ {t}, !.chunks = w.chunks + 1]
    BY <1>4 DEF Loading, TypeOK, Workers
  <2> QED BY <2>2, <2>3, <2>4
<1>5. ASSUME NEW k \in {"custom", "subcustom"}, ReceiveCustom(k) PROVE (w \in Workers)'
  <2>1. w.chunks + 1 \in Nat
    BY DEF TypeOK, Workers
  <2>2. w' = [w EXCEPT !.pc = "publish", !.chunk = k, !.chunks = w.chunks + 1]
    BY <1>5 DEF ReceiveCustom, TypeOK, Workers
  <2> QED BY <2>1, <2>2 DEF TypeOK, Workers
<1>6. ASSUME NEW k \in LastChunks, ReceiveLast(k) PROVE (w \in Workers)'
  BY <1>6 DEF ReceiveLast, TypeOK, Workers
<1>7. CASE SaveOutput
  <2> DEFINE next == IF w.gen = "open" THEN "saved" ELSE "over"
  <2>3. next \in {"saved", "over"}
    OBVIOUS
  <2> HIDE DEF next
  <2>1. CASE w' = [w EXCEPT !.gen = next]
    BY <2>1, <2>3 DEF TypeOK, Workers
  <2>2. CASE w' = [w EXCEPT !.gen = next, !.pc = "publish", !.chunk = "custom"]
    BY <2>2, <2>3 DEF TypeOK, Workers
  <2> QED BY <1>7, <2>1, <2>2 DEF SaveOutput, next
<1>8. CASE StreamEnd
  BY <1>8 DEF StreamEnd, TypeOK, Workers
<1>9. CASE Load
  <2>1. CASE w' = NoWorker
    BY <2>1, NoWorkerTyped
  <2>2. CASE w' = [w EXCEPT !.pc = "validate"]
    BY <2>2 DEF TypeOK, Workers
  <2> QED BY <1>9, <2>1, <2>2 DEF Load, Leave
<1>10. CASE Validate
  BY <1>10 DEF Validate, TypeOK, Workers
<1>11. CASE Reject
  BY <1>11 DEF Reject, TypeOK, Workers, NoWorker, Leave
<1>12. CASE Begin
  BY <1>12 DEF Begin, TypeOK, Workers
<1>13. CASE Announce
  BY <1>13 DEF Announce, TypeOK, Workers
<1>14. CASE Observe
  BY <1>14 DEF Observe, TypeOK, Workers
<1>15. ASSUME NEW t \in Threads, Flush(t) PROVE (w \in Workers)'
  BY <1>15 DEF Flush, TypeOK, Workers, ToFlush
<1>16. CASE PublishCustom
  BY <1>16 DEF PublishCustom, TypeOK, Workers, ToFlush
<1>17. CASE PublishLast
  <2>1. CASE w' = [w EXCEPT !.pc = "mark", !.verdict = "completed", !.gen = "over"]
    BY <2>1 DEF TypeOK, Workers
  <2>2. CASE w' = [w EXCEPT !.pc = "mark", !.verdict = "failed", !.gen = "over"]
    BY <2>2 DEF TypeOK, Workers
  <2>3. CASE w' = [w EXCEPT !.pc = "decide", !.gen = "over"]
    BY <2>3 DEF TypeOK, Workers
  <2>4. CASE w' = [w EXCEPT !.pc = "mark", !.verdict = "interrupted", !.gen = "tail"]
    BY <2>4 DEF TypeOK, Workers
  <2> QED BY <1>17, <2>1, <2>2, <2>3, <2>4 DEF PublishLast
<1>18. CASE Decide
  BY ZenonT(60), <1>18 DEF Decide, TypeOK, Workers
<1>19. CASE Mark
  BY <1>19 DEF Mark, TypeOK, Workers
<1>20. CASE End
  BY <1>20 DEF End, TypeOK, Workers
<1>21. CASE Check
  <2>1. CASE w' = [w EXCEPT !.pc = "cancel", !.seen = TRUE, !.gen = "over",
                            !.chunk = "none", !.verdict = "none"]
    BY <2>1 DEF TypeOK, Workers
  <2>2. CASE w' = [w EXCEPT !.pc = "stream", !.chunk = "none", !.verdict = "none"]
    BY <2>2 DEF TypeOK, Workers
  <2> QED BY <1>21, <2>1, <2>2 DEF Check
<1>22. CASE Finish
  BY <1>22 DEF Finish, TypeOK, Workers, ToFlush
<1>23. CASE HandleCancel
  BY <1>23 DEF HandleCancel, TypeOK, Workers, ToFlush
<1>24. CASE HandleError
  <2>1. CASE w' = [w EXCEPT !.pc = "retry"]
    BY <2>1 DEF TypeOK, Workers
  <2>2. CASE w' = [w EXCEPT !.pc = "mark", !.verdict = "failed"]
    BY <2>2 DEF TypeOK, Workers
  <2> QED BY <1>24, <2>1, <2>2 DEF HandleError
<1>25. CASE Clear
  BY <1>25 DEF Clear, TypeOK, Workers, NoWorker, Leave
<1>26. CASE Watch
  BY <1>26 DEF Watch, TypeOK, Workers
<1>27. CASE Crash
  BY <1>27 DEF Crash, TypeOK, Workers, NoWorker, Leave, Trouble
<1>28. CASE FailInside
  <2>1. PICK h \in Handlers : w' = [w EXCEPT !.pc = h, !.gen = "over",
                                          !.chunk = "none", !.verdict = "none"]
    BY <1>28 DEF FailInside
  <2> QED BY <2>1 DEF TypeOK, Workers
<1>29. CASE FailBefore
  <2>1. w' = NoWorker
    BY <1>29 DEF FailBefore, Leave
  <2> QED BY <2>1, NoWorkerTyped
<1>30. CASE FailHandler
  <2>1. PICK p \in {"raise", "again"} : w' = [w EXCEPT !.pc = p]
    BY <1>30 DEF FailHandler
  <2> QED BY <2>1 DEF TypeOK, Workers
<1>31. CASE LoadForCancel
  BY <1>31 DEF LoadForCancel, TypeOK, Workers
<1>32. CASE RequestCancel
  BY <1>32 DEF RequestCancel, TypeOK, Workers
<1>33. CASE PublishCancel
  BY <1>33 DEF PublishCancel, TypeOK, Workers
<1>34. CASE KeyExpire
  BY <1>34 DEF KeyExpire, TypeOK, Workers
<1>35. ASSUME NEW r \in Readers, ReaderMove(r) PROVE (w \in Workers)'
  BY <1>35, ReaderFrame DEF TypeOK, Workers
<1>36. CASE UNCHANGED vars
  BY <1>36 DEF vars, TypeOK, Workers
<1> QED
  BY <1>1, <1>2, <1>3, <1>4, <1>5, <1>6, <1>7, <1>8, <1>9, <1>10, <1>11,
     <1>12, <1>13, <1>14, <1>15, <1>16, <1>17, <1>18, <1>19, <1>20, <1>21,
     <1>22, <1>23, <1>24, <1>25, <1>26, <1>27, <1>28, <1>29, <1>30, <1>31,
     <1>32, <1>33, <1>34, <1>35, <1>36
  DEF Next, Arq, Agent, Worker, Troubles, Canceller, Fetch, ReaderMove

\* The stream stays a sequence of events.
LEMMA LogTyped ==
  TypeOK /\ [Next]_vars => (log \in Seq(Events))'
<1> SUFFICES ASSUME TypeOK, [Next]_vars PROVE (log \in Seq(Events))'
  OBVIOUS
<1> USE ConstantAssumption DEF Active, Terminal, Threads, LastChunks, ChunkKinds,
   BeforeTry, InsideTry, Settling, Handlers, Leaving, WorkerPcs
<1>1. CASE Enqueue
  BY <1>1 DEF Enqueue, TypeOK, Workers, Events, history
<1>2. CASE Dequeue
  BY <1>2 DEF Dequeue, TypeOK, Workers, Events, history
<1>3. CASE GiveUp
  BY <1>3 DEF GiveUp, TypeOK, Workers, Events, history
<1>4. ASSUME NEW t \in Threads, Loading(t) PROVE (log \in Seq(Events))'
  <2>1. CASE UNCHANGED log
    BY <2>1 DEF TypeOK
  <2>2. CASE Emit(Event("messages", t))
    BY <2>2 DEF TypeOK, Emit, Event, Events, EventTypes
  <2> QED BY <1>4, <2>1, <2>2 DEF Loading
<1>5. ASSUME NEW k \in {"custom", "subcustom"},
   ReceiveCustom(k) PROVE (log \in Seq(Events))'
  BY <1>5 DEF ReceiveCustom, TypeOK, Workers, Events, history
<1>6. ASSUME NEW k \in LastChunks, ReceiveLast(k) PROVE (log \in Seq(Events))'
  BY <1>6 DEF ReceiveLast, TypeOK, Workers, Events, history
<1>7. CASE SaveOutput
  BY <1>7 DEF SaveOutput, TypeOK, Workers, Events, history
<1>8. CASE StreamEnd
  BY <1>8 DEF StreamEnd, TypeOK, Workers, Events, history
<1>9. CASE Load
  BY <1>9 DEF Load, TypeOK, Workers, Events, history
<1>10. CASE Validate
  BY <1>10 DEF Validate, TypeOK, Workers, Events, history
<1>11. CASE Reject
  BY <1>11 DEF Reject, TypeOK, Workers, Events, history
<1>12. CASE Begin
  BY <1>12 DEF Begin, TypeOK, Workers, Events, history
<1>13. CASE Announce
  BY <1>13 DEF Announce, TypeOK, Workers, Emit, Event, Events, EventTypes, history
<1>14. CASE Observe
  BY <1>14 DEF Observe, TypeOK, Workers, Events, history
<1>15. ASSUME NEW t \in Threads, Flush(t) PROVE (log \in Seq(Events))'
  BY <1>15 DEF Flush, TypeOK, Workers, Emit, Event, Events, EventTypes, ChunkThread, history
<1>16. CASE PublishCustom
  BY <1>16 DEF PublishCustom, TypeOK, Workers, Emit, Event, Events, EventTypes,
     ChunkThread, history
<1>17. CASE PublishLast
  <2>1. CASE UNCHANGED log
    BY <2>1 DEF TypeOK
  <2>2. CASE Emit(Event("error", "main"))
    BY <2>2 DEF TypeOK, Emit, Event, Events, EventTypes
  <2>3. CASE Emit(Event("interrupt", "main"))
    BY <2>3 DEF TypeOK, Emit, Event, Events, EventTypes
  <2> QED BY <1>17, <2>1, <2>2, <2>3 DEF PublishLast
<1>18. CASE Decide
  BY <1>18 DEF Decide, TypeOK, Workers, Events, history
<1>19. CASE Mark
  BY <1>19 DEF Mark, TypeOK, Workers, Events, history
<1>20. CASE End
  BY <1>20 DEF End, TypeOK, Workers, Emit, EndEvent, Events, EventTypes, history
<1>21. CASE Check
  BY <1>21 DEF Check, TypeOK, Workers, Events, history
<1>22. CASE Finish
  BY <1>22 DEF Finish, TypeOK, Workers, Events, ChunkThread, history
<1>23. CASE HandleCancel
  BY <1>23 DEF HandleCancel, TypeOK, Workers, Emit, Event, Events, EventTypes,
     ChunkThread, history
<1>24. CASE HandleError
  BY <1>24 DEF HandleError, TypeOK, Workers, Emit, Event, Events, EventTypes,
     ChunkThread, history
<1>25. CASE Clear
  BY <1>25 DEF Clear, TypeOK, Workers, Events, history
<1>26. CASE Watch
  BY <1>26 DEF Watch, TypeOK, Workers, Events, history
<1>27. CASE Crash
  BY <1>27 DEF Crash, TypeOK, Workers, Events, Trouble
<1>28. CASE FailInside
  BY <1>28 DEF FailInside, TypeOK, Workers, Events, Trouble
<1>29. CASE FailBefore
  BY <1>29 DEF FailBefore, TypeOK, Workers, Events, Trouble
<1>30. CASE FailHandler
  BY <1>30 DEF FailHandler, TypeOK, Workers, Events, Trouble
<1>31. CASE LoadForCancel
  BY <1>31 DEF LoadForCancel, TypeOK, Workers, Events, history
<1>32. CASE RequestCancel
  BY <1>32 DEF RequestCancel, TypeOK, Workers, Events
<1>33. CASE PublishCancel
  BY <1>33 DEF PublishCancel, TypeOK, Workers, Events, history
<1>34. CASE KeyExpire
  BY <1>34 DEF KeyExpire, TypeOK, Workers, Events, history
<1>35. ASSUME NEW r \in Readers, ReaderMove(r) PROVE (log \in Seq(Events))'
  BY <1>35, ReaderFrame DEF TypeOK, Workers, Events, history
<1>36. CASE UNCHANGED vars
  BY <1>36 DEF vars, TypeOK, Workers, Events, history
<1> QED
  BY <1>1, <1>2, <1>3, <1>4, <1>5, <1>6, <1>7, <1>8, <1>9, <1>10, <1>11,
     <1>12, <1>13, <1>14, <1>15, <1>16, <1>17, <1>18, <1>19, <1>20, <1>21,
     <1>22, <1>23, <1>24, <1>25, <1>26, <1>27, <1>28, <1>29, <1>30, <1>31,
     <1>32, <1>33, <1>34, <1>35, <1>36
  DEF Next, Arq, Agent, Worker, Troubles, Canceller, Fetch, ReaderMove

\* The readers keep their type.
LEMMA ReaderTyped ==
  TypeOK /\ ClientInv /\ [Next]_vars => (reader \in [Readers -> ReaderStates])'
<1> SUFFICES ASSUME TypeOK, ClientInv, [Next]_vars
             PROVE  (reader \in [Readers -> ReaderStates])'
  OBVIOUS
<1>1. CASE UNCHANGED reader
  BY <1>1 DEF TypeOK
<1>2. ASSUME NEW r \in Readers, ReadRow(r) PROVE (reader \in [Readers -> ReaderStates])'
  BY <1>2 DEF ReadRow, TypeOK, ReaderStates, Terminal
<1>3. ASSUME NEW r \in Readers, FetchEnd(r) PROVE (reader \in [Readers -> ReaderStates])'
  <2>1. PICK i \in reader[r].cursor + 1 .. Upto(r) :
            reader' = [reader EXCEPT ![r].told = log[i].status, ![r].cursor = Upto(r),
                                     ![r].snap = "none", ![r].pc = "ended"]
    BY <1>3 DEF FetchEnd
  <2>2. Upto(r) \in Nat /\ Upto(r) <= Len(log) /\ reader[r].cursor \in Nat
    BY UptoTyped DEF TypeOK, ReaderStates, ClientInv
  <2>3. i \in 1 .. Len(log)
    BY <2>2
  <2>4. log[i] \in Events
    BY <2>3 DEF TypeOK
  <2>5. log[i].status \in Terminal \cup {"none"}
    BY <2>4 DEF Events
  <2> QED BY <2>1, <2>2, <2>5 DEF TypeOK, ReaderStates
<1>4. ASSUME NEW r \in Readers, MakeUpEnd(r) PROVE (reader \in [Readers -> ReaderStates])'
  BY <1>4 DEF MakeUpEnd, TypeOK, ReaderStates, Terminal
<1>5. ASSUME NEW r \in Readers, FetchMore(r) PROVE (reader \in [Readers -> ReaderStates])'
  BY <1>5, UptoTyped DEF FetchMore, TypeOK, ReaderStates
<1>6. ASSUME NEW r \in Readers, Drop(r) PROVE (reader \in [Readers -> ReaderStates])'
  <2>1. PICK n \in reader[r].cursor .. Upto(r) :
            reader' = [reader EXCEPT ![r].cursor = n, ![r].snap = "none", ![r].pc = "poll"]
    BY <1>6 DEF Drop
  <2>2. n \in Nat
    BY UptoTyped DEF TypeOK, ReaderStates
  <2>3. [reader[r] EXCEPT !.cursor = n, !.snap = "none", !.pc = "poll"] \in ReaderStates
    BY <2>2 DEF TypeOK, ReaderStates
  <2> QED BY <2>1, <2>3 DEF TypeOK, ReaderStates
<1> QED BY <1>1, <1>2, <1>3, <1>4, <1>5, <1>6, ReaderFrame DEF Next, Fetch, vars

\* The part of TypeOK without the worker's record, the stream and the readers.
ScalarsOK ==
    /\ row \in Active \cup Terminal
    /\ job \in {"none", "lost", "queued", "active", "done"}
    /\ tries \in 0 .. MaxTries
    /\ key \in BOOLEAN
    /\ cancelPc \in {"idle", "writes", "keeps", "committed"}
    /\ cancels \in 0 .. MaxCancels
    /\ output \in {"none", "saved", "failed"}
    /\ troubles \in 0 .. MaxTroubles
    /\ struck \in BOOLEAN
    /\ overrun \in BOOLEAN
    /\ escaped \in BOOLEAN

\* The other variables keep their types; a settled status is a verdict.
LEMMA ScalarsTyped ==
  TypeOK /\ LocalInv /\ [Next]_vars => ScalarsOK'
<1> SUFFICES ASSUME TypeOK, LocalInv, [Next]_vars PROVE ScalarsOK'
  OBVIOUS
<1> USE ConstantAssumption DEF Active, Terminal, Threads, LastChunks, ChunkKinds,
   BeforeTry, InsideTry, Settling, Handlers, Leaving, WorkerPcs
<1>1. CASE Enqueue
  BY <1>1 DEF Enqueue, TypeOK, ScalarsOK, LocalInv, Owed, Workers, cancelVars, history
<1>2. CASE Dequeue
  BY <1>2 DEF Dequeue, TypeOK, ScalarsOK, LocalInv, Owed, Workers, cancelVars, history
<1>3. CASE GiveUp
  BY <1>3 DEF GiveUp, TypeOK, ScalarsOK, LocalInv, Owed, Workers, cancelVars, history
<1>4. ASSUME NEW t \in Threads, Loading(t) PROVE ScalarsOK'
  BY <1>4 DEF Loading, TypeOK, ScalarsOK, LocalInv, Owed, Workers, jobVars, cancelVars,
     history
<1>5. ASSUME NEW k \in {"custom", "subcustom"}, ReceiveCustom(k) PROVE ScalarsOK'
  BY <1>5 DEF ReceiveCustom, TypeOK, ScalarsOK, LocalInv, Owed, Workers, jobVars,
     cancelVars, history
<1>6. ASSUME NEW k \in LastChunks, ReceiveLast(k) PROVE ScalarsOK'
  BY <1>6 DEF ReceiveLast, TypeOK, AfterLast, ScalarsOK, LocalInv, Owed, Workers,
     jobVars, cancelVars, history
<1>7. CASE SaveOutput
  BY <1>7 DEF SaveOutput, TypeOK, ScalarsOK, LocalInv, Owed, Workers, jobVars,
     cancelVars, history
<1>8. CASE StreamEnd
  BY <1>8 DEF StreamEnd, TypeOK, ScalarsOK, LocalInv, Owed, Workers, jobVars, cancelVars,
     history
<1>9. CASE Load
  BY <1>9 DEF Load, TypeOK, ScalarsOK, LocalInv, Owed, Workers, Leave, cancelVars, history
<1>10. CASE Validate
  BY <1>10 DEF Validate, TypeOK, ScalarsOK, LocalInv, Owed, Workers, jobVars, cancelVars,
     history
<1>11. CASE Reject
  BY <1>11 DEF Reject, TypeOK, ScalarsOK, LocalInv, Owed, Workers, SetTerminal, Leave,
     cancelVars, history
<1>12. CASE Begin
  BY <1>12 DEF Begin, TypeOK, ScalarsOK, LocalInv, Owed, Workers, MarkRunning, jobVars,
     cancelVars, history
<1>13. CASE Announce
  BY <1>13 DEF Announce, TypeOK, ScalarsOK, LocalInv, Owed, Workers, jobVars, cancelVars,
     history
<1>14. CASE Observe
  BY <1>14 DEF Observe, TypeOK, ScalarsOK, LocalInv, Owed, Workers, jobVars, cancelVars,
     history
<1>15. ASSUME NEW t \in Threads, Flush(t) PROVE ScalarsOK'
  BY <1>15 DEF Flush, TypeOK, ScalarsOK, LocalInv, Owed, Workers, jobVars, cancelVars,
     history
<1>16. CASE PublishCustom
  BY <1>16 DEF PublishCustom, TypeOK, ScalarsOK, LocalInv, Owed, Workers, jobVars,
     cancelVars, history
<1>17. CASE PublishLast
  BY <1>17 DEF PublishLast, TypeOK, ScalarsOK, LocalInv, Owed, Workers, jobVars,
     cancelVars, history
<1>18. CASE Decide
  BY <1>18 DEF Decide, TypeOK, ScalarsOK, LocalInv, Owed, Workers, jobVars, cancelVars,
     history
<1>19. CASE Mark
  BY <1>19 DEF Mark, TypeOK, ScalarsOK, LocalInv, Owed, Workers, SetTerminal, jobVars,
     cancelVars, history
<1>20. CASE End
  BY <1>20 DEF End, TypeOK, ScalarsOK, LocalInv, Owed, Workers, jobVars, cancelVars, history
<1>21. CASE Check
  BY <1>21 DEF Check, TypeOK, ScalarsOK, LocalInv, Owed, Workers, jobVars, cancelVars,
     history
<1>22. CASE Finish
  BY <1>22 DEF Finish, TypeOK, ScalarsOK, LocalInv, Owed, Workers, jobVars, cancelVars,
     history
<1>23. CASE HandleCancel
  BY <1>23 DEF HandleCancel, TypeOK, ScalarsOK, LocalInv, Owed, Workers, jobVars,
     cancelVars, history
<1>24. CASE HandleError
  BY <1>24 DEF HandleError, TypeOK, ScalarsOK, LocalInv, Owed, Workers, jobVars,
     cancelVars, history
<1>25. CASE Clear
  <2>1. UNCHANGED <<row, tries, cancelPc, cancels, output, troubles, struck, overrun>>
    BY <1>25 DEF Clear
  <2>2. key' \in BOOLEAN /\ escaped' \in BOOLEAN /\ job' \in {"queued", "done"}
    BY <1>25 DEF Clear, Leave, TypeOK
  <2> QED BY <2>1, <2>2 DEF TypeOK, ScalarsOK
<1>26. CASE Watch
  BY <1>26 DEF Watch, TypeOK, ScalarsOK, LocalInv, Owed, Workers, jobVars, cancelVars,
     history
<1>27. CASE Crash
  BY <1>27 DEF Crash, TypeOK, ScalarsOK, LocalInv, Owed, Workers, Leave, Trouble, cancelVars
<1>28. CASE FailInside
  BY <1>28 DEF FailInside, TypeOK, ScalarsOK, LocalInv, Owed, Workers, Trouble, cancelVars
<1>29. CASE FailBefore
  <2>1. /\ UNCHANGED <<row, tries, key, cancelPc, cancels, output, overrun>>
        /\ troubles < MaxTroubles /\ troubles' = troubles + 1
    BY <1>29 DEF FailBefore, Trouble, cancelVars
  <2>2. struck' \in BOOLEAN /\ escaped' \in BOOLEAN /\ job' \in {"queued", "done"}
    BY <1>29, Zenon DEF FailBefore, Leave, TypeOK, Trouble
  <2> QED BY <2>1, <2>2 DEF TypeOK, ScalarsOK
<1>30. CASE FailHandler
  BY <1>30 DEF FailHandler, TypeOK, ScalarsOK, LocalInv, Owed, Workers, Trouble, cancelVars
<1>31. CASE LoadForCancel
  BY <1>31 DEF LoadForCancel, TypeOK, ScalarsOK, LocalInv, Owed, Workers, jobVars, history
<1>32. CASE RequestCancel
  BY <1>32 DEF RequestCancel, TypeOK, ScalarsOK, LocalInv, Owed, Workers,
     SetCancelRequest, jobVars
<1>33. CASE PublishCancel
  BY ZenonT(60), <1>33 DEF PublishCancel, TypeOK, ScalarsOK, LocalInv, Owed, Workers, jobVars, history
<1>34. CASE KeyExpire
  BY <1>34, ZenonT(60) DEF KeyExpire, TypeOK, ScalarsOK, LocalInv, Owed, Workers, jobVars, history
<1>35. ASSUME NEW r \in Readers, ReaderMove(r) PROVE ScalarsOK'
  BY <1>35, ReaderFrame DEF TypeOK, ScalarsOK, LocalInv, Owed, Workers, jobVars,
     cancelVars, history
<1>36. CASE UNCHANGED vars
  BY <1>36 DEF vars, TypeOK, ScalarsOK, LocalInv, Owed, Workers, jobVars, cancelVars,
     history
<1> QED
  BY <1>1, <1>2, <1>3, <1>4, <1>5, <1>6, <1>7, <1>8, <1>9, <1>10, <1>11,
     <1>12, <1>13, <1>14, <1>15, <1>16, <1>17, <1>18, <1>19, <1>20, <1>21,
     <1>22, <1>23, <1>24, <1>25, <1>26, <1>27, <1>28, <1>29, <1>30, <1>31,
     <1>32, <1>33, <1>34, <1>35, <1>36
  DEF Next, Arq, Agent, Worker, Troubles, Canceller, Fetch, ReaderMove

\* So every variable keeps its type.
LEMMA TypeStep == TypeOK /\ LocalInv /\ ClientInv /\ [Next]_vars => TypeOK'
  BY WorkerTyped, LogTyped, ReaderTyped, ScalarsTyped DEF TypeOK, ScalarsOK

\* The worker's local state keeps fitting its place.
LEMMA LocalStep ==
  TypeOK /\ LocalInv /\ [Next]_vars => LocalInv'
<1> SUFFICES ASSUME TypeOK, LocalInv, [Next]_vars PROVE LocalInv'
  OBVIOUS
<1> USE ConstantAssumption DEF Active, Terminal, Threads, LastChunks, ChunkKinds,
   BeforeTry, InsideTry, Settling, Handlers, Leaving, WorkerPcs
<1>1. CASE Enqueue
  BY <1>1 DEF Enqueue, LocalInv, Owed, TypeOK, Workers, cancelVars, history
<1>2. CASE Dequeue
  BY <1>2 DEF Dequeue, LocalInv, Owed, TypeOK, Workers, NoWorker, cancelVars, history
<1>3. CASE GiveUp
  BY <1>3 DEF GiveUp, LocalInv, Owed, TypeOK, Workers, cancelVars, history
<1>4. ASSUME NEW t \in Threads, Loading(t) PROVE LocalInv'
  BY <1>4 DEF Loading, LocalInv, Owed, TypeOK, Workers, Receiving, jobVars, cancelVars,
     history
<1>5. ASSUME NEW k \in {"custom", "subcustom"}, ReceiveCustom(k) PROVE LocalInv'
  BY <1>5 DEF ReceiveCustom, LocalInv, Owed, TypeOK, Workers, Receiving, jobVars,
     cancelVars, history
<1>6. ASSUME NEW k \in LastChunks, ReceiveLast(k) PROVE LocalInv'
  BY <1>6 DEF ReceiveLast, LocalInv, Owed, TypeOK, Workers, Receiving, jobVars,
     cancelVars, history
<1>7. CASE SaveOutput
  BY <1>7, ZenonT(60) DEF SaveOutput, LocalInv, Owed, TypeOK, Workers, Receiving, jobVars,
     cancelVars, history
<1>8. CASE StreamEnd
  BY <1>8 DEF StreamEnd, LocalInv, Owed, TypeOK, Workers, Receiving, jobVars, cancelVars,
     history
<1>9. CASE Load
  BY <1>9 DEF Load, LocalInv, Owed, TypeOK, Workers, NoWorker, Leave, cancelVars, history
<1>10. CASE Validate
  BY <1>10 DEF Validate, LocalInv, Owed, TypeOK, Workers, jobVars, cancelVars, history
<1>11. CASE Reject
  BY <1>11 DEF Reject, LocalInv, Owed, TypeOK, Workers, NoWorker, Leave, SetTerminal,
     cancelVars, history
<1>12. CASE Begin
  BY <1>12 DEF Begin, LocalInv, Owed, TypeOK, Workers, MarkRunning, jobVars, cancelVars,
     history
<1>13. CASE Announce
  BY <1>13 DEF Announce, LocalInv, Owed, TypeOK, Workers, jobVars, cancelVars, history
<1>14. CASE Observe
  BY <1>14 DEF Observe, LocalInv, Owed, TypeOK, Workers, jobVars, cancelVars, history
<1>15. ASSUME NEW t \in Threads, Flush(t) PROVE LocalInv'
  BY <1>15 DEF Flush, LocalInv, Owed, TypeOK, Workers, ToFlush, ChunkThread, jobVars,
     cancelVars, history
<1>16. CASE PublishCustom
  BY <1>16 DEF PublishCustom, LocalInv, Owed, TypeOK, Workers, ToFlush, ChunkThread,
     jobVars, cancelVars, history
<1>17. CASE PublishLast
  <2>1. /\ w'.buf = w.buf /\ UNCHANGED <<row, job, tries, troubles>>
        /\ w.pc = "publish" /\ w.chunk \in LastChunks /\ w.buf \cap {"main"} = {}
    BY <1>17 DEF PublishLast, TypeOK, Workers, ToFlush, ChunkThread, jobVars, history
  <2>2. \/ w'.pc = "mark" /\ w'.verdict = "completed" /\ w'.gen = "over"
        \/ w'.pc = "mark" /\ w'.verdict = "failed" /\ w'.gen = "over"
        \/ w'.pc = "decide" /\ w'.gen = "over"
        \/ w'.pc = "mark" /\ w'.verdict = "interrupted" /\ w'.gen = "tail"
    BY <1>17 DEF PublishLast, TypeOK, Workers
  <2> QED BY <2>1, <2>2 DEF LocalInv, Owed
<1>18. CASE Decide
  BY <1>18 DEF Decide, LocalInv, Owed, TypeOK, Workers, jobVars, cancelVars, history
<1>19. CASE Mark
  BY <1>19 DEF Mark, LocalInv, Owed, TypeOK, Workers, SetTerminal, jobVars, cancelVars,
     history
<1>20. CASE End
  BY <1>20 DEF End, LocalInv, Owed, TypeOK, Workers, InTry, jobVars, cancelVars, history
<1>21. CASE Check
  <2>1. w'.buf = w.buf /\ w.pc = "check" /\ UNCHANGED <<row, job, tries, troubles>>
    BY <1>21 DEF Check, TypeOK, Workers, jobVars, history
  <2>2. \/ w'.pc = "cancel" /\ w'.gen = "over" /\ w'.chunk = "none"
        \/ w'.pc = "stream" /\ w'.gen = w.gen /\ w'.chunk = "none"
    BY <1>21 DEF Check, TypeOK, Workers
  <2> QED BY <2>1, <2>2 DEF LocalInv, Owed
<1>22. CASE Finish
  BY <1>22 DEF Finish, LocalInv, Owed, TypeOK, Workers, ToFlush, ChunkThread, jobVars,
     cancelVars, history
<1>23. CASE HandleCancel
  BY <1>23 DEF HandleCancel, LocalInv, Owed, TypeOK, Workers, ToFlush, ChunkThread,
     jobVars, cancelVars, history
<1>24. CASE HandleError
  BY <1>24, ZenonT(60) DEF HandleError, LocalInv, Owed, TypeOK, Workers, ToFlush, ChunkThread,
     jobVars, cancelVars, history
<1>25. CASE Clear
  BY <1>25 DEF Clear, LocalInv, Owed, TypeOK, Workers, NoWorker, Leave,
     history
<1>26. CASE Watch
  BY <1>26 DEF Watch, LocalInv, Owed, TypeOK, Workers, jobVars, cancelVars, history
<1>27. CASE Crash
  BY <1>27 DEF Crash, LocalInv, Owed, TypeOK, Workers, NoWorker, Leave, Trouble, cancelVars
<1>28. CASE FailInside
  BY <1>28 DEF FailInside, LocalInv, Owed, TypeOK, Workers, Trouble, InTry, cancelVars
<1>29. CASE FailBefore
  BY <1>29 DEF FailBefore, LocalInv, Owed, TypeOK, Workers, NoWorker, Leave, Trouble, cancelVars
<1>30. CASE FailHandler
  BY <1>30 DEF FailHandler, LocalInv, Owed, TypeOK, Workers, Trouble, InTry, cancelVars
<1>31. CASE LoadForCancel
  BY <1>31 DEF LoadForCancel, LocalInv, Owed, TypeOK, Workers, jobVars, history
<1>32. CASE RequestCancel
  BY <1>32 DEF RequestCancel, LocalInv, Owed, TypeOK, Workers, SetCancelRequest, jobVars
<1>33. CASE PublishCancel
  BY <1>33 DEF PublishCancel, LocalInv, Owed, TypeOK, Workers, jobVars, history
<1>34. CASE KeyExpire
  BY <1>34 DEF KeyExpire, LocalInv, Owed, TypeOK, Workers, jobVars, history
<1>35. ASSUME NEW r \in Readers, ReaderMove(r) PROVE LocalInv'
  BY <1>35, ReaderFrame DEF LocalInv, Owed, TypeOK, Workers, jobVars, cancelVars, history
<1>36. CASE UNCHANGED vars
  BY <1>36 DEF vars, LocalInv, Owed, TypeOK, Workers, jobVars, cancelVars, history
<1> QED
  BY <1>1, <1>2, <1>3, <1>4, <1>5, <1>6, <1>7, <1>8, <1>9, <1>10, <1>11,
     <1>12, <1>13, <1>14, <1>15, <1>16, <1>17, <1>18, <1>19, <1>20, <1>21,
     <1>22, <1>23, <1>24, <1>25, <1>26, <1>27, <1>28, <1>29, <1>30, <1>31,
     <1>32, <1>33, <1>34, <1>35, <1>36
  DEF Next, Arq, Agent, Worker, Troubles, Canceller, Fetch, ReaderMove

\* Text of the run's own thread ends before the run is settled.
LEMMA QuietStep ==
  TypeOK /\ LocalInv /\ ProgressInv /\ QuietInv /\ [Next]_vars => QuietInv'
<1> SUFFICES ASSUME TypeOK, LocalInv, ProgressInv, QuietInv, [Next]_vars PROVE QuietInv'
  OBVIOUS
<1> USE ConstantAssumption DEF Active, Terminal, Threads, LastChunks, ChunkKinds,
   BeforeTry, InsideTry, Settling, Handlers, Leaving, WorkerPcs
<1>1. CASE Enqueue
  BY <1>1 DEF Enqueue, LocalInv, ProgressInv, QuietInv, Settled, Owed, TypeOK, Workers,
     cancelVars, history
<1>2. CASE Dequeue
  BY <1>2 DEF Dequeue, LocalInv, ProgressInv, QuietInv, Settled, Owed, TypeOK, Workers,
     NoWorker, cancelVars, history
<1>3. CASE GiveUp
  BY <1>3 DEF GiveUp, LocalInv, ProgressInv, QuietInv, Settled, Owed, TypeOK, Workers,
     cancelVars, history
<1>4. ASSUME NEW t \in Threads, Loading(t) PROVE QuietInv'
  BY <1>4 DEF Loading, LocalInv, ProgressInv, QuietInv, Settled, Owed, TypeOK, Workers,
     Receiving, jobVars, cancelVars, history
<1>5. ASSUME NEW k \in {"custom", "subcustom"}, ReceiveCustom(k) PROVE QuietInv'
  BY <1>5 DEF ReceiveCustom, LocalInv, ProgressInv, QuietInv, Settled, Owed, TypeOK,
     Workers, Receiving, jobVars, cancelVars, history
<1>6. ASSUME NEW k \in LastChunks, ReceiveLast(k) PROVE QuietInv'
  BY <1>6 DEF ReceiveLast, LocalInv, ProgressInv, QuietInv, Settled, Owed, TypeOK,
     Workers, Receiving, jobVars, cancelVars, history
<1>7. CASE SaveOutput
  BY <1>7 DEF SaveOutput, LocalInv, ProgressInv, QuietInv, Settled, Owed, TypeOK,
     Workers, Receiving, jobVars, cancelVars, history
<1>8. CASE StreamEnd
  BY <1>8 DEF StreamEnd, LocalInv, ProgressInv, QuietInv, Settled, Owed, TypeOK, Workers,
     Receiving, jobVars, cancelVars, history
<1>9. CASE Load
  BY <1>9 DEF Load, LocalInv, ProgressInv, QuietInv, Settled, Owed, TypeOK, Workers,
     NoWorker, Leave, cancelVars, history
<1>10. CASE Validate
  BY <1>10 DEF Validate, LocalInv, ProgressInv, QuietInv, Settled, Owed, TypeOK, Workers,
     jobVars, cancelVars, history
<1>11. CASE Reject
  BY <1>11 DEF Reject, LocalInv, ProgressInv, QuietInv, Settled, Owed, TypeOK, Workers,
     NoWorker, Leave, SetTerminal, cancelVars, history
<1>12. CASE Begin
  BY <1>12 DEF Begin, LocalInv, ProgressInv, QuietInv, Settled, Owed, TypeOK, Workers,
     MarkRunning, jobVars, cancelVars, history
<1>13. CASE Announce
  BY <1>13 DEF Announce, LocalInv, ProgressInv, QuietInv, Settled, Owed, TypeOK, Workers,
     jobVars, cancelVars, history
<1>14. CASE Observe
  BY <1>14 DEF Observe, LocalInv, ProgressInv, QuietInv, Settled, Owed, TypeOK, Workers,
     jobVars, cancelVars, history
<1>15. ASSUME NEW t \in Threads, Flush(t) PROVE QuietInv'
  BY <1>15 DEF Flush, LocalInv, ProgressInv, QuietInv, Settled, Owed, TypeOK, Workers,
     ToFlush, ChunkThread, jobVars, cancelVars, history
<1>16. CASE PublishCustom
  BY <1>16 DEF PublishCustom, LocalInv, ProgressInv, QuietInv, Settled, Owed, TypeOK,
     Workers, ToFlush, ChunkThread, jobVars, cancelVars, history
<1>17. CASE PublishLast
  <2>1. /\ w'.buf = w.buf /\ UNCHANGED <<row, job, tries, troubles>>
        /\ w.pc = "publish" /\ w.chunk \in LastChunks /\ w.buf \cap {"main"} = {}
    BY <1>17 DEF PublishLast, TypeOK, Workers, ToFlush, ChunkThread, jobVars, history
  <2>2. \/ w'.pc = "mark" /\ w'.verdict = "completed" /\ w'.gen = "over"
        \/ w'.pc = "mark" /\ w'.verdict = "failed" /\ w'.gen = "over"
        \/ w'.pc = "decide" /\ w'.gen = "over"
        \/ w'.pc = "mark" /\ w'.verdict = "interrupted" /\ w'.gen = "tail"
    BY <1>17 DEF PublishLast, TypeOK, Workers
  <2> QED BY <2>1, <2>2 DEF LocalInv, ProgressInv, QuietInv, Settled, Owed
<1>18. CASE Decide
  BY <1>18 DEF Decide, LocalInv, ProgressInv, QuietInv, Settled, Owed, TypeOK, Workers,
     jobVars, cancelVars, history
<1>19. CASE Mark
  BY <1>19 DEF Mark, LocalInv, ProgressInv, QuietInv, Settled, Owed, TypeOK, Workers,
     SetTerminal, jobVars, cancelVars, history
<1>20. CASE End
  BY <1>20 DEF End, LocalInv, ProgressInv, QuietInv, Settled, Owed, TypeOK, Workers,
     InTry, jobVars, cancelVars, history
<1>21. CASE Check
  <2>1. w'.buf = w.buf /\ w.pc = "check" /\ UNCHANGED <<row, job, tries, troubles>>
    BY <1>21 DEF Check, TypeOK, Workers, jobVars, history
  <2>2. \/ w'.pc = "cancel" /\ w'.gen = "over" /\ w'.chunk = "none"
        \/ w'.pc = "stream" /\ w'.gen = w.gen /\ w'.chunk = "none"
    BY <1>21 DEF Check, TypeOK, Workers
  <2> QED BY <2>1, <2>2 DEF LocalInv, ProgressInv, QuietInv, Settled, Owed
<1>22. CASE Finish
  BY <1>22 DEF Finish, LocalInv, ProgressInv, QuietInv, Settled, Owed, TypeOK, Workers,
     ToFlush, ChunkThread, jobVars, cancelVars, history
<1>23. CASE HandleCancel
  BY <1>23 DEF HandleCancel, LocalInv, ProgressInv, QuietInv, Settled, Owed, TypeOK,
     Workers, ToFlush, ChunkThread, jobVars, cancelVars, history
<1>24. CASE HandleError
  BY <1>24 DEF HandleError, LocalInv, ProgressInv, QuietInv, Settled, Owed, TypeOK,
     Workers, ToFlush, ChunkThread, jobVars, cancelVars, history
<1>25. CASE Clear
  BY <1>25 DEF Clear, LocalInv, ProgressInv, QuietInv, Settled, Owed, TypeOK, Workers,
     NoWorker, Leave, history
<1>26. CASE Watch
  BY <1>26 DEF Watch, LocalInv, ProgressInv, QuietInv, Settled, Owed, TypeOK, Workers,
     jobVars, cancelVars, history
<1>27. CASE Crash
  BY <1>27 DEF Crash, LocalInv, ProgressInv, QuietInv, Settled, Owed, TypeOK, Workers,
     NoWorker, Leave, Trouble, cancelVars
<1>28. CASE FailInside
  BY <1>28 DEF FailInside, LocalInv, ProgressInv, QuietInv, Settled, Owed, TypeOK,
     Workers, Trouble, InTry, cancelVars
<1>29. CASE FailBefore
  BY <1>29 DEF FailBefore, LocalInv, ProgressInv, QuietInv, Settled, Owed, TypeOK,
     Workers, NoWorker, Leave, Trouble, cancelVars
<1>30. CASE FailHandler
  BY <1>30 DEF FailHandler, LocalInv, ProgressInv, QuietInv, Settled, Owed, TypeOK,
     Workers, Trouble, InTry, cancelVars
<1>31. CASE LoadForCancel
  BY <1>31 DEF LoadForCancel, LocalInv, ProgressInv, QuietInv, Settled, Owed, TypeOK,
     Workers, jobVars, history
<1>32. CASE RequestCancel
  BY <1>32 DEF RequestCancel, LocalInv, ProgressInv, QuietInv, Settled, Owed, TypeOK,
     Workers, SetCancelRequest, jobVars
<1>33. CASE PublishCancel
  BY <1>33 DEF PublishCancel, LocalInv, ProgressInv, QuietInv, Settled, Owed, TypeOK,
     Workers, jobVars, history
<1>34. CASE KeyExpire
  BY <1>34 DEF KeyExpire, LocalInv, ProgressInv, QuietInv, Settled, Owed, TypeOK,
     Workers, jobVars, history
<1>35. ASSUME NEW r \in Readers, ReaderMove(r) PROVE QuietInv'
  BY <1>35, ReaderFrame DEF LocalInv, ProgressInv, QuietInv, Settled, Owed, TypeOK,
     Workers, jobVars, cancelVars, history
<1>36. CASE UNCHANGED vars
  BY <1>36 DEF vars, LocalInv, ProgressInv, QuietInv, Settled, Owed, TypeOK, Workers,
     jobVars, cancelVars, history
<1> QED
  BY <1>1, <1>2, <1>3, <1>4, <1>5, <1>6, <1>7, <1>8, <1>9, <1>10, <1>11,
     <1>12, <1>13, <1>14, <1>15, <1>16, <1>17, <1>18, <1>19, <1>20, <1>21,
     <1>22, <1>23, <1>24, <1>25, <1>26, <1>27, <1>28, <1>29, <1>30, <1>31,
     <1>32, <1>33, <1>34, <1>35, <1>36
  DEF Next, Arq, Agent, Worker, Troubles, Canceller, Fetch, ReaderMove

\* Every way out of the stream loop settles the row.
LEMMA ProgressStep ==
  TypeOK /\ LocalInv /\ QuietInv /\ ProgressInv /\ ~overrun' /\ [Next]_vars => ProgressInv'
<1> SUFFICES ASSUME TypeOK, LocalInv, QuietInv, ProgressInv, ~overrun',
   [Next]_vars PROVE ProgressInv'
  OBVIOUS
<1> USE ConstantAssumption DEF Active, Terminal, Threads, LastChunks, ChunkKinds,
   BeforeTry, InsideTry, Settling, Handlers, Leaving, WorkerPcs
<1>1. CASE Enqueue
  BY <1>1 DEF Enqueue, LocalInv, ProgressInv, QuietInv, Settled, Owed, TypeOK, Workers,
     cancelVars, history
<1>2. CASE Dequeue
  BY <1>2 DEF Dequeue, LocalInv, ProgressInv, QuietInv, Settled, Owed, TypeOK, Workers,
     NoWorker, cancelVars, history
<1>3. CASE GiveUp
  BY <1>3 DEF GiveUp, LocalInv, ProgressInv, QuietInv, Settled, Owed, TypeOK, Workers,
     cancelVars, history
<1>4. ASSUME NEW t \in Threads, Loading(t) PROVE ProgressInv'
  BY <1>4 DEF Loading, LocalInv, ProgressInv, QuietInv, Settled, Owed, TypeOK, Workers,
     Receiving, jobVars, cancelVars, history
<1>5. ASSUME NEW k \in {"custom", "subcustom"}, ReceiveCustom(k) PROVE ProgressInv'
  BY <1>5 DEF ReceiveCustom, LocalInv, ProgressInv, QuietInv, Settled, Owed, TypeOK,
     Workers, Receiving, jobVars, cancelVars, history
<1>6. ASSUME NEW k \in LastChunks, ReceiveLast(k) PROVE ProgressInv'
  BY <1>6 DEF ReceiveLast, LocalInv, ProgressInv, QuietInv, Settled, Owed, TypeOK,
     Workers, Receiving, jobVars, cancelVars, history
<1>7. CASE SaveOutput
  BY <1>7, ZenonT(60) DEF SaveOutput, LocalInv, ProgressInv, QuietInv, Settled, Owed, TypeOK,
     Workers, Receiving, jobVars, cancelVars, history
<1>8. CASE StreamEnd
  BY <1>8 DEF StreamEnd, LocalInv, ProgressInv, QuietInv, Settled, Owed, TypeOK, Workers,
     Receiving, jobVars, cancelVars, history
<1>9. CASE Load
  BY <1>9 DEF Load, LocalInv, ProgressInv, QuietInv, Settled, Owed, TypeOK, Workers,
     NoWorker, Leave, cancelVars, history
<1>10. CASE Validate
  BY <1>10 DEF Validate, LocalInv, ProgressInv, QuietInv, Settled, Owed, TypeOK, Workers,
     jobVars, cancelVars, history
<1>11. CASE Reject
  BY <1>11 DEF Reject, LocalInv, ProgressInv, QuietInv, Settled, Owed, TypeOK, Workers,
     NoWorker, Leave, SetTerminal, cancelVars, history
<1>12. CASE Begin
  BY <1>12 DEF Begin, LocalInv, ProgressInv, QuietInv, Settled, Owed, TypeOK, Workers,
     MarkRunning, jobVars, cancelVars, history
<1>13. CASE Announce
  BY <1>13 DEF Announce, LocalInv, ProgressInv, QuietInv, Settled, Owed, TypeOK, Workers,
     jobVars, cancelVars, history
<1>14. CASE Observe
  BY <1>14 DEF Observe, LocalInv, ProgressInv, QuietInv, Settled, Owed, TypeOK, Workers,
     jobVars, cancelVars, history
<1>15. ASSUME NEW t \in Threads, Flush(t) PROVE ProgressInv'
  BY <1>15 DEF Flush, LocalInv, ProgressInv, QuietInv, Settled, Owed, TypeOK, Workers,
     ToFlush, ChunkThread, jobVars, cancelVars, history
<1>16. CASE PublishCustom
  BY <1>16 DEF PublishCustom, LocalInv, ProgressInv, QuietInv, Settled, Owed, TypeOK,
     Workers, ToFlush, ChunkThread, jobVars, cancelVars, history
<1>17. CASE PublishLast
  <2>1. /\ w'.buf = w.buf /\ UNCHANGED <<row, job, tries, troubles>>
        /\ w.pc = "publish" /\ w.chunk \in LastChunks /\ w.buf \cap {"main"} = {}
    BY <1>17 DEF PublishLast, TypeOK, Workers, ToFlush, ChunkThread, jobVars, history
  <2>2. \/ w'.pc = "mark" /\ w'.verdict = "completed" /\ w'.gen = "over"
        \/ w'.pc = "mark" /\ w'.verdict = "failed" /\ w'.gen = "over"
        \/ w'.pc = "decide" /\ w'.gen = "over"
        \/ w'.pc = "mark" /\ w'.verdict = "interrupted" /\ w'.gen = "tail"
    BY <1>17 DEF PublishLast, TypeOK, Workers
  <2> QED BY <2>1, <2>2 DEF LocalInv, ProgressInv, QuietInv, Settled, Owed
<1>18. CASE Decide
  BY <1>18 DEF Decide, LocalInv, ProgressInv, QuietInv, Settled, Owed, TypeOK, Workers,
     jobVars, cancelVars, history
<1>19. CASE Mark
  BY <1>19 DEF Mark, LocalInv, ProgressInv, QuietInv, Settled, Owed, TypeOK, Workers,
     SetTerminal, jobVars, cancelVars, history
<1>20. CASE End
  BY <1>20 DEF End, LocalInv, ProgressInv, QuietInv, Settled, Owed, TypeOK, Workers,
     InTry, jobVars, cancelVars, history
<1>21. CASE Check
  <2>1. w'.buf = w.buf /\ w.pc = "check" /\ UNCHANGED <<row, job, tries, troubles>>
    BY <1>21 DEF Check, TypeOK, Workers, jobVars, history
  <2>2. \/ w'.pc = "cancel" /\ w'.gen = "over" /\ w'.chunk = "none"
        \/ w'.pc = "stream" /\ w'.gen = w.gen /\ w'.chunk = "none"
    BY <1>21 DEF Check, TypeOK, Workers
  <2> QED BY <2>1, <2>2 DEF LocalInv, ProgressInv, QuietInv, Settled, Owed
<1>22. CASE Finish
  BY <1>22 DEF Finish, LocalInv, ProgressInv, QuietInv, Settled, Owed, TypeOK, Workers,
     ToFlush, ChunkThread, jobVars, cancelVars, history
<1>23. CASE HandleCancel
  BY <1>23 DEF HandleCancel, LocalInv, ProgressInv, QuietInv, Settled, Owed, TypeOK,
     Workers, ToFlush, ChunkThread, jobVars, cancelVars, history
<1>24. CASE HandleError
  BY <1>24, ZenonT(60) DEF HandleError, LocalInv, ProgressInv, QuietInv, Settled, Owed, TypeOK,
     Workers, ToFlush, ChunkThread, jobVars, cancelVars, history
<1>25. CASE Clear
  BY <1>25 DEF Clear, LocalInv, ProgressInv, QuietInv, Settled, Owed, TypeOK, Workers,
     NoWorker, Leave, history
<1>26. CASE Watch
  BY <1>26 DEF Watch, LocalInv, ProgressInv, QuietInv, Settled, Owed, TypeOK, Workers,
     jobVars, cancelVars, history
<1>27. CASE Crash
  BY <1>27 DEF Crash, LocalInv, ProgressInv, QuietInv, Settled, Owed, TypeOK, Workers,
     NoWorker, Leave, Trouble, cancelVars
<1>28. CASE FailInside
  BY <1>28 DEF FailInside, LocalInv, ProgressInv, QuietInv, Settled, Owed, TypeOK,
     Workers, Trouble, InTry, cancelVars
<1>29. CASE FailBefore
  BY <1>29 DEF FailBefore, LocalInv, ProgressInv, QuietInv, Settled, Owed, TypeOK,
     Workers, NoWorker, Leave, Trouble, cancelVars
<1>30. CASE FailHandler
  BY <1>30 DEF FailHandler, LocalInv, ProgressInv, QuietInv, Settled, Owed, TypeOK,
     Workers, Trouble, InTry, cancelVars
<1>31. CASE LoadForCancel
  BY <1>31 DEF LoadForCancel, LocalInv, ProgressInv, QuietInv, Settled, Owed, TypeOK,
     Workers, jobVars, history
<1>32. CASE RequestCancel
  BY <1>32 DEF RequestCancel, LocalInv, ProgressInv, QuietInv, Settled, Owed, TypeOK,
     Workers, SetCancelRequest, jobVars
<1>33. CASE PublishCancel
  BY <1>33 DEF PublishCancel, LocalInv, ProgressInv, QuietInv, Settled, Owed, TypeOK,
     Workers, jobVars, history
<1>34. CASE KeyExpire
  BY <1>34 DEF KeyExpire, LocalInv, ProgressInv, QuietInv, Settled, Owed, TypeOK,
     Workers, jobVars, history
<1>35. ASSUME NEW r \in Readers, ReaderMove(r) PROVE ProgressInv'
  BY <1>35, ReaderFrame DEF LocalInv, ProgressInv, QuietInv, Settled, Owed, TypeOK,
     Workers, jobVars, cancelVars, history
<1>36. CASE UNCHANGED vars
  BY <1>36 DEF vars, LocalInv, ProgressInv, QuietInv, Settled, Owed, TypeOK, Workers,
     jobVars, cancelVars, history
<1> QED
  BY <1>1, <1>2, <1>3, <1>4, <1>5, <1>6, <1>7, <1>8, <1>9, <1>10, <1>11,
     <1>12, <1>13, <1>14, <1>15, <1>16, <1>17, <1>18, <1>19, <1>20, <1>21,
     <1>22, <1>23, <1>24, <1>25, <1>26, <1>27, <1>28, <1>29, <1>30, <1>31,
     <1>32, <1>33, <1>34, <1>35, <1>36
  DEF Next, Arq, Agent, Worker, Troubles, Canceller, Fetch, ReaderMove

\* An unsettled run pays each further try with a trouble.
LEMMA TriesStep ==
  TypeOK /\ LocalInv /\ ProgressInv /\ TriesInv /\ ~overrun' /\ [Next]_vars => TriesInv'
<1> SUFFICES ASSUME TypeOK, LocalInv, ProgressInv, TriesInv, ~overrun',
   [Next]_vars PROVE TriesInv'
  OBVIOUS
<1> USE ConstantAssumption DEF Active, Terminal, Threads, LastChunks, ChunkKinds,
   BeforeTry, InsideTry, Settling, Handlers, Leaving, WorkerPcs
<1>1. CASE Enqueue
  BY <1>1 DEF Enqueue, LocalInv, ProgressInv, TriesInv, Settled, Owed, TypeOK, Workers,
     cancelVars, history
<1>2. CASE Dequeue
  BY <1>2 DEF Dequeue, LocalInv, ProgressInv, TriesInv, Settled, Owed, TypeOK, Workers,
     NoWorker, cancelVars, history
<1>3. CASE GiveUp
  BY <1>3 DEF GiveUp, LocalInv, ProgressInv, TriesInv, Settled, Owed, TypeOK, Workers,
     cancelVars, history
<1>4. ASSUME NEW t \in Threads, Loading(t) PROVE TriesInv'
  BY <1>4 DEF Loading, LocalInv, ProgressInv, TriesInv, Settled, Owed, TypeOK, Workers,
     Receiving, jobVars, cancelVars, history
<1>5. ASSUME NEW k \in {"custom", "subcustom"}, ReceiveCustom(k) PROVE TriesInv'
  BY <1>5 DEF ReceiveCustom, LocalInv, ProgressInv, TriesInv, Settled, Owed, TypeOK,
     Workers, Receiving, jobVars, cancelVars, history
<1>6. ASSUME NEW k \in LastChunks, ReceiveLast(k) PROVE TriesInv'
  BY <1>6 DEF ReceiveLast, LocalInv, ProgressInv, TriesInv, Settled, Owed, TypeOK,
     Workers, Receiving, jobVars, cancelVars, history
<1>7. CASE SaveOutput
  BY <1>7 DEF SaveOutput, LocalInv, ProgressInv, TriesInv, Settled, Owed, TypeOK,
     Workers, Receiving, jobVars, cancelVars, history
<1>8. CASE StreamEnd
  BY <1>8 DEF StreamEnd, LocalInv, ProgressInv, TriesInv, Settled, Owed, TypeOK, Workers,
     Receiving, jobVars, cancelVars, history
<1>9. CASE Load
  BY <1>9 DEF Load, LocalInv, ProgressInv, TriesInv, Settled, Owed, TypeOK, Workers,
     NoWorker, Leave, cancelVars, history
<1>10. CASE Validate
  BY <1>10 DEF Validate, LocalInv, ProgressInv, TriesInv, Settled, Owed, TypeOK, Workers,
     jobVars, cancelVars, history
<1>11. CASE Reject
  BY <1>11 DEF Reject, LocalInv, ProgressInv, TriesInv, Settled, Owed, TypeOK, Workers,
     NoWorker, Leave, SetTerminal, cancelVars, history
<1>12. CASE Begin
  BY <1>12 DEF Begin, LocalInv, ProgressInv, TriesInv, Settled, Owed, TypeOK, Workers,
     MarkRunning, jobVars, cancelVars, history
<1>13. CASE Announce
  BY <1>13 DEF Announce, LocalInv, ProgressInv, TriesInv, Settled, Owed, TypeOK, Workers,
     jobVars, cancelVars, history
<1>14. CASE Observe
  BY <1>14 DEF Observe, LocalInv, ProgressInv, TriesInv, Settled, Owed, TypeOK, Workers,
     jobVars, cancelVars, history
<1>15. ASSUME NEW t \in Threads, Flush(t) PROVE TriesInv'
  BY <1>15 DEF Flush, LocalInv, ProgressInv, TriesInv, Settled, Owed, TypeOK, Workers,
     ToFlush, ChunkThread, jobVars, cancelVars, history
<1>16. CASE PublishCustom
  BY <1>16 DEF PublishCustom, LocalInv, ProgressInv, TriesInv, Settled, Owed, TypeOK,
     Workers, ToFlush, ChunkThread, jobVars, cancelVars, history
<1>17. CASE PublishLast
  <2>1. /\ w'.buf = w.buf /\ UNCHANGED <<row, job, tries, troubles, escaped>>
        /\ w.pc = "publish" /\ w.chunk \in LastChunks /\ w.buf \cap {"main"} = {}
    BY <1>17 DEF PublishLast, TypeOK, Workers, ToFlush, ChunkThread, jobVars, history
  <2>2. \/ w'.pc = "mark" /\ w'.verdict = "completed" /\ w'.gen = "over"
        \/ w'.pc = "mark" /\ w'.verdict = "failed" /\ w'.gen = "over"
        \/ w'.pc = "decide" /\ w'.gen = "over"
        \/ w'.pc = "mark" /\ w'.verdict = "interrupted" /\ w'.gen = "tail"
    BY <1>17 DEF PublishLast, TypeOK, Workers
  <2> QED BY <2>1, <2>2 DEF LocalInv, ProgressInv, TriesInv, Settled, Owed
<1>18. CASE Decide
  BY <1>18 DEF Decide, LocalInv, ProgressInv, TriesInv, Settled, Owed, TypeOK, Workers,
     jobVars, cancelVars, history
<1>19. CASE Mark
  BY <1>19 DEF Mark, LocalInv, ProgressInv, TriesInv, Settled, Owed, TypeOK, Workers,
     SetTerminal, jobVars, cancelVars, history
<1>20. CASE End
  BY <1>20 DEF End, LocalInv, ProgressInv, TriesInv, Settled, Owed, TypeOK, Workers,
     InTry, jobVars, cancelVars, history
<1>21. CASE Check
  <2>1. w'.buf = w.buf /\ w.pc = "check" /\ UNCHANGED <<row, job, tries, troubles, escaped>>
    BY <1>21 DEF Check, TypeOK, Workers, jobVars, history
  <2>2. \/ w'.pc = "cancel" /\ w'.gen = "over" /\ w'.chunk = "none"
        \/ w'.pc = "stream" /\ w'.gen = w.gen /\ w'.chunk = "none"
    BY <1>21 DEF Check, TypeOK, Workers
  <2> QED BY <2>1, <2>2 DEF LocalInv, ProgressInv, TriesInv, Settled, Owed
<1>22. CASE Finish
  BY <1>22 DEF Finish, LocalInv, ProgressInv, TriesInv, Settled, Owed, TypeOK, Workers,
     ToFlush, ChunkThread, jobVars, cancelVars, history
<1>23. CASE HandleCancel
  BY <1>23 DEF HandleCancel, LocalInv, ProgressInv, TriesInv, Settled, Owed, TypeOK,
     Workers, ToFlush, ChunkThread, jobVars, cancelVars, history
<1>24. CASE HandleError
  BY <1>24 DEF HandleError, LocalInv, ProgressInv, TriesInv, Settled, Owed, TypeOK,
     Workers, ToFlush, ChunkThread, jobVars, cancelVars, history
<1>25. CASE Clear
  BY <1>25 DEF Clear, LocalInv, ProgressInv, TriesInv, Settled, Owed, TypeOK, Workers,
     NoWorker, Leave, history
<1>26. CASE Watch
  BY <1>26 DEF Watch, LocalInv, ProgressInv, TriesInv, Settled, Owed, TypeOK, Workers,
     jobVars, cancelVars, history
<1>27. CASE Crash
  BY <1>27 DEF Crash, LocalInv, ProgressInv, TriesInv, Settled, Owed, TypeOK, Workers,
     NoWorker, Leave, Trouble, cancelVars
<1>28. CASE FailInside
  BY <1>28 DEF FailInside, LocalInv, ProgressInv, TriesInv, Settled, Owed, TypeOK,
     Workers, Trouble, InTry, cancelVars
<1>29. CASE FailBefore
  BY <1>29 DEF FailBefore, LocalInv, ProgressInv, TriesInv, Settled, Owed, TypeOK,
     Workers, NoWorker, Leave, Trouble, cancelVars
<1>30. CASE FailHandler
  BY <1>30 DEF FailHandler, LocalInv, ProgressInv, TriesInv, Settled, Owed, TypeOK,
     Workers, Trouble, InTry, cancelVars
<1>31. CASE LoadForCancel
  BY <1>31 DEF LoadForCancel, LocalInv, ProgressInv, TriesInv, Settled, Owed, TypeOK,
     Workers, jobVars, history
<1>32. CASE RequestCancel
  BY <1>32 DEF RequestCancel, LocalInv, ProgressInv, TriesInv, Settled, Owed, TypeOK,
     Workers, SetCancelRequest, jobVars
<1>33. CASE PublishCancel
  BY <1>33 DEF PublishCancel, LocalInv, ProgressInv, TriesInv, Settled, Owed, TypeOK,
     Workers, jobVars, history
<1>34. CASE KeyExpire
  BY <1>34 DEF KeyExpire, LocalInv, ProgressInv, TriesInv, Settled, Owed, TypeOK,
     Workers, jobVars, history
<1>35. ASSUME NEW r \in Readers, ReaderMove(r) PROVE TriesInv'
  BY <1>35, ReaderFrame DEF LocalInv, ProgressInv, TriesInv, Settled, Owed, TypeOK,
     Workers, jobVars, cancelVars, history
<1>36. CASE UNCHANGED vars
  BY <1>36 DEF vars, LocalInv, ProgressInv, TriesInv, Settled, Owed, TypeOK, Workers,
     jobVars, cancelVars, history
<1> QED
  BY <1>1, <1>2, <1>3, <1>4, <1>5, <1>6, <1>7, <1>8, <1>9, <1>10, <1>11,
     <1>12, <1>13, <1>14, <1>15, <1>16, <1>17, <1>18, <1>19, <1>20, <1>21,
     <1>22, <1>23, <1>24, <1>25, <1>26, <1>27, <1>28, <1>29, <1>30, <1>31,
     <1>32, <1>33, <1>34, <1>35, <1>36
  DEF Next, Arq, Agent, Worker, Troubles, Canceller, Fetch, ReaderMove

\* What appending one event does to the stream, seen by position.
LEMMA EmitFacts ==
  ASSUME TypeOK, NEW e \in Events, Emit(e)
  PROVE  /\ Len(log) \in Nat /\ Len(log') = Len(log) + 1
         /\ \A i \in 1 .. Len(log) : log'[i] = log[i]
         /\ log'[Len(log) + 1] = e
  BY DEF TypeOK, Emit

\* Events that are not end events leave the ends of the stream as they are.
LEMMA EmitKeepsEnds ==
  ASSUME TypeOK, NEW e \in Events, Emit(e), e.type # "end"
  PROVE  NoEnd' <=> NoEnd
  BY EmitFacts DEF NoEnd

\* Such an event keeps StreamInv unless it is late text of the run's own thread.
LEMMA EmitKeepsStream ==
  ASSUME TypeOK, StreamInv, NEW e \in Events, Emit(e), e.type # "end",
         e.type = "messages" /\ e.thread = "main" => ~Settled,
         UNCHANGED <<row, struck>>
  PROVE  StreamInv'
<1> USE EmitFacts
<1>1. NoEnd' <=> NoEnd
  BY EmitKeepsEnds
<1>2. (~NoEnd => Settled)'
  BY <1>1 DEF StreamInv, Settled
<1>3. \A i \in 1 .. Len(log') : IsEnd(i)' => i \in 1 .. Len(log) /\ IsEnd(i)
  BY DEF IsEnd
<1>5. (\A i \in 1 .. Len(log) : FirstEnd(i) => struck \/ log[i].status = row)'
  <2> SUFFICES ASSUME NEW i \in 1 .. Len(log'), FirstEnd(i)'
               PROVE  struck \/ log[i].status = row
    BY <1>3 DEF FirstEnd
  <2>1. i \in 1 .. Len(log) /\ IsEnd(i)
    BY <1>3 DEF FirstEnd
  <2>2. NoEndIn(0, i - 1)
    BY <2>1 DEF FirstEnd, NoEndIn
  <2> QED BY <2>1, <2>2 DEF StreamInv, FirstEnd
<1>6. (\A i, j \in 1 .. Len(log) : IsEnd(i) /\ i < j => ~IsContent(j))'
  <2> SUFFICES ASSUME NEW i \in 1 .. Len(log'), NEW j \in 1 .. Len(log'), IsEnd(i)', i < j
               PROVE  ~IsContent(j)'
    OBVIOUS
  <2>1. i \in 1 .. Len(log) /\ IsEnd(i)
    BY <1>3
  <2>2. CASE j \in 1 .. Len(log)
    BY <2>1, <2>2 DEF StreamInv, IsContent
  <2>3. CASE j = Len(log) + 1
    <3>1. ~NoEnd
      BY <2>1 DEF NoEnd, IsEnd
    <3>2. Settled
      BY <3>1 DEF StreamInv
    <3> QED BY <2>3, <3>2 DEF IsContent
  <2> QED BY <2>2, <2>3
<1> QED BY <1>2, <1>5, <1>6 DEF StreamInv

\* An end event keeps it when the row is settled, and with the row's status unless
\* there is an end event already or a trouble struck.
LEMMA EndKeepsStream ==
  ASSUME TypeOK, StreamInv, NEW v \in Terminal, Emit(EndEvent(v)), Settled,
         NoEnd => struck \/ v = row, UNCHANGED <<row, struck>>
  PROVE  StreamInv'
<1> DEFINE e == EndEvent(v)
<1>1. e \in Events /\ e.type = "end" /\ e.status = v
  BY DEF EndEvent, Events, EventTypes, Threads
<1> HIDE DEF e
<1>2. /\ Len(log) \in Nat /\ Len(log') = Len(log) + 1
      /\ \A i \in 1 .. Len(log) : log'[i] = log[i]
      /\ log'[Len(log) + 1] = e
  BY <1>1, EmitFacts DEF e
<1>3. (~NoEnd => Settled)'
  BY DEF Settled
<1>5. (\A i \in 1 .. Len(log) : FirstEnd(i) => struck \/ log[i].status = row)'
  <2> SUFFICES ASSUME NEW i \in 1 .. Len(log'), FirstEnd(i)'
               PROVE  struck \/ log'[i].status = row
    BY DEF FirstEnd
  <2>1. CASE i \in 1 .. Len(log)
    <3>1. FirstEnd(i)
      BY <1>2, <2>1 DEF FirstEnd, IsEnd, NoEndIn
    <3> QED BY <1>2, <2>1, <3>1 DEF StreamInv
  <2>2. CASE i = Len(log) + 1
    <3>1. NoEnd
      BY <1>2, <2>2 DEF FirstEnd, NoEndIn, NoEnd
    <3> QED BY <1>1, <1>2, <2>2, <3>1
  <2> QED BY <1>2, <2>1, <2>2
<1>6. (\A i, j \in 1 .. Len(log) : IsEnd(i) /\ i < j => ~IsContent(j))'
  BY <1>1, <1>2 DEF StreamInv, IsEnd, IsContent
<1> QED BY <1>3, <1>5, <1>6 DEF StreamInv

\* The stream's ends stay backed by the row, and no late text is appended.
LEMMA StreamStep ==
  TypeOK /\ LocalInv /\ QuietInv /\ ProgressInv /\ AnnounceInv /\ StreamInv /\ ~overrun' /\ [Next]_vars => StreamInv'
<1> SUFFICES ASSUME TypeOK, LocalInv, QuietInv, ProgressInv, AnnounceInv, StreamInv,
   ~overrun', [Next]_vars PROVE StreamInv'
  OBVIOUS
<1> USE ConstantAssumption DEF Active, Terminal, Threads, LastChunks, ChunkKinds,
   BeforeTry, InsideTry, Settling, Handlers, Leaving, WorkerPcs
<1>1. CASE Enqueue
  BY <1>1 DEF Enqueue, StreamInv, Settled, NoEnd, NoEndIn, FirstEnd, IsEnd, IsContent,
     TypeOK, ProgressInv, cancelVars, history
<1>2. CASE Dequeue
  BY <1>2 DEF Dequeue, StreamInv, Settled, NoEnd, NoEndIn, FirstEnd, IsEnd, IsContent,
     TypeOK, ProgressInv, cancelVars, history
<1>3. CASE GiveUp
  BY <1>3 DEF GiveUp, StreamInv, Settled, NoEnd, NoEndIn, FirstEnd, IsEnd, IsContent,
     TypeOK, ProgressInv, cancelVars, history
<1>4. ASSUME NEW t \in Threads, Loading(t) PROVE StreamInv'
  <2>1. UNCHANGED log \/ Emit(Event("messages", t))
    BY <1>4 DEF Loading
  <2>2. UNCHANGED <<row, struck>> /\ ~Settled
    BY <1>4 DEF Loading, QuietInv, history
  <2>3. Event("messages", t) \in Events /\ Event("messages", t).type # "end"
    BY DEF Event, Events, EventTypes
  <2>4. CASE UNCHANGED log
    BY <2>2, <2>4 DEF StreamInv, Settled, NoEnd, NoEndIn, FirstEnd, IsEnd, IsContent
  <2>5. CASE Emit(Event("messages", t))
    BY <2>2, <2>3, <2>5, EmitKeepsStream
  <2> QED BY <2>1, <2>4, <2>5
<1>5. ASSUME NEW k \in {"custom", "subcustom"}, ReceiveCustom(k) PROVE StreamInv'
  BY <1>5 DEF ReceiveCustom, StreamInv, Settled, NoEnd, NoEndIn, FirstEnd, IsEnd,
     IsContent, TypeOK, ProgressInv, jobVars, cancelVars, history
<1>6. ASSUME NEW k \in LastChunks, ReceiveLast(k) PROVE StreamInv'
  BY <1>6 DEF ReceiveLast, StreamInv, Settled, NoEnd, NoEndIn, FirstEnd, IsEnd,
     IsContent, TypeOK, ProgressInv, jobVars, cancelVars, history
<1>7. CASE SaveOutput
  BY <1>7 DEF SaveOutput, StreamInv, Settled, NoEnd, NoEndIn, FirstEnd, IsEnd, IsContent,
     TypeOK, ProgressInv, jobVars, cancelVars, history
<1>8. CASE StreamEnd
  BY <1>8 DEF StreamEnd, StreamInv, Settled, NoEnd, NoEndIn, FirstEnd, IsEnd, IsContent,
     TypeOK, ProgressInv, jobVars, cancelVars, history
<1>9. CASE Load
  BY <1>9 DEF Load, StreamInv, Settled, NoEnd, NoEndIn, FirstEnd, IsEnd, IsContent,
     TypeOK, ProgressInv, cancelVars, history
<1>10. CASE Validate
  BY <1>10 DEF Validate, StreamInv, Settled, NoEnd, NoEndIn, FirstEnd, IsEnd, IsContent,
     TypeOK, ProgressInv, jobVars, cancelVars, history
<1>11. CASE Reject
  BY <1>11 DEF Reject, StreamInv, Settled, NoEnd, NoEndIn, FirstEnd, IsEnd, IsContent,
     TypeOK, SetTerminal, ProgressInv, cancelVars, history
<1>12. CASE Begin
  BY <1>12 DEF Begin, StreamInv, Settled, NoEnd, NoEndIn, FirstEnd, IsEnd, IsContent,
     TypeOK, MarkRunning, ProgressInv, jobVars, cancelVars, history
<1>13. CASE Announce
  <2>1. Emit(Event("metadata", "main")) /\ UNCHANGED <<row, struck>>
    BY <1>13 DEF Announce, history
  <2>2. Event("metadata", "main") \in Events /\ Event("metadata",
     "main").type # "end" /\ Event("metadata", "main").type # "messages"
    BY DEF Event, Events, EventTypes
  <2> QED BY <2>1, <2>2, EmitKeepsStream
<1>14. CASE Observe
  BY <1>14 DEF Observe, StreamInv, Settled, NoEnd, NoEndIn, FirstEnd, IsEnd, IsContent,
     TypeOK, ProgressInv, jobVars, cancelVars, history
<1>15. ASSUME NEW t \in Threads, Flush(t) PROVE StreamInv'
  <2>1. Emit(Event("messages", t)) /\ UNCHANGED <<row, struck>> /\ t \in w.buf
    BY <1>15 DEF Flush, ToFlush, history
  <2>2. /\ Event("messages", t) \in Events
        /\ Event("messages", t).type # "end" /\ Event("messages", t).thread = t
    BY DEF Event, Events, EventTypes
  <2>3. t = "main" => ~Settled
    BY <2>1 DEF QuietInv
  <2> QED BY <2>1, <2>2, <2>3, EmitKeepsStream
<1>16. CASE PublishCustom
  <2>1. Emit(Event("custom", ChunkThread)) /\ UNCHANGED <<row, struck>>
    BY <1>16 DEF PublishCustom, history
  <2>2. /\ Event("custom", ChunkThread) \in Events
        /\ Event("custom", ChunkThread).type # "end"
        /\ Event("custom", ChunkThread).type # "messages"
    BY DEF Event, Events, EventTypes, ChunkThread
  <2> QED BY <2>1, <2>2, EmitKeepsStream
<1>17. CASE PublishLast
  <2>1. UNCHANGED <<row, struck>>
    BY <1>17 DEF PublishLast, history
  <2>2. UNCHANGED log \/ Emit(Event("error", "main")) \/ Emit(Event("interrupt", "main"))
    BY <1>17 DEF PublishLast
  <2>3. \A y \in {"error", "interrupt"} :
            /\ Event(y, "main") \in Events
            /\ Event(y, "main").type # "end" /\ Event(y, "main").type # "messages"
    BY DEF Event, Events, EventTypes
  <2>4. CASE UNCHANGED log
    BY <2>1, <2>4 DEF StreamInv, Settled, NoEnd, NoEndIn, FirstEnd, IsEnd, IsContent
  <2> QED BY <2>1, <2>2, <2>3, <2>4, EmitKeepsStream
<1>18. CASE Decide
  BY <1>18 DEF Decide, StreamInv, Settled, NoEnd, NoEndIn, FirstEnd, IsEnd, IsContent,
     TypeOK, ProgressInv, jobVars, cancelVars, history
<1>19. CASE Mark
  BY <1>19 DEF Mark, StreamInv, Settled, NoEnd, NoEndIn, FirstEnd, IsEnd, IsContent,
     TypeOK, SetTerminal, ProgressInv, jobVars, cancelVars, history
<1>20. CASE End
  <2>1. Emit(EndEvent(w.verdict)) /\ UNCHANGED <<row, struck>> /\ w.pc = "end"
    BY <1>20 DEF End, history
  <2>2. w.verdict \in Terminal /\ Settled
    BY <2>1 DEF LocalInv, Owed, ProgressInv
  <2>3. NoEnd => struck \/ w.verdict = row
    BY <2>1, <2>2 DEF AnnounceInv
  <2> QED BY <2>1, <2>2, <2>3, EndKeepsStream
<1>21. CASE Check
  BY <1>21 DEF Check, StreamInv, Settled, NoEnd, NoEndIn, FirstEnd, IsEnd, IsContent,
     TypeOK, ProgressInv, jobVars, cancelVars, history
<1>22. CASE Finish
  BY <1>22 DEF Finish, StreamInv, Settled, NoEnd, NoEndIn, FirstEnd, IsEnd, IsContent,
     TypeOK, ProgressInv, jobVars, cancelVars, history
<1>23. CASE HandleCancel
  <2>1. Emit(Event("interrupt", "main")) /\ UNCHANGED <<row, struck>>
    BY <1>23 DEF HandleCancel, history
  <2>2. Event("interrupt", "main") \in Events /\ Event("interrupt",
     "main").type # "end" /\ Event("interrupt", "main").type # "messages"
    BY DEF Event, Events, EventTypes
  <2> QED BY <2>1, <2>2, EmitKeepsStream
<1>24. CASE HandleError
  <2>1. Emit(Event("error", "main")) /\ UNCHANGED <<row, struck>>
    BY <1>24 DEF HandleError, history
  <2>2. Event("error", "main") \in Events /\ Event("error",
     "main").type # "end" /\ Event("error", "main").type # "messages"
    BY DEF Event, Events, EventTypes
  <2> QED BY <2>1, <2>2, EmitKeepsStream
<1>25. CASE Clear
  BY <1>25 DEF Clear, StreamInv, Settled, NoEnd, NoEndIn, FirstEnd, IsEnd, IsContent,
     TypeOK, ProgressInv, history
<1>26. CASE Watch
  BY <1>26 DEF Watch, StreamInv, Settled, NoEnd, NoEndIn, FirstEnd, IsEnd, IsContent,
     TypeOK, ProgressInv, jobVars, cancelVars, history
<1>27. CASE Crash
  BY <1>27 DEF Crash, StreamInv, Settled, NoEnd, NoEndIn, FirstEnd, IsEnd, IsContent,
     TypeOK, Trouble, ProgressInv, cancelVars
<1>28. CASE FailInside
  BY <1>28, SMTT(30) DEF FailInside, StreamInv, Settled, NoEnd, NoEndIn, FirstEnd, IsEnd,
     IsContent, TypeOK, Trouble, ProgressInv, cancelVars
<1>29. CASE FailBefore
  BY <1>29 DEF FailBefore, StreamInv, Settled, NoEnd, NoEndIn, FirstEnd, IsEnd,
     IsContent, TypeOK, Trouble, ProgressInv, cancelVars
<1>30. CASE FailHandler
  BY <1>30 DEF FailHandler, StreamInv, Settled, NoEnd, NoEndIn, FirstEnd, IsEnd,
     IsContent, TypeOK, Trouble, ProgressInv, cancelVars
<1>31. CASE LoadForCancel
  BY <1>31 DEF LoadForCancel, StreamInv, Settled, NoEnd, NoEndIn, FirstEnd, IsEnd,
     IsContent, TypeOK, ProgressInv, jobVars, history
<1>32. CASE RequestCancel
  <2>0. UNCHANGED <<log, struck>>
    BY <1>32 DEF RequestCancel
  <2>1. CASE cancelPc = "writes"
    <3>1. ~Settled /\ NoEnd
      BY <1>32, <2>1 DEF RequestCancel, Settled, StreamInv
    <3> QED BY <2>0, <3>1 DEF StreamInv, NoEnd, NoEndIn, FirstEnd, IsEnd, IsContent
  <2>2. CASE cancelPc # "writes"
    <3>1. UNCHANGED row
      BY <1>32, <2>2 DEF RequestCancel, SetCancelRequest
    <3> QED BY <2>0, <3>1 DEF StreamInv, Settled, NoEnd, NoEndIn, FirstEnd, IsEnd, IsContent
  <2> QED BY <2>1, <2>2
<1>33. CASE PublishCancel
  BY <1>33 DEF PublishCancel, StreamInv, Settled, NoEnd, NoEndIn, FirstEnd, IsEnd,
     IsContent, TypeOK, ProgressInv, jobVars, history
<1>34. CASE KeyExpire
  BY <1>34 DEF KeyExpire, StreamInv, Settled, NoEnd, NoEndIn, FirstEnd, IsEnd, IsContent,
     TypeOK, ProgressInv, jobVars, history
<1>35. ASSUME NEW r \in Readers, ReaderMove(r) PROVE StreamInv'
  BY <1>35, ReaderFrame DEF StreamInv, Settled, NoEnd, NoEndIn, FirstEnd, IsEnd,
     IsContent, TypeOK, ProgressInv, jobVars, cancelVars, history
<1>36. CASE UNCHANGED vars
  BY <1>36 DEF vars, StreamInv, Settled, NoEnd, NoEndIn, FirstEnd, IsEnd, IsContent,
     TypeOK, ProgressInv, jobVars, cancelVars, history
<1> QED
  BY <1>1, <1>2, <1>3, <1>4, <1>5, <1>6, <1>7, <1>8, <1>9, <1>10, <1>11,
     <1>12, <1>13, <1>14, <1>15, <1>16, <1>17, <1>18, <1>19, <1>20, <1>21,
     <1>22, <1>23, <1>24, <1>25, <1>26, <1>27, <1>28, <1>29, <1>30, <1>31,
     <1>32, <1>33, <1>34, <1>35, <1>36
  DEF Next, Arq, Agent, Worker, Troubles, Canceller, Fetch, ReaderMove

\* Until its end event is appended, a settled row is what will be announced.
LEMMA AnnounceStep ==
  TypeOK /\ LocalInv /\ QuietInv /\ ProgressInv /\ AnnounceInv /\ StreamInv /\ [Next]_vars => AnnounceInv'
<1> SUFFICES ASSUME TypeOK, LocalInv, QuietInv, ProgressInv, AnnounceInv, StreamInv,
   [Next]_vars PROVE AnnounceInv'
  OBVIOUS
<1> USE ConstantAssumption DEF Active, Terminal, Threads, LastChunks, ChunkKinds,
   BeforeTry, InsideTry, Settling, Handlers, Leaving, WorkerPcs
<1>1. CASE Enqueue
  BY <1>1 DEF Enqueue, AnnounceInv, Settled, NoEnd, TypeOK, Workers, LocalInv, Owed,
     QuietInv, ProgressInv, cancelVars, history
<1>2. CASE Dequeue
  BY <1>2 DEF Dequeue, AnnounceInv, Settled, NoEnd, TypeOK, Workers, LocalInv, Owed,
     QuietInv, ProgressInv, NoWorker, cancelVars, history
<1>3. CASE GiveUp
  BY <1>3 DEF GiveUp, AnnounceInv, Settled, NoEnd, TypeOK, Workers, LocalInv, Owed,
     QuietInv, ProgressInv, cancelVars, history
<1>4. ASSUME NEW t \in Threads, Loading(t) PROVE AnnounceInv'
  <2>1. ~Settled /\ UNCHANGED row
    BY <1>4 DEF Loading, QuietInv
  <2> QED BY <2>1 DEF AnnounceInv, Settled
<1>5. ASSUME NEW k \in {"custom", "subcustom"}, ReceiveCustom(k) PROVE AnnounceInv'
  BY <1>5 DEF ReceiveCustom, AnnounceInv, Receiving, Settled, NoEnd, TypeOK, Workers,
     LocalInv, Owed, QuietInv, ProgressInv, jobVars, cancelVars, history
<1>6. ASSUME NEW k \in LastChunks, ReceiveLast(k) PROVE AnnounceInv'
  BY <1>6 DEF ReceiveLast, AnnounceInv, Receiving, Settled, NoEnd, TypeOK, Workers,
     LocalInv, Owed, QuietInv, ProgressInv, jobVars, cancelVars, history
<1>7. CASE SaveOutput
  BY <1>7 DEF SaveOutput, AnnounceInv, Receiving, Settled, NoEnd, TypeOK, Workers,
     LocalInv, Owed, QuietInv, ProgressInv, jobVars, cancelVars, history
<1>8. CASE StreamEnd
  BY <1>8 DEF StreamEnd, AnnounceInv, Receiving, Settled, NoEnd, TypeOK, Workers,
     LocalInv, Owed, QuietInv, ProgressInv, jobVars, cancelVars, history
<1>9. CASE Load
  BY <1>9 DEF Load, AnnounceInv, Settled, NoEnd, TypeOK, Workers, LocalInv, Owed,
     QuietInv, ProgressInv, NoWorker, Leave, cancelVars, history
<1>10. CASE Validate
  BY <1>10 DEF Validate, AnnounceInv, Settled, NoEnd, TypeOK, Workers, LocalInv, Owed,
     QuietInv, ProgressInv, jobVars, cancelVars, history
<1>11. CASE Reject
  BY <1>11 DEF Reject, AnnounceInv, Settled, NoEnd, TypeOK, Workers, LocalInv, Owed,
     QuietInv, ProgressInv, NoWorker, Leave, SetTerminal, cancelVars, history
<1>12. CASE Begin
  BY <1>12 DEF Begin, AnnounceInv, Settled, NoEnd, TypeOK, Workers, LocalInv, Owed,
     QuietInv, ProgressInv, MarkRunning, jobVars, cancelVars, history
<1>13. CASE Announce
  <2>1. Emit(Event("metadata", "main")) /\ UNCHANGED <<row, struck>>
    BY <1>13 DEF Announce, history
  <2>2. Event("metadata", "main") \in Events /\ Event("metadata", "main").type # "end"
    BY DEF Event, Events, EventTypes
  <2>3. NoEnd' <=> NoEnd
    BY <2>1, <2>2, EmitKeepsEnds
  <2> QED BY <1>13, <2>1, <2>3 DEF Announce, AnnounceInv, ProgressInv, Settled
<1>14. CASE Observe
  BY <1>14 DEF Observe, AnnounceInv, Settled, NoEnd, TypeOK, Workers, LocalInv, Owed,
     QuietInv, ProgressInv, jobVars, cancelVars, history
<1>15. ASSUME NEW t \in Threads, Flush(t) PROVE AnnounceInv'
  <2>1. Emit(Event("messages", t)) /\ UNCHANGED <<row, struck>>
    BY <1>15 DEF Flush, history
  <2>2. Event("messages", t) \in Events /\ Event("messages", t).type # "end"
    BY DEF Event, Events, EventTypes
  <2>3. NoEnd' <=> NoEnd
    BY <2>1, <2>2, EmitKeepsEnds
  <2> QED BY <1>15, <2>1, <2>3 DEF Flush, AnnounceInv, Settled
<1>16. CASE PublishCustom
  <2>1. Emit(Event("custom", ChunkThread)) /\ UNCHANGED <<row, struck>>
    BY <1>16 DEF PublishCustom, history
  <2>2. Event("custom", ChunkThread) \in Events /\ Event("custom", ChunkThread).type # "end"
    BY DEF Event, Events, EventTypes, ChunkThread
  <2>3. NoEnd' <=> NoEnd
    BY <2>1, <2>2, EmitKeepsEnds
  <2> QED BY <1>16, <2>1, <2>3 DEF PublishCustom, AnnounceInv, Settled
<1>17. CASE PublishLast
  <2>1. UNCHANGED <<row, struck>> /\ w.pc = "publish"
    BY <1>17 DEF PublishLast, history
  <2>2. UNCHANGED log \/ Emit(Event("error", "main")) \/ Emit(Event("interrupt", "main"))
    BY <1>17 DEF PublishLast
  <2>3. \A y \in {"error", "interrupt"} :
            Event(y, "main") \in Events /\ Event(y, "main").type # "end"
    BY DEF Event, Events, EventTypes
  <2>4. NoEnd' <=> NoEnd
    BY <2>2, <2>3, EmitKeepsEnds DEF NoEnd
  <2> QED BY <2>1, <2>4 DEF AnnounceInv, Settled
<1>18. CASE Decide
  BY <1>18 DEF Decide, AnnounceInv, Settled, NoEnd, TypeOK, Workers, LocalInv, Owed,
     QuietInv, ProgressInv, jobVars, cancelVars, history
<1>19. CASE Mark
  BY <1>19 DEF Mark, AnnounceInv, Settled, NoEnd, TypeOK, Workers, LocalInv, Owed,
     QuietInv, ProgressInv, SetTerminal, jobVars, cancelVars, history
<1>20. CASE End
  <2>1. /\ Emit(EndEvent(w.verdict)) /\ w.verdict \in Terminal
    BY <1>20 DEF End, LocalInv, Owed
  <2>2. EndEvent(w.verdict) \in Events /\ EndEvent(w.verdict).type = "end"
    BY <2>1 DEF EndEvent, Events, EventTypes
  <2>3. ~NoEnd'
    BY <2>1, <2>2, EmitFacts DEF NoEnd
  <2> QED BY <2>3 DEF AnnounceInv
<1>21. CASE Check
  BY <1>21 DEF Check, AnnounceInv, Settled, NoEnd, TypeOK, Workers, LocalInv, Owed,
     QuietInv, ProgressInv, jobVars, cancelVars, history
<1>22. CASE Finish
  BY <1>22 DEF Finish, AnnounceInv, Settled, NoEnd, TypeOK, Workers, LocalInv, Owed,
     QuietInv, ProgressInv, jobVars, cancelVars, history
<1>23. CASE HandleCancel
  <2>1. Emit(Event("interrupt", "main")) /\ UNCHANGED <<row, struck>>
    BY <1>23 DEF HandleCancel, history
  <2>2. Event("interrupt", "main") \in Events /\ Event("interrupt", "main").type # "end"
    BY DEF Event, Events, EventTypes
  <2>3. NoEnd' <=> NoEnd
    BY <2>1, <2>2, EmitKeepsEnds
  <2> QED BY <1>23, <2>1, <2>3 DEF HandleCancel, AnnounceInv, ProgressInv, Settled
<1>24. CASE HandleError
  <2>1. Emit(Event("error", "main")) /\ UNCHANGED <<row, struck>>
    BY <1>24 DEF HandleError, history
  <2>2. Event("error", "main") \in Events /\ Event("error", "main").type # "end"
    BY DEF Event, Events, EventTypes
  <2>3. NoEnd' <=> NoEnd
    BY <2>1, <2>2, EmitKeepsEnds
  <2> QED BY <1>24, <2>1, <2>3 DEF HandleError, AnnounceInv, ProgressInv, Settled
<1>25. CASE Clear
  BY <1>25 DEF Clear, AnnounceInv, Settled, NoEnd, TypeOK, Workers, LocalInv, Owed,
     QuietInv, ProgressInv, NoWorker, Leave, history
<1>26. CASE Watch
  BY <1>26 DEF Watch, AnnounceInv, Settled, NoEnd, TypeOK, Workers, LocalInv, Owed,
     QuietInv, ProgressInv, jobVars, cancelVars, history
<1>27. CASE Crash
  <2>1. struck' = (struck \/ (row \in Terminal /\ NoEnd)) /\ UNCHANGED <<row, log>>
    BY <1>27 DEF Crash, Trouble
  <2> QED BY <2>1 DEF AnnounceInv, Settled, NoEnd
<1>28. CASE FailInside
  <2>1. struck' = (struck \/ (row \in Terminal /\ NoEnd)) /\ UNCHANGED <<row, log>>
    BY <1>28 DEF FailInside, Trouble
  <2> QED BY <2>1 DEF AnnounceInv, Settled, NoEnd
<1>29. CASE FailBefore
  <2>1. struck' = (struck \/ (row \in Terminal /\ NoEnd)) /\ UNCHANGED <<row, log>>
    BY <1>29 DEF FailBefore, Trouble
  <2> QED BY <2>1 DEF AnnounceInv, Settled, NoEnd
<1>30. CASE FailHandler
  <2>1. struck' = (struck \/ (row \in Terminal /\ NoEnd)) /\ UNCHANGED <<row, log>>
    BY <1>30 DEF FailHandler, Trouble
  <2> QED BY <2>1 DEF AnnounceInv, Settled, NoEnd
<1>31. CASE LoadForCancel
  BY <1>31 DEF LoadForCancel, AnnounceInv, Settled, NoEnd, TypeOK, Workers, LocalInv,
     Owed, QuietInv, ProgressInv, jobVars, history
<1>32. CASE RequestCancel
  BY <1>32 DEF RequestCancel, AnnounceInv, Settled, NoEnd, TypeOK, Workers, LocalInv,
     Owed, QuietInv, ProgressInv, SetCancelRequest, jobVars
<1>33. CASE PublishCancel
  BY <1>33 DEF PublishCancel, AnnounceInv, Settled, NoEnd, TypeOK, Workers, LocalInv,
     Owed, QuietInv, ProgressInv, jobVars, history
<1>34. CASE KeyExpire
  BY <1>34 DEF KeyExpire, AnnounceInv, Settled, NoEnd, TypeOK, Workers, LocalInv, Owed,
     QuietInv, ProgressInv, jobVars, history
<1>35. ASSUME NEW r \in Readers, ReaderMove(r) PROVE AnnounceInv'
  BY <1>35, ReaderFrame DEF AnnounceInv, Settled, NoEnd, TypeOK, Workers, LocalInv, Owed,
     QuietInv, ProgressInv, jobVars, cancelVars, history
<1>36. CASE UNCHANGED vars
  BY <1>36 DEF vars, AnnounceInv, Settled, NoEnd, TypeOK, Workers, LocalInv, Owed,
     QuietInv, ProgressInv, jobVars, cancelVars, history
<1> QED
  BY <1>1, <1>2, <1>3, <1>4, <1>5, <1>6, <1>7, <1>8, <1>9, <1>10, <1>11,
     <1>12, <1>13, <1>14, <1>15, <1>16, <1>17, <1>18, <1>19, <1>20, <1>21,
     <1>22, <1>23, <1>24, <1>25, <1>26, <1>27, <1>28, <1>29, <1>30, <1>31,
     <1>32, <1>33, <1>34, <1>35, <1>36
  DEF Next, Arq, Agent, Worker, Troubles, Canceller, Fetch, ReaderMove

\* No event but an end event carries a status.
StatusKept == \A i \in 1 .. Len(log') :
                 log'[i].status = "none" \/ (i \in 1 .. Len(log) /\ log'[i] = log[i])

\* Appending an event that says nothing of a status adds none.
LEMMA EmitStatus ==
  ASSUME TypeOK,
         (\E y \in EventTypes, t \in Threads : Emit(Event(y, t))) \/ UNCHANGED log
  PROVE  StatusKept
<1>1. CASE UNCHANGED log
  BY <1>1 DEF StatusKept
<1>2. ASSUME NEW y \in EventTypes, NEW t \in Threads, Emit(Event(y, t)) PROVE StatusKept
  <2>1. Event(y, t) \in Events /\ Event(y, t).status = "none"
    BY DEF Event, Events
  <2> QED BY <1>2, <2>1, EmitFacts DEF StatusKept
<1> QED BY <1>1, <1>2

\* Whoever says "completed" has the output behind it.
LEMMA OutputStep ==
  TypeOK /\ LocalInv /\ OutputInv /\ [Next]_vars => OutputInv'
<1> SUFFICES ASSUME TypeOK, LocalInv, OutputInv, [Next]_vars PROVE OutputInv'
  OBVIOUS
<1> USE ConstantAssumption DEF Active, Terminal, Threads, LastChunks, ChunkKinds,
   BeforeTry, InsideTry, Settling, Handlers, Leaving, WorkerPcs
<1>1. CASE Enqueue
  BY <1>1 DEF Enqueue, OutputInv, TypeOK, Workers, LocalInv, cancelVars, history
<1>2. CASE Dequeue
  BY <1>2 DEF Dequeue, OutputInv, TypeOK, Workers, NoWorker, LocalInv, cancelVars, history
<1>3. CASE GiveUp
  BY <1>3 DEF GiveUp, OutputInv, TypeOK, Workers, LocalInv, cancelVars, history
<1>4. ASSUME NEW t \in Threads, Loading(t) PROVE OutputInv'
  <2>1. Emit(Event("messages", t)) \/ UNCHANGED log
    BY <1>4 DEF Loading
  <2>2. StatusKept
    BY <2>1, EmitStatus DEF EventTypes
  <2>3. w'.gen = w.gen /\ w'.verdict = w.verdict /\ UNCHANGED <<row, output>>
    BY <1>4 DEF Loading, TypeOK, Workers
  <2> QED BY <2>2, <2>3 DEF StatusKept, OutputInv
<1>5. ASSUME NEW k \in {"custom", "subcustom"}, ReceiveCustom(k) PROVE OutputInv'
  BY <1>5 DEF ReceiveCustom, OutputInv, Receiving, TypeOK, Workers, LocalInv, jobVars,
     cancelVars, history
<1>6. ASSUME NEW k \in LastChunks, ReceiveLast(k) PROVE OutputInv'
  BY <1>6 DEF ReceiveLast, OutputInv, AfterLast, Receiving, TypeOK, Workers, LocalInv,
     jobVars, cancelVars, history
<1>7. CASE SaveOutput
  BY <1>7 DEF SaveOutput, OutputInv, Receiving, TypeOK, Workers, LocalInv, jobVars,
     cancelVars, history
<1>8. CASE StreamEnd
  BY <1>8 DEF StreamEnd, OutputInv, Receiving, TypeOK, Workers, LocalInv, jobVars,
     cancelVars, history
<1>9. CASE Load
  BY <1>9 DEF Load, OutputInv, TypeOK, Workers, NoWorker, LocalInv, Leave, cancelVars,
     history
<1>10. CASE Validate
  BY <1>10 DEF Validate, OutputInv, TypeOK, Workers, LocalInv, jobVars, cancelVars, history
<1>11. CASE Reject
  BY <1>11 DEF Reject, OutputInv, TypeOK, Workers, NoWorker, LocalInv, Leave,
     SetTerminal, cancelVars, history
<1>12. CASE Begin
  BY <1>12 DEF Begin, OutputInv, TypeOK, Workers, LocalInv, MarkRunning, jobVars,
     cancelVars, history
<1>13. CASE Announce
  <2>1. (\E y \in EventTypes, t \in Threads : Emit(Event(y, t))) \/ UNCHANGED log
    BY <1>13 DEF Announce, EventTypes, ChunkThread
  <2>2. StatusKept
    BY <2>1, EmitStatus
  <2> QED BY <1>13, <2>2 DEF Announce, StatusKept, OutputInv, TypeOK, Workers, LocalInv
<1>14. CASE Observe
  BY <1>14 DEF Observe, OutputInv, TypeOK, Workers, LocalInv, jobVars, cancelVars, history
<1>15. ASSUME NEW t \in Threads, Flush(t) PROVE OutputInv'
  <2>1. Emit(Event("messages", t)) \/ UNCHANGED log
    BY <1>15 DEF Flush
  <2>2. StatusKept
    BY <2>1, EmitStatus DEF EventTypes
  <2>3. w'.gen = w.gen /\ w'.verdict = w.verdict /\ UNCHANGED <<row, output>>
    BY <1>15 DEF Flush, TypeOK, Workers
  <2> QED BY <2>2, <2>3 DEF StatusKept, OutputInv
<1>16. CASE PublishCustom
  <2>1. (\E y \in EventTypes, t \in Threads : Emit(Event(y, t))) \/ UNCHANGED log
    BY <1>16 DEF PublishCustom, EventTypes, ChunkThread
  <2>2. StatusKept
    BY <2>1, EmitStatus
  <2> QED BY <1>16, <2>2 DEF PublishCustom, StatusKept, OutputInv, TypeOK, Workers, LocalInv
<1>17. CASE PublishLast
  <2>1. Emit(Event("error", "main")) \/ Emit(Event("interrupt", "main")) \/ UNCHANGED log
    BY <1>17 DEF PublishLast
  <2>2. StatusKept
    BY <2>1, EmitStatus DEF EventTypes
  <2>3. /\ w'.gen \in {"over", "tail"} /\ UNCHANGED <<row, output>>
        /\ w'.verdict = "completed" => w.gen = "saved" \/ w.verdict = "completed"
    BY <1>17, ZenonT(60) DEF PublishLast, TypeOK, Workers, LocalInv
  <2> QED BY <2>2, <2>3 DEF StatusKept, OutputInv
<1>18. CASE Decide
  BY <1>18 DEF Decide, OutputInv, TypeOK, Workers, LocalInv, jobVars, cancelVars, history
<1>19. CASE Mark
  BY <1>19 DEF Mark, OutputInv, TypeOK, Workers, LocalInv, SetTerminal, jobVars,
     cancelVars, history
<1>20. CASE End
  <2>1. /\ Emit(EndEvent(w.verdict)) /\ w.verdict \in Terminal
        /\ w'.gen = w.gen /\ w'.verdict = w.verdict /\ UNCHANGED <<row, output>>
    BY <1>20 DEF End, LocalInv, Owed, TypeOK, Workers
  <2>2. EndEvent(w.verdict) \in Events /\ EndEvent(w.verdict).status = w.verdict
    BY <2>1 DEF EndEvent, Events, EventTypes
  <2>3. CASE output # "none"
    BY <2>1, <2>3 DEF OutputInv
  <2>4. CASE output = "none"
    BY <2>1, <2>2, <2>4, EmitFacts DEF OutputInv
  <2> QED BY <2>3, <2>4
<1>21. CASE Check
  BY <1>21, ZenonT(60) DEF Check, OutputInv, TypeOK, Workers, LocalInv, jobVars, cancelVars, history
<1>22. CASE Finish
  BY <1>22 DEF Finish, OutputInv, TypeOK, Workers, LocalInv, jobVars, cancelVars, history
<1>23. CASE HandleCancel
  <2>1. (\E y \in EventTypes, t \in Threads : Emit(Event(y, t))) \/ UNCHANGED log
    BY <1>23 DEF HandleCancel, EventTypes, ChunkThread
  <2>2. StatusKept
    BY <2>1, EmitStatus
  <2> QED BY <1>23, <2>2 DEF HandleCancel, StatusKept, OutputInv, TypeOK, Workers, LocalInv
<1>24. CASE HandleError
  <2>1. Emit(Event("error", "main")) /\ UNCHANGED <<row, output>>
    BY <1>24 DEF HandleError
  <2>2. StatusKept
    BY <2>1, EmitStatus DEF EventTypes
  <2>3. w'.gen = w.gen /\ w'.verdict \in {w.verdict, "failed"}
    BY <1>24 DEF HandleError, TypeOK, Workers
  <2> QED BY <2>1, <2>2, <2>3 DEF StatusKept, OutputInv
<1>25. CASE Clear
  BY <1>25 DEF Clear, OutputInv, TypeOK, Workers, NoWorker, LocalInv, Leave, history
<1>26. CASE Watch
  BY <1>26 DEF Watch, OutputInv, TypeOK, Workers, LocalInv, jobVars, cancelVars, history
<1>27. CASE Crash
  BY <1>27 DEF Crash, OutputInv, TypeOK, Workers, NoWorker, LocalInv, Leave, Trouble,
     cancelVars
<1>28. CASE FailInside
  BY <1>28 DEF FailInside, OutputInv, TypeOK, Workers, LocalInv, Trouble, cancelVars
<1>29. CASE FailBefore
  BY <1>29 DEF FailBefore, OutputInv, TypeOK, Workers, NoWorker, LocalInv, Leave,
     Trouble, cancelVars
<1>30. CASE FailHandler
  BY <1>30 DEF FailHandler, OutputInv, TypeOK, Workers, LocalInv, Trouble, cancelVars
<1>31. CASE LoadForCancel
  BY <1>31 DEF LoadForCancel, OutputInv, TypeOK, Workers, LocalInv, jobVars, history
<1>32. CASE RequestCancel
  BY <1>32 DEF RequestCancel, OutputInv, TypeOK, Workers, LocalInv, SetCancelRequest,
     jobVars
<1>33. CASE PublishCancel
  BY <1>33 DEF PublishCancel, OutputInv, TypeOK, Workers, LocalInv, jobVars, history
<1>34. CASE KeyExpire
  BY <1>34 DEF KeyExpire, OutputInv, TypeOK, Workers, LocalInv, jobVars, history
<1>35. ASSUME NEW r \in Readers, ReaderMove(r) PROVE OutputInv'
  BY <1>35, ReaderFrame DEF OutputInv, TypeOK, Workers, LocalInv, jobVars, cancelVars,
     history
<1>36. CASE UNCHANGED vars
  BY <1>36 DEF vars, OutputInv, TypeOK, Workers, LocalInv, jobVars, cancelVars, history
<1> QED
  BY <1>1, <1>2, <1>3, <1>4, <1>5, <1>6, <1>7, <1>8, <1>9, <1>10, <1>11,
     <1>12, <1>13, <1>14, <1>15, <1>16, <1>17, <1>18, <1>19, <1>20, <1>21,
     <1>22, <1>23, <1>24, <1>25, <1>26, <1>27, <1>28, <1>29, <1>30, <1>31,
     <1>32, <1>33, <1>34, <1>35, <1>36
  DEF Next, Arq, Agent, Worker, Troubles, Canceller, Fetch, ReaderMove

\* What the steps of everybody else do to a reader: the stream grows by at most one
\* event, and while no cancel has overrun the row a settled one stays as it is and
\* the event is no late text.
Grows == /\ output # "none" => output' # "none"
         /\ struck => struck'
         /\ Len(log) <= Len(log')
         /\ \A i \in 1 .. Len(log) : log'[i] = log[i]
         /\ \A i \in Len(log) + 1 .. Len(log') : IsEnd(i)' => log'[i].status \in Terminal
         /\ Settled /\ QuietInv /\ ~overrun' =>
               /\ UNCHANGED row
               /\ \A i \in Len(log) + 1 .. Len(log') : ~IsContent(i)'

\* Appending an event grows the stream, unless it is late text.
LEMMA EmitGrows ==
  ASSUME TypeOK, NEW e \in Events, Emit(e), UNCHANGED <<row, output, struck>>,
         e.type = "end" => e.status \in Terminal,
         e.type = "messages" /\ e.thread = "main" => ~(Settled /\ QuietInv)
  PROVE  Grows
<1>1. /\ Len(log) \in Nat /\ Len(log') = Len(log) + 1
      /\ \A i \in 1 .. Len(log) : log'[i] = log[i]
      /\ log'[Len(log) + 1] = e
  BY EmitFacts
<1>2. Settled /\ QuietInv => \A i \in Len(log) + 1 .. Len(log') : ~IsContent(i)'
  BY <1>1 DEF IsContent
<1>3. \A i \in Len(log) + 1 .. Len(log') : IsEnd(i)' => log'[i].status \in Terminal
  BY <1>1 DEF IsEnd
<1> QED BY <1>1, <1>2, <1>3 DEF Grows

\* So does leaving it alone.
LEMMA StillGrows ==
  ASSUME TypeOK, UNCHANGED log, Settled /\ ~overrun' => UNCHANGED row,
         output # "none" => output' # "none", struck => struck'
  PROVE  Grows
<1>1. Len(log) \in Nat
  BY DEF TypeOK
<1> QED BY <1>1 DEF Grows

\* Every step that is not a reader's grows the stream in that sense.
LEMMA OthersGrow ==
  ASSUME TypeOK, LocalInv,
         Enqueue \/ Arq \/ Agent \/ Worker \/ Watch \/ Troubles \/ Canceller
  PROVE  Grows
<1> USE DEF Active, Terminal, Threads, LastChunks, ChunkKinds, BeforeTry, InsideTry,
   Settling, Handlers, Leaving, WorkerPcs
<1>1. CASE Enqueue
  BY <1>1, StillGrows DEF Enqueue, Settled, history
<1>2. CASE Dequeue
  BY <1>2, StillGrows DEF Dequeue, Settled, history
<1>3. CASE GiveUp
  BY <1>3, StillGrows DEF GiveUp, Settled, history
<1>4. ASSUME NEW t \in Threads, Loading(t) PROVE Grows
  <2>1. UNCHANGED <<row, output, struck>> /\ ~(Settled /\ QuietInv)
    BY <1>4 DEF Loading, QuietInv, history
  <2>2. UNCHANGED log \/ Emit(Event("messages", t))
    BY <1>4 DEF Loading
  <2>3. Event("messages", t) \in Events /\ Event("messages", t).type # "end"
    BY DEF Event, Events, EventTypes
  <2> QED BY <2>1, <2>2, <2>3, EmitGrows, StillGrows
<1>5. ASSUME NEW k \in {"custom", "subcustom"}, ReceiveCustom(k) PROVE Grows
  BY <1>5, StillGrows DEF ReceiveCustom, Settled, history
<1>6. ASSUME NEW k \in LastChunks, ReceiveLast(k) PROVE Grows
  BY <1>6, StillGrows DEF ReceiveLast, AfterLast, Settled, history
<1>7. CASE SaveOutput
  BY <1>7, StillGrows DEF SaveOutput, Settled, history
<1>8. CASE StreamEnd
  BY <1>8, StillGrows DEF StreamEnd, Settled, history
<1>9. CASE Load
  BY <1>9, StillGrows DEF Load, Settled, history
<1>10. CASE Validate
  BY <1>10, StillGrows DEF Validate, Settled, history
<1>11. CASE Reject
  BY <1>11, StillGrows DEF Reject, Settled, SetTerminal, history
<1>12. CASE Begin
  BY <1>12, StillGrows DEF Begin, Settled, MarkRunning, history
<1>13. CASE Announce
  <2>1. Emit(Event("metadata", "main")) /\ UNCHANGED <<row, output, struck>>
    BY <1>13 DEF Announce, history
  <2>2. Event("metadata", "main") \in Events /\ Event("metadata",
     "main").type \notin {"messages", "end"}
    BY DEF Event, Events, EventTypes
  <2> QED BY <2>1, <2>2, EmitGrows
<1>14. CASE Observe
  BY <1>14, StillGrows DEF Observe, Settled, history
<1>15. ASSUME NEW t \in Threads, Flush(t) PROVE Grows
  <2>1. Emit(Event("messages", t)) /\ UNCHANGED <<row, output, struck>> /\ t \in w.buf
    BY <1>15 DEF Flush, ToFlush, history
  <2>2. /\ Event("messages", t) \in Events /\ Event("messages", t).thread = t
        /\ Event("messages", t).type # "end"
    BY DEF Event, Events, EventTypes
  <2>3. t = "main" => ~(Settled /\ QuietInv)
    BY <2>1 DEF QuietInv
  <2> QED BY <2>1, <2>2, <2>3, EmitGrows
<1>16. CASE PublishCustom
  <2>1. Emit(Event("custom", ChunkThread)) /\ UNCHANGED <<row, output, struck>>
    BY <1>16 DEF PublishCustom, history
  <2>2. Event("custom", ChunkThread) \in Events /\ Event("custom",
     ChunkThread).type \notin {"messages", "end"}
    BY DEF Event, Events, EventTypes, ChunkThread
  <2> QED BY <2>1, <2>2, EmitGrows
<1>17. CASE PublishLast
  <2>1. UNCHANGED <<row, output, struck>>
    BY <1>17 DEF PublishLast, history
  <2>2. UNCHANGED log \/ Emit(Event("error", "main")) \/ Emit(Event("interrupt", "main"))
    BY <1>17 DEF PublishLast
  <2>3. \A y \in {"error", "interrupt"} :
            /\ Event(y, "main") \in Events
            /\ Event(y, "main").type \notin {"messages", "end"}
    BY DEF Event, Events, EventTypes
  <2> QED BY <2>1, <2>2, <2>3, EmitGrows, StillGrows
<1>18. CASE Decide
  BY <1>18, StillGrows DEF Decide, Settled, history
<1>19. CASE Mark
  BY <1>19, StillGrows DEF Mark, Settled, SetTerminal, history
<1>20. CASE End
  <2>1. /\ Emit(EndEvent(w.verdict)) /\ w.verdict \in Terminal
        /\ UNCHANGED <<row, output, struck>>
    BY <1>20 DEF End, LocalInv, Owed, history
  <2>2. /\ EndEvent(w.verdict) \in Events /\ EndEvent(w.verdict).type # "messages"
        /\ EndEvent(w.verdict).status = w.verdict
    BY <2>1 DEF EndEvent, Events, EventTypes
  <2> QED BY <2>1, <2>2, EmitGrows
<1>21. CASE Check
  BY <1>21, StillGrows DEF Check, Settled, history
<1>22. CASE Finish
  BY <1>22, StillGrows DEF Finish, Settled, history
<1>23. CASE HandleCancel
  <2>1. Emit(Event("interrupt", "main")) /\ UNCHANGED <<row, output, struck>>
    BY <1>23 DEF HandleCancel, history
  <2>2. Event("interrupt", "main") \in Events /\ Event("interrupt",
     "main").type \notin {"messages", "end"}
    BY DEF Event, Events, EventTypes
  <2> QED BY <2>1, <2>2, EmitGrows
<1>24. CASE HandleError
  <2>1. Emit(Event("error", "main")) /\ UNCHANGED <<row, output, struck>>
    BY <1>24 DEF HandleError, history
  <2>2. Event("error", "main") \in Events /\ Event("error",
     "main").type \notin {"messages", "end"}
    BY DEF Event, Events, EventTypes
  <2> QED BY <2>1, <2>2, EmitGrows
<1>25. CASE Clear
  BY <1>25, StillGrows DEF Clear, Settled, history
<1>26. CASE Watch
  BY <1>26, StillGrows DEF Watch, Settled, history
<1>27. CASE Crash
  BY <1>27, StillGrows DEF Crash, Settled, Trouble
<1>28. CASE FailInside
  BY <1>28, StillGrows DEF FailInside, Settled, Trouble
<1>29. CASE FailBefore
  BY <1>29, StillGrows DEF FailBefore, Settled, Trouble
<1>30. CASE FailHandler
  BY <1>30, StillGrows DEF FailHandler, Settled, Trouble
<1>31. CASE LoadForCancel
  BY <1>31, StillGrows DEF LoadForCancel, Settled, history
<1>32. CASE RequestCancel
  BY <1>32, StillGrows DEF RequestCancel, Settled, SetCancelRequest
<1>33. CASE PublishCancel
  BY <1>33, StillGrows DEF PublishCancel, Settled, history
<1>34. CASE KeyExpire
  BY <1>34, StillGrows DEF KeyExpire, Settled, history
<1> QED
  BY <1>1, <1>2, <1>3, <1>4, <1>5, <1>6, <1>7, <1>8, <1>9, <1>10, <1>11, <1>12, <1>13,
     <1>14, <1>15, <1>16, <1>17, <1>18, <1>19, <1>20, <1>21, <1>22, <1>23, <1>24, <1>25,
        <1>26, <1>27, <1>28, <1>29, <1>30, <1>31, <1>32, <1>33, <1>34 DEF Arq, Agent,
           Worker, Troubles, Canceller

\* Growth keeps what stream and readers hold.
LEMMA GrowthKeepsClients ==
  ASSUME TypeOK, TypeOK', ClientInv, Grows, UNCHANGED reader
  PROVE  ClientInv'
<1>1. Len(log) \in Nat /\ Len(log') \in Nat /\ \A r \in Readers : reader[r].cursor \in Nat
  BY DEF TypeOK, ReaderStates
<1>2. (\A i \in 1 .. Len(log) : IsEnd(i) => log[i].status \in Terminal)'
  <2> SUFFICES ASSUME NEW i \in 1 .. Len(log'), IsEnd(i)'
               PROVE  log'[i].status \in Terminal
    OBVIOUS
  <2>1. CASE i \in 1 .. Len(log)
    BY <1>1, <2>1 DEF Grows, ClientInv, IsEnd
  <2>2. CASE i \in Len(log) + 1 .. Len(log')
    BY <2>2 DEF Grows
  <2> QED BY <1>1, <2>1, <2>2
<1> QED BY <1>1, <1>2 DEF ClientInv, Grows

\* A reader's own step keeps it.
LEMMA ClientMoves ==
  ASSUME TypeOK, OutputInv, ClientInv, NEW r \in Readers, ReaderMove(r)
  PROVE  ClientInv'
<1>1. /\ reader[r] \in ReaderStates /\ Len(log) \in Nat
      /\ reader[r].cursor \in Nat /\ reader[r].cursor <= Len(log)
      /\ Upto(r) \in Nat /\ reader[r].cursor <= Upto(r) /\ Upto(r) <= Len(log)
  BY UptoTyped DEF TypeOK, ReaderStates, ClientInv
<1>2. UNCHANGED <<row, output, log>>
  BY ReaderFrame
<1>3. (\A i \in 1 .. Len(log) : IsEnd(i) => log[i].status \in Terminal)'
  BY <1>2 DEF ClientInv, IsEnd
<1>4. ASSUME NEW c \in ReaderStates, reader' = [reader EXCEPT ![r] = c],
             c.cursor <= Len(log), c.told \in Terminal <=> c.pc = "ended",
             "completed" \in {c.snap, c.told} => output # "none"
      PROVE  ClientInv'
  <2>1. reader'[r] = c /\ \A q \in Readers \ {r} : reader'[q] = reader[q]
    BY <1>4 DEF TypeOK
  <2> QED BY <1>2, <1>3, <1>4, <2>1 DEF ClientInv
<1>5. reader[r].pc # "ended" => reader[r].told = "none"
  BY <1>1 DEF ClientInv, ReaderStates
<1>6. CASE ReadRow(r)
  <2> DEFINE s == IF row \in Terminal THEN row ELSE "none"
             c == [reader[r] EXCEPT !.snap = s, !.pc = "fetch"]
  <2>1. reader[r].pc = "poll" /\ reader' = [reader EXCEPT ![r] = c]
    BY <1>6 DEF ReadRow
  <2>2. s \in Terminal \cup {"none"} /\ (s = "completed" => output # "none")
    BY DEF OutputInv
  <2> HIDE DEF s
  <2>3. /\ c \in ReaderStates /\ c.cursor = reader[r].cursor /\ c.pc = "fetch"
        /\ c.snap = s /\ c.told = "none"
    BY <1>1, <1>5, <2>1, <2>2 DEF ReaderStates
  <2> HIDE DEF c
  <2> QED BY <1>1, <1>4, <2>1, <2>2, <2>3 DEF Terminal
<1>7. ASSUME NEW n \in Nat, n <= Len(log), NEW v \in Terminal,
             v = "completed" => output # "none",
             reader' = [reader EXCEPT ![r].told = v, ![r].cursor = n, ![r].snap = "none",
                                      ![r].pc = "ended"]
      PROVE  ClientInv'
  <2> DEFINE c == [reader[r] EXCEPT !.told = v, !.cursor = n, !.snap = "none",
                                    !.pc = "ended"]
  <2>1. reader' = [reader EXCEPT ![r] = c]
    BY <1>7
  <2>2. /\ c \in ReaderStates /\ c.cursor = n /\ c.pc = "ended"
        /\ c.snap = "none" /\ c.told = v
    BY <1>1, <1>7 DEF ReaderStates
  <2> HIDE DEF c
  <2> QED BY <1>4, <1>7, <2>1, <2>2
<1>8. CASE FetchEnd(r)
  <2>1. PICK i \in reader[r].cursor + 1 .. Upto(r) :
            /\ log[i].type = "end"
            /\ reader' = [reader EXCEPT ![r].told = log[i].status, ![r].cursor = Upto(r),
                                        ![r].snap = "none", ![r].pc = "ended"]
    BY <1>8 DEF FetchEnd
  <2>2. i \in 1 .. Len(log) /\ IsEnd(i)
    BY <1>1, <2>1 DEF IsEnd
  <2>3. log[i].status \in Terminal /\ (log[i].status = "completed" => output # "none")
    BY <2>2 DEF ClientInv, OutputInv
  <2> QED BY <1>1, <1>7, <2>1, <2>3
<1>9. CASE MakeUpEnd(r)
  <2>1. /\ reader[r].snap \in Terminal
        /\ reader' = [reader EXCEPT ![r].told = reader[r].snap,
           ![r].cursor = reader[r].cursor,
                                    ![r].snap = "none", ![r].pc = "ended"]
    BY <1>1, <1>9 DEF MakeUpEnd, TypeOK, ReaderStates
  <2>2. reader[r].snap = "completed" => output # "none"
    BY DEF ClientInv
  <2> QED BY <1>1, <1>7, <2>1, <2>2
<1>10. ASSUME NEW n \in Nat, n <= Len(log), reader[r].pc # "ended",
              reader' = [reader EXCEPT ![r].cursor = n, ![r].snap = "none",
                 ![r].pc = "poll"]
       PROVE  ClientInv'
  <2> DEFINE c == [reader[r] EXCEPT !.cursor = n, !.snap = "none", !.pc = "poll"]
  <2>1. reader' = [reader EXCEPT ![r] = c]
    BY <1>10
  <2>2. /\ c \in ReaderStates /\ c.cursor = n /\ c.pc = "poll"
        /\ c.snap = "none" /\ c.told = "none"
    BY <1>1, <1>5, <1>10 DEF ReaderStates
  <2> HIDE DEF c
  <2> QED BY <1>4, <1>10, <2>1, <2>2 DEF Terminal
<1>11. CASE FetchMore(r)
  BY <1>1, <1>10, <1>11 DEF FetchMore
<1>12. CASE Drop(r)
  <2>1. PICK n \in reader[r].cursor .. Upto(r) :
            reader' = [reader EXCEPT ![r].cursor = n, ![r].snap = "none", ![r].pc = "poll"]
    BY <1>12 DEF Drop
  <2>2. n \in Nat /\ n <= Len(log) /\ reader[r].pc = "fetch"
    BY <1>1, <1>12 DEF Drop
  <2> QED BY <1>10, <2>1, <2>2
<1> QED BY <1>6, <1>8, <1>9, <1>11, <1>12 DEF ReaderMove, Fetch

\* So every step keeps it.
LEMMA ClientStep ==
  /\ TypeOK /\ TypeOK' /\ LocalInv /\ OutputInv /\ ClientInv /\ [Next]_vars
  => ClientInv'
<1> SUFFICES ASSUME TypeOK, TypeOK', LocalInv, OutputInv, ClientInv, [Next]_vars
             PROVE  ClientInv'
  OBVIOUS
<1>1. CASE Enqueue \/ Arq \/ Agent \/ Worker \/ Watch \/ Troubles \/ Canceller
  BY <1>1, OthersGrow, ReaderFrame, GrowthKeepsClients
<1>2. ASSUME NEW r \in Readers, ReaderMove(r) PROVE ClientInv'
  BY <1>2, ClientMoves
<1>3. CASE UNCHANGED vars
  BY <1>3, StillGrows, GrowthKeepsClients DEF vars, history
<1> QED BY <1>1, <1>2, <1>3 DEF Next, ReaderMove

\* Growth leaves what the readers know true until a cancel overruns the row.
LEMMA GrowthKeepsReaders ==
  ASSUME TypeOK, TypeOK', QuietInv, ClientInv, ReaderInv, Grows, UNCHANGED reader,
         ~overrun'
  PROVE  ReaderInv'
<1> SUFFICES ASSUME NEW r \in Readers
             PROVE  /\ reader[r].snap # "none" => reader[r].snap = row'
                    /\ reader[r].pc # "ended" => NoEndIn(0, reader[r].cursor)'
                    /\ reader[r].pc = "ended" =>
                         /\ Settled'
                         /\ struck' \/ reader[r].told = row'
                         /\ \A i \in reader[r].cursor + 1 .. Len(log') : ~IsContent(i)'
  BY DEF ReaderInv, Knows
<1>1. /\ reader[r].cursor \in Nat /\ Len(log) \in Nat /\ Len(log') \in Nat
      /\ reader[r].snap \in Terminal \cup {"none"}
  BY DEF TypeOK, ReaderStates
<1>2. reader[r].cursor <= Len(log)
  BY DEF ClientInv
<1>3. reader[r].snap # "none" => Settled /\ reader[r].snap = row
  BY <1>1 DEF ReaderInv, Knows, Settled
<1>4. ASSUME reader[r].pc # "ended" PROVE NoEndIn(0, reader[r].cursor)'
  BY <1>1, <1>2, <1>4 DEF ReaderInv, Knows, NoEndIn, Grows
<1>5. ASSUME reader[r].pc = "ended"
      PROVE  Settled' /\ (struck' \/ reader[r].told = row')
  BY <1>5 DEF ReaderInv, Knows, Grows, Settled
<1>6. ASSUME reader[r].pc = "ended", NEW i \in reader[r].cursor + 1 .. Len(log')
      PROVE  ~IsContent(i)'
  <2>1. Settled /\ \A j \in reader[r].cursor + 1 .. Len(log) : ~IsContent(j)
    BY <1>6 DEF ReaderInv, Knows
  <2>2. CASE i <= Len(log)
    BY <1>1, <1>6, <2>1, <2>2 DEF IsContent, Grows
  <2>3. CASE i > Len(log)
    BY <1>1, <1>6, <2>1, <2>3 DEF Grows
  <2> QED BY <1>1, <2>2, <2>3
<1> QED BY <1>1, <1>2, <1>3, <1>4, <1>5, <1>6 DEF Grows

\* A reader's own step keeps what every reader knows.
LEMMA ReaderMoves ==
  ASSUME TypeOK, StreamInv, ClientInv, ReaderInv, NEW r \in Readers, ReaderMove(r)
  PROVE  ReaderInv'
<1>1. /\ reader[r] \in ReaderStates /\ Len(log) \in Nat
      /\ reader[r].cursor \in Nat /\ reader[r].cursor <= Len(log)
  BY DEF TypeOK, ReaderStates, ClientInv
<1>2. /\ Upto(r) \in Nat /\ reader[r].cursor <= Upto(r) /\ Upto(r) <= Len(log)
  BY <1>1, UptoTyped
<1>3. UNCHANGED <<row, output, log, struck>>
  BY ReaderFrame DEF history
<1>4. ASSUME NEW n \in Nat, n <= Len(log), NoEndIn(0, n),
             NEW s \in Terminal \cup {"none"}, s # "none" => s = row,
             NEW p \in {"poll", "fetch"},
             reader' = [reader EXCEPT ![r].cursor = n, ![r].snap = s, ![r].pc = p]
      PROVE  ReaderInv'
  <2>1. /\ reader'[r].cursor = n /\ reader'[r].snap = s /\ reader'[r].pc = p
        /\ \A q \in Readers \ {r} : reader'[q] = reader[q]
    BY <1>1, <1>4 DEF TypeOK, ReaderStates
  <2>2. ASSUME NEW q \in Readers \ {r} PROVE Knows(q)'
    BY <1>3, <2>1 DEF ReaderInv, Knows, NoEndIn, IsContent, Settled
  <2>3. Knows(r)'
    BY <1>1, <1>3, <1>4, <2>1 DEF Knows, NoEndIn, IsContent, Settled
  <2> QED BY <2>2, <2>3 DEF ReaderInv
<1>5. ASSUME NEW n \in Nat, n <= Len(log), NEW v \in Terminal, Settled, struck \/ v = row,
             \A i \in n + 1 .. Len(log) : ~IsContent(i),
             reader' = [reader EXCEPT ![r].told = v, ![r].cursor = n, ![r].snap = "none",
                                      ![r].pc = "ended"]
      PROVE  ReaderInv'
  <2>1. /\ reader'[r].cursor = n /\ reader'[r].snap = "none" /\ reader'[r].pc = "ended"
        /\ reader'[r].told = v
        /\ \A q \in Readers \ {r} : reader'[q] = reader[q]
    BY <1>1, <1>5 DEF TypeOK, ReaderStates
  <2>2. ASSUME NEW q \in Readers \ {r} PROVE Knows(q)'
    BY <1>3, <2>1 DEF ReaderInv, Knows, NoEndIn, IsContent, Settled
  <2>3. Knows(r)'
    BY <1>1, <1>3, <1>5, <2>1 DEF Knows, NoEndIn, IsContent, Settled
  <2> QED BY <2>2, <2>3 DEF ReaderInv
<1>6. CASE ReadRow(r)
  <2> DEFINE s == IF row \in Terminal THEN row ELSE "none"
  <2>1. /\ reader' = [reader EXCEPT ![r].cursor = reader[r].cursor, ![r].snap = s,
                                    ![r].pc = "fetch"]
        /\ reader[r].pc = "poll"
    BY <1>1, <1>6 DEF ReadRow, TypeOK, ReaderStates
  <2>2. NoEndIn(0, reader[r].cursor)
    BY <2>1 DEF ReaderInv, Knows
  <2>3. s \in Terminal \cup {"none"} /\ (s # "none" => s = row)
    OBVIOUS
  <2> HIDE DEF s
  <2> QED BY <1>1, <1>4, <2>1, <2>2, <2>3
<1>7. CASE FetchEnd(r)
  <2>1. PICK i \in reader[r].cursor + 1 .. Upto(r) :
            /\ log[i].type = "end" /\ NoEndIn(reader[r].cursor, i - 1)
            /\ reader' = [reader EXCEPT ![r].told = log[i].status, ![r].cursor = Upto(r),
                                        ![r].snap = "none", ![r].pc = "ended"]
    BY <1>7 DEF FetchEnd
  <2>2. i \in 1 .. Len(log) /\ i <= Upto(r) /\ IsEnd(i)
    BY <1>1, <1>2, <2>1 DEF IsEnd
  <2>3. reader[r].pc = "fetch" /\ NoEndIn(0, reader[r].cursor)
    BY <1>7 DEF FetchEnd, ReaderInv, Knows
  <2>4. FirstEnd(i)
    BY <1>1, <2>1, <2>2, <2>3 DEF FirstEnd, NoEndIn
  <2>5. Settled /\ log[i].status \in Terminal /\ (struck \/ log[i].status = row)
    BY <2>2, <2>4 DEF StreamInv, ClientInv, NoEnd, IsEnd
  <2>6. \A j \in Upto(r) + 1 .. Len(log) : ~IsContent(j)
    BY <1>1, <1>2, <2>2 DEF StreamInv
  <2> QED BY <1>2, <1>5, <2>1, <2>5, <2>6
<1>8. CASE MakeUpEnd(r)
  <2>1. /\ reader[r].cursor = Len(log) /\ reader[r].snap \in Terminal
        /\ reader' = [reader EXCEPT ![r].told = reader[r].snap, ![r].cursor = Len(log),
                                    ![r].snap = "none", ![r].pc = "ended"]
    BY <1>1, <1>8 DEF MakeUpEnd, TypeOK, ReaderStates
  <2>2. Settled /\ reader[r].snap = row
    BY <2>1 DEF ReaderInv, Knows, Settled, Terminal
  <2>3. \A j \in Len(log) + 1 .. Len(log) : ~IsContent(j)
    BY <1>1
  <2> QED BY <1>1, <1>5, <2>1, <2>2, <2>3
<1>9. CASE FetchMore(r)
  <2>1. /\ NoEndIn(0, reader[r].cursor) /\ NoEndIn(reader[r].cursor, Upto(r))
        /\ reader' = [reader EXCEPT ![r].cursor = Upto(r), ![r].snap = "none",
                                    ![r].pc = "poll"]
    BY <1>9 DEF FetchMore, ReaderInv, Knows
  <2>2. NoEndIn(0, Upto(r))
    BY <1>1, <1>2, <2>1 DEF NoEndIn
  <2> QED BY <1>2, <1>4, <2>1, <2>2
<1>10. CASE Drop(r)
  <2>1. PICK n \in reader[r].cursor .. Upto(r) :
            /\ NoEndIn(reader[r].cursor, n)
            /\ reader' = [reader EXCEPT ![r].cursor = n, ![r].snap = "none",
                                        ![r].pc = "poll"]
    BY <1>10 DEF Drop
  <2>2. n \in Nat /\ n <= Len(log)
    BY <1>1, <1>2
  <2>3. NoEndIn(0, reader[r].cursor)
    BY <1>10 DEF Drop, ReaderInv, Knows
  <2>4. NoEndIn(0, n)
    BY <1>1, <2>1, <2>2, <2>3 DEF NoEndIn
  <2> QED BY <1>4, <2>1, <2>2, <2>4
<1> QED BY <1>6, <1>7, <1>8, <1>9, <1>10 DEF ReaderMove, Fetch

\* So every step before a cancel overruns the row keeps it.
LEMMA ReaderStep ==
  /\ TypeOK /\ TypeOK' /\ LocalInv /\ QuietInv /\ StreamInv /\ ClientInv /\ ReaderInv
  /\ ~overrun' /\ [Next]_vars
  => ReaderInv'
<1> SUFFICES ASSUME TypeOK, TypeOK', LocalInv, QuietInv, StreamInv, ClientInv, ReaderInv,
                    ~overrun', [Next]_vars
             PROVE  ReaderInv'
  OBVIOUS
<1>1. CASE Enqueue \/ Arq \/ Agent \/ Worker \/ Watch \/ Troubles \/ Canceller
  BY <1>1, OthersGrow, ReaderFrame, GrowthKeepsReaders
<1>2. ASSUME NEW r \in Readers, ReaderMove(r) PROVE ReaderInv'
  BY <1>2, ReaderMoves
<1>3. CASE UNCHANGED vars
  BY <1>3, StillGrows, GrowthKeepsReaders DEF vars, history
<1> QED BY <1>1, <1>2, <1>3 DEF Next, ReaderMove

-----------------------------------------------------------------------------
(* The theorems. *)

\* The initial state satisfies the invariant: nothing is settled, said or buffered.
LEMMA InvInit == Init => IndInv
<1> SUFFICES ASSUME Init PROVE IndInv
  OBVIOUS
<1> USE ConstantAssumption DEF Init, Active, Terminal
<1>1. TypeOK
  <2>1. reader \in [Readers -> ReaderStates]
    BY DEF ReaderStates
  <2>2. w \in Workers /\ log \in Seq(Events)
    BY NoWorkerTyped
  <2>3. 0 \in 0 .. MaxTries /\ 0 \in 0 .. MaxCancels /\ 0 \in 0 .. MaxTroubles
    OBVIOUS
  <2>4. ScalarsOK
    BY <2>3 DEF ScalarsOK
  <2> HIDE DEF Init
  <2> QED BY <2>1, <2>2, <2>4 DEF TypeOK, ScalarsOK
<1>2. LocalInv /\ QuietInv /\ ProgressInv /\ TriesInv
  BY DEF LocalInv, QuietInv, ProgressInv, TriesInv, Settled, Owed, NoWorker, BeforeTry,
         InsideTry, Settling, Handlers
<1>3. NoEnd /\ StreamInv /\ AnnounceInv
  BY DEF NoEnd, StreamInv, AnnounceInv, Settled, FirstEnd, IsEnd, IsContent
<1>4. OutputInv
  BY DEF OutputInv, NoWorker
<1>5. \A r \in Readers :
         reader[r] = [pc |-> "poll", cursor |-> 0, snap |-> "none", told |-> "none"]
  OBVIOUS
<1>6. ClientInv
  BY <1>5 DEF ClientInv
<1>7. ReaderInv
  <2>1. ASSUME NEW r \in Readers PROVE Knows(r)
    <3>1. /\ reader[r].pc = "poll" /\ reader[r].cursor = 0 /\ reader[r].snap = "none"
      BY <1>5
    <3> HIDE DEF Init
    <3> QED BY <3>1 DEF Knows, NoEndIn
  <2> QED BY <2>1 DEF ReaderInv
<1> HIDE DEF Init
<1> QED BY <1>1, <1>2, <1>3, <1>4, <1>6, <1>7 DEF IndInv, RowInv

\* A row that a cancel has overrun is remembered as such.
LEMMA OverrunStays == overrun /\ [Next]_vars => overrun'
<1> SUFFICES ASSUME overrun, [Next]_vars PROVE overrun'
  OBVIOUS
<1>1. CASE Enqueue \/ Arq \/ Watch \/ Troubles \/ Canceller
  BY <1>1 DEF Enqueue, Arq, Dequeue, GiveUp, Watch, Troubles, Crash, FailInside, FailBefore,
              FailHandler, Trouble, Canceller, LoadForCancel, RequestCancel, PublishCancel,
              KeyExpire, history
<1>2. CASE Agent
  BY <1>2 DEF Agent, Loading, ReceiveCustom, ReceiveLast, SaveOutput, StreamEnd, history
<1>3. CASE Worker
  BY <1>3 DEF Worker, Load, Validate, Reject, Begin, Announce, Observe, Flush,
              PublishCustom, PublishLast, Decide, Mark, End, Check, Finish, HandleCancel,
              HandleError, Clear, history
<1>4. CASE \E r \in Readers : ReaderMove(r)
  BY <1>4, ReaderFrame DEF history
<1>5. CASE UNCHANGED vars
  BY <1>5 DEF vars, history
<1> QED BY <1>1, <1>2, <1>3, <1>4, <1>5 DEF Next, ReaderMove

\* Every step keeps it.
LEMMA InvStep == IndInv /\ [Next]_vars => IndInv'
<1> SUFFICES ASSUME IndInv, [Next]_vars PROVE IndInv'
  OBVIOUS
<1>1. TypeOK'
  BY TypeStep DEF IndInv
<1>2. LocalInv' /\ OutputInv'
  BY LocalStep, OutputStep DEF IndInv
<1>3. ClientInv'
  BY <1>1, ClientStep DEF IndInv
<1>4. ASSUME ~overrun' PROVE RowInv'
  <2>1. RowInv
    BY <1>4, OverrunStays DEF IndInv
  <2>2. QuietInv' /\ ProgressInv' /\ TriesInv'
    BY <1>4, <2>1, QuietStep, ProgressStep, TriesStep DEF IndInv, RowInv
  <2>3. StreamInv' /\ AnnounceInv'
    BY <1>4, <2>1, StreamStep, AnnounceStep DEF IndInv, RowInv
  <2>4. ReaderInv'
    BY <1>1, <1>4, <2>1, ReaderStep DEF IndInv, RowInv
  <2> QED BY <2>2, <2>3, <2>4 DEF RowInv
<1> QED BY <1>1, <1>2, <1>3, <1>4 DEF IndInv

\* The inductive invariant holds in every reachable state: the worker's place, the
\* row, the stream and what the readers know fit together.
THEOREM Invariance == Spec => []IndInv
<1>1. Init => IndInv
  BY InvInit
<1>2. IndInv /\ [Next]_vars => IndInv'
  BY InvStep
<1> QED BY <1>1, <1>2, PTL DEF Spec

\* Every variable of the run, its job, worker, stream and readers keeps its type.
THEOREM TypeCorrect == Spec => []TypeOK
<1>1. IndInv => TypeOK
  BY DEF IndInv
<1> QED BY <1>1, Invariance, PTL

\* An end event is in the stream only when the row is settled or was overrun.
THEOREM EndIsBacked == Spec => []EndBacked
<1>1. IndInv => EndBacked
  BY DEF IndInv, RowInv, StreamInv, Settled, EndBacked
<1> QED BY <1>1, Invariance, PTL

\* ARQ is done with an unsettled run only after as many troubles as there are tries,
\* after an exception left process_agent_run, or after a cancel overran the settled row.
THEOREM DoneIsSettled == Spec => []DoneSettled
<1>1. IndInv => DoneSettled
  BY DEF IndInv, RowInv, TriesInv, Settled, DoneSettled
<1> QED BY <1>1, Invariance, PTL

\* A client told that the run ended has all the text of the run's own thread, as
\* long as the row was not overrun.
THEOREM ContentIsComplete == Spec => []ContentComplete
<1>1. IndInv => ContentComplete
  BY DEF IndInv, RowInv, ReaderInv, Knows, ContentComplete
<1> QED BY <1>1, Invariance, PTL

\* A client is told the row's verdict, unless a trouble struck between settling and
\* announcing or a cancel overran the row.
THEOREM VerdictsAgree == Spec => []VerdictAgrees
<1>1. IndInv => VerdictAgrees
  BY DEF IndInv, RowInv, ReaderInv, Knows, VerdictAgrees
<1> QED BY <1>1, Invariance, PTL

\* A client told "completed" finds the output dealt with.
THEOREM CompletedIsStored == Spec => []CompletedHasOutput
<1>1. IndInv => CompletedHasOutput
  BY DEF IndInv, ClientInv, CompletedHasOutput
<1> QED BY <1>1, Invariance, PTL

\* The first states of a run are first states of its lifecycle.
LEMMA LifecycleInit == Init => Lifecycle!Init
<1> SUFFICES ASSUME Init PROVE [r \in Readers |-> reader[r].told] = [r \in Readers |-> "none"]
  BY DEF Init, Lifecycle!Init, JobLeft
<1> QED BY DEF Init

\* A step that leaves the readers alone moves row and job as the lifecycle allows.
RowMove ==
    \/ UNCHANGED <<row, JobLeft, overrun>>
    \/ UNCHANGED <<row, overrun>> /\ JobLeft = "none" /\ JobLeft' \in {"queued", "gone"}
    \/ UNCHANGED <<row, overrun>> /\ JobLeft = "queued" /\ JobLeft' = "gone"
    \/ /\ row \in Active /\ row' = "running" /\ JobLeft = "queued"
       /\ UNCHANGED <<JobLeft, overrun>>
    \/ /\ row \in Active /\ row' \in Terminal /\ JobLeft = "queued" /\ JobLeft' \in {"queued", "gone"}
       /\ UNCHANGED overrun
    \/ row \in Active /\ row' = "cancel_requested" /\ UNCHANGED <<JobLeft, overrun>>
    \/ row \in Terminal /\ row' = "cancel_requested" /\ overrun' /\ UNCHANGED JobLeft

\* Every such step does.
LEMMA LifecycleRow ==
  ASSUME TypeOK, LocalInv,
         Enqueue \/ Arq \/ Agent \/ Worker \/ Watch \/ Troubles \/ Canceller
  PROVE  RowMove
<1>1. row \in Active \cup Terminal /\ job \in {"none", "lost", "queued", "active", "done"}
  BY DEF TypeOK
<1>2. w.pc # "idle" => job = "active" /\ JobLeft = "queued"
  BY DEF LocalInv, JobLeft
<1>4. CASE Enqueue \/ Arq \/ Watch
  BY <1>1, <1>4 DEF RowMove, Enqueue, Arq, Dequeue, GiveUp, Watch, history, JobLeft, jobVars
<1>5. CASE Troubles
  BY <1>2, <1>5 DEF RowMove, Troubles, Crash, FailInside, FailBefore, FailHandler, Trouble,
     Leave, JobLeft, InTry, InsideTry, BeforeTry, Settling, Handlers
<1>6. CASE Agent
  BY <1>6 DEF RowMove, Agent, Loading, ReceiveCustom, ReceiveLast, SaveOutput, StreamEnd,
              history, jobVars, JobLeft
<1>7. CASE LoadForCancel \/ PublishCancel \/ KeyExpire
  BY <1>7 DEF RowMove, LoadForCancel, PublishCancel, KeyExpire, history, jobVars, JobLeft
<1>8. CASE RequestCancel
  <2>1. UNCHANGED JobLeft
    BY <1>8 DEF RequestCancel, jobVars, JobLeft
  <2>2. CASE cancelPc = "writes" /\ row \in Terminal
    BY <1>8, <2>1, <2>2 DEF RequestCancel, SetCancelRequest, RowMove
  <2>3. CASE cancelPc = "writes" /\ row \in Active /\ row \notin Terminal
    BY <1>8, <2>1, <2>3 DEF RequestCancel, SetCancelRequest, RowMove, TypeOK
  <2>4. CASE cancelPc # "writes"
    BY <1>8, <2>1, <2>4 DEF RequestCancel, SetCancelRequest, RowMove, TypeOK
  <2> QED BY <1>1, <2>2, <2>3, <2>4
<1>9. CASE Reject
  <2>1. JobLeft = "queued" /\ JobLeft' = "gone"
    BY <1>2, <1>9 DEF Reject, Leave, JobLeft
  <2> QED BY <1>1, <1>9, <2>1 DEF RowMove, Reject, SetTerminal, Active, Terminal, history
<1>10. CASE Begin
  <2>1. JobLeft = "queued" /\ UNCHANGED JobLeft
    BY <1>2, <1>10 DEF Begin, JobLeft, jobVars
  <2> QED BY <1>1, <1>10, <2>1 DEF RowMove, Begin, MarkRunning, history
<1>11. CASE Mark
  <2>1. w.verdict \in Terminal
    BY <1>11 DEF Mark, LocalInv, Owed
  <2>2. JobLeft = "queued" /\ UNCHANGED JobLeft
    BY <1>2, <1>11 DEF Mark, JobLeft, jobVars
  <2> QED BY <1>1, <1>11, <2>1, <2>2 DEF RowMove, Mark, SetTerminal, history
<1>12. CASE \/ Validate \/ Announce \/ Observe \/ \E t \in Threads : Flush(t)
            \/ PublishCustom \/ PublishLast \/ Decide \/ End \/ Check \/ Finish
            \/ HandleCancel \/ HandleError
  BY <1>12 DEF RowMove, Validate, Announce, Observe, Flush, PublishCustom,
               PublishLast, Decide, End, Check, Finish, HandleCancel, HandleError,
               history, jobVars, JobLeft
<1>13. CASE Load \/ Clear
  BY <1>2, <1>13 DEF RowMove, Load, Clear, Leave, Leaving, history, JobLeft
<1> QED BY <1>4, <1>5, <1>6, <1>7, <1>8, <1>9, <1>10, <1>11, <1>12, <1>13 DEF Worker, Canceller

\* A reader's step gives it an answer, of a settled or overrun row, or none.
LEMMA LifecycleAnswer ==
  ASSUME IndInv, NEW r \in Readers, ReaderMove(r)
  PROVE  \/ [q \in Readers |-> reader'[q].told] = [q \in Readers |-> reader[q].told]
         \/ /\ row \in Terminal \/ overrun
            /\ reader[r].told = "none"
            /\ \E v \in Terminal : [q \in Readers |-> reader'[q].told]
                                     = [[q \in Readers |-> reader[q].told] EXCEPT ![r] = v]
<1>1. TypeOK /\ ClientInv /\ \A q \in Readers : reader[q] \in ReaderStates
  BY DEF IndInv, TypeOK
<1>2. CASE ReadRow(r) \/ FetchMore(r) \/ Drop(r)
  <2>1. \A q \in Readers : reader'[q].told = reader[q].told
    <3>1. CASE ReadRow(r)
      BY <1>1, <3>1 DEF ReadRow, TypeOK, ReaderStates
    <3>2. CASE FetchMore(r)
      BY <1>1, <3>2 DEF FetchMore, TypeOK, ReaderStates
    <3>3. CASE Drop(r)
      BY <1>1, <3>3 DEF Drop, TypeOK, ReaderStates
    <3> QED BY <1>2, <3>1, <3>2, <3>3
  <2> QED BY <2>1
<1>3. CASE FetchEnd(r)
  <2>1. PICK i \in reader[r].cursor + 1 .. Upto(r) :
            /\ log[i].type = "end" /\ reader[r].pc = "fetch"
            /\ reader' = [reader EXCEPT ![r].told = log[i].status, ![r].cursor = Upto(r),
                                        ![r].snap = "none", ![r].pc = "ended"]
    BY <1>3 DEF FetchEnd
  <2>2. reader[r].cursor \in Nat /\ reader[r].cursor <= Len(log)
    BY <1>1 DEF ReaderStates, ClientInv
  <2>3. i \in 1 .. Len(log) /\ IsEnd(i)
    BY <1>1, <2>1, <2>2, UptoTyped DEF IsEnd
  <2>4. log[i].status \in Terminal /\ (row \in Terminal \/ overrun)
    BY <1>1, <2>3 DEF IndInv, RowInv, StreamInv, ClientInv, NoEnd, IsEnd, Settled
  <2>5. /\ reader'[r].told = log[i].status
        /\ \A q \in Readers \ {r} : reader'[q].told = reader[q].told
    BY <1>1, <2>1 DEF TypeOK, ReaderStates
  <2>6. reader[r].told = "none"
    BY <1>1, <2>1 DEF ClientInv, ReaderStates
  <2> QED BY <2>4, <2>5, <2>6
<1>4. CASE MakeUpEnd(r)
  <2>1. reader[r].snap \in Terminal /\ reader[r].pc = "fetch" /\ reader[r].snap # "none"
    BY <1>4 DEF MakeUpEnd, Terminal
  <2>2. row \in Terminal \/ overrun
    BY <2>1 DEF IndInv, RowInv, ReaderInv, Knows
  <2>3. /\ reader'[r].told = reader[r].snap
        /\ \A q \in Readers \ {r} : reader'[q].told = reader[q].told
    BY <1>1, <1>4 DEF MakeUpEnd, TypeOK, ReaderStates
  <2>4. reader[r].told = "none"
    BY <1>1, <2>1 DEF ClientInv, ReaderStates
  <2> QED BY <2>1, <2>2, <2>3, <2>4
<1> QED BY <1>2, <1>3, <1>4 DEF ReaderMove, Fetch

\* Every step of the run is a step of its lifecycle or leaves it alone.
LEMMA LifecycleStep == IndInv /\ [Next]_vars => [Lifecycle!Next]_(Lifecycle!lifecycleVars)
<1> SUFFICES ASSUME IndInv, [Next]_vars PROVE [Lifecycle!Next]_(Lifecycle!lifecycleVars)
  OBVIOUS
<1> DEFINE answer == [r \in Readers |-> reader[r].told]
<1> USE DEF Lifecycle!lifecycleVars
<1>1. CASE Enqueue \/ Arq \/ Agent \/ Worker \/ Watch \/ Troubles \/ Canceller
  <2>1. UNCHANGED answer
    BY <1>1, ReaderFrame
  <2>2. RowMove
    BY <1>1, LifecycleRow DEF IndInv
  <2>3. overrun' \in BOOLEAN
    BY TypeStep DEF IndInv, TypeOK
  <2> HIDE DEF answer
  <2> USE DEF Lifecycle!Active, Lifecycle!Terminal, Active, Terminal
  <2>4. \/ UNCHANGED <<row, JobLeft, answer, overrun>>
        \/ \/ /\ JobLeft = "none" /\ JobLeft' \in {"queued", "gone"}
              /\ UNCHANGED <<row, answer, overrun>>
           \/ JobLeft = "queued" /\ JobLeft' = "gone" /\ UNCHANGED <<row, answer, overrun>>
        \/ \/ /\ JobLeft = "queued" /\ row \in Active /\ row' = "running"
              /\ UNCHANGED <<JobLeft, answer, overrun>>
           \/ /\ JobLeft = "queued" /\ row \in Active /\ row' \in Terminal
              /\ JobLeft' \in {"queued", "gone"} /\ UNCHANGED <<answer, overrun>>
        \/ \/ row \in Active /\ row' = "cancel_requested" /\ UNCHANGED <<JobLeft, answer, overrun>>
           \/ /\ row \in Terminal /\ row' = "cancel_requested" /\ overrun' = TRUE
              /\ UNCHANGED <<JobLeft, answer>>
    BY <2>1, <2>2, <2>3 DEF RowMove
  <2> USE DEF answer
  <2>5. \/ UNCHANGED Lifecycle!lifecycleVars
        \/ Lifecycle!Enqueue \/ Lifecycle!Leave \/ Lifecycle!Start \/ Lifecycle!Settle
        \/ Lifecycle!Cancel \/ Lifecycle!Overrun
    BY <2>4 DEF Lifecycle!Enqueue, Lifecycle!Leave, Lifecycle!Start, Lifecycle!Settle,
                Lifecycle!Cancel, Lifecycle!Overrun
  <2> QED BY <2>5 DEF Lifecycle!Next
<1>2. ASSUME NEW r \in Readers, ReaderMove(r)
      PROVE  [Lifecycle!Next]_(Lifecycle!lifecycleVars)
  <2>1. UNCHANGED <<row, JobLeft, overrun>>
    BY <1>2, ReaderFrame DEF history, jobVars, JobLeft
  <2>2. \/ UNCHANGED answer
        \/ /\ row \in Terminal \/ overrun
           /\ reader[r].told = "none"
           /\ \E v \in Terminal : answer' = [answer EXCEPT ![r] = v]
    BY <1>2, LifecycleAnswer
  <2>3. CASE UNCHANGED answer
    BY <2>1, <2>3
  <2>4. CASE /\ row \in Terminal \/ overrun
             /\ reader[r].told = "none"
             /\ \E v \in Terminal : answer' = [answer EXCEPT ![r] = v]
    <3>1. Lifecycle!Answer(r)
      BY <2>1, <2>4 DEF Lifecycle!Answer, Lifecycle!Terminal, Terminal
    <3> QED BY <3>1 DEF Lifecycle!Next
  <2> QED BY <2>2, <2>3, <2>4
<1>3. CASE UNCHANGED vars
  BY <1>3 DEF vars, history, jobVars, JobLeft
<1> QED BY <1>1, <1>2, <1>3 DEF Next, ReaderMove

\* The run implements its lifecycle: settled by an execution of its job, once and for
\* good, whoever retries or crashes, until a cancel that had loaded it before overruns
\* it; and answered only when settled.
THEOREM RunImplementsLifecycle == Spec => ImplementsLifecycle
<1>1. Init => Lifecycle!Init
  BY LifecycleInit
<1>2. IndInv /\ [Next]_vars => [Lifecycle!Next]_(Lifecycle!lifecycleVars)
  BY LifecycleStep
<1> QED BY <1>1, <1>2, Invariance, PTL DEF Spec, ImplementsLifecycle, Lifecycle!Spec
=============================================================================
