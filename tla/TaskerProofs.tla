---------------------------- MODULE TaskerProofs ----------------------------
(***************************************************************************)
(* Proofs about Tasker, for every set of workers and payloads and every     *)
(* number of tasks, failing writes, crashes and shutdowns.                  *)
(***************************************************************************)
EXTENDS Tasker, TLAPS

-----------------------------------------------------------------------------
(* Types *)

LEMMA TypeInit == Init => TypeOK
BY ConstantAssumption DEF Init, TypeOK, Pcs

Holding == {"look", "run", "prune"} \cup Updating

\* Who is inside the lock or holds a task points to one, and
\* no loop is gone while the process is up.
PointInv ==
  /\ lock \in {"enqueue", "cancel"} => target \in Tasks
  /\ \A w \in Workers : pc[w] \in Holding => cur[w] \in Tasks
  /\ \A w \in Workers : lock = w => pc[w] \in Updating \cup {"run"} /\ cur[w] \in Tasks
  /\ phase = "up" => \A w \in Workers : pc[w] # "gone"

\* The holder of the lock is one of those who take it.
LEMMA LockNames == /\ Nobody \notin Workers /\ Nobody \notin Callers /\ \A c \in Callers : c \notin Workers
BY ConstantAssumption

LEMMA PointInit == Init => PointInv
BY LockNames DEF Init, PointInv, Holding, Updating, Callers

LEMMA FailTypes ==
  ASSUME TypeOK, Fails
  PROVE  fails' \in 0..MaxFails
BY ConstantAssumption DEF TypeOK, Fails

LEMMA BlankTypes ==
  ASSUME Blank
  PROVE  /\ status' \in [Tasks -> Statuses \cup {"absent"}] /\ asked' \in [Tasks -> BOOLEAN]
         /\ queue' \in Seq(Tasks) /\ target' = 0
         /\ pc' \in [Workers -> Pcs] /\ cur' \in [Workers -> Tasks \cup {0}]
         /\ erase' \in [Workers -> SUBSET Tasks] /\ deleting' = {}
         /\ unsaved' = {} /\ late' = {}
BY DEF Blank, Pcs

LEMMA StopTypes ==
  ASSUME TypeOK, stops < MaxStops, stops' = stops + 1
  PROVE  stops' \in 0..MaxStops
BY ConstantAssumption DEF TypeOK

LEMMA LifeTypes ==
  ASSUME TypeOK, Lifecycle \/ Shutdown \/ Kill
  PROVE  TypeOK'
<1> USE DEF TypeOK, process, memory, loops, history, Callers, Pcs, Updating
<1>1. CASE Boot
  BY <1>1 DEF Boot
<1>2. ASSUME NEW t \in Tasks, CloseInterrupted(t) PROVE TypeOK'
  BY <1>2 DEF CloseInterrupted, Statuses, Terminal
<1>3. CASE Started
  BY <1>3 DEF Started, Without
<1>4. CASE Shutdown
  <2>1. \A place \in Pcs : AfterCancel(place) \in Pcs
    BY DEF AfterCancel
  <2>2. pc' \in [Workers -> Pcs]
    BY <1>4, <2>1 DEF Shutdown
  <2> QED BY <1>4, <2>2, StopTypes DEF Shutdown
<1>5. CASE ShutdownDone
  BY <1>5, BlankTypes DEF ShutdownDone
<1>6. CASE Kill
  BY <1>6, BlankTypes, StopTypes DEF Kill
<1> QED BY <1>1, <1>2, <1>3, <1>4, <1>5, <1>6 DEF Lifecycle

LEMMA ApiTypes ==
  ASSUME TypeOK, PointInv, Api \/ Rest
  PROVE  TypeOK'
<1> USE DEF TypeOK, PointInv, process, memory, loops, history, Callers, Statuses, Active
<1>1. ASSUME NEW k \in Keys \cup {NoKey}, Enqueue(k) PROVE TypeOK'
  <2>1. created' \in 0..MaxTasks /\ created' \in Tasks
    BY <1>1, ConstantAssumption DEF Enqueue, Tasks
  <2> QED BY <1>1, <2>1 DEF Enqueue
<1>2. ASSUME NEW t \in Tasks, CancelTask(t) \/ DeleteTask(t) PROVE TypeOK'
  BY <1>2 DEF CancelTask, DeleteTask
<1>3. CASE Enqueued \/ CancelSaved
  <2>1. target \in Tasks
    BY <1>3 DEF Enqueued, CancelSaved
  <2>2. row' \in [Tasks -> Statuses \cup {"absent"}]
    BY <1>3, <2>1 DEF Enqueued, CancelSaved
  <2>3. queue' = Append(queue, target) \/ queue' = queue
    BY <1>3 DEF Enqueued, CancelSaved
  <2>4. queue' \in Seq(Tasks)
    <3>1. queue \in Seq(Tasks)
      OBVIOUS
    <3>2. Append(queue, target) \in Seq(Tasks)
      BY <2>1, <3>1
    <3> QED BY <2>3, <3>1, <3>2
  <2> QED BY <1>3, <2>1, <2>2, <2>4 DEF Enqueued, CancelSaved
<1>4. CASE EnqueueFails \/ CancelFails
  BY <1>4, FailTypes DEF EnqueueFails, CancelFails
<1>5. ASSUME NEW t \in Tasks, DeleteRow(t) PROVE TypeOK'
  BY <1>5, FailTypes DEF DeleteRow
<1> QED BY <1>1, <1>2, <1>3, <1>4, <1>5 DEF Api, Rest

LEMMA WorkerTypes ==
  ASSUME TypeOK, PointInv, NEW w \in Workers, Loop(w) \/ Progress(w) \/ Coroutine(w)
  PROVE  TypeOK'
<1> USE DEF TypeOK, PointInv, process, memory, loops, history, Pcs, Updating, Move
<1>1. CASE Get(w)
  <2>1. Head(queue) \in Tasks /\ Tail(queue) \in Seq(Tasks)
    BY <1>1 DEF Get
  <2> QED BY <1>1, <2>1 DEF Get
<1>2. CASE Look(w) \/ Progress(w) \/ Returns(w) \/ Raises(w) \/ Erased(w)
  BY <1>2 DEF Look, Progress, Returns, Raises, Erased
<1>3. CASE Update(w)
  BY <1>3 DEF Update, Verdict, AfterUpdate, Statuses, Terminal, Active
<1>4. CASE Written(w)
  BY <1>4 DEF Written, AfterUpdate
<1>5. CASE WriteFails(w)
  BY <1>5, FailTypes DEF WriteFails, AfterFailure
<1>6. CASE Prune(w)
  <2>1. Stale(status) \subseteq Tasks
    BY DEF Stale
  <2> QED BY <1>6, <2>1 DEF Prune, Without
<1>7. ASSUME NEW t \in Tasks, EraseRow(w, t) PROVE TypeOK'
  <2>1. erase[w] \subseteq Tasks
    OBVIOUS
  <2>2. row' \in [Tasks -> Statuses \cup {"absent"}] /\ unsaved' \in SUBSET Tasks /\ fails' \in 0..MaxFails
    BY <1>7, <2>1, FailTypes DEF EraseRow
  <2>3. erase' \in [Workers -> SUBSET Tasks]
    BY <1>7, <2>1 DEF EraseRow
  <2>4. pc' = pc
    BY <1>7 DEF EraseRow
  <2> QED BY <1>7, <2>2, <2>3, <2>4 DEF EraseRow
<1> QED BY <1>1, <1>2, <1>3, <1>4, <1>5, <1>6, <1>7 DEF Loop, Coroutine

LEMMA TypeStep == TypeOK /\ PointInv /\ [Next]_vars => TypeOK'
<1> SUFFICES ASSUME TypeOK, PointInv, [Next]_vars PROVE TypeOK'
  OBVIOUS
<1>1. CASE UNCHANGED vars
  BY <1>1 DEF vars, process, memory, loops, history, TypeOK
<1> QED BY <1>1, LifeTypes, ApiTypes, WorkerTypes DEF Next

LEMMA PointStep == TypeOK /\ PointInv /\ [Next]_vars => PointInv'
<1> SUFFICES ASSUME TypeOK, PointInv, [Next]_vars PROVE PointInv'
  OBVIOUS
<1> USE LockNames DEF TypeOK, PointInv, process, memory, loops, history, Holding, Updating, Callers, Free
<1>1. CASE Boot \/ (\E t \in Tasks : CloseInterrupted(t)) \/ Started
  BY <1>1 DEF Boot, CloseInterrupted, Started
<1>2. CASE Shutdown
  <2>1. \A w \in Workers : pc'[w] = AfterCancel(pc[w]) /\ cur'[w] = cur[w]
    BY <1>2 DEF Shutdown
  <2>2. \A w \in Workers : AfterCancel(pc[w]) \in Holding => pc[w] \in Holding
    BY <1>2 DEF Shutdown, AfterCancel, Pcs
  <2> QED BY <1>2, <2>1, <2>2 DEF Shutdown
<1>3. CASE ShutdownDone \/ Kill
  BY <1>3 DEF ShutdownDone, Kill, Blank
<1>4. ASSUME NEW k \in Keys \cup {NoKey}, Enqueue(k) PROVE PointInv'
  <2>1. created' \in Tasks
    BY <1>4, ConstantAssumption DEF Enqueue, Tasks
  <2> QED BY <1>4, <2>1 DEF Enqueue
<1>5. CASE (\E t \in Tasks : CancelTask(t) \/ DeleteTask(t)) \/ Rest
  BY <1>5 DEF CancelTask, DeleteTask, Rest, Enqueued, EnqueueFails, CancelSaved, CancelFails, DeleteRow
<1>6. ASSUME NEW w \in Workers, Get(w) PROVE PointInv'
  <2>1. Head(queue) \in Tasks
    BY <1>6 DEF Get
  <2> QED BY <1>6, <2>1 DEF Get, Move
<1>7. ASSUME NEW w \in Workers, Look(w) \/ Progress(w) \/ Returns(w) \/ Raises(w) \/ Erased(w) PROVE PointInv'
  BY <1>7 DEF Look, Progress, Returns, Raises, Erased, Move
<1>8. ASSUME NEW w \in Workers, Update(w) \/ Written(w) \/ WriteFails(w) PROVE PointInv'
  BY <1>8 DEF Update, Written, WriteFails, AfterUpdate, AfterFailure, Move
<1>9. ASSUME NEW w \in Workers, Prune(w) \/ \E t \in Tasks : EraseRow(w, t) PROVE PointInv'
  BY <1>9 DEF Prune, EraseRow, Move
<1>10. CASE UNCHANGED vars
  BY <1>10 DEF vars
<1> QED BY <1>1, <1>2, <1>3, <1>4, <1>5, <1>6, <1>7, <1>8, <1>9, <1>10 DEF Next, Lifecycle, Api, Loop, Coroutine

\* Every variable holds a value of its kind.
THEOREM TypeCorrect == Spec => []TypeOK
BY TypeInit, PointInit, TypeStep, PointStep, PTL DEF Spec

-----------------------------------------------------------------------------
(* Every task is in one place *)

Queued == {queue[i] : i \in 1 .. Len(queue)}
NoDup == \A i, j \in 1 .. Len(queue) : queue[i] = queue[j] => i = j

LEMMA QueueSame == queue' = queue => Queued' = Queued /\ (NoDup' <=> NoDup)
BY DEF Queued, NoDup

LEMMA QueueEmpty == queue = <<>> => Queued = {} /\ NoDup
BY DEF Queued, NoDup

LEMMA QueuedTasks == TypeOK => Queued \subseteq Tasks
BY DEF TypeOK, Queued

\* Taking the first task out of a queue without duplicates.
LEMMA QueueGet ==
  ASSUME TypeOK, NoDup, queue # <<>>, queue' = Tail(queue)
  PROVE  /\ Head(queue) \in Queued /\ Head(queue) \in Tasks /\ Head(queue) \notin Queued'
         /\ Queued = Queued' \cup {Head(queue)} /\ NoDup'
<1>1. queue \in Seq(Tasks) /\ Len(queue) \in Nat \ {0} /\ Head(queue) = queue[1]
  BY DEF TypeOK
<1>2. Len(queue') = Len(queue) - 1 /\ \A i \in 1 .. Len(queue') : queue'[i] = queue[i + 1]
  BY <1>1
<1>3. \A i \in 1 .. Len(queue) : i = 1 \/ (i - 1 \in 1 .. Len(queue') /\ queue'[i - 1] = queue[i])
  BY <1>1, <1>2
<1>4. \A i \in 1 .. Len(queue') : i + 1 \in 1 .. Len(queue) /\ i + 1 # 1 /\ 1 \in 1 .. Len(queue)
  BY <1>1, <1>2
<1>5. Queued \subseteq Queued' \cup {Head(queue)}
  BY <1>1, <1>3 DEF Queued
<1>6. Queued' \subseteq Queued /\ Head(queue) \in Queued
  BY <1>1, <1>2, <1>4 DEF Queued
<1>7. Head(queue) \notin Queued'
  BY <1>1, <1>2, <1>4 DEF Queued, NoDup
<1>8. NoDup'
  <2> SUFFICES ASSUME NEW i \in 1 .. Len(queue'), NEW j \in 1 .. Len(queue'), queue'[i] = queue'[j] PROVE i = j
    BY DEF NoDup
  <2>1. i + 1 = j + 1
    BY <1>2, <1>4 DEF NoDup
  <2> QED BY <2>1
<1> QED BY <1>1, <1>5, <1>6, <1>7, <1>8

LEMMA QueuePut ==
  ASSUME TypeOK, NoDup, NEW t \in Tasks, t \notin Queued, queue' = Append(queue, t)
  PROVE  Queued' = Queued \cup {t} /\ NoDup'
<1>1. queue \in Seq(Tasks) /\ Len(queue) \in Nat
  BY DEF TypeOK
<1>2. Len(queue') = Len(queue) + 1 /\ queue'[Len(queue) + 1] = t /\ \A i \in 1 .. Len(queue) : queue'[i] = queue[i]
  BY <1>1
<1>3. \A i \in 1 .. Len(queue') : i \in 1 .. Len(queue) \/ i = Len(queue) + 1
  BY <1>1, <1>2
<1>4. \A i \in 1 .. Len(queue) : i \in 1 .. Len(queue')
  BY <1>1, <1>2
<1>5. Len(queue) + 1 \in 1 .. Len(queue')
  BY <1>1, <1>2
<1>6. Queued' \subseteq Queued \cup {t}
  BY <1>2, <1>3 DEF Queued
<1>7. Queued \cup {t} \subseteq Queued'
  BY <1>2, <1>4, <1>5 DEF Queued
<1>8. NoDup'
  BY <1>2, <1>3 DEF NoDup, Queued
<1> QED BY <1>6, <1>7, <1>8

\* A task is in the queue, with one loop, or with the call that enqueues it.
PlaceInv ==
  /\ NoDup
  /\ \A t \in Queued : t <= created
  /\ \A w \in Workers : pc[w] \in Holding => cur[w] <= created /\ cur[w] \notin Queued
  /\ \A v, w \in Workers : pc[v] \in Holding /\ pc[w] \in Holding /\ cur[v] = cur[w] => v = w
  /\ lock = "enqueue" => /\ target = created /\ target \notin Queued
                         /\ \A w \in Workers : pc[w] \in Holding => cur[w] # target

LEMMA PlaceInit == Init => PlaceInv
BY QueueEmpty DEF Init, PlaceInv, Holding, Updating

LEMMA PlaceStep == TypeOK /\ PointInv /\ PlaceInv /\ [Next]_vars => PlaceInv'
<1> SUFFICES ASSUME TypeOK, PointInv, PlaceInv, [Next]_vars PROVE PlaceInv'
  OBVIOUS
<1> USE LockNames DEF PlaceInv, process, memory, loops, history, Callers
<1>0. Queued \subseteq Tasks /\ \A t \in Tasks : t \in Nat
  BY QueuedTasks DEF Tasks
<1>t. /\ created \in Nat /\ pc \in [Workers -> Pcs] /\ cur \in [Workers -> Tasks \cup {0}]
  BY DEF TypeOK
<1>1. ASSUME UNCHANGED <<queue, created, cur>>, lock' # "enqueue" \/ UNCHANGED <<lock, target>>,
             \A w \in Workers : pc'[w] \in Holding => pc[w] \in Holding
      PROVE  PlaceInv'
  BY <1>1, QueueSame
<1>2. CASE Boot \/ (\E t \in Tasks : CloseInterrupted(t))
  BY <1>1, <1>2 DEF Boot, CloseInterrupted
<1>3. CASE Started
  BY <1>1, <1>3 DEF Started, Holding, Updating
<1>4. CASE Shutdown
  <2>1. \A w \in Workers : pc'[w] \in Holding => pc[w] \in Holding
    BY <1>4, <1>t DEF Shutdown, Free, AfterCancel, PointInv, Pcs, Holding, Updating
  <2> QED BY <1>1, <1>4, <2>1 DEF Shutdown
<1>5. CASE ShutdownDone \/ Kill
  <2>1. queue' = <<>> /\ lock' = Nobody /\ \A w \in Workers : pc'[w] \notin Holding
    BY <1>5 DEF ShutdownDone, Kill, Blank, Holding, Updating
  <2>2. Queued' = {} /\ NoDup'
    BY <2>1 DEF Queued, NoDup
  <2> QED BY <2>1, <2>2
<1>6. ASSUME NEW k \in Keys \cup {NoKey}, Enqueue(k) PROVE PlaceInv'
  <2>1. created' = created + 1 /\ target' = created + 1 /\ UNCHANGED <<queue, pc, cur>>
    BY <1>6 DEF Enqueue
  <2>2. \A t \in Tasks : t <= created => t <= created + 1 /\ t # created + 1
    BY <1>0, <1>t
  <2>3. \A w \in Workers : pc[w] \in Holding => cur[w] \in Tasks
    BY DEF PointInv
  <2> QED BY <1>0, <2>1, <2>2, <2>3, QueueSame
<1>7. CASE (\E t \in Tasks : CancelTask(t) \/ DeleteTask(t))
  BY <1>1, <1>7 DEF CancelTask, DeleteTask
<1>8. CASE Enqueued
  <2>1. /\ target \in Tasks /\ target \notin Queued /\ queue' = Append(queue, target)
        /\ lock' = Nobody /\ UNCHANGED <<created, pc, cur>>
    BY <1>8 DEF Enqueued, PointInv
  <2>2. Queued' = Queued \cup {target} /\ NoDup'
    BY <2>1, QueuePut
  <2>3. target = created /\ \A w \in Workers : pc[w] \in Holding => cur[w] # target
    BY <1>8 DEF Enqueued
  <2>4. lock' # "enqueue" /\ target <= created
    BY <1>t, <2>1, <2>3
  <2>5. \A t \in Queued' : t <= created'
    BY <2>1, <2>2, <2>4
  <2>6. \A w \in Workers : pc'[w] \in Holding => cur'[w] <= created' /\ cur'[w] \notin Queued'
    BY <2>1, <2>2, <2>3
  <2>7. \A v, w \in Workers : pc'[v] \in Holding /\ pc'[w] \in Holding /\ cur'[v] = cur'[w] => v = w
    BY <2>1
  <2> QED BY <2>2, <2>4, <2>5, <2>6, <2>7
<1>9. CASE EnqueueFails \/ CancelSaved \/ CancelFails \/ (\E t \in Tasks : DeleteRow(t))
  <2>1. UNCHANGED <<queue, created, pc, cur>> /\ (lock' = Nobody \/ UNCHANGED <<lock, target>>)
    BY <1>9 DEF EnqueueFails, CancelSaved, CancelFails, DeleteRow
  <2> QED BY <2>1, QueueSame
<1>10. ASSUME NEW w \in Workers, Get(w) PROVE PlaceInv'
  <2>1. /\ pc[w] \notin Holding /\ pc'[w] = "look" /\ cur'[w] = Head(queue)
        /\ \A v \in Workers \ {w} : pc'[v] = pc[v] /\ cur'[v] = cur[v]
        /\ UNCHANGED <<created, lock, target>>
    BY <1>10, <1>t DEF Get, Move, Holding, Updating
  <2>2. /\ Head(queue) \in Queued /\ Head(queue) \in Tasks /\ Head(queue) \notin Queued'
        /\ Queued = Queued' \cup {Head(queue)} /\ NoDup'
    BY <1>10, QueueGet DEF Get
  <2> QED BY <2>1, <2>2
<1>11. ASSUME NEW w \in Workers, Look(w) \/ Update(w) \/ Written(w) \/ WriteFails(w) PROVE PlaceInv'
  <2>1. pc[w] \in Holding
    BY <1>11 DEF Look, Update, Written, WriteFails, PointInv, Holding, Updating
  <2>2. \A v \in Workers \ {w} : pc'[v] = pc[v]
    BY <1>11, <1>t DEF Look, Update, Written, WriteFails, Move
  <2>3. lock' \in {lock, w, Nobody}
    BY <1>11 DEF Look, Update, Written, WriteFails
  <2>4. UNCHANGED <<queue, created, cur, target>>
    BY <1>11 DEF Look, Update, Written, WriteFails
  <2> QED BY <1>1, <2>1, <2>2, <2>3, <2>4
<1>12. ASSUME NEW w \in Workers, Progress(w) \/ Returns(w) \/ Raises(w) PROVE PlaceInv'
  <2>1. pc[w] \in Holding /\ \A v \in Workers \ {w} : pc'[v] = pc[v]
    BY <1>12, <1>t DEF Progress, Returns, Raises, Move, Holding
  <2>2. UNCHANGED <<queue, created, cur, target>> /\ lock' \in {lock, w}
    BY <1>12 DEF Progress, Returns, Raises
  <2> QED BY <1>1, <2>1, <2>2
<1>13. ASSUME NEW w \in Workers, Prune(w) PROVE PlaceInv'
  <2>1. /\ pc'[w] \notin Holding /\ \A v \in Workers \ {w} : pc'[v] = pc[v] /\ cur'[v] = cur[v]
        /\ UNCHANGED <<queue, created, lock, target>>
    BY <1>13, <1>t DEF Prune, Move, Holding, Updating
  <2> QED BY <2>1, QueueSame
<1>14. ASSUME NEW w \in Workers, Erased(w) \/ \E t \in Tasks : EraseRow(w, t) PROVE PlaceInv'
  <2>1. UNCHANGED <<queue, created, cur, lock, target>> /\ \A v \in Workers : pc'[v] \in Holding => pc[v] \in Holding
    BY <1>14, <1>t DEF Erased, EraseRow, Move, Holding, Updating
  <2> QED BY <1>1, <2>1
<1>15. CASE UNCHANGED vars
  BY <1>1, <1>15 DEF vars
<1> QED BY <1>2, <1>3, <1>4, <1>5, <1>6, <1>7, <1>8, <1>9, <1>10, <1>11, <1>12, <1>13, <1>14, <1>15
        DEF Next, Lifecycle, Api, Rest, Loop, Coroutine

-----------------------------------------------------------------------------
(* What the phase of the process says *)

PhaseInv ==
  /\ lock \in Workers \cup {"enqueue", "cancel"} => phase = "up"
  /\ phase \in {"down", "booting"} =>
       /\ queue = <<>> /\ deleting = {}
       /\ \A t \in Tasks : status[t] = "absent" /\ asked[t] = FALSE
       /\ \A w \in Workers : pc[w] = "gone" /\ erase[w] = {}

LEMMA PhaseInit == Init => PhaseInv
BY LockNames DEF Init, PhaseInv, Callers

LEMMA PhaseStep == TypeOK /\ PointInv /\ PhaseInv /\ [Next]_vars => PhaseInv'
<1> SUFFICES ASSUME TypeOK, PointInv, PhaseInv, [Next]_vars PROVE PhaseInv'
  OBVIOUS
<1> USE LockNames DEF PhaseInv, process, memory, loops, history, Callers, Free
<1>1. CASE Boot \/ (\E t \in Tasks : CloseInterrupted(t)) \/ Started \/ Shutdown
  BY <1>1 DEF Boot, CloseInterrupted, Started, Shutdown
<1>2. CASE ShutdownDone \/ Kill
  BY <1>2 DEF ShutdownDone, Kill, Blank
<1>3. CASE Api
  BY <1>3 DEF Api, Enqueue, CancelTask, DeleteTask
<1>4. CASE Rest
  BY <1>4 DEF Rest, Enqueued, EnqueueFails, CancelSaved, CancelFails, DeleteRow
<1>5. ASSUME NEW w \in Workers, Loop(w) \/ Progress(w) \/ Coroutine(w) PROVE PhaseInv'
  <2>1. pc[w] # "gone"
    BY <1>5 DEF Loop, Get, Look, Update, Written, WriteFails, Prune, EraseRow, Erased, Progress, Coroutine,
                Returns, Raises, PointInv, Updating
  <2>2. phase \notin {"down", "booting"} /\ phase' = phase
    BY <1>5, <2>1 DEF Loop, Get, Look, Update, Written, WriteFails, Prune, EraseRow, Erased, Progress, Coroutine,
                Returns, Raises
  <2>3. lock' \in {lock, Nobody} \/ phase = "up"
    BY <1>5 DEF Loop, Get, Look, Update, Written, WriteFails, Prune, EraseRow, Erased, Progress, Coroutine,
                Returns, Raises
  <2> QED BY <2>2, <2>3
<1>6. CASE UNCHANGED vars
  BY <1>6 DEF vars
<1> QED BY <1>1, <1>2, <1>3, <1>4, <1>5, <1>6 DEF Next, Lifecycle
-----------------------------------------------------------------------------
(* What the place of a task says of its status *)

Ends == {"succeed", "fail", "mark", "obey"}

LoopOK(w) ==
  /\ pc[w] \in {"look", "begin"} /\ lock # w => status[cur[w]] \in {"pending", "absent"}
  /\ pc[w] = "run" => status[cur[w]] \in {"running", "absent"}
  /\ pc[w] \in Ends /\ lock # w => status[cur[w]] \in Active \cup {"absent"} \/ cur[w] \in unsaved
  /\ pc[w] = "prune" /\ phase = "up" => status[cur[w]] \notin Active \/ cur[w] \in unsaved
  /\ lock = w => status[cur[w]] = IF pc[w] = "run" THEN "running" ELSE Verdict(pc[w])

CallOK == /\ lock = "enqueue" => status[target] = "pending"
          /\ lock = "cancel" => status[target] \in Active

StatusInv ==
  /\ \A t \in Tasks : status[t] # "absent" \/ row[t] # "absent" => t <= created
  /\ \A t \in Queued : status[t] \in {"pending", "absent"}
  /\ CallOK
  /\ \A w \in Workers : LoopOK(w)

LEMMA StatusInit == Init => StatusInv
BY LockNames, QueueEmpty DEF Init, StatusInv, LoopOK, CallOK, Callers, Ends

Known == TypeOK /\ PointInv /\ PlaceInv /\ PhaseInv

\* Facts every step uses.
LEMMA KnownFacts ==
  ASSUME Known
  PROVE  /\ created \in Nat /\ pc \in [Workers -> Pcs] /\ cur \in [Workers -> Tasks \cup {0}] /\ unsaved \in SUBSET Tasks
         /\ status \in [Tasks -> Statuses \cup {"absent"}] /\ row \in [Tasks -> Statuses \cup {"absent"}]
         /\ asked \in [Tasks -> BOOLEAN] /\ erase \in [Workers -> SUBSET Tasks]
         /\ Queued \subseteq Tasks
         /\ lock \in {"enqueue", "cancel"} => target \in Tasks /\ phase = "up"
         /\ lock = "enqueue" => target = created
         /\ \A t \in Queued : t <= created
         /\ \A w \in Workers : lock = w => pc[w] \in Updating \cup {"run"} /\ phase = "up"
         /\ \A w \in Workers : pc[w] \in Holding => cur[w] \in Tasks /\ cur[w] <= created /\ cur[w] \notin Queued
         /\ \A v, w \in Workers : pc[v] \in Holding /\ pc[w] \in Holding /\ cur[v] = cur[w] => v = w
         /\ lock = "enqueue" => \A w \in Workers : pc[w] \in Holding => cur[w] # target
BY QueuedTasks DEF Known, TypeOK, PointInv, PlaceInv, PhaseInv

\* What a step leaves of a loop that it does not move.
LEMMA LoopFrame ==
  ASSUME Known, NEW v \in Workers, LoopOK(v), pc'[v] = pc[v], lock' = v <=> lock = v,
         pc[v] \in Holding => /\ cur'[v] = cur[v]
                              /\ \/ status'[cur[v]] = status[cur[v]]
                                 \/ lock # v /\ status'[cur[v]] = "absent",
         unsaved \subseteq unsaved', phase' = phase \/ phase' # "up"
  PROVE  LoopOK(v)'
<1>1. lock = v => pc[v] \in Updating \cup {"run"}
  BY KnownFacts
<1>2. CASE pc[v] \in Holding
  BY <1>1, <1>2 DEF LoopOK, Active
<1>3. CASE pc[v] \notin Holding
  BY <1>1, <1>3 DEF LoopOK, Holding, Updating, Ends
<1> QED BY <1>2, <1>3

LEMMA StatusStep == Known /\ StatusInv /\ [Next]_vars => StatusInv'
<1> SUFFICES ASSUME Known, StatusInv, [Next]_vars PROVE StatusInv'
  OBVIOUS
<1> USE LockNames DEF process, memory, loops, history, Callers, Free
<1>s. /\ \A t \in Tasks : status[t] # "absent" \/ row[t] # "absent" => t <= created
      /\ \A t \in Queued : status[t] \in {"pending", "absent"}
      /\ CallOK
      /\ \A w \in Workers : LoopOK(w)
  BY DEF StatusInv
<1>h. Holding = {"look", "run", "prune", "begin"} \cup Ends /\ Updating = {"begin"} \cup Ends
  BY DEF Holding, Updating, Ends
<1>1. CASE Boot \/ \E t \in Tasks : CloseInterrupted(t)
  <2>1. UNCHANGED <<status, cur, pc, created, queue, unsaved>> /\ phase' # "up" /\ lock' \in {lock, "start"}
    BY <1>1 DEF Boot, CloseInterrupted
  <2>2. \A t \in Tasks : row'[t] # "absent" => row[t] # "absent"
    BY <1>1, KnownFacts DEF Boot, CloseInterrupted, Interrupted, Active
  <2>3. \A w \in Workers : pc[w] = "gone" /\ lock' # w
    BY <1>1 DEF Boot, CloseInterrupted, Known, PhaseInv
  <2>4. \A w \in Workers : LoopOK(w)'
    BY <2>1, <2>3 DEF LoopOK, Ends
  <2>5. CallOK'
    BY <1>1 DEF Boot, CloseInterrupted, CallOK, Known, PhaseInv
  <2> QED BY <1>s, <2>1, <2>2, <2>4, <2>5, QueueSame DEF StatusInv
<1>2. CASE Started
  <2>1. \A w \in Workers : pc'[w] = "get"
    BY <1>2 DEF Started
  <2>2. CallOK' /\ \A w \in Workers : LoopOK(w)'
    BY <1>2, <2>1 DEF Started, LoopOK, Ends, CallOK
  <2>3. status' = row' /\ queue' = queue /\ queue = <<>> /\ created' = created
    BY <1>2 DEF Started, Known, PhaseInv
  <2>4. \A t \in Tasks : row'[t] # "absent" => row[t] # "absent"
    BY <1>2, KnownFacts DEF Started, Without
  <2> QED BY <1>s, <2>2, <2>3, <2>4, QueueEmpty, QueueSame DEF StatusInv
<1>3. CASE Shutdown
  <2>1. UNCHANGED <<status, row, cur, created, queue, unsaved>> /\ phase' = "stopping" /\ lock' = "shutdown"
    BY <1>3 DEF Shutdown
  <2>2. ASSUME NEW w \in Workers PROVE LoopOK(w)'
    <3>1. pc'[w] = AfterCancel(pc[w]) /\ pc[w] \in Pcs /\ LoopOK(w) /\ lock # w
      BY <1>3, <1>s, KnownFacts DEF Shutdown
    <3>2. CASE pc'[w] \in {"gone", "prune"}
      BY <2>1, <3>2 DEF LoopOK, Ends
    <3>3. CASE pc[w] \in {"run", "succeed", "obey"}
      <4>1. pc'[w] = "mark"
        BY <3>1, <3>3 DEF AfterCancel
      <4> QED BY <2>1, <3>1, <3>3, <4>1 DEF LoopOK, Ends, Active
    <3> QED BY <3>1, <3>2, <3>3 DEF AfterCancel, Pcs, Updating
  <2> QED BY <1>s, <2>1, <2>2, QueueSame DEF StatusInv, CallOK
<1>4. CASE ShutdownDone \/ Kill
  <2>1. /\ queue' = <<>> /\ lock' = Nobody /\ UNCHANGED <<row, created>>
        /\ \A t \in Tasks : status'[t] = "absent"
        /\ \A w \in Workers : pc'[w] = "gone"
    BY <1>4 DEF ShutdownDone, Kill, Blank
  <2>2. Queued' = {}
    BY <2>1 DEF Queued
  <2> QED BY <1>s, <2>1, <2>2 DEF StatusInv, LoopOK, Ends, CallOK
<1>5. ASSUME NEW k \in Keys \cup {NoKey}, Enqueue(k) PROVE StatusInv'
  <2>1. /\ created' = created + 1 /\ target' = created + 1 /\ lock' = "enqueue" /\ lock = Nobody
        /\ UNCHANGED <<phase, row, queue, pc, cur, unsaved>>
        /\ status' = [status EXCEPT ![created + 1] = "pending"]
        /\ created + 1 \in Tasks
    BY <1>5, KnownFacts, ConstantAssumption DEF Enqueue, Tasks, Known, TypeOK
  <2>2. \A t \in Tasks : t <= created => status'[t] = status[t] /\ t <= created'
    BY <2>1, KnownFacts DEF Tasks
  <2>3. \A t \in Tasks : status'[t] # "absent" \/ row'[t] # "absent" => t <= created'
    BY <1>s, <2>1, <2>2, KnownFacts DEF Tasks
  <2>4. \A t \in Queued : status'[t] \in {"pending", "absent"}
    BY <1>s, <2>2, KnownFacts
  <2>5. CallOK'
    BY <2>1, KnownFacts DEF CallOK
  <2>6. \A w \in Workers : LoopOK(w)'
    BY <1>s, <2>1, <2>2, KnownFacts, LoopFrame
  <2> QED BY <2>1, <2>3, <2>4, <2>5, <2>6, QueueSame DEF StatusInv
<1>6. ASSUME NEW t \in Tasks, CancelTask(t) \/ DeleteTask(t) PROVE StatusInv'
  <2>1. /\ UNCHANGED <<phase, row, created, queue, pc, cur, unsaved>> /\ lock = Nobody
        /\ \A u \in Tasks : status'[u] \in {status[u], "absent"}
        /\ \A w \in Workers : lock' # w
    BY <1>6, KnownFacts DEF CancelTask, DeleteTask
  <2>2. CallOK'
    BY <1>6 DEF CancelTask, DeleteTask, CallOK
  <2>3. \A w \in Workers : LoopOK(w)'
    BY <1>s, <2>1, KnownFacts, LoopFrame
  <2> QED BY <1>s, <2>1, <2>2, <2>3, KnownFacts, QueueSame DEF StatusInv
<1>7. CASE Rest
  <2>1. /\ UNCHANGED <<phase, status, created, pc, cur>> /\ unsaved \subseteq unsaved'
        /\ \A w \in Workers : lock' = w <=> lock = w
        /\ lock' = Nobody \/ UNCHANGED <<lock, target>>
    BY <1>7 DEF Rest, Enqueued, EnqueueFails, CancelSaved, CancelFails, DeleteRow
  <2>2. CallOK'
    BY <1>s, <2>1 DEF CallOK
  <2>3. \A w \in Workers : LoopOK(w)'
    BY <1>s, <2>1, LoopFrame
  <2>4. \A t \in Tasks : row'[t] # "absent" => row[t] # "absent" \/ status[t] # "absent"
    BY <1>7, KnownFacts DEF Rest, Enqueued, EnqueueFails, CancelSaved, CancelFails, DeleteRow
  <2>5. \A t \in Queued' : t \in Queued \/ (lock = "enqueue" /\ t = target)
    <3>1. CASE Enqueued
      BY <3>1, KnownFacts, QueuePut DEF Enqueued, Known, PlaceInv
    <3>2. CASE queue' = queue
      BY <3>2, QueueSame
    <3> QED BY <1>7, <3>1, <3>2 DEF Rest, EnqueueFails, CancelSaved, CancelFails, DeleteRow
  <2> QED BY <1>s, <2>1, <2>2, <2>3, <2>4, <2>5 DEF StatusInv, CallOK
<1>8. ASSUME NEW w \in Workers, Loop(w) \/ Progress(w) \/ Coroutine(w),
             \A t \in Tasks : status'[t] # "absent" => status[t] # "absent",
             \A t \in Tasks : row'[t] # "absent" => row[t] # "absent" \/ status[t] # "absent",
             Queued' \subseteq Queued,
             \A t \in Queued : status'[t] \in {status[t], "absent"},
             CallOK', LoopOK(w)',
             \A v \in Workers \ {w} : pc[v] \in Holding => status'[cur[v]] \in {status[cur[v]], "absent"},
             \A v \in Workers \ {w} : lock # v \/ UNCHANGED status
      PROVE  StatusInv'
  <2>1. /\ UNCHANGED <<phase, created>> /\ unsaved \subseteq unsaved'
        /\ \A v \in Workers \ {w} : pc'[v] = pc[v] /\ cur'[v] = cur[v] /\ (lock' = v <=> lock = v)
    BY <1>8, KnownFacts DEF Loop, Get, Look, Update, Written, WriteFails, Prune, EraseRow, Erased, Progress, Coroutine,
                            Returns, Raises, Move
  <2>2. \A v \in Workers \ {w} : LoopOK(v)'
    BY <1>s, <1>8, <2>1, LoopFrame
  <2> QED BY <1>s, <1>8, <2>1, <2>2 DEF StatusInv
<1>9. ASSUME NEW w \in Workers, Get(w) PROVE StatusInv'
  <2>1. /\ Head(queue) \in Queued /\ Queued = Queued' \cup {Head(queue)}
    BY <1>9, QueueGet DEF Get, Known, PlaceInv
  <2>2. UNCHANGED <<status, row, lock, target>> /\ pc'[w] = "look" /\ cur'[w] = Head(queue)
    BY <1>9, KnownFacts DEF Get, Move
  <2>3. lock # w
    BY <1>9, KnownFacts, <1>h DEF Get, Ends
  <2>4. LoopOK(w)'
    BY <1>s, <2>1, <2>2, <2>3 DEF LoopOK, Ends
  <2>5. CallOK'
    BY <1>s, <2>2 DEF CallOK
  <2> QED BY <1>8, <1>9, <2>1, <2>2, <2>4, <2>5 DEF Loop
<1>10. ASSUME NEW w \in Workers, Look(w) PROVE StatusInv'
  <2>1. UNCHANGED <<status, row, lock, target, queue, cur, phase>> /\ lock = Nobody /\ pc[w] = "look"
    BY <1>10 DEF Look
  <2>2. \/ pc'[w] = "prune" /\ status[cur[w]] = "absent"
        \/ pc'[w] \in {"mark", "begin"}
    BY <1>10, KnownFacts DEF Look, Move
  <2>3. LoopOK(w)'
    BY <1>s, <2>1, <2>2 DEF LoopOK, Ends, Active
  <2>4. CallOK'
    BY <1>s, <2>1 DEF CallOK
  <2> QED BY <1>8, <1>10, <2>1, <2>3, <2>4, QueueSame DEF Loop
<1>11. ASSUME NEW w \in Workers, Update(w) PROVE StatusInv'
  <2>1. UNCHANGED <<row, target, queue, cur, phase, unsaved>> /\ lock = Nobody /\ pc[w] \in Updating /\ cur[w] \in Tasks
        /\ cur[w] \notin Queued
    BY <1>11, <1>h, KnownFacts DEF Update
  <2>2. CASE status[cur[w]] = "absent"
    <3>1. UNCHANGED <<status, lock>> /\ pc'[w] \in {"run", "prune"}
      BY <1>11, <2>2, KnownFacts DEF Update, Move, AfterUpdate
    <3>2. LoopOK(w)' /\ CallOK'
      BY <2>1, <2>2, <3>1 DEF LoopOK, Ends, Active, CallOK
    <3> QED BY <1>8, <1>11, <2>1, <3>1, <3>2, QueueSame DEF Loop
  <2>3. CASE status[cur[w]] # "absent"
    <3>1. status' = [status EXCEPT ![cur[w]] = Verdict(pc[w])] /\ lock' = w /\ pc' = pc
      BY <1>11, <2>3 DEF Update
    <3>2. status'[cur[w]] = Verdict(pc[w]) /\ \A t \in Tasks \ {cur[w]} : status'[t] = status[t]
      BY <2>1, <3>1, KnownFacts
    <3>3. LoopOK(w)' /\ CallOK'
      BY <1>h, <2>1, <3>1, <3>2 DEF LoopOK, Ends, CallOK
    <3>4. \A v \in Workers \ {w} : pc[v] \in Holding => cur[v] \in Tasks \ {cur[w]}
      BY <1>h, <2>1, KnownFacts
    <3>5. \A t \in Tasks : status'[t] # "absent" => status[t] # "absent"
      BY <2>3, <3>2
    <3>6. \A t \in Queued : status'[t] = status[t]
      BY <2>1, <3>2, KnownFacts
    <3>7. \A v \in Workers : lock # v
      BY <2>1
    <3> QED BY <1>8, <1>11, <2>1, <3>2, <3>3, <3>4, <3>5, <3>6, <3>7, QueueSame DEF Loop
  <2> QED BY <2>2, <2>3
<1>12. ASSUME NEW w \in Workers, Written(w) PROVE StatusInv'
  <2>1. UNCHANGED <<status, target, queue, cur, phase, unsaved>> /\ lock = w /\ lock' = Nobody
        /\ row' = [row EXCEPT ![cur[w]] = status[cur[w]]] /\ pc'[w] = AfterUpdate(pc[w])
        /\ pc[w] \in Updating \cup {"run"}
    BY <1>12, KnownFacts DEF Written, Move
  <2>2. status[cur[w]] = IF pc[w] = "run" THEN "running" ELSE Verdict(pc[w])
    BY <1>s, <2>1 DEF LoopOK
  <2>3. LoopOK(w)'
    BY <1>h, <2>1, <2>2 DEF LoopOK, AfterUpdate, Verdict, Ends, Active
  <2>4. CallOK'
    BY <2>1 DEF CallOK
  <2>5. \A t \in Tasks : row'[t] # "absent" => row[t] # "absent" \/ status[t] # "absent"
    BY <2>1, KnownFacts
  <2> QED BY <1>8, <1>12, <2>1, <2>3, <2>4, <2>5, QueueSame DEF Loop
<1>13. ASSUME NEW w \in Workers, WriteFails(w) PROVE StatusInv'
  <2>1. UNCHANGED <<status, row, target, queue, cur, phase>> /\ lock = w /\ lock' = Nobody
        /\ unsaved' = unsaved \cup {cur[w]} /\ pc'[w] \in AfterFailure(pc[w])
        /\ pc[w] \in Updating \cup {"run"}
    BY <1>13, KnownFacts DEF WriteFails, Move
  <2>2. status[cur[w]] = IF pc[w] = "run" THEN "running" ELSE Verdict(pc[w])
    BY <1>s, <2>1 DEF LoopOK
  <2>3. pc'[w] \in {"fail", "prune"} \/ (pc[w] = "run" /\ pc'[w] = "run")
    BY <2>1 DEF AfterFailure
  <2>4. LoopOK(w)'
    BY <2>1, <2>2, <2>3 DEF LoopOK, Ends
  <2>5. CallOK'
    BY <2>1 DEF CallOK
  <2> QED BY <1>8, <1>13, <2>1, <2>4, <2>5, QueueSame DEF Loop
<1>14. ASSUME NEW w \in Workers, Progress(w) \/ Returns(w) \/ Raises(w) PROVE StatusInv'
  <2>1. UNCHANGED <<status, row, target, queue, cur, phase, unsaved>> /\ pc[w] = "run"
    BY <1>14 DEF Progress, Returns, Raises
  <2>2. status[cur[w]] \in {"running", "absent"}
    BY <1>s, <2>1 DEF LoopOK
  <2>3. CASE Progress(w)
    <3>1. lock' = w /\ pc' = pc /\ status[cur[w]] = "running" /\ lock = Nobody
      BY <2>2, <2>3 DEF Progress
    <3>2. LoopOK(w)' /\ CallOK'
      BY <2>1, <3>1 DEF LoopOK, Ends, CallOK
    <3> QED BY <1>8, <2>1, <2>3, <3>2, QueueSame
  <2>4. CASE Returns(w) \/ Raises(w)
    <3>1. lock' = lock /\ lock # w /\ pc'[w] \in Ends
      BY <2>4, KnownFacts DEF Returns, Raises, Move, Ends
    <3>2. LoopOK(w)' /\ CallOK'
      BY <1>s, <2>1, <2>2, <3>1 DEF LoopOK, Ends, CallOK, Active
    <3> QED BY <1>8, <1>14, <2>1, <3>2, QueueSame DEF Coroutine
  <2> QED BY <1>14, <2>3, <2>4
<1>15. ASSUME NEW w \in Workers, Prune(w) PROVE StatusInv'
  <2>1. UNCHANGED <<row, lock, target, queue, phase, unsaved>> /\ lock = Nobody /\ pc'[w] = "erase"
    BY <1>15, KnownFacts DEF Prune, Move
  <2>2. \A t \in Tasks : status'[t] \in {status[t], "absent"}
    BY <1>15 DEF Prune, Without
  <2>3. LoopOK(w)' /\ CallOK'
    BY <2>1 DEF LoopOK, Ends, CallOK
  <2> QED BY <1>8, <1>15, <2>1, <2>2, <2>3, KnownFacts, QueueSame DEF Loop
<1>16. ASSUME NEW w \in Workers, Erased(w) \/ \E t \in Tasks : EraseRow(w, t) PROVE StatusInv'
  <2>1. UNCHANGED <<status, lock, target, queue, phase>> /\ pc'[w] \in {"get", "erase"} /\ pc[w] = "erase"
    BY <1>16, KnownFacts DEF Erased, EraseRow, Move
  <2>2. \A t \in Tasks : row'[t] \in {row[t], "absent"}
    BY <1>16, KnownFacts DEF Erased, EraseRow
  <2>3. lock # w
    BY <1>h, <2>1, KnownFacts DEF Ends
  <2>4. LoopOK(w)' /\ CallOK'
    BY <1>s, <2>1, <2>3 DEF LoopOK, Ends, CallOK
  <2> QED BY <1>8, <1>16, <2>1, <2>2, <2>4, QueueSame DEF Loop
<1>17. CASE UNCHANGED vars
  <2>1. CallOK'
    BY <1>s, <1>17 DEF vars, CallOK
  <2>2. \A w \in Workers : LoopOK(w)'
    BY <1>s, <1>17, LoopFrame DEF vars
  <2> QED BY <1>s, <1>17, <2>1, <2>2, QueueSame DEF vars, StatusInv
<1> QED BY <1>1, <1>2, <1>3, <1>4, <1>5, <1>6, <1>7, <1>9, <1>10, <1>11, <1>12, <1>13, <1>14, <1>15, <1>16,
           <1>17
        DEF Next, Lifecycle, Api, Loop, Coroutine

-----------------------------------------------------------------------------
(* One coroutine per payload *)

\* Two unfinished tasks have different payloads.
KeyInv ==
  \A t, u \in Tasks : status[t] \in Active /\ status[u] \in Active /\ key[t] = key[u] =>
      t = u \/ key[t] = NoKey

LEMMA KeyInit == Init => KeyInv
BY DEF Init, KeyInv, Active

LEMMA KeyStep == Known /\ StatusInv /\ KeyInv /\ [Next]_vars => KeyInv'
<1> SUFFICES ASSUME Known, StatusInv, KeyInv, [Next]_vars PROVE KeyInv'
  OBVIOUS
<1> USE LockNames DEF process, memory, loops, history, Callers, Free
<1>1. ASSUME UNCHANGED key, \A t \in Tasks : status'[t] \in Active => status[t] \in Active
      PROVE  KeyInv'
  BY <1>1 DEF KeyInv
<1>2. CASE UNCHANGED <<key, status>>
  BY <1>1, <1>2
<1>3. CASE Started
  BY <1>3 DEF Started, Interrupted, Without, Stale, KeyInv, Active
<1>4. CASE ShutdownDone \/ Kill
  BY <1>4 DEF ShutdownDone, Kill, Blank, KeyInv, Active
<1>5. ASSUME NEW k \in Keys \cup {NoKey}, Enqueue(k) PROVE KeyInv'
  <2>1. /\ created + 1 \in Tasks
        /\ k = NoKey \/ ~Matches(k)
        /\ status' = [status EXCEPT ![created + 1] = "pending"]
        /\ key' = [key EXCEPT ![created + 1] = k]
    BY <1>5, KnownFacts, ConstantAssumption DEF Enqueue, Tasks, Known, TypeOK
  <2>2. /\ key'[created + 1] = k
        /\ \A t \in Tasks \ {created + 1} : status'[t] = status[t] /\ key'[t] = key[t]
    BY <2>1, KnownFacts DEF Known, TypeOK
  <2>3. \A t \in Tasks : status[t] \in Active => key[t] # k \/ k = NoKey
    BY <2>1 DEF Matches
  <2> QED BY <2>2, <2>3 DEF KeyInv
<1>6. ASSUME NEW t \in Tasks, DeleteTask(t) PROVE KeyInv'
  BY <1>1, <1>6, KnownFacts DEF DeleteTask, Active
<1>7. ASSUME NEW w \in Workers, Update(w) PROVE KeyInv'
  <2>1. UNCHANGED key /\ pc[w] \in Updating /\ lock # w /\ LoopOK(w) /\ cur[w] \in Tasks
    BY <1>7, KnownFacts DEF Update, StatusInv, Holding
  <2>2. status[cur[w]] \in Active \/ pc[w] # "begin" \/ UNCHANGED status
    BY <1>7, <2>1 DEF Update, LoopOK, Active
  <2>3. pc[w] # "begin" => Verdict(pc[w]) \notin Active
    BY <2>1 DEF Verdict, Active, Updating
  <2> QED BY <1>1, <1>7, <2>1, <2>2, <2>3, KnownFacts DEF Update
<1>8. ASSUME NEW w \in Workers, Prune(w) PROVE KeyInv'
  BY <1>1, <1>8 DEF Prune, Without, Active
<1>9. ASSUME NEW w \in Workers, Loop(w), ~Update(w), ~Prune(w) PROVE KeyInv'
  BY <1>2, <1>9 DEF Loop, Get, Look, Written, WriteFails, EraseRow, Erased
<1>10. ASSUME NEW w \in Workers, Progress(w) \/ Coroutine(w) PROVE KeyInv'
  BY <1>2, <1>10 DEF Progress, Coroutine, Returns, Raises
<1>11. CASE Boot \/ (\E t \in Tasks : CloseInterrupted(t) \/ CancelTask(t)) \/ Shutdown \/ Rest \/ UNCHANGED vars
  BY <1>2, <1>11 DEF Boot, CloseInterrupted, CancelTask, Shutdown, Rest, Enqueued, EnqueueFails, CancelSaved,
                     CancelFails, DeleteRow, vars
<1> QED BY <1>3, <1>4, <1>5, <1>6, <1>7, <1>8, <1>9, <1>10, <1>11 DEF Next, Lifecycle, Api

LEMMA KeyMeans == Known /\ StatusInv /\ KeyInv => UniqueExecution
<1> SUFFICES ASSUME Known, StatusInv, KeyInv, NEW v \in Workers, NEW w \in Workers,
                    v # w, pc[v] = "run", pc[w] = "run", key[cur[v]] = key[cur[w]]
             PROVE  key[cur[v]] = NoKey \/ status[cur[v]] = "absent" \/ status[cur[w]] = "absent"
  BY DEF UniqueExecution
<1>1. cur[v] \in Tasks /\ cur[w] \in Tasks /\ cur[v] # cur[w]
  BY KnownFacts DEF Holding
<1>2. status[cur[v]] \in {"running", "absent"} /\ status[cur[w]] \in {"running", "absent"}
  BY DEF StatusInv, LoopOK
<1> QED BY <1>1, <1>2 DEF KeyInv, Active

\* Two coroutines of one payload never run at the same time, unless the task of one
\* was deleted under it: whatever the order of enqueueing, cancelling, deleting and
\* running, a payload that enqueue_unique_by_payload matched has one live task.
THEOREM OnePerPayload == Spec => []UniqueExecution
<1>1. Init => Known /\ StatusInv /\ KeyInv
  BY TypeInit, PointInit, PlaceInit, PhaseInit, StatusInit, KeyInit DEF Known
<1>2. Known /\ StatusInv /\ KeyInv /\ [Next]_vars => (Known /\ StatusInv /\ KeyInv)'
  BY TypeStep, PointStep, PlaceStep, PhaseStep, StatusStep, KeyStep DEF Known
<1> QED BY <1>1, <1>2, KeyMeans, PTL DEF Spec

-----------------------------------------------------------------------------
(* Nothing unfinished is forgotten, and what is settled stays settled *)

LEMMA ForgetInit == Init => NoneForgotten
BY DEF Init, NoneForgotten

LEMMA HoldsHolding ==
  ASSUME Known, NEW w \in Workers, NEW t \in Tasks
  PROVE  Holds(w, t) <=> pc[w] \in Holding /\ cur[w] = t
BY KnownFacts DEF Holds, Holding, Pcs, Updating

LEMMA ForgetStep == Known /\ StatusInv /\ NoneForgotten /\ [Next]_vars => NoneForgotten'
<1> SUFFICES ASSUME Known, StatusInv, NoneForgotten, [Next]_vars, phase' = "up",
                    NEW t \in Tasks, status'[t] \in Active, t \notin unsaved',
                    ~(lock' = "enqueue" /\ target' = t), t \notin Queued'
             PROVE  \E w \in Workers : Holds(w, t)'
  BY DEF NoneForgotten, Queued, Holds
<1> USE LockNames DEF process, memory, loops, history, Callers, Free
<1>1. phase = "up" /\ status[t] \in Active /\ t \notin unsaved
        => t \in Queued \/ (\E w \in Workers : Holds(w, t)) \/ (lock = "enqueue" /\ target = t)
  BY DEF NoneForgotten, Queued
<1>2. ASSUME UNCHANGED <<phase, queue, pc, cur>>, status[t] \in Active, unsaved \subseteq unsaved',
             lock = "enqueue" /\ target = t => UNCHANGED <<lock, target>>
      PROVE  \E w \in Workers : Holds(w, t)'
  BY <1>1, <1>2, QueueSame DEF Holds
<1>3. CASE Boot \/ (\E u \in Tasks : CloseInterrupted(u)) \/ Shutdown \/ ShutdownDone \/ Kill
  BY <1>3 DEF Boot, CloseInterrupted, Shutdown, ShutdownDone, Kill
<1>4. CASE Started
  BY <1>4 DEF Started, Interrupted, Without, Active
<1>5. ASSUME NEW k \in Keys \cup {NoKey}, Enqueue(k) PROVE \E w \in Workers : Holds(w, t)'
  <2>1. status[t] \in Active /\ lock = Nobody
    BY <1>5 DEF Enqueue
  <2> QED BY <1>2, <1>5, <2>1 DEF Enqueue
<1>6. ASSUME NEW u \in Tasks, CancelTask(u) \/ DeleteTask(u) PROVE \E w \in Workers : Holds(w, t)'
  BY <1>2, <1>6, KnownFacts DEF CancelTask, DeleteTask, Active
<1>7. CASE Enqueued
  <2>1. target \in Tasks /\ Queued' = Queued \cup {target}
    BY <1>7, KnownFacts, QueuePut DEF Enqueued, Known, PlaceInv
  <2> QED BY <1>1, <1>7, <2>1 DEF Enqueued, Holds
<1>8. CASE EnqueueFails
  BY <1>1, <1>8, QueueSame DEF EnqueueFails, Holds
<1>9. CASE CancelSaved \/ CancelFails \/ (\E u \in Tasks : DeleteRow(u)) \/ UNCHANGED vars
  BY <1>2, <1>9 DEF CancelSaved, CancelFails, DeleteRow, vars
<1>10. ASSUME NEW w \in Workers, Get(w) PROVE \E v \in Workers : Holds(v, t)'
  <2>1. Queued = Queued' \cup {Head(queue)}
    BY <1>10, QueueGet DEF Get, Known, PlaceInv
  <2>2. pc'[w] = "look" /\ cur'[w] = Head(queue) /\ \A v \in Workers \ {w} : pc'[v] = pc[v] /\ cur'[v] = cur[v]
    BY <1>10, KnownFacts DEF Get, Move
  <2>3. UNCHANGED <<phase, status, unsaved, lock, target>> /\ ~Holds(w, t)
    BY <1>10 DEF Get, Holds
  <2> QED BY <1>1, <2>1, <2>2, <2>3 DEF Holds
<1>11. ASSUME NEW w \in Workers, Loop(w) \/ Progress(w) \/ Coroutine(w), UNCHANGED <<queue, cur>>,
              status[t] \in Active \/ Holds(w, t), Holds(w, t) => Holds(w, t)'
       PROVE  \E v \in Workers : Holds(v, t)'
  <2>1. /\ UNCHANGED <<phase, target>> /\ unsaved \subseteq unsaved'
        /\ \A v \in Workers \ {w} : pc'[v] = pc[v]
        /\ lock = "enqueue" => UNCHANGED lock
    BY <1>11, KnownFacts DEF Loop, Get, Look, Update, Written, WriteFails, Prune, EraseRow, Erased, Progress, Coroutine,
                             Returns, Raises, Move
  <2> QED BY <1>1, <1>11, <2>1, QueueSame DEF Holds
<1>12. ASSUME NEW w \in Workers, Look(w) \/ Progress(w) \/ Coroutine(w) \/ Written(w) \/ WriteFails(w) \/ Erased(w)
                                 \/ \E u \in Tasks : EraseRow(w, u)
       PROVE  \E v \in Workers : Holds(v, t)'
  <2>1. UNCHANGED <<status, queue, cur>>
    BY <1>12 DEF Look, Progress, Coroutine, Returns, Raises, Written, WriteFails, Erased, EraseRow
  <2>2. Holds(w, t) => Holds(w, t)'
    BY <1>12, <2>1, KnownFacts
       DEF Look, Progress, Coroutine, Returns, Raises, Written, WriteFails, Erased, EraseRow, Move, Holds, AfterUpdate,
           AfterFailure
  <2> QED BY <1>11, <1>12, <2>1, <2>2 DEF Loop
<1>13. ASSUME NEW w \in Workers, Update(w) PROVE \E v \in Workers : Holds(v, t)'
  <2>1. UNCHANGED <<queue, cur>> /\ pc[w] \in Updating /\ pc'[w] \in {pc[w], "run", "prune"}
    BY <1>13, KnownFacts DEF Update, Move, AfterUpdate
  <2>2. Holds(w, t) => Holds(w, t)'
    BY <2>1 DEF Holds
  <2>3. status[t] \in Active \/ Holds(w, t)
    <3>1. CASE cur[w] = t
      BY <2>1, <3>1 DEF Holds, Updating
    <3>2. CASE cur[w] # t
      BY <1>13, <3>2, KnownFacts DEF Update
    <3> QED BY <3>1, <3>2
  <2> QED BY <1>11, <1>13, <2>1, <2>2, <2>3 DEF Loop
<1>14. ASSUME NEW w \in Workers, Prune(w) PROVE \E v \in Workers : Holds(v, t)'
  <2>1. status[t] \in Active /\ UNCHANGED <<phase, lock, target, queue, unsaved>> /\ phase = "up" /\ lock = Nobody
    BY <1>14 DEF Prune, Without, Active
  <2>2. \A v \in Workers \ {w} : pc'[v] = pc[v] /\ cur'[v] = cur[v]
    BY <1>14, KnownFacts DEF Prune, Move
  <2>3. ~Holds(w, t)
    BY <1>14, <2>1 DEF Prune, StatusInv, LoopOK, Holds
  <2> QED BY <1>1, <2>1, <2>2, <2>3, QueueSame DEF Holds
<1> QED BY <1>3, <1>4, <1>5, <1>6, <1>7, <1>8, <1>9, <1>10, <1>12, <1>13, <1>14
        DEF Next, Lifecycle, Api, Rest, Loop

\* While the service is up every unfinished task waits in the queue, is in the hands
\* of a loop or of the call that enqueues it, unless a write of its row has failed.
THEOREM NothingForgotten == Spec => []NoneForgotten
<1>1. Init => Known /\ StatusInv /\ NoneForgotten
  BY TypeInit, PointInit, PlaceInit, PhaseInit, StatusInit, ForgetInit DEF Known
<1>2. Known /\ StatusInv /\ NoneForgotten /\ [Next]_vars => (Known /\ StatusInv /\ NoneForgotten)'
  BY TypeStep, PointStep, PlaceStep, PhaseStep, StatusStep, ForgetStep DEF Known
<1> QED BY <1>1, <1>2, PTL DEF Spec

\* A coroutine that is about to succeed was not cancelled before it returned.
SuccessInv ==
  /\ CancelObeyed
  /\ \A w \in Workers : pc[w] = "succeed" /\ asked[cur[w]] => cur[w] \in late

LEMMA SuccessInit == Init => SuccessInv
BY DEF Init, SuccessInv, CancelObeyed

LEMMA SuccessStep == Known /\ StatusInv /\ SuccessInv /\ [Next]_vars => SuccessInv'
<1> SUFFICES ASSUME Known, StatusInv, SuccessInv, [Next]_vars PROVE SuccessInv'
  OBVIOUS
<1> USE LockNames DEF process, memory, loops, history, Callers, Free
<1>1. ASSUME UNCHANGED <<asked, late>>, \A t \in Tasks : status'[t] = "success" => status[t] = "success",
             \A w \in Workers : pc'[w] = "succeed" => pc[w] = "succeed" /\ cur'[w] = cur[w]
      PROVE  SuccessInv'
  BY <1>1 DEF SuccessInv, CancelObeyed
<1>2. CASE Boot \/ (\E t \in Tasks : CloseInterrupted(t)) \/ Rest \/ UNCHANGED vars
  BY <1>1, <1>2 DEF Boot, CloseInterrupted, Rest, Enqueued, EnqueueFails, CancelSaved, CancelFails, DeleteRow, vars
<1>3. CASE Started
  BY <1>3 DEF Started, Known, PhaseInv, SuccessInv, CancelObeyed
<1>4. CASE Shutdown
  BY <1>1, <1>4, KnownFacts DEF Shutdown, AfterCancel
<1>5. CASE ShutdownDone \/ Kill
  BY <1>5 DEF ShutdownDone, Kill, Blank, SuccessInv, CancelObeyed
<1>6. ASSUME NEW k \in Keys \cup {NoKey}, Enqueue(k) PROVE SuccessInv'
  BY <1>1, <1>6, KnownFacts DEF Enqueue
<1>7. ASSUME NEW t \in Tasks, CancelTask(t) PROVE SuccessInv'
  <2>1. status[t] # "success" /\ UNCHANGED <<status, pc, cur>> /\ late \subseteq late'
        /\ asked' = [asked EXCEPT ![t] = TRUE]
        /\ \A w \in Workers : cur[w] = t /\ pc[w] = "succeed" => t \in late'
    BY <1>7 DEF CancelTask, Active
  <2>2. \A u \in Tasks \ {t} : asked'[u] = asked[u]
    BY <2>1, KnownFacts
  <2>3. \A w \in Workers : pc[w] = "succeed" => cur[w] \in Tasks
    BY KnownFacts DEF Holding, Updating
  <2> QED BY <2>1, <2>2, <2>3 DEF SuccessInv, CancelObeyed
<1>8. ASSUME NEW t \in Tasks, DeleteTask(t) PROVE SuccessInv'
  BY <1>1, <1>8, KnownFacts DEF DeleteTask
<1>9. ASSUME NEW w \in Workers, Update(w) PROVE SuccessInv'
  <2>1. cur[w] \in Tasks /\ pc[w] \in Updating /\ UNCHANGED <<asked, late, cur>>
    BY <1>9, KnownFacts DEF Update, Holding
  <2>2. \A v \in Workers : pc'[v] = "succeed" => pc[v] = "succeed"
    BY <1>9, KnownFacts DEF Update, Move, AfterUpdate
  <2>3. \A t \in Tasks : status'[t] = "success" => status[t] = "success" \/ (t = cur[w] /\ pc[w] = "succeed")
    BY <1>9, <2>1, KnownFacts DEF Update, Verdict
  <2> QED BY <2>1, <2>2, <2>3 DEF SuccessInv, CancelObeyed
<1>10. ASSUME NEW w \in Workers, Returns(w) PROVE SuccessInv'
  <2>1. UNCHANGED <<asked, late, cur, status>> /\ \A v \in Workers \ {w} : pc'[v] = pc[v]
    BY <1>10, KnownFacts DEF Returns, Move
  <2>2. pc'[w] = "succeed" => ~asked[cur[w]]
    BY <1>10, KnownFacts DEF Returns, Move
  <2> QED BY <2>1, <2>2 DEF SuccessInv, CancelObeyed
<1>11. ASSUME NEW w \in Workers, Prune(w) PROVE SuccessInv'
  BY <1>1, <1>11, KnownFacts DEF Prune, Move, Without
<1>12. ASSUME NEW w \in Workers, Get(w) \/ Look(w) \/ Written(w) \/ WriteFails(w) \/ Erased(w) \/ Progress(w)
                                 \/ Raises(w) \/ \E t \in Tasks : EraseRow(w, t)
       PROVE  SuccessInv'
  <2>1. UNCHANGED <<asked, late, status>> /\ \A v \in Workers \ {w} : pc'[v] = pc[v] /\ cur'[v] = cur[v]
    BY <1>12, KnownFacts DEF Get, Look, Written, WriteFails, Erased, Progress, Raises, EraseRow, Move
  <2>2. pc'[w] # "succeed" \/ (pc'[w] = pc[w] /\ cur'[w] = cur[w])
    BY <1>12, KnownFacts DEF Get, Look, Written, WriteFails, Erased, Progress, Raises, EraseRow, Move, AfterUpdate,
                             AfterFailure
  <2> QED BY <1>1, <2>1, <2>2
<1> QED BY <1>2, <1>3, <1>4, <1>5, <1>6, <1>7, <1>8, <1>9, <1>10, <1>11, <1>12
        DEF Next, Lifecycle, Api, Loop, Coroutine

\* A task that was cancelled before its coroutine returned never becomes a success.
THEOREM CancelsAreObeyed == Spec => []CancelObeyed
<1>1. Init => Known /\ StatusInv /\ SuccessInv
  BY TypeInit, PointInit, PlaceInit, PhaseInit, StatusInit, SuccessInit DEF Known
<1>2. Known /\ StatusInv /\ SuccessInv /\ [Next]_vars => (Known /\ StatusInv /\ SuccessInv)'
  BY TypeStep, PointStep, PlaceStep, PhaseStep, StatusStep, SuccessStep DEF Known
<1>3. SuccessInv => CancelObeyed
  BY DEF SuccessInv
<1> QED BY <1>1, <1>2, <1>3, PTL DEF Spec

LEMMA SettledStep ==
  ASSUME Known, StatusInv, [Next]_vars, NEW t \in Tasks, status[t] \in Terminal
  PROVE  status'[t] \in {status[t], "absent"} \/ t \in unsaved
<1> USE LockNames DEF process, memory, loops, history, Callers, Free
<1>1. CASE UNCHANGED status
  BY <1>1
<1>2. CASE Started
  BY <1>2 DEF Started, Known, PhaseInv, Terminal
<1>3. CASE ShutdownDone \/ Kill
  BY <1>3 DEF ShutdownDone, Kill, Blank
<1>4. ASSUME NEW k \in Keys \cup {NoKey}, Enqueue(k) PROVE status'[t] = status[t]
  <2>1. t <= created
    BY DEF StatusInv, Terminal
  <2>2. t # created + 1
    BY <2>1, KnownFacts DEF Tasks
  <2> QED BY <1>4, <2>2, KnownFacts DEF Enqueue
<1>5. ASSUME NEW u \in Tasks, DeleteTask(u) PROVE status'[t] \in {status[t], "absent"}
  BY <1>5, KnownFacts DEF DeleteTask
<1>6. ASSUME NEW w \in Workers, Update(w) PROVE status'[t] = status[t] \/ t \in unsaved
  <2>1. LoopOK(w) /\ pc[w] \in Updating /\ lock # w
    BY <1>6 DEF StatusInv, Update
  <2>2. CASE cur[w] = t
    BY <1>6, <2>1, <2>2 DEF Update, LoopOK, Updating, Ends, Active, Terminal
  <2>3. CASE cur[w] # t
    BY <1>6, <2>3, KnownFacts DEF Update
  <2> QED BY <2>2, <2>3
<1>7. ASSUME NEW w \in Workers, Prune(w) PROVE status'[t] \in {status[t], "absent"}
  BY <1>7 DEF Prune, Without
<1>8. ASSUME NEW w \in Workers, Loop(w), ~Update(w), ~Prune(w) PROVE UNCHANGED status
  BY <1>8 DEF Loop, Get, Look, Written, WriteFails, EraseRow, Erased
<1>9. ASSUME NEW w \in Workers, Progress(w) \/ Coroutine(w) PROVE UNCHANGED status
  BY <1>9 DEF Progress, Coroutine, Returns, Raises
<1>10. CASE Boot \/ (\E u \in Tasks : CloseInterrupted(u) \/ CancelTask(u)) \/ Shutdown \/ Rest \/ UNCHANGED vars
  BY <1>1, <1>10 DEF Boot, CloseInterrupted, CancelTask, Shutdown, Rest, Enqueued, EnqueueFails, CancelSaved,
                     CancelFails, DeleteRow, vars
<1> QED BY <1>1, <1>2, <1>3, <1>4, <1>5, <1>6, <1>7, <1>8, <1>9, <1>10 DEF Next, Lifecycle, Api

\* No step gives a settled task another status, but for one whose settled row could
\* not be written.
THEOREM SettledForGood == Spec => SettledOnce
<1>1. Init => Known /\ StatusInv
  BY TypeInit, PointInit, PlaceInit, PhaseInit, StatusInit DEF Known
<1>2. Known /\ StatusInv /\ [Next]_vars => (Known /\ StatusInv)'
  BY TypeStep, PointStep, PlaceStep, PhaseStep, StatusStep DEF Known
<1>3. Known /\ StatusInv /\ [Next]_vars
        => [\A t \in Tasks : status[t] \in Terminal => status'[t] \in {status[t], "absent"} \/ t \in unsaved]_vars
  BY SettledStep
<1> QED BY <1>1, <1>2, <1>3, PTL DEF Spec, SettledOnce

-----------------------------------------------------------------------------
(* Memory and table *)

\* A row waits for its deletion when its task is out of the memory for good.
EraseInv ==
  /\ \A w \in Workers : pc[w] # "erase" => erase[w] = {}
  /\ \A t \in Tasks : t \in deleting \/ (\E w \in Workers : t \in erase[w]) => status[t] = "absent" /\ t <= created

\* The holder of the lock is about to write the row of t.
InWriting(t) == (lock = "enqueue" /\ target = t) \/ \E w \in Workers : lock = w /\ cur[w] = t

Waiting(t) == t \in deleting \/ \E w \in Workers : t \in erase[w]

Agrees(t) == IF status[t] # "absent" THEN row[t] = status[t] ELSE row[t] # "absent" => Waiting(t)

RowInv == phase = "up" => \A t \in Tasks \ unsaved : InWriting(t) \/ Agrees(t)

LEMMA EraseInit == Init => EraseInv /\ RowInv
BY DEF Init, EraseInv, RowInv

LEMMA EraseStep == Known /\ StatusInv /\ EraseInv /\ [Next]_vars => EraseInv'
<1> SUFFICES ASSUME Known, StatusInv, EraseInv, [Next]_vars PROVE EraseInv'
  OBVIOUS
<1> USE LockNames DEF process, memory, loops, history, Callers, Free
<1>1. ASSUME \A w \in Workers : pc'[w] # "erase" => pc[w] # "erase" \/ erase'[w] = {},
             \A w \in Workers : erase'[w] \subseteq erase[w], deleting' \subseteq deleting, UNCHANGED created,
             \A t \in Tasks : status[t] = "absent" => status'[t] = "absent"
      PROVE  EraseInv'
  BY <1>1 DEF EraseInv
<1>2. CASE Boot \/ (\E t \in Tasks : CloseInterrupted(t)) \/ Rest \/ UNCHANGED vars
  BY <1>1, <1>2 DEF Boot, CloseInterrupted, Rest, Enqueued, EnqueueFails, CancelSaved, CancelFails, DeleteRow, vars
<1>3. CASE Started
  BY <1>3 DEF Started, Known, PhaseInv, EraseInv
<1>4. CASE Shutdown
  BY <1>1, <1>4 DEF Shutdown
<1>5. CASE ShutdownDone \/ Kill
  BY <1>5 DEF ShutdownDone, Kill, Blank, EraseInv
<1>6. ASSUME NEW k \in Keys \cup {NoKey}, Enqueue(k) PROVE EraseInv'
  <2>1. UNCHANGED <<pc, erase, deleting>> /\ created' = created + 1 /\ created \in Nat
        /\ status' = [status EXCEPT ![created + 1] = "pending"]
    BY <1>6, KnownFacts DEF Enqueue
  <2>2. \A t \in Tasks : t <= created => t <= created' /\ status'[t] = status[t]
    BY <2>1, KnownFacts DEF Tasks
  <2> QED BY <2>1, <2>2 DEF EraseInv
<1>7. ASSUME NEW t \in Tasks, CancelTask(t) PROVE EraseInv'
  BY <1>1, <1>7 DEF CancelTask
<1>8. ASSUME NEW t \in Tasks, DeleteTask(t) PROVE EraseInv'
  <2>1. UNCHANGED <<pc, erase, created>> /\ deleting' = deleting \cup {t} /\ status'[t] = "absent"
        /\ \A u \in Tasks \ {t} : status'[u] = status[u]
    BY <1>8, KnownFacts DEF DeleteTask
  <2>2. t <= created
    BY <1>8 DEF DeleteTask, StatusInv
  <2> QED BY <2>1, <2>2 DEF EraseInv
<1>9. ASSUME NEW w \in Workers, Update(w) PROVE EraseInv'
  <2>1. UNCHANGED <<erase, deleting, created>> /\ pc[w] # "erase" /\ \A v \in Workers \ {w} : pc'[v] = pc[v]
    BY <1>9, KnownFacts DEF Update, Move, Updating
  <2>2. \A t \in Tasks : status[t] = "absent" => status'[t] = "absent"
    BY <1>9, KnownFacts DEF Update
  <2> QED BY <1>1, <2>1, <2>2
<1>10. ASSUME NEW w \in Workers, Prune(w) PROVE EraseInv'
  <2>1. UNCHANGED <<deleting, created>> /\ pc'[w] = "erase" /\ erase'[w] = Stale(status)
        /\ status' = Without(status, Stale(status))
        /\ \A v \in Workers \ {w} : pc'[v] = pc[v] /\ erase'[v] = erase[v]
    BY <1>10, KnownFacts DEF Prune, Move
  <2>2. \A t \in Stale(status) : status[t] \in Terminal /\ t \in Tasks
    BY DEF Stale
  <2>3. \A t \in Stale(status) : t <= created
    BY <2>2 DEF StatusInv, Terminal
  <2> QED BY <2>1, <2>3 DEF EraseInv, Without
<1>11. ASSUME NEW w \in Workers, Get(w) \/ Look(w) \/ Written(w) \/ WriteFails(w) \/ Progress(w) \/ Returns(w) \/ Raises(w)
       PROVE  EraseInv'
  <2>1. UNCHANGED <<erase, deleting, created, status>> /\ pc[w] # "erase" /\ \A v \in Workers \ {w} : pc'[v] = pc[v]
    BY <1>11, KnownFacts DEF Get, Look, Written, WriteFails, Progress, Returns, Raises, Move, Updating
  <2> QED BY <1>1, <2>1
<1>12. ASSUME NEW w \in Workers, Erased(w) PROVE EraseInv'
  BY <1>1, <1>12, KnownFacts DEF Erased, Move
<1>13. ASSUME NEW w \in Workers, NEW t \in Tasks, EraseRow(w, t) PROVE EraseInv'
  BY <1>1, <1>13, KnownFacts DEF EraseRow
<1> QED BY <1>2, <1>3, <1>4, <1>5, <1>6, <1>7, <1>8, <1>9, <1>10, <1>11, <1>12, <1>13
        DEF Next, Lifecycle, Api, Loop, Coroutine

LEMMA RowStep == Known /\ StatusInv /\ EraseInv /\ RowInv /\ [Next]_vars => RowInv'
<1> SUFFICES ASSUME Known, StatusInv, EraseInv, RowInv, [Next]_vars, phase' = "up",
                    NEW t \in Tasks, t \notin unsaved', ~InWriting(t)'
             PROVE  Agrees(t)'
  BY DEF RowInv
<1> USE LockNames DEF process, memory, loops, history, Callers, Free
<1>r. phase = "up" /\ t \notin unsaved => InWriting(t) \/ Agrees(t)
  BY DEF RowInv
<1>1. ASSUME phase = "up", unsaved \subseteq unsaved', ~InWriting(t), row'[t] = row[t], status'[t] = status[t],
             Waiting(t) => Waiting(t)'
      PROVE  Agrees(t)'
  BY <1>r, <1>1 DEF Agrees
<1>2. CASE Boot \/ (\E u \in Tasks : CloseInterrupted(u)) \/ Shutdown \/ ShutdownDone \/ Kill
  BY <1>2 DEF Boot, CloseInterrupted, Shutdown, ShutdownDone, Kill
<1>3. CASE Started
  BY <1>3 DEF Started, Agrees
<1>4. ASSUME NEW k \in Keys \cup {NoKey}, Enqueue(k) PROVE Agrees(t)'
  <2>1. t # created + 1 /\ ~InWriting(t)
    BY <1>4 DEF Enqueue, InWriting
  <2>2. status'[t] = status[t] /\ row'[t] = row[t] /\ UNCHANGED <<deleting, erase, unsaved>>
    BY <1>4, <2>1, KnownFacts DEF Enqueue
  <2> QED BY <1>1, <1>4, <2>1, <2>2 DEF Enqueue, Waiting
<1>5. ASSUME NEW u \in Tasks, CancelTask(u) PROVE Agrees(t)'
  BY <1>1, <1>5 DEF CancelTask, InWriting, Waiting
<1>6. ASSUME NEW u \in Tasks, DeleteTask(u) PROVE Agrees(t)'
  <2>1. CASE u = t
    BY <1>6, <2>1, KnownFacts DEF DeleteTask, Agrees, Waiting
  <2>2. CASE u # t
    BY <1>1, <1>6, <2>2 DEF DeleteTask, InWriting, Waiting
  <2> QED BY <2>1, <2>2
<1>7. CASE Enqueued \/ CancelSaved
  <2>1. CASE t = target
    <3>1. status'[t] = status[t] /\ row'[t] = status[t] /\ status[t] # "absent"
      BY <1>7, <2>1, KnownFacts DEF Enqueued, CancelSaved, StatusInv, CallOK, Active
    <3> QED BY <3>1 DEF Agrees
  <2>2. CASE t # target
    BY <1>1, <1>7, <2>2, KnownFacts DEF Enqueued, CancelSaved, InWriting, Waiting
  <2> QED BY <2>1, <2>2
<1>8. CASE EnqueueFails \/ CancelFails
  BY <1>1, <1>8 DEF EnqueueFails, CancelFails, InWriting, Waiting
<1>9. ASSUME NEW u \in Tasks, DeleteRow(u) PROVE Agrees(t)'
  <2>1. CASE u = t /\ row' = [row EXCEPT ![t] = "absent"]
    <3>1. status'[t] = "absent" /\ row'[t] = "absent"
      BY <1>9, <2>1, KnownFacts DEF DeleteRow, EraseInv
    <3> QED BY <3>1 DEF Agrees
  <2>2. CASE u # t
    BY <1>1, <1>9, <2>2, KnownFacts DEF DeleteRow, InWriting, Waiting
  <2> QED BY <1>9, <2>1, <2>2 DEF DeleteRow
<1>10. ASSUME NEW w \in Workers, Update(w) PROVE Agrees(t)'
  <2>1. ~InWriting(t) /\ UNCHANGED <<row, deleting, erase, unsaved, phase>>
    BY <1>10 DEF Update, InWriting
  <2>2. status'[t] = status[t]
    BY <1>10, KnownFacts DEF Update, InWriting
  <2> QED BY <1>1, <1>10, <2>1, <2>2 DEF Update, Waiting
<1>11. ASSUME NEW w \in Workers, Progress(w) PROVE Agrees(t)'
  BY <1>1, <1>11 DEF Progress, InWriting, Waiting
<1>12. ASSUME NEW w \in Workers, Written(w) PROVE Agrees(t)'
  <2>1. CASE t = cur[w]
    <3>1. LoopOK(w)
      BY DEF StatusInv
    <3>2. status[t] # "absent"
      BY <1>12, <2>1, <3>1, KnownFacts DEF Written, LoopOK, Verdict
    <3> QED BY <1>12, <2>1, <3>2, KnownFacts DEF Written, Agrees
  <2>2. CASE t # cur[w]
    BY <1>1, <1>12, <2>2, KnownFacts DEF Written, InWriting, Waiting
  <2> QED BY <2>1, <2>2
<1>13. ASSUME NEW w \in Workers, WriteFails(w) PROVE Agrees(t)'
  BY <1>1, <1>13, KnownFacts DEF WriteFails, InWriting, Waiting
<1>14. ASSUME NEW w \in Workers, Prune(w) PROVE Agrees(t)'
  <2>1. CASE t \in Stale(status)
    BY <1>14, <2>1, KnownFacts DEF Prune, Without, Agrees, Waiting
  <2>2. CASE t \notin Stale(status)
    <3>1. erase[w] = {}
      BY <1>14 DEF Prune, EraseInv
    <3>2. Waiting(t) => Waiting(t)'
      BY <1>14, <3>1, KnownFacts DEF Prune, Waiting
    <3> QED BY <1>1, <1>14, <2>2, <3>2 DEF Prune, Without, InWriting
  <2> QED BY <2>1, <2>2
<1>15. ASSUME NEW w \in Workers, NEW u \in Tasks, EraseRow(w, u) PROVE Agrees(t)'
  <2>1. CASE u = t /\ row' = [row EXCEPT ![t] = "absent"]
    <3>1. status'[t] = "absent" /\ row'[t] = "absent"
      BY <1>15, <2>1, KnownFacts DEF EraseRow, EraseInv
    <3> QED BY <3>1 DEF Agrees
  <2>2. CASE ~(u = t /\ row' = [row EXCEPT ![t] = "absent"])
    <3>1. row'[t] = row[t] /\ status' = status /\ UNCHANGED <<lock, target, cur, phase, deleting>> /\ unsaved \subseteq unsaved'
      BY <1>15, <2>2, KnownFacts DEF EraseRow
    <3>2. Waiting(t) => Waiting(t)'
      BY <1>15, <2>2, KnownFacts DEF EraseRow, Waiting
    <3> QED BY <1>1, <3>1, <3>2 DEF InWriting
  <2> QED BY <2>1, <2>2
<1>16. ASSUME NEW w \in Workers, Get(w) PROVE Agrees(t)'
  <2>1. ~InWriting(t)
    <3>1. \A v \in Workers : lock = v => v # w
      BY <1>16, KnownFacts DEF Get, Updating
    <3> QED BY <1>16, <3>1, KnownFacts DEF Get, InWriting
  <2> QED BY <1>1, <1>16, <2>1 DEF Get, Waiting
<1>17. ASSUME NEW w \in Workers, Look(w) \/ Erased(w) \/ Returns(w) \/ Raises(w) PROVE Agrees(t)'
  BY <1>1, <1>17 DEF Look, Erased, Returns, Raises, InWriting, Waiting
<1>18. CASE UNCHANGED vars
  BY <1>1, <1>18 DEF vars, InWriting, Waiting
<1> QED BY <1>2, <1>3, <1>4, <1>5, <1>6, <1>7, <1>8, <1>9, <1>10, <1>11, <1>12, <1>13, <1>14, <1>15, <1>16, <1>17, <1>18
        DEF Next, Lifecycle, Api, Rest, Loop, Coroutine

\* Whenever nobody is inside the lock, memory and table say the same of every task
\* whose writes and deletions have not failed.
THEOREM TableAgrees == Spec => []RowAgrees
<1>1. Init => Known /\ StatusInv /\ EraseInv /\ RowInv
  BY TypeInit, PointInit, PlaceInit, PhaseInit, StatusInit, EraseInit DEF Known
<1>2. Known /\ StatusInv /\ EraseInv /\ RowInv /\ [Next]_vars => (Known /\ StatusInv /\ EraseInv /\ RowInv)'
  BY TypeStep, PointStep, PlaceStep, PhaseStep, StatusStep, EraseStep, RowStep DEF Known
<1>3. RowInv => RowAgrees
  BY LockNames DEF RowInv, RowAgrees, Agrees, Waiting, InWriting, Free, Callers
<1> QED BY <1>1, <1>2, <1>3, PTL DEF Spec

-----------------------------------------------------------------------------
(* Memory and table, across restarts *)

\* What the row of a task can be, even if writes of it have failed: it never runs
\* ahead of the memory, and is never settled another way.
RecOK(t) ==
  /\ status[t] = "pending" => row[t] \in {"absent", "pending"}
  /\ status[t] = "running" => row[t] \in Active
  /\ status[t] \in Terminal => row[t] \in Active \cup {status[t]}
  /\ t \in Queued => row[t] \in {"pending", "absent"} /\ (status[t] # "absent" => row[t] = "pending")

Early == {"look", "begin"}

HeldOK(w) ==
  /\ pc[w] \in Early => row[cur[w]] \in {"pending", "absent"}
  /\ pc[w] \in Early \cup {"run"} \cup Ends /\ status[cur[w]] # "absent" => row[cur[w]] \in Active

RecordInv == (\A t \in Tasks : RecOK(t)) /\ \A w \in Workers : HeldOK(w)

LEMMA RecordInit == Init => RecordInv
BY QueueEmpty DEF Init, RecordInv, RecOK, HeldOK, Early, Ends, Terminal

\* A step leaves the row and the status of a task as they are, or takes something away.
Fades(t) == \/ row'[t] = row[t] /\ status'[t] \in {status[t], "absent"}
            \/ row'[t] = "absent" /\ status'[t] = "absent"

LEMMA RecFrame ==
  ASSUME NEW t \in Tasks, RecOK(t), Fades(t), t \in Queued' => t \in Queued
  PROVE  RecOK(t)'
BY DEF RecOK, Fades, Terminal

LEMMA HeldFrame ==
  ASSUME NEW w \in Workers, HeldOK(w), pc'[w] \in Early => pc[w] \in Early,
         pc'[w] \in {"run"} \cup Ends => pc[w] \in Early \cup {"run"} \cup Ends,
         pc[w] \in Early \cup {"run"} \cup Ends => cur'[w] = cur[w] /\ Fades(cur[w])
  PROVE  HeldOK(w)'
BY DEF HeldOK, Fades

LEMMA RecordStep == Known /\ StatusInv /\ EraseInv /\ RecordInv /\ [Next]_vars => RecordInv'
<1> SUFFICES ASSUME Known, StatusInv, EraseInv, RecordInv, [Next]_vars PROVE RecordInv'
  OBVIOUS
<1> USE LockNames DEF process, memory, loops, history, Callers, Free
<1>r. (\A t \in Tasks : RecOK(t)) /\ \A w \in Workers : HeldOK(w) /\ LoopOK(w)
  BY DEF RecordInv, StatusInv
<1>h. Holding = Early \cup {"run", "prune"} \cup Ends /\ Updating = {"begin"} \cup Ends
  BY DEF Holding, Updating, Ends, Early
<1>f. ASSUME Queued' \subseteq Queued, \A t \in Tasks : Fades(t), UNCHANGED cur,
             \A w \in Workers : \/ pc'[w] = pc[w]
                                \/ pc[w] \in Holding /\ pc'[w] \notin Early \cup {"run"} \cup Ends
                                \/ pc[w] \in {"look", "run"} \cup Ends /\ pc'[w] \in {"mark", "succeed", "obey", "fail"}
                                \/ pc[w] = "look" /\ pc'[w] = "begin"
                                \/ pc[w] = "begin" /\ pc'[w] = "run"
                                \/ pc'[w] \in {"gone", "get"}
      PROVE  RecordInv'
  <2>1. \A t \in Tasks : RecOK(t)'
    BY <1>r, <1>f, RecFrame
  <2>2. ASSUME NEW w \in Workers PROVE HeldOK(w)'
    <3>1. pc[w] \in Holding => Fades(cur[w])
      BY <1>f, KnownFacts
    <3>2. pc'[w] \in Early => pc[w] \in Early
      BY <1>f DEF Early, Ends
    <3>3. pc'[w] \in {"run"} \cup Ends => pc[w] \in Early \cup {"run"} \cup Ends
      BY <1>f DEF Early, Ends
    <3> QED BY <1>r, <1>f, <1>h, <3>1, <3>2, <3>3, HeldFrame
  <2> QED BY <2>1, <2>2 DEF RecordInv
<1>1. CASE Boot
  BY <1>1, <1>f, QueueSame DEF Boot, Fades
<1>2. ASSUME NEW t \in Tasks, CloseInterrupted(t) PROVE RecordInv'
  <2>1. \A u \in Tasks : status'[u] = "absent"
    BY <1>2 DEF CloseInterrupted, Known, PhaseInv
  <2>2. Queued' = {} /\ \A w \in Workers : pc'[w] = "gone"
    BY <1>2 DEF CloseInterrupted, Known, PhaseInv, Queued
  <2> QED BY <2>1, <2>2 DEF RecordInv, RecOK, HeldOK, Early, Ends, Terminal
<1>3. CASE Started
  <2>1. status' = row' /\ Queued' = {} /\ \A w \in Workers : pc'[w] = "get"
    BY <1>3 DEF Started, Known, PhaseInv, Queued
  <2>2. \A t \in Tasks : row'[t] \notin Active
    BY <1>3, KnownFacts DEF Started, Without, Interrupted, Active
  <2> QED BY <2>1, <2>2 DEF RecordInv, RecOK, HeldOK, Early, Ends, Terminal, Active
<1>4. CASE Shutdown
  <2>1. \A w \in Workers : pc'[w] = AfterCancel(pc[w]) /\ pc[w] \in Pcs \ {"gone"}
    BY <1>4, KnownFacts DEF Shutdown, Known, PointInv
  <2>2. ASSUME NEW w \in Workers
        PROVE  \/ pc'[w] = "gone"
               \/ pc[w] \in {"run"} \cup Ends /\ pc'[w] = "mark"
               \/ pc[w] \in Holding /\ pc'[w] = "prune"
    BY <2>1 DEF AfterCancel, Pcs, Holding, Updating, Early, Ends
  <2>3. \A t \in Tasks : Fades(t)
    BY <1>4 DEF Shutdown, Fades
  <2> QED BY <1>4, <1>f, <2>2, <2>3, QueueSame DEF Shutdown, Early, Ends
<1>5. CASE ShutdownDone \/ Kill
  <2>1. (\A t \in Tasks : status'[t] = "absent") /\ (\A w \in Workers : pc'[w] = "gone") /\ Queued' = {}
    BY <1>5 DEF ShutdownDone, Kill, Blank, Queued
  <2> QED BY <2>1 DEF RecordInv, RecOK, HeldOK, Early, Ends, Terminal
<1>6. ASSUME NEW k \in Keys \cup {NoKey}, Enqueue(k) PROVE RecordInv'
  <2>1. /\ UNCHANGED <<row, queue, pc, cur>> /\ status' = [status EXCEPT ![created + 1] = "pending"]
        /\ created + 1 \in Tasks /\ created \in Nat
    BY <1>6, KnownFacts, ConstantAssumption DEF Enqueue, Tasks, Known, TypeOK
  <2>2. row[created + 1] = "absent" /\ created + 1 \notin Queued
    BY <2>1, KnownFacts DEF StatusInv
  <2>3. \A t \in Tasks \ {created + 1} : Fades(t)
    BY <2>1 DEF Fades
  <2>4. \A t \in Tasks \ {created + 1} : RecOK(t)'
    BY <1>r, <2>1, <2>3, RecFrame, QueueSame
  <2>5. ASSUME NEW t \in Tasks, t = created + 1 PROVE RecOK(t)'
    <3>1. status'[t] = "pending" /\ row'[t] = "absent" /\ t \notin Queued'
      BY <2>1, <2>2, <2>5, KnownFacts, QueueSame
    <3> QED BY <3>1 DEF RecOK, Terminal
  <2>6. \A w \in Workers : pc[w] \in Holding => cur[w] \in Tasks \ {created + 1}
    BY <2>1, KnownFacts
  <2>7. \A w \in Workers : HeldOK(w)'
    BY <1>r, <1>h, <2>1, <2>3, <2>6, HeldFrame
  <2> QED BY <2>4, <2>5, <2>7 DEF RecordInv
<1>7. ASSUME NEW t \in Tasks, CancelTask(t) \/ DeleteTask(t) PROVE RecordInv'
  BY <1>7, <1>f, KnownFacts, QueueSame DEF CancelTask, DeleteTask, Fades
<1>8. CASE EnqueueFails \/ CancelFails \/ UNCHANGED vars
  BY <1>8, <1>f, QueueSame DEF EnqueueFails, CancelFails, vars, Fades
<1>9. CASE Enqueued
  <2>1. /\ UNCHANGED <<status, pc, cur>> /\ target \in Tasks /\ status[target] = "pending"
        /\ row' = [row EXCEPT ![target] = "pending"]
    BY <1>9, KnownFacts DEF Enqueued, StatusInv, CallOK
  <2>2. Queued' = Queued \cup {target}
    BY <1>9, <2>1, QueuePut DEF Enqueued, Known, PlaceInv
  <2>3. \A t \in Tasks \ {target} : Fades(t)
    BY <2>1 DEF Fades
  <2>4. \A t \in Tasks \ {target} : RecOK(t)'
    BY <1>r, <2>2, <2>3, RecFrame
  <2>5. row'[target] = "pending" /\ status'[target] = "pending"
    BY <2>1, KnownFacts
  <2>6. ASSUME NEW t \in Tasks, t = target PROVE RecOK(t)'
    BY <2>5, <2>6 DEF RecOK, Terminal
  <2>7. \A w \in Workers : pc[w] \in Holding => cur[w] \in Tasks \ {target}
    BY <1>9, KnownFacts DEF Enqueued
  <2>8. \A w \in Workers : HeldOK(w)'
    BY <1>r, <1>h, <2>1, <2>3, <2>7, HeldFrame
  <2> QED BY <2>4, <2>6, <2>8 DEF RecordInv
<1>10. CASE CancelSaved
  <2>1. /\ UNCHANGED <<status, pc, cur, queue>> /\ target \in Tasks /\ status[target] \in Active
        /\ row' = [row EXCEPT ![target] = status[target]] /\ \A w \in Workers : lock # w
    BY <1>10, KnownFacts DEF CancelSaved, StatusInv, CallOK
  <2>2. \A t \in Tasks \ {target} : Fades(t)
    BY <2>1 DEF Fades
  <2>3. \A t \in Tasks \ {target} : RecOK(t)'
    BY <1>r, <2>1, <2>2, RecFrame, QueueSame
  <2>4. row'[target] = status[target] /\ status'[target] = status[target]
    BY <2>1, KnownFacts
  <2>5. target \in Queued' => status[target] = "pending"
    BY <2>1, QueueSame DEF StatusInv, Active
  <2>6. ASSUME NEW t \in Tasks, t = target PROVE RecOK(t)'
    BY <2>1, <2>4, <2>5, <2>6 DEF RecOK, Terminal, Active
  <2>7. ASSUME NEW w \in Workers PROVE HeldOK(w)'
    <3>1. CASE pc[w] \in Holding /\ cur[w] # target
      BY <1>r, <1>h, <2>1, <2>2, <3>1, HeldFrame, KnownFacts
    <3>2. CASE cur[w] = target
      <4>1. pc[w] \in Early => status[target] = "pending"
        BY <1>r, <2>1, <3>2 DEF LoopOK, Early, Active
      <4> QED BY <2>1, <2>4, <3>2, <4>1 DEF HeldOK
    <3>3. CASE pc[w] \notin Holding
      BY <1>h, <2>1, <3>3 DEF HeldOK
    <3> QED BY <3>1, <3>2, <3>3
  <2> QED BY <2>3, <2>6, <2>7 DEF RecordInv
<1>11. ASSUME NEW t \in Tasks, DeleteRow(t) PROVE RecordInv'
  <2>1. status[t] = "absent"
    BY <1>11 DEF DeleteRow, EraseInv
  <2>2. \A u \in Tasks : Fades(u)
    BY <1>11, <2>1, KnownFacts DEF DeleteRow, Fades
  <2> QED BY <1>11, <1>f, <2>2, QueueSame DEF DeleteRow
<1>12. ASSUME NEW w \in Workers, Get(w) PROVE RecordInv'
  <2>1. Head(queue) \in Queued /\ Queued = Queued' \cup {Head(queue)} /\ Head(queue) \in Tasks
    BY <1>12, QueueGet DEF Get, Known, PlaceInv
  <2>2. /\ UNCHANGED <<status, row>> /\ pc'[w] = "look" /\ cur'[w] = Head(queue)
        /\ \A v \in Workers \ {w} : pc'[v] = pc[v] /\ cur'[v] = cur[v]
    BY <1>12, KnownFacts DEF Get, Move
  <2>3. \A t \in Tasks : Fades(t)
    BY <2>2 DEF Fades
  <2>4. \A t \in Tasks : RecOK(t)'
    BY <1>r, <2>1, <2>3, RecFrame
  <2>5. HeldOK(w)'
    BY <1>r, <2>1, <2>2 DEF HeldOK, RecOK, Active
  <2>6. \A v \in Workers \ {w} : HeldOK(v)'
    BY <1>r, <1>h, <2>2, <2>3, HeldFrame, KnownFacts
  <2> QED BY <2>4, <2>5, <2>6 DEF RecordInv
<1>13. ASSUME NEW w \in Workers, Look(w) PROVE RecordInv'
  <2>1. UNCHANGED <<status, row, queue, cur>> /\ pc[w] = "look" /\ pc'[w] \in {"prune", "mark", "begin"}
        /\ \A v \in Workers \ {w} : pc'[v] = pc[v]
    BY <1>13, KnownFacts DEF Look, Move
  <2>2. \A v \in Workers : v = w \/ pc'[v] = pc[v]
    BY <2>1
  <2>3. pc[w] \in Holding /\ ("prune" \notin Early \cup {"run"} \cup Ends)
    BY <1>h, <2>1 DEF Early, Ends
  <2>4. \A t \in Tasks : Fades(t)
    BY <2>1 DEF Fades
  <2> QED BY <1>f, <2>1, <2>2, <2>3, <2>4, QueueSame
<1>14. ASSUME NEW w \in Workers, Update(w) PROVE RecordInv'
  <2>1. /\ UNCHANGED <<row, queue, cur>> /\ pc[w] \in {"begin"} \cup Ends /\ cur[w] \in Tasks /\ cur[w] \notin Queued
        /\ \A v \in Workers \ {w} : pc'[v] = pc[v]
    <3>1. UNCHANGED <<row, queue, cur>> /\ pc[w] \in Updating /\ pc[w] \in Holding
      BY <1>14, <1>h DEF Update, Early
    <3>2. \A v \in Workers \ {w} : pc'[v] = pc[v]
      BY <1>14, KnownFacts DEF Update, Move
    <3> QED BY <1>h, <3>1, <3>2, KnownFacts
  <2>2. CASE status[cur[w]] = "absent"
    <3>1. UNCHANGED status /\ pc'[w] = AfterUpdate(pc[w])
      BY <1>14, <2>2, KnownFacts DEF Update, Move
    <3>2. \/ pc[w] = "begin" /\ pc'[w] = "run"
          \/ pc[w] \in Ends /\ pc'[w] = "prune"
      BY <2>1, <3>1 DEF AfterUpdate, Ends
    <3>3. \A t \in Tasks : Fades(t)
      BY <2>1, <3>1 DEF Fades
    <3>4. "prune" \notin Early \cup {"run"} \cup Ends
      BY DEF Early, Ends
    <3> QED BY <1>f, <1>h, <2>1, <3>2, <3>3, <3>4, QueueSame
  <2>3. CASE status[cur[w]] # "absent"
    <3>1. pc' = pc /\ status'[cur[w]] = Verdict(pc[w]) /\ \A t \in Tasks \ {cur[w]} : status'[t] = status[t]
      BY <1>14, <2>1, <2>3, KnownFacts DEF Update
    <3>2. row[cur[w]] \in Active
      BY <1>r, <2>1, <2>3 DEF HeldOK, Early
    <3>3. Verdict(pc[w]) \in Terminal \cup {"running"}
      BY <2>1 DEF Verdict, Ends, Terminal
    <3>4. ASSUME NEW t \in Tasks, t = cur[w] PROVE RecOK(t)'
      BY <2>1, <3>1, <3>2, <3>3, <3>4, QueueSame DEF RecOK, Terminal
    <3>5. \A t \in Tasks \ {cur[w]} : Fades(t)
      BY <2>1, <3>1 DEF Fades
    <3>6. \A t \in Tasks \ {cur[w]} : RecOK(t)'
      BY <1>r, <2>1, <3>5, RecFrame, QueueSame
    <3>7. HeldOK(w)'
      BY <1>r, <2>1, <3>1, <3>2 DEF HeldOK
    <3>8. \A v \in Workers \ {w} : pc[v] \in Holding => cur[v] \in Tasks \ {cur[w]}
      BY <1>h, <2>1, KnownFacts DEF Early
    <3>9. \A v \in Workers \ {w} : HeldOK(v)'
      BY <1>r, <1>h, <2>1, <3>1, <3>5, <3>8, HeldFrame
    <3>10. ASSUME NEW t \in Tasks PROVE RecOK(t)'
      BY <2>1, <3>4, <3>6
    <3> QED BY <3>7, <3>9, <3>10 DEF RecordInv
  <2> QED BY <2>2, <2>3
<1>15. ASSUME NEW w \in Workers, Written(w) PROVE RecordInv'
  <2>1. /\ UNCHANGED <<status, queue, cur>> /\ lock = w /\ row' = [row EXCEPT ![cur[w]] = status[cur[w]]]
        /\ pc[w] \in {"begin", "run"} \cup Ends /\ pc'[w] = AfterUpdate(pc[w]) /\ cur[w] \in Tasks
        /\ cur[w] \notin Queued /\ \A v \in Workers \ {w} : pc'[v] = pc[v]
    <3>1. UNCHANGED <<status, queue, cur>> /\ lock = w /\ row' = [row EXCEPT ![cur[w]] = status[cur[w]]]
      BY <1>15 DEF Written
    <3>2. pc[w] \in Updating \cup {"run"} /\ pc[w] \in Holding
      BY <1>h, <3>1, KnownFacts DEF Early
    <3>3. pc'[w] = AfterUpdate(pc[w]) /\ \A v \in Workers \ {w} : pc'[v] = pc[v]
      BY <1>15, KnownFacts DEF Written, Move
    <3> QED BY <1>h, <3>1, <3>2, <3>3, KnownFacts
  <2>2. status[cur[w]] = IF pc[w] = "run" THEN "running" ELSE Verdict(pc[w])
    BY <1>r, <2>1 DEF LoopOK
  <2>3. row'[cur[w]] = status[cur[w]] /\ \A t \in Tasks \ {cur[w]} : Fades(t)
    BY <2>1, KnownFacts DEF Fades
  <2>4. ASSUME NEW t \in Tasks, t = cur[w] PROVE RecOK(t)'
    BY <2>1, <2>3, <2>4, QueueSame DEF RecOK, Active
  <2>5. \A t \in Tasks \ {cur[w]} : RecOK(t)'
    BY <1>r, <2>1, <2>3, RecFrame, QueueSame
  <2>6. HeldOK(w)'
    BY <2>1, <2>2, <2>3 DEF HeldOK, AfterUpdate, Verdict, Early, Ends, Active
  <2>7. \A v \in Workers \ {w} : pc[v] \in Holding => cur[v] \in Tasks \ {cur[w]}
    BY <1>h, <2>1, KnownFacts DEF Early
  <2>8. \A v \in Workers \ {w} : HeldOK(v)'
    BY <1>r, <1>h, <2>1, <2>3, <2>7, HeldFrame
  <2>9. ASSUME NEW t \in Tasks PROVE RecOK(t)'
    BY <2>1, <2>4, <2>5
  <2> QED BY <2>6, <2>8, <2>9 DEF RecordInv
<1>16. ASSUME NEW w \in Workers, WriteFails(w) \/ Progress(w) \/ Returns(w) \/ Raises(w) PROVE RecordInv'
  <2>1. UNCHANGED <<status, row, queue, cur>> /\ \A v \in Workers \ {w} : pc'[v] = pc[v]
    BY <1>16, KnownFacts DEF WriteFails, Progress, Returns, Raises, Move
  <2>2. pc[w] \in {"begin", "run"} \cup Ends
    BY <1>16, <1>h, KnownFacts DEF WriteFails, Progress, Returns, Raises
  <2>5. pc'[w] = pc[w] \/ pc'[w] = "prune" \/ (pc[w] \in {"run"} \cup Ends /\ pc'[w] \in {"mark", "succeed", "obey", "fail"})
    <3>1. CASE WriteFails(w)
      <4>1. pc'[w] \in AfterFailure(pc[w])
        BY <3>1, KnownFacts DEF WriteFails, Move
      <4> QED BY <2>2, <4>1 DEF AfterFailure, Ends
    <3>2. CASE Progress(w) \/ Returns(w) \/ Raises(w)
      BY <3>2, KnownFacts DEF Progress, Returns, Raises, Move
    <3> QED BY <1>16, <3>1, <3>2
  <2>6. \A t \in Tasks : Fades(t)
    BY <2>1 DEF Fades
  <2>7. pc[w] \in Holding /\ "prune" \notin Early \cup {"run"} \cup Ends
    BY <1>h, <2>2 DEF Early, Ends
  <2> QED BY <1>f, <2>1, <2>5, <2>6, <2>7, QueueSame
<1>17. ASSUME NEW w \in Workers, Prune(w) PROVE RecordInv'
  <2>1. UNCHANGED <<row, queue>> /\ pc'[w] = "erase" /\ \A v \in Workers \ {w} : pc'[v] = pc[v] /\ cur'[v] = cur[v]
    BY <1>17, KnownFacts DEF Prune, Move
  <2>2. \A t \in Tasks : Fades(t)
    BY <1>17 DEF Prune, Without, Fades
  <2>3. \A t \in Tasks : RecOK(t)'
    BY <1>r, <2>1, <2>2, RecFrame, QueueSame
  <2>4. HeldOK(w)'
    BY <2>1 DEF HeldOK, Early, Ends
  <2>5. \A v \in Workers \ {w} : HeldOK(v)'
    BY <1>r, <1>h, <2>1, <2>2, HeldFrame, KnownFacts
  <2> QED BY <2>3, <2>4, <2>5 DEF RecordInv
<1>18. ASSUME NEW w \in Workers, Erased(w) \/ \E t \in Tasks : EraseRow(w, t) PROVE RecordInv'
  <2>1. UNCHANGED <<status, queue, cur>> /\ \A v \in Workers : pc'[v] = pc[v] \/ pc'[v] = "get"
    BY <1>18, KnownFacts DEF Erased, EraseRow, Move
  <2>2. \A t \in Tasks : Fades(t)
    BY <1>18, KnownFacts DEF Erased, EraseRow, EraseInv, Fades
  <2> QED BY <1>f, <2>1, <2>2, QueueSame
<1> QED BY <1>1, <1>2, <1>3, <1>4, <1>5, <1>6, <1>7, <1>8, <1>9, <1>10, <1>11, <1>12, <1>13, <1>14, <1>15, <1>16, <1>17,
           <1>18
        DEF Next, Lifecycle, Api, Rest, Loop, Coroutine

-----------------------------------------------------------------------------
(* The promise about the table *)

RecordsOf == [t \in Tasks |-> RecordOf(t)]
KnownOf   == {t \in Tasks : status[t] # "absent"}
DoingOf   == {t \in Tasks : \E w \in Workers : pc[w] = "run" /\ cur[w] = t}

\* What the table shows of a task changes with its row, and with the last trace of one
\* that has no row.
LEMMA SameRecord ==
  ASSUME NEW t \in Tasks, row'[t] = row[t], created' = created, row[t] = "absent" => (status'[t] = "absent" <=> status[t] = "absent")
  PROVE  RecordOf(t)' = RecordOf(t)
BY DEF RecordOf

LEMMA SameRecords ==
  ASSUME row' = row, created' = created, \A t \in Tasks : status'[t] = "absent" <=> status[t] = "absent"
  PROVE  RecordsOf' = RecordsOf /\ KnownOf' = KnownOf
<1>1. \A t \in Tasks : RecordOf(t)' = RecordOf(t)
  BY SameRecord
<1> QED BY <1>1 DEF RecordsOf, KnownOf

LEMMA SameDoing ==
  ASSUME \A w \in Workers : pc'[w] = "run" <=> pc[w] = "run", \A w \in Workers : pc[w] = "run" => cur'[w] = cur[w]
  PROVE  DoingOf' = DoingOf
BY DEF DoingOf

LEMMA FewerDoing ==
  ASSUME \A w \in Workers : pc'[w] = "run" => pc[w] = "run" /\ cur'[w] = cur[w]
  PROVE  DoingOf' \subseteq DoingOf
BY DEF DoingOf

LEMMA MoreDoing ==
  ASSUME Known, NEW w \in Workers, cur' = cur, pc' = [pc EXCEPT ![w] = "run"], pc[w] \in Holding
  PROVE  DoingOf' = DoingOf \cup {cur[w]}
BY KnownFacts DEF DoingOf

LEMMA RecordsStutter ==
  ASSUME RecordsOf' = RecordsOf, KnownOf' = KnownOf, DoingOf' \subseteq DoingOf
  PROVE  Records!Return
BY DEF Records!Return, RecordsOf, KnownOf, DoingOf

\* A row that is written or deleted, of a task that somebody has a record of.
LEMMA RowChange ==
  ASSUME Known, NEW t \in Tasks, NEW s, row' = [row EXCEPT ![t] = s], created' = created, t <= created,
         status' = status, s = "absent" => status[t] = "absent"
  PROVE  /\ RecordsOf' = [RecordsOf EXCEPT ![t] = IF s = "absent" THEN "gone" ELSE s]
         /\ KnownOf' = KnownOf
<1>1. \A u \in Tasks \ {t} : RecordOf(u)' = RecordOf(u)
  BY SameRecord, KnownFacts
<1>2. ASSUME NEW u \in Tasks, u = t PROVE RecordOf(u)' = IF s = "absent" THEN "gone" ELSE s
  <2>1. row'[u] = s /\ ~(u > created) /\ status'[u] = status[u] /\ created' = created
    BY <1>2, KnownFacts DEF Tasks
  <2> QED BY <1>2, <2>1 DEF RecordOf
<1> QED BY <1>1, <1>2 DEF RecordsOf, KnownOf

LEMMA RecordsInit == Init => Records!Init
<1> SUFFICES ASSUME Init PROVE Records!Init
  OBVIOUS
<1>1. \A t \in Tasks : RecordOf(t) = "new" /\ status[t] = "absent"
  BY ConstantAssumption DEF Init, RecordOf, Tasks
<1> QED BY <1>1 DEF Init, Records!Init

LEMMA CloseCloses ==
  ASSUME Known, StatusInv, NEW t \in Tasks, CloseInterrupted(t) PROVE Records!Close(t)
<1>1. KnownOf = {} /\ DoingOf = {} /\ UNCHANGED <<pc, cur, status, created>>
  BY DEF CloseInterrupted, Known, PhaseInv, KnownOf, DoingOf, loops, memory
<1>2. row[t] \in Active /\ row' = [row EXCEPT ![t] = "failed"] /\ t <= created
  BY DEF CloseInterrupted, Interrupted, StatusInv, Active
<1>3. RecordsOf[t] \in Records!Active
  BY <1>2 DEF RecordsOf, RecordOf, Active, Records!Active
<1>4. RecordsOf' = [RecordsOf EXCEPT ![t] = "failed"] /\ KnownOf' = KnownOf
  BY <1>1, <1>2, RowChange
<1>5. DoingOf' = DoingOf
  BY <1>1, SameDoing
<1> QED BY <1>1, <1>3, <1>4, <1>5 DEF Records!Close, RecordsOf, KnownOf, DoingOf

LEMMA StartedStarts == ASSUME Known, StatusInv, Started PROVE Records!Start
<1>1. /\ KnownOf = {} /\ DoingOf = {} /\ DoingOf' = {} /\ status' = row' /\ created' = created
      /\ \A t \in Tasks : status[t] = "absent"
  BY DEF Started, Known, PhaseInv, KnownOf, DoingOf
<1>2. \A t \in Tasks : row[t] \in Terminal \cup {"absent"} /\ row'[t] \in {row[t], "absent"}
  BY KnownFacts DEF Started, Interrupted, Active, Statuses, Without
<1>3. \A t \in Tasks : row[t] # "absent" => t <= created /\ ~(t > created)
  BY KnownFacts DEF StatusInv, Tasks
<1>4. \A t \in Tasks : RecordOf(t) \notin Records!Active /\ (RecordOf(t) \in Records!Terminal <=> row[t] # "absent")
  BY <1>1, <1>2 DEF RecordOf, Terminal, Records!Active, Records!Terminal
<1>5. KnownOf' = {t \in Tasks : row'[t] # "absent"}
  BY <1>1 DEF KnownOf
<1>6. KnownOf' \subseteq {t \in Tasks : RecordOf(t) \in Records!Terminal}
  BY <1>2, <1>4, <1>5
<1>7. ASSUME NEW t \in Tasks
      PROVE  RecordOf(t)' = IF RecordOf(t) \in Records!Terminal /\ t \notin KnownOf' THEN "gone" ELSE RecordOf(t)
  BY <1>1, <1>2, <1>3, <1>4, <1>5 DEF RecordOf
<1> QED BY <1>1, <1>4, <1>6, <1>7 DEF Records!Start, KnownOf, DoingOf

LEMMA EndStops == ASSUME Known, StatusInv, ShutdownDone \/ Kill PROVE Records!Stop
<1>1. UNCHANGED <<row, created>> /\ (\A t \in Tasks : status'[t] = "absent") /\ \A w \in Workers : pc'[w] = "gone"
  BY DEF ShutdownDone, Kill, Blank
<1>2. KnownOf' = {} /\ DoingOf' = {}
  BY <1>1 DEF KnownOf, DoingOf
<1>3. ASSUME NEW t \in Tasks
      PROVE  RecordOf(t)' = IF t \in KnownOf /\ RecordOf(t) = "new" THEN "gone" ELSE RecordOf(t)
  <2>1. CASE row[t] # "absent"
    <3>1. row[t] # "new"
      BY KnownFacts DEF Statuses, Terminal, Active
    <3> QED BY <1>1, <2>1, <3>1 DEF RecordOf
  <2>2. CASE row[t] = "absent"
    <3>1. status[t] # "absent" => ~(t > created)
      BY KnownFacts DEF StatusInv, Tasks
    <3> QED BY <1>1, <2>2, <3>1 DEF RecordOf, KnownOf
  <2> QED BY <2>1, <2>2
<1> QED BY <1>2, <1>3 DEF Records!Stop, Records!Lost, KnownOf, DoingOf

LEMMA EnqueueAdds ==
  ASSUME Known, StatusInv, NEW k \in Keys \cup {NoKey}, Enqueue(k) PROVE \E t \in Tasks : Records!Add(t)
<1>1. /\ UNCHANGED <<row, pc, cur>> /\ status' = [status EXCEPT ![created + 1] = "pending"]
      /\ created + 1 \in Tasks /\ created \in Nat /\ created' = created + 1
  BY KnownFacts, ConstantAssumption DEF Enqueue, Tasks, Known, TypeOK, loops
<1>2. row[created + 1] = "absent" /\ status[created + 1] = "absent"
  BY <1>1 DEF StatusInv
<1>3. \A t \in Tasks : RecordOf(t)' = RecordOf(t)
  <2> SUFFICES ASSUME NEW t \in Tasks PROVE RecordOf(t)' = RecordOf(t)
    OBVIOUS
  <2>1. CASE t = created + 1
    BY <1>1, <1>2, <2>1, KnownFacts DEF RecordOf
  <2>2. CASE t # created + 1
    <3>1. status'[t] = status[t] /\ (t > created' <=> t > created)
      BY <1>1, <2>2, KnownFacts DEF Tasks
    <3> QED BY <1>1, <3>1 DEF RecordOf
  <2> QED BY <2>1, <2>2
<1>4. RecordsOf' = RecordsOf /\ KnownOf' = KnownOf \cup {created + 1} /\ created + 1 \notin KnownOf
  BY <1>1, <1>2, <1>3, KnownFacts DEF RecordsOf, KnownOf
<1>5. DoingOf' = DoingOf
  BY <1>1, SameDoing
<1>6. RecordsOf[created + 1] = "new"
  BY <1>1, <1>2 DEF RecordsOf, RecordOf
<1> QED BY <1>1, <1>4, <1>5, <1>6 DEF Records!Add, RecordsOf, KnownOf, DoingOf

\* Tasks that leave the memory while the service runs.
LEMMA RemovalRemoves ==
  ASSUME Known, StatusInv, NEW s \in SUBSET Tasks, status' = Without(status, s), \A t \in s : status[t] # "absent",
         row' = row, created' = created, DoingOf' = DoingOf
  PROVE  Records!Remove
<1>1. s \subseteq KnownOf /\ KnownOf' = KnownOf \ s
  BY KnownFacts DEF KnownOf, Without
<1>2. ASSUME NEW t \in Tasks
      PROVE  RecordOf(t)' = IF t \in s /\ RecordOf(t) = "new" THEN "gone" ELSE RecordOf(t)
  <2>1. CASE row[t] # "absent"
    <3>1. row[t] # "new"
      BY KnownFacts DEF Statuses, Terminal, Active
    <3> QED BY <2>1, <3>1 DEF RecordOf
  <2>2. CASE row[t] = "absent"
    <3>1. status[t] # "absent" => ~(t > created)
      BY KnownFacts DEF StatusInv, Tasks
    <3>2. status'[t] = IF t \in s THEN "absent" ELSE status[t]
      BY DEF Without
    <3> QED BY <2>2, <3>1, <3>2 DEF RecordOf
  <2> QED BY <2>1, <2>2
<1> QED BY <1>1, <1>2 DEF Records!Remove, Records!Lost, KnownOf, DoingOf

\* The row of a task that is not in the memory is deleted.
LEMMA DeletionErases ==
  ASSUME Known, NEW t \in Tasks, status[t] = "absent", t <= created, row' = [row EXCEPT ![t] = "absent"],
         status' = status, created' = created, DoingOf' = DoingOf
  PROVE  Records!Erase(t)
<1>1. RecordsOf' = [RecordsOf EXCEPT ![t] = "gone"] /\ KnownOf' = KnownOf /\ t \notin KnownOf
  BY RowChange DEF KnownOf
<1>2. RecordsOf[t] # "new"
  BY KnownFacts DEF RecordsOf, RecordOf, Tasks, Statuses, Terminal, Active
<1> QED BY <1>1, <1>2 DEF Records!Erase, RecordsOf, KnownOf, DoingOf

\* The row of a task in the memory is written with its status.
LEMMA WriteMoves ==
  ASSUME Known, StatusInv, NEW t \in Tasks, status[t] # "absent", row' = [row EXCEPT ![t] = status[t]],
         status' = status, created' = created
  PROVE  /\ t \in KnownOf /\ KnownOf' = KnownOf /\ RecordsOf' = [RecordsOf EXCEPT ![t] = status[t]]
         /\ RecordsOf[t] = IF row[t] = "absent" THEN "new" ELSE row[t]
<1>1. t <= created
  BY DEF StatusInv
<1> QED BY <1>1, RowChange DEF RecordsOf, RecordOf, KnownOf

LEMMA CallWrites ==
  ASSUME Known, StatusInv, RecordInv, Enqueued \/ CancelSaved
  PROVE  Records!Return \/ \E t \in Tasks : Records!Save(t) \/ Records!Mark(t)
<1>1. /\ UNCHANGED <<status, created, pc, cur>> /\ target \in Tasks /\ status[target] \in Active
      /\ row' = [row EXCEPT ![target] = status[target]]
  BY KnownFacts DEF Enqueued, CancelSaved, StatusInv, CallOK, Active, memory, loops
<1>2. /\ target \in KnownOf /\ KnownOf' = KnownOf /\ RecordsOf' = [RecordsOf EXCEPT ![target] = status[target]]
      /\ RecordsOf[target] = IF row[target] = "absent" THEN "new" ELSE row[target]
  BY <1>1, WriteMoves DEF Active
<1>3. DoingOf' = DoingOf
  BY <1>1, SameDoing
<1>4. \/ row[target] = "absent" /\ status[target] = "pending"
      \/ row[target] = "pending" /\ status[target] = "running"
      \/ row[target] = status[target] /\ row[target] # "absent"
  BY <1>1 DEF RecordInv, RecOK, Active
<1>5. CASE row[target] = "absent" /\ status[target] = "pending"
  <2>1. Records!Save(target)
    BY <1>2, <1>3, <1>5 DEF Records!Save, Records!Moves, RecordsOf, KnownOf, DoingOf
  <2> QED BY <1>1, <2>1
<1>6. CASE row[target] = "pending" /\ status[target] = "running"
  <2>1. Records!Mark(target)
    BY <1>2, <1>3, <1>6 DEF Records!Mark, Records!Moves, RecordsOf, KnownOf, DoingOf
  <2> QED BY <1>1, <2>1
<1>7. CASE row[target] = status[target] /\ row[target] # "absent"
  <2>1. RecordsOf' = RecordsOf
    BY <1>2, <1>7 DEF RecordsOf
  <2> QED BY <1>2, <1>3, <2>1, RecordsStutter
<1> QED BY <1>4, <1>5, <1>6, <1>7

LEMMA UpdateBegins ==
  ASSUME Known, StatusInv, RecordInv, NEW w \in Workers, Update(w)
  PROVE  Records!Return \/ \E t \in Tasks : Records!BeginRemoved(t)
<1>1. UNCHANGED <<row, created, cur>> /\ pc[w] \in {"begin"} \cup Ends /\ pc[w] \in Holding
  BY DEF Update, Holding, Updating, Ends
<1>2. cur[w] \in Tasks
  BY <1>1, KnownFacts
<1>3. CASE status[cur[w]] # "absent"
  <2>1. pc' = pc /\ \A t \in Tasks : status'[t] = "absent" <=> status[t] = "absent"
    BY <1>2, <1>3, KnownFacts DEF Update, Verdict
  <2> QED BY <1>1, <2>1, SameRecords, SameDoing, RecordsStutter
<1>4. CASE status[cur[w]] = "absent" /\ pc[w] # "begin"
  <2>1. status' = status /\ pc' = [pc EXCEPT ![w] = "prune"]
    BY <1>1, <1>4 DEF Update, Move, AfterUpdate, Ends
  <2> QED BY <1>1, <2>1, SameRecords, FewerDoing, RecordsStutter, KnownFacts
<1>5. CASE status[cur[w]] = "absent" /\ pc[w] = "begin"
  <2>1. status' = status /\ pc' = [pc EXCEPT ![w] = "run"]
    BY <1>5 DEF Update, Move, AfterUpdate
  <2>2. DoingOf' = DoingOf \cup {cur[w]}
    BY <1>1, <2>1, MoreDoing
  <2>3. cur[w] \notin KnownOf /\ RecordsOf' = RecordsOf /\ KnownOf' = KnownOf
    BY <1>1, <1>5, <2>1, SameRecords DEF KnownOf
  <2>4. cur[w] \notin DoingOf
    BY <1>1, <1>5, KnownFacts DEF DoingOf, Holding
  <2>5. RecordsOf[cur[w]] \in {"pending", "gone"}
    <3>1. row[cur[w]] \in {"pending", "absent"}
      BY <1>5 DEF RecordInv, HeldOK, Early
    <3>2. ~(cur[w] > created)
      BY <1>1, KnownFacts DEF Tasks
    <3> QED BY <1>2, <1>5, <3>1, <3>2 DEF RecordsOf, RecordOf
  <2>6. PICK t \in Tasks : cur[w] = t
    BY <1>2
  <2>7. Records!BeginRemoved(t)
    BY <2>2, <2>3, <2>4, <2>5, <2>6 DEF Records!BeginRemoved, RecordsOf, KnownOf, DoingOf
  <2> QED BY <2>7
<1> QED BY <1>3, <1>4, <1>5

LEMMA WorkerWrites ==
  ASSUME Known, StatusInv, RecordInv, NEW w \in Workers, Written(w)
  PROVE  Records!Return \/ \E t \in Tasks : Records!Begin(t) \/ Records!Mark(t) \/ Records!Settle(t)
<1>1. /\ UNCHANGED <<status, created, cur>> /\ lock = w /\ row' = [row EXCEPT ![cur[w]] = status[cur[w]]]
      /\ pc' = [pc EXCEPT ![w] = AfterUpdate(pc[w])]
  BY DEF Written, Move, memory
<1>2. pc[w] \in {"begin", "run"} \cup Ends /\ pc[w] \in Holding
  BY <1>1, KnownFacts DEF Holding, Updating, Ends
<1>3. cur[w] \in Tasks
  BY <1>2, KnownFacts
<1>4. status[cur[w]] = IF pc[w] = "run" THEN "running" ELSE Verdict(pc[w])
  BY <1>1 DEF StatusInv, LoopOK
<1>5. status[cur[w]] \in Terminal \cup {"running"} /\ row[cur[w]] \in Active
  BY <1>2, <1>4 DEF Verdict, Terminal, RecordInv, HeldOK, Early
<1>6. /\ cur[w] \in KnownOf /\ KnownOf' = KnownOf /\ RecordsOf' = [RecordsOf EXCEPT ![cur[w]] = status[cur[w]]]
      /\ RecordsOf[cur[w]] = row[cur[w]]
  BY <1>1, <1>3, <1>5, WriteMoves DEF Terminal, Active
<1>7. CASE pc[w] = "begin"
  <2>1. status[cur[w]] = "running" /\ row[cur[w]] = "pending"
    BY <1>4, <1>5, <1>7 DEF Verdict, RecordInv, HeldOK, Early, Active
  <2>2. DoingOf' = DoingOf \cup {cur[w]}
    BY <1>1, <1>2, <1>7, MoreDoing DEF AfterUpdate
  <2>3. PICK t \in Tasks : cur[w] = t
    BY <1>3
  <2>4. Records!Begin(t)
    BY <1>6, <2>1, <2>2, <2>3 DEF Records!Begin, Records!Moves, RecordsOf, KnownOf, DoingOf
  <2> QED BY <2>4
<1>8. CASE pc[w] = "run"
  <2>1. status[cur[w]] = "running"
    BY <1>4, <1>8
  <2>2. DoingOf' = DoingOf
    BY <1>1, <1>8, SameDoing, KnownFacts DEF AfterUpdate
  <2>3. CASE row[cur[w]] = "running"
    <3>1. RecordsOf' = RecordsOf
      BY <1>6, <2>1, <2>3 DEF RecordsOf
    <3> QED BY <1>6, <2>2, <3>1, RecordsStutter
  <2>4. CASE row[cur[w]] = "pending"
    <3>1. Records!Mark(cur[w])
      BY <1>6, <2>1, <2>2, <2>4 DEF Records!Mark, Records!Moves, RecordsOf, KnownOf, DoingOf
    <3> QED BY <1>3, <3>1
  <2> QED BY <1>5, <2>3, <2>4 DEF Active
<1>9. CASE pc[w] \in Ends
  <2>1. status[cur[w]] \in Records!Terminal /\ RecordsOf[cur[w]] \in Records!Active
    BY <1>4, <1>5, <1>6, <1>9 DEF Verdict, Ends, Records!Terminal, Records!Active, Active
  <2>2. DoingOf' = DoingOf
    BY <1>1, <1>9, SameDoing, KnownFacts DEF AfterUpdate, Ends
  <2>3. cur[w] \notin DoingOf
    BY <1>2, <1>9, KnownFacts DEF DoingOf, Holding, Ends
  <2>4. Records!Settle(cur[w])
    BY <1>6, <2>1, <2>2, <2>3 DEF Records!Settle, Records!Moves, RecordsOf, KnownOf, DoingOf
  <2> QED BY <1>3, <2>4
<1> QED BY <1>2, <1>7, <1>8, <1>9

LEMMA RecordsStep ==
  Known /\ StatusInv /\ EraseInv /\ RecordInv /\ [Next]_vars => [Records!Next]_(Records!recordVars)
<1> SUFFICES ASSUME Known, StatusInv, EraseInv, RecordInv, Next PROVE Records!Next
  <2>1. UNCHANGED vars => UNCHANGED Records!recordVars
    BY DEF vars, process, memory, loops, Records!recordVars, RecordOf
  <2> QED BY <2>1
<1> USE LockNames DEF process, memory, loops, history, Callers, Free
<1>1. CASE Boot \/ Shutdown
  <2>1. UNCHANGED <<row, created, status, cur>> /\ \A w \in Workers : pc'[w] = "run" => pc[w] = "run"
    BY <1>1 DEF Boot, Shutdown, AfterCancel
  <2> QED BY <2>1, SameRecords, FewerDoing, RecordsStutter DEF Records!Next
<1>2. ASSUME NEW t \in Tasks, CloseInterrupted(t) PROVE Records!Next
  BY <1>2, CloseCloses DEF Records!Next
<1>3. CASE Started \/ ShutdownDone \/ Kill
  BY <1>3, StartedStarts, EndStops DEF Records!Next
<1>4. ASSUME NEW k \in Keys \cup {NoKey}, Enqueue(k) PROVE Records!Next
  BY <1>4, EnqueueAdds DEF Records!Next
<1>5. ASSUME NEW t \in Tasks, CancelTask(t) PROVE Records!Next
  BY <1>5, SameRecords, FewerDoing, RecordsStutter DEF CancelTask, Records!Next
<1>6. ASSUME NEW t \in Tasks, DeleteTask(t) PROVE Records!Next
  <2>1. UNCHANGED <<row, created, pc, cur>> /\ status[t] # "absent" /\ status' = [status EXCEPT ![t] = "absent"]
    BY <1>6 DEF DeleteTask
  <2>2. status' = Without(status, {t})
    BY <2>1, KnownFacts DEF Without
  <2>3. DoingOf' = DoingOf
    BY <2>1, SameDoing
  <2>4. {t} \in SUBSET Tasks /\ \A u \in {t} : status[u] # "absent"
    BY <2>1
  <2>5. Records!Remove
    BY <2>1, <2>2, <2>3, <2>4, RemovalRemoves
  <2> QED BY <2>5 DEF Records!Next
<1>7. CASE Enqueued \/ CancelSaved
  BY <1>7, CallWrites DEF Records!Next
<1>8. CASE EnqueueFails \/ CancelFails
  BY <1>8, SameRecords, FewerDoing, RecordsStutter DEF EnqueueFails, CancelFails, Records!Next
<1>9. ASSUME NEW t \in Tasks, DeleteRow(t) \/ \E w \in Workers : EraseRow(w, t) PROVE Records!Next
  <2>1. status[t] = "absent" /\ t <= created
    BY <1>9 DEF DeleteRow, EraseRow, EraseInv
  <2>2. UNCHANGED <<status, created, pc, cur>> /\ (row' = row \/ row' = [row EXCEPT ![t] = "absent"])
    BY <1>9 DEF DeleteRow, EraseRow
  <2>3. DoingOf' = DoingOf
    BY <2>2, SameDoing
  <2>4. CASE row' = row
    BY <2>2, <2>3, <2>4, SameRecords, RecordsStutter DEF Records!Next
  <2>5. CASE row' = [row EXCEPT ![t] = "absent"]
    BY <2>1, <2>2, <2>3, <2>5, DeletionErases DEF Records!Next
  <2> QED BY <2>2, <2>4, <2>5
<1>10. ASSUME NEW w \in Workers, Get(w) \/ Look(w) \/ WriteFails(w) \/ Erased(w) \/ Progress(w) \/ Returns(w) \/ Raises(w)
       PROVE  Records!Next
  <2>1. UNCHANGED <<row, status, created>> /\ \A v \in Workers \ {w} : pc'[v] = pc[v] /\ cur'[v] = cur[v]
    BY <1>10, KnownFacts DEF Get, Look, WriteFails, Erased, Progress, Returns, Raises, Move
  <2>2. pc'[w] = "run" => pc[w] = "run" /\ cur'[w] = cur[w]
    <3>1. CASE WriteFails(w)
      <4>1. pc'[w] \in AfterFailure(pc[w]) /\ cur' = cur
        BY <3>1, KnownFacts DEF WriteFails, Move
      <4> QED BY <4>1 DEF AfterFailure
    <3>2. CASE ~WriteFails(w)
      BY <1>10, <3>2, KnownFacts DEF Get, Look, Erased, Progress, Returns, Raises, Move
    <3> QED BY <3>1, <3>2
  <2>3. \A v \in Workers : pc'[v] = "run" => pc[v] = "run" /\ cur'[v] = cur[v]
    BY <2>1, <2>2
  <2> QED BY <2>1, <2>3, SameRecords, FewerDoing, RecordsStutter DEF Records!Next
<1>11. ASSUME NEW w \in Workers, Update(w) PROVE Records!Next
  BY <1>11, UpdateBegins DEF Records!Next
<1>12. ASSUME NEW w \in Workers, Written(w) PROVE Records!Next
  BY <1>12, WorkerWrites DEF Records!Next
<1>13. ASSUME NEW w \in Workers, Prune(w) PROVE Records!Next
  <2>1. /\ UNCHANGED <<row, created>> /\ status' = Without(status, Stale(status)) /\ pc[w] = "prune"
        /\ pc'[w] = "erase" /\ \A v \in Workers \ {w} : pc'[v] = pc[v] /\ cur'[v] = cur[v]
    BY <1>13, KnownFacts DEF Prune, Move
  <2>2. DoingOf' = DoingOf
    BY <2>1, SameDoing
  <2>3. Stale(status) \in SUBSET Tasks /\ \A t \in Stale(status) : status[t] # "absent"
    BY DEF Stale, Terminal
  <2>4. Records!Remove
    BY <2>1, <2>2, <2>3, RemovalRemoves
  <2> QED BY <2>4 DEF Records!Next
<1> QED BY <1>1, <1>2, <1>3, <1>4, <1>5, <1>6, <1>7, <1>8, <1>9, <1>10, <1>11, <1>12, <1>13
        DEF Next, Lifecycle, Api, Rest, Loop, Coroutine

\* Whatever loops, calls, failing writes and restarts do, the table shows of every task
\* one life: recorded, begun, settled when nobody works on it any more, and gone for good.
THEOREM RecordsKeepTheirPromise == Spec => ImplementsTaskRecords
<1>1. Init => Known /\ StatusInv /\ EraseInv /\ RecordInv /\ Records!Init
  BY TypeInit, PointInit, PlaceInit, PhaseInit, StatusInit, EraseInit, RecordInit, RecordsInit DEF Known
<1>2. Known /\ StatusInv /\ EraseInv /\ RecordInv /\ [Next]_vars => (Known /\ StatusInv /\ EraseInv /\ RecordInv)'
  BY TypeStep, PointStep, PlaceStep, PhaseStep, StatusStep, EraseStep, RecordStep DEF Known
<1> QED BY <1>1, <1>2, RecordsStep, PTL DEF Spec, ImplementsTaskRecords, Records!Spec
=============================================================================
