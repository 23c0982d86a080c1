------------------------------- MODULE Tasker -------------------------------
(***************************************************************************)
(* The background task service of the API process: tasks kept in memory and *)
(* mirrored in PostgreSQL, one queue, a few worker loops, and the calls     *)
(* that enqueue, cancel and delete tasks while workers run them. One lock   *)
(* guards the tasks; whoever holds it keeps it across the write of the row. *)
(* The process may die at any step and is started again.                    *)
(*                                                                         *)
(* A step ends where a coroutine of the process awaits: for the lock, the   *)
(* queue, a write of the row, or the work of the task itself.               *)
(***************************************************************************)
EXTENDS Naturals, Sequences, FiniteSets

CONSTANTS
    Workers,       \* worker loops (TASKER_WORKER_COUNT)
    Keys,          \* payloads that enqueue_unique_by_payload is asked to match
    NoKey,         \* the payload of a task enqueued without matching
    Nobody,        \* holder of the free lock
    MaxTerminal,   \* MAX_TERMINAL_TASKS
    MaxTasks,      \* bound: tasks ever enqueued
    MaxFails,      \* bound: failing writes
    MaxStops       \* bound: crashes and shutdowns

Callers == {"enqueue", "cancel", "start", "shutdown"}

ASSUME ConstantAssumption ==
    /\ MaxTerminal \in Nat /\ MaxTasks \in Nat /\ MaxFails \in Nat /\ MaxStops \in Nat
    /\ NoKey \notin Keys
    /\ Nobody \notin Workers \cup Callers /\ Workers \cap Callers = {}

Tasks == 1 .. MaxTasks    \* in the order of their creation

VARIABLES
    phase,     \* of the process: "down", "booting", "up" or "stopping"
    status,    \* [Tasks -> Tasker._tasks[t].status, or "absent"]
    asked,     \* [Tasks -> Task.cancel_requested]
    row,       \* [Tasks -> the status in the table, or "absent"]
    created,   \* tasks enqueued so far
    key,       \* [Tasks -> the payload]
    queue,     \* Tasker._queue
    lock,      \* who holds Tasker._lock
    target,    \* the task whose row a call writes under the lock, or 0
    pc, cur,   \* [Workers -> where that loop is], and with which task
    erase,     \* [Workers -> rows that loop has still to delete]
    deleting,  \* tasks whose row a delete call has still to delete
    fails, stops,
    unsaved,   \* history: tasks a write or deletion of whose row has failed
    late       \* history: tasks cancelled after their coroutine had returned

process == <<phase, lock, target>>
memory  == <<status, asked>>
loops   == <<pc, cur, erase>>
history == <<unsaved, late>>
vars == <<process, memory, row, created, key, queue, loops, deleting, fails, stops, history>>

Terminal == {"success", "failed", "cancelled"}
Active   == {"pending", "running"}
Statuses == Terminal \cup Active

\* Wants the lock to set a status; of these, "mark" settles a task that was
\* cancelled before its coroutine began or by a CancelledError, "obey" one whose
\* coroutine returned.
Updating == {"begin", "succeed", "fail", "mark", "obey"}
Pcs == {"get", "look", "run", "prune", "erase", "gone"} \cup Updating

TypeOK ==
    /\ phase \in {"down", "booting", "up", "stopping"}
    /\ status \in [Tasks -> Statuses \cup {"absent"}]
    /\ asked \in [Tasks -> BOOLEAN]
    /\ row \in [Tasks -> Statuses \cup {"absent"}]
    /\ created \in 0 .. MaxTasks
    /\ key \in [Tasks -> Keys \cup {NoKey}]
    /\ queue \in Seq(Tasks)
    /\ lock \in Workers \cup Callers \cup {Nobody}
    /\ target \in Tasks \cup {0}
    /\ pc \in [Workers -> Pcs] /\ cur \in [Workers -> Tasks \cup {0}]
    /\ erase \in [Workers -> SUBSET Tasks]
    /\ deleting \in SUBSET Tasks
    /\ fails \in 0 .. MaxFails /\ stops \in 0 .. MaxStops
    /\ unsaved \in SUBSET Tasks /\ late \in SUBSET Tasks

\* What a process that is not running knows.
Blank ==
    /\ status' = [t \in Tasks |-> "absent"] /\ asked' = [t \in Tasks |-> FALSE]
    /\ queue' = <<>> /\ target' = 0
    /\ pc' = [w \in Workers |-> "gone"] /\ cur' = [w \in Workers |-> 0]
    /\ erase' = [w \in Workers |-> {}] /\ deleting' = {}
    /\ unsaved' = {} /\ late' = {}

Init ==
    /\ phase = "down" /\ lock = Nobody /\ target = 0
    /\ status = [t \in Tasks |-> "absent"] /\ asked = [t \in Tasks |-> FALSE]
    /\ row = [t \in Tasks |-> "absent"]
    /\ created = 0 /\ key = [t \in Tasks |-> NoKey]
    /\ queue = <<>>
    /\ pc = [w \in Workers |-> "gone"] /\ cur = [w \in Workers |-> 0]
    /\ erase = [w \in Workers |-> {}] /\ deleting = {}
    /\ fails = 0 /\ stops = 0 /\ unsaved = {} /\ late = {}

\* The settled tasks of s beyond the newest MaxTerminal.
Stale(s) == LET settled == {t \in Tasks : s[t] \in Terminal} IN
            {t \in settled : Cardinality({u \in settled : u > t}) >= MaxTerminal}
Without(s, gone) == [t \in Tasks |-> IF t \in gone THEN "absent" ELSE s[t]]

Free == phase = "up" /\ lock = Nobody

\* A call to the database may fail.
Fails == fails < MaxFails /\ fails' = fails + 1

-----------------------------------------------------------------------------
(* start, shutdown, and the end of the process. *)

Boot ==
    /\ phase = "down"
    /\ phase' = "booting" /\ lock' = "start"
    /\ UNCHANGED <<target, memory, row, created, key, queue, loops, deleting, fails, stops, history>>

\* Fault: only running tasks are closed.
InterruptedRunning == {t \in Tasks : row[t] = "running"}

Interrupted == {t \in Tasks : row[t] \in Active}

\* _load_state closes an unfinished task: the queue it was in is gone.
CloseInterrupted(t) ==
    /\ phase = "booting" /\ t \in Interrupted
    /\ row' = [row EXCEPT ![t] = "failed"]
    /\ UNCHANGED <<process, memory, created, key, queue, loops, deleting, fails, stops, history>>

\* The rest of _load_state prunes the rows, then the loops are started.
Started ==
    /\ phase = "booting" /\ Interrupted = {}
    /\ row' = Without(row, Stale(row)) /\ status' = row'
    /\ phase' = "up" /\ lock' = Nobody
    /\ pc' = [w \in Workers |-> "get"]
    /\ UNCHANGED <<target, asked, created, key, queue, cur, erase, deleting, fails, stops, history>>

\* Where a CancelledError takes a loop: out of it, to its finally part, or to
\* marking the task cancelled.
AfterCancel(place) ==
    IF place \in {"get", "prune", "erase"} THEN "gone"
    ELSE IF place \in {"run", "succeed", "obey"} THEN "mark" ELSE "prune"

\* shutdown cancels the loops, and keeps the lock while it waits for them.
Shutdown ==
    /\ Free /\ stops < MaxStops
    /\ stops' = stops + 1
    /\ phase' = "stopping" /\ lock' = "shutdown"
    /\ pc' = [w \in Workers |-> AfterCancel(pc[w])]
    /\ erase' = [w \in Workers |-> {}]
    /\ UNCHANGED <<target, memory, row, created, key, queue, cur, deleting, fails, history>>

ShutdownDone ==
    /\ phase = "stopping" /\ \A w \in Workers : pc[w] = "gone"
    /\ phase' = "down" /\ lock' = Nobody
    /\ Blank
    /\ UNCHANGED <<row, created, key, fails, stops>>

\* The process dies, or is killed while it shuts down.
Kill ==
    /\ phase # "down" /\ stops < MaxStops
    /\ stops' = stops + 1
    /\ phase' = "down" /\ lock' = Nobody
    /\ Blank
    /\ UNCHANGED <<row, created, key, fails>>

-----------------------------------------------------------------------------
(* The calls of the API. *)

\* Fault: a running task of the same payload is overlooked.
MatchesPending(k) == \E t \in Tasks : key[t] = k /\ status[t] = "pending"

\* _find_task_by_payload_locked, with the statuses the routers ask for.
Matches(k) == \E t \in Tasks : key[t] = k /\ status[t] \in Active

\* enqueue and enqueue_unique_by_payload; an existing task is returned as it is.
Enqueue(k) ==
    /\ Free /\ created < MaxTasks
    /\ k = NoKey \/ ~Matches(k)
    /\ created' = created + 1 /\ target' = created'
    /\ key' = [key EXCEPT ![created'] = k]
    /\ status' = [status EXCEPT ![created'] = "pending"]
    /\ lock' = "enqueue"
    /\ UNCHANGED <<phase, asked, row, queue, loops, deleting, fails, stops, history>>

\* Fault: the row is written and the task never put into the queue.
EnqueuedForgets ==
    /\ lock = "enqueue"
    /\ row' = [row EXCEPT ![target] = status[target]]
    /\ lock' = Nobody /\ target' = 0
    /\ UNCHANGED <<phase, memory, created, key, queue, loops, deleting, fails, stops, history>>

Enqueued ==
    /\ lock = "enqueue"
    /\ row' = [row EXCEPT ![target] = status[target]]
    /\ queue' = Append(queue, target)
    /\ lock' = Nobody /\ target' = 0
    /\ UNCHANGED <<phase, memory, created, key, loops, deleting, fails, stops, history>>

\* The task stays in memory and never reaches the queue.
EnqueueFails ==
    /\ lock = "enqueue" /\ Fails
    /\ unsaved' = unsaved \cup {target}
    /\ lock' = Nobody /\ target' = 0
    /\ UNCHANGED <<phase, memory, row, created, key, queue, loops, deleting, stops, late>>

\* Fault: a cancelled task is settled by the call, whatever its loop does next.
CancelTaskSettles(t) ==
    /\ Free /\ status[t] \in Active
    /\ asked' = [asked EXCEPT ![t] = TRUE]
    /\ status' = [status EXCEPT ![t] = "cancelled"]
    /\ lock' = "cancel" /\ target' = t
    /\ UNCHANGED <<phase, row, created, key, queue, loops, deleting, fails, stops, history>>

CancelTask(t) ==
    /\ Free /\ status[t] \in Active
    /\ asked' = [asked EXCEPT ![t] = TRUE]
    /\ late' = IF \E w \in Workers : cur[w] = t /\ pc[w] = "succeed" THEN late \cup {t} ELSE late
    /\ lock' = "cancel" /\ target' = t
    /\ UNCHANGED <<phase, status, row, created, key, queue, loops, deleting, fails, stops, unsaved>>

CancelSaved ==
    /\ lock = "cancel"
    /\ row' = [row EXCEPT ![target] = status[target]]
    /\ lock' = Nobody /\ target' = 0
    /\ UNCHANGED <<phase, memory, created, key, queue, loops, deleting, fails, stops, history>>

CancelFails ==
    /\ lock = "cancel" /\ Fails
    /\ lock' = Nobody /\ target' = 0
    /\ UNCHANGED <<phase, memory, row, created, key, queue, loops, deleting, stops, history>>

\* The row is deleted after the lock has been released, whatever the task does.
DeleteTask(t) ==
    /\ Free /\ status[t] # "absent"
    /\ status' = [status EXCEPT ![t] = "absent"]
    /\ deleting' = deleting \cup {t}
    /\ UNCHANGED <<process, asked, row, created, key, queue, loops, fails, stops, history>>

DeleteRow(t) ==
    /\ t \in deleting
    /\ deleting' = deleting \ {t}
    /\ \/ row' = [row EXCEPT ![t] = "absent"] /\ UNCHANGED <<fails, unsaved>>
       \/ Fails /\ unsaved' = unsaved \cup {t} /\ UNCHANGED row
    /\ UNCHANGED <<process, memory, created, key, queue, loops, stops, late>>

-----------------------------------------------------------------------------
(* A worker loop. *)

Move(w, place) == pc' = [pc EXCEPT ![w] = place]

Get(w) ==
    /\ pc[w] = "get" /\ queue # <<>>
    /\ cur' = [cur EXCEPT ![w] = Head(queue)]
    /\ queue' = Tail(queue)
    /\ Move(w, "look")
    /\ UNCHANGED <<process, memory, row, created, key, erase, deleting, fails, stops, history>>

\* _get_task_instance, and the check of cancel_requested after it.
Look(w) ==
    /\ pc[w] = "look" /\ Free
    /\ Move(w, IF status[cur[w]] = "absent" THEN "prune"
               ELSE IF asked[cur[w]] THEN "mark" ELSE "begin")
    /\ UNCHANGED <<process, memory, row, created, key, queue, cur, erase, deleting, fails, stops,
                   history>>

Verdict(place) == CASE place = "begin"   -> "running"
                    [] place = "succeed" -> "success"
                    [] place = "fail"    -> "failed"
                    [] OTHER             -> "cancelled"
AfterUpdate(place) == IF place \in {"begin", "run"} THEN "run" ELSE "prune"

\* Where an exception of the database takes a loop.
AfterFailure(place) == IF place \in {"succeed", "obey"} THEN {"fail"}
                       ELSE IF place = "run" THEN {"run", "fail"} ELSE {"prune"}

\* Fault: a task that is not in memory any more is created again.
UpdateAnyway(w) ==
    /\ pc[w] \in Updating /\ Free
    /\ status' = [status EXCEPT ![cur[w]] = Verdict(pc[w])]
    /\ lock' = w
    /\ UNCHANGED <<phase, target, asked, row, created, key, queue, loops, deleting, fails, stops, history>>

\* _update_task sets the status in memory and keeps the lock for the write; a
\* task that was deleted is left alone, and the loop goes on as if it were there.
Update(w) ==
    /\ pc[w] \in Updating /\ Free
    /\ IF status[cur[w]] = "absent"
       THEN Move(w, AfterUpdate(pc[w])) /\ UNCHANGED <<lock, status>>
       ELSE /\ status' = [status EXCEPT ![cur[w]] = Verdict(pc[w])]
            /\ lock' = w /\ UNCHANGED pc
    /\ UNCHANGED <<phase, target, asked, row, created, key, queue, cur, erase, deleting, fails, stops,
                   history>>

\* set_progress, set_message, set_result, as far as they reach the table.
Progress(w) ==
    /\ pc[w] = "run" /\ Free /\ status[cur[w]] # "absent"
    /\ lock' = w
    /\ UNCHANGED <<phase, target, memory, row, created, key, queue, loops, deleting, fails, stops,
                   history>>

\* Fault: the row is not written.
WrittenNot(w) ==
    /\ lock = w
    /\ lock' = Nobody
    /\ Move(w, AfterUpdate(pc[w]))
    /\ UNCHANGED <<phase, target, memory, row, created, key, queue, cur, erase, deleting, fails, stops,
                   history>>

Written(w) ==
    /\ lock = w
    /\ row' = [row EXCEPT ![cur[w]] = status[cur[w]]]
    /\ lock' = Nobody
    /\ Move(w, AfterUpdate(pc[w]))
    /\ UNCHANGED <<phase, target, memory, created, key, queue, cur, erase, deleting, fails, stops,
                   history>>

WriteFails(w) ==
    /\ lock = w /\ Fails
    /\ unsaved' = unsaved \cup {cur[w]}
    /\ lock' = Nobody
    /\ \E place \in AfterFailure(pc[w]) : Move(w, place)
    /\ UNCHANGED <<phase, target, memory, row, created, key, queue, cur, erase, deleting, stops, late>>

\* Fault: a cancel that came while the coroutine ran is overlooked.
ReturnsDeaf(w) ==
    /\ pc[w] = "run" /\ lock # w /\ phase = "up"
    /\ Move(w, "succeed")
    /\ UNCHANGED <<process, memory, row, created, key, queue, cur, erase, deleting, fails, stops,
                   history>>

\* The coroutine of the task returns ...
Returns(w) ==
    /\ pc[w] = "run" /\ lock # w /\ phase = "up"
    /\ Move(w, IF asked[cur[w]] THEN "obey" ELSE "succeed")
    /\ UNCHANGED <<process, memory, row, created, key, queue, cur, erase, deleting, fails, stops,
                   history>>

\* ... or raises an exception, CancelledError when it finds itself cancelled: the
\* context of a deleted task knows of no cancel.
Raises(w) ==
    /\ pc[w] = "run" /\ lock # w /\ phase = "up"
    /\ \/ Move(w, "fail")
       \/ status[cur[w]] # "absent" /\ asked[cur[w]] /\ Move(w, "mark")
    /\ UNCHANGED <<process, memory, row, created, key, queue, cur, erase, deleting, fails, stops,
                   history>>

\* _prune_terminal_tasks, in the finally part.
Prune(w) ==
    /\ pc[w] = "prune" /\ Free
    /\ status' = Without(status, Stale(status))
    /\ erase' = [erase EXCEPT ![w] = Stale(status)]
    /\ Move(w, "erase")
    /\ cur' = [cur EXCEPT ![w] = 0]
    /\ UNCHANGED <<process, asked, row, created, key, queue, deleting, fails, stops, history>>

EraseRow(w, t) ==
    /\ pc[w] = "erase" /\ t \in erase[w]
    /\ \/ /\ row' = [row EXCEPT ![t] = "absent"]
          /\ erase' = [erase EXCEPT ![w] = @ \ {t}]
          /\ UNCHANGED <<pc, fails, unsaved>>
       \/ /\ Fails /\ unsaved' = unsaved \cup erase[w]
          /\ erase' = [erase EXCEPT ![w] = {}]
          /\ UNCHANGED <<pc, row>>
    /\ UNCHANGED <<process, memory, created, key, queue, cur, deleting, stops, late>>

Erased(w) ==
    /\ pc[w] = "erase" /\ erase[w] = {}
    /\ Move(w, "get")
    /\ UNCHANGED <<process, memory, row, created, key, queue, cur, erase, deleting, fails, stops,
                   history>>

-----------------------------------------------------------------------------
Lifecycle == Boot \/ (\E t \in Tasks : CloseInterrupted(t)) \/ Started \/ ShutdownDone
Api  == \/ \E k \in Keys \cup {NoKey} : Enqueue(k)
        \/ \E t \in Tasks : CancelTask(t) \/ DeleteTask(t)
Rest == \/ Enqueued \/ EnqueueFails \/ CancelSaved \/ CancelFails
        \/ \E t \in Tasks : DeleteRow(t)
Loop(w) == \/ Get(w) \/ Look(w) \/ Update(w) \/ Written(w) \/ WriteFails(w)
           \/ Prune(w) \/ (\E t \in Tasks : EraseRow(w, t)) \/ Erased(w)
Coroutine(w) == Returns(w) \/ Raises(w)

Next == \/ Lifecycle \/ Shutdown \/ Kill \/ Api \/ Rest
        \/ \E w \in Workers : Loop(w) \/ Progress(w) \/ Coroutine(w)

Spec == Init /\ [][Next]_vars

\* The process is restarted, its event loop goes on, and the lock and the queue serve
\* those who wait in turn (asyncio.Lock and asyncio.Queue are first in, first out).
\* Callers, coroutines and failures owe nothing.
FairSpec == /\ Spec /\ WF_vars(Lifecycle) /\ WF_vars(Rest)
            /\ \A w \in Workers : SF_vars(Loop(w))

-----------------------------------------------------------------------------
(* Properties. *)

Holds(w, t) == pc[w] \notin {"get", "erase", "gone"} /\ cur[w] = t

\* Memory and table agree whenever nobody is inside the lock, except for what could not
\* be written: no write of a row comes late, and no worker brings back a row that a
\* delete call or pruning has taken out.
RowAgrees ==
    Free => \A t \in Tasks \ unsaved :
        IF status[t] # "absent" THEN row[t] = status[t]
        ELSE row[t] # "absent" => t \in deleting \/ \E w \in Workers : t \in erase[w]

\* Two coroutines of one payload run at the same time only when the first one's task
\* was deleted under it.
UniqueExecution ==
    \A v, w \in Workers :
        v # w /\ pc[v] = "run" /\ pc[w] = "run" /\ key[cur[v]] = key[cur[w]] =>
            key[cur[v]] = NoKey \/ status[cur[v]] = "absent" \/ status[cur[w]] = "absent"

\* An unfinished task is waiting in the queue, in a loop's hands, or on its way to the
\* queue, unless a write of its row has failed; a restart leaves none behind.
NoneForgotten ==
    phase = "up" => \A t \in Tasks :
        status[t] \in Active =>
            \/ t \in {queue[i] : i \in 1 .. Len(queue)} \/ \E w \in Workers : Holds(w, t)
            \/ lock = "enqueue" /\ target = t
            \/ t \in unsaved

\* A task is settled once: only deleting, pruning or the end of the process, and the
\* failure to write the settled row, change a settled status.
SettledOnce ==
    [][\A t \in Tasks : status[t] \in Terminal =>
          status'[t] \in {status[t], "absent"} \/ t \in unsaved]_vars

\* A task cancelled before its coroutine returned does not succeed.
CancelObeyed == \A t \in Tasks : status[t] = "success" /\ asked[t] => t \in late

\* The table, as those who list tasks come to see it: a task that has no row is still to
\* be recorded or gone.
RecordOf(t) == IF row[t] # "absent" THEN row[t]
               ELSE IF t > created \/ status[t] # "absent" THEN "new" ELSE "gone"
Records == INSTANCE TaskRecords
             WITH record <- [t \in Tasks |-> RecordOf(t)],
                  known <- {t \in Tasks : status[t] # "absent"},
                  doing <- {t \in Tasks : \E w \in Workers : pc[w] = "run" /\ cur[w] = t}
ImplementsTaskRecords == Records!Spec

\* Every unfinished task ends while the process is up, provided that coroutines end
\* and its row can be written.
TasksEnd ==
    (\A w \in Workers : SF_vars(Coroutine(w))) =>
        \A t \in Tasks : (status[t] \in Active) ~>
            (status[t] \notin Active \/ t \in unsaved \/ phase = "stopping")
=============================================================================
