------------------------------ MODULE AgentRun ------------------------------
(***************************************************************************)
(* One AgentRun from its committed row to the last client that waits for    *)
(* it: the row in PostgreSQL, the ARQ job, the worker coroutine             *)
(* process_agent_run with its cancel watcher and its buffered event writer, *)
(* the cancel key and the event stream in Redis, the API call that cancels  *)
(* the run, and the SSE readers that poll row and stream.                   *)
(*                                                                         *)
(* A worker step ends where the coroutine awaits a call that changes or     *)
(* reads shared state, so that the other actors, a crash, a failing call or *)
(* a cancellation by ARQ can come between any two of them.                  *)
(***************************************************************************)
EXTENDS Naturals, Sequences

CONSTANTS
    Readers,       \* SSE connections that follow the run
    MaxTries,      \* WorkerSettings.max_tries
    BatchSize,     \* events one poll of a reader takes (limit=200)
    MaxChunks,     \* bound: chunks the agent produces before its last one, per try
    MaxCancels,    \* bound: cancel requests
    MaxTroubles    \* bound: crashes, failing calls and cancellations by ARQ

ASSUME ConstantAssumption ==
    /\ MaxTries \in Nat \ {0} /\ BatchSize \in Nat \ {0}
    /\ MaxChunks \in Nat /\ MaxCancels \in Nat /\ MaxTroubles \in Nat

VARIABLES
    row,        \* agent_runs.status
    job,        \* the ARQ job run:<id>
    tries,      \* job_try of the latest execution
    key,        \* is the run's cancel key set in Redis?
    cancelPc,   \* the API call that cancels: before its lock, or before its publish?
    cancels,    \* cancel requests so far
    w,          \* the worker coroutine's local state
    output,     \* has the agent's output been stored as messages of the thread?
    log,        \* the run's Redis stream
    reader,     \* [Readers -> the state of that connection and its client]
    troubles,   \* troubles so far
    struck,     \* history: a trouble hit after the row was settled, before an end event
    overrun,    \* history: a cancel request has overwritten a settled row
    escaped     \* history: an exception has left process_agent_run

jobVars    == <<job, tries>>
cancelVars == <<key, cancelPc, cancels>>
history    == <<troubles, struck, overrun, escaped>>
vars == <<row, jobVars, cancelVars, w, output, log, reader, history>>

-----------------------------------------------------------------------------
Active   == {"pending", "running", "cancel_requested"}
Terminal == {"completed", "failed", "cancelled", "interrupted"}
Threads  == {"main", "sub"}   \* the run's own thread, and a subagent's inside it

\* What the chunk stream hands to the worker apart from loading chunks.
LastChunks == {"finished", "error", "interrupted", "ask"}
ChunkKinds == {"custom", "subcustom"} \cup LastChunks

EventTypes == {"metadata", "messages", "custom", "error", "interrupt", "end"}
Event(type, thread) == [type |-> type, thread |-> thread, status |-> "none"]
EndEvent(status)    == [type |-> "end", thread |-> "main", status |-> status]
Events == [type : EventTypes, thread : Threads, status : Terminal \cup {"none"}]

\* The coroutine before its try block, in it, settling the run, in its handlers, leaving.
BeforeTry == {"load", "validate", "reject", "begin", "announce"}
InsideTry == {"stream", "publish", "decide", "check", "finish"}
Settling  == {"mark", "end"}
Handlers  == {"cancel", "retryable", "fatal"}

\* The finally part: on the way to a return, with the RetryableRunError of the handler,
\* with an exception out of a handler, and with a CancelledError out of one.
Leaving   == {"clear", "retry", "raise", "again"}
WorkerPcs == {"idle"} \cup Leaving \cup BeforeTry \cup InsideTry \cup Settling \cup Handlers

Workers == [ pc      : WorkerPcs,                         \* "idle": no execution
             seen    : BOOLEAN,                           \* RunContext.cancel_event
             buf     : SUBSET Threads,                    \* threads with buffered chunks
             gen     : {"open", "saved", "tail", "over"}, \* how far the agent's stream is
             chunk   : ChunkKinds \cup {"none"},          \* the chunk being handled
             verdict : Terminal \cup {"none"},            \* the status to write and announce
             chunks  : Nat ]                              \* chunks received in this try

NoWorker == [ pc |-> "idle", seen |-> FALSE, buf |-> {}, gen |-> "over",
              chunk |-> "none", verdict |-> "none", chunks |-> 0 ]

\* Inside the try block an exception meets the handlers; the loop settles the run
\* while it handles a last chunk, the handlers when no chunk is handled.
InTry == w.pc \in InsideTry \/ (w.pc \in Settling /\ w.chunk # "none")

ReaderStates == [ pc     : {"poll", "fetch", "ended"},
                  cursor : Nat,                           \* events the client has received
                  snap   : Terminal \cup {"none"},        \* the row as this poll read it, if settled
                  told   : Terminal \cup {"none"} ]       \* the end event's status

TypeOK ==
    /\ row \in Active \cup Terminal
    /\ job \in {"none", "lost", "queued", "active", "done"}
    /\ tries \in 0 .. MaxTries
    /\ key \in BOOLEAN
    /\ cancelPc \in {"idle", "writes", "keeps", "committed"}
    /\ cancels \in 0 .. MaxCancels
    /\ w \in Workers
    /\ output \in {"none", "saved", "failed"}
    /\ log \in Seq(Events)
    /\ reader \in [Readers -> ReaderStates]
    /\ troubles \in 0 .. MaxTroubles
    /\ struck \in BOOLEAN
    /\ overrun \in BOOLEAN
    /\ escaped \in BOOLEAN

\* The creating API call has committed the row and has not enqueued it yet.
Init ==
    /\ row = "pending"
    /\ job = "none" /\ tries = 0
    /\ key = FALSE /\ cancelPc = "idle" /\ cancels = 0
    /\ w = NoWorker
    /\ output = "none" /\ log = <<>>
    /\ reader = [r \in Readers |->
                   [pc |-> "poll", cursor |-> 0, snap |-> "none", told |-> "none"]]
    /\ troubles = 0 /\ struck = FALSE /\ overrun = FALSE /\ escaped = FALSE

-----------------------------------------------------------------------------
(* The repository: every write locks the row, then leaves a settled one alone. *)

\* Faults: a settled row is written again; a cancel asks no status at all.
SetTerminalAlways(v)   == row' = v
SetCancelRequestAlways == row' = "cancel_requested"

\* The worker writes in sessions of their own, so that it checks what it locked.
MarkRunning      == row' = IF row \in Terminal THEN row ELSE "running"
SetTerminal(v)   == row' = IF row \in Terminal THEN row ELSE v

\* request_cancel checks the object its session loaded before the lock: without
\* populate_existing SQLAlchemy leaves a loaded object's attributes as they are,
\* also when it is selected FOR UPDATE.
SetCancelRequest == row' = IF cancelPc = "writes" THEN "cancel_requested" ELSE row

Emit(e) == log' = Append(log, e)

(* ARQ, as run_worker.py and agent_run_service.py use it. *)

\* enqueue_agent_run after the commit; the API process or Redis may fail before it.
Enqueue ==
    /\ job = "none"
    /\ job' \in {"queued", "lost"}
    /\ UNCHANGED <<row, tries, cancelVars, w, output, log, reader, history>>

Dequeue ==
    /\ job = "queued" /\ tries < MaxTries
    /\ job' = "active"
    /\ tries' = tries + 1
    /\ w' = [NoWorker EXCEPT !.pc = "load"]
    /\ UNCHANGED <<row, cancelVars, output, log, reader, history>>

\* A job whose tries are used up is dropped without calling the function.
GiveUp ==
    /\ job = "queued" /\ tries = MaxTries
    /\ job' = "done"
    /\ UNCHANGED <<row, tries, cancelVars, w, output, log, reader, history>>

\* The coroutine is gone, and its local state with it. ARQ queues a job again whose
\* coroutine was cancelled or whose worker died; after a return and after any other
\* exception, RetryableRunError and a timeout too, it is done with the job.
Leave(outcome) == w' = NoWorker /\ job' = outcome

-----------------------------------------------------------------------------
(* process_agent_run, before its try block. *)

\* Fault: a run another execution has started is skipped like a settled one.
LoadPendingOnly ==
    /\ w.pc = "load"
    /\ \/ row # "pending" /\ Leave("done")
       \/ row = "pending" /\ w' = [w EXCEPT !.pc = "validate"] /\ UNCHANGED job
    /\ UNCHANGED <<row, tries, cancelVars, output, log, reader, history>>

Load ==
    /\ w.pc = "load"
    /\ \/ row \in Terminal /\ Leave("done")
       \/ row \notin Terminal /\ w' = [w EXCEPT !.pc = "validate"] /\ UNCHANGED job
    /\ UNCHANGED <<row, tries, cancelVars, output, log, reader, history>>

\* Payload, input message, run type, user and resume input are checked.
Validate ==
    /\ w.pc = "validate"
    /\ \E next \in {"begin", "reject"} : w' = [w EXCEPT !.pc = next]
    /\ UNCHANGED <<row, jobVars, cancelVars, output, log, reader, history>>

\* An invalid run fails without an end event and without clearing the cancel key.
Reject ==
    /\ w.pc = "reject"
    /\ SetTerminal("failed")
    /\ Leave("done")
    /\ UNCHANGED <<tries, cancelVars, output, log, reader, history>>

\* mark_run_running, then the watcher of the cancel signal is started.
Begin ==
    /\ w.pc = "begin"
    /\ MarkRunning
    /\ w' = [w EXCEPT !.pc = "announce", !.gen = "open"]
    /\ UNCHANGED <<jobVars, cancelVars, output, log, reader, history>>

Announce ==
    /\ w.pc = "announce"
    /\ Emit(Event("metadata", "main"))
    /\ w' = [w EXCEPT !.pc = "stream"]
    /\ UNCHANGED <<row, jobVars, cancelVars, output, reader, history>>

WatcherAlive == w.pc \notin {"idle", "load", "validate", "reject", "begin"} \cup Leaving

\* RunContext._watch_cancel_signal notices the key or the published message.
Watch ==
    /\ WatcherAlive /\ key /\ ~w.seen
    /\ w' = [w EXCEPT !.seen = TRUE]
    /\ UNCHANGED <<row, jobVars, cancelVars, output, log, reader, history>>

-----------------------------------------------------------------------------
(* The stream loop. _consume_stream_with_cancel prefers the cancel event to  *)
(* the next chunk, so nothing is received once it is set.                    *)

Receiving == w.pc = "stream" /\ ~w.seen

\* Fault: the loop notices the cancel event only between the last message and
\* the last chunk, not while it waits for the agent.
ObserveLate ==
    /\ w.pc = "stream" /\ w.seen /\ w.gen # "open"
    /\ w' = [w EXCEPT !.pc = "cancel", !.gen = "over"]
    /\ UNCHANGED <<row, jobVars, cancelVars, output, log, reader, history>>

Observe ==
    /\ w.pc = "stream" /\ w.seen
    /\ w' = [w EXCEPT !.pc = "cancel", !.gen = "over"]
    /\ UNCHANGED <<row, jobVars, cancelVars, output, log, reader, history>>

\* A loading chunk of thread t is buffered, and the buffer of t is written out
\* when its interval or size is reached or the chunk is a tool call.
Loading(t) ==
    /\ Receiving /\ w.gen = "open" /\ w.chunks < MaxChunks
    /\ \/ /\ w' = [w EXCEPT !.buf = @ \cup {t}, !.chunks = @ + 1]
          /\ UNCHANGED log
       \/ /\ w' = [w EXCEPT !.buf = @ \ {t}, !.chunks = @ + 1]
          /\ Emit(Event("messages", t))
    /\ UNCHANGED <<row, jobVars, cancelVars, output, reader, history>>

\* The agent's state, a tool event, a compression notice, of either thread.
ReceiveCustom(k) ==
    /\ Receiving /\ w.chunks < MaxChunks
    /\ w.gen = "open" \/ (k = "custom" /\ w.gen = "tail")
    /\ w' = [w EXCEPT !.pc = "publish", !.chunk = k, !.chunks = @ + 1]
    /\ UNCHANGED <<row, jobVars, cancelVars, output, log, reader, history>>

\* save_messages_from_langgraph_state, after the last message and, when the
\* agent asks the user, after the ask chunk. A failure is only a warning chunk.
SaveOutput ==
    /\ Receiving /\ w.gen \in {"open", "tail"}
    /\ LET next == IF w.gen = "open" THEN "saved" ELSE "over" IN
       \/ output' = "saved" /\ w' = [w EXCEPT !.gen = next]
       \/ output' = "failed" /\ w' = [w EXCEPT !.gen = next, !.pc = "publish", !.chunk = "custom"]
    /\ UNCHANGED <<row, jobVars, cancelVars, log, reader, history>>

\* What is stored before a last chunk: the partial output before "interrupted"
\* (a failure is logged) and before "error".
AfterLast(k) == IF k = "interrupted" THEN {"saved", "failed"}
                ELSE IF k = "error" THEN {"saved"} ELSE {output}

\* Fault: "finished" is sent before the output is stored.
ReceiveLastEarly(k) ==
    /\ Receiving
    /\ w.gen = "open"
    /\ output' \in AfterLast(k)
    /\ w' = [w EXCEPT !.pc = "publish", !.chunk = k]
    /\ UNCHANGED <<row, jobVars, cancelVars, log, reader, history>>

\* "finished" is sent when the output has been stored; the ask chunk comes before
\* the storing.
ReceiveLast(k) ==
    /\ Receiving
    /\ w.gen = IF k = "finished" THEN "saved" ELSE "open"
    /\ output' \in AfterLast(k)
    /\ w' = [w EXCEPT !.pc = "publish", !.chunk = k]
    /\ UNCHANGED <<row, jobVars, cancelVars, log, reader, history>>

ChunkThread == IF w.chunk = "subcustom" THEN "sub" ELSE "main"

\* Fault: a last chunk is published without flushing its thread.
ToFlushLater == IF w.pc = "publish" THEN {} ELSE w.buf

\* writer.flush(thread) for the chunk's own thread, writer.flush() at the end
\* of the stream and in the handlers.
ToFlush == IF w.pc = "publish" THEN w.buf \cap {ChunkThread} ELSE w.buf

Flush(t) ==
    /\ w.pc \in {"publish", "finish"} \cup Handlers
    /\ t \in ToFlush
    /\ w' = [w EXCEPT !.buf = @ \ {t}]
    /\ Emit(Event("messages", t))
    /\ UNCHANGED <<row, jobVars, cancelVars, output, reader, history>>

PublishCustom ==
    /\ w.pc = "publish" /\ ToFlush = {}
    /\ w.chunk \in {"custom", "subcustom"}
    /\ Emit(Event("custom", ChunkThread))
    /\ w' = [w EXCEPT !.pc = "check"]
    /\ UNCHANGED <<row, jobVars, cancelVars, output, reader, history>>

\* A last chunk decides the run. Only "interrupted" (the content guard, or a
\* broken connection inside the agent) looks at the row first.
PublishLast ==
    /\ w.pc = "publish" /\ ToFlush = {}
    /\ \/ /\ w.chunk = "finished"
          /\ w' = [w EXCEPT !.pc = "mark", !.verdict = "completed", !.gen = "over"]
          /\ UNCHANGED log
       \/ /\ w.chunk = "error"
          /\ w' = [w EXCEPT !.pc = "mark", !.verdict = "failed", !.gen = "over"]
          /\ Emit(Event("error", "main"))
       \/ /\ w.chunk = "interrupted"
          /\ w' = [w EXCEPT !.pc = "decide", !.gen = "over"]
          /\ Emit(Event("interrupt", "main"))
       \/ /\ w.chunk = "ask"
          /\ w' = [w EXCEPT !.pc = "mark", !.verdict = "interrupted", !.gen = "tail"]
          /\ Emit(Event("interrupt", "main"))
    /\ UNCHANGED <<row, jobVars, cancelVars, output, reader, history>>

\* _is_cancel_requested reads the row in a session of its own.
Decide ==
    /\ w.pc = "decide"
    /\ w' = [w EXCEPT !.pc = "mark",
               !.verdict = IF row = "cancel_requested" THEN "cancelled" ELSE "interrupted"]
    /\ UNCHANGED <<row, jobVars, cancelVars, output, log, reader, history>>

\* mark_run_terminal: committed before the end event is appended.
Mark ==
    /\ w.pc = "mark"
    /\ SetTerminal(w.verdict)
    /\ w' = [w EXCEPT !.pc = "end"]
    /\ UNCHANGED <<jobVars, cancelVars, output, log, reader, history>>

\* _append_end_event announces the status asked for, whatever the row kept.
End ==
    /\ w.pc = "end"
    /\ Emit(EndEvent(w.verdict))
    /\ w' = [w EXCEPT !.pc = IF InTry THEN "check" ELSE "clear"]
    /\ UNCHANGED <<row, jobVars, cancelVars, output, reader, history>>

\* run_ctx.is_cancelled() after every chunk that is not a loading chunk. When Redis
\* fails, has_cancel_signal answers "no".
Check ==
    /\ w.pc = "check"
    /\ \/ /\ w.seen \/ key
          /\ w' = [w EXCEPT !.pc = "cancel", !.seen = TRUE, !.gen = "over",
                            !.chunk = "none", !.verdict = "none"]
       \/ /\ ~w.seen
          /\ w' = [w EXCEPT !.pc = "stream", !.chunk = "none", !.verdict = "none"]
    /\ UNCHANGED <<row, jobVars, cancelVars, output, log, reader, history>>

\* chat_service ends its stream only after a last chunk.
StreamEnd ==
    /\ Receiving /\ w.gen = "over"
    /\ w' = [w EXCEPT !.pc = "finish"]
    /\ UNCHANGED <<row, jobVars, cancelVars, output, log, reader, history>>

\* What is still buffered is flushed. terminal_set holds here (gen = "over"), so
\* the fallback that would complete a run without a last chunk is not taken.
Finish ==
    /\ w.pc = "finish" /\ ToFlush = {}
    /\ w' = [w EXCEPT !.pc = "clear"]
    /\ UNCHANGED <<row, jobVars, cancelVars, output, log, reader, history>>

-----------------------------------------------------------------------------
(* The except and finally parts of process_agent_run. *)

\* CancelledError: seen by the loop, or injected by ARQ. Both count as the user's.
HandleCancel ==
    /\ w.pc = "cancel" /\ ToFlush = {}
    /\ Emit(Event("interrupt", "main"))
    /\ w' = [w EXCEPT !.pc = "mark", !.verdict = "cancelled"]
    /\ UNCHANGED <<row, jobVars, cancelVars, output, reader, history>>

\* A retryable exception is raised as RetryableRunError unless this is the last try.
HandleError ==
    /\ w.pc \in {"retryable", "fatal"} /\ ToFlush = {}
    /\ Emit(Event("error", "main"))
    /\ \/ /\ w.pc = "retryable" /\ tries < MaxTries
          /\ w' = [w EXCEPT !.pc = "retry"]
       \/ /\ w.pc = "fatal" \/ tries >= MaxTries
          /\ w' = [w EXCEPT !.pc = "mark", !.verdict = "failed"]
    /\ UNCHANGED <<row, jobVars, cancelVars, output, reader, history>>

\* finally: the watcher is closed and the cancel key deleted; a Redis error in
\* clear_cancel_signal is logged and leaves the key. Only a CancelledError that goes
\* through it makes ARQ run the job again.
Clear ==
    /\ w.pc \in Leaving
    /\ key' \in {FALSE, key}
    /\ Leave(IF w.pc = "again" THEN "queued" ELSE "done")
    /\ escaped' = (escaped \/ w.pc \in {"retry", "raise"})
    /\ UNCHANGED <<row, tries, cancelPc, cancels, output, log, reader, troubles, struck, overrun>>

-----------------------------------------------------------------------------
(* Troubles. *)

NoEnd == \A i \in 1 .. Len(log) : log[i].type # "end"

Trouble ==
    /\ troubles < MaxTroubles
    /\ troubles' = troubles + 1
    /\ struck' = (struck \/ (row \in Terminal /\ NoEnd))
    /\ UNCHANGED <<row, tries, cancelVars, output, log, reader, overrun>>

\* The worker process dies, or ARQ cancels the coroutine in its finally part. ARQ
\* delivers the job again, a dead worker's when its in-progress mark has run out.
Crash ==
    /\ w.pc # "idle"
    /\ Leave("queued")
    /\ Trouble /\ UNCHANGED escaped

\* An awaited call fails, or ARQ cancels the coroutine (timeout, shutdown).
\* Inside the try block a handler takes over ...
FailInside ==
    /\ InTry
    /\ \E h \in Handlers :
          w' = [w EXCEPT !.pc = h, !.gen = "over",
                         !.chunk = "none", !.verdict = "none"]
    /\ Trouble
    /\ UNCHANGED <<job, escaped>>

\* ... before it ARQ is told at once, which queues only a cancelled job again ...
FailBefore ==
    /\ w.pc \in BeforeTry
    /\ \/ Leave("queued") /\ UNCHANGED escaped
       \/ Leave("done") /\ escaped' = TRUE
    /\ Trouble

\* ... and in a handler it is told through the finally part.
FailHandler ==
    /\ w.pc \in Handlers \cup Settling /\ ~InTry
    /\ \E leaving \in {"raise", "again"} : w' = [w EXCEPT !.pc = leaving]
    /\ Trouble
    /\ UNCHANGED <<job, escaped>>

-----------------------------------------------------------------------------
(* request_cancel_agent_run: one call at a time loads the run, locks and        *)
(* commits it, and publishes the signal.                                       *)

\* get_run_for_user. A row loaded as cancel_requested is not written either:
\* nothing changes in the session.
LoadForCancel ==
    /\ cancelPc = "idle" /\ cancels < MaxCancels
    /\ cancels' = cancels + 1
    /\ cancelPc' = IF row \in {"pending", "running"} THEN "writes" ELSE "keeps"
    /\ UNCHANGED <<row, jobVars, key, w, output, log, reader, history>>

RequestCancel ==
    /\ cancelPc \in {"writes", "keeps"}
    /\ SetCancelRequest
    /\ cancelPc' = "committed"
    /\ overrun' = (overrun \/ (cancelPc = "writes" /\ row \in Terminal))
    /\ UNCHANGED <<jobVars, key, cancels, w, output, log, reader, troubles, struck, escaped>>

\* publish_cancel_signal swallows Redis errors.
PublishCancel ==
    /\ cancelPc = "committed"
    /\ key' \in {TRUE, key}
    /\ cancelPc' = "idle"
    /\ UNCHANGED <<row, jobVars, cancels, w, output, log, reader, history>>

\* RUN_CANCEL_KEY_TTL_SECONDS is 1800 s and the watcher polls every 0.2 s: the
\* key runs out only while nobody watches it.
KeyExpire ==
    /\ key /\ ~WatcherAlive
    /\ key' = FALSE
    /\ UNCHANGED <<row, jobVars, cancelPc, cancels, w, output, log, reader, history>>

-----------------------------------------------------------------------------
(* stream_agent_run_events and the client behind it. *)

\* The row is read first, the events after it.
ReadRow(r) ==
    /\ reader[r].pc = "poll"
    /\ reader' = [reader EXCEPT ![r].snap = IF row \in Terminal THEN row ELSE "none",
                                ![r].pc = "fetch"]
    /\ UNCHANGED <<row, jobVars, cancelVars, w, output, log, history>>

\* One poll takes the events after the cursor up to this position.
Upto(r) == IF reader[r].cursor + BatchSize <= Len(log) THEN reader[r].cursor + BatchSize
                                                       ELSE Len(log)
NoEndIn(a, b) == \A i \in a + 1 .. b : log[i].type # "end"

\* An end event in the batch closes the connection after the whole batch.
FetchEnd(r) ==
    /\ reader[r].pc = "fetch"
    /\ \E i \in reader[r].cursor + 1 .. Upto(r) :
          /\ log[i].type = "end" /\ NoEndIn(reader[r].cursor, i - 1)
          /\ reader' = [reader EXCEPT ![r].told = log[i].status, ![r].cursor = Upto(r),
                                      ![r].snap = "none", ![r].pc = "ended"]
    /\ UNCHANGED <<row, jobVars, cancelVars, w, output, log, history>>

\* Fault: a run without its end event is closed only when it failed.
MakeUpEndFailedOnly(r) ==
    /\ reader[r].pc = "fetch"
    /\ reader[r].cursor = Len(log)
    /\ reader[r].snap = "failed"
    /\ reader' = [reader EXCEPT ![r].told = reader[r].snap, ![r].snap = "none",
                                ![r].pc = "ended"]
    /\ UNCHANGED <<row, jobVars, cancelVars, w, output, log, history>>

\* No event left and the row was settled: the end event is made up from the row.
MakeUpEnd(r) ==
    /\ reader[r].pc = "fetch"
    /\ reader[r].cursor = Len(log)
    /\ reader[r].snap \in Terminal
    /\ reader' = [reader EXCEPT ![r].told = reader[r].snap, ![r].snap = "none",
                                ![r].pc = "ended"]
    /\ UNCHANGED <<row, jobVars, cancelVars, w, output, log, history>>

FetchMore(r) ==
    /\ reader[r].pc = "fetch"
    /\ NoEndIn(reader[r].cursor, Upto(r))
    /\ reader[r].cursor # Len(log) \/ reader[r].snap \notin Terminal
    /\ reader' = [reader EXCEPT ![r].cursor = Upto(r), ![r].snap = "none", ![r].pc = "poll"]
    /\ UNCHANGED <<row, jobVars, cancelVars, w, output, log, history>>

\* The connection breaks, its time limit is reached, or row or stream cannot be
\* read; the client has received the events up to n, which becomes the after_seq
\* (Last-Event-ID) of its next connection. How long it stays away is how long the
\* next ReadRow takes to come.
Drop(r) ==
    /\ reader[r].pc = "fetch"
    /\ \E n \in reader[r].cursor .. Upto(r) :
          /\ NoEndIn(reader[r].cursor, n)
          /\ reader' = [reader EXCEPT ![r].cursor = n, ![r].snap = "none", ![r].pc = "poll"]
    /\ UNCHANGED <<row, jobVars, cancelVars, w, output, log, history>>

-----------------------------------------------------------------------------
Arq    == Dequeue \/ GiveUp
Agent  == \/ \E t \in Threads : Loading(t)
          \/ \E k \in {"custom", "subcustom"} : ReceiveCustom(k)
          \/ \E k \in LastChunks : ReceiveLast(k)
          \/ SaveOutput \/ StreamEnd
Worker == \/ Load \/ Validate \/ Reject \/ Begin \/ Announce \/ Observe
          \/ \E t \in Threads : Flush(t)
          \/ PublishCustom \/ PublishLast \/ Decide \/ Mark \/ End \/ Check \/ Finish
          \/ HandleCancel \/ HandleError \/ Clear
Troubles == Crash \/ FailInside \/ FailBefore \/ FailHandler
Canceller == LoadForCancel \/ RequestCancel \/ PublishCancel \/ KeyExpire
Fetch(r) == FetchEnd(r) \/ MakeUpEnd(r) \/ FetchMore(r)

Next == \/ Enqueue \/ Arq \/ Agent \/ Worker \/ Watch \/ Troubles \/ Canceller
        \/ \E r \in Readers : ReadRow(r) \/ Fetch(r) \/ Drop(r)

Spec == Init /\ [][Next]_vars

\* ARQ, the event loop and the readers keep going; the agent (a model call), the
\* user, failures and the creating API call owe nothing. A connection may break any
\* number of times, but not each time before the batch has been sent.
FairSpec == /\ Spec
            /\ WF_vars(Arq) /\ WF_vars(Worker) /\ WF_vars(Watch) /\ WF_vars(PublishCancel)
            /\ \A r \in Readers : WF_vars(ReadRow(r)) /\ SF_vars(Fetch(r))

-----------------------------------------------------------------------------
(* Properties. *)

IsEnd(i)     == log[i].type = "end"
IsContent(i) == log[i].type = "messages" /\ log[i].thread = "main"

\* await_agent_run_result loads the row after the stream ended and expects a
\* settled one: an end event is in the stream only when the row is settled,
\* whatever crashed, failed, was retried or cancelled, unless a cancel overran it.
EndBacked == ~NoEnd => row \in Terminal \/ overrun

\* ARQ is done with a run that is not settled only after an exception has left
\* process_agent_run (which ends the job on any try, agentrun_retry shows it) or after
\* as many troubles as there are tries: a run whose worker crashed or was cancelled is
\* tried again, each of the other ways out of process_agent_run settles it, and only a
\* cancel that overran the settled row leaves it unsettled again.
DoneSettled ==
    job = "done" /\ row \notin Terminal => escaped \/ troubles >= MaxTries \/ overrun

\* A client that was told the run ended has received every message event of the
\* run's own thread: polling the row before the events, flushing before settling
\* and never streaming after settling leave none behind its cursor, also when
\* the end event was lost and made up. (A run whose settled row was overrun may be
\* executed again when its job is redelivered.)
ContentComplete ==
    \A r \in Readers : reader[r].pc = "ended" /\ ~overrun =>
        \A i \in reader[r].cursor + 1 .. Len(log) : ~IsContent(i)

\* Cancelling, retrying and settling race for the row, and a run may announce
\* several ends; the verdict a client is told is the one the row keeps, unless a
\* failure or crash struck the worker between settling and announcing, or a cancel
\* overran the row.
VerdictAgrees ==
    \A r \in Readers : reader[r].pc = "ended" => struck \/ overrun \/ reader[r].told = row

\* A client told "completed" finds the output stored (or its storing failed and
\* was reported), because the output is stored before the finished chunk.
CompletedHasOutput ==
    \A r \in Readers : reader[r].told = "completed" => output # "none"

\* What the queue still has to do with the run, whether a worker has taken it or not.
JobLeft == CASE job = "none"               -> "none"
             [] job \in {"queued", "active"} -> "queued"
             [] OTHER                      -> "gone"

\* The row's life is the one RunLifecycle promises: settled only by an execution of
\* its job, once, never reopened by a retry, a late verdict or a redelivered job but
\* only by a cancel that overran it, and each client told one verdict, not before
\* the run was settled.
Lifecycle == INSTANCE RunLifecycle
               WITH status <- row, job <- JobLeft, answer <- [r \in Readers |-> reader[r].told]
ImplementsLifecycle == Lifecycle!Spec

\* With fewer troubles than tries, a run that reached the queue is settled, whatever
\* crashed or was cancelled on the way, provided the agent's stream goes on and no
\* exception leaves process_agent_run.
Settles == WF_vars(Agent) => ((job = "queued") ~> (row \in Terminal \/ escaped))

\* Every client is told the end of a settled run, even if the worker died
\* before it wrote the end event, unless the row is overrun first.
ReadersAnswered ==
    \A r \in Readers : (row \in Terminal) ~> (reader[r].pc = "ended" \/ overrun)

\* A published cancel ends the execution that watches it, even if the agent
\* never produces another chunk.
CancelStopsWorker == (key /\ WatcherAlive) ~> (w.pc = "idle")
=============================================================================
