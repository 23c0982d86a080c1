---------------------------- MODULE RunCreation -----------------------------
(***************************************************************************)
(* Creating agent runs: concurrent API calls, retried by their clients,     *)
(* that create a run for a thread or resume an interrupted one. Each call   *)
(* has a transaction of its own (READ COMMITTED), and two unique indexes    *)
(* decide what the checks before the insert cannot: one run per request id, *)
(* one active run per thread. Calls that cancel write the same rows. What a *)
(* worker does with a run is the lifecycle that AgentRun implements.        *)
(***************************************************************************)
EXTENDS Naturals, Sequences, FiniteSets

CONSTANTS
    Requests,      \* idempotency keys: chosen by clients, or derived from a resume
    Threads,       \* a conversation of one user with one agent
    MaxCalls,      \* bound: creating calls
    MaxFails,      \* bound: calls that die, or fail on Redis or the database, and
                   \* jobs given up
    MaxCancels     \* bound: cancelling calls

Calls == 1 .. MaxCalls    \* in the order in which they begin
Runs  == Calls            \* a run has the name of the call that creates it
None  == 0                \* no run, and neither a request nor a thread

ASSUME CreationAssumption ==
    /\ MaxCalls \in Nat /\ MaxFails \in Nat /\ MaxCancels \in Nat
    /\ None \notin Requests \cup Threads

VARIABLES
    call,      \* [Calls -> [pc, request, thread, parent, answer]]
    status,    \* [Runs -> the committed row's status, or "none"]
    message,   \* [Calls -> its input message: "none", "written" or "stored"]
    order,     \* runs by created_at
    jobs,      \* runs in the queue of the workers
    cancels,   \* runs loaded by a cancelling call before its lock
    asked,     \* cancelling calls so far
    fails,
    lost,      \* history: committed runs that are never enqueued, or given up
    overrun    \* history: settled runs set back to cancel_requested

history == <<lost, overrun>>
vars == <<call, status, message, order, jobs, cancels, asked, fails, history>>

Active   == {"pending", "running", "cancel_requested"}
Terminal == {"completed", "interrupted"}   \* "completed" also for failed and cancelled

Pcs == {"idle", "find", "parent", "active", "insert", "collided", "commit", "enqueue", "done"}

\* A call before it begins, and one that has created nothing.
Blank(place) == [pc |-> place, request |-> None, thread |-> None, parent |-> None, answer |-> None]

Rows == {c \in Runs : status[c] # "none"}

TypeOK ==
    /\ call \in [Calls -> [pc : Pcs, request : Requests \cup {None}, thread : Threads \cup {None},
                           parent : Runs \cup {None}, answer : Runs \cup {None}]]
    /\ status \in [Runs -> Active \cup Terminal \cup {"none"}]
    /\ message \in [Calls -> {"none", "written", "stored"}]
    /\ order \in Seq(Runs) /\ Len(order) <= MaxCalls
    /\ jobs \subseteq Runs /\ cancels \subseteq Runs
    /\ asked \in 0 .. MaxCancels /\ fails \in 0 .. MaxFails
    /\ lost \subseteq Runs /\ overrun \subseteq Runs

Init ==
    /\ call = [c \in Calls |-> Blank("idle")]
    /\ status = [c \in Runs |-> "none"] /\ message = [c \in Calls |-> "none"]
    /\ order = <<>> /\ jobs = {} /\ cancels = {} /\ asked = 0 /\ fails = 0
    /\ lost = {} /\ overrun = {}

-----------------------------------------------------------------------------
(* A creating call. *)

At(c, place) == call[c].pc = place
Goto(c, place) == call' = [call EXCEPT ![c].pc = place]
Answer(c, run) == call' = [call EXCEPT ![c].pc = "done", ![c].answer = run]

\* 404, 409 (run_busy, a request id of another scope, a parent not interrupted), 422 or
\* 500: the caller is told which, and the transaction is rolled back.
Refuse(c) == call' = [call EXCEPT ![c] = Blank("done")]
tables == <<status, message, order, jobs, cancels, asked, fails, history>>

ActiveIn(thread) == {d \in Rows : call[d].thread = thread /\ status[d] \in Active}

\* _same_run_request_scope: thread stands for user, agent and conversation, parent
\* for the run's type and the run it resumes.
SameScope(c, d) == call[c].thread = call[d].thread /\ call[c].parent = call[d].parent

\* A chat has no parent; a resume names the run it resumes.
Begin(c) ==
    /\ At(c, "idle") /\ \A d \in Calls : d < c => ~At(d, "idle")
    /\ \E q \in Requests, t \in Threads, p \in Rows \cup {None} :
          call' = [call EXCEPT ![c] = [pc |-> "find", request |-> q, thread |-> t,
                                       parent |-> p, answer |-> None]]
    /\ UNCHANGED tables

Find(c) ==
    /\ At(c, "find")
    /\ LET found == {d \in Rows : call[d].request = call[c].request} IN
       \/ /\ found = {} /\ Goto(c, IF call[c].parent = None THEN "active" ELSE "parent")
       \/ \E d \in found : IF SameScope(c, d) THEN Answer(c, d) ELSE Refuse(c)
    /\ UNCHANGED tables

\* Fault: any run of the thread can be resumed.
CheckParentThread(c) ==
    /\ At(c, "parent")
    /\ IF call[call[c].parent].thread = call[c].thread THEN Goto(c, "active") ELSE Refuse(c)
    /\ UNCHANGED tables

CheckParent(c) ==
    /\ At(c, "parent")
    /\ LET p == call[c].parent IN
       IF call[p].thread = call[c].thread /\ status[p] = "interrupted"
       THEN Goto(c, "active") ELSE Refuse(c)
    /\ UNCHANGED tables

CheckActive(c) ==
    /\ At(c, "active")
    /\ IF ActiveIn(call[c].thread) = {} THEN Goto(c, "insert") ELSE Refuse(c)
    /\ UNCHANGED tables

\* Rows inserted and not yet committed: nobody reads them, the indexes see them.
Inserted == {d \in Calls : At(d, "commit")}
Clashes(c, d) == call[c].request = call[d].request \/ call[c].thread = call[d].thread

\* Fault: nothing but the request id is unique.
CollidesById(c) == \E d \in Rows : call[c].request = call[d].request

\* The two unique indexes.
Collides(c) == \/ \E d \in Rows : call[c].request = call[d].request
               \/ ActiveIn(call[c].thread) # {}

\* The input message, then the row in a savepoint. An insert waits for a transaction
\* that has inserted a clashing row; IntegrityError undoes only the row.
Insert(c) ==
    /\ At(c, "insert") /\ \A d \in Inserted : ~Clashes(c, d)
    /\ message' = [message EXCEPT ![c] = "written"]
    /\ Goto(c, IF Collides(c) THEN "collided" ELSE "commit")
    /\ UNCHANGED <<status, order, jobs, cancels, asked, fails, history>>

\* Fault: the message of a call that found another's run is kept, and committed with
\* the call's session.
RematchKeeps(c) ==
    /\ At(c, "collided")
    /\ LET found == {d \in Rows : call[d].request = call[c].request /\ SameScope(c, d)} IN
       \/ \E d \in found : Answer(c, d) /\ message' = [message EXCEPT ![c] = "stored"]
       \/ found = {} /\ Refuse(c) /\ message' = [message EXCEPT ![c] = "none"]
    /\ UNCHANGED <<status, order, jobs, cancels, asked, fails, history>>

\* After IntegrityError the run of the same request is looked for; when it is there the
\* call takes back its message and answers with that run, otherwise it is refused.
Rematch(c) ==
    /\ At(c, "collided")
    /\ LET found == {d \in Rows : call[d].request = call[c].request /\ SameScope(c, d)} IN
       \/ \E d \in found : Answer(c, d) /\ message' = [message EXCEPT ![c] = "none"]
       \/ found = {} /\ Refuse(c) /\ message' = [message EXCEPT ![c] = "none"]
    /\ UNCHANGED <<status, order, jobs, cancels, asked, fails, history>>

Commit(c) ==
    /\ At(c, "commit")
    /\ status' = [status EXCEPT ![c] = "pending"]
    /\ message' = [message EXCEPT ![c] = "stored"]
    /\ order' = Append(order, c)
    /\ Goto(c, "enqueue")
    /\ UNCHANGED <<jobs, cancels, asked, fails, history>>

\* Fault: the job is named for the thread, and ARQ ignores a name it still knows.
EnqueueByThread(c) ==
    /\ At(c, "enqueue")
    /\ jobs' = IF \E d \in Rows : d # c /\ call[d].thread = call[c].thread THEN jobs ELSE jobs \cup {c}
    /\ Answer(c, c)
    /\ UNCHANGED <<status, message, order, cancels, asked, fails, history>>

Enqueue(c) ==
    /\ At(c, "enqueue")
    /\ jobs' = jobs \cup {c}
    /\ Answer(c, c)
    /\ UNCHANGED <<status, message, order, cancels, asked, fails, history>>

\* The call fails: what it has not committed is rolled back.
Fail(c) ==
    /\ ~At(c, "idle") /\ ~At(c, "done")
    /\ fails < MaxFails /\ fails' = fails + 1
    /\ IF At(c, "enqueue")
       THEN lost' = lost \cup {c} /\ Goto(c, "done") /\ UNCHANGED message
       ELSE /\ message' = [message EXCEPT ![c] = "none"]
            /\ Refuse(c) /\ UNCHANGED lost
    /\ UNCHANGED <<status, order, jobs, cancels, asked, overrun>>

-----------------------------------------------------------------------------
(* Workers, as far as creation sees them, and cancelling calls. *)

\* Fault: a job that is delivered again starts its run whatever the row says.
StartSettled(r) ==
    /\ r \in jobs /\ status[r] # "running"
    /\ status' = [status EXCEPT ![r] = "running"]
    /\ UNCHANGED <<call, message, order, jobs, cancels, asked, fails, history>>

\* A job is taken once its run is committed, also again after a crash.
Start(r) ==
    /\ r \in jobs /\ status[r] \in {"pending", "cancel_requested"}
    /\ status' = [status EXCEPT ![r] = "running"]
    /\ UNCHANGED <<call, message, order, jobs, cancels, asked, fails, history>>

\* A run that is not valid is settled before it is started.
Settle(r) ==
    /\ r \in jobs /\ status[r] \in Active
    /\ \E s \in Terminal : status' = [status EXCEPT ![r] = s]
    /\ UNCHANGED <<call, message, order, jobs, cancels, asked, fails, history>>

\* The job ends some time after the row is settled: until then it may be delivered
\* again, and finds the row settled, unless a late cancel has reopened it.
JobEnds(r) ==
    /\ r \in jobs /\ status[r] \in Terminal
    /\ jobs' = jobs \ {r}
    /\ UNCHANGED <<call, status, message, order, cancels, asked, fails, history>>

\* ARQ is done with a run that is not settled: an exception left process_agent_run, or
\* the tries are used up (AgentRun!DoneSettled).
GiveUp(r) ==
    /\ r \in jobs /\ status[r] \in Active
    /\ fails < MaxFails /\ fails' = fails + 1
    /\ jobs' = jobs \ {r} /\ lost' = lost \cup {r}
    /\ UNCHANGED <<call, status, message, order, cancels, asked, overrun>>

LoadForCancel(r) ==
    /\ status[r] \in Active /\ r \notin cancels /\ asked < MaxCancels
    /\ asked' = asked + 1 /\ cancels' = cancels \cup {r}
    /\ UNCHANGED <<call, status, message, order, jobs, fails, history>>

\* The write goes by the status that was loaded (see AgentRun!SetCancelRequest). It makes
\* a settled run active again, unless the index refuses that: the call fails then.
RequestCancel(r) ==
    /\ r \in cancels
    /\ cancels' = cancels \ {r}
    /\ IF status[r] \in Active
       THEN status' = [status EXCEPT ![r] = "cancel_requested"] /\ UNCHANGED overrun
       ELSE /\ \A d \in Inserted : call[d].thread # call[r].thread
            /\ IF ActiveIn(call[r].thread) = {}
               THEN /\ status' = [status EXCEPT ![r] = "cancel_requested"]
                    /\ overrun' = overrun \cup {r}
               ELSE UNCHANGED <<status, overrun>>
    /\ UNCHANGED <<call, message, order, jobs, asked, fails, lost>>

-----------------------------------------------------------------------------
Create(c) == \/ Find(c) \/ CheckParent(c) \/ CheckActive(c) \/ Insert(c) \/ Rematch(c)
             \/ Commit(c) \/ Enqueue(c)
Work(r)   == Start(r) \/ Settle(r) \/ JobEnds(r)

Next == \E c \in Calls : \/ Begin(c) \/ Create(c) \/ Fail(c)
                         \/ Work(c) \/ GiveUp(c) \/ LoadForCancel(c) \/ RequestCancel(c)

Spec == Init /\ [][Next]_vars

\* Calls that have begun go on, and a queued run is started and settled or given up
\* (AgentRun!Settles, whose escaped is a GiveUp here).
Fair == \A c \in Calls : WF_vars(Create(c)) /\ WF_vars(Work(c)) /\ WF_vars(RequestCancel(c))
FairSpec == Spec /\ Fair

-----------------------------------------------------------------------------
(* Properties. *)

\* Whatever creating, retrying and cancelling calls do, a thread has one active run.
OneActive == \A t \in Threads : Cardinality(ActiveIn(t)) <= 1

\* A request creates one run however often it is sent, and every call that is answered
\* is answered with the run it would have created.
RequestOnce ==
    /\ \A c, d \in Rows : call[c].request = call[d].request => c = d
    /\ \A c \in Calls : call[c].answer # None =>
          LET r == call[c].answer IN
          /\ r \in Rows /\ call[r].request = call[c].request
          /\ call[r].thread = call[c].thread /\ call[r].parent = call[c].parent

\* The conversation holds one input message for each run, and none of a call that did
\* not create one.
MessagesOwned == \A c \in Calls : message[c] = "stored" <=> c \in Rows

\* A run that was resumed stays interrupted, although the two were checked long before
\* the insert and a late cancel may write the parent's row. A run that such a cancel has
\* reopened may have been executed again.
ResumesInterrupted ==
    \A c \in Rows : call[c].parent # None =>
        /\ call[call[c].parent].thread = call[c].thread
        /\ status[call[c].parent] = "interrupted" \/ call[c].parent \in overrun

\* get_active_run_by_thread shows the latest run of a thread for the thread: no other
\* one is active, unless a late cancel has reopened it.
LatestSpeaks ==
    \A t \in Threads : \A r \in ActiveIn(t) \ overrun :
        \A i, j \in 1 .. Len(order) :
            order[i] = r /\ call[order[j]].thread = t => j <= i

\* Creating is atomic for those who call: whatever other calls do between the checks,
\* the insert and the commit, the run appears at one moment at which all that was
\* checked holds, and a call that is refused has created nothing.
AskOf(c) == [request |-> call[c].request, thread |-> call[c].thread, parent |-> call[c].parent]
Creating == INSTANCE ThreadRuns
              WITH ask <- [c \in Calls |-> AskOf(c)], run <- status,
                   answer <- [c \in Calls |-> call[c].answer], reopened <- overrun
ImplementsThreadRuns == Creating!Spec

\* What the queue still has to do with a run.
JobLeft(r) == IF r \in jobs THEN "queued"
              ELSE IF status[r] = "none" \/ At(r, "enqueue") THEN "none" ELSE "gone"

\* Every run lives the life that AgentRun implements for one run: what workers and
\* cancelling calls do to the rows here is what they do there.
Life(r) == INSTANCE RunLifecycle
             WITH Readers <- {}, answer <- [x \in {} |-> "none"], job <- JobLeft(r),
                  status <- IF status[r] = "none" THEN "pending" ELSE status[r],
                  overrun <- r \in overrun
RunsKeepLifecycle ==
    /\ \A r \in Runs : Life(r)!Init
    /\ [][\A r \in Runs : [Life(r)!Next]_(Life(r)!lifecycleVars)]_vars

\* A run that occupies its thread is on its way to the queue or in it, unless the call
\* that created it failed before enqueueing it, its job was given up, or a late cancel
\* reopened it: nobody else would settle it, and its thread would stay busy.
ActiveServed ==
    \A r \in Runs : status[r] \in Active => r \in jobs \/ At(r, "enqueue") \/ r \in lost \cup overrun

\* Every run is settled, whose creating call lived to enqueue it.
RunsSettle ==
    \A r \in Runs : (status[r] \in Active) ~> (status[r] \in Terminal \/ r \in lost \/ r \in overrun)
=============================================================================
