---------------------------- MODULE RunLifecycle ----------------------------
(***************************************************************************)
(* What one run promises to whoever watches it: the contract between those  *)
(* who create runs and those who execute them, independent of the worker,   *)
(* the event stream and the other runs. The run is queued at most once, and *)
(* as long as it is queued it may be started, more than once, and settled;  *)
(* its status moves among the active ones until it is settled, only a       *)
(* cancel that overruns the settled row changes it afterwards, and a        *)
(* watcher is given one verdict, after the row was settled.                 *)
(***************************************************************************)
CONSTANTS Readers    \* the clients waiting for the run

Active   == {"pending", "running", "cancel_requested"}
Terminal == {"completed", "failed", "cancelled", "interrupted"}

VARIABLES status,    \* the status of the row
          job,       \* "none" before the run is enqueued, "queued", or "gone"
          answer,    \* [Readers -> the verdict given to that client, or "none"]
          overrun    \* was a settled row overwritten?

lifecycleVars == <<status, job, answer, overrun>>

Init == /\ status = "pending"
        /\ job = "none"
        /\ overrun = FALSE
        /\ answer = [r \in Readers |-> "none"]

\* The one attempt to enqueue the run, which may fail.
Enqueue == /\ job = "none"
           /\ job' \in {"queued", "gone"}
           /\ UNCHANGED <<status, answer, overrun>>

Start == /\ job = "queued" /\ status \in Active
         /\ status' = "running"
         /\ UNCHANGED <<job, answer, overrun>>

\* The job outlives the settled row, or ends with it.
Settle == /\ job = "queued" /\ status \in Active
          /\ status' \in Terminal
          /\ job' \in {"queued", "gone"}
          /\ UNCHANGED <<answer, overrun>>

\* The queue is done with the job, or its tries are used up.
Leave == /\ job = "queued"
         /\ job' = "gone"
         /\ UNCHANGED <<status, answer, overrun>>

Cancel == /\ status \in Active
          /\ status' = "cancel_requested"
          /\ UNCHANGED <<job, answer, overrun>>

\* A cancel that had read the row before it was settled.
Overrun == /\ status \in Terminal
           /\ status' = "cancel_requested"
           /\ overrun' = TRUE
           /\ UNCHANGED <<job, answer>>

\* The verdict may be another terminal status than the row's when the worker
\* was hit between settling the row and announcing it (AgentRun!VerdictAgrees).
Answer(r) == /\ status \in Terminal \/ overrun
             /\ answer[r] = "none"
             /\ \E v \in Terminal : answer' = [answer EXCEPT ![r] = v]
             /\ UNCHANGED <<status, job, overrun>>

Next == \/ Enqueue \/ Start \/ Settle \/ Leave \/ Cancel \/ Overrun
        \/ \E r \in Readers : Answer(r)

Spec == Init /\ [][Next]_lifecycleVars
=============================================================================
