---------------------------- MODULE TaskRecords -----------------------------
(***************************************************************************)
(* What the task service promises of the table it keeps, across restarts    *)
(* and whatever its queue, its lock and its loops do: the record of a task  *)
(* goes one way, work on a task begins when its record says so, nothing is  *)
(* recorded as settled while it is worked on, and a service that starts     *)
(* again closes what it left unfinished before it knows any task.           *)
(***************************************************************************)
CONSTANTS Tasks

VARIABLES record,   \* [Tasks -> "new", the status in the table, or "gone"]
          known,    \* the tasks that the running service has
          doing     \* the tasks that are worked on

recordVars == <<record, known, doing>>

Active   == {"pending", "running"}
Terminal == {"success", "failed", "cancelled"}

Init == /\ record = [t \in Tasks |-> "new"]
        /\ known = {} /\ doing = {}

Add(t) == /\ record[t] = "new" /\ t \notin known
          /\ known' = known \cup {t}
          /\ UNCHANGED <<record, doing>>

Moves(t, from, to) == t \in known /\ record[t] \in from /\ record' = [record EXCEPT ![t] = to]

Save(t) == Moves(t, {"new"}, "pending") /\ UNCHANGED <<known, doing>>

Begin(t) == Moves(t, {"pending"}, "running") /\ doing' = doing \cup {t} /\ UNCHANGED known

\* Work on a task that was removed meanwhile begins all the same.
BeginRemoved(t) == /\ t \notin known \cup doing /\ record[t] \in {"pending", "gone"}
                   /\ doing' = doing \cup {t}
                   /\ UNCHANGED <<record, known>>

\* The record of a task whose beginning could not be recorded: nobody works on it.
Mark(t) == Moves(t, {"pending"}, "running") /\ UNCHANGED <<known, doing>>

Return == doing' \subseteq doing /\ UNCHANGED <<record, known>>

Settle(t) == /\ t \notin doing
             /\ \E s \in Terminal : Moves(t, Active, s)
             /\ UNCHANGED <<known, doing>>

\* A task that was not recorded is gone at once, the others with their records.
Lost(s) == [t \in Tasks |-> IF t \in s /\ record[t] = "new" THEN "gone" ELSE record[t]]

Remove == \E s \in SUBSET known : known' = known \ s /\ record' = Lost(s) /\ UNCHANGED doing

Erase(t) == /\ t \notin known /\ record[t] # "new"
            /\ record' = [record EXCEPT ![t] = "gone"]
            /\ UNCHANGED <<known, doing>>

Stop == known' = {} /\ doing' = {} /\ record' = Lost(known)

Close(t) == /\ known = {} /\ doing = {} /\ record[t] \in Active
            /\ record' = [record EXCEPT ![t] = "failed"]
            /\ UNCHANGED <<known, doing>>

\* Old records go, the service knows the rest.
Start == /\ known = {} /\ doing = {} /\ \A t \in Tasks : record[t] \notin Active
         /\ known' \subseteq {t \in Tasks : record[t] \in Terminal}
         /\ record' = [t \in Tasks |-> IF record[t] \in Terminal /\ t \notin known' THEN "gone" ELSE record[t]]
         /\ UNCHANGED doing

Next == \/ Return \/ Remove \/ Stop \/ Start
        \/ \E t \in Tasks : \/ Add(t) \/ Save(t) \/ Begin(t) \/ BeginRemoved(t) \/ Mark(t)
                            \/ Settle(t) \/ Erase(t) \/ Close(t)

Spec == Init /\ [][Next]_recordVars
=============================================================================
