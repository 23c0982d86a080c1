----------------------------- MODULE ThreadRuns -----------------------------
(***************************************************************************)
(* What creating runs promises to those who call: each call is answered as  *)
(* if it had been carried out at one moment, in which its request was new,  *)
(* its thread was free and the run it resumes was interrupted; or with the  *)
(* run that the same request has created; or refused, and then it has       *)
(* created nothing. Runs of a thread follow each other.                     *)
(***************************************************************************)
CONSTANTS Calls,      \* creating calls; a run has the name of the call that creates it
          Requests, Threads, None

VARIABLES ask,        \* [Calls -> what the call asks for]
          run,        \* [Calls -> the status of its run, or "none"]
          answer,     \* [Calls -> the run it is answered with, or None]
          reopened    \* runs a late cancel has made active again

threadVars == <<ask, run, answer, reopened>>

Active   == {"pending", "running", "cancel_requested"}
Terminal == {"completed", "interrupted"}   \* "completed" also for failed and cancelled

Asks    == [request : Requests, thread : Threads, parent : Calls \cup {None}]
Unasked == [request |-> None, thread |-> None, parent |-> None]

Created == {r \in Calls : run[r] # "none"}
Busy(t) == \E r \in Created : ask[r].thread = t /\ run[r] \in Active

\* A run that is interrupted waits for its resume; a reopened one may have gone on.
Resumable(p, t) ==
  p \in Created /\ ask[p].thread = t /\ (run[p] = "interrupted" \/ p \in reopened)

Init == /\ ask = [c \in Calls |-> Unasked]
        /\ run = [c \in Calls |-> "none"]
        /\ answer = [c \in Calls |-> None]
        /\ reopened = {}

Ask(c) == /\ ask[c] = Unasked
          /\ \E a \in Asks : ask' = [ask EXCEPT ![c] = a]
          /\ UNCHANGED <<run, answer, reopened>>

Create(c) ==
  /\ ask[c] # Unasked /\ run[c] = "none" /\ answer[c] = None
  /\ \A r \in Created : ask[r].request # ask[c].request
  /\ ~Busy(ask[c].thread)
  /\ ask[c].parent # None => Resumable(ask[c].parent, ask[c].thread)
  /\ run' = [run EXCEPT ![c] = "pending"]
  /\ UNCHANGED <<ask, answer, reopened>>

Answer(c) == /\ ask[c] # Unasked /\ answer[c] = None
             /\ \E r \in Created : ask[r] = ask[c] /\ answer' = [answer EXCEPT ![c] = r]
             /\ UNCHANGED <<ask, run, reopened>>

Refuse(c) == /\ ask[c] # Unasked /\ run[c] = "none" /\ answer[c] = None
             /\ ask' = [ask EXCEPT ![c] = Unasked]
             /\ UNCHANGED <<run, answer, reopened>>

Go(r) == /\ run[r] \in Active
         /\ \E s \in {"running", "cancel_requested"} \cup Terminal : run' = [run EXCEPT ![r] = s]
         /\ UNCHANGED <<ask, answer, reopened>>

\* A settled run is made active again only while its thread is free.
Reopen(r) == /\ run[r] \in Terminal /\ ~Busy(ask[r].thread)
             /\ run' = [run EXCEPT ![r] = "cancel_requested"]
             /\ reopened' = reopened \cup {r}
             /\ UNCHANGED <<ask, answer>>

Next == \E c \in Calls : Ask(c) \/ Create(c) \/ Answer(c) \/ Refuse(c) \/ Go(c) \/ Reopen(c)

Spec == Init /\ [][Next]_threadVars
=============================================================================
