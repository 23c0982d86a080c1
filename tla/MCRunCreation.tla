--------------------------- MODULE MCRunCreation ----------------------------
(***************************************************************************)
(* RunCreation for TLC, without the behaviours that differ from others in   *)
(* the names of requests and threads only, and what the code tells the user *)
(* of a busy thread.                                                        *)
(***************************************************************************)
EXTENDS RunCreation

\* Requests and threads are only compared: it is enough that the first call asks for one
\* request in one thread. TLC's own symmetry would not do for liveness.
FirstRequest == CHOOSE q \in Requests : TRUE
FirstThread  == CHOOSE t \in Threads : TRUE
FirstNext ==
    /\ Next
    /\ call'[1].request \in {FirstRequest, None} /\ call'[1].thread \in {FirstThread, None}
FirstFairSpec == Init /\ [][FirstNext]_vars /\ Fair

\* A call that is refused because the thread is busy is told to wait for the current run,
\* or to cancel it, before going on: a run asked to cancel does not stay active for ever.
CancelFreesThread ==
    \A r \in Runs : (status[r] = "cancel_requested" /\ r \notin overrun) ~> (status[r] \notin Active)
=============================================================================
