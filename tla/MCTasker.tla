------------------------------ MODULE MCTasker ------------------------------
(***************************************************************************)
(* Tasker for TLC, and what the code says of its shutdown.                  *)
(***************************************************************************)
EXTENDS Tasker, TLC

Loops == Permutations(Workers)

\* shutdown waits for the loops it has cancelled and then logs "Tasker shutdown
\* complete"; the application closes its sandboxes and connections after that.
ShutdownEnds == (phase = "stopping") ~> (phase = "down")
=============================================================================
