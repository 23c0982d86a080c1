---------------------------- MODULE MCSandboxPool ---------------------------
(***************************************************************************)
(* SandboxPool for TLC: two threads of the API and one of the worker.       *)
(***************************************************************************)
EXTENDS SandboxPool

McHome == [c \in Callers |-> IF c = "w1" THEN "worker" ELSE "api"]

FairPoolSpec == PoolSpec /\ PoolFair
=============================================================================
