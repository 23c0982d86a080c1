----------------------------- MODULE MCAgentRun -----------------------------
(***************************************************************************)
(* AgentRun for TLC: the specification, the invariant the proofs rest on,   *)
(* and what the documentation says of a run where the code does otherwise.  *)
(* The configurations give the constants: two troubles and text in the      *)
(* stream for safety, a cancel and a trouble for the rest. Readers only     *)
(* read, so that several of them can do no more than one can.               *)
(***************************************************************************)
EXTENDS AgentRunInv

\* What the subagent documentation says of a thread: when its run has reached a
\* terminal status the next one can be created, so a settled row stays settled.
SettledForGood == [][(row \in Terminal) => (row' \in Terminal)]_vars

\* What the comment on RetryableRunError says: it should trigger ARQ's retry, so that
\* a run whose try ended with it is tried again or was settled.
RetryTriggered == (w.pc = "retry") ~> (w.pc = "load" \/ row \in Terminal)

\* What the API documentation says of the result: it can be fetched once the run
\* is settled, so a run settled by the agent's own last word has its output.
ResultReady == row \in {"completed", "interrupted"} => output # "none"
=============================================================================
