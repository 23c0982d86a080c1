---------------------------- MODULE AgentRunInv ----------------------------
(***************************************************************************)
(* The inductive invariant behind AgentRun's safety properties, in named    *)
(* parts. TLC checks it on the small instances, AgentRunProofs proves it.   *)
(***************************************************************************)
EXTENDS AgentRun

Settled == row \in Terminal
Owed    == w.pc \in {"mark", "end"}    \* a verdict waits to be written or announced

\* The coroutine's local state fits the place it is at.
LocalInv ==
    /\ w.pc \in Handlers \cup {"decide", "finish"} => w.gen = "over"
    /\ w.pc = "announce" => w.gen = "open"
    /\ Owed => w.verdict \in Terminal
    /\ w.pc = "publish" => w.chunk \in ChunkKinds
    /\ w.pc = "publish" /\ w.chunk = "finished" => w.gen = "saved"
    /\ w.pc \in {"idle"} \cup BeforeTry => "main" \notin w.buf
    /\ w.pc = "idle" <=> job # "active"
    /\ job \in {"none", "lost"} => tries = 0

\* From the moment a verdict is owed, and for good once the row is settled, the
\* agent produces no more text of the run's own thread and none is buffered.
QuietInv ==
    Settled \/ Owed \/ w.pc = "decide" => w.gen \in {"tail", "over"} /\ "main" \notin w.buf

\* Where a settled row is known, and where an unsettled one is.
ProgressInv ==
    /\ w.pc \in {"validate", "reject", "begin", "announce"} => ~Settled
    /\ w.pc = "end" => Settled
    /\ w.pc \in {"stream", "check"} /\ w.gen \in {"tail", "over"} => Settled
    /\ w.pc = "publish" /\ w.chunk \in {"custom", "subcustom"} /\ w.gen \in {"tail", "over"}
          => Settled
    /\ w.pc = "finish" => Settled
    /\ w.pc = "clear" => Settled

\* As long as the row is not settled and no exception has left process_agent_run
\* every try but the current one cost a trouble, and a try on its way back to the
\* queue did so too.
TriesInv ==
    ~Settled /\ ~escaped =>
        /\ job = "queued" => tries <= troubles
        /\ job = "active" => tries <= troubles + 1
        /\ w.pc = "again" => tries <= troubles
        /\ job = "done" => troubles >= MaxTries

\* The stream: a first end event agrees with the row unless a trouble struck, and
\* no text of the run's own thread follows an end event.
FirstEnd(i) == IsEnd(i) /\ NoEndIn(0, i - 1)
StreamInv ==
    /\ ~NoEnd => Settled
    /\ \A i \in 1 .. Len(log) : FirstEnd(i) => struck \/ log[i].status = row
    /\ \A i, j \in 1 .. Len(log) : IsEnd(i) /\ i < j => ~IsContent(j)

\* A settled row without its end event: the worker is about to announce just that
\* status, or nobody will, or a trouble struck.
AnnounceInv ==
    Settled /\ NoEnd /\ ~struck =>
        w.pc \in {"idle", "load"} \/ (w.pc = "end" /\ w.verdict = row)

\* "completed" is said nowhere before the output was dealt with.
OutputInv ==
    \/ output # "none"
    \/ /\ w.gen # "saved" /\ w.verdict # "completed" /\ row # "completed"
       /\ \A i \in 1 .. Len(log) : log[i].status # "completed"

\* What the stream and the readers hold makes sense by itself: an end event has a
\* verdict, a reader is told one when it ends and not before, and "completed" is told
\* or read from the row only after the output was dealt with.
ClientInv ==
    /\ \A i \in 1 .. Len(log) : IsEnd(i) => log[i].status \in Terminal
    /\ \A r \in Readers :
          /\ reader[r].cursor <= Len(log)
          /\ reader[r].told \in Terminal <=> reader[r].pc = "ended"
          /\ "completed" \in {reader[r].snap, reader[r].told} => output # "none"

\* What a reader knows is true.
Knows(r) ==
    /\ reader[r].snap # "none" => reader[r].snap = row
    /\ reader[r].pc # "ended" => NoEndIn(0, reader[r].cursor)
    /\ reader[r].pc = "ended" =>
          /\ Settled
          /\ struck \/ reader[r].told = row
          /\ \A i \in reader[r].cursor + 1 .. Len(log) : ~IsContent(i)
ReaderInv == \A r \in Readers : Knows(r)

\* What holds of a row that no cancel has overrun.
RowInv == /\ QuietInv /\ ProgressInv /\ TriesInv
          /\ StreamInv /\ AnnounceInv /\ ReaderInv

\* What makes the safety properties above inductive: every step of the worker,
\* of a failure, of a cancelling call and of a reader keeps these parts together.
IndInv == /\ TypeOK /\ LocalInv /\ OutputInv /\ ClientInv
          /\ overrun \/ RowInv
=============================================================================
