------------------------- MODULE RunCreationProofs --------------------------
(***************************************************************************)
(* Proofs about RunCreation, for every set of requests and threads and any  *)
(* number of creating, failing and cancelling calls.                        *)
(***************************************************************************)
EXTENDS RunCreation, FiniteSetTheorems, TLAPS

-----------------------------------------------------------------------------
(* How a step changes a call *)

CallRecords == [pc : Pcs, request : Requests \cup {None}, thread : Threads \cup {None},
                parent : Runs \cup {None}, answer : Runs \cup {None}]

Same(c) == /\ call'[c].request = call[c].request /\ call'[c].thread = call[c].thread
           /\ call'[c].parent = call[c].parent

LEMMA GotoFacts ==
  ASSUME TypeOK, NEW c \in Calls, NEW place \in Pcs, Goto(c, place)
  PROVE  /\ call' \in [Calls -> CallRecords] /\ \A d \in Calls \ {c} : call'[d] = call[d]
         /\ call'[c].pc = place /\ call'[c].answer = call[c].answer /\ Same(c)
BY DEF TypeOK, Goto, CallRecords, Same

LEMMA AnswerFacts ==
  ASSUME TypeOK, NEW c \in Calls, NEW d \in Runs, Answer(c, d)
  PROVE  /\ call' \in [Calls -> CallRecords] /\ \A e \in Calls \ {c} : call'[e] = call[e]
         /\ call'[c].pc = "done" /\ call'[c].answer = d /\ Same(c)
BY ZenonT(60) DEF TypeOK, Answer, CallRecords, Same, Pcs

LEMMA RefuseFacts ==
  ASSUME TypeOK, NEW c \in Calls, Refuse(c)
  PROVE  /\ call' \in [Calls -> CallRecords] /\ \A d \in Calls \ {c} : call'[d] = call[d]
         /\ call'[c].pc = "done" /\ call'[c].answer = None /\ call'[c].parent = None
BY DEF TypeOK, Refuse, Blank, CallRecords, Pcs

\* A step changes no call but c.
Advances(c) == call' \in [Calls -> CallRecords] /\ \A d \in Calls \ {c} : call'[d] = call[d]

LEMMA NoneIsNoRun == None \notin Runs
BY CreationAssumption DEF None, Runs, Calls

-----------------------------------------------------------------------------
(* States of calls and rows *)

StateInv ==
  /\ \A c \in Calls :
       /\ status[c] # "none" => call[c].pc \in {"enqueue", "done"}
       /\ call[c].pc = "enqueue" => status[c] \in Active /\ c \notin jobs
       /\ message[c] = "stored" <=> status[c] # "none"
       /\ c \in jobs => status[c] # "none" /\ call[c].pc = "done"
       /\ status[c] \in Terminal => call[c].pc = "done"
       /\ c \in cancels => status[c] # "none"
  /\ \A i \in 1 .. Len(order) : order[i] \in Rows
  /\ Len(order) = Cardinality(Rows)

LEMMA RowsSame ==
  ASSUME \A c \in Runs : status'[c] = "none" <=> status[c] = "none"
  PROVE  Rows' = Rows
BY DEF Rows

LEMMA FewRows ==
  ASSUME NEW S \in SUBSET Runs
  PROVE  IsFiniteSet(S) /\ Cardinality(S) \in Nat /\ Cardinality(S) <= MaxCalls
<1>1. IsFiniteSet(1 .. MaxCalls) /\ Cardinality(1 .. MaxCalls) = MaxCalls
  BY FS_Interval, CreationAssumption
<1> QED BY <1>1, FS_Subset, FS_CardinalityType DEF Runs, Calls

LEMMA StateInit == Init => TypeOK /\ StateInv
<1> SUFFICES ASSUME Init PROVE TypeOK /\ StateInv
  OBVIOUS
<1>1. Rows = {}
  BY DEF Init, Rows, Runs
<1> QED BY <1>1, FS_EmptySet, CreationAssumption
        DEF Init, TypeOK, StateInv, Blank, Pcs, Runs, Active, Terminal, None

LEMMA StateStep == TypeOK /\ StateInv /\ [Next]_vars => TypeOK' /\ StateInv'
<1> SUFFICES ASSUME TypeOK, StateInv, [Next]_vars PROVE TypeOK' /\ StateInv'
  OBVIOUS
<1> USE CreationAssumption DEF At, tables, history, Runs
<1>1. ASSUME UNCHANGED tables, NEW c \in Calls, Advances(c), status[c] = "none", call'[c].pc # "enqueue"
      PROVE  TypeOK' /\ StateInv'
  <2>1. Rows' = Rows
    BY <1>1, RowsSame
  <2>2. TypeOK'
    BY <1>1 DEF TypeOK, Advances, CallRecords
  <2>3. c \notin jobs
    BY <1>1 DEF StateInv
  <2> QED BY <1>1, <2>1, <2>2, <2>3 DEF StateInv, Advances, Terminal
<1>2. ASSUME NEW c \in Calls, call[c].pc \notin {"enqueue", "done"} PROVE status[c] = "none"
  BY <1>2 DEF StateInv
<1>3. ASSUME NEW c \in Calls, Begin(c) PROVE TypeOK' /\ StateInv'
  <2>1. Advances(c) /\ call'[c].pc = "find"
    <3>1. PICK q \in Requests, t \in Threads, p \in Rows \cup {None} :
             call' = [call EXCEPT ![c] = [pc |-> "find", request |-> q, thread |-> t, parent |-> p, answer |-> None]]
      BY <1>3 DEF Begin
    <3>2. p \in Runs \cup {None}
      BY DEF Rows
    <3>3. [pc |-> "find", request |-> q, thread |-> t, parent |-> p, answer |-> None] \in CallRecords
      BY <3>2 DEF CallRecords, Pcs
    <3> QED BY <3>1, <3>3 DEF TypeOK, Advances, CallRecords
  <2> QED BY <1>1, <1>2, <1>3, <2>1 DEF Begin
<1>4. ASSUME NEW c \in Calls, Find(c) \/ CheckParent(c) \/ CheckActive(c) PROVE TypeOK' /\ StateInv'
  <2>1. Advances(c) /\ call'[c].pc # "enqueue"
    <3>1. CASE \E place \in Pcs \ {"enqueue"} : Goto(c, place)
      BY <3>1, GotoFacts DEF Advances
    <3>2. CASE \E d \in Runs : Answer(c, d)
      BY <3>2, AnswerFacts DEF Advances
    <3>3. CASE Refuse(c)
      BY <3>3, RefuseFacts DEF Advances
    <3> QED BY <1>4, <3>1, <3>2, <3>3 DEF Find, CheckParent, CheckActive, Rows, Pcs
  <2>2. call[c].pc \notin {"enqueue", "done"} /\ UNCHANGED tables
    BY <1>4 DEF Find, CheckParent, CheckActive
  <2> QED BY <1>1, <1>2, <2>1, <2>2
<1>5. ASSUME NEW c \in Calls, Insert(c) \/ Rematch(c) PROVE TypeOK' /\ StateInv'
  <2>1. Advances(c) /\ call'[c].pc # "enqueue"
    <3>1. CASE \E place \in Pcs \ {"enqueue"} : Goto(c, place)
      BY <3>1, GotoFacts DEF Advances
    <3>2. CASE \E d \in Runs : Answer(c, d)
      BY <3>2, AnswerFacts DEF Advances
    <3>3. CASE Refuse(c)
      BY <3>3, RefuseFacts DEF Advances
    <3> QED BY <1>5, <3>1, <3>2, <3>3 DEF Insert, Rematch, Rows, Pcs
  <2>2. /\ call[c].pc \notin {"enqueue", "done"} /\ UNCHANGED <<status, order, jobs, cancels, asked, fails, lost, overrun>>
        /\ \/ message' = [message EXCEPT ![c] = "written"]
           \/ message' = [message EXCEPT ![c] = "none"]
    BY <1>5 DEF Insert, Rematch
  <2>3. status[c] = "none"
    BY <1>2, <2>2
  <2>4. /\ message' \in [Calls -> {"none", "written", "stored"}] /\ message'[c] # "stored"
        /\ \A d \in Calls \ {c} : message'[d] = message[d]
    BY <2>2 DEF TypeOK
  <2>5. Rows' = Rows
    BY <2>2, RowsSame
  <2>6. c \notin jobs
    BY <2>3 DEF StateInv
  <2>7. TypeOK'
    BY <2>1, <2>2, <2>4 DEF TypeOK, Advances, CallRecords
  <2> QED BY <2>1, <2>2, <2>3, <2>4, <2>5, <2>6, <2>7 DEF StateInv, Advances, Terminal
<1>6. ASSUME NEW c \in Calls, Commit(c) PROVE TypeOK' /\ StateInv'
  <2>1. Advances(c) /\ call'[c].pc = "enqueue"
    BY <1>6, GotoFacts DEF Commit, Advances, Pcs
  <2>2. /\ call[c].pc = "commit" /\ UNCHANGED <<jobs, cancels, asked, fails, lost, overrun>>
        /\ status' = [status EXCEPT ![c] = "pending"] /\ message' = [message EXCEPT ![c] = "stored"]
        /\ order' = Append(order, c)
    BY <1>6 DEF Commit
  <2>3. status[c] = "none"
    BY <1>2, <2>2
  <2>4. /\ message' \in [Calls -> {"none", "written", "stored"}] /\ message'[c] = "stored"
        /\ \A d \in Calls \ {c} : message'[d] = message[d] /\ status'[d] = status[d]
        /\ status'[c] = "pending" /\ status' \in [Runs -> Active \cup Terminal \cup {"none"}]
    BY <2>2 DEF TypeOK, Active
  <2>5. Rows' = Rows \cup {c} /\ c \notin Rows
    BY <2>3, <2>4 DEF Rows
  <2>6. c \notin jobs
    BY <2>3 DEF StateInv
  <2>7. Rows \in SUBSET Runs /\ Rows' \in SUBSET Runs
    BY DEF Rows
  <2>8. Cardinality(Rows') = Cardinality(Rows) + 1
    BY <2>5, <2>7, FewRows, FS_AddElement
  <2>9. order \in Seq(Runs) /\ Len(order) = Cardinality(Rows) /\ \A i \in 1 .. Len(order) : order[i] \in Rows
    BY DEF TypeOK, StateInv
  <2>10. /\ order' \in Seq(Runs) /\ Len(order') = Cardinality(Rows')
         /\ \A i \in 1 .. Len(order') : order'[i] \in Rows'
    BY <2>2, <2>5, <2>8, <2>9
  <2>11. Len(order') <= MaxCalls
    BY <2>7, <2>10, FewRows
  <2>12. TypeOK'
    BY <2>1, <2>2, <2>4, <2>10, <2>11 DEF TypeOK, Advances, CallRecords
  <2> QED BY <2>1, <2>2, <2>4, <2>6, <2>10, <2>12 DEF StateInv, Advances, Terminal, Active
<1>7. ASSUME NEW c \in Calls, Enqueue(c) PROVE TypeOK' /\ StateInv'
  <2>1. Advances(c) /\ call'[c].pc = "done"
    BY <1>7, AnswerFacts DEF Enqueue, Advances
  <2>2. /\ call[c].pc = "enqueue" /\ jobs' = jobs \cup {c}
        /\ UNCHANGED <<status, message, order, cancels, asked, fails, lost, overrun>>
    BY <1>7 DEF Enqueue
  <2>3. status[c] \in Active
    BY <2>2 DEF StateInv
  <2>4. Rows' = Rows
    BY <2>2, RowsSame
  <2>5. TypeOK'
    BY <2>1, <2>2 DEF TypeOK, Advances, CallRecords
  <2> QED BY <2>1, <2>2, <2>3, <2>4, <2>5 DEF StateInv, Advances, Terminal, Active
<1>8. ASSUME NEW c \in Calls, Fail(c) PROVE TypeOK' /\ StateInv'
  <2>1. Advances(c) /\ call'[c].pc = "done"
    BY <1>8, GotoFacts, RefuseFacts DEF Fail, Advances, Pcs
  <2>2. /\ UNCHANGED <<status, order, jobs, cancels, asked, overrun>> /\ fails' \in 0 .. MaxFails
        /\ lost' \in SUBSET Runs /\ message' \in [Calls -> {"none", "written", "stored"}]
        /\ \A d \in Calls \ {c} : message'[d] = message[d]
        /\ message'[c] # message[c] => status[c] = "none" /\ message'[c] = "none"
    BY <1>2, <1>8 DEF Fail, TypeOK
  <2>3. Rows' = Rows
    BY <2>2, RowsSame
  <2>4. TypeOK'
    BY <2>1, <2>2 DEF TypeOK, Advances, CallRecords
  <2> QED BY <2>1, <2>2, <2>3, <2>4 DEF StateInv, Advances, Terminal, Active
<1>9. ASSUME NEW r \in Runs, Work(r) \/ GiveUp(r) \/ LoadForCancel(r) \/ RequestCancel(r) PROVE TypeOK' /\ StateInv'
  <2>1. /\ UNCHANGED <<call, message, order>> /\ jobs' \subseteq jobs /\ lost' \subseteq lost \cup {r}
        /\ \A s \in Runs \ {r} : status'[s] = status[s]
        /\ cancels' \subseteq cancels \cup {r} /\ overrun' \subseteq overrun \cup {r}
    BY <1>9 DEF Work, Start, Settle, JobEnds, GiveUp, LoadForCancel, RequestCancel, TypeOK
  <2>2. status[r] # "none" /\ status' \in [Runs -> Active \cup Terminal \cup {"none"}]
    BY <1>9 DEF Work, Start, Settle, JobEnds, GiveUp, LoadForCancel, RequestCancel, TypeOK, Active, Terminal, StateInv
  <2>3. /\ status'[r] # "none"
        /\ status'[r] \in Terminal => status[r] \in Terminal \/ r \in jobs
        /\ call[r].pc = "enqueue" => status'[r] \in Active
    BY <1>9, <2>2 DEF Work, Start, Settle, JobEnds, GiveUp, LoadForCancel, RequestCancel, TypeOK, Active, Terminal, StateInv
  <2>4. Rows' = Rows
    BY <2>1, <2>2, <2>3, RowsSame
  <2>5. asked' \in 0 .. MaxCancels /\ fails' \in 0 .. MaxFails
    BY <1>9 DEF Work, Start, Settle, JobEnds, GiveUp, LoadForCancel, RequestCancel, TypeOK
  <2>6. TypeOK'
    BY <2>1, <2>2, <2>5 DEF TypeOK
  <2> QED BY <2>1, <2>2, <2>3, <2>4, <2>6 DEF StateInv
<1>10. CASE UNCHANGED vars
  <2>1. Rows' = Rows
    BY <1>10, RowsSame DEF vars
  <2> QED BY <1>10, <2>1 DEF vars, TypeOK, StateInv
<1> QED BY <1>3, <1>4, <1>5, <1>6, <1>7, <1>8, <1>9, <1>10 DEF Next, Create

\* Every variable holds a value of its kind, and the table holds a row for each
\* entry of the order in which rows were created.
THEOREM CreationTypeCorrect == Spec => []TypeOK
BY StateInit, StateStep, PTL DEF Spec

\* The conversation has the input message of every committed run, and no other: no
\* failure and no lost race leaves a message of a call without a run.
THEOREM MessagesAreOwned == Spec => []MessagesOwned
<1>1. TypeOK /\ StateInv => MessagesOwned
  BY DEF StateInv, MessagesOwned, Rows, Runs
<1> QED BY <1>1, StateInit, StateStep, PTL DEF Spec

-----------------------------------------------------------------------------
(* The unique indexes *)

Row(c) == call[c].pc = "commit" \/ status[c] # "none"
Claim(c) == call[c].pc = "commit" \/ status[c] \in Active

UniqueInv ==
  /\ \A c, d \in Calls : Row(c) /\ Row(d) /\ call[c].request = call[d].request => c = d
  /\ \A c, d \in Calls : Claim(c) /\ Claim(d) /\ call[c].thread = call[d].thread => c = d

LEMMA UniqueInit == Init => UniqueInv
BY DEF Init, UniqueInv, Row, Claim, Blank, Active, Runs

\* The request, thread and parent of a call that has inserted its row are kept.
LEMMA RowsKept ==
  ASSUME TypeOK, StateInv, [Next]_vars
  PROVE  \A c \in Calls : status[c] # "none" => Same(c) /\ status'[c] # "none"
<1> USE DEF At, tables, history, Runs
<1>1. ASSUME NEW c \in Calls, status[c] # "none" PROVE call[c].pc \in {"enqueue", "done"}
  BY <1>1 DEF StateInv
<1>2. ASSUME NEW e \in Calls, Begin(e) PROVE \A c \in Calls : status[c] # "none" => call'[c] = call[c] /\ status' = status
  BY <1>1, <1>2 DEF Begin, TypeOK
<1>3. ASSUME NEW e \in Calls, Create(e) \/ Fail(e)
      PROVE  \A c \in Calls : status[c] # "none" => Same(c) /\ status'[c] # "none"
  <2>1. \A c \in Calls : status[c] # "none" => status'[c] # "none"
    BY <1>3 DEF Create, Find, CheckParent, CheckActive, Insert, Rematch, Commit, Enqueue, Fail, TypeOK
  <2>2. CASE \E place \in Pcs : Goto(e, place)
    BY <2>1, <2>2, GotoFacts DEF Same
  <2>3. CASE \E d \in Runs : Answer(e, d)
    BY <2>1, <2>3, AnswerFacts DEF Same
  <2>4. CASE Refuse(e) /\ call[e].pc \notin {"enqueue", "done"}
    BY <1>1, <2>1, <2>4, RefuseFacts DEF Same
  <2> QED BY <1>3, <2>2, <2>3, <2>4
          DEF Create, Find, CheckParent, CheckActive, Insert, Rematch, Commit, Enqueue, Fail, Pcs, Rows
<1>4. ASSUME NEW r \in Calls, Work(r) \/ GiveUp(r) \/ LoadForCancel(r) \/ RequestCancel(r)
      PROVE  call' = call /\ \A c \in Calls : status[c] # "none" => status'[c] # "none"
  BY <1>4 DEF Work, Start, Settle, JobEnds, GiveUp, LoadForCancel, RequestCancel, TypeOK, Terminal
<1>5. CASE UNCHANGED vars
  BY <1>5 DEF vars, Same
<1> QED BY <1>2, <1>3, <1>4, <1>5 DEF Next, Same

LEMMA UniqueStep == TypeOK /\ StateInv /\ UniqueInv /\ [Next]_vars => UniqueInv'
<1> SUFFICES ASSUME TypeOK, StateInv, UniqueInv, [Next]_vars PROVE UniqueInv'
  OBVIOUS
<1> USE DEF At, tables, history, Runs
\* A call that makes no claim to a request or a thread.
<1>1. ASSUME NEW c \in Calls, Advances(c), \A d \in Calls : status'[d] = status[d],
             Same(c) \/ ~Row(c)', Row(c)' => Row(c), Claim(c)' => Claim(c)
      PROVE  UniqueInv'
  BY <1>1 DEF UniqueInv, Row, Claim, Advances, Same, Active
<1>2. ASSUME NEW c \in Calls, call[c].pc \notin {"enqueue", "done"} PROVE status[c] = "none"
  BY <1>2 DEF StateInv
<1>3. ASSUME NEW c \in Calls, Begin(c) PROVE UniqueInv'
  <2>1. Advances(c) /\ call'[c].pc = "find"
    <3>1. PICK q \in Requests, t \in Threads, p \in Rows \cup {None} :
             call' = [call EXCEPT ![c] = [pc |-> "find", request |-> q, thread |-> t, parent |-> p, answer |-> None]]
      BY <1>3 DEF Begin
    <3>2. p \in Runs \cup {None}
      BY DEF Rows
    <3>3. [pc |-> "find", request |-> q, thread |-> t, parent |-> p, answer |-> None] \in CallRecords
      BY <3>2 DEF CallRecords, Pcs
    <3> QED BY <3>1, <3>3 DEF TypeOK, Advances, CallRecords
  <2>2. status' = status /\ status[c] = "none"
    BY <1>2, <1>3 DEF Begin
  <2> QED BY <1>1, <2>1, <2>2 DEF Row, Claim, Active
<1>4. ASSUME NEW c \in Calls, Find(c) \/ CheckParent(c) \/ CheckActive(c) \/ Rematch(c) PROVE UniqueInv'
  <2>1. Advances(c) /\ call'[c].pc # "commit"
    <3>1. CASE \E place \in Pcs \ {"commit"} : Goto(c, place)
      BY <3>1, GotoFacts DEF Advances
    <3>2. CASE \E d \in Runs : Answer(c, d)
      BY <3>2, AnswerFacts DEF Advances
    <3>3. CASE Refuse(c)
      BY <3>3, RefuseFacts DEF Advances
    <3> QED BY <1>4, <3>1, <3>2, <3>3 DEF Find, CheckParent, CheckActive, Rematch, Rows, Pcs
  <2>2. status' = status /\ status[c] = "none"
    BY <1>2, <1>4 DEF Find, CheckParent, CheckActive, Rematch
  <2> QED BY <1>1, <2>1, <2>2 DEF Row, Claim, Active
<1>5. ASSUME NEW c \in Calls, Insert(c) PROVE UniqueInv'
  <2>1. Advances(c) /\ Same(c) /\ call'[c].pc \in {"collided", "commit"} /\ status' = status /\ status[c] = "none"
    BY <1>2, <1>5, GotoFacts DEF Insert, Advances, Pcs
  <2>2. CASE Collides(c)
    <3>1. call'[c].pc = "collided"
      BY <1>5, <2>2, GotoFacts DEF Insert, Pcs
    <3> QED BY <1>1, <2>1, <3>1 DEF Row, Claim, Active
  <2>3. CASE ~Collides(c)
    <3>1. \A d \in Calls \ {c} : Row(d) => call[d].request # call[c].request
      BY <1>5, <2>3 DEF Insert, Collides, Inserted, Clashes, Row, Rows
    <3>2. \A d \in Calls \ {c} : Claim(d) => call[d].thread # call[c].thread
      BY <1>5, <2>3 DEF Insert, Collides, Inserted, Clashes, Claim, ActiveIn, Rows, Active
    <3>3. \A d \in Calls \ {c} : call'[d] = call[d] /\ (Row(d)' <=> Row(d)) /\ (Claim(d)' <=> Claim(d))
      BY <2>1 DEF Advances, Row, Claim
    <3> QED BY <2>1, <3>1, <3>2, <3>3 DEF UniqueInv, Same
  <2> QED BY <2>2, <2>3
<1>6. ASSUME NEW c \in Calls, Commit(c) PROVE UniqueInv'
  <2>1. Advances(c) /\ Same(c) /\ Row(c) /\ Claim(c) /\ \A d \in Calls \ {c} : status'[d] = status[d]
    BY <1>6, GotoFacts DEF Commit, Advances, Pcs, Row, Claim, TypeOK
  <2> QED BY <2>1 DEF UniqueInv, Advances, Same, Row, Claim
<1>7. ASSUME NEW c \in Calls, Enqueue(c) PROVE UniqueInv'
  <2>1. Advances(c) /\ Same(c) /\ status' = status /\ call'[c].pc = "done"
    BY <1>7, AnswerFacts DEF Enqueue, Advances
  <2> QED BY <1>1, <2>1 DEF Row, Claim
<1>8. ASSUME NEW c \in Calls, Fail(c) PROVE UniqueInv'
  <2>1. Advances(c) /\ status' = status /\ call'[c].pc = "done"
    BY <1>8, GotoFacts, RefuseFacts DEF Fail, Advances, Pcs
  <2>2. Same(c) \/ status[c] = "none"
    BY <1>2, <1>8, GotoFacts DEF Fail, Pcs
  <2> QED BY <1>1, <2>1, <2>2 DEF Row, Claim, Active
<1>9. ASSUME NEW r \in Calls, Work(r) \/ GiveUp(r) \/ LoadForCancel(r) \/ RequestCancel(r) PROVE UniqueInv'
  <2>1. /\ call' = call /\ \A c \in Calls \ {r} : status'[c] = status[c]
        /\ status[r] # "none"
    BY <1>9 DEF Work, Start, Settle, JobEnds, GiveUp, LoadForCancel, RequestCancel, TypeOK, StateInv, Active, Terminal
  <2>2. CASE status'[r] \in Active => status[r] \in Active
    BY <2>1, <2>2 DEF UniqueInv, Row, Claim
  <2>3. CASE status'[r] \in Active /\ status[r] \notin Active
    <3>1. RequestCancel(r) /\ status[r] \notin Active /\ status' # status
      BY <1>9, <2>3 DEF Work, Start, Settle, JobEnds, GiveUp, LoadForCancel, Active
    <3>2. /\ \A d \in Inserted : call[d].thread # call[r].thread
          /\ ActiveIn(call[r].thread) = {}
      BY <3>1 DEF RequestCancel
    <3>3. \A d \in Calls : Claim(d) => call[d].thread # call[r].thread
      BY <3>2 DEF Inserted, ActiveIn, Claim, Rows, Active
    <3> QED BY <2>1, <3>3 DEF UniqueInv, Row, Claim
  <2> QED BY <2>2, <2>3
<1>10. CASE UNCHANGED vars
  BY <1>10 DEF vars, UniqueInv, Row, Claim
<1> QED BY <1>3, <1>4, <1>5, <1>6, <1>7, <1>8, <1>9, <1>10 DEF Next, Create

LEMMA UniqueMeans == TypeOK /\ UniqueInv => OneActive
<1> SUFFICES ASSUME TypeOK, UniqueInv, NEW t \in Threads PROVE Cardinality(ActiveIn(t)) <= 1
  BY DEF OneActive
<1>1. \A c, d \in ActiveIn(t) : c = d
  BY DEF UniqueInv, Claim, ActiveIn, Rows, Runs
<1>2. CASE ActiveIn(t) = {}
  BY <1>2, FS_EmptySet
<1>3. CASE ActiveIn(t) # {}
  <2>1. PICK c : ActiveIn(t) = {c}
    BY <1>1, <1>3
  <2>2. Cardinality(ActiveIn(t)) = 1
    BY <2>1, FS_Singleton
  <2> QED BY <2>2
<1> QED BY <1>2, <1>3

\* A thread never has two active runs: neither two creating calls that passed the
\* checks together nor a cancelling call with an old view of a settled run get there.
THEOREM OneActivePerThread == Spec => []OneActive
<1>1. Init => TypeOK /\ StateInv /\ UniqueInv
  BY StateInit, UniqueInit
<1>2. TypeOK /\ StateInv /\ UniqueInv /\ [Next]_vars => (TypeOK /\ StateInv /\ UniqueInv)'
  BY StateStep, UniqueStep
<1> QED BY <1>1, <1>2, UniqueMeans, PTL DEF Spec

-----------------------------------------------------------------------------
(* Answers, parents and the latest run *)

AnswerInv ==
  \A c \in Calls : call[c].answer # None =>
      LET r == call[c].answer IN
      /\ r \in Rows /\ call[r].request = call[c].request
      /\ call[r].thread = call[c].thread /\ call[r].parent = call[c].parent

LEMMA AnswerInit == Init => AnswerInv
BY DEF Init, AnswerInv, Blank

LEMMA AnswerStep == TypeOK /\ StateInv /\ AnswerInv /\ [Next]_vars => AnswerInv'
<1> SUFFICES ASSUME TypeOK, StateInv, AnswerInv, [Next]_vars PROVE AnswerInv'
  OBVIOUS
<1> USE NoneIsNoRun DEF At, Runs
<1>1. \A r \in Rows : Same(r) /\ r \in Rows'
  BY RowsKept DEF Rows
<1>2. ASSUME NEW c \in Calls, Advances(c),
             \/ call'[c].answer = None
             \/ Same(c) /\ call'[c].answer = call[c].answer
             \/ /\ Same(c) /\ call'[c].answer \in Rows
                /\ call[call'[c].answer].request = call[c].request /\ SameScope(c, call'[c].answer)
      PROVE  AnswerInv'
  <2>1. ASSUME NEW d \in Calls \ {c}, call'[d].answer # None
        PROVE  /\ call'[d].answer \in Rows'
               /\ call'[call'[d].answer].request = call'[d].request
               /\ call'[call'[d].answer].thread = call'[d].thread
               /\ call'[call'[d].answer].parent = call'[d].parent
    BY <1>1, <1>2, <2>1 DEF AnswerInv, Advances, Same
  <2>2. ASSUME call'[c].answer # None
        PROVE  /\ call'[c].answer \in Rows'
               /\ call'[call'[c].answer].request = call'[c].request
               /\ call'[call'[c].answer].thread = call'[c].thread
               /\ call'[call'[c].answer].parent = call'[c].parent
    BY <1>1, <1>2, <2>2 DEF AnswerInv, Same, SameScope
  <2> QED BY <2>1, <2>2 DEF AnswerInv
<1>3. ASSUME NEW c \in Calls, \E place \in Pcs : Goto(c, place) PROVE AnswerInv'
  BY <1>2, <1>3, GotoFacts DEF Advances
<1>4. ASSUME NEW c \in Calls, Refuse(c) PROVE AnswerInv'
  BY <1>2, <1>4, RefuseFacts DEF Advances
<1>5. ASSUME NEW c \in Calls, NEW d \in Rows, Answer(c, d), call[d].request = call[c].request, SameScope(c, d)
      PROVE  AnswerInv'
  BY <1>2, <1>5, AnswerFacts DEF Advances, Rows
<1>6. ASSUME NEW c \in Calls, Begin(c) PROVE AnswerInv'
  <2>1. PICK q \in Requests, t \in Threads, p \in Rows \cup {None} :
           call' = [call EXCEPT ![c] = [pc |-> "find", request |-> q, thread |-> t, parent |-> p, answer |-> None]]
    BY <1>6 DEF Begin
  <2>2. p \in Runs \cup {None}
    BY DEF Rows
  <2>3. [pc |-> "find", request |-> q, thread |-> t, parent |-> p, answer |-> None] \in CallRecords
    BY <2>2 DEF CallRecords, Pcs
  <2>4. Advances(c) /\ call'[c].answer = None
    BY <2>1, <2>3 DEF TypeOK, Advances, CallRecords
  <2> QED BY <1>2, <2>4
<1>7. ASSUME NEW c \in Calls, Find(c) \/ CheckParent(c) \/ CheckActive(c) PROVE AnswerInv'
  BY <1>3, <1>4, <1>5, <1>7 DEF Find, CheckParent, CheckActive, Pcs
<1>8. ASSUME NEW c \in Calls, Insert(c) \/ Rematch(c) \/ Commit(c) PROVE AnswerInv'
  BY <1>3, <1>4, <1>5, <1>8 DEF Insert, Rematch, Commit, Pcs
<1>9. ASSUME NEW c \in Calls, Enqueue(c) PROVE AnswerInv'
  <2>1. c \in Rows
    BY <1>9 DEF Enqueue, StateInv, Rows, Active
  <2> QED BY <1>5, <1>9, <2>1 DEF Enqueue, SameScope
<1>10. ASSUME NEW c \in Calls, Fail(c) PROVE AnswerInv'
  BY <1>3, <1>4, <1>10 DEF Fail, Pcs
<1>11. CASE UNCHANGED call
  BY <1>1, <1>11 DEF AnswerInv
<1>12. ASSUME NEW r \in Calls, Work(r) \/ GiveUp(r) \/ LoadForCancel(r) \/ RequestCancel(r) PROVE UNCHANGED call
  BY <1>12 DEF Work, Start, Settle, JobEnds, GiveUp, LoadForCancel, RequestCancel
<1> QED BY <1>6, <1>7, <1>8, <1>9, <1>10, <1>11, <1>12 DEF Next, Create, vars

LEMMA OnceMeans == StateInv /\ UniqueInv /\ AnswerInv => RequestOnce
BY DEF UniqueInv, AnswerInv, RequestOnce, Row, Rows, Runs

\* However often a request is sent, it creates one run, and whoever is answered is
\* answered with a run of his request, thread and parent.
THEOREM OneRunPerRequest == Spec => []RequestOnce
<1>1. Init => TypeOK /\ StateInv /\ UniqueInv /\ AnswerInv
  BY StateInit, UniqueInit, AnswerInit
<1>2. TypeOK /\ StateInv /\ UniqueInv /\ AnswerInv /\ [Next]_vars => (TypeOK /\ StateInv /\ UniqueInv /\ AnswerInv)'
  BY StateStep, UniqueStep, AnswerStep
<1> QED BY <1>1, <1>2, OnceMeans, PTL DEF Spec

\* The run that a resume is about: settled as interrupted, or reopened by a late cancel,
\* and executed again when its job had not ended yet.
Interrupted(p) == (status[p] = "interrupted" \/ p \in overrun) /\ call[p].pc = "done"

ParentInv ==
  \A c \in Calls : call[c].parent # None =>
      /\ call[c].parent \in Rows /\ call[c].parent # c
      /\ call[c].pc \in {"active", "insert", "collided", "commit"} \/ status[c] # "none" =>
            Interrupted(call[c].parent) /\ call[call[c].parent].thread = call[c].thread

LEMMA ParentInit == Init => ParentInv
BY DEF Init, ParentInv, Blank

LEMMA ParentStep == TypeOK /\ StateInv /\ ParentInv /\ [Next]_vars => ParentInv'
<1> SUFFICES ASSUME TypeOK, StateInv, ParentInv, [Next]_vars PROVE ParentInv'
  OBVIOUS
<1> USE NoneIsNoRun DEF At, Runs, tables, history
<1>1. \A r \in Rows : Same(r) /\ r \in Rows'
  BY RowsKept DEF Rows
<1>2. ASSUME NEW p \in Runs, Interrupted(p) PROVE Interrupted(p)'
  <2>1. ASSUME NEW c \in Calls, Begin(c) \/ Create(c) \/ Fail(c) PROVE Interrupted(p)'
    <3>1. call[c].pc # "done" /\ call' = [call EXCEPT ![c] = call'[c]]
      BY <2>1 DEF Begin, Create, Find, CheckParent, CheckActive, Insert, Rematch, Commit, Enqueue, Fail, Goto, Answer,
                  Refuse, TypeOK
    <3>2. call'[p] = call[p] /\ UNCHANGED overrun /\ p # c
      BY <1>2, <2>1, <3>1 DEF Interrupted, Begin, Create, Find, CheckParent, CheckActive, Insert, Rematch, Commit,
                  Enqueue, Fail, TypeOK
    <3>3. status'[p] = status[p]
      BY <2>1, <3>2 DEF Begin, Create, Find, CheckParent, CheckActive, Insert, Rematch, Commit, Enqueue, Fail, TypeOK
    <3> QED BY <1>2, <3>2, <3>3 DEF Interrupted
  <2>2. ASSUME NEW c \in Calls, Work(c) \/ GiveUp(c) \/ LoadForCancel(c) \/ RequestCancel(c) PROVE Interrupted(p)'
    <3>1. UNCHANGED call /\ overrun \subseteq overrun' /\ (status'[p] = status[p] \/ status[p] \in Active \/ p \in overrun')
      BY <2>2 DEF Work, Start, Settle, JobEnds, GiveUp, LoadForCancel, RequestCancel, TypeOK, Active
    <3> QED BY <1>2, <3>1 DEF Interrupted, Active
  <2> QED BY <1>2, <2>1, <2>2 DEF Next, Interrupted, vars
<1>3. ASSUME NEW c \in Calls, Advances(c), Same(c),
             \A d \in Calls \ {c} : status[d] = "none" => status'[d] = "none",
             \/ call'[c].parent = None
             \/ call[c].pc \in {"active", "insert", "collided", "commit"} \/ status[c] # "none"
             \/ /\ call'[c].pc \notin {"active", "insert", "collided", "commit"}
                /\ status'[c] = "none"
             \/ Interrupted(call[c].parent) /\ call[call[c].parent].thread = call[c].thread
      PROVE  ParentInv'
  <2>1. ASSUME NEW d \in Calls, call'[d].parent # None PROVE call'[d].parent = call[d].parent /\ call[d].parent \in Rows
    BY <1>3, <2>1 DEF Advances, Same, ParentInv
  <2>2. ASSUME NEW d \in Calls, call'[d].parent # None,
               call'[d].pc \in {"active", "insert", "collided", "commit"} \/ status'[d] # "none"
        PROVE  Interrupted(call[d].parent) /\ call[call[d].parent].thread = call[d].thread
    BY <1>3, <2>1, <2>2 DEF Advances, ParentInv
  <2>3. ASSUME NEW d \in Calls PROVE call'[d].thread = call[d].thread
    BY <1>3 DEF Advances, Same
  <2> QED BY <1>1, <1>2, <2>1, <2>2, <2>3 DEF ParentInv, Rows, Same
<1>4. ASSUME NEW c \in Calls, Refuse(c), call[c].pc \notin {"enqueue", "done"}, status' = status PROVE ParentInv'
  <2>1. Advances(c) /\ call'[c].parent = None /\ status[c] = "none"
    BY <1>4, RefuseFacts DEF Advances, StateInv
  <2>2. \A d \in Calls \ {c} : call'[d] = call[d]
    BY <2>1 DEF Advances
  <2> QED BY <1>1, <1>2, <1>4, <2>1, <2>2 DEF ParentInv, Rows, Same
<1>5. ASSUME NEW c \in Calls, Begin(c) PROVE ParentInv'
  <2>1. PICK q \in Requests, t \in Threads, p \in Rows \cup {None} :
           call' = [call EXCEPT ![c] = [pc |-> "find", request |-> q, thread |-> t, parent |-> p, answer |-> None]]
    BY <1>5 DEF Begin
  <2>2. call'[c].parent = p /\ call'[c].pc = "find" /\ status' = status /\ status[c] = "none"
        /\ \A d \in Calls \ {c} : call'[d] = call[d]
    BY <1>5, <2>1 DEF Begin, TypeOK, StateInv
  <2>3. p # c
    BY <2>2, NoneIsNoRun DEF Rows
  <2> QED BY <1>1, <1>2, <2>2, <2>3 DEF ParentInv, Rows, Same
<1>6. ASSUME NEW c \in Calls, Find(c) PROVE ParentInv'
  <2>1. status' = status /\ call[c].pc = "find" /\ status[c] = "none"
    BY <1>6 DEF Find, StateInv
  <2>2. CASE call[c].parent = None /\ \E place \in Pcs : Goto(c, place)
    BY <1>3, <2>1, <2>2, GotoFacts DEF Advances, Same
  <2>3. CASE Goto(c, "parent")
    BY <1>3, <2>1, <2>3, GotoFacts DEF Advances, Pcs
  <2>4. CASE \E d \in Runs : Answer(c, d)
    BY <1>3, <2>1, <2>4, AnswerFacts DEF Advances
  <2>5. CASE Refuse(c)
    BY <1>4, <2>1, <2>5
  <2> QED BY <1>6, <2>2, <2>3, <2>4, <2>5 DEF Find, Pcs, Rows
<1>7. ASSUME NEW c \in Calls, CheckParent(c) PROVE ParentInv'
  <2>1. status' = status /\ call[c].pc = "parent" /\ status[c] = "none"
    BY <1>7 DEF CheckParent, StateInv
  <2>2. CASE Goto(c, "active") /\ call[call[c].parent].thread = call[c].thread /\ status[call[c].parent] = "interrupted"
    <3>1. call[c].parent # None => Interrupted(call[c].parent)
      BY <2>2 DEF ParentInv, StateInv, Interrupted, Rows, Terminal
    <3> QED BY <1>3, <2>1, <2>2, <3>1, GotoFacts DEF Advances, Same, Pcs
  <2> QED BY <1>4, <1>7, <2>1, <2>2 DEF CheckParent
<1>8. ASSUME NEW c \in Calls, CheckActive(c) \/ Insert(c) \/ Rematch(c) PROVE ParentInv'
  <2>1. status' = status /\ call[c].pc \in {"active", "insert", "collided"}
    BY <1>8 DEF CheckActive, Insert, Rematch
  <2>2. CASE \E place \in Pcs : Goto(c, place)
    BY <1>3, <2>1, <2>2, GotoFacts DEF Advances
  <2>3. CASE \E d \in Runs : Answer(c, d)
    BY <1>3, <2>1, <2>3, AnswerFacts DEF Advances
  <2> QED BY <1>4, <1>8, <2>1, <2>2, <2>3 DEF CheckActive, Insert, Rematch, Pcs, Rows
<1>9. ASSUME NEW c \in Calls, Commit(c) \/ Enqueue(c) PROVE ParentInv'
  <2>1. /\ call[c].pc = "commit" \/ status[c] # "none"
        /\ \A d \in Calls \ {c} : status'[d] = status[d]
    BY <1>9 DEF Commit, Enqueue, StateInv, Active, TypeOK
  <2> QED BY <1>3, <1>9, <2>1, GotoFacts, AnswerFacts DEF Commit, Enqueue, Advances, Pcs
<1>10. ASSUME NEW c \in Calls, Fail(c) PROVE ParentInv'
  <2>1. CASE call[c].pc = "enqueue"
    <3>1. status[c] # "none" /\ status' = status /\ Goto(c, "done")
      BY <1>10, <2>1 DEF Fail, StateInv, Active
    <3> QED BY <1>3, <3>1, GotoFacts DEF Advances, Pcs
  <2>2. CASE call[c].pc # "enqueue"
    BY <1>4, <1>10, <2>2 DEF Fail
  <2> QED BY <2>1, <2>2
<1>11. ASSUME UNCHANGED call, \A c \in Calls : status[c] = "none" => status'[c] = "none" PROVE ParentInv'
  BY <1>1, <1>2, <1>11 DEF ParentInv, Rows
<1>12. ASSUME NEW r \in Calls, Work(r) \/ GiveUp(r) \/ LoadForCancel(r) \/ RequestCancel(r) PROVE ParentInv'
  <2>1. UNCHANGED call /\ \A c \in Calls : status[c] = "none" => status'[c] = "none"
    BY <1>12 DEF Work, Start, Settle, JobEnds, GiveUp, LoadForCancel, RequestCancel, TypeOK, StateInv, Active
  <2> QED BY <1>11, <2>1
<1> QED BY <1>5, <1>6, <1>7, <1>8, <1>9, <1>10, <1>11, <1>12 DEF Next, Create, vars

LEMMA ResumeMeans == ParentInv => ResumesInterrupted
<1> SUFFICES ASSUME ParentInv, NEW c \in Rows, call[c].parent # None
             PROVE  /\ call[call[c].parent].thread = call[c].thread
                    /\ status[call[c].parent] = "interrupted" \/ call[c].parent \in overrun
  BY DEF ResumesInterrupted
<1> QED BY DEF ParentInv, Interrupted, Rows, Runs

\* While a resume is active its parent stays an interrupted run of the same thread,
\* unless a cancel that had read it before it settled has reopened it.
THEOREM ResumesAreInterrupted == Spec => []ResumesInterrupted
<1>1. Init => TypeOK /\ StateInv /\ ParentInv
  BY StateInit, ParentInit
<1>2. TypeOK /\ StateInv /\ ParentInv /\ [Next]_vars => (TypeOK /\ StateInv /\ ParentInv)'
  BY StateStep, ParentStep
<1> QED BY <1>1, <1>2, ResumeMeans, PTL DEF Spec

LEMMA LatestInit == Init => LatestSpeaks
BY DEF Init, LatestSpeaks

LEMMA LatestStep == TypeOK /\ StateInv /\ UniqueInv /\ LatestSpeaks /\ [Next]_vars => LatestSpeaks'
<1> SUFFICES ASSUME TypeOK, StateInv, UniqueInv, LatestSpeaks, [Next]_vars PROVE LatestSpeaks'
  OBVIOUS
<1> USE DEF At, Runs, tables, history
<1>1. \A r \in Rows : Same(r) /\ r \in Rows'
  BY RowsKept DEF Rows
<1>2. order \in Seq(Runs) /\ \A i \in 1 .. Len(order) : order[i] \in Rows
  BY DEF TypeOK, StateInv
<1>3. ASSUME order' = order, overrun \subseteq overrun',
             \A r \in Rows : status'[r] \in Active => status[r] \in Active \/ r \in overrun',
             \A r \in Calls : status[r] = "none" => status'[r] = "none"
      PROVE  LatestSpeaks'
  <2> SUFFICES ASSUME NEW t \in Threads, NEW r \in ActiveIn(t)', r \notin overrun',
                      NEW i \in 1 .. Len(order), NEW j \in 1 .. Len(order),
                      order[i] = r, call'[order[j]].thread = t
               PROVE  j <= i
    BY <1>3 DEF LatestSpeaks
  <2>1. r \in Rows /\ status[r] \in Active /\ call[r].thread = t
    BY <1>1, <1>3 DEF ActiveIn, Rows, Same
  <2>2. call[order[j]].thread = t
    BY <1>1, <1>2 DEF Same
  <2> QED BY <1>3, <2>1, <2>2 DEF LatestSpeaks, ActiveIn
<1>4. ASSUME NEW c \in Calls, Begin(c) \/ Find(c) \/ CheckParent(c) \/ CheckActive(c) \/ Insert(c) \/ Rematch(c)
                              \/ Enqueue(c) \/ Fail(c)
      PROVE  LatestSpeaks'
  BY <1>3, <1>4 DEF Begin, Find, CheckParent, CheckActive, Insert, Rematch, Enqueue, Fail
<1>5. ASSUME NEW c \in Calls, Commit(c) PROVE LatestSpeaks'
  <2>1. /\ order' = Append(order, c) /\ UNCHANGED overrun /\ call[c].pc = "commit" /\ status[c] = "none"
        /\ \A d \in Calls \ {c} : status'[d] = status[d]
        /\ status' \in [Runs -> Active \cup Terminal \cup {"none"}]
    BY <1>5 DEF Commit, StateInv, TypeOK, Active
  <2>2. /\ Len(order') = Len(order) + 1 /\ order'[Len(order) + 1] = c /\ Len(order) \in Nat
        /\ \A i \in 1 .. Len(order) : order'[i] = order[i] /\ order[i] # c
    BY <1>2, <2>1 DEF Rows
  <2>3. Same(c)
    BY <1>5, GotoFacts DEF Commit, Pcs
  <2> SUFFICES ASSUME NEW t \in Threads, NEW r \in ActiveIn(t)', r \notin overrun,
                      NEW i \in 1 .. Len(order'), NEW j \in 1 .. Len(order'),
                      order'[i] = r, call'[order'[j]].thread = t
               PROVE  j <= i
    BY <2>1 DEF LatestSpeaks
  <2>4. CASE r = c
    BY <2>2, <2>4
  <2>5. CASE r # c
    <3>1. r \in Rows /\ status[r] \in Active /\ call[r].thread = t /\ i \in 1 .. Len(order)
      BY <1>1, <2>1, <2>2, <2>5 DEF ActiveIn, Rows, Same
    <3>2. call[c].thread # t
      BY <2>1, <2>5, <3>1 DEF UniqueInv, Claim, Rows
    <3>3. order'[j] # c /\ j \in 1 .. Len(order)
      BY <2>2, <2>3, <3>2 DEF Same
    <3>4. call[order[j]].thread = t
      BY <1>1, <1>2, <2>2, <3>3 DEF Same
    <3> QED BY <2>1, <2>2, <3>1, <3>3, <3>4 DEF LatestSpeaks, ActiveIn
  <2> QED BY <2>4, <2>5
<1>6. ASSUME NEW r \in Calls, Work(r) \/ GiveUp(r) \/ LoadForCancel(r) \/ RequestCancel(r) PROVE LatestSpeaks'
  <2>1. order' = order /\ overrun \subseteq overrun' /\ \A d \in Calls \ {r} : status'[d] = status[d]
    BY <1>6 DEF Work, Start, Settle, JobEnds, GiveUp, LoadForCancel, RequestCancel, TypeOK
  <2>2. status[r] # "none" /\ (status'[r] \in Active => status[r] \in Active \/ r \in overrun')
    BY <1>6 DEF Work, Start, Settle, JobEnds, GiveUp, LoadForCancel, RequestCancel, TypeOK, StateInv, Active, Terminal
  <2> QED BY <1>3, <2>1, <2>2 DEF Rows
<1>7. CASE UNCHANGED vars
  BY <1>3, <1>7 DEF vars
<1> QED BY <1>4, <1>5, <1>6, <1>7 DEF Next, Create

\* The active run of a thread is the one created last, unless a late cancel reopened
\* an older one.
THEOREM LatestIsActive == Spec => []LatestSpeaks
<1>1. Init => TypeOK /\ StateInv /\ UniqueInv /\ LatestSpeaks
  BY StateInit, UniqueInit, LatestInit
<1>2. TypeOK /\ StateInv /\ UniqueInv /\ LatestSpeaks /\ [Next]_vars => (TypeOK /\ StateInv /\ UniqueInv /\ LatestSpeaks)'
  BY StateStep, UniqueStep, LatestStep
<1> QED BY <1>1, <1>2, PTL DEF Spec

-----------------------------------------------------------------------------
(* Nobody's run is forgotten *)

LEMMA ServedInit == Init => ActiveServed
BY DEF Init, ActiveServed, Active

LEMMA ServedStep == TypeOK /\ StateInv /\ ActiveServed /\ [Next]_vars => ActiveServed'
<1> SUFFICES ASSUME TypeOK, StateInv, ActiveServed, [Next]_vars, NEW r \in Runs, status'[r] \in Active
             PROVE  (r \in jobs \/ At(r, "enqueue") \/ r \in lost \cup overrun)'
  BY DEF ActiveServed
<1> USE DEF At, Runs, tables, history
<1>1. status[r] \in Active => r \in jobs \/ call[r].pc = "enqueue" \/ r \in lost \cup overrun
  BY DEF ActiveServed
<1>2. ASSUME NEW c \in Calls,
             Begin(c) \/ Find(c) \/ CheckParent(c) \/ CheckActive(c) \/ Insert(c) \/ Rematch(c)
      PROVE  (r \in jobs \/ At(r, "enqueue") \/ r \in lost \cup overrun)'
  <2>1. UNCHANGED <<status, jobs, lost, overrun>> /\ call[c].pc # "enqueue"
    BY <1>2 DEF Begin, Find, CheckParent, CheckActive, Insert, Rematch
  <2>2. call' = [call EXCEPT ![c] = call'[c]]
    BY <1>2 DEF Begin, Find, CheckParent, CheckActive, Insert, Rematch, Goto, Answer, Refuse, TypeOK
  <2> QED BY <1>1, <2>1, <2>2 DEF TypeOK
<1>3. ASSUME NEW c \in Calls, Commit(c) PROVE (r \in jobs \/ At(r, "enqueue") \/ r \in lost \cup overrun)'
  BY <1>1, <1>3, GotoFacts DEF Commit, Pcs, TypeOK
<1>4. ASSUME NEW c \in Calls, Enqueue(c) PROVE (r \in jobs \/ At(r, "enqueue") \/ r \in lost \cup overrun)'
  BY <1>1, <1>4, AnswerFacts DEF Enqueue
<1>5. ASSUME NEW c \in Calls, Fail(c) PROVE (r \in jobs \/ At(r, "enqueue") \/ r \in lost \cup overrun)'
  BY <1>1, <1>5, GotoFacts, RefuseFacts DEF Fail, Pcs
<1>6. ASSUME NEW c \in Calls, Work(c) \/ GiveUp(c) \/ LoadForCancel(c) \/ RequestCancel(c)
      PROVE  (r \in jobs \/ At(r, "enqueue") \/ r \in lost \cup overrun)'
  <2>1. UNCHANGED call /\ jobs \ {c} \subseteq jobs' /\ lost \cup overrun \subseteq lost' \cup overrun'
    BY <1>6 DEF Work, Start, Settle, JobEnds, GiveUp, LoadForCancel, RequestCancel
  <2>2. CASE r # c
    <3>1. status'[r] = status[r]
      BY <1>6, <2>2 DEF Work, Start, Settle, JobEnds, GiveUp, LoadForCancel, RequestCancel, TypeOK
    <3> QED BY <1>1, <2>1, <2>2, <3>1
  <2>3. CASE r = c
    <3>1. status[r] \in Active \/ r \in overrun'
      BY <1>6, <2>3 DEF Work, Start, Settle, JobEnds, GiveUp, LoadForCancel, RequestCancel, TypeOK, Active, Terminal
    <3>2. r \in jobs => r \in jobs' \/ r \in lost'
      BY <1>6, <2>3 DEF Work, Start, Settle, JobEnds, GiveUp, LoadForCancel, RequestCancel, Active, Terminal
    <3> QED BY <1>1, <2>1, <3>1, <3>2
  <2> QED BY <2>2, <2>3
<1>7. CASE UNCHANGED vars
  BY <1>1, <1>7 DEF vars
<1> QED BY <1>2, <1>3, <1>4, <1>5, <1>6, <1>7 DEF Next, Create

\* A run that keeps its thread busy has a job, or a call that is about to enqueue it; no
\* order of creating, working and cancelling leaves it without both, except the
\* failures and late cancels that the property names.
THEOREM ActiveRunsAreServed == Spec => []ActiveServed
<1>1. Init => TypeOK /\ StateInv /\ ActiveServed
  BY StateInit, ServedInit
<1>2. TypeOK /\ StateInv /\ ActiveServed /\ [Next]_vars => (TypeOK /\ StateInv /\ ActiveServed)'
  BY StateStep, ServedStep
<1> QED BY <1>1, <1>2, PTL DEF Spec

-----------------------------------------------------------------------------
(* Every run lives one life *)

LEMMA LifeInit == ASSUME Init, NEW r \in Runs PROVE Life(r)!Init
<1>1. r \notin jobs /\ r \notin overrun /\ status[r] = "none"
  BY DEF Init
<1> QED BY <1>1 DEF Life!Init, JobLeft

LEMMA LifeStep ==
  ASSUME TypeOK, StateInv, [Next]_vars, NEW r \in Runs
  PROVE  [Life(r)!Next]_(Life(r)!lifecycleVars)
<1> USE DEF At, Runs, tables, history
<1>1. ASSUME status'[r] = status[r], r \in jobs' <=> r \in jobs, r \in overrun' <=> r \in overrun,
             call'[r].pc = "enqueue" <=> call[r].pc = "enqueue"
      PROVE  UNCHANGED Life(r)!lifecycleVars
  BY <1>1 DEF Life!lifecycleVars, JobLeft
<1>2. ASSUME NEW c \in Calls,
             Begin(c) \/ Find(c) \/ CheckParent(c) \/ CheckActive(c) \/ Insert(c) \/ Rematch(c)
      PROVE  UNCHANGED Life(r)!lifecycleVars
  <2>1. UNCHANGED <<status, jobs, lost, overrun>> /\ call[c].pc # "enqueue" /\ call'[c].pc # "enqueue"
    BY <1>2 DEF Begin, Find, CheckParent, CheckActive, Insert, Rematch, Goto, Answer, Refuse, Blank, TypeOK
  <2>2. call' = [call EXCEPT ![c] = call'[c]]
    BY <1>2 DEF Begin, Find, CheckParent, CheckActive, Insert, Rematch, Goto, Answer, Refuse, TypeOK
  <2> QED BY <1>1, <2>1, <2>2 DEF TypeOK
<1>3. ASSUME NEW c \in Calls, Commit(c) PROVE UNCHANGED Life(r)!lifecycleVars
  <2>1. CASE c # r
    BY <1>1, <1>3, <2>1, GotoFacts DEF Commit, Pcs, TypeOK
  <2>2. CASE c = r
    <3>1. status[r] = "none" /\ r \notin jobs /\ r \notin jobs' /\ (r \in overrun' <=> r \in overrun)
      BY <1>3, <2>2 DEF Commit, StateInv
    <3>2. status'[r] = "pending" /\ call'[r].pc = "enqueue"
      BY <1>3, <2>2, GotoFacts DEF Commit, Pcs, TypeOK
    <3> QED BY <3>1, <3>2 DEF Life!lifecycleVars, JobLeft
  <2> QED BY <2>1, <2>2
<1>4. ASSUME NEW c \in Calls, Enqueue(c) PROVE [Life(r)!Next]_(Life(r)!lifecycleVars)
  <2>1. CASE c # r
    BY <1>1, <1>4, <2>1, AnswerFacts DEF Enqueue
  <2>2. CASE c = r
    <3>1. r \notin jobs /\ r \in jobs' /\ call[r].pc = "enqueue" /\ status' = status /\ overrun' = overrun
      BY <1>4, <2>2 DEF Enqueue, StateInv
    <3> QED BY <3>1 DEF Life!Next, Life!Enqueue, JobLeft
  <2> QED BY <2>1, <2>2
<1>5. ASSUME NEW c \in Calls, Fail(c) PROVE [Life(r)!Next]_(Life(r)!lifecycleVars)
  <2>1. CASE c # r
    BY <1>1, <1>5, <2>1, GotoFacts, RefuseFacts DEF Fail, Pcs
  <2>2. CASE c = r /\ call[r].pc = "enqueue"
    <3>1. call'[r].pc = "done" /\ r \notin jobs /\ status[r] # "none" /\ UNCHANGED <<status, jobs, overrun>>
      BY <1>5, <2>2, GotoFacts DEF Fail, StateInv, Active, Pcs
    <3> QED BY <2>2, <3>1 DEF Life!Next, Life!Enqueue, JobLeft
  <2>3. CASE c = r /\ call[r].pc # "enqueue"
    BY <1>1, <1>5, <2>3, RefuseFacts DEF Fail
  <2> QED BY <2>1, <2>2, <2>3
<1>6. ASSUME NEW c \in Calls, Work(c) \/ GiveUp(c) \/ LoadForCancel(c) \/ RequestCancel(c)
      PROVE  [Life(r)!Next]_(Life(r)!lifecycleVars)
  <2>1. CASE c # r
    <3>1. UNCHANGED call /\ status'[r] = status[r] /\ (r \in jobs' <=> r \in jobs) /\ (r \in overrun' <=> r \in overrun)
      BY <1>6, <2>1 DEF Work, Start, Settle, JobEnds, GiveUp, LoadForCancel, RequestCancel, TypeOK
    <3> QED BY <1>1, <3>1
  <2>2. CASE c = r /\ Start(r)
    <3>1. r \in jobs /\ r \in jobs' /\ status[r] \in {"pending", "cancel_requested"} /\ status'[r] = "running" /\ overrun' = overrun
      BY <2>2 DEF Start, TypeOK
    <3> QED BY <3>1 DEF Life!Next, Life!Start, Life!Active, JobLeft
  <2>3. CASE c = r /\ Settle(r)
    <3>1. r \in jobs /\ r \in jobs' /\ status[r] \in Active /\ status'[r] \in Terminal /\ overrun' = overrun
      BY <2>3 DEF Settle, TypeOK
    <3> QED BY <3>1 DEF Life!Next, Life!Settle, Life!Active, Life!Terminal, JobLeft, Active, Terminal
  <2>4. CASE c = r /\ (JobEnds(r) \/ GiveUp(r))
    <3>1. /\ r \in jobs /\ r \notin jobs' /\ status[r] # "none" /\ call[r].pc # "enqueue"
          /\ UNCHANGED <<call, status, overrun>>
      BY <2>4 DEF JobEnds, GiveUp, Active, Terminal, StateInv
    <3> QED BY <3>1 DEF Life!Next, Life!Leave, JobLeft
  <2>5. CASE c = r /\ LoadForCancel(r)
    BY <1>1, <2>5 DEF LoadForCancel
  <2>6. CASE c = r /\ RequestCancel(r)
    <3>1. status[r] \in Active \cup Terminal /\ UNCHANGED <<call, jobs>>
      BY <2>6 DEF RequestCancel, StateInv, TypeOK
    <3>2. CASE status'[r] = status[r] /\ overrun' = overrun
      BY <1>1, <3>1, <3>2
    <3>3. CASE status[r] \in Active /\ status'[r] = "cancel_requested" /\ overrun' = overrun
      BY <3>1, <3>3 DEF Life!Next, Life!Cancel, Life!Active, JobLeft, Active
    <3>4. CASE status[r] \in Terminal /\ status'[r] = "cancel_requested" /\ r \in overrun'
      BY <3>1, <3>4 DEF Life!Next, Life!Overrun, Life!Terminal, JobLeft, Terminal
    <3> QED BY <2>6, <3>1, <3>2, <3>3, <3>4 DEF RequestCancel, TypeOK
  <2> QED BY <1>6, <2>1, <2>2, <2>3, <2>4, <2>5, <2>6 DEF Work
<1>7. CASE UNCHANGED vars
  BY <1>1, <1>7 DEF vars
<1> QED BY <1>2, <1>3, <1>4, <1>5, <1>6, <1>7 DEF Next, Create

\* What creating and cancelling calls and the abstract workers do to a run's row and job
\* are steps of the lifecycle that one run has in AgentRun: the two modules meet in one
\* contract.
THEOREM RunsKeepTheLifecycle == Spec => RunsKeepLifecycle
<1>1. Init => \A r \in Runs : Life(r)!Init
  BY LifeInit
<1>2. TypeOK /\ StateInv /\ [Next]_vars => [\A r \in Runs : [Life(r)!Next]_(Life(r)!lifecycleVars)]_vars
  BY LifeStep
<1> QED BY <1>1, <1>2, StateInit, StateStep, PTL DEF Spec, RunsKeepLifecycle

-----------------------------------------------------------------------------
(* Creating is atomic *)

\* What a call asks for is known from its beginning until it is refused, and it is
\* answered by its last step.
AskedInv ==
  \A c \in Calls :
    /\ call[c].pc = "idle" => call[c] = Blank("idle")
    /\ call[c].pc \notin {"idle", "done"} => call[c].request \in Requests /\ call[c].answer = None

LEMMA AskedInit == Init => AskedInv
BY DEF Init, AskedInv, Blank

LEMMA AskedStep == TypeOK /\ AskedInv /\ [Next]_vars => AskedInv'
<1> SUFFICES ASSUME TypeOK, AskedInv, [Next]_vars PROVE AskedInv'
  OBVIOUS
<1> USE DEF At, Runs, tables, history
<1>1. ASSUME NEW c \in Calls, Advances(c), call'[c].pc # "idle",
             call'[c].pc # "done" => call'[c].request \in Requests /\ call'[c].answer = None
      PROVE  AskedInv'
  BY <1>1 DEF AskedInv, Advances, Blank
<1>2. ASSUME NEW c \in Calls, \E place \in Pcs \ {"idle"} : Goto(c, place), call[c].pc \notin {"idle", "done"}
      PROVE  AskedInv'
  BY <1>1, <1>2, GotoFacts DEF AskedInv, Advances, Same
<1>3. ASSUME NEW c \in Calls, Refuse(c) \/ \E d \in Runs : Answer(c, d) PROVE AskedInv'
  BY <1>1, <1>3, RefuseFacts, AnswerFacts DEF Advances
<1>4. ASSUME NEW c \in Calls, Begin(c) PROVE AskedInv'
  BY <1>4 DEF Begin, AskedInv, TypeOK, Blank
<1>5. ASSUME NEW c \in Calls, Create(c) PROVE AskedInv'
  BY <1>2, <1>3, <1>5 DEF Create, Find, CheckParent, CheckActive, Insert, Rematch, Commit, Enqueue, Rows, Pcs
<1>6. ASSUME NEW c \in Calls, Fail(c) PROVE AskedInv'
  BY <1>2, <1>3, <1>6 DEF Fail, Pcs
<1>7. ASSUME NEW c \in Calls, Work(c) \/ GiveUp(c) \/ LoadForCancel(c) \/ RequestCancel(c) PROVE UNCHANGED call
  BY <1>7 DEF Work, Start, Settle, JobEnds, GiveUp, LoadForCancel, RequestCancel
<1> QED BY <1>4, <1>5, <1>6, <1>7 DEF Next, vars, AskedInv, Blank

\* The abstract variables.
AsksOf    == [c \in Calls |-> AskOf(c)]
AnswersOf == [c \in Calls |-> call[c].answer]

LEMMA SameAsks ==
  ASSUME TypeOK, NEW c \in Calls, Advances(c), Same(c) PROVE AsksOf' = AsksOf
BY DEF Advances, Same, AsksOf, AskOf

LEMMA SameAnswers ==
  ASSUME NEW c \in Calls, Advances(c), call'[c].answer = call[c].answer PROVE AnswersOf' = AnswersOf
BY DEF Advances, AnswersOf

LEMMA CreatingStutters ==
  ASSUME AsksOf' = AsksOf, AnswersOf' = AnswersOf, status' = status, overrun' = overrun
  PROVE  UNCHANGED Creating!threadVars
BY DEF Creating!threadVars, AsksOf, AnswersOf

LEMMA CreatingInit == Init => Creating!Init
BY DEF Init, Creating!Init, Creating!Unasked, AskOf, Blank, Runs

LEMMA CreatingCreated == Creating!Created = Rows
BY DEF Creating!Created, Rows, Runs

LEMMA AskedIsAsked ==
  ASSUME AskedInv, NEW c \in Calls, call[c].pc \notin {"idle", "done"}
  PROVE  AskOf(c) # Creating!Unasked /\ call[c].answer = None
<1>1. call[c].request # None
  BY CreationAssumption DEF AskedInv
<1> QED BY <1>1 DEF AskedInv, AskOf, Creating!Unasked

\* A call looks for a run and goes on: nothing that its caller could see.
LEMMA GoOnStutters ==
  ASSUME TypeOK, NEW c \in Calls, NEW place \in Pcs, Goto(c, place), status' = status, overrun' = overrun
  PROVE  UNCHANGED Creating!threadVars
BY GotoFacts, SameAsks, SameAnswers, CreatingStutters DEF Advances

LEMMA RefusedRefuses ==
  ASSUME TypeOK, StateInv, AskedInv, NEW c \in Calls, call[c].pc \notin {"idle", "enqueue", "done"},
         Refuse(c), status' = status, overrun' = overrun
  PROVE  Creating!Refuse(c)
<1>1. status[c] = "none" /\ AskOf(c) # Creating!Unasked /\ call[c].answer = None
  BY AskedIsAsked DEF StateInv
<1>2. call' = [call EXCEPT ![c] = Blank("done")]
  BY DEF Refuse
<1>3. AsksOf' = [AsksOf EXCEPT ![c] = Creating!Unasked]
  BY <1>2 DEF AsksOf, AskOf, Creating!Unasked, Blank, TypeOK
<1>4. AnswersOf' = AnswersOf
  BY <1>1, <1>2 DEF AnswersOf, Blank, TypeOK
<1> QED BY <1>1, <1>3, <1>4 DEF Creating!Refuse, AsksOf, AnswersOf, Runs

LEMMA AnsweredAnswers ==
  ASSUME TypeOK, AskedInv, NEW c \in Calls, call[c].pc \notin {"idle", "done"}, NEW d \in Rows,
         call[d].request = call[c].request, SameScope(c, d), Answer(c, d), status' = status, overrun' = overrun
  PROVE  Creating!Answer(c)
<1>1. AskOf(c) # Creating!Unasked /\ call[c].answer = None /\ AskOf(d) = AskOf(c) /\ d \in Calls
  BY AskedIsAsked DEF AskOf, SameScope, Rows, Runs
<1>2. AsksOf' = AsksOf
  BY <1>1, AnswerFacts, SameAsks DEF Advances, Runs
<1>3. AnswersOf' = [AnswersOf EXCEPT ![c] = d]
  BY DEF AnswersOf, Answer, TypeOK
<1> QED BY <1>1, <1>2, <1>3, CreatingCreated DEF Creating!Answer, AsksOf, AnswersOf

LEMMA BeginAsks == ASSUME TypeOK, AskedInv, NEW c \in Calls, Begin(c) PROVE Creating!Ask(c)
<1>1. PICK q \in Requests, t \in Threads, p \in Rows \cup {None} :
         call' = [call EXCEPT ![c] = [pc |-> "find", request |-> q, thread |-> t, parent |-> p, answer |-> None]]
  BY DEF Begin
<1>2. call[c] = Blank("idle") /\ status' = status /\ overrun' = overrun
  BY DEF Begin, At, AskedInv, tables, history
<1>3. [request |-> q, thread |-> t, parent |-> p] \in Creating!Asks
  BY DEF Creating!Asks, Rows, Runs
<1>4. AsksOf' = [AsksOf EXCEPT ![c] = [request |-> q, thread |-> t, parent |-> p]]
  BY <1>1 DEF AsksOf, AskOf, TypeOK
<1>5. AnswersOf' = AnswersOf
  BY <1>1, <1>2 DEF AnswersOf, Blank, TypeOK
<1>6. AskOf(c) = Creating!Unasked
  BY <1>2 DEF AskOf, Blank, Creating!Unasked
<1> QED BY <1>2, <1>3, <1>4, <1>5, <1>6 DEF Creating!Ask, AsksOf, AnswersOf

\* All that was checked before the insert holds when the row is committed.
LEMMA CommitCreates ==
  ASSUME TypeOK, StateInv, UniqueInv, ParentInv, AskedInv, NEW c \in Calls, Commit(c)
  PROVE  Creating!Create(c)
<1> USE DEF Runs
<1>1. call[c].pc = "commit" /\ Goto(c, "enqueue") /\ status' = [status EXCEPT ![c] = "pending"] /\ overrun' = overrun
  BY DEF Commit, At, history
<1>2. AskOf(c) # Creating!Unasked /\ call[c].answer = None /\ status[c] = "none"
  BY <1>1, AskedIsAsked DEF StateInv
<1>3. AsksOf' = AsksOf /\ AnswersOf' = AnswersOf
  BY <1>1, GotoFacts, SameAsks, SameAnswers DEF Advances, Pcs
<1>4. \A r \in Rows : call[r].request # call[c].request
  BY <1>1, <1>2 DEF UniqueInv, Row, Rows
<1>5. \A r \in Rows : status[r] \in Active => call[r].thread # call[c].thread
  BY <1>1, <1>2 DEF UniqueInv, Claim, Rows
<1>6. ~Creating!Busy(call[c].thread)
  BY <1>5, CreatingCreated DEF Creating!Busy, Creating!Active, Active, AskOf, Rows
<1>7. call[c].parent # None => Creating!Resumable(call[c].parent, call[c].thread)
  <2> SUFFICES ASSUME call[c].parent # None PROVE Creating!Resumable(call[c].parent, call[c].thread)
    OBVIOUS
  <2>1. call[c].parent \in Rows /\ Interrupted(call[c].parent) /\ call[call[c].parent].thread = call[c].thread
    BY <1>1 DEF ParentInv
  <2> QED BY <2>1, CreatingCreated DEF Creating!Resumable, Interrupted, AskOf, Rows
<1>8. \A r \in Creating!Created : AsksOf[r].request # AsksOf[c].request
  BY <1>4, CreatingCreated DEF AsksOf, AskOf, Rows
<1>9. AsksOf[c] = AskOf(c) /\ AskOf(c).thread = call[c].thread /\ AskOf(c).parent = call[c].parent
  BY DEF AsksOf, AskOf
<1> QED BY <1>1, <1>2, <1>3, <1>6, <1>7, <1>8, <1>9 DEF Creating!Create, AsksOf, AnswersOf

LEMMA WorkGoes ==
  ASSUME TypeOK, StateInv, UniqueInv, NEW r \in Calls, Work(r) \/ GiveUp(r) \/ LoadForCancel(r) \/ RequestCancel(r)
  PROVE  Creating!Go(r) \/ Creating!Reopen(r) \/ UNCHANGED Creating!threadVars
<1> USE DEF Runs, history
<1>1. AsksOf' = AsksOf /\ AnswersOf' = AnswersOf
  BY DEF AsksOf, AnswersOf, AskOf, Work, Start, Settle, JobEnds, GiveUp, LoadForCancel, RequestCancel
<1>2. CASE UNCHANGED <<status, overrun>>
  BY <1>1, <1>2, CreatingStutters
<1>3. ASSUME status[r] \in Active, overrun' = overrun,
             NEW s \in {"running", "cancel_requested"} \cup Terminal, status' = [status EXCEPT ![r] = s]
      PROVE  Creating!Go(r)
  BY <1>1, <1>3 DEF Creating!Go, Creating!Active, Creating!Terminal, Active, Terminal, AsksOf, AnswersOf
<1>4. CASE Start(r) \/ Settle(r)
  BY <1>3, <1>4 DEF Start, Settle, Active
<1>5. CASE JobEnds(r) \/ GiveUp(r) \/ LoadForCancel(r)
  BY <1>2, <1>5 DEF JobEnds, GiveUp, LoadForCancel
<1>6. CASE RequestCancel(r)
  <2>1. status[r] \in Active \cup Terminal
    BY <1>6 DEF RequestCancel, StateInv, TypeOK
  <2>2. CASE status[r] \in Active
    BY <1>3, <1>6, <2>2 DEF RequestCancel
  <2>3. CASE status[r] \notin Active /\ ActiveIn(call[r].thread) # {}
    BY <1>2, <1>6, <2>3 DEF RequestCancel
  <2>4. CASE status[r] \notin Active /\ ActiveIn(call[r].thread) = {}
    <3>1. status' = [status EXCEPT ![r] = "cancel_requested"] /\ overrun' = overrun \cup {r}
      BY <1>6, <2>4 DEF RequestCancel
    <3>2. ~Creating!Busy(call[r].thread)
      BY <2>4, CreatingCreated DEF Creating!Busy, Creating!Active, Active, AskOf, ActiveIn, Rows
    <3>3. status[r] \in Creating!Terminal
      BY <2>1, <2>4 DEF Creating!Terminal, Terminal
    <3>4. AsksOf[r].thread = call[r].thread
      BY DEF AsksOf, AskOf
    <3> QED BY <1>1, <3>1, <3>2, <3>3, <3>4 DEF Creating!Reopen, AsksOf, AnswersOf
  <2> QED BY <2>2, <2>3, <2>4
<1> QED BY <1>4, <1>5, <1>6 DEF Work

LEMMA CreatingStep ==
  TypeOK /\ StateInv /\ UniqueInv /\ ParentInv /\ AskedInv /\ [Next]_vars => [Creating!Next]_(Creating!threadVars)
<1> SUFFICES ASSUME TypeOK, StateInv, UniqueInv, ParentInv, AskedInv, [Next]_vars
             PROVE  [Creating!Next]_(Creating!threadVars)
  OBVIOUS
<1> USE DEF At, Runs, tables, history
<1>1. ASSUME NEW c \in Calls, Begin(c) PROVE Creating!Next
  BY <1>1, BeginAsks DEF Creating!Next
<1>2. ASSUME NEW c \in Calls, Find(c) \/ CheckParent(c) \/ CheckActive(c) \/ Insert(c) \/ Rematch(c)
      PROVE  [Creating!Next]_(Creating!threadVars)
  <2>1. UNCHANGED <<status, overrun>> /\ call[c].pc \notin {"idle", "enqueue", "done"}
    BY <1>2 DEF Find, CheckParent, CheckActive, Insert, Rematch
  <2>2. CASE \E place \in Pcs : Goto(c, place)
    BY <2>1, <2>2, GoOnStutters
  <2>3. CASE Refuse(c)
    BY <2>1, <2>3, RefusedRefuses DEF Creating!Next
  <2>4. CASE \E d \in Rows : call[d].request = call[c].request /\ SameScope(c, d) /\ Answer(c, d)
    BY <2>1, <2>4, AnsweredAnswers DEF Creating!Next
  <2> QED BY <1>2, <2>2, <2>3, <2>4 DEF Find, CheckParent, CheckActive, Insert, Rematch, Pcs
<1>3. ASSUME NEW c \in Calls, Commit(c) PROVE Creating!Next
  BY <1>3, CommitCreates DEF Creating!Next
<1>4. ASSUME NEW c \in Calls, Enqueue(c) PROVE Creating!Next
  <2>1. c \in Rows /\ call[c].pc = "enqueue" /\ Answer(c, c) /\ UNCHANGED <<status, overrun>>
    BY <1>4 DEF Enqueue, StateInv, Rows, Active
  <2> QED BY <2>1, AnsweredAnswers DEF Creating!Next, SameScope
<1>5. ASSUME NEW c \in Calls, Fail(c) PROVE [Creating!Next]_(Creating!threadVars)
  <2>1. CASE call[c].pc = "enqueue"
    BY <1>5, <2>1, GoOnStutters DEF Fail, Pcs
  <2>2. CASE call[c].pc # "enqueue"
    BY <1>5, <2>2, RefusedRefuses DEF Fail, Creating!Next
  <2> QED BY <2>1, <2>2
<1>6. ASSUME NEW r \in Calls, Work(r) \/ GiveUp(r) \/ LoadForCancel(r) \/ RequestCancel(r)
      PROVE  [Creating!Next]_(Creating!threadVars)
  BY <1>6, WorkGoes DEF Creating!Next
<1>7. CASE UNCHANGED vars
  BY <1>7, CreatingStutters DEF vars, AsksOf, AnswersOf, AskOf
<1> QED BY <1>1, <1>2, <1>3, <1>4, <1>5, <1>6, <1>7 DEF Next, Create

\* The calls' checks, inserts and commits, interleaved as they may be with each other, with
\* workers and with cancels, look to the callers like one atomic step each.
THEOREM CreationIsAtomic == Spec => ImplementsThreadRuns
<1>1. Init => TypeOK /\ StateInv /\ UniqueInv /\ ParentInv /\ AskedInv /\ Creating!Init
  BY StateInit, UniqueInit, ParentInit, AskedInit, CreatingInit
<1>2. TypeOK /\ StateInv /\ UniqueInv /\ ParentInv /\ AskedInv /\ [Next]_vars
      => (TypeOK /\ StateInv /\ UniqueInv /\ ParentInv /\ AskedInv)'
  BY StateStep, UniqueStep, ParentStep, AskedStep
<1> QED BY <1>1, <1>2, CreatingStep, PTL DEF Spec, ImplementsThreadRuns, Creating!Spec
=============================================================================
