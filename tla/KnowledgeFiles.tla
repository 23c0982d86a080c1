--------------------------- MODULE KnowledgeFiles ---------------------------
(***************************************************************************)
(* One file of a Milvus knowledge base: its row in PostgreSQL, its chunks   *)
(* in PostgreSQL and in Milvus, and the calls that parse, index, move and   *)
(* delete it at the same time. Parsing and indexing claim the row by a      *)
(* conditional update and write their result without a condition; moving    *)
(* loads the whole row and writes all of it back; deleting goes through the *)
(* stores one after the other. A restart kills the calls and puts claimed   *)
(* rows back.                                                               *)
(*                                                                          *)
(* Files share nothing the properties are about, so that one is enough. A   *)
(* call is a request or a background task at one file; a call the code      *)
(* refuses changes nothing and is not kept.                                 *)
(***************************************************************************)
EXTENDS Integers, FiniteSets

CONSTANTS
  NumCalls,     \* how many calls come
  Batches,      \* how many batches of chunks the file is split into
  MaxFaults,    \* how many database or Milvus operations may fail
  MaxRestarts   \* how often the process may be killed and started again

ASSUME FilesAssumption ==
  /\ NumCalls \in Nat /\ Batches \in Nat \ {0}
  /\ MaxFaults \in Nat /\ MaxRestarts \in Nat

Calls == 1..NumCalls   \* in the order of their arrival

VARIABLES
  row,       \* the row of the file
  pg,        \* its chunks in PostgreSQL: pairs of a batch and the call that stored it
  milvus,    \* its chunks in Milvus
  op,        \* what a call does
  at,        \* the step it is at
  copy,      \* the row a move has loaded
  batch,     \* the batch an indexing call is at
  bad,       \* whether an insertion of that batch has failed
  faults, restarts,
  mishaps    \* history: which of the named mishaps have happened

filesVars == <<row, pg, milvus, op, at, copy, batch, bad, faults, restarts, mishaps>>

Statuses == {"uploaded", "parsing", "parsed", "error_parsing",
             "indexing", "indexed", "error_indexing", "done"}
Rows == [status : Statuses, markdown : BOOLEAN, chunks : 0..Batches]
NoRow == [status |-> "absent", markdown |-> FALSE, chunks |-> 0]
Writers == {0} \cup Calls
Chunks == (1..Batches) \X Writers
Full(w) == (1..Batches) \X {w}

Mishap == {"stale",     \* a move wrote back a row that had changed since it was loaded
           "cut",       \* a deletion ended between the chunks and the row
           "refused",   \* Milvus or PostgreSQL refused a deletion and the call went on
           "overlap",   \* an indexing and a deletion were at work at the same time
           "late",      \* an indexing call failed after its result and after another claim
           "stuck",     \* the result of a claim could not be written
           "unreset"}   \* the rows were not reset at the start

ParseFrom == {"uploaded", "error_parsing"}
\* Fault: an interrupted indexing may be taken up again.
IndexFromInterrupted == {"parsed", "error_indexing", "indexed", "done", "indexing"}
IndexFrom == {"parsed", "error_indexing", "indexed", "done"}

IndexSteps == {"unparse", "clear_pg", "clear_milvus", "uncount", "store",
               "then_pg", "then_milvus", "index_write", "roll_pg", "roll_milvus", "fail"}
DeleteSteps == {"clear_pg", "clear_milvus", "uncount", "remove"}
Steps == {"idle", "done", "parse", "parse_fail", "refresh", "late_fail", "write"}
         \cup IndexSteps \cup DeleteSteps

\* The calls whose claim of the row has no result yet.
Claimants == {c \in Calls : at[c] \in {"parse", "parse_fail"} \/ (op[c] = "index" /\ at[c] \in IndexSteps)}
AtWork(o) == {c \in Calls : op[c] = o /\ at[c] \notin {"idle", "done"}}
Quiet == \A c \in Calls : at[c] \in {"idle", "done"}

Present == row # NoRow
\* update_fields: nothing is written when the row is gone.
UpdateFields(s, markdown, chunks) ==
  row' = IF Present THEN [status |-> s, markdown |-> markdown, chunks |-> chunks] ELSE NoRow

\* The rows a file or a folder comes to these calls with: just added, parsed,
\* indexed, or a folder, whose status is "done" from the start.
FilesInit ==
  /\ \/ row = [status |-> "uploaded", markdown |-> FALSE, chunks |-> 0] /\ pg = {}
     \/ row = [status |-> "parsed", markdown |-> TRUE, chunks |-> 0] /\ pg = {}
     \/ row = [status |-> "indexed", markdown |-> TRUE, chunks |-> Batches] /\ pg = Full(0)
     \/ row = [status |-> "done", markdown |-> FALSE, chunks |-> 0] /\ pg = {}
  /\ milvus = pg
  /\ op = [c \in Calls |-> "none"] /\ at = [c \in Calls |-> "idle"]
  /\ copy = [c \in Calls |-> NoRow] /\ batch = [c \in Calls |-> 1]
  /\ bad = [c \in Calls |-> FALSE]
  /\ faults = 0 /\ restarts = 0 /\ mishaps = {}

-----------------------------------------------------------------------------
(* Helpers *)

\* A call begins: those before it have come already.
Begin(c, o, place) ==
  /\ at[c] = "idle" /\ \A d \in Calls : d < c => at[d] # "idle"
  /\ op' = [op EXCEPT ![c] = o] /\ at' = [at EXCEPT ![c] = place]

Goto(c, place) == at' = [at EXCEPT ![c] = place]
Note(m) == mishaps' = mishaps \cup m
\* An operation of a store fails.
Fault == faults < MaxFaults /\ faults' = faults + 1

-----------------------------------------------------------------------------
(* parse_file *)

ParseClaim(c) ==
  /\ row.status \in ParseFrom
  /\ Begin(c, "parse", "parse")
  /\ row' = [row EXCEPT !.status = "parsing"]
  /\ UNCHANGED <<pg, milvus, copy, batch, bad, faults, restarts, mishaps>>

\* The text is saved and the row says parsed.
ParseWrite(c) ==
  /\ at[c] = "parse" /\ Goto(c, "done")
  /\ UpdateFields("parsed", TRUE, row.chunks)
  /\ UNCHANGED <<pg, milvus, op, copy, batch, bad, faults, restarts, mishaps>>

\* The parser or the write has raised an exception.
ParseRaises(c) ==
  /\ at[c] = "parse" /\ Goto(c, "parse_fail")
  /\ UNCHANGED <<row, pg, milvus, op, copy, batch, bad, faults, restarts, mishaps>>

ParseFail(c) ==
  /\ at[c] = "parse_fail" /\ Goto(c, "done")
  /\ \/ UpdateFields("error_parsing", row.markdown, row.chunks) /\ UNCHANGED <<faults, mishaps>>
     \/ Fault /\ Note({"stuck"}) /\ UNCHANGED row
  /\ UNCHANGED <<pg, milvus, op, copy, batch, bad, restarts>>

-----------------------------------------------------------------------------
(* index_file *)

IndexClaim(c) ==
  /\ row.status \in IndexFrom
  /\ Begin(c, "index", IF row.markdown THEN "clear_pg" ELSE "unparse")
  /\ row' = [row EXCEPT !.status = "indexing"]
  /\ Note(IF AtWork("delete") # {} THEN {"overlap"} ELSE {})
  /\ UNCHANGED <<pg, milvus, copy, batch, bad, faults, restarts>>

\* _mark_file_unparsed: there is no Markdown to index.
Unparse(c) ==
  /\ at[c] = "unparse" /\ Goto(c, "done")
  /\ \/ UpdateFields("uploaded", FALSE, row.chunks) /\ UNCHANGED <<faults, mishaps>>
     \/ Fault /\ Note({"stuck"}) /\ UNCHANGED row
  /\ UNCHANGED <<pg, milvus, op, copy, batch, bad, restarts>>

\* The exception of an indexing call is caught and written to the row. A
\* deleting call gives it to its caller.
Raise(c) == Goto(c, IF op[c] = "index" THEN "fail" ELSE "done")

\* delete_file_chunks_only, the same for both calls: the chunks in PostgreSQL,
\* those in Milvus, where an error is only logged, and the count in the row, after
\* which the totals of the knowledge base are counted again.
ClearPg(c) ==
  /\ at[c] = "clear_pg"
  /\ \/ pg' = {} /\ Goto(c, "clear_milvus") /\ UNCHANGED faults
     \/ Fault /\ Raise(c) /\ UNCHANGED pg
  /\ UNCHANGED <<row, milvus, op, copy, batch, bad, restarts, mishaps>>

ClearMilvus(c) ==
  /\ at[c] = "clear_milvus" /\ Goto(c, "uncount")
  /\ \/ milvus' = {} /\ UNCHANGED <<faults, mishaps>>
     \/ Fault /\ Note({"refused"}) /\ UNCHANGED milvus
  /\ UNCHANGED <<row, pg, op, copy, batch, bad, restarts>>

Uncount(c) ==
  /\ at[c] = "uncount"
  /\ \/ /\ UpdateFields(row.status, row.markdown, 0)
        /\ Goto(c, IF op[c] = "index" THEN "store" ELSE "remove")
        /\ UNCHANGED <<faults, mishaps>>
     \/ /\ Fault /\ Raise(c)
        /\ Note(IF op[c] = "delete" THEN {"cut"} ELSE {})
        /\ UpdateFields(row.status, row.markdown, 0) \/ UNCHANGED row
  /\ UNCHANGED <<pg, milvus, op, copy, batch, bad, restarts>>

\* Fault: nobody looks at what the insertion into PostgreSQL has come to.
InsertPgBlindly(c) ==
  /\ \/ Present /\ pg' = {x \in pg : x[1] # batch[c]} \cup {<<batch[c], c>>} /\ UNCHANGED faults
     \/ ~Present /\ UNCHANGED <<pg, faults>>
     \/ Fault /\ UNCHANGED pg
  /\ UNCHANGED bad
\* A batch goes into both stores at once. PostgreSQL replaces a chunk of the same
\* number and needs the row of the file; Milvus takes every insertion.
InsertPg(c) ==
  \/ Present /\ pg' = {x \in pg : x[1] # batch[c]} \cup {<<batch[c], c>>} /\ UNCHANGED <<bad, faults>>
  \/ ~Present /\ bad' = [bad EXCEPT ![c] = TRUE] /\ UNCHANGED <<pg, faults>>
  \/ Fault /\ bad' = [bad EXCEPT ![c] = TRUE] /\ UNCHANGED pg
InsertMilvus(c) ==
  \/ milvus' = milvus \cup {<<batch[c], c>>} /\ UNCHANGED <<bad, faults>>
  \/ Fault /\ bad' = [bad EXCEPT ![c] = TRUE] /\ UNCHANGED milvus

\* The first of the two insertions ends, whichever it is.
StoreFirst(c) ==
  /\ at[c] = "store"
  /\ \/ InsertPg(c) /\ Goto(c, "then_milvus") /\ UNCHANGED milvus
     \/ InsertMilvus(c) /\ Goto(c, "then_pg") /\ UNCHANGED pg
  /\ UNCHANGED <<row, op, copy, batch, restarts, mishaps>>

\* The model that embeds the batch fails: nothing stored before is taken back.
EmbedFails(c) ==
  /\ at[c] = "store" /\ Fault /\ Goto(c, "fail")
  /\ UNCHANGED <<row, pg, milvus, op, copy, batch, bad, restarts, mishaps>>

\* Then the second one ends: the next batch, or the row says indexed, or both
\* stores are rolled back.
StoreSecond(c) ==
  /\ \/ at[c] = "then_milvus" /\ InsertMilvus(c) /\ UNCHANGED pg
     \/ at[c] = "then_pg" /\ InsertPg(c) /\ UNCHANGED milvus
  /\ IF bad'[c] THEN Goto(c, "roll_pg") /\ UNCHANGED <<row, batch>>
     ELSE IF batch[c] < Batches
       THEN Goto(c, "store") /\ batch' = [batch EXCEPT ![c] = @ + 1] /\ UNCHANGED row
       ELSE Goto(c, "index_write") /\ UNCHANGED <<row, batch>>
  /\ UNCHANGED <<op, copy, restarts, mishaps>>

IndexWrite(c) ==
  /\ at[c] = "index_write"
  /\ \/ Goto(c, "refresh") /\ UpdateFields("indexed", row.markdown, Batches) /\ UNCHANGED faults
     \/ Fault /\ Goto(c, "fail") /\ UNCHANGED row
  /\ UNCHANGED <<pg, milvus, op, copy, batch, bad, restarts, mishaps>>

RollPg(c) ==
  /\ at[c] = "roll_pg" /\ Goto(c, "roll_milvus")
  /\ \/ pg' = {} /\ UNCHANGED <<faults, mishaps>>
     \/ Fault /\ Note({"refused"}) /\ UNCHANGED pg
  /\ UNCHANGED <<row, milvus, op, copy, batch, bad, restarts>>

RollMilvus(c) ==
  /\ at[c] = "roll_milvus" /\ Goto(c, "fail")
  /\ \/ milvus' = {} /\ UNCHANGED <<faults, mishaps>>
     \/ Fault /\ Note({"refused"}) /\ UNCHANGED milvus
  /\ UNCHANGED <<row, pg, op, copy, batch, bad, restarts>>

IndexFail(c) ==
  /\ at[c] = "fail" /\ Goto(c, "done")
  /\ \/ UpdateFields("error_indexing", row.markdown, row.chunks) /\ UNCHANGED <<faults, mishaps>>
     \/ Fault /\ Note({"stuck"}) /\ UNCHANGED row
  /\ UNCHANGED <<pg, milvus, op, copy, batch, bad, restarts>>

\* The totals of the knowledge base are counted again, still inside the try: an
\* error here overwrites the result with error_indexing.
Refresh(c) ==
  /\ at[c] = "refresh"
  /\ \/ Goto(c, "done") /\ UNCHANGED faults
     \/ Fault /\ Goto(c, "late_fail")
  /\ UNCHANGED <<row, pg, milvus, op, copy, batch, bad, restarts, mishaps>>

LateFail(c) ==
  /\ at[c] = "late_fail" /\ Goto(c, "done")
  /\ UpdateFields("error_indexing", row.markdown, row.chunks)
  /\ Note(IF row.status # "indexed" /\ Present THEN {"late"} ELSE {})
  /\ UNCHANGED <<pg, milvus, op, copy, batch, bad, faults, restarts>>

-----------------------------------------------------------------------------
(* delete_file, move_file and the start of the process *)

\* Fault: only the row is deleted.
DeleteRowOnly(c) ==
  /\ Present /\ Begin(c, "delete", "remove")
  /\ Note(IF AtWork("index") # {} THEN {"overlap"} ELSE {})
  /\ UNCHANGED <<row, pg, milvus, copy, batch, bad, faults, restarts>>

DeleteStart(c) ==
  /\ Present /\ Begin(c, "delete", "clear_pg")
  /\ Note(IF AtWork("index") # {} THEN {"overlap"} ELSE {})
  /\ UNCHANGED <<row, pg, milvus, copy, batch, bad, faults, restarts>>

\* The row is deleted, and the chunks that refer to it with it.
RemoveRow(c) ==
  /\ at[c] = "remove" /\ Goto(c, "done")
  /\ \/ row' = NoRow /\ pg' = {} /\ UNCHANGED <<faults, mishaps>>
     \/ Fault /\ Note({"cut"}) /\ UNCHANGED <<row, pg>>
  /\ UNCHANGED <<milvus, op, copy, batch, bad, restarts>>

MoveLoad(c) ==
  /\ Present /\ Begin(c, "move", "write")
  /\ copy' = [copy EXCEPT ![c] = row]
  /\ UNCHANGED <<row, pg, milvus, batch, bad, faults, restarts, mishaps>>

\* Every column is written, and a row that was deleted is inserted again.
MoveWrite(c) ==
  /\ at[c] = "write" /\ Goto(c, "done")
  /\ row' = copy[c] /\ copy' = [copy EXCEPT ![c] = NoRow]
  /\ Note(IF row # copy[c] THEN {"stale"} ELSE {})
  /\ UNCHANGED <<pg, milvus, op, batch, bad, faults, restarts>>

\* Fault: interrupted indexing is left as it is.
ResetParsing(s) == IF s = "parsing" THEN "uploaded" ELSE s
\* What the row of a claim falls back to.
ResetStatus(s) == CASE s = "parsing" -> "uploaded" [] s = "indexing" -> "parsed" [] OTHER -> s

\* The process dies with its calls and starts again; an error of the reset is
\* logged and the start goes on.
FilesRestart ==
  /\ restarts < MaxRestarts /\ restarts' = restarts + 1
  /\ at' = [c \in Calls |-> IF at[c] = "idle" THEN "idle" ELSE "done"]
  /\ copy' = [c \in Calls |-> NoRow]
  /\ LET cut == IF \E c \in AtWork("delete") : at[c] # "clear_pg" THEN {"cut"} ELSE {} IN
     \/ /\ row' = [row EXCEPT !.status = ResetStatus(@)]
        /\ Note(cut) /\ UNCHANGED faults
     \/ Fault /\ Note(cut \cup {"unreset"}) /\ UNCHANGED row
  /\ UNCHANGED <<pg, milvus, op, batch, bad>>

-----------------------------------------------------------------------------
(* Specification *)

\* What a call that has begun does next.
Proceed(c) ==
  \/ ParseWrite(c) \/ ParseRaises(c) \/ ParseFail(c) \/ Unparse(c) \/ ClearPg(c) \/ ClearMilvus(c) \/ Uncount(c)
  \/ StoreFirst(c) \/ EmbedFails(c) \/ StoreSecond(c) \/ IndexWrite(c)
  \/ RollPg(c) \/ RollMilvus(c) \/ IndexFail(c) \/ Refresh(c) \/ LateFail(c)
  \/ RemoveRow(c) \/ MoveWrite(c)
Arrive(c) == ParseClaim(c) \/ IndexClaim(c) \/ DeleteStart(c) \/ MoveLoad(c)

FilesNext == (\E c \in Calls : Proceed(c) \/ Arrive(c)) \/ FilesRestart
FilesSpec == FilesInit /\ [][FilesNext]_filesVars

\* A call that has begun goes on: the stores answer, well or with an error, and
\* the parser and the embedding model end.
FilesFair == \A c \in Calls : WF_filesVars(Proceed(c))

-----------------------------------------------------------------------------
(* Properties *)

\* Every variable holds a value of its kind.
FilesTypeOK ==
  /\ row \in Rows \cup {NoRow}
  /\ pg \subseteq Chunks /\ milvus \subseteq Chunks
  /\ op \in [Calls -> {"none", "parse", "index", "delete", "move"}]
  /\ at \in [Calls -> Steps]
  /\ copy \in [Calls -> Rows \cup {NoRow}]
  /\ batch \in [Calls -> 1..Batches] /\ bad \in [Calls -> BOOLEAN]
  /\ faults \in 0..MaxFaults /\ restarts \in 0..MaxRestarts
  /\ mishaps \subseteq Mishap

\* Claims exclude each other: two calls parse or index the file at the same time
\* only after a move has written a stale row back, or after an indexing call has
\* failed behind its own result.
OneClaimant == mishaps \cap {"stale", "late"} = {} => Cardinality(Claimants) <= 1

\* A claimed row is never left behind: as long as it says parsing or indexing, which
\* refuses every other claim, the call that will write the result is under way, unless
\* a move brought the status back, the result could not be written, or the reset at
\* the start failed.
ClaimHeld ==
  row.status \in {"parsing", "indexing"} =>
    Claimants # {} \/ mishaps \cap {"stale", "stuck", "unreset"} # {}

\* A file whose row says indexed can be found: when no call is at work, all its
\* chunks are in both stores, by the same indexing call, and Milvus has no other
\* ones, and the row counts them. Only a stale move, a cut deletion or a late failure can undo this, and only
\* a refused deletion leaves older chunks in Milvus.
IndexedSearchable ==
  (row.status = "indexed" /\ Quiet /\ mishaps \cap {"stale", "cut", "late"} = {}) =>
    \E w \in Writers :
      /\ row.chunks = Batches /\ pg = Full(w) /\ Full(w) \subseteq milvus
      /\ "refused" \notin mishaps => milvus = Full(w)

\* A deleted file cannot be found: its chunks stay in Milvus only if Milvus
\* refused to delete them or an indexing call was at work beside the deletion.
DeletedUnfindable ==
  (~Present /\ Quiet /\ mishaps \cap {"refused", "overlap", "stale"} = {}) => milvus = {}

\* The status is the lock FileClaims promises: taken when nobody holds it, kept until its
\* holder writes a result of the claimed kind, gives up or dies, and written past the
\* holder only by a move that writes a stale row back and by a late failure.
ClaimOf(c) == IF c \notin Claimants THEN "none" ELSE IF op[c] = "index" THEN "indexing" ELSE "parsing"
Claims == INSTANCE FileClaims
            WITH status <- row.status, claim <- [c \in Calls |-> ClaimOf(c)],
                 spoiled <- mishaps \cap {"stale", "late"} # {}
ImplementsFileClaims == Claims!Spec

\* A claimed row does not stay claimed: the status leaves parsing and indexing
\* unless a move brought it back, its result could not be written, or the reset at the
\* start failed.
ClaimsEnd ==
  (row.status \in {"parsing", "indexing"}) ~>
    (row.status \notin {"parsing", "indexing"} \/ mishaps \cap {"stale", "stuck", "unreset"} # {})
=============================================================================
