------------------------ MODULE KnowledgeFilesProofs ------------------------
(***************************************************************************)
(* Proofs of the safety properties of KnowledgeFiles, for every number of   *)
(* calls, of batches, of faults and of restarts.                            *)
(***************************************************************************)
EXTENDS KnowledgeFiles, FiniteSetTheorems, TLAPS

Working(c) == Proceed(c) \/ Arrive(c)

-----------------------------------------------------------------------------
(* Types *)

LEMMA NoRowDiffers == NoRow \notin Rows /\ NoRow.status = "absent"
BY DEF NoRow, Rows, Statuses

\* The row keeps its type through a write of some of its fields.
LEMMA WriteTypes ==
  ASSUME FilesTypeOK, NEW s \in Statuses, NEW m \in BOOLEAN, NEW n \in 0..Batches,
         UpdateFields(s, m, n)
  PROVE  row' \in Rows \cup {NoRow}
BY DEF UpdateFields, Rows, FilesTypeOK

\* A row that is present has the fields of one.
LEMMA RowTypes ==
  ASSUME FilesTypeOK, Present
  PROVE  row \in Rows /\ row.status \in Statuses /\ row.markdown \in BOOLEAN /\ row.chunks \in 0..Batches
BY DEF FilesTypeOK, Present, Rows

\* Writing to a row that is gone changes nothing.
LEMMA GoneStays ==
  ASSUME NEW s, NEW m, NEW n, UpdateFields(s, m, n), ~Present
  PROVE  row' = NoRow
BY DEF UpdateFields

LEMMA FilesTypeInit == FilesInit => FilesTypeOK
<1> SUFFICES ASSUME FilesInit PROVE FilesTypeOK
  OBVIOUS
<1>1. row \in Rows
  <2>1. \A n \in {0, Batches} : n \in 0..Batches
    BY FilesAssumption
  <2>2. \E s \in {"uploaded", "parsed", "indexed", "done"}, m \in BOOLEAN, n \in {0, Batches} :
           row = [status |-> s, markdown |-> m, chunks |-> n]
    BY Zenon DEF FilesInit
  <2> QED BY <2>1, <2>2 DEF Rows, Statuses
<1>2. pg \subseteq Chunks /\ milvus \subseteq Chunks
  BY DEF FilesInit, Full, Chunks, Writers
<1>3. faults \in 0..MaxFaults /\ restarts \in 0..MaxRestarts /\ 1 \in 1..Batches
  BY FilesAssumption DEF FilesInit
<1> QED BY <1>1, <1>2, <1>3 DEF FilesInit, FilesTypeOK, Steps

\* What the actions do to the row.
LEMMA RowStep ==
  ASSUME FilesTypeOK, NEW c \in Calls, Working(c)
  PROVE  row' \in Rows \cup {NoRow}
<1> USE DEF ParseFrom, IndexFrom, Statuses
<1>0. 0 \in 0..Batches /\ Batches \in 0..Batches
  BY FilesAssumption
<1>1. CASE ParseClaim(c) \/ IndexClaim(c)
  <2>1. row \in Rows
    BY <1>1, NoRowDiffers DEF ParseClaim, IndexClaim, FilesTypeOK
  <2> QED BY <1>1, <2>1 DEF ParseClaim, IndexClaim, Rows
<1>2. CASE ~Present /\ \E s, m, n : UpdateFields(s, m, n)
  BY <1>2, GoneStays
<1>3. CASE Present /\ (\/ UpdateFields("parsed", TRUE, row.chunks)
                       \/ UpdateFields("error_parsing", row.markdown, row.chunks)
                       \/ UpdateFields("uploaded", FALSE, row.chunks)
                       \/ UpdateFields(row.status, row.markdown, 0)
                       \/ UpdateFields("indexed", row.markdown, Batches)
                       \/ UpdateFields("error_indexing", row.markdown, row.chunks))
  BY <1>0, <1>3, RowTypes, WriteTypes
<1>4. CASE MoveWrite(c)
  BY <1>4 DEF MoveWrite, FilesTypeOK
<1>5. CASE UNCHANGED row \/ row' = NoRow
  BY <1>5 DEF FilesTypeOK
<1>6. \/ ParseClaim(c) \/ IndexClaim(c)
      \/ UpdateFields("parsed", TRUE, row.chunks)
      \/ UpdateFields("error_parsing", row.markdown, row.chunks)
      \/ UpdateFields("uploaded", FALSE, row.chunks)
      \/ UpdateFields(row.status, row.markdown, 0)
      \/ UpdateFields("indexed", row.markdown, Batches)
      \/ UpdateFields("error_indexing", row.markdown, row.chunks)
      \/ MoveWrite(c)
      \/ UNCHANGED row \/ row' = NoRow
  <2>1. CASE Arrive(c)
    BY <2>1 DEF Arrive, DeleteStart, MoveLoad
  <2>2. CASE ParseWrite(c) \/ ParseRaises(c) \/ ParseFail(c) \/ Unparse(c) \/ ClearPg(c) \/ ClearMilvus(c)
             \/ Uncount(c)
    BY <2>2 DEF ParseWrite, ParseRaises, ParseFail, Unparse, ClearPg, ClearMilvus, Uncount
  <2>3. CASE StoreFirst(c) \/ EmbedFails(c) \/ StoreSecond(c) \/ IndexWrite(c)
    BY <2>3 DEF StoreFirst, EmbedFails, StoreSecond, IndexWrite
  <2>4. CASE RollPg(c) \/ RollMilvus(c) \/ IndexFail(c) \/ Refresh(c) \/ LateFail(c) \/ RemoveRow(c)
             \/ MoveWrite(c)
    BY <2>4 DEF RollPg, RollMilvus, IndexFail, Refresh, LateFail, RemoveRow
  <2> QED BY <2>1, <2>2, <2>3, <2>4 DEF Working, Proceed
<1> QED BY <1>1, <1>2, <1>3, <1>4, <1>5, <1>6

\* And what they do to the chunks in the two stores.
LEMMA ChunkStep ==
  ASSUME FilesTypeOK, NEW c \in Calls, Working(c)
  PROVE  pg' \subseteq Chunks /\ milvus' \subseteq Chunks
<1>0. <<batch[c], c>> \in Chunks
  BY DEF FilesTypeOK, Chunks, Writers
<1>1. CASE Arrive(c)
  BY <1>1 DEF Arrive, ParseClaim, IndexClaim, DeleteStart, MoveLoad, FilesTypeOK
<1>2. CASE ParseWrite(c) \/ ParseRaises(c) \/ ParseFail(c) \/ Unparse(c) \/ ClearPg(c) \/ ClearMilvus(c)
           \/ Uncount(c)
  BY <1>2 DEF ParseWrite, ParseRaises, ParseFail, Unparse, ClearPg, ClearMilvus, Uncount, FilesTypeOK
<1>3. CASE StoreFirst(c) \/ EmbedFails(c) \/ StoreSecond(c) \/ IndexWrite(c)
  BY <1>0, <1>3 DEF StoreFirst, EmbedFails, StoreSecond, IndexWrite, InsertPg, InsertMilvus, FilesTypeOK
<1>4. CASE RollPg(c) \/ RollMilvus(c) \/ IndexFail(c) \/ Refresh(c) \/ LateFail(c) \/ RemoveRow(c)
           \/ MoveWrite(c)
  BY <1>4 DEF RollPg, RollMilvus, IndexFail, Refresh, LateFail, RemoveRow, MoveWrite, FilesTypeOK
<1> QED BY <1>1, <1>2, <1>3, <1>4 DEF Working, Proceed

\* And to where the calls are.
LEMMA CallStep ==
  ASSUME FilesTypeOK, NEW c \in Calls, Working(c)
  PROVE  /\ op' \in [Calls -> {"none", "parse", "index", "delete", "move"}] /\ at' \in [Calls -> Steps]
         /\ \A d \in Calls \ {c} : op'[d] = op[d] /\ at'[d] = at[d]
<1> USE DEF FilesTypeOK, Steps, IndexSteps, DeleteSteps, Goto, Begin, Raise
<1>1. CASE Arrive(c)
  BY <1>1 DEF Arrive, ParseClaim, IndexClaim, DeleteStart, MoveLoad
<1>2. CASE ParseWrite(c) \/ ParseRaises(c) \/ ParseFail(c) \/ Unparse(c)
  BY <1>2 DEF ParseWrite, ParseRaises, ParseFail, Unparse
<1>3. CASE ClearPg(c) \/ ClearMilvus(c) \/ Uncount(c)
  BY <1>3 DEF ClearPg, ClearMilvus, Uncount
<1>4. CASE StoreFirst(c) \/ EmbedFails(c) \/ StoreSecond(c) \/ IndexWrite(c)
  BY <1>4 DEF StoreFirst, EmbedFails, StoreSecond, IndexWrite
<1>5. CASE RollPg(c) \/ RollMilvus(c) \/ IndexFail(c) \/ Refresh(c) \/ LateFail(c) \/ RemoveRow(c)
           \/ MoveWrite(c)
  BY <1>5 DEF RollPg, RollMilvus, IndexFail, Refresh, LateFail, RemoveRow, MoveWrite
<1> QED BY <1>1, <1>2, <1>3, <1>4, <1>5 DEF Working, Proceed

\* A fault is counted, and nothing else counts as one.
LEMMA FaultStep ==
  ASSUME FilesTypeOK, NEW c \in Calls, Working(c)
  PROVE  faults' \in 0..MaxFaults /\ restarts' = restarts
<1>0. faults' = faults \/ Fault => faults' \in 0..MaxFaults
  BY FilesAssumption DEF FilesTypeOK, Fault
<1>1. CASE Arrive(c)
  BY <1>0, <1>1 DEF Arrive, ParseClaim, IndexClaim, DeleteStart, MoveLoad
<1>2. CASE ParseWrite(c) \/ ParseRaises(c) \/ ParseFail(c) \/ Unparse(c)
  BY <1>0, <1>2 DEF ParseWrite, ParseRaises, ParseFail, Unparse
<1>3. CASE ClearPg(c) \/ ClearMilvus(c) \/ Uncount(c)
  BY <1>0, <1>3 DEF ClearPg, ClearMilvus, Uncount
<1>4. CASE StoreFirst(c) \/ EmbedFails(c) \/ StoreSecond(c) \/ IndexWrite(c)
  BY <1>0, <1>4 DEF StoreFirst, EmbedFails, StoreSecond, IndexWrite, InsertPg, InsertMilvus
<1>5. CASE RollPg(c) \/ RollMilvus(c) \/ IndexFail(c) \/ Refresh(c) \/ LateFail(c) \/ RemoveRow(c)
           \/ MoveWrite(c)
  BY <1>0, <1>5 DEF RollPg, RollMilvus, IndexFail, Refresh, LateFail, RemoveRow, MoveWrite
<1> QED BY <1>1, <1>2, <1>3, <1>4, <1>5 DEF Working, Proceed

\* Mishaps are never taken back.
LEMMA MishapStep ==
  ASSUME FilesTypeOK, NEW c \in Calls, Working(c)
  PROVE  mishaps \subseteq mishaps' /\ mishaps' \subseteq Mishap
<1>1. CASE Arrive(c)
  BY <1>1 DEF Arrive, ParseClaim, IndexClaim, DeleteStart, MoveLoad, FilesTypeOK, Note, Mishap
<1>2. CASE ParseWrite(c) \/ ParseRaises(c) \/ ParseFail(c) \/ Unparse(c)
  BY <1>2 DEF ParseWrite, ParseRaises, ParseFail, Unparse, FilesTypeOK, Note, Mishap
<1>3. CASE ClearPg(c) \/ ClearMilvus(c) \/ Uncount(c)
  BY <1>3 DEF ClearPg, ClearMilvus, Uncount, FilesTypeOK, Note, Mishap
<1>4. CASE StoreFirst(c) \/ EmbedFails(c) \/ StoreSecond(c) \/ IndexWrite(c)
  BY <1>4 DEF StoreFirst, EmbedFails, StoreSecond, IndexWrite, InsertPg, InsertMilvus, FilesTypeOK, Note, Mishap
<1>5. CASE RollPg(c) \/ RollMilvus(c) \/ IndexFail(c) \/ Refresh(c) \/ LateFail(c) \/ RemoveRow(c)
           \/ MoveWrite(c)
  BY <1>5 DEF RollPg, RollMilvus, IndexFail, Refresh, LateFail, RemoveRow, MoveWrite, FilesTypeOK, Note, Mishap
<1> QED BY <1>1, <1>2, <1>3, <1>4, <1>5 DEF Working, Proceed

\* And to what the calls keep.
LEMMA RestStep ==
  ASSUME FilesTypeOK, NEW c \in Calls, Working(c)
  PROVE  /\ copy' \in [Calls -> Rows \cup {NoRow}]
         /\ batch' \in [Calls -> 1..Batches] /\ bad' \in [Calls -> BOOLEAN]
<1>1. CASE Arrive(c)
  BY <1>1 DEF Arrive, ParseClaim, IndexClaim, DeleteStart, MoveLoad, FilesTypeOK
<1>2. CASE ParseWrite(c) \/ ParseRaises(c) \/ ParseFail(c) \/ Unparse(c)
  BY <1>2 DEF ParseWrite, ParseRaises, ParseFail, Unparse, FilesTypeOK
<1>3. CASE ClearPg(c) \/ ClearMilvus(c) \/ Uncount(c)
  BY <1>3 DEF ClearPg, ClearMilvus, Uncount, FilesTypeOK
<1>4. CASE StoreFirst(c) \/ EmbedFails(c) \/ StoreSecond(c) \/ IndexWrite(c)
  <2>1. batch[c] < Batches => batch[c] + 1 \in 1..Batches
    BY FilesAssumption DEF FilesTypeOK
  <2>2. batch' = batch \/ (batch[c] < Batches /\ batch' = [batch EXCEPT ![c] = @ + 1])
    BY <1>4 DEF StoreFirst, EmbedFails, StoreSecond, IndexWrite, InsertPg, InsertMilvus
  <2>3. batch' \in [Calls -> 1..Batches]
    BY <2>1, <2>2 DEF FilesTypeOK
  <2>4. UNCHANGED copy /\ bad' \in [Calls -> BOOLEAN]
    BY <1>4 DEF StoreFirst, EmbedFails, StoreSecond, IndexWrite, InsertPg, InsertMilvus, FilesTypeOK
  <2> QED BY <2>3, <2>4 DEF FilesTypeOK
<1>5. CASE RollPg(c) \/ RollMilvus(c) \/ IndexFail(c) \/ Refresh(c) \/ LateFail(c) \/ RemoveRow(c)
           \/ MoveWrite(c)
  BY <1>5 DEF RollPg, RollMilvus, IndexFail, Refresh, LateFail, RemoveRow, MoveWrite, FilesTypeOK
<1> QED BY <1>1, <1>2, <1>3, <1>4, <1>5 DEF Working, Proceed

\* The start of the process.
LEMMA RestartTypes == FilesTypeOK /\ FilesRestart => FilesTypeOK'
<1> SUFFICES ASSUME FilesTypeOK, FilesRestart PROVE FilesTypeOK'
  OBVIOUS
<1>1. row' \in Rows \cup {NoRow}
  <2>1. CASE row' = row
    BY <2>1 DEF FilesTypeOK
  <2>2. CASE row' = [row EXCEPT !.status = ResetStatus(@)] /\ row \in Rows
    BY <2>2 DEF Rows, ResetStatus, Statuses
  <2>3. CASE row' = [row EXCEPT !.status = ResetStatus(@)] /\ row = NoRow
    BY <2>3 DEF NoRow, ResetStatus
  <2> QED BY <2>1, <2>2, <2>3 DEF FilesRestart, FilesTypeOK
<1>2. restarts' \in 0..MaxRestarts /\ faults' \in 0..MaxFaults /\ mishaps' \subseteq Mishap
  BY FilesAssumption DEF FilesRestart, FilesTypeOK, Fault, Note, Mishap
<1>3. at' \in [Calls -> Steps] /\ copy' \in [Calls -> Rows \cup {NoRow}]
  BY DEF FilesRestart, FilesTypeOK, Steps
<1> QED BY <1>1, <1>2, <1>3 DEF FilesRestart, FilesTypeOK

LEMMA FilesTypeStep == FilesTypeOK /\ [FilesNext]_filesVars => FilesTypeOK'
<1> SUFFICES ASSUME FilesTypeOK, [FilesNext]_filesVars PROVE FilesTypeOK'
  OBVIOUS
<1>1. ASSUME NEW c \in Calls, Working(c) PROVE FilesTypeOK'
  BY <1>1, RowStep, ChunkStep, CallStep, FaultStep, MishapStep, RestStep DEF FilesTypeOK
<1>2. CASE FilesRestart
  BY <1>2, RestartTypes
<1>3. CASE UNCHANGED filesVars
  BY <1>3 DEF filesVars, FilesTypeOK
<1> QED BY <1>1, <1>2, <1>3 DEF FilesNext, Working

\* Every variable holds a value of its kind.
THEOREM FilesTypeCorrect == FilesSpec => []FilesTypeOK
BY FilesTypeInit, FilesTypeStep, PTL DEF FilesSpec

-----------------------------------------------------------------------------
(* What a call does tells where it can be *)

PlacesOf(o) ==
  CASE o = "none" -> {"idle"}
    [] o = "parse" -> {"parse", "parse_fail", "done"}
    [] o = "index" -> IndexSteps \cup {"refresh", "late_fail", "done"}
    [] o = "delete" -> DeleteSteps \cup {"done"}
    [] o = "move" -> {"write", "done"}
    [] OTHER -> {}

PlaceInv == \A c \in Calls : at[c] \in PlacesOf(op[c])

LEMMA PlaceInit == FilesInit => PlaceInv
BY DEF FilesInit, PlaceInv, PlacesOf

LEMMA PlaceStep == FilesTypeOK /\ PlaceInv /\ [FilesNext]_filesVars => PlaceInv'
<1> SUFFICES ASSUME FilesTypeOK, PlaceInv, [FilesNext]_filesVars PROVE PlaceInv'
  OBVIOUS
<1>1. ASSUME NEW c \in Calls, Working(c) PROVE PlaceInv'
  <2>1. at'[c] \in PlacesOf(op'[c])
    <3> USE DEF PlacesOf, PlaceInv, IndexSteps, DeleteSteps, Goto, Begin, Raise, FilesTypeOK
    <3>1. CASE Arrive(c)
      BY <3>1 DEF Arrive, ParseClaim, IndexClaim, DeleteStart, MoveLoad
    <3>2. CASE ParseWrite(c) \/ ParseRaises(c) \/ ParseFail(c) \/ Unparse(c)
      BY <3>2 DEF ParseWrite, ParseRaises, ParseFail, Unparse
    <3>3. CASE ClearPg(c) \/ ClearMilvus(c) \/ Uncount(c)
      BY <3>3 DEF ClearPg, ClearMilvus, Uncount
    <3>4. CASE StoreFirst(c) \/ EmbedFails(c) \/ StoreSecond(c) \/ IndexWrite(c)
      BY <3>4 DEF StoreFirst, EmbedFails, StoreSecond, IndexWrite
    <3>5. CASE RollPg(c) \/ RollMilvus(c) \/ IndexFail(c) \/ Refresh(c) \/ LateFail(c)
               \/ RemoveRow(c) \/ MoveWrite(c)
      BY <3>5 DEF RollPg, RollMilvus, IndexFail, Refresh, LateFail, RemoveRow, MoveWrite
    <3> QED BY <1>1, <3>1, <3>2, <3>3, <3>4, <3>5 DEF Working, Proceed
  <2> QED BY <1>1, <2>1, CallStep DEF PlaceInv
<1>2. CASE FilesRestart
  BY <1>2 DEF FilesRestart, PlaceInv, PlacesOf, FilesTypeOK
<1>3. CASE UNCHANGED filesVars
  BY <1>3 DEF filesVars, PlaceInv
<1> QED BY <1>1, <1>2, <1>3 DEF FilesNext, Working

-----------------------------------------------------------------------------
(* Claims exclude each other *)

Holds(c) == at[c] \in {"parse", "parse_fail"} \/ (op[c] = "index" /\ at[c] \in IndexSteps)
ClaimStatus(c) == IF op[c] = "index" THEN "indexing" ELSE "parsing"

\* There is one claimant, and the row says so as long as it is there.
ClaimInv ==
  mishaps \cap {"stale", "late"} = {} =>
    /\ \A c, d \in Calls : Holds(c) /\ Holds(d) => c = d
    /\ \A c \in Calls : Holds(c) /\ Present => row.status = ClaimStatus(c)

LEMMA ClaimInit == FilesInit => ClaimInv
BY DEF FilesInit, ClaimInv, Holds, IndexSteps

\* What a step can do to the claims: make one, give it up, keep the status of the row,
\* fail late, or write the row back.
LEMMA ClaimEffect ==
  ASSUME FilesTypeOK, PlaceInv, NEW c \in Calls, Working(c)
  PROVE  \/ row.status \in ParseFrom \cup IndexFrom /\ row'.status = ClaimStatus(c)'
         \/ Holds(c) /\ ~Holds(c)'
         \/ /\ Holds(c)' => Holds(c) /\ op'[c] = op[c]
            /\ row' = NoRow \/ row' = row \/ (Present /\ row'.status = row.status)
         \/ ~Holds(c) /\ ~Holds(c)' /\ (row.status = "indexed" \/ "late" \in mishaps')
         \/ ~Holds(c) /\ ~Holds(c)' /\ "stale" \in mishaps'
<1> USE DEF FilesTypeOK, Goto, Begin, Raise, Holds, IndexSteps
<1>1. CASE ParseClaim(c) \/ IndexClaim(c)
  <2>1. row \in Rows
    BY <1>1, NoRowDiffers DEF ParseClaim, IndexClaim, ParseFrom, IndexFrom
  <2> QED BY <1>1, <2>1 DEF ParseClaim, IndexClaim, ClaimStatus, Rows
<1>2. CASE DeleteStart(c) \/ MoveLoad(c)
  BY <1>2 DEF DeleteStart, MoveLoad
<1>3. CASE ParseWrite(c) \/ ParseFail(c) \/ Unparse(c) \/ IndexFail(c)
  <2>1. Holds(c)
    BY <1>3 DEF ParseWrite, ParseFail, Unparse, IndexFail, PlaceInv, PlacesOf, DeleteSteps
  <2> QED BY <1>3, <2>1 DEF ParseWrite, ParseFail, Unparse, IndexFail
<1>4. CASE IndexWrite(c)
  <2>1. op[c] = "index"
    BY <1>4 DEF IndexWrite, PlaceInv, PlacesOf, DeleteSteps
  <2> QED BY <1>4, <2>1 DEF IndexWrite
<1>5. CASE ParseRaises(c) \/ ClearPg(c) \/ ClearMilvus(c)
  BY <1>5 DEF ParseRaises, ClearPg, ClearMilvus
<1>6. CASE Uncount(c)
  <2>1. row' = NoRow \/ row' = row \/ (Present /\ row'.status = row.status)
    BY <1>6 DEF Uncount, UpdateFields
  <2>2. Holds(c)' => Holds(c) /\ op'[c] = op[c]
    BY <1>6 DEF Uncount
  <2> QED BY <2>1, <2>2
<1>7. CASE StoreFirst(c) \/ EmbedFails(c) \/ StoreSecond(c)
  <2>1. op[c] = "index"
    BY <1>7 DEF StoreFirst, EmbedFails, StoreSecond, PlaceInv, PlacesOf, DeleteSteps
  <2>2. UNCHANGED <<row, op>>
    BY <1>7 DEF StoreFirst, EmbedFails, StoreSecond
  <2>3. Holds(c)
    BY <1>7, <2>1 DEF StoreFirst, EmbedFails, StoreSecond
  <2> QED BY <2>2, <2>3
<1>8. CASE RollPg(c) \/ RollMilvus(c)
  <2>1. op[c] = "index"
    BY <1>8 DEF RollPg, RollMilvus, PlaceInv, PlacesOf, DeleteSteps
  <2> QED BY <1>8, <2>1 DEF RollPg, RollMilvus
<1>9. CASE Refresh(c)
  BY <1>9 DEF Refresh
<1>10. CASE LateFail(c)
  <2>1. ~Holds(c) /\ ~Holds(c)'
    BY <1>10 DEF LateFail
  <2>2. CASE Present /\ row.status # "indexed"
    BY <1>10, <2>1, <2>2 DEF LateFail, Note
  <2>3. CASE ~Present
    BY <1>10, <2>1, <2>3, GoneStays DEF LateFail
  <2> QED BY <2>1, <2>2, <2>3
<1>11. CASE RemoveRow(c)
  BY <1>11 DEF RemoveRow
<1>12. CASE MoveWrite(c)
  <2>1. ~Holds(c) /\ ~Holds(c)' /\ (row' = row \/ "stale" \in mishaps')
    BY <1>12 DEF MoveWrite, Note
  <2> QED BY <2>1
<1> QED BY <1>1, <1>2, <1>3, <1>4, <1>5, <1>6, <1>7, <1>8, <1>9, <1>10, <1>11, <1>12
        DEF Working, Proceed, Arrive

LEMMA ClaimStep == FilesTypeOK /\ PlaceInv /\ ClaimInv /\ [FilesNext]_filesVars => ClaimInv'
<1> SUFFICES ASSUME FilesTypeOK, PlaceInv, ClaimInv, [FilesNext]_filesVars PROVE ClaimInv'
  OBVIOUS
<1>1. ASSUME NEW c \in Calls, Working(c) PROVE ClaimInv'
  <2> SUFFICES ASSUME mishaps' \cap {"stale", "late"} = {}
               PROVE  /\ \A a, d \in Calls : Holds(a)' /\ Holds(d)' => a = d
                      /\ \A d \in Calls : Holds(d)' /\ Present' => row'.status = ClaimStatus(d)'
    BY DEF ClaimInv
  <2>1. mishaps \cap {"stale", "late"} = {}
    BY <1>1, MishapStep
  <2>2. \A d \in Calls \ {c} : (Holds(d)' <=> Holds(d)) /\ ClaimStatus(d)' = ClaimStatus(d)
    BY <1>1, CallStep DEF Holds, ClaimStatus
  <2>3. \A a, d \in Calls : Holds(a) /\ Holds(d) => a = d
    BY <2>1 DEF ClaimInv
  <2>4. \A d \in Calls : Holds(d) /\ Present => row.status = ClaimStatus(d)
    BY <2>1 DEF ClaimInv
  <2>5. ASSUME row.status \in ParseFrom \cup IndexFrom \cup {"indexed"}
        PROVE  \A d \in Calls : ~Holds(d)
    <3>1. Present
      BY <2>5, NoRowDiffers DEF Present, ParseFrom, IndexFrom
    <3> QED BY <2>4, <2>5, <3>1 DEF ClaimStatus, ParseFrom, IndexFrom
  <2>6. CASE row.status \in ParseFrom \cup IndexFrom /\ row'.status = ClaimStatus(c)'
    BY <2>2, <2>5, <2>6
  <2>7. CASE Holds(c) /\ ~Holds(c)'
    BY <2>2, <2>3, <2>7
  <2>8. CASE /\ Holds(c)' => Holds(c) /\ op'[c] = op[c]
             /\ row' = NoRow \/ row' = row \/ (Present /\ row'.status = row.status)
    <3>1. \A d \in Calls : Holds(d)' => Holds(d) /\ ClaimStatus(d)' = ClaimStatus(d)
      BY <2>2, <2>8 DEF ClaimStatus
    <3>2. Present' => Present /\ row'.status = row.status
      BY <2>8 DEF Present
    <3> QED BY <2>3, <2>4, <3>1, <3>2
  <2>9. CASE ~Holds(c)' /\ row.status = "indexed"
    BY <2>2, <2>5, <2>9
  <2> QED BY <1>1, <2>6, <2>7, <2>8, <2>9, ClaimEffect
<1>2. CASE FilesRestart
  <2>1. \A c \in Calls : ~Holds(c)'
    BY <1>2 DEF FilesRestart, Holds, IndexSteps
  <2> QED BY <2>1 DEF ClaimInv
<1>3. CASE UNCHANGED filesVars
  BY <1>3 DEF filesVars, ClaimInv, Holds, ClaimStatus, Present
<1> QED BY <1>1, <1>2, <1>3 DEF FilesNext, Working

\* Claims exclude each other, unless a move wrote a stale row back or an indexing call
\* failed behind its own result.
THEOREM ClaimsExclude == FilesSpec => []OneClaimant
<1>1. ClaimInv => OneClaimant
  <2> SUFFICES ASSUME ClaimInv, mishaps \cap {"stale", "late"} = {} PROVE Cardinality(Claimants) <= 1
    BY DEF OneClaimant
  <2>1. \A x, y \in Claimants : x = y
    BY DEF ClaimInv, Claimants, Holds
  <2>2. CASE Claimants = {}
    BY <2>2, FS_EmptySet
  <2>3. CASE Claimants # {}
    <3>1. PICK x \in Claimants : Claimants = {x}
      BY <2>1, <2>3
    <3>2. Cardinality({x}) = 1
      BY FS_Singleton
    <3> QED BY <3>1, <3>2
  <2> QED BY <2>2, <2>3
<1> QED BY <1>1, FilesTypeInit, FilesTypeStep, PlaceInit, PlaceStep, ClaimInit, ClaimStep, PTL DEF FilesSpec

-----------------------------------------------------------------------------
(* A claimed row is never left behind *)

Unexcused == mishaps \cap {"stale", "stuck", "unreset"} = {}

\* A call that leaves the row claimed has claimed it, or goes on holding its claim, or
\* never held one and the row was claimed before.
LEMMA HeldEffect ==
  ASSUME FilesTypeOK, PlaceInv, NEW c \in Calls, Working(c),
         row'.status \in {"parsing", "indexing"}, Unexcused'
  PROVE  Holds(c)' \/ (~Holds(c) /\ row.status \in {"parsing", "indexing"})
<1> USE DEF FilesTypeOK, Goto, Begin, Raise, Holds, IndexSteps, Unexcused
<1>u. ASSUME NEW s, NEW m, NEW n, UpdateFields(s, m, n) PROVE Present /\ s \in {"parsing", "indexing"}
  BY <1>u, NoRowDiffers DEF UpdateFields
<1>1. CASE ParseClaim(c) \/ IndexClaim(c)
  BY <1>1 DEF ParseClaim, IndexClaim
<1>2. CASE DeleteStart(c) \/ MoveLoad(c)
  BY <1>2 DEF DeleteStart, MoveLoad
<1>3. CASE ParseWrite(c) \/ ParseFail(c) \/ Unparse(c) \/ IndexFail(c) \/ LateFail(c)
  <2>1. \/ UpdateFields("parsed", TRUE, row.chunks)
        \/ UpdateFields("error_parsing", row.markdown, row.chunks)
        \/ UpdateFields("uploaded", FALSE, row.chunks)
        \/ UpdateFields("error_indexing", row.markdown, row.chunks)
    BY <1>3 DEF ParseWrite, ParseFail, Unparse, IndexFail, LateFail, Note
  <2>2. ~UpdateFields("parsed", TRUE, row.chunks)
    BY NoRowDiffers DEF UpdateFields
  <2>3. ~UpdateFields("error_parsing", row.markdown, row.chunks)
    BY <1>u
  <2>4. ~UpdateFields("uploaded", FALSE, row.chunks)
    BY NoRowDiffers DEF UpdateFields
  <2>5. ~UpdateFields("error_indexing", row.markdown, row.chunks)
    BY <1>u
  <2> QED BY <2>1, <2>2, <2>3, <2>4, <2>5
<1>4. CASE IndexWrite(c)
  <2>1. ~UpdateFields("indexed", row.markdown, Batches)
    BY <1>u
  <2>2. op[c] = "index"
    BY <1>4 DEF IndexWrite, PlaceInv, PlacesOf, DeleteSteps
  <2> QED BY <1>4, <2>1, <2>2 DEF IndexWrite
<1>5. CASE ParseRaises(c) \/ ClearPg(c) \/ ClearMilvus(c)
  BY <1>5 DEF ParseRaises, ClearPg, ClearMilvus
<1>6. CASE Uncount(c)
  <2>1. row.status \in {"parsing", "indexing"}
    BY <1>6, <1>u DEF Uncount
  <2>2. Holds(c) => Holds(c)'
    BY <1>6 DEF Uncount
  <2> QED BY <2>1, <2>2
<1>7. CASE StoreFirst(c) \/ EmbedFails(c) \/ StoreSecond(c) \/ RollPg(c) \/ RollMilvus(c)
  <2>1. op[c] = "index"
    BY <1>7 DEF StoreFirst, EmbedFails, StoreSecond, RollPg, RollMilvus, PlaceInv, PlacesOf, DeleteSteps
  <2> QED BY <1>7, <2>1 DEF StoreFirst, EmbedFails, StoreSecond, RollPg, RollMilvus
<1>8. CASE Refresh(c)
  BY <1>8 DEF Refresh
<1>9. CASE RemoveRow(c)
  <2>1. op[c] = "delete"
    BY <1>9 DEF RemoveRow, PlaceInv, PlacesOf
  <2>2. row' = row
    BY <1>9, NoRowDiffers DEF RemoveRow
  <2> QED BY <1>9, <2>1, <2>2 DEF RemoveRow
<1>10. CASE MoveWrite(c)
  BY <1>10 DEF MoveWrite, Note
<1> QED BY <1>1, <1>2, <1>3, <1>4, <1>5, <1>6, <1>7, <1>8, <1>9, <1>10 DEF Working, Proceed, Arrive

LEMMA HeldStep == FilesTypeOK /\ PlaceInv /\ ClaimHeld /\ [FilesNext]_filesVars => ClaimHeld'
<1> SUFFICES ASSUME FilesTypeOK, PlaceInv, ClaimHeld, [FilesNext]_filesVars,
                    row'.status \in {"parsing", "indexing"}, Unexcused'
             PROVE  Claimants' # {}
  BY DEF ClaimHeld, Unexcused
<1>1. ASSUME NEW c \in Calls, Working(c) PROVE Claimants' # {}
  <2>1. CASE Holds(c)'
    BY <2>1 DEF Claimants, Holds
  <2>2. CASE ~Holds(c) /\ row.status \in {"parsing", "indexing"}
    <3>1. Unexcused
      BY <1>1, MishapStep DEF Unexcused
    <3>2. PICK d \in Calls : Holds(d)
      BY <2>2, <3>1 DEF ClaimHeld, Unexcused, Claimants, Holds
    <3>3. Holds(d)'
      BY <1>1, <2>2, <3>2, CallStep DEF Holds
    <3> QED BY <3>3 DEF Claimants, Holds
  <2> QED BY <1>1, <2>1, <2>2, HeldEffect
<1>2. CASE FilesRestart
  <2>1. CASE row' = [row EXCEPT !.status = ResetStatus(@)]
    <3>1. row \in Rows \cup {NoRow}
      BY DEF FilesTypeOK
    <3>2. row'.status = ResetStatus(row.status)
      BY <2>1, <3>1 DEF Rows, NoRow
    <3> QED BY <3>2 DEF ResetStatus
  <2>2. CASE "unreset" \in mishaps'
    BY <2>2 DEF Unexcused
  <2> QED BY <1>2, <2>1, <2>2 DEF FilesRestart, Note
<1>3. CASE UNCHANGED filesVars
  BY <1>3 DEF filesVars, ClaimHeld, Claimants, Unexcused
<1> QED BY <1>1, <1>2, <1>3 DEF FilesNext, Working

\* A row that says parsing or indexing has a call that will write the result, unless a
\* move brought the status back, the result could not be written, or the reset failed.
THEOREM ClaimsAreHeld == FilesSpec => []ClaimHeld
<1>1. FilesInit => ClaimHeld
  BY DEF FilesInit, ClaimHeld
<1> QED BY <1>1, FilesTypeInit, FilesTypeStep, PlaceInit, PlaceStep, HeldStep, PTL DEF FilesSpec

-----------------------------------------------------------------------------
(* The status is the lock that FileClaims promises *)

ClaimsOf == [c \in Calls |-> ClaimOf(c)]
Spoilt == mishaps \cap {"stale", "late"} # {}

LEMMA ClaimOfHolder ==
  ASSUME NEW c \in Calls
  PROVE  ClaimOf(c) = IF Holds(c) THEN ClaimStatus(c) ELSE "none"
BY DEF ClaimOf, ClaimStatus, Claimants, Holds

\* A call changes its own claim only.
LEMMA OneClaimMoves ==
  ASSUME FilesTypeOK, NEW c \in Calls, Working(c)
  PROVE  ClaimsOf' = [ClaimsOf EXCEPT ![c] = ClaimOf(c)']
<1>1. \A d \in Calls \ {c} : op'[d] = op[d] /\ at'[d] = at[d]
  BY CallStep
<1>2. \A d \in Calls \ {c} : ClaimOf(d)' = ClaimOf(d)
  BY <1>1 DEF ClaimOf, Claimants
<1> QED BY <1>2 DEF ClaimsOf

\* The status is free only when nobody holds it, unless the promise is spoilt.
LEMMA FreeStatus ==
  ASSUME ClaimInv, ~Spoilt, row.status \in ParseFrom \cup IndexFrom
  PROVE  \A d \in Calls : ClaimOf(d) = "none"
<1>1. Present
  BY NoRowDiffers DEF Present, ParseFrom, IndexFrom
<1>2. \A d \in Calls : ~Holds(d)
  BY <1>1 DEF ClaimInv, Spoilt, ClaimStatus, ParseFrom, IndexFrom
<1> QED BY <1>2, ClaimOfHolder

\* A claim takes the lock.
LEMMA ClaimTakes ==
  ASSUME FilesTypeOK, ClaimInv, NEW c \in Calls, ParseClaim(c) \/ IndexClaim(c)
  PROVE  Claims!Take(c, "parsing") \/ Claims!Take(c, "indexing")
<1>1. ClaimsOf' = [ClaimsOf EXCEPT ![c] = ClaimOf(c)']
  BY OneClaimMoves DEF Working, Arrive
<1>2. ClaimOf(c) = "none" /\ ClaimsOf[c] = "none"
  BY DEF ParseClaim, IndexClaim, Begin, ClaimOf, ClaimsOf, Claimants, IndexSteps
<1>3. Spoilt \/ \A d \in Calls : ClaimsOf[d] = "none"
  BY FreeStatus DEF ParseClaim, IndexClaim, ClaimsOf
<1>4. row \in Rows
  BY NoRowDiffers DEF ParseClaim, IndexClaim, ParseFrom, IndexFrom, FilesTypeOK
<1>5. Spoilt' = Spoilt
  BY DEF ParseClaim, IndexClaim, Note, Spoilt
<1>6. CASE ParseClaim(c)
  <2>1. row.status \in Claims!From("parsing") /\ row'.status = "parsing"
    BY <1>4, <1>6 DEF ParseClaim, ParseFrom, Claims!From, Rows
  <2>2. ClaimOf(c)' = "parsing"
    BY <1>6 DEF ParseClaim, Begin, ClaimOf, Claimants, FilesTypeOK
  <2> QED BY <1>1, <1>2, <1>3, <1>5, <2>1, <2>2 DEF Claims!Take, ClaimsOf, Spoilt
<1>7. CASE IndexClaim(c)
  <2>1. row.status \in Claims!From("indexing") /\ row'.status = "indexing"
    BY <1>4, <1>7 DEF IndexClaim, IndexFrom, Claims!From, Rows
  <2>2. ClaimOf(c)' = "indexing"
    BY <1>7 DEF IndexClaim, Begin, ClaimOf, Claimants, IndexSteps, FilesTypeOK
  <2> QED BY <1>1, <1>2, <1>3, <1>5, <2>1, <2>2 DEF Claims!Take, ClaimsOf, Spoilt
<1> QED BY <1>6, <1>7

\* A holder that ends with a result of its kind settles its claim.
LEMMA ResultSettles ==
  ASSUME FilesTypeOK, ClaimInv, NEW c \in Calls, Working(c), Holds(c), ~Holds(c)', UNCHANGED mishaps,
         NEW s \in Claims!Results(ClaimStatus(c)), NEW m, NEW n, UpdateFields(s, m, n)
  PROVE  Claims!Settle(c)
<1>1. ClaimsOf[c] = ClaimStatus(c) /\ ClaimStatus(c) # "none" /\ ClaimOf(c)' = "none"
  <2>1. ClaimOf(c)' = "none"
    BY DEF ClaimOf, Claimants, Holds
  <2> QED BY <2>1, ClaimOfHolder DEF ClaimsOf, ClaimStatus
<1>2. ClaimsOf' = [ClaimsOf EXCEPT ![c] = "none"]
  BY <1>1, OneClaimMoves
<1>3. CASE ~Present
  <2>1. row.status = "absent" /\ row'.status = "absent"
    BY <1>3, GoneStays, NoRowDiffers DEF Present
  <2> QED BY <1>1, <1>2, <2>1 DEF Claims!Settle, ClaimsOf
<1>4. CASE Present
  <2>1. row'.status = s /\ row.status # "absent"
    BY <1>4, RowTypes DEF UpdateFields, Statuses
  <2>2. Spoilt \/ row.status = ClaimStatus(c)
    BY <1>4 DEF ClaimInv, Spoilt
  <2> QED BY <1>1, <1>2, <2>1, <2>2 DEF Claims!Settle, ClaimsOf, Spoilt
<1> QED BY <1>3, <1>4

\* A holder that ends without writing loses its claim.
LEMMA SilenceLoses ==
  ASSUME FilesTypeOK, NEW c \in Calls, Working(c), Holds(c), ~Holds(c)', UNCHANGED row, Spoilt' = Spoilt
  PROVE  Claims!Lose(c)
<1>1. ClaimsOf[c] # "none"
  BY ClaimOfHolder DEF ClaimsOf, ClaimStatus
<1>2. ClaimOf(c)' = "none"
  BY DEF ClaimOf, Claimants, Holds
<1> QED BY <1>1, <1>2, OneClaimMoves DEF Claims!Lose, ClaimsOf, Spoilt

\* A call that keeps its claim, or goes on without one, leaves the lock as it is.
LEMMA SameClaims ==
  ASSUME FilesTypeOK, NEW c \in Calls, Working(c),
         Holds(c)' <=> Holds(c), Holds(c) => op'[c] = op[c]
  PROVE  ClaimsOf' = ClaimsOf
<1>1. ClaimOf(c)' = ClaimOf(c)
  BY DEF ClaimOf, Claimants, Holds
<1>2. ClaimsOf[c] = ClaimOf(c)
  BY DEF ClaimsOf
<1> QED BY <1>1, <1>2, OneClaimMoves DEF ClaimsOf

LEMMA ClaimsStutter ==
  ASSUME ClaimsOf' = ClaimsOf, row'.status = row.status, Spoilt' = Spoilt
  PROVE  UNCHANGED Claims!claimsVars
BY DEF Claims!claimsVars, ClaimsOf, Spoilt

\* Every call takes the steps of the lock, or none.
LEMMA WorkClaims ==
  ASSUME FilesTypeOK, PlaceInv, ClaimInv, NEW c \in Calls, Working(c)
  PROVE  Claims!Next \/ UNCHANGED Claims!claimsVars
<1>1. CASE ParseClaim(c) \/ IndexClaim(c)
  BY <1>1, ClaimTakes DEF Claims!Next
<1>2. CASE DeleteStart(c) \/ MoveLoad(c)
  <2>1. ~Holds(c) /\ ~Holds(c)'
    BY <1>2 DEF DeleteStart, MoveLoad, Begin, Holds, IndexSteps, FilesTypeOK
  <2>2. UNCHANGED row /\ Spoilt' = Spoilt
    BY <1>2 DEF DeleteStart, MoveLoad, Note, Spoilt
  <2> QED BY <2>1, <2>2, SameClaims, ClaimsStutter
<1>3. CASE ParseWrite(c) \/ ParseFail(c)
  <2>1. op[c] = "parse" /\ Holds(c) /\ ~Holds(c)' /\ Spoilt' = Spoilt
    BY <1>3 DEF ParseWrite, ParseFail, PlaceInv, PlacesOf, IndexSteps, DeleteSteps, Holds, Goto, Note, Spoilt,
                FilesTypeOK
  <2>2. "parsed" \in Claims!Results(ClaimStatus(c)) /\ "error_parsing" \in Claims!Results(ClaimStatus(c))
    BY <2>1 DEF Claims!Results, ClaimStatus
  <2>3. CASE UpdateFields("parsed", TRUE, row.chunks) /\ UNCHANGED mishaps
    BY <2>1, <2>2, <2>3, ResultSettles DEF Claims!Next
  <2>4. CASE UpdateFields("error_parsing", row.markdown, row.chunks) /\ UNCHANGED mishaps
    BY <2>1, <2>2, <2>4, ResultSettles DEF Claims!Next
  <2>5. CASE UNCHANGED row
    BY <2>1, <2>5, SilenceLoses DEF Claims!Next
  <2> QED BY <1>3, <2>3, <2>4, <2>5 DEF ParseWrite, ParseFail
<1>4. CASE Unparse(c) \/ IndexFail(c) \/ (IndexWrite(c) /\ at'[c] = "refresh")
  <2>1. op[c] = "index" /\ Holds(c) /\ ~Holds(c)' /\ Spoilt' = Spoilt
    BY <1>4 DEF Unparse, IndexFail, IndexWrite, PlaceInv, PlacesOf, IndexSteps, DeleteSteps, Holds, Goto, Note,
                Spoilt, FilesTypeOK
  <2>2. {"uploaded", "indexed", "error_indexing"} \subseteq Claims!Results(ClaimStatus(c))
    BY <2>1 DEF Claims!Results, ClaimStatus
  <2>3. CASE UpdateFields("uploaded", FALSE, row.chunks) /\ UNCHANGED mishaps
    BY <2>1, <2>2, <2>3, ResultSettles DEF Claims!Next
  <2>4. CASE UpdateFields("error_indexing", row.markdown, row.chunks) /\ UNCHANGED mishaps
    BY <2>1, <2>2, <2>4, ResultSettles DEF Claims!Next
  <2>5. CASE UpdateFields("indexed", row.markdown, Batches) /\ UNCHANGED mishaps
    BY <2>1, <2>2, <2>5, ResultSettles DEF Claims!Next
  <2>6. CASE UNCHANGED row
    BY <2>1, <2>6, SilenceLoses DEF Claims!Next
  <2>7. IndexWrite(c) /\ at'[c] = "refresh" => UpdateFields("indexed", row.markdown, Batches) /\ UNCHANGED mishaps
    BY DEF IndexWrite, Goto, FilesTypeOK
  <2> QED BY <1>4, <2>3, <2>4, <2>5, <2>6, <2>7 DEF Unparse, IndexFail
<1>5. CASE \/ ParseRaises(c) \/ ClearPg(c) \/ ClearMilvus(c) \/ Uncount(c)
           \/ StoreFirst(c) \/ EmbedFails(c) \/ StoreSecond(c) \/ RollPg(c) \/ RollMilvus(c)
           \/ (IndexWrite(c) /\ at'[c] # "refresh")
  <2>1. (Holds(c)' <=> Holds(c)) /\ op'[c] = op[c]
    <3> USE DEF Holds, PlaceInv, PlacesOf, IndexSteps, DeleteSteps, Goto, Raise, FilesTypeOK
    <3>1. CASE ParseRaises(c)
      BY <3>1 DEF ParseRaises
    <3>2. CASE ClearPg(c) \/ ClearMilvus(c) \/ Uncount(c)
      BY <3>2 DEF ClearPg, ClearMilvus, Uncount
    <3>3. CASE \/ StoreFirst(c) \/ EmbedFails(c) \/ StoreSecond(c) \/ RollPg(c) \/ RollMilvus(c)
               \/ (IndexWrite(c) /\ at'[c] # "refresh")
      <4>1. op[c] = "index" /\ op' = op
        BY <3>3 DEF StoreFirst, EmbedFails, StoreSecond, RollPg, RollMilvus, IndexWrite
      <4> QED BY <3>3, <4>1 DEF StoreFirst, EmbedFails, StoreSecond, RollPg, RollMilvus, IndexWrite
    <3> QED BY <1>5, <3>1, <3>2, <3>3
  <2>2. row'.status = row.status
    <3>1. CASE Uncount(c)
      BY <3>1, NoRowDiffers DEF Uncount, UpdateFields, Present
    <3>2. CASE ~Uncount(c)
      BY <1>5, <3>2 DEF ParseRaises, ClearPg, ClearMilvus, StoreFirst, EmbedFails, StoreSecond, RollPg, RollMilvus,
                        IndexWrite, Goto, FilesTypeOK
    <3> QED BY <3>1, <3>2
  <2>3. Spoilt' = Spoilt
    BY <1>5 DEF ParseRaises, ClearPg, ClearMilvus, Uncount, StoreFirst, EmbedFails, StoreSecond, RollPg, RollMilvus,
                IndexWrite, Note, Spoilt
  <2> QED BY <2>1, <2>2, <2>3, SameClaims, ClaimsStutter
<1>6. CASE Refresh(c) \/ LateFail(c) \/ RemoveRow(c) \/ MoveWrite(c)
  <2>1. ~Holds(c) /\ ~Holds(c)'
    BY <1>6 DEF Refresh, LateFail, RemoveRow, MoveWrite, PlaceInv, PlacesOf, IndexSteps, DeleteSteps, Holds, Goto,
                FilesTypeOK
  <2>2. ClaimsOf' = ClaimsOf
    BY <2>1, SameClaims
  <2>3. CASE Spoilt'
    <3>1. (mishaps' \cap {"stale", "late"} # {}) = TRUE
      BY <2>3 DEF Spoilt
    <3>2. Claims!Spoil
      BY <2>2, <3>1 DEF Claims!Spoil, ClaimsOf
    <3> QED BY <3>2 DEF Claims!Next
  <2>4. CASE ~Spoilt'
    <3>1. Spoilt' = Spoilt
      BY <2>4, MishapStep DEF Spoilt
    <3>2. CASE row'.status = row.status
      BY <2>2, <3>1, <3>2, ClaimsStutter
    <3>3. CASE row'.status = "absent"
      BY <2>2, <3>1, <3>3 DEF Claims!Next, Claims!Remove, ClaimsOf, Spoilt
    <3>4. CASE row.status = "indexed" /\ row'.status = "error_indexing"
      BY <2>2, <3>1, <3>4 DEF Claims!Next, Claims!Recant, ClaimsOf, Spoilt
    <3>5. CASE Refresh(c) \/ RemoveRow(c)
      BY <3>2, <3>3, <3>5, NoRowDiffers DEF Refresh, RemoveRow
    <3>6. CASE MoveWrite(c)
      BY <2>4, <3>2, <3>6 DEF MoveWrite, Note, Spoilt
    <3>7. CASE LateFail(c)
      <4>1. CASE Present
        <5>1. row.status = "indexed"
          BY <2>4, <3>7, <4>1 DEF LateFail, Note, Spoilt
        <5>2. row'.status = "error_indexing"
          BY <3>7, <4>1 DEF LateFail, UpdateFields
        <5> QED BY <3>4, <5>1, <5>2
      <4>2. CASE ~Present
        BY <3>3, <3>7, <4>2, GoneStays, NoRowDiffers DEF LateFail
      <4> QED BY <4>1, <4>2
    <3> QED BY <1>6, <3>5, <3>6, <3>7
  <2> QED BY <2>3, <2>4
<1> QED BY <1>1, <1>2, <1>3, <1>4, <1>5, <1>6 DEF Working, Proceed, Arrive, IndexWrite

LEMMA ClaimsInit == FilesInit => Claims!Init
<1> SUFFICES ASSUME FilesInit PROVE Claims!Init
  OBVIOUS
<1>1. row.status \in Claims!Fresh
  BY DEF FilesInit, Claims!Fresh
<1>2. ClaimsOf = [c \in Calls |-> "none"]
  BY DEF FilesInit, ClaimsOf, ClaimOf, Claimants, IndexSteps
<1>3. ~Spoilt
  BY DEF FilesInit, Spoilt
<1> QED BY <1>1, <1>2, <1>3 DEF Claims!Init, ClaimsOf, Spoilt

LEMMA ClaimsStep ==
  FilesTypeOK /\ PlaceInv /\ ClaimInv /\ [FilesNext]_filesVars => [Claims!Next]_(Claims!claimsVars)
<1> SUFFICES ASSUME FilesTypeOK, PlaceInv, ClaimInv, [FilesNext]_filesVars
             PROVE  Claims!Next \/ UNCHANGED Claims!claimsVars
  OBVIOUS
<1>1. ASSUME NEW c \in Calls, Working(c) PROVE Claims!Next \/ UNCHANGED Claims!claimsVars
  BY <1>1, WorkClaims
<1>2. CASE FilesRestart
  <2>1. ClaimsOf' = [c \in Calls |-> "none"]
    BY <1>2 DEF FilesRestart, ClaimsOf, ClaimOf, Claimants, IndexSteps
  <2>2. row'.status \in {row.status, Claims!Fallback(row.status)}
    <3>1. row \in Rows \cup {NoRow}
      BY DEF FilesTypeOK
    <3>2. row' = [row EXCEPT !.status = ResetStatus(@)] => row'.status = ResetStatus(row.status)
      BY <3>1 DEF Rows, NoRow
    <3>3. ResetStatus(row.status) = Claims!Fallback(row.status)
      BY DEF ResetStatus, Claims!Fallback
    <3> QED BY <1>2, <3>2, <3>3 DEF FilesRestart
  <2>3. Spoilt' = Spoilt
    BY <1>2 DEF FilesRestart, Note, Spoilt
  <2> QED BY <2>1, <2>2, <2>3 DEF Claims!Next, Claims!Restart, ClaimsOf, Spoilt
<1>3. CASE UNCHANGED filesVars
  <2>1. ClaimsOf' = ClaimsOf
    BY <1>3 DEF filesVars, ClaimsOf, ClaimOf, Claimants
  <2> QED BY <1>3, <2>1, ClaimsStutter DEF filesVars, Spoilt
<1> QED BY <1>1, <1>2, <1>3 DEF FilesNext, Working

\* Whatever moves, deletions, failing stores and restarts do, the status of a file is the
\* lock FileClaims promises.
THEOREM StatusIsALock == FilesSpec => ImplementsFileClaims
BY FilesTypeInit, FilesTypeStep, PlaceInit, PlaceStep, ClaimInit, ClaimStep, ClaimsInit, ClaimsStep, PTL
   DEF FilesSpec, ImplementsFileClaims, Claims!Spec

-----------------------------------------------------------------------------
(* A deleted file cannot be found *)

\* A row comes and goes only by the last step of a deletion or by a stale move.
LEMMA PresenceStep ==
  ASSUME FilesTypeOK, NEW c \in Calls, Working(c)
  PROVE  (Present' <=> Present) \/ (RemoveRow(c) /\ ~Present') \/ "stale" \in mishaps'
<1>1. ASSUME NEW s \in Statuses, NEW m, NEW n, UpdateFields(s, m, n) PROVE Present' <=> Present
  BY <1>1, NoRowDiffers DEF UpdateFields, Present, Statuses, NoRow
<1>2. CASE ParseClaim(c) \/ IndexClaim(c)
  <2>1. row \in Rows /\ Present
    BY <1>2, NoRowDiffers DEF ParseClaim, IndexClaim, ParseFrom, IndexFrom, FilesTypeOK, Present
  <2>2. row'.status \in {"parsing", "indexing"}
    BY <1>2, <2>1 DEF ParseClaim, IndexClaim, Rows
  <2> QED BY <2>1, <2>2, NoRowDiffers DEF Present
<1>3. CASE DeleteStart(c) \/ MoveLoad(c)
  BY <1>3 DEF DeleteStart, MoveLoad, Present
<1>4. CASE ParseWrite(c) \/ ParseRaises(c) \/ ParseFail(c) \/ Unparse(c)
  BY <1>1, <1>4 DEF ParseWrite, ParseRaises, ParseFail, Unparse, Present, Statuses
<1>5. CASE ClearPg(c) \/ ClearMilvus(c)
  BY <1>5 DEF ClearPg, ClearMilvus, Present
<1>6. CASE Uncount(c)
  <2>1. CASE row.status \in Statuses
    BY <1>1, <1>6, <2>1 DEF Uncount, Present
  <2>2. CASE row = NoRow
    BY <1>6, <2>2 DEF Uncount, Present, UpdateFields
  <2> QED BY <2>1, <2>2 DEF FilesTypeOK, Rows
<1>7. CASE StoreFirst(c) \/ EmbedFails(c) \/ StoreSecond(c) \/ IndexWrite(c)
  BY <1>1, <1>7 DEF StoreFirst, EmbedFails, StoreSecond, IndexWrite, Present, Statuses
<1>8. CASE RollPg(c) \/ RollMilvus(c) \/ IndexFail(c) \/ Refresh(c) \/ LateFail(c)
  BY <1>1, <1>8 DEF RollPg, RollMilvus, IndexFail, Refresh, LateFail, Present, Statuses
<1>9. CASE RemoveRow(c)
  BY <1>9 DEF RemoveRow, Present
<1>10. CASE MoveWrite(c)
  BY <1>10 DEF MoveWrite, Note, Present
<1> QED BY <1>2, <1>3, <1>4, <1>5, <1>6, <1>7, <1>8, <1>9, <1>10 DEF Working, Proceed, Arrive

\* Milvus gets chunks from an indexing call that stores, and from nobody else.
LEMMA MilvusStep ==
  ASSUME FilesTypeOK, PlaceInv, NEW c \in Calls, Working(c)
  PROVE  milvus' = milvus \/ milvus' = {} \/ c \in AtWork("index")
<1>1. CASE Arrive(c)
  BY <1>1 DEF Arrive, ParseClaim, IndexClaim, DeleteStart, MoveLoad
<1>2. CASE ParseWrite(c) \/ ParseRaises(c) \/ ParseFail(c) \/ Unparse(c) \/ ClearPg(c) \/ ClearMilvus(c)
           \/ Uncount(c)
  BY <1>2 DEF ParseWrite, ParseRaises, ParseFail, Unparse, ClearPg, ClearMilvus, Uncount
<1>3. CASE StoreFirst(c) \/ EmbedFails(c) \/ StoreSecond(c) \/ IndexWrite(c)
  BY <1>3 DEF StoreFirst, EmbedFails, StoreSecond, IndexWrite, AtWork, PlaceInv, PlacesOf, DeleteSteps,
              FilesTypeOK
<1>4. CASE RollPg(c) \/ RollMilvus(c) \/ IndexFail(c) \/ Refresh(c) \/ LateFail(c) \/ RemoveRow(c)
           \/ MoveWrite(c)
  BY <1>4 DEF RollPg, RollMilvus, IndexFail, Refresh, LateFail, RemoveRow, MoveWrite
<1> QED BY <1>1, <1>2, <1>3, <1>4 DEF Working, Proceed

\* A call goes to work on a deletion or an indexing only when it arrives.
LEMMA WorkStep ==
  ASSUME FilesTypeOK, PlaceInv, NEW c \in Calls, Working(c)
  PROVE  /\ c \in AtWork("index")' => c \in AtWork("index") \/ IndexClaim(c)
         /\ c \in AtWork("delete")' => c \in AtWork("delete") \/ DeleteStart(c)
<1>1. CASE Arrive(c)
  BY <1>1 DEF Arrive, ParseClaim, IndexClaim, DeleteStart, MoveLoad, Begin, AtWork, FilesTypeOK
<1>2. CASE Proceed(c)
  <2> USE DEF FilesTypeOK, AtWork
  <2>1. CASE ParseWrite(c) \/ ParseRaises(c) \/ ParseFail(c) \/ Unparse(c) \/ ClearPg(c) \/ ClearMilvus(c)
             \/ Uncount(c)
    BY <2>1 DEF ParseWrite, ParseRaises, ParseFail, Unparse, ClearPg, ClearMilvus, Uncount
  <2>2. CASE StoreFirst(c) \/ EmbedFails(c) \/ StoreSecond(c) \/ IndexWrite(c)
    BY <2>2 DEF StoreFirst, EmbedFails, StoreSecond, IndexWrite
  <2>3. CASE RollPg(c) \/ RollMilvus(c) \/ IndexFail(c) \/ Refresh(c) \/ LateFail(c) \/ RemoveRow(c)
             \/ MoveWrite(c)
    BY <2>3 DEF RollPg, RollMilvus, IndexFail, Refresh, LateFail, RemoveRow, MoveWrite
  <2> QED BY <1>2, <2>1, <2>2, <2>3 DEF Proceed
<1> QED BY <1>1, <1>2 DEF Working

Emptied(d) == op[d] = "delete" /\ at[d] \in {"uncount", "remove"}

\* Deletions and indexing calls keep apart, a deletion that is past Milvus has emptied
\* it, and a file without a row has nobody who could fill it again.
DeleteInv ==
  mishaps \cap {"refused", "overlap", "stale"} = {} =>
    /\ AtWork("delete") = {} \/ AtWork("index") = {}
    /\ \A d \in Calls : Emptied(d) => milvus = {}
    /\ ~Present => milvus = {} /\ AtWork("index") = {}

LEMMA DeleteInit == FilesInit => DeleteInv
<1> SUFFICES ASSUME FilesInit PROVE DeleteInv
  OBVIOUS
<1>1. Present
  BY DEF FilesInit, Present, NoRow
<1> QED BY <1>1 DEF FilesInit, DeleteInv, AtWork, Emptied

\* A deletion comes past Milvus by emptying it.
LEMMA EmptiedStep ==
  ASSUME FilesTypeOK, PlaceInv, NEW c \in Calls, Working(c), Emptied(c)'
  PROVE  \/ Emptied(c) /\ milvus' = milvus
         \/ milvus' = {} \/ "refused" \in mishaps'
<1> USE DEF Emptied, FilesTypeOK, Goto, Begin, Raise, Note
<1>1. CASE Arrive(c)
  BY <1>1 DEF Arrive, ParseClaim, IndexClaim, DeleteStart, MoveLoad
<1>2. CASE ParseWrite(c) \/ ParseRaises(c) \/ ParseFail(c) \/ Unparse(c)
  BY <1>2 DEF ParseWrite, ParseRaises, ParseFail, Unparse
<1>3. CASE ClearPg(c) \/ ClearMilvus(c) \/ Uncount(c)
  BY <1>3 DEF ClearPg, ClearMilvus, Uncount
<1>4. CASE StoreFirst(c) \/ EmbedFails(c) \/ StoreSecond(c) \/ IndexWrite(c)
  BY <1>4 DEF StoreFirst, EmbedFails, StoreSecond, IndexWrite
<1>5. CASE RollPg(c) \/ RollMilvus(c) \/ IndexFail(c) \/ Refresh(c) \/ LateFail(c) \/ RemoveRow(c)
           \/ MoveWrite(c)
  BY <1>5 DEF RollPg, RollMilvus, IndexFail, Refresh, LateFail, RemoveRow, MoveWrite
<1> QED BY <1>1, <1>2, <1>3, <1>4, <1>5 DEF Working, Proceed

LEMMA DeleteStep == FilesTypeOK /\ PlaceInv /\ DeleteInv /\ [FilesNext]_filesVars => DeleteInv'
<1> SUFFICES ASSUME FilesTypeOK, PlaceInv, DeleteInv, [FilesNext]_filesVars PROVE DeleteInv'
  OBVIOUS
<1>1. ASSUME NEW c \in Calls, Working(c) PROVE DeleteInv'
  <2> SUFFICES ASSUME mishaps' \cap {"refused", "overlap", "stale"} = {}
               PROVE  /\ AtWork("delete")' = {} \/ AtWork("index")' = {}
                      /\ \A d \in Calls : Emptied(d)' => milvus' = {}
                      /\ ~Present' => milvus' = {} /\ AtWork("index")' = {}
    BY DEF DeleteInv
  <2>1. mishaps \cap {"refused", "overlap", "stale"} = {}
    BY <1>1, MishapStep
  <2>2. /\ AtWork("delete") = {} \/ AtWork("index") = {}
        /\ \A d \in Calls : Emptied(d) => milvus = {}
        /\ ~Present => milvus = {} /\ AtWork("index") = {}
    BY <2>1 DEF DeleteInv
  <2>3. \A d \in Calls \ {c} : (Emptied(d)' <=> Emptied(d))
          /\ \A o \in {"index", "delete"} : (d \in AtWork(o)' <=> d \in AtWork(o))
    BY <1>1, CallStep DEF Emptied, AtWork
  <2>4. \A o \in {"index", "delete"} : AtWork(o) \subseteq Calls /\ AtWork(o)' \subseteq Calls
    BY DEF AtWork
  <2>5. IndexClaim(c) => AtWork("delete") = {} /\ Present
    <3>1. IndexClaim(c) => AtWork("delete") = {}
      BY DEF IndexClaim, Note
    <3>2. IndexClaim(c) => Present
      BY NoRowDiffers DEF IndexClaim, IndexFrom, Present
    <3> QED BY <3>1, <3>2
  <2>6. DeleteStart(c) => AtWork("index") = {}
    BY DEF DeleteStart, Note
  <2>7. ~(IndexClaim(c) /\ DeleteStart(c))
    BY DEF IndexClaim, DeleteStart, Begin, FilesTypeOK
  <2>8. AtWork("delete")' \subseteq AtWork("delete") \/ DeleteStart(c)
    BY <1>1, <2>3, <2>4, WorkStep
  <2>9. AtWork("index")' \subseteq AtWork("index") \/ IndexClaim(c)
    BY <1>1, <2>3, <2>4, WorkStep
  <2>10. AtWork("delete")' = {} \/ AtWork("index")' = {}
    BY <2>2, <2>5, <2>6, <2>7, <2>8, <2>9
  <2>11. \A d \in Calls : Emptied(d)' => milvus' = {}
    <3> SUFFICES ASSUME NEW d \in Calls, Emptied(d)' PROVE milvus' = {}
      OBVIOUS
    <3>1. CASE d = c
      BY <1>1, <2>2, <3>1, EmptiedStep
    <3>2. CASE d # c
      <4>1. Emptied(d) /\ milvus = {}
        BY <2>2, <2>3, <3>2
      <4>2. d \in AtWork("delete")
        BY <4>1 DEF AtWork, Emptied
      <4>3. c \notin AtWork("index")
        BY <2>2, <4>2
      <4> QED BY <1>1, <4>1, <4>3, MilvusStep
    <3> QED BY <3>1, <3>2
  <2>12. ASSUME ~Present' PROVE milvus' = {} /\ AtWork("index")' = {}
    <3>1. CASE ~Present
      <4>1. c \notin AtWork("index") /\ ~IndexClaim(c)
        BY <2>2, <2>5, <3>1
      <4>2. milvus' = {}
        BY <1>1, <2>2, <3>1, <4>1, MilvusStep
      <4> QED BY <2>2, <2>9, <3>1, <4>1, <4>2
    <3>2. CASE RemoveRow(c)
      <4>1. op[c] = "delete" /\ at[c] = "remove"
        BY <3>2 DEF RemoveRow, PlaceInv, PlacesOf, IndexSteps, FilesTypeOK
      <4>2. milvus = {} /\ AtWork("index") = {}
        BY <2>2, <4>1 DEF Emptied, AtWork
      <4>3. milvus' = milvus /\ ~IndexClaim(c)
        BY <3>2, <4>1 DEF RemoveRow, IndexClaim, Begin
      <4> QED BY <2>9, <4>2, <4>3
    <3> QED BY <1>1, <2>12, <3>1, <3>2, PresenceStep
  <2> QED BY <2>10, <2>11, <2>12
<1>2. CASE FilesRestart
  <2>1. \A o \in {"index", "delete"} : AtWork(o)' = {}
    BY <1>2 DEF FilesRestart, AtWork
  <2>2. \A d \in Calls : ~Emptied(d)'
    BY <1>2 DEF FilesRestart, Emptied
  <2>3. mishaps \subseteq mishaps' /\ milvus' = milvus
    BY <1>2 DEF FilesRestart, Note
  <2>4. Present => Present'
    <3>1. CASE row' = [row EXCEPT !.status = ResetStatus(@)] /\ row \in Rows
      <4>1. row'.status # "absent"
        BY <3>1 DEF Rows, ResetStatus, Statuses
      <4> QED BY <4>1, NoRowDiffers DEF Present
    <3> QED BY <1>2, <3>1 DEF FilesRestart, FilesTypeOK, Present
  <2> QED BY <2>1, <2>2, <2>3, <2>4 DEF DeleteInv
<1>3. CASE UNCHANGED filesVars
  BY <1>3 DEF filesVars, DeleteInv, AtWork, Emptied, Present
<1> QED BY <1>1, <1>2, <1>3 DEF FilesNext, Working

\* A deleted file cannot be found, unless Milvus refused a deletion or an indexing call was
\* at work beside it.
THEOREM DeletedAreGone == FilesSpec => []DeletedUnfindable
<1>1. DeleteInv => DeletedUnfindable
  BY DEF DeleteInv, DeletedUnfindable
<1> QED BY <1>1, FilesTypeInit, FilesTypeStep, PlaceInit, PlaceStep, DeleteInit, DeleteStep, PTL DEF FilesSpec

-----------------------------------------------------------------------------
(* A file that says indexed can be found *)

\* A deletion that has emptied PostgreSQL takes the row with it, unless it is cut.
Doomed == \E d \in Calls : op[d] = "delete" /\ at[d] \in {"clear_milvus", "uncount", "remove"}

Stored(k, c) == (1..k) \X {c}
InMilvus(k, c) == Stored(k, c) \subseteq milvus /\ ("refused" \notin mishaps => milvus = Stored(k, c))

\* An indexing call that has stored nothing yet is at its first batch.
FreshInv == \A c \in Calls :
  /\ at[c] = "idle" \/ (op[c] = "index" /\ at[c] \in {"unparse", "clear_pg", "clear_milvus", "uncount"})
       => batch[c] = 1 /\ bad[c] = FALSE
  /\ at[c] = "store" => bad[c] = FALSE

\* How far an indexing call is tells what is in the two stores.
Progress(c) ==
  /\ at[c] \in {"clear_milvus", "uncount"} => pg = {}
  /\ at[c] = "uncount" => "refused" \in mishaps \/ milvus = {}
  /\ at[c] \in {"store", "then_pg"} => pg = Stored(batch[c] - 1, c)
  /\ at[c] \in {"store", "then_milvus"} => InMilvus(batch[c] - 1, c)
  /\ at[c] = "then_milvus" /\ ~bad[c] => pg = Stored(batch[c], c)
  /\ at[c] = "then_pg" /\ ~bad[c] => InMilvus(batch[c], c)
  /\ at[c] = "index_write" => pg = Stored(Batches, c) /\ InMilvus(Batches, c)

Searchable == \E w \in Writers : row.chunks = Batches /\ pg = Stored(Batches, w) /\ InMilvus(Batches, w)

IndexInv ==
  mishaps \cap {"stale", "cut", "late"} = {} /\ Present /\ ~Doomed =>
    /\ \A c \in Calls : op[c] = "index" => Progress(c)
    /\ row.status = "indexed" => Searchable

LEMMA FreshInit == FilesInit => FreshInv
BY DEF FilesInit, FreshInv

\* A call goes through its own batches.
LEMMA BatchStep ==
  ASSUME FilesTypeOK, NEW c \in Calls, Working(c)
  PROVE  \A d \in Calls \ {c} : batch'[d] = batch[d] /\ bad'[d] = bad[d]
<1> USE DEF FilesTypeOK
<1>1. CASE Arrive(c)
  BY <1>1 DEF Arrive, ParseClaim, IndexClaim, DeleteStart, MoveLoad
<1>2. CASE ParseWrite(c) \/ ParseRaises(c) \/ ParseFail(c) \/ Unparse(c)
  BY <1>2 DEF ParseWrite, ParseRaises, ParseFail, Unparse
<1>3. CASE ClearPg(c) \/ ClearMilvus(c) \/ Uncount(c)
  BY <1>3 DEF ClearPg, ClearMilvus, Uncount
<1>4. CASE StoreFirst(c) \/ EmbedFails(c) \/ StoreSecond(c) \/ IndexWrite(c)
  BY <1>4 DEF StoreFirst, EmbedFails, StoreSecond, IndexWrite, InsertPg, InsertMilvus
<1>5. CASE RollPg(c) \/ RollMilvus(c) \/ IndexFail(c) \/ Refresh(c) \/ LateFail(c)
           \/ RemoveRow(c) \/ MoveWrite(c)
  BY <1>5 DEF RollPg, RollMilvus, IndexFail, Refresh, LateFail, RemoveRow, MoveWrite
<1> QED BY <1>1, <1>2, <1>3, <1>4, <1>5 DEF Working, Proceed

LEMMA FreshStep == FilesTypeOK /\ PlaceInv /\ FreshInv /\ [FilesNext]_filesVars => FreshInv'
<1> SUFFICES ASSUME FilesTypeOK, PlaceInv, FreshInv, [FilesNext]_filesVars PROVE FreshInv'
  OBVIOUS
<1> DEFINE Fresh(d) ==
  /\ at[d] = "idle" \/ (op[d] = "index" /\ at[d] \in {"unparse", "clear_pg", "clear_milvus", "uncount"})
       => batch[d] = 1 /\ bad[d] = FALSE
  /\ at[d] = "store" => bad[d] = FALSE
<1>1. ASSUME NEW c \in Calls, Working(c) PROVE FreshInv'
  <2> USE DEF FilesTypeOK, Goto, Begin, Raise
  <2>0. \A d \in Calls : Fresh(d)
    BY DEF FreshInv
  <2>2. Fresh(c)'
    <3>1. CASE Arrive(c)
      BY <2>0, <3>1 DEF Arrive, ParseClaim, IndexClaim, DeleteStart, MoveLoad
    <3>2. CASE ParseWrite(c) \/ ParseRaises(c) \/ ParseFail(c) \/ Unparse(c)
      BY <2>0, <3>2 DEF ParseWrite, ParseRaises, ParseFail, Unparse
    <3>3. CASE ClearPg(c) \/ ClearMilvus(c) \/ Uncount(c)
      BY <2>0, <3>3 DEF ClearPg, ClearMilvus, Uncount
    <3>4. CASE StoreFirst(c) \/ EmbedFails(c) \/ StoreSecond(c) \/ IndexWrite(c)
      BY <2>0, <3>4 DEF StoreFirst, EmbedFails, StoreSecond, IndexWrite, InsertPg, InsertMilvus
    <3>5. CASE RollPg(c) \/ RollMilvus(c) \/ IndexFail(c) \/ Refresh(c) \/ LateFail(c)
               \/ RemoveRow(c) \/ MoveWrite(c)
      BY <2>0, <3>5 DEF RollPg, RollMilvus, IndexFail, Refresh, LateFail, RemoveRow, MoveWrite
    <3> QED BY <1>1, <3>1, <3>2, <3>3, <3>4, <3>5 DEF Working, Proceed
  <2>3. \A d \in Calls \ {c} : Fresh(d)'
    BY <1>1, <2>0, BatchStep, CallStep
  <2>4. \A d \in Calls : Fresh(d)'
    BY <2>2, <2>3
  <2> HIDE DEF Fresh
  <2> QED BY <2>4 DEF FreshInv, Fresh
<1>2. CASE FilesRestart
  BY <1>2 DEF FilesRestart, FreshInv, FilesTypeOK
<1>3. CASE UNCHANGED filesVars
  BY <1>3 DEF filesVars, FreshInv
<1> QED BY <1>1, <1>2, <1>3 DEF FilesNext, Working

LEMMA IndexInit == FilesInit => IndexInv
<1> SUFFICES ASSUME FilesInit PROVE IndexInv
  OBVIOUS
<1>1. \A c \in Calls : op[c] # "index"
  BY DEF FilesInit
<1>2. row.status = "indexed" => Searchable
  BY DEF FilesInit, Searchable, Stored, InMilvus, Full, Writers
<1> QED BY <1>1, <1>2 DEF IndexInv

\* A doomed file stays so until its row is gone or the deletion is cut.
LEMMA DoomStep ==
  ASSUME FilesTypeOK, PlaceInv, NEW c \in Calls, Working(c), Doomed
  PROVE  Doomed' \/ ~Present' \/ "cut" \in mishaps'
<1> USE DEF FilesTypeOK, Goto, Raise, Note
<1>1. PICK d \in Calls : op[d] = "delete" /\ at[d] \in {"clear_milvus", "uncount", "remove"}
  BY DEF Doomed
<1>2. CASE d # c
  BY <1>1, <1>2, CallStep DEF Doomed
<1>3. CASE d = c
  <2>1. CASE Arrive(c)
    BY <1>1, <1>3, <2>1 DEF Arrive, ParseClaim, IndexClaim, DeleteStart, MoveLoad, Begin
  <2>2. CASE ClearMilvus(c) \/ Uncount(c)
    BY <1>1, <1>3, <2>2 DEF ClearMilvus, Uncount, Doomed
  <2>3. CASE RemoveRow(c)
    BY <2>3 DEF RemoveRow, Present
  <2>4. CASE ParseWrite(c) \/ ParseRaises(c) \/ ParseFail(c) \/ Unparse(c) \/ ClearPg(c)
    BY <1>1, <1>3, <2>4 DEF ParseWrite, ParseRaises, ParseFail, Unparse, ClearPg
  <2>5. CASE StoreFirst(c) \/ EmbedFails(c) \/ StoreSecond(c) \/ IndexWrite(c)
    BY <1>1, <1>3, <2>5 DEF StoreFirst, EmbedFails, StoreSecond, IndexWrite
  <2>6. CASE RollPg(c) \/ RollMilvus(c) \/ IndexFail(c) \/ Refresh(c) \/ LateFail(c) \/ MoveWrite(c)
    BY <1>1, <1>3, <2>6 DEF RollPg, RollMilvus, IndexFail, Refresh, LateFail, MoveWrite
  <2> QED BY <2>1, <2>2, <2>3, <2>4, <2>5, <2>6 DEF Working, Proceed
<1> QED BY <1>2, <1>3

\* Only the indexing call that holds the claim changes the chunks of a file that is not
\* doomed, and nobody else has a place that its progress is about.
LEMMA OthersStep ==
  ASSUME FilesTypeOK, PlaceInv, NEW c \in Calls, Working(c), ~(op[c] = "index" /\ Holds(c)),
         ~Doomed, ~Doomed', Present'
  PROVE  /\ pg' = pg /\ milvus' = milvus /\ ("refused" \in mishaps' <=> "refused" \in mishaps)
         /\ op'[c] = "index" => at'[c] \notin {"clear_milvus", "uncount", "store", "then_pg", "then_milvus", "index_write"}
         /\ "stale" \in mishaps' \/ "late" \in mishaps'
              \/ (row'.status = "indexed" => row.status = "indexed" /\ row'.chunks = row.chunks)
<1> USE DEF FilesTypeOK, Goto, Raise, Note, Holds, IndexSteps, PlaceInv, PlacesOf, DeleteSteps
<1>1. CASE ParseClaim(c) \/ IndexClaim(c)
  <2>1. row \in Rows /\ row'.status # "indexed"
    BY <1>1, NoRowDiffers DEF ParseClaim, IndexClaim, ParseFrom, IndexFrom, Rows
  <2> QED BY <1>1, <2>1 DEF ParseClaim, IndexClaim, Begin
<1>2. CASE DeleteStart(c) \/ MoveLoad(c)
  BY <1>2 DEF DeleteStart, MoveLoad, Begin
<1>3. CASE ParseWrite(c) \/ ParseFail(c)
  BY <1>3 DEF ParseWrite, ParseFail, UpdateFields, Present
<1>4. CASE ParseRaises(c) \/ Refresh(c)
  BY <1>4 DEF ParseRaises, Refresh
<1>5. CASE Unparse(c) \/ StoreFirst(c) \/ EmbedFails(c) \/ StoreSecond(c) \/ IndexWrite(c)
           \/ RollPg(c) \/ RollMilvus(c) \/ IndexFail(c)
  BY <1>5 DEF Unparse, StoreFirst, EmbedFails, StoreSecond, IndexWrite, RollPg, RollMilvus, IndexFail
<1>6. CASE ClearPg(c)
  <2>1. op[c] = "delete" /\ UNCHANGED <<op, row, milvus, mishaps>>
    BY <1>6 DEF ClearPg
  <2>2. at'[c] # "clear_milvus"
    BY <2>1 DEF Doomed
  <2> QED BY <1>6, <2>1, <2>2 DEF ClearPg
<1>7. CASE ClearMilvus(c) \/ Uncount(c) \/ RemoveRow(c)
  <2>1. op[c] = "delete" /\ at[c] \in {"clear_milvus", "uncount", "remove"}
    BY <1>7 DEF ClearMilvus, Uncount, RemoveRow
  <2> QED BY <2>1 DEF Doomed
<1>8. CASE LateFail(c)
  BY <1>8 DEF LateFail, UpdateFields, Present
<1>9. CASE MoveWrite(c)
  BY <1>9 DEF MoveWrite
<1> QED BY <1>1, <1>2, <1>3, <1>4, <1>5, <1>6, <1>7, <1>8, <1>9 DEF Working, Proceed, Arrive

\* One more batch.
LEMMA OneMore ==
  ASSUME NEW k \in 1..Batches, NEW c
  PROVE  /\ Stored(k, c) = Stored(k - 1, c) \cup {<<k, c>>}
         /\ {x \in Stored(k - 1, c) : x[1] # k} = Stored(k - 1, c)
         /\ Stored(0, c) = {}
<1>1. k \in Nat /\ k >= 1
  BY FilesAssumption
<1>2. 1..k = (1..(k - 1)) \cup {k} /\ k \notin 1..(k - 1) /\ 1..0 = {}
  BY <1>1
<1> QED BY <1>2 DEF Stored

\* The call that holds the claim goes on storing, or gives up.
LEMMA HolderStep ==
  ASSUME FilesTypeOK, PlaceInv, FreshInv, NEW c \in Calls, Working(c), op[c] = "index", Holds(c), Progress(c),
         Present, Present'
  PROVE  /\ op'[c] = "index" /\ Progress(c)'
         /\ row'.status = "indexed" => row.status = "indexed" \/ Searchable'
<1> USE DEF FilesTypeOK, Goto, Raise, Note
<1>0. batch[c] \in 1..Batches /\ bad[c] \in BOOLEAN
  OBVIOUS
<1>1. CASE Arrive(c) \/ ParseWrite(c) \/ ParseRaises(c) \/ ParseFail(c) \/ Refresh(c) \/ LateFail(c)
           \/ RemoveRow(c) \/ MoveWrite(c)
  BY <1>1 DEF Arrive, ParseClaim, IndexClaim, DeleteStart, MoveLoad, Begin, ParseWrite, ParseRaises, ParseFail,
              Refresh, LateFail, RemoveRow, MoveWrite, Holds, IndexSteps, PlaceInv, PlacesOf
<1>2. CASE Unparse(c) \/ RollPg(c) \/ RollMilvus(c) \/ IndexFail(c) \/ EmbedFails(c)
  BY <1>2 DEF Unparse, RollPg, RollMilvus, IndexFail, EmbedFails, UpdateFields, Progress
<1>3. CASE ClearPg(c)
  BY <1>3 DEF ClearPg, Progress
<1>4. CASE ClearMilvus(c)
  BY <1>4 DEF ClearMilvus, Progress
<1>5. CASE Uncount(c)
  <2>1. row'.status = row.status /\ UNCHANGED <<pg, milvus, op, batch, bad>> /\ mishaps' = mishaps
    BY <1>5 DEF Uncount, UpdateFields
  <2>2. at'[c] \in {"store", "fail"}
    BY <1>5 DEF Uncount
  <2>3. at[c] = "uncount" /\ batch[c] = 1
    BY <1>5 DEF Uncount, FreshInv
  <2>4. pg = {} /\ ("refused" \in mishaps \/ milvus = {})
    BY <2>3 DEF Progress
  <2>5. Stored(0, c) = {} /\ batch[c] - 1 = 0
    BY <1>0, <2>3, OneMore
  <2>6. pg = Stored(batch[c] - 1, c) /\ InMilvus(batch[c] - 1, c)
    BY <2>4, <2>5 DEF InMilvus
  <2>7. pg' = Stored(batch'[c] - 1, c) /\ InMilvus(batch[c] - 1, c)'
    BY <2>1, <2>6 DEF InMilvus
  <2> QED BY <2>1, <2>2, <2>7 DEF Progress
<1>6. ASSUME InsertPg(c), pg = Stored(batch[c] - 1, c)
      PROVE  bad'[c] = FALSE => bad[c] = FALSE /\ pg' = Stored(batch[c], c)
  BY <1>0, <1>6, OneMore DEF InsertPg
<1>7. ASSUME InsertMilvus(c), InMilvus(batch[c] - 1, c), mishaps' = mishaps
      PROVE  bad'[c] = FALSE =>
               /\ bad[c] = FALSE /\ Stored(batch[c], c) \subseteq milvus'
               /\ "refused" \notin mishaps' => milvus' = Stored(batch[c], c)
  BY <1>0, <1>7, OneMore DEF InsertMilvus, InMilvus
<1>8. CASE StoreFirst(c)
  <2>1. at[c] = "store" /\ UNCHANGED <<row, op, batch, mishaps>>
    BY <1>8 DEF StoreFirst
  <2>2. pg = Stored(batch[c] - 1, c) /\ InMilvus(batch[c] - 1, c)
    BY <2>1 DEF Progress
  <2>3. CASE InsertPg(c) /\ Goto(c, "then_milvus") /\ UNCHANGED milvus
    <3>1. at'[c] = "then_milvus" /\ InMilvus(batch[c] - 1, c)'
      BY <2>1, <2>2, <2>3 DEF InMilvus
    <3>2. ~bad'[c] => pg' = Stored(batch[c], c)
      BY <1>6, <2>2, <2>3 DEF InsertPg
    <3> QED BY <2>1, <3>1, <3>2 DEF Progress
  <2>4. CASE InsertMilvus(c) /\ Goto(c, "then_pg") /\ UNCHANGED pg
    <3>1. at'[c] = "then_pg" /\ pg' = Stored(batch[c] - 1, c)
      BY <2>1, <2>2, <2>4
    <3>2. ~bad'[c] => InMilvus(batch[c], c)'
      BY <1>7, <2>1, <2>2, <2>4 DEF InMilvus, InsertMilvus
    <3> QED BY <2>1, <3>1, <3>2 DEF Progress
  <2> QED BY <1>8, <2>3, <2>4 DEF StoreFirst
<1>9. CASE StoreSecond(c)
  <2>1. UNCHANGED <<row, op, mishaps>> /\ bad'[c] \in BOOLEAN
    BY <1>9 DEF StoreSecond, InsertPg, InsertMilvus
  <2>2. bad'[c] = FALSE => pg' = Stored(batch[c], c) /\ Stored(batch[c], c) \subseteq milvus'
                           /\ ("refused" \notin mishaps' => milvus' = Stored(batch[c], c))
    <3>1. CASE at[c] = "then_milvus" /\ InsertMilvus(c) /\ UNCHANGED pg
      <4>1. InMilvus(batch[c] - 1, c) /\ (~bad[c] => pg = Stored(batch[c], c))
        BY <3>1 DEF Progress
      <4> QED BY <1>7, <2>1, <3>1, <4>1
    <3>2. CASE at[c] = "then_pg" /\ InsertPg(c) /\ UNCHANGED milvus
      <4>1. pg = Stored(batch[c] - 1, c) /\ (~bad[c] => InMilvus(batch[c], c))
        BY <3>2 DEF Progress
      <4> QED BY <1>6, <2>1, <3>2, <4>1 DEF InMilvus
    <3> QED BY <1>9, <3>1, <3>2 DEF StoreSecond
  <2>3. CASE bad'[c] = TRUE
    <3>1. at'[c] = "roll_pg"
      BY <1>9, <2>3 DEF StoreSecond
    <3> QED BY <2>1, <3>1 DEF Progress
  <2>4. CASE bad'[c] = FALSE /\ batch[c] < Batches
    <3>1. at'[c] = "store" /\ batch'[c] = batch[c] + 1
      BY <1>9, <2>4 DEF StoreSecond
    <3>2. batch'[c] - 1 = batch[c]
      BY <1>0, <3>1, FilesAssumption
    <3>3. pg' = Stored(batch'[c] - 1, c) /\ InMilvus(batch[c] - 1, c)'
      BY <2>2, <2>4, <3>2 DEF InMilvus
    <3> QED BY <2>1, <3>1, <3>3 DEF Progress
  <2>5. CASE bad'[c] = FALSE /\ ~(batch[c] < Batches)
    <3>1. at'[c] = "index_write"
      BY <1>9, <2>5 DEF StoreSecond
    <3>2. batch[c] = Batches
      BY <1>0, <2>5, FilesAssumption
    <3>3. pg' = Stored(Batches, c) /\ InMilvus(Batches, c)'
      BY <2>2, <2>5, <3>2 DEF InMilvus
    <3> QED BY <2>1, <3>1, <3>3 DEF Progress
  <2> QED BY <2>1, <2>3, <2>4, <2>5
<1>10. CASE IndexWrite(c)
  <2>1. UNCHANGED <<pg, milvus, op, mishaps>> /\ at'[c] \in {"refresh", "fail"}
    BY <1>10 DEF IndexWrite
  <2>2. pg = Stored(Batches, c) /\ InMilvus(Batches, c)
    BY <1>10 DEF IndexWrite, Progress
  <2>3. pg' = Stored(Batches, c) /\ InMilvus(Batches, c)'
    BY <2>1, <2>2 DEF InMilvus
  <2>4. row' = row \/ row'.chunks = Batches
    BY <1>10 DEF IndexWrite, UpdateFields
  <2>5. row'.chunks = Batches => Searchable'
    BY <2>3 DEF Searchable, Writers
  <2> QED BY <2>1, <2>4, <2>5 DEF Progress
<1> QED BY <1>1, <1>2, <1>3, <1>4, <1>5, <1>8, <1>9, <1>10 DEF Working, Proceed

LEMMA IndexStep ==
  FilesTypeOK /\ PlaceInv /\ ClaimInv /\ FreshInv /\ IndexInv /\ [FilesNext]_filesVars => IndexInv'
<1> SUFFICES ASSUME FilesTypeOK, PlaceInv, ClaimInv, FreshInv, IndexInv, [FilesNext]_filesVars PROVE IndexInv'
  OBVIOUS
<1>1. ASSUME NEW c \in Calls, Working(c) PROVE IndexInv'
  <2> SUFFICES ASSUME mishaps' \cap {"stale", "cut", "late"} = {}, Present', ~Doomed'
               PROVE  /\ \A d \in Calls : op'[d] = "index" => Progress(d)'
                      /\ row'.status = "indexed" => Searchable'
    BY DEF IndexInv
  <2>1. mishaps \cap {"stale", "cut", "late"} = {}
    BY <1>1, MishapStep
  <2>2. Present
    BY <1>1, PresenceStep
  <2>3. ~Doomed
    BY <1>1, DoomStep
  <2>4. (\A d \in Calls : op[d] = "index" => Progress(d)) /\ (row.status = "indexed" => Searchable)
    BY <2>1, <2>2, <2>3 DEF IndexInv
  <2>5. CASE op[c] = "index" /\ Holds(c)
    <3>1. row.status = "indexing" /\ \A d \in Calls \ {c} : ~Holds(d)
      BY <2>1, <2>2, <2>5 DEF ClaimInv, ClaimStatus
    <3>2. op'[c] = "index" /\ Progress(c)' /\ (row'.status = "indexed" => row.status = "indexed" \/ Searchable')
      BY <1>1, <2>2, <2>4, <2>5, HolderStep
    <3>3. ASSUME NEW d \in Calls \ {c}, op'[d] = "index" PROVE Progress(d)'
      <4>1. op[d] = "index" /\ at'[d] = at[d] /\ at[d] \notin IndexSteps
        BY <1>1, <3>1, <3>3, CallStep DEF Holds
      <4> QED BY <4>1 DEF Progress, IndexSteps
    <3> QED BY <3>1, <3>2, <3>3
  <2>6. CASE ~(op[c] = "index" /\ Holds(c))
    <3>1. /\ pg' = pg /\ milvus' = milvus /\ ("refused" \in mishaps' <=> "refused" \in mishaps)
          /\ op'[c] = "index" => at'[c] \notin {"clear_milvus", "uncount", "store", "then_pg", "then_milvus", "index_write"}
          /\ row'.status = "indexed" => row.status = "indexed" /\ row'.chunks = row.chunks
      BY <1>1, <2>3, <2>6, OthersStep
    <3>2. Searchable /\ row'.chunks = row.chunks => Searchable'
      BY <3>1 DEF Searchable, InMilvus
    <3>3. op'[c] = "index" => Progress(c)'
      BY <3>1 DEF Progress
    <3>4. ASSUME NEW d \in Calls \ {c}, op'[d] = "index" PROVE Progress(d)'
      <4>1. op[d] = "index" /\ at'[d] = at[d]
        BY <1>1, <3>4, CallStep
      <4>2. batch'[d] = batch[d] /\ bad'[d] = bad[d]
        BY <1>1, BatchStep
      <4>3. Progress(d)
        BY <2>4, <4>1
      <4> QED BY <3>1, <4>1, <4>2, <4>3 DEF Progress, InMilvus
    <3> QED BY <2>4, <3>1, <3>2, <3>3, <3>4
  <2> QED BY <2>5, <2>6
<1>2. CASE FilesRestart
  <2> SUFFICES ASSUME mishaps' \cap {"stale", "cut", "late"} = {}, Present'
               PROVE  /\ \A d \in Calls : op'[d] = "index" => Progress(d)'
                      /\ row'.status = "indexed" => Searchable'
    BY DEF IndexInv
  <2>1. \A d \in Calls : Progress(d)'
    BY <1>2 DEF FilesRestart, Progress
  <2>2. mishaps \cap {"stale", "cut", "late"} = {} /\ ~Doomed /\ mishaps \subseteq mishaps'
    BY <1>2 DEF FilesRestart, Note, Doomed, AtWork
  <2>3. "refused" \in mishaps' <=> "refused" \in mishaps
    BY <1>2 DEF FilesRestart, Note
  <2>4. ASSUME row'.status = "indexed" PROVE Present /\ row' = row
    <3>1. CASE row' = [row EXCEPT !.status = ResetStatus(@)] /\ row \in Rows
      <4>1. row'.status = ResetStatus(row.status) /\ Present
        BY <3>1, NoRowDiffers DEF Rows, Present
      <4>2. row.status = "indexed"
        BY <2>4, <4>1 DEF ResetStatus
      <4> QED BY <3>1, <4>1, <4>2 DEF ResetStatus, Rows
    <3>2. CASE row' = [row EXCEPT !.status = ResetStatus(@)] /\ row = NoRow
      BY <2>4, <3>2 DEF NoRow, ResetStatus
    <3>3. CASE row' = row
      BY <2>4, <3>3, NoRowDiffers DEF Present
    <3> QED BY <1>2, <3>1, <3>2, <3>3 DEF FilesRestart, FilesTypeOK
  <2>5. ASSUME row'.status = "indexed" PROVE Searchable'
    <3>1. row' = row /\ Searchable
      BY <2>2, <2>4, <2>5 DEF IndexInv
    <3>2. pg' = pg /\ milvus' = milvus
      BY <1>2 DEF FilesRestart
    <3> QED BY <2>3, <3>1, <3>2 DEF Searchable, InMilvus
  <2> QED BY <2>1, <2>5
<1>3. CASE UNCHANGED filesVars
  BY <1>3 DEF filesVars, IndexInv, Progress, Searchable, InMilvus, Doomed, Present
<1> QED BY <1>1, <1>2, <1>3 DEF FilesNext, Working

\* A file whose row says indexed has all its chunks in both stores, by one indexing call.
THEOREM IndexedCanBeFound == FilesSpec => []IndexedSearchable
<1>1. IndexInv => IndexedSearchable
  <2> SUFFICES ASSUME IndexInv, row.status = "indexed", Quiet, mishaps \cap {"stale", "cut", "late"} = {}
               PROVE  \E w \in Writers :
                        /\ row.chunks = Batches /\ pg = Full(w) /\ Full(w) \subseteq milvus
                        /\ "refused" \notin mishaps => milvus = Full(w)
    BY DEF IndexedSearchable
  <2>1. Present /\ ~Doomed
    BY NoRowDiffers DEF Present, Doomed, Quiet
  <2>2. Searchable
    BY <2>1 DEF IndexInv
  <2> QED BY <2>2 DEF Searchable, Stored, InMilvus, Full
<1> QED BY <1>1, FilesTypeInit, FilesTypeStep, PlaceInit, PlaceStep, ClaimInit, ClaimStep, FreshInit, FreshStep,
        IndexInit, IndexStep, PTL DEF FilesSpec
=============================================================================
