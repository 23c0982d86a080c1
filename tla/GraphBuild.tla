----------------------------- MODULE GraphBuild -----------------------------
(***************************************************************************)
(* The graph of one Milvus knowledge base: the chunks in PostgreSQL with    *)
(* their flag graph_indexed, the entities and mentions in PostgreSQL, the   *)
(* graph in Neo4j and the vectors of the entities in Milvus; the job that   *)
(* builds the graph of the pending chunks, the deletion or new indexing of  *)
(* a file, and the reset of the graph beside it.                            *)
(*                                                                          *)
(* The job writes Neo4j and PostgreSQL for each chunk, and the vectors of   *)
(* several chunks together, after which it flags them. It keeps the vectors *)
(* it has seen in a set of its own and does not look for them again.        *)
(* Triples are stored, flagged and deleted as entities are.                 *)
(*                                                                          *)
(* Two jobs can be at work together: the Tasker allows another one as soon  *)
(* as it does not know of the first any more, because that was cancelled,   *)
(* which stops one of its workers and not the others, or because its task   *)
(* was deleted, which stops nothing. Each job has sets and a write lock of  *)
(* its own.                                                                 *)
(***************************************************************************)
EXTENDS Integers, FiniteSets

CONSTANTS
  KbChunks,      \* the chunks of the knowledge base
  KbFiles,       \* its files
  FileOf,        \* the file of a chunk
  Ents,          \* the entities found in a chunk
  FlushAt,       \* VECTOR_FLUSH_CHUNKS
  MaxBuilds,     \* bound: jobs
  MaxBreaks      \* bound: failures, cancels, deleted tasks and restarts, without failed flushes

ASSUME GraphAssumption ==
  /\ IsFiniteSet(KbChunks) /\ FileOf \in [KbChunks -> KbFiles]
  /\ \A c \in KbChunks : IsFiniteSet(Ents[c])
  /\ FlushAt \in Nat \ {0} /\ MaxBuilds \in Nat /\ MaxBreaks \in Nat

VARIABLES
  chunk,      \* each chunk: "pending", "indexed" or "gone"
  mentions,   \* the chunks whose mentions are in PostgreSQL
  rows,       \* the entities in PostgreSQL
  neo,        \* the chunks whose nodes and edges are in Neo4j
  vectors,    \* the entities that have a vector in Milvus
  crew,       \* each job with its workers
  call,       \* where the deletion of a file is
  orphans,    \* the entities it found without a mention
  resetting,  \* where a reset is
  builds, breaks,
  harms       \* history: which of the named harms have been done

stores == <<mentions, rows, neo, vectors>>
graphVars == <<chunk, stores, crew, call, orphans, resetting, builds, breaks, harms>>

Builds == 1..MaxBuilds
ChunksOf(f) == {c \in KbChunks : FileOf[c] = f}
Entities == UNION {Ents[c] : c \in KbChunks}
EntsOf(cs) == UNION {Ents[c] : c \in cs}
Pending == {c \in KbChunks : chunk[c] = "pending"}
Existing == {c \in KbChunks : chunk[c] # "gone"}
None == {}

\* A job that is not at work, and what it has of its own.
NoCrew == [pc |-> "none",
           task |-> "none",    \* what the Tasker knows: "active", "cancelled" or "deleted"
           page |-> {},        \* the chunks of the round
           todo |-> {},        \* those that are still to be taken
           queue |-> {},       \* those that nobody takes because the job is cancelled
           taken |-> None,     \* the chunk whose worker holds the write lock, or none
           failed |-> {},      \* failed_chunk_ids
           known |-> {},       \* known_vector_ids
           buffer |-> {},      \* vector_buffer
           flushing |-> {},    \* the chunks of the flush under way
           missing |-> {},     \* the entities it found without a vector
           outset |-> {},      \* history: what was left to do when the round began
           refilled |-> TRUE]  \* history: whether chunks became pending since, or none has begun

\* What a job has still to do.
Undone(b) == Pending \ crew[b].failed

Harm == {"cached",     \* a vector was deleted that a job took for present
         "revived",    \* a vector was deleted whose entity had been mentioned again
         "broken",     \* a deletion or a reset failed or died half-way
         "unflagged",  \* a file went with graph data of which no chunk was flagged
         "ghost",      \* a job wrote for a chunk whose file was being deleted, or was gone
         "reborn",     \* a file came back while a job held its old chunks
         "crossed"}    \* a job ran while the graph was reset

GraphInit ==
  /\ chunk = [c \in KbChunks |-> "pending"]
  /\ mentions = {} /\ rows = {} /\ neo = {} /\ vectors = {}
  /\ crew = [b \in Builds |-> NoCrew]
  /\ call = [f \in KbFiles |-> "none"] /\ orphans = [f \in KbFiles |-> {}]
  /\ resetting = "none" /\ builds = 0 /\ breaks = 0 /\ harms = {}

-----------------------------------------------------------------------------
(* Helpers *)

Break == breaks < MaxBreaks /\ breaks' = breaks + 1
Harmed(h) == harms' = harms \cup h
Ghosts(cs) == {h \in {"ghost"} : \E c \in cs : call[FileOf[c]] \notin {"none", "done"}}
Working(b) == crew[b].pc # "none"
Holding(b) == crew[b].buffer \cup crew[b].flushing \cup crew[b].taken
Underway == resetting \in {"neo", "vectors", "rows", "flags"}

Goes(b, state) == crew' = [crew EXCEPT ![b] = state]

\* The job ends, well or not: its sets go with it.
JobOver(b) == Goes(b, NoCrew)

\* Chunks have become pending again.
Refilled ==
  crew' = [b \in Builds |-> IF Working(b) THEN [crew[b] EXCEPT !.refilled = TRUE] ELSE crew[b]]

\* The Tasker knows of no job: _has_running_graph_build_task.
NoneRunning == \A b \in Builds : crew[b].task # "active"

\* A round takes chunks until none is left.
NextStep(rest) == IF rest = {} THEN "end" ELSE "take"

\* The worker is done with its chunk, well or not.
Leaves(b, failed) ==
  Goes(b, [crew[b] EXCEPT !.pc = NextStep(crew[b].todo), !.taken = None,
                          !.failed = @ \cup failed, !.flushing = {}, !.missing = {}])

-----------------------------------------------------------------------------
(* build_pending_chunks *)

Build ==
  /\ NoneRunning /\ builds < MaxBuilds /\ builds' = builds + 1
  /\ Goes(builds', [NoCrew EXCEPT !.pc = "round", !.task = "active"])
  /\ Harmed(IF Underway THEN {"crossed"} ELSE {})
  /\ UNCHANGED <<chunk, stores, call, orphans, resetting, breaks>>

\* A round takes a page of what is pending, but for what has failed; the job ends with
\* a page that leaves nothing to do, whatever is pending beyond it.
Round(b) ==
  /\ crew[b].pc = "round"
  /\ \E page \in SUBSET Pending :
       /\ page = {} => Pending = {}
       /\ LET fresh == page \ crew[b].failed IN
          IF fresh = {} THEN JobOver(b)
          ELSE Goes(b, [crew[b] EXCEPT !.pc = "take", !.page = fresh, !.todo = fresh,
                                       !.outset = Undone(b), !.refilled = FALSE])
  /\ UNCHANGED <<chunk, stores, call, orphans, resetting, builds, breaks, harms>>

\* A worker gets the write lock with the extraction of a chunk and writes it to
\* Neo4j, whether the chunk still exists or not.
WriteNeo(b, c) ==
  /\ crew[b].pc = "take" /\ c \in crew[b].todo
  /\ Goes(b, [crew[b] EXCEPT !.pc = "upsert", !.todo = @ \ {c}, !.taken = {c}])
  /\ neo' = neo \cup {c}
  /\ Harmed(Ghosts({c}))
  /\ UNCHANGED <<chunk, mentions, rows, vectors, call, orphans, resetting, builds, breaks>>

\* The extraction or the write fails.
ChunkFails(b, c) ==
  /\ crew[b].pc = "take" /\ c \in crew[b].todo /\ Break
  /\ Goes(b, [crew[b] EXCEPT !.pc = NextStep(crew[b].todo \ {c}), !.todo = @ \ {c},
                             !.failed = @ \cup {c}])
  /\ UNCHANGED <<chunk, stores, call, orphans, resetting, builds, harms>>

\* upsert_chunk_graph: the mentions need the row of the chunk.
Upsert(b) ==
  /\ crew[b].pc = "upsert"
  /\ \E c \in crew[b].taken :
       /\ chunk[c] # "gone"
       /\ mentions' = mentions \cup {c} /\ rows' = rows \cup Ents[c]
       /\ LET full == crew[b].buffer \cup {c} IN
          IF Cardinality(full) >= FlushAt
          THEN Goes(b, [crew[b] EXCEPT !.pc = "flush", !.buffer = full])
          ELSE Goes(b, [crew[b] EXCEPT !.pc = NextStep(crew[b].todo), !.buffer = full, !.taken = None])
       /\ Harmed(Ghosts({c}))
  /\ UNCHANGED <<chunk, neo, vectors, call, orphans, resetting, builds, breaks>>

\* Without that row it fails; or PostgreSQL does. What was written to Neo4j stays.
UpsertFails(b) ==
  /\ crew[b].pc = "upsert" /\ Leaves(b, crew[b].taken)
  /\ \/ (\E c \in crew[b].taken : chunk[c] = "gone") /\ UNCHANGED breaks
     \/ Break
  /\ UNCHANGED <<chunk, stores, call, orphans, resetting, builds, harms>>

\* The round is over: what is left in the buffer is flushed. The workers that have outlived
\* their job leave it as it is.
RoundEnds(b) ==
  /\ crew[b].pc = "end"
  /\ IF crew[b].task = "cancelled" THEN JobOver(b)
     ELSE Goes(b, [crew[b] EXCEPT !.pc = IF crew[b].buffer = {} THEN "round" ELSE "flush",
                                  !.page = {}])
  /\ UNCHANGED <<chunk, stores, call, orphans, resetting, builds, breaks, harms>>

\* Fault: the vectors count as known before they are inserted.
FlushLooksKnowing(b) ==
  LET held == crew[b].buffer IN
  /\ crew[b].pc = "flush"
  /\ Goes(b, [crew[b] EXCEPT !.pc = "insert", !.flushing = held, !.buffer = {},
                             !.missing = EntsOf(held) \ (crew[b].known \cup vectors),
                             !.known = @ \cup EntsOf(held)])
  /\ UNCHANGED <<chunk, stores, call, orphans, resetting, builds, breaks, harms>>

\* The buffer is emptied, and the vectors the job does not know are looked for.
FlushLooks(b) ==
  LET held == crew[b].buffer IN
  /\ crew[b].pc = "flush"
  /\ Goes(b, [crew[b] EXCEPT !.pc = "insert", !.flushing = held, !.buffer = {},
                             !.missing = EntsOf(held) \ (crew[b].known \cup vectors)])
  /\ UNCHANGED <<chunk, stores, call, orphans, resetting, builds, breaks, harms>>

FlushInserts(b) ==
  /\ crew[b].pc = "insert"
  /\ vectors' = vectors \cup crew[b].missing
  /\ Goes(b, [crew[b] EXCEPT !.pc = "flag", !.missing = {},
                             !.known = @ \cup EntsOf(crew[b].flushing)])
  /\ Harmed(Ghosts(crew[b].flushing))
  /\ UNCHANGED <<chunk, mentions, rows, neo, call, orphans, resetting, builds, breaks>>

\* A flush that fails in a worker is the failure of its chunk alone, and the others it
\* took stay as they are; at the end of a round it is the failure of the job.
Fails(b) == IF crew[b].taken = None THEN JobOver(b) ELSE Leaves(b, crew[b].taken)

\* mark_graph_indexed, a chunk at a time; a chunk that is gone stays so. After the last one
\* the progress is saved, which may fail.
Flag(b, c) ==
  LET rest == crew[b].flushing \ {c} IN
  /\ crew[b].pc = "flag" /\ c \in crew[b].flushing
  /\ chunk' = IF chunk[c] = "gone" THEN chunk ELSE [chunk EXCEPT ![c] = "indexed"]
  /\ IF rest # {} THEN Goes(b, [crew[b] EXCEPT !.flushing = rest])
     ELSE \/ crew[b].taken # None /\ Leaves(b, {})
          \/ crew[b].taken = None /\ Goes(b, [crew[b] EXCEPT !.pc = "round", !.flushing = {}])
          \/ Fails(b)
  /\ UNCHANGED <<stores, call, orphans, resetting, builds, breaks, harms>>

\* Fault: a chunk whose flush failed is not remembered.
FlushFailsForgets(b) ==
  /\ crew[b].pc \in {"insert", "flag"}
  /\ IF crew[b].taken = None THEN JobOver(b) ELSE Leaves(b, {})
  /\ UNCHANGED <<chunk, stores, call, orphans, resetting, builds, breaks, harms>>

\* Milvus or the embedding model fails, as often as they like.
FlushFails(b) ==
  /\ crew[b].pc \in {"insert", "flag"} /\ Fails(b)
  /\ UNCHANGED <<chunk, stores, call, orphans, resetting, builds, breaks, harms>>

-----------------------------------------------------------------------------
(* The task of a job is cancelled, or deleted *)

\* Before another round the job notices, and before another chunk a worker does. Its
\* CancelledError ends the job and not the other workers, who go on with what they hold:
\* one chunk at the lock, and others they extract or wait with.
Cancel(b) ==
  /\ crew[b].task = "active" /\ Break
  /\ crew[b].pc \in {"round", "end"} \/ crew[b].page # {}
  /\ \E held \in SUBSET crew[b].todo :
       LET busy == held \cup crew[b].taken IN
       IF busy = {} THEN JobOver(b)
       ELSE /\ busy # crew[b].page
            /\ Goes(b, [crew[b] EXCEPT !.task = "cancelled", !.page = {}, !.todo = held,
                                       !.queue = crew[b].todo \ held,
                                       !.outset = {}, !.refilled = TRUE])
  /\ UNCHANGED <<chunk, stores, call, orphans, resetting, builds, harms>>

\* A task that is deleted goes on, and nobody can cancel it or knows of it. Nor do the
\* workers of a cancelled one know any more that it was: they take what was left, if any
\* of them is still there.
TaskDeleted(b) ==
  /\ Working(b) /\ crew[b].pc # "end" /\ crew[b].task # "deleted" /\ Break
  /\ Goes(b, [crew[b] EXCEPT !.task = IF @ = "active" THEN "deleted" ELSE @,
                             !.todo = @ \cup crew[b].queue, !.queue = {}])
  /\ UNCHANGED <<chunk, stores, call, orphans, resetting, builds, harms>>

-----------------------------------------------------------------------------
(* delete_file_chunks_only and delete_file_graph, once for each file *)

At(f, place) == call' = [call EXCEPT ![f] = place]

\* The graph is left alone when no chunk of the file is flagged.
DeleteBegins(f) ==
  /\ call[f] = "none"
  /\ LET flagged == \E c \in ChunksOf(f) : chunk[c] = "indexed" IN
     /\ At(f, IF flagged THEN "references" ELSE "chunks")
     /\ Harmed({h \in {"unflagged"} : ~flagged /\ ChunksOf(f) \cap (neo \cup mentions) # {}})
  /\ UNCHANGED <<chunk, stores, crew, orphans, resetting, builds, breaks>>

\* Fault: the mentions go, and the entities stay.
DeleteMentions(f) ==
  /\ call[f] = "references" /\ At(f, "vectors")
  /\ mentions' = mentions \ ChunksOf(f)
  /\ UNCHANGED <<chunk, rows, neo, vectors, crew, orphans, resetting, builds, breaks, harms>>

\* delete_file_references: the mentions of the file, and the entities nobody else
\* mentions.
DeleteReferences(f) ==
  /\ call[f] = "references" /\ At(f, "vectors")
  /\ mentions' = mentions \ ChunksOf(f)
  /\ LET gone == EntsOf(mentions \cap ChunksOf(f)) \ EntsOf(mentions') IN
     rows' = rows \ gone /\ orphans' = [orphans EXCEPT ![f] = gone]
  /\ UNCHANGED <<chunk, neo, vectors, crew, resetting, builds, breaks, harms>>

DeleteVectors(f) ==
  /\ call[f] = "vectors" /\ At(f, "neo")
  /\ vectors' = vectors \ orphans[f] /\ orphans' = [orphans EXCEPT ![f] = {}]
  /\ Harmed({h \in {"cached"} : \E b \in Builds :
                orphans[f] \cap (crew[b].known \cup EntsOf(crew[b].flushing)) # {}}
            \cup {h \in {"revived"} : orphans[f] \cap EntsOf(mentions) # {}})
  /\ UNCHANGED <<chunk, mentions, rows, neo, crew, resetting, builds, breaks>>

DeleteNeo(f) ==
  /\ call[f] = "neo" /\ At(f, "chunks")
  /\ neo' = neo \ ChunksOf(f)
  /\ UNCHANGED <<chunk, mentions, rows, vectors, crew, orphans, resetting, builds, breaks,
                 harms>>

\* An error of the graph is logged, and the deletion goes on.
DeleteBreaks(f) ==
  /\ call[f] \in {"references", "vectors", "neo"} /\ Break /\ At(f, "chunks")
  /\ orphans' = [orphans EXCEPT ![f] = {}] /\ Harmed({"broken"})
  /\ UNCHANGED <<chunk, stores, crew, resetting, builds>>

\* The chunks go, and their mentions with them. They come back pending when the file
\* is indexed again.
DeleteChunks(f) ==
  /\ call[f] = "chunks"
  /\ chunk' = [c \in KbChunks |-> IF FileOf[c] = f THEN "gone" ELSE chunk[c]]
  /\ mentions' = mentions \ ChunksOf(f)
  /\ At(f, "again")
  /\ UNCHANGED <<rows, neo, vectors, crew, orphans, resetting, builds, breaks, harms>>

IndexedAgain(f) ==
  /\ call[f] = "again" /\ At(f, "done")
  /\ chunk' = [c \in KbChunks |-> IF FileOf[c] = f THEN "pending" ELSE chunk[c]]
  /\ Harmed({h \in {"reborn"} : \E b \in Builds : ChunksOf(f) \cap Holding(b) # {}})
  /\ Refilled
  /\ UNCHANGED <<stores, orphans, resetting, builds, breaks>>

-----------------------------------------------------------------------------
(* reset, once, and the end of the process *)

ResetBegins ==
  /\ resetting = "none" /\ NoneRunning /\ resetting' = "neo"
  /\ Harmed({h \in {"crossed"} : \E b \in Builds : Working(b)})
  /\ UNCHANGED <<chunk, stores, crew, call, orphans, builds, breaks>>

ResetNeo ==
  /\ resetting = "neo" /\ resetting' = "vectors" /\ neo' = {}
  /\ UNCHANGED <<chunk, mentions, rows, vectors, crew, call, orphans, builds, breaks, harms>>

\* An error of Milvus is logged, and the reset goes on.
ResetVectors ==
  /\ resetting = "vectors" /\ resetting' = "rows"
  /\ \/ vectors' = {} /\ UNCHANGED <<breaks, harms>>
     \/ Break /\ Harmed({"broken"}) /\ UNCHANGED vectors
  /\ UNCHANGED <<chunk, mentions, rows, neo, crew, call, orphans, builds>>

ResetRows ==
  /\ resetting = "rows" /\ resetting' = "flags" /\ rows' = {} /\ mentions' = {}
  /\ UNCHANGED <<chunk, neo, vectors, crew, call, orphans, builds, breaks, harms>>

ResetFlags ==
  /\ resetting = "flags" /\ resetting' = "done"
  /\ chunk' = [c \in KbChunks |-> IF chunk[c] = "indexed" THEN "pending" ELSE chunk[c]]
  /\ Refilled
  /\ UNCHANGED <<stores, call, orphans, builds, breaks, harms>>

ResetBreaks ==
  /\ Underway /\ Break /\ resetting' = "done" /\ Harmed({"broken"})
  /\ UNCHANGED <<chunk, stores, crew, call, orphans, builds>>

GraphRestart ==
  /\ Break /\ crew' = [b \in Builds |-> NoCrew]
  /\ call' = [f \in KbFiles |-> IF call[f] = "none" THEN "none" ELSE "done"]
  /\ orphans' = [f \in KbFiles |-> {}]
  /\ resetting' = IF resetting = "none" THEN "none" ELSE "done"
  /\ Harmed(IF Underway \/ \E f \in KbFiles : call[f] \in {"references", "vectors", "neo", "chunks"}
            THEN {"broken"} ELSE {})
  /\ UNCHANGED <<chunk, stores, builds>>

-----------------------------------------------------------------------------
(* Specification *)

Job(b) ==
  \/ Round(b) \/ Upsert(b) \/ UpsertFails(b) \/ RoundEnds(b)
  \/ FlushLooks(b) \/ FlushInserts(b) \/ FlushFails(b)
  \/ \E c \in KbChunks : WriteNeo(b, c) \/ ChunkFails(b, c) \/ Flag(b, c)
DeleteStep(f) == \/ DeleteReferences(f) \/ DeleteVectors(f) \/ DeleteNeo(f) \/ DeleteBreaks(f)
                 \/ DeleteChunks(f)
Reset == ResetNeo \/ ResetVectors \/ ResetRows \/ ResetFlags \/ ResetBreaks

GraphNext ==
  \/ Build \/ ResetBegins \/ Reset \/ GraphRestart
  \/ \E b \in Builds : Job(b) \/ Cancel(b) \/ TaskDeleted(b)
  \/ \E f \in KbFiles : DeleteBegins(f) \/ DeleteStep(f) \/ IndexedAgain(f)
GraphSpec == GraphInit /\ [][GraphNext]_graphVars

\* Each job goes on: the stores and the models answer, well or with an error.
GraphFair == \A b \in Builds : WF_graphVars(Job(b))

-----------------------------------------------------------------------------
(* Properties *)

\* Every variable holds a value of its kind.
GraphTypeOK ==
  /\ chunk \in [KbChunks -> {"pending", "indexed", "gone"}]
  /\ mentions \subseteq KbChunks /\ rows \subseteq Entities
  /\ neo \subseteq KbChunks /\ vectors \subseteq Entities
  /\ crew \in [Builds ->
       [pc : {"none", "round", "take", "upsert", "end", "flush", "insert", "flag"},
        task : {"none", "active", "cancelled", "deleted"},
        page : SUBSET KbChunks, todo : SUBSET KbChunks, queue : SUBSET KbChunks,
        taken : SUBSET KbChunks, failed : SUBSET KbChunks, known : SUBSET Entities,
        buffer : SUBSET KbChunks, flushing : SUBSET KbChunks, missing : SUBSET Entities,
        outset : SUBSET KbChunks, refilled : BOOLEAN]]
  /\ call \in [KbFiles -> {"none", "references", "vectors", "neo", "chunks", "again", "done"}]
  /\ orphans \in [KbFiles -> SUBSET Entities]
  /\ resetting \in {"none", "neo", "vectors", "rows", "flags", "done"}
  /\ builds \in 0..MaxBuilds /\ breaks \in 0..MaxBreaks /\ harms \subseteq Harm

Calm == /\ \A b \in Builds : ~Working(b)
        /\ ~Underway
        /\ \A f \in KbFiles : call[f] \in {"none", "again", "done"}

\* A flagged chunk can be found through the graph: when nobody is at work its entities
\* have rows and vectors and it is in Neo4j, unless a deletion took a vector the job
\* relied on, or a deletion or reset broke off or crossed a job.
FlaggedFindable ==
  Calm /\ harms \cap {"cached", "revived", "broken", "crossed", "reborn"} = {} =>
    \A c \in KbChunks : chunk[c] = "indexed" =>
      c \in mentions /\ c \in neo /\ Ents[c] \subseteq rows \cap vectors

\* What is deleted leaves nothing behind: when nobody is at work, rows, vectors and
\* Neo4j know entities of existing chunks only, with the exceptions harms names.
NothingLeft ==
  Calm /\ harms \cap {"broken", "unflagged", "ghost", "crossed"} = {} =>
    neo \subseteq Existing /\ rows \cup vectors \subseteq EntsOf(Existing)

\* A job does not go round in circles: after a round it has fewer chunks left to do than
\* before, although a failed flush leaves all but one of its chunks pending and another job
\* may be at work, unless a file was indexed again or the graph reset meanwhile.
RoundsShrink ==
  \A b \in Builds : crew[b].pc = "round" /\ ~crew[b].refilled =>
    Undone(b) \subseteq crew[b].outset /\ Undone(b) # crew[b].outset

\* Each job and its workers end, however often its flushes fail.
BuildEnds == \A b \in Builds : Working(b) ~> ~Working(b)
=============================================================================
