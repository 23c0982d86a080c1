-------------------------- MODULE GraphBuildProofs --------------------------
(***************************************************************************)
(* Proofs about GraphBuild, for every set of chunks, files and entities,    *)
(* every size of a flush and every number of jobs, failures, cancels and    *)
(* deleted tasks.                                                           *)
(***************************************************************************)
EXTENDS GraphBuild, TLAPS

-----------------------------------------------------------------------------
(* The steps of a job *)

Crew == [pc : {"none", "round", "take", "upsert", "end", "flush", "insert", "flag"},
         task : {"none", "active", "cancelled", "deleted"},
         page : SUBSET KbChunks, todo : SUBSET KbChunks, queue : SUBSET KbChunks,
         taken : SUBSET KbChunks, failed : SUBSET KbChunks, known : SUBSET Entities,
         buffer : SUBSET KbChunks, flushing : SUBSET KbChunks, missing : SUBSET Entities,
         outset : SUBSET KbChunks, refilled : BOOLEAN]

\* What a step of one job does to the jobs.
Becomes(b, state) ==
  /\ crew' \in [Builds -> Crew] /\ crew'[b] = state
  /\ \A d \in Builds \ {b} : crew'[d] = crew[d]

LEMMA CrewTypes == GraphTypeOK => crew \in [Builds -> Crew]
BY DEF GraphTypeOK, Crew

LEMMA CrewType == ASSUME GraphTypeOK, NEW b \in Builds PROVE crew[b] \in Crew
BY CrewTypes

LEMMA NoCrewType == NoCrew \in Crew
BY DEF NoCrew, Crew, None

LEMMA EntsTypes == \A cs \in SUBSET KbChunks : EntsOf(cs) \subseteq Entities
BY DEF EntsOf, Entities

LEMMA FileTypes == FileOf \in [KbChunks -> KbFiles]
BY GraphAssumption

LEMMA GoesBecomes ==
  ASSUME GraphTypeOK, NEW b \in Builds, NEW state \in Crew, Goes(b, state)
  PROVE  Becomes(b, state)
BY CrewTypes DEF Goes, Becomes

LEMMA OverBecomes ==
  ASSUME GraphTypeOK, NEW b \in Builds, JobOver(b)
  PROVE  Becomes(b, NoCrew)
BY NoCrewType, GoesBecomes DEF JobOver

\* The job that is started is one of those the bound allows.
LEMMA BuildBecomes ==
  ASSUME GraphTypeOK, Build
  PROVE  /\ builds' \in Builds /\ builds' \in 0..MaxBuilds
         /\ Becomes(builds', [NoCrew EXCEPT !.pc = "round", !.task = "active"])
<1>1. builds' \in Builds /\ builds' \in 0..MaxBuilds
  BY GraphAssumption DEF Build, GraphTypeOK, Builds
<1>2. [NoCrew EXCEPT !.pc = "round", !.task = "active"] \in Crew
  BY NoCrewType DEF Crew
<1> QED BY <1>1, <1>2, GoesBecomes DEF Build

LEMMA RoundBecomes ==
  ASSUME GraphTypeOK, NEW b \in Builds, Round(b), ~JobOver(b)
  PROVE  \E fresh \in SUBSET Undone(b) :
           /\ fresh # {}
           /\ Becomes(b, [crew[b] EXCEPT !.pc = "take", !.page = fresh, !.todo = fresh,
                                         !.outset = Undone(b), !.refilled = FALSE])
<1>1. PICK page \in SUBSET Pending :
        /\ page \ crew[b].failed # {}
        /\ Goes(b, [crew[b] EXCEPT !.pc = "take", !.page = page \ crew[b].failed,
                                   !.todo = page \ crew[b].failed,
                                   !.outset = Undone(b), !.refilled = FALSE])
  BY DEF Round
<1> DEFINE fresh == page \ crew[b].failed
<1>2. fresh \in SUBSET Undone(b) /\ Undone(b) \subseteq KbChunks
  BY DEF Undone, Pending
<1>3. [crew[b] EXCEPT !.pc = "take", !.page = fresh, !.todo = fresh,
                      !.outset = Undone(b), !.refilled = FALSE] \in Crew
  BY ZenonT(60), <1>2, CrewType DEF Crew
<1> QED BY <1>1, <1>2, <1>3, GoesBecomes

LEMMA WriteBecomes ==
  ASSUME GraphTypeOK, NEW b \in Builds, NEW c \in KbChunks, WriteNeo(b, c)
  PROVE  Becomes(b, [crew[b] EXCEPT !.pc = "upsert", !.todo = @ \ {c}, !.taken = {c}])
<1>1. [crew[b] EXCEPT !.pc = "upsert", !.todo = @ \ {c}, !.taken = {c}] \in Crew
  BY CrewType DEF Crew
<1> QED BY <1>1, GoesBecomes DEF WriteNeo

LEMMA ChunkFailsBecomes ==
  ASSUME GraphTypeOK, NEW b \in Builds, NEW c \in KbChunks, ChunkFails(b, c)
  PROVE  Becomes(b, [crew[b] EXCEPT !.pc = NextStep(crew[b].todo \ {c}), !.todo = @ \ {c},
                                    !.failed = @ \cup {c}])
<1>1. [crew[b] EXCEPT !.pc = NextStep(crew[b].todo \ {c}), !.todo = @ \ {c},
                      !.failed = @ \cup {c}] \in Crew
  BY ZenonT(60), CrewType DEF Crew, NextStep
<1> QED BY <1>1, GoesBecomes DEF ChunkFails

\* What an upsert makes of its job.
Full(b, c) == crew[b].buffer \cup {c}
Upserted(b, c) ==
  IF Cardinality(Full(b, c)) >= FlushAt
  THEN [crew[b] EXCEPT !.pc = "flush", !.buffer = Full(b, c)]
  ELSE [crew[b] EXCEPT !.pc = NextStep(crew[b].todo), !.buffer = Full(b, c), !.taken = None]

LEMMA UpsertBecomes ==
  ASSUME GraphTypeOK, NEW b \in Builds, Upsert(b)
  PROVE  \E c \in crew[b].taken :
           /\ c \in KbChunks /\ chunk[c] # "gone"
           /\ mentions' = mentions \cup {c} /\ rows' = rows \cup Ents[c]
           /\ Harmed(Ghosts({c}))
           /\ Becomes(b, Upserted(b, c))
<1>1. PICK c \in crew[b].taken :
        /\ chunk[c] # "gone"
        /\ mentions' = mentions \cup {c} /\ rows' = rows \cup Ents[c]
        /\ Goes(b, Upserted(b, c))
        /\ Harmed(Ghosts({c}))
  BY DEF Upsert, Upserted, Full
<1>2. c \in KbChunks
  BY CrewType DEF Crew
<1> DEFINE full == crew[b].buffer \cup {c}
<1>a. crew[b] \in Crew /\ full \in SUBSET KbChunks
  BY <1>2, CrewType DEF Crew
<1>b. [crew[b] EXCEPT !.pc = "flush", !.buffer = full] \in Crew
  BY <1>a DEF Crew
<1>c. [crew[b] EXCEPT !.pc = NextStep(crew[b].todo), !.buffer = full, !.taken = None] \in Crew
  BY <1>a DEF Crew, NextStep, None
<1>3. Upserted(b, c) \in Crew
  BY <1>b, <1>c DEF Upserted, Full
<1> QED BY <1>1, <1>2, <1>3, GoesBecomes

Left(b, failed) ==
  [crew[b] EXCEPT !.pc = NextStep(crew[b].todo), !.taken = None,
                  !.failed = @ \cup failed, !.flushing = {}, !.missing = {}]

LEMMA LeavesBecomes ==
  ASSUME GraphTypeOK, NEW b \in Builds, NEW cs \in SUBSET KbChunks, Leaves(b, cs)
  PROVE  Becomes(b, Left(b, cs))
<1>1. Left(b, cs) \in Crew
  BY ZenonT(60), CrewType DEF Crew, NextStep, None, Left
<1> QED BY <1>1, GoesBecomes DEF Leaves, Left

LEMMA EndBecomes ==
  ASSUME GraphTypeOK, NEW b \in Builds, RoundEnds(b), crew[b].task # "cancelled"
  PROVE  Becomes(b, [crew[b] EXCEPT !.pc = IF crew[b].buffer = {} THEN "round" ELSE "flush",
                                    !.page = {}])
<1>1. [crew[b] EXCEPT !.pc = IF crew[b].buffer = {} THEN "round" ELSE "flush",
                      !.page = {}] \in Crew
  BY ZenonT(60), CrewType DEF Crew
<1> QED BY <1>1, GoesBecomes DEF RoundEnds

LEMMA LooksBecomes ==
  ASSUME GraphTypeOK, NEW b \in Builds, FlushLooks(b)
  PROVE  Becomes(b, [crew[b] EXCEPT !.pc = "insert", !.flushing = crew[b].buffer, !.buffer = {},
                       !.missing = EntsOf(crew[b].buffer) \ (crew[b].known \cup vectors)])
<1>1. EntsOf(crew[b].buffer) \subseteq Entities
  BY CrewType, EntsTypes DEF Crew
<1>2. [crew[b] EXCEPT !.pc = "insert", !.flushing = crew[b].buffer, !.buffer = {},
         !.missing = EntsOf(crew[b].buffer) \ (crew[b].known \cup vectors)] \in Crew
  BY ZenonT(60), <1>1, CrewType DEF Crew
<1> QED BY <1>2, GoesBecomes DEF FlushLooks

LEMMA InsertsBecomes ==
  ASSUME GraphTypeOK, NEW b \in Builds, FlushInserts(b)
  PROVE  Becomes(b, [crew[b] EXCEPT !.pc = "flag", !.missing = {},
                                    !.known = @ \cup EntsOf(crew[b].flushing)])
<1>1. EntsOf(crew[b].flushing) \subseteq Entities
  BY CrewType, EntsTypes DEF Crew
<1>2. [crew[b] EXCEPT !.pc = "flag", !.missing = {},
                      !.known = @ \cup EntsOf(crew[b].flushing)] \in Crew
  BY <1>1, CrewType DEF Crew
<1> QED BY <1>2, GoesBecomes DEF FlushInserts

LEMMA FailsBecomes ==
  ASSUME GraphTypeOK, NEW b \in Builds, Fails(b)
  PROVE  \/ crew[b].taken = {} /\ Becomes(b, NoCrew)
         \/ crew[b].taken # {} /\ Becomes(b, Left(b, crew[b].taken))
<1>1. crew[b].taken \in SUBSET KbChunks
  BY CrewType DEF Crew
<1> QED BY <1>1, OverBecomes, LeavesBecomes DEF Fails, None

\* The last chunk of a flush has been flagged, or another one.
LEMMA FlagBecomes ==
  ASSUME GraphTypeOK, NEW b \in Builds, NEW c \in KbChunks, Flag(b, c)
  PROVE  \/ /\ crew[b].flushing \ {c} # {}
            /\ Becomes(b, [crew[b] EXCEPT !.flushing = @ \ {c}])
         \/ crew[b].taken # {} /\ \E cs \in SUBSET crew[b].taken : Becomes(b, Left(b, cs))
         \/ /\ crew[b].taken = {} /\ crew[b].flushing = {c}
            /\ Becomes(b, [crew[b] EXCEPT !.pc = "round", !.flushing = {}])
         \/ Becomes(b, NoCrew)
<1>1. [crew[b] EXCEPT !.flushing = @ \ {c}] \in Crew /\ [crew[b] EXCEPT !.pc = "round", !.flushing = {}] \in Crew
  BY CrewType DEF Crew
<1>2. CASE crew[b].flushing \ {c} # {}
  BY <1>1, <1>2, GoesBecomes DEF Flag
<1>3. CASE crew[b].flushing \ {c} = {} /\ crew[b].taken # None /\ Leaves(b, {})
  BY <1>3, LeavesBecomes DEF None
<1>4. CASE crew[b].flushing \ {c} = {} /\ crew[b].taken = None /\ Goes(b, [crew[b] EXCEPT !.pc = "round", !.flushing = {}])
  BY <1>1, <1>4, GoesBecomes DEF None, Flag
<1>5. CASE Fails(b)
  BY <1>5, FailsBecomes
<1> QED BY <1>2, <1>3, <1>4, <1>5 DEF Flag

LEMMA CancelBecomes ==
  ASSUME GraphTypeOK, NEW b \in Builds, Cancel(b), ~JobOver(b)
  PROVE  \E held \in SUBSET crew[b].todo :
           /\ held \cup crew[b].taken # {}
           /\ Becomes(b, [crew[b] EXCEPT !.task = "cancelled", !.page = {}, !.todo = held,
                                         !.queue = crew[b].todo \ held,
                                         !.outset = {}, !.refilled = TRUE])
<1>1. PICK held \in SUBSET crew[b].todo :
        /\ held \cup crew[b].taken # {}
        /\ Goes(b, [crew[b] EXCEPT !.task = "cancelled", !.page = {}, !.todo = held,
                                   !.queue = crew[b].todo \ held,
                                   !.outset = {}, !.refilled = TRUE])
  BY DEF Cancel
<1>2. [crew[b] EXCEPT !.task = "cancelled", !.page = {}, !.todo = held,
                      !.queue = crew[b].todo \ held,
                      !.outset = {}, !.refilled = TRUE] \in Crew
  BY ZenonT(60), CrewType DEF Crew
<1> QED BY <1>1, <1>2, GoesBecomes

LEMMA DeletedBecomes ==
  ASSUME GraphTypeOK, NEW b \in Builds, TaskDeleted(b)
  PROVE  Becomes(b, [crew[b] EXCEPT !.task = IF @ = "active" THEN "deleted" ELSE @,
                                    !.todo = @ \cup crew[b].queue, !.queue = {}])
<1>1. [crew[b] EXCEPT !.task = IF @ = "active" THEN "deleted" ELSE @,
                      !.todo = @ \cup crew[b].queue, !.queue = {}] \in Crew
  BY ZenonT(60), CrewType DEF Crew
<1> QED BY <1>1, GoesBecomes DEF TaskDeleted

\* Chunks that become pending are noted by the jobs and change nothing else of them.
LEMMA RefilledSays ==
  ASSUME GraphTypeOK, Refilled
  PROVE  /\ crew' \in [Builds -> Crew]
         /\ \A b \in Builds : crew'[b] = crew[b] \/ crew'[b] = [crew[b] EXCEPT !.refilled = TRUE]
         /\ \A b \in Builds : Working(b) => crew'[b].refilled
<1>1. \A b \in Builds : [crew[b] EXCEPT !.refilled = TRUE] \in Crew /\ [crew[b] EXCEPT !.refilled = TRUE].refilled
  <2> SUFFICES ASSUME NEW b \in Builds
               PROVE  [crew[b] EXCEPT !.refilled = TRUE] \in Crew /\ [crew[b] EXCEPT !.refilled = TRUE].refilled
    OBVIOUS
  <2> QED BY CrewType DEF Crew
<1>2. \A b \in Builds : crew'[b] = IF Working(b) THEN [crew[b] EXCEPT !.refilled = TRUE] ELSE crew[b]
  BY DEF Refilled
<1>3. crew' \in [Builds -> Crew]
  BY <1>1, CrewTypes DEF Refilled
<1> QED BY <1>1, <1>2, <1>3

\* The same of each field of the job's record.

LEMMA WriteSays ==
  ASSUME GraphTypeOK, NEW b \in Builds, NEW c \in KbChunks, WriteNeo(b, c)
  PROVE  /\ crew'[b].pc = "upsert"
         /\ crew'[b].todo = crew[b].todo \ {c}
         /\ crew'[b].taken = {c}
         /\ UNCHANGED <<crew[b].task, crew[b].page, crew[b].queue, crew[b].failed,
                       crew[b].known, crew[b].buffer, crew[b].flushing, crew[b].missing,
                       crew[b].outset, crew[b].refilled>>
<1>1. crew'[b] = [crew[b] EXCEPT !.pc = "upsert", !.todo = @ \ {c}, !.taken = {c}]
  BY WriteBecomes DEF Becomes
<1> QED BY <1>1, CrewType DEF Crew

LEMMA ChunkFailsSays ==
  ASSUME GraphTypeOK, NEW b \in Builds, NEW c \in KbChunks, ChunkFails(b, c)
  PROVE  /\ crew'[b].pc = NextStep(crew[b].todo \ {c})
         /\ crew'[b].todo = crew[b].todo \ {c}
         /\ crew'[b].failed = crew[b].failed \cup {c}
         /\ UNCHANGED <<crew[b].task, crew[b].page, crew[b].queue, crew[b].taken, crew[b].known,
                       crew[b].buffer, crew[b].flushing, crew[b].missing, crew[b].outset,
                       crew[b].refilled>>
<1>1. crew'[b] = [crew[b] EXCEPT !.pc = NextStep(crew[b].todo \ {c}), !.todo = @ \ {c},
                                 !.failed = @ \cup {c}]
  BY ChunkFailsBecomes DEF Becomes
<1> QED BY <1>1, CrewType DEF Crew

LEMMA EndSays ==
  ASSUME GraphTypeOK, NEW b \in Builds, RoundEnds(b), crew[b].task # "cancelled"
  PROVE  /\ crew'[b].pc = IF crew[b].buffer = {} THEN "round" ELSE "flush"
         /\ crew'[b].page = {}
         /\ UNCHANGED <<crew[b].task, crew[b].todo, crew[b].queue, crew[b].taken,
                       crew[b].failed, crew[b].known, crew[b].buffer, crew[b].flushing,
                       crew[b].missing, crew[b].outset, crew[b].refilled>>
<1>1. crew'[b] = [crew[b] EXCEPT !.pc = IF crew[b].buffer = {} THEN "round" ELSE "flush",
                                 !.page = {}]
  BY EndBecomes DEF Becomes
<1> QED BY <1>1, CrewType DEF Crew

LEMMA LooksSays ==
  ASSUME GraphTypeOK, NEW b \in Builds, FlushLooks(b)
  PROVE  /\ crew'[b].pc = "insert"
         /\ crew'[b].flushing = crew[b].buffer
         /\ crew'[b].buffer = {}
         /\ crew'[b].missing = EntsOf(crew[b].buffer) \ (crew[b].known \cup vectors)
         /\ UNCHANGED <<crew[b].task, crew[b].page, crew[b].todo, crew[b].queue, crew[b].taken,
                       crew[b].failed, crew[b].known, crew[b].outset, crew[b].refilled>>
<1>1. crew'[b] = [crew[b] EXCEPT !.pc = "insert", !.flushing = crew[b].buffer, !.buffer = {},
                    !.missing = EntsOf(crew[b].buffer) \ (crew[b].known \cup vectors)]
  BY LooksBecomes DEF Becomes
<1> QED BY <1>1, CrewType DEF Crew

LEMMA InsertsSays ==
  ASSUME GraphTypeOK, NEW b \in Builds, FlushInserts(b)
  PROVE  /\ crew'[b].pc = "flag"
         /\ crew'[b].missing = {}
         /\ crew'[b].known = crew[b].known \cup EntsOf(crew[b].flushing)
         /\ UNCHANGED <<crew[b].task, crew[b].page, crew[b].todo, crew[b].queue, crew[b].taken,
                       crew[b].failed, crew[b].buffer, crew[b].flushing, crew[b].outset,
                       crew[b].refilled>>
<1>1. crew'[b] = [crew[b] EXCEPT !.pc = "flag", !.missing = {},
                                 !.known = @ \cup EntsOf(crew[b].flushing)]
  BY InsertsBecomes DEF Becomes
<1> QED BY <1>1, CrewType DEF Crew

LEMMA DeletedSays ==
  ASSUME GraphTypeOK, NEW b \in Builds, TaskDeleted(b)
  PROVE  /\ crew'[b].task = IF crew[b].task = "active" THEN "deleted" ELSE crew[b].task
         /\ crew'[b].todo = crew[b].todo \cup crew[b].queue
         /\ crew'[b].queue = {}
         /\ UNCHANGED <<crew[b].pc, crew[b].page, crew[b].taken, crew[b].failed, crew[b].known,
                       crew[b].buffer, crew[b].flushing, crew[b].missing, crew[b].outset,
                       crew[b].refilled>>
<1>1. crew'[b] = [crew[b] EXCEPT !.task = IF @ = "active" THEN "deleted" ELSE @,
                                 !.todo = @ \cup crew[b].queue, !.queue = {}]
  BY DeletedBecomes DEF Becomes
<1> QED BY <1>1, CrewType DEF Crew

LEMMA RoundSays ==
  ASSUME GraphTypeOK, NEW b \in Builds, Round(b), ~JobOver(b)
  PROVE  \E fresh \in SUBSET Undone(b) :
           /\ fresh # {} /\ fresh \subseteq KbChunks
           /\ crew'[b].pc = "take" /\ crew'[b].todo = fresh
           /\ crew'[b].outset = Undone(b) /\ crew'[b].refilled = FALSE
           /\ UNCHANGED <<crew[b].task, crew[b].queue, crew[b].taken, crew[b].failed, crew[b].known,
                         crew[b].buffer, crew[b].flushing, crew[b].missing>>
<1>1. PICK fresh \in SUBSET Undone(b) :
        /\ fresh # {}
        /\ crew'[b] = [crew[b] EXCEPT !.pc = "take", !.page = fresh, !.todo = fresh,
                                      !.outset = Undone(b), !.refilled = FALSE]
  BY RoundBecomes DEF Becomes
<1>2. fresh \subseteq KbChunks
  BY DEF Undone, Pending
<1>3. /\ crew'[b].pc = "take" /\ crew'[b].todo = fresh
      /\ crew'[b].outset = Undone(b) /\ crew'[b].refilled = FALSE
      /\ UNCHANGED <<crew[b].task, crew[b].queue, crew[b].taken, crew[b].failed, crew[b].known,
                    crew[b].buffer, crew[b].flushing, crew[b].missing>>
  BY <1>1, CrewType DEF Crew
<1> QED BY <1>1, <1>2, <1>3

LEMMA UpsertSays ==
  ASSUME GraphTypeOK, NEW b \in Builds, Upsert(b)
  PROVE  \E c \in crew[b].taken :
           /\ c \in KbChunks /\ chunk[c] # "gone"
           /\ mentions' = mentions \cup {c} /\ rows' = rows \cup Ents[c] /\ Harmed(Ghosts({c}))
           /\ crew'[b].buffer = crew[b].buffer \cup {c}
           /\ \/ crew'[b].pc = "flush" /\ crew'[b].taken = crew[b].taken
              \/ crew'[b].pc = NextStep(crew[b].todo) /\ crew'[b].taken = {}
           /\ UNCHANGED <<crew[b].task, crew[b].page, crew[b].todo, crew[b].queue, crew[b].failed,
                         crew[b].known, crew[b].flushing, crew[b].missing, crew[b].outset,
                         crew[b].refilled>>
<1>1. PICK c \in crew[b].taken :
        /\ c \in KbChunks /\ chunk[c] # "gone"
        /\ mentions' = mentions \cup {c} /\ rows' = rows \cup Ents[c] /\ Harmed(Ghosts({c}))
        /\ crew'[b] = Upserted(b, c)
  BY UpsertBecomes DEF Becomes
<1>2. /\ crew'[b].buffer = crew[b].buffer \cup {c}
      /\ \/ crew'[b].pc = "flush" /\ crew'[b].taken = crew[b].taken
         \/ crew'[b].pc = NextStep(crew[b].todo) /\ crew'[b].taken = {}
      /\ UNCHANGED <<crew[b].task, crew[b].page, crew[b].todo, crew[b].queue, crew[b].failed,
                    crew[b].known, crew[b].flushing, crew[b].missing, crew[b].outset,
                    crew[b].refilled>>
  <2>1. CASE Cardinality(Full(b, c)) >= FlushAt
    <3>1. crew'[b] = [crew[b] EXCEPT !.pc = "flush", !.buffer = Full(b, c)]
      BY <1>1, <2>1 DEF Upserted
    <3> QED BY <3>1, CrewType DEF Crew, Full
  <2>2. CASE ~(Cardinality(Full(b, c)) >= FlushAt)
    <3>1. crew'[b] = [crew[b] EXCEPT !.pc = NextStep(crew[b].todo), !.buffer = Full(b, c), !.taken = None]
      BY <1>1, <2>2 DEF Upserted
    <3> QED BY <3>1, CrewType DEF Crew, Full, None
  <2> QED BY <2>1, <2>2
<1> QED BY <1>1, <1>2

\* A job that has failed with a chunk, or not.
LEMMA LeftSays ==
  ASSUME GraphTypeOK, NEW b \in Builds, NEW cs, crew'[b] = Left(b, cs)
  PROVE  /\ crew'[b].pc = NextStep(crew[b].todo) /\ crew'[b].taken = {}
         /\ crew'[b].failed = crew[b].failed \cup cs /\ crew'[b].flushing = {} /\ crew'[b].missing = {}
         /\ UNCHANGED <<crew[b].task, crew[b].page, crew[b].todo, crew[b].queue, crew[b].known,
                       crew[b].buffer, crew[b].outset, crew[b].refilled>>
BY CrewType DEF Left, Crew, None

LEMMA FailsSays ==
  ASSUME GraphTypeOK, NEW b \in Builds, Fails(b)
  PROVE  \/ crew'[b] = NoCrew
         \/ crew[b].taken # {} /\ crew'[b] = Left(b, crew[b].taken)
BY FailsBecomes DEF Becomes

LEMMA UpsertFailsSays ==
  ASSUME GraphTypeOK, NEW b \in Builds, UpsertFails(b)
  PROVE  crew'[b] = Left(b, crew[b].taken)
<1>1. crew[b].taken \in SUBSET KbChunks /\ Leaves(b, crew[b].taken)
  BY CrewType DEF Crew, UpsertFails
<1> QED BY <1>1, LeavesBecomes DEF Becomes

LEMMA FlagSays ==
  ASSUME GraphTypeOK, NEW b \in Builds, NEW c \in KbChunks, Flag(b, c)
  PROVE  \/ /\ crew'[b].flushing = crew[b].flushing \ {c} /\ crew[b].flushing \ {c} # {}
            /\ UNCHANGED <<crew[b].pc, crew[b].task, crew[b].page, crew[b].todo, crew[b].queue,
                          crew[b].taken, crew[b].failed, crew[b].known, crew[b].buffer,
                          crew[b].missing, crew[b].outset, crew[b].refilled>>
         \/ crew[b].taken # {} /\ \E cs \in SUBSET crew[b].taken : crew'[b] = Left(b, cs)
         \/ /\ crew'[b].pc = "round" /\ crew'[b].flushing = {}
            /\ crew[b].taken = {} /\ crew[b].flushing = {c}
            /\ UNCHANGED <<crew[b].task, crew[b].page, crew[b].todo, crew[b].queue,
                          crew[b].taken, crew[b].failed, crew[b].known, crew[b].buffer,
                          crew[b].missing, crew[b].outset, crew[b].refilled>>
         \/ crew'[b] = NoCrew
<1>1. CASE crew[b].flushing \ {c} # {} /\ crew'[b] = [crew[b] EXCEPT !.flushing = @ \ {c}]
  BY <1>1, CrewType DEF Crew
<1>2. CASE /\ crew[b].taken = {} /\ crew[b].flushing = {c}
           /\ crew'[b] = [crew[b] EXCEPT !.pc = "round", !.flushing = {}]
  BY <1>2, CrewType DEF Crew
<1> QED BY <1>1, <1>2, FlagBecomes DEF Becomes

LEMMA CancelSays ==
  ASSUME GraphTypeOK, NEW b \in Builds, Cancel(b), ~JobOver(b)
  PROVE  \E held \in SUBSET crew[b].todo :
           /\ held \cup crew[b].taken # {}
           /\ crew'[b].task = "cancelled" /\ crew'[b].page = {} /\ crew'[b].todo = held
           /\ crew'[b].queue = crew[b].todo \ held /\ crew'[b].outset = {} /\ crew'[b].refilled = TRUE
           /\ UNCHANGED <<crew[b].pc, crew[b].taken, crew[b].failed, crew[b].known, crew[b].buffer,
                         crew[b].flushing, crew[b].missing>>
<1>1. PICK held \in SUBSET crew[b].todo :
        /\ held \cup crew[b].taken # {}
        /\ crew'[b] = [crew[b] EXCEPT !.task = "cancelled", !.page = {}, !.todo = held,
                                      !.queue = crew[b].todo \ held,
                                      !.outset = {}, !.refilled = TRUE]
  BY CancelBecomes DEF Becomes
<1>2. /\ crew'[b].task = "cancelled" /\ crew'[b].page = {} /\ crew'[b].todo = held
      /\ crew'[b].queue = crew[b].todo \ held /\ crew'[b].outset = {} /\ crew'[b].refilled = TRUE
      /\ UNCHANGED <<crew[b].pc, crew[b].taken, crew[b].failed, crew[b].known, crew[b].buffer,
                    crew[b].flushing, crew[b].missing>>
  BY <1>1, CrewType DEF Crew
<1> QED BY <1>1, <1>2

LEMMA OverSays ==
  ASSUME GraphTypeOK, NEW b \in Builds, JobOver(b)
  PROVE  crew'[b] = NoCrew
BY OverBecomes DEF Becomes

-----------------------------------------------------------------------------
(* Types *)

LEMMA GraphTypeInit == GraphInit => GraphTypeOK
<1> SUFFICES ASSUME GraphInit PROVE GraphTypeOK
  OBVIOUS
<1>1. crew \in [Builds -> Crew]
  BY NoCrewType DEF GraphInit
<1> QED BY <1>1, GraphAssumption DEF GraphInit, GraphTypeOK, Crew

LEMMA BreakTypes ==
  ASSUME GraphTypeOK, Break
  PROVE  breaks' \in 0..MaxBreaks
BY GraphAssumption DEF GraphTypeOK, Break

\* A step of a job, or of the Tasker with it.
Moves(b) == Job(b) \/ Cancel(b) \/ TaskDeleted(b)
Only(b) == crew' \in [Builds -> Crew] /\ \A d \in Builds \ {b} : crew'[d] = crew[d]

LEMMA MovesOnly ==
  ASSUME GraphTypeOK, NEW b \in Builds, Moves(b)
  PROVE  Only(b)
<1> USE DEF Becomes, Only
<1>1. ASSUME JobOver(b) PROVE Only(b)
  BY <1>1, OverBecomes
<1>2. CASE Round(b) \/ Cancel(b) \/ TaskDeleted(b)
  BY <1>1, <1>2, RoundBecomes, CancelBecomes, DeletedBecomes
<1>3. CASE Upsert(b)
  BY <1>3, UpsertBecomes
<1>4. CASE UpsertFails(b)
  <2>1. crew[b].taken \in SUBSET KbChunks
    BY CrewType DEF Crew
  <2> QED BY <1>4, <2>1, LeavesBecomes DEF UpsertFails
<1>5. CASE RoundEnds(b)
  BY <1>1, <1>5, EndBecomes DEF RoundEnds
<1>6. CASE FlushLooks(b) \/ FlushInserts(b)
  BY <1>6, LooksBecomes, InsertsBecomes
<1>7. CASE FlushFails(b)
  BY <1>7, FailsBecomes DEF FlushFails
<1>8. ASSUME NEW c \in KbChunks, WriteNeo(b, c) \/ ChunkFails(b, c) \/ Flag(b, c) PROVE Only(b)
  BY <1>8, WriteBecomes, ChunkFailsBecomes, FlagBecomes
<1> QED BY <1>2, <1>3, <1>4, <1>5, <1>6, <1>7, <1>8 DEF Moves, Job

\* The jobs.
LEMMA JobTypes ==
  ASSUME GraphTypeOK, Build \/ \E b \in Builds : Moves(b)
  PROVE  GraphTypeOK'
<1>1. CASE Build
  BY <1>1, BuildBecomes DEF Build, Becomes, Crew, GraphTypeOK, stores, Harmed, Harm
<1>2. ASSUME NEW b \in Builds, Moves(b) PROVE GraphTypeOK'
  <2>c. crew' \in [Builds -> Crew]
    BY <1>2, MovesOnly DEF Only
  <2>r. crew[b] \in Crew
    BY CrewType
  <2> USE <2>c DEF GraphTypeOK, stores, Harmed, Harm, Ghosts
  <2>1. CASE Round(b) \/ RoundEnds(b) \/ FlushLooks(b) \/ FlushFails(b)
    BY <2>1 DEF Round, RoundEnds, FlushLooks, FlushFails, Crew
  <2>2. CASE Cancel(b) \/ TaskDeleted(b) \/ UpsertFails(b)
    BY <2>2, BreakTypes DEF Cancel, TaskDeleted, UpsertFails, Crew
  <2>3. CASE Upsert(b)
    <3>1. PICK c \in KbChunks : mentions' = mentions \cup {c} /\ rows' = rows \cup Ents[c] /\ Harmed(Ghosts({c}))
      BY <2>3, UpsertBecomes
    <3>2. Ents[c] \subseteq Entities
      BY DEF Entities
    <3> QED BY <2>3, <3>1, <3>2 DEF Upsert, Crew
  <2>4. CASE FlushInserts(b)
    <3>1. crew[b].missing \subseteq Entities
      BY <2>r DEF Crew
    <3> QED BY <2>4, <3>1 DEF FlushInserts, Crew
  <2>5. ASSUME NEW c \in KbChunks, WriteNeo(b, c) \/ ChunkFails(b, c) \/ Flag(b, c) PROVE GraphTypeOK'
    BY <2>5, BreakTypes DEF WriteNeo, ChunkFails, Flag, Crew
  <2> QED BY <1>2, <2>1, <2>2, <2>3, <2>4, <2>5 DEF Moves, Job
<1> QED BY <1>1, <1>2

LEMMA RestartSays ==
  ASSUME GraphTypeOK, GraphRestart
  PROVE  crew' \in [Builds -> Crew] /\ \A b \in Builds : crew'[b] = NoCrew
BY NoCrewType DEF GraphRestart

\* Deletions, the reset and a restart.
Others ==
  \/ ResetBegins \/ Reset \/ GraphRestart
  \/ \E f \in KbFiles : DeleteBegins(f) \/ DeleteStep(f) \/ IndexedAgain(f)

LEMMA OtherTypes ==
  ASSUME GraphTypeOK, Others
  PROVE  GraphTypeOK'
<1> USE DEF GraphTypeOK, stores, Harmed, Harm, At
<1>1. CASE ResetBegins
  BY <1>1 DEF ResetBegins
<1>2. CASE Reset
  <2>1. CASE ResetNeo \/ ResetRows
    BY <2>1 DEF ResetNeo, ResetRows
  <2>2. CASE ResetVectors \/ ResetBreaks
    BY <2>2, BreakTypes DEF ResetVectors, ResetBreaks
  <2>3. CASE ResetFlags
    <3>1. chunk' \in [KbChunks -> {"pending", "indexed", "gone"}]
      BY <2>3 DEF ResetFlags
    <3>2. crew' \in [Builds -> Crew]
      BY <2>3, RefilledSays DEF ResetFlags
    <3> QED BY <2>3, <3>1, <3>2 DEF ResetFlags, Crew
  <2> QED BY <1>2, <2>1, <2>2, <2>3 DEF Reset
<1>3. CASE GraphRestart
  BY <1>3, BreakTypes, RestartSays DEF GraphRestart, Crew
<1>4. ASSUME NEW f \in KbFiles, DeleteBegins(f) \/ IndexedAgain(f) PROVE GraphTypeOK'
  <2>1. CASE DeleteBegins(f)
    BY <2>1 DEF DeleteBegins
  <2>2. CASE IndexedAgain(f)
    <3>1. chunk' \in [KbChunks -> {"pending", "indexed", "gone"}]
      BY <2>2 DEF IndexedAgain
    <3>2. crew' \in [Builds -> Crew]
      BY <2>2, RefilledSays DEF IndexedAgain
    <3> QED BY <2>2, <3>1, <3>2 DEF IndexedAgain, Crew
  <2> QED BY <1>4, <2>1, <2>2
<1>5. ASSUME NEW f \in KbFiles, DeleteReferences(f) PROVE GraphTypeOK'
  <2>1. EntsOf(mentions \cap ChunksOf(f)) \subseteq Entities
    BY EntsTypes
  <2> QED BY <1>5, <2>1 DEF DeleteReferences
<1>6. ASSUME NEW f \in KbFiles, DeleteVectors(f) \/ DeleteNeo(f) \/ DeleteBreaks(f) \/ DeleteChunks(f)
      PROVE  GraphTypeOK'
  <2>1. CASE DeleteVectors(f) \/ DeleteNeo(f)
    BY <2>1 DEF DeleteVectors, DeleteNeo
  <2>2. CASE DeleteBreaks(f)
    BY <2>2, BreakTypes DEF DeleteBreaks
  <2>3. CASE DeleteChunks(f)
    BY <2>3 DEF DeleteChunks
  <2> QED BY <1>6, <2>1, <2>2, <2>3
<1> QED BY <1>1, <1>2, <1>3, <1>4, <1>5, <1>6 DEF DeleteStep, Others

LEMMA NextMoves == GraphNext => Build \/ Others \/ \E b \in Builds : Moves(b)
BY DEF GraphNext, Others, Moves

LEMMA GraphTypeStep == GraphTypeOK /\ [GraphNext]_graphVars => GraphTypeOK'
<1> SUFFICES ASSUME GraphTypeOK, [GraphNext]_graphVars PROVE GraphTypeOK'
  OBVIOUS
<1>1. CASE UNCHANGED graphVars
  BY <1>1 DEF graphVars, stores, GraphTypeOK
<1> QED BY <1>1, NextMoves, JobTypes, OtherTypes

\* Every variable holds a value of its kind.
THEOREM GraphTypeCorrect == GraphSpec => []GraphTypeOK
BY GraphTypeInit, GraphTypeStep, PTL DEF GraphSpec

-----------------------------------------------------------------------------
(* The state of a job and of a deletion *)

Deleting(c) == call[FileOf[c]] \in {"references", "vectors", "neo", "chunks", "again"}

\* What a job has of its round, for its workers or for nobody.
Hand(b) == crew[b].todo \cup crew[b].queue \cup crew[b].taken \cup crew[b].buffer \cup crew[b].flushing

\* What holds of a job whatever has been harmed: one that is over keeps nothing, the entities
\* of a flush that flags are known, and a chunk in hand exists if its file has come back.
JobSound(b) ==
  /\ crew[b].pc = "none" => crew[b] = NoCrew
  /\ crew[b].pc = "flag" => EntsOf(crew[b].flushing) \subseteq crew[b].known
  /\ crew[b].pc = "insert" => crew[b].missing \subseteq EntsOf(crew[b].flushing)
  /\ \A c \in Hand(b) : call[FileOf[c]] = "done" => chunk[c] # "gone"

\* The entities of a mentioned chunk have rows, and a file has its chunks until they are
\* deleted; a job and a reset do not meet unless they have crossed.
StateInv ==
  /\ \A b \in Builds : JobSound(b)
  /\ \A c \in mentions : Ents[c] \subseteq rows
  /\ \A c \in KbChunks : call[FileOf[c]] = "again" => chunk[c] = "gone"
  /\ \A c \in KbChunks : call[FileOf[c]] = "none" => chunk[c] # "gone"
  /\ "crossed" \notin harms => ~Underway \/ \A b \in Builds : ~Working(b)

LEMMA IdleSound == ASSUME NEW b, crew[b] = NoCrew PROVE JobSound(b)
BY DEF JobSound, NoCrew, Hand, EntsOf, None

LEMMA StateInit == GraphInit => StateInv
BY GraphAssumption, IdleSound DEF GraphInit, StateInv, Underway

LEMMA HarmStep == GraphTypeOK /\ [GraphNext]_graphVars => harms \subseteq harms'
<1> SUFFICES ASSUME GraphTypeOK, [GraphNext]_graphVars PROVE harms \subseteq harms'
  OBVIOUS
<1> USE DEF Harmed
<1>1. CASE Build
  BY <1>1 DEF Build
<1>2. ASSUME NEW b \in Builds, Moves(b) PROVE harms \subseteq harms'
  BY <1>2 DEF Moves, Job, Round, Upsert, UpsertFails, RoundEnds, FlushLooks, FlushInserts, FlushFails, WriteNeo, ChunkFails, Flag, Cancel, TaskDeleted
<1>3. CASE ResetBegins \/ Reset \/ GraphRestart \/ UNCHANGED graphVars
  BY <1>3 DEF ResetBegins, Reset, ResetNeo, ResetVectors, ResetRows, ResetFlags, ResetBreaks, GraphRestart, graphVars
<1>4. ASSUME NEW f \in KbFiles, DeleteBegins(f) \/ DeleteStep(f) \/ IndexedAgain(f) PROVE harms \subseteq harms'
  BY <1>4 DEF DeleteBegins, DeleteStep, DeleteReferences, DeleteVectors, DeleteNeo, DeleteBreaks, DeleteChunks, IndexedAgain
<1> QED BY <1>1, <1>2, <1>3, <1>4, NextMoves DEF Others

\* A job that stands still stays sound while no chunk goes.
LEMMA StaysSound ==
  ASSUME NEW b \in Builds, crew[b] \in Crew, JobSound(b), crew'[b] = crew[b], UNCHANGED call,
         \A c \in KbChunks : chunk'[c] = "gone" => chunk[c] = "gone"
  PROVE  JobSound(b)'
BY DEF JobSound, Hand, Crew

\* One that lets go of chunks, and neither flushes nor is over, is sound as well.
LEMMA LettingGo ==
  ASSUME NEW b \in Builds, crew[b] \in Crew, JobSound(b), UNCHANGED call, Hand(b)' \subseteq Hand(b),
         crew'[b].pc \notin {"none", "insert", "flag"},
         \A c \in KbChunks : chunk'[c] = "gone" => chunk[c] = "gone"
  PROVE  JobSound(b)'
BY DEF JobSound, Hand, Crew

LEMMA JobKeepsSound ==
  ASSUME GraphTypeOK, StateInv, NEW b \in Builds, Moves(b)
  PROVE  JobSound(b)'
<1>r. crew[b] \in Crew /\ JobSound(b)
  BY CrewType DEF StateInv
<1>t. crew[b].taken \in SUBSET KbChunks
  BY <1>r DEF Crew
<1>0. ASSUME crew'[b] = NoCrew PROVE JobSound(b)'
  BY <1>0 DEF JobSound, NoCrew, Hand, EntsOf, None
<1>o. ASSUME JobOver(b) PROVE JobSound(b)'
  BY <1>0, <1>o, OverSays
<1>1. ASSUME Round(b), ~JobOver(b) PROVE JobSound(b)'
  <2>1. PICK fresh \in SUBSET Undone(b) :
           /\ crew'[b].pc = "take" /\ crew'[b].todo = fresh
           /\ UNCHANGED <<crew[b].queue, crew[b].taken, crew[b].buffer, crew[b].flushing>>
    BY <1>1, RoundSays
  <2>2. crew'[b].pc = "take" /\ Hand(b)' \subseteq Hand(b) \cup fresh
    BY <2>1 DEF Hand
  <2>3. \A c \in fresh : c \in KbChunks /\ chunk[c] = "pending"
    BY DEF Undone, Pending
  <2>4. UNCHANGED <<chunk, call>>
    BY <1>1 DEF Round
  <2>5. \A c \in Hand(b)' : call'[FileOf[c]] = "done" => chunk'[c] # "gone"
    BY <1>r, <2>2, <2>3, <2>4 DEF JobSound
  <2> QED BY <2>2, <2>5 DEF JobSound
<1>2. ASSUME NEW c \in KbChunks, WriteNeo(b, c) PROVE JobSound(b)'
  <2>1. c \in crew[b].todo /\ UNCHANGED <<chunk, call>>
    BY <1>2 DEF WriteNeo
  <2>2. /\ crew'[b].pc = "upsert" /\ crew'[b].todo = crew[b].todo \ {c} /\ crew'[b].taken = {c}
        /\ UNCHANGED <<crew[b].queue, crew[b].buffer, crew[b].flushing>>
    BY <1>2, WriteSays
  <2>3. Hand(b)' \subseteq Hand(b)
    BY <2>1, <2>2 DEF Hand
  <2> QED BY <1>r, <2>1, <2>2, <2>3, LettingGo
<1>3. ASSUME NEW c \in KbChunks, ChunkFails(b, c) PROVE JobSound(b)'
  <2>1. /\ crew'[b].pc = NextStep(crew[b].todo \ {c}) /\ crew'[b].todo = crew[b].todo \ {c}
        /\ UNCHANGED <<crew[b].queue, crew[b].taken, crew[b].buffer, crew[b].flushing>>
    BY <1>3, ChunkFailsSays
  <2>2. crew'[b].pc \in {"take", "end"} /\ Hand(b)' \subseteq Hand(b)
    BY <2>1 DEF Hand, NextStep
  <2>3. UNCHANGED <<chunk, call>>
    BY <1>3 DEF ChunkFails
  <2> QED BY <1>r, <2>2, <2>3, LettingGo
<1>4. CASE Upsert(b)
  <2>1. PICK c \in crew[b].taken :
           /\ crew'[b].buffer = crew[b].buffer \cup {c}
           /\ \/ crew'[b].pc = "flush" /\ crew'[b].taken = crew[b].taken
              \/ crew'[b].pc = NextStep(crew[b].todo) /\ crew'[b].taken = {}
           /\ UNCHANGED <<crew[b].todo, crew[b].queue, crew[b].flushing>>
    BY <1>4, UpsertSays
  <2>2. crew'[b].pc \in {"flush", "take", "end"}
    BY <2>1 DEF NextStep
  <2>3. Hand(b)' \subseteq Hand(b)
    BY <2>1 DEF Hand
  <2>4. UNCHANGED <<chunk, call>>
    BY <1>4 DEF Upsert
  <2> QED BY <1>r, <2>2, <2>3, <2>4, LettingGo
<1>5. ASSUME NEW cs, crew'[b] = Left(b, cs), UNCHANGED call,
             \A c \in KbChunks : chunk'[c] = "gone" => chunk[c] = "gone"
      PROVE  JobSound(b)'
  <2>1. /\ crew'[b].pc = NextStep(crew[b].todo) /\ crew'[b].taken = {} /\ crew'[b].flushing = {}
        /\ UNCHANGED <<crew[b].todo, crew[b].queue, crew[b].buffer>>
    BY <1>5, LeftSays
  <2>2. crew'[b].pc \in {"take", "end"} /\ Hand(b)' \subseteq Hand(b)
    BY <2>1 DEF Hand, NextStep
  <2> QED BY <1>5, <1>r, <2>2, LettingGo
<1>6. CASE UpsertFails(b)
  <2>1. UNCHANGED <<chunk, call>>
    BY <1>6 DEF UpsertFails
  <2> QED BY <2>1, <1>5, <1>6, UpsertFailsSays
<1>7. ASSUME RoundEnds(b), ~JobOver(b) PROVE JobSound(b)'
  <2>1. crew[b].task # "cancelled" /\ UNCHANGED <<chunk, call>>
    BY <1>7 DEF RoundEnds
  <2>2. /\ crew'[b].pc \in {"round", "flush"}
        /\ UNCHANGED <<crew[b].todo, crew[b].queue, crew[b].taken, crew[b].buffer, crew[b].flushing>>
    BY <1>7, <2>1, EndSays
  <2>3. Hand(b)' \subseteq Hand(b)
    BY <2>2 DEF Hand
  <2> QED BY <1>r, <2>1, <2>2, <2>3, LettingGo
<1>8. CASE FlushLooks(b)
  <2>1. /\ crew'[b].pc = "insert" /\ crew'[b].flushing = crew[b].buffer /\ crew'[b].buffer = {}
        /\ crew'[b].missing \subseteq EntsOf(crew[b].buffer)
        /\ UNCHANGED <<crew[b].todo, crew[b].queue, crew[b].taken>>
    BY <1>8, LooksSays
  <2>2. UNCHANGED <<chunk, call>>
    BY <1>8 DEF FlushLooks
  <2>3. Hand(b)' \subseteq Hand(b)
    BY <2>1 DEF Hand
  <2>4. \A c \in Hand(b)' : call'[FileOf[c]] = "done" => chunk'[c] # "gone"
    BY <1>r, <2>2, <2>3 DEF JobSound
  <2> QED BY <2>1, <2>4 DEF JobSound, EntsOf
<1>9. CASE FlushInserts(b)
  <2>1. /\ crew'[b].pc = "flag" /\ crew'[b].known = crew[b].known \cup EntsOf(crew[b].flushing)
        /\ UNCHANGED <<crew[b].todo, crew[b].queue, crew[b].taken, crew[b].buffer, crew[b].flushing>>
    BY <1>9, InsertsSays
  <2>2. UNCHANGED <<chunk, call>>
    BY <1>9 DEF FlushInserts
  <2>3. Hand(b)' = Hand(b)
    BY <2>1 DEF Hand
  <2>4. \A c \in Hand(b)' : call'[FileOf[c]] = "done" => chunk'[c] # "gone"
    BY <1>r, <2>2, <2>3 DEF JobSound
  <2> QED BY <2>1, <2>4 DEF JobSound, EntsOf
<1>10. CASE FlushFails(b)
  <2>1. Fails(b) /\ UNCHANGED <<chunk, call>>
    BY <1>10 DEF FlushFails
  <2> QED BY <2>1, <1>0, <1>5, FailsSays
<1>11. ASSUME NEW c \in KbChunks, Flag(b, c) PROVE JobSound(b)'
  <2>1. UNCHANGED call /\ \A d \in KbChunks : chunk'[d] = "gone" => chunk[d] = "gone"
    BY <1>11 DEF Flag, GraphTypeOK
  <2>2. CASE /\ crew'[b].flushing = crew[b].flushing \ {c}
             /\ UNCHANGED <<crew[b].pc, crew[b].todo, crew[b].queue, crew[b].taken, crew[b].known,
                           crew[b].buffer, crew[b].missing>>
    <3>1. crew'[b].pc = "flag"
      BY <1>11, <2>2 DEF Flag
    <3>2. EntsOf(crew'[b].flushing) \subseteq EntsOf(crew[b].flushing)
      BY <2>2 DEF EntsOf
    <3>3. Hand(b)' \subseteq Hand(b)
      BY <2>2 DEF Hand
    <3>4. \A d \in Hand(b) : d \in KbChunks
      BY <1>r DEF Hand, Crew
    <3>5. \A d \in Hand(b)' : call'[FileOf[d]] = "done" => chunk'[d] # "gone"
      BY <1>r, <2>1, <3>3, <3>4 DEF JobSound
    <3>6. EntsOf(crew[b].flushing) \subseteq crew[b].known
      BY <1>r, <2>2, <3>1 DEF JobSound
    <3>7. (EntsOf(crew[b].flushing) \subseteq crew[b].known)'
      BY <2>2, <3>2, <3>6 DEF EntsOf
    <3> QED BY <3>1, <3>5, <3>7 DEF JobSound
  <2>3. CASE /\ crew'[b].pc = "round" /\ crew'[b].flushing = {}
             /\ UNCHANGED <<crew[b].todo, crew[b].queue, crew[b].taken, crew[b].buffer>>
    <3>1. Hand(b)' \subseteq Hand(b)
      BY <2>3 DEF Hand
    <3> QED BY <1>r, <2>1, <2>3, <3>1, LettingGo
  <2> QED BY <1>0, <1>5, <1>11, <2>1, <2>2, <2>3, FlagSays
<1>12. ASSUME Cancel(b), ~JobOver(b) PROVE JobSound(b)'
  <2>1. PICK held \in SUBSET crew[b].todo :
           /\ crew'[b].todo = held /\ crew'[b].queue = crew[b].todo \ held
           /\ UNCHANGED <<crew[b].pc, crew[b].taken, crew[b].known, crew[b].buffer,
                         crew[b].flushing, crew[b].missing>>
    BY <1>12, CancelSays
  <2>2. Hand(b)' \subseteq Hand(b)
    BY <2>1 DEF Hand
  <2>3. crew[b].pc # "none" /\ UNCHANGED <<chunk, call>>
    BY <1>12, <1>r DEF Cancel, JobSound, NoCrew
  <2>4. \A d \in Hand(b)' : call'[FileOf[d]] = "done" => chunk'[d] # "gone"
    BY <1>r, <2>2, <2>3 DEF JobSound
  <2> QED BY <1>r, <2>1, <2>3, <2>4 DEF JobSound, EntsOf
<1>13. CASE TaskDeleted(b)
  <2>1. /\ crew'[b].todo = crew[b].todo \cup crew[b].queue /\ crew'[b].queue = {}
        /\ UNCHANGED <<crew[b].pc, crew[b].taken, crew[b].known, crew[b].buffer, crew[b].flushing,
                      crew[b].missing>>
    BY <1>13, DeletedSays
  <2>2. Hand(b)' \subseteq Hand(b)
    BY <2>1 DEF Hand
  <2>3. crew[b].pc # "none" /\ UNCHANGED <<chunk, call>>
    BY <1>13 DEF TaskDeleted, Working
  <2>4. \A d \in Hand(b)' : call'[FileOf[d]] = "done" => chunk'[d] # "gone"
    BY <1>r, <2>2, <2>3 DEF JobSound
  <2> QED BY <1>r, <2>1, <2>3, <2>4 DEF JobSound, EntsOf
<1> QED BY <1>o, <1>1, <1>2, <1>3, <1>4, <1>6, <1>7, <1>8, <1>9, <1>10, <1>11, <1>12, <1>13 DEF Moves, Job

LEMMA JobKeepsState ==
  ASSUME GraphTypeOK, StateInv, Build \/ \E b \in Builds : Moves(b)
  PROVE  StateInv'
<1>1. CASE Build
  <2>1. \A c \in KbChunks : chunk'[c] = chunk[c]
    BY <1>1 DEF Build
  <2>2. PICK n \in Builds : /\ crew'[n] = [NoCrew EXCEPT !.pc = "round", !.task = "active"]
                             /\ \A b \in Builds \ {n} : crew'[b] = crew[b]
    BY <1>1, BuildBecomes DEF Becomes
  <2>3. UNCHANGED <<chunk, call, mentions, rows, resetting>> /\ Harmed(IF Underway THEN {"crossed"} ELSE {})
    BY <1>1 DEF Build, stores
  <2>4. ASSUME NEW b \in Builds, b # n PROVE JobSound(b)'
    <3>1. crew[b] \in Crew /\ JobSound(b) /\ crew'[b] = crew[b] /\ UNCHANGED call
      BY <2>2, <2>3, <2>4, CrewType DEF StateInv
    <3> QED BY <2>1, <3>1, StaysSound
  <2>5. crew'[n].pc = "round" /\ Hand(n)' = {}
    <3>1. /\ crew'[n].pc = "round" /\ crew'[n].todo = {} /\ crew'[n].queue = {} /\ crew'[n].taken = {}
          /\ crew'[n].buffer = {} /\ crew'[n].flushing = {}
      BY <2>2 DEF NoCrew, None
    <3> QED BY <3>1 DEF Hand
  <2>6. JobSound(n)'
    BY <2>5 DEF JobSound
  <2>7. \A b \in Builds : JobSound(b)'
    BY <2>4, <2>6
  <2>8. "crossed" \notin harms' => ~Underway'
    BY <2>3 DEF Harmed, Underway
  <2>9. /\ \A c \in mentions' : Ents[c] \subseteq rows'
        /\ \A c \in KbChunks : call'[FileOf[c]] = "again" => chunk'[c] = "gone"
        /\ \A c \in KbChunks : call'[FileOf[c]] = "none" => chunk'[c] # "gone"
    BY <2>3 DEF StateInv
  <2> QED BY <2>7, <2>8, <2>9 DEF StateInv
<1>2. ASSUME NEW b \in Builds, Moves(b) PROVE StateInv'
  <2>1. Only(b) /\ JobSound(b)'
    BY <1>2, MovesOnly, JobKeepsSound
  <2>2. UNCHANGED <<call, resetting>> /\ harms \subseteq harms'
    BY <1>2 DEF Moves, Job, Round, Upsert, UpsertFails, RoundEnds, FlushLooks, FlushInserts, FlushFails, WriteNeo, ChunkFails, Flag, Cancel, TaskDeleted, Harmed
  <2>3. \A c \in KbChunks : chunk'[c] = "gone" <=> chunk[c] = "gone"
    BY <1>2 DEF GraphTypeOK, Moves, Job, Round, Upsert, UpsertFails, RoundEnds, FlushLooks, FlushInserts, FlushFails, WriteNeo, ChunkFails, Flag, Cancel, TaskDeleted
  <2>4. \A d \in Builds : JobSound(d)'
    BY <2>1, <2>2, <2>3, StaysSound, CrewType DEF StateInv, Only
  <2>5. \A c \in mentions' : Ents[c] \subseteq rows'
    BY <1>2 DEF StateInv, stores, Moves, Job, Round, Upsert, UpsertFails, RoundEnds, FlushLooks, FlushInserts, FlushFails, WriteNeo, ChunkFails, Flag, Cancel, TaskDeleted
  <2>6. \A c \in KbChunks : call'[FileOf[c]] = "again" => chunk'[c] = "gone"
    BY <2>2, <2>3 DEF StateInv
  <2>r. crew[b].pc = "none" => crew[b] = NoCrew
    BY DEF StateInv, JobSound
  <2>7. Working(b)
    <3>1. CASE Cancel(b)
      BY <2>r, <3>1 DEF Cancel, NoCrew, Working
    <3>2. CASE Upsert(b) \/ UpsertFails(b) \/ TaskDeleted(b)
      BY <3>2 DEF Upsert, UpsertFails, TaskDeleted, Working
    <3>3. CASE Round(b) \/ RoundEnds(b) \/ FlushLooks(b) \/ FlushInserts(b) \/ FlushFails(b)
      BY <3>3 DEF Round, RoundEnds, FlushLooks, FlushInserts, FlushFails, Working
    <3>4. CASE \E c \in KbChunks : WriteNeo(b, c) \/ ChunkFails(b, c) \/ Flag(b, c)
      BY <3>4 DEF WriteNeo, ChunkFails, Flag, Working
    <3> QED BY <1>2, <3>1, <3>2, <3>3, <3>4 DEF Moves, Job
  <2>8. "crossed" \notin harms' => ~Underway' \/ \A d \in Builds : ~Working(d)'
    BY <2>2, <2>7 DEF StateInv, Underway
  <2>9. \A c \in KbChunks : call'[FileOf[c]] = "none" => chunk'[c] # "gone"
    BY <2>2, <2>3 DEF StateInv
  <2> QED BY <2>4, <2>5, <2>6, <2>8, <2>9 DEF StateInv
<1> QED BY <1>1, <1>2

\* Chunks that come back.
LEMMA RefilledStays ==
  ASSUME GraphTypeOK, Refilled, NEW b \in Builds
  PROVE  /\ UNCHANGED <<crew[b].pc, crew[b].task, crew[b].page, crew[b].todo, crew[b].queue,
                       crew[b].taken, crew[b].failed, crew[b].known, crew[b].buffer,
                       crew[b].flushing, crew[b].missing, crew[b].outset, Hand(b)>>
         /\ crew'[b] = crew[b] \/ Working(b)
<1>1. crew'[b] = crew[b] \/ crew'[b] = [crew[b] EXCEPT !.refilled = TRUE]
  BY RefilledSays
<1>2. UNCHANGED <<crew[b].pc, crew[b].task, crew[b].page, crew[b].todo, crew[b].queue,
                  crew[b].taken, crew[b].failed, crew[b].known, crew[b].buffer,
                  crew[b].flushing, crew[b].missing, crew[b].outset>>
  BY <1>1, CrewType DEF Crew
<1>3. crew'[b] = crew[b] \/ Working(b)
  BY DEF Refilled
<1> QED BY <1>2, <1>3 DEF Hand

LEMMA RefilledSound ==
  ASSUME GraphTypeOK, StateInv, Refilled, NEW b \in Builds,
         \A c \in Hand(b) : call'[FileOf[c]] = "done" => chunk'[c] # "gone"
  PROVE  JobSound(b)'
BY RefilledStays DEF StateInv, JobSound, Working, EntsOf

\* The jobs and the reset keep apart.
LEMMA StayApart ==
  ASSUME StateInv, UNCHANGED resetting, harms \subseteq harms',
         \A b \in Builds : crew'[b].pc = crew[b].pc
  PROVE  "crossed" \notin harms' => ~Underway' \/ \A d \in Builds : ~Working(d)'
BY DEF StateInv, Underway, Working

LEMMA OthersKeepState ==
  ASSUME GraphTypeOK, StateInv, Others
  PROVE  StateInv'
<1>h. \A b \in Builds : \A c \in Hand(b) : c \in KbChunks
  BY CrewType DEF Hand, Crew
<1> USE FileTypes DEF StateInv, Underway, Working, EntsOf, stores, GraphTypeOK, At, ChunksOf, Harmed
<1>1. CASE ResetBegins
  BY <1>1, StaysSound, CrewType DEF ResetBegins
<1>2. CASE ResetNeo \/ ResetVectors \/ ResetRows \/ ResetBreaks
  <2>1. \A b \in Builds : JobSound(b)'
    BY <1>2, StaysSound, CrewType DEF ResetNeo, ResetVectors, ResetRows, ResetBreaks
  <2> QED BY <1>2, <2>1 DEF ResetNeo, ResetVectors, ResetRows, ResetBreaks
<1>3. CASE ResetFlags
  <2>1. \A c \in KbChunks : chunk'[c] = "gone" <=> chunk[c] = "gone"
    BY <1>3 DEF ResetFlags
  <2>2. Refilled /\ UNCHANGED call
    BY <1>3 DEF ResetFlags
  <2>3. \A b \in Builds : \A c \in Hand(b) : call'[FileOf[c]] = "done" => chunk'[c] # "gone"
    BY <1>h, <2>1, <2>2 DEF JobSound
  <2>4. \A b \in Builds : JobSound(b)'
    BY <2>2, <2>3, RefilledSound
  <2> QED BY <1>3, <2>1, <2>4 DEF ResetFlags
<1>4. CASE GraphRestart
  <2>1. \A b \in Builds : JobSound(b)'
    BY <1>4, RestartSays DEF JobSound, NoCrew, Hand, None
  <2> QED BY <1>4, <2>1 DEF GraphRestart
<1>5. ASSUME NEW f \in KbFiles, DeleteBegins(f) \/ DeleteReferences(f) \/ DeleteVectors(f) \/ DeleteNeo(f) \/ DeleteBreaks(f) \/ DeleteChunks(f)
      PROVE  /\ crew' = crew
             /\ \A g \in KbFiles : call'[g] = "done" => call[g] = "done" /\ g # f
             /\ \A b \in Builds : JobSound(b)'
  <2>1. crew' = crew /\ call[f] # "done" /\ call'[f] # "done" /\ \A g \in KbFiles \ {f} : call'[g] = call[g]
    BY <1>5 DEF DeleteBegins, DeleteReferences, DeleteVectors, DeleteNeo, DeleteBreaks, DeleteChunks
  <2>2. \A c \in KbChunks : FileOf[c] # f => chunk'[c] = chunk[c]
    BY <1>5 DEF DeleteBegins, DeleteReferences, DeleteVectors, DeleteNeo, DeleteBreaks, DeleteChunks
  <2>3. ASSUME NEW b \in Builds PROVE JobSound(b)'
    <3>1. JobSound(b) /\ UNCHANGED <<crew[b], Hand(b)>>
      BY <2>1 DEF Hand
    <3>2. \A c \in Hand(b) : call'[FileOf[c]] = "done" => chunk'[c] # "gone"
      BY <1>h, <2>1, <2>2, <3>1 DEF JobSound
    <3> QED BY <3>1, <3>2 DEF JobSound
  <2> QED BY <2>1, <2>3
<1>6. ASSUME NEW f \in KbFiles, DeleteBegins(f) PROVE StateInv'
  <2>1. /\ UNCHANGED <<chunk, mentions, rows, crew, resetting>> /\ harms \subseteq harms'
        /\ call[f] = "none" /\ call'[f] \in {"references", "chunks"}
        /\ \A g \in KbFiles \ {f} : call'[g] = call[g]
    BY <1>6 DEF DeleteBegins
  <2>2. \A c \in KbChunks : call'[FileOf[c]] = "again" \/ call'[FileOf[c]] = "none" => call'[FileOf[c]] = call[FileOf[c]]
    BY <2>1
  <2>3. "crossed" \notin harms' => ~Underway' \/ \A d \in Builds : ~Working(d)'
    BY <2>1
  <2>4. \A b \in Builds : JobSound(b)'
    BY <1>5, <1>6
  <2> QED BY <2>1, <2>2, <2>3, <2>4
<1>7. ASSUME NEW f \in KbFiles, IndexedAgain(f) PROVE StateInv'
  <2>1. \A c \in KbChunks : call'[FileOf[c]] = "done" => chunk'[c] # "gone" \/ (call[FileOf[c]] = "done" /\ chunk'[c] = chunk[c])
    BY <1>7 DEF IndexedAgain
  <2>2. Refilled
    BY <1>7 DEF IndexedAgain
  <2>4. \A b \in Builds : \A c \in Hand(b) : call'[FileOf[c]] = "done" => chunk'[c] # "gone"
    BY <1>h, <2>1 DEF JobSound
  <2>5. \A b \in Builds : JobSound(b)'
    BY <2>2, <2>4, RefilledSound
  <2>3. \A b \in Builds : crew'[b].pc = crew[b].pc
    BY <2>2, RefilledStays
  <2>6. UNCHANGED <<mentions, rows, resetting>> /\ harms \subseteq harms'
    BY <1>7 DEF IndexedAgain
  <2>7. /\ \A c \in KbChunks : call'[FileOf[c]] = "again" => chunk'[c] = "gone"
        /\ \A c \in KbChunks : call'[FileOf[c]] = "none" => chunk'[c] # "gone"
    BY <1>7 DEF IndexedAgain
  <2>8. "crossed" \notin harms' => ~Underway' \/ \A d \in Builds : ~Working(d)'
    BY <2>3, <2>6, StayApart
  <2>9. \A c \in mentions' : Ents[c] \subseteq rows'
    BY <2>6
  <2> QED BY ONLY <2>5, <2>7, <2>8, <2>9 DEF StateInv
<1>8. ASSUME NEW f \in KbFiles, DeleteReferences(f) PROVE StateInv'
  <2>1. \A c \in mentions' : Ents[c] \subseteq rows'
    <3> SUFFICES ASSUME NEW c \in mentions' PROVE Ents[c] \subseteq rows'
      OBVIOUS
    <3>1. c \in mentions /\ Ents[c] \subseteq rows
      BY <1>8 DEF DeleteReferences
    <3>2. Ents[c] \subseteq EntsOf(mentions')
      OBVIOUS
    <3>3. rows' = rows \ (EntsOf(mentions \cap ChunksOf(f)) \ EntsOf(mentions'))
      BY <1>8 DEF DeleteReferences
    <3> QED BY <3>1, <3>2, <3>3
  <2> QED BY <1>5, <1>8, <2>1 DEF DeleteReferences
<1>9. ASSUME NEW f \in KbFiles, DeleteVectors(f) \/ DeleteNeo(f) \/ DeleteBreaks(f) PROVE StateInv'
  BY <1>5, <1>9 DEF DeleteVectors, DeleteNeo, DeleteBreaks
<1>10. ASSUME NEW f \in KbFiles, DeleteChunks(f) PROVE StateInv'
  BY <1>5, <1>10 DEF DeleteChunks
<1> QED BY <1>1, <1>2, <1>3, <1>4, <1>6, <1>7, <1>8, <1>9, <1>10 DEF Others, Reset, DeleteStep

LEMMA StateStep == GraphTypeOK /\ StateInv /\ [GraphNext]_graphVars => StateInv'
<1> SUFFICES ASSUME GraphTypeOK, StateInv, [GraphNext]_graphVars PROVE StateInv'
  OBVIOUS
<1>1. CASE UNCHANGED graphVars
  <2>1. \A b \in Builds : JobSound(b)'
    BY <1>1, StaysSound, CrewType DEF graphVars, StateInv
  <2> QED BY <1>1, <2>1 DEF graphVars, stores, StateInv, Working, Underway
<1> QED BY <1>1, NextMoves, JobKeepsState, OthersKeepState

-----------------------------------------------------------------------------
(* A job does not go round in circles *)

\* Where a job keeps the chunks of its round.
HandInv(b) ==
  /\ crew[b].pc \in {"none", "round"} => Hand(b) = {}
  /\ crew[b].pc = "none" => crew[b].refilled
  /\ crew[b].pc \in {"take", "end"} => crew[b].taken = {} /\ crew[b].flushing = {}
  /\ crew[b].pc \in {"upsert", "flush"} => crew[b].flushing = {}
  /\ crew[b].pc = "upsert" => crew[b].taken # {}
  /\ crew[b].pc = "end" => crew[b].todo = {}
  /\ crew[b].pc \in {"flush", "insert", "flag"} /\ crew[b].taken = {} =>
       crew[b].todo = {} /\ crew[b].queue = {} /\ crew[b].page = {}
  /\ crew[b].pc \in {"insert", "flag"} => crew[b].buffer = {}
  /\ crew[b].task # "cancelled" => crew[b].queue = {}

\* Until a chunk comes back, what is undone and what is in hand were undone when the round
\* began; and as long as all of it still is, the job has some in hand: it cannot let go
\* of the last one without having failed or flagged one, or found one gone.
ShrinkInv(b) ==
  ~crew[b].refilled => /\ Undone(b) \cup Hand(b) \subseteq crew[b].outset
                       /\ Undone(b) = crew[b].outset => Hand(b) # {}

RoundInv == \A b \in Builds : HandInv(b) /\ ShrinkInv(b)

LEMMA IdleShrinks == ASSUME NEW b, crew[b] = NoCrew PROVE HandInv(b) /\ ShrinkInv(b)
BY DEF HandInv, ShrinkInv, Hand, NoCrew, None

LEMMA RoundInit == GraphInit => RoundInv
BY IdleShrinks DEF GraphInit, RoundInv

\* A step of the job that lets go of a chunk of the round has done with one.
LEMMA DoneWithOne ==
  ASSUME NEW b, ShrinkInv(b), NEW c \in Hand(b), c \notin Undone(b)', Undone(b)' \subseteq Undone(b),
         Hand(b)' \subseteq Hand(b), UNCHANGED <<crew[b].outset, crew[b].refilled>>
  PROVE  ShrinkInv(b)'
BY DEF ShrinkInv

\* One that keeps some of them needs not have.
LEMMA KeepsSome ==
  ASSUME NEW b, ShrinkInv(b), Undone(b)' \subseteq Undone(b), Hand(b)' \subseteq Hand(b),
         Hand(b) # {} => Hand(b)' # {}, UNCHANGED <<crew[b].outset, crew[b].refilled>>
  PROVE  ShrinkInv(b)'
BY DEF ShrinkInv

\* Nor has one that stands still while no chunk becomes pending.
LEMMA StaysShrinking ==
  ASSUME NEW b, HandInv(b), ShrinkInv(b), crew'[b] = crew[b], Pending' \subseteq Pending
  PROVE  HandInv(b)' /\ ShrinkInv(b)'
<1>1. HandInv(b)' /\ Hand(b)' = Hand(b)
  BY DEF HandInv, Hand
<1>2. Undone(b)' \subseteq Undone(b)
  BY DEF Undone
<1> QED BY <1>1, <1>2, KeepsSome

LEMMA LeftShrinks ==
  ASSUME GraphTypeOK, NEW b \in Builds, HandInv(b), ShrinkInv(b), NEW cs, crew'[b] = Left(b, cs),
         Pending' \subseteq Pending, \E c \in Hand(b) : c \in cs \/ c \notin Pending'
  PROVE  HandInv(b)' /\ ShrinkInv(b)'
<1>1. /\ crew'[b].pc = NextStep(crew[b].todo) /\ crew'[b].taken = {}
      /\ crew'[b].failed = crew[b].failed \cup cs /\ crew'[b].flushing = {} /\ crew'[b].missing = {}
      /\ UNCHANGED <<crew[b].task, crew[b].page, crew[b].todo, crew[b].queue, crew[b].known,
                    crew[b].buffer, crew[b].outset, crew[b].refilled>>
  BY LeftSays
<1>2. HandInv(b)' /\ Hand(b)' \subseteq Hand(b)
  BY <1>1 DEF HandInv, Hand, NextStep
<1>3. PICK c \in Hand(b) : c \in cs \/ c \notin Pending'
  OBVIOUS
<1>4. c \notin Undone(b)' /\ Undone(b)' \subseteq Undone(b)
  BY <1>1, <1>3 DEF Undone
<1> QED BY <1>1, <1>2, <1>4, DoneWithOne

LEMMA JobShrinks ==
  ASSUME GraphTypeOK, NEW b \in Builds, HandInv(b), ShrinkInv(b), Moves(b)
  PROVE  HandInv(b)' /\ ShrinkInv(b)'
<1>0. ASSUME crew'[b] = NoCrew PROVE HandInv(b)' /\ ShrinkInv(b)'
  BY <1>0 DEF HandInv, ShrinkInv, Hand, NoCrew, None
<1>o. ASSUME JobOver(b) PROVE HandInv(b)' /\ ShrinkInv(b)'
  BY <1>0, <1>o, OverSays
<1>1. ASSUME Round(b), ~JobOver(b) PROVE HandInv(b)' /\ ShrinkInv(b)'
  <2>1. PICK fresh \in SUBSET Undone(b) :
           /\ fresh # {}
           /\ crew'[b].pc = "take" /\ crew'[b].todo = fresh
           /\ crew'[b].outset = Undone(b) /\ crew'[b].refilled = FALSE
           /\ UNCHANGED <<crew[b].task, crew[b].queue, crew[b].taken, crew[b].failed,
                         crew[b].buffer, crew[b].flushing>>
    BY <1>1, RoundSays
  <2>2. Hand(b) = {} /\ UNCHANGED chunk
    BY <1>1 DEF Round, HandInv
  <2>3. Undone(b)' = Undone(b)
    BY <2>1, <2>2 DEF Undone, Pending
  <2>4. Hand(b)' = fresh
    BY <2>1, <2>2 DEF Hand
  <2>5. HandInv(b)'
    BY <2>1, <2>2 DEF HandInv, Hand
  <2> QED BY <2>1, <2>3, <2>4, <2>5 DEF ShrinkInv
<1>2. ASSUME NEW c \in KbChunks, WriteNeo(b, c) PROVE HandInv(b)' /\ ShrinkInv(b)'
  <2>1. crew[b].pc = "take" /\ c \in crew[b].todo /\ UNCHANGED chunk
    BY <1>2 DEF WriteNeo
  <2>2. /\ crew'[b].pc = "upsert" /\ crew'[b].todo = crew[b].todo \ {c} /\ crew'[b].taken = {c}
        /\ UNCHANGED <<crew[b].task, crew[b].queue, crew[b].failed, crew[b].buffer,
                      crew[b].flushing, crew[b].outset, crew[b].refilled>>
    BY <1>2, WriteSays
  <2>3. HandInv(b)'
    BY <2>1, <2>2 DEF HandInv
  <2>4. Hand(b)' = Hand(b)
    BY <2>1, <2>2 DEF Hand, HandInv
  <2>5. Undone(b)' = Undone(b)
    BY <2>1, <2>2 DEF Undone, Pending
  <2> QED BY <2>2, <2>3, <2>4, <2>5, KeepsSome
<1>3. ASSUME NEW c \in KbChunks, ChunkFails(b, c) PROVE HandInv(b)' /\ ShrinkInv(b)'
  <2>1. crew[b].pc = "take" /\ c \in crew[b].todo /\ UNCHANGED chunk
    BY <1>3 DEF ChunkFails
  <2>2. /\ crew'[b].pc = NextStep(crew[b].todo \ {c}) /\ crew'[b].todo = crew[b].todo \ {c}
        /\ crew'[b].failed = crew[b].failed \cup {c}
        /\ UNCHANGED <<crew[b].task, crew[b].queue, crew[b].taken, crew[b].buffer,
                      crew[b].flushing, crew[b].outset, crew[b].refilled>>
    BY <1>3, ChunkFailsSays
  <2>3. HandInv(b)'
    BY <2>1, <2>2 DEF HandInv, NextStep
  <2>4. c \in Hand(b) /\ Hand(b)' \subseteq Hand(b)
    BY <2>1, <2>2 DEF Hand
  <2>5. Undone(b)' = Undone(b) \ {c}
    BY <2>1, <2>2 DEF Undone, Pending
  <2> QED BY <2>2, <2>3, <2>4, <2>5, DoneWithOne
<1>4. CASE Upsert(b)
  <2>1. PICK c \in crew[b].taken :
           /\ crew'[b].buffer = crew[b].buffer \cup {c}
           /\ \/ crew'[b].pc = "flush" /\ crew'[b].taken = crew[b].taken
              \/ crew'[b].pc = NextStep(crew[b].todo) /\ crew'[b].taken = {}
           /\ UNCHANGED <<crew[b].task, crew[b].todo, crew[b].queue, crew[b].failed,
                         crew[b].flushing, crew[b].outset, crew[b].refilled>>
    BY <1>4, UpsertSays
  <2>2. crew[b].pc = "upsert" /\ UNCHANGED chunk
    BY <1>4 DEF Upsert
  <2>3. HandInv(b)'
    BY <2>1, <2>2 DEF HandInv, NextStep
  <2>4. Hand(b)' \subseteq Hand(b) /\ c \in Hand(b)'
    BY <2>1 DEF Hand
  <2>5. Undone(b)' = Undone(b)
    BY <2>1, <2>2 DEF Undone, Pending
  <2> QED BY <2>1, <2>3, <2>4, <2>5, KeepsSome
<1>5. CASE UpsertFails(b)
  <2>1. UNCHANGED chunk /\ crew[b].pc = "upsert"
    BY <1>5 DEF UpsertFails
  <2>2. PICK c \in crew[b].taken : TRUE
    BY <2>1 DEF HandInv
  <2>3. c \in Hand(b) /\ Pending' \subseteq Pending
    BY <2>1, <2>2 DEF Hand, Pending
  <2> QED BY <1>5, <2>2, <2>3, UpsertFailsSays, LeftShrinks
<1>6. ASSUME RoundEnds(b), ~JobOver(b) PROVE HandInv(b)' /\ ShrinkInv(b)'
  <2>1. crew[b].pc = "end" /\ crew[b].task # "cancelled" /\ UNCHANGED chunk
    BY <1>6 DEF RoundEnds
  <2>2. /\ crew'[b].pc = IF crew[b].buffer = {} THEN "round" ELSE "flush"
        /\ crew'[b].page = {}
        /\ UNCHANGED <<crew[b].task, crew[b].todo, crew[b].queue, crew[b].taken, crew[b].failed,
                      crew[b].buffer, crew[b].flushing, crew[b].outset, crew[b].refilled>>
    BY <1>6, <2>1, EndSays
  <2>3. Hand(b)' = Hand(b)
    BY <2>2 DEF Hand
  <2>4. HandInv(b)'
    BY <2>1, <2>2 DEF HandInv, Hand
  <2>5. Undone(b)' = Undone(b)
    BY <2>1, <2>2 DEF Undone, Pending
  <2> QED BY <2>2, <2>3, <2>4, <2>5, KeepsSome
<1>7. CASE FlushLooks(b)
  <2>1. crew[b].pc = "flush" /\ UNCHANGED chunk
    BY <1>7 DEF FlushLooks
  <2>2. /\ crew'[b].pc = "insert" /\ crew'[b].flushing = crew[b].buffer /\ crew'[b].buffer = {}
        /\ UNCHANGED <<crew[b].task, crew[b].page, crew[b].todo, crew[b].queue, crew[b].taken,
                      crew[b].failed, crew[b].outset, crew[b].refilled>>
    BY <1>7, LooksSays
  <2>3. HandInv(b)'
    BY <2>1, <2>2 DEF HandInv
  <2>4. Hand(b)' = Hand(b)
    BY <2>1, <2>2 DEF Hand, HandInv
  <2>5. Undone(b)' = Undone(b)
    BY <2>1, <2>2 DEF Undone, Pending
  <2> QED BY <2>2, <2>3, <2>4, <2>5, KeepsSome
<1>8. CASE FlushInserts(b)
  <2>1. crew[b].pc = "insert" /\ UNCHANGED chunk
    BY <1>8 DEF FlushInserts
  <2>2. /\ crew'[b].pc = "flag"
        /\ UNCHANGED <<crew[b].task, crew[b].page, crew[b].todo, crew[b].queue, crew[b].taken,
                      crew[b].failed, crew[b].buffer, crew[b].flushing, crew[b].outset,
                      crew[b].refilled>>
    BY <1>8, InsertsSays
  <2>3. HandInv(b)' /\ Hand(b)' = Hand(b)
    BY <2>1, <2>2 DEF HandInv, Hand
  <2>4. Undone(b)' = Undone(b)
    BY <2>1, <2>2 DEF Undone, Pending
  <2> QED BY <2>2, <2>3, <2>4, KeepsSome
<1>9. CASE FlushFails(b)
  <2>1. Fails(b) /\ Pending' \subseteq Pending
    BY <1>9 DEF FlushFails, Pending
  <2>2. CASE crew[b].taken # {} /\ crew'[b] = Left(b, crew[b].taken)
    <3>1. PICK c \in crew[b].taken : TRUE
      BY <2>2
    <3>2. c \in Hand(b)
      BY DEF Hand
    <3> QED BY <2>1, <2>2, <3>1, <3>2, LeftShrinks
  <2> QED BY <1>0, <2>1, <2>2, FailsSays
<1>10. ASSUME NEW c \in KbChunks, Flag(b, c) PROVE HandInv(b)' /\ ShrinkInv(b)'
  <2>1. crew[b].pc = "flag" /\ c \in crew[b].flushing
    BY <1>10 DEF Flag
  <2>2. c \in Hand(b) /\ c \notin Pending' /\ Pending' \subseteq Pending
    BY <1>10, <2>1 DEF Hand, Flag, Pending, GraphTypeOK
  <2>3. CASE /\ crew'[b].flushing = crew[b].flushing \ {c} /\ crew[b].flushing \ {c} # {}
             /\ UNCHANGED <<crew[b].pc, crew[b].task, crew[b].page, crew[b].todo, crew[b].queue,
                           crew[b].taken, crew[b].failed, crew[b].buffer, crew[b].outset,
                           crew[b].refilled>>
    <3>1. HandInv(b)'
      BY <2>1, <2>3 DEF HandInv
    <3>2. Hand(b)' \subseteq Hand(b)
      BY <2>3 DEF Hand
    <3>3. c \notin Undone(b)' /\ Undone(b)' \subseteq Undone(b)
      BY <2>2, <2>3 DEF Undone
    <3> QED BY <2>2, <2>3, <3>1, <3>2, <3>3, DoneWithOne
  <2>4. CASE /\ crew'[b].pc = "round" /\ crew'[b].flushing = {} /\ crew[b].taken = {}
             /\ UNCHANGED <<crew[b].task, crew[b].page, crew[b].todo, crew[b].queue,
                           crew[b].taken, crew[b].failed, crew[b].buffer, crew[b].outset,
                           crew[b].refilled>>
    <3>1. Hand(b)' = {}
      BY <2>1, <2>4 DEF Hand, HandInv
    <3>2. HandInv(b)'
      BY <2>1, <2>4, <3>1 DEF HandInv
    <3>3. c \notin Undone(b)' /\ Undone(b)' \subseteq Undone(b)
      BY <2>2, <2>4 DEF Undone
    <3> QED BY <2>2, <2>4, <3>1, <3>2, <3>3, DoneWithOne
  <2>5. ASSUME NEW cs \in SUBSET crew[b].taken, crew'[b] = Left(b, cs) PROVE HandInv(b)' /\ ShrinkInv(b)'
    BY <2>2, <2>5, LeftShrinks
  <2> QED BY <1>0, <1>10, <2>3, <2>4, <2>5, FlagSays
<1>11. ASSUME Cancel(b), ~JobOver(b) PROVE HandInv(b)' /\ ShrinkInv(b)'
  <2>1. PICK held \in SUBSET crew[b].todo :
           /\ held \cup crew[b].taken # {}
           /\ crew'[b].task = "cancelled" /\ crew'[b].page = {} /\ crew'[b].todo = held
           /\ crew'[b].queue = crew[b].todo \ held /\ crew'[b].refilled = TRUE
           /\ UNCHANGED <<crew[b].pc, crew[b].taken, crew[b].failed, crew[b].buffer,
                         crew[b].flushing>>
    BY <1>11, CancelSays
  <2>2. crew[b].pc \in {"round", "end"} \/ crew[b].page # {}
    BY <1>11 DEF Cancel
  <2>3. crew[b].pc \notin {"none", "round", "end"}
    BY <2>1 DEF HandInv, Hand
  <2>4. HandInv(b)'
    BY <2>1, <2>2, <2>3 DEF HandInv
  <2> QED BY <2>1, <2>4 DEF ShrinkInv
<1>12. CASE TaskDeleted(b)
  <2>1. crew[b].pc \notin {"none", "end"} /\ UNCHANGED chunk
    BY <1>12 DEF TaskDeleted, Working
  <2>2. /\ crew'[b].task = IF crew[b].task = "active" THEN "deleted" ELSE crew[b].task
        /\ crew'[b].todo = crew[b].todo \cup crew[b].queue
        /\ crew'[b].queue = {}
        /\ UNCHANGED <<crew[b].pc, crew[b].page, crew[b].taken, crew[b].failed,
                      crew[b].buffer, crew[b].flushing, crew[b].outset, crew[b].refilled>>
    BY <1>12, DeletedSays
  <2>3. Hand(b)' = Hand(b)
    BY <2>2 DEF Hand
  <2>4. HandInv(b)'
    BY <2>1, <2>2, <2>3 DEF HandInv
  <2>5. Undone(b)' = Undone(b)
    BY <2>1, <2>2 DEF Undone, Pending
  <2> QED BY <2>2, <2>3, <2>4, <2>5, KeepsSome
<1> QED BY <1>o, <1>1, <1>2, <1>3, <1>4, <1>5, <1>6, <1>7, <1>8, <1>9, <1>10, <1>11, <1>12 DEF Moves, Job

LEMMA OthersShrink ==
  ASSUME GraphTypeOK, RoundInv, Others
  PROVE  RoundInv'
<1>1. CASE GraphRestart
  <2> SUFFICES ASSUME NEW b \in Builds PROVE HandInv(b)' /\ ShrinkInv(b)'
    BY DEF RoundInv
  <2> QED BY <1>1, RestartSays DEF HandInv, ShrinkInv, Hand, NoCrew, None
<1>2. CASE Refilled
  <2> SUFFICES ASSUME NEW b \in Builds PROVE HandInv(b)' /\ ShrinkInv(b)'
    BY DEF RoundInv
  <2>1. /\ UNCHANGED <<crew[b].pc, crew[b].task, crew[b].page, crew[b].todo, crew[b].queue,
                      crew[b].taken, crew[b].buffer, crew[b].flushing, Hand(b)>>
        /\ crew'[b] = crew[b] \/ Working(b)
    BY <1>2, RefilledStays
  <2>2. crew'[b].refilled = TRUE
    <3>1. CASE Working(b)
      BY <1>2, <3>1, RefilledSays, CrewType DEF Crew
    <3>2. CASE ~Working(b)
      BY <2>1, <3>2, CrewType DEF Working, RoundInv, HandInv, Crew
    <3> QED BY <3>1, <3>2
  <2>3. HandInv(b)'
    BY <2>1, <2>2 DEF RoundInv, HandInv
  <2> QED BY <2>2, <2>3 DEF ShrinkInv
<1>3. ASSUME crew' = crew, Pending' \subseteq Pending PROVE RoundInv'
  BY <1>3, StaysShrinking DEF RoundInv
<1>4. CASE ResetBegins
  BY <1>3, <1>4 DEF ResetBegins, Pending
<1>5. CASE Reset
  BY <1>2, <1>3, <1>5 DEF Reset, ResetNeo, ResetVectors, ResetRows, ResetFlags, ResetBreaks, Pending
<1>6. ASSUME NEW f \in KbFiles, DeleteBegins(f) \/ DeleteStep(f) PROVE RoundInv'
  <2>1. CASE DeleteChunks(f)
    BY <1>3, <2>1 DEF DeleteChunks, Pending
  <2> QED BY <1>3, <1>6, <2>1
          DEF DeleteBegins, DeleteStep, DeleteReferences, DeleteVectors, DeleteNeo, DeleteBreaks, Pending
<1>7. ASSUME NEW f \in KbFiles, IndexedAgain(f) PROVE RoundInv'
  BY <1>2, <1>7 DEF IndexedAgain
<1> QED BY <1>1, <1>4, <1>5, <1>6, <1>7 DEF Others

LEMMA RoundStep == GraphTypeOK /\ RoundInv /\ [GraphNext]_graphVars => RoundInv'
<1> SUFFICES ASSUME GraphTypeOK, RoundInv, [GraphNext]_graphVars PROVE RoundInv'
  OBVIOUS
<1>1. CASE UNCHANGED graphVars
  BY <1>1, StaysShrinking DEF graphVars, RoundInv, Pending
<1>2. CASE Build
  <2>1. PICK n \in Builds : /\ crew'[n] = [NoCrew EXCEPT !.pc = "round", !.task = "active"]
                            /\ \A b \in Builds \ {n} : crew'[b] = crew[b]
    BY <1>2, BuildBecomes DEF Becomes
  <2>2. Pending' \subseteq Pending
    BY <1>2 DEF Build, Pending
  <2>3. HandInv(n)' /\ ShrinkInv(n)'
    BY <2>1 DEF HandInv, ShrinkInv, Hand, NoCrew, None
  <2> QED BY <2>1, <2>2, <2>3, StaysShrinking DEF RoundInv
<1>3. ASSUME NEW b \in Builds, Moves(b) PROVE RoundInv'
  <2>1. Only(b) /\ HandInv(b)' /\ ShrinkInv(b)'
    BY <1>3, MovesOnly, JobShrinks DEF RoundInv
  <2>2. \A c \in KbChunks : chunk'[c] = "pending" => chunk[c] = "pending"
    BY <1>3 DEF GraphTypeOK, Moves, Job, Round, Upsert, UpsertFails, RoundEnds, FlushLooks, FlushInserts, FlushFails, WriteNeo, ChunkFails, Flag, Cancel, TaskDeleted
  <2>3. Pending' \subseteq Pending
    BY <2>2 DEF Pending
  <2> QED BY <2>1, <2>3, StaysShrinking DEF RoundInv, Only
<1> QED BY <1>1, <1>2, <1>3, NextMoves, OthersShrink

\* After a round a job has fewer chunks left to do than before, whatever fails and whichever
\* other job is at work, unless chunks have become pending meanwhile: it takes no more rounds
\* than there are chunks.
THEOREM EveryRoundShrinks == GraphSpec => []RoundsShrink
<1>1. RoundInv => RoundsShrink
  BY DEF RoundInv, HandInv, ShrinkInv, RoundsShrink
<1> QED BY <1>1, GraphTypeInit, GraphTypeStep, RoundInit, RoundStep, PTL DEF GraphSpec

-----------------------------------------------------------------------------
(* A flagged chunk can be found *)

Lossy == {"cached", "revived", "broken", "crossed", "reborn"}

\* A job knows only vectors that are there, and what it has upserted is mentioned and in
\* Neo4j unless it is being deleted.
JobFound(b) ==
  /\ crew[b].known \subseteq vectors
  /\ crew[b].pc = "insert" => EntsOf(crew[b].flushing) \subseteq crew[b].known \cup vectors \cup crew[b].missing
  /\ \A c \in crew[b].buffer \cup crew[b].flushing : Deleting(c) \/ c \in mentions \cap neo
  /\ crew[b].pc = "upsert" => \A c \in crew[b].taken : Deleting(c) \/ c \in neo

\* So is a chunk that is flagged, and its entities have vectors.
ChunksFound ==
  \A c \in KbChunks : chunk[c] = "indexed" =>
    Deleting(c) \/ Underway \/ (c \in mentions \cap neo /\ Ents[c] \subseteq vectors)

FoundInv == harms \cap Lossy = {} => (\A b \in Builds : JobFound(b)) /\ ChunksFound

LEMMA IdleFound == ASSUME NEW b, crew[b] = NoCrew PROVE JobFound(b)
BY DEF JobFound, NoCrew, None

LEMMA FoundInit == GraphInit => FoundInv
BY IdleFound DEF GraphInit, FoundInv, ChunksFound

\* What a job does only adds to the stores.
StoresGrow ==
  /\ mentions \subseteq mentions' /\ neo \subseteq neo' /\ vectors \subseteq vectors'
  /\ UNCHANGED <<call, resetting>>

LEMMA MovesGrow == ASSUME NEW b \in Builds, Moves(b) PROVE StoresGrow
BY DEF StoresGrow, stores, Moves, Job, Round, Upsert, UpsertFails, RoundEnds, FlushLooks, FlushInserts, FlushFails, WriteNeo, ChunkFails, Flag, Cancel, TaskDeleted

LEMMA StaysFound ==
  ASSUME NEW b, JobFound(b), StoresGrow,
         UNCHANGED <<crew[b].pc, crew[b].known, crew[b].buffer, crew[b].flushing, crew[b].missing,
                    crew[b].taken>>
  PROVE  JobFound(b)'
<1>1. EntsOf(crew[b].flushing)' = EntsOf(crew[b].flushing) /\ \A c : Deleting(c)' <=> Deleting(c)
  BY DEF EntsOf, StoresGrow, Deleting
<1> QED BY <1>1 DEF JobFound, StoresGrow

LEMMA LessFound ==
  ASSUME NEW b, JobFound(b), StoresGrow, crew'[b].pc \notin {"insert", "upsert"},
         crew'[b].known = crew[b].known,
         crew'[b].buffer \cup crew'[b].flushing \subseteq crew[b].buffer \cup crew[b].flushing
  PROVE  JobFound(b)'
<1>1. \A c : Deleting(c)' <=> Deleting(c)
  BY DEF StoresGrow, Deleting
<1> QED BY <1>1 DEF JobFound, StoresGrow

LEMMA LeftFound ==
  ASSUME GraphTypeOK, NEW b \in Builds, JobFound(b), StoresGrow, NEW cs, crew'[b] = Left(b, cs)
  PROVE  JobFound(b)'
<1>1. crew'[b].pc = NextStep(crew[b].todo) /\ crew'[b].flushing = {}
      /\ UNCHANGED <<crew[b].known, crew[b].buffer>>
  BY LeftSays
<1> QED BY <1>1, LessFound DEF NextStep

LEMMA JobFinds ==
  ASSUME GraphTypeOK, NEW b \in Builds, JobFound(b), Moves(b)
  PROVE  JobFound(b)'
<1>g. StoresGrow
  BY MovesGrow
<1>d. \A c : Deleting(c)' <=> Deleting(c)
  BY <1>g DEF StoresGrow, Deleting
<1>0. ASSUME crew'[b] = NoCrew PROVE JobFound(b)'
  BY <1>0 DEF JobFound, NoCrew, None
<1>o. ASSUME JobOver(b) PROVE JobFound(b)'
  BY <1>0, <1>o, OverSays
<1>1. ASSUME Round(b), ~JobOver(b) PROVE JobFound(b)'
  <2>1. crew'[b].pc = "take" /\ UNCHANGED <<crew[b].known, crew[b].buffer, crew[b].flushing>>
    BY <1>1, RoundSays
  <2> QED BY <1>g, <2>1, LessFound
<1>2. ASSUME NEW c \in KbChunks, WriteNeo(b, c) PROVE JobFound(b)'
  <2>1. /\ crew'[b].pc = "upsert" /\ crew'[b].taken = {c}
        /\ UNCHANGED <<crew[b].known, crew[b].buffer, crew[b].flushing>>
    BY <1>2, WriteSays
  <2>2. c \in neo'
    BY <1>2 DEF WriteNeo
  <2> QED BY <1>g, <1>d, <2>1, <2>2 DEF JobFound, StoresGrow
<1>3. ASSUME NEW c \in KbChunks, ChunkFails(b, c) PROVE JobFound(b)'
  <2>1. /\ crew'[b].pc = NextStep(crew[b].todo \ {c})
        /\ UNCHANGED <<crew[b].known, crew[b].buffer, crew[b].flushing>>
    BY <1>3, ChunkFailsSays
  <2> QED BY <1>g, <2>1, LessFound DEF NextStep
<1>4. CASE Upsert(b)
  <2>1. PICK c \in crew[b].taken :
           /\ mentions' = mentions \cup {c} /\ crew'[b].buffer = crew[b].buffer \cup {c}
           /\ crew'[b].pc = "flush" \/ crew'[b].pc = NextStep(crew[b].todo)
           /\ UNCHANGED <<crew[b].known, crew[b].flushing>>
    BY ZenonT(60), <1>4, UpsertSays
  <2>2. Deleting(c) \/ c \in neo
    BY <1>4, <2>1 DEF JobFound, Upsert
  <2>3. crew'[b].pc \notin {"insert", "upsert"}
    BY <2>1 DEF NextStep
  <2> QED BY <1>g, <1>d, <2>1, <2>2, <2>3 DEF JobFound, StoresGrow
<1>5. CASE UpsertFails(b)
  BY <1>g, <1>5, UpsertFailsSays, LeftFound
<1>6. ASSUME RoundEnds(b), ~JobOver(b) PROVE JobFound(b)'
  <2>1. crew[b].task # "cancelled"
    BY <1>6 DEF RoundEnds
  <2>2. /\ crew'[b].pc \in {"round", "flush"}
        /\ UNCHANGED <<crew[b].known, crew[b].buffer, crew[b].flushing>>
    BY <1>6, <2>1, EndSays
  <2> QED BY <1>g, <2>2, LessFound
<1>7. CASE FlushLooks(b)
  <2>1. /\ crew'[b].pc = "insert" /\ crew'[b].flushing = crew[b].buffer /\ crew'[b].buffer = {}
        /\ crew'[b].missing = EntsOf(crew[b].buffer) \ (crew[b].known \cup vectors)
        /\ crew'[b].known = crew[b].known
    BY <1>7, LooksSays
  <2>2. EntsOf(crew[b].flushing)' = EntsOf(crew[b].buffer)
    BY <2>1 DEF EntsOf
  <2>3. EntsOf(crew[b].flushing)' \subseteq (crew[b].known \cup vectors \cup crew[b].missing)'
    BY <1>g, <2>1, <2>2 DEF StoresGrow
  <2> QED BY <1>g, <1>d, <2>1, <2>3 DEF JobFound, StoresGrow
<1>8. CASE FlushInserts(b)
  <2>1. /\ crew'[b].pc = "flag" /\ crew'[b].known = crew[b].known \cup EntsOf(crew[b].flushing)
        /\ UNCHANGED <<crew[b].buffer, crew[b].flushing>>
    BY <1>8, InsertsSays
  <2>2. crew[b].pc = "insert" /\ vectors' = vectors \cup crew[b].missing
    BY <1>8 DEF FlushInserts
  <2> QED BY <1>g, <1>d, <2>1, <2>2 DEF JobFound, StoresGrow
<1>9. CASE FlushFails(b)
  BY <1>g, <1>0, <1>9, FailsSays, LeftFound DEF FlushFails
<1>10. ASSUME NEW c \in KbChunks, Flag(b, c) PROVE JobFound(b)'
  <2>1. CASE /\ crew'[b].flushing = crew[b].flushing \ {c}
             /\ UNCHANGED <<crew[b].pc, crew[b].known, crew[b].buffer>>
    <3>1. crew'[b].pc = "flag"
      BY <1>10, <2>1 DEF Flag
    <3> QED BY <1>g, <2>1, <3>1, LessFound
  <2>2. CASE /\ crew'[b].pc = "round" /\ crew'[b].flushing = {}
             /\ UNCHANGED <<crew[b].known, crew[b].buffer>>
    BY <1>g, <2>2, LessFound
  <2> QED BY <1>g, <1>0, <1>10, <2>1, <2>2, FlagSays, LeftFound
<1>11. ASSUME Cancel(b), ~JobOver(b) PROVE JobFound(b)'
  BY <1>g, <1>11, CancelSays, StaysFound
<1>12. CASE TaskDeleted(b)
  BY <1>g, <1>12, DeletedSays, StaysFound
<1> QED BY <1>o, <1>1, <1>2, <1>3, <1>4, <1>5, <1>6, <1>7, <1>8, <1>9, <1>10, <1>11, <1>12 DEF Moves, Job

\* A chunk is flagged when its entities have vectors.
LEMMA FlagFinds ==
  ASSUME GraphTypeOK, NEW b \in Builds, JobFound(b), JobSound(b), ChunksFound, Moves(b)
  PROVE  ChunksFound'
<1>g. StoresGrow
  BY MovesGrow
<1>d. (\A c : Deleting(c)' <=> Deleting(c)) /\ (Underway' <=> Underway)
  BY <1>g DEF StoresGrow, Deleting, Underway
<1>1. ASSUME NEW c \in KbChunks, Flag(b, c) PROVE ChunksFound'
  <2>1. Ents[c] \subseteq vectors
    BY <1>1 DEF Flag, JobSound, JobFound, EntsOf
  <2>2. Deleting(c) \/ c \in mentions \cap neo
    BY <1>1 DEF Flag, JobFound
  <2>3. \A d \in KbChunks \ {c} : chunk'[d] = chunk[d]
    BY <1>1 DEF Flag, GraphTypeOK
  <2> QED BY <1>g, <1>d, <2>1, <2>2, <2>3 DEF ChunksFound, StoresGrow
<1>2. CASE UNCHANGED chunk
  BY <1>g, <1>d, <1>2 DEF ChunksFound, StoresGrow
<1>3. chunk' = chunk \/ \E c \in KbChunks : Flag(b, c)
  BY DEF Moves, Job, Round, Upsert, UpsertFails, RoundEnds, FlushLooks, FlushInserts, FlushFails, WriteNeo, ChunkFails, Cancel, TaskDeleted
<1> QED BY <1>1, <1>2, <1>3

LEMMA JobsFind ==
  ASSUME GraphTypeOK, StateInv, FoundInv, harms' \cap Lossy = {}, harms \subseteq harms',
         Build \/ \E b \in Builds : Moves(b)
  PROVE  FoundInv'
<1>0. (\A b \in Builds : JobFound(b)) /\ ChunksFound
  BY DEF FoundInv
<1>1. CASE Build
  <2>1. PICK n \in Builds : /\ crew'[n] = [NoCrew EXCEPT !.pc = "round", !.task = "active"]
                            /\ \A b \in Builds \ {n} : crew'[b] = crew[b]
    BY <1>1, BuildBecomes DEF Becomes
  <2>2. StoresGrow /\ UNCHANGED <<chunk, stores>>
    BY <1>1 DEF Build, StoresGrow, stores
  <2>3. JobFound(n)'
    BY <2>1 DEF JobFound, NoCrew, None
  <2>4. \A b \in Builds \ {n} : JobFound(b)'
    BY <1>0, <2>1, <2>2, StaysFound
  <2>5. ChunksFound'
    BY <1>0, <2>2 DEF ChunksFound, StoresGrow, stores, Deleting, Underway
  <2> QED BY <2>3, <2>4, <2>5 DEF FoundInv
<1>2. ASSUME NEW b \in Builds, Moves(b) PROVE FoundInv'
  <2>1. JobFound(b)' /\ ChunksFound' /\ StoresGrow /\ Only(b)
    BY <1>0, <1>2, JobFinds, FlagFinds, MovesGrow, MovesOnly DEF StateInv
  <2>2. \A d \in Builds \ {b} : JobFound(d)'
    BY <1>0, <2>1, StaysFound DEF Only
  <2> QED BY <2>1, <2>2 DEF FoundInv
<1> QED BY <1>1, <1>2

\* Deletions, the reset and a restart find the job with what it had, or without anything.
LEMMA OthersFind ==
  ASSUME GraphTypeOK, StateInv, FoundInv, harms' \cap Lossy = {}, harms \subseteq harms', Others
  PROVE  FoundInv'
<1>0. (\A b \in Builds : JobFound(b)) /\ ChunksFound
  BY DEF FoundInv
\* While a reset is under way there is no job, and hence nothing in its sets.
<1>r. Underway => \A b \in Builds : crew[b] = NoCrew
  BY DEF StateInv, JobSound, Working, Lossy
<1>h. \A b \in Builds : \A c \in Holding(b) : c \in KbChunks
  BY CrewType DEF Holding, Crew
<1>1. CASE ResetBegins
  <2>1. UNCHANGED <<chunk, stores, crew, call>> /\ Underway'
    BY <1>1 DEF ResetBegins, Underway
  <2>2. \A b \in Builds : JobFound(b)'
    BY <1>0, <2>1 DEF stores, JobFound, Deleting, EntsOf
  <2> QED BY <2>1, <2>2 DEF FoundInv, ChunksFound
<1>2. CASE ResetNeo \/ ResetVectors \/ ResetRows
  <2>1. \A b \in Builds : crew'[b] = NoCrew
    BY <1>2, <1>r DEF ResetNeo, ResetVectors, ResetRows, Underway
  <2>2. \A b \in Builds : JobFound(b)'
    BY <2>1 DEF JobFound, NoCrew, None
  <2>3. Underway'
    BY <1>2 DEF ResetNeo, ResetVectors, ResetRows, Underway
  <2> QED BY <2>2, <2>3 DEF FoundInv, ChunksFound
<1>3. CASE ResetFlags
  <2>1. \A b \in Builds : crew[b] = NoCrew
    BY <1>3, <1>r DEF ResetFlags, Underway
  <2>2. \A b \in Builds : crew'[b] = NoCrew
    <3>1. NoCrew.pc = "none" /\ Refilled
      BY <1>3 DEF NoCrew, ResetFlags
    <3> QED BY <2>1, <3>1, RefilledStays DEF Working
  <2>3. \A b \in Builds : JobFound(b)'
    BY <2>2 DEF JobFound, NoCrew, None
  <2>4. \A c \in KbChunks : chunk'[c] # "indexed"
    BY <1>3 DEF ResetFlags, GraphTypeOK
  <2> QED BY <2>3, <2>4 DEF FoundInv, ChunksFound
<1>4. CASE ResetBreaks
  BY <1>4 DEF ResetBreaks, Harmed, Lossy
<1>5. CASE GraphRestart
  <2>1. ~Underway /\ \A f \in KbFiles : call[f] \notin {"references", "vectors", "neo", "chunks"}
    BY <1>5 DEF GraphRestart, Harmed, Lossy
  <2>2. \A c \in KbChunks : chunk[c] = "indexed" => ~Deleting(c)
    BY <2>1, FileTypes DEF StateInv, Deleting
  <2>3. \A c \in KbChunks : chunk[c] = "indexed" => c \in mentions \cap neo /\ Ents[c] \subseteq vectors
    BY <1>0, <2>1, <2>2 DEF ChunksFound
  <2>4. UNCHANGED <<chunk, mentions, neo, vectors>>
    BY <1>5 DEF GraphRestart, stores
  <2>5. \A b \in Builds : JobFound(b)'
    BY <1>5, RestartSays DEF JobFound, NoCrew, None
  <2> QED BY <2>3, <2>4, <2>5 DEF FoundInv, ChunksFound
<1>6. ASSUME NEW f \in KbFiles, DeleteBegins(f) PROVE FoundInv'
  <2>1. UNCHANGED <<chunk, mentions, neo, vectors, crew, resetting>>
    BY <1>6 DEF DeleteBegins, stores
  <2>2. \A c \in KbChunks : Deleting(c) => Deleting(c)'
    BY <1>6, FileTypes DEF DeleteBegins, At, Deleting, GraphTypeOK
  <2>3. \A b \in Builds : JobFound(b)'
    BY <1>0, <1>h, <2>1, <2>2 DEF JobFound, Holding, EntsOf
  <2> QED BY <1>0, <2>1, <2>2, <2>3 DEF FoundInv, ChunksFound, Underway
<1>7. ASSUME NEW f \in KbFiles, IndexedAgain(f) PROVE FoundInv'
  <2>1. \A b \in Builds : \A c \in Holding(b) : FileOf[c] # f
    BY <1>7, <1>h DEF IndexedAgain, Harmed, Lossy, ChunksOf
  <2>2. \A c \in KbChunks : FileOf[c] # f => (Deleting(c)' <=> Deleting(c)) /\ chunk'[c] = chunk[c]
    BY <1>7, FileTypes DEF IndexedAgain, At, Deleting, GraphTypeOK
  <2>3. \A c \in KbChunks : FileOf[c] = f => chunk'[c] = "pending"
    BY <1>7 DEF IndexedAgain
  <2>4. UNCHANGED <<mentions, neo, vectors, resetting>> /\ Refilled
    BY <1>7 DEF IndexedAgain, stores
  <2>5. ASSUME NEW b \in Builds PROVE JobFound(b)'
    <3>1. UNCHANGED <<crew[b].pc, crew[b].known, crew[b].buffer, crew[b].flushing, crew[b].missing,
                      crew[b].taken>>
      BY <2>4, RefilledStays
    <3>2. \A c \in Holding(b) : Deleting(c)' <=> Deleting(c)
      BY <1>h, <2>1, <2>2
    <3> QED BY <1>0, <2>4, <3>1, <3>2 DEF JobFound, Holding, EntsOf
  <2> QED BY <1>0, <2>2, <2>3, <2>4, <2>5 DEF FoundInv, ChunksFound, Underway
<1>8. ASSUME NEW f \in KbFiles, DeleteReferences(f) \/ DeleteNeo(f) \/ DeleteChunks(f) PROVE FoundInv'
  <2>1. UNCHANGED <<vectors, crew, resetting>> /\ mentions \ ChunksOf(f) \subseteq mentions' /\ neo \ ChunksOf(f) \subseteq neo'
    BY <1>8 DEF DeleteReferences, DeleteNeo, DeleteChunks
  <2>2. \A c \in KbChunks : (FileOf[c] = f => Deleting(c)') /\ (Deleting(c) => Deleting(c)')
    BY <1>8, FileTypes DEF DeleteReferences, DeleteNeo, DeleteChunks, At, Deleting, GraphTypeOK
  <2>3. \A c \in KbChunks : FileOf[c] # f => chunk'[c] = chunk[c]
    BY <1>8 DEF DeleteReferences, DeleteNeo, DeleteChunks
  <2>4. ASSUME NEW b \in Builds PROVE JobFound(b)'
    <3>1. JobFound(b) /\ UNCHANGED crew[b]
      BY <1>0, <2>1
    <3>2. \A c \in Holding(b) : c \in KbChunks
      BY <1>h
    <3> QED BY <2>1, <2>2, <3>1, <3>2 DEF JobFound, Holding, EntsOf, ChunksOf
  <2> QED BY <1>0, <2>1, <2>2, <2>3, <2>4 DEF FoundInv, ChunksFound, Underway, ChunksOf
<1>9. ASSUME NEW f \in KbFiles, DeleteVectors(f) PROVE FoundInv'
  <2>1. \A b \in Builds : orphans[f] \cap (crew[b].known \cup EntsOf(crew[b].flushing)) = {}
    BY <1>9 DEF DeleteVectors, Harmed, Lossy
  <2>2. orphans[f] \cap EntsOf(mentions) = {}
    BY <1>9 DEF DeleteVectors, Harmed, Lossy
  <2>3. vectors' = vectors \ orphans[f] /\ UNCHANGED <<chunk, mentions, neo, crew, resetting>>
    BY <1>9 DEF DeleteVectors
  <2>4. \A c \in KbChunks : Deleting(c)' <=> Deleting(c)
    BY <1>9, FileTypes DEF DeleteVectors, At, Deleting, GraphTypeOK
  <2>5. ASSUME NEW b \in Builds PROVE JobFound(b)'
    <3>1. JobFound(b) /\ UNCHANGED <<crew[b], EntsOf(crew[b].flushing)>>
      BY <1>0, <2>3 DEF EntsOf
    <3>2. \A c \in Holding(b) : Deleting(c)' <=> Deleting(c)
      BY <1>h, <2>4
    <3> QED BY <2>1, <2>3, <3>1, <3>2 DEF JobFound, Holding
  <2>6. \A c \in mentions : Ents[c] \subseteq vectors => Ents[c] \subseteq vectors'
    BY <2>2, <2>3 DEF EntsOf
  <2> QED BY <1>0, <2>3, <2>4, <2>5, <2>6 DEF FoundInv, ChunksFound, Underway
<1>10. ASSUME NEW f \in KbFiles, DeleteBreaks(f) PROVE FoundInv'
  BY <1>10 DEF DeleteBreaks, Harmed, Lossy
<1> QED BY <1>1, <1>2, <1>3, <1>4, <1>5, <1>6, <1>7, <1>8, <1>9, <1>10 DEF Others, Reset, DeleteStep

LEMMA FoundStep == GraphTypeOK /\ StateInv /\ FoundInv /\ [GraphNext]_graphVars => FoundInv'
<1> SUFFICES ASSUME GraphTypeOK, StateInv, FoundInv, [GraphNext]_graphVars, harms' \cap Lossy = {}
             PROVE  FoundInv'
  BY DEF FoundInv
<1>1. CASE UNCHANGED graphVars
  BY <1>1 DEF graphVars, stores, FoundInv, JobFound, ChunksFound, Deleting, Underway, EntsOf
<1> QED BY <1>1, HarmStep, NextMoves, JobsFind, OthersFind

\* A flagged chunk can be found through the graph when nobody is at work, with any number of
\* jobs and of workers that have outlived theirs, unless a deletion took a vector a job
\* relied on, or a deletion or a reset broke off or crossed a job.
THEOREM FlaggedAreFound == GraphSpec => []FlaggedFindable
<1>1. GraphTypeOK /\ StateInv /\ FoundInv => FlaggedFindable
  BY FileTypes DEF StateInv, FoundInv, ChunksFound, FlaggedFindable, Calm, Lossy, Deleting, GraphTypeOK
<1> QED BY <1>1, GraphTypeInit, GraphTypeStep, StateInit, StateStep, FoundInit, FoundStep, PTL DEF GraphSpec

-----------------------------------------------------------------------------
(* What is deleted leaves nothing behind *)

Leaky == {"broken", "unflagged", "ghost", "crossed"}

\* What a job is about to flush is mentioned until its deletion begins.
JobLeft(b) ==
  \A c \in crew[b].buffer \cup crew[b].flushing : call[FileOf[c]] = "none" => c \in mentions

\* The graph, the mentions and the rows are of existing chunks, a vector is of a mentioned
\* entity, of a file that was indexed again, or of one its deletion is about to remove.
GraphLeft ==
  /\ \A c \in neo \cup mentions : chunk[c] # "gone"
  /\ \A c \in KbChunks : call[FileOf[c]] \in {"vectors", "neo", "chunks"} => c \notin mentions
  /\ \A c \in KbChunks : call[FileOf[c]] = "chunks" => c \notin neo
  /\ rows \subseteq EntsOf(mentions)
  /\ \A e \in vectors : \/ e \in EntsOf(mentions)
                        \/ \E c \in Existing : call[FileOf[c]] = "done" /\ e \in Ents[c]
                        \/ \E f \in KbFiles : call[f] = "vectors" /\ e \in orphans[f]
  /\ resetting \in {"rows", "flags"} => vectors = {}

LeftInv == harms \cap Leaky = {} => GraphLeft /\ \A b \in Builds : JobLeft(b)

LEMMA LeftInit == GraphInit => LeftInv
BY DEF GraphInit, LeftInv, GraphLeft, JobLeft, EntsOf, NoCrew

\* A job flushes what it has upserted.
LEMMA JobLeaves ==
  ASSUME GraphTypeOK, NEW b \in Builds, JobLeft(b), Moves(b)
  PROVE  JobLeft(b)'
<1>g. mentions \subseteq mentions' /\ UNCHANGED call
  BY MovesGrow DEF StoresGrow
<1>0. ASSUME crew'[b].buffer \cup crew'[b].flushing \subseteq crew[b].buffer \cup crew[b].flushing
      PROVE  JobLeft(b)'
  BY <1>0, <1>g DEF JobLeft
<1>n. ASSUME crew'[b] = NoCrew PROVE JobLeft(b)'
  BY <1>n DEF JobLeft, NoCrew
<1>o. ASSUME JobOver(b) PROVE JobLeft(b)'
  BY <1>n, <1>o, OverSays
<1>l. ASSUME NEW cs, crew'[b] = Left(b, cs) PROVE JobLeft(b)'
  BY <1>l, <1>0, LeftSays
<1>1. ASSUME Round(b) \/ Cancel(b) \/ TaskDeleted(b), ~JobOver(b) PROVE JobLeft(b)'
  <2>1. UNCHANGED <<crew[b].buffer, crew[b].flushing>>
    BY <1>1, RoundSays, CancelSays, DeletedSays
  <2> QED BY <2>1, <1>0
<1>2. ASSUME NEW c \in KbChunks, WriteNeo(b, c) \/ ChunkFails(b, c) PROVE JobLeft(b)'
  BY <1>0, <1>2, WriteSays, ChunkFailsSays
<1>3. CASE Upsert(b)
  <2>1. PICK c \in crew[b].taken :
           /\ mentions' = mentions \cup {c} /\ crew'[b].buffer = crew[b].buffer \cup {c}
           /\ crew'[b].flushing = crew[b].flushing
    BY <1>3, UpsertSays
  <2> QED BY <1>g, <2>1 DEF JobLeft
<1>4. CASE UpsertFails(b)
  BY <1>4, <1>l, UpsertFailsSays
<1>5. ASSUME RoundEnds(b), ~JobOver(b) PROVE JobLeft(b)'
  BY <1>0, <1>5, EndSays DEF RoundEnds
<1>6. CASE FlushLooks(b) \/ FlushInserts(b)
  BY <1>0, <1>6, LooksSays, InsertsSays
<1>7. CASE FlushFails(b)
  BY <1>7, <1>n, <1>l, FailsSays DEF FlushFails
<1>8. ASSUME NEW c \in KbChunks, Flag(b, c) PROVE JobLeft(b)'
  <2>1. CASE /\ crew'[b].flushing \subseteq crew[b].flushing
             /\ UNCHANGED crew[b].buffer
    BY <1>0, <2>1
  <2> QED BY <1>8, <1>n, <1>l, <2>1, FlagSays
<1> QED BY <1>o, <1>1, <1>2, <1>3, <1>4, <1>5, <1>6, <1>7, <1>8 DEF Moves, Job

\* It writes for existing chunks only.
LEMMA JobLeavesGraph ==
  ASSUME GraphTypeOK, StateInv, NEW b \in Builds, JobLeft(b), GraphLeft, Moves(b),
         harms' \cap Leaky = {}, harms \subseteq harms'
  PROVE  GraphLeft'
<1>s. JobSound(b)
  BY DEF StateInv
<1>h. \A c \in Hand(b) : c \in KbChunks
  BY CrewType DEF Hand, Crew
<1>c. ASSUME NEW c \in Hand(b), call[FileOf[c]] \in {"none", "done"} PROVE chunk[c] # "gone"
  BY <1>c, <1>h, <1>s DEF StateInv, JobSound
<1>1. ASSUME NEW c \in KbChunks, WriteNeo(b, c) PROVE GraphLeft'
  <2>1. call[FileOf[c]] \in {"none", "done"} /\ c \in Hand(b)
    BY <1>1 DEF WriteNeo, Harmed, Ghosts, Leaky, Hand
  <2>2. chunk[c] # "gone"
    BY <1>c, <2>1
  <2>3. UNCHANGED <<chunk, mentions, rows, vectors, call, orphans, resetting>> /\ neo' = neo \cup {c}
    BY <1>1 DEF WriteNeo
  <2> QED BY <2>1, <2>2, <2>3 DEF GraphLeft, Existing, EntsOf
<1>2. CASE Upsert(b)
  <2>1. PICK c \in crew[b].taken :
           /\ c \in KbChunks /\ chunk[c] # "gone"
           /\ mentions' = mentions \cup {c} /\ rows' = rows \cup Ents[c] /\ Harmed(Ghosts({c}))
    BY <1>2, UpsertSays
  <2>2. UNCHANGED <<chunk, neo, vectors, call, orphans, resetting>>
    BY <1>2 DEF Upsert
  <2>3. call[FileOf[c]] \in {"none", "done"}
    BY <2>1 DEF Harmed, Ghosts, Leaky
  <2>4. EntsOf(mentions)' = EntsOf(mentions) \cup Ents[c]
    BY <2>1 DEF EntsOf
  <2> QED BY <2>1, <2>2, <2>3, <2>4 DEF GraphLeft, Existing
<1>3. CASE FlushInserts(b)
  <2>0. crew[b].pc = "insert" /\ vectors' = vectors \cup crew[b].missing
        /\ UNCHANGED <<chunk, mentions, rows, neo, call, orphans, resetting>>
    BY <1>3 DEF FlushInserts
  <2>1. \A c \in crew[b].flushing : call[FileOf[c]] \in {"none", "done"}
    BY <1>3 DEF FlushInserts, Harmed, Ghosts, Leaky
  <2>2. ASSUME NEW e \in crew[b].missing
        PROVE  e \in EntsOf(mentions) \/ \E c \in Existing : call[FileOf[c]] = "done" /\ e \in Ents[c]
    <3>1. PICK c \in crew[b].flushing : e \in Ents[c]
      BY <1>s, <2>0, <2>2 DEF JobSound, EntsOf
    <3>2. c \in Hand(b)
      BY DEF Hand
    <3>3. CASE call[FileOf[c]] = "none"
      BY <3>1, <3>3 DEF JobLeft, EntsOf
    <3>4. CASE call[FileOf[c]] = "done"
      BY <1>c, <1>h, <3>1, <3>2, <3>4 DEF Existing
    <3> QED BY <2>1, <3>3, <3>4
  <2>3. resetting \notin {"rows", "flags"}
    BY <2>0 DEF StateInv, Working, Underway, Leaky
  <2>4. UNCHANGED <<EntsOf(mentions), Existing>>
    BY <2>0 DEF EntsOf, Existing
  <2> QED BY <2>0, <2>2, <2>3, <2>4 DEF GraphLeft
<1>4. CASE UNCHANGED <<stores, call, orphans, resetting>> /\ \A c \in KbChunks : chunk'[c] = "gone" <=> chunk[c] = "gone"
  <2>1. UNCHANGED <<EntsOf(mentions), Existing>>
    BY <1>4 DEF EntsOf, Existing, stores
  <2>2. mentions \subseteq KbChunks /\ neo \subseteq KbChunks
    BY DEF GraphTypeOK
  <2> QED BY <1>4, <2>1, <2>2 DEF GraphLeft, stores
<1>5. CASE Round(b) \/ UpsertFails(b) \/ RoundEnds(b) \/ FlushLooks(b) \/ FlushFails(b) \/ Cancel(b) \/ TaskDeleted(b)
  BY <1>4, <1>5 DEF Round, UpsertFails, RoundEnds, FlushLooks, FlushFails, Cancel, TaskDeleted
<1>6. ASSUME NEW c \in KbChunks, ChunkFails(b, c) \/ Flag(b, c) PROVE GraphLeft'
  BY <1>4, <1>6 DEF ChunkFails, Flag, GraphTypeOK
<1> QED BY <1>1, <1>2, <1>3, <1>5, <1>6 DEF Moves, Job

LEMMA JobsLeave ==
  ASSUME GraphTypeOK, StateInv, LeftInv, harms' \cap Leaky = {}, harms \subseteq harms',
         Build \/ \E b \in Builds : Moves(b)
  PROVE  LeftInv'
<1>0. GraphLeft /\ \A b \in Builds : JobLeft(b)
  BY DEF LeftInv
<1>1. CASE Build
  <2>1. PICK n \in Builds : /\ crew'[n] = [NoCrew EXCEPT !.pc = "round", !.task = "active"]
                            /\ \A b \in Builds \ {n} : crew'[b] = crew[b]
    BY <1>1, BuildBecomes DEF Becomes
  <2>2. UNCHANGED <<chunk, stores, call, orphans, resetting>>
    BY <1>1 DEF Build
  <2>3. JobLeft(n)'
    BY <2>1 DEF JobLeft, NoCrew
  <2>4. \A b \in Builds \ {n} : JobLeft(b)'
    BY <1>0, <2>1, <2>2 DEF JobLeft, stores
  <2>5. GraphLeft'
    BY <1>0, <2>2 DEF GraphLeft, stores, Existing, EntsOf
  <2> QED BY <2>3, <2>4, <2>5 DEF LeftInv
<1>2. ASSUME NEW b \in Builds, Moves(b) PROVE LeftInv'
  <2>1. JobLeft(b)' /\ GraphLeft' /\ StoresGrow /\ Only(b)
    BY <1>0, <1>2, JobLeaves, JobLeavesGraph, MovesGrow, MovesOnly
  <2>2. \A d \in Builds \ {b} : JobLeft(d)'
    BY <1>0, <2>1 DEF Only, JobLeft, StoresGrow
  <2> QED BY <2>1, <2>2 DEF LeftInv
<1> QED BY <1>1, <1>2

LEMMA OthersLeave ==
  ASSUME GraphTypeOK, StateInv, LeftInv, harms' \cap Leaky = {}, harms \subseteq harms', Others
  PROVE  LeftInv'
<1>0. GraphLeft /\ \A b \in Builds : JobLeft(b)
  BY DEF LeftInv
<1>r. Underway => \A b \in Builds : crew[b] = NoCrew
  BY DEF StateInv, JobSound, Working, Leaky
<1>h. \A b \in Builds : \A c \in crew[b].buffer \cup crew[b].flushing : c \in KbChunks
  BY CrewType DEF Crew
\* A job that keeps its sets while no deletion is taken back and no mention lost.
<1>j. ASSUME \A c \in KbChunks : call'[FileOf[c]] = "none" => call[FileOf[c]] = "none" /\ (c \in mentions => c \in mentions'),
             NEW b \in Builds, UNCHANGED <<crew[b].buffer, crew[b].flushing>>
      PROVE  JobLeft(b)'
  BY <1>0, <1>h, <1>j DEF JobLeft
<1>n. ASSUME NEW b \in Builds, crew'[b] = NoCrew PROVE JobLeft(b)'
  BY <1>n DEF JobLeft, NoCrew
<1> USE <1>0, FileTypes DEF GraphLeft, Existing, Underway, EntsOf, stores, GraphTypeOK, At, ChunksOf
<1>1. CASE ResetBegins \/ ResetNeo \/ ResetVectors
  <2>1. UNCHANGED <<crew, call, mentions>>
    BY <1>1 DEF ResetBegins, ResetNeo, ResetVectors
  <2>2. \A b \in Builds : JobLeft(b)'
    BY <2>1, <1>j
  <2>3. GraphLeft'
    BY <1>1 DEF ResetBegins, ResetNeo, ResetVectors, Harmed, Leaky
  <2> QED BY <2>2, <2>3 DEF LeftInv
<1>2. CASE ResetRows
  <2>1. \A b \in Builds : JobLeft(b)'
    BY <1>2, <1>r, <1>n DEF ResetRows
  <2>2. GraphLeft'
    BY <1>2 DEF ResetRows
  <2> QED BY <2>1, <2>2 DEF LeftInv
<1>3. CASE ResetFlags
  <2>1. \A c \in KbChunks : chunk'[c] = "gone" <=> chunk[c] = "gone"
    BY <1>3 DEF ResetFlags
  <2>2. Existing' = Existing
    BY <2>1
  <2>3. Refilled /\ UNCHANGED <<call, mentions>>
    BY <1>3 DEF ResetFlags
  <2>4. \A b \in Builds : JobLeft(b)'
    BY <2>3, <1>j, RefilledStays
  <2>5. GraphLeft'
    BY <1>3, <2>1, <2>2 DEF ResetFlags
  <2> QED BY <2>4, <2>5 DEF LeftInv
<1>4. CASE ResetBreaks
  BY <1>4 DEF ResetBreaks, Harmed, Leaky
<1>5. CASE GraphRestart
  <2>1. ~Underway /\ \A f \in KbFiles : call[f] \in {"none", "again", "done"}
    BY <1>5 DEF GraphRestart, Harmed, Leaky
  <2>2. \A f \in KbFiles : call'[f] \in {"none", "done"} /\ (call[f] = "done" => call'[f] = "done")
    BY <1>5 DEF GraphRestart
  <2>3. (\A b \in Builds : JobLeft(b)') /\ UNCHANGED <<chunk, stores>>
    BY <1>5, <1>n, RestartSays DEF GraphRestart
  <2>4. resetting' \notin {"rows", "flags"}
    BY <1>5 DEF GraphRestart
  <2>5. \A e \in vectors : e \in EntsOf(mentions) \/ \E c \in Existing : call'[FileOf[c]] = "done" /\ e \in Ents[c]
    BY <2>1, <2>2
  <2>6. GraphLeft'
    BY <2>2, <2>3, <2>4, <2>5
  <2> QED BY <2>3, <2>6 DEF LeftInv
<1>6. ASSUME NEW f \in KbFiles, DeleteBegins(f) PROVE LeftInv'
  <2>1. \A g \in KbFiles \ {f} : call'[g] = call[g]
    BY <1>6 DEF DeleteBegins
  <2>2. call[f] = "none" /\ call'[f] \in {"references", "chunks"}
    BY <1>6 DEF DeleteBegins
  <2>3. call'[f] = "chunks" => ChunksOf(f) \cap (neo \cup mentions) = {}
    BY <1>6 DEF DeleteBegins, Harmed, Leaky
  <2>4. UNCHANGED <<chunk, stores, crew, orphans, resetting>>
    BY <1>6 DEF DeleteBegins
  <2>5. \A b \in Builds : JobLeft(b)'
    BY <2>1, <2>2, <2>4, <1>j
  <2>6. GraphLeft'
    BY <2>1, <2>2, <2>3, <2>4
  <2> QED BY <2>5, <2>6 DEF LeftInv
<1>7. ASSUME NEW f \in KbFiles, IndexedAgain(f) PROVE LeftInv'
  <2>1. \A g \in KbFiles \ {f} : call'[g] = call[g]
    BY <1>7 DEF IndexedAgain
  <2>2. call[f] = "again" /\ call'[f] = "done"
    BY <1>7 DEF IndexedAgain
  <2>3. \A c \in KbChunks : chunk'[c] = IF FileOf[c] = f THEN "pending" ELSE chunk[c]
    BY <1>7 DEF IndexedAgain
  <2>4. UNCHANGED <<stores, orphans, resetting>> /\ Refilled
    BY <1>7 DEF IndexedAgain
  <2>5. Existing \subseteq Existing'
    BY <2>3
  <2>6. \A b \in Builds : JobLeft(b)'
    BY <2>1, <2>2, <2>4, <1>j, RefilledStays
  <2>7. GraphLeft'
    BY <2>1, <2>2, <2>3, <2>4, <2>5
  <2> QED BY <2>6, <2>7 DEF LeftInv
<1>8. ASSUME NEW f \in KbFiles, DeleteReferences(f) PROVE LeftInv'
  <2> DEFINE gone == EntsOf(mentions \cap ChunksOf(f)) \ EntsOf(mentions')
  <2>1. /\ call[f] = "references" /\ call' = [call EXCEPT ![f] = "vectors"]
        /\ mentions' = mentions \ ChunksOf(f) /\ rows' = rows \ gone /\ orphans' = [orphans EXCEPT ![f] = gone]
        /\ UNCHANGED <<chunk, neo, vectors, crew, resetting>>
    BY <1>8 DEF DeleteReferences
  <2>2. \A g \in KbFiles \ {f} : call'[g] = call[g] /\ orphans'[g] = orphans[g]
    BY <2>1
  <2>3. call'[f] = "vectors" /\ orphans'[f] = gone
    BY <2>1
  <2>4. \A e \in EntsOf(mentions) : e \in EntsOf(mentions') \/ e \in gone
    BY <2>1
  <2>5. rows' \subseteq EntsOf(mentions')
    BY <2>1, <2>4
  <2>6. \A e \in vectors' : \/ e \in EntsOf(mentions')
                            \/ \E c \in Existing : call'[FileOf[c]] = "done" /\ e \in Ents[c]
                            \/ \E g \in KbFiles : call'[g] = "vectors" /\ e \in orphans'[g]
    <3> HIDE DEF gone, EntsOf
    <3> SUFFICES ASSUME NEW e \in vectors
                 PROVE  \/ e \in EntsOf(mentions')
                        \/ \E c \in Existing : call'[FileOf[c]] = "done" /\ e \in Ents[c]
                        \/ \E g \in KbFiles : call'[g] = "vectors" /\ e \in orphans'[g]
      BY <2>1
    <3>1. CASE e \in EntsOf(mentions)
      BY <2>3, <2>4, <3>1
    <3>2. CASE \E c \in Existing : call[FileOf[c]] = "done" /\ e \in Ents[c]
      BY <2>1, <2>2, <3>2
    <3>3. CASE \E g \in KbFiles : call[g] = "vectors" /\ e \in orphans[g]
      BY <2>1, <2>2, <3>3
    <3> QED BY <3>1, <3>2, <3>3
  <2>7. Existing' = Existing
    BY <2>1
  <2>8. \A c \in KbChunks : call'[FileOf[c]] \in {"vectors", "neo", "chunks"} => c \notin mentions'
    BY <2>1, <2>2, <2>3
  <2>9. \A c \in KbChunks : (call'[FileOf[c]] = "chunks" => c \notin neo)
                            /\ (call'[FileOf[c]] = "none" => call[FileOf[c]] = "none" /\ FileOf[c] # f)
    BY <2>1, <2>2, <2>3
  <2>10. \A b \in Builds : JobLeft(b)'
    BY <2>1, <2>9, <1>j
  <2> HIDE DEF gone
  <2>11. GraphLeft'
    BY <2>1, <2>5, <2>6, <2>7, <2>8, <2>9
  <2> QED BY <2>10, <2>11 DEF LeftInv
<1>9. ASSUME NEW f \in KbFiles, DeleteVectors(f) PROVE LeftInv'
  <2>1. \A g \in KbFiles \ {f} : call'[g] = call[g] /\ orphans'[g] = orphans[g]
    BY <1>9 DEF DeleteVectors
  <2>2. call[f] = "vectors" /\ call'[f] = "neo" /\ vectors' = vectors \ orphans[f]
    BY <1>9 DEF DeleteVectors
  <2>3. UNCHANGED <<chunk, mentions, rows, neo, crew, resetting>>
    BY <1>9 DEF DeleteVectors
  <2>4. \A b \in Builds : JobLeft(b)'
    BY <2>1, <2>2, <2>3, <1>j
  <2>5. GraphLeft'
    BY <2>1, <2>2, <2>3
  <2> QED BY <2>4, <2>5 DEF LeftInv
<1>10. ASSUME NEW f \in KbFiles, DeleteNeo(f) PROVE LeftInv'
  <2>1. \A g \in KbFiles \ {f} : call'[g] = call[g]
    BY <1>10 DEF DeleteNeo
  <2>2. call[f] = "neo" /\ call'[f] = "chunks" /\ neo' = neo \ ChunksOf(f)
    BY <1>10 DEF DeleteNeo
  <2>3. UNCHANGED <<chunk, mentions, rows, vectors, crew, orphans, resetting>>
    BY <1>10 DEF DeleteNeo
  <2>4. \A b \in Builds : JobLeft(b)'
    BY <2>1, <2>2, <2>3, <1>j
  <2>5. GraphLeft'
    BY <2>1, <2>2, <2>3
  <2> QED BY <2>4, <2>5 DEF LeftInv
<1>11. ASSUME NEW f \in KbFiles, DeleteBreaks(f) PROVE LeftInv'
  BY <1>11 DEF DeleteBreaks, Harmed, Leaky
<1>12. ASSUME NEW f \in KbFiles, DeleteChunks(f) PROVE LeftInv'
  <2>1. \A g \in KbFiles \ {f} : call'[g] = call[g]
    BY <1>12 DEF DeleteChunks
  <2>2. call[f] = "chunks" /\ call'[f] = "again"
    BY <1>12 DEF DeleteChunks
  <2>3. mentions' = mentions /\ UNCHANGED <<rows, neo, vectors, crew, orphans, resetting>>
    BY <1>12, <2>2 DEF DeleteChunks
  <2>4. \A c \in KbChunks : chunk'[c] = IF FileOf[c] = f THEN "gone" ELSE chunk[c]
    BY <1>12 DEF DeleteChunks
  <2>5. \A c \in neo \cup mentions : FileOf[c] # f
    BY <2>2
  <2>6. \A c \in Existing : call[FileOf[c]] = "done" => c \in Existing' /\ call'[FileOf[c]] = "done"
    BY <2>1, <2>2, <2>4
  <2>7. \A b \in Builds : JobLeft(b)'
    BY <2>1, <2>2, <2>3, <1>j
  <2>8. GraphLeft'
    BY <2>1, <2>2, <2>3, <2>4, <2>5, <2>6
  <2> QED BY <2>7, <2>8 DEF LeftInv
<1> QED BY <1>1, <1>2, <1>3, <1>4, <1>5, <1>6, <1>7, <1>8, <1>9, <1>10, <1>11, <1>12 DEF Others, Reset, DeleteStep

LEMMA LeftStep == GraphTypeOK /\ StateInv /\ LeftInv /\ [GraphNext]_graphVars => LeftInv'
<1> SUFFICES ASSUME GraphTypeOK, StateInv, LeftInv, [GraphNext]_graphVars, harms' \cap Leaky = {}
             PROVE  LeftInv'
  BY DEF LeftInv
<1>1. CASE UNCHANGED graphVars
  BY <1>1 DEF graphVars, stores, LeftInv, GraphLeft, JobLeft, Existing, EntsOf
<1> QED BY <1>1, HarmStep, NextMoves, JobsLeave, OthersLeave

\* What is deleted leaves nothing behind in the three stores when nobody is at work, with
\* any number of jobs and of workers that have outlived theirs, and with the exceptions that
\* NothingLeft names.
THEOREM NothingIsLeft == GraphSpec => []NothingLeft
<1>1. GraphTypeOK /\ LeftInv => NothingLeft
  <2> SUFFICES ASSUME GraphTypeOK, LeftInv, Calm, harms \cap Leaky = {}
               PROVE  neo \subseteq Existing /\ rows \cup vectors \subseteq EntsOf(Existing)
    BY DEF NothingLeft, Leaky
  <2>0. GraphLeft
    BY DEF LeftInv
  <2>1. neo \subseteq Existing /\ mentions \subseteq Existing
    BY <2>0 DEF GraphLeft, Existing, GraphTypeOK
  <2>2. rows \subseteq EntsOf(mentions) /\ EntsOf(mentions) \subseteq EntsOf(Existing)
    BY <2>0, <2>1 DEF GraphLeft, EntsOf
  <2>3. \A f \in KbFiles : call[f] # "vectors"
    BY DEF Calm
  <2>4. \A e \in vectors : e \in EntsOf(mentions) \/ \E c \in Existing : e \in Ents[c]
    BY <2>0, <2>3 DEF GraphLeft
  <2> QED BY <2>1, <2>2, <2>4 DEF EntsOf
<1> QED BY <1>1, GraphTypeInit, GraphTypeStep, StateInit, StateStep, LeftInit, LeftStep, PTL DEF GraphSpec
=============================================================================
