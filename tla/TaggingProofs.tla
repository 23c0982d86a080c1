---------------------------- MODULE TaggingProofs ----------------------------
(***************************************************************************)
(* Proofs of the safety properties of TaggingTasks, for every number of     *)
(* jobs, of calls and of troubles. Each property is the consequence of an   *)
(* inductive invariant, which every action keeps.                           *)
(***************************************************************************)
EXTENDS TaggingTasks, FiniteSetTheorems, TLAPS

\* Where a job can be.
Busy == {"queued", "load", "fetch", "tag", "store", "upload", "uptag"}
Places == {"none", "queued", "load", "fetch", "tag", "store", "sync", "write", "retag",
           "upload", "uptag", "done"}

\* A person is no job.
LEMMA ActorsDiffer ==
  /\ Jobs \subseteq Actors /\ People \subseteq Actors /\ Jobs \cap People = {}
  /\ 1 \in Jobs /\ NoTags \in TagSets /\ Actors \subseteq TagSets
BY TaggingAssumption DEF Jobs, People, Actors, TagSets

-----------------------------------------------------------------------------
(* Types *)

LEMMA TaggingTypeInit == TaggingInit => TaggingTypeOK
<1> SUFFICES ASSUME TaggingInit PROVE TaggingTypeOK
  OBVIOUS
<1>1. Blank \in Columns /\ file \in Columns
  BY ActorsDiffer DEF TaggingInit, Columns, Blank
<1>2. troubles \in 0..MaxTroubles /\ flaws \subseteq Flaw
  BY TaggingAssumption DEF TaggingInit
<1> QED BY <1>1, <1>2, ActorsDiffer DEF TaggingInit, TaggingTypeOK

\* Every action of a job keeps the types.
LEMMA JobTypes ==
  ASSUME TaggingTypeOK, NEW r \in Jobs, JobStep(r) \/ JobCancelled(r)
  PROVE  TaggingTypeOK'
<1> r \in Actors /\ r \in TagSets
  BY ActorsDiffer
<1> USE ActorsDiffer DEF TaggingTypeOK, TaggingStates, Unfinished, Retryable, Flaw, Go, Ends,
        UpdateTask, Mark, Trouble
<1>b. Blank \in Columns
  BY DEF Blank, Columns
<1>1. CASE JobBegins(r)
  BY <1>1 DEF JobBegins
<1>2. CASE JobLoads(r)
  BY <1>2, <1>b DEF JobLoads
<1>3. CASE JobFetches(r)
  BY <1>3 DEF JobFetches
<1>4. CASE JobTags(r)
  BY <1>4, <1>b DEF JobTags, Decide
<1>5. CASE JobStores(r)
  <2>1. [params[r] EXCEPT !.cached = TRUE] \in Columns
    BY DEF Columns
  <2> QED BY <1>5, <1>b, <2>1 DEF JobStores, Decide, Replace
<1>6. CASE JobFails(r)
  BY <1>6, <1>b, TaggingAssumption DEF JobFails
<1>7. CASE JobCancelled(r)
  BY <1>7, TaggingAssumption DEF JobCancelled
<1>8. CASE UploadBegins(r)
  BY <1>8 DEF UploadBegins
<1>9. CASE UploadTagged(r)
  BY <1>9, <1>b DEF UploadTagged
<1>10. CASE UploadFails(r)
  BY <1>10, <1>b, TaggingAssumption DEF UploadFails
<1> QED BY <1>1, <1>2, <1>3, <1>4, <1>5, <1>6, <1>7, <1>8, <1>9, <1>10 DEF JobStep

\* So does copying tags to the file.
LEMMA SyncTypes ==
  ASSUME TaggingTypeOK, NEW a \in Actors, SyncStep(a)
  PROVE  TaggingTypeOK'
<1> USE ActorsDiffer DEF TaggingTypeOK, Flaw, Go, Ends, Mark, Trouble
<1>b. Blank \in Columns
  BY DEF Blank, Columns
<1>1. CASE SyncReads(a)
  BY <1>1, <1>b DEF SyncReads
<1>2. CASE SyncWrites(a)
  <2>1. [params[a] EXCEPT !.tags = keep[a]] \in Columns
    BY DEF Columns
  <2> QED BY <1>2, <1>b, <2>1 DEF SyncWrites
<1>3. CASE SyncFails(a)
  BY <1>3, <1>b, TaggingAssumption DEF SyncFails
<1> QED BY <1>1, <1>2, <1>3 DEF SyncStep

\* So does every call.
LEMMA CallTypes ==
  ASSUME TaggingTypeOK, NEW h \in People, Call(h)
  PROVE  TaggingTypeOK'
<1> h \in Actors /\ h \in TagSets
  BY ActorsDiffer
<1> USE ActorsDiffer, TaggingAssumption
    DEF TaggingTypeOK, TaggingStates, Unfinished, Retryable, Flaw, Go, Ends, Mark, Trouble
<1>b. Blank \in Columns
  BY DEF Blank, Columns
<1>1. CASE Approve(h)
  BY <1>1 DEF Approve, Verdict
<1>2. CASE Reject(h)
  BY <1>2 DEF Reject, Verdict
<1>3. CASE Retry(h)
  <2>1. troubles' \in 0..MaxTroubles
    BY <1>3 DEF Retry
  <2>2. flaws' \subseteq Flaw
    BY <1>3 DEF Retry
  <2>3. does' \in [Actors -> Places]
    BY <1>3 DEF Retry, Places
  <2> QED BY <1>3, <2>1, <2>2, <2>3 DEF Retry, Places
<1>4. CASE Delete(h)
  BY <1>4 DEF Delete
<1>5. CASE AutoTag(h)
  BY <1>5 DEF AutoTag
<1>6. CASE AutoTagged(h)
  <2>1. [params[h] EXCEPT !.tags = h] \in Columns
    BY DEF Columns
  <2> QED BY <1>6, <1>b, <2>1 DEF AutoTagged
<1> QED BY <1>1, <1>2, <1>3, <1>4, <1>5, <1>6 DEF Call

\* So does every step.
LEMMA TaggingTypeStep == TaggingTypeOK /\ [TaggingNext]_taggingVars => TaggingTypeOK'
<1> SUFFICES ASSUME TaggingTypeOK, [TaggingNext]_taggingVars PROVE TaggingTypeOK'
  OBVIOUS
<1> USE ActorsDiffer, TaggingAssumption
<1>b. Blank \in Columns
  BY DEF Blank, Columns
<1>1. ASSUME NEW r \in Jobs, JobStep(r) \/ JobCancelled(r) PROVE TaggingTypeOK'
  BY <1>1, JobTypes
<1>2. ASSUME NEW a \in Actors, SyncStep(a) PROVE TaggingTypeOK'
  BY <1>2, SyncTypes
<1>3. ASSUME NEW h \in People, Call(h) PROVE TaggingTypeOK'
  BY <1>3, CallTypes
<1>4. CASE BatchTag \/ UploadAndTag
  <2>1. troubles' \in 0..MaxTroubles
    BY <1>4 DEF BatchTag, UploadAndTag, AddTask, TaggingTypeOK, Trouble
  <2>2. flaws' \subseteq Flaw
    BY <1>4 DEF BatchTag, UploadAndTag, AddTask, TaggingTypeOK, Mark, Flaw
  <2>3. does' \in [Actors -> Places]
    BY <1>4 DEF BatchTag, UploadAndTag, AddTask, TaggingTypeOK, Go, Places
  <2> QED BY <1>4, <2>1, <2>2, <2>3 
             DEF BatchTag, UploadAndTag, AddTask, TaggingTypeOK, TaggingStates, Unfinished, Places
<1>5. CASE RewriteReads
  BY <1>5 DEF RewriteReads, TaggingTypeOK
<1>6. CASE RewriteWrites
  <2>1. \A cached \in {held.cached, TRUE} : [held EXCEPT !.cached = cached] \in Columns
    BY DEF Columns, TaggingTypeOK
  <2> QED BY <1>6, <1>b, <2>1 DEF RewriteWrites, TaggingTypeOK, Replace, Mark, Flaw
<1>7. CASE FileDeleted
  <2>1. troubles' \in 0..MaxTroubles
    BY <1>7 DEF FileDeleted, TaggingTypeOK, Trouble
  <2> QED BY <1>7, <2>1 DEF FileDeleted, TaggingTypeOK
<1>8. CASE ProcessRestarts
  <2>1. troubles' \in 0..MaxTroubles
    BY <1>8 DEF ProcessRestarts, TaggingTypeOK, Trouble
  <2>2. flaws' \subseteq Flaw
    BY <1>8 DEF ProcessRestarts, TaggingTypeOK, Mark, Flaw
  <2>3. does' \in [Actors -> Places]
    BY <1>8 DEF ProcessRestarts, TaggingTypeOK, Places
  <2> QED BY <1>8, <1>b, <2>1, <2>2, <2>3 DEF ProcessRestarts, TaggingTypeOK, Places
<1>9. CASE UNCHANGED taggingVars
  BY <1>9 DEF taggingVars, TaggingTypeOK
<1> QED BY <1>1, <1>2, <1>3, <1>4, <1>5, <1>6, <1>7, <1>8, <1>9 DEF TaggingNext

\* Every variable holds a value of its kind, however many jobs and calls there are.
THEOREM TaggingTypeCorrect == TaggingSpec => []TaggingTypeOK
BY TaggingTypeInit, TaggingTypeStep, PTL DEF TaggingSpec

-----------------------------------------------------------------------------
(* One job at a time *)

BusyJob(r) == does[r] \in Busy

\* No job is at a task that is new or ended with an error, and no two are at any other.
OneRunInv ==
  "rerun" \notin flaws =>
    /\ \A q, r \in Jobs : BusyJob(q) /\ BusyJob(r) => q = r
    /\ status \in {"new", "error_preprocessing", "error_tagging"} => \A r \in Jobs : ~BusyJob(r)

LEMMA OneRunInit == TaggingInit => OneRunInv
BY ActorsDiffer DEF TaggingInit, OneRunInv, BusyJob, Busy

\* An action that neither starts a job nor gives the task such a status keeps it.
LEMMA OneRunKept ==
  ASSUME OneRunInv, flaws \subseteq flaws',
         \A r \in Jobs : BusyJob(r)' => BusyJob(r),
         status' = status \/ status' \notin {"new", "error_preprocessing", "error_tagging"}
                          \/ \A r \in Jobs : ~BusyJob(r)'
  PROVE  OneRunInv'
BY DEF OneRunInv

LEMMA OneRunStep == TaggingTypeOK /\ OneRunInv /\ [TaggingNext]_taggingVars => OneRunInv'
<1> SUFFICES ASSUME TaggingTypeOK, OneRunInv, [TaggingNext]_taggingVars PROVE OneRunInv'
  OBVIOUS
<1> USE ActorsDiffer
<1>1. ASSUME NEW r \in Jobs, JobStep(r) \/ JobCancelled(r) PROVE OneRunInv'
  <2>1. BusyJob(r)
    BY <1>1 DEF JobStep, JobBegins, JobLoads, JobFetches, JobTags, JobStores, JobFails,
                UploadBegins, UploadTagged, UploadFails, JobCancelled,
                BusyJob, Busy
  <2>2. \A q \in Jobs : BusyJob(q)' => BusyJob(q)
    BY <1>1, <2>1 DEF JobStep, JobBegins, JobLoads, JobFetches, JobTags, JobStores, JobFails,
                UploadBegins, UploadTagged, UploadFails,
                JobCancelled, Decide, Go, Ends, BusyJob, Busy, TaggingTypeOK
  <2>3. flaws \subseteq flaws'
    BY <1>1 DEF JobStep, JobBegins, JobLoads, JobFetches, JobTags, JobStores, JobFails,
                UploadBegins, UploadTagged, UploadFails,
                JobCancelled, Mark, Replace
  <2>4. CASE status' = status \/ status' \notin {"new", "error_preprocessing", "error_tagging"}
    BY <2>2, <2>3, <2>4, OneRunKept
  <2>5. CASE ~BusyJob(r)'
    <3>1. CASE "rerun" \in flaws
      BY <2>3, <3>1 DEF OneRunInv
    <3>2. CASE "rerun" \notin flaws
      <4>1. \A q \in Jobs : ~BusyJob(q)'
        BY <2>1, <2>2, <2>5, <3>2 DEF OneRunInv
      <4> QED BY <4>1 DEF OneRunInv
    <3> QED BY <3>1, <3>2
  <2>6. \/ status' = status \/ status' \notin {"new", "error_preprocessing", "error_tagging"}
        \/ ~BusyJob(r)'
    BY <1>1 DEF JobStep, JobBegins, JobLoads, JobFetches, JobTags, JobStores, JobFails,
                UploadBegins, UploadTagged, UploadFails,
                JobCancelled, Decide, Go, Ends, UpdateTask, BusyJob, Busy, TaggingTypeOK
  <2> QED BY <2>4, <2>5, <2>6
<1>2. ASSUME NEW a \in Actors, SyncStep(a) PROVE OneRunInv'
  <2>1. /\ \A q \in Jobs : BusyJob(q)' => BusyJob(q)
        /\ status' = status /\ flaws \subseteq flaws'
    BY <1>2 DEF SyncStep, SyncReads, SyncWrites, SyncFails, Go, Ends, Mark, BusyJob, Busy,
                TaggingTypeOK
  <2> QED BY <2>1, OneRunKept
<1>3. ASSUME NEW h \in People, Call(h), ~Retry(h) PROVE OneRunInv'
  <2> h \in Actors
    OBVIOUS
  <2>1. \A q \in Jobs : BusyJob(q)' => BusyJob(q)
    BY <1>3 DEF Call, Approve, Reject, Delete, AutoTag, AutoTagged, Verdict, Go, Ends, BusyJob, Busy,
                TaggingTypeOK
  <2>2. flaws \subseteq flaws'
    BY <1>3 DEF Call, Approve, Reject, Delete, AutoTag, AutoTagged, Verdict, Mark
  <2>3. status' = status \/ status' \in {"approved", "rejected", "deleted"}
    BY <1>3 DEF Call, Approve, Reject, Delete, AutoTag, AutoTagged, Verdict
  <2> QED BY <2>1, <2>2, <2>3, OneRunKept
<1>4. ASSUME NEW h \in People, Retry(h) PROVE OneRunInv'
  <2>1. status \in {"error_preprocessing", "error_tagging", "rejected"} /\ status' = "pending"
    BY <1>4 DEF Retry, Retryable
  <2>2. h \notin Jobs /\ h \in Actors
    OBVIOUS
  <2>3. CASE "rerun" \in flaws'
    BY <2>3 DEF OneRunInv
  <2>4. CASE "rerun" \notin flaws'
    <3>1. "rerun" \notin flaws
      BY <1>4, <2>4 DEF Retry, Mark
    <3>2. CASE \A q \in Jobs : BusyJob(q)' => BusyJob(q)
      BY <2>1, <3>1, <3>2 DEF OneRunInv
    <3>3. ASSUME NEW r \in Jobs, does' = [does EXCEPT ![r] = "queued", ![h] = "done"],
                 Mark(IF status = "rejected" /\ Going # {} THEN {"rerun"} ELSE {})
          PROVE  OneRunInv'
      <4>1. ~(status = "rejected" /\ Going # {})
        BY <2>4, <3>3 DEF Mark
      <4>2. \A q \in Jobs : ~BusyJob(q)
        BY <2>1, <3>1, <4>1 DEF OneRunInv, Going, BusyJob, Busy
      <4>3. \A q \in Jobs : BusyJob(q)' => q = r
        BY <2>2, <3>3, <4>2 DEF BusyJob, Busy, TaggingTypeOK
      <4> QED BY <2>1, <4>3 DEF OneRunInv
    <3>4. \/ \E r \in Jobs : /\ does' = [does EXCEPT ![r] = "queued", ![h] = "done"]
                             /\ Mark(IF status = "rejected" /\ Going # {} THEN {"rerun"} ELSE {})
          \/ Go(h, "done")
      BY <1>4 DEF Retry
    <3>5. Go(h, "done") => \A q \in Jobs : BusyJob(q)' => BusyJob(q)
      BY <2>2 DEF Go, BusyJob, TaggingTypeOK
    <3> QED BY <3>2, <3>3, <3>4, <3>5
  <2> QED BY <2>3, <2>4
<1>5. CASE BatchTag \/ UploadAndTag
  <2>1. \A q \in Jobs : BusyJob(q)' => BusyJob(q) \/ q = 1
    BY <1>5 DEF BatchTag, UploadAndTag, AddTask, Go, BusyJob, Busy, TaggingTypeOK
  <2>2. flaws \subseteq flaws' /\ status = "new" /\ status' = "pending"
    BY <1>5 DEF BatchTag, UploadAndTag, AddTask, Mark
  <2> QED BY <2>1, <2>2 DEF OneRunInv
<1>6. CASE RewriteReads \/ RewriteWrites \/ FileDeleted \/ UNCHANGED taggingVars
  <2>1. UNCHANGED <<status, does>> /\ flaws \subseteq flaws'
    BY <1>6 DEF RewriteReads, RewriteWrites, FileDeleted, Replace, Mark, taggingVars
  <2> QED BY <2>1, OneRunKept DEF BusyJob
<1>7. CASE ProcessRestarts
  <2>1. \A q \in Jobs : ~BusyJob(q)'
    BY <1>7 DEF ProcessRestarts, BusyJob, Busy
  <2> QED BY <2>1 DEF OneRunInv
<1> QED BY <1>1, <1>2, <1>3, <1>4, <1>5, <1>6, <1>7 DEF TaggingNext

\* A set of which no two members differ has at most one.
LEMMA AtMostOne ==
  ASSUME NEW S, \A x, y \in S : x = y
  PROVE  Cardinality(S) <= 1
<1>1. CASE S = {}
  BY <1>1, FS_EmptySet
<1>2. CASE S # {}
  <2>1. PICK x \in S : S = {x}
    BY <1>2
  <2>2. Cardinality({x}) = 1
    BY FS_Singleton
  <2> QED BY <2>1, <2>2
<1> QED BY <1>1, <1>2

\* A task is run by one job at a time, unless it was rejected and retried while a job
\* was at it.
THEOREM OneRunAtATime == TaggingSpec => []OneRun
<1>1. TaggingTypeOK /\ OneRunInv => OneRun
  BY AtMostOne DEF OneRun, OneRunInv, Going, BusyJob, Busy
<1> QED BY <1>1, OneRunInit, OneRunStep, TaggingTypeCorrect, PTL DEF TaggingSpec

-----------------------------------------------------------------------------
(* A task is never left behind *)

\* A step that keeps the jobs at the task, and its status or at least one that is
\* settled, keeps it served.
LEMMA ServedKept ==
  ASSUME TaskServed, flaws \subseteq flaws',
         \A r \in Jobs : BusyJob(r) => BusyJob(r)',
         status' = status \/ status' \notin Unfinished
  PROVE  TaskServed'
BY DEF TaskServed, Going, BusyJob, Busy

LEMMA ServedStep == TaggingTypeOK /\ TaskServed /\ [TaggingNext]_taggingVars => TaskServed'
<1> SUFFICES ASSUME TaggingTypeOK, TaskServed, [TaggingNext]_taggingVars PROVE TaskServed'
  OBVIOUS
<1> USE ActorsDiffer
<1>1. ASSUME NEW r \in Jobs, JobStep(r), ~UploadFails(r) PROVE TaskServed'
  <2>1. BusyJob(r)' \/ status' \notin Unfinished
    <3>1. CASE JobBegins(r) \/ JobLoads(r) \/ JobFetches(r)
      BY <3>1 DEF JobBegins, JobLoads, JobFetches, UpdateTask, Go, BusyJob, Busy, Unfinished, TaggingTypeOK
    <3>2. CASE JobTags(r) \/ JobStores(r)
      BY <3>2 DEF JobTags, JobStores, Decide, UpdateTask, Go, BusyJob, Busy, Unfinished, TaggingTypeOK
    <3>3. CASE JobFails(r)
      BY <3>3 DEF JobFails, UpdateTask, Unfinished
    <3>4. CASE UploadBegins(r) \/ UploadTagged(r)
      BY <3>4 DEF UploadBegins, UploadTagged, UpdateTask, Go, BusyJob, Busy, Unfinished, TaggingTypeOK
    <3> QED BY <1>1, <3>1, <3>2, <3>3, <3>4 DEF JobStep
  <2> QED BY <2>1 DEF TaskServed, Going, BusyJob, Busy
<1>2. ASSUME NEW r \in Jobs, JobCancelled(r) \/ UploadFails(r) PROVE TaskServed'
  BY <1>2 DEF JobCancelled, UploadFails, Mark, TaskServed
<1>3. ASSUME NEW a \in Actors, SyncStep(a) PROVE TaskServed'
  <2>1. /\ \A q \in Jobs : BusyJob(q) => BusyJob(q)'
        /\ status' = status /\ flaws \subseteq flaws'
    BY <1>3 DEF SyncStep, SyncReads, SyncWrites, SyncFails, Go, Ends, Mark, BusyJob, Busy,
                TaggingTypeOK
  <2> QED BY <2>1, ServedKept
<1>4. ASSUME NEW h \in People, Call(h), ~Retry(h) PROVE TaskServed'
  <2> h \in Actors /\ h \notin Jobs
    OBVIOUS
  <2>1. \A q \in Jobs : BusyJob(q) => BusyJob(q)'
    BY <1>4 DEF Call, Approve, Reject, Delete, AutoTag, AutoTagged, Verdict, Go, Ends, BusyJob, Busy,
                TaggingTypeOK
  <2>2. flaws \subseteq flaws'
    BY <1>4 DEF Call, Approve, Reject, Delete, AutoTag, AutoTagged, Verdict, Mark
  <2>3. status' = status \/ status' \in {"approved", "rejected", "deleted"}
    BY <1>4 DEF Call, Approve, Reject, Delete, AutoTag, AutoTagged, Verdict
  <2> QED BY <2>1, <2>2, <2>3, ServedKept DEF Unfinished
<1>5. ASSUME NEW h \in People, Retry(h) PROVE TaskServed'
  <2> h \in Actors /\ h \notin Jobs
    OBVIOUS
  <2>1. ASSUME NEW r \in Jobs, does' = [does EXCEPT ![r] = "queued", ![h] = "done"] PROVE TaskServed'
    <3>1. BusyJob(r)'
      BY <2>1 DEF BusyJob, Busy, TaggingTypeOK
    <3> QED BY <3>1 DEF TaskServed, Going, BusyJob, Busy
  <2>2. CASE "dropped" \in flaws'
    BY <2>2 DEF TaskServed
  <2> QED BY <1>5, <2>1, <2>2 DEF Retry, Mark
<1>6. CASE BatchTag \/ UploadAndTag
  <2>1. CASE Go(1, "queued") \/ Go(1, "upload")
    <3>1. BusyJob(1)'
      BY <2>1 DEF Go, BusyJob, Busy, TaggingTypeOK
    <3> QED BY <3>1 DEF TaskServed, Going, BusyJob, Busy
  <2> QED BY <1>6, <2>1 DEF BatchTag, UploadAndTag, AddTask, Mark, TaskServed
<1>7. CASE RewriteReads \/ RewriteWrites \/ FileDeleted \/ UNCHANGED taggingVars
  <2>1. UNCHANGED <<status, does>> /\ flaws \subseteq flaws'
    BY <1>7 DEF RewriteReads, RewriteWrites, FileDeleted, Replace, Mark, taggingVars
  <2> QED BY <2>1, ServedKept DEF BusyJob
<1>8. CASE ProcessRestarts
  <2>1. Going # {} => "dropped" \in flaws'
    BY <1>8 DEF ProcessRestarts, Mark
  <2>2. status' = status /\ flaws \subseteq flaws'
    BY <1>8 DEF ProcessRestarts, Mark
  <2> QED BY <2>1, <2>2 DEF TaskServed
<1> QED BY <1>1, <1>2, <1>3, <1>4, <1>5, <1>6, <1>7, <1>8 DEF TaggingNext

\* A task that waits or runs has a job that will change its status, unless that job was
\* lost before its end, or was an upload's and failed.
THEOREM TasksAreServed == TaggingSpec => []TaskServed
<1>1. TaggingInit => TaskServed
  BY DEF TaggingInit, TaskServed, Unfinished
<1> QED BY <1>1, ServedStep, TaggingTypeCorrect, PTL DEF TaggingSpec

-----------------------------------------------------------------------------
(* The last word *)

\* After a verdict that crossed no job there is none: nobody but a retry starts one.
LastWordInv ==
  decided # "none" /\ "overrun" \notin flaws =>
    status = decided /\ \A r \in Jobs : ~BusyJob(r)

LEMMA LastWordInit == TaggingInit => LastWordInv
BY DEF TaggingInit, LastWordInv

LEMMA LastWordKept ==
  ASSUME LastWordInv, flaws \subseteq flaws', UNCHANGED <<status, decided>>,
         \A r \in Jobs : BusyJob(r)' => BusyJob(r)
  PROVE  LastWordInv'
BY DEF LastWordInv

LEMMA LastWordStep == TaggingTypeOK /\ LastWordInv /\ [TaggingNext]_taggingVars => LastWordInv'
<1> SUFFICES ASSUME TaggingTypeOK, LastWordInv, [TaggingNext]_taggingVars PROVE LastWordInv'
  OBVIOUS
<1> USE ActorsDiffer
<1>1. ASSUME NEW r \in Jobs, JobStep(r) \/ JobCancelled(r) PROVE LastWordInv'
  <2>1. BusyJob(r)
    BY <1>1 DEF JobStep, JobBegins, JobLoads, JobFetches, JobTags, JobStores, JobFails,
                UploadBegins, UploadTagged, UploadFails, JobCancelled,
                BusyJob, Busy
  <2>2. flaws \subseteq flaws' /\ UNCHANGED decided
    BY <1>1 DEF JobStep, JobBegins, JobLoads, JobFetches, JobTags, JobStores, JobFails,
                UploadBegins, UploadTagged, UploadFails,
                JobCancelled, Mark, Replace
  <2> QED BY <2>1, <2>2 DEF LastWordInv
<1>2. ASSUME NEW a \in Actors, SyncStep(a) PROVE LastWordInv'
  <2>1. /\ \A q \in Jobs : BusyJob(q)' => BusyJob(q)
        /\ UNCHANGED <<status, decided>> /\ flaws \subseteq flaws'
    BY <1>2 DEF SyncStep, SyncReads, SyncWrites, SyncFails, Go, Ends, Mark, BusyJob, Busy,
                TaggingTypeOK
  <2> QED BY <2>1, LastWordKept
<1>3. ASSUME NEW h \in People, Approve(h) \/ Reject(h) PROVE LastWordInv'
  <2> h \in Actors
    OBVIOUS
  <2>1. CASE Going = {}
    <3>1. \A q \in Jobs : ~BusyJob(q)
      BY <2>1 DEF Going, BusyJob, Busy
    <3>2. \A q \in Jobs : ~BusyJob(q)'
      BY <1>3, <3>1 DEF Approve, Reject, Go, BusyJob, Busy, TaggingTypeOK
    <3>3. status' = decided'
      BY <1>3 DEF Approve, Reject, Verdict
    <3> QED BY <3>2, <3>3 DEF LastWordInv
  <2>2. CASE Going # {}
    BY <1>3, <2>2 DEF Approve, Reject, Verdict, Mark, LastWordInv
  <2> QED BY <2>1, <2>2
<1>4. ASSUME NEW h \in People, Retry(h) \/ Delete(h) PROVE LastWordInv'
  BY <1>4 DEF Retry, Delete, LastWordInv
<1>5. ASSUME NEW h \in People, AutoTag(h) \/ AutoTagged(h) PROVE LastWordInv'
  <2>1. /\ \A q \in Jobs : BusyJob(q)' => BusyJob(q)
        /\ UNCHANGED <<status, decided>> /\ flaws \subseteq flaws'
    BY <1>5 DEF AutoTag, AutoTagged, Go, Ends, Mark, BusyJob, Busy, TaggingTypeOK
  <2> QED BY <2>1, LastWordKept
<1>6. CASE BatchTag \/ UploadAndTag
  <2>1. decided \notin {"approved", "rejected"} \/ "overrun" \in flaws
    BY <1>6 DEF BatchTag, UploadAndTag, AddTask, LastWordInv
  <2>2. flaws \subseteq flaws' /\ UNCHANGED decided
    BY <1>6 DEF BatchTag, UploadAndTag, AddTask, Mark
  <2> QED BY <2>1, <2>2 DEF LastWordInv, TaggingTypeOK
<1>7. CASE RewriteReads \/ RewriteWrites \/ FileDeleted \/ UNCHANGED taggingVars
  <2>1. UNCHANGED <<status, does, decided>> /\ flaws \subseteq flaws'
    BY <1>7 DEF RewriteReads, RewriteWrites, FileDeleted, Replace, Mark, taggingVars
  <2> QED BY <2>1, LastWordKept DEF BusyJob
<1>8. CASE ProcessRestarts
  <2>1. \A q \in Jobs : ~BusyJob(q)'
    BY <1>8 DEF ProcessRestarts, BusyJob, Busy
  <2> QED BY <1>8, <2>1, LastWordKept DEF ProcessRestarts, Mark
<1> QED BY <1>1, <1>2, <1>3, <1>4, <1>5, <1>6, <1>7, <1>8 DEF TaggingNext, Call

\* A person has the last word: the verdict stands until somebody retries or deletes
\* the task, unless a job was already at it when the verdict was given.
THEOREM TheLastWord == TaggingSpec => []LastWord
<1>1. LastWordInv => LastWord
  BY DEF LastWordInv, LastWord
<1> QED BY <1>1, LastWordInit, LastWordStep, TaggingTypeCorrect, PTL DEF TaggingSpec

-----------------------------------------------------------------------------
(* The tags reach the file *)

Copies(a) == does[a] \in {"sync", "write"} /\ keep[a] = tags
Excused == flaws \cap {"stale", "late", "unsynced", "retagged"} # {}

\* The tags of an approved task are at the file, or somebody is on the way with them;
\* a call that will write the column back has read it as it is, or will be seen to be stale.
TagsInv == status = "approved" /\ exists /\ ~Excused => file.tags = tags \/ \E a \in Actors : Copies(a)

\* What is uploaded for its tags alone is no file of the knowledge base.
UploadInv == \A r \in Jobs : does[r] \in {"upload", "uptag"} => ~exists

LEMMA UploadInit == TaggingInit => UploadInv
BY ActorsDiffer DEF TaggingInit, UploadInv

LEMMA UploadStep == TaggingTypeOK /\ UploadInv /\ [TaggingNext]_taggingVars => UploadInv'
<1> SUFFICES ASSUME TaggingTypeOK, UploadInv, [TaggingNext]_taggingVars PROVE UploadInv'
  OBVIOUS
<1> USE ActorsDiffer DEF Go, Ends, TaggingTypeOK
<1>1. exists' => exists
  BY DEF TaggingNext, JobStep, SyncStep, Call, JobBegins, JobLoads, JobFetches, JobTags, JobStores,
         JobFails, JobCancelled, UploadBegins, UploadTagged, UploadFails, SyncReads, SyncWrites,
         SyncFails, Approve, Reject, Retry, Delete, AutoTag, AutoTagged, BatchTag, UploadAndTag, AddTask,
         RewriteReads, RewriteWrites, FileDeleted, ProcessRestarts, taggingVars
<1>2. ASSUME NEW r \in Jobs, JobStep(r) \/ JobCancelled(r) PROVE UploadInv'
  <2>1. \A q \in Jobs : does[q]' \in {"upload", "uptag"} => does[q] \in {"upload", "uptag"}
    BY <1>2 DEF JobStep, JobBegins, JobLoads, JobFetches, JobTags, JobStores, JobFails, Decide,
                JobCancelled, UploadBegins, UploadTagged, UploadFails
  <2> QED BY <1>1, <2>1 DEF UploadInv
<1>3. ASSUME NEW a \in Actors, SyncStep(a) PROVE UploadInv'
  BY <1>1, <1>3 DEF SyncStep, SyncReads, SyncWrites, SyncFails, UploadInv
<1>4. ASSUME NEW h \in People, Call(h) PROVE UploadInv'
  BY <1>1, <1>4 DEF Call, Approve, Reject, Retry, Delete, AutoTag, AutoTagged, UploadInv
<1>5. CASE BatchTag
  BY <1>1, <1>5 DEF BatchTag, AddTask, UploadInv
<1>6. CASE UploadAndTag
  BY <1>6 DEF UploadAndTag, AddTask, UploadInv
<1>7. CASE RewriteReads \/ RewriteWrites \/ FileDeleted \/ ProcessRestarts \/ UNCHANGED taggingVars
  BY <1>1, <1>7 DEF RewriteReads, RewriteWrites, FileDeleted, ProcessRestarts, taggingVars, UploadInv
<1> QED BY <1>2, <1>3, <1>4, <1>5, <1>6, <1>7 DEF TaggingNext

LEMMA TagsInit == TaggingInit => TagsInv
BY DEF TaggingInit, TagsInv

LEMMA TagsStep == TaggingTypeOK /\ UploadInv /\ TagsInv /\ [TaggingNext]_taggingVars => TagsInv'
<1> SUFFICES ASSUME TaggingTypeOK, UploadInv, TagsInv, [TaggingNext]_taggingVars PROVE TagsInv'
  OBVIOUS
<1> USE ActorsDiffer
<1>1. ASSUME NEW r \in Jobs, Decide(r), exists' = exists,
             \/ UNCHANGED <<file, flaws>>
             \/ Replace(params[r], [params[r] EXCEPT !.cached = TRUE])
      PROVE  TagsInv'
  <2>1. CASE status' # "approved"
    BY <2>1 DEF TagsInv
  <2>2. CASE status' = "approved"
    <3>1. does' = [does EXCEPT ![r] = "sync"] /\ keep' = [keep EXCEPT ![r] = r] /\ tags' = r
      BY <1>1, <2>2 DEF Decide, UpdateTask, Go
    <3>2. Copies(r)'
      BY <3>1 DEF Copies, TaggingTypeOK
    <3> QED BY <3>2 DEF TagsInv
  <2> QED BY <2>1, <2>2
<1>2. ASSUME NEW r \in Jobs, JobTags(r) \/ JobStores(r) PROVE TagsInv'
  <2>1. CASE Decide(r)
    BY <1>1, <1>2, <2>1 DEF JobTags, JobStores
  <2>2. CASE does[r] = "tag" /\ Go(r, "store") /\ UNCHANGED <<status, tags, params, keep, file, exists, flaws>>
    <3>1. \A a \in Actors : Copies(a) => Copies(a)'
      BY <2>2 DEF Copies, Go, TaggingTypeOK
    <3> QED BY <2>2, <3>1 DEF TagsInv, Excused
  <2> QED BY <1>2, <2>1, <2>2 DEF JobTags, JobStores
<1>3. ASSUME NEW r \in Jobs, \/ JobBegins(r) \/ JobLoads(r) \/ JobFetches(r) \/ JobFails(r) \/ JobCancelled(r)
                             \/ UploadBegins(r) \/ UploadFails(r)
      PROVE  TagsInv'
  <2>1. status' = "approved" => status = "approved"
    BY <1>3 DEF JobBegins, JobLoads, JobFetches, JobFails, JobCancelled,
                UploadBegins, UploadFails, UpdateTask
  <2>2. UNCHANGED <<file, exists, tags>> /\ flaws \subseteq flaws'
    BY <1>3 DEF JobBegins, JobLoads, JobFetches, JobFails, JobCancelled, UploadBegins, UploadFails, Mark
  <2>3. \A a \in Actors : Copies(a) => Copies(a)'
    BY <1>3 DEF JobBegins, JobLoads, JobFetches, JobFails, JobCancelled, UploadBegins, UploadFails,
                Go, Ends, Copies, TaggingTypeOK
  <2> QED BY <2>1, <2>2, <2>3 DEF TagsInv, Excused
<1>4. ASSUME NEW a \in Actors, SyncReads(a) PROVE TagsInv'
  <2>1. CASE ~exists
    BY <1>4, <2>1 DEF SyncReads, TagsInv
  <2>2. CASE exists
    <3>1. \A b \in Actors : Copies(b) => Copies(b)'
      BY <1>4, <2>2 DEF SyncReads, Go, Copies, TaggingTypeOK
    <3> QED BY <1>4, <3>1 DEF SyncReads, TagsInv, Excused
  <2> QED BY <2>1, <2>2 DEF TaggingTypeOK
<1>5. ASSUME NEW a \in Actors, SyncWrites(a) PROVE TagsInv'
  <2>1. UNCHANGED <<status, tags, exists>>
    BY <1>5 DEF SyncWrites
  <2>2. CASE exists /\ tags = keep[a]
    <3>1. file'.tags = tags'
      BY <1>5, <2>2 DEF SyncWrites, TaggingTypeOK, Columns
    <3> QED BY <3>1 DEF TagsInv
  <2>3. CASE exists /\ tags # keep[a]
    <3>1. "late" \in flaws'
      BY <1>5, <2>3 DEF SyncWrites, Mark
    <3> QED BY <3>1 DEF TagsInv, Excused
  <2>4. CASE ~exists
    BY <2>1, <2>4 DEF TagsInv
  <2> QED BY <2>2, <2>3, <2>4
<1>6. ASSUME NEW a \in Actors, SyncFails(a) PROVE TagsInv'
  BY <1>6 DEF SyncFails, Mark, TagsInv, Excused
<1>7. ASSUME NEW h \in People, Approve(h) PROVE TagsInv'
  <2>1. Copies(h)'
    BY <1>7 DEF Approve, Go, Copies, TaggingTypeOK
  <2> QED BY <2>1 DEF TagsInv
<1>8. ASSUME NEW h \in People, Reject(h) \/ Retry(h) \/ Delete(h) PROVE TagsInv'
  BY <1>8 DEF Reject, Verdict, Retry, Delete, TagsInv
<1>9. ASSUME NEW h \in People, AutoTag(h) PROVE TagsInv'
  <2>1. \A b \in Actors : Copies(b) => Copies(b)'
    BY <1>9 DEF AutoTag, Comes, Go, Copies, TaggingTypeOK
  <2> QED BY <1>9, <2>1 DEF AutoTag, TagsInv, Excused
<1>10. ASSUME NEW h \in People, AutoTagged(h) PROVE TagsInv'
  <2>1. \A b \in Actors : Copies(b) => Copies(b)'
    BY <1>10 DEF AutoTagged, Ends, Go, Copies, TaggingTypeOK
  <2>2. CASE "retagged" \in flaws'
    BY <2>2 DEF TagsInv, Excused
  <2>3. CASE UNCHANGED <<file, flaws>>
    BY <1>10, <2>1, <2>3 DEF AutoTagged, TagsInv, Excused
  <2> QED BY <1>10, <2>2, <2>3 DEF AutoTagged, Mark
<1>11. CASE BatchTag \/ UploadAndTag \/ FileDeleted
  BY <1>11 DEF BatchTag, UploadAndTag, AddTask, FileDeleted, TagsInv
<1>12. CASE RewriteReads \/ UNCHANGED taggingVars
  BY <1>12 DEF RewriteReads, taggingVars, TagsInv, Copies, Excused
<1>13. CASE RewriteWrites
  <2>1. UNCHANGED <<status, tags, exists, does, keep>>
    BY <1>13 DEF RewriteWrites
  <2>2. CASE exists /\ file # held
    BY <1>13, <2>2 DEF RewriteWrites, Replace, Mark, TagsInv, Excused
  <2>3. CASE exists /\ file = held
    <3>1. file'.tags = file.tags /\ flaws \subseteq flaws'
      BY <1>13, <2>3 DEF RewriteWrites, Replace, Mark, TaggingTypeOK, Columns
    <3> QED BY <2>1, <3>1 DEF TagsInv, Copies, Excused
  <2>4. CASE ~exists
    BY <2>1, <2>4 DEF TagsInv
  <2> QED BY <2>2, <2>3, <2>4
<1>14. CASE ProcessRestarts
  <2>1. CASE \E a \in Actors : Copies(a)
    BY <1>14, <2>1 DEF ProcessRestarts, Mark, Copies, TagsInv, Excused
  <2>2. CASE ~\E a \in Actors : Copies(a)
    BY <1>14, <2>2 DEF ProcessRestarts, Mark, TagsInv, Excused
  <2> QED BY <2>1, <2>2
<1>15. ASSUME NEW r \in Jobs, UploadTagged(r) PROVE TagsInv'
  BY <1>15 DEF UploadTagged, UploadInv, TagsInv
<1> QED BY <1>15, <1>2, <1>3, <1>4, <1>5, <1>6, <1>7, <1>8, <1>9, <1>10, <1>11, <1>12, <1>13, <1>14
        DEF TaggingNext, Call, JobStep, SyncStep

\* The tags of an approved task are those of the file when nobody is at work any more,
\* with the exceptions that flaws names.
THEOREM TheTagsReachTheFile == TaggingSpec => []TagsReachFile
<1>1. TagsInv => TagsReachFile
  <2> SUFFICES ASSUME TagsInv, Settled, exists, status = "approved", ~Excused PROVE file.tags = tags
    BY DEF TagsReachFile, Excused
  <2>1. \A a \in Actors : ~Copies(a)
    BY DEF Settled, Copies
  <2> QED BY <2>1 DEF TagsInv
<1> QED BY <1>1, TagsInit, TagsStep, UploadInit, UploadStep, TaggingTypeCorrect, PTL DEF TaggingSpec
=============================================================================
