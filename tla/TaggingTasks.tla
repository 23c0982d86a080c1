---------------------------- MODULE TaggingTasks ----------------------------
(***************************************************************************)
(* One tagging task of one file: its record in the task file, the jobs of   *)
(* the background task service that run it, the people who approve, reject, *)
(* retry and delete it meanwhile, and the tags and the cached text in the   *)
(* row of the knowledge base file, which are kept in one JSON column that   *)
(* every writer replaces as a whole.                                        *)
(*                                                                          *)
(* The lock of the task file is never held across an await, so that what    *)
(* stands between two awaits is one step: reading a status and updating it  *)
(* included.                                                                *)
(***************************************************************************)
EXTENDS Integers, FiniteSets

CONSTANTS
  NumJobs,      \* jobs that can be started for the task
  NumPeople,     \* calls people make
  MaxTroubles   \* bound: failures, cancelled jobs and restarts

ASSUME TaggingAssumption ==
  NumJobs \in Nat \ {0} /\ NumPeople \in Nat /\ MaxTroubles \in Nat

Jobs == 1..NumJobs
People == NumJobs+1 .. NumJobs+NumPeople
Actors == Jobs \cup People

\* Whose tags they are: a job's, those a person has edited, or none.
NoTags == 0
TagSets == Actors \cup {NoTags}

VARIABLES
  status,    \* of the task, "new" before it is added, or "deleted"
  tags,      \* the task's tags
  file,      \* processing_params of the file: its tags, and whether its text is cached
  exists,    \* whether the file has a row: one that is uploaded for its tags alone has none
  does,      \* where a job or a call is
  params,    \* the column as that one has read it
  keep,      \* the tags it copies to the file
  rewrite,   \* where a call is that parses or indexes the file or sets its parameters
  held,      \* the column as that call has read it
  troubles,
  decided,   \* history: the last verdict of a person
  flaws      \* history: which of the named flaws have shown

taggingVars == <<status, tags, file, exists, does, params, keep, rewrite, held, troubles,
                 decided, flaws>>

Unfinished == {"pending", "preprocessing", "tagging"}
\* Fault: a task that seems to hang may be retried.
RetryableHanging == {"error_preprocessing", "error_tagging", "rejected", "tagging"}
Retryable == {"error_preprocessing", "error_tagging", "rejected"}
TaggingStates == Unfinished \cup Retryable \cup {"review", "approved"}

Columns == [tags : TagSets, cached : BOOLEAN]
Blank == [tags |-> NoTags, cached |-> FALSE]

Flaw == {"rerun",     \* a task was rejected and retried while a job was at it
         "overrun",   \* a verdict was given while a job was at the task
         "dropped",   \* a job was lost before its end
         "abandoned", \* the job of an upload failed, which leaves the task as it was
         "stale",     \* the column was replaced by what had been read before another write
         "late",      \* tags were copied to the file after the task had got other ones
         "unsynced",  \* tags could not be copied to the file
         "retagged"}  \* the file got tags of its own, not those of a task

\* A job that is queued or at work; one that copies tags has finished with the task.
Going == {r \in Jobs : does[r] \in {"queued", "load", "fetch", "tag", "store", "upload", "uptag"}}
Settled == (\A a \in Actors : does[a] \in {"none", "done"}) /\ rewrite # "write"

TaggingInit ==
  /\ status = "new" /\ tags = NoTags
  /\ exists \in BOOLEAN
  /\ file \in [tags : {NoTags}, cached : BOOLEAN] /\ (file.cached => exists)
  /\ does = [a \in Actors |-> "none"]
  /\ params = [a \in Actors |-> Blank] /\ keep = [a \in Actors |-> NoTags]
  /\ rewrite = "read" /\ held = Blank
  /\ troubles = 0 /\ decided = "none" /\ flaws = {}

-----------------------------------------------------------------------------
(* Helpers *)

Go(a, place) == does' = [does EXCEPT ![a] = place]
\* What a job or a call has read and kept is of no use after its end.
Ends(a) ==
  /\ Go(a, "done")
  /\ params' = [params EXCEPT ![a] = Blank] /\ keep' = [keep EXCEPT ![a] = NoTags]
Trouble == troubles < MaxTroubles /\ troubles' = troubles + 1
Mark(f) == flaws' = flaws \cup f

\* update_task: nothing is updated when the task is gone.
UpdateTask(s) == status' = IF status = "deleted" THEN "deleted" ELSE s

\* The column is written by somebody who has read it as before.
Replace(before, after) ==
  /\ file' = IF exists THEN after ELSE file
  /\ Mark(IF exists /\ file # before THEN {"stale"} ELSE {})

-----------------------------------------------------------------------------
(* run_task *)

\* The Tasker begins the job: a task that is gone is left alone.
JobBegins(r) ==
  /\ does[r] = "queued" /\ Go(r, IF status = "deleted" THEN "done" ELSE "load")
  /\ UNCHANGED <<status, tags, file, exists, params, keep, rewrite, held, troubles, decided, flaws>>

\* Fault: the error of a file that is gone is not written.
JobLoadsQuietly(r) ==
  /\ does[r] = "load"
  /\ params' = [params EXCEPT ![r] = IF exists THEN file ELSE Blank]
  /\ IF ~exists THEN Go(r, "done") /\ UNCHANGED status
     ELSE IF file.cached THEN UpdateTask("tagging") /\ Go(r, "tag")
     ELSE UpdateTask("preprocessing") /\ Go(r, "fetch")
  /\ UNCHANGED <<tags, file, exists, keep, rewrite, held, troubles, decided, flaws>>

\* The row is read; a text that is cached need not be fetched.
JobLoads(r) ==
  /\ does[r] = "load"
  /\ params' = [params EXCEPT ![r] = IF exists THEN file ELSE Blank]
  /\ IF ~exists THEN UpdateTask("error_preprocessing") /\ Go(r, "done")
     ELSE IF file.cached THEN UpdateTask("tagging") /\ Go(r, "tag")
     ELSE UpdateTask("preprocessing") /\ Go(r, "fetch")
  /\ UNCHANGED <<tags, file, exists, keep, rewrite, held, troubles, decided, flaws>>

JobFetches(r) ==
  /\ does[r] = "fetch" /\ Go(r, "tag") /\ UpdateTask("tagging")
  /\ UNCHANGED <<tags, file, exists, params, keep, rewrite, held, troubles, decided, flaws>>

\* Fault: what is approved at once is not copied to the file.
DecideAlone(r) ==
  /\ tags' = IF status = "deleted" THEN tags ELSE r
  /\ UpdateTask("review") \/ UpdateTask("approved")
  /\ Ends(r)

\* The job knows its tags: they go to review, or are approved at once and copied
\* to the file, unless the task is gone.
Decide(r) ==
  /\ tags' = IF status = "deleted" THEN tags ELSE r
  /\ \/ UpdateTask("review") /\ Ends(r)
     \/ status = "deleted" /\ Ends(r) /\ UNCHANGED status
     \/ /\ status # "deleted" /\ status' = "approved" /\ Go(r, "sync")
        /\ keep' = [keep EXCEPT ![r] = r] /\ params' = [params EXCEPT ![r] = Blank]

\* The models have answered: a text prepared for them is stored first.
JobTags(r) ==
  /\ does[r] = "tag"
  /\ \/ ~params[r].cached /\ Go(r, "store") /\ UNCHANGED <<status, tags, params, keep>>
     \/ Decide(r)
  /\ UNCHANGED <<file, exists, rewrite, held, troubles, decided, flaws>>

JobStores(r) ==
  /\ does[r] = "store"
  /\ Replace(params[r], [params[r] EXCEPT !.cached = TRUE])
  /\ Decide(r)
  /\ UNCHANGED <<exists, rewrite, held, troubles, decided>>

\* An exception, a timeout included: the status tells how far the task was.
JobFails(r) ==
  /\ does[r] \in {"load", "fetch", "tag", "store"} /\ Trouble /\ Ends(r)
  /\ UpdateTask(IF status \in {"pending", "preprocessing"}
                THEN "error_preprocessing" ELSE "error_tagging")
  /\ UNCHANGED <<tags, file, exists, rewrite, held, decided, flaws>>

\* The Tasker is told to cancel the job and does not begin it, or its progress cannot be
\* saved before it comes to the task.
JobCancelled(r) ==
  /\ does[r] \in {"queued", "upload"} /\ Trouble /\ Go(r, "done") /\ Mark({"dropped"})
  /\ UNCHANGED <<status, tags, file, exists, params, keep, rewrite, held, decided>>

-----------------------------------------------------------------------------
(* The job of upload_and_tag *)

\* It does not look whether the task is still there.
UploadBegins(r) ==
  /\ does[r] = "upload" /\ Go(r, "uptag") /\ UpdateTask("tagging")
  /\ UNCHANGED <<tags, file, exists, params, keep, rewrite, held, troubles, decided, flaws>>

\* Tags that are approved at once are not copied anywhere.
UploadTagged(r) ==
  /\ does[r] = "uptag" /\ Ends(r)
  /\ tags' = IF status = "deleted" THEN tags ELSE r
  /\ UpdateTask("review") \/ UpdateTask("approved")
  /\ UNCHANGED <<file, exists, rewrite, held, troubles, decided, flaws>>

\* No handler: the exception is the Tasker's, and the task stays "tagging".
UploadFails(r) ==
  /\ does[r] = "uptag" /\ Trouble /\ Ends(r) /\ Mark({"abandoned"})
  /\ UNCHANGED <<status, tags, file, exists, rewrite, held, decided>>

-----------------------------------------------------------------------------
(* _sync_tags_to_kb, of a job or of a call *)

SyncReads(a) ==
  /\ does[a] = "sync"
  /\ IF exists THEN Go(a, "write") /\ params' = [params EXCEPT ![a] = file] /\ UNCHANGED keep
     ELSE Ends(a)
  /\ UNCHANGED <<status, tags, file, exists, rewrite, held, troubles, decided, flaws>>

SyncWrites(a) ==
  /\ does[a] = "write" /\ Ends(a)
  /\ file' = IF exists THEN [params[a] EXCEPT !.tags = keep[a]] ELSE file
  /\ Mark({f \in {"stale"} : exists /\ file # params[a]} \cup
          {f \in {"late"} : exists /\ tags # keep[a]})
  /\ UNCHANGED <<status, tags, exists, rewrite, held, troubles, decided>>

SyncFails(a) ==
  /\ does[a] \in {"sync", "write"} /\ Trouble /\ Ends(a) /\ Mark({"unsynced"})
  /\ UNCHANGED <<status, tags, file, exists, rewrite, held, decided>>

-----------------------------------------------------------------------------
(* The calls *)

\* The task is added and its first job enqueued, or the Tasker fails to.
AddTask(place) ==
  /\ status = "new" /\ status' = "pending"
  /\ \/ Go(1, place) /\ UNCHANGED <<troubles, flaws>>
     \/ Trouble /\ Mark({"dropped"}) /\ UNCHANGED does
  /\ UNCHANGED <<tags, file, exists, params, keep, rewrite, held, decided>>

\* batch_tag has found the row of the file, which may be deleted by now.
BatchTag == AddTask("queued")

\* upload_and_tag makes the task of a file that is in no knowledge base; when that task is
\* retried it is run as all others are, which find no row.
UploadAndTag == ~exists /\ AddTask("upload")

\* Calls come in the order of their numbers, to a task that exists.
Comes(h) ==
  /\ status \notin {"new", "deleted"} /\ does[h] = "none"
  /\ \A g \in People : g < h => does[g] # "none"

\* Fault: a verdict is for a task under review only, and nobody is told otherwise.
VerdictReviewed(v) ==
  /\ status' = IF status = "review" THEN v ELSE status
  /\ decided' = v /\ Mark(IF Going # {} THEN {"overrun"} ELSE {})

Verdict(v) ==
  /\ status' = v /\ decided' = v
  /\ Mark(IF Going # {} THEN {"overrun"} ELSE {})

\* approve_task, with the tags as they are or as the caller has edited them.
Approve(h) ==
  /\ Comes(h) /\ Verdict("approved") /\ Go(h, "sync")
  /\ tags' \in {tags, h} /\ keep' = [keep EXCEPT ![h] = tags']
  /\ UNCHANGED <<file, exists, params, rewrite, held, troubles>>

Reject(h) ==
  /\ Comes(h) /\ Verdict("rejected") /\ Go(h, "done")
  /\ UNCHANGED <<tags, file, exists, params, keep, rewrite, held, troubles>>

\* The next job is enqueued, or the Tasker fails to.
Retry(h) ==
  /\ Comes(h) /\ status \in Retryable
  /\ status' = "pending" /\ tags' = NoTags /\ decided' = "none"
  /\ \/ \E r \in Jobs :
          /\ does[r] = "none" /\ \A q \in Jobs : q < r => does[q] # "none"
          /\ does' = [does EXCEPT ![r] = "queued", ![h] = "done"]
        /\ Mark(IF status = "rejected" /\ Going # {} THEN {"rerun"} ELSE {}) /\ UNCHANGED troubles
     \/ Trouble /\ Go(h, "done") /\ Mark({"dropped"})
  /\ UNCHANGED <<file, exists, params, keep, rewrite, held>>

\* delete_tasks and archive_completed_tasks.
Delete(h) ==
  /\ Comes(h) /\ status' = "deleted" /\ decided' = "none" /\ Go(h, "done")
  /\ UNCHANGED <<tags, file, exists, params, keep, rewrite, held, troubles, flaws>>

\* auto_tag_file reads the file, has it tagged, and writes the column it has read with
\* the new tags.
AutoTag(h) ==
  /\ Comes(h) /\ exists /\ Go(h, "retag") /\ params' = [params EXCEPT ![h] = file]
  /\ UNCHANGED <<status, tags, file, exists, keep, rewrite, held, troubles, decided, flaws>>

AutoTagged(h) ==
  /\ does[h] = "retag" /\ Ends(h)
  /\ \/ /\ file' = IF exists THEN [params[h] EXCEPT !.tags = h] ELSE file
        /\ Mark({"retagged"} \cup {f \in {"stale"} : exists /\ file # params[h]})
        /\ UNCHANGED troubles
     \/ Trouble /\ UNCHANGED <<file, flaws>>
  /\ UNCHANGED <<status, tags, exists, rewrite, held, decided>>

-----------------------------------------------------------------------------
(* The file and the process *)

\* parse_file reads the column with its claim, index_file and update_file_params
\* before they write.
RewriteReads ==
  /\ rewrite = "read" /\ exists /\ rewrite' = "write" /\ held' = file
  /\ UNCHANGED <<status, tags, file, exists, does, params, keep, troubles, decided, flaws>>

\* What has been read is written back, by parse_file with the text it has prepared, by
\* the other two with parameters that do not matter here.
RewriteWrites ==
  /\ rewrite = "write" /\ rewrite' = "done" /\ held' = Blank
  /\ \E cached \in {held.cached, TRUE} : Replace(held, [held EXCEPT !.cached = cached])
  /\ UNCHANGED <<status, tags, exists, does, params, keep, troubles, decided>>

FileDeleted ==
  /\ exists /\ exists' = FALSE /\ Trouble
  /\ UNCHANGED <<status, tags, file, does, params, keep, rewrite, held, decided, flaws>>

\* Jobs and calls die with the process, and nothing takes the task up again.
ProcessRestarts ==
  /\ Trouble
  /\ does' = [a \in Actors |-> IF does[a] = "none" THEN "none" ELSE "done"]
  /\ params' = [a \in Actors |-> Blank] /\ keep' = [a \in Actors |-> NoTags]
  /\ rewrite' = (IF rewrite = "write" THEN "done" ELSE rewrite) /\ held' = Blank
  /\ Mark({f \in {"dropped"} : Going # {}} \cup
          {f \in {"unsynced"} : \E a \in Actors : does[a] \in {"sync", "write"}})
  /\ UNCHANGED <<status, tags, file, exists, decided>>

-----------------------------------------------------------------------------
(* Specification *)

JobStep(r) ==
  \/ JobBegins(r) \/ JobLoads(r) \/ JobFetches(r) \/ JobTags(r) \/ JobStores(r) \/ JobFails(r)
  \/ UploadBegins(r) \/ UploadTagged(r) \/ UploadFails(r)
SyncStep(a) == SyncReads(a) \/ SyncWrites(a) \/ SyncFails(a)
Call(h) == Approve(h) \/ Reject(h) \/ Retry(h) \/ Delete(h) \/ AutoTag(h) \/ AutoTagged(h)

TaggingNext ==
  \/ \E r \in Jobs : JobStep(r) \/ JobCancelled(r)
  \/ \E a \in Actors : SyncStep(a)
  \/ \E h \in People : Call(h)
  \/ BatchTag \/ UploadAndTag
  \/ RewriteReads \/ RewriteWrites \/ FileDeleted \/ ProcessRestarts
TaggingSpec == TaggingInit /\ [][TaggingNext]_taggingVars

-----------------------------------------------------------------------------
(* Properties *)

\* Every variable holds a value of its kind.
TaggingTypeOK ==
  /\ status \in TaggingStates \cup {"new", "deleted"} /\ tags \in TagSets
  /\ file \in Columns /\ exists \in BOOLEAN
  /\ does \in [Actors -> {"none", "queued", "load", "fetch", "tag", "store", "sync", "write", "retag",
                         "upload", "uptag", "done"}]
  /\ params \in [Actors -> Columns] /\ keep \in [Actors -> TagSets]
  /\ rewrite \in {"read", "write", "done"} /\ held \in Columns
  /\ troubles \in 0..MaxTroubles /\ decided \in {"none", "approved", "rejected"}
  /\ flaws \subseteq Flaw

\* A task is run by one job at a time, unless it was rejected and retried while a
\* job was at it.
OneRun == Cardinality(Going) <= 1 \/ "rerun" \in flaws

\* A task that waits or runs is never left behind: its status, which admits no retry,
\* has a job that will change it, unless that job was lost before its end, or failed at an
\* upload, whose job does not tell the task.
TaskServed == status \in Unfinished => Going # {} \/ flaws \cap {"dropped", "abandoned"} # {}

\* A person has the last word: the verdict stands until somebody retries or deletes
\* the task, unless a job was already at it when the verdict was given.
LastWord == decided # "none" /\ "overrun" \notin flaws => status = decided

\* The tags of an approved task are those of the file when nobody is at work any
\* more: they can be missing only after a copy that failed, came late, or was
\* replaced, by tags of the file's own or by somebody who had read the column before.
TagsReachFile ==
  Settled /\ exists /\ status = "approved" /\ flaws \cap {"stale", "late", "unsynced", "retagged"} = {} =>
    file.tags = tags

=============================================================================
