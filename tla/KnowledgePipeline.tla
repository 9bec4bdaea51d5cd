------------------------- MODULE KnowledgePipeline -------------------------
(***************************************************************************)
(* The processing of one knowledge document: the endpoints that upload,    *)
(* cancel, reprocess and delete it, the queue in Redis, the worker thread  *)
(* and the threads that stand in for it while Redis is down, the vectors   *)
(* in Milvus, the rows in PostgreSQL, and the cleanup of orphans.          *)
(*                                                                         *)
(* One API process: its endpoints never await, so they exclude each other, *)
(* while threads run between any two of their steps.  A row or a Redis     *)
(* record is read in one step and written, from that copy, in another.     *)
(***************************************************************************)
EXTENDS Naturals, FiniteSets, Sequences

CONSTANTS
    MaxJobs,   \* bound: one upload and the reprocessing requests that follow
    MaxEvents  \* bound: reprocessing requests, restarts, expired markers, and
               \* calls to Redis, MinIO, Milvus or PostgreSQL that fail

Job   == 1..MaxJobs   \* job ids, in the order they are drawn
NoJob == 0            \* an id that the queue does not know

ASSUME KnowledgeAssumption == MaxJobs \in Nat /\ MaxEvents \in Nat

VARIABLES
    item,      \* the row: its life, processing_status, cancel_requested, job_id
    reference, \* its file_reference, or that of the upload: whether there is one
    file,      \* whether the source object is in MinIO
    vectors,   \* the jobs whose vectors are in Milvus
    marker,    \* the document is in _cancelled_documents of this process
    record,    \* record[j]: processing_job:<id> in Redis
    queue,     \* document_processing_queue, next job first
    phase,     \* phase[j]: where the job is
    dead,      \* the worker's thread has ended with an exception
    solo,      \* jobs that run in a thread of their own
    mid,       \* jobs that have read and not yet written
    itemCopy,  \* itemCopy[j]: the row as job j read it
    recCopy,   \* recCopy[j]: the record as job j read it
    api,       \* the endpoint at work: what it does next, and for which job
    apiItem,   \* the row as it read it
    apiRec,    \* the record as it read it
    clean,     \* where the cleanup cycle is
    live,      \* whether the document is in its live_knowledge_ids
    events,    \* such events so far
    barred     \* history: jobs cancelled before their last check, and not
               \* asked for again

storeVars == <<reference, file, vectors>>
jobVars   == <<record, queue, phase, dead, solo, mid, itemCopy, recCopy>>
apiVars   == <<api, apiItem, apiRec>>
cleanVars == <<clean, live>>
vars == <<item, storeVars, marker, jobVars, apiVars, cleanVars, events, barred>>

Item   == [life: {"no", "yes", "gone"}, status: {"processing", "completed", "failed"},
           cancel: BOOLEAN, job: Job \cup {NoJob}]
Record == [status: {"none", "queued", "processing", "completed", "failed"}, cancel: BOOLEAN]

NoItem   == [life |-> "no", status |-> "processing", cancel |-> FALSE, job |-> NoJob]
NoRecord == [status |-> "none", cancel |-> FALSE]

\* What a job does next, by the kind of call.
RecWriting  == {"take", "complete", "fail"}
ItemWriting == {"announce", "parse", "publish", "admit"}
Checking    == {"check", "recheck", "verify"}
Running     == RecWriting \cup ItemWriting \cup Checking \cup {"insert"}
Ended       == {"over", "lost", "removed"}

\* A job in these has yet to pass its last check before the index.
Unchecked == {"queued", "take", "announce", "check", "parse", "recheck"}

TypeOK ==
    /\ item \in Item
    /\ reference \in BOOLEAN /\ file \in BOOLEAN /\ marker \in BOOLEAN /\ live \in BOOLEAN
    /\ vectors \subseteq Job
    /\ record \in [Job -> Record]
    /\ queue \in Seq(Job)
    /\ phase \in [Job -> {"new", "queued"} \cup Running \cup Ended]
    /\ \A i, k \in DOMAIN queue : queue[i] = queue[k] => i = k
    /\ \A j \in Job : phase[j] = "queued" <=> \E i \in DOMAIN queue : queue[i] = j
    /\ dead \in BOOLEAN /\ solo \subseteq Job /\ mid \subseteq Job
    /\ itemCopy \in [Job -> Item] /\ recCopy \in [Job -> Record]
    /\ api \in [op: {"free", "enqueue", "insert", "cancel", "signal", "flag", "purge", "erase", "reset",
                     "reenqueue", "link", "relink"},
                job: Job \cup {NoJob}, deletes: BOOLEAN]
    /\ apiItem \in Item /\ apiRec \in Record
    /\ clean \in {"idle", "loaded"}
    /\ events \in 0..MaxEvents
    /\ barred \subseteq Job

Free == [op |-> "free", job |-> NoJob, deletes |-> FALSE]

\* The endpoint returns; what it has read goes with it.
Return == api' = Free /\ apiItem' = NoItem /\ apiRec' = NoRecord

Init ==
    /\ item = NoItem
    /\ reference = FALSE /\ file = FALSE /\ vectors = {} /\ marker = FALSE
    /\ record = [j \in Job |-> NoRecord]
    /\ queue = <<>>
    /\ phase = [j \in Job |-> "new"]
    /\ dead = FALSE /\ solo = {} /\ mid = {}
    /\ itemCopy = [j \in Job |-> NoItem]
    /\ recCopy = [j \in Job |-> NoRecord]
    /\ api = Free /\ apiItem = NoItem /\ apiRec = NoRecord
    /\ clean = "idle" /\ live = FALSE
    /\ events = 0
    /\ barred = {}

Fresh(j) == phase[j] = "new" /\ \A i \in Job : phase[i] = "new" => j <= i

Event == events < MaxEvents /\ events' = events + 1

\* A call that is best effort: it is made, or fails and is logged.
BestEffort(done, failed) == (done /\ UNCHANGED events) \/ (failed /\ Event)

-----------------------------------------------------------------------------
(* Enqueueing                                                              *)

EnqueueJob(j) ==
    /\ record' = [record EXCEPT ![j] = [status |-> "queued", cancel |-> FALSE]]
    /\ queue' = Append(queue, j)
    /\ phase' = [phase EXCEPT ![j] = "queued"]
    /\ UNCHANGED <<dead, solo, events>>

\* Redis does not answer: a background thread.
StartThread(j) ==
    /\ Event
    /\ solo' = solo \cup {j}
    /\ phase' = [phase EXCEPT ![j] = "announce"]
    /\ UNCHANGED <<record, queue, dead>>

\* Upload: the object is stored, then the job is enqueued, then the row is
\* committed.
StageFile ==
    /\ api.op = "free" /\ item.life = "no"
    /\ file' = TRUE /\ reference' = TRUE
    /\ api' = [api EXCEPT !.op = "enqueue"]
    /\ UNCHANGED <<item, vectors, marker, jobVars, apiItem, apiRec, cleanVars, events, barred>>

\* MinIO fails: the row is committed without a reference, as failed.
StageFails ==
    /\ api.op = "free" /\ item.life = "no"
    /\ Event
    /\ reference' = FALSE
    /\ apiItem' = [NoItem EXCEPT !.life = "yes", !.status = "failed"]
    /\ api' = [api EXCEPT !.op = "insert"]
    /\ UNCHANGED <<item, file, vectors, marker, jobVars, apiRec, cleanVars, barred>>

\* A file from an archive gets a job id of its own in its row.
EnqueueUpload(j) ==
    /\ api.op = "enqueue" /\ Fresh(j)
    /\ EnqueueJob(j) \/ StartThread(j)
    /\ \E id \in {j, NoJob} : apiItem' = [NoItem EXCEPT !.life = "yes", !.job = id]
    /\ api' = [api EXCEPT !.op = "insert"]
    /\ UNCHANGED <<item, storeVars, marker, mid, itemCopy, recCopy, apiRec, cleanVars, barred>>

InsertRow ==
    /\ api.op = "insert"
    /\ item' = apiItem
    /\ Return
    /\ UNCHANGED <<storeVars, marker, jobVars, cleanVars, events, barred>>

\* The transaction fails: the object is purged, the job stays in the queue.
RollBack ==
    /\ api.op = "insert"
    /\ Event
    /\ item' = [item EXCEPT !.life = "gone"]
    /\ file' \in {FALSE, file}
    /\ Return
    /\ UNCHANGED <<reference, vectors, marker, jobVars, cleanVars, barred>>

-----------------------------------------------------------------------------
(* Cancel and delete                                                       *)

Cancel ==
    /\ api.op = "free"
    /\ item.life = "yes" /\ item.status = "processing"
    /\ apiItem' = item
    /\ api' = [api EXCEPT !.op = "cancel"]
    /\ UNCHANGED <<item, storeVars, marker, jobVars, apiRec, cleanVars, events, barred>>

CommitCancel ==
    /\ api.op = "cancel"
    /\ item' = [apiItem EXCEPT !.status = "failed", !.cancel = TRUE]
    /\ api' = [api EXCEPT !.op = "signal"]
    /\ UNCHANGED <<storeVars, marker, jobVars, apiItem, apiRec, cleanVars, events, barred>>

Delete ==
    /\ api.op = "free"
    /\ item.life = "yes"
    /\ apiItem' = item
    /\ api' = [api EXCEPT !.op = "signal", !.deletes = TRUE]
    /\ UNCHANGED <<item, storeVars, marker, jobVars, apiRec, cleanVars, events, barred>>

\* request_knowledge_processing_cancellation: the marker, then the record.
Signal ==
    /\ api.op = "signal"
    /\ marker' = TRUE
    /\ BestEffort(apiRec' = IF apiItem.job \in Job THEN record[apiItem.job] ELSE NoRecord,
                  apiRec' = NoRecord)
    /\ api' = [api EXCEPT !.op = "flag"]
    /\ UNCHANGED <<item, storeVars, jobVars, apiItem, cleanVars, barred>>

\* Mutant: the job id stays in the list.
Keep(j) == queue

\* lrem
Without(j) ==
    LET p == CHOOSE i \in DOMAIN queue : queue[i] = j
    IN  [i \in 1..(Len(queue) - 1) |-> queue[IF i < p THEN i ELSE i + 1]]

\* request_cancel
Flag ==
    LET j == apiItem.job
    IN  /\ api.op = "flag"
        /\ IF apiRec.status \in {"queued", "processing"}
           THEN /\ record' = [record EXCEPT ![j] = [status |-> "failed", cancel |-> TRUE]]
                /\ IF apiRec.status = "queued" /\ phase[j] = "queued"
                   THEN queue' = Without(j) /\ phase' = [phase EXCEPT ![j] = "removed"]
                   ELSE UNCHANGED <<queue, phase>>
           ELSE UNCHANGED <<record, queue, phase>>
        /\ barred' = barred \cup {i \in Job : phase'[i] \in Unchecked \cup {"removed"}}
        /\ IF api.deletes
           THEN api' = [api EXCEPT !.op = "purge"] /\ apiItem' = NoItem /\ apiRec' = NoRecord
           ELSE Return
        /\ UNCHANGED <<item, storeVars, marker, dead, solo, mid, itemCopy, recCopy, cleanVars, events>>

\* cleanup_knowledge_item_storage: what fails is left to the cleanup cycle.
Purge ==
    /\ api.op = "purge"
    /\ BestEffort(file' = FALSE /\ vectors' = {}, file' \in {FALSE, file} /\ vectors' \in {{}, vectors})
    /\ api' = [api EXCEPT !.op = "erase"]
    /\ UNCHANGED <<item, reference, marker, jobVars, apiItem, apiRec, cleanVars, barred>>

Erase ==
    /\ api.op = "erase"
    /\ BestEffort(item' = [NoItem EXCEPT !.life = "gone"], UNCHANGED item)
    /\ Return
    /\ UNCHANGED <<storeVars, marker, jobVars, cleanVars, barred>>

-----------------------------------------------------------------------------
(* Reprocess: whatever the status is, and whatever is running              *)

Reprocess ==
    /\ api.op = "free" /\ item.life = "yes" /\ reference
    /\ \E j \in Job : phase[j] = "new"
    /\ marker' = FALSE
    /\ Event
    /\ vectors' \in {{}, vectors}   \* Milvus may fail
    /\ apiItem' = item
    /\ api' = [api EXCEPT !.op = "reset"]
    /\ barred' = {}
    /\ UNCHANGED <<item, reference, file, jobVars, apiRec, cleanVars>>

\* Committed with a job id that only the fallback thread would use.
Reset ==
    /\ api.op = "reset"
    /\ item' = [apiItem EXCEPT !.status = "processing", !.cancel = FALSE, !.job = NoJob]
    /\ api' = [api EXCEPT !.op = "reenqueue"]
    /\ apiItem' = NoItem
    /\ UNCHANGED <<storeVars, marker, jobVars, apiRec, cleanVars, events, barred>>

Reenqueue(j) ==
    /\ api.op = "reenqueue" /\ Fresh(j)
    /\ \/ EnqueueJob(j) /\ api' = [api EXCEPT !.op = "link", !.job = j] /\ UNCHANGED <<apiItem, apiRec>>
       \/ StartThread(j) /\ Return
    /\ UNCHANGED <<item, storeVars, marker, mid, itemCopy, recCopy, cleanVars, barred>>

\* Then the row is read again, and written with the id of the queued job.
ReadLink ==
    /\ api.op = "link"
    /\ apiItem' = item
    /\ api' = [api EXCEPT !.op = "relink"]
    /\ UNCHANGED <<item, storeVars, marker, jobVars, apiRec, cleanVars, events, barred>>

Link ==
    /\ api.op = "relink"
    /\ item' = [apiItem EXCEPT !.job = api.job]
    /\ Return
    /\ UNCHANGED <<storeVars, marker, jobVars, cleanVars, events, barred>>

-----------------------------------------------------------------------------
(* A job: the worker's thread, or its own                                  *)

WorkerFree == ~dead /\ \A j \in Job \ solo : phase[j] \notin Running

\* brpop and get; when the get fails, the id that was popped is lost.
Pop ==
    /\ WorkerFree /\ queue # <<>>
    /\ BestEffort(phase' = [phase EXCEPT ![Head(queue)] = "take"],
                  phase' = [phase EXCEPT ![Head(queue)] = "lost"])
    /\ queue' = Tail(queue)
    /\ UNCHANGED <<item, storeVars, marker, record, dead, solo, mid, itemCopy, recCopy, apiVars, cleanVars, barred>>

\* What follows when nothing is wrong.  The progress updates are one, and so
\* are checks with nothing but an update between them; a thread of its own
\* has no record.
Following(j) ==
    CASE phase[j] = "take"     -> "announce"
      [] phase[j] = "announce" -> "check"
      [] phase[j] = "check"    -> "parse"
      [] phase[j] = "parse"    -> "recheck"
      [] phase[j] = "recheck"  -> "insert"
      [] phase[j] = "insert"   -> "verify"
      [] phase[j] = "verify"   -> IF j \in solo THEN "publish" ELSE "complete"
      [] phase[j] = "complete" -> "publish"
      [] phase[j] = "fail"     -> "admit"
      [] OTHER                 -> "over"

\* Mutant: the document is tried again in place.
RetryInPlace(j) == "check"

\* The handlers of _process_loop and of the background thread.
Failure(j) == IF j \in solo THEN "admit" ELSE "fail"

Advance(j, p) == phase' = [phase EXCEPT ![j] = p]

RecRead(j) ==
    /\ phase[j] \in RecWriting /\ j \notin mid
    /\ recCopy' = [recCopy EXCEPT ![j] = record[j]]
    /\ mid' = mid \cup {j}
    /\ UNCHANGED <<item, storeVars, marker, record, queue, phase, dead, solo, itemCopy, apiVars, cleanVars, events, barred>>

\* update_status: the record as it was read, with the new status.
RecWrite(j) ==
    LET status == CASE phase[j] = "take" -> "processing" [] phase[j] = "complete" -> "completed" [] OTHER -> "failed"
    IN  /\ phase[j] \in RecWriting /\ j \in mid
        /\ record' = [record EXCEPT ![j] = [recCopy[j] EXCEPT !.status = status]]
        /\ recCopy' = [recCopy EXCEPT ![j] = NoRecord]
        /\ mid' = mid \ {j}
        /\ Advance(j, Following(j))
        /\ UNCHANGED <<item, storeVars, marker, queue, dead, solo, itemCopy, apiVars, cleanVars, events, barred>>

\* Its get or its set fails.  In the body of the loop that fails the job; in a
\* handler nothing catches it, and it ends the worker's thread.
RecFails(j) ==
    /\ phase[j] \in RecWriting
    /\ Event
    /\ dead' = (phase[j] = "fail")
    /\ Advance(j, IF phase[j] = "fail" THEN "lost" ELSE Failure(j))
    /\ recCopy' = [recCopy EXCEPT ![j] = NoRecord]
    /\ mid' = mid \ {j}
    /\ UNCHANGED <<item, storeVars, marker, record, queue, solo, itemCopy, apiVars, cleanVars, barred>>

\* _update_knowledge_status; without a row it only logs.  Parsing needs the
\* object.
ItemRead(j) ==
    /\ phase[j] \in ItemWriting /\ j \notin mid
    /\ phase[j] = "parse" => file
    /\ IF item.life = "yes"
       THEN itemCopy' = [itemCopy EXCEPT ![j] = item] /\ mid' = mid \cup {j} /\ UNCHANGED phase
       ELSE Advance(j, Following(j)) /\ UNCHANGED <<itemCopy, mid>>
    /\ UNCHANGED <<item, storeVars, marker, record, queue, dead, solo, recCopy, apiVars, cleanVars, events, barred>>

\* A terminal status drops cancel_requested.
Updated(copy, p) ==
    IF p \in {"publish", "admit"}
    THEN [copy EXCEPT !.status = IF p = "publish" THEN "completed" ELSE "failed", !.cancel = FALSE]
    ELSE [copy EXCEPT !.status = "processing"]

ItemWrite(j) ==
    /\ phase[j] \in ItemWriting /\ j \in mid
    /\ item' = IF item.life = "yes" THEN Updated(itemCopy[j], phase[j]) ELSE item
    /\ itemCopy' = [itemCopy EXCEPT ![j] = NoItem]
    /\ mid' = mid \ {j}
    /\ Advance(j, Following(j))
    /\ UNCHANGED <<storeVars, marker, record, queue, dead, solo, recCopy, apiVars, cleanVars, events, barred>>

\* It catches what PostgreSQL raises; the row stays as it is.
ItemFails(j) ==
    /\ phase[j] \in ItemWriting
    /\ phase[j] = "parse" => file
    /\ Event
    /\ itemCopy' = [itemCopy EXCEPT ![j] = NoItem]
    /\ mid' = mid \ {j}
    /\ Advance(j, Following(j))
    /\ UNCHANGED <<item, storeVars, marker, record, queue, dead, solo, recCopy, apiVars, cleanVars, barred>>

\* Mutant: the marker of the process is not asked.
CancelledByStores(j, redis, sql) ==
    (redis /\ record[j].cancel) \/ (sql /\ item.life = "yes" /\ item.cancel)

\* _is_cancellation_requested; a store that does not answer has nothing to say.
Cancelled(j, redis, sql) ==
    (redis /\ record[j].cancel) \/ marker \/ (sql /\ item.life = "yes" /\ item.cancel)

Check(j) ==
    /\ phase[j] \in Checking
    /\ \E redis, sql \in BOOLEAN :
          /\ IF redis /\ sql THEN UNCHANGED events ELSE Event
          /\ Advance(j, IF Cancelled(j, redis, sql) THEN Failure(j) ELSE Following(j))
    /\ UNCHANGED <<item, storeVars, marker, record, queue, dead, solo, mid, itemCopy, recCopy, apiVars, cleanVars, barred>>

\* The object is gone, or nothing can be extracted from it.
ParseFails(j) ==
    /\ phase[j] = "parse" /\ j \notin mid
    /\ Advance(j, Failure(j))
    /\ UNCHANGED <<item, storeVars, marker, record, queue, dead, solo, mid, itemCopy, recCopy, apiVars, cleanVars, events, barred>>

\* index_chunks; the insert may fail, or only its flush.  The rows that follow
\* the vectors are behind a foreign key and go with the item.
Insert(j) ==
    /\ phase[j] = "insert"
    /\ BestEffort(vectors' = vectors \cup {j} /\ Advance(j, Following(j)),
                  vectors' \in {vectors, vectors \cup {j}} /\ Advance(j, Failure(j)))
    /\ UNCHANGED <<item, reference, file, marker, record, queue, dead, solo, mid, itemCopy, recCopy, apiVars, cleanVars, barred>>

-----------------------------------------------------------------------------
(* The cleanup cycle                                                       *)

\* Mutant: an id that was ever in the table counts as live.
EverLive == item.life # "no"

\* _load_live_knowledge_ids
Live == item.life = "yes"

CleanLoad ==
    /\ clean = "idle" /\ clean' = "loaded"
    /\ live' = Live
    /\ UNCHANGED <<item, storeVars, marker, jobVars, apiVars, events, barred>>

\* cleanup_orphaned_knowledge_vectors, cleanup_orphaned_knowledge_objects
CleanOrphans ==
    /\ clean = "loaded" /\ clean' = "idle"
    /\ IF live THEN UNCHANGED <<vectors, file, events>>
       ELSE BestEffort(vectors' = {} /\ file' = FALSE, vectors' \in {{}, vectors} /\ file' \in {FALSE, file})
    /\ live' = FALSE
    /\ UNCHANGED <<item, reference, marker, jobVars, apiVars, barred>>

-----------------------------------------------------------------------------
(* What takes the marker away.  A job that has its last check still ahead of *)
(* it is then held back by its record or its row at most, and either may     *)
(* have been overwritten: it is barred no longer.                            *)

StillBarred == {j \in barred : phase'[j] \notin Unchecked}

\* The marker's time is over, long after the request that set it.
ExpireMarker ==
    /\ marker /\ api.op # "flag"
    /\ Event
    /\ marker' = FALSE
    /\ UNCHANGED phase /\ barred' = StillBarred
    /\ UNCHANGED <<item, storeVars, record, queue, dead, solo, mid, itemCopy, recCopy, apiVars, cleanVars>>

\* The process is restarted: what was popped is lost, and so is the marker.
Restart ==
    /\ Event
    /\ phase' = [j \in Job |-> IF phase[j] \in Running THEN "lost" ELSE phase[j]]
    /\ dead' = FALSE /\ solo' = {} /\ mid' = {}
    /\ marker' = FALSE
    /\ itemCopy' = [j \in Job |-> NoItem] /\ recCopy' = [j \in Job |-> NoRecord]
    /\ item' = IF api.op \in {"enqueue", "insert"} THEN [item EXCEPT !.life = "gone"] ELSE item
    /\ Return
    /\ clean' = "idle" /\ live' = FALSE
    /\ barred' = StillBarred
    /\ UNCHANGED <<storeVars, record, queue>>

ApiStep ==
    \/ \E j \in Job : EnqueueUpload(j) \/ Reenqueue(j)
    \/ InsertRow \/ CommitCancel \/ Signal \/ Flag \/ Purge \/ Erase
    \/ Reset \/ ReadLink \/ Link

JobStep(j) ==
    \/ RecRead(j) \/ RecWrite(j) \/ RecFails(j)
    \/ ItemRead(j) \/ ItemWrite(j) \/ ItemFails(j)
    \/ Check(j) \/ ParseFails(j) \/ Insert(j)

CleanStep == CleanLoad \/ CleanOrphans

Next ==
    \/ StageFile \/ StageFails \/ Cancel \/ Delete \/ Reprocess
    \/ ApiStep \/ RollBack
    \/ Pop \/ (\E j \in Job : JobStep(j))
    \/ CleanStep
    \/ ExpireMarker \/ Restart

\* Endpoints end, threads run, the worker keeps popping and the cycle comes
\* round; nobody has to call an endpoint.
Fairness ==
    /\ WF_vars(ApiStep) /\ WF_vars(Pop) /\ WF_vars(CleanStep)
    /\ \A j \in Job : WF_vars(JobStep(j))

Spec     == Init /\ [][Next]_vars
FairSpec == Spec /\ Fairness

-----------------------------------------------------------------------------
(***************************************************************************)
(* Properties                                                              *)
(***************************************************************************)

\* Once a cancellation or a deletion has been acknowledged, a job that has
\* its last check still ahead puts nothing into the index, whichever of the
\* record, the row and the marker a concurrent write has overwritten, and
\* whichever store does not answer when it is asked.  The promise ends when
\* the document is reprocessed and, for a job that still has the check ahead
\* of it then, when the marker is lost: with the process, or after 24 hours.
CancelHolds == barred \cap vectors = {}

\* No job waits in the queue for ever: it ends, is taken out, or is lost with a
\* call to Redis or with the process, whatever fails on the way.  One failure
\* stops the queue: that of Redis in a handler, which ends the worker's thread.
JobsEnd == \A j \in Job : phase[j] = "queued" ~> (phase[j] \in Ended \/ dead)

\* Whatever a job leaves behind of a deleted document is removed in the end:
\* vectors inserted behind the deletion, and an object it could not purge.
OrphansReclaimed == (item.life = "gone" /\ (vectors # {} \/ file)) ~> (vectors = {} /\ ~file)

\* The cleanup removes what belongs to ids that no longer exist, so a document
\* whose row refers to an object has that object.
FileKept == item.life = "yes" /\ reference /\ api.op # "erase" => file
=============================================================================
