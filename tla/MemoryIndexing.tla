--------------------------- MODULE MemoryIndexing ---------------------------
(***************************************************************************)
(* The user-memory vector index: rows of entries and views in PostgreSQL,  *)
(* the table of embedding jobs, the worker threads that claim jobs and     *)
(* write vectors into Milvus, and the periodic reconcile of the two        *)
(* stores.  All rows belong to one user.                                   *)
(*                                                                         *)
(* A worker processes a job in a thread of its own, one transaction or one *)
(* Milvus call after the other; each of these is a step.  A transaction is *)
(* a step too, except a user's write: it reads the status of the row's job *)
(* without locking it, and the object-relational mapper writes only the    *)
(* columns whose value differs from the one it read.                       *)
(***************************************************************************)
EXTENDS Naturals, FiniteSets

CONSTANTS
    Entry,        \* entries and views, by source kind and id
    Worker,       \* indexing workers: one per gateway process, one per backfill script
    BatchSize,    \* user_memory.vector_indexing.batch_size
    MaxAttempts,  \* user_memory.vector_indexing.max_attempts
    Reconciling,  \* whether the vector cleanup manager runs
    Deleting,     \* whether the account may be deleted
    MaxWrites,    \* bound: versions of a row
    MaxFaults,    \* bound: failing calls and stopped processes
    MaxOvertakes  \* bound: locks that expire while their holder is alive

Wipe == "delete_user"  \* the job that deletes all vectors of the user
Job  == Entry \cup {Wipe}

ASSUME MemoryAssumption ==
    /\ IsFiniteSet(Entry)
    /\ Wipe \notin Entry
    /\ BatchSize \in Nat \ {0}
    /\ MaxAttempts \in Nat \ {0}
    /\ Reconciling \in BOOLEAN
    /\ Deleting \in BOOLEAN
    /\ MaxWrites \in Nat
    /\ MaxFaults \in Nat
    /\ MaxOvertakes \in Nat

Version   == 0..MaxWrites
Attempt   == 0..MaxAttempts
JobStatus == {"none", "pending", "processing", "done", "failed"}
SyncState == {"pending", "synced", "failed"}
Phase     == {"free", "delete_old", "insert", "mark", "drop", "wipe", "done", "failed", "retry"}

VARIABLES
    row,     \* row[e]: [live, version, sync], the version standing for the text
    job,     \* job[j]: [status, attempts]
    vec,     \* vec[e]: the vectors of e in Milvus, <<version embedded, worker>>
    claim,   \* claim[w][j]: attempt under which w holds j in its batch, 0: not held
    at,      \* at[w]: [pc, job, seen], the job in hand and the version loaded
    edit,    \* edit[e]: a write of e in progress, and the job status it read
    rec,     \* the reconcile cycle in progress
    used,    \* [faults, overtakes] so far
    shown    \* history: shown[e], the newest version ever embedded

vars == <<row, job, vec, claim, at, edit, rec, used, shown>>

Free     == [pc |-> "free", job |-> Wipe, seen |-> 0]
NoClaims == [j \in Job |-> 0]
NoCycle  == [pc |-> "idle", expected |-> {}, loaded |-> {}, actual |-> {}]

Init ==
    /\ row   = [e \in Entry |-> [live |-> FALSE, version |-> 0, sync |-> "pending"]]
    /\ job   = [j \in Job |-> [status |-> "none", attempts |-> 0]]
    /\ vec   = [e \in Entry |-> {}]
    /\ claim = [w \in Worker |-> NoClaims]
    /\ at    = [w \in Worker |-> Free]
    /\ edit  = [e \in Entry |-> "idle"]
    /\ rec   = NoCycle
    /\ used  = [faults |-> 0, overtakes |-> 0]
    /\ shown = [e \in Entry |-> 0]

Fault == used.faults < MaxFaults /\ used' = [used EXCEPT !.faults = @ + 1]

-----------------------------------------------------------------------------
(* session_ledger_repository.py, storage_cleanup.py: writes of rows        *)

\* enqueue_user_memory_job: the attempts so far are kept.
Refresh(j) == [job[j] EXCEPT !.status = "pending"]

\* _upsert_entry_row, _upsert_user_view_row: a row no key matched is inserted
\* with its job, in one transaction.  Rows refer to no user: it may be late.
CreateRow(e) ==
    /\ row[e].version = 0 /\ MaxWrites > 0
    /\ row' = [row EXCEPT ![e] = [live |-> TRUE, version |-> 1, sync |-> "pending"]]
    /\ job' = [job EXCEPT ![e] = Refresh(e)]
    /\ UNCHANGED <<vec, claim, at, edit, rec, used, shown>>

\* update_entry, update_projection, _upsert_*_row: the row is written, hence
\* locked, and the status of its job read.
BeginWrite(e) ==
    /\ row[e].live /\ row[e].version < MaxWrites
    /\ edit[e] = "idle"
    /\ edit' = [edit EXCEPT ![e] = IF job[e].status = "pending" THEN "saw_pending" ELSE "saw_other"]
    /\ UNCHANGED <<row, job, vec, claim, at, rec, used, shown>>

\* The transaction commits.  A status read as pending is not written.
CommitWrite(e) ==
    /\ edit[e] # "idle"
    /\ row'  = [row EXCEPT ![e].version = @ + 1, ![e].sync = "pending"]
    /\ job'  = [job EXCEPT ![e] = IF edit[e] = "saw_other" THEN Refresh(e) ELSE @]
    /\ edit' = [edit EXCEPT ![e] = "idle"]
    /\ UNCHANGED <<vec, claim, at, rec, used, shown>>

\* The transaction fails, and with it the enqueue.
RollbackWrite(e) ==
    /\ edit[e] # "idle"
    /\ Fault
    /\ edit' = [edit EXCEPT ![e] = "idle"]
    /\ UNCHANGED <<row, job, vec, claim, at, rec, shown>>

\* prepare_user_memory_rows_for_user_deletion: waits for locked rows.
DeleteUser ==
    /\ Deleting /\ job[Wipe].status = "none"
    /\ \A e \in Entry : edit[e] = "idle"
    /\ row' = [e \in Entry |-> [row[e] EXCEPT !.live = FALSE]]
    /\ job' = [job EXCEPT ![Wipe] = Refresh(Wipe)]
    /\ UNCHANGED <<vec, claim, at, edit, rec, used, shown>>

-----------------------------------------------------------------------------
(* indexing_jobs.py: claiming                                              *)

Held(j) == \E w \in Worker : claim[w][j] # 0
Expired == {j \in Job : job[j].status = "processing"}

\* Mutant: locked jobs stay locked.
PendingOnly == {j \in Job : job[j].status = "pending"}

Claimable == {j \in Job : job[j].status = "pending"} \cup Expired

\* Locks expire with time; those of live holders at most MaxOvertakes times.
TakeLocks(S) ==
    LET overtaking == \E j \in S \cap Expired : Held(j)
    IN  /\ overtaking => used.overtakes < MaxOvertakes
        /\ used' = IF overtaking THEN [used EXCEPT !.overtakes = @ + 1] ELSE used

\* The counter is compared with MaxAttempts only, so it stops there.
NextAttempt(n) == IF n < MaxAttempts THEN n + 1 ELSE n

\* claim_user_memory_jobs: any batch of jobs, which ones are oldest, past
\* their backoff and not locked by another transaction being left open.
Claim(w, S) ==
    /\ at[w] = Free /\ claim[w] = NoClaims
    /\ S # {} /\ S \subseteq Claimable /\ Cardinality(S) <= BatchSize
    /\ TakeLocks(S)
    /\ job' = [j \in Job |-> IF j \in S
                 THEN [status |-> "processing", attempts |-> NextAttempt(job[j].attempts)]
                 ELSE job[j]]
    /\ claim' = [claim EXCEPT ![w] = [j \in Job |-> IF j \in S THEN NextAttempt(job[j].attempts) ELSE 0]]
    /\ UNCHANGED <<row, vec, at, edit, rec, shown>>

\* requeue_stale_user_memory_jobs, when a gateway process starts.
Requeue(S) ==
    /\ S # {} /\ S \subseteq Expired
    /\ TakeLocks(S)
    /\ job' = [j \in Job |-> IF j \in S THEN Refresh(j) ELSE job[j]]
    /\ UNCHANGED <<row, vec, claim, at, edit, rec, shown>>

-----------------------------------------------------------------------------
(* indexing_worker.py: one job                                             *)

Go(w, pc) == at' = [at EXCEPT ![w].pc = pc]

\* _process_job, _load_source_row: the row is read, in a session of its own.
TakeUp(w, j) ==
    /\ at[w] = Free /\ claim[w][j] # 0
    /\ at' = [at EXCEPT ![w] =
         IF j = Wipe THEN [pc |-> "wipe", job |-> j, seen |-> 0]
         ELSE IF row[j].live THEN [pc |-> "delete_old", job |-> j, seen |-> row[j].version]
         ELSE [pc |-> "drop", job |-> j, seen |-> 0]]
    /\ UNCHANGED <<row, job, vec, claim, edit, rec, used, shown>>

\* Mutant: the old vectors are left in the collection.
DeleteNothing(w) ==
    /\ at[w].pc = "delete_old"
    /\ Go(w, "insert")
    /\ UNCHANGED <<row, job, vec, claim, edit, rec, used, shown>>

\* upsert_user_memory_vectors: the delete ...
DeleteOld(w) ==
    /\ at[w].pc = "delete_old"
    /\ vec' = [vec EXCEPT ![at[w].job] = {}]
    /\ Go(w, "insert")
    /\ UNCHANGED <<row, job, claim, edit, rec, used, shown>>

\* ... and the insert.
Insert(w) ==
    /\ at[w].pc = "insert"
    /\ LET e == at[w].job
           v == at[w].seen
       IN  /\ vec'   = [vec EXCEPT ![e] = @ \cup {<<v, w>>}]
           /\ shown' = [shown EXCEPT ![e] = IF v > @ THEN v ELSE @]
    /\ Go(w, "mark")
    /\ UNCHANGED <<row, job, claim, edit, rec, used>>

\* A row's own columns are written only while no writer has it locked.
MarkRow(w, sync) ==
    LET e == at[w].job
    IN  /\ edit[e] = "idle"
        /\ row' = IF row[e].live THEN [row EXCEPT ![e].sync = sync] ELSE row

\* Mutant: the row is given the state of its job.
MarkSyncedAsJob(w) ==
    /\ at[w].pc = "mark"
    /\ MarkRow(w, "done")
    /\ Go(w, "done")
    /\ UNCHANGED <<job, vec, claim, edit, rec, used, shown>>

\* _mark_row_synced
MarkSynced(w) ==
    /\ at[w].pc = "mark"
    /\ MarkRow(w, "synced")
    /\ Go(w, "done")
    /\ UNCHANGED <<job, vec, claim, edit, rec, used, shown>>

\* The row is gone: delete_user_memory_vector.
DropVector(w) ==
    /\ at[w].pc = "drop"
    /\ vec' = [vec EXCEPT ![at[w].job] = {}]
    /\ Go(w, "done")
    /\ UNCHANGED <<row, job, claim, edit, rec, used, shown>>

\* delete_user_memory_vectors_for_user
WipeVectors(w) ==
    /\ at[w].pc = "wipe"
    /\ vec' = [e \in Entry |-> {}]
    /\ Go(w, "done")
    /\ UNCHANGED <<row, job, claim, edit, rec, used, shown>>

\* The job leaves the batch with the given status.
Release(w, status) ==
    LET j == at[w].job
    IN  /\ job'   = [job EXCEPT ![j].status = status]
        /\ claim' = [claim EXCEPT ![w][j] = 0]
        /\ at'    = [at EXCEPT ![w] = Free]
        /\ UNCHANGED <<row, vec, edit, rec, used, shown>>

\* mark_user_memory_job_done: whoever holds the job by now.
FinishJob(w) == at[w].pc = "done" /\ Release(w, "done")

\* A call raises: embedding, Milvus or database.
FailJob(w) ==
    /\ at[w].pc \notin {"free", "failed", "retry"}
    /\ Fault
    /\ Go(w, IF at[w].job = Wipe THEN "retry" ELSE "failed")
    /\ UNCHANGED <<row, job, vec, claim, edit, rec, shown>>

\* _mark_row_failed
MarkFailed(w) ==
    /\ at[w].pc = "failed"
    /\ MarkRow(w, "failed")
    /\ Go(w, "retry")
    /\ UNCHANGED <<job, vec, claim, edit, rec, used, shown>>

\* Mutant: the last attempt allowed is not made.
RescheduleEarly(w) ==
    /\ at[w].pc = "retry"
    /\ Release(w, IF claim[w][at[w].job] + 1 >= MaxAttempts THEN "failed" ELSE "pending")

\* Mutant: a job that failed is put away as done.
RescheduleAsDone(w) == at[w].pc = "retry" /\ Release(w, "done")

\* reschedule_user_memory_job, judged by the attempt this worker claimed.
Reschedule(w) ==
    /\ at[w].pc = "retry"
    /\ Release(w, IF claim[w][at[w].job] >= MaxAttempts THEN "failed" ELSE "pending")

\* The process stops, or the error handler itself fails: the batch is dropped.
Crash(w) ==
    /\ claim[w] # NoClaims
    /\ Fault
    /\ at'    = [at EXCEPT ![w] = Free]
    /\ claim' = [claim EXCEPT ![w] = NoClaims]
    /\ UNCHANGED <<row, job, vec, edit, rec, shown>>

-----------------------------------------------------------------------------
(* storage_cleanup.py: reconcile_user_memory_vectors, one cycle at a time   *)
(* under the advisory lock                                                 *)

Missing == rec.expected \ rec.actual
Orphans == rec.actual \ rec.expected

\* The expected rows, and those loaded with a state other than pending.
ReadRows ==
    /\ Reconciling /\ rec.pc = "idle"
    /\ LET live == {e \in Entry : row[e].live}
       IN  rec' = [pc |-> "compare", expected |-> live, actual |-> {},
                   loaded |-> {e \in live : row[e].sync # "pending"}]
    /\ UNCHANGED <<row, job, vec, claim, at, edit, used, shown>>

\* iterate_user_memory_vectors
ReadVectors ==
    /\ rec.pc = "compare"
    /\ rec' = [rec EXCEPT !.pc = "repair", !.actual = {e \in Entry : vec[e] # {}}]
    /\ UNCHANGED <<row, job, vec, claim, at, edit, used, shown>>

\* Mutant: missing vectors are reported and not queued.
RepairOrphansOnly ==
    /\ rec.pc = "repair"
    /\ vec' = [e \in Entry |-> IF e \in Orphans THEN {} ELSE vec[e]]
    /\ rec' = NoCycle
    /\ UNCHANGED <<row, job, claim, at, edit, used, shown>>

\* Mutant: orphans are reported and not deleted.
RepairMissingOnly ==
    /\ rec.pc = "repair"
    /\ job' = [j \in Job |-> IF j \in Missing THEN Refresh(j) ELSE job[j]]
    /\ rec' = NoCycle
    /\ UNCHANGED <<row, vec, claim, at, edit, used, shown>>

\* Orphans are deleted, missing vectors queued and their rows set to pending;
\* if a row to be set is gone, the update fails and nothing is committed.
Repair ==
    LET touched == Missing \cap rec.loaded
        commits == \A e \in touched : row[e].live
    IN  /\ rec.pc = "repair"
        /\ \A e \in touched : edit[e] = "idle"
        /\ vec' = [e \in Entry |-> IF e \in Orphans THEN {} ELSE vec[e]]
        /\ job' = [j \in Job |-> IF commits /\ j \in Missing THEN Refresh(j) ELSE job[j]]
        /\ row' = [e \in Entry |-> IF commits /\ e \in touched
                                   THEN [row[e] EXCEPT !.sync = "pending"] ELSE row[e]]
        /\ rec' = NoCycle
        /\ UNCHANGED <<claim, at, edit, used, shown>>

\* A call fails or the process stops: some orphans are gone, nothing is queued.
AbortCycle ==
    /\ rec.pc # "idle"
    /\ Fault
    /\ \E gone \in SUBSET (IF rec.pc = "repair" THEN Orphans ELSE {}) :
           vec' = [e \in Entry |-> IF e \in gone THEN {} ELSE vec[e]]
    /\ rec' = NoCycle
    /\ UNCHANGED <<row, job, claim, at, edit, shown>>

-----------------------------------------------------------------------------
WorkerStep(w) ==
    \/ \E j \in Job : TakeUp(w, j)
    \/ DeleteOld(w) \/ Insert(w) \/ MarkSynced(w)
    \/ DropVector(w) \/ WipeVectors(w)
    \/ FinishJob(w) \/ MarkFailed(w) \/ Reschedule(w)

Cycle == ReadRows \/ ReadVectors \/ Repair

Next ==
    \/ \E e \in Entry : CreateRow(e) \/ BeginWrite(e) \/ CommitWrite(e) \/ RollbackWrite(e)
    \/ DeleteUser
    \/ \E w \in Worker, S \in SUBSET Job : Claim(w, S)
    \/ \E S \in SUBSET Job : Requeue(S)
    \/ \E w \in Worker : WorkerStep(w) \/ FailJob(w) \/ Crash(w)
    \/ Cycle \/ AbortCycle

Spec == Init /\ [][Next]_vars

\* Threads run on, transactions commit, the cleanup manager's timer comes
\* round, and a job that is claimable again and again becomes the oldest.
FairSpec ==
    /\ Spec
    /\ \A e \in Entry : WF_vars(CommitWrite(e))
    /\ \A w \in Worker : WF_vars(WorkerStep(w))
    /\ \A j \in Job : SF_vars(\E w \in Worker, S \in SUBSET Job : j \in S /\ Claim(w, S))
    /\ WF_vars(Cycle)

-----------------------------------------------------------------------------
TypeOK ==
    /\ row \in [Entry -> [live: BOOLEAN, version: Version, sync: SyncState]]
    /\ job \in [Job -> [status: JobStatus, attempts: Attempt]]
    /\ vec \in [Entry -> SUBSET (Version \X Worker)]
    /\ claim \in [Worker -> [Job -> Attempt]]
    /\ at \in [Worker -> [pc: Phase, job: Job, seen: Version]]
    /\ edit \in [Entry -> {"idle", "saw_pending", "saw_other"}]
    /\ rec \in [pc: {"idle", "compare", "repair"}, expected: SUBSET Entry,
                loaded: SUBSET Entry, actual: SUBSET Entry]
    /\ used \in [faults: 0..MaxFaults, overtakes: 0..MaxOvertakes]
    /\ shown \in [Entry -> Version]

\* upsert_user_memory_vectors: a row has one vector at most, whatever fails
\* and is tried again.  (True of one worker.)
OneVector == \A e \in Entry : Cardinality(vec[e]) <= 1

\* A search never falls back to a text older than one already indexed.  (True
\* of one worker: rows are loaded after the last vector was written.)
NeverBackwards == \A e \in Entry : \A d \in vec[e] : d[1] = shown[e]

\* A row of an existing account has a vector or a job that will make one, also
\* between the delete and the insert of an upsert, when a worker stops there,
\* and when a write's refresh of the job is lost.  (True of one worker while no
\* reconcile cycle deletes what it takes for an orphan.)
IndexedOrQueued ==
    job[Wipe].status = "none" =>
        \A e \in Entry : row[e].live =>
            vec[e] # {} \/ job[e].status \in {"pending", "processing", "failed"}

\* reschedule_user_memory_job: a job is given up only after all its attempts,
\* however many workers held it and whichever of them failed last.
GivenUpLate == \A j \in Job : job[j].status = "failed" => job[j].attempts = MaxAttempts

\* The queue drains: a job waiting or locked ends, though workers stop in the
\* middle of a batch and write what others have finished.
JobsEnd == \A j \in Job :
    job[j].status \in {"pending", "processing"} ~> job[j].status \in {"done", "failed"}

\* reconcile_user_memory_vectors: a row without vector gets one, even if its
\* job was given up or the vector deleted by a cycle that read old rows.
RowsGetIndexed == \A e \in Entry : row[e].live ~> (vec[e] # {} \/ ~row[e].live)

\* reconcile_user_memory_vectors: vectors of deleted rows go, even those that a
\* worker inserts after the account's vectors were deleted.
OrphansGo == \A e \in Entry : ~row[e].live ~> (vec[e] = {} \/ row[e].live)
=============================================================================
