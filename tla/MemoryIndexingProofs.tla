------------------------ MODULE MemoryIndexingProofs ------------------------
(***************************************************************************)
(* Proofs about MemoryIndexing.  For any rows and workers: the stores keep *)
(* their types, a job is given up only after all its attempts, a row has at *)
(* most one vector of each worker, and where no call fails no row is       *)
(* forgotten.  For a deployment with one worker: a row has at most one     *)
(* vector, which is the newest ever embedded, and without reconcile cycles *)
(* no row is forgotten, whatever fails.                                    *)
(***************************************************************************)
EXTENDS MemoryIndexing, FiniteSetTheorems, TLAPS

-----------------------------------------------------------------------------
(* The invariant of any deployment                                         *)

RowPhase == {"delete_old", "insert", "mark", "drop", "failed"}

\* A worker in a phase about a row has a row's job in hand.
Targets == \A w \in Worker : at[w].pc \in RowPhase => at[w].job \in Entry

\* Rows that exist or are being written have been written, within the bound.
Writing == \A e \in Entry :
    /\ row[e].live => row[e].version > 0
    /\ edit[e] # "idle" => row[e].version > 0 /\ row[e].version < MaxWrites

\* No worker holds a job under an attempt that the job has not counted.
Counted == \A w \in Worker, j \in Job : claim[w][j] <= job[j].attempts

IInv == TypeOK /\ Targets /\ Writing /\ Counted /\ GivenUpLate

\* A row's job is never the job that deletes all vectors.
LEMMA EntryJob == Entry \subseteq Job /\ Wipe \in Job /\ Wipe \notin Entry
  BY MemoryAssumption DEF Job

\* The saturating counter of attempts counts up to MaxAttempts.
LEMMA Counting ==
    ASSUME NEW n \in Attempt
    PROVE  NextAttempt(n) \in Attempt /\ n <= NextAttempt(n)
  BY MemoryAssumption DEF Attempt, NextAttempt

\* Taking locks, and failing, stay within their bounds.
LEMMA Budget ==
    ASSUME used \in [faults: 0..MaxFaults, overtakes: 0..MaxOvertakes]
    PROVE  /\ \A S \in SUBSET Job : TakeLocks(S) =>
                 used' \in [faults: 0..MaxFaults, overtakes: 0..MaxOvertakes]
           /\ Fault => used' \in [faults: 0..MaxFaults, overtakes: 0..MaxOvertakes]
  BY MemoryAssumption DEF TakeLocks, Fault

\* A refreshed job is pending and keeps its attempts.
LEMMA Refreshed ==
    ASSUME NEW j \in Job, job \in [Job -> [status: JobStatus, attempts: Attempt]]
    PROVE  /\ Refresh(j) \in [status: JobStatus, attempts: Attempt]
           /\ Refresh(j).status = "pending"
           /\ Refresh(j).attempts = job[j].attempts
  BY DEF Refresh, JobStatus

\* What the writers, the deletion and the repair do to one row.
LEMMA RowEdited ==
    ASSUME NEW r \in [live: BOOLEAN, version: Version, sync: SyncState], NEW v \in Version
    PROVE  /\ [r EXCEPT !.sync = "pending"] \in [live: BOOLEAN, version: Version, sync: SyncState]
           /\ [r EXCEPT !.live = FALSE] \in [live: BOOLEAN, version: Version, sync: SyncState]
           /\ [r EXCEPT !.live = FALSE].live = FALSE
           /\ [r EXCEPT !.live = FALSE].version = r.version
           /\ [r EXCEPT !.version = v, !.sync = "pending"]
                  \in [live: BOOLEAN, version: Version, sync: SyncState]
           /\ [r EXCEPT !.version = v, !.sync = "pending"].live = r.live
           /\ [r EXCEPT !.version = v, !.sync = "pending"].version = v
<1>1. "pending" \in SyncState  BY DEF SyncState
<1> QED  BY <1>1

\* The stores start within their types.
LEMMA InitInv == Init => IInv
  BY EntryJob, MemoryAssumption
  DEF Init, IInv, TypeOK, Targets, Writing, Counted, GivenUpLate, Version, Attempt,
      JobStatus, SyncState, Phase, RowPhase, Free, NoClaims, NoCycle

\* The rows' side: creation, writes and deletion.
LEMMA RowsInv ==
    ASSUME IInv,
           \/ \E e \in Entry : CreateRow(e) \/ BeginWrite(e) \/ CommitWrite(e) \/ RollbackWrite(e)
           \/ DeleteUser
    PROVE  IInv'
<1> USE EntryJob, MemoryAssumption, Budget
    DEF IInv, TypeOK, Targets, Writing, Counted, GivenUpLate, Version, Attempt, JobStatus,
        SyncState, Refresh
<1>1. ASSUME NEW e \in Entry, CreateRow(e) PROVE IInv'
  <2>1. e \in Job /\ job' = [job EXCEPT ![e] = Refresh(e)]  BY <1>1 DEF CreateRow
  <2>2. job' \in [Job -> [status: JobStatus, attempts: Attempt]]
    BY <2>1, Refreshed
  <2>3. \A j \in Job : job'[j].attempts = job[j].attempts /\ (job'[j].status = "failed" => job[j].status = "failed")
    BY <2>1, Refreshed
  <2>4. row' \in [Entry -> [live: BOOLEAN, version: Version, sync: SyncState]]
    BY <1>1 DEF CreateRow
  <2>5. Counted' /\ GivenUpLate'
    BY <1>1, <2>3 DEF CreateRow
  <2>6. Writing'
    BY <1>1 DEF CreateRow
  <2> QED  BY <1>1, <2>2, <2>4, <2>5, <2>6 DEF CreateRow
<1>2. ASSUME NEW e \in Entry, BeginWrite(e) PROVE IInv'  BY <1>2 DEF BeginWrite
<1>3. ASSUME NEW e \in Entry, CommitWrite(e) PROVE IInv'
  <2>1. /\ row' = [row EXCEPT ![e].version = @ + 1, ![e].sync = "pending"]
        /\ job' = [job EXCEPT ![e] = IF edit[e] = "saw_other" THEN Refresh(e) ELSE @]
        /\ edit' = [edit EXCEPT ![e] = "idle"]
        /\ e \in Job /\ edit[e] # "idle"
    BY <1>3 DEF CommitWrite
  <2>2. /\ job' \in [Job -> [status: JobStatus, attempts: Attempt]]
        /\ \A j \in Job : /\ job'[j].attempts = job[j].attempts
                          /\ job'[j].status = "failed" => job[j].status = "failed"
    BY <2>1, Refreshed
  <2>3. row[e].version \in Nat /\ row[e].version + 1 \in Version /\ row[e].version + 1 > 0
    BY <2>1
  <2>4. /\ row' \in [Entry -> [live: BOOLEAN, version: Version, sync: SyncState]]
        /\ \A d \in Entry : /\ row'[d].live = row[d].live
                            /\ row'[d].version = IF d = e THEN row[e].version + 1 ELSE row[d].version
    <3>1. row[e] \in [live: BOOLEAN, version: Version, sync: SyncState]  OBVIOUS
    <3> DEFINE new == [row[e] EXCEPT !.version = row[e].version + 1, !.sync = "pending"]
    <3>2. row' = [row EXCEPT ![e] = new]
      BY <2>1
    <3>3. /\ new \in [live: BOOLEAN, version: Version, sync: SyncState]
          /\ new.live = row[e].live /\ new.version = row[e].version + 1
      BY <2>3, <3>1, RowEdited
    <3> HIDE DEF new
    <3> QED  BY <3>2, <3>3
  <2>5. Writing'  BY <2>1, <2>3, <2>4
  <2>6. Counted' /\ GivenUpLate'  BY <1>3, <2>2 DEF CommitWrite
  <2> QED  BY <1>3, <2>2, <2>4, <2>5, <2>6 DEF CommitWrite
<1>4. ASSUME NEW e \in Entry, RollbackWrite(e) PROVE IInv'  BY <1>4 DEF RollbackWrite
<1>5. ASSUME DeleteUser PROVE IInv'
  <2>1. /\ row' = [e \in Entry |-> [row[e] EXCEPT !.live = FALSE]]
        /\ job' = [job EXCEPT ![Wipe] = Refresh(Wipe)]
    BY <1>5 DEF DeleteUser
  <2>2. /\ job' \in [Job -> [status: JobStatus, attempts: Attempt]]
        /\ \A j \in Job : /\ job'[j].attempts = job[j].attempts
                          /\ job'[j].status = "failed" => job[j].status = "failed"
    BY <2>1, Refreshed
  <2>3. row' \in [Entry -> [live: BOOLEAN, version: Version, sync: SyncState]] /\ Writing'
    <3>1. \A e \in Entry : row[e] \in [live: BOOLEAN, version: Version, sync: SyncState]
      OBVIOUS
    <3>2. \A e \in Entry : /\ row'[e] \in [live: BOOLEAN, version: Version, sync: SyncState]
                          /\ row'[e].live = FALSE /\ row'[e].version = row[e].version
      <4> SUFFICES ASSUME NEW e \in Entry
                   PROVE  /\ row'[e] \in [live: BOOLEAN, version: Version, sync: SyncState]
                          /\ row'[e].live = FALSE /\ row'[e].version = row[e].version
        OBVIOUS
      <4>1. row'[e] = [row[e] EXCEPT !.live = FALSE]  BY <2>1
      <4>2. row[e].version \in Version  BY <3>1
      <4> HIDE DEF IInv, TypeOK, Version, SyncState
      <4> QED  BY <3>1, <4>1, <4>2, RowEdited
    <3>3. row' \in [Entry -> [live: BOOLEAN, version: Version, sync: SyncState]]
      BY <2>1, <3>2
    <3>4. \A e \in Entry : row'[e].live = FALSE /\ row'[e].version = row[e].version
      BY <3>2
    <3> QED  BY <1>5, <3>3, <3>4 DEF DeleteUser
  <2>4. Counted' /\ GivenUpLate'  BY <1>5, <2>2 DEF DeleteUser
  <2> QED  BY <1>5, <2>2, <2>3, <2>4 DEF DeleteUser
<1> QED  BY <1>1, <1>2, <1>3, <1>4, <1>5

\* The queue's side: claims and requeued locks.
LEMMA QueueInv ==
    ASSUME IInv,
           \/ \E w \in Worker, S \in SUBSET Job : Claim(w, S)
           \/ \E S \in SUBSET Job : Requeue(S)
    PROVE  IInv'
<1> USE DEF IInv, TypeOK, Targets, Writing, Counted, GivenUpLate
<1>1. ASSUME NEW w \in Worker, NEW S \in SUBSET Job, Claim(w, S) PROVE IInv'
  <2> DEFINE next(j) == NextAttempt(job[j].attempts)
  <2>1. \A j \in Job : next(j) \in Attempt /\ job[j].attempts <= next(j)  BY Counting
  <2>2. /\ job' = [j \in Job |-> IF j \in S THEN [status |-> "processing", attempts |-> next(j)]
                                 ELSE job[j]]
        /\ claim' = [claim EXCEPT ![w] = [j \in Job |-> IF j \in S THEN next(j) ELSE 0]]
    BY <1>1 DEF Claim
  <2> HIDE DEF next
  <2>3. job' \in [Job -> [status: JobStatus, attempts: Attempt]]
    BY <2>1, <2>2 DEF JobStatus
  <2>4. claim' \in [Worker -> [Job -> Attempt]]
    BY <2>1, <2>2, MemoryAssumption DEF Attempt
  <2>5. Counted'
    BY <2>1, <2>2, MemoryAssumption DEF Attempt
  <2>6. GivenUpLate'  BY <2>2
  <2> QED  BY <1>1, <2>3, <2>4, <2>5, <2>6, Budget DEF Claim
<1>2. ASSUME NEW S \in SUBSET Job, Requeue(S) PROVE IInv'
  <2>1. job' = [j \in Job |-> IF j \in S THEN Refresh(j) ELSE job[j]]  BY <1>2 DEF Requeue
  <2>2. job' \in [Job -> [status: JobStatus, attempts: Attempt]]  BY <2>1, Refreshed
  <2>3. Counted' /\ GivenUpLate'  BY <1>2, <2>1, Refreshed DEF Requeue
  <2> QED  BY <1>2, <2>2, <2>3, Budget DEF Requeue
<1> QED  BY <1>1, <1>2

\* A worker that moves to a phase about a row has a row's job in hand.
LEMMA Moved ==
    ASSUME NEW w \in Worker, NEW pc \in Phase, Go(w, pc), Targets,
           at \in [Worker -> [pc: Phase, job: Job, seen: Version]],
           pc \in RowPhase => at[w].job \in Entry
    PROVE  at' \in [Worker -> [pc: Phase, job: Job, seen: Version]] /\ Targets'
<1>1. at' = [at EXCEPT ![w].pc = pc]  BY DEF Go
<1>2. at' \in [Worker -> [pc: Phase, job: Job, seen: Version]]  BY <1>1
<1>3. /\ at'[w].pc = pc /\ at'[w].job = at[w].job
      /\ \A v \in Worker : v # w => at'[v] = at[v]
  BY <1>1
<1> QED  BY <1>2, <1>3 DEF Targets

\* A worker between jobs has no row's job in hand.
LEMMA MovedFree ==
    ASSUME NEW w \in Worker, at' = [at EXCEPT ![w] = Free], Targets,
           at \in [Worker -> [pc: Phase, job: Job, seen: Version]]
    PROVE  at' \in [Worker -> [pc: Phase, job: Job, seen: Version]] /\ Targets'
<1>1. Free \in [pc: Phase, job: Job, seen: Version] /\ Free.pc \notin RowPhase
  BY EntryJob, MemoryAssumption DEF Free, Phase, RowPhase, Version
<1> QED  BY <1>1 DEF Targets

\* The row of the job in hand is marked only while nobody writes it.
LEMMA Marked ==
    ASSUME NEW w \in Worker, NEW sync \in SyncState, MarkRow(w, sync), Writing,
           at[w].job \in Entry, edit' = edit,
           row \in [Entry -> [live: BOOLEAN, version: Version, sync: SyncState]]
    PROVE  row' \in [Entry -> [live: BOOLEAN, version: Version, sync: SyncState]] /\ Writing'
<1> DEFINE e == at[w].job
<1>1. row' = IF row[e].live THEN [row EXCEPT ![e].sync = sync] ELSE row  BY DEF MarkRow
<1> HIDE DEF e
<1>2. row' \in [Entry -> [live: BOOLEAN, version: Version, sync: SyncState]]  BY <1>1
<1>3. \A d \in Entry : row'[d].live = row[d].live /\ row'[d].version = row[d].version  BY <1>1
<1> QED  BY <1>2, <1>3 DEF Writing

\* The worker's side: one job from its start to its end, and every failure.
LEMMA WorkerInv ==
    ASSUME IInv, NEW w \in Worker, WorkerStep(w) \/ FailJob(w) \/ Crash(w)
    PROVE  IInv'
<1> USE DEF IInv, TypeOK
<1> DEFINE AtOK == at' \in [Worker -> [pc: Phase, job: Job, seen: Version]] /\ Targets'
<1>0. /\ at[w].job \in Job /\ at[w].seen \in Version
      /\ at[w].pc \in RowPhase => at[w].job \in Entry
  BY DEF Targets
<1>1. ASSUME NEW j \in Job, TakeUp(w, j) PROVE IInv'
  <2> DEFINE there == IF j = Wipe THEN [pc |-> "wipe", job |-> j, seen |-> 0]
                      ELSE IF row[j].live THEN [pc |-> "delete_old", job |-> j, seen |-> row[j].version]
                      ELSE [pc |-> "drop", job |-> j, seen |-> 0]
  <2>1. at' = [at EXCEPT ![w] = there]  BY <1>1 DEF TakeUp
  <2>2. j # Wipe => j \in Entry  BY DEF Job
  <2>3. 0 \in Version /\ (j # Wipe => row[j].version \in Version)
    BY <2>2, MemoryAssumption DEF Version
  <2>4. /\ there \in [pc: Phase, job: Job, seen: Version]
        /\ there.pc \in RowPhase => there.job \in Entry
    BY <2>2, <2>3 DEF Phase, RowPhase
  <2> HIDE DEF there
  <2>5. AtOK  BY <2>1, <2>4 DEF Targets
  <2> QED  BY <1>1, <2>5 DEF TakeUp, Writing, Counted, GivenUpLate
<1>2. ASSUME DeleteOld(w) PROVE IInv'
  <2>1. AtOK  BY <1>0, <1>2, Moved DEF DeleteOld, Phase, RowPhase
  <2> QED  BY <1>2, <2>1 DEF DeleteOld, Writing, Counted, GivenUpLate
<1>3. ASSUME Insert(w) PROVE IInv'
  <2>1. AtOK  BY <1>0, <1>3, Moved DEF Insert, Phase, RowPhase
  <2>2. at[w].job \in Entry  BY <1>0, <1>3 DEF Insert, RowPhase
  <2>3. vec' = [vec EXCEPT ![at[w].job] = @ \cup {<<at[w].seen, w>>}]  BY <1>3 DEF Insert
  <2>4. <<at[w].seen, w>> \in Version \X Worker  BY <1>0
  <2>5. vec' \in [Entry -> SUBSET (Version \X Worker)]  BY <2>2, <2>3, <2>4
  <2>6. shown' \in [Entry -> Version]  BY <1>0, <1>3, <2>2 DEF Insert
  <2> QED  BY <1>3, <2>1, <2>5, <2>6 DEF Insert, Writing, Counted, GivenUpLate
<1>4. ASSUME MarkSynced(w) PROVE IInv'
  <2>1. AtOK  BY <1>0, <1>4, Moved DEF MarkSynced, Phase, RowPhase
  <2>2. at[w].job \in Entry  BY <1>0, <1>4 DEF MarkSynced, RowPhase
  <2>3. /\ row' \in [Entry -> [live: BOOLEAN, version: Version, sync: SyncState]]
        /\ Writing'
    BY <1>4, <2>2, Marked DEF MarkSynced, SyncState
  <2> QED  BY <1>4, <2>1, <2>3 DEF MarkSynced, Counted, GivenUpLate
<1>5. ASSUME DropVector(w) PROVE IInv'
  <2>1. AtOK  BY <1>0, <1>5, Moved DEF DropVector, Phase, RowPhase
  <2> QED  BY <1>5, <2>1 DEF DropVector, Writing, Counted, GivenUpLate
<1>6. ASSUME WipeVectors(w) PROVE IInv'
  <2>1. AtOK  BY <1>0, <1>6, Moved DEF WipeVectors, Phase, RowPhase
  <2> QED  BY <1>6, <2>1 DEF WipeVectors, Writing, Counted, GivenUpLate
<1>7. ASSUME NEW status \in {"done", "pending", "failed"}, Release(w, status),
             status = "failed" => job[at[w].job].attempts = MaxAttempts
      PROVE  IInv'
  <2> DEFINE j == at[w].job
  <2>1. AtOK  BY <1>7, MovedFree DEF Release
  <2>2. /\ job' = [job EXCEPT ![j].status = status]
        /\ claim' = [claim EXCEPT ![w][j] = 0]
    BY <1>7 DEF Release
  <2>3. j \in Job /\ status \in JobStatus  BY <1>0 DEF JobStatus
  <2> HIDE DEF j
  <2>4. /\ job' \in [Job -> [status: JobStatus, attempts: Attempt]]
        /\ \A i \in Job : job'[i].attempts = job[i].attempts
        /\ \A i \in Job : job'[i].status = IF i = j THEN status ELSE job[i].status
    BY <2>2, <2>3
  <2>5. 0 \in Attempt /\ \A n \in Attempt : 0 <= n  BY MemoryAssumption DEF Attempt
  <2>6. /\ claim' \in [Worker -> [Job -> Attempt]]
        /\ \A v \in Worker, i \in Job : claim'[v][i] = 0 \/ claim'[v][i] = claim[v][i]
    BY <2>2, <2>3, <2>5
  <2>7. Counted'
    <3>1. \A i \in Job : job[i].attempts \in Attempt  OBVIOUS
    <3>2. Counted  OBVIOUS
    <3> HIDE DEF IInv, TypeOK
    <3> QED  BY <2>4, <2>5, <2>6, <3>1, <3>2 DEF Counted
  <2>8. GivenUpLate'  BY <1>7, <2>4 DEF GivenUpLate, j
  <2> QED  BY <1>7, <2>1, <2>4, <2>6, <2>7, <2>8 DEF Release, Writing
<1>8. ASSUME FinishJob(w) PROVE IInv'  BY <1>7, <1>8 DEF FinishJob
<1>9. ASSUME Reschedule(w) PROVE IInv'
  <2>1. claim[w][at[w].job] >= MaxAttempts => job[at[w].job].attempts = MaxAttempts
    <3>1. /\ claim[w][at[w].job] \in Attempt
          /\ job[at[w].job].attempts \in Attempt
          /\ claim[w][at[w].job] <= job[at[w].job].attempts
      BY <1>0 DEF Counted
    <3> HIDE DEF IInv, TypeOK
    <3> QED  BY <3>1, MemoryAssumption DEF Attempt
  <2> QED  BY <1>7, <1>9, <2>1 DEF Reschedule
<1>10. ASSUME MarkFailed(w) PROVE IInv'
  <2>1. AtOK  BY <1>0, <1>10, Moved DEF MarkFailed, Phase, RowPhase
  <2>2. at[w].job \in Entry  BY <1>0, <1>10 DEF MarkFailed, RowPhase
  <2>3. /\ row' \in [Entry -> [live: BOOLEAN, version: Version, sync: SyncState]]
        /\ Writing'
    BY <1>10, <2>2, Marked DEF MarkFailed, SyncState
  <2> QED  BY <1>10, <2>1, <2>3 DEF MarkFailed, Counted, GivenUpLate
<1>11. ASSUME FailJob(w) PROVE IInv'
  <2>1. at[w].job # Wipe => at[w].job \in Entry  BY <1>0 DEF Job
  <2>2. AtOK  BY <1>11, <2>1, Moved DEF FailJob, Phase, RowPhase
  <2> QED  BY <1>11, <2>2, Budget DEF FailJob, Writing, Counted, GivenUpLate
<1>12. ASSUME Crash(w) PROVE IInv'
  <2>1. AtOK  BY <1>12, MovedFree DEF Crash
  <2>2. NoClaims \in [Job -> Attempt] /\ \A j \in Job, n \in Attempt : NoClaims[j] <= n
    BY MemoryAssumption DEF NoClaims, Attempt
  <2>3. claim' \in [Worker -> [Job -> Attempt]] /\ Counted'
    BY <1>12, <2>2 DEF Crash, Counted
  <2> QED  BY <1>12, <2>1, <2>3, Budget DEF Crash, Writing, GivenUpLate
<1> QED
  BY <1>1, <1>2, <1>3, <1>4, <1>5, <1>6, <1>8, <1>9, <1>10, <1>11, <1>12 DEF WorkerStep

\* The reconcile cycle.
LEMMA CycleInv == ASSUME IInv, Cycle \/ AbortCycle PROVE IInv'
<1> USE EntryJob, MemoryAssumption
    DEF IInv, TypeOK, Targets, Writing, Counted, GivenUpLate, Missing, Orphans
<1>1. ASSUME ReadRows PROVE IInv'  BY <1>1 DEF ReadRows
<1>2. ASSUME ReadVectors PROVE IInv'  BY <1>2 DEF ReadVectors
<1>3. ASSUME Repair PROVE IInv'
  <2>1. job' \in [Job -> [status: JobStatus, attempts: Attempt]]  BY <1>3, Refreshed DEF Repair
  <2>2. Counted' /\ GivenUpLate'  BY <1>3, Refreshed DEF Repair
  <2>3. row' \in [Entry -> [live: BOOLEAN, version: Version, sync: SyncState]]
    <3> DEFINE set == {e \in Missing \cap rec.loaded : \A d \in Missing \cap rec.loaded : row[d].live}
    <3>1. row' = [e \in Entry |-> IF e \in set THEN [row[e] EXCEPT !.sync = "pending"] ELSE row[e]]
      BY <1>3 DEF Repair
    <3> HIDE DEF set
    <3>2. \A e \in Entry : [row[e] EXCEPT !.sync = "pending"]
                               \in [live: BOOLEAN, version: Version, sync: SyncState]
      <4> SUFFICES ASSUME NEW e \in Entry
                   PROVE  [row[e] EXCEPT !.sync = "pending"]
                            \in [live: BOOLEAN, version: Version, sync: SyncState]
        OBVIOUS
      <4>1. row[e] \in [live: BOOLEAN, version: Version, sync: SyncState]  OBVIOUS
      <4> QED  BY <4>1, RowEdited
    <3> QED  BY <3>1, <3>2
  <2>4. Writing'  BY <1>3 DEF Repair
  <2> QED  BY <1>3, <2>1, <2>2, <2>3, <2>4 DEF Repair, NoCycle
<1>4. ASSUME AbortCycle PROVE IInv'  BY <1>4, Budget DEF AbortCycle, NoCycle
<1> QED  BY <1>1, <1>2, <1>3, <1>4 DEF Cycle

\* The invariant holds in every behaviour of every deployment.
THEOREM Inductive == Spec => []IInv
<1>1. Init => IInv  BY InitInv
<1>2. IInv /\ [Next]_vars => IInv'
  <2> SUFFICES ASSUME IInv, [Next]_vars PROVE IInv'  OBVIOUS
  <2>1. CASE Next  BY <2>1, RowsInv, QueueInv, WorkerInv, CycleInv DEF Next
  <2>2. CASE UNCHANGED vars
    BY <2>2 DEF vars, IInv, TypeOK, Targets, Writing, Counted, GivenUpLate
  <2> QED  BY <2>1, <2>2
<1> QED  BY <1>1, <1>2, PTL DEF Spec

-----------------------------------------------------------------------------
(* Any deployment                                                          *)

\* Rows, jobs, vectors and workers keep their types: the states of a job and of
\* a row stay those that the code compares with.
THEOREM TypeCorrect == Spec => []TypeOK
<1>1. IInv => TypeOK  BY DEF IInv
<1> QED  BY <1>1, Inductive, PTL

\* reschedule_user_memory_job gives a job up only after max_attempts claims,
\* though jobs are refreshed and reclaimed under the worker that judges.
THEOREM AllAttemptsMade == Spec => []GivenUpLate
<1>1. IInv => GivenUpLate  BY DEF IInv
<1> QED  BY <1>1, Inductive, PTL
-----------------------------------------------------------------------------
(* One worker                                                              *)

\* With W the only worker: a vector shows the newest version embedded, the old
\* one is gone before the insert, and what W embeds is no older than what the
\* row's vector showed when W loaded the row.
Sole(W) ==
    /\ \A e \in Entry : \A d \in vec[e] : d = <<shown[e], W>>
    /\ \A e \in Entry : shown[e] <= row[e].version
    /\ at[W].pc = "insert" => vec[at[W].job] = {}
    /\ at[W].pc \in {"delete_old", "insert"} =>
           shown[at[W].job] <= at[W].seen /\ at[W].seen <= row[at[W].job].version

\* Rows keep their version or take the next one.
RowsGrow == \A e \in Entry : row'[e].version \in Version /\ row[e].version <= row'[e].version

\* No step takes a version of a row back.
LEMMA Growing == ASSUME IInv, Next PROVE RowsGrow
<1> USE MemoryAssumption DEF IInv, TypeOK, Version
<1>0. \A e \in Entry : row[e].version \in Nat  OBVIOUS
<1>1. ASSUME row' = row PROVE RowsGrow  BY <1>1 DEF RowsGrow
<1>2. ASSUME IInv', \A e \in Entry : row[e].version <= row'[e].version PROVE RowsGrow
  BY <1>2 DEF RowsGrow
<1>3. IInv'  BY RowsInv, QueueInv, WorkerInv, CycleInv DEF Next
<1>4. ASSUME NEW e \in Entry, CreateRow(e) PROVE RowsGrow  BY <1>0, <1>2, <1>3, <1>4 DEF CreateRow
<1>5. ASSUME NEW e \in Entry, CommitWrite(e) PROVE RowsGrow
  <2>1. row' = [row EXCEPT ![e].version = @ + 1, ![e].sync = "pending"]  BY <1>5 DEF CommitWrite
  <2>2. \A d \in Entry : row'[d].version = IF d = e THEN row[e].version + 1 ELSE row[d].version
    BY <2>1
  <2>3. \A d \in Entry : row[d].version <= row'[d].version
    <3> HIDE DEF IInv, TypeOK, Version
    <3> QED  BY <1>0, <2>2
  <2> QED  BY <1>2, <1>3, <2>3
<1>6. ASSUME DeleteUser PROVE RowsGrow
  <2>1. \A d \in Entry : row'[d].version = row[d].version  BY <1>6 DEF DeleteUser
  <2> QED  BY <1>0, <1>2, <1>3, <2>1
<1>7. ASSUME Repair PROVE RowsGrow
  <2>1. \A d \in Entry : row'[d].version = row[d].version  BY <1>7 DEF Repair
  <2> QED  BY <1>0, <1>2, <1>3, <2>1
<1>8. ASSUME NEW w \in Worker, MarkSynced(w) \/ MarkFailed(w) PROVE RowsGrow
  <2>1. at[w].job \in Entry  BY <1>8 DEF MarkSynced, MarkFailed, Targets, RowPhase
  <2>2. PICK sync \in SyncState : MarkRow(w, sync)
    BY <1>8 DEF MarkSynced, MarkFailed, SyncState
  <2>3. row' = IF row[at[w].job].live THEN [row EXCEPT ![at[w].job].sync = sync] ELSE row
    BY <2>2 DEF MarkRow
  <2>4. \A d \in Entry : row'[d].version = row[d].version
    BY <2>1, <2>3
  <2> QED  BY <1>0, <1>2, <1>3, <2>4
<1> QED
  <2> HIDE DEF IInv, TypeOK, Version
  <2>1. ASSUME NEW w \in Worker, WorkerStep(w) \/ FailJob(w) \/ Crash(w) PROVE RowsGrow
    BY <2>1, <1>1, <1>8
    DEF WorkerStep, TakeUp, DeleteOld, Insert, DropVector, WipeVectors, FinishJob, Reschedule,
        Release, FailJob, Crash
  <2>2. ASSUME Cycle \/ AbortCycle PROVE RowsGrow
    BY <2>2, <1>1, <1>7 DEF Cycle, ReadRows, ReadVectors, AbortCycle
  <2>3. ASSUME NEW e \in Entry, CreateRow(e) \/ BeginWrite(e) \/ CommitWrite(e) \/ RollbackWrite(e)
        PROVE  RowsGrow
    BY <2>3, <1>1, <1>4, <1>5 DEF BeginWrite, RollbackWrite
  <2>4. ASSUME NEW w \in Worker, NEW S \in SUBSET Job, Claim(w, S) PROVE RowsGrow
    BY <2>4, <1>1 DEF Claim
  <2>5. ASSUME NEW S \in SUBSET Job, Requeue(S) PROVE RowsGrow  BY <2>5, <1>1 DEF Requeue
  <2> QED  BY <1>6, <2>1, <2>2, <2>3, <2>4, <2>5 DEF Next

\* Steps that leave the worker and add no vector keep what the vectors show.
LEMMA SoleQuiet ==
    ASSUME NEW W \in Worker, IInv, Sole(W), RowsGrow, at' = at, shown' = shown,
           \A e \in Entry : vec'[e] \subseteq vec[e]
    PROVE  Sole(W)'
<1>1. \A e \in Entry : row[e].version \in Nat /\ row'[e].version \in Nat /\ shown[e] \in Nat
  BY MemoryAssumption DEF RowsGrow, IInv, TypeOK, Version
<1>2. at[W].seen \in Nat /\ (at[W].pc \in {"delete_old", "insert"} => at[W].job \in Entry)
  BY MemoryAssumption DEF IInv, TypeOK, Targets, RowPhase, Version
<1> QED  BY <1>1, <1>2 DEF Sole, RowsGrow

\* Every step of a deployment with one worker keeps what the vectors show.
LEMMA SoleNext ==
    ASSUME NEW W, Worker = {W}, IInv, Sole(W), [Next]_vars
    PROVE  Sole(W)'
<1>0. W \in Worker  OBVIOUS
<1>1. /\ \A e \in Entry : row[e].version \in Nat /\ shown[e] \in Nat /\ row[e].version \in Version
      /\ at[W].seen \in Nat /\ at[W].job \in Job
      /\ at[W].pc \in RowPhase => at[W].job \in Entry
  BY <1>0, MemoryAssumption DEF IInv, TypeOK, Targets, Version
<1>2. CASE UNCHANGED vars  BY <1>2 DEF vars, Sole
<1>3. ASSUME NEW pc \in Phase \ {"insert", "delete_old"}, Go(W, pc), shown' = shown,
             \A e \in Entry : row'[e].version = row[e].version /\ vec'[e] \subseteq vec[e]
      PROVE  Sole(W)'
  <2>1. at'[W].pc = pc  BY <1>0, <1>3 DEF Go, IInv, TypeOK
  <2> QED  BY <1>1, <1>3, <2>1 DEF Sole
<1>4. ASSUME at' = [at EXCEPT ![W] = Free], shown' = shown, row' = row, vec' = vec PROVE Sole(W)'
  <2>1. at'[W].pc = "free"  BY <1>0, <1>4 DEF Free, IInv, TypeOK
  <2> QED  BY <1>4, <2>1 DEF Sole
<1>5. CASE WorkerStep(W)
  <2>1. ASSUME NEW j \in Job, TakeUp(W, j) PROVE Sole(W)'
    <3>1. at'[W].pc # "insert"
      BY <1>0, <2>1 DEF TakeUp, IInv, TypeOK
    <3>2. at'[W].pc = "delete_old" => j \in Entry /\ at'[W].job = j /\ at'[W].seen = row[j].version
      BY <1>0, <2>1 DEF TakeUp, IInv, TypeOK, Job
    <3>3. vec' = vec /\ shown' = shown /\ row' = row  BY <2>1 DEF TakeUp
    <3> QED  BY <1>1, <3>1, <3>2, <3>3 DEF Sole
  <2>2. ASSUME DeleteOld(W) PROVE Sole(W)'
    <3>1. at'[W].pc = "insert" /\ at'[W].job = at[W].job /\ at'[W].seen = at[W].seen
      BY <1>0, <2>2 DEF DeleteOld, Go, IInv, TypeOK
    <3>2. at[W].job \in Entry /\ at[W].pc = "delete_old"  BY <1>1, <2>2 DEF DeleteOld, RowPhase
    <3>3. /\ \A e \in Entry : vec'[e] \subseteq vec[e]
          /\ vec'[at[W].job] = {} /\ shown' = shown /\ row' = row
      BY <2>2, <3>2 DEF DeleteOld, IInv, TypeOK
    <3> QED  BY <3>1, <3>2, <3>3 DEF Sole
  <2>3. ASSUME Insert(W) PROVE Sole(W)'
    <3> DEFINE e == at[W].job
    <3>1. e \in Entry /\ at[W].pc = "insert"  BY <1>1, <2>3 DEF Insert, RowPhase
    <3>2. vec[e] = {} /\ shown[e] <= at[W].seen /\ at[W].seen <= row[e].version
      BY <3>1 DEF Sole
    <3>3. at'[W].pc = "mark"  BY <1>0, <2>3 DEF Insert, Go, IInv, TypeOK
    <3>4. vec' = [vec EXCEPT ![e] = @ \cup {<<at[W].seen, W>>}]  BY <2>3 DEF Insert
    <3>5. shown' = [shown EXCEPT ![e] = IF at[W].seen > @ THEN at[W].seen ELSE @]
      BY <2>3 DEF Insert
    <3>6. vec \in [Entry -> SUBSET (Version \X Worker)] /\ shown \in [Entry -> Version]
      BY DEF IInv, TypeOK
    <3>7. row' = row  BY <2>3 DEF Insert
    <3> HIDE DEF e
    <3>8. shown'[e] = at[W].seen  BY <1>1, <3>1, <3>2, <3>5, <3>6
    <3>9. vec'[e] = {<<at[W].seen, W>>}  BY <3>1, <3>2, <3>4, <3>6
    <3>10. \A d \in Entry : d # e => vec'[d] = vec[d] /\ shown'[d] = shown[d]
      BY <3>4, <3>5, <3>6
    <3> QED  BY <3>2, <3>3, <3>7, <3>8, <3>9, <3>10 DEF Sole
  <2>4. ASSUME MarkSynced(W) PROVE Sole(W)'
    <3>1. at[W].job \in Entry  BY <1>1, <2>4 DEF MarkSynced, RowPhase
    <3>2. \A e \in Entry : row'[e].version = row[e].version
      BY <2>4, <3>1 DEF MarkSynced, MarkRow, IInv, TypeOK
    <3> QED  BY <1>3, <2>4, <3>2 DEF MarkSynced, Phase
  <2>5. ASSUME MarkFailed(W) PROVE Sole(W)'
    <3>1. at[W].job \in Entry  BY <1>1, <2>5 DEF MarkFailed, RowPhase
    <3>2. \A e \in Entry : row'[e].version = row[e].version
      BY <2>5, <3>1 DEF MarkFailed, MarkRow, IInv, TypeOK
    <3> QED  BY <1>3, <2>5, <3>2 DEF MarkFailed, Phase
  <2>6. ASSUME DropVector(W) PROVE Sole(W)'
    <3>1. \A e \in Entry : vec'[e] \subseteq vec[e]  BY <2>6 DEF DropVector, IInv, TypeOK
    <3> QED  BY <1>3, <2>6, <3>1 DEF DropVector, Phase
  <2>7. ASSUME WipeVectors(W) PROVE Sole(W)'
    <3>1. \A e \in Entry : vec'[e] \subseteq vec[e]  BY <2>7 DEF WipeVectors
    <3> QED  BY <1>3, <2>7, <3>1 DEF WipeVectors, Phase
  <2>8. ASSUME FinishJob(W) \/ Reschedule(W) PROVE Sole(W)'
    BY <1>4, <2>8 DEF FinishJob, Reschedule, Release
  <2> QED  BY <1>5, <2>1, <2>2, <2>3, <2>4, <2>5, <2>6, <2>7, <2>8 DEF WorkerStep
<1>6. CASE FailJob(W)
  <2>1. ASSUME NEW pc \in {"retry", "failed"}, Go(W, pc) PROVE Sole(W)'
    <3>1. pc \in Phase \ {"insert", "delete_old"}  BY DEF Phase
    <3> QED  BY <1>3, <1>6, <2>1, <3>1 DEF FailJob
  <2> QED  BY <1>6, <2>1 DEF FailJob
<1>7. CASE Crash(W)  BY <1>4, <1>7 DEF Crash
<1>8. CASE Next /\ at' = at /\ shown' = shown /\ \A e \in Entry : vec'[e] \subseteq vec[e]
  BY <1>0, <1>8, Growing, SoleQuiet
<1>9. ASSUME NEW e \in Entry, CreateRow(e) \/ BeginWrite(e) \/ CommitWrite(e) \/ RollbackWrite(e), Next
      PROVE  Sole(W)'
  BY <1>8, <1>9 DEF CreateRow, BeginWrite, CommitWrite, RollbackWrite
<1>10. CASE DeleteUser /\ Next  BY <1>8, <1>10 DEF DeleteUser
<1>11. ASSUME NEW w \in Worker, NEW S \in SUBSET Job, Claim(w, S), Next PROVE Sole(W)'
  BY <1>8, <1>11 DEF Claim
<1>12. ASSUME NEW S \in SUBSET Job, Requeue(S), Next PROVE Sole(W)'  BY <1>8, <1>12 DEF Requeue
<1>13. CASE (Cycle \/ AbortCycle) /\ Next
  <2>1. \A e \in Entry : vec'[e] \subseteq vec[e]
    BY <1>13 DEF Cycle, ReadRows, ReadVectors, Repair, AbortCycle
  <2> QED  BY <1>8, <1>13, <2>1 DEF Cycle, ReadRows, ReadVectors, Repair, AbortCycle
<1>14. CASE Next
  BY <1>5, <1>6, <1>7, <1>9, <1>10, <1>11, <1>12, <1>13, <1>14 DEF Next
<1> QED  BY <1>2, <1>14

\* What the vectors show holds in every behaviour of one worker.
LEMMA SoleAlways == ASSUME NEW W, Worker = {W} PROVE Spec => []Sole(W)
<1>1. Init => Sole(W)
  <2> SUFFICES ASSUME Init PROVE Sole(W)  OBVIOUS
  <2>1. at[W].pc = "free"  BY DEF Init, Free
  <2> QED  BY <2>1 DEF Init, Sole
<1>2. IInv /\ Sole(W) /\ [Next]_vars => Sole(W)'  BY SoleNext
<1> QED  BY <1>1, <1>2, Inductive, PTL DEF Spec

\* With one worker a search never falls back to an older text.
THEOREM NoStepBack == ASSUME NEW W, Worker = {W} PROVE Spec => []NeverBackwards
<1>1. Sole(W) => NeverBackwards  BY DEF Sole, NeverBackwards
<1> QED  BY <1>1, SoleAlways, PTL

\* With one worker upsert_user_memory_vectors does what its docstring says:
\* insert or replace.
THEOREM OneVectorPerRow == ASSUME NEW W, Worker = {W} PROVE Spec => []OneVector
<1>1. Sole(W) => OneVector
  <2> SUFFICES ASSUME Sole(W), NEW e \in Entry PROVE Cardinality(vec[e]) <= 1
    BY DEF OneVector
  <2>1. vec[e] \subseteq {<<shown[e], W>>}  BY DEF Sole
  <2>2. IsFiniteSet({<<shown[e], W>>}) /\ Cardinality({<<shown[e], W>>}) = 1  BY FS_Singleton
  <2>3. IsFiniteSet(vec[e]) /\ Cardinality(vec[e]) <= Cardinality({<<shown[e], W>>})
    BY <2>1, <2>2, FS_Subset
  <2> QED  BY <2>2, <2>3
<1> QED  BY <1>1, SoleAlways, PTL

-----------------------------------------------------------------------------
(* One worker, no reconcile cycles                                         *)

Open == {"pending", "processing", "failed"}

\* While the account exists: what W holds is open, what W has embedded is in
\* the collection, and a row without a vector has an open job.
Kept(W) ==
    /\ claim[W][Wipe] = 0
    /\ \A e \in Entry : IF row[e].version = 0
                         THEN job[e].status = "none" /\ claim[W][e] = 0
                         ELSE row[e].live
    /\ at[W].pc \notin {"drop", "wipe"}
    /\ at[W].pc # "free" => at[W].job \in Entry /\ claim[W][at[W].job] # 0
    /\ at[W].pc \in {"mark", "done"} => vec[at[W].job] # {}
    /\ \A e \in Entry : claim[W][e] # 0 => job[e].status \in {"pending", "processing"}
    /\ \A e \in Entry : row[e].live => vec[e] # {} \/ job[e].status \in Open

Account(W) == rec.pc = "idle" /\ (job[Wipe].status = "none" => Kept(W))

\* Every step of such a deployment forgets no row.
LEMMA AccountNext ==
    ASSUME NEW W, Worker = {W}, Reconciling = FALSE, IInv, Account(W), [Next]_vars
    PROVE  Account(W)'
<1>0. W \in Worker  OBVIOUS
<1> USE <1>0, EntryJob, MemoryAssumption DEF Account, IInv, TypeOK
<1>1. CASE UNCHANGED vars  BY <1>1 DEF vars, Kept
<1>2. ASSUME NEW e \in Entry, CreateRow(e) PROVE Account(W)'
  <2>1. /\ row' = [row EXCEPT ![e] = [live |-> TRUE, version |-> 1, sync |-> "pending"]]
        /\ job' = [job EXCEPT ![e] = Refresh(e)]
    BY <1>2 DEF CreateRow
  <2>2. job'[e].status = "pending" /\ \A j \in Job : j # e => job'[j] = job[j]
    BY <2>1, Refreshed
  <2>3. row'[e].live /\ row'[e].version # 0 /\ \A d \in Entry : d # e => row'[d] = row[d]
    BY <2>1
  <2> QED  BY <1>2, <2>2, <2>3 DEF CreateRow, Kept, Open
<1>3. ASSUME NEW e \in Entry, CommitWrite(e) PROVE Account(W)'
  <2>1. /\ row' = [row EXCEPT ![e].version = @ + 1, ![e].sync = "pending"]
        /\ job' = [job EXCEPT ![e] = IF edit[e] = "saw_other" THEN Refresh(e) ELSE @]
        /\ edit[e] # "idle"
    BY <1>3 DEF CommitWrite
  <2>2. /\ job'[e].status = "pending" \/ job'[e] = job[e]
        /\ \A j \in Job : j # e => job'[j] = job[j]
    BY <2>1, Refreshed
  <2>3. row[e].version > 0 /\ row[e].version \in Nat  BY <2>1 DEF Writing, Version
  <2>4. /\ row'[e].live = row[e].live /\ row'[e].version = row[e].version + 1
        /\ \A d \in Entry : d # e => row'[d] = row[d]
    BY <2>1
  <2>5. row'[e].version # 0 /\ row[e].version # 0  BY <2>3, <2>4
  <2> QED  BY <1>3, <2>2, <2>4, <2>5 DEF CommitWrite, Kept, Open
<1>4. ASSUME NEW e \in Entry, BeginWrite(e) \/ RollbackWrite(e) PROVE Account(W)'
  BY <1>4 DEF BeginWrite, RollbackWrite, Kept
<1>5. CASE DeleteUser
  <2>1. job'[Wipe].status = "pending"  BY <1>5, Refreshed DEF DeleteUser
  <2> QED  BY <1>5, <2>1 DEF DeleteUser
<1>6. ASSUME NEW w \in Worker, NEW S \in SUBSET Job, Claim(w, S) PROVE Account(W)'
  <2>1. w = W /\ at' = at /\ vec' = vec /\ row' = row /\ rec' = rec /\ at[W].pc = "free"
    BY <1>6 DEF Claim, Free
  <2>2. \A j \in S : job'[j].status = "processing" /\ job[j].status \in {"pending", "processing"}
    BY <1>6 DEF Claim, Claimable, Expired
  <2>3. \A j \in Job \ S : job'[j] = job[j] /\ claim'[W][j] = 0
    BY <1>6, <2>1 DEF Claim
  <2>4. ASSUME Kept(W), Wipe \notin S PROVE Kept(W)'
    <3>1. \A e \in Entry : row[e].version = 0 => e \notin S  BY <2>2, <2>4 DEF Kept
    <3> QED  BY <2>1, <2>2, <2>3, <2>4, <3>1 DEF Kept, Open
  <2>5. job'[Wipe].status = "none" => job[Wipe].status = "none" /\ Wipe \notin S
    BY <2>2, <2>3
  <2> QED  BY <2>1, <2>4, <2>5
<1>7. ASSUME NEW S \in SUBSET Job, Requeue(S) PROVE Account(W)'
  <2>1. \A j \in S : job'[j].status = "pending" /\ job[j].status = "processing"
    BY <1>7, Refreshed DEF Requeue, Expired
  <2>2. \A j \in Job \ S : job'[j] = job[j]  BY <1>7 DEF Requeue
  <2>3. UNCHANGED <<row, vec, claim, at, rec>>  BY <1>7 DEF Requeue
  <2>4. Kept(W) => Kept(W)'  BY <2>1, <2>2, <2>3 DEF Kept, Open
  <2> QED  BY <2>1, <2>2, <2>3, <2>4
<1>8. ASSUME NEW pc \in Phase, Go(W, pc), UNCHANGED <<job, claim, rec>>, pc # "free",
             \A e \in Entry : row'[e].live = row[e].live /\ row'[e].version = row[e].version,
             at[W].pc # "free",
             job[Wipe].status = "none" =>
                 /\ pc \notin {"drop", "wipe"}
                 /\ pc \in {"mark", "done"} => vec'[at[W].job] # {}
                 /\ \A e \in Entry : e # at[W].job => vec'[e] = vec[e]
      PROVE  Account(W)'
  <2>1. at'[W].pc = pc /\ at'[W].job = at[W].job  BY <1>8 DEF Go
  <2>2. ASSUME Kept(W), job[Wipe].status = "none" PROVE Kept(W)'
    <3>1. at[W].job \in Entry /\ job[at[W].job].status \in {"pending", "processing"}
      BY <1>8, <2>2 DEF Kept
    <3>2. job' = job /\ claim' = claim  BY <1>8
    <3>3. \A e \in Entry : row'[e].live => vec'[e] # {} \/ job'[e].status \in Open
      <4>1. \A e \in Entry : e # at[W].job => vec'[e] = vec[e]  BY <1>8, <2>2
      <4>2. \A e \in Entry : row'[e].live = row[e].live  BY <1>8
      <4> HIDE DEF IInv, TypeOK, Account
      <4> QED  BY <2>2, <3>1, <3>2, <4>1, <4>2 DEF Kept, Open
    <3>4. \A e \in Entry : IF row'[e].version = 0
                            THEN job'[e].status = "none" /\ claim'[W][e] = 0
                            ELSE row'[e].live
      BY <1>8, <2>2, <3>2 DEF Kept
    <3>5. pc \notin {"drop", "wipe"} /\ (pc \in {"mark", "done"} => vec'[at[W].job] # {})
      BY <1>8, <2>2
    <3> HIDE DEF IInv, TypeOK, Account
    <3> QED  BY <1>8, <2>1, <2>2, <3>1, <3>2, <3>3, <3>4, <3>5 DEF Kept
  <2> QED  BY <1>8, <2>2
<1>9. CASE WorkerStep(W)
  <2>1. ASSUME NEW j \in Job, TakeUp(W, j) PROVE Account(W)'
    <3>1. UNCHANGED <<row, job, vec, claim, rec>> /\ claim[W][j] # 0  BY <2>1 DEF TakeUp
    <3>2. ASSUME Kept(W) PROVE Kept(W)'
      <4>1. j \in Entry /\ j # Wipe /\ row[j].live  BY <3>1, <3>2 DEF Kept, Job
      <4>2. at'[W].pc = "delete_old" /\ at'[W].job = j  BY <2>1, <4>1 DEF TakeUp
      <4> QED  BY <3>1, <3>2, <4>1, <4>2 DEF Kept
    <3> QED  BY <3>1, <3>2
  <2>2. ASSUME DeleteOld(W) PROVE Account(W)'
    BY <1>8, <2>2 DEF DeleteOld, Phase
  <2>3. ASSUME Insert(W) PROVE Account(W)'
    <3>1. at[W].job \in Entry  BY <2>3 DEF Insert, Targets, RowPhase
    <3>2. /\ vec'[at[W].job] # {}
          /\ \A e \in Entry : e # at[W].job => vec'[e] = vec[e]
      BY <2>3, <3>1 DEF Insert
    <3> QED  BY <1>8, <2>3, <3>2 DEF Insert, Phase
  <2>4. ASSUME MarkSynced(W) PROVE Account(W)'
    <3>1. at[W].job \in Entry  BY <2>4 DEF MarkSynced, Targets, RowPhase
    <3>2. \A e \in Entry : row'[e].live = row[e].live /\ row'[e].version = row[e].version
      BY <2>4, <3>1 DEF MarkSynced, MarkRow
    <3>3. job[Wipe].status = "none" => vec[at[W].job] # {}  BY <2>4 DEF MarkSynced, Kept
    <3> QED  BY <1>8, <2>4, <3>2, <3>3 DEF MarkSynced, Phase
  <2>5. ASSUME MarkFailed(W) PROVE Account(W)'
    <3>1. at[W].job \in Entry  BY <2>5 DEF MarkFailed, Targets, RowPhase
    <3>2. \A e \in Entry : row'[e].live = row[e].live /\ row'[e].version = row[e].version
      BY <2>5, <3>1 DEF MarkFailed, MarkRow
    <3> QED  BY <1>8, <2>5, <3>2 DEF MarkFailed, Phase
  <2>6. ASSUME DropVector(W) \/ WipeVectors(W) PROVE Account(W)'
    BY <2>6 DEF DropVector, WipeVectors, Kept
  <2>7. ASSUME NEW status \in {"done", "pending", "failed"}, Release(W, status), at[W].pc # "free",
               status = "done" => at[W].pc = "done"
        PROVE  Account(W)'
    <3> DEFINE i == at[W].job
    <3>1. /\ job' = [job EXCEPT ![i].status = status]
          /\ claim' = [claim EXCEPT ![W][i] = 0]
          /\ at' = [at EXCEPT ![W] = Free] /\ i \in Job
          /\ UNCHANGED <<row, vec, rec>>
      BY <2>7 DEF Release
    <3>2. at'[W].pc = "free"  BY <3>1 DEF Free
    <3>3. ASSUME Kept(W) PROVE i \in Entry /\ row[i].version # 0 /\ (status = "done" => vec[i] # {})
      BY <2>7, <3>3 DEF Kept
    <3> HIDE DEF i
    <3>4. /\ job'[i].status = status /\ claim'[W][i] = 0
          /\ \A j \in Job : j # i => job'[j] = job[j] /\ claim'[W][j] = claim[W][j]
      BY <3>1
    <3>5. Kept(W) => Kept(W)'
      BY <2>7, <3>1, <3>2, <3>3, <3>4 DEF Kept, Open
    <3> QED  BY <2>7, <3>1, <3>4, <3>5
  <2>8. ASSUME FinishJob(W) PROVE Account(W)'  BY <2>7, <2>8 DEF FinishJob
  <2>9. ASSUME Reschedule(W) PROVE Account(W)'  BY <2>7, <2>9 DEF Reschedule
  <2> QED  BY <1>9, <2>1, <2>2, <2>3, <2>4, <2>5, <2>6, <2>8, <2>9 DEF WorkerStep
<1>10. CASE FailJob(W)
  BY <1>8, <1>10 DEF FailJob, Phase
<1>11. CASE Crash(W)
  BY <1>11 DEF Crash, Kept, NoClaims, Free
<1>12. CASE Cycle \/ AbortCycle
  BY <1>12 DEF Cycle, ReadRows, ReadVectors, Repair, AbortCycle
<1>13. CASE Next
  <2> HIDE DEF Account, IInv, TypeOK
  <2> QED
    BY <1>2, <1>3, <1>4, <1>5, <1>6, <1>7, <1>9, <1>10, <1>11, <1>12, <1>13 DEF Next
<1> QED  BY <1>1, <1>13

\* With one worker and no reconcile cycle, a row of an existing account has a
\* vector or a job that will make one, through every crash, failure and lost
\* refresh.
THEOREM NoRowForgotten ==
    ASSUME NEW W, Worker = {W}, Reconciling = FALSE
    PROVE  Spec => []IndexedOrQueued
<1>1. Init => Account(W)
  BY EntryJob DEF Init, Account, Kept, Free, NoClaims, NoCycle
<1>2. IInv /\ Account(W) /\ [Next]_vars => Account(W)'  BY AccountNext
<1>3. Account(W) => IndexedOrQueued  BY DEF Account, Kept, Open, IndexedOrQueued
<1> QED  BY <1>1, <1>2, <1>3, Inductive, PTL DEF Spec
-----------------------------------------------------------------------------
(* Any number of workers                                                   *)

\* A worker has at most one vector of a row in the collection, and none when it
\* is about to insert one.
OneEach == \A e \in Entry : \A d, f \in vec[e] : d[2] = f[2] => d = f
Cleared == \A w \in Worker : at[w].pc = "insert" => \A d \in vec[at[w].job] : d[2] # w

\* Steps that add no vector and bring nobody to its insert.
LEMMA EachQuiet ==
    ASSUME OneEach, Cleared, IInv, \A e \in Entry : vec'[e] \subseteq vec[e],
           \A w \in Worker : at'[w].pc = "insert" => at'[w] = at[w]
    PROVE  OneEach' /\ Cleared'
<1>1. \A w \in Worker : at[w].pc = "insert" => at[w].job \in Entry
  BY DEF IInv, Targets, RowPhase
<1> QED  BY <1>1 DEF OneEach, Cleared

\* A worker deletes a row's vectors, or goes on to a phase without an insert.
LEMMA EachWorker ==
    ASSUME OneEach, Cleared, IInv, NEW w \in Worker, WorkerStep(w) \/ FailJob(w) \/ Crash(w)
    PROVE  OneEach' /\ Cleared'
<1>0. /\ at \in [Worker -> [pc: Phase, job: Job, seen: Version]]
      /\ vec \in [Entry -> SUBSET (Version \X Worker)]
      /\ \A v \in Worker : at[v].pc \in RowPhase => at[v].job \in Entry
  BY DEF IInv, TypeOK, Targets
<1>1. ASSUME NEW pc \in Phase \ {"insert"}, Go(w, pc), \A e \in Entry : vec'[e] \subseteq vec[e]
      PROVE  OneEach' /\ Cleared'
  <2>1. \A v \in Worker : at'[v].pc = "insert" => at'[v] = at[v]  BY <1>0, <1>1 DEF Go
  <2> QED  BY <1>1, <2>1, EachQuiet
<1>2. ASSUME at' = [at EXCEPT ![w] = Free], vec' = vec PROVE OneEach' /\ Cleared'
  <2>1. \A v \in Worker : at'[v].pc = "insert" => at'[v] = at[v]  BY <1>0, <1>2 DEF Free
  <2> QED  BY <1>2, <2>1, EachQuiet
<1>3. ASSUME NEW j \in Job, TakeUp(w, j) PROVE OneEach' /\ Cleared'
  <2>1. \A v \in Worker : at'[v].pc = "insert" => at'[v] = at[v]  BY <1>0, <1>3 DEF TakeUp
  <2>2. vec' = vec  BY <1>3 DEF TakeUp
  <2> QED  BY <2>1, <2>2, EachQuiet
<1>4. ASSUME DeleteOld(w) PROVE OneEach' /\ Cleared'
  <2>1. at[w].job \in Entry  BY <1>0, <1>4 DEF DeleteOld, RowPhase
  <2>2. vec'[at[w].job] = {} /\ \A e \in Entry : vec'[e] \subseteq vec[e]
    BY <1>0, <1>4, <2>1 DEF DeleteOld
  <2>3. /\ at'[w].job = at[w].job
        /\ \A v \in Worker : v # w => at'[v] = at[v]
    BY <1>0, <1>4 DEF DeleteOld, Go
  <2>4. OneEach'  BY <2>2 DEF OneEach
  <2>5. Cleared'
    <3> SUFFICES ASSUME NEW v \in Worker, at'[v].pc = "insert", NEW d \in vec'[at'[v].job]
                 PROVE  d[2] # v
      BY DEF Cleared
    <3>1. v # w /\ at'[v] = at[v]  BY <2>2, <2>3
    <3>2. at[v].job \in Entry /\ at[v].pc = "insert"  BY <1>0, <3>1 DEF RowPhase
    <3> QED  BY <2>2, <3>1, <3>2 DEF Cleared
  <2> QED  BY <2>4, <2>5
<1>5. ASSUME Insert(w) PROVE OneEach' /\ Cleared'
  <2> DEFINE new == <<at[w].seen, w>>
             i   == at[w].job
  <2>1. i \in Entry /\ at[w].pc = "insert"  BY <1>0, <1>5 DEF Insert, RowPhase
  <2>2. vec' = [vec EXCEPT ![i] = @ \cup {new}] /\ Go(w, "mark")  BY <1>5 DEF Insert
  <2>3. new[2] = w /\ \A d \in vec[i] : d[2] # w  BY <2>1 DEF Cleared
  <2>4. at'[w].pc = "mark" /\ \A v \in Worker : v # w => at'[v] = at[v]
    BY <1>0, <2>2 DEF Go
  <2> HIDE DEF new, i
  <2>5. vec'[i] = vec[i] \cup {new} /\ \A e \in Entry : e # i => vec'[e] = vec[e]
    BY <1>0, <2>1, <2>2
  <2>6. OneEach'  BY <2>1, <2>3, <2>5 DEF OneEach
  <2>7. Cleared'
    <3> SUFFICES ASSUME NEW v \in Worker, at'[v].pc = "insert", NEW d \in vec'[at'[v].job]
                 PROVE  d[2] # v
      BY DEF Cleared
    <3>1. v # w /\ at'[v] = at[v]  BY <2>4
    <3>2. at[v].job \in Entry /\ at[v].pc = "insert"  BY <1>0, <3>1 DEF RowPhase
    <3> QED  BY <2>3, <2>5, <3>1, <3>2 DEF Cleared
  <2> QED  BY <2>6, <2>7
<1>6. ASSUME MarkSynced(w) \/ MarkFailed(w) PROVE OneEach' /\ Cleared'
  BY <1>1, <1>6 DEF MarkSynced, MarkFailed, Phase
<1>7. ASSUME DropVector(w) \/ WipeVectors(w) PROVE OneEach' /\ Cleared'
  <2>1. \A e \in Entry : vec'[e] \subseteq vec[e]  BY <1>0, <1>7 DEF DropVector, WipeVectors
  <2> QED  BY <1>1, <1>7, <2>1 DEF DropVector, WipeVectors, Phase
<1>8. ASSUME FinishJob(w) \/ Reschedule(w) PROVE OneEach' /\ Cleared'
  BY <1>2, <1>8 DEF FinishJob, Reschedule, Release
<1>9. ASSUME FailJob(w) PROVE OneEach' /\ Cleared'
  <2>1. PICK pc \in {"retry", "failed"} : Go(w, pc)  BY <1>9 DEF FailJob
  <2>2. pc \in Phase \ {"insert"} /\ vec' = vec  BY <1>9 DEF FailJob, Phase
  <2> QED  BY <1>1, <2>1, <2>2
<1>10. ASSUME Crash(w) PROVE OneEach' /\ Cleared'  BY <1>2, <1>10 DEF Crash
<1> QED
  BY <1>3, <1>4, <1>5, <1>6, <1>7, <1>8, <1>9, <1>10 DEF WorkerStep

\* However many workers process a row at once, through every failure, restart
\* and overtaken lock: upsert_user_memory_vectors leaves a row no more vectors
\* than there are workers, one from each.
THEOREM OneVectorPerWorker == Spec => []OneEach
<1>1. Init => OneEach /\ Cleared  BY DEF Init, OneEach, Cleared, Free
<1>2. IInv /\ OneEach /\ Cleared /\ [Next]_vars => OneEach' /\ Cleared'
  <2> SUFFICES ASSUME IInv, OneEach, Cleared, [Next]_vars PROVE OneEach' /\ Cleared'  OBVIOUS
  <2>1. CASE at' = at /\ \A e \in Entry : vec'[e] \subseteq vec[e]  BY <2>1, EachQuiet
  <2>2. ASSUME Cycle \/ AbortCycle PROVE at' = at /\ \A e \in Entry : vec'[e] \subseteq vec[e]
    BY <2>2 DEF Cycle, ReadRows, ReadVectors, Repair, AbortCycle
  <2>3. ASSUME NEW e \in Entry, CreateRow(e) \/ BeginWrite(e) \/ CommitWrite(e) \/ RollbackWrite(e)
        PROVE  at' = at /\ vec' = vec
    BY <2>3 DEF CreateRow, BeginWrite, CommitWrite, RollbackWrite
  <2>4. ASSUME NEW w \in Worker, NEW S \in SUBSET Job, Claim(w, S) PROVE at' = at /\ vec' = vec
    BY <2>4 DEF Claim
  <2>5. ASSUME NEW S \in SUBSET Job, Requeue(S) PROVE at' = at /\ vec' = vec
    BY <2>5 DEF Requeue
  <2>6. DeleteUser => at' = at /\ vec' = vec  BY DEF DeleteUser
  <2>7. CASE UNCHANGED vars  BY <2>1, <2>7 DEF vars
  <2> QED  BY <2>1, <2>2, <2>3, <2>4, <2>5, <2>6, <2>7, EachWorker DEF Next
<1> QED  BY <1>1, <1>2, Inductive, PTL DEF Spec

\* Somebody has deleted e's vectors and is about to insert one.
Inserting(e) == \E w \in Worker : at[w].pc = "insert" /\ at[w].job = e

Secured(e) ==
    vec[e] # {} \/ Inserting(e) \/ job[e].status \in {"pending", "processing", "failed"}

\* No row of an existing account is forgotten.
NoneForgotten ==
    job[Wipe].status = "none" => \A e \in Entry : row[e].live => Secured(e)

\* Where no call fails: who has embedded a row ends its job with a vector in the
\* collection, its own or one that somebody else is about to insert.
Steady ==
    /\ \A w \in Worker :
          /\ claim[w][Wipe] = 0
          /\ at[w].pc \notin {"drop", "wipe", "failed", "retry"}
          /\ at[w].pc # "free" => at[w].job \in Entry /\ claim[w][at[w].job] # 0
          /\ \A e \in Entry : at[w].pc \in {"mark", "done"} /\ at[w].job = e =>
                 vec[e] # {} \/ Inserting(e)
    /\ \A e \in Entry : IF row[e].version = 0
                         THEN job[e].status = "none" /\ \A w \in Worker : claim[w][e] = 0
                         ELSE row[e].live
    /\ \A e \in Entry : row[e].live => Secured(e)

Undisturbed == rec.pc = "idle" /\ (job[Wipe].status = "none" => Steady)

\* Steps of the users and of the queue leave the workers and the collection.
LEMMA UndisturbedQueue ==
    ASSUME MaxFaults = 0, Reconciling = FALSE, IInv, Undisturbed, Next,
           at' = at, vec' = vec
    PROVE  Undisturbed'
<1> USE EntryJob, MemoryAssumption DEF Undisturbed, IInv, TypeOK
<1>0. \A e \in Entry : Inserting(e) <=> Inserting(e)'  BY DEF Inserting
<1>1. ASSUME NEW e \in Entry, CreateRow(e) PROVE Undisturbed'
  <2>1. /\ row' = [row EXCEPT ![e] = [live |-> TRUE, version |-> 1, sync |-> "pending"]]
        /\ job' = [job EXCEPT ![e] = Refresh(e)]
        /\ UNCHANGED <<claim, rec>>
    BY <1>1 DEF CreateRow
  <2>2. job'[e].status = "pending" /\ \A j \in Job : j # e => job'[j] = job[j]
    BY <2>1, Refreshed
  <2>3. row'[e].live /\ row'[e].version # 0 /\ \A d \in Entry : d # e => row'[d] = row[d]
    BY <2>1
  <2> HIDE DEF IInv, TypeOK
  <2> QED  BY <1>0, <2>1, <2>2, <2>3 DEF Steady, Secured
<1>2. ASSUME NEW e \in Entry, CommitWrite(e) PROVE Undisturbed'
  <2>1. /\ row' = [row EXCEPT ![e].version = @ + 1, ![e].sync = "pending"]
        /\ job' = [job EXCEPT ![e] = IF edit[e] = "saw_other" THEN Refresh(e) ELSE @]
        /\ edit[e] # "idle" /\ UNCHANGED <<claim, rec>>
    BY <1>2 DEF CommitWrite
  <2>2. /\ job'[e].status = "pending" \/ job'[e] = job[e]
        /\ \A j \in Job : j # e => job'[j] = job[j]
    BY <2>1, Refreshed
  <2>3. row[e].version > 0 /\ row[e].version \in Nat  BY <2>1 DEF Writing, Version
  <2>4. /\ row'[e].live = row[e].live /\ row'[e].version = row[e].version + 1
        /\ \A d \in Entry : d # e => row'[d] = row[d]
    BY <2>1
  <2>5. row'[e].version # 0 /\ row[e].version # 0  BY <2>3, <2>4
  <2>6. \A d \in Entry : Secured(d) => Secured(d)'  BY <1>0, <2>2 DEF Secured
  <2>7. job'[Wipe] = job[Wipe]  BY <2>2
  <2>8. \A d \in Entry :
           /\ row'[d].live = row[d].live
           /\ row'[d].version = 0 <=> row[d].version = 0
           /\ row[d].version = 0 => job'[d] = job[d]
    <3> SUFFICES ASSUME NEW d \in Entry
                 PROVE  /\ row'[d].live = row[d].live
                        /\ row'[d].version = 0 <=> row[d].version = 0
                        /\ row[d].version = 0 => job'[d] = job[d]
      OBVIOUS
    <3> HIDE DEF IInv, TypeOK, Undisturbed
    <3>1. CASE d = e  BY <2>4, <2>5, <3>1
    <3>2. CASE d # e
      <4>1. row'[d] = row[d] /\ job'[d] = job[d]  BY <2>2, <2>4, <3>2
      <4> QED  BY <4>1
    <3> QED  BY <3>1, <3>2
  <2>9. Steady => Steady'
    <3> SUFFICES ASSUME Steady PROVE Steady'  OBVIOUS
    <3> HIDE DEF IInv, TypeOK, Undisturbed
    <3>1. \A d \in Entry : row'[d].live => Secured(d)'  BY <2>6, <2>8 DEF Steady
    <3>2. \A d \in Entry : IF row'[d].version = 0
                            THEN job'[d].status = "none" /\ \A w \in Worker : claim'[w][d] = 0
                            ELSE row'[d].live
      <4> SUFFICES ASSUME NEW d \in Entry
                   PROVE  IF row'[d].version = 0
                          THEN job'[d].status = "none" /\ \A w \in Worker : claim'[w][d] = 0
                          ELSE row'[d].live
        OBVIOUS
      <4>1. IF row[d].version = 0
            THEN job[d].status = "none" /\ \A w \in Worker : claim[w][d] = 0
            ELSE row[d].live
        BY DEF Steady
      <4>2. claim' = claim  BY <2>1
      <4> QED  BY <2>8, <4>1, <4>2
    <3> QED  BY <1>0, <2>1, <3>1, <3>2 DEF Steady
  <2> QED  BY <2>1, <2>7, <2>9
<1>3. ASSUME NEW e \in Entry, BeginWrite(e) PROVE Undisturbed'
  BY <1>0, <1>3 DEF BeginWrite, Steady, Secured
<1>4. ~Fault  BY DEF Fault
<1>5. CASE DeleteUser
  <2>1. job'[Wipe].status = "pending" /\ rec' = rec  BY <1>5, Refreshed DEF DeleteUser
  <2> QED  BY <2>1
<1>6. ASSUME NEW w \in Worker, NEW S \in SUBSET Job, Claim(w, S) PROVE Undisturbed'
  <2>1. /\ UNCHANGED <<row, rec>> /\ at[w].pc = "free"
        /\ \A v \in Worker : v # w => claim'[v] = claim[v]
    BY <1>6 DEF Claim, Free
  <2>2. \A j \in S : job'[j].status = "processing" /\ job[j].status \in {"pending", "processing"}
    BY <1>6 DEF Claim, Claimable, Expired
  <2>3. \A j \in Job \ S : job'[j] = job[j] /\ claim'[w][j] = 0
    BY <1>6 DEF Claim
  <2>4. ASSUME Steady, Wipe \notin S PROVE Steady'
    <3>1. \A e \in Entry : row[e].version = 0 => e \notin S  BY <2>2, <2>4 DEF Steady
    <3>2. \A e \in Entry : Secured(e) => Secured(e)'  BY <1>0, <2>2, <2>3 DEF Secured
    <3> HIDE DEF IInv, TypeOK
    <3> QED  BY <1>0, <2>1, <2>2, <2>3, <2>4, <3>1, <3>2 DEF Steady
  <2>5. job'[Wipe].status = "none" => job[Wipe].status = "none" /\ Wipe \notin S
    BY <2>2, <2>3
  <2> QED  BY <2>1, <2>4, <2>5
<1>7. ASSUME NEW S \in SUBSET Job, Requeue(S) PROVE Undisturbed'
  <2>1. \A j \in S : job'[j].status = "pending" /\ job[j].status = "processing"
    BY <1>7, Refreshed DEF Requeue, Expired
  <2>2. \A j \in Job \ S : job'[j] = job[j]  BY <1>7 DEF Requeue
  <2>3. UNCHANGED <<row, claim, rec>>  BY <1>7 DEF Requeue
  <2>4. Steady => Steady'  BY <1>0, <2>1, <2>2, <2>3 DEF Steady, Secured
  <2> QED  BY <2>1, <2>2, <2>3, <2>4
<1>8. ASSUME NEW w \in Worker, WorkerStep(w) PROVE FALSE
  <2>1. at' # at
    BY <1>8 DEF WorkerStep, TakeUp, DeleteOld, Insert, MarkSynced, DropVector, WipeVectors,
       FinishJob, Reschedule, Release, MarkFailed, Go, Free
  <2> QED  BY <2>1
<1>9. ~(Cycle \/ AbortCycle)
  BY <1>4 DEF Cycle, ReadRows, ReadVectors, Repair, AbortCycle
<1> HIDE DEF Undisturbed, IInv, TypeOK
<1> QED
  BY <1>1, <1>2, <1>3, <1>4, <1>5, <1>6, <1>7, <1>8, <1>9
  DEF Next, RollbackWrite, FailJob, Crash

\* A worker's step, where no call fails.
LEMMA UndisturbedWorker ==
    ASSUME MaxFaults = 0, Reconciling = FALSE, IInv, Undisturbed,
           NEW w \in Worker, WorkerStep(w)
    PROVE  Undisturbed'
<1> USE EntryJob
<1>0. /\ at \in [Worker -> [pc: Phase, job: Job, seen: Version]]
      /\ vec \in [Entry -> SUBSET (Version \X Worker)]
      /\ row \in [Entry -> [live: BOOLEAN, version: Version, sync: SyncState]]
      /\ job \in [Job -> [status: JobStatus, attempts: Attempt]]
      /\ claim \in [Worker -> [Job -> Attempt]]
      /\ \A v \in Worker : at[v].pc \in RowPhase => at[v].job \in Entry
  BY DEF IInv, TypeOK, Targets
<1> DEFINE i == at[w].job
\* One phase to the next: a row keeps its vector unless somebody is about to insert.
<1>1. ASSUME NEW pc \in Phase, Go(w, pc), UNCHANGED <<job, claim, rec>>,
             pc \notin {"free", "drop", "wipe", "failed", "retry"}, at[w].pc # "free",
             \A e \in Entry : row'[e].live = row[e].live /\ row'[e].version = row[e].version,
             \A e \in Entry : e # i => vec'[e] = vec[e],
             at[w].pc = "insert" => vec'[i] # {},
             vec'[i] # {} \/ pc = "insert" \/ (vec'[i] = vec[i] /\ at[w].pc # "insert"),
             pc \in {"mark", "done"} => vec'[i] # {} \/ at[w].pc \in {"mark", "done"}
      PROVE  Undisturbed'
  <2>1. at'[w].pc = pc /\ at'[w].job = i /\ \A v \in Worker : v # w => at'[v] = at[v]
    BY <1>0, <1>1 DEF Go
  <2>2. ASSUME Steady PROVE Steady'
    <3>1. i \in Entry  BY <1>1, <2>2 DEF Steady
    <3> DEFINE Shown(e) == vec[e] # {} \/ Inserting(e)
    <3>2. ASSUME NEW e \in Entry, Shown(e) PROVE Shown(e)'
      <4>1. CASE vec[e] # {}
        <5>1. CASE e = i
          <6>1. vec'[i] # {} \/ pc = "insert"  BY <1>1, <4>1, <5>1
          <6> QED  BY <2>1, <5>1, <6>1 DEF Inserting
        <5>2. CASE e # i  BY <1>1, <4>1, <5>2
        <5> QED  BY <5>1, <5>2
      <4>2. ASSUME NEW v \in Worker, at[v].pc = "insert", at[v].job = e PROVE Shown(e)'
        <5>1. CASE v = w  BY <1>1, <4>2, <5>1
        <5>2. CASE v # w  BY <2>1, <4>2, <5>2 DEF Inserting
        <5> QED  BY <5>1, <5>2
      <4> QED  BY <3>2, <4>1, <4>2 DEF Inserting
    <3>3. \A v \in Worker, e \in Entry : at'[v].pc \in {"mark", "done"} /\ at'[v].job = e =>
             vec'[e] # {} \/ Inserting(e)'
      <4> SUFFICES ASSUME NEW v \in Worker, NEW e \in Entry,
                          at'[v].pc \in {"mark", "done"}, at'[v].job = e
                   PROVE  Shown(e)'
        OBVIOUS
      <4>1. CASE v = w
        <5>1. e = i /\ (vec'[i] # {} \/ at[w].pc \in {"mark", "done"})  BY <1>1, <2>1, <4>1
        <5>2. at[w].pc \in {"mark", "done"} => Shown(e)  BY <2>2, <5>1 DEF Steady
        <5> QED  BY <3>2, <5>1, <5>2
      <4>2. CASE v # w
        <5>1. Shown(e)  BY <2>1, <2>2, <4>2 DEF Steady
        <5> QED  BY <3>2, <5>1
      <4> QED  BY <4>1, <4>2
    <3>6. \A e \in Entry : Secured(e) => Secured(e)'
      BY <1>1, <3>2 DEF Secured
    <3>8. \A v \in Worker :
             /\ claim'[v][Wipe] = 0
             /\ at'[v].pc \notin {"drop", "wipe", "failed", "retry"}
             /\ at'[v].pc # "free" => at'[v].job \in Entry /\ claim'[v][at'[v].job] # 0
      BY <1>1, <2>1, <2>2, <3>1 DEF Steady
    <3>9. \A e \in Entry : IF row'[e].version = 0
                            THEN job'[e].status = "none" /\ \A v \in Worker : claim'[v][e] = 0
                            ELSE row'[e].live
      BY <1>1, <2>2 DEF Steady
    <3>10. \A e \in Entry : row'[e].live => Secured(e)'
      BY <1>1, <2>2, <3>6 DEF Steady
    <3> QED  BY <3>3, <3>8, <3>9, <3>10 DEF Steady
  <2> QED  BY <1>1, <2>2 DEF Undisturbed
<1>2. ASSUME NEW j \in Job, TakeUp(w, j) PROVE Undisturbed'
  <2>1. UNCHANGED <<row, job, vec, claim, rec>> /\ claim[w][j] # 0 /\ at[w] = Free
    BY <1>2 DEF TakeUp
  <2>2. ASSUME Steady PROVE Steady'
    <3>1. j # Wipe /\ j \in Entry /\ row[j].live  BY <1>0, <2>1, <2>2 DEF Steady, Job
    <3>2. /\ at'[w].pc = "delete_old" /\ at'[w].job = j
          /\ \A v \in Worker : v # w => at'[v] = at[v]
      BY <1>0, <1>2, <3>1 DEF TakeUp
    <3>3. \A e \in Entry : Inserting(e) => Inserting(e)'
      <4>1. at[w].pc # "insert"  BY <2>1 DEF Free
      <4> QED  BY <3>2, <4>1 DEF Inserting
    <3>4. \A v \in Worker, e \in Entry : at'[v].pc \in {"mark", "done"} /\ at'[v].job = e =>
             vec'[e] # {} \/ Inserting(e)'
      <4> SUFFICES ASSUME NEW v \in Worker, NEW e \in Entry,
                          at'[v].pc \in {"mark", "done"}, at'[v].job = e
                   PROVE  vec'[e] # {} \/ Inserting(e)'
        OBVIOUS
      <4>1. v # w /\ at'[v] = at[v]  BY <3>2
      <4>2. vec[e] # {} \/ Inserting(e)  BY <2>2, <4>1 DEF Steady
      <4> QED  BY <2>1, <3>3, <4>2
    <3>5. \A e \in Entry : Secured(e) => Secured(e)'  BY <2>1, <3>3 DEF Secured
    <3> QED  BY <2>1, <2>2, <3>1, <3>2, <3>4, <3>5 DEF Steady
  <2> QED  BY <2>1, <2>2 DEF Undisturbed
<1>3. ASSUME DeleteOld(w) PROVE Undisturbed'
  <2>1. i \in Entry  BY <1>0, <1>3 DEF DeleteOld, RowPhase
  <2> QED  BY <1>0, <1>1, <1>3, <2>1 DEF DeleteOld, Phase
<1>4. ASSUME Insert(w) PROVE Undisturbed'
  <2>1. i \in Entry  BY <1>0, <1>4 DEF Insert, RowPhase
  <2>2. vec'[i] # {} /\ \A e \in Entry : e # i => vec'[e] = vec[e]
    BY <1>0, <1>4, <2>1 DEF Insert
  <2> QED  BY <1>1, <1>4, <2>2 DEF Insert, Phase
<1>5. ASSUME MarkSynced(w) PROVE Undisturbed'
  <2>1. i \in Entry  BY <1>0, <1>5 DEF MarkSynced, RowPhase
  <2>2. \A e \in Entry : row'[e].live = row[e].live /\ row'[e].version = row[e].version
    BY <1>0, <1>5, <2>1 DEF MarkSynced, MarkRow
  <2> QED  BY <1>1, <1>5, <2>2 DEF MarkSynced, Phase
<1>6. ASSUME at[w].pc \in {"drop", "wipe", "failed", "retry"}, rec' = rec,
             job'[Wipe].status = "none" => job[Wipe].status = "none"
      PROVE  Undisturbed'
  BY <1>6 DEF Undisturbed, Steady
<1>7. ASSUME DropVector(w) \/ WipeVectors(w) \/ MarkFailed(w) PROVE Undisturbed'
  BY <1>6, <1>7 DEF DropVector, WipeVectors, MarkFailed
<1>8. ASSUME NEW status \in JobStatus \ {"none"}, Release(w, status), at[w].pc \in {"done", "retry"}
      PROVE  Undisturbed'
  <2>1. /\ job' = [job EXCEPT ![i].status = status]
        /\ claim' = [claim EXCEPT ![w][i] = 0]
        /\ at' = [at EXCEPT ![w] = Free] /\ i \in Job
        /\ UNCHANGED <<row, vec, rec>>
    BY <1>0, <1>8 DEF Release
  <2> HIDE DEF i
  <2>2. /\ job'[i].status = status
        /\ \A j \in Job : j # i => job'[j] = job[j]
        /\ \A v \in Worker, j \in Job : claim'[v][j] = IF v = w /\ j = i THEN 0 ELSE claim[v][j]
    BY <1>0, <2>1
  <2>3. at'[w].pc = "free" /\ \A v \in Worker : v # w => at'[v] = at[v]
    BY <1>0, <2>1 DEF Free
  <2>4. job'[Wipe].status = "none" => job[Wipe].status = "none"  BY <2>1, <2>2
  <2>5. ASSUME Steady PROVE Steady'
    <3>1. i \in Entry /\ row[i].version # 0 /\ (vec[i] # {} \/ Inserting(i))
      BY <1>8, <2>5 DEF Steady, i
    <3>2. \A e \in Entry : Inserting(e) => Inserting(e)'
      BY <1>8, <2>3 DEF Inserting
    <3>3. \A v \in Worker, e \in Entry : at'[v].pc \in {"mark", "done"} /\ at'[v].job = e =>
             vec'[e] # {} \/ Inserting(e)'
      <4> SUFFICES ASSUME NEW v \in Worker, NEW e \in Entry,
                          at'[v].pc \in {"mark", "done"}, at'[v].job = e
                   PROVE  vec'[e] # {} \/ Inserting(e)'
        OBVIOUS
      <4>1. v # w /\ at'[v] = at[v]  BY <2>3
      <4>2. vec[e] # {} \/ Inserting(e)  BY <2>5, <4>1 DEF Steady
      <4> QED  BY <2>1, <3>2, <4>2
    <3>4. \A e \in Entry : Secured(e) => Secured(e)'
      <4> SUFFICES ASSUME NEW e \in Entry, Secured(e) PROVE Secured(e)'  OBVIOUS
      <4>1. CASE e = i  BY <2>1, <3>1, <3>2, <4>1 DEF Secured
      <4>2. CASE e # i  BY <2>1, <2>2, <3>2, <4>2 DEF Secured
      <4> QED  BY <4>1, <4>2
    <3>5. \A v \in Worker :
             /\ claim'[v][Wipe] = 0
             /\ at'[v].pc \notin {"drop", "wipe", "failed", "retry"}
             /\ at'[v].pc # "free" => at'[v].job \in Entry /\ claim'[v][at'[v].job] # 0
      BY <2>2, <2>3, <2>5, <3>1 DEF Steady
    <3>6. \A e \in Entry : IF row'[e].version = 0
                            THEN job'[e].status = "none" /\ \A v \in Worker : claim'[v][e] = 0
                            ELSE row'[e].live
      BY <2>1, <2>2, <2>5, <3>1 DEF Steady
    <3> QED  BY <2>1, <2>5, <3>3, <3>4, <3>5, <3>6 DEF Steady
  <2> QED  BY <2>1, <2>4, <2>5 DEF Undisturbed
<1>9. ASSUME FinishJob(w) \/ Reschedule(w) PROVE Undisturbed'
  BY <1>8, <1>9 DEF FinishJob, Reschedule, JobStatus
<1> QED
  BY <1>2, <1>3, <1>4, <1>5, <1>7, <1>9 DEF WorkerStep

\* Any number of workers, no reconcile cycle: a row can be forgotten only after
\* a call has failed or a process has stopped.  Two workers on the same job, lost
\* refreshes and overtaken locks are not enough: who deletes a vector inserts one.
THEOREM OnlyFaultsForget ==
    ASSUME MaxFaults = 0, Reconciling = FALSE PROVE Spec => []NoneForgotten
<1>1. Init => Undisturbed
  BY EntryJob DEF Init, Undisturbed, Steady, Secured, Inserting, Free, NoClaims, NoCycle
<1>2. IInv /\ Undisturbed /\ [Next]_vars => Undisturbed'
  <2> SUFFICES ASSUME IInv, Undisturbed, [Next]_vars PROVE Undisturbed'  OBVIOUS
  <2>1. CASE UNCHANGED vars  BY <2>1 DEF vars, Undisturbed, Steady, Secured, Inserting
  <2>2. CASE Next
    <3>1. CASE at' = at /\ vec' = vec  BY <2>2, <3>1, UndisturbedQueue
    <3>2. ~Fault  BY DEF Fault, IInv, TypeOK
    <3>3. rec.pc = "idle"  BY DEF Undisturbed
    <3>4. CASE \E w \in Worker : WorkerStep(w)  BY <3>4, UndisturbedWorker
    <3>5. ~(Cycle \/ AbortCycle)
      BY <3>2, <3>3 DEF Cycle, ReadRows, ReadVectors, Repair, AbortCycle
    <3>6. ASSUME NEW e \in Entry, CreateRow(e) \/ BeginWrite(e) \/ CommitWrite(e) \/ RollbackWrite(e)
          PROVE  at' = at /\ vec' = vec
      BY <3>6 DEF CreateRow, BeginWrite, CommitWrite, RollbackWrite
    <3>7. ASSUME NEW w \in Worker, NEW S \in SUBSET Job, Claim(w, S) PROVE at' = at /\ vec' = vec
      BY <3>7 DEF Claim
    <3>8. ASSUME NEW S \in SUBSET Job, Requeue(S) PROVE at' = at /\ vec' = vec
      BY <3>8 DEF Requeue
    <3>9. DeleteUser => at' = at /\ vec' = vec  BY DEF DeleteUser
    <3> QED
      BY <2>2, <3>1, <3>2, <3>4, <3>5, <3>6, <3>7, <3>8, <3>9 DEF Next, FailJob, Crash
  <2> QED  BY <2>1, <2>2
<1>3. Undisturbed => NoneForgotten  BY DEF Undisturbed, Steady, NoneForgotten
<1> QED  BY <1>1, <1>2, <1>3, Inductive, PTL DEF Spec
=============================================================================
