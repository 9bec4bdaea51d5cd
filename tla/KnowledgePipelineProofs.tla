---------------------- MODULE KnowledgePipelineProofs ----------------------
(***************************************************************************)
(* Proofs about KnowledgePipeline, for any number of jobs and events: that *)
(* cancellations hold, jobs only move forward, documents that are gone stay *)
(* gone, and what it takes for a document to lose its object.              *)
(*                                                                         *)
(* CancelHolds is not inductive: nothing in it says why a barred job will  *)
(* not insert.  Held says it: what the endpoints wrote to the row and to   *)
(* the record may be gone, but the marker is there as long as a barred job *)
(* has a check ahead of it, and behind a failed check no phase inserts.    *)
(***************************************************************************)
EXTENDS KnowledgePipeline, TLAPS

Occurs(q, j) == \E i \in DOMAIN q : q[i] = j
NoRepeat(q)  == \A i, k \in DOMAIN q : q[i] = q[k] => i = k

Phases == {"new", "queued"} \cup Running \cup Ended

\* A job in these has put nothing into the index.
Untouched == {"new", "removed"} \cup Unchecked

\* Where a barred job may be.
Behind == Unchecked \cup {"fail", "admit"} \cup Ended

Held ==
    /\ \A j \in Job : phase[j] \in Untouched => j \notin vectors
    /\ \A j \in barred : j \notin vectors /\ phase[j] \in Behind
    /\ \A j \in barred : phase[j] \in Unchecked => marker
    /\ api.op = "flag" => marker
    /\ api.op = "flag" /\ apiRec.status # "none" => apiItem.job \in Job

IInv == TypeOK /\ Held

-----------------------------------------------------------------------------
(* The queue                                                               *)

\* Appending a job that is not in the queue.
LEMMA AppendQueue ==
    ASSUME NEW q \in Seq(Job), NEW j \in Job, NoRepeat(q), ~Occurs(q, j)
    PROVE  /\ Append(q, j) \in Seq(Job)
           /\ NoRepeat(Append(q, j))
           /\ \A i \in Job : Occurs(Append(q, j), i) <=> i = j \/ Occurs(q, i)
<1> DEFINE r == Append(q, j)
<1>1. r \in Seq(Job) /\ Len(r) = Len(q) + 1
  OBVIOUS
<1>2. DOMAIN q = 1..Len(q) /\ DOMAIN r = 1..(Len(q) + 1) /\ Len(q) \in Nat
  BY <1>1
<1>3. (\A i \in 1..Len(q) : r[i] = q[i]) /\ r[Len(q) + 1] = j
  OBVIOUS
<1>4. NoRepeat(r)
  BY <1>2, <1>3 DEF NoRepeat, Occurs
<1>5. \A i \in Job : Occurs(r, i) <=> i = j \/ Occurs(q, i)
  <2> SUFFICES ASSUME NEW i \in Job PROVE Occurs(r, i) <=> i = j \/ Occurs(q, i)
    OBVIOUS
  <2>1. Occurs(r, i) => i = j \/ Occurs(q, i)
    BY <1>2, <1>3 DEF Occurs
  <2>2. i = j => Occurs(r, i)
    BY <1>2, <1>3, Len(q) + 1 \in DOMAIN r DEF Occurs
  <2>3. Occurs(q, i) => Occurs(r, i)
    BY <1>2, <1>3 DEF Occurs
  <2> QED BY <2>1, <2>2, <2>3
<1> QED BY <1>1, <1>4, <1>5

\* Taking the first job of the queue.
LEMMA TailQueue ==
    ASSUME NEW q \in Seq(Job), q # <<>>, NoRepeat(q)
    PROVE  /\ Head(q) \in Job /\ Occurs(q, Head(q))
           /\ Tail(q) \in Seq(Job)
           /\ NoRepeat(Tail(q))
           /\ \A i \in Job : Occurs(Tail(q), i) <=> i # Head(q) /\ Occurs(q, i)
<1> DEFINE r == Tail(q)
<1>1. r \in Seq(Job) /\ Len(r) = Len(q) - 1 /\ Len(q) \in Nat /\ Len(q) >= 1
  OBVIOUS
<1>2. DOMAIN q = 1..Len(q) /\ DOMAIN r = 1..(Len(q) - 1)
  BY <1>1
<1>3. (\A i \in 1..(Len(q) - 1) : r[i] = q[i + 1]) /\ Head(q) = q[1]
  BY <1>1
<1>4. Head(q) \in Job /\ Occurs(q, Head(q))
  BY <1>1, <1>2, <1>3, 1 \in DOMAIN q DEF Occurs
<1>5. NoRepeat(r)
  <2> SUFFICES ASSUME NEW i \in DOMAIN r, NEW k \in DOMAIN r, r[i] = r[k] PROVE i = k
    BY DEF NoRepeat
  <2>1. i + 1 \in DOMAIN q /\ k + 1 \in DOMAIN q /\ q[i + 1] = q[k + 1]
    BY <1>1, <1>2, <1>3
  <2> QED BY <2>1, <1>1, <1>2 DEF NoRepeat
<1>6. \A i \in Job : Occurs(r, i) <=> i # Head(q) /\ Occurs(q, i)
  <2> SUFFICES ASSUME NEW i \in Job PROVE Occurs(r, i) <=> i # Head(q) /\ Occurs(q, i)
    OBVIOUS
  <2>1. ASSUME Occurs(r, i) PROVE i # Head(q) /\ Occurs(q, i)
    <3>1. PICK k \in DOMAIN r : r[k] = i
      BY <2>1 DEF Occurs
    <3>2. k + 1 \in DOMAIN q /\ q[k + 1] = i /\ k + 1 # 1 /\ 1 \in DOMAIN q
      BY <1>1, <1>2, <1>3, <3>1
    <3> QED BY <3>2, <1>3 DEF NoRepeat, Occurs
  <2>2. ASSUME i # Head(q), Occurs(q, i) PROVE Occurs(r, i)
    <3>1. PICK k \in DOMAIN q : q[k] = i
      BY <2>2 DEF Occurs
    <3>2. k - 1 \in DOMAIN r /\ r[k - 1] = i
      BY <1>1, <1>2, <1>3, <2>2, <3>1
    <3> QED BY <3>2 DEF Occurs
  <2> QED BY <2>1, <2>2
<1> QED BY <1>1, <1>4, <1>5, <1>6

\* lrem, for an id that is in the queue.
LEMMA RemoveFromQueue ==
    ASSUME NEW j \in Job, queue \in Seq(Job), NoRepeat(queue), Occurs(queue, j)
    PROVE  /\ Without(j) \in Seq(Job)
           /\ NoRepeat(Without(j))
           /\ \A i \in Job : Occurs(Without(j), i) <=> i # j /\ Occurs(queue, i)
<1> DEFINE p == CHOOSE i \in DOMAIN queue : queue[i] = j
           n == Len(queue)
           At(i) == IF i < p THEN i ELSE i + 1
           r == Without(j)
<1>1. p \in DOMAIN queue /\ queue[p] = j
  BY DEF Occurs
<1>2. n \in Nat /\ DOMAIN queue = 1..n /\ p \in 1..n /\ \A i \in 1..n : queue[i] \in Job
  BY <1>1
<1>3. r = [i \in 1..(n - 1) |-> queue[At(i)]]
  BY DEF Without
<1> HIDE DEF p, n, r
<1>4. \A i \in 1..(n - 1) : At(i) \in 1..n /\ At(i) # p
  BY <1>2
<1>5. DOMAIN r = 1..(n - 1) /\ \A i \in 1..(n - 1) : r[i] = queue[At(i)] /\ r[i] \in Job
  BY <1>2, <1>3, <1>4
<1>6. r \in Seq(Job)
  <2>1. CASE n = 0
    BY <2>1, <1>2
  <2>2. CASE n > 0
    <3>1. n - 1 \in Nat
      BY <2>2, <1>2
    <3>2. r \in [1..(n - 1) -> Job]
      BY <1>3, <1>5
    <3> QED BY <3>1, <3>2
  <2> QED BY <1>2, <2>1, <2>2
<1>7. NoRepeat(r)
  <2> SUFFICES ASSUME NEW i \in 1..(n - 1), NEW k \in 1..(n - 1), r[i] = r[k] PROVE i = k
    BY <1>5 DEF NoRepeat
  <2>1. At(i) = At(k)
    BY <1>2, <1>4, <1>5 DEF NoRepeat
  <2> QED BY <2>1, <1>2
<1>8. \A i \in Job : Occurs(r, i) <=> i # j /\ Occurs(queue, i)
  <2> SUFFICES ASSUME NEW i \in Job PROVE Occurs(r, i) <=> i # j /\ Occurs(queue, i)
    OBVIOUS
  <2>1. ASSUME Occurs(r, i) PROVE i # j /\ Occurs(queue, i)
    <3>1. PICK k \in 1..(n - 1) : r[k] = i
      BY <2>1, <1>5 DEF Occurs
    <3>2. At(k) \in 1..n /\ At(k) # p /\ queue[At(k)] = i
      BY <3>1, <1>4, <1>5
    <3>3. Occurs(queue, i)
      BY <3>2, <1>2 DEF Occurs
    <3>4. i # j
      BY <3>2, <1>1, <1>2 DEF NoRepeat
    <3> QED BY <3>3, <3>4
  <2>2. ASSUME i # j, Occurs(queue, i) PROVE Occurs(r, i)
    <3>1. PICK k \in 1..n : queue[k] = i
      BY <2>2, <1>2 DEF Occurs
    <3>2. k # p
      BY <3>1, <2>2, <1>1
    <3>3. CASE k < p
      <4>1. k \in 1..(n - 1) /\ At(k) = k
        BY <3>3, <1>2
      <4> QED BY <4>1, <3>1, <1>5 DEF Occurs
    <3>4. CASE k > p
      <4>1. k - 1 \in 1..(n - 1) /\ At(k - 1) = k
        BY <3>4, <1>2
      <4> QED BY <4>1, <3>1, <1>5 DEF Occurs
    <3> QED BY <3>2, <3>3, <3>4, <1>2
  <2> QED BY <2>1, <2>2
<1> QED BY <1>6, <1>7, <1>8 DEF r

-----------------------------------------------------------------------------
(* The type, in the two parts that its proof takes                         *)

Op == {"free", "enqueue", "insert", "cancel", "signal", "flag", "purge", "erase",
       "reset", "reenqueue", "link", "relink"}
Endpoint == [op: Op, job: Job \cup {NoJob}, deletes: BOOLEAN]

StoreType == /\ item \in Item /\ vectors \subseteq Job
             /\ reference \in BOOLEAN /\ file \in BOOLEAN /\ marker \in BOOLEAN /\ live \in BOOLEAN
JobType   == /\ record \in [Job -> Record] /\ queue \in Seq(Job) /\ phase \in [Job -> Phases]
             /\ dead \in BOOLEAN /\ solo \subseteq Job /\ mid \subseteq Job
             /\ itemCopy \in [Job -> Item] /\ recCopy \in [Job -> Record]
ApiType   == api \in Endpoint /\ apiItem \in Item /\ apiRec \in Record
RestType  == clean \in {"idle", "loaded"} /\ events \in 0..MaxEvents /\ barred \subseteq Job

Basic == StoreType /\ JobType /\ ApiType /\ RestType

Queued == NoRepeat(queue) /\ \A j \in Job : phase[j] = "queued" <=> Occurs(queue, j)

\* The type, in the parts that the actions touch.
LEMMA TypeParts == TypeOK <=> Basic /\ Queued
  BY DEF TypeOK, Basic, StoreType, JobType, ApiType, RestType, Op, Endpoint, Queued, NoRepeat, Occurs, Phases

LEMMA TypePartsNext == TypeOK' <=> Basic' /\ Queued'
  BY DEF TypeOK, Basic, StoreType, JobType, ApiType, RestType, Op, Endpoint, Queued, NoRepeat, Occurs, Phases

\* The empty values are of their types.
LEMMA Defaults ==
    /\ NoItem \in Item /\ NoRecord \in Record /\ Free \in Endpoint /\ Free.op = "free"
    /\ \A a \in Endpoint, o \in Op : [a EXCEPT !.op = o] \in Endpoint /\ [a EXCEPT !.op = o].op = o
  BY DEF NoItem, Item, NoRecord, Record, Free, Endpoint, Op, NoJob

\* Requests and faults stay within their bound.
LEMMA Budget ==
    ASSUME RestType PROVE Event => events' \in 0..MaxEvents
  BY KnowledgeAssumption DEF RestType, Event

\* No row, no job.
LEMMA Initially == Init => IInv
<1> SUFFICES ASSUME Init PROVE IInv
  OBVIOUS
<1> USE KnowledgeAssumption
<1>1. Basic
  <2>1. StoreType /\ ApiType
    BY Defaults DEF Init, StoreType, ApiType
  <2>2. JobType
    <3>1. dead = FALSE /\ solo = {} /\ mid = {} /\ queue = <<>>
      BY DEF Init
    <3>2. phase \in [Job -> Phases]
      BY DEF Init, Phases
    <3>3. record \in [Job -> Record] /\ itemCopy \in [Job -> Item] /\ recCopy \in [Job -> Record]
      BY Defaults DEF Init
    <3>4. dead \in BOOLEAN
      BY <3>1
    <3> QED BY <3>1, <3>2, <3>3, <3>4 DEF JobType
  <2>3. RestType
    BY KnowledgeAssumption DEF Init, RestType
  <2> QED BY <2>1, <2>2, <2>3 DEF Basic
<1>2. Queued
  BY DEF Init, Queued, NoRepeat, Occurs
<1>3. Held
  BY DEF Init, Held, Free
<1> QED BY <1>1, <1>2, <1>3, TypeParts DEF IInv

(* Steps that leave the queue and the phases alone *)

\* A step that moves no job keeps the queue.
LEMMA QueueKept ==
    ASSUME Queued, queue' = queue, phase' = phase PROVE Queued'
  BY DEF Queued, NoRepeat, Occurs

LEMMA StageFileKeeps == ASSUME IInv, StageFile PROVE IInv'
<1>0. StoreType /\ JobType /\ ApiType /\ RestType /\ Queued /\ Held
  BY TypeParts DEF IInv, Basic
<1>1. StoreType'
  BY <1>0, Defaults DEF StageFile, StoreType, ApiType, Item, NoItem, Job, NoJob, storeVars, cleanVars
<1>2. JobType'
  BY <1>0 DEF StageFile, JobType, jobVars
<1>3. ApiType'
  BY <1>0, Defaults DEF StageFile, ApiType, StoreType, JobType, Op, Endpoint, apiVars
<1>4. RestType'
  BY <1>0 DEF StageFile, RestType, cleanVars
<1>5. Queued'
  BY <1>0, QueueKept DEF StageFile, jobVars
<1>6. Held'
  BY <1>0, Defaults DEF StageFile, Held, StoreType, ApiType, RestType, Endpoint, NoRecord, storeVars, jobVars, apiVars, cleanVars
<1> QED BY <1>1, <1>2, <1>3, <1>4, <1>5, <1>6, TypePartsNext DEF IInv, Basic

LEMMA StageFailsKeeps == ASSUME IInv, StageFails PROVE IInv'
<1>0. StoreType /\ JobType /\ ApiType /\ RestType /\ Queued /\ Held
  BY TypeParts DEF IInv, Basic
<1>1. StoreType' /\ JobType'
  BY <1>0 DEF StageFails, StoreType, JobType, storeVars, jobVars, cleanVars
<1>2. ApiType' /\ api'.op # "flag"
  <2>1. [NoItem EXCEPT !.life = "yes", !.status = "failed"] \in Item
    BY DEF NoItem, Item
  <2> QED BY <1>0, <2>1, Defaults DEF StageFails, ApiType, Op
<1>3. RestType'
  BY <1>0, Budget DEF StageFails, RestType, cleanVars
<1>4. Queued'
  BY <1>0, QueueKept DEF StageFails, jobVars
<1>5. Held'
  BY <1>0, <1>2 DEF StageFails, Held, storeVars, jobVars
<1> QED BY <1>1, <1>2, <1>3, <1>4, <1>5, TypePartsNext DEF IInv, Basic

LEMMA InsertRowKeeps == ASSUME IInv, InsertRow PROVE IInv'
<1>0. StoreType /\ JobType /\ ApiType /\ RestType /\ Queued /\ Held
  BY TypeParts DEF IInv, Basic
<1>1. StoreType'
  BY <1>0, Defaults DEF InsertRow, StoreType, ApiType, Item, NoItem, Job, NoJob, storeVars, cleanVars
<1>2. JobType'
  BY <1>0 DEF InsertRow, JobType, jobVars
<1>3. ApiType'
  BY <1>0, Defaults DEF InsertRow, ApiType, StoreType, JobType, Op, Endpoint, apiVars, Return
<1>4. RestType'
  BY <1>0 DEF InsertRow, RestType, cleanVars
<1>5. Queued'
  BY <1>0, QueueKept DEF InsertRow, jobVars
<1>6. Held'
  BY <1>0, Defaults DEF InsertRow, Held, StoreType, ApiType, RestType, Endpoint, NoRecord, storeVars, jobVars, apiVars, cleanVars, Return
<1> QED BY <1>1, <1>2, <1>3, <1>4, <1>5, <1>6, TypePartsNext DEF IInv, Basic

LEMMA RollBackKeeps == ASSUME IInv, RollBack PROVE IInv'
<1>0. StoreType /\ JobType /\ ApiType /\ RestType /\ Queued /\ Held
  BY TypeParts DEF IInv, Basic
<1>1. StoreType'
  BY <1>0, Defaults DEF RollBack, StoreType, ApiType, Item, NoItem, Job, NoJob, storeVars, cleanVars
<1>2. JobType'
  BY <1>0 DEF RollBack, JobType, jobVars
<1>3. ApiType'
  BY <1>0, Defaults DEF RollBack, ApiType, StoreType, JobType, Op, Endpoint, apiVars, Return
<1>4. RestType'
  BY <1>0, Budget DEF RollBack, RestType, cleanVars
<1>5. Queued'
  BY <1>0, QueueKept DEF RollBack, jobVars
<1>6. Held'
  BY <1>0, Defaults DEF RollBack, Held, StoreType, ApiType, RestType, Endpoint, NoRecord, storeVars, jobVars, apiVars, cleanVars, Return
<1> QED BY <1>1, <1>2, <1>3, <1>4, <1>5, <1>6, TypePartsNext DEF IInv, Basic

LEMMA CancelKeeps == ASSUME IInv, Cancel PROVE IInv'
<1>0. StoreType /\ JobType /\ ApiType /\ RestType /\ Queued /\ Held
  BY TypeParts DEF IInv, Basic
<1>1. StoreType'
  BY <1>0, Defaults DEF Cancel, StoreType, ApiType, Item, NoItem, Job, NoJob, storeVars, cleanVars
<1>2. JobType'
  BY <1>0 DEF Cancel, JobType, jobVars
<1>3. ApiType'
  BY <1>0, Defaults DEF Cancel, ApiType, StoreType, JobType, Op, Endpoint, apiVars
<1>4. RestType'
  BY <1>0 DEF Cancel, RestType, cleanVars
<1>5. Queued'
  BY <1>0, QueueKept DEF Cancel, jobVars
<1>6. Held'
  BY <1>0, Defaults DEF Cancel, Held, StoreType, ApiType, RestType, Endpoint, NoRecord, storeVars, jobVars, apiVars, cleanVars
<1> QED BY <1>1, <1>2, <1>3, <1>4, <1>5, <1>6, TypePartsNext DEF IInv, Basic

LEMMA CommitCancelKeeps == ASSUME IInv, CommitCancel PROVE IInv'
<1>0. StoreType /\ JobType /\ ApiType /\ RestType /\ Queued /\ Held
  BY TypeParts DEF IInv, Basic
<1>1. StoreType'
  BY <1>0, Defaults DEF CommitCancel, StoreType, ApiType, Item, NoItem, Job, NoJob, storeVars, cleanVars
<1>2. JobType'
  BY <1>0 DEF CommitCancel, JobType, jobVars
<1>3. ApiType'
  BY <1>0, Defaults DEF CommitCancel, ApiType, StoreType, JobType, Op, Endpoint, apiVars
<1>4. RestType'
  BY <1>0 DEF CommitCancel, RestType, cleanVars
<1>5. Queued'
  BY <1>0, QueueKept DEF CommitCancel, jobVars
<1>6. Held'
  BY <1>0, Defaults DEF CommitCancel, Held, StoreType, ApiType, RestType, Endpoint, NoRecord, storeVars, jobVars, apiVars, cleanVars
<1> QED BY <1>1, <1>2, <1>3, <1>4, <1>5, <1>6, TypePartsNext DEF IInv, Basic

LEMMA DeleteKeeps == ASSUME IInv, Delete PROVE IInv'
<1>0. StoreType /\ JobType /\ ApiType /\ RestType /\ Queued /\ Held
  BY TypeParts DEF IInv, Basic
<1>1. StoreType'
  BY <1>0, Defaults DEF Delete, StoreType, ApiType, Item, NoItem, Job, NoJob, storeVars, cleanVars
<1>2. JobType'
  BY <1>0 DEF Delete, JobType, jobVars
<1>3. ApiType'
  BY <1>0, Defaults DEF Delete, ApiType, StoreType, JobType, Op, Endpoint, apiVars
<1>4. RestType'
  BY <1>0 DEF Delete, RestType, cleanVars
<1>5. Queued'
  BY <1>0, QueueKept DEF Delete, jobVars
<1>6. Held'
  BY <1>0, Defaults DEF Delete, Held, StoreType, ApiType, RestType, Endpoint, NoRecord, storeVars, jobVars, apiVars, cleanVars
<1> QED BY <1>1, <1>2, <1>3, <1>4, <1>5, <1>6, TypePartsNext DEF IInv, Basic

LEMMA SignalKeeps == ASSUME IInv, Signal PROVE IInv'
<1>0. StoreType /\ JobType /\ ApiType /\ RestType /\ Queued /\ Held
  BY TypeParts DEF IInv, Basic
<1>1. StoreType'
  BY <1>0, Defaults DEF Signal, StoreType, ApiType, Item, NoItem, Job, NoJob, storeVars, cleanVars, BestEffort
<1>2. JobType'
  BY <1>0 DEF Signal, JobType, jobVars, BestEffort
<1>3. ApiType'
  <2>1. api' \in Endpoint /\ apiItem' \in Item
    BY <1>0, Defaults DEF Signal, ApiType, Op, apiVars
  <2>2. apiRec' \in Record
    <3>1. \A j \in Job : record[j] \in Record
      BY <1>0 DEF JobType
    <3>2. apiRec' = NoRecord \/ \E j \in Job : apiRec' = record[j]
      BY DEF Signal, BestEffort
    <3> QED BY <3>1, <3>2, Defaults
  <2> QED BY <2>1, <2>2 DEF ApiType
<1>4. RestType'
  BY <1>0, Budget DEF Signal, RestType, cleanVars, BestEffort
<1>5. Queued'
  BY <1>0, QueueKept DEF Signal, jobVars
<1>6. Held'
  BY <1>0, Defaults DEF Signal, Held, StoreType, ApiType, RestType, Endpoint, NoRecord, storeVars, jobVars, apiVars, cleanVars, BestEffort
<1> QED BY <1>1, <1>2, <1>3, <1>4, <1>5, <1>6, TypePartsNext DEF IInv, Basic

LEMMA PurgeKeeps == ASSUME IInv, Purge PROVE IInv'
<1>0. StoreType /\ JobType /\ ApiType /\ RestType /\ Queued /\ Held
  BY TypeParts DEF IInv, Basic
<1>1. StoreType'
  BY <1>0, Defaults DEF Purge, StoreType, ApiType, Item, NoItem, Job, NoJob, storeVars, cleanVars, BestEffort
<1>2. JobType'
  BY <1>0 DEF Purge, JobType, jobVars, BestEffort
<1>3. ApiType'
  BY <1>0, Defaults DEF Purge, ApiType, StoreType, JobType, Op, Endpoint, apiVars, BestEffort
<1>4. RestType'
  BY <1>0, Budget DEF Purge, RestType, cleanVars, BestEffort
<1>5. Queued'
  BY <1>0, QueueKept DEF Purge, jobVars
<1>6. Held'
  BY <1>0, Defaults DEF Purge, Held, StoreType, ApiType, RestType, Endpoint, NoRecord, storeVars, jobVars, apiVars, cleanVars, BestEffort
<1> QED BY <1>1, <1>2, <1>3, <1>4, <1>5, <1>6, TypePartsNext DEF IInv, Basic

LEMMA EraseKeeps == ASSUME IInv, Erase PROVE IInv'
<1>0. StoreType /\ JobType /\ ApiType /\ RestType /\ Queued /\ Held
  BY TypeParts DEF IInv, Basic
<1>1. StoreType'
  BY <1>0, Defaults DEF Erase, StoreType, ApiType, Item, NoItem, Job, NoJob, storeVars, cleanVars, BestEffort
<1>2. JobType'
  BY <1>0 DEF Erase, JobType, jobVars, BestEffort
<1>3. ApiType'
  BY <1>0, Defaults DEF Erase, ApiType, StoreType, JobType, Op, Endpoint, apiVars, BestEffort, Return
<1>4. RestType'
  BY <1>0, Budget DEF Erase, RestType, cleanVars, BestEffort
<1>5. Queued'
  BY <1>0, QueueKept DEF Erase, jobVars
<1>6. Held'
  BY <1>0, Defaults DEF Erase, Held, StoreType, ApiType, RestType, Endpoint, NoRecord, storeVars, jobVars, apiVars, cleanVars, BestEffort, Return
<1> QED BY <1>1, <1>2, <1>3, <1>4, <1>5, <1>6, TypePartsNext DEF IInv, Basic

LEMMA ReprocessKeeps == ASSUME IInv, Reprocess PROVE IInv'
<1>0. StoreType /\ JobType /\ ApiType /\ RestType /\ Queued /\ Held
  BY TypeParts DEF IInv, Basic
<1>1. StoreType'
  BY <1>0, Defaults DEF Reprocess, StoreType, ApiType, Item, NoItem, Job, NoJob, storeVars, cleanVars
<1>2. JobType'
  BY <1>0 DEF Reprocess, JobType, jobVars
<1>3. ApiType'
  BY <1>0, Defaults DEF Reprocess, ApiType, StoreType, JobType, Op, Endpoint, apiVars
<1>4. RestType'
  BY <1>0, Budget DEF Reprocess, RestType, cleanVars
<1>5. Queued'
  BY <1>0, QueueKept DEF Reprocess, jobVars
<1>6. Held'
  BY <1>0, Defaults DEF Reprocess, Held, StoreType, ApiType, RestType, Endpoint, NoRecord, storeVars, jobVars, apiVars, cleanVars
<1> QED BY <1>1, <1>2, <1>3, <1>4, <1>5, <1>6, TypePartsNext DEF IInv, Basic

LEMMA ResetKeeps == ASSUME IInv, Reset PROVE IInv'
<1>0. StoreType /\ JobType /\ ApiType /\ RestType /\ Queued /\ Held
  BY TypeParts DEF IInv, Basic
<1>1. StoreType'
  BY <1>0, Defaults DEF Reset, StoreType, ApiType, Item, NoItem, Job, NoJob, storeVars, cleanVars
<1>2. JobType'
  BY <1>0 DEF Reset, JobType, jobVars
<1>3. ApiType'
  BY <1>0, Defaults DEF Reset, ApiType, StoreType, JobType, Op, Endpoint, apiVars
<1>4. RestType'
  BY <1>0 DEF Reset, RestType, cleanVars
<1>5. Queued'
  BY <1>0, QueueKept DEF Reset, jobVars
<1>6. Held'
  BY <1>0, Defaults DEF Reset, Held, StoreType, ApiType, RestType, Endpoint, NoRecord, storeVars, jobVars, apiVars, cleanVars
<1> QED BY <1>1, <1>2, <1>3, <1>4, <1>5, <1>6, TypePartsNext DEF IInv, Basic

LEMMA ReadLinkKeeps == ASSUME IInv, ReadLink PROVE IInv'
<1>0. StoreType /\ JobType /\ ApiType /\ RestType /\ Queued /\ Held
  BY TypeParts DEF IInv, Basic
<1>1. StoreType'
  BY <1>0, Defaults DEF ReadLink, StoreType, ApiType, Item, NoItem, Job, NoJob, storeVars, cleanVars
<1>2. JobType'
  BY <1>0 DEF ReadLink, JobType, jobVars
<1>3. ApiType'
  BY <1>0, Defaults DEF ReadLink, ApiType, StoreType, JobType, Op, Endpoint, apiVars
<1>4. RestType'
  BY <1>0 DEF ReadLink, RestType, cleanVars
<1>5. Queued'
  BY <1>0, QueueKept DEF ReadLink, jobVars
<1>6. Held'
  BY <1>0, Defaults DEF ReadLink, Held, StoreType, ApiType, RestType, Endpoint, NoRecord, storeVars, jobVars, apiVars, cleanVars
<1> QED BY <1>1, <1>2, <1>3, <1>4, <1>5, <1>6, TypePartsNext DEF IInv, Basic

LEMMA LinkKeeps == ASSUME IInv, Link PROVE IInv'
<1>0. StoreType /\ JobType /\ ApiType /\ RestType /\ Queued /\ Held
  BY TypeParts DEF IInv, Basic
<1>1. StoreType'
  BY <1>0, Defaults DEF Link, StoreType, ApiType, Item, NoItem, Job, NoJob, storeVars, cleanVars, Endpoint
<1>2. JobType'
  BY <1>0 DEF Link, JobType, jobVars
<1>3. ApiType'
  BY <1>0, Defaults DEF Link, ApiType, StoreType, JobType, Op, Endpoint, apiVars, Return
<1>4. RestType'
  BY <1>0 DEF Link, RestType, cleanVars
<1>5. Queued'
  BY <1>0, QueueKept DEF Link, jobVars
<1>6. Held'
  BY <1>0, Defaults DEF Link, Held, StoreType, ApiType, RestType, Endpoint, NoRecord, storeVars, jobVars, apiVars, cleanVars, Return
<1> QED BY <1>1, <1>2, <1>3, <1>4, <1>5, <1>6, TypePartsNext DEF IInv, Basic

LEMMA CleanLoadKeeps == ASSUME IInv, CleanLoad PROVE IInv'
<1>0. StoreType /\ JobType /\ ApiType /\ RestType /\ Queued /\ Held
  BY TypeParts DEF IInv, Basic
<1>1. StoreType'
  BY <1>0, Defaults DEF CleanLoad, StoreType, ApiType, Item, NoItem, Job, NoJob, storeVars, cleanVars, Live
<1>2. JobType'
  BY <1>0 DEF CleanLoad, JobType, jobVars
<1>3. ApiType'
  BY <1>0, Defaults DEF CleanLoad, ApiType, StoreType, JobType, Op, Endpoint, apiVars
<1>4. RestType'
  BY <1>0 DEF CleanLoad, RestType, cleanVars
<1>5. Queued'
  BY <1>0, QueueKept DEF CleanLoad, jobVars
<1>6. Held'
  BY <1>0, Defaults DEF CleanLoad, Held, StoreType, ApiType, RestType, Endpoint, NoRecord, storeVars, jobVars, apiVars, cleanVars
<1> QED BY <1>1, <1>2, <1>3, <1>4, <1>5, <1>6, TypePartsNext DEF IInv, Basic

LEMMA CleanOrphansKeeps == ASSUME IInv, CleanOrphans PROVE IInv'
<1>0. StoreType /\ JobType /\ ApiType /\ RestType /\ Queued /\ Held
  BY TypeParts DEF IInv, Basic
<1>1. StoreType'
  BY <1>0, Defaults DEF CleanOrphans, StoreType, ApiType, Item, NoItem, Job, NoJob, storeVars, cleanVars, BestEffort
<1>2. JobType'
  BY <1>0 DEF CleanOrphans, JobType, jobVars, BestEffort
<1>3. ApiType'
  BY <1>0, Defaults DEF CleanOrphans, ApiType, StoreType, JobType, Op, Endpoint, apiVars, BestEffort
<1>4. RestType'
  BY <1>0, Budget DEF CleanOrphans, RestType, cleanVars, BestEffort
<1>5. Queued'
  BY <1>0, QueueKept DEF CleanOrphans, jobVars
<1>6. Held'
  BY <1>0, Defaults DEF CleanOrphans, Held, StoreType, ApiType, RestType, Endpoint, NoRecord, storeVars, jobVars, apiVars, cleanVars, BestEffort
<1> QED BY <1>1, <1>2, <1>3, <1>4, <1>5, <1>6, TypePartsNext DEF IInv, Basic

-----------------------------------------------------------------------------
(* Enqueueing: a new job joins the queue, or starts in a thread            *)

\* A new job is queued, or starts in a thread of its own.
LEMMA Starts ==
    ASSUME IInv, NEW j \in Job, phase[j] = "new", EnqueueJob(j) \/ StartThread(j)
    PROVE  /\ record' \in [Job -> Record] /\ queue' \in Seq(Job) /\ phase' \in [Job -> Phases]
           /\ dead' \in BOOLEAN /\ solo' \subseteq Job /\ events' \in 0..MaxEvents /\ Queued'
           /\ phase'[j] \in {"queued", "announce"}
           /\ \A i \in Job \ {j} : phase'[i] = phase[i]
<1>0. JobType /\ RestType /\ Queued
  BY TypeParts DEF IInv, Basic
<1>1. CASE EnqueueJob(j)
  <2>1. phase' = [phase EXCEPT ![j] = "queued"] /\ phase' \in [Job -> Phases]
    BY <1>0, <1>1 DEF EnqueueJob, JobType, Phases
  <2>2. \A i \in Job : phase'[i] = IF i = j THEN "queued" ELSE phase[i]
    BY <2>1, <1>0 DEF JobType
  <2>3. queue' = Append(queue, j) /\ NoRepeat(queue) /\ ~Occurs(queue, j)
    BY <1>0, <1>1 DEF EnqueueJob, Queued
  <2>4. /\ queue' \in Seq(Job) /\ NoRepeat(queue')
        /\ \A i \in Job : Occurs(queue', i) <=> i = j \/ Occurs(queue, i)
    BY <2>3, <1>0, AppendQueue DEF JobType
  <2>5. Queued'
    <3>1. \A i \in Job : phase'[i] = "queued" <=> Occurs(queue', i)
      BY <2>2, <2>4, <1>0 DEF Queued
    <3> QED BY <2>4, <3>1 DEF Queued, NoRepeat, Occurs
  <2>6. record' \in [Job -> Record]
    BY <1>0, <1>1 DEF EnqueueJob, JobType, Record
  <2> QED BY <1>0, <1>1, <2>1, <2>2, <2>4, <2>5, <2>6 DEF EnqueueJob, JobType, RestType
<1>2. CASE StartThread(j)
  <2>1. phase' = [phase EXCEPT ![j] = "announce"] /\ phase' \in [Job -> Phases]
    BY <1>0, <1>2 DEF StartThread, JobType, Phases, Running, ItemWriting
  <2>2. \A i \in Job : phase'[i] = IF i = j THEN "announce" ELSE phase[i]
    BY <2>1, <1>0 DEF JobType
  <2>3. Queued'
    <3>1. queue' = queue
      BY <1>2 DEF StartThread
    <3>2. \A i \in Job : phase'[i] = "queued" <=> Occurs(queue, i)
      BY <2>2, <1>0 DEF Queued
    <3> QED BY <1>0, <3>1, <3>2 DEF Queued, NoRepeat, Occurs
  <2> QED BY <1>0, <1>2, <2>1, <2>2, <2>3, Budget DEF StartThread, JobType
<1> QED BY <1>1, <1>2

\* A job that starts is neither barred nor in the index.
LEMMA StartHeld ==
    ASSUME IInv, NEW j \in Job, phase[j] = "new", phase'[j] \in {"queued", "announce"},
           \A i \in Job \ {j} : phase'[i] = phase[i],
           vectors' = vectors, barred' = barred, marker' = marker, api'.op # "flag"
    PROVE  Held'
<1>0. JobType /\ RestType /\ Held
  BY TypeParts DEF IInv, Basic
<1>1. j \notin vectors /\ j \notin barred
  BY <1>0 DEF Held, Untouched, Behind, Unchecked, Ended
<1> QED BY <1>0, <1>1 DEF Held, Untouched, Unchecked, RestType

LEMMA EnqueueUploadKeeps == ASSUME IInv, NEW j \in Job, EnqueueUpload(j) PROVE IInv'
<1>0. StoreType /\ JobType /\ ApiType /\ RestType
  BY TypeParts DEF IInv, Basic
<1>1. phase[j] = "new" /\ (EnqueueJob(j) \/ StartThread(j))
  BY DEF EnqueueUpload, Fresh
<1>2. StoreType'
  BY <1>0 DEF EnqueueUpload, StoreType, storeVars, cleanVars
<1>3. JobType'
  BY <1>0, <1>1, Starts DEF EnqueueUpload, JobType
<1>4. ApiType'
  <2>1. \A id \in Job \cup {NoJob} : [NoItem EXCEPT !.life = "yes", !.job = id] \in Item
    BY DEF NoItem, Item
  <2>2. apiItem' \in Item
    <3>1. PICK id \in {j, NoJob} : apiItem' = [NoItem EXCEPT !.life = "yes", !.job = id]
      BY DEF EnqueueUpload
    <3> QED BY <2>1, <3>1
  <2> QED BY <1>0, <2>2, Defaults DEF EnqueueUpload, ApiType, Op
<1>5. RestType'
  BY <1>0, <1>1, Starts DEF EnqueueUpload, RestType, cleanVars
<1>6. Queued'
  BY <1>1, Starts
<1>7. Held'
  <2>1. api'.op # "flag"
    BY <1>0, Defaults DEF EnqueueUpload, ApiType, Op
  <2> QED BY <1>1, <2>1, Starts, StartHeld DEF EnqueueUpload, storeVars
<1> QED BY <1>2, <1>3, <1>4, <1>5, <1>6, <1>7, TypePartsNext DEF IInv, Basic

LEMMA ReenqueueKeeps == ASSUME IInv, NEW j \in Job, Reenqueue(j) PROVE IInv'
<1>0. StoreType /\ JobType /\ ApiType /\ RestType
  BY TypeParts DEF IInv, Basic
<1>1. phase[j] = "new" /\ (EnqueueJob(j) \/ StartThread(j))
  BY DEF Reenqueue, Fresh
<1>2. StoreType'
  BY <1>0 DEF Reenqueue, StoreType, storeVars, cleanVars
<1>3. JobType'
  BY <1>0, <1>1, Starts DEF Reenqueue, JobType
<1>4. ApiType' /\ api'.op # "flag"
  <2>1. [api EXCEPT !.op = "link", !.job = j] \in Endpoint
        /\ [api EXCEPT !.op = "link", !.job = j].op = "link"
    BY <1>0 DEF ApiType, Endpoint, Op
  <2> QED BY <1>0, <2>1, Defaults DEF Reenqueue, ApiType, Return
<1>5. RestType'
  BY <1>0, <1>1, Starts DEF Reenqueue, RestType, cleanVars
<1>6. Queued'
  BY <1>1, Starts
<1>7. Held'
  BY <1>1, <1>4, Starts, StartHeld DEF Reenqueue, storeVars
<1> QED BY <1>2, <1>3, <1>4, <1>5, <1>6, <1>7, TypePartsNext DEF IInv, Basic

-----------------------------------------------------------------------------
(* The steps of a job                                                      *)

USE DEF RecWriting, ItemWriting, Checking

\* The next phase of a job: what it has not touched or checked stays so.
LEMMA FollowingFacts ==
    ASSUME NEW j \in Job, phase[j] \in Running
    PROVE  /\ Following(j) \in Running \cup Ended
           /\ Following(j) \in Untouched => phase[j] \in Untouched
           /\ Following(j) \in Unchecked => phase[j] \in Unchecked
           /\ phase[j] \in Behind /\ phase[j] # "recheck" => Following(j) \in Behind
  BY DEF Following, Running, Ended, Untouched, Unchecked, Behind

\* The phase in which a job that fails goes on.
LEMMA FailureFacts ==
    ASSUME NEW j \in Job
    PROVE  Failure(j) \in {"fail", "admit"} /\ Failure(j) \in Running /\ Failure(j) \in Behind
           /\ Failure(j) \notin Untouched /\ Failure(j) \notin Unchecked
  BY DEF Failure, Running, Untouched, Unchecked, Behind

\* One job moves to another phase.
LEMMA Moved ==
    ASSUME IInv, NEW j \in Job, NEW p \in Running \cup Ended, phase[j] \in Running,
           Advance(j, p), queue' = queue
    PROVE  /\ phase' \in [Job -> Phases] /\ Queued'
           /\ phase'[j] = p /\ \A i \in Job \ {j} : phase'[i] = phase[i]
<1>0. JobType /\ Queued
  BY TypeParts DEF IInv, Basic
<1>1. phase' \in [Job -> Phases] /\ phase'[j] = p /\ \A i \in Job \ {j} : phase'[i] = phase[i]
  BY <1>0 DEF JobType, Phases, Advance
<1>2. "queued" \notin Running \cup Ended
  BY DEF Running, Ended
<1>3. \A i \in Job : phase'[i] = "queued" <=> Occurs(queue, i)
  BY <1>0, <1>1, <1>2 DEF Queued
<1> QED BY <1>0, <1>1, <1>3 DEF Queued, NoRepeat, Occurs

\* A job that moves keeps what bars it.
LEMMA MovedHeld ==
    ASSUME IInv, NEW j \in Job, NEW p,
           phase'[j] = p, \A i \in Job \ {j} : phase'[i] = phase[i],
           p \in Untouched => phase[j] \in Untouched,
           p \in Unchecked => phase[j] \in Unchecked,
           j \in barred => p \in Behind,
           vectors' = vectors, UNCHANGED <<marker, apiVars, barred>>
    PROVE  Held'
<1>0. RestType /\ Held
  BY TypeParts DEF IInv, Basic
<1>1. UNCHANGED <<api, apiItem, apiRec>>
  BY DEF apiVars
<1> QED BY <1>0, <1>1 DEF Held, RestType

\* A step of a job that leaves the index alone.
LEMMA JobKeeps ==
    ASSUME IInv, NEW j \in Job, NEW p \in Running \cup Ended, phase[j] \in Running, Advance(j, p),
           p \in Untouched => phase[j] \in Untouched,
           p \in Unchecked => phase[j] \in Unchecked,
           j \in barred => p \in Behind,
           item' \in Item, record' \in [Job -> Record], mid' \subseteq Job,
           itemCopy' \in [Job -> Item], recCopy' \in [Job -> Record],
           dead' \in BOOLEAN, UNCHANGED events \/ Event,
           UNCHANGED <<storeVars, marker, queue, solo, apiVars, cleanVars, barred>>
    PROVE  IInv'
<1>0. StoreType /\ JobType /\ ApiType /\ RestType
  BY TypeParts DEF IInv, Basic
<1>1. StoreType'
  BY <1>0 DEF StoreType, storeVars, cleanVars
<1>2. JobType'
  BY <1>0, Moved DEF JobType
<1>3. ApiType' /\ RestType'
  BY <1>0, Budget DEF ApiType, RestType, apiVars, cleanVars
<1>4. Queued'
  BY Moved
<1>5. Held'
  BY Moved, MovedHeld DEF storeVars
<1> QED BY <1>1, <1>2, <1>3, <1>4, <1>5, TypePartsNext DEF IInv, Basic

\* A step of a job that only reads.
LEMMA ReadKeeps ==
    ASSUME IInv, mid' \subseteq Job, itemCopy' \in [Job -> Item], recCopy' \in [Job -> Record],
           UNCHANGED <<item, storeVars, marker, record, queue, phase, dead, solo, apiVars, cleanVars, events, barred>>
    PROVE  IInv'
<1>0. StoreType /\ JobType /\ ApiType /\ RestType /\ Queued /\ Held
  BY TypeParts DEF IInv, Basic
<1>1. StoreType' /\ JobType' /\ ApiType' /\ RestType'
  BY <1>0 DEF StoreType, JobType, ApiType, RestType, storeVars, apiVars, cleanVars
<1>2. Queued'
  BY <1>0, QueueKept
<1>3. Held'
  BY <1>0 DEF Held, storeVars, apiVars
<1> QED BY <1>1, <1>2, <1>3, TypePartsNext DEF IInv, Basic

LEMMA RecReadKeeps == ASSUME IInv, NEW j \in Job, RecRead(j) PROVE IInv'
<1>0. JobType
  BY TypeParts DEF IInv, Basic
<1>1. recCopy' \in [Job -> Record] /\ mid' \subseteq Job /\ itemCopy' \in [Job -> Item]
  BY <1>0 DEF RecRead, JobType
<1> QED BY <1>1, ReadKeeps DEF RecRead

LEMMA RecWriteKeeps == ASSUME IInv, NEW j \in Job, RecWrite(j) PROVE IInv'
<1>0. JobType /\ RestType /\ Held
  BY TypeParts DEF IInv, Basic
<1>1. phase[j] \in Running /\ phase[j] # "recheck" /\ Advance(j, Following(j))
  BY DEF RecWrite, Running
<1>2. record' \in [Job -> Record]
  <2>1. \A s \in {"processing", "completed", "failed"} : [recCopy[j] EXCEPT !.status = s] \in Record
    BY <1>0 DEF JobType, Record
  <2>2. PICK s \in {"processing", "completed", "failed"} :
          record' = [record EXCEPT ![j] = [recCopy[j] EXCEPT !.status = s]]
    BY DEF RecWrite
  <2> QED BY <1>0, <2>1, <2>2 DEF JobType
<1>3. recCopy' \in [Job -> Record] /\ mid' \subseteq Job
  BY <1>0, Defaults DEF RecWrite, JobType
<1>4. j \in barred => Following(j) \in Behind
  BY <1>0, <1>1, FollowingFacts DEF Held
<1> QED BY <1>0, <1>1, <1>2, <1>3, <1>4, FollowingFacts, JobKeeps, TypeParts DEF RecWrite, IInv, Basic, JobType, StoreType

LEMMA RecFailsKeeps == ASSUME IInv, NEW j \in Job, RecFails(j) PROVE IInv'
<1>0. StoreType /\ JobType /\ RestType /\ Held
  BY TypeParts DEF IInv, Basic
<1> DEFINE p == IF phase[j] = "fail" THEN "lost" ELSE Failure(j)
<1>1. phase[j] \in Running /\ Advance(j, p)
  BY DEF RecFails, Running
<1>2. p \in Running \cup Ended /\ p \notin Untouched /\ p \notin Unchecked /\ p \in Behind
  BY FailureFacts DEF Ended, Untouched, Unchecked, Behind
<1> HIDE DEF p
<1>3. recCopy' \in [Job -> Record] /\ mid' \subseteq Job /\ itemCopy' \in [Job -> Item]
  BY <1>0, Defaults DEF RecFails, JobType
<1>4. item' \in Item /\ record' \in [Job -> Record] /\ dead' \in BOOLEAN
  BY <1>0 DEF RecFails, JobType, StoreType
<1>5. Event /\ UNCHANGED <<storeVars, marker, queue, solo, apiVars, cleanVars, barred>>
  BY DEF RecFails
<1> QED BY <1>1, <1>2, <1>3, <1>4, <1>5, JobKeeps

LEMMA ItemReadKeeps == ASSUME IInv, NEW j \in Job, ItemRead(j) PROVE IInv'
<1>0. StoreType /\ JobType /\ RestType /\ Held
  BY TypeParts DEF IInv, Basic
<1>1. phase[j] \in Running /\ phase[j] # "recheck"
  BY DEF ItemRead, Running
<1>2. CASE item.life = "yes"
  <2>1. itemCopy' \in [Job -> Item] /\ mid' \subseteq Job /\ UNCHANGED phase
    BY <1>0, <1>2 DEF ItemRead, JobType, StoreType
  <2> QED BY <1>0, <2>1, ReadKeeps DEF ItemRead, JobType
<1>3. CASE item.life # "yes"
  <2>1. Advance(j, Following(j)) /\ UNCHANGED <<itemCopy, mid>>
    BY <1>3 DEF ItemRead
  <2>2. j \in barred => Following(j) \in Behind
    BY <1>0, <1>1, FollowingFacts DEF Held
  <2> QED BY <1>0, <1>1, <2>1, <2>2, FollowingFacts, JobKeeps DEF ItemRead, JobType, StoreType
<1> QED BY <1>2, <1>3

LEMMA ItemWriteKeeps == ASSUME IInv, NEW j \in Job, ItemWrite(j) PROVE IInv'
<1>0. StoreType /\ JobType /\ RestType /\ Held
  BY TypeParts DEF IInv, Basic
<1>1. phase[j] \in Running /\ phase[j] # "recheck" /\ Advance(j, Following(j))
  BY DEF ItemWrite, Running
<1>2. \A c \in Item : Updated(c, phase[j]) \in Item
  BY DEF Updated, Item
<1>3. item' \in Item /\ itemCopy' \in [Job -> Item] /\ mid' \subseteq Job
  BY <1>0, <1>2, Defaults DEF ItemWrite, JobType, StoreType
<1>4. j \in barred => Following(j) \in Behind
  BY <1>0, <1>1, FollowingFacts DEF Held
<1> QED BY <1>0, <1>1, <1>3, <1>4, FollowingFacts, JobKeeps DEF ItemWrite, JobType

LEMMA ItemFailsKeeps == ASSUME IInv, NEW j \in Job, ItemFails(j) PROVE IInv'
<1>0. StoreType /\ JobType /\ RestType /\ Held
  BY TypeParts DEF IInv, Basic
<1>1. phase[j] \in Running /\ phase[j] # "recheck" /\ Advance(j, Following(j))
  BY DEF ItemFails, Running
<1>2. item' \in Item /\ itemCopy' \in [Job -> Item] /\ mid' \subseteq Job
  BY <1>0, Defaults DEF ItemFails, JobType, StoreType
<1>3. j \in barred => Following(j) \in Behind
  BY <1>0, <1>1, FollowingFacts DEF Held
<1> QED BY <1>0, <1>1, <1>2, <1>3, FollowingFacts, JobKeeps DEF ItemFails, JobType

\* The marker answers for a barred job.
LEMMA CheckKeeps == ASSUME IInv, NEW j \in Job, Check(j) PROVE IInv'
<1>0. StoreType /\ JobType /\ RestType /\ Held
  BY TypeParts DEF IInv, Basic
<1>a. PICK redis, sql \in BOOLEAN :
        /\ UNCHANGED events \/ Event
        /\ Advance(j, IF Cancelled(j, redis, sql) THEN Failure(j) ELSE Following(j))
  BY DEF Check
<1> DEFINE p == IF Cancelled(j, redis, sql) THEN Failure(j) ELSE Following(j)
<1>1. phase[j] \in Running /\ Advance(j, p)
  BY <1>a DEF Check, Running
<1>2. j \in barred => p \in Behind
  <2>1. j \in barred => phase[j] \in Behind /\ (phase[j] \in Unchecked => marker)
    BY <1>0 DEF Held
  <2>2. phase[j] = "recheck" => phase[j] \in Unchecked
    BY DEF Unchecked
  <2>3. marker => Cancelled(j, redis, sql)
    BY DEF Cancelled
  <2> QED BY <1>1, <2>1, <2>2, <2>3, FailureFacts, FollowingFacts
<1>3. /\ p \in Running \cup Ended
      /\ p \in Untouched => phase[j] \in Untouched
      /\ p \in Unchecked => phase[j] \in Unchecked
  BY <1>1, FailureFacts, FollowingFacts
<1> HIDE DEF p
<1> QED BY <1>0, <1>a, <1>1, <1>2, <1>3, JobKeeps DEF Check, JobType, StoreType

LEMMA ParseFailsKeeps == ASSUME IInv, NEW j \in Job, ParseFails(j) PROVE IInv'
<1>0. StoreType /\ JobType
  BY TypeParts DEF IInv, Basic
<1>1. phase[j] \in Running /\ Advance(j, Failure(j))
  BY DEF ParseFails, Running
<1> QED BY <1>0, <1>1, FailureFacts, JobKeeps DEF ParseFails, JobType, StoreType

\* Nothing that is barred is here, and neither failing nor verifying is
\* before a check.
LEMMA InsertKeeps == ASSUME IInv, NEW j \in Job, Insert(j) PROVE IInv'
<1>0. StoreType /\ JobType /\ ApiType /\ RestType /\ Held
  BY TypeParts DEF IInv, Basic
<1>1. phase[j] = "insert" /\ phase[j] \in Running
  BY DEF Insert, Running
<1>2. PICK p \in {Following(j), Failure(j)} : Advance(j, p)
  BY DEF Insert, BestEffort
<1>3. p \in {"verify", "fail", "admit"} /\ p \in Running
  BY <1>1, FailureFacts DEF Following, Running
<1>4. vectors' \subseteq vectors \cup {j} /\ queue' = queue
  BY DEF Insert, BestEffort
<1>5. j \notin barred
  BY <1>0, <1>1 DEF Held, Behind, Unchecked, Ended
<1>6. /\ phase' \in [Job -> Phases] /\ Queued'
      /\ phase'[j] = p /\ \A i \in Job \ {j} : phase'[i] = phase[i]
  BY <1>1, <1>2, <1>3, <1>4, Moved
<1>7. StoreType'
  BY <1>0, <1>4 DEF Insert, StoreType, cleanVars
<1>8. JobType'
  BY <1>0, <1>6 DEF Insert, JobType
<1>9. ApiType' /\ RestType'
  BY <1>0, Budget DEF Insert, BestEffort, ApiType, RestType, apiVars, cleanVars
<1>10. Held'
  <2>1. UNCHANGED <<marker, api, apiItem, apiRec, barred>>
    BY DEF Insert, apiVars
  <2>2. p \notin Untouched
    BY <1>3 DEF Untouched, Unchecked
  <2> QED BY <1>0, <1>4, <1>5, <1>6, <2>1, <2>2 DEF Held, RestType
<1> QED BY <1>6, <1>7, <1>8, <1>9, <1>10, TypePartsNext DEF IInv, Basic

-----------------------------------------------------------------------------
(* The queue is popped, a cancellation reaches the record, a restart       *)

LEMMA PopKeeps == ASSUME IInv, Pop PROVE IInv'
<1>0. StoreType /\ JobType /\ ApiType /\ RestType /\ Queued /\ Held
  BY TypeParts DEF IInv, Basic
<1> DEFINE j == Head(queue)
<1>1. /\ j \in Job /\ Occurs(queue, j) /\ Tail(queue) \in Seq(Job) /\ NoRepeat(Tail(queue))
      /\ \A i \in Job : Occurs(Tail(queue), i) <=> i # j /\ Occurs(queue, i)
  BY <1>0, TailQueue DEF Pop, JobType, Queued
<1> HIDE DEF j
<1>2. phase[j] = "queued"
  BY <1>0, <1>1 DEF Queued
<1>a. PICK p \in {"take", "lost"} : phase' = [phase EXCEPT ![j] = p]
  BY DEF Pop, BestEffort, j
<1>3. /\ phase' \in [Job -> Phases]
      /\ \A i \in Job : phase'[i] = IF i = j THEN p ELSE phase[i]
  BY <1>0, <1>1, <1>a DEF JobType, Phases, Running, Ended
<1>4. Queued'
  <2>1. queue' = Tail(queue)
    BY DEF Pop
  <2>2. \A i \in Job : phase'[i] = "queued" <=> Occurs(queue', i)
    BY <1>0, <1>1, <1>3, <2>1 DEF Queued
  <2> QED BY <1>1, <2>1, <2>2 DEF Queued, NoRepeat, Occurs
<1>5. StoreType' /\ ApiType' /\ RestType'
  BY <1>0, Budget DEF Pop, BestEffort, StoreType, ApiType, RestType, storeVars, apiVars, cleanVars
<1>6. JobType'
  BY <1>0, <1>1, <1>3 DEF Pop, JobType
<1>7. Held'
  <2>1. UNCHANGED <<marker, api, apiItem, apiRec, barred, vectors>>
    BY DEF Pop, apiVars, storeVars
  <2> QED BY <1>0, <1>2, <1>3, <2>1 DEF Held, Untouched, Unchecked, Behind, Ended, RestType
<1> QED BY <1>4, <1>5, <1>6, <1>7, TypePartsNext DEF IInv, Basic

LEMMA FlagKeeps == ASSUME IInv, Flag PROVE IInv'
<1>0. StoreType /\ JobType /\ ApiType /\ RestType /\ Queued /\ Held
  BY TypeParts DEF IInv, Basic
<1> DEFINE j == apiItem.job
           p == [phase EXCEPT ![j] = "removed"]
<1> HIDE DEF j, p
<1>1. \/ UNCHANGED <<queue, phase>>
      \/ j \in Job /\ phase[j] = "queued" /\ queue' = Without(j) /\ phase' = p
  BY <1>0 DEF Flag, Held, j, p
<1>2. /\ queue' \in Seq(Job) /\ phase' \in [Job -> Phases] /\ Queued'
      /\ \A i \in Job : phase'[i] = phase[i] \/ (phase[i] = "queued" /\ phase'[i] = "removed")
  <2>1. CASE UNCHANGED <<queue, phase>>
    BY <1>0, <2>1, QueueKept DEF JobType
  <2>2. CASE j \in Job /\ phase[j] = "queued" /\ queue' = Without(j) /\ phase' = p
    <3>1. phase' \in [Job -> Phases] /\ \A i \in Job : phase'[i] = IF i = j THEN "removed" ELSE phase[i]
      BY <1>0, <2>2 DEF JobType, Phases, Ended, p
    <3>2. /\ queue' \in Seq(Job) /\ NoRepeat(queue')
          /\ \A i \in Job : Occurs(queue', i) <=> i # j /\ Occurs(queue, i)
      BY <1>0, <2>2, RemoveFromQueue DEF Queued, JobType
    <3>3. \A i \in Job : phase'[i] = "queued" <=> Occurs(queue', i)
      BY <1>0, <3>1, <3>2 DEF Queued
    <3>4. Queued'
      BY <3>2, <3>3 DEF Queued, NoRepeat, Occurs
    <3> QED BY <2>2, <3>1, <3>2, <3>4
  <2> QED BY <1>1, <2>1, <2>2
<1>3. record' \in [Job -> Record]
  <2>1. [status |-> "failed", cancel |-> TRUE] \in Record
    BY DEF Record
  <2>2. record' = record \/ record' = [record EXCEPT ![j] = [status |-> "failed", cancel |-> TRUE]]
    BY DEF Flag, j
  <2> QED BY <1>0, <2>1, <2>2 DEF JobType
<1>4. StoreType'
  BY <1>0 DEF Flag, StoreType, storeVars, cleanVars
<1>5. JobType'
  BY <1>0, <1>2, <1>3 DEF Flag, JobType
<1>6. ApiType' /\ api'.op # "flag"
  <2>1. CASE api.deletes
    <3>1. "purge" \in Op
      BY DEF Op
    <3>2. api' = [api EXCEPT !.op = "purge"] /\ apiItem' = NoItem /\ apiRec' = NoRecord
      BY <2>1 DEF Flag
    <3>3. api' \in Endpoint /\ api'.op = "purge"
      BY <1>0, <3>1, <3>2, Defaults DEF ApiType
    <3> QED BY <3>2, <3>3, Defaults DEF ApiType
  <2>2. CASE ~api.deletes
    BY <1>0, <2>2, Defaults DEF Flag, ApiType, Return
  <2> QED BY <2>1, <2>2
<1>7. barred' = barred \cup {i \in Job : phase'[i] \in Unchecked \cup {"removed"}}
  BY DEF Flag
<1>8. RestType'
  BY <1>0, <1>7 DEF Flag, RestType, cleanVars
<1>9. Held'
  <2>1. marker /\ UNCHANGED <<marker, vectors>>
    BY <1>0 DEF Flag, Held, storeVars
  <2>2. \A i \in Job : phase'[i] \in Untouched => i \notin vectors
    BY <1>0, <1>2 DEF Held, Untouched, Unchecked
  <2>3. \A i \in barred : phase'[i] \in Behind
    BY <1>0, <1>2 DEF Held, Behind, Ended, RestType
  <2>4. \A i \in barred' : i \notin vectors /\ phase'[i] \in Behind
    BY <1>0, <1>7, <2>2, <2>3 DEF Held, Untouched, Unchecked, Behind, Ended
  <2> QED BY <1>6, <2>1, <2>2, <2>4 DEF Held
<1> QED BY <1>2, <1>4, <1>5, <1>6, <1>8, <1>9, TypePartsNext DEF IInv, Basic

\* What the restart leaves of the barred jobs has no step left.
LEMMA RestartKeeps == ASSUME IInv, Restart PROVE IInv'
<1>0. StoreType /\ JobType /\ ApiType /\ RestType /\ Queued /\ Held
  BY TypeParts DEF IInv, Basic
<1>1. /\ phase' \in [Job -> Phases]
      /\ \A i \in Job : phase'[i] = IF phase[i] \in Running THEN "lost" ELSE phase[i]
  BY <1>0 DEF Restart, JobType, Phases, Ended
<1>2. StoreType'
  BY <1>0 DEF Restart, StoreType, storeVars, Item
<1>3. JobType'
  BY <1>0, <1>1, Defaults DEF Restart, JobType
<1>4. ApiType' /\ api'.op # "flag"
  BY Defaults DEF Restart, Return, ApiType
<1>5. RestType'
  BY <1>0, Budget DEF Restart, StillBarred, RestType
<1>6. Queued'
  <2>1. queue' = queue
    BY DEF Restart
  <2>2. \A i \in Job : phase'[i] = "queued" <=> Occurs(queue, i)
    BY <1>0, <1>1 DEF Queued, Running
  <2> QED BY <1>0, <2>1, <2>2 DEF Queued, NoRepeat, Occurs
<1>7. Held'
  <2>1. vectors' = vectors /\ barred' = {j \in barred : phase'[j] \notin Unchecked}
    BY DEF Restart, StillBarred, storeVars
  <2>2. \A i \in Job : phase'[i] \in Untouched => phase[i] \in Untouched
    BY <1>1 DEF Untouched, Unchecked
  <2>3. \A i \in barred' : i \in Job /\ i \notin vectors /\ phase'[i] \in Ended
    BY <1>0, <1>1, <2>1 DEF Held, RestType, Behind, Unchecked, Running, Ended
  <2>4. \A i \in barred' : phase'[i] \in Behind /\ phase'[i] \notin Unchecked
    BY <2>3 DEF Behind, Ended, Unchecked
  <2> QED BY <1>0, <1>4, <2>1, <2>2, <2>3, <2>4 DEF Held
<1> QED BY <1>2, <1>3, <1>4, <1>5, <1>6, <1>7, TypePartsNext DEF IInv, Basic

\* A job that stays barred without the marker has no check ahead.
LEMMA ExpireMarkerKeeps == ASSUME IInv, ExpireMarker PROVE IInv'
<1>0. StoreType /\ JobType /\ ApiType /\ RestType /\ Queued /\ Held
  BY TypeParts DEF IInv, Basic
<1>1. StoreType' /\ JobType' /\ ApiType'
  BY <1>0 DEF ExpireMarker, StoreType, JobType, ApiType, storeVars, apiVars, cleanVars
<1>2. barred' = {j \in barred : phase'[j] \notin Unchecked} /\ phase' = phase
  BY DEF ExpireMarker, StillBarred
<1>3. RestType'
  BY <1>0, <1>2, Budget DEF ExpireMarker, RestType, cleanVars
<1>4. Queued'
  BY <1>0, QueueKept DEF ExpireMarker
<1>5. Held'
  <2>1. api.op # "flag" /\ UNCHANGED <<api, apiItem, apiRec, vectors>>
    BY DEF ExpireMarker, apiVars, storeVars
  <2> QED BY <1>0, <1>2, <2>1 DEF Held
<1> QED BY <1>1, <1>3, <1>4, <1>5, TypePartsNext DEF IInv, Basic

-----------------------------------------------------------------------------
LEMMA StutterKeeps == ASSUME IInv, UNCHANGED vars PROVE IInv'
<1>1. UNCHANGED <<item, storeVars, marker, record, queue, phase, dead, solo, mid, itemCopy, recCopy, apiVars, cleanVars, events, barred>>
  BY DEF vars, jobVars
<1>2. JobType
  BY TypeParts DEF IInv, Basic
<1> QED BY <1>1, <1>2, ReadKeeps DEF JobType

\* Every action keeps the invariant.
LEMMA Inductive == IInv /\ [Next]_vars => IInv'
<1> SUFFICES ASSUME IInv, [Next]_vars PROVE IInv'
  OBVIOUS
<1>1. CASE ApiStep
  BY <1>1, EnqueueUploadKeeps, ReenqueueKeeps, InsertRowKeeps, CommitCancelKeeps, SignalKeeps, FlagKeeps,
     PurgeKeeps, EraseKeeps, ResetKeeps, ReadLinkKeeps, LinkKeeps DEF ApiStep
<1>2. ASSUME NEW j \in Job, JobStep(j) PROVE IInv'
  BY <1>2, RecReadKeeps, RecWriteKeeps, RecFailsKeeps, ItemReadKeeps, ItemWriteKeeps, ItemFailsKeeps,
     CheckKeeps, ParseFailsKeeps, InsertKeeps DEF JobStep
<1>3. CASE CleanStep
  BY <1>3, CleanLoadKeeps, CleanOrphansKeeps DEF CleanStep
<1>4. CASE \/ StageFile \/ StageFails \/ Cancel \/ Delete \/ Reprocess \/ RollBack \/ Pop
           \/ ExpireMarker \/ Restart
  BY <1>4, StageFileKeeps, StageFailsKeeps, CancelKeeps, DeleteKeeps, ReprocessKeeps, RollBackKeeps,
     PopKeeps, ExpireMarkerKeeps, RestartKeeps
<1>5. CASE UNCHANGED vars
  BY <1>5, StutterKeeps
<1> QED BY <1>1, <1>2, <1>3, <1>4, <1>5 DEF Next

\* The type, and with it that the queue names exactly the queued jobs, each
\* once.
THEOREM TypeCorrect == Spec => []TypeOK
<1>1. IInv => TypeOK
  BY DEF IInv
<1> QED BY <1>1, Initially, Inductive, PTL DEF Spec

\* A cancellation or deletion that was acknowledged holds: no job that had its
\* last check ahead of it puts vectors into the index before the document is
\* reprocessed, whatever progress updates overwrite in the row and the record
\* and whichever store does not answer; unless the job still has that check
\* ahead when the marker goes, with the process or after 24 hours.
THEOREM CancellationHolds == Spec => []CancelHolds
<1>1. IInv => CancelHolds
  BY DEF IInv, Held, CancelHolds
<1> QED BY <1>1, Initially, Inductive, PTL DEF Spec

-----------------------------------------------------------------------------
(* A job goes its way once                                                 *)

\* How far a job is.
Rank(p) ==
    CASE p = "new"                  -> 0
      [] p = "queued"               -> 1
      [] p = "take"                 -> 2
      [] p = "announce"             -> 3
      [] p = "check"                -> 4
      [] p = "parse"                -> 5
      [] p = "recheck"              -> 6
      [] p = "insert"               -> 7
      [] p = "verify"               -> 8
      [] p = "complete"             -> 9
      [] p = "fail"                 -> 10
      [] p \in {"publish", "admit"} -> 11
      [] OTHER                      -> 12

\* A job only goes forward, and what the index gains of it, it gains when the
\* job leaves "insert".
Forward(j) ==
    /\ phase'[j] # phase[j] => Rank(phase[j]) < Rank(phase'[j])
    /\ j \in vectors' \ vectors => phase[j] = "insert" /\ phase'[j] # "insert"

JobsGoForward == [][\A j \in Job : Forward(j)]_vars

\* One job takes a step forward, and puts nothing into the index.
LEMMA StepForward ==
    ASSUME phase \in [Job -> Phases], NEW i \in Job, NEW p, Advance(i, p), Rank(phase[i]) < Rank(p),
           vectors' \subseteq vectors, NEW j \in Job
    PROVE  Forward(j)
<1>1. phase'[j] = IF j = i THEN p ELSE phase[j]
  BY DEF Advance
<1> QED BY <1>1 DEF Forward

\* The next phase of a job that runs comes later, whatever has become of it.
LEMMA NextIsLater ==
    ASSUME NEW j \in Job
    PROVE  /\ phase[j] \in Running => Rank(phase[j]) < Rank(Following(j))
           /\ phase[j] \in Checking \cup {"parse", "insert"} => Rank(phase[j]) < Rank(Failure(j))
           /\ phase[j] \in {"take", "complete"} => Rank(phase[j]) < Rank(Failure(j))
  BY DEF Rank, Running, RecWriting, ItemWriting, Checking, Following, Failure

LEMMA JobForward ==
    ASSUME IInv, NEW i \in Job, JobStep(i), NEW j \in Job PROVE Forward(j)
<1>0. phase \in [Job -> Phases]
  BY TypeParts DEF IInv, Basic, JobType
<1>1. CASE RecRead(i)
  BY <1>1 DEF RecRead, Forward, storeVars
<1>2. CASE RecWrite(i)
  <2>1. phase[i] \in Running /\ Advance(i, Following(i)) /\ vectors' = vectors
    BY <1>2 DEF RecWrite, Running, storeVars
  <2> QED BY <1>0, <2>1, NextIsLater, StepForward
<1>3. CASE ItemRead(i)
  <2>1. phase[i] \in Running /\ (phase' = phase \/ Advance(i, Following(i))) /\ vectors' = vectors
    BY <1>3 DEF ItemRead, Running, storeVars
  <2>2. CASE phase' = phase
    BY <2>1, <2>2 DEF Forward
  <2> QED BY <1>0, <2>1, <2>2, NextIsLater, StepForward
<1>4. CASE ItemWrite(i)
  <2>1. phase[i] \in Running /\ Advance(i, Following(i)) /\ vectors' = vectors
    BY <1>4 DEF ItemWrite, Running, storeVars
  <2> QED BY <1>0, <2>1, NextIsLater, StepForward
<1>5. CASE Check(i)
  <2>0. PICK p \in {Failure(i), Following(i)} : Advance(i, p)
    BY <1>5 DEF Check
  <2>1. phase[i] \in Checking /\ vectors' = vectors
    BY <1>5 DEF Check, storeVars
  <2>2. Rank(phase[i]) < Rank(p)
    <3>1. phase[i] \in Running
      BY <2>1 DEF Running
    <3>2. Rank(phase[i]) < Rank(Following(i)) /\ Rank(phase[i]) < Rank(Failure(i))
      BY <2>1, <3>1, NextIsLater
    <3> QED BY <2>0, <3>2
  <2> QED BY <1>0, <2>0, <2>1, <2>2, StepForward
<1>8. CASE RecFails(i)
  <2> DEFINE p == IF phase[i] = "fail" THEN "lost" ELSE Failure(i)
  <2>1. phase[i] \in RecWriting /\ Advance(i, p) /\ vectors' = vectors
    BY <1>8 DEF RecFails, storeVars
  <2>2. Rank("fail") < Rank("lost")
    BY DEF Rank
  <2>3. Rank(phase[i]) < Rank(p)
    BY <2>1, <2>2, NextIsLater
  <2> HIDE DEF p
  <2> QED BY <1>0, <2>1, <2>3, StepForward
<1>9. CASE ItemFails(i)
  <2>1. phase[i] \in Running /\ Advance(i, Following(i)) /\ vectors' = vectors
    BY <1>9 DEF ItemFails, Running, storeVars
  <2> QED BY <1>0, <2>1, NextIsLater, StepForward
<1>6. CASE ParseFails(i)
  <2>1. phase[i] = "parse" /\ Advance(i, Failure(i)) /\ vectors' = vectors
    BY <1>6 DEF ParseFails, storeVars
  <2> QED BY <1>0, <2>1, NextIsLater, StepForward
<1>7. CASE Insert(i)
  <2>1. phase[i] = "insert" /\ vectors' \subseteq vectors \cup {i}
    BY <1>7 DEF Insert, BestEffort
  <2>2. PICK p \in {Following(i), Failure(i)} : Advance(i, p)
    BY <1>7 DEF Insert, BestEffort
  <2>3. Rank("insert") < Rank(p) /\ p # "insert"
    BY <2>1, NextIsLater, FailureFacts DEF Rank, Following, Running
  <2>4. phase'[j] = IF j = i THEN p ELSE phase[j]
    BY <1>0, <2>2 DEF Advance
  <2> QED BY <2>1, <2>3, <2>4 DEF Forward
<1> QED BY <1>1, <1>2, <1>3, <1>4, <1>5, <1>6, <1>7, <1>8, <1>9 DEF JobStep

LEMMA ApiForward ==
    ASSUME IInv, StageFile \/ StageFails \/ Cancel \/ Delete \/ Reprocess \/ ApiStep \/ RollBack, NEW j \in Job
    PROVE  Forward(j)
<1>0. phase \in [Job -> Phases]
  BY TypeParts DEF IInv, Basic, JobType
<1>1. CASE \E i \in Job : EnqueueUpload(i) \/ Reenqueue(i)
  <2>1. PICK i \in Job : phase[i] = "new" /\ (EnqueueJob(i) \/ StartThread(i)) /\ vectors' = vectors
    BY <1>1 DEF EnqueueUpload, Reenqueue, Fresh, storeVars
  <2>2. Advance(i, "queued") \/ Advance(i, "announce")
    BY <2>1 DEF EnqueueJob, StartThread, Advance
  <2>3. Rank("new") < Rank("queued") /\ Rank("new") < Rank("announce")
    BY DEF Rank
  <2> QED BY <1>0, <2>1, <2>2, <2>3, StepForward
<1>2. CASE Flag
  <2>1. vectors' = vectors
    BY <1>2 DEF Flag, storeVars
  <2>2. \/ phase' = phase
        \/ apiItem.job \in Job /\ phase[apiItem.job] = "queued" /\ Advance(apiItem.job, "removed")
    BY <1>2 DEF Flag, IInv, Held, Advance
  <2>3. Rank("queued") < Rank("removed")
    BY DEF Rank
  <2>4. CASE phase' = phase
    BY <2>1, <2>4 DEF Forward
  <2> QED BY <1>0, <2>1, <2>2, <2>3, <2>4, StepForward
<1>3. CASE StageFile \/ StageFails \/ Cancel \/ Delete \/ Reprocess \/ RollBack \/ InsertRow \/ CommitCancel
             \/ Signal \/ Purge \/ Erase \/ Reset \/ ReadLink \/ Link
  <2>1. phase' = phase /\ vectors' \subseteq vectors
    BY <1>3 DEF StageFile, StageFails, Cancel, Delete, Reprocess, RollBack, InsertRow, CommitCancel, Signal, Purge,
       Erase, Reset, ReadLink, Link, BestEffort, storeVars, jobVars
  <2> QED BY <2>1 DEF Forward
<1> QED BY <1>1, <1>2, <1>3 DEF ApiStep

LEMMA OtherForward ==
    ASSUME IInv, Pop \/ CleanStep \/ ExpireMarker \/ Restart \/ UNCHANGED vars, NEW j \in Job
    PROVE  Forward(j)
<1>0. phase \in [Job -> Phases]
  BY TypeParts DEF IInv, Basic, JobType
<1>1. CASE Pop
  <2> DEFINE i == Head(queue)
  <2>1. i \in Job /\ phase[i] = "queued"
    BY <1>1, TailQueue, TypeParts DEF Pop, IInv, Basic, JobType, Queued
  <2>2. (Advance(i, "take") \/ Advance(i, "lost")) /\ vectors' = vectors
    BY <1>1 DEF Pop, BestEffort, Advance, storeVars
  <2>3. Rank("queued") < Rank("take") /\ Rank("queued") < Rank("lost")
    BY DEF Rank
  <2> HIDE DEF i
  <2> QED BY <1>0, <2>1, <2>2, <2>3, StepForward
<1>2. CASE CleanStep
  <2>1. phase' = phase /\ vectors' \subseteq vectors
    BY <1>2 DEF CleanStep, CleanLoad, CleanOrphans, BestEffort, storeVars, jobVars
  <2> QED BY <2>1 DEF Forward
<1>3. CASE Restart
  <2>1. /\ phase'[j] = IF phase[j] \in Running THEN "lost" ELSE phase[j]
        /\ vectors' = vectors
    BY <1>3 DEF Restart, storeVars
  <2>2. phase[j] \in Running => Rank(phase[j]) < Rank("lost")
    BY DEF Rank, Running, RecWriting, ItemWriting, Checking
  <2> QED BY <2>1, <2>2 DEF Forward
<1>4. CASE ExpireMarker \/ UNCHANGED vars
  BY <1>4 DEF ExpireMarker, vars, storeVars, jobVars, Forward
<1> QED BY <1>1, <1>2, <1>3, <1>4

\* Whatever fails, and however often the document is processed anew: a job is
\* queued once, taken once and ends once, and the index gains its vectors at
\* most once.  With the fairness of the worker this is why every job ends.
THEOREM EachJobOnce == Spec => JobsGoForward
<1>1. IInv /\ [Next]_vars => [\A j \in Job : Forward(j)]_vars
  BY JobForward, ApiForward, OtherForward DEF Next
<1> QED BY <1>1, Initially, Inductive, PTL DEF Spec, JobsGoForward

-----------------------------------------------------------------------------
(* A document that is gone stays gone                                      *)

\* The endpoint works on a document that has its row.
Tending == {"cancel", "signal", "flag", "purge", "erase", "reset", "reenqueue", "link", "relink"}

EndpointRow ==
    /\ api.op \in {"enqueue", "insert"} => item.life = "no"
    /\ api.op \in Tending => item.life = "yes"
    /\ api.op \in {"insert", "cancel", "reset", "relink"} => apiItem.life = "yes"

\* A copy that a job is about to write back is of a row that was there.
JobCopies ==
    \A j \in mid : /\ phase[j] \in RecWriting \cup ItemWriting
                   /\ phase[j] \in ItemWriting => itemCopy[j].life = "yes"

RowInv == EndpointRow /\ JobCopies

\* What may become of the row, and what of the object and the jobs of a
\* document that is gone.
Final ==
    /\ item.life # "no" => item'.life # "no"
    /\ item.life = "gone" =>
          /\ item' = item /\ (file' => file)
          /\ \A j \in Job : phase[j] = "new" => phase'[j] = "new"

DeletionIsFinal == [][Final]_vars

\* The steps of an endpoint on its row.
LEMMA EndpointRowKept ==
    ASSUME IInv, EndpointRow, StageFile \/ StageFails \/ Cancel \/ Delete \/ Reprocess \/ ApiStep \/ RollBack
    PROVE  EndpointRow' /\ Final
<1>0. api \in Endpoint /\ item \in Item /\ apiItem \in Item
  BY TypeParts DEF IInv, Basic, ApiType, StoreType
<1>1. /\ \A o \in Op : [api EXCEPT !.op = o].op = o
      /\ \A o \in Op, i \in Job : [api EXCEPT !.op = o, !.job = i].op = o
      /\ \A o \in Op, d \in BOOLEAN : [api EXCEPT !.op = o, !.deletes = d].op = o
  BY <1>0 DEF Endpoint
<1>2. Free.op = "free"
  BY DEF Free
<1>3. /\ [item EXCEPT !.life = "gone"].life = "gone"
      /\ NoItem.life = "no" /\ [NoItem EXCEPT !.life = "gone"].life = "gone"
      /\ \A i : [NoItem EXCEPT !.life = "yes", !.job = i].life = "yes"
      /\ [NoItem EXCEPT !.life = "yes", !.status = "failed"].life = "yes"
  BY <1>0 DEF Item, NoItem
<1>4. /\ [apiItem EXCEPT !.status = "failed", !.cancel = TRUE].life = apiItem.life
      /\ [apiItem EXCEPT !.status = "processing", !.cancel = FALSE, !.job = NoJob].life = apiItem.life
      /\ [apiItem EXCEPT !.job = api.job].life = apiItem.life
  BY <1>0 DEF Item
<1> USE <1>0, <1>1, <1>2, <1>3, <1>4
<1>5. CASE StageFile
  BY <1>5 DEF StageFile, EndpointRow, Final, Tending, Op, jobVars
<1>16. CASE StageFails
  BY <1>16 DEF StageFails, EndpointRow, Final, Tending, Op, jobVars
<1>6. CASE Cancel \/ Delete
  <2>1. api'.op \in {"cancel", "signal"} /\ apiItem' = item /\ item.life = "yes"
    BY <1>6 DEF Cancel, Delete, Endpoint
  <2>2. UNCHANGED <<item, file, phase>>
    BY <1>6 DEF Cancel, Delete, storeVars, jobVars
  <2> QED BY <2>1, <2>2 DEF EndpointRow, Final, Tending
<1>7. CASE Reprocess
  BY <1>7 DEF Reprocess, EndpointRow, Final, Tending, Op, jobVars
<1>8. CASE RollBack
  BY <1>8 DEF RollBack, Return, EndpointRow, Final, Tending, Op, jobVars
<1>9. ASSUME NEW j \in Job, EnqueueUpload(j) PROVE EndpointRow' /\ Final
  BY <1>9 DEF EnqueueUpload, EndpointRow, Final, Tending, Op, storeVars
<1>10. ASSUME NEW j \in Job, Reenqueue(j) PROVE EndpointRow' /\ Final
  <2>1. api.op = "reenqueue" /\ UNCHANGED <<item, file>>
    BY <1>10 DEF Reenqueue, storeVars
  <2>2. api'.op = "link" \/ api'.op = "free"
    BY <1>10 DEF Reenqueue, Return, Endpoint
  <2> QED BY <2>1, <2>2 DEF EndpointRow, Final, Tending
<1>11. CASE InsertRow \/ CommitCancel \/ Reset \/ Link
  <2>1. /\ api.op \in {"insert", "cancel", "reset", "relink"}
        /\ item'.life = apiItem.life /\ UNCHANGED <<file, phase>>
    BY <1>11 DEF InsertRow, CommitCancel, Reset, Link, storeVars, jobVars
  <2>2. api'.op \in {"free", "signal", "reenqueue"}
    BY <1>11 DEF InsertRow, CommitCancel, Reset, Link, Return, Endpoint
  <2>3. item.life # "gone"
    BY <2>1 DEF EndpointRow, Tending
  <2>4. item'.life = "yes"
    BY <2>1 DEF EndpointRow
  <2> QED BY <2>2, <2>3, <2>4 DEF EndpointRow, Final, Tending
<1>12. CASE Signal \/ ReadLink
  <2>1. api.op \in Tending /\ UNCHANGED <<item, file, phase>>
    BY <1>12 DEF Signal, ReadLink, Tending, storeVars, jobVars
  <2>2. api'.op = "flag" \/ (api'.op = "relink" /\ apiItem' = item)
    BY <1>12 DEF Signal, ReadLink, Endpoint
  <2> QED BY <2>1, <2>2 DEF EndpointRow, Final, Tending
<1>13. CASE Flag
  BY <1>13 DEF Flag, Return, EndpointRow, Final, Tending, Op, storeVars
<1>14. CASE Purge
  BY <1>14 DEF Purge, BestEffort, EndpointRow, Final, Tending, Op, jobVars
<1>15. CASE Erase
  BY <1>15 DEF Erase, BestEffort, Return, EndpointRow, Final, Tending, Op, storeVars, jobVars
<1> QED BY <1>5, <1>6, <1>7, <1>8, <1>9, <1>10, <1>11, <1>12, <1>13, <1>14, <1>15, <1>16
       DEF ApiStep

\* A job writes its row back only where there is one.
LEMMA JobRow ==
    ASSUME IInv, RowInv, NEW j \in Job, JobStep(j)
    PROVE  item'.life = item.life /\ (item.life = "gone" => item' = item)
<1>0. item \in Item /\ itemCopy \in [Job -> Item]
  BY TypeParts DEF IInv, Basic, StoreType, JobType
<1>1. CASE ItemWrite(j)
  <2>1. itemCopy[j] \in Item /\ itemCopy[j].life = "yes"
    BY <1>0, <1>1 DEF ItemWrite, RowInv, JobCopies
  <2>2. Updated(itemCopy[j], phase[j]).life = "yes"
    BY <2>1 DEF Updated, Item
  <2> QED BY <1>1, <2>2 DEF ItemWrite
<1>2. CASE ~ ItemWrite(j)
  BY <1>2 DEF JobStep, RecRead, RecWrite, RecFails, ItemRead, ItemFails, Check, ParseFails, Insert
<1> QED BY <1>1, <1>2

LEMMA RowElsewhere ==
    ASSUME IInv, RowInv, Pop \/ (\E j \in Job : JobStep(j)) \/ CleanStep \/ ExpireMarker \/ Restart \/ UNCHANGED vars
    PROVE  EndpointRow' /\ Final
<1>0. JobType /\ item \in Item
  BY TypeParts DEF IInv, Basic, StoreType
<1>1. ASSUME NEW j \in Job, JobStep(j) PROVE EndpointRow' /\ Final
  <2>1. item'.life = item.life /\ (item.life = "gone" => item' = item)
    BY <1>1, JobRow
  <2>2. UNCHANGED <<api, apiItem, file>>
    BY <1>1 DEF JobStep, RecRead, RecWrite, RecFails, ItemRead, ItemWrite, ItemFails, Check, ParseFails, Insert, storeVars, apiVars
  <2>3. phase[j] \in Running /\ \A i \in Job : i # j => phase'[i] = phase[i]
    BY <1>0, <1>1 DEF JobStep, RecRead, RecWrite, RecFails, ItemRead, ItemWrite, ItemFails, Check, ParseFails, Insert, BestEffort,
       Advance, Running, JobType
  <2>4. "new" \notin Running
    BY DEF Running, RecWriting, ItemWriting, Checking
  <2> QED BY <2>1, <2>2, <2>3, <2>4 DEF RowInv, EndpointRow, Final
<1>2. CASE Pop
  <2>1. Head(queue) \in Job /\ phase[Head(queue)] = "queued"
    BY <1>2, TailQueue, TypeParts DEF Pop, IInv, Basic, JobType, Queued
  <2>2. \A i \in Job : i # Head(queue) => phase'[i] = phase[i]
    BY <1>0, <1>2 DEF Pop, BestEffort, JobType
  <2>3. UNCHANGED <<item, file, api, apiItem>>
    BY <1>2 DEF Pop, storeVars, apiVars
  <2> QED BY <2>1, <2>2, <2>3 DEF RowInv, EndpointRow, Final
<1>3. CASE CleanStep
  <2>1. UNCHANGED <<item, api, apiItem, phase>> /\ (file' => file \/ live)
    BY <1>3 DEF CleanStep, CleanLoad, CleanOrphans, BestEffort, storeVars, apiVars, jobVars
  <2>2. file' => file
    BY <1>3 DEF CleanStep, CleanLoad, CleanOrphans, BestEffort, storeVars
  <2> QED BY <2>1, <2>2 DEF RowInv, EndpointRow, Final
<1>4. CASE Restart
  <2>1. api'.op = "free" /\ UNCHANGED file
    BY <1>4 DEF Restart, Return, Free, storeVars
  <2>2. item' = item \/ (item'.life = "gone" /\ api.op \in {"enqueue", "insert"})
    BY <1>0, <1>4 DEF Restart, Item
  <2>3. \A i \in Job : phase[i] = "new" => phase'[i] = "new"
    BY <1>4 DEF Restart, Running, RecWriting, ItemWriting, Checking
  <2> QED BY <2>1, <2>2, <2>3 DEF RowInv, EndpointRow, Tending, Final
<1>5. CASE ExpireMarker \/ UNCHANGED vars
  BY <1>5 DEF ExpireMarker, vars, storeVars, apiVars, jobVars, RowInv, EndpointRow, Final
<1> QED BY <1>1, <1>2, <1>3, <1>4, <1>5

\* A job that moves keeps no copy, and a copy is one of a row.
LEMMA JobCopiesKept == ASSUME IInv, RowInv, NEW j \in Job, JobStep(j) PROVE JobCopies'
<1>0. JobType /\ JobCopies
  BY TypeParts DEF IInv, Basic, RowInv
<1>1. \A i \in Job \ {j} : phase'[i] = phase[i] /\ itemCopy'[i] = itemCopy[i] /\ (i \in mid' <=> i \in mid)
  BY <1>0 DEF JobStep, RecRead, RecWrite, RecFails, ItemRead, ItemWrite, ItemFails, Check, ParseFails, Insert, BestEffort,
     Advance, JobType
<1>2. j \in mid' => /\ phase'[j] \in RecWriting \cup ItemWriting
                    /\ phase'[j] \in ItemWriting => itemCopy'[j].life = "yes"
  <2>1. CASE RecRead(j)
    <3>1. phase'[j] \in RecWriting
      BY <2>1 DEF RecRead
    <3> QED BY <3>1 DEF RecWriting, ItemWriting
  <2>2. CASE ItemRead(j)
    BY <1>0, <2>2 DEF ItemRead, JobType
  <2>3. CASE RecWrite(j) \/ RecFails(j) \/ ItemWrite(j) \/ ItemFails(j)
    BY <2>3 DEF RecWrite, RecFails, ItemWrite, ItemFails
  <2>4. CASE Check(j) \/ ParseFails(j) \/ Insert(j)
    <3>1. phase[j] \in Checking \cup {"insert"} \/ j \notin mid
      BY <2>4 DEF Check, ParseFails, Insert
    <3>2. j \notin mid /\ mid' = mid
      BY <1>0, <2>4, <3>1 DEF Check, ParseFails, Insert, JobCopies, Checking, RecWriting, ItemWriting
    <3> QED BY <3>2
  <2> QED BY <2>1, <2>2, <2>3, <2>4 DEF JobStep
<1>3. mid' \subseteq Job
  BY <1>0 DEF JobStep, RecRead, RecWrite, RecFails, ItemRead, ItemWrite, ItemFails, Check, ParseFails, Insert, JobType
<1> QED BY <1>0, <1>1, <1>2, <1>3 DEF JobCopies

LEMMA CopiesElsewhere ==
    ASSUME IInv, JobCopies, [Next]_vars, ~ \E j \in Job : JobStep(j) PROVE JobCopies'
<1>0. JobType
  BY TypeParts DEF IInv, Basic
<1>1. CASE Restart
  BY <1>1 DEF Restart, JobCopies
<1>2. CASE ~ Restart
  <2>1. UNCHANGED <<mid, itemCopy>>
    BY <1>2 DEF Next, vars, jobVars, ApiStep, CleanStep, StageFile, StageFails, Cancel, Delete, Reprocess, RollBack, Pop,
       EnqueueUpload, Reenqueue, InsertRow, CommitCancel, Signal, Flag, Purge, Erase, Reset, ReadLink, Link,
       CleanLoad, CleanOrphans, ExpireMarker
  <2>2. ASSUME NEW i \in Job PROVE phase'[i] = phase[i] \/ phase[i] \in {"new", "queued"}
    <3>1. CASE Pop
      <4>1. Head(queue) \in Job /\ phase[Head(queue)] = "queued"
        BY <3>1, TailQueue, TypeParts DEF Pop, IInv, Basic, JobType, Queued
      <4> QED BY <1>0, <3>1, <4>1 DEF Pop, BestEffort, JobType
    <3>2. CASE \E j \in Job : EnqueueUpload(j) \/ Reenqueue(j)
      <4>1. PICK j \in Job : phase[j] = "new" /\ (EnqueueJob(j) \/ StartThread(j))
        BY <3>2 DEF EnqueueUpload, Reenqueue, Fresh
      <4> QED BY <1>0, <4>1 DEF EnqueueJob, StartThread, JobType
    <3>3. CASE Flag
      <4>1. \/ phase' = phase
            \/ /\ apiItem.job \in Job /\ phase[apiItem.job] = "queued"
               /\ phase' = [phase EXCEPT ![apiItem.job] = "removed"]
        BY <3>3 DEF Flag, IInv, Held
      <4> QED BY <1>0, <4>1 DEF JobType
    <3>4. CASE phase' = phase
      BY <3>4
    <3>5. phase' = phase \/ Pop \/ Flag \/ \E j \in Job : EnqueueUpload(j) \/ Reenqueue(j)
      BY <1>2 DEF Next, vars, jobVars, ApiStep, CleanStep, ExpireMarker, StageFile, StageFails, Cancel, Delete, Reprocess, RollBack,
         InsertRow, CommitCancel, Signal, Purge, Erase, Reset, ReadLink, Link, CleanLoad, CleanOrphans
    <3> QED BY <3>1, <3>2, <3>3, <3>4, <3>5
  <2>3. \A i \in mid : i \in Job /\ phase[i] \notin {"new", "queued"}
    BY <1>0 DEF JobType, JobCopies, RecWriting, ItemWriting
  <2> QED BY <2>1, <2>2, <2>3 DEF JobCopies
<1> QED BY <1>1, <1>2

LEMMA RowInductive == IInv /\ RowInv /\ [Next]_vars => RowInv' /\ Final
<1> SUFFICES ASSUME IInv, RowInv, [Next]_vars PROVE RowInv' /\ Final
  OBVIOUS
<1>1. EndpointRow' /\ Final
  BY EndpointRowKept, RowElsewhere DEF RowInv, Next
<1>2. JobCopies'
  BY JobCopiesKept, CopiesElsewhere DEF RowInv
<1> QED BY <1>1, <1>2 DEF RowInv

LEMMA NoRowYet == Init => RowInv
  BY DEF Init, Free, RowInv, EndpointRow, JobCopies, Tending

\* A document that has been deleted, or whose upload was rolled back, is not
\* brought back: not by a job that still writes its copy of the row, nor by the
\* second write of a reprocessing request; its object does not come back either,
\* and no job is drawn for it.  So what the cleanup has to remove is bounded.
THEOREM NoResurrection == Spec => DeletionIsFinal
<1>1. IInv /\ RowInv /\ [Next]_vars => [Final]_vars
  BY RowInductive
<1>2. Init => IInv /\ RowInv
  BY Initially, NoRowYet
<1>3. IInv /\ RowInv /\ [Next]_vars => (IInv /\ RowInv)'
  BY Inductive, RowInductive
<1> QED BY <1>1, <1>2, <1>3, PTL DEF Spec, DeletionIsFinal

-----------------------------------------------------------------------------
(* Who can take the object of a document                                   *)

\* The cleanup acts on ids that it loaded before the row was there.
StaleCleanup == CleanOrphans /\ ~live /\ (item.life = "yes" \/ api.op \in {"enqueue", "insert"})

\* A deletion has purged the object and does not get to the row: PostgreSQL
\* fails, or the process stops.
HalfDeleted == api.op = "erase" /\ api'.op # "erase" /\ item'.life = "yes"

NeitherHappens == [][~ StaleCleanup /\ ~ HalfDeleted]_vars

FileInv ==
    /\ item.life = "yes" /\ reference => file \/ api.op = "erase"
    /\ api.op \in {"enqueue", "insert"} /\ reference => file

LEMMA ApiKeepsFile ==
    ASSUME IInv, RowInv, FileInv, ~ HalfDeleted, item'.life # "gone",
           StageFile \/ StageFails \/ Cancel \/ Delete \/ Reprocess \/ ApiStep \/ RollBack
    PROVE  FileInv'
<1>0. api \in Endpoint /\ item \in Item /\ EndpointRow
  BY TypeParts DEF IInv, Basic, ApiType, StoreType, RowInv
<1>1. CASE StageFile \/ StageFails
  BY <1>0, <1>1 DEF StageFile, StageFails, FileInv
<1>2. CASE Cancel \/ Delete
  <2>1. api.op = "free" /\ item' = item /\ UNCHANGED <<file, reference>> /\ api'.op \notin {"enqueue", "insert", "erase"}
    BY <1>0, <1>2 DEF Cancel, Delete, storeVars, Endpoint
  <2> QED BY <2>1 DEF FileInv
<1>3. CASE Reprocess
  <2>1. api.op = "free" /\ item' = item /\ UNCHANGED <<file, reference>> /\ api'.op = "reset"
    BY <1>0, <1>3 DEF Reprocess, Endpoint
  <2> QED BY <2>1 DEF FileInv
<1>4. CASE RollBack
  <2>1. item'.life = "gone"
    BY <1>0, <1>4 DEF RollBack, Item
  <2> QED BY <2>1
<1>5. CASE InsertRow
  <2>1. api.op = "insert" /\ UNCHANGED <<file, reference>> /\ api'.op = "free"
    BY <1>5 DEF InsertRow, Return, Free, storeVars
  <2> QED BY <2>1 DEF FileInv
<1>6. CASE \E j \in Job : EnqueueUpload(j)
  <2>1. api.op = "enqueue" /\ UNCHANGED <<file, reference>>
    BY <1>6 DEF EnqueueUpload, storeVars
  <2> QED BY <2>1 DEF FileInv
<1>7. CASE CommitCancel \/ Signal \/ Flag \/ Reset \/ ReadLink \/ Link \/ \E j \in Job : Reenqueue(j)
  <2>1. api.op \in Tending \ {"erase"} /\ UNCHANGED <<file, reference>>
    BY <1>7 DEF CommitCancel, Signal, Flag, Reset, ReadLink, Link, Reenqueue, storeVars, Tending
  <2>2. api'.op \notin {"enqueue", "insert"}
    <3>1. CASE CommitCancel \/ Signal \/ Reset \/ ReadLink
      BY <1>0, <3>1 DEF CommitCancel, Signal, Reset, ReadLink, Endpoint
    <3>2. CASE Flag \/ Link
      BY <1>0, <3>2 DEF Flag, Link, Return, Free, Endpoint
    <3>3. ASSUME NEW j \in Job, Reenqueue(j) PROVE api'.op \notin {"enqueue", "insert"}
      <4>1. api'.op = "link" \/ api' = Free
        BY <1>0, <3>3 DEF Reenqueue, Return, Endpoint
      <4> QED BY <4>1 DEF Free
    <3> QED BY <1>7, <3>1, <3>2, <3>3
  <2> QED BY <1>0, <2>1, <2>2 DEF FileInv, EndpointRow
<1>8. CASE Purge
  <2>1. api'.op = "erase"
    BY <1>0, <1>8 DEF Purge, Endpoint
  <2> QED BY <2>1 DEF FileInv
<1>9. CASE Erase
  <2>1. api.op = "erase" /\ api'.op = "free"
    BY <1>9 DEF Erase, Return, Free
  <2> QED BY <2>1 DEF HalfDeleted, FileInv
<1> QED BY <1>1, <1>2, <1>3, <1>4, <1>5, <1>6, <1>7, <1>8, <1>9 DEF ApiStep

LEMMA OthersKeepFile ==
    ASSUME IInv, RowInv, FileInv, ~ HalfDeleted, ~ StaleCleanup, item'.life # "gone",
           Pop \/ (\E j \in Job : JobStep(j)) \/ CleanStep \/ ExpireMarker \/ Restart \/ UNCHANGED vars
    PROVE  FileInv'
<1>1. ASSUME NEW j \in Job, JobStep(j) PROVE FileInv'
  <2>1. item'.life = item.life
    BY <1>1, JobRow
  <2>2. UNCHANGED <<api, file, reference>>
    BY <1>1 DEF JobStep, RecRead, RecWrite, RecFails, ItemRead, ItemWrite, ItemFails, Check, ParseFails, Insert, storeVars, apiVars
  <2> QED BY <2>1, <2>2 DEF FileInv
<1>2. CASE Pop \/ CleanLoad \/ ExpireMarker \/ UNCHANGED vars
  BY <1>2 DEF Pop, ExpireMarker, CleanLoad, vars, storeVars, apiVars, FileInv
<1>3. CASE CleanOrphans
  <2>1. UNCHANGED <<item, api>> /\ reference' = reference /\ (live => file' = file)
    BY <1>3 DEF CleanOrphans, apiVars
  <2> QED BY <1>3, <2>1 DEF StaleCleanup, FileInv
<1>4. CASE Restart
  <2>1. api'.op = "free" /\ UNCHANGED <<file, reference>>
    BY <1>4 DEF Restart, Return, Free, storeVars
  <2>2. item' = item \/ api.op \in {"enqueue", "insert"}
    BY <1>4 DEF Restart
  <2> QED BY <2>1, <2>2 DEF HalfDeleted, FileInv
<1> QED BY <1>1, <1>2, <1>3, <1>4 DEF CleanStep

LEMMA FileInductive ==
    ASSUME IInv, RowInv, FileInv, [Next]_vars, [~ StaleCleanup /\ ~ HalfDeleted]_vars
    PROVE  FileInv'
<1>1. CASE UNCHANGED vars
  BY <1>1 DEF vars, storeVars, apiVars, FileInv
<1>2. CASE Next /\ ~ StaleCleanup /\ ~ HalfDeleted /\ item'.life # "gone"
  BY <1>2, ApiKeepsFile, OthersKeepFile DEF Next
<1>3. CASE item'.life = "gone"
  <2>1. EndpointRow'
    BY RowInductive DEF RowInv
  <2> QED BY <1>3, <2>1 DEF EndpointRow, FileInv
<1> QED BY <1>1, <1>2, <1>3

\* FileKept does not hold of the code; this says what it takes to break it.  As
\* long as no cleanup acts on ids loaded before an upload, and no deletion
\* stops between the storage and the row, every document whose row refers to an
\* object has it.  (An upload that MinIO refuses leaves a row that refers to
\* none.)
THEOREM OnlyTheseTakeTheObject == Spec /\ NeitherHappens => []FileKept
<1> DEFINE Inv == IInv /\ RowInv /\ FileInv
<1>1. Init => Inv
  BY Initially, NoRowYet DEF Init, NoItem, Free, FileInv
<1>2. Inv /\ [Next]_vars /\ [~ StaleCleanup /\ ~ HalfDeleted]_vars => Inv'
  BY Inductive, RowInductive, FileInductive
<1>3. Inv => FileKept
  BY DEF FileInv, FileKept
<1> HIDE DEF Inv
<1> QED BY <1>1, <1>2, <1>3, PTL DEF Spec, NeitherHappens
=============================================================================
