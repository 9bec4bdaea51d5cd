--------------------- MODULE ConversationRuntimesProofs ---------------------
(***************************************************************************)
(* Theorems about ConversationRuntimes, for every number of turns and      *)
(* releases and any number of snapshots.  The last one says what the loss  *)
(* of a workspace takes: a save that fails, or an archiving cycle that     *)
(* drops a snapshot committed after it had looked for the latest one.      *)
(***************************************************************************)
EXTENDS ConversationRuntimes, WellFoundedInduction, TLAPS

(***************************************************************************)
(* The highest of a set of generations exists, because generations are     *)
(* bounded by MaxGen.                                                      *)
(***************************************************************************)
LEMMA HighestExists ==
    ASSUME NEW S \in SUBSET Gen, S # {}
    PROVE  \E g \in S : \A h \in S : h <= g
<1> DEFINE T == {MaxGen - g : g \in S}
<1>1. T \subseteq Nat /\ T # {}
  <2>1. \A g \in S : MaxGen - g \in Nat
    BY RuntimeAssumption DEF RuntimeAssumption, Gen
  <2>2. PICK g \in S : TRUE
    OBVIOUS
  <2> QED  BY <2>1, <2>2
<1>2. PICK x \in T : \A y \in T : ~ (<<y, x>> \in OpToRel(<, Nat))
  <2> HIDE DEF T
  <2> QED  BY <1>1, NatLessThanWellFounded, WFMin
<1>3. PICK g \in S : x = MaxGen - g
  BY <1>2
<1>4. ASSUME NEW h \in S PROVE h <= g
  <2>1. MaxGen - h \in T /\ MaxGen - h \in Nat /\ x \in Nat
    BY <1>1, <1>2
  <2>2. ~ (MaxGen - h < x)
    BY <1>2, <2>1 DEF OpToRel
  <2> QED  BY <1>3, <2>2, RuntimeAssumption DEF RuntimeAssumption, Gen
<1> QED  BY <1>4

\* Highest(S) is the highest member of S, or 0.
LEMMA HighestIn ==
    ASSUME NEW S \in SUBSET Gen
    PROVE  /\ Highest(S) \in 0..MaxGen
           /\ \A g \in S : g <= Highest(S)
           /\ S # {} => Highest(S) \in S
           /\ S = {} => Highest(S) = 0
<1>1. CASE S = {}
  BY <1>1, RuntimeAssumption DEF Highest, RuntimeAssumption
<1>2. CASE S # {}
  <2>1. \E g \in S : \A h \in S : h <= g
    BY <1>2, HighestExists
  <2>2. /\ Highest(S) \in S
        /\ \A g \in S : g <= Highest(S)
    BY <1>2, <2>1 DEF Highest
  <2>3. Highest(S) \in 1..MaxGen
    BY <2>2 DEF Gen
  <2> QED  BY <1>2, <2>2, <2>3, RuntimeAssumption DEF RuntimeAssumption
<1> QED  BY <1>1, <1>2

(***************************************************************************)
(* What the latest ready row is, in the terms the proofs use.              *)
(***************************************************************************)
LatestIs(s, k) ==
    /\ k \in 0..MaxGen
    /\ k # 0 => s[k] = "ready"
    /\ \A g \in Gen : s[g] = "ready" => g <= k

\* The latest ready row is ready, when there is one.
LEMMA LatestReadyIs ==
    /\ LatestIs(snap, LatestReady)
    /\ Rows("ready") # {} <=> LatestReady # 0
<1>1. Rows("ready") \in SUBSET Gen
  BY DEF Rows
<1>2. /\ LatestReady \in 0..MaxGen
      /\ \A g \in Rows("ready") : g <= LatestReady
      /\ Rows("ready") # {} => LatestReady \in Rows("ready")
      /\ Rows("ready") = {} => LatestReady = 0
  BY <1>1, HighestIn DEF LatestReady
<1> QED  BY <1>2, RuntimeAssumption DEF Rows, LatestIs, Gen, RuntimeAssumption

\* A failed snapshot is recorded on a generation that has no row.
LEMMA LatestRowIs ==
    ASSUME snap \in [Gen -> RowStatus]
    PROVE  /\ LatestRow \in 0..MaxGen
           /\ \A g \in Gen : snap[g] # "none" => g <= LatestRow
<1>1. (Gen \ Rows("none")) \in SUBSET Gen
  BY DEF Rows
<1>2. /\ LatestRow \in 0..MaxGen
      /\ \A g \in Gen \ Rows("none") : g <= LatestRow
  BY <1>1, HighestIn DEF LatestRow
<1> QED  BY <1>2 DEF Rows

-----------------------------------------------------------------------------
(* Types: a turn at work has the runtime it was given                      *)

AtWork == \A t \in Turn : pc[t] \in {"executing", "replied"} => uses[t] \in Turn

TypeInv == TypeOK /\ AtWork

\* Removing a runtime leaves well-formed runtimes.
LEMMA PopType ==
    ASSUME TypeOK, NEW rt, Pop(rt)
    PROVE  /\ reg' \in Turn \cup {None}
           /\ workdir' \subseteq Turn
           /\ sandbox' \subseteq Turn
           /\ swept' \subseteq Turn
           /\ files' \in [Turn -> SUBSET Turn]
BY DEF TypeOK, Pop

LEMMA TypeInit == Init => TypeInv
<1> SUFFICES ASSUME Init PROVE TypeInv
  OBVIOUS
<1>1. NoJob \in Job
  BY RuntimeAssumption DEF NoJob, Job, RuntimeAssumption
<1>2. 1 \in Gen
  BY RuntimeAssumption DEF Gen, RuntimeAssumption
<1>3. snap \in [Gen -> RowStatus] /\ stored \subseteq Gen
  BY <1>2 DEF Init, RowStatus
<1>6. NoCycle \in Cycle
  BY RuntimeAssumption DEF NoCycle, Cycle, RuntimeAssumption
<1>4. TypeOK
  BY <1>1, <1>3, <1>6 DEF Init, TypeOK, TurnPc, ReleasePc, AllReasons
<1>5. AtWork
  BY DEF Init, AtWork, Actor
<1> QED  BY <1>4, <1>5 DEF TypeInv

LEMMA TypeStep == TypeInv /\ [Next]_vars => TypeInv'
<1> SUFFICES ASSUME TypeInv, [Next]_vars PROVE TypeInv'
  OBVIOUS
<1> USE DEF TypeInv, runtimeVars, storeVars, archiveVars
<1>0. NoJob \in Job
  BY RuntimeAssumption DEF NoJob, Job, RuntimeAssumption
<1>9. NoCycle \in Cycle
  BY RuntimeAssumption DEF NoCycle, Cycle, RuntimeAssumption
<1>1. ASSUME NEW t \in Turn, TurnStep(t) PROVE TypeInv'
  <2> t \in Actor
    BY DEF Actor
  <2>1. CASE Reuse(t)
    BY <2>1 DEF Reuse, Enter, Disturb, TypeOK, AtWork, Actor, TurnPc
  <2>2. CASE Create(t)
    BY <2>2 DEF Create, Enter, Disturb, TypeOK, AtWork, Actor, TurnPc
  <2>3. CASE BeginRestore(t)
    <3>1. LatestReady \in 0..MaxGen
      BY LatestReadyIs DEF LatestIs
    <3>2. job[t] \in Job /\ [job[t] EXCEPT !.prev = LatestReady] \in Job
      BY <3>1 DEF TypeOK, Job
    <3>3. job' \in [Actor -> Job]
      BY <2>3, <3>2 DEF BeginRestore, TypeOK
    <3> QED  BY <2>3, <3>3 DEF BeginRestore, Disturb, TypeOK, AtWork, Actor, TurnPc
  <2>4. CASE Restored(t)
    <3>1. archive[job[t].prev] \in SUBSET Turn
      BY <2>4 DEF Restored, TypeOK
    <3> QED  BY <2>4, <1>0, <3>1 DEF Restored, Enter, TypeOK, AtWork, Actor, TurnPc
  <2>5. CASE RestoreFails(t)
    BY <2>5, <1>0 DEF RestoreFails, TypeOK, AtWork, Actor, TurnPc
  <2>6. CASE RejectTurn(t)
    BY <2>6 DEF RejectTurn, Leave, TypeOK, AtWork, Actor, TurnPc
  <2>7. CASE Write(t)
    BY <2>7 DEF Write, TypeOK, AtWork, Actor, TurnPc
  <2>8. CASE Reply(t)
    BY <2>8 DEF Reply, TypeOK, AtWork, Actor, TurnPc
  <2>9. CASE TurnFails(t)
    BY <2>9 DEF TurnFails, Leave, TypeOK, AtWork, Actor, TurnPc
  <2>10. CASE BeginSave(t)
    <3>1. job[t] \in Job /\ [job[t] EXCEPT !.rt = reg] \in Job
      BY DEF TypeOK, Job
    <3>2. job' \in [Actor -> Job]
      BY <2>10, <3>1 DEF BeginSave, TypeOK
    <3> QED  BY <2>10, <3>2 DEF BeginSave, Leave, TypeOK, AtWork, Actor, TurnPc, Saving
  <2> QED  BY <1>1, <2>1, <2>2, <2>3, <2>4, <2>5, <2>6, <2>7, <2>8, <2>9, <2>10 DEF TurnStep
<1>2. ASSUME NEW a \in Actor, SaveStep(a) PROVE TypeInv'
  <2>0. ASSUME AfterSave(a)
        PROVE  /\ reg' \in Turn \cup {None}
               /\ workdir' \subseteq Turn
               /\ sandbox' \subseteq Turn
               /\ swept' \subseteq Turn
               /\ files' \in [Turn -> SUBSET Turn]
               /\ job' \in [Actor -> Job]
               /\ pc' = [pc EXCEPT ![a] = "done"]
    BY <2>0, <1>0, PopType DEF AfterSave, TypeOK
  <2>1. CASE BuildArchive(a)
    <3>1. job' \in [Actor -> Job]
      BY <2>1 DEF BuildArchive, TypeOK, Job
    <3> QED  BY <2>1, <3>1 DEF BuildArchive, TypeOK, AtWork, Actor, TurnPc, Saving
  <2>2. CASE NumberSnapshot(a)
    <3>1. LatestReady \in 0..MaxGen /\ LatestReady + 1 \in Gen
      BY <2>2, LatestReadyIs, RuntimeAssumption DEF LatestIs, NumberSnapshot, Gen, RuntimeAssumption
    <3> HIDE DEF LatestReady
    <3> DEFINE j == [job[a] EXCEPT !.prev = LatestReady, !.gen = LatestReady + 1]
    <3>4. j \in Job /\ job' = [job EXCEPT ![a] = j]
      <4>1. job[a] \in Job /\ job \in [Actor -> Job]
        BY DEF TypeOK
      <4>2. LatestReady + 1 \in 0..MaxGen
        BY <3>1, RuntimeAssumption DEF Gen, RuntimeAssumption
      <4>4. [job[a] EXCEPT !.prev = LatestReady] \in Job
        BY <4>1, <3>1 DEF Job
      <4>5. j \in Job
        BY <4>2, <4>4 DEF Job
      <4>3. job' = [job EXCEPT ![a].prev = LatestReady, ![a].gen = LatestReady + 1]
        BY <2>2 DEF NumberSnapshot
      <4> QED  BY <4>1, <4>5, <4>3 DEF Job
    <3>2. job' \in [Actor -> Job]
      <4> HIDE DEF j
      <4> QED  BY <3>4 DEF TypeOK
    <3>3. stored' \subseteq Gen /\ archive' \in [Gen -> SUBSET Turn]
      BY <2>2, <3>1 DEF NumberSnapshot, TypeOK, Job
    <3> QED  BY <2>2, <3>2, <3>3 DEF NumberSnapshot, TypeOK, AtWork, Actor, TurnPc, Saving
  <2>3. CASE CommitSnapshot(a)
    <3>1. snap' \in [Gen -> RowStatus]
      BY <2>3 DEF CommitSnapshot, Supersede, TypeOK, RowStatus
    <3> QED  BY <2>3, <3>1 DEF CommitSnapshot, TypeOK, AtWork, Actor, TurnPc, Saving
  <2>4. CASE FinishSave(a)
    BY <2>4, <2>0 DEF FinishSave, PrunePrevious, TypeOK, AtWork, Actor, TurnPc
  <2>5. CASE SaveFails(a)
    <3>1. snap' \in [Gen -> RowStatus]
      BY <2>5 DEF SaveFails, RecordFailed, TypeOK, RowStatus
    <3> QED  BY <2>5, <3>1, <2>0 DEF SaveFails, TypeOK, AtWork, Actor, TurnPc
  <2> QED  BY <1>2, <2>1, <2>2, <2>3, <2>4, <2>5 DEF SaveStep
<1>3. ASSUME NEW r \in Releaser, ReleaseStep(r) PROVE TypeInv'
  <2> r \in Actor /\ r \notin Turn
    BY RuntimeAssumption DEF Actor, RuntimeAssumption
  <2>1. ASSUME NEW why \in Reasons, BeginRelease(r, why) PROVE TypeInv'
    BY <2>1, RuntimeAssumption
       DEF BeginRelease, Disturb, TypeOK, AtWork, Actor, ReleasePc, RuntimeAssumption
  <2>2. CASE BeginDelete(r)
    BY <1>9, <2>2 DEF BeginDelete, Rows, Disturb, TypeOK, AtWork, Actor, ReleasePc, RowStatus, AllReasons
  <2>3. CASE Flushed(r)
    <3>1. CASE reg \in dirty /\ reason[r] # "delete"
      <4>1. job' \in [Actor -> Job]
        BY <2>3, <3>1 DEF Flushed, TypeOK, Job
      <4> QED  BY <2>3, <3>1, <4>1 DEF Flushed, TypeOK, AtWork, Actor, ReleasePc, Saving
    <3>2. CASE ~(reg \in dirty /\ reason[r] # "delete")
      <4>1. Pop(reg) /\ EraseDoomed(r)
        BY <2>3, <3>2 DEF Flushed
      <4> QED  BY <2>3, <3>2, <4>1, PopType DEF Flushed, EraseDoomed, TypeOK, AtWork, Actor, ReleasePc
    <3> QED  BY <3>1, <3>2
  <2>4. CASE NothingToRelease(r)
    BY <2>4 DEF NothingToRelease, EraseDoomed, TypeOK, AtWork, Actor, ReleasePc
  <2> QED  BY <1>3, <2>1, <2>2, <2>3, <2>4 DEF ReleaseStep
<1>4. CASE Sweep
  BY <1>4 DEF Sweep, SweepSandbox, SweptElsewhere, TypeOK, AtWork
<1>6. CASE Archive
  <2>1. CASE ArchiveLooks
    <3>1. KeptRow \in 0..MaxGen
      BY LatestReadyIs DEF LatestIs, KeptRow
    <3>2. cycle' \in Cycle
      BY <2>1, <3>1 DEF ArchiveLooks, Cycle
    <3> QED  BY <2>1, <3>2 DEF ArchiveLooks, TypeOK, AtWork
  <2>2. CASE ArchiveLists
    <3>1. cycle' \in Cycle
      BY <2>2 DEF ArchiveLists, Cycle, TypeOK
    <3> QED  BY <2>2, <3>1 DEF ArchiveLists, TypeOK, AtWork
  <2>3. CASE ArchiveDrops
    <3>1. cycle' \in Cycle
      BY <2>3 DEF ArchiveDrops, Cycle, TypeOK
    <3>2. snap' \in [Gen -> RowStatus]
      BY <2>3 DEF ArchiveDrops, TypeOK, RowStatus
    <3>3. late' \in BOOLEAN
      BY <2>3 DEF ArchiveDrops, TypeOK
    <3> QED  BY <2>3, <3>1, <3>2, <3>3 DEF ArchiveDrops, TypeOK, AtWork
  <2>4. CASE ArchiveErases
    BY <1>9, <2>4 DEF ArchiveErases, TypeOK, AtWork
  <2> QED  BY <1>6, <2>1, <2>2, <2>3, <2>4 DEF Archive
<1>7. CASE Restart
  <2>1. pc' \in [Actor -> TurnPc \cup ReleasePc]
    BY <1>7 DEF Restart, TypeOK, TurnPc
  <2>2. \A a \in Actor : pc'[a] \notin {"executing", "replied"}
    BY <1>7 DEF Restart, Ended
  <2> QED  BY <1>7, <1>0, <1>9, <2>1, <2>2 DEF Restart, TypeOK, AtWork, Actor
<1>8. CASE UNCHANGED vars
  BY <1>8 DEF vars, TypeOK, AtWork
<1> QED  BY <1>1, <1>2, <1>3, <1>4, <1>6, <1>7, <1>8 DEF Next

\* TypeOK: every variable keeps its type, and a snapshot its bound.
THEOREM TypeCorrect == Spec => []TypeOK
<1>1. TypeInv => TypeOK
  BY DEF TypeInv
<1> QED  BY <1>1, TypeInit, TypeStep, PTL DEF Spec

-----------------------------------------------------------------------------
(***************************************************************************)
(* The registered runtime.  Its directory and container are its own: what  *)
(* removes a runtime removes the registered one or one that was looked up  *)
(* when it was registered, and nobody has looked up the runtime of a turn  *)
(* that has not yet got one, or is still restoring it.                     *)
(***************************************************************************)
NotYet(t) ==
    /\ reg # t
    /\ \A a \in Actor : job[a].rt # t

Fresh ==
    \A t \in Turn :
        /\ pc[t] \in {"idle", "restoring"} => NotYet(t)
        /\ pc[t] = "restoring" => t \in workdir

LivesInv == RegisteredRuntimeLives /\ Fresh

LEMMA LivesInit == Init => LivesInv
BY RuntimeAssumption
   DEF Init, LivesInv, RegisteredRuntimeLives, Fresh, NotYet, NoJob, Actor, RuntimeAssumption

\* A saver that ends leaves a runtime that is still to come alone.
LEMMA LivesAfterSave ==
    ASSUME TypeInv, LivesInv, NEW a \in Actor, AfterSave(a), pc[a] \in Saving
    PROVE  LivesInv'
<1>1. job' = [job EXCEPT ![a] = NoJob] /\ pc' = [pc EXCEPT ![a] = "done"]
  BY DEF AfterSave
<1>2. CASE a \in Turn
  BY <1>1, <1>2, RuntimeAssumption
     DEF AfterSave, LivesInv, RegisteredRuntimeLives, Fresh, NotYet, NoJob, Actor,
         TypeInv, TypeOK, RuntimeAssumption
<1>3. CASE a \notin Turn
  BY <1>1, <1>3, RuntimeAssumption
     DEF AfterSave, Pop, LivesInv, RegisteredRuntimeLives, Fresh, NotYet, NoJob, Actor,
         TypeInv, TypeOK, RuntimeAssumption
<1> QED  BY <1>2, <1>3

LEMMA LivesStep == TypeInv /\ LivesInv /\ [Next]_vars => LivesInv'
<1> SUFFICES ASSUME TypeInv, LivesInv, [Next]_vars PROVE LivesInv'
  OBVIOUS
<1> USE DEF LivesInv, RegisteredRuntimeLives, Fresh, NotYet, runtimeVars, storeVars, archiveVars
<1>0. /\ None \notin Turn /\ NoJob.rt = None /\ Turn \subseteq Actor
      /\ pc \in [Actor -> TurnPc \cup ReleasePc]
      /\ job \in [Actor -> Job]
  BY RuntimeAssumption DEF TypeInv, TypeOK, RuntimeAssumption, NoJob, Actor
<1>1. ASSUME NEW t \in Turn, TurnStep(t) PROVE LivesInv'
  <2>0. t \in Actor
    BY DEF Actor
  <2>1. CASE Reuse(t)
    BY <2>0, <2>1, <1>0 DEF Reuse, Enter
  <2>2. CASE Create(t)
    BY <2>0, <2>2, <1>0 DEF Create, Enter
  <2>3. CASE BeginRestore(t)
    <3>1. \A a \in Actor : job'[a].rt = job[a].rt
      BY <2>3, <1>0 DEF BeginRestore, Job
    <3> QED  BY <2>0, <2>3, <1>0, <3>1 DEF BeginRestore
  <2>4. CASE Restored(t)
    BY <2>0, <2>4, <1>0 DEF Restored, Enter
  <2>5. CASE RestoreFails(t)
    BY <2>0, <2>5, <1>0 DEF RestoreFails
  <2>6. CASE RejectTurn(t)
    BY <2>0, <2>6, <1>0 DEF RejectTurn
  <2>7. CASE Write(t)
    BY <2>0, <2>7, <1>0 DEF Write
  <2>8. CASE Reply(t)
    BY <2>0, <2>8, <1>0 DEF Reply
  <2>9. CASE TurnFails(t)
    BY <2>0, <2>9, <1>0 DEF TurnFails
  <2>10. CASE BeginSave(t)
    <3>1. \A a \in Actor : job'[a].rt \in {job[a].rt, reg}
      BY <2>10, <1>0 DEF BeginSave, Job
    <3> QED  BY <2>0, <2>10, <1>0, <3>1 DEF BeginSave
  <2> QED  BY <1>1, <2>1, <2>2, <2>3, <2>4, <2>5, <2>6, <2>7, <2>8, <2>9, <2>10 DEF TurnStep
<1>2. ASSUME NEW a \in Actor, SaveStep(a) PROVE LivesInv'
  <2>1. CASE BuildArchive(a)
    <3>1. \A b \in Actor : job'[b].rt = job[b].rt
      BY <2>1, <1>0 DEF BuildArchive, Job
    <3> QED  BY <2>1, <1>0, <3>1 DEF BuildArchive
  <2>2. CASE NumberSnapshot(a)
    <3>1. \A b \in Actor : job'[b].rt = job[b].rt
      BY <2>2, <1>0 DEF NumberSnapshot, Job
    <3> QED  BY <2>2, <1>0, <3>1 DEF NumberSnapshot
  <2>3. CASE CommitSnapshot(a)
    BY <2>3, <1>0 DEF CommitSnapshot
  <2>4. CASE FinishSave(a)
    BY <2>4, LivesAfterSave DEF FinishSave, Saving
  <2>5. CASE SaveFails(a)
    BY <2>5, LivesAfterSave DEF SaveFails, SaveBroken, Saving
  <2> QED  BY <1>2, <2>1, <2>2, <2>3, <2>4, <2>5 DEF SaveStep
<1>3. ASSUME NEW r \in Releaser, ReleaseStep(r) PROVE LivesInv'
  <2>0. r \in Actor /\ r \notin Turn
    BY RuntimeAssumption DEF Actor, RuntimeAssumption
  <2>1. ASSUME NEW why \in Reasons, BeginRelease(r, why) PROVE LivesInv'
    BY <2>0, <2>1, <1>0 DEF BeginRelease
  <2>2. CASE BeginDelete(r)
    BY <2>0, <2>2, <1>0 DEF BeginDelete
  <2>3. CASE Flushed(r)
    <3>1. CASE reg \in dirty /\ reason[r] # "delete"
      <4>1. \A b \in Actor : job'[b].rt \in {job[b].rt, reg}
        BY <2>3, <3>1, <1>0 DEF Flushed, Job
      <4> QED  BY <2>0, <2>3, <3>1, <4>1, <1>0 DEF Flushed
    <3>2. CASE ~(reg \in dirty /\ reason[r] # "delete")
      BY <2>0, <2>3, <3>2, <1>0 DEF Flushed, Pop
    <3> QED  BY <3>1, <3>2
  <2>4. CASE NothingToRelease(r)
    BY <2>0, <2>4, <1>0 DEF NothingToRelease
  <2> QED  BY <1>3, <2>1, <2>2, <2>3, <2>4 DEF ReleaseStep
<1>4. CASE Sweep
  BY <1>4 DEF Sweep, SweepSandbox, SweptElsewhere, Sweepable
<1>6. CASE Archive
  BY <1>6 DEF Archive, ArchiveLooks, ArchiveLists, ArchiveDrops, ArchiveErases
<1>7. CASE Restart
  <2>1. \A t \in Turn : pc'[t] \in {"idle", "restoring"} => pc[t] = "idle" /\ pc'[t] = "idle"
    BY <1>7, <1>0 DEF Restart, Ended
  <2> QED  BY <1>7, <1>0, <2>1 DEF Restart
<1>8. CASE UNCHANGED vars
  BY <1>8 DEF vars
<1> QED  BY <1>1, <1>2, <1>3, <1>4, <1>6, <1>7, <1>8 DEF Next

(***************************************************************************)
(* RegisteredRuntimeLives: the runtime handed to the next request has its  *)
(* directory and its container.                                            *)
(***************************************************************************)
THEOREM RegisteredLives == Spec => []RegisteredRuntimeLives
<1>1. LivesInv => RegisteredRuntimeLives
  BY DEF LivesInv
<1> QED  BY <1>1, TypeInit, TypeStep, LivesInit, LivesStep, PTL DEF Spec

-----------------------------------------------------------------------------
(***************************************************************************)
(* The endpoint's check.  A turn at work is marked, so no release by the   *)
(* user starts while it works; one that found no release under way keeps   *)
(* finding none until a deletion or the idle timeout starts one.           *)
(***************************************************************************)
Unforced == \A r \in Releaser : reason[r] \notin {"expired", "delete"}

GuardInv ==
    \A t \in Turn : pc[t] = "executing" =>
        /\ t \in marked
        /\ racing[t] = {} /\ Unforced =>
               /\ uses[t] \in workdir
               /\ \A r \in Releaser : ~UnderWay(r)

LEMMA GuardInit == Init => GuardInv
BY DEF Init, GuardInv, Actor

\* A saver that ends removes a runtime only when it is a release.
LEMMA GuardAfterSave ==
    ASSUME TypeInv, GuardInv, NEW a \in Actor, AfterSave(a), pc[a] \in Saving,
           UNCHANGED <<marked, uses, racing, reason>>
    PROVE  GuardInv'
<1>1. pc' = [pc EXCEPT ![a] = "done"] /\ pc \in [Actor -> TurnPc \cup ReleasePc]
  BY DEF AfterSave, TypeInv, TypeOK
<1>2. CASE a \in Turn
  BY <1>1, <1>2 DEF AfterSave, GuardInv, Unforced, UnderWay, Ended, Actor
<1>3. CASE a \notin Turn
  <2>1. a \in Releaser /\ UnderWay(a)
    BY <1>3 DEF Actor, UnderWay, Ended, Saving
  <2> QED  BY <1>1, <1>3, <2>1 DEF GuardInv, Unforced, UnderWay, Ended, Actor
<1> QED  BY <1>2, <1>3

LEMMA GuardStep == TypeInv /\ LivesInv /\ GuardInv /\ [Next]_vars => GuardInv'
<1> SUFFICES ASSUME TypeInv, LivesInv, GuardInv, [Next]_vars PROVE GuardInv'
  OBVIOUS
<1> USE DEF GuardInv, Unforced, runtimeVars, storeVars, archiveVars
<1>0. /\ Turn \subseteq Actor /\ Releaser \subseteq Actor
      /\ Turn \cap Releaser = {}
      /\ pc \in [Actor -> TurnPc \cup ReleasePc]
      /\ uses \in [Turn -> Turn \cup {None}]
      /\ racing \in [Turn -> SUBSET Releaser]
      /\ reason \in [Releaser -> AllReasons \cup {"none"}]
      /\ reg # None => reg \in workdir
  BY RuntimeAssumption
     DEF TypeInv, TypeOK, RuntimeAssumption, Actor, LivesInv, RegisteredRuntimeLives
<1>1. ASSUME NEW t \in Turn, TurnStep(t) PROVE GuardInv'
  <2>0. t \in Actor /\ t \notin Releaser
    BY <1>0
  <2>1. CASE Reuse(t)
    BY <2>0, <2>1, <1>0 DEF Reuse, Enter, UnderWay
  <2>2. CASE Create(t)
    BY <2>0, <2>2, <1>0 DEF Create, Enter, UnderWay
  <2>3. CASE BeginRestore(t)
    BY <2>0, <2>3, <1>0 DEF BeginRestore, UnderWay
  <2>4. CASE Restored(t)
    BY <2>0, <2>4, <1>0 DEF Restored, Enter, UnderWay, LivesInv, Fresh
  <2>5. CASE RestoreFails(t)
    BY <2>0, <2>5, <1>0 DEF RestoreFails, UnderWay
  <2>6. CASE RejectTurn(t)
    BY <2>0, <2>6, <1>0 DEF RejectTurn, Leave, UnderWay
  <2>7. CASE Write(t)
    BY <2>0, <2>7, <1>0 DEF Write, UnderWay
  <2>8. CASE Reply(t)
    BY <2>0, <2>8, <1>0 DEF Reply, UnderWay
  <2>9. CASE TurnFails(t)
    BY <2>0, <2>9, <1>0 DEF TurnFails, Leave, UnderWay
  <2>10. CASE BeginSave(t)
    BY <2>0, <2>10, <1>0 DEF BeginSave, Leave, UnderWay
  <2> QED  BY <1>1, <2>1, <2>2, <2>3, <2>4, <2>5, <2>6, <2>7, <2>8, <2>9, <2>10 DEF TurnStep
<1>2. ASSUME NEW a \in Actor, SaveStep(a) PROVE GuardInv'
  <2>1. CASE BuildArchive(a)
    BY <2>1, <1>0 DEF BuildArchive, UnderWay, Ended
  <2>2. CASE NumberSnapshot(a)
    BY <2>2, <1>0 DEF NumberSnapshot, UnderWay, Ended
  <2>3. CASE CommitSnapshot(a)
    BY <2>3, <1>0 DEF CommitSnapshot, UnderWay, Ended
  <2>4. CASE FinishSave(a)
    BY <2>4, GuardAfterSave DEF FinishSave, Saving
  <2>5. CASE SaveFails(a)
    BY <2>5, GuardAfterSave DEF SaveFails, SaveBroken, Saving
  <2> QED  BY <1>2, <2>1, <2>2, <2>3, <2>4, <2>5 DEF SaveStep
<1>3. ASSUME NEW r \in Releaser, ReleaseStep(r) PROVE GuardInv'
  <2>0. r \in Actor /\ r \notin Turn
    BY <1>0
  <2>1. ASSUME NEW why \in Reasons, BeginRelease(r, why) PROVE GuardInv'
    <3>1. CASE why = "user"
      BY <2>0, <2>1, <3>1, <1>0 DEF BeginRelease, UserMayRelease
    <3>2. CASE why = "expired"
      BY <2>0, <2>1, <3>2, <1>0 DEF BeginRelease
    <3> QED  BY <2>1, <3>1, <3>2 DEF BeginRelease
  <2>2. CASE BeginDelete(r)
    BY <2>0, <2>2, <1>0 DEF BeginDelete
  <2>3. CASE Flushed(r)
    <3>1. UnderWay(r)
      BY <2>3 DEF Flushed, UnderWay, Ended
    <3> QED  BY <2>0, <2>3, <3>1, <1>0 DEF Flushed
  <2>4. CASE NothingToRelease(r)
    BY <2>0, <2>4, <1>0 DEF NothingToRelease, UnderWay, Ended
  <2> QED  BY <1>3, <2>1, <2>2, <2>3, <2>4 DEF ReleaseStep
<1>4. CASE Sweep
  BY <1>4 DEF Sweep, SweepSandbox, SweptElsewhere, UnderWay
<1>6. CASE Archive
  BY <1>6 DEF Archive, ArchiveLooks, ArchiveLists, ArchiveDrops, ArchiveErases, UnderWay
<1>7. CASE Restart
  <2>1. \A t \in Turn : pc'[t] # "executing"
    BY <1>7, <1>0 DEF Restart, Ended
  <2> QED  BY <2>1
<1>8. CASE UNCHANGED vars
  BY <1>8 DEF vars, UnderWay
<1> QED  BY <1>1, <1>2, <1>3, <1>4, <1>6, <1>7, <1>8 DEF Next

(***************************************************************************)
(* GuardedRelease: a turn loses its directory only to a deletion, to the   *)
(* idle timeout, or to a release that was past the check when the turn got *)
(* its runtime.                                                            *)
(***************************************************************************)
THEOREM ReleasesAreGuarded == Spec => []GuardedRelease
<1>1. GuardInv => GuardedRelease
  BY DEF GuardInv, Unforced, GuardedRelease
<1> QED  BY <1>1, TypeInit, TypeStep, LivesInit, LivesStep, GuardInit, GuardStep, PTL DEF Spec

-----------------------------------------------------------------------------
(***************************************************************************)
(* The snapshot rows.  A saver between its upload and its commit holds the *)
(* number after the row it read; were its archive pruned meanwhile, a      *)
(* newer row is ready.  Without archiving, the rows are superseded below   *)
(* the latest ready one and absent or failed above it.                     *)
(***************************************************************************)
Gone == deleted => \A g \in Gen : snap[g] = "none"

Numbered == \A a \in Actor : pc[a] \in {"commit", "prune"} =>
                                 job[a].gen \in Gen /\ job[a].gen = job[a].prev + 1

Kept == ~deleted /\ ~late =>
    /\ \A g \in Gen : snap[g] = "superseded" => g <= LatestReady
    /\ LatestReady # 0 => LatestReady \in stored
    /\ \A a \in Actor :
        /\ pc[a] = "commit" /\ job[a].gen \notin stored => job[a].gen <= LatestReady
        /\ pc[a] = "prune" => job[a].gen <= LatestReady

Chain == ~archived /\ ~deleted =>
    /\ \A g \in Gen : /\ g < LatestReady => snap[g] = "superseded"
                      /\ g > LatestReady => snap[g] \in {"none", "failed"}
    /\ \A a \in Actor : pc[a] = "commit" =>
            \/ job[a].prev = 0
            \/ snap[job[a].prev] \in {"ready", "superseded"}

\* An archiving cycle that has not committed keeps a row no newer than the
\* latest ready one; one that has erases only what is older.
Cycled ==
    /\ cycle.at \in {"rows", "drop"} => ~deleted /\ cycle.keep <= LatestReady
    /\ cycle.at = "drop" => /\ cycle.keep \notin cycle.drop
                            /\ \A g \in cycle.drop : snap[g] # "none"
    /\ cycle.at = "erase" /\ ~deleted /\ ~late => \A g \in cycle.drop : g < LatestReady

SnapInv == Gone /\ Numbered /\ Kept /\ Chain /\ Cycled

\* Generations are numbers.
LEMMA GenNat == MaxGen \in Nat /\ Gen = 1..MaxGen /\ \A g \in Gen : g \in Nat
BY RuntimeAssumption DEF RuntimeAssumption, Gen

\* The latest ready row after a step.
LEMMA LatestReadyNext ==
    /\ LatestIs(snap, LatestReady)
    /\ LatestIs(snap', LatestReady')
<1>1. LatestIs(snap, LatestReady)
  BY LatestReadyIs
<1>2. (LatestIs(snap, LatestReady))'
  BY <1>1, PTL
<1> QED  BY <1>1, <1>2

LEMMA LatestReadySame == snap' = snap => LatestReady' = LatestReady
BY DEF LatestReady, Rows

LEMMA SnapInit == Init => SnapInv
<1> SUFFICES ASSUME Init PROVE SnapInv
  OBVIOUS
<1>1. /\ \A a \in Actor : pc[a] = "idle"
      /\ deleted = FALSE
  BY DEF Init
<1>5. cycle.at = "idle"
  BY DEF Init, NoCycle
<1>4. \A g \in Gen : snap[g] # "none" => g = 1 /\ snap[g] = "ready" /\ stored = {1}
  <2>1. CASE snap = [g \in Gen |-> "none"]
    BY <2>1
  <2>2. CASE snap # [g \in Gen |-> "none"]
    BY <2>2 DEF Init
  <2> QED  BY <2>1, <2>2
<1>2. LatestIs(snap, LatestReady)
  BY LatestReadyIs
<1>3. LatestReady # 0 => LatestReady = 1 /\ stored = {1}
  <2> HIDE DEF LatestReady
  <2> QED  BY <1>4, <1>2, GenNat DEF LatestIs
<1> HIDE DEF LatestReady
<1> QED  BY <1>1, <1>2, <1>3, <1>4, <1>5, GenNat DEF SnapInv, Gone, Numbered, Kept, Chain, Cycled, LatestIs

(***************************************************************************)
(* Steps that leave the rows and the object store alone, and after which   *)
(* whoever is about to commit or prune was so before.                      *)
(***************************************************************************)
LEMMA SnapIdle ==
    ASSUME TypeInv, SnapInv, UNCHANGED <<snap, stored, deleted, archiveVars>>,
           \A a \in Actor : pc'[a] \in {"commit", "prune"} =>
                                pc'[a] = pc[a] /\ job'[a] = job[a]
    PROVE  SnapInv'
<1>1. LatestReady' = LatestReady
  BY LatestReadySame
<1> HIDE DEF LatestReady
<1> QED  BY <1>1 DEF SnapInv, Gone, Numbered, Kept, Chain, Cycled, archiveVars

\* A failed row is put where there is no row, and is not ready.
LEMMA SnapFailedKeeps ==
    ASSUME TypeInv, ~deleted, RecordFailed, LatestRow < MaxGen
    PROVE  LatestReady' = LatestReady
<1> DEFINE f == LatestRow + 1
<1>1. f \in Gen /\ snap[f] = "none"
  BY LatestRowIs, GenNat DEF TypeInv, TypeOK
<1>2. /\ \A g \in Gen : g # f => snap'[g] = snap[g]
      /\ snap'[f] = "failed"
  BY <1>1 DEF RecordFailed, TypeInv, TypeOK
<1> HIDE DEF f, LatestReady
<1>3. /\ LatestReady \in 0..MaxGen /\ LatestReady' \in 0..MaxGen
      /\ \A g \in Gen : snap'[g] = "ready" <=> snap[g] = "ready"
  BY <1>1, <1>2, LatestReadyNext DEF LatestIs
<1> QED  BY <1>3, LatestReadyNext, GenNat DEF LatestIs

\* A failed snapshot adds a row that is not ready.
LEMMA SnapFailed ==
    ASSUME TypeInv, SnapInv, RecordFailed, deleted \/ LatestRow < MaxGen,
           UNCHANGED <<stored, deleted, archiveVars>>,
           \A a \in Actor : pc'[a] \in {"commit", "prune"} =>
                                pc'[a] = pc[a] /\ job'[a] = job[a]
    PROVE  SnapInv'
<1>1. CASE deleted
  BY <1>1, SnapIdle DEF RecordFailed
<1>2. CASE ~deleted
  <2> DEFINE f == LatestRow + 1
  <2>1. f \in Gen /\ snap[f] = "none" /\ \A g \in Gen : snap[g] # "none" => g < f
    BY <1>2, LatestRowIs, GenNat DEF TypeInv, TypeOK
  <2>2. /\ \A g \in Gen : g # f => snap'[g] = snap[g]
        /\ snap'[f] = "failed"
    BY <1>2, <2>1 DEF RecordFailed, TypeInv, TypeOK
  <2> HIDE DEF f
  <2>3. LatestReady' = LatestReady
    BY <1>2, SnapFailedKeeps
  <2> HIDE DEF LatestReady
  <2>4. \A a \in Actor : pc[a] = "commit" => job[a].prev = 0 \/ job[a].prev \in Gen
    BY GenNat DEF SnapInv, Numbered, TypeInv, TypeOK, Job
  <2>7. cycle.drop \subseteq Gen /\ \A h \in Gen : snap[h] # "none" => snap'[h] # "none"
    BY <2>2 DEF TypeInv, TypeOK, Cycle
  <2>5. Gone' /\ Numbered' /\ Cycled'
    BY <1>2, <2>3, <2>7 DEF SnapInv, Gone, Numbered, Cycled, archiveVars
  <2>6. Kept' /\ Chain'
    BY <1>2, <2>1, <2>2, <2>3, <2>4, GenNat, LatestReadyNext
       DEF SnapInv, Kept, Chain, LatestIs, archiveVars
  <2> QED  BY <2>5, <2>6 DEF SnapInv
<1> QED  BY <1>1, <1>2

(***************************************************************************)
(* The insert: the number follows the row that was read, so the new row is *)
(* ready and newer than every superseded one unless a newer one is ready.  *)
(***************************************************************************)
LEMMA SnapCommit ==
    ASSUME TypeInv, SnapInv, NEW a \in Actor, CommitSnapshot(a)
    PROVE  /\ SnapInv' /\ LatestReady' >= LatestReady
           /\ LatestReady' = job[a].gen \/ LatestReady' = LatestReady
           /\ LatestReady' >= job[a].gen
<1> DEFINE g == job[a].gen
           p == job[a].prev
<1>1. /\ g \in Gen /\ g = p + 1 /\ p \in 0..MaxGen
      /\ ~deleted /\ ~deleted' /\ stored' = stored /\ job' = job
      /\ archived' = archived /\ late' = late /\ cycle' = cycle
      /\ snap[g] = "none"
      /\ pc[a] = "commit"
      /\ \A b \in Actor : pc'[b] = IF b = a THEN "prune" ELSE pc[b]
  BY DEF CommitSnapshot, SnapInv, Numbered, TypeInv, TypeOK, Job, storeVars, archiveVars
<1>2. \A h \in Gen : snap'[h] = IF h = g THEN "ready" ELSE IF h = p THEN "superseded" ELSE snap[h]
  BY DEF CommitSnapshot, Supersede
<1>3. LatestReady \in 0..MaxGen /\ LatestReady' \in 0..MaxGen
  BY LatestReadyNext DEF LatestIs
<1>4. /\ LatestIs(snap, LatestReady)
      /\ LatestIs(snap', LatestReady')
  BY LatestReadyNext
<1> HIDE DEF g, p, LatestReady
<1>5. /\ LatestReady' >= g
      /\ LatestReady' >= LatestReady
      /\ LatestReady' = g \/ LatestReady' = LatestReady
  <2>1. LatestReady' >= g
    BY <1>1, <1>2, <1>4 DEF LatestIs
  <2>2. LatestReady' >= LatestReady
    BY <1>1, <1>2, <1>3, <1>4, <2>1, GenNat DEF LatestIs
  <2>3. CASE LatestReady' # g
    <3>1. LatestReady' \in Gen /\ snap'[LatestReady'] = "ready"
      BY <1>1, <1>3, <1>4, <2>1, GenNat DEF LatestIs
    <3>2. snap[LatestReady'] = "ready"
      BY <1>2, <2>3, <3>1
    <3> QED  BY <1>3, <1>4, <2>1, <2>2, <3>1, <3>2, GenNat DEF LatestIs
  <2> QED  BY <2>1, <2>2, <2>3
<1>6. Gone' /\ Numbered'
  BY <1>1 DEF SnapInv, Gone, Numbered
<1>7. Kept'
  <2> SUFFICES ASSUME ~late PROVE Kept'
    BY <1>1 DEF Kept
  <2>1. \A h \in Gen : snap'[h] = "superseded" => h <= LatestReady'
    BY <1>1, <1>2, <1>3, <1>5, GenNat DEF SnapInv, Kept
  <2>2. LatestReady' # 0 => LatestReady' \in stored
    <3>1. CASE LatestReady' = LatestReady
      BY <3>1, <1>1 DEF SnapInv, Kept
    <3>2. CASE LatestReady' = g /\ g # LatestReady
      <4>1. g \notin stored => g <= LatestReady
        BY <1>1 DEF SnapInv, Kept, g
      <4> QED  BY <1>1, <1>3, <1>5, <3>2, <4>1, GenNat
    <3> QED  BY <1>5, <3>1, <3>2
  <2>3. ASSUME NEW b \in Actor
        PROVE  /\ pc'[b] = "commit" /\ job'[b].gen \notin stored' => job'[b].gen <= LatestReady'
               /\ pc'[b] = "prune" => job'[b].gen <= LatestReady'
    <3>1. CASE b = a
      BY <3>1, <1>1, <1>5, <1>3, GenNat DEF g
    <3>2. CASE b # a
      <4>1. pc'[b] \in {"commit", "prune"} => job[b].gen \in Nat
        BY <1>1, <3>2, GenNat DEF SnapInv, Numbered
      <4>2. /\ pc[b] = "commit" /\ job[b].gen \notin stored => job[b].gen <= LatestReady
            /\ pc[b] = "prune" => job[b].gen <= LatestReady
        BY <1>1 DEF SnapInv, Kept
      <4> QED  BY <1>1, <1>3, <1>5, <3>2, <4>1, <4>2, GenNat
    <3> QED  BY <3>1, <3>2
  <2> QED  BY <1>1, <2>1, <2>2, <2>3 DEF Kept
<1>8. Chain'
  <2> SUFFICES ASSUME ~archived PROVE Chain'
    BY <1>1 DEF Chain
  <2>1. /\ \A h \in Gen : /\ h < LatestReady => snap[h] = "superseded"
                          /\ h > LatestReady => snap[h] \in {"none", "failed"}
        /\ p = 0 \/ snap[p] \in {"ready", "superseded"}
        /\ \A b \in Actor : pc[b] = "commit" =>
                job[b].prev = 0 \/ snap[job[b].prev] \in {"ready", "superseded"}
    BY <1>1 DEF SnapInv, Chain, p
  <2>2. p = LatestReady
    BY <1>1, <1>3, <1>4, <2>1, GenNat DEF LatestIs
  <2>3. LatestReady' = g
    BY <1>1, <1>3, <1>5, <2>2, GenNat
  <2>4. \A b \in Actor : pc[b] = "commit" => job[b].prev = 0 \/ job[b].prev \in Gen
    BY GenNat DEF SnapInv, Numbered, TypeInv, TypeOK, Job
  <2>5. \A b \in Actor : pc'[b] = "commit" =>
            job'[b].prev = 0 \/ snap'[job'[b].prev] \in {"ready", "superseded"}
    BY <1>1, <1>2, <2>1, <2>4
  <2>6. \A h \in Gen : /\ h < g => snap'[h] = "superseded"
                       /\ h > g => snap'[h] \in {"none", "failed"}
    BY <1>1, <1>2, <2>1, <2>2, GenNat
  <2> QED  BY <2>3, <2>5, <2>6 DEF Chain
<1>9. Cycled'
  <2>1. cycle.keep \in Nat /\ cycle.drop \in SUBSET Nat
    BY GenNat DEF TypeInv, TypeOK, Cycle
  <2>2. \A h \in Gen : snap[h] # "none" => snap'[h] # "none"
    BY <1>2
  <2>3. cycle.drop \subseteq Gen
    BY DEF TypeInv, TypeOK, Cycle
  <2> QED  BY <1>1, <1>3, <1>5, <2>1, <2>2, <2>3 DEF SnapInv, Cycled
<1> QED  BY <1>5, <1>6, <1>7, <1>8, <1>9 DEF SnapInv, g

\* The upload under the next number.
LEMMA SnapNumber ==
    ASSUME TypeInv, SnapInv, NEW a \in Actor, NumberSnapshot(a)
    PROVE  SnapInv'
<1> DEFINE g == LatestReady + 1
<1>1. /\ g \in Gen /\ LatestReady \in 0..MaxGen
      /\ LatestReady # 0 => snap[LatestReady] = "ready"
  BY LatestReadyNext, GenNat DEF NumberSnapshot, LatestIs
<1>2. /\ ~deleted /\ deleted' = deleted /\ snap' = snap
      /\ archived' = archived /\ late' = late /\ cycle' = cycle
      /\ stored' = stored \cup {g}
      /\ pc'[a] = "commit"
      /\ \A b \in Actor : b # a => pc'[b] = pc[b] /\ job'[b] = job[b]
  BY DEF NumberSnapshot, TypeInv, TypeOK, archiveVars
<1>3. job'[a].gen = g /\ job'[a].prev = LatestReady
  <2> HIDE DEF LatestReady
  <2>1. job[a] \in Job /\ job' = [job EXCEPT ![a].prev = LatestReady, ![a].gen = g]
    BY DEF NumberSnapshot, TypeInv, TypeOK
  <2> QED  BY <2>1 DEF Job, TypeInv, TypeOK
<1>4. LatestReady' = LatestReady
  BY <1>2, LatestReadySame
<1> HIDE DEF g, LatestReady
<1>5. g = LatestReady + 1
  BY DEF g
<1>6. Gone' /\ Numbered' /\ Cycled'
  BY <1>1, <1>2, <1>3, <1>4, <1>5 DEF SnapInv, Gone, Numbered, Cycled
<1>7. Kept'
  BY <1>1, <1>2, <1>3, <1>4 DEF SnapInv, Kept
<1>8. Chain'
  BY <1>1, <1>2, <1>3, <1>4 DEF SnapInv, Chain
<1> QED  BY <1>6, <1>7, <1>8 DEF SnapInv

\* The archive that is pruned is older than the latest ready one.
LEMMA SnapPrune ==
    ASSUME TypeInv, SnapInv, NEW a \in Actor, FinishSave(a)
    PROVE  SnapInv'
<1> DEFINE p == job[a].prev
<1>1. /\ deleted' = deleted /\ snap' = snap
      /\ archived' = archived /\ late' = late /\ cycle' = cycle
      /\ stored' = stored \ {p}
      /\ pc[a] = "prune" /\ pc'[a] = "done"
      /\ \A b \in Actor : b # a => pc'[b] = pc[b] /\ job'[b] = job[b]
  BY DEF FinishSave, PrunePrevious, AfterSave, TypeInv, TypeOK, archiveVars
<1>2. p \in 0..MaxGen /\ (~deleted /\ ~late => p < LatestReady) /\ LatestReady \in 0..MaxGen
  BY <1>1, GenNat, LatestReadyNext DEF SnapInv, Numbered, Kept, TypeInv, TypeOK, Job, LatestIs
<1>3. LatestReady' = LatestReady
  BY <1>1, LatestReadySame
<1> HIDE DEF p, LatestReady
<1>4. Gone' /\ Numbered' /\ Chain' /\ Cycled'
  BY <1>1, <1>3 DEF SnapInv, Gone, Numbered, Chain, Cycled
<1>5. Kept'
  BY <1>1, <1>2, <1>3, GenNat DEF SnapInv, Kept
<1> QED  BY <1>4, <1>5 DEF SnapInv

\* Archiving keeps the latest ready row and its archive, unless that row was
\* committed after it had looked: looking and listing ...
LEMMA SnapArchiveReads ==
    ASSUME TypeInv, SnapInv, ArchiveLooks \/ ArchiveLists
    PROVE  SnapInv' /\ LatestReady' = LatestReady
<1>1. /\ UNCHANGED <<snap, stored, deleted, archived, late, pc, job>>
      /\ cycle \in Cycle
  BY DEF ArchiveLooks, ArchiveLists, storeVars, TypeInv, TypeOK
<1>2. LatestReady' = LatestReady
  BY <1>1, LatestReadySame
<1>3. cycle'.at \in {"rows", "drop"} /\ ~deleted
  <2>1. CASE ArchiveLooks
    BY <2>1 DEF ArchiveLooks
  <2>2. CASE ArchiveLists
    <3>1. cycle.at = "rows" /\ cycle'.at = "drop"
      BY <1>1, <2>2 DEF ArchiveLists, Cycle
    <3> QED  BY <3>1 DEF SnapInv, Cycled
  <2> QED  BY <2>1, <2>2
<1>4. cycle'.keep <= LatestReady
  <2>1. CASE ArchiveLooks
    <3>1. cycle'.keep = LatestReady /\ LatestReady \in Nat
      BY <2>1, LatestReadyNext, GenNat DEF ArchiveLooks, KeptRow, LatestIs
    <3> HIDE DEF LatestReady
    <3> QED  BY <3>1
  <2>2. CASE ArchiveLists
    <3>1. cycle'.keep = cycle.keep /\ cycle.at = "rows"
      BY <1>1, <2>2 DEF ArchiveLists, Cycle
    <3> QED  BY <3>1 DEF SnapInv, Cycled
  <2> QED  BY <2>1, <2>2
<1>5. cycle'.at = "drop" => /\ cycle'.keep \notin cycle'.drop
                            /\ \A g \in cycle'.drop : snap[g] # "none"
  <2>1. CASE ArchiveLooks
    BY <2>1 DEF ArchiveLooks
  <2>2. CASE ArchiveLists
    <3>1. cycle'.keep = cycle.keep /\ cycle'.drop = Gen \ (Rows("none") \cup {cycle.keep})
      BY <1>1, <2>2 DEF ArchiveLists, Cycle
    <3> QED  BY <3>1 DEF Rows
  <2> QED  BY <2>1, <2>2
<1> HIDE DEF LatestReady
<1>6. Gone' /\ Numbered' /\ Kept' /\ Chain'
  BY <1>1, <1>2 DEF SnapInv, Gone, Numbered, Kept, Chain
<1>7. Cycled'
  BY <1>1, <1>2, <1>3, <1>4, <1>5 DEF Cycled
<1> QED  BY <1>2, <1>6, <1>7 DEF SnapInv

\* ... dropping: what is dropped is older than the latest ready row ...
LEMMA SnapArchiveDrops ==
    ASSUME TypeInv, SnapInv, ArchiveDrops
    PROVE  SnapInv' /\ (~LateDrop => LatestReady' = LatestReady)
<1> DEFINE drop == cycle.drop
           keep == cycle.keep
<1>1. /\ ~deleted /\ UNCHANGED <<stored, deleted, pc, job>>
      /\ archived' /\ late' = (late \/ NewerListed)
      /\ \A g \in Gen : snap'[g] = IF g \in drop THEN "none" ELSE snap[g]
      /\ cycle'.at = "erase" /\ cycle'.drop = drop \ Rows("failed")
      /\ drop \subseteq Gen /\ keep \in 0..MaxGen /\ keep \notin drop /\ keep <= LatestReady
      /\ \A g \in drop : snap[g] # "none"
  BY DEF ArchiveDrops, SnapInv, Cycled, Cycle, TypeInv, TypeOK
<1>2. ~NewerListed => \A g \in drop : snap[g] = "ready" => g < keep
  BY <1>1, GenNat DEF NewerListed
<1>3. LatestIs(snap, LatestReady) /\ LatestIs(snap', LatestReady')
  BY LatestReadyNext
<1> HIDE DEF LatestReady, drop, keep
<1>4. ~NewerListed => LatestReady \notin drop
  BY <1>1, <1>2, <1>3, GenNat DEF LatestIs
<1>5. ~NewerListed => LatestReady' = LatestReady
  BY <1>1, <1>3, <1>4, GenNat DEF LatestIs
<1>6. ~LateDrop => ~NewerListed
  BY DEF LateDrop
<1>7. Gone' /\ Numbered' /\ Chain'
  BY <1>1 DEF SnapInv, Gone, Numbered, Chain
<1>8. Kept'
  <2> SUFFICES ASSUME ~late, ~NewerListed PROVE Kept'
    BY <1>1 DEF Kept
  <2>1. \A g \in Gen : snap'[g] = "superseded" => snap[g] = "superseded"
    BY <1>1
  <2> QED  BY <1>1, <1>5, <2>1 DEF SnapInv, Kept
<1>9. Cycled'
  <2> SUFFICES ASSUME ~late, ~NewerListed, NEW g \in drop \ Rows("failed") PROVE g < LatestReady
    BY <1>1, <1>5 DEF Cycled
  <2>1. g \in Gen /\ snap[g] \in {"ready", "superseded"}
    BY <1>1 DEF Rows, TypeInv, TypeOK, RowStatus
  <2>2. CASE snap[g] = "ready"
    BY <1>1, <1>2, <1>3, <2>1, <2>2, GenNat DEF LatestIs
  <2>3. CASE snap[g] = "superseded"
    <3>1. g <= LatestReady /\ g # LatestReady
      BY <1>1, <1>4, <2>1, <2>3 DEF SnapInv, Kept
    <3> QED  BY <1>3, <2>1, <3>1, GenNat DEF LatestIs
  <2> QED  BY <2>1, <2>2, <2>3
<1> QED  BY <1>5, <1>6, <1>7, <1>8, <1>9 DEF SnapInv

\* ... and so is what is erased.
LEMMA SnapArchiveErases ==
    ASSUME TypeInv, SnapInv, ArchiveErases
    PROVE  SnapInv' /\ LatestReady' = LatestReady
<1>1. /\ UNCHANGED <<snap, deleted, archived, late, pc, job>>
      /\ stored' = stored \ cycle.drop /\ cycle'.at = "idle" /\ cycle.at = "erase"
      /\ cycle.drop \subseteq Gen
  BY DEF ArchiveErases, NoCycle, Cycle, TypeInv, TypeOK
<1>2. LatestReady' = LatestReady /\ LatestReady \in Nat
  BY <1>1, LatestReadySame, LatestReadyNext, GenNat DEF LatestIs
<1> HIDE DEF LatestReady
<1>3. ~deleted /\ ~late => \A g \in cycle.drop : g < LatestReady
  BY <1>1 DEF SnapInv, Cycled
<1>4. Gone' /\ Numbered' /\ Chain' /\ Cycled'
  BY <1>1, <1>2 DEF SnapInv, Gone, Numbered, Chain, Cycled
<1>5. Kept'
  <2> SUFFICES ASSUME ~deleted, ~late PROVE Kept'
    BY <1>1 DEF Kept
  <2>1. LatestReady # 0 => LatestReady \in stored'
    BY <1>1, <1>2, <1>3 DEF SnapInv, Kept
  <2>2. \A a \in Actor : pc[a] = "commit" /\ job[a].gen \notin stored' => job[a].gen <= LatestReady
    BY <1>1, <1>2, <1>3, GenNat DEF SnapInv, Kept
  <2> QED  BY <1>1, <1>2, <2>1, <2>2 DEF SnapInv, Kept
<1> QED  BY <1>2, <1>4, <1>5 DEF SnapInv

LEMMA SnapArchive ==
    ASSUME TypeInv, SnapInv, Archive
    PROVE  SnapInv' /\ (~LateDrop => LatestReady' = LatestReady)
BY SnapArchiveReads, SnapArchiveDrops, SnapArchiveErases DEF Archive

\* Only a deletion releases for the reason "delete".
Deletes == \A r \in Releaser : reason[r] = "delete" => deleted

LEMMA DeletesInit == Init => Deletes
BY DEF Init, Deletes

LEMMA DeletesStep == TypeInv /\ Deletes /\ [Next]_vars => Deletes'
<1> SUFFICES ASSUME TypeInv, Deletes, [Next]_vars PROVE Deletes'
  OBVIOUS
<1> USE DEF Deletes, runtimeVars, storeVars, archiveVars
<1>1. ASSUME NEW t \in Turn, TurnStep(t) PROVE Deletes'
  BY <1>1 DEF TurnStep, Reuse, Create, BeginRestore, Restored, RestoreFails, RejectTurn, Write,
              Reply, TurnFails, BeginSave
<1>2. ASSUME NEW a \in Actor, SaveStep(a) PROVE Deletes'
  BY <1>2 DEF SaveStep, BuildArchive, NumberSnapshot, CommitSnapshot, FinishSave, SaveFails
<1>3. ASSUME NEW r \in Releaser, ReleaseStep(r) PROVE Deletes'
  BY <1>3 DEF ReleaseStep, BeginRelease, BeginDelete, Flushed, NothingToRelease, TypeInv, TypeOK
<1>4. CASE Sweep \/ Archive \/ Restart \/ UNCHANGED vars
  BY <1>4 DEF Sweep, SweepSandbox, SweptElsewhere, Archive, ArchiveLooks, ArchiveLists, ArchiveDrops, ArchiveErases, Restart, vars
<1> QED  BY <1>1, <1>2, <1>3, <1>4 DEF Next

\* Every action keeps the generations in order, and the latest ready one never falls back.
LEMMA SnapStep ==
    TypeInv /\ SnapInv /\ Deletes /\ [Next]_vars =>
        SnapInv' /\ (~deleted' /\ ~LateDrop => LatestReady' >= LatestReady)
<1> SUFFICES ASSUME TypeInv, SnapInv, Deletes, [Next]_vars
             PROVE  SnapInv' /\ (~deleted' /\ ~LateDrop => LatestReady' >= LatestReady)
  OBVIOUS
<1> USE DEF runtimeVars, storeVars, archiveVars
<1>0. /\ pc \in [Actor -> TurnPc \cup ReleasePc] /\ job \in [Actor -> Job]
      /\ Turn \subseteq Actor /\ Releaser \subseteq Actor
      /\ LatestReady \in 0..MaxGen
      /\ LatestReady >= LatestReady
      /\ snap' = snap => LatestReady' = LatestReady
  <2>1. LatestReady \in 0..MaxGen
    BY LatestReadyNext DEF LatestIs
  <2>2. LatestReady >= LatestReady
    <3> HIDE DEF LatestReady
    <3> QED  BY <2>1
  <2> QED  BY <2>1, <2>2, LatestReadySame DEF TypeInv, TypeOK, Actor
<1> HIDE DEF LatestReady
<1>1. ASSUME NEW t \in Turn, TurnStep(t)
      PROVE  /\ UNCHANGED <<snap, stored, deleted, archiveVars>>
             /\ \A a \in Actor : pc'[a] \in {"commit", "prune"} =>
                                     pc'[a] = pc[a] /\ job'[a] = job[a]
  <2>1. CASE Reuse(t) \/ Create(t) \/ BeginRestore(t) \/ Restored(t) \/ RestoreFails(t)
    BY <2>1, <1>0 DEF Reuse, Create, BeginRestore, Restored, RestoreFails, Enter
  <2>2. CASE RejectTurn(t) \/ Write(t) \/ Reply(t) \/ TurnFails(t) \/ BeginSave(t)
    BY <2>2, <1>0 DEF RejectTurn, Write, Reply, TurnFails, BeginSave
  <2> QED  BY <1>1, <2>1, <2>2 DEF TurnStep
<1>2. ASSUME NEW a \in Actor, SaveStep(a)
      PROVE  SnapInv' /\ (~deleted' /\ ~LateDrop => LatestReady' >= LatestReady)
  <2>1. CASE BuildArchive(a)
    <3>1. \A b \in Actor : pc'[b] \in {"commit", "prune"} => pc'[b] = pc[b] /\ job'[b] = job[b]
      BY <2>1, <1>0 DEF BuildArchive
    <3> QED  BY <2>1, <3>1, <1>0, SnapIdle DEF BuildArchive
  <2>2. CASE NumberSnapshot(a)
    BY <2>2, <1>0, SnapNumber DEF NumberSnapshot
  <2>3. CASE CommitSnapshot(a)
    BY <2>3, SnapCommit
  <2>4. CASE FinishSave(a)
    BY <2>4, <1>0, SnapPrune DEF FinishSave
  <2>5. CASE SaveFails(a)
    <3>1. /\ RecordFailed /\ (deleted \/ LatestRow < MaxGen)
          /\ UNCHANGED <<stored, deleted, archiveVars>>
          /\ \A b \in Actor : pc'[b] \in {"commit", "prune"} => pc'[b] = pc[b] /\ job'[b] = job[b]
      BY <2>5, <1>0 DEF SaveFails, AfterSave
    <3>2. SnapInv'
      BY <3>1, SnapFailed
    <3>3. ~deleted => LatestReady' = LatestReady
      BY <3>1, SnapFailedKeeps
    <3> QED  BY <3>1, <3>2, <3>3, <1>0
  <2> QED  BY <1>2, <2>1, <2>2, <2>3, <2>4, <2>5 DEF SaveStep
<1>3. ASSUME NEW r \in Releaser, ReleaseStep(r)
      PROVE  SnapInv' /\ (~deleted' /\ ~LateDrop => LatestReady' >= LatestReady)
  <2>1. ASSUME NEW why \in Reasons, BeginRelease(r, why)
        PROVE  SnapInv' /\ (~deleted' /\ ~LateDrop => LatestReady' >= LatestReady)
    <3>1. \A b \in Actor : pc'[b] \in {"commit", "prune"} => pc'[b] = pc[b] /\ job'[b] = job[b]
      BY <2>1, <1>0 DEF BeginRelease
    <3> QED  BY <2>1, <3>1, <1>0, SnapIdle DEF BeginRelease
  <2>2. CASE BeginDelete(r)
    <3>1. deleted' /\ cycle'.at \notin {"rows", "drop"}
      BY <2>2 DEF BeginDelete, NoCycle
    <3> QED  BY <2>2, <1>0, <3>1 DEF BeginDelete, SnapInv, Gone, Numbered, Kept, Chain, Cycled
  <2>3. CASE Flushed(r) \/ NothingToRelease(r)
    <3>1. /\ snap' = snap /\ deleted' = deleted /\ UNCHANGED archiveVars
          /\ stored' = stored \/ deleted
          /\ \A b \in Actor : pc'[b] \in {"commit", "prune"} => pc'[b] = pc[b] /\ job'[b] = job[b]
      BY <2>3, <1>0 DEF Flushed, NothingToRelease, EraseDoomed, Deletes
    <3>2. CASE stored' = stored
      BY <3>1, <3>2, <1>0, SnapIdle
    <3>3. CASE deleted
      BY <3>1, <3>3 DEF SnapInv, Gone, Numbered, Kept, Chain, Cycled
    <3> QED  BY <3>1, <3>2, <3>3
  <2> QED  BY <1>3, <2>1, <2>2, <2>3 DEF ReleaseStep
<1>4. CASE Sweep
  BY <1>4, <1>0, SnapIdle DEF Sweep, SweepSandbox, SweptElsewhere
<1>6. CASE Archive
  BY <1>6, <1>0, SnapArchive
<1>7. CASE Restart
  <2>1. \A b \in Actor : pc'[b] \notin {"commit", "prune"}
    BY <1>7, <1>0 DEF Restart, Ended
  <2>2. /\ UNCHANGED <<snap, stored, deleted, archived, late>>
        /\ cycle'.at = "idle"
    BY <1>7 DEF Restart, NoCycle
  <2>3. SnapInv'
    BY <2>1, <2>2, <1>0 DEF SnapInv, Gone, Numbered, Kept, Chain, Cycled
  <2> QED  BY <2>2, <2>3, <1>0
<1>8. CASE UNCHANGED vars
  BY <1>8, <1>0, SnapIdle DEF vars
<1> QED  BY <1>1, <1>2, <1>3, <1>4, <1>6, <1>7, <1>8, <1>0, SnapIdle DEF Next

(***************************************************************************)
(* OneReadySnapshot: at most one row is ready, the newest ever committed.  *)
(***************************************************************************)
THEOREM OneIsReady == Spec => []OneReadySnapshot
<1>1. SnapInv => OneReadySnapshot
  <2> SUFFICES ASSUME SnapInv, ~archived,
                      NEW g \in Gen, NEW h \in Gen,
                      snap[g] = "ready", snap[h] \in {"ready", "superseded"}
               PROVE  h <= g
    BY DEF OneReadySnapshot
  <2>1. LatestIs(snap, LatestReady)
    BY LatestReadyIs
  <2> HIDE DEF LatestReady
  <2> QED  BY <2>1, GenNat DEF SnapInv, Gone, Chain, LatestIs
<1> QED  BY <1>1, TypeInit, TypeStep, SnapInit, SnapStep, DeletesInit, DeletesStep, PTL DEF Spec

(***************************************************************************)
(* ReadyIsRestorable: the archive of the latest ready row is never pruned, *)
(* as long as no archiving cycle drops a row committed after it looked.    *)
(***************************************************************************)
THEOREM ReadyRestores == Spec => []ReadyIsRestorable
<1>1. SnapInv => ReadyIsRestorable
  BY LatestReadyIs, GenNat DEF SnapInv, Gone, Kept, ReadyIsRestorable, Rows
<1> QED  BY <1>1, TypeInit, TypeStep, SnapInit, SnapStep, DeletesInit, DeletesStep, PTL DEF Spec

(***************************************************************************)
(* GenerationsGrow: the generation that is restored never goes back but    *)
(* when an archiving cycle drops a row committed between its two queries.  *)
(***************************************************************************)
THEOREM RestoredGenerationsGrow == Spec => GenerationsGrow
<1>1. TypeInv /\ SnapInv /\ Deletes /\ [Next]_vars => [~deleted' /\ ~LateDrop => LatestReady' >= LatestReady]_vars
  BY SnapStep
<1> QED  BY <1>1, TypeInit, TypeStep, SnapInit, SnapStep, DeletesInit, DeletesStep, PTL
         DEF Spec, GenerationsGrow

-----------------------------------------------------------------------------
(***************************************************************************)
(* What a failed save costs.  As long as none fails, and no archiving      *)
(* cycle drops a snapshot it had not seen when it looked, a turn owed      *)
(* its files has them in the registered runtime while it is under way,     *)
(* with nobody else at work, and once it is done in the snapshot that      *)
(* would be restored and in whatever may become the next one: the          *)
(* registered runtime, the archives being restored and those being saved.  *)
(***************************************************************************)
SavesSucceed == [][\A a \in Actor : ~SaveFails(a)]_vars

\* No archiving cycle drops a snapshot that was committed after it had looked.
NothingDroppedUnseen == [][~LateDrop]_vars

Restores ==
    ~deleted => \A t \in Turn : pc[t] = "restoring" => job[t].prev \in 1..LatestReady

\* A turn that is owed its files and still under way.
Alone(t) ==
    /\ \A a \in Actor \ {t} : ~UnderWay(a)
    /\ reg # None /\ t \in files[reg]
    /\ pc[t] \in {"executing", "replied"} => uses[t] = reg
    /\ pc[t] \in Saving => job[t].rt = reg
    /\ pc[t] = "number" => t \in job[t].content
    /\ pc[t] \in {"commit", "prune"} => t \in archive[job[t].gen]
    /\ pc[t] = "commit" /\ ~deleted => job[t].prev = LatestReady
    /\ pc[t] = "prune" /\ ~deleted => job[t].gen = LatestReady

\* One that is done.
Saved(t) ==
    /\ LatestReady # 0 /\ t \in archive[LatestReady]
    /\ reg # None => t \in files[reg]
    /\ \A u \in Turn : pc[u] = "restoring" => t \in archive[job[u].prev]
    /\ \A a \in Actor :
        /\ pc[a] = "archive" /\ job[a].rt \in workdir => t \in files[job[a].rt]
        /\ pc[a] = "number" => t \in job[a].content
        /\ pc[a] = "commit" => t \in archive[job[a].gen]

Owing ==
    \A t \in owed :
        /\ pc[t] \notin {"idle", "restoring"}
        /\ UnderWay(t) => Alone(t)
        /\ pc[t] = "done" /\ ~deleted => Saved(t)

KeepInv == TypeInv /\ LivesInv /\ SnapInv /\ ~late /\ Deletes /\ Restores /\ Owing

\* What the types say.
LEMMA KeepBasics ==
    ASSUME TypeInv
    PROVE  /\ Turn \subseteq Actor /\ Releaser \subseteq Actor /\ Turn \cap Releaser = {}
           /\ None \notin Turn /\ owed \subseteq Turn /\ reg \in Turn \cup {None}
           /\ pc \in [Actor -> TurnPc \cup ReleasePc] /\ job \in [Actor -> Job]
           /\ files \in [Turn -> SUBSET Turn] /\ archive \in [Gen -> SUBSET Turn]
           /\ workdir \subseteq Turn /\ uses \in [Turn -> Turn \cup {None}]
           /\ NoJob \in Job
BY RuntimeAssumption DEF TypeInv, TypeOK, RuntimeAssumption, Actor, NoJob, Job

\* A request that has ended, and started before, stays as it is.
LEMMA EndedStays ==
    ASSUME TypeInv, [Next]_vars, NEW a \in Actor, pc[a] \in {"done", "failed"}
    PROVE  pc'[a] = pc[a]
<1> USE DEF runtimeVars, storeVars, archiveVars
<1>0. pc \in [Actor -> TurnPc \cup ReleasePc] /\ Turn \subseteq Actor /\ Releaser \subseteq Actor
  BY KeepBasics
<1>1. ASSUME NEW t \in Turn, TurnStep(t) PROVE pc'[a] = pc[a]
  BY <1>0, <1>1 DEF TurnStep, Reuse, Create, BeginRestore, Restored, RestoreFails, RejectTurn, Write,
              Reply, TurnFails, BeginSave, Enter
<1>2. ASSUME NEW b \in Actor, SaveStep(b) PROVE pc'[a] = pc[a]
  BY <1>0, <1>2 DEF SaveStep, BuildArchive, NumberSnapshot, CommitSnapshot, FinishSave, SaveFails,
              SaveBroken, AfterSave
<1>3. ASSUME NEW r \in Releaser, ReleaseStep(r) PROVE pc'[a] = pc[a]
  BY <1>0, <1>3 DEF ReleaseStep, BeginRelease, BeginDelete, Flushed, NothingToRelease
<1>4. CASE Sweep \/ Archive \/ Restart \/ UNCHANGED vars
  BY <1>0, <1>4 DEF Sweep, SweepSandbox, SweptElsewhere, Archive, ArchiveLooks, ArchiveLists, ArchiveDrops, ArchiveErases, Restart, Ended, vars
<1> QED  BY <1>1, <1>2, <1>3, <1>4 DEF Next

\* A restore reads the latest ready generation, and that never falls back.
LEMMA RestoresStep ==
    ASSUME TypeInv, SnapInv, Deletes, Restores, [Next]_vars, ~LateDrop
    PROVE  Restores'
<1> USE DEF runtimeVars, storeVars, archiveVars
<1> SUFFICES ASSUME ~deleted', NEW t \in Turn, pc'[t] = "restoring"
             PROVE  job'[t].prev \in 1..LatestReady'
  BY DEF Restores
<1>0. /\ pc \in [Actor -> TurnPc \cup ReleasePc] /\ job \in [Actor -> Job]
      /\ Turn \subseteq Actor /\ Releaser \subseteq Actor /\ t \in Actor
      /\ LatestReady \in 0..MaxGen /\ LatestReady' \in 0..MaxGen /\ MaxGen \in Nat
      /\ LatestReady' >= LatestReady
      /\ Rows("ready") # {} => LatestReady # 0
  BY KeepBasics, SnapStep, LatestReadyNext, LatestReadyIs, GenNat DEF LatestIs
<1> DEFINE Same == ~deleted /\ pc[t] = "restoring" /\ job'[t].prev = job[t].prev
           Took == ~deleted /\ job'[t].prev = LatestReady /\ Rows("ready") # {}
<1> HIDE DEF LatestReady
<1>1. CASE Same
  BY <1>0, <1>1 DEF Restores
<1>2. CASE Took
  BY <1>0, <1>2
<1> SUFFICES Same \/ Took
  BY <1>1, <1>2
<1>3. ASSUME NEW u \in Turn, TurnStep(u) PROVE Same \/ Took
  <2>1. CASE BeginRestore(u)
    <3>1. CASE u = t
      BY <1>0, <2>1, <3>1 DEF BeginRestore, Job
    <3>2. CASE u # t
      BY <1>0, <2>1, <3>2 DEF BeginRestore
    <3> QED  BY <3>1, <3>2
  <2>2. CASE Reuse(u) \/ Create(u) \/ Restored(u) \/ RestoreFails(u)
    BY <1>0, <2>2 DEF Reuse, Create, Restored, RestoreFails, Enter
  <2>3. CASE RejectTurn(u) \/ Write(u) \/ Reply(u) \/ TurnFails(u) \/ BeginSave(u)
    BY <1>0, <2>3 DEF RejectTurn, Write, Reply, TurnFails, BeginSave
  <2> QED  BY <1>3, <2>1, <2>2, <2>3 DEF TurnStep
<1>4. ASSUME NEW b \in Actor, SaveStep(b) PROVE Same
  <2>1. b # t
    BY <1>0, <1>4 DEF SaveStep, BuildArchive, NumberSnapshot, CommitSnapshot, FinishSave, SaveFails,
              SaveBroken, AfterSave
  <2> QED  BY <1>0, <1>4, <2>1 DEF SaveStep, BuildArchive, NumberSnapshot, CommitSnapshot, FinishSave, SaveFails,
              SaveBroken, AfterSave
<1>5. ASSUME NEW r \in Releaser, ReleaseStep(r) PROVE Same
  BY <1>0, <1>5 DEF ReleaseStep, BeginRelease, BeginDelete, Flushed, NothingToRelease
<1>6. CASE Sweep \/ Archive \/ Restart \/ UNCHANGED vars
  BY <1>0, <1>6 DEF Sweep, SweepSandbox, SweptElsewhere, Archive, ArchiveLooks, ArchiveLists, ArchiveDrops, ArchiveErases, Restart, Ended, vars
<1> HIDE DEF Same, Took
<1> QED  BY <1>3, <1>4, <1>5, <1>6 DEF Next

\* A turn's own steps, while it is owed its files.
LEMMA AloneTurn ==
    ASSUME KeepInv, NEW t \in owed, UnderWay(t), TurnStep(t), UnderWay(t)', t \in owed'
    PROVE  Alone(t)' /\ pc'[t] \notin {"idle", "restoring"}
<1> USE DEF runtimeVars, storeVars, archiveVars
<1>0. /\ t \in Turn /\ t \in Actor
      /\ pc \in [Actor -> TurnPc \cup ReleasePc] /\ job \in [Actor -> Job]
      /\ Alone(t) /\ pc[t] \notin {"idle", "restoring"}
      /\ uses \in [Turn -> Turn \cup {None}] /\ files \in [Turn -> SUBSET Turn] /\ None \notin Turn
      /\ reg \in Turn \cup {None}
      /\ Turn \subseteq Actor
  BY KeepBasics DEF KeepInv, Owing
<1>1. Write(t) \/ Reply(t) \/ BeginSave(t)
  <2>1. pc[t] \notin {"idle", "restoring"}
    BY <1>0
  <2>2. ~ (RejectTurn(t) \/ TurnFails(t))
    BY <1>0 DEF RejectTurn, TurnFails, UnderWay, Ended
  <2> QED  BY <2>1, <2>2 DEF TurnStep, Reuse, Create, BeginRestore, Restored, RestoreFails
<1>2. \A a \in Actor \ {t} : pc'[a] = pc[a]
  BY <1>0, <1>1 DEF Write, Reply, BeginSave
<1>3. \A a \in Actor \ {t} : ~UnderWay(a)'
  BY <1>0, <1>2 DEF Alone, UnderWay
<1>4. CASE Write(t)
  BY <1>0, <1>3, <1>4 DEF Write, Alone, Saving
<1>5. CASE Reply(t)
  BY <1>0, <1>3, <1>5 DEF Reply, Alone, Saving
<1>6. CASE BeginSave(t)
  <2>1. pc'[t] = "archive" /\ job'[t].rt = reg /\ reg' = reg /\ files' = files
    BY <1>0, <1>6 DEF BeginSave, Alone, Job
  <2> QED  BY <1>0, <1>3, <2>1 DEF Alone, Saving
<1> QED  BY <1>1, <1>4, <1>5, <1>6

LEMMA AloneSave ==
    ASSUME KeepInv, NEW t \in owed, UnderWay(t), SaveStep(t), ~SaveFails(t), UnderWay(t)'
    PROVE  Alone(t)' /\ pc'[t] \notin {"idle", "restoring"}
<1> USE DEF runtimeVars, storeVars, archiveVars
<1>0. /\ t \in Turn /\ t \in Actor
      /\ pc \in [Actor -> TurnPc \cup ReleasePc] /\ job \in [Actor -> Job]
      /\ Alone(t)
      /\ archive \in [Gen -> SUBSET Turn]
      /\ LatestReady \in 0..MaxGen /\ LatestReady' \in 0..MaxGen /\ MaxGen \in Nat
      /\ snap' = snap => LatestReady' = LatestReady
  BY KeepBasics, LatestReadyNext, LatestReadySame, GenNat DEF KeepInv, Owing, LatestIs
<1> HIDE DEF LatestReady
<1>1. CASE BuildArchive(t)
  <2>1. /\ pc' = [pc EXCEPT ![t] = "number"] /\ job' = [job EXCEPT ![t].content = files[job[t].rt]]
        /\ UNCHANGED <<reg, files>> /\ pc[t] = "archive"
    BY <1>1 DEF BuildArchive
  <2>2. job'[t].rt = job[t].rt /\ job'[t].content = files[reg]
    BY <1>0, <2>1 DEF Alone, Job, Saving
  <2> QED  BY <1>0, <2>1, <2>2 DEF Alone, UnderWay, Saving
<1>2. CASE NumberSnapshot(t)
  <2> DEFINE g == LatestReady + 1
  <2>1. /\ pc' = [pc EXCEPT ![t] = "commit"]
        /\ job' = [job EXCEPT ![t].prev = LatestReady, ![t].gen = g]
        /\ archive' = [archive EXCEPT ![g] = job[t].content]
        /\ UNCHANGED <<reg, files, snap, deleted>> /\ pc[t] = "number" /\ LatestReady < MaxGen
    BY <1>2 DEF NumberSnapshot
  <2>2. g \in Gen
    BY <1>0, <2>1, GenNat
  <2> HIDE DEF g
  <2>3. job'[t].rt = job[t].rt /\ job'[t].prev = LatestReady /\ job'[t].gen = g
        /\ archive'[g] = job[t].content
    BY <1>0, <2>1, <2>2 DEF Job
  <2> QED  BY <1>0, <2>1, <2>3 DEF Alone, UnderWay, Saving
<1>3. CASE CommitSnapshot(t)
  <2>1. /\ pc' = [pc EXCEPT ![t] = "prune"] /\ pc[t] = "commit"
        /\ UNCHANGED <<reg, files, archive, job, deleted>> /\ ~deleted
    BY <1>3 DEF CommitSnapshot
  <2>2. LatestReady' = job[t].gen \/ LatestReady' = LatestReady
    BY <1>0, <1>3, SnapCommit DEF KeepInv
  <2>3. LatestReady' >= job[t].gen
    BY <1>0, <1>3, SnapCommit DEF KeepInv
  <2>4. job[t].prev = LatestReady /\ job[t].gen = LatestReady + 1
    BY <1>0, <2>1 DEF Alone, KeepInv, SnapInv, Numbered
  <2>5. LatestReady' = job[t].gen
    BY <1>0, <2>2, <2>3, <2>4
  <2> QED  BY <1>0, <2>1, <2>5 DEF Alone, UnderWay, Saving
<1>4. ~FinishSave(t)
  BY <1>0 DEF FinishSave, AfterSave, UnderWay, Ended
<1> QED  BY <1>1, <1>2, <1>3, <1>4 DEF SaveStep

\* Nobody else can be at work without taking the turn off the list.
LEMMA AloneStep ==
    ASSUME KeepInv, [Next]_vars, \A a \in Actor : ~SaveFails(a), ~LateDrop,
           NEW t \in owed, UnderWay(t), UnderWay(t)', t \in owed'
    PROVE  Alone(t)' /\ pc'[t] \notin {"idle", "restoring"}
<1> USE DEF runtimeVars, storeVars, archiveVars
<1>0. /\ t \in Turn /\ t \in Actor /\ Turn \subseteq Actor /\ Releaser \subseteq Actor
      /\ Turn \cap Releaser = {}
      /\ pc \in [Actor -> TurnPc \cup ReleasePc] /\ job \in [Actor -> Job]
      /\ Alone(t) /\ pc[t] \notin {"idle", "restoring"}
      /\ \A a \in Actor \ {t} : pc[a] \in Ended
      /\ t \in {s \in owed : ~UnderWay(s)} => FALSE
  BY KeepBasics DEF KeepInv, Owing, Alone, UnderWay
<1>1. ASSUME NEW u \in Turn, TurnStep(u) PROVE u = t
  <2> SUFFICES ASSUME u # t PROVE FALSE
    OBVIOUS
  <2>1. pc[u] \in Ended
    BY <1>0
  <2>2. Reuse(u) \/ Create(u) \/ BeginRestore(u)
    BY <1>1, <2>1 DEF TurnStep, Restored, RestoreFails, RejectTurn, Write, Reply, TurnFails, BeginSave, Ended
  <2>3. owed' = {s \in owed : ~UnderWay(s)}
    BY <2>2 DEF Reuse, Create, BeginRestore, Disturb
  <2> QED  BY <1>0, <2>3
<1>2. ASSUME NEW a \in Actor, SaveStep(a) PROVE a = t
  BY <1>0, <1>2 DEF SaveStep, BuildArchive, NumberSnapshot, CommitSnapshot, FinishSave, SaveFails,
     SaveBroken, Ended
<1>3. ASSUME NEW r \in Releaser, ReleaseStep(r) PROVE FALSE
  <2>1. pc[r] \in Ended
    BY <1>0
  <2>2. BeginDelete(r) \/ \E why \in Reasons : BeginRelease(r, why)
    BY <1>3, <2>1 DEF ReleaseStep, Flushed, NothingToRelease, Ended
  <2>3. owed' = {s \in owed : ~UnderWay(s)}
    BY <2>2 DEF BeginRelease, BeginDelete, Disturb
  <2> QED  BY <1>0, <2>3
<1>4. CASE Restart
  <2>1. pc'[t] = "failed"
    BY <1>0, <1>4 DEF Restart, UnderWay
  <2> QED  BY <2>1 DEF UnderWay, Ended
<1>5. CASE Sweep \/ Archive \/ UNCHANGED vars
  <2>1. UNCHANGED <<pc, reg, files, uses, job, archive, deleted>>
    BY <1>5 DEF Sweep, SweepSandbox, SweptElsewhere, Archive, ArchiveLooks, ArchiveLists, ArchiveDrops, ArchiveErases, vars
  <2>2. LatestReady' = LatestReady
    <3>1. CASE Archive
      BY <3>1, SnapArchive DEF KeepInv
    <3>2. CASE ~Archive
      <4>1. snap' = snap
        BY <1>5, <3>2 DEF Sweep, SweepSandbox, SweptElsewhere, vars
      <4> QED  BY <4>1, LatestReadySame
    <3> QED  BY <3>1, <3>2
  <2> HIDE DEF LatestReady
  <2> QED  BY <1>0, <2>1, <2>2 DEF Alone, UnderWay
<1>6. ASSUME NEW u \in Turn, TurnStep(u) PROVE Alone(t)' /\ pc'[t] \notin {"idle", "restoring"}
  BY <1>1, <1>6, AloneTurn
<1>7. ASSUME NEW a \in Actor, SaveStep(a) PROVE Alone(t)' /\ pc'[t] \notin {"idle", "restoring"}
  BY <1>2, <1>7, AloneSave
<1> QED  BY <1>3, <1>4, <1>5, <1>6, <1>7 DEF Next

\* A turn comes to be owed its files by writing them while nobody else is at work.
LEMMA AloneNew ==
    ASSUME KeepInv, [Next]_vars, NEW t \in owed', t \notin owed
    PROVE  Write(t) /\ Alone(t)' /\ pc'[t] = "executing" /\ \A s \in owed : ~UnderWay(s)
<1> USE DEF runtimeVars, storeVars, archiveVars
<1>1. \E u \in Turn : Write(u) /\ owed' # owed
  <2>1. ASSUME NEW u \in Turn, TurnStep(u), ~Write(u) PROVE owed' \subseteq owed
    BY <2>1 DEF TurnStep, Reuse, Create, BeginRestore, Restored, RestoreFails, RejectTurn,
                Reply, TurnFails, BeginSave, Disturb
  <2>2. ASSUME NEW a \in Actor, SaveStep(a) PROVE owed' = owed
    BY <2>2 DEF SaveStep, BuildArchive, NumberSnapshot, CommitSnapshot, FinishSave, SaveFails
  <2>3. ASSUME NEW r \in Releaser, ReleaseStep(r) PROVE owed' \subseteq owed
    BY <2>3 DEF ReleaseStep, BeginRelease, BeginDelete, Flushed, NothingToRelease, Disturb
  <2>4. CASE Sweep \/ Archive \/ Restart \/ UNCHANGED vars
    BY <2>4 DEF Sweep, SweepSandbox, SweptElsewhere, Archive, ArchiveLooks, ArchiveLists, ArchiveDrops, ArchiveErases, Restart, vars
  <2> QED  BY <2>1, <2>2, <2>3, <2>4 DEF Next
<1>2. PICK u \in Turn : Write(u) /\ owed' # owed
  BY <1>1
<1>3. owed' = owed \cup {u} /\ uses[u] = reg /\ \A a \in Actor \ {u} : ~UnderWay(a)
  BY <1>2 DEF Write
<1>4. u = t
  BY <1>3
<1>5. /\ pc' = pc /\ pc[t] = "executing" /\ reg' = reg /\ uses' = uses
      /\ reg \in workdir /\ files' = [files EXCEPT ![reg] = @ \cup {t}]
  BY <1>2, <1>3, <1>4 DEF Write
<1>6. reg # None /\ t \in files'[reg]
  BY <1>5, KeepBasics DEF KeepInv
<1>7. \A s \in owed : ~UnderWay(s)
  BY <1>3, <1>4, KeepBasics DEF KeepInv
<1> QED  BY <1>2, <1>3, <1>4, <1>5, <1>6, <1>7 DEF Alone, UnderWay, Saving

\* A saved turn stays saved: turns.
LEMMA SavedTurn ==
    ASSUME KeepInv, NEW t \in owed, Saved(t), ~deleted, NEW u \in Turn, TurnStep(u)
    PROVE  Saved(t)'
<1> USE DEF runtimeVars, storeVars, archiveVars
<1>0. /\ Turn \subseteq Actor /\ t \in Turn /\ None \notin Turn /\ reg \in Turn \cup {None}
      /\ pc \in [Actor -> TurnPc \cup ReleasePc] /\ job \in [Actor -> Job]
      /\ files \in [Turn -> SUBSET Turn] /\ uses \in [Turn -> Turn \cup {None}]
      /\ workdir \subseteq Turn
      /\ Rows("ready") # {} <=> LatestReady # 0
      /\ snap' = snap => LatestReady' = LatestReady
      /\ \A v \in Turn : pc[v] \in {"idle", "restoring"} => reg # v /\ \A a \in Actor : job[a].rt # v
  BY KeepBasics, LatestReadyIs, LatestReadySame DEF KeepInv, LivesInv, Fresh, NotYet
<1> HIDE DEF LatestReady
<1>1. CASE Reuse(u)
  BY <1>0, <1>1 DEF Reuse, Enter, Saved
<1>2. CASE Create(u)
  BY <1>0, <1>2 DEF Create, Saved
<1>3. CASE BeginRestore(u)
  <2>1. /\ UNCHANGED <<reg, files, archive, snap>> /\ workdir' = workdir \cup {u}
        /\ \A a \in Actor \ {u} : pc'[a] = pc[a] /\ job'[a] = job[a]
        /\ pc'[u] = "restoring" /\ job'[u].prev = LatestReady
        /\ \A a \in Actor : job[a].rt # u
    BY <1>0, <1>3 DEF BeginRestore, Job
  <2> QED  BY <1>0, <2>1 DEF Saved
<1>4. CASE Restored(u)
  <2>1. /\ UNCHANGED <<archive, snap, workdir>> /\ reg' = u
        /\ \A a \in Actor \ {u} : pc'[a] = pc[a] /\ job'[a] = job[a]
        /\ pc'[u] = "executing" /\ files' = [files EXCEPT ![u] = archive[job[u].prev]]
        /\ t \in archive[job[u].prev]
    BY <1>0, <1>4 DEF Restored, Enter, Saved
  <2>2. t \in files'[u] /\ \A v \in Turn \ {u} : files'[v] = files[v]
    BY <1>0, <2>1
  <2> QED  BY <1>0, <2>1, <2>2 DEF Saved
<1>5. CASE Write(u)
  <2>1. /\ UNCHANGED <<reg, workdir, archive, snap, pc, job>>
        /\ \A v \in Turn : files[v] \subseteq files'[v]
    BY <1>0, <1>5 DEF Write
  <2> QED  BY <1>0, <2>1 DEF Saved
<1>6. CASE BeginSave(u)
  <2>1. /\ UNCHANGED <<reg, workdir, files, archive, snap>>
        /\ \A a \in Actor \ {u} : pc'[a] = pc[a] /\ job'[a] = job[a]
        /\ job'[u].rt = reg /\ pc'[u] = IF reg = None THEN "done" ELSE "archive"
    BY <1>0, <1>6 DEF BeginSave, Job
  <2> QED  BY <1>0, <2>1 DEF Saved
<1>7. CASE RestoreFails(u) \/ RejectTurn(u) \/ Reply(u) \/ TurnFails(u)
  <2>1. /\ UNCHANGED <<reg, workdir, files, archive, snap>>
        /\ \A a \in Actor \ {u} : pc'[a] = pc[a] /\ job'[a] = job[a]
        /\ pc'[u] \in {"failed", "replied"}
    BY <1>0, <1>7 DEF RestoreFails, RejectTurn, Reply, TurnFails
  <2> QED  BY <1>0, <2>1 DEF Saved
<1> QED  BY <1>1, <1>2, <1>3, <1>4, <1>5, <1>6, <1>7 DEF TurnStep

\* ... a runtime that is removed ...
LEMMA SavedPop ==
    ASSUME KeepInv, NEW t \in owed, Saved(t), NEW a \in Actor, NEW rt, Pop(rt),
           UNCHANGED <<snap, archive>>, \A b \in Actor \ {a} : pc'[b] = pc[b] /\ job'[b] = job[b],
           pc'[a] = "done"
    PROVE  Saved(t)'
<1>0. /\ Turn \subseteq Actor /\ None \notin Turn
      /\ LatestReady' = LatestReady
      /\ workdir \subseteq Turn
  BY KeepBasics, LatestReadySame DEF KeepInv
<1> HIDE DEF LatestReady
<1>1. /\ reg' = None
      /\ \A q \in workdir' : q \in workdir /\ files'[q] = files[q]
  BY <1>0 DEF Pop
<1> QED  BY <1>0, <1>1 DEF Saved

\* ... and savers.
LEMMA SavedSave ==
    ASSUME KeepInv, NEW t \in owed, Saved(t), ~deleted, NEW a \in Actor, SaveStep(a), ~SaveFails(a)
    PROVE  Saved(t)'
<1> USE DEF runtimeVars, storeVars, archiveVars
<1>0. /\ Turn \subseteq Actor /\ t \in Turn
      /\ pc \in [Actor -> TurnPc \cup ReleasePc] /\ job \in [Actor -> Job]
      /\ archive \in [Gen -> SUBSET Turn]
      /\ LatestReady \in 0..MaxGen /\ LatestReady' \in 0..MaxGen /\ MaxGen \in Nat
      /\ snap' = snap => LatestReady' = LatestReady
      /\ \A v \in Turn : pc[v] = "restoring" => job[v].prev \in 1..LatestReady
  BY KeepBasics, LatestReadyNext, LatestReadySame, GenNat DEF KeepInv, LatestIs, Restores
<1> HIDE DEF LatestReady
<1>1. CASE BuildArchive(a)
  <2>1. /\ UNCHANGED <<reg, workdir, files, archive, snap>>
        /\ \A b \in Actor \ {a} : pc'[b] = pc[b] /\ job'[b] = job[b]
        /\ pc'[a] = "number" /\ job'[a].content = files[job[a].rt] /\ t \in files[job[a].rt]
    BY <1>0, <1>1 DEF BuildArchive, Saved, Job
  <2> QED  BY <1>0, <2>1 DEF Saved
<1>2. CASE NumberSnapshot(a)
  <2> DEFINE g == LatestReady + 1
  <2>1. /\ UNCHANGED <<reg, workdir, files, snap>> /\ LatestReady < MaxGen
        /\ archive' = [archive EXCEPT ![g] = job[a].content]
        /\ \A b \in Actor \ {a} : pc'[b] = pc[b] /\ job'[b] = job[b]
        /\ pc'[a] = "commit" /\ pc[a] = "number"
        /\ job' = [job EXCEPT ![a].prev = LatestReady, ![a].gen = g]
    BY <1>0, <1>2 DEF NumberSnapshot
  <2>2. g \in Gen /\ t \in archive'[g] /\ \A h \in Gen \ {g} : archive'[h] = archive[h]
    BY <1>0, <2>1, GenNat DEF Saved
  <2>3. job'[a].gen = g
    BY <1>0, <2>1, <2>2, GenNat DEF Job
  <2>4. LatestReady \in Gen \ {g} /\ \A h \in 1..LatestReady : h \in Gen \ {g}
    BY <1>0, GenNat DEF Saved
  <2> HIDE DEF g
  <2>5. \A v \in Turn : pc'[v] = "restoring" => t \in archive'[job'[v].prev]
    BY <1>0, <2>1, <2>2, <2>4 DEF Saved
  <2>6. \A b \in Actor : pc[b] = "commit" => job[b].gen \in Gen
    BY DEF KeepInv, SnapInv, Numbered
  <2>7. \A b \in Actor : pc'[b] = "commit" => t \in archive'[job'[b].gen]
    <3> SUFFICES ASSUME NEW b \in Actor, pc'[b] = "commit" PROVE t \in archive'[job'[b].gen]
      OBVIOUS
    <3>1. CASE b = a
      BY <2>2, <2>3, <3>1
    <3>2. CASE b # a
      <4>1. pc[b] = "commit" /\ job'[b] = job[b] /\ job[b].gen \in Gen
        BY <2>1, <2>6, <3>2
      <4>2. t \in archive[job[b].gen]
        BY <4>1 DEF Saved
      <4> QED  BY <2>2, <4>1, <4>2
    <3> QED  BY <3>1, <3>2
  <2> QED  BY <1>0, <2>1, <2>2, <2>4, <2>5, <2>7 DEF Saved
<1>3. CASE CommitSnapshot(a)
  <2>1. /\ UNCHANGED <<reg, workdir, files, archive, job>>
        /\ \A b \in Actor \ {a} : pc'[b] = pc[b]
        /\ pc'[a] = "prune" /\ pc[a] = "commit"
    BY <1>0, <1>3 DEF CommitSnapshot
  <2>2. LatestReady' = job[a].gen \/ LatestReady' = LatestReady
    BY <1>3, SnapCommit DEF KeepInv
  <2>3. job[a].gen # 0 /\ t \in archive[job[a].gen]
    BY <2>1, GenNat DEF KeepInv, SnapInv, Numbered, Saved
  <2> QED  BY <1>0, <2>1, <2>2, <2>3 DEF Saved
<1>4. CASE FinishSave(a)
  <2>1. /\ UNCHANGED <<archive, snap>> /\ pc'[a] = "done"
        /\ \A b \in Actor \ {a} : pc'[b] = pc[b] /\ job'[b] = job[b]
    BY <1>0, <1>4 DEF FinishSave, AfterSave
  <2>2. CASE a \in Turn
    <3>1. UNCHANGED <<reg, workdir, files>>
      BY <1>4, <2>2 DEF FinishSave, AfterSave
    <3> QED  BY <1>0, <2>1, <3>1 DEF Saved
  <2>3. CASE a \notin Turn
    <3>1. Pop(job[a].rt)
      BY <1>4, <2>3 DEF FinishSave, AfterSave
    <3> QED  BY <2>1, <3>1, SavedPop
  <2> QED  BY <2>2, <2>3
<1> QED  BY <1>1, <1>2, <1>3, <1>4 DEF SaveStep

LEMMA SavedStep ==
    ASSUME KeepInv, [Next]_vars, \A a \in Actor : ~SaveFails(a), ~LateDrop,
           NEW t \in owed, Saved(t), ~deleted, ~deleted'
    PROVE  Saved(t)'
<1> USE DEF runtimeVars, storeVars, archiveVars
<1>0. /\ Turn \subseteq Actor /\ Releaser \subseteq Actor /\ Turn \cap Releaser = {}
      /\ pc \in [Actor -> TurnPc \cup ReleasePc] /\ job \in [Actor -> Job]
      /\ snap' = snap => LatestReady' = LatestReady
      /\ None \notin Turn /\ reg \in Turn \cup {None}
  BY KeepBasics, LatestReadySame DEF KeepInv
<1> HIDE DEF LatestReady
<1>1. ASSUME NEW u \in Turn, TurnStep(u) PROVE Saved(t)'
  BY <1>1, SavedTurn
<1>2. ASSUME NEW a \in Actor, SaveStep(a) PROVE Saved(t)'
  BY <1>2, SavedSave
<1>3. ASSUME NEW r \in Releaser, ReleaseStep(r) PROVE Saved(t)'
  <2>0. r \in Actor /\ r \notin Turn
    BY <1>0
  <2>1. ASSUME NEW why \in Reasons, BeginRelease(r, why) PROVE Saved(t)'
    <3>1. /\ UNCHANGED <<reg, workdir, files, archive, snap, job>>
          /\ \A b \in Actor \ {r} : pc'[b] = pc[b]
          /\ pc'[r] = "flushing"
      BY <1>0, <2>0, <2>1 DEF BeginRelease
    <3> QED  BY <1>0, <2>0, <3>1 DEF Saved
  <2>2. ~BeginDelete(r)
    BY DEF BeginDelete
  <2>3. CASE Flushed(r)
    <3>1. UNCHANGED <<snap, archive>>
      BY <2>3 DEF Flushed
    <3>2. CASE reg \in dirty /\ reason[r] # "delete"
      <4>1. /\ UNCHANGED <<reg, workdir, files>> /\ reg \in Turn
            /\ \A b \in Actor \ {r} : pc'[b] = pc[b] /\ job'[b] = job[b]
            /\ pc'[r] = "archive" /\ job'[r].rt = reg
        BY <1>0, <2>0, <2>3, <3>2 DEF Flushed, Job
      <4> QED  BY <1>0, <2>0, <3>1, <4>1 DEF Saved
    <3>3. CASE ~ (reg \in dirty /\ reason[r] # "delete")
      <4>1. /\ Pop(reg) /\ pc'[r] = "done"
            /\ \A b \in Actor \ {r} : pc'[b] = pc[b] /\ job'[b] = job[b]
        BY <1>0, <2>0, <2>3, <3>3 DEF Flushed
      <4> QED  BY <2>0, <3>1, <4>1, SavedPop
    <3> QED  BY <3>2, <3>3
  <2>4. CASE NothingToRelease(r)
    <3>1. /\ UNCHANGED <<reg, workdir, files, archive, snap, job>>
          /\ \A b \in Actor \ {r} : pc'[b] = pc[b]
          /\ pc'[r] = "done"
      BY <1>0, <2>0, <2>4 DEF NothingToRelease
    <3> QED  BY <1>0, <2>0, <3>1 DEF Saved
  <2> QED  BY <1>3, <2>1, <2>2, <2>3, <2>4 DEF ReleaseStep
<1>4. CASE Sweep \/ Archive \/ UNCHANGED vars
  <2>1. UNCHANGED <<reg, workdir, files, archive, pc, job>>
    BY <1>4 DEF Sweep, SweepSandbox, SweptElsewhere, Archive, ArchiveLooks, ArchiveLists, ArchiveDrops, ArchiveErases, vars
  <2>2. LatestReady' = LatestReady
    <3>1. CASE Archive
      BY <3>1, SnapArchive DEF KeepInv
    <3>2. CASE ~Archive
      BY <1>0, <1>4, <3>2 DEF Sweep, SweepSandbox, SweptElsewhere, vars
    <3> QED  BY <3>1, <3>2
  <2> QED  BY <2>1, <2>2 DEF Saved
<1>5. CASE Restart
  <2>1. /\ reg' = None /\ snap' = snap /\ archive' = archive
        /\ \A a \in Actor : pc'[a] \in {"idle", "done", "failed"}
    BY <1>0, <1>5 DEF Restart, Ended
  <2> QED  BY <1>0, <2>1 DEF Saved
<1> QED  BY <1>1, <1>2, <1>3, <1>4, <1>5 DEF Next

\* A turn is done when its own save is, and that one was the latest.
LEMMA SavedNew ==
    ASSUME KeepInv, [Next]_vars, \A a \in Actor : ~SaveFails(a),
           NEW t \in owed, pc[t] # "done", pc'[t] = "done", ~deleted'
    PROVE  Saved(t)'
<1> USE DEF runtimeVars, storeVars, archiveVars
<1>0. /\ t \in Turn /\ t \in Actor /\ Turn \subseteq Actor /\ Releaser \subseteq Actor
      /\ Turn \cap Releaser = {}
      /\ pc \in [Actor -> TurnPc \cup ReleasePc] /\ job \in [Actor -> Job]
      /\ pc[t] \notin {"idle", "restoring"}
      /\ snap' = snap => LatestReady' = LatestReady
  BY KeepBasics, LatestReadySame DEF KeepInv, Owing
<1>1. pc[t] \notin Ended
  BY <1>0, EndedStays DEF Ended, KeepInv
<1>2. Alone(t) /\ \A a \in Actor \ {t} : pc[a] \in Ended
  BY <1>1 DEF KeepInv, Owing, Alone, UnderWay
<1> HIDE DEF LatestReady
<1>3. FinishSave(t)
  <2>1. ASSUME NEW u \in Turn, TurnStep(u) PROVE FALSE
    <3>1. CASE u = t
      BY <1>0, <1>1, <1>2, <2>1, <3>1
         DEF TurnStep, Reuse, Create, BeginRestore, Restored, RestoreFails, RejectTurn, Write,
             Reply, TurnFails, BeginSave, Enter, Alone
    <3>2. CASE u # t
      BY <1>0, <2>1, <3>2
         DEF TurnStep, Reuse, Create, BeginRestore, Restored, RestoreFails, RejectTurn, Write,
             Reply, TurnFails, BeginSave, Enter
    <3> QED  BY <3>1, <3>2
  <2>2. ASSUME NEW a \in Actor, SaveStep(a) PROVE FinishSave(t)
    <3>1. a = t
      BY <1>0, <2>2 DEF SaveStep, BuildArchive, NumberSnapshot, CommitSnapshot, FinishSave, SaveFails, AfterSave
    <3> QED  BY <1>0, <2>2, <3>1 DEF SaveStep, BuildArchive, NumberSnapshot, CommitSnapshot
  <2>3. ASSUME NEW r \in Releaser, ReleaseStep(r) PROVE FALSE
    BY <1>0, <2>3 DEF ReleaseStep, BeginRelease, BeginDelete, Flushed, NothingToRelease
  <2>4. CASE Sweep \/ Archive \/ Restart \/ UNCHANGED vars
    BY <1>0, <1>1, <2>4 DEF Sweep, SweepSandbox, SweptElsewhere, Archive, ArchiveLooks, ArchiveLists, ArchiveDrops, ArchiveErases, Restart, vars
  <2> QED  BY <2>1, <2>2, <2>3, <2>4 DEF Next
<1>4. /\ UNCHANGED <<reg, files, archive, snap, deleted>> /\ pc[t] = "prune"
      /\ \A a \in Actor : pc'[a] \in Ended
  BY <1>0, <1>2, <1>3 DEF FinishSave, AfterSave, Ended
<1>5. LatestReady' = LatestReady /\ job[t].gen = LatestReady /\ t \in archive[LatestReady] /\ LatestReady # 0
  BY <1>0, <1>2, <1>4, GenNat DEF Alone, KeepInv, SnapInv, Numbered
<1>6. \A a \in Actor : pc'[a] \notin {"restoring", "archive", "number", "commit"}
  BY <1>4 DEF Ended
<1>7. reg' # None => t \in files'[reg']
  BY <1>2, <1>4 DEF Alone
<1> QED  BY <1>0, <1>4, <1>5, <1>6, <1>7 DEF Saved

\* No request goes back to not having started.
LEMMA NeverIdleAgain ==
    ASSUME TypeInv, [Next]_vars, NEW t \in Turn, pc'[t] = "idle"
    PROVE  pc[t] = "idle"
<1> USE DEF runtimeVars, storeVars, archiveVars
<1>0. /\ pc \in [Actor -> TurnPc \cup ReleasePc] /\ Turn \subseteq Actor /\ Releaser \subseteq Actor
      /\ t \in Actor
  BY KeepBasics
<1>1. ASSUME NEW u \in Turn, TurnStep(u) PROVE pc[t] = "idle"
  BY <1>0, <1>1 DEF TurnStep, Reuse, Create, BeginRestore, Restored, RestoreFails, RejectTurn, Write,
              Reply, TurnFails, BeginSave, Enter
<1>2. ASSUME NEW b \in Actor, SaveStep(b) PROVE pc[t] = "idle"
  BY <1>0, <1>2 DEF SaveStep, BuildArchive, NumberSnapshot, CommitSnapshot, FinishSave, SaveFails, AfterSave
<1>3. ASSUME NEW r \in Releaser, ReleaseStep(r) PROVE pc[t] = "idle"
  BY <1>0, <1>3 DEF ReleaseStep, BeginRelease, BeginDelete, Flushed, NothingToRelease
<1>4. CASE Sweep \/ Archive \/ Restart \/ UNCHANGED vars
  BY <1>0, <1>4 DEF Sweep, SweepSandbox, SweptElsewhere, Archive, ArchiveLooks, ArchiveLists, ArchiveDrops, ArchiveErases, Restart, vars
<1> QED  BY <1>1, <1>2, <1>3, <1>4 DEF Next

\* A save that fails takes its request out of what it was doing.
LEMMA KeepFails ==
    ASSUME KeepInv, UNCHANGED vars, NEW a \in Actor
    PROVE  ~SaveFails(a)
BY KeepBasics DEF KeepInv, SaveFails, SaveBroken, AfterSave, vars

\* Only an archiving cycle that drops what it has not seen is late.
LEMMA LateStep ==
    ASSUME [Next]_vars, ~LateDrop, ~late
    PROVE  ~late'
<1> USE DEF runtimeVars, storeVars, archiveVars
<1>1. ASSUME NEW t \in Turn, TurnStep(t) PROVE late' = late
  BY <1>1 DEF TurnStep, Reuse, Create, BeginRestore, Restored, RestoreFails, RejectTurn, Write, Reply,
              TurnFails, BeginSave
<1>2. ASSUME NEW a \in Actor, SaveStep(a) PROVE late' = late
  BY <1>2 DEF SaveStep, BuildArchive, NumberSnapshot, CommitSnapshot, FinishSave, SaveFails
<1>3. ASSUME NEW r \in Releaser, ReleaseStep(r) PROVE late' = late
  BY <1>3 DEF ReleaseStep, BeginRelease, BeginDelete, Flushed, NothingToRelease
<1>4. CASE Sweep \/ Restart \/ UNCHANGED vars
  BY <1>4 DEF Sweep, SweepSandbox, SweptElsewhere, Restart, vars
<1>5. CASE Archive
  BY <1>5 DEF Archive, ArchiveLooks, ArchiveLists, ArchiveDrops, ArchiveErases, LateDrop
<1> QED  BY <1>1, <1>2, <1>3, <1>4, <1>5 DEF Next

\* Nor does a cycle drop anything without a step.
LEMMA KeepDrops == TypeInv /\ UNCHANGED vars => ~LateDrop
<1> SUFFICES ASSUME TypeInv, UNCHANGED vars, ArchiveDrops PROVE FALSE
  BY DEF LateDrop
<1>1. cycle \in Cycle /\ cycle.at = "drop" /\ cycle' = cycle
  BY DEF ArchiveDrops, vars, archiveVars, TypeInv, TypeOK
<1>2. cycle' = [cycle EXCEPT !.at = "erase", !.drop = @ \ Rows("failed")]
  BY DEF ArchiveDrops
<1> QED  BY <1>1, <1>2 DEF Cycle

LEMMA KeepStep ==
    ASSUME KeepInv, [Next]_vars, \A a \in Actor : ~SaveFails(a), ~LateDrop
    PROVE  KeepInv'
<1>1. TypeInv' /\ LivesInv' /\ SnapInv' /\ Deletes' /\ Restores'
  BY TypeStep, LivesStep, SnapStep, DeletesStep, RestoresStep DEF KeepInv
<1>3. ~late'
  BY LateStep DEF KeepInv
<1>2. Owing'
  <2> SUFFICES ASSUME NEW t \in owed'
               PROVE  /\ pc'[t] \notin {"idle", "restoring"}
                      /\ UnderWay(t)' => Alone(t)'
                      /\ pc'[t] = "done" /\ ~deleted' => Saved(t)'
    BY DEF Owing
  <2>1. CASE t \notin owed
    BY <2>1, AloneNew
  <2>2. CASE t \in owed
    <3>0. t \in Turn /\ t \in Actor /\ pc[t] \notin {"idle", "restoring"}
      BY <2>2, KeepBasics DEF KeepInv, Owing
    <3>1. CASE ~UnderWay(t)
      <4>1. pc[t] \in {"done", "failed"} /\ pc'[t] = pc[t]
        BY <3>0, <3>1, EndedStays DEF KeepInv, UnderWay, Ended
      <4>2. ~UnderWay(t)'
        BY <4>1 DEF UnderWay, Ended
      <4>3. ASSUME pc'[t] = "done", ~deleted' PROVE Saved(t)'
        <5>1. ~deleted
          <6>1. deleted => deleted'
            BY DEF Next, TurnStep, SaveStep, ReleaseStep, Sweep, vars, storeVars,
                   Reuse, Create, BeginRestore, Restored, RestoreFails, RejectTurn, Write,
                   Reply, TurnFails, BeginSave, BuildArchive, NumberSnapshot, CommitSnapshot,
                   FinishSave, SaveFails, BeginRelease, BeginDelete, Flushed, NothingToRelease,
                   SweepSandbox, SweptElsewhere, Archive, ArchiveLooks, ArchiveLists, ArchiveDrops, ArchiveErases, Restart
          <6> QED  BY <4>3, <6>1
        <5>2. Saved(t)
          BY <2>2, <4>1, <4>3, <5>1 DEF KeepInv, Owing
        <5> QED  BY <2>2, <4>3, <5>1, <5>2, SavedStep
      <4> QED  BY <4>1, <4>2, <4>3
    <3>2. CASE UnderWay(t) /\ UnderWay(t)'
      <4>1. Alone(t)' /\ pc'[t] \notin {"idle", "restoring"}
        BY <2>2, <3>2, AloneStep
      <4>2. pc'[t] # "done"
        BY <3>2 DEF UnderWay, Ended
      <4> QED  BY <4>1, <4>2
    <3>3. CASE UnderWay(t) /\ ~UnderWay(t)'
      <4>1. pc[t] # "done" /\ pc'[t] # "restoring"
        BY <3>3 DEF UnderWay, Ended
      <4>2. pc'[t] # "idle"
        BY <2>2, <3>0, NeverIdleAgain DEF KeepInv
      <4> QED  BY <2>2, <3>3, <4>1, <4>2, SavedNew
    <3> QED  BY <3>1, <3>2, <3>3
  <2> QED  BY <2>1, <2>2
<1> QED  BY <1>1, <1>2, <1>3 DEF KeepInv

(***************************************************************************)
(* WorkspaceKept, which fails in general, holds as long as no save fails   *)
(* and no archiving cycle drops a snapshot that was committed after it had *)
(* looked, whatever restarts, sweeps, archiving cycles, releases and       *)
(* deletions come: a workspace is lost only in one of these two ways.      *)
(***************************************************************************)
THEOREM WhatLosesAWorkspace == Spec /\ SavesSucceed /\ NothingDroppedUnseen => []WorkspaceKept
<1> DEFINE Fine == (\A a \in Actor : ~SaveFails(a)) /\ ~LateDrop
<1>1. Init => KeepInv
  BY TypeInit, LivesInit, SnapInit, DeletesInit
     DEF Init, KeepInv, Restores, Owing, Actor
<1>2. KeepInv /\ [Next]_vars /\ [\A a \in Actor : ~SaveFails(a)]_vars /\ [~LateDrop]_vars => KeepInv'
  <2> SUFFICES ASSUME KeepInv, [Next]_vars, [\A a \in Actor : ~SaveFails(a)]_vars, [~LateDrop]_vars
               PROVE  KeepInv'
    OBVIOUS
  <2>1. CASE Fine
    BY <2>1, KeepStep
  <2>2. CASE UNCHANGED vars
    <3>1. \A a \in Actor : ~SaveFails(a)
      BY <2>2, KeepFails
    <3>2. ~LateDrop
      BY <2>2, KeepDrops DEF KeepInv
    <3> QED  BY <2>2, <3>1, <3>2, KeepStep
  <2> QED  BY <2>1, <2>2
<1>3. KeepInv => WorkspaceKept
  <2> SUFFICES ASSUME KeepInv, NEW t \in owed, pc[t] = "done", ~deleted
               PROVE  \E g \in stored : g = LatestReady /\ t \in archive[g]
    BY DEF WorkspaceKept, KeepInv, TypeInv, TypeOK
  <2>1. Saved(t)
    BY DEF KeepInv, Owing
  <2>2. LatestReady \in stored
    BY <2>1 DEF Saved, KeepInv, SnapInv, Kept
  <2> QED  BY <2>1, <2>2 DEF Saved
<1> QED  BY <1>1, <1>2, <1>3, PTL DEF Spec, SavesSucceed, NothingDroppedUnseen
=============================================================================
