------------------------ MODULE ConversationRuntimes ------------------------
(***************************************************************************)
(* The runtime of one persistent conversation: its work directory and      *)
(* sandbox, the snapshots that outlive it, and the requests that use and   *)
(* release it.                                                             *)
(*                                                                         *)
(* Everything runs on one event loop, so a step lasts from one await that  *)
(* suspends to the next.  Requests suspend while a snapshot is restored,   *)
(* while the agent works, while the title is generated, while memory is    *)
(* flushed and while a thread saves a snapshot; the thread itself reads    *)
(* the directory, numbers and uploads, commits, and prunes.                *)
(*                                                                         *)
(* Content is the set of turns whose files are in it.  A turn creates at   *)
(* most one runtime, which is named after it.                              *)
(***************************************************************************)
EXTENDS Naturals, FiniteSets

CONSTANTS
    Turn,         \* messages sent to the conversation
    Releaser,     \* releases of its runtime
    None,         \* no runtime
    MaxGen,       \* bound: generations of snapshots
    Reasons,      \* the reasons for a release in this instance
    Events        \* what else happens in this instance

Actor == Turn \cup Releaser
Gen   == 1..MaxGen

AllReasons == {"user", "expired", "delete"}
AllEvents  == {"upload_fails", "archived", "archived_again", "swept_elsewhere", "restart"}

ASSUME RuntimeAssumption ==
    /\ MaxGen \in Nat \ {0}
    /\ None \notin Turn
    /\ Turn \cap Releaser = {}
    /\ Reasons \subseteq AllReasons
    /\ Events \subseteq AllEvents

VARIABLES
    reg,      \* _runtimes: the registered runtime, or None
    workdir,  \* the runtimes whose directory exists
    sandbox,  \* the runtimes whose container runs
    swept,    \* history: those registered here whose container another process took
    files,    \* files[r]: content of the directory of r
    dirty,    \* the runtimes marked dirty
    marked,   \* _ACTIVE_CONVERSATION_EXECUTIONS: the turns that count as active
    snap,     \* snap[g]: status of the snapshot row of generation g
    stored,   \* the generations whose archive is in the object store
    archive,  \* archive[g]: content of that archive
    deleted,  \* the conversation row is gone
    doomed,   \* the archives on record when it was deleted
    cycle,    \* locals of the archiving cycle that has the conversation in hand
    pc,       \* pc[a]: where request a is suspended
    uses,     \* uses[t]: the runtime that turn t was given
    job,      \* job[a]: locals of the snapshot thread of a
    reason,   \* reason[r]: why r releases
    racing,   \* history: racing[t], releases under way when t was marked
    owed,     \* history: turns that wrote into the registered runtime with no
              \* other request under way
    archived, \* history: an archiving cycle has dropped rows
    late      \* history: and among them a ready one committed after it had looked

runtimeVars == <<reg, workdir, sandbox, swept, files, dirty, marked>>
storeVars   == <<snap, stored, archive, deleted, doomed>>
archiveVars == <<cycle, archived, late>>
vars == <<runtimeVars, storeVars, pc, uses, job, reason, racing, owed, archiveVars>>

RowStatus == {"none", "ready", "superseded", "failed"}
Saving    == {"archive", "number", "commit", "prune"}
TurnPc    == {"idle", "restoring", "executing", "replied", "done", "failed"} \cup Saving
ReleasePc == {"idle", "flushing", "done", "failed"} \cup Saving
Ended     == {"idle", "done", "failed"}

Job == [rt: Turn \cup {None}, content: SUBSET Turn, prev: 0..MaxGen, gen: 0..MaxGen]
NoJob == [rt |-> None, content |-> {}, prev |-> 0, gen |-> 0]

\* The row that is kept, and those that go.
Cycle == [at: {"idle", "rows", "drop", "erase"}, keep: 0..MaxGen, drop: SUBSET Gen]
NoCycle == [at |-> "idle", keep |-> 0, drop |-> {}]

TypeOK ==
    /\ reg \in Turn \cup {None}
    /\ workdir \subseteq Turn
    /\ sandbox \subseteq Turn
    /\ swept \subseteq Turn
    /\ files \in [Turn -> SUBSET Turn]
    /\ dirty \subseteq Turn
    /\ marked \subseteq Turn
    /\ snap \in [Gen -> RowStatus]
    /\ stored \subseteq Gen
    /\ archive \in [Gen -> SUBSET Turn]
    /\ deleted \in BOOLEAN
    /\ doomed \subseteq Gen
    /\ pc \in [Actor -> TurnPc \cup ReleasePc]
    /\ uses \in [Turn -> Turn \cup {None}]
    /\ job \in [Actor -> Job]
    /\ reason \in [Releaser -> AllReasons \cup {"none"}]
    /\ racing \in [Turn -> SUBSET Releaser]
    /\ owed \subseteq Turn
    /\ cycle \in Cycle
    /\ archived \in BOOLEAN
    /\ late \in BOOLEAN

\* A new conversation, or one that an earlier process has left a snapshot of.
Init ==
    /\ reg = None
    /\ workdir = {} /\ sandbox = {} /\ swept = {}
    /\ files = [t \in Turn |-> {}]
    /\ dirty = {} /\ marked = {}
    /\ \/ snap = [g \in Gen |-> "none"] /\ stored = {}
       \/ snap = [g \in Gen |-> IF g = 1 THEN "ready" ELSE "none"] /\ stored = {1}
    /\ archive = [g \in Gen |-> {}]
    /\ deleted = FALSE
    /\ doomed = {}
    /\ pc = [a \in Actor |-> "idle"]
    /\ uses = [t \in Turn |-> None]
    /\ job = [a \in Actor |-> NoJob]
    /\ reason = [r \in Releaser |-> "none"]
    /\ owed = {}
    /\ racing = [t \in Turn |-> {}]
    /\ cycle = NoCycle
    /\ archived = FALSE /\ late = FALSE

-----------------------------------------------------------------------------
(* The snapshot rows                                                       *)

\* The highest generation in S, 0 when there is none.
Highest(S) == IF S = {} THEN 0 ELSE CHOOSE g \in S : \A h \in S : h <= g

Rows(st)       == {g \in Gen : snap[g] = st}
LatestReady    == Highest(Rows("ready"))          \* _get_latest_ready_snapshot
LatestRow      == Highest(Gen \ Rows("none"))

UnderWay(a) == pc[a] \notin Ended

\* A request that starts disturbs those under way.
Disturb == owed' = {t \in owed : ~UnderWay(t)}

-----------------------------------------------------------------------------
(* Turns: execute_persistent_conversation_turn                             *)

\* The turn has its runtime r and counts as active from here on.
Enter(t, r) ==
    /\ pc' = [pc EXCEPT ![t] = "executing"]
    /\ uses' = [uses EXCEPT ![t] = r]
    /\ marked' = marked \cup {t}
    /\ racing' = [racing EXCEPT ![t] = {q \in Releaser : UnderWay(q)}]

\* What is kept about turn t is forgotten with it.
Leave(t) ==
    /\ uses' = [uses EXCEPT ![t] = None]
    /\ racing' = [racing EXCEPT ![t] = {}]

\* get_or_create_runtime finds a registered runtime; looking it up touches it,
\* so it is never found expired.
Reuse(t) ==
    /\ pc[t] = "idle" /\ ~deleted
    /\ reg # None
    /\ Enter(t, reg)
    /\ Disturb
    /\ UNCHANGED <<reg, workdir, sandbox, swept, files, dirty, storeVars, job, reason, archiveVars>>

\* ... finds none and no snapshot: nothing suspends until it is registered.
Create(t) ==
    /\ pc[t] = "idle" /\ ~deleted
    /\ reg = None
    /\ Rows("ready") = {}
    /\ Enter(t, t)
    /\ reg' = t
    /\ workdir' = workdir \cup {t}
    /\ sandbox' = sandbox \cup {t}
    /\ Disturb
    /\ UNCHANGED <<swept, files, dirty, storeVars, job, reason, archiveVars>>

\* ... finds none, and a snapshot that a thread downloads.
BeginRestore(t) ==
    /\ pc[t] = "idle" /\ ~deleted
    /\ reg = None
    /\ Rows("ready") # {}
    /\ workdir' = workdir \cup {t}
    /\ job' = [job EXCEPT ![t].prev = LatestReady]
    /\ pc' = [pc EXCEPT ![t] = "restoring"]
    /\ Disturb
    /\ UNCHANGED <<reg, sandbox, swept, files, dirty, marked, storeVars, uses, reason, racing, archiveVars>>

\* The restored runtime takes the slot, whatever is in it by now.
Restored(t) ==
    /\ pc[t] = "restoring"
    /\ job[t].prev \in stored
    /\ files' = [files EXCEPT ![t] = archive[job[t].prev]]
    /\ sandbox' = sandbox \cup {t}
    /\ reg' = t
    /\ Enter(t, t)
    /\ job' = [job EXCEPT ![t] = NoJob]
    /\ UNCHANGED <<workdir, swept, dirty, storeVars, reason, owed, archiveVars>>

\* The archive was pruned or deleted meanwhile; the directory stays behind.
RestoreFails(t) ==
    /\ pc[t] = "restoring"
    /\ job[t].prev \notin stored
    /\ pc' = [pc EXCEPT ![t] = "failed"]
    /\ job' = [job EXCEPT ![t] = NoJob]
    /\ UNCHANGED <<runtimeVars, storeVars, uses, reason, racing, owed, archiveVars>>

\* An error before the agent starts (workspace limit, an upload): the turn
\* ends, its mark stays.
RejectTurn(t) ==
    /\ pc[t] = "executing" /\ t \notin files[uses[t]]
    /\ pc' = [pc EXCEPT ![t] = "failed"]
    /\ Leave(t)
    /\ UNCHANGED <<runtimeVars, storeVars, job, reason, owed, archiveVars>>

\* The agent's tools write into the directory through the sandbox.
Write(t) ==
    /\ pc[t] = "executing" /\ t \notin files[uses[t]]
    /\ uses[t] \in workdir \cap sandbox
    /\ files' = [files EXCEPT ![uses[t]] = @ \cup {t}]
    /\ owed' = IF uses[t] = reg /\ \A a \in Actor \ {t} : ~UnderWay(a)
               THEN owed \cup {t} ELSE owed
    /\ UNCHANGED <<reg, workdir, sandbox, swept, dirty, marked, storeVars, pc, uses, job, reason, racing, archiveVars>>

\* The agent is done: the mark goes, the answer is stored (which fails once
\* the conversation is deleted), the title is generated.
Reply(t) ==
    /\ pc[t] = "executing"
    /\ marked' = marked \ {t}
    /\ pc' = [pc EXCEPT ![t] = IF deleted THEN "failed" ELSE "replied"]
    /\ UNCHANGED <<reg, workdir, sandbox, swept, files, dirty, storeVars, uses, job, reason, racing, owed, archiveVars>>

\* The agent reports an error or the client goes away.
TurnFails(t) ==
    /\ pc[t] = "executing"
    /\ marked' = marked \ {t}
    /\ pc' = [pc EXCEPT ![t] = "failed"]
    /\ owed' = owed \ {t}
    /\ Leave(t)
    /\ UNCHANGED <<reg, workdir, sandbox, swept, files, dirty, storeVars, job, reason, archiveVars>>

\* The turn's own runtime is marked dirty; the registered one is snapshotted.
BeginSave(t) ==
    /\ pc[t] = "replied"
    /\ dirty' = dirty \cup {uses[t]}
    /\ job' = [job EXCEPT ![t].rt = reg]
    /\ pc' = [pc EXCEPT ![t] = IF reg = None THEN "done" ELSE "archive"]
    /\ Leave(t)
    /\ UNCHANGED <<reg, workdir, sandbox, swept, files, marked, storeVars, reason, owed, archiveVars>>

-----------------------------------------------------------------------------
(* snapshot_runtime and _create_snapshot_record                            *)

\* release_runtime after its last await: whatever is registered by now is
\* removed, else the runtime that was looked up before.
Pop(rt) ==
    LET victim == IF reg = None THEN rt ELSE reg
    IN  /\ reg' = None
        /\ workdir' = workdir \ {victim}
        /\ sandbox' = sandbox \ {victim}
        /\ swept' = swept \ {victim}
        /\ files' = [q \in Turn |-> IF q = victim THEN {} ELSE files[q]]

\* A turn is over once its snapshot is; a release goes on to remove the runtime.
AfterSave(a) ==
    /\ pc' = [pc EXCEPT ![a] = "done"]
    /\ job' = [job EXCEPT ![a] = NoJob]
    /\ IF a \in Turn THEN UNCHANGED <<reg, workdir, sandbox, swept, files>> ELSE Pop(job[a].rt)

BuildArchive(a) ==
    /\ pc[a] = "archive"
    /\ job[a].rt \in workdir
    /\ job' = [job EXCEPT ![a].content = files[job[a].rt]]
    /\ pc' = [pc EXCEPT ![a] = "number"]
    /\ UNCHANGED <<runtimeVars, storeVars, uses, reason, racing, owed, archiveVars>>

\* The next generation after the latest ready one; the archive is uploaded
\* under it before the row is inserted.
NumberSnapshot(a) ==
    /\ pc[a] = "number" /\ ~deleted
    /\ LatestReady < MaxGen
    /\ LET g == LatestReady + 1
       IN  /\ job' = [job EXCEPT ![a].prev = LatestReady, ![a].gen = g]
           /\ stored' = stored \cup {g}
           /\ archive' = [archive EXCEPT ![g] = job[a].content]
    /\ pc' = [pc EXCEPT ![a] = "commit"]
    /\ UNCHANGED <<runtimeVars, snap, deleted, doomed, uses, reason, racing, owed, archiveVars>>

\* Mutant: the row is inserted before it is ready and never updated.
InsertPending(a) == [snap EXCEPT ![job[a].gen] = "pending"]

\* Mutant: the previous row stays as it is.
KeepPrevious(a) == [snap EXCEPT ![job[a].gen] = "ready"]

\* The new row is ready; the row read as the latest ready one is superseded.
Supersede(a) ==
    [g \in Gen |-> IF g = job[a].gen THEN "ready"
                   ELSE IF g = job[a].prev THEN "superseded" ELSE snap[g]]

\* The previous row, when there was one, is still there to be updated.
PreviousKept(a) == job[a].prev # 0 => snap[job[a].prev] # "none"

\* The insert passes the unique index and the foreign key.
CommitSnapshot(a) ==
    /\ pc[a] = "commit" /\ ~deleted
    /\ snap[job[a].gen] = "none"
    /\ PreviousKept(a)
    /\ snap' = Supersede(a)
    /\ pc' = [pc EXCEPT ![a] = "prune"]
    /\ UNCHANGED <<runtimeVars, stored, archive, deleted, doomed, uses, job, reason, racing, owed, archiveVars>>

\* Mutant: the archive just uploaded is taken for the previous one.
PruneOwn(a) == stored \ {job[a].gen}

\* The archive of the superseded generation.
PrunePrevious(a) == stored \ {job[a].prev}

FinishSave(a) ==
    /\ pc[a] = "prune"
    /\ stored' = PrunePrevious(a)
    /\ dirty' = dirty \ {job[a].rt}
    /\ AfterSave(a)
    /\ UNCHANGED <<marked, snap, archive, deleted, doomed, uses, reason, racing, owed, archiveVars>>

\* _record_failed_snapshot: a row of its own, after every other row.
RecordFailed ==
    snap' = IF deleted THEN snap ELSE [snap EXCEPT ![LatestRow + 1] = "failed"]

\* What makes the thread fail: the directory, the conversation or the number
\* is gone, or the upload fails.
SaveBroken(a) ==
    \/ pc[a] = "archive" /\ job[a].rt \notin workdir
    \/ pc[a] = "number" /\ deleted
    \/ pc[a] = "number" /\ "upload_fails" \in Events
    \/ pc[a] = "commit" /\ (deleted \/ snap[job[a].gen] # "none" \/ ~PreviousKept(a))

SaveFails(a) ==
    /\ SaveBroken(a)
    /\ deleted \/ LatestRow < MaxGen
    /\ RecordFailed
    /\ AfterSave(a)
    /\ UNCHANGED <<dirty, marked, stored, archive, deleted, doomed, uses, reason, racing, owed, archiveVars>>

-----------------------------------------------------------------------------
(* release_runtime and its callers                                         *)

\* Mutant: the endpoint does not look at the marks.
UserMayReleaseAnyTime == ~deleted

\* The endpoint skips the release while a turn counts as active.
UserMayRelease == ~deleted /\ marked = {}

\* Memory is flushed first; nothing is checked again afterwards.  A runtime
\* expires after ttl_minutes without a touch, and working in it does not touch
\* it: so it may be found expired whenever it is not just being looked up.
BeginRelease(r, why) ==
    /\ pc[r] = "idle"
    /\ \/ why = "user" /\ UserMayRelease
       \/ why = "expired" /\ reg # None
    /\ reason' = [reason EXCEPT ![r] = why]
    /\ pc' = [pc EXCEPT ![r] = "flushing"]
    /\ Disturb
    /\ UNCHANGED <<runtimeVars, storeVars, uses, job, racing, archiveVars>>

\* delete_agent_conversation: the rows go first, the archives on record last,
\* after the runtime is released.  An archiving cycle that has not committed
\* fails on the conversation it wants to update.
BeginDelete(r) ==
    /\ pc[r] = "idle" /\ ~deleted
    /\ "delete" \in Reasons
    /\ deleted' = TRUE
    /\ snap' = [g \in Gen |-> "none"]
    /\ doomed' = Rows("ready") \cup Rows("superseded")
    /\ reason' = [reason EXCEPT ![r] = "delete"]
    /\ pc' = [pc EXCEPT ![r] = "flushing"]
    /\ cycle' = IF cycle.at \in {"rows", "drop"} THEN NoCycle ELSE cycle
    /\ Disturb
    /\ UNCHANGED <<runtimeVars, stored, archive, uses, job, racing, archived, late>>

EraseDoomed(r) == stored' = IF reason[r] = "delete" THEN stored \ doomed ELSE stored

\* A dirty runtime is saved before it is removed, unless for a deletion.
Flushed(r) ==
    /\ pc[r] = "flushing"
    /\ reg # None
    /\ IF reg \in dirty /\ reason[r] # "delete"
       THEN /\ pc' = [pc EXCEPT ![r] = "archive"]
            /\ job' = [job EXCEPT ![r].rt = reg]
            /\ UNCHANGED <<reg, workdir, sandbox, swept, files, stored>>
       ELSE /\ pc' = [pc EXCEPT ![r] = "done"]
            /\ Pop(reg)
            /\ EraseDoomed(r)
            /\ UNCHANGED job
    /\ UNCHANGED <<dirty, marked, snap, archive, deleted, doomed, uses, reason, racing, owed, archiveVars>>

NothingToRelease(r) ==
    /\ pc[r] = "flushing"
    /\ reg = None
    /\ pc' = [pc EXCEPT ![r] = "done"]
    /\ EraseDoomed(r)
    /\ UNCHANGED <<runtimeVars, snap, archive, deleted, doomed, uses, job, reason, racing, owed, archiveVars>>

-----------------------------------------------------------------------------
(* The background loops and the process                                    *)

\* Mutant: the sweep does not ask which sandboxes are registered.
SweepableAny == sandbox

\* Sandboxes that no runtime registered in this process has.
Sweepable == sandbox \ {reg}

\* _cleanup_orphaned_sandboxes
SweepSandbox(q) ==
    /\ q \in Sweepable
    /\ sandbox' = sandbox \ {q}
    /\ UNCHANGED <<reg, workdir, swept, files, dirty, marked, storeVars, pc, uses, job, reason, racing, owed, archiveVars>>

\* The same sweep in another process, which has a registry of its own: a process
\* of a Feishu publication, or another worker of the gateway.
SweptElsewhere ==
    /\ "swept_elsewhere" \in Events
    /\ reg \in sandbox
    /\ sandbox' = sandbox \ {reg}
    /\ swept' = swept \cup {reg}
    /\ UNCHANGED <<reg, workdir, files, dirty, marked, storeVars, pc, uses, job, reason, racing, owed, archiveVars>>

\* Mutant: the newest row is kept, ready or not.
KeptRowNewest == LatestRow

\* The row that an archiving cycle keeps.
KeptRow == LatestReady

\* _archive_conversation looks for the latest ready row (of a conversation that
\* is not archived yet; the next message makes it one that is not) ...
ArchiveLooks ==
    /\ "archived" \in Events /\ ~deleted
    /\ archived => "archived_again" \in Events
    /\ cycle.at = "idle"
    /\ cycle' = [at |-> "rows", keep |-> KeptRow, drop |-> {}]
    /\ UNCHANGED <<runtimeVars, storeVars, pc, uses, job, reason, racing, owed, archived, late>>

\* ... asks again, for every row, and may see rows committed meanwhile ...
ArchiveLists ==
    /\ cycle.at = "rows"
    /\ cycle' = [cycle EXCEPT !.at = "drop", !.drop = Gen \ (Rows("none") \cup {cycle.keep})]
    /\ UNCHANGED <<runtimeVars, storeVars, pc, uses, job, reason, racing, owed, archived, late>>

\* A row that it is about to drop became the latest ready one after it looked.
NewerListed == \E g \in cycle.drop : snap[g] = "ready" /\ g > cycle.keep

\* ... commits that all but the kept one go (a failed one names no archive) ...
ArchiveDrops ==
    /\ cycle.at = "drop"
    /\ snap' = [g \in Gen |-> IF g \in cycle.drop THEN "none" ELSE snap[g]]
    /\ cycle' = [cycle EXCEPT !.at = "erase", !.drop = @ \ Rows("failed")]
    /\ archived' = TRUE
    /\ late' = (late \/ NewerListed)
    /\ UNCHANGED <<runtimeVars, stored, archive, deleted, doomed, pc, uses, job, reason, racing, owed>>

\* ... and has the archives of those rows deleted.
ArchiveErases ==
    /\ cycle.at = "erase"
    /\ stored' = stored \ cycle.drop
    /\ cycle' = NoCycle
    /\ UNCHANGED <<runtimeVars, snap, archive, deleted, doomed, pc, uses, job, reason, racing, owed, archived, late>>

\* The process dies; the next one removes every sandbox and knows no runtime.
\* The directories stay, and nothing reads them again.
Restart ==
    /\ "restart" \in Events
    /\ reg' = None /\ sandbox' = {} /\ swept' = {}
    /\ dirty' = {} /\ marked' = {}
    /\ pc' = [a \in Actor |-> IF pc[a] \in Ended THEN pc[a] ELSE "failed"]
    /\ uses' = [t \in Turn |-> None]
    /\ racing' = [t \in Turn |-> {}]
    /\ job' = [a \in Actor |-> NoJob]
    /\ files' = [q \in Turn |-> {}]
    /\ cycle' = NoCycle
    /\ UNCHANGED <<workdir, storeVars, reason, owed, archived, late>>

-----------------------------------------------------------------------------
TurnStep(t) ==
    \/ Reuse(t) \/ Create(t) \/ BeginRestore(t) \/ Restored(t) \/ RestoreFails(t)
    \/ RejectTurn(t) \/ Write(t) \/ Reply(t) \/ TurnFails(t) \/ BeginSave(t)

SaveStep(a) ==
    \/ BuildArchive(a) \/ NumberSnapshot(a) \/ CommitSnapshot(a) \/ FinishSave(a) \/ SaveFails(a)

ReleaseStep(r) ==
    \/ \E why \in Reasons : BeginRelease(r, why)
    \/ BeginDelete(r) \/ Flushed(r) \/ NothingToRelease(r)

Sweep == SweptElsewhere \/ \E q \in Turn : SweepSandbox(q)

Archive == ArchiveLooks \/ ArchiveLists \/ ArchiveDrops \/ ArchiveErases

Next ==
    \/ \E t \in Turn : TurnStep(t)
    \/ \E a \in Actor : SaveStep(a)
    \/ \E r \in Releaser : ReleaseStep(r)
    \/ Sweep \/ Archive \/ Restart

Spec == Init /\ [][Next]_vars

-----------------------------------------------------------------------------
(***************************************************************************)
(* Properties                                                              *)
(***************************************************************************)

\* Two savers read the same latest generation, upload under the same number
\* and race to insert it: still at most one row is ready, and it is the newest
\* one that was ever committed.  (An archiving cycle in between removes the
\* superseded row whose number the unique index would refuse.)
OneReadySnapshot ==
    ~archived =>
        \A g, h \in Gen : snap[g] = "ready" /\ snap[h] \in {"ready", "superseded"} => h <= g

\* The archive of the latest ready row is never pruned, by whichever saver,
\* archiving cycle or deletion: the next runtime can be restored.  (An archiving
\* cycle that dropped a row committed after it had looked may still erase the
\* archive that a later saver uploads under the same number.)
ReadyIsRestorable == Rows("ready") # {} /\ ~late => LatestReady \in stored

\* However many releases, sweeps and restores overlap: the runtime handed to
\* the next request has its directory, and it has its container unless another
\* process, which does not know it, took that one for an orphan.
RegisteredRuntimeLives == reg # None => reg \in workdir /\ reg \in sandbox \cup swept

\* What the endpoint's check is worth: a turn loses its directory only to a
\* deletion, to the idle timeout, or to a release that was past the check when
\* the turn got its runtime.
GuardedRelease ==
    \A t \in Turn :
        pc[t] = "executing" /\ uses[t] \notin workdir =>
            \/ racing[t] # {}
            \/ \E r \in Releaser : reason[r] \in {"expired", "delete"}

\* An archiving cycle drops a snapshot that was committed between its two
\* queries.
LateDrop == ArchiveDrops /\ NewerListed

\* The generation that is restored never goes back, whatever the order in
\* which overlapping savers commit and whatever an archiving cycle drops in
\* between, unless the conversation is deleted or that cycle has taken a row
\* for an old one that was committed after it had looked.
GenerationsGrow == [][~deleted' /\ ~LateDrop => LatestReady' >= LatestReady]_vars

\* A completed turn that wrote into the registered runtime and overlapped no
\* other request since keeps its files: they are in the registered runtime or
\* in the snapshot that would be restored, or are being saved.
WorkspaceKept ==
    \A t \in owed :
        pc[t] = "done" /\ ~deleted =>
            \/ reg # None /\ t \in files[reg]
            \/ \E g \in stored : g = LatestReady /\ t \in archive[g]
            \/ \E a \in Actor : pc[a] \in Saving
=============================================================================
