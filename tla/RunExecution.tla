---------------------------- MODULE RunExecution ----------------------------
(***************************************************************************)
(* One run of one project task: the scheduler that walks the plan, the     *)
(* asyncio tasks that execute internal steps, the external hosts that poll *)
(* for dispatches, and the user's calls on the run.                        *)
(*                                                                         *)
(* Every handler is one database transaction; the API gateway runs on one  *)
(* event loop and awaits nothing inside a transaction, so a transaction is *)
(* one step.  What is spread over several steps are the sequences of       *)
(* transactions: an executor's start and finish, a host's poll, ack,       *)
(* progress and final report.                                              *)
(***************************************************************************)
EXTENDS Naturals, FiniteSets

CONSTANTS
    NumNodes,    \* number of planned steps; a step is named by its sequence number
    Deps,        \* Deps[n]: the steps that step n depends on (dependency_node_ids)
    External,    \* the host_action steps, run by an external agent's host
    Host,        \* external hosts, one binding each
    HostOf,      \* HostOf[n]: the host whose agent is selected for external step n
    MaxBatch,    \* bound: scheduling transactions that create dispatches
    MaxCrashes,  \* bound: restarts of the API gateway process
    UserOps      \* the run endpoints users call in this instance

Node     == 1..NumNodes
Internal == Node \ External
Dispatch == Node \X (1..MaxBatch)

\* An internal step gets an ephemeral agent of its own, named by the step; so
\* is the bound agent of an external one.  Stray stands for the ephemeral
\* agents provisioned for host steps, which no host serves.
Stray     == NumNodes + 1
Ephemeral == Internal \cup {Stray}

AllUserOps == {"schedule", "start", "complete", "cancel", "refresh"}

ASSUME RunAssumption ==
    /\ NumNodes \in Nat \ {0}
    /\ MaxBatch \in Nat
    /\ MaxCrashes \in Nat
    /\ External \subseteq Node
    /\ Deps \in [Node -> SUBSET Node]
    /\ \A n \in Node : n \notin Deps[n]
    /\ HostOf \in [Node -> Host]
    /\ UserOps \subseteq AllUserOps

PendingNode  == {"pending", "queued"}
TerminalNode == {"completed", "failed", "cancelled", "blocked"}
NodeStatus   == {"pending", "queued", "assigned", "running", "completed", "failed", "blocked"}
TaskStatus   == {"queued", "assigned", "running", "completed", "failed", "blocked"}
RunStatus    == {"queued", "scheduled", "running", "completed", "failed", "cancelled", "blocked"}
TerminalRun  == {"completed", "failed", "cancelled"}
DispatchStatus == {"none", "pending", "acked", "running", "completed", "failed"}

VARIABLES
    db,       \* the committed rows of the run (record, see Rows)
    exec,     \* exec[n]: the executor coroutine of internal step n
    worker,   \* worker[n]: the agent that executes step n (0: none yet)
    host,     \* host[h]: where host h is in its loop, and with which dispatch
    launched, \* the launch request has made its scheduling call
    crashes,  \* restarts so far
    ended,    \* history: steps that have been in a terminal status
    turns,    \* history: turns[n], how often an executor began step n
    tries     \* history: tries[d], how often a host began dispatch d

vars == <<db, exec, worker, host, launched, crashes, ended, turns, tries>>

(***************************************************************************)
(* The rows: step, task and run status, run.completed_at, dispatches by    *)
(* (step, batch) with the batch number standing for created_at (a          *)
(* transaction's rows share one timestamp), the agent last written to      *)
(* task.assignee_agent_id and run.runtime_context (0: nobody), and the     *)
(* ephemeral agents retired so far.                                        *)
(***************************************************************************)
Rows == [node: [Node -> NodeStatus], task: TaskStatus, run: RunStatus,
         completedAt: BOOLEAN, disp: [Dispatch -> DispatchStatus],
         batch: 0..MaxBatch, assignee: 0..Stray, retired: SUBSET Ephemeral]

NoDispatch == <<0, 0>>

-----------------------------------------------------------------------------
(* service.py: task and run state derived from the steps                   *)

\* _resolve_task_status over the steps of the task, first match wins.
ResolveTask(st) ==
    LET some(S) == \E n \in Node : st[n] \in S
    IN  IF some({"failed"}) THEN "failed"
        ELSE IF some({"running"}) THEN "running"
        ELSE IF some({"assigned"}) THEN "assigned"
        ELSE IF some(PendingNode) THEN "queued"
        ELSE IF some({"blocked"}) THEN "blocked"
        ELSE "completed"

\* Mutant: the recorded agent is retired without asking whether it is ephemeral.
RetireAnyAgent(s) ==
    IF s.run \in TerminalRun \cup {"blocked"}
    THEN [s EXCEPT !.retired = @ \cup {s.assignee}]
    ELSE s

\* retire_ephemeral_run_agents: only the agent recorded last is looked up.
RetireAgents(s) ==
    IF s.run \in TerminalRun \cup {"blocked"}
    THEN [s EXCEPT !.retired = @ \cup ({s.assignee} \cap Ephemeral)]
    ELSE s

\* Mutant: completed_at is recomputed from the task alone.
ReconcileClearingStamp(s) ==
    LET task == ResolveTask(s.node)
        done == task \in {"completed", "failed"}
        run  == IF s.run \in TerminalRun \/ ~done THEN s.run ELSE task
    IN  RetireAgents([s EXCEPT !.task = task, !.run = run, !.completedAt = done])

\* reconcile_run_state
Reconcile(s) ==
    LET task  == ResolveTask(s.node)
        over  == s.run \in TerminalRun
        open  == task \notin {"completed", "failed"}
        run   == IF over \/ open THEN s.run
                 ELSE IF task = "failed" THEN "failed" ELSE "completed"
    IN  RetireAgents([s EXCEPT !.task = task, !.run = run,
                               !.completedAt = over \/ ~open])

-----------------------------------------------------------------------------
(* scheduler.py                                                            *)

\* Mutant: a dependency counts as done once it was handed out.
NodeIsReadyEarly(s, n) == \A m \in Deps[n] : s.node[m] \notin PendingNode

\* node_is_ready: a dependency in any terminal status counts as done.
NodeIsReady(s, n) == \A m \in Deps[n] : s.node[m] \in TerminalNode

\* Mutant: every unfinished step may be scheduled again.
ReadyUnfinishedNodes(s) == {n \in Node : s.node[n] \notin TerminalNode /\ NodeIsReady(s, n)}

\* get_ready_execution_nodes_for_run
ReadyNodes(s) == {n \in Node : s.node[n] \in PendingNode /\ NodeIsReady(s, n)}

\* Mutant: the run is closed whatever its status.
CloseAnyRun(s) == Reconcile([s EXCEPT !.run = "completed", !.completedAt = TRUE])

\* No step is pending: the run is closed unless it already is.
CloseRun(s) ==
    IF s.run \in TerminalRun \cup {"blocked"} THEN s
    ELSE Reconcile([s EXCEPT !.run = "completed", !.completedAt = TRUE])

\* The agent on record once the loop is past step k: that of the last step
\* that recorded one.  A blocked step records a stray agent, or none when its
\* host is bound but unavailable (silent).
AssigneeAfter(s, recording, blocked, k) ==
    LET past == {m \in recording : m <= k}
        last == CHOOSE m \in past : \A l \in past : l <= m
    IN  IF past = {} THEN s.assignee ELSE IF last \in blocked THEN Stray ELSE last

\* The loop of _schedule_next_pending_step over the ready steps: internal
\* steps are assigned, external ones are dispatched when their host is
\* available and blocked when it is not.  Later steps overwrite what earlier
\* ones wrote to the task and the run, so the last ready step decides; the
\* agent on record when a step blocks is retired.
ScheduleBatch(s, ready, blocked, silent, last) ==
    LET queued == (ready \ blocked) \cap External
        batch  == IF queued = {} THEN s.batch ELSE s.batch + 1
        assigneeAfter(k) == AssigneeAfter(s, ready \ silent, blocked, k)
        newStatus(n) == IF n \in blocked THEN "blocked"
                        ELSE IF n \in queued THEN "queued" ELSE "assigned"
        t == [s EXCEPT
                !.node = [n \in Node |-> IF n \in ready THEN newStatus(n) ELSE @[n]],
                !.disp = [d \in Dispatch |-> IF d[1] \in queued /\ d[2] = batch
                                             THEN "pending" ELSE @[d]],
                !.batch = batch,
                !.assignee = assigneeAfter(NumNodes),
                !.retired = @ \cup (Ephemeral \cap {assigneeAfter(b) : b \in blocked})]
    IN  IF last \in blocked
        THEN Reconcile([t EXCEPT !.task = "blocked", !.run = "blocked"])
        ELSE [t EXCEPT !.task = "assigned", !.run = "scheduled", !.completedAt = FALSE]

\* The rows and the new executors when these ready steps are blocked (the
\* bound MaxBatch cuts off further dispatches).
BatchOutcomes(s, ready, blocked) ==
    LET lasts == {m \in ready : \A n \in ready : n <= m}
        fits  == ready \cap External \subseteq blocked \/ s.batch < MaxBatch
    IN  {[rows |-> ScheduleBatch(s, ready, blocked, silent, last),
          spawn |-> ready \cap Internal] :
             silent \in SUBSET blocked, last \in IF fits THEN lasts ELSE {}}

\* Mutant: the run is closed when no step is ready, instead of none pending.
ScheduleOutcomesClosingEarly(s) ==
    LET ready == ReadyNodes(s)
    IN  IF ready = {} THEN {[rows |-> CloseRun(s), spawn |-> {}]}
        ELSE BatchOutcomes(s, ready, {})

\* _schedule_next_pending_step: the rows it may commit, with the internal
\* steps for which it creates an executor task.
ScheduleOutcomes(s) ==
    LET ready == ReadyNodes(s)
    IN  IF \A n \in Node : s.node[n] \notin PendingNode
        THEN {[rows |-> CloseRun(s), spawn |-> {}]}
        ELSE IF ready = {} THEN {[rows |-> s, spawn |-> {}]}
        ELSE UNION {BatchOutcomes(s, ready, blocked) : blocked \in SUBSET (ready \cap External)}

\* The transaction of execute_assigned_node before the turn.
StartNode(s, n) == [s EXCEPT !.node[n] = "running", !.task = "running", !.run = "running"]

\* The transaction after a successful turn, and of complete_dispatch.
CompleteNode(s, n) == Reconcile([s EXCEPT !.node[n] = "completed"])

\* The transaction of the except branch, and of fail_dispatch.
FailNode(s, n) ==
    Reconcile([s EXCEPT !.node[n] = "failed", !.task = "failed", !.run = "failed",
                        !.completedAt = TRUE])

-----------------------------------------------------------------------------
(* external_runtime_service.py                                             *)

\* ack_dispatch
AckDispatch(s, d) ==
    LET keep == s.run \in {"running", "completed", "failed", "blocked"}
    IN  [s EXCEPT !.disp[d] = "acked", !.node[d[1]] = "assigned", !.task = "assigned",
                  !.run = IF keep THEN @ ELSE "scheduled",
                  !.completedAt = IF keep THEN @ ELSE FALSE]

\* progress_dispatch with the status "running", the only one the host sends
ProgressDispatch(s, d) ==
    [s EXCEPT !.disp[d] = "running", !.node[d[1]] = "running", !.task = "running",
              !.run = "running", !.completedAt = FALSE]

\* Mutant: the result is recorded without reconciling the task.
CompleteDispatchUnreconciled(s, d) ==
    [s EXCEPT !.disp[d] = "completed", !.node[d[1]] = "completed"]

\* complete_dispatch: records the result and reconciles; schedules nothing.
CompleteDispatch(s, d) == CompleteNode([s EXCEPT !.disp[d] = "completed"], d[1])

\* fail_dispatch
FailDispatch(s, d) == FailNode([s EXCEPT !.disp[d] = "failed"], d[1])

-----------------------------------------------------------------------------
(* Steps                                                                   *)

\* Right after launch: steps pending, task and run queued.
Init ==
    /\ db = [node |-> [n \in Node |-> "pending"], task |-> "queued", run |-> "queued",
             completedAt |-> FALSE, disp |-> [d \in Dispatch |-> "none"], batch |-> 0,
             assignee |-> 0, retired |-> {}]
    /\ exec = [n \in Node |-> "idle"]
    /\ worker = [n \in Node |-> 0]
    /\ host = [h \in Host |-> [pc |-> "poll", d |-> NoDispatch]]
    /\ launched = FALSE
    /\ crashes = 0
    /\ ended = {}
    /\ turns = [n \in Node |-> 0]
    /\ tries = [d \in Dispatch |-> 0]

\* A committed transaction; the history records the steps it ends.
Commit(s) ==
    /\ db' = s
    /\ ended' = ended \cup {n \in Node : s.node[n] \in TerminalNode}

Spawn(e, started) == [n \in Node |-> IF n \in started THEN "spawned" ELSE e[n]]

\* schedule_run_after_launch, from the launch request.
ScheduleAfterLaunch ==
    /\ ~launched
    /\ launched' = TRUE
    /\ \E o \in ScheduleOutcomes(db) : Commit(o.rows) /\ exec' = Spawn(exec, o.spawn)
    /\ UNCHANGED <<worker, host, crashes, turns, tries>>

\* execute_assigned_node starts: no status is checked, and the agent is the
\* task's assignee of that moment.
ExecStart(n) ==
    /\ exec[n] = "spawned"
    /\ Commit(StartNode(db, n))
    /\ exec' = [exec EXCEPT ![n] = "turn"]
    /\ worker' = [worker EXCEPT ![n] = db.assignee]
    /\ turns' = [turns EXCEPT ![n] = @ + 1]
    /\ UNCHANGED <<host, launched, crashes, tries>>

\* Mutant: a successful turn schedules nothing.
ExecSucceedAlone(n) ==
    /\ exec[n] = "turn"
    /\ Commit(CompleteNode(db, n))
    /\ exec' = [exec EXCEPT ![n] = "idle"]
    /\ UNCHANGED <<worker, host, launched, crashes, turns, tries>>

\* The turn succeeds; the same coroutine goes on to schedule the next steps.
ExecSucceed(n) ==
    /\ exec[n] = "turn"
    /\ \E o \in ScheduleOutcomes(CompleteNode(db, n)) :
          /\ Commit(o.rows)
          /\ exec' = Spawn([exec EXCEPT ![n] = "idle"], o.spawn)
    /\ UNCHANGED <<worker, host, launched, crashes, turns, tries>>

\* The turn raises, or scheduling after it does (the completed step is then
\* marked failed, because the except branch covers both).
ExecFail(n) ==
    /\ exec[n] = "turn"
    /\ \E s \in {db, CompleteNode(db, n)} : Commit(FailNode(s, n))
    /\ exec' = [exec EXCEPT ![n] = "idle"]
    /\ UNCHANGED <<worker, host, launched, crashes, turns, tries>>

\* The gateway process restarts: its executor tasks are gone, nothing resumes
\* them.  A successful turn may have committed before scheduling was reached.
Crash ==
    /\ crashes < MaxCrashes
    /\ crashes' = crashes + 1
    /\ exec' = [n \in Node |-> "idle"]
    /\ launched' = TRUE
    /\ \/ Commit(db)
       \/ \E n \in Node : exec[n] = "turn" /\ Commit(CompleteNode(db, n))
    /\ UNCHANGED <<worker, host, turns, tries>>

\* Mutant: a dispatch is handed out until it has ended.
HostPollUnended(h) ==
    LET waiting == {d \in Dispatch : HostOf[d[1]] = h
                                      /\ db.disp[d] \in {"pending", "acked", "running"}}
    IN  /\ host[h].pc = "poll"
        /\ \E d \in waiting : host' = [host EXCEPT ![h] = [pc |-> "got", d |-> d]]
        /\ UNCHANGED <<db, exec, worker, launched, crashes, ended, turns, tries>>

\* get_next_dispatch: the oldest pending dispatch of the binding, unclaimed.
HostPoll(h) ==
    LET waiting == {d \in Dispatch : db.disp[d] = "pending" /\ HostOf[d[1]] = h}
    IN  /\ host[h].pc = "poll"
        /\ \E d \in waiting :
              /\ \A e \in waiting : d[2] <= e[2]
              /\ host' = [host EXCEPT ![h] = [pc |-> "got", d |-> d]]
        /\ UNCHANGED <<db, exec, worker, launched, crashes, ended, turns, tries>>

HostAck(h) ==
    /\ host[h].pc = "got"
    /\ Commit(AckDispatch(db, host[h].d))
    /\ host' = [host EXCEPT ![h].pc = "acked"]
    /\ UNCHANGED <<exec, worker, launched, crashes, turns, tries>>

HostProgress(h) ==
    /\ host[h].pc = "acked"
    /\ Commit(ProgressDispatch(db, host[h].d))
    /\ host' = [host EXCEPT ![h].pc = "running"]
    /\ tries' = [tries EXCEPT ![host[h].d] = @ + 1]
    /\ UNCHANGED <<exec, worker, launched, crashes, turns>>

HostReport(h) ==
    /\ host[h].pc = "running"
    /\ \/ Commit(CompleteDispatch(db, host[h].d))
       \/ Commit(FailDispatch(db, host[h].d))
    /\ host' = [host EXCEPT ![h] = [pc |-> "poll", d |-> NoDispatch]]
    /\ UNCHANGED <<exec, worker, launched, crashes, turns, tries>>

\* The host process dies, or a request of its loop raises: it polls again and
\* forgets the dispatch it held.
HostError(h) ==
    /\ host[h].pc # "poll"
    /\ host' = [host EXCEPT ![h] = [pc |-> "poll", d |-> NoDispatch]]
    /\ UNCHANGED <<db, exec, worker, launched, crashes, ended, turns, tries>>

UserUnchanged == UNCHANGED <<worker, host, launched, crashes, turns, tries>>

\* POST /runs/{id}/schedule
UserSchedule ==
    /\ "schedule" \in UserOps
    /\ \E o \in ScheduleOutcomes(db) : Commit(o.rows) /\ exec' = Spawn(exec, o.spawn)
    /\ UserUnchanged

\* POST /runs/{id}/start
UserStart ==
    /\ "start" \in UserOps
    /\ Commit([db EXCEPT !.run = "running", !.completedAt = FALSE])
    /\ UNCHANGED exec /\ UserUnchanged

\* POST /runs/{id}/complete, with the final status the caller names
UserComplete ==
    /\ "complete" \in UserOps
    /\ \E st \in {"completed", "failed"} :
          Commit([db EXCEPT !.run = st, !.completedAt = TRUE])
    /\ UNCHANGED exec /\ UserUnchanged

\* POST /runs/{id}/cancel: only the run row changes.
UserCancel ==
    /\ "cancel" \in UserOps
    /\ Commit([db EXCEPT !.run = "cancelled", !.completedAt = TRUE])
    /\ UNCHANGED exec /\ UserUnchanged

\* GET /runs and GET /runs/{id} reconcile what they read.
UserRefresh ==
    /\ "refresh" \in UserOps
    /\ Commit(Reconcile(db))
    /\ UNCHANGED exec /\ UserUnchanged

UserStep == UserSchedule \/ UserStart \/ UserComplete \/ UserCancel \/ UserRefresh

Next ==
    \/ ScheduleAfterLaunch
    \/ \E n \in Node : ExecStart(n) \/ ExecSucceed(n) \/ ExecFail(n)
    \/ Crash
    \/ \E h \in Host : HostPoll(h) \/ HostAck(h) \/ HostProgress(h)
                       \/ HostReport(h) \/ HostError(h)
    \/ UserStep

Spec == Init /\ [][Next]_vars

\* The event loop runs every coroutine it created, and every turn ends.
Fairness ==
    /\ WF_vars(ScheduleAfterLaunch)
    /\ \A n \in Node : WF_vars(ExecStart(n)) /\ WF_vars(ExecSucceed(n) \/ ExecFail(n))

FairSpec == Spec /\ Fairness

-----------------------------------------------------------------------------
(* Properties                                                              *)

TypeOK ==
    /\ db \in Rows
    /\ exec \in [Node -> {"idle", "spawned", "turn"}]
    /\ worker \in [Node -> 0..Stray]
    /\ host \in [Host -> [pc: {"poll", "got", "acked", "running"},
                          d: Dispatch \cup {NoDispatch}]]
    /\ launched \in BOOLEAN
    /\ crashes \in 0..MaxCrashes
    /\ ended \in SUBSET Node
    /\ turns \in [Node -> Nat]
    /\ tries \in [Dispatch -> Nat]

\* What the task status claims about the steps.
Witnessed(s) ==
    LET some(S) == \E n \in Node : s.node[n] \in S
    IN  /\ s.task = "completed" => \A n \in Node : s.node[n] = "completed"
        /\ s.task = "failed" => some({"failed"})
        /\ s.task = "blocked" => some({"blocked"})
        /\ s.task = "running" => some({"running"})
        /\ s.task = "assigned" => some({"assigned", "queued"})
        /\ s.task = "queued" => some(PendingNode)

\* The status a user reads on the task always has a step to show for it:
\* "completed" means every step is, and any other status is that of a step.
\* Six handlers write the task row directly and leave the steps to others.
TaskWitness == Witnessed(db)

\* A step leaves "pending" only after each step it depends on has ended once.
DependenciesFirst == \A n \in Node : db.node[n] # "pending" => Deps[n] \subseteq ended

\* An internal step is executed at most once in a run, whatever is
\* rescheduled, refreshed, restarted or lost in between.
AtMostOneTurn == \A n \in Internal : turns[n] <= 1

\* A host executes one dispatch at most once: what was handed out, and may
\* have run, is never handed out again after the host lost it.
AtMostOneTry == \A d \in Dispatch : tries[d] <= 1

\* completed_at is set in every closed run (the converse does not hold: an
\* executor that starts in a closed run reopens it without clearing it).
ClosedRunStamped == db.run \in TerminalRun => db.completedAt

\* The platform itself never closes a run as completed while a step waits to
\* be scheduled.
NoEarlyCompletion ==
    [][(db.run # "completed" /\ db'.run = "completed" /\ ~UserComplete)
          => \A n \in Node : db'.node[n] \notin PendingNode]_vars

\* A run in which a step failed does not end up reported as completed.
NoMaskedFailure == db.run = "completed" => \A n \in Node : db.node[n] # "failed"

\* The launch request has scheduled and no executor is left: whatever the run
\* says now, the platform itself will not go on with it.
AtRest == launched /\ \A n \in Node : exec[n] = "idle"

\* The run is closed, and its status says whether all steps completed.
Reported ==
    /\ db.run \in {"completed", "failed"}
    /\ (db.run = "completed") <=> (\A n \in Node : db.node[n] = "completed")

\* Every plan of internal steps comes to rest, and then the run says whether
\* all steps completed.
Settles == <>[]Reported
=============================================================================
