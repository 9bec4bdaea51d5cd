------------------------- MODULE RunExecutionProofs -------------------------
(***************************************************************************)
(* Theorems about RunExecution, for every number of steps, every plan and  *)
(* every set of hosts.                                                     *)
(***************************************************************************)
EXTENDS RunExecution, WellFoundedInduction, TLAPS

(***************************************************************************)
(* The agent on record after a scheduling loop is an agent: the last of    *)
(* the recording steps exists, because steps are bounded by NumNodes.      *)
(***************************************************************************)
LEMMA LastStep ==
    ASSUME NEW S \in SUBSET Node, S # {}
    PROVE  \E m \in S : \A l \in S : l <= m
<1> DEFINE T == {NumNodes - m : m \in S}
<1>1. T \subseteq Nat /\ T # {}
  <2>1. \A m \in S : NumNodes - m \in Nat
    BY RunAssumption DEF RunAssumption, Node
  <2>2. PICK m \in S : TRUE
    OBVIOUS
  <2> QED  BY <2>1, <2>2
<1>2. PICK x \in T : \A y \in T : ~ (<<y, x>> \in OpToRel(<, Nat))
  <2> HIDE DEF T
  <2> QED  BY <1>1, NatLessThanWellFounded, WFMin
<1>3. PICK m \in S : x = NumNodes - m
  BY <1>2
<1>4. ASSUME NEW l \in S PROVE l <= m
  <2>1. NumNodes - l \in T /\ NumNodes - l \in Nat /\ x \in Nat
    BY <1>1, <1>2
  <2>2. ~ (NumNodes - l < x)
    BY <1>2, <2>1 DEF OpToRel
  <2> QED  BY <1>3, <2>2, RunAssumption DEF RunAssumption, Node
<1> QED  BY <1>4

\* The agent that a scheduling loop leaves on the task is an agent or nobody.
LEMMA AssigneeType ==
    ASSUME NEW s \in Rows, NEW recording \in SUBSET Node, NEW blocked, NEW k
    PROVE  AssigneeAfter(s, recording, blocked, k) \in 0..Stray
<1> DEFINE past == {m \in recording : m <= k}
           last == CHOOSE m \in past : \A l \in past : l <= m
<1>1. CASE past = {}
  BY <1>1 DEF AssigneeAfter, Rows
<1>2. CASE past # {}
  <2>1. past \in SUBSET Node
    OBVIOUS
  <2>2. \E m \in past : \A l \in past : l <= m
    <3> HIDE DEF past
    <3> QED  BY <1>2, <2>1, LastStep
  <2>3. last \in Node
    BY <2>1, <2>2
  <2>4. AssigneeAfter(s, recording, blocked, k) \in {Stray, last}
    BY <1>2 DEF AssigneeAfter
  <2> HIDE DEF last
  <2> QED  BY <2>3, <2>4, RunAssumption DEF RunAssumption, Node, Stray
<1> QED  BY <1>1, <1>2

-----------------------------------------------------------------------------
(* The transactions: what each makes of well-formed rows                   *)

Stamped(s) == s.run \in TerminalRun => s.completedAt

\* Rows whose task status is witnessed and whose closed run is stamped.
Sound(s) == s \in Rows /\ Witnessed(s) /\ Stamped(s)

(***************************************************************************)
(* _resolve_task_status yields a task status that the steps bear out.      *)
(***************************************************************************)
LEMMA ResolveWitnessed ==
    ASSUME NEW s \in Rows, s.task = ResolveTask(s.node)
    PROVE  Witnessed(s)
<1>1. \A n \in Node : s.node[n] \in NodeStatus
  BY DEF Rows
<1> QED  BY <1>1 DEF ResolveTask, Witnessed, PendingNode, NodeStatus

\* _resolve_task_status yields a status of the task table.
LEMMA ResolveType == \A st : ResolveTask(st) \in TaskStatus
BY DEF ResolveTask, TaskStatus

(***************************************************************************)
(* reconcile_run_state leaves the steps and the dispatches alone, and      *)
(* makes any rows sound.                                                   *)
(***************************************************************************)
LEMMA ReconcileSound ==
    ASSUME NEW s \in Rows
    PROVE  /\ Sound(Reconcile(s))
           /\ Reconcile(s).node = s.node
           /\ Reconcile(s).disp = s.disp
<1> DEFINE task == ResolveTask(s.node)
           over == s.run \in TerminalRun
           open == task \notin {"completed", "failed"}
           run  == IF over \/ open THEN s.run
                   ELSE IF task = "failed" THEN "failed" ELSE "completed"
           t    == [s EXCEPT !.task = task, !.run = run, !.completedAt = over \/ ~open]
<1>1. task \in TaskStatus /\ run \in RunStatus
  BY ResolveType DEF Rows, RunStatus
<1>2. /\ t \in Rows
      /\ t.node = s.node /\ t.disp = s.disp
      /\ t.task = task /\ t.run = run
      /\ t.completedAt = (over \/ ~open)
  <2> HIDE DEF task, run, over, open
  <2> QED  BY <1>1 DEF Rows
<1>3. Stamped(t)
  BY <1>2 DEF Stamped, TerminalRun
<1>4. Reconcile(s) = RetireAgents(t)
  BY DEF Reconcile
<1>5. /\ RetireAgents(t) \in Rows
      /\ RetireAgents(t).node = t.node /\ RetireAgents(t).disp = t.disp
      /\ RetireAgents(t).task = t.task /\ RetireAgents(t).run = t.run
      /\ RetireAgents(t).completedAt = t.completedAt
  <2> HIDE DEF t
  <2> QED  BY <1>2 DEF RetireAgents, Rows
<1>6. Witnessed(RetireAgents(t))
  BY <1>2, <1>5, ResolveWitnessed
<1>7. Stamped(RetireAgents(t))
  BY <1>3, <1>5 DEF Stamped
<1> QED  BY <1>2, <1>4, <1>5, <1>6, <1>7 DEF Sound

(***************************************************************************)
(* Closing a run, and the transactions that move one step.                 *)
(***************************************************************************)
LEMMA CloseSound ==
    ASSUME NEW s \in Rows, Sound(s)
    PROVE  /\ Sound(CloseRun(s))
           /\ CloseRun(s).node = s.node
           /\ CloseRun(s).disp = s.disp
<1> DEFINE t == [s EXCEPT !.run = "completed", !.completedAt = TRUE]
<1>1. t \in Rows /\ t.node = s.node /\ t.disp = s.disp
  BY DEF Rows, RunStatus
<1>2. CloseRun(s) \in {s, Reconcile(t)}
  BY DEF CloseRun
<1> QED  BY <1>1, <1>2, ReconcileSound

\* execute_assigned_node's first transaction leaves sound rows and moves only its step.
LEMMA StartSound ==
    ASSUME NEW s \in Rows, Sound(s), NEW n \in Node
    PROVE  /\ Sound(StartNode(s, n))
           /\ StartNode(s, n).node = [s.node EXCEPT ![n] = "running"]
           /\ StartNode(s, n).disp = s.disp
<1> DEFINE t == StartNode(s, n)
<1>1. /\ t.node = [s.node EXCEPT ![n] = "running"]
      /\ t.disp = s.disp /\ t.task = "running" /\ t.run = "running"
      /\ t \in Rows
  BY DEF StartNode, Rows, NodeStatus, TaskStatus, RunStatus
<1>2. t.node[n] = "running"
  BY <1>1 DEF Rows
<1>3. Witnessed(t)
  BY <1>1, <1>2 DEF Witnessed
<1>4. Stamped(t)
  BY <1>1 DEF Stamped, TerminalRun
<1> QED  BY <1>1, <1>3, <1>4 DEF Sound

\* A completed step (an executor's, or complete_dispatch's) leaves sound rows.
LEMMA CompleteSound ==
    ASSUME NEW s \in Rows, NEW n \in Node
    PROVE  /\ Sound(CompleteNode(s, n))
           /\ CompleteNode(s, n).node = [s.node EXCEPT ![n] = "completed"]
           /\ CompleteNode(s, n).disp = s.disp
<1> DEFINE t == [s EXCEPT !.node[n] = "completed"]
<1>1. t \in Rows /\ t.node = [s.node EXCEPT ![n] = "completed"] /\ t.disp = s.disp
  BY DEF Rows, NodeStatus
<1>2. CompleteNode(s, n) = Reconcile(t)
  BY DEF CompleteNode
<1> QED  BY <1>1, <1>2, ReconcileSound

\* A failed step (the except branch, or fail_dispatch) leaves sound rows.
LEMMA FailSound ==
    ASSUME NEW s \in Rows, NEW n \in Node
    PROVE  /\ Sound(FailNode(s, n))
           /\ FailNode(s, n).node = [s.node EXCEPT ![n] = "failed"]
           /\ FailNode(s, n).disp = s.disp
<1> DEFINE t == [s EXCEPT !.node[n] = "failed", !.task = "failed", !.run = "failed",
                         !.completedAt = TRUE]
<1>1. t \in Rows /\ t.node = [s.node EXCEPT ![n] = "failed"] /\ t.disp = s.disp
  BY DEF Rows, NodeStatus, TaskStatus, RunStatus
<1>2. FailNode(s, n) = Reconcile(t)
  BY DEF FailNode
<1> QED  BY <1>1, <1>2, ReconcileSound

\* ack_dispatch leaves sound rows: it writes the task without reconciling it.
LEMMA AckSound ==
    ASSUME NEW s \in Rows, Sound(s), NEW d \in Dispatch
    PROVE  /\ Sound(AckDispatch(s, d))
           /\ AckDispatch(s, d).node = [s.node EXCEPT ![d[1]] = "assigned"]
           /\ AckDispatch(s, d).disp = [s.disp EXCEPT ![d] = "acked"]
<1> DEFINE t == AckDispatch(s, d)
<1>1. d[1] \in Node
  BY DEF Dispatch
<1>2. /\ t.node = [s.node EXCEPT ![d[1]] = "assigned"]
      /\ t.disp = [s.disp EXCEPT ![d] = "acked"]
      /\ t.task = "assigned"
      /\ t.run \in {s.run, "scheduled"}
      /\ t.run # "scheduled" => t.completedAt = s.completedAt
      /\ t \in Rows
  BY <1>1 DEF AckDispatch, Rows, NodeStatus, TaskStatus, RunStatus, DispatchStatus
<1>3. t.node[d[1]] = "assigned"
  BY <1>1, <1>2 DEF Rows
<1>4. Witnessed(t)
  BY <1>1, <1>2, <1>3 DEF Witnessed
<1>5. Stamped(t)
  BY <1>2 DEF Sound, Stamped, TerminalRun
<1> QED  BY <1>2, <1>4, <1>5 DEF Sound

\* progress_dispatch leaves sound rows: it writes the task without reconciling it.
LEMMA ProgressSound ==
    ASSUME NEW s \in Rows, NEW d \in Dispatch
    PROVE  /\ Sound(ProgressDispatch(s, d))
           /\ ProgressDispatch(s, d).node = [s.node EXCEPT ![d[1]] = "running"]
           /\ ProgressDispatch(s, d).disp = [s.disp EXCEPT ![d] = "running"]
<1> DEFINE t == ProgressDispatch(s, d)
<1>1. d[1] \in Node
  BY DEF Dispatch
<1>2. /\ t.node = [s.node EXCEPT ![d[1]] = "running"]
      /\ t.disp = [s.disp EXCEPT ![d] = "running"]
      /\ t.task = "running" /\ t.run = "running"
      /\ t \in Rows
  BY <1>1 DEF ProgressDispatch, Rows, NodeStatus, TaskStatus, RunStatus, DispatchStatus
<1>3. t.node[d[1]] = "running"
  BY <1>1, <1>2 DEF Rows
<1>4. Witnessed(t)
  BY <1>1, <1>2, <1>3 DEF Witnessed
<1>5. Stamped(t)
  BY <1>2 DEF Stamped, TerminalRun
<1> QED  BY <1>2, <1>4, <1>5 DEF Sound

\* complete_dispatch and fail_dispatch leave sound rows and end their dispatch.
LEMMA ReportSound ==
    ASSUME NEW s \in Rows, NEW d \in Dispatch,
           NEW t, t = CompleteDispatch(s, d) \/ t = FailDispatch(s, d)
    PROVE  /\ Sound(t)
           /\ \E st \in {"completed", "failed"} :
                 /\ t.node = [s.node EXCEPT ![d[1]] = st]
                 /\ t.disp = [s.disp EXCEPT ![d] = st]
<1>1. d[1] \in Node
  BY DEF Dispatch
<1>2. \A st \in {"completed", "failed"} :
         /\ [s EXCEPT !.disp[d] = st] \in Rows
         /\ [s EXCEPT !.disp[d] = st].node = s.node
         /\ [s EXCEPT !.disp[d] = st].disp = [s.disp EXCEPT ![d] = st]
  BY DEF Rows, DispatchStatus
<1>3. CASE t = CompleteDispatch(s, d)
  <2> DEFINE u == [s EXCEPT !.disp[d] = "completed"]
  <2>1. u \in Rows /\ u.node = s.node /\ u.disp = [s.disp EXCEPT ![d] = "completed"]
    BY <1>2
  <2>2. t = CompleteNode(u, d[1])
    BY <1>3 DEF CompleteDispatch
  <2> HIDE DEF u
  <2> QED  BY <1>1, <2>1, <2>2, CompleteSound
<1>4. CASE t = FailDispatch(s, d)
  <2> DEFINE u == [s EXCEPT !.disp[d] = "failed"]
  <2>1. u \in Rows /\ u.node = s.node /\ u.disp = [s.disp EXCEPT ![d] = "failed"]
    BY <1>2
  <2>2. t = FailNode(u, d[1])
    BY <1>4 DEF FailDispatch
  <2> HIDE DEF u
  <2> QED  BY <1>1, <2>1, <2>2, FailSound
<1> QED  BY <1>3, <1>4

-----------------------------------------------------------------------------
(* Scheduling                                                              *)

(***************************************************************************)
(* One pass over the ready steps: sound rows, where the ready steps, and   *)
(* only they, are assigned, queued or blocked.                             *)
(***************************************************************************)
Batched(s, ready, t) ==
    /\ Sound(t)
    /\ \A n \in Node \ ready : t.node[n] = s.node[n]
    /\ \A n \in ready : t.node[n] \in {"assigned", "queued", "blocked"}
    /\ \A n \in ready \cap Internal : t.node[n] = "assigned"
    /\ \A d \in Dispatch : \/ t.disp[d] = s.disp[d]
                           \/ t.disp[d] = "pending" /\ d[1] \in ready

\* The scheduling loop leaves sound rows, whichever ready step comes last.
LEMMA BatchSound ==
    ASSUME NEW s \in Rows,
           NEW ready \in SUBSET Node, NEW blocked \in SUBSET (ready \cap External),
           NEW silent \in SUBSET blocked, NEW last \in ready,
           ready \cap External \subseteq blocked \/ s.batch < MaxBatch,
           NEW t, t = ScheduleBatch(s, ready, blocked, silent, last)
    PROVE  Batched(s, ready, t)
<1> DEFINE queued == (ready \ blocked) \cap External
           batch  == IF queued = {} THEN s.batch ELSE s.batch + 1
           assigneeAfter(k) == AssigneeAfter(s, ready \ silent, blocked, k)
           newStatus(n) == IF n \in blocked THEN "blocked"
                           ELSE IF n \in queued THEN "queued" ELSE "assigned"
           node == [n \in Node |-> IF n \in ready THEN newStatus(n) ELSE s.node[n]]
           disp == [d \in Dispatch |-> IF d[1] \in queued /\ d[2] = batch
                                        THEN "pending" ELSE s.disp[d]]
           assignee == assigneeAfter(NumNodes)
           retired == s.retired \cup (Ephemeral \cap {assigneeAfter(b) : b \in blocked})
           u == [s EXCEPT !.node = node, !.disp = disp, !.batch = batch,
                          !.assignee = assignee, !.retired = retired]
           v == [u EXCEPT !.task = "blocked", !.run = "blocked"]
           w == [u EXCEPT !.task = "assigned", !.run = "scheduled", !.completedAt = FALSE]
<1>1. node \in [Node -> NodeStatus]
  BY DEF Rows, NodeStatus
<1>2. disp \in [Dispatch -> DispatchStatus]
  BY DEF Rows, DispatchStatus
<1>3. batch \in 0..MaxBatch
  BY RunAssumption DEF RunAssumption, Rows
<1>4. assignee \in 0..Stray
  BY AssigneeType
<1>5. retired \in SUBSET Ephemeral
  BY DEF Rows
<1>6. u \in Rows /\ u.node = node /\ u.disp = disp
  <2> HIDE DEF node, disp, batch, assignee, retired
  <2> QED  BY <1>1, <1>2, <1>3, <1>4, <1>5 DEF Rows
<1>7. /\ v \in Rows /\ v.node = node /\ v.disp = disp
      /\ w \in Rows /\ w.node = node /\ w.disp = disp
      /\ w.task = "assigned" /\ w.run = "scheduled"
  <2> HIDE DEF u, node, disp
  <2> QED  BY <1>6 DEF Rows, TaskStatus, RunStatus
<1>8. t = IF last \in blocked THEN Reconcile(v) ELSE w
  BY DEF ScheduleBatch
<1>9. Sound(t) /\ t.node = node /\ t.disp = disp
  <2>1. CASE last \in blocked
    <3> HIDE DEF v, w, u, node, disp
    <3> QED  BY <1>7, <1>8, <2>1, ReconcileSound
  <2>2. CASE last \notin blocked
    <3>1. node[last] \in {"assigned", "queued"}
      BY <2>2
    <3> HIDE DEF v, w, u, node, disp
    <3>2. t = w
      BY <1>8, <2>2
    <3>3. Witnessed(w)
      BY <1>7, <3>1 DEF Witnessed
    <3> QED  BY <1>7, <3>2, <3>3 DEF Sound, Stamped, TerminalRun
  <2> QED  BY <2>1, <2>2
<1>10. /\ \A n \in Node \ ready : node[n] = s.node[n]
       /\ \A n \in ready : node[n] \in {"assigned", "queued", "blocked"}
       /\ \A n \in ready \cap Internal : node[n] = "assigned"
       /\ \A d \in Dispatch : disp[d] = s.disp[d] \/ (disp[d] = "pending" /\ d[1] \in ready)
  BY DEF Internal
<1> HIDE DEF node, disp
<1> QED  BY <1>9, <1>10 DEF Batched

(***************************************************************************)
(* _schedule_next_pending_step from sound rows: a step that changes was    *)
(* waiting, its dependencies had ended, and executors are created only for *)
(* waiting internal steps, which become assigned.                          *)
(***************************************************************************)
Scheduled(s, t, n) ==
    /\ s.node[n] \in PendingNode
    /\ t.node[n] \in {"assigned", "queued", "blocked"}
    /\ n \in Internal => t.node[n] = "assigned"
    /\ \A m \in Deps[n] : s.node[m] \in TerminalNode

Outcome(s, o) ==
    /\ Sound(o.rows)
    /\ \A n \in Node : o.rows.node[n] = s.node[n] \/ Scheduled(s, o.rows, n)
    /\ \A d \in Dispatch : \/ o.rows.disp[d] = s.disp[d]
                           \/ o.rows.disp[d] = "pending" /\ o.rows.node[d[1]] # "pending"
    /\ o.spawn \subseteq Internal
    /\ \A n \in o.spawn : s.node[n] \in PendingNode /\ o.rows.node[n] = "assigned"

\* Whatever _schedule_next_pending_step commits is sound, and it starts only steps
\* that were pending.
LEMMA OutcomeSound ==
    ASSUME NEW s \in Rows, Sound(s), NEW o \in ScheduleOutcomes(s)
    PROVE  Outcome(s, o)
<1> DEFINE ready == ReadyNodes(s)
<1>1. CASE o = [rows |-> CloseRun(s), spawn |-> {}]
  BY <1>1, CloseSound DEF Outcome
<1>2. CASE o = [rows |-> s, spawn |-> {}]
  BY <1>2 DEF Outcome
<1>3. CASE \E blocked \in SUBSET (ready \cap External) : o \in BatchOutcomes(s, ready, blocked)
  <2>1. PICK blocked \in SUBSET (ready \cap External) : o \in BatchOutcomes(s, ready, blocked)
    BY <1>3
  <2>2. PICK silent \in SUBSET blocked, last \in ready :
           /\ o = [rows |-> ScheduleBatch(s, ready, blocked, silent, last),
                   spawn |-> ready \cap Internal]
           /\ ready \cap External \subseteq blocked \/ s.batch < MaxBatch
    BY <2>1 DEF BatchOutcomes
  <2>3. ready \in SUBSET Node
    BY DEF ReadyNodes
  <2> DEFINE t == ScheduleBatch(s, ready, blocked, silent, last)
  <2>4. Batched(s, ready, t)
    <3>1. ready \cap External \subseteq blocked \/ s.batch < MaxBatch
      BY <2>2
    <3> HIDE DEF ready
    <3> QED  BY <2>3, <3>1, BatchSound
  <2>5. o.rows = t /\ o.spawn = ready \cap Internal
    BY <2>2
  <2>6. \A n \in ready : s.node[n] \in PendingNode /\ \A m \in Deps[n] : s.node[m] \in TerminalNode
    BY DEF ReadyNodes, NodeIsReady
  <2>7. ASSUME NEW n \in Node PROVE t.node[n] = s.node[n] \/ Scheduled(s, t, n)
    <3> HIDE DEF t, ready
    <3> QED  BY <2>4, <2>6 DEF Batched, Scheduled
  <2> HIDE DEF t, ready
  <2> QED  BY <2>4, <2>5, <2>6, <2>7 DEF Batched, Outcome, PendingNode
<1> QED  BY <1>1, <1>2, <1>3 DEF ScheduleOutcomes

-----------------------------------------------------------------------------
(* The inductive invariant                                                 *)

\* A waiting internal step was never begun, nor was one with a fresh executor.
TurnsCounted ==
    \A n \in Internal :
        /\ turns[n] <= 1
        /\ exec[n] = "spawned" => turns[n] = 0 /\ db.node[n] \notin PendingNode
        /\ db.node[n] \in PendingNode => turns[n] = 0

\* What was handed to an executor or dispatched has left "pending".
StepInv ==
    /\ Sound(db)
    /\ \A n \in Node : exec[n] # "idle" => db.node[n] # "pending"
    /\ \A d \in Dispatch : db.disp[d] # "none" => db.node[d[1]] # "pending"
    /\ DependenciesFirst
    /\ TurnsCounted

\* A host holds a dispatch that exists.
HostInv ==
    \A h \in Host : host[h].pc # "poll" =>
                       host[h].d \in Dispatch /\ db.disp[host[h].d] # "none"

IInv == TypeOK /\ StepInv /\ HostInv

\* t is what one step writes to rows s without scheduling: no step that has
\* not left "pending" moves, none goes back to wait.
Moved(s, t) ==
    /\ Sound(t)
    /\ \A n \in Node : \/ t.node[n] = s.node[n]
                       \/ s.node[n] # "pending" /\ t.node[n] \notin PendingNode
    /\ \A d \in Dispatch : t.disp[d] = "none" <=> s.disp[d] = "none"

(***************************************************************************)
(* A transaction that moves steps, beside an executor that begins its turn *)
(* or ends, keeps the invariant.                                           *)
(***************************************************************************)
LEMMA MovePreserves ==
    ASSUME TypeOK, StepInv, NEW t, Moved(db, t), Commit(t),
           TypeOK',
           \A n \in Node :
              \/ exec'[n] \in {exec[n], "idle"} /\ turns'[n] = turns[n]
              \/ /\ exec[n] = "spawned" /\ exec'[n] = "turn"
                 /\ turns'[n] = turns[n] + 1
                 /\ t.node[n] \notin PendingNode
    PROVE  StepInv'
<1>1. db' = t /\ ended' = ended \cup {n \in Node : t.node[n] \in TerminalNode}
  BY DEF Commit
<1>2. \A n \in Node : t.node[n] = "pending" => db.node[n] = "pending"
  BY DEF Moved, PendingNode
<1>3. Sound(db)'
  BY <1>1 DEF Moved, Sound, Witnessed, Stamped
<1>4. \A n \in Node : exec'[n] # "idle" => db'.node[n] # "pending"
  BY <1>1, <1>2 DEF StepInv, PendingNode
<1>5. \A d \in Dispatch : db'.disp[d] # "none" => db'.node[d[1]] # "pending"
  <2>1. \A d \in Dispatch : d[1] \in Node
    BY DEF Dispatch
  <2> QED  BY <1>1, <1>2, <2>1 DEF StepInv, Moved
<1>6. DependenciesFirst'
  <2>1. \A n \in Node : t.node[n] # "pending" => db.node[n] # "pending"
    BY DEF Moved
  <2> QED  BY <1>1, <2>1 DEF DependenciesFirst, StepInv
<1>7. TurnsCounted'
  <2> SUFFICES ASSUME NEW n \in Internal
               PROVE  /\ turns'[n] <= 1
                      /\ exec'[n] = "spawned" =>
                            turns'[n] = 0 /\ db'.node[n] \notin PendingNode
                      /\ db'.node[n] \in PendingNode => turns'[n] = 0
    BY DEF TurnsCounted
  <2>1. n \in Node /\ turns[n] \in Nat
    BY DEF TypeOK, Internal
  <2>2. db'.node[n] \in PendingNode => db.node[n] \in PendingNode
    BY <1>1, <2>1 DEF Moved
  <2>3. /\ turns[n] <= 1
        /\ exec[n] = "spawned" => turns[n] = 0 /\ db.node[n] \notin PendingNode
        /\ db.node[n] \in PendingNode => turns[n] = 0
    BY DEF StepInv, TurnsCounted
  <2> QED  BY <1>1, <2>1, <2>2, <2>3
<1> QED  BY <1>3, <1>4, <1>5, <1>6, <1>7 DEF StepInv

(***************************************************************************)
(* So does a scheduling transaction, from the rows as they are or right    *)
(* after a step was moved.                                                 *)
(***************************************************************************)
LEMMA SchedulePreserves ==
    ASSUME TypeOK, StepInv, NEW s \in Rows, Moved(db, s),
           NEW o, Outcome(s, o), Commit(o.rows),
           TypeOK',
           NEW e \in [Node -> {"idle", "spawned", "turn"}],
           \A n \in Node : e[n] \in {exec[n], "idle"},
           exec' = Spawn(e, o.spawn), turns' = turns
    PROVE  StepInv'
<1> DEFINE t == o.rows
<1>1. db' = t /\ ended' = ended \cup {n \in Node : t.node[n] \in TerminalNode}
  BY DEF Commit
<1>2. /\ Sound(t) /\ o.spawn \subseteq Internal
      /\ \A n \in o.spawn : s.node[n] \in PendingNode /\ t.node[n] = "assigned"
  BY DEF Outcome
<1>3. \A n \in Node : t.node[n] = s.node[n] \/ Scheduled(s, t, n)
  BY DEF Outcome
<1>4. \A d \in Dispatch : t.disp[d] = s.disp[d] \/ t.node[d[1]] # "pending"
  BY DEF Outcome
<1>5. \A n \in Node : t.node[n] = "pending" => s.node[n] = "pending" /\ db.node[n] = "pending"
  BY <1>3 DEF Scheduled, Moved, PendingNode
<1>6. \A n \in Node : exec'[n] = IF n \in o.spawn THEN "spawned" ELSE e[n]
  BY DEF Spawn
<1> HIDE DEF t
<1>7. Sound(db)'
  BY <1>1, <1>2 DEF Sound, Witnessed, Stamped
<1>8. \A n \in Node : exec'[n] # "idle" => db'.node[n] # "pending"
  BY <1>1, <1>2, <1>5, <1>6 DEF StepInv
<1>9. \A d \in Dispatch : db'.disp[d] # "none" => db'.node[d[1]] # "pending"
  <2>1. \A d \in Dispatch : d[1] \in Node
    BY DEF Dispatch
  <2> QED  BY <1>1, <1>4, <1>5, <2>1 DEF StepInv, Moved
<1>10. DependenciesFirst'
  <2> SUFFICES ASSUME NEW n \in Node, t.node[n] # "pending"
               PROVE  Deps[n] \subseteq ended'
    BY <1>1 DEF DependenciesFirst
  <2>1. CASE db.node[n] # "pending"
    BY <1>1, <2>1 DEF DependenciesFirst, StepInv
  <2>2. CASE db.node[n] = "pending"
    <3>1. s.node[n] = "pending"
      BY <2>2 DEF Moved
    <3>2. Scheduled(s, t, n)
      BY <1>3, <3>1
    <3>3. \A m \in Deps[n] : m \in Node /\ s.node[m] \in TerminalNode
      BY <3>2, RunAssumption DEF Scheduled, RunAssumption
    <3>4. \A m \in Deps[n] : t.node[m] = s.node[m]
      BY <1>3, <3>3 DEF Scheduled, TerminalNode, PendingNode
    <3> QED  BY <1>1, <3>3, <3>4
  <2> QED  BY <2>1, <2>2
<1>11. TurnsCounted'
  <2> SUFFICES ASSUME NEW n \in Internal
               PROVE  /\ turns'[n] <= 1
                      /\ exec'[n] = "spawned" =>
                            turns'[n] = 0 /\ db'.node[n] \notin PendingNode
                      /\ db'.node[n] \in PendingNode => turns'[n] = 0
    BY DEF TurnsCounted
  <2>1. n \in Node
    BY DEF Internal
  <2>2. /\ turns[n] <= 1
        /\ exec[n] = "spawned" => turns[n] = 0 /\ db.node[n] \notin PendingNode
        /\ db.node[n] \in PendingNode => turns[n] = 0
    BY DEF StepInv, TurnsCounted
  <2>3. s.node[n] \in PendingNode => db.node[n] \in PendingNode
    BY <2>1 DEF Moved
  <2>4. t.node[n] \in PendingNode => s.node[n] \in PendingNode /\ t.node[n] # "assigned"
    BY <1>3, <2>1 DEF Scheduled, PendingNode
  <2>5. CASE n \in o.spawn
    BY <1>1, <1>2, <2>2, <2>3, <2>4, <2>5
  <2>6. CASE n \notin o.spawn
    <3>1. exec'[n] = "spawned" => exec[n] = "spawned"
      BY <1>6, <2>1, <2>6
    <3> QED  BY <1>1, <2>2, <2>3, <2>4, <3>1
  <2> QED  BY <2>5, <2>6
<1> QED  BY <1>7, <1>8, <1>9, <1>10, <1>11 DEF StepInv

(***************************************************************************)
(* The two kinds of steps, with the state around the rows.                 *)
(***************************************************************************)
ExecState == {"idle", "spawned", "turn"}
HostState == [pc: {"poll", "got", "acked", "running"}, d: Dispatch \cup {NoDispatch}]

\* A transaction that moves steps, with an executor that begins or ends, keeps IInv.
LEMMA MoveStep ==
    ASSUME IInv, NEW t, Moved(db, t), Commit(t),
           exec' \in [Node -> ExecState], worker' \in [Node -> 0..Stray],
           host' \in [Host -> HostState], launched' \in BOOLEAN,
           crashes' \in 0..MaxCrashes, turns' \in [Node -> Nat],
           tries' \in [Dispatch -> Nat],
           \A n \in Node :
              \/ exec'[n] \in {exec[n], "idle"} /\ turns'[n] = turns[n]
              \/ /\ exec[n] = "spawned" /\ exec'[n] = "turn"
                 /\ turns'[n] = turns[n] + 1
                 /\ t.node[n] \notin PendingNode,
           \A h \in Host : \/ host'[h].pc = "poll"
                           \/ host[h].pc # "poll" /\ host'[h].d = host[h].d
    PROVE  IInv'
<1>1. db' = t /\ ended' = ended \cup {n \in Node : t.node[n] \in TerminalNode}
  BY DEF Commit
<1>2. TypeOK'
  BY <1>1 DEF IInv, TypeOK, Moved, Sound, ExecState, HostState
<1>3. StepInv'
  BY <1>2, MovePreserves DEF IInv
<1>4. HostInv'
  BY <1>1 DEF IInv, HostInv, Moved
<1> QED  BY <1>2, <1>3, <1>4 DEF IInv

\* A scheduling transaction with the executors that it creates keeps IInv.
LEMMA ScheduleStep ==
    ASSUME IInv, NEW s \in Rows, Moved(db, s),
           NEW o \in ScheduleOutcomes(s), Commit(o.rows),
           NEW e \in [Node -> ExecState],
           \A n \in Node : e[n] \in {exec[n], "idle"},
           exec' = Spawn(e, o.spawn), launched' \in BOOLEAN,
           UNCHANGED <<worker, host, crashes, turns, tries>>
    PROVE  IInv'
<1>1. db' = o.rows /\ ended' = ended \cup {n \in Node : o.rows.node[n] \in TerminalNode}
  BY DEF Commit
<1>2. Outcome(s, o)
  BY OutcomeSound DEF Moved
<1>3. exec' \in [Node -> ExecState]
  BY DEF Spawn, ExecState
<1>4. TypeOK'
  BY <1>1, <1>2, <1>3 DEF IInv, TypeOK, Outcome, Sound, ExecState
<1>5. StepInv'
  BY <1>2, <1>4, SchedulePreserves DEF IInv, ExecState
<1>6. HostInv'
  BY <1>1, <1>2 DEF IInv, HostInv, Outcome, Moved
<1> QED  BY <1>4, <1>5, <1>6 DEF IInv

\* A transaction that leaves the steps alone (the run endpoints) moves none illegally.
LEMMA StayMoved == ASSUME NEW s, Sound(s) PROVE Moved(s, s)
BY DEF Moved

(***************************************************************************)
(* A transaction that writes one step, which has left "pending".           *)
(***************************************************************************)
LEMMA StepMoved ==
    ASSUME NEW s \in Rows, NEW t, Sound(t), NEW n \in Node, NEW st,
           s.node[n] # "pending", st \notin PendingNode,
           t.node = [s.node EXCEPT ![n] = st], t.disp = s.disp
    PROVE  Moved(s, t)
<1>1. \A m \in Node : t.node[m] = IF m = n THEN st ELSE s.node[m]
  BY DEF Rows
<1> QED  BY <1>1 DEF Moved

\* The rows right after launch satisfy the invariant.
LEMMA InitInv == Init => IInv
<1> SUFFICES ASSUME Init PROVE IInv
  OBVIOUS
<1> USE RunAssumption DEF RunAssumption
<1>1. /\ db \in Rows /\ db.task = "queued" /\ db.run = "queued"
      /\ db.node = [n \in Node |-> "pending"]
      /\ db.disp = [d \in Dispatch |-> "none"]
  BY DEF Init, Rows, NodeStatus, TaskStatus, RunStatus, DispatchStatus, Stray
<1>2. 1 \in Node /\ db.node[1] = "pending"
  BY <1>1 DEF Node
<1>3. Sound(db)
  BY <1>1, <1>2 DEF Sound, Witnessed, Stamped, PendingNode, TerminalRun
<1>4. TypeOK
  <2>1. 0 \in 0..Stray /\ 0 \in 0..MaxCrashes
    BY DEF Stray
  <2>2. host \in [Host -> HostState]
    BY DEF Init, HostState
  <2> QED  BY <1>1, <2>1, <2>2 DEF Init, TypeOK, HostState
<1>5. StepInv
  <2>1. \A n \in Node : db.node[n] = "pending" /\ exec[n] = "idle" /\ turns[n] = 0
    BY <1>1 DEF Init
  <2>2. \A d \in Dispatch : db.disp[d] = "none"
    BY <1>1
  <2>3. TurnsCounted
    BY <2>1 DEF TurnsCounted, Internal
  <2> QED  BY <1>3, <2>1, <2>2, <2>3 DEF StepInv, DependenciesFirst
<1>6. HostInv
  BY DEF Init, HostInv
<1> QED  BY <1>4, <1>5, <1>6 DEF IInv

\* Every transaction, restart and host step keeps the invariant.
LEMMA NextInv == IInv /\ [Next]_vars => IInv'
<1> SUFFICES ASSUME IInv, [Next]_vars PROVE IInv'
  OBVIOUS
<1> USE DEF ExecState, HostState
<1>1. /\ db \in Rows /\ Sound(db) /\ Moved(db, db)
      /\ exec \in [Node -> ExecState] /\ worker \in [Node -> 0..Stray]
      /\ host \in [Host -> HostState] /\ launched \in BOOLEAN
      /\ crashes \in 0..MaxCrashes /\ turns \in [Node -> Nat]
      /\ tries \in [Dispatch -> Nat]
  BY StayMoved DEF IInv, TypeOK, StepInv
<1>2. \A n \in Node : exec[n] # "idle" => db.node[n] # "pending"
  BY DEF IInv, StepInv
<1>3. \A h \in Host : host[h].pc # "poll" =>
                        /\ host[h].d \in Dispatch /\ host[h].d[1] \in Node
                        /\ db.disp[host[h].d] # "none"
                        /\ db.node[host[h].d[1]] # "pending"
  BY DEF IInv, StepInv, HostInv, Dispatch
<1>4. CASE ScheduleAfterLaunch
  <2>1. PICK o \in ScheduleOutcomes(db) : Commit(o.rows) /\ exec' = Spawn(exec, o.spawn)
    BY <1>4 DEF ScheduleAfterLaunch
  <2> QED  BY <1>1, <1>4, <2>1, ScheduleStep DEF ScheduleAfterLaunch
<1>5. CASE UserSchedule
  <2>1. PICK o \in ScheduleOutcomes(db) : Commit(o.rows) /\ exec' = Spawn(exec, o.spawn)
    BY <1>5 DEF UserSchedule
  <2> QED  BY <1>1, <1>5, <2>1, ScheduleStep DEF UserSchedule, UserUnchanged
<1>6. ASSUME NEW n \in Node, ExecStart(n) PROVE IInv'
  <2> DEFINE t == StartNode(db, n)
  <2>1. Sound(t) /\ t.node = [db.node EXCEPT ![n] = "running"] /\ t.disp = db.disp
    BY <1>1, StartSound
  <2>2. Moved(db, t)
    <3>1. db.node[n] # "pending" /\ "running" \notin PendingNode
      BY <1>2, <1>6 DEF ExecStart, PendingNode
    <3> HIDE DEF t
    <3> QED  BY <1>1, <2>1, <3>1, StepMoved
  <2>3. t.node[n] \notin PendingNode
    BY <1>1, <2>1 DEF Rows, PendingNode
  <2>4. worker' \in [Node -> 0..Stray]
    BY <1>1, <1>6 DEF ExecStart, Rows
  <2>5. \A m \in Node : IF m = n THEN /\ exec[m] = "spawned" /\ exec'[m] = "turn"
                                       /\ turns'[m] = turns[m] + 1
                        ELSE exec'[m] = exec[m] /\ turns'[m] = turns[m]
    BY <1>1, <1>6 DEF ExecStart
  <2>6. exec' \in [Node -> ExecState] /\ turns' \in [Node -> Nat]
    BY <1>1, <1>6 DEF ExecStart
  <2> HIDE DEF t
  <2>7. Commit(t)
    BY <1>6 DEF ExecStart, t
  <2> QED  BY <1>1, <1>6, <2>2, <2>3, <2>4, <2>5, <2>6, <2>7, MoveStep DEF ExecStart
<1>7. ASSUME NEW n \in Node, ExecSucceed(n) PROVE IInv'
  <2> DEFINE s == CompleteNode(db, n)
             e == [exec EXCEPT ![n] = "idle"]
  <2>1. PICK o \in ScheduleOutcomes(s) : Commit(o.rows) /\ exec' = Spawn(e, o.spawn)
    BY <1>7 DEF ExecSucceed
  <2>2. Sound(s) /\ s.node = [db.node EXCEPT ![n] = "completed"] /\ s.disp = db.disp
    BY <1>1, CompleteSound
  <2>3. Moved(db, s)
    <3>1. db.node[n] # "pending" /\ "completed" \notin PendingNode
      BY <1>2, <1>7 DEF ExecSucceed, PendingNode
    <3> HIDE DEF s
    <3> QED  BY <1>1, <2>2, <3>1, StepMoved
  <2>4. e \in [Node -> ExecState] /\ \A m \in Node : e[m] \in {exec[m], "idle"}
    BY <1>1
  <2> HIDE DEF s, e
  <2> QED  BY <1>1, <1>7, <2>1, <2>2, <2>3, <2>4, ScheduleStep DEF ExecSucceed, Sound
<1>8. ASSUME NEW n \in Node, ExecFail(n) PROVE IInv'
  <2>1. PICK s \in {db, CompleteNode(db, n)} : Commit(FailNode(s, n))
    BY <1>8 DEF ExecFail
  <2>2. /\ s \in Rows /\ s.disp = db.disp
        /\ [s.node EXCEPT ![n] = "failed"] = [db.node EXCEPT ![n] = "failed"]
    <3>1. CASE s = db
      BY <1>1, <3>1
    <3>2. CASE s = CompleteNode(db, n)
      <4>1. /\ Sound(s) /\ s.disp = db.disp
            /\ s.node = [db.node EXCEPT ![n] = "completed"]
        BY <1>1, <3>2, CompleteSound
      <4> QED  BY <1>1, <4>1 DEF Sound, Rows
    <3> QED  BY <3>1, <3>2
  <2> DEFINE t == FailNode(s, n)
  <2>3. Sound(t) /\ t.node = [db.node EXCEPT ![n] = "failed"] /\ t.disp = db.disp
    BY <2>2, FailSound
  <2>4. Moved(db, t)
    <3>1. db.node[n] # "pending" /\ "failed" \notin PendingNode
      BY <1>2, <1>8 DEF ExecFail, PendingNode
    <3> HIDE DEF t
    <3> QED  BY <1>1, <2>3, <3>1, StepMoved
  <2>5. exec' \in [Node -> ExecState] /\ \A m \in Node : exec'[m] \in {exec[m], "idle"}
    BY <1>1, <1>8 DEF ExecFail
  <2> HIDE DEF t
  <2>6. Commit(t)
    BY <2>1 DEF t
  <2> QED  BY <1>1, <1>8, <2>4, <2>5, <2>6, MoveStep DEF ExecFail
<1>9. CASE Crash
  <2>1. \E t : Commit(t) /\ Moved(db, t)
    <3>1. CASE Commit(db)
      BY <1>1, <3>1
    <3>2. CASE \E n \in Node : exec[n] = "turn" /\ Commit(CompleteNode(db, n))
      <4>1. PICK n \in Node : exec[n] = "turn" /\ Commit(CompleteNode(db, n))
        BY <3>2
      <4> DEFINE t == CompleteNode(db, n)
      <4>2. Sound(t) /\ t.node = [db.node EXCEPT ![n] = "completed"] /\ t.disp = db.disp
        BY <1>1, CompleteSound
      <4>3. Moved(db, t)
        <5>1. db.node[n] # "pending" /\ "completed" \notin PendingNode
          BY <1>2, <4>1 DEF PendingNode
        <5> HIDE DEF t
        <5> QED  BY <1>1, <4>2, <5>1, StepMoved
      <4> QED  BY <4>1, <4>3
    <3> QED  BY <1>9, <3>1, <3>2 DEF Crash
  <2>2. PICK t : Commit(t) /\ Moved(db, t)
    BY <2>1
  <2>3. /\ exec' \in [Node -> ExecState] /\ \A m \in Node : exec'[m] = "idle"
        /\ crashes' \in 0..MaxCrashes
    BY <1>1, <1>9, RunAssumption DEF Crash, RunAssumption
  <2> QED  BY <1>1, <1>9, <2>2, <2>3, MoveStep DEF Crash
<1>10. ASSUME NEW h \in Host, HostPoll(h) PROVE IInv'
  <2>1. PICK d \in Dispatch : /\ db.disp[d] = "pending"
                              /\ host' = [host EXCEPT ![h] = [pc |-> "got", d |-> d]]
    BY <1>10 DEF HostPoll
  <2>2. host' \in [Host -> HostState] /\ UNCHANGED <<db, exec, worker, launched, crashes, ended, turns, tries>>
    BY <1>1, <1>10, <2>1 DEF HostPoll
  <2>3. TypeOK'
    BY <2>2 DEF IInv, TypeOK
  <2>4. StepInv'
    BY <2>2 DEF IInv, StepInv, Sound, Witnessed, Stamped, DependenciesFirst, TurnsCounted
  <2>5. HostInv'
    BY <1>1, <2>1, <2>2 DEF IInv, HostInv
  <2> QED  BY <2>3, <2>4, <2>5 DEF IInv
<1>11. ASSUME NEW h \in Host, HostAck(h) PROVE IInv'
  <2> DEFINE d == host[h].d
             t == AckDispatch(db, d)
  <2>1. host[h].pc # "poll"
    BY <1>11 DEF HostAck
  <2>2. /\ Sound(t) /\ t.node = [db.node EXCEPT ![d[1]] = "assigned"]
        /\ t.disp = [db.disp EXCEPT ![d] = "acked"]
    BY <1>1, <1>3, <2>1, AckSound
  <2>3. Moved(db, t)
    <3>1. /\ d \in Dispatch /\ d[1] \in Node
          /\ db.disp[d] # "none" /\ db.node[d[1]] # "pending"
      BY <1>3, <2>1
    <3> HIDE DEF t, d
    <3>2. \A m \in Node : t.node[m] = IF m = d[1] THEN "assigned" ELSE db.node[m]
      BY <1>1, <2>2 DEF Rows
    <3>3. \A e \in Dispatch : t.disp[e] = IF e = d THEN "acked" ELSE db.disp[e]
      BY <1>1, <2>2 DEF Rows
    <3> QED  BY <2>2, <3>1, <3>2, <3>3 DEF Moved, PendingNode
  <2>4. /\ host' \in [Host -> HostState]
        /\ \A g \in Host : \/ host'[g].pc = "poll"
                           \/ host[g].pc # "poll" /\ host'[g].d = host[g].d
    BY <1>1, <1>11, <2>1 DEF HostAck
  <2> HIDE DEF t
  <2>5. Commit(t)
    BY <1>11 DEF HostAck, t
  <2> QED  BY <1>1, <1>11, <2>3, <2>4, <2>5, MoveStep DEF HostAck
<1>12. ASSUME NEW h \in Host, HostProgress(h) PROVE IInv'
  <2> DEFINE d == host[h].d
             t == ProgressDispatch(db, d)
  <2>1. host[h].pc # "poll"
    BY <1>12 DEF HostProgress
  <2>2. /\ Sound(t) /\ t.node = [db.node EXCEPT ![d[1]] = "running"]
        /\ t.disp = [db.disp EXCEPT ![d] = "running"]
    BY <1>1, <1>3, <2>1, ProgressSound
  <2>3. Moved(db, t)
    <3>1. /\ d \in Dispatch /\ d[1] \in Node
          /\ db.disp[d] # "none" /\ db.node[d[1]] # "pending"
      BY <1>3, <2>1
    <3> HIDE DEF t, d
    <3>2. \A m \in Node : t.node[m] = IF m = d[1] THEN "running" ELSE db.node[m]
      BY <1>1, <2>2 DEF Rows
    <3>3. \A e \in Dispatch : t.disp[e] = IF e = d THEN "running" ELSE db.disp[e]
      BY <1>1, <2>2 DEF Rows
    <3> QED  BY <2>2, <3>1, <3>2, <3>3 DEF Moved, PendingNode
  <2>4. /\ host' \in [Host -> HostState]
        /\ \A g \in Host : \/ host'[g].pc = "poll"
                           \/ host[g].pc # "poll" /\ host'[g].d = host[g].d
    BY <1>1, <1>12, <2>1 DEF HostProgress
  <2>5. tries' \in [Dispatch -> Nat]
    BY <1>1, <1>3, <1>12, <2>1 DEF HostProgress
  <2> HIDE DEF t
  <2>6. Commit(t)
    BY <1>12 DEF HostProgress, t
  <2> QED  BY <1>1, <1>12, <2>3, <2>4, <2>5, <2>6, MoveStep DEF HostProgress
<1>13. ASSUME NEW h \in Host, HostReport(h) PROVE IInv'
  <2> DEFINE d == host[h].d
  <2>1. /\ d \in Dispatch /\ d[1] \in Node
        /\ db.disp[d] # "none" /\ db.node[d[1]] # "pending"
    BY <1>3, <1>13 DEF HostReport
  <2>2. PICK t \in {CompleteDispatch(db, d), FailDispatch(db, d)} : Commit(t)
    BY <1>13 DEF HostReport
  <2>3. /\ host' \in [Host -> HostState]
        /\ \A g \in Host : \/ host'[g].pc = "poll"
                           \/ host[g].pc # "poll" /\ host'[g].d = host[g].d
    <3>1. host' = [host EXCEPT ![h] = [pc |-> "poll", d |-> NoDispatch]]
      BY <1>13 DEF HostReport
    <3>2. \A g \in Host : host'[g] = IF g = h THEN [pc |-> "poll", d |-> NoDispatch]
                                      ELSE host[g]
      BY <1>1, <3>1
    <3>3. \A g \in Host : host[g].pc = "poll" \/ host[g].pc # "poll"
      OBVIOUS
    <3>4. host' \in [Host -> HostState]
      BY <1>1, <3>1
    <3>5. \A g \in Host : \/ host'[g].pc = "poll"
                          \/ host[g].pc # "poll" /\ host'[g].d = host[g].d
      BY <3>2
    <3> QED  BY <3>4, <3>5
  <2> HIDE DEF d
  <2>4. Sound(t) /\ \E st \in {"completed", "failed"} :
                       /\ t.node = [db.node EXCEPT ![d[1]] = st]
                       /\ t.disp = [db.disp EXCEPT ![d] = st]
    BY <1>1, <2>1, <2>2, ReportSound
  <2>5. PICK st \in {"completed", "failed"} :
           t.node = [db.node EXCEPT ![d[1]] = st] /\ t.disp = [db.disp EXCEPT ![d] = st]
    BY <2>4
  <2>6. Moved(db, t)
    <3>1. st \notin PendingNode /\ st # "none"
      BY DEF PendingNode
    <3>2. \A m \in Node : t.node[m] = IF m = d[1] THEN st ELSE db.node[m]
      BY <1>1, <2>5 DEF Rows
    <3>3. \A e \in Dispatch : t.disp[e] = IF e = d THEN st ELSE db.disp[e]
      BY <1>1, <2>5 DEF Rows
    <3> QED  BY <2>1, <2>4, <3>1, <3>2, <3>3 DEF Moved, PendingNode
  <2> QED  BY <1>1, <1>13, <2>2, <2>3, <2>6, MoveStep DEF HostReport
<1>14. ASSUME NEW h \in Host, HostError(h) PROVE IInv'
  <2>1. /\ host' = [host EXCEPT ![h] = [pc |-> "poll", d |-> NoDispatch]]
        /\ UNCHANGED <<db, exec, worker, launched, crashes, ended, turns, tries>>
    BY <1>14 DEF HostError
  <2>2. TypeOK'
    BY <1>1, <2>1 DEF IInv, TypeOK
  <2>3. StepInv'
    BY <2>1 DEF IInv, StepInv, Sound, Witnessed, Stamped, DependenciesFirst, TurnsCounted
  <2>4. HostInv'
    BY <1>1, <2>1 DEF IInv, HostInv
  <2> QED  BY <2>2, <2>3, <2>4 DEF IInv
<1>15. ASSUME NEW t, Sound(t), t.node = db.node, t.disp = db.disp, Commit(t),
              UNCHANGED exec, UserUnchanged
       PROVE  IInv'
  <2>1. Moved(db, t)
    BY <1>15 DEF Moved
  <2> QED  BY <1>1, <1>15, <2>1, MoveStep DEF UserUnchanged
<1>16. \A st \in RunStatus, b \in BOOLEAN :
          (st \in TerminalRun => b) =>
             LET t == [db EXCEPT !.run = st, !.completedAt = b]
             IN  Sound(t) /\ t.node = db.node /\ t.disp = db.disp
  BY <1>1 DEF Sound, Rows, Witnessed, Stamped
<1>17. CASE UserStart
  BY <1>15, <1>16, <1>17 DEF UserStart, RunStatus, TerminalRun
<1>18. CASE UserComplete
  BY <1>15, <1>16, <1>18 DEF UserComplete, RunStatus
<1>19. CASE UserCancel
  BY <1>15, <1>16, <1>19 DEF UserCancel, RunStatus
<1>20. CASE UserRefresh
  BY <1>1, <1>15, <1>20, ReconcileSound DEF UserRefresh
<1>21. CASE UNCHANGED vars
  BY <1>21 DEF vars, IInv, TypeOK, StepInv, Sound, Witnessed, Stamped, DependenciesFirst,
               TurnsCounted, HostInv
<1> QED
  BY <1>4, <1>5, <1>6, <1>7, <1>8, <1>9, <1>10, <1>11, <1>12, <1>13, <1>14, <1>17, <1>18,
     <1>19, <1>20, <1>21 DEF Next, UserStep

-----------------------------------------------------------------------------
(* Theorems                                                                *)

\* The invariant holds in every behaviour of a run.
THEOREM Inductive == Spec => []IInv
BY InitInv, NextInv, PTL DEF Spec

(***************************************************************************)
(* Every handler leaves well-typed rows, whatever order the calls come in. *)
(***************************************************************************)
THEOREM TypeCorrect == Spec => []TypeOK
<1>1. IInv => TypeOK
  BY DEF IInv
<1> QED  BY <1>1, Inductive, PTL

(***************************************************************************)
(* The task status is borne out by the steps after every transaction that  *)
(* writes it, reconciled or not.                                           *)
(***************************************************************************)
THEOREM TaskWitnessed == Spec => []TaskWitness
<1>1. IInv => TaskWitness
  BY DEF IInv, StepInv, Sound, TaskWitness
<1> QED  BY <1>1, Inductive, PTL

(***************************************************************************)
(* A closed run carries its completion time.                               *)
(***************************************************************************)
THEOREM ClosedStamped == Spec => []ClosedRunStamped
<1>1. IInv => ClosedRunStamped
  BY DEF IInv, StepInv, Sound, Stamped, ClosedRunStamped
<1> QED  BY <1>1, Inductive, PTL

(***************************************************************************)
(* No step is handed out before every step it depends on has ended.        *)
(***************************************************************************)
THEOREM DependenciesRespected == Spec => []DependenciesFirst
<1>1. IInv => DependenciesFirst
  BY DEF IInv, StepInv
<1> QED  BY <1>1, Inductive, PTL

(***************************************************************************)
(* The gateway executes an internal step at most once.                     *)
(***************************************************************************)
THEOREM OneTurn == Spec => []AtMostOneTurn
<1>1. IInv => AtMostOneTurn
  BY DEF IInv, StepInv, TurnsCounted, AtMostOneTurn
<1> QED  BY <1>1, Inductive, PTL

=============================================================================
