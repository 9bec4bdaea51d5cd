----------------------- MODULE RunExecutionEndProofs -----------------------
(***************************************************************************)
(* Further theorems about RunExecution: how often a host executes a        *)
(* dispatch, what a run says about its steps when it is closed, and that a *)
(* run whose executors have ended has nothing left to do.                  *)
(***************************************************************************)
EXTENDS RunExecutionProofs

NonePending(s) == \A n \in Node : s.node[n] \notin PendingNode
NoneFailed(s)  == \A n \in Node : s.node[n] # "failed"

(***************************************************************************)
(* reconcile_run_state writes neither steps nor dispatches; a closed run   *)
(* keeps its status, a run is closed as completed only when every step     *)
(* was, and a failed step always leaves the run closed.                    *)
(***************************************************************************)
LEMMA ReconcileRun ==
    ASSUME NEW s \in Rows
    PROVE  LET r == Reconcile(s)
           IN  /\ r \in Rows
               /\ r.node = s.node /\ r.disp = s.disp /\ r.batch = s.batch
               /\ s.run \in TerminalRun => r.run = s.run
               /\ r.run = "completed" /\ s.run # "completed" =>
                     NonePending(s) /\ NoneFailed(s)
               /\ ~NoneFailed(s) => r.run \in TerminalRun
<1> DEFINE task == ResolveTask(s.node)
           over == s.run \in TerminalRun
           open == task \notin {"completed", "failed"}
           run  == IF over \/ open THEN s.run
                   ELSE IF task = "failed" THEN "failed" ELSE "completed"
           t    == [s EXCEPT !.task = task, !.run = run, !.completedAt = over \/ ~open]
<1>1. /\ task = "completed" => NonePending(s) /\ NoneFailed(s)
      /\ ~NoneFailed(s) => task = "failed"
  BY DEF ResolveTask, NonePending, NoneFailed
<1>2. /\ over => run = s.run
      /\ run = "completed" /\ s.run # "completed" => task = "completed"
      /\ task = "failed" => run \in TerminalRun
  <2> HIDE DEF task
  <2> QED  BY DEF TerminalRun
<1>3. t.run = run /\ t.node = s.node /\ t.disp = s.disp /\ t.batch = s.batch
  <2> HIDE DEF task, run, over, open
  <2> QED  BY DEF Rows
<1>4. Reconcile(s) = RetireAgents(t)
  BY DEF Reconcile
<1>5. /\ RetireAgents(t).run = t.run /\ RetireAgents(t).node = t.node
      /\ RetireAgents(t).disp = t.disp /\ RetireAgents(t).batch = t.batch
  <2>1. task \in TaskStatus /\ run \in RunStatus
    BY ResolveType DEF Rows, RunStatus
  <2>2. t \in Rows
    <3> HIDE DEF task, run, over, open
    <3> QED  BY <2>1 DEF Rows
  <2> HIDE DEF t
  <2> QED  BY <2>2 DEF RetireAgents, Rows
<1>6. Reconcile(s) \in Rows
  BY ReconcileSound DEF Sound
<1> HIDE DEF t, run, task, over
<1> QED  BY <1>1, <1>2, <1>3, <1>4, <1>5, <1>6 DEF over

\* A completed step: as reconciled, with that step completed.
LEMMA CompleteRun ==
    ASSUME NEW s \in Rows, NEW n \in Node
    PROVE  LET r == CompleteNode(s, n)
           IN  /\ r \in Rows
               /\ r.node = [s.node EXCEPT ![n] = "completed"]
               /\ r.disp = s.disp /\ r.batch = s.batch
               /\ r.run = "completed" /\ s.run # "completed" =>
                     NonePending(r) /\ NoneFailed(r)
               /\ ~NoneFailed(r) => r.run \in TerminalRun
<1> DEFINE t == [s EXCEPT !.node[n] = "completed"]
<1>1. /\ t \in Rows /\ t.node = [s.node EXCEPT ![n] = "completed"]
      /\ t.disp = s.disp /\ t.batch = s.batch /\ t.run = s.run
  BY DEF Rows, NodeStatus
<1>2. CompleteNode(s, n) = Reconcile(t)
  BY DEF CompleteNode
<1> HIDE DEF t
<1> QED  BY <1>1, <1>2, ReconcileRun DEF NonePending, NoneFailed

\* A failed step closes the run as failed.
LEMMA FailRun ==
    ASSUME NEW s \in Rows, NEW n \in Node
    PROVE  LET r == FailNode(s, n)
           IN  /\ r \in Rows /\ r.run = "failed"
               /\ r.disp = s.disp /\ r.batch = s.batch
<1> DEFINE t == [s EXCEPT !.node[n] = "failed", !.task = "failed", !.run = "failed",
                          !.completedAt = TRUE]
<1>1. /\ t \in Rows /\ t.run = "failed"
      /\ t.disp = s.disp /\ t.batch = s.batch
  BY DEF Rows, NodeStatus, TaskStatus, RunStatus
<1>2. FailNode(s, n) = Reconcile(t)
  BY DEF FailNode
<1> HIDE DEF t
<1> QED  BY <1>1, <1>2, ReconcileRun DEF TerminalRun

\* Closing leaves the steps alone, and a closed run as it is.
LEMMA CloseRunRun ==
    ASSUME NEW s \in Rows
    PROVE  LET r == CloseRun(s)
           IN  /\ r \in Rows
               /\ r.node = s.node /\ r.disp = s.disp /\ r.batch = s.batch
               /\ s.run \in TerminalRun => r.run = s.run
<1> DEFINE t == [s EXCEPT !.run = "completed", !.completedAt = TRUE]
<1>1. t \in Rows /\ t.node = s.node /\ t.disp = s.disp /\ t.batch = s.batch
  BY DEF Rows, RunStatus
<1>2. CloseRun(s) = IF s.run \in TerminalRun \cup {"blocked"} THEN s ELSE Reconcile(t)
  BY DEF CloseRun
<1> HIDE DEF t
<1> QED  BY <1>1, <1>2, ReconcileRun

-----------------------------------------------------------------------------
(* Scheduling                                                              *)

\* Dispatches are numbered by the scheduling transaction that made them.
Numbered(s) == \A d \in Dispatch : s.disp[d] # "none" => d[2] <= s.batch

\* t hands out new dispatches and leaves those that exist alone.
HandsOut(s, t) ==
    /\ t \in Rows /\ Numbered(t)
    /\ \A d \in Dispatch : \/ t.disp[d] = s.disp[d]
                           \/ s.disp[d] = "none" /\ t.disp[d] = "pending"

\* Rows that leave the dispatches alone.
LEMMA SameDispatches ==
    ASSUME NEW s \in Rows, Numbered(s), NEW t \in Rows, t.disp = s.disp, t.batch = s.batch
    PROVE  HandsOut(s, t)
BY DEF HandsOut, Numbered

(***************************************************************************)
(* The scheduling loop: its dispatches are new, it names no run completed  *)
(* unless it reconciled it so, and a failed step was failed before.        *)
(***************************************************************************)
LEMMA BatchRun ==
    ASSUME NEW s \in Rows, Numbered(s),
           NEW ready \in SUBSET Node, NEW blocked \in SUBSET (ready \cap External),
           NEW silent \in SUBSET blocked, NEW last \in ready,
           ready \cap External \subseteq blocked \/ s.batch < MaxBatch,
           NEW t, t = ScheduleBatch(s, ready, blocked, silent, last)
    PROVE  /\ HandsOut(s, t)
           /\ t.run = "completed" => NonePending(t) /\ NoneFailed(t)
<1> DEFINE queued == (ready \ blocked) \cap External
           batch  == IF queued = {} THEN s.batch ELSE s.batch + 1
           assigneeAfter(k) == AssigneeAfter(s, ready \ silent, blocked, k)
           newStatus(n) == IF n \in blocked THEN "blocked"
                           ELSE IF n \in queued THEN "queued" ELSE "assigned"
           node == [n \in Node |-> IF n \in ready THEN newStatus(n) ELSE s.node[n]]
           disp == [d \in Dispatch |-> IF d[1] \in queued /\ d[2] = batch
                                        THEN "pending" ELSE s.disp[d]]
           assignee == assigneeAfter(NumNodes)
           retired == s.retired \cup (Ephemeral \cap {assigneeAfter(b) : b \in blocked})
           u == [s EXCEPT !.node = node, !.disp = disp, !.batch = batch,
                          !.assignee = assignee, !.retired = retired]
           v == [u EXCEPT !.task = "blocked", !.run = "blocked"]
           w == [u EXCEPT !.task = "assigned", !.run = "scheduled", !.completedAt = FALSE]
<1>1. node \in [Node -> NodeStatus]
  BY DEF Rows, NodeStatus
<1>2. disp \in [Dispatch -> DispatchStatus]
  BY DEF Rows, DispatchStatus
<1>3. batch \in 0..MaxBatch
  BY RunAssumption DEF RunAssumption, Rows
<1>4. assignee \in 0..Stray
  BY AssigneeType
<1>5. retired \in SUBSET Ephemeral
  BY DEF Rows
<1>6. u \in Rows /\ u.disp = disp /\ u.batch = batch
  <2> HIDE DEF node, disp, batch, assignee, retired
  <2> QED  BY <1>1, <1>2, <1>3, <1>4, <1>5 DEF Rows
<1>7. /\ v \in Rows /\ v.disp = disp /\ v.batch = batch /\ v.run = "blocked"
      /\ w \in Rows /\ w.disp = disp /\ w.batch = batch /\ w.run = "scheduled"
  <2> HIDE DEF u, disp, batch
  <2> QED  BY <1>6 DEF Rows, TaskStatus, RunStatus
<1>8. t = IF last \in blocked THEN Reconcile(v) ELSE w
  BY DEF ScheduleBatch
<1>9. /\ t \in Rows /\ t.disp = disp /\ t.batch = batch
      /\ t.run = "completed" => NonePending(t) /\ NoneFailed(t)
  <2> HIDE DEF v, w, disp, batch
  <2> QED  BY <1>7, <1>8, ReconcileRun DEF NonePending, NoneFailed
<1>10. ASSUME NEW d \in Dispatch
       PROVE  /\ \/ disp[d] = s.disp[d]
                 \/ s.disp[d] = "none" /\ disp[d] = "pending"
              /\ disp[d] # "none" => d[2] <= batch
  <2>1. d[2] \in Nat /\ s.batch \in Nat
    BY RunAssumption DEF RunAssumption, Dispatch, Rows
  <2>2. s.disp[d] # "none" => d[2] <= s.batch
    BY DEF Numbered
  <2>3. batch = s.batch => queued = {}
    BY <2>1
  <2>4. s.batch <= batch /\ batch \in Nat
    BY <2>1
  <2>5. disp[d] = IF d[1] \in queued /\ d[2] = batch THEN "pending" ELSE s.disp[d]
    OBVIOUS
  <2>6. queued # {} => batch = s.batch + 1
    OBVIOUS
  <2> HIDE DEF disp, batch, queued
  <2> QED  BY <2>1, <2>2, <2>4, <2>5, <2>6
<1> HIDE DEF disp, batch
<1> QED  BY <1>9, <1>10 DEF HandsOut, Numbered

\* A completed run hides no failure, and a failure shows in a closed run.
Honest(s) == s.run = "completed" => NoneFailed(s)
Shown(s)  == ~NoneFailed(s) => s.run \in TerminalRun

(***************************************************************************)
(* _schedule_next_pending_step closes a run only when no step is pending,  *)
(* and closes none with a failed step that is not closed already.          *)
(***************************************************************************)
LEMMA OutcomeRun ==
    ASSUME NEW s \in Rows, Numbered(s), NEW o \in ScheduleOutcomes(s)
    PROVE  /\ HandsOut(s, o.rows)
           /\ o.rows.run = "completed" => o.rows = s \/ NonePending(o.rows)
           /\ Honest(s) /\ Shown(s) => Honest(o.rows)
<1> DEFINE ready == ReadyNodes(s)
<1>1. CASE /\ \A n \in Node : s.node[n] \notin PendingNode
           /\ o = [rows |-> CloseRun(s), spawn |-> {}]
  <2> DEFINE t == CloseRun(s)
  <2>1. /\ t \in Rows /\ t.node = s.node /\ t.disp = s.disp /\ t.batch = s.batch
        /\ s.run \in TerminalRun => t.run = s.run
    BY CloseRunRun
  <2>2. o.rows = t
    BY <1>1
  <2> HIDE DEF t
  <2>3. HandsOut(s, t)
    BY <2>1, SameDispatches
  <2> QED  BY <1>1, <2>1, <2>2, <2>3 DEF NonePending, NoneFailed, Honest, Shown, TerminalRun
<1>2. CASE o = [rows |-> s, spawn |-> {}]
  BY <1>2, SameDispatches
<1>3. CASE \E blocked \in SUBSET (ready \cap External) : o \in BatchOutcomes(s, ready, blocked)
  <2>1. PICK blocked \in SUBSET (ready \cap External) : o \in BatchOutcomes(s, ready, blocked)
    BY <1>3
  <2>2. PICK silent \in SUBSET blocked, last \in ready :
           /\ o = [rows |-> ScheduleBatch(s, ready, blocked, silent, last),
                   spawn |-> ready \cap Internal]
           /\ ready \cap External \subseteq blocked \/ s.batch < MaxBatch
    BY <2>1 DEF BatchOutcomes
  <2>3. ready \in SUBSET Node
    BY DEF ReadyNodes
  <2> DEFINE t == ScheduleBatch(s, ready, blocked, silent, last)
  <2>4. o.rows = t
    BY <2>2
  <2>5. HandsOut(s, t) /\ (t.run = "completed" => NonePending(t) /\ NoneFailed(t))
    <3>1. ready \cap External \subseteq blocked \/ s.batch < MaxBatch
      BY <2>2
    <3> HIDE DEF ready
    <3> QED  BY <2>3, <3>1, BatchRun
  <2> HIDE DEF t
  <2> QED  BY <2>4, <2>5 DEF Honest
<1> QED  BY <1>1, <1>2, <1>3 DEF ScheduleOutcomes

-----------------------------------------------------------------------------
(* A host executes one dispatch at most once                               *)

\* A host holds dispatches of its own, in the status its request left them
\* in, and only a dispatch that was begun has been tried.
TryInv ==
    /\ Numbered(db)
    /\ \A d \in Dispatch :
          /\ tries[d] <= 1
          /\ tries[d] # 0 => db.disp[d] \in {"running", "completed", "failed"}
    /\ \A h \in Host :
          /\ host[h].pc # "poll" => host[h].d \in Dispatch /\ HostOf[host[h].d[1]] = h
          /\ host[h].pc = "got" => db.disp[host[h].d] = "pending"
          /\ host[h].pc = "acked" => db.disp[host[h].d] = "acked"
          /\ host[h].pc = "running" => db.disp[host[h].d] = "running"

\* A transaction of the gateway's own, or of a user.
LEMMA GatewayTries ==
    ASSUME TypeOK, TryInv, HandsOut(db, db'), UNCHANGED <<host, tries>>
    PROVE  TryInv'
BY DEF TryInv, HandsOut, Numbered

\* A request by which host h changes the status of the dispatch it holds.
LEMMA RequestTries ==
    ASSUME TypeOK, TryInv, NEW h \in Host, host[h].pc # "poll",
           NEW st, db'.disp = [db.disp EXCEPT ![host[h].d] = st], db'.batch = db.batch,
           \/ /\ host[h].pc = "got" /\ st = "acked" /\ tries' = tries
              /\ host' = [host EXCEPT ![h].pc = "acked"]
           \/ /\ host[h].pc = "acked" /\ st = "running"
              /\ tries' = [tries EXCEPT ![host[h].d] = @ + 1]
              /\ host' = [host EXCEPT ![h].pc = "running"]
           \/ /\ host[h].pc = "running" /\ st \in {"completed", "failed"} /\ tries' = tries
              /\ host' = [host EXCEPT ![h] = [pc |-> "poll", d |-> NoDispatch]]
    PROVE  TryInv'
<1> DEFINE d == host[h].d
<1>1. /\ d \in Dispatch /\ HostOf[d[1]] = h
      /\ host[h].pc = "got" => db.disp[d] = "pending"
      /\ host[h].pc = "acked" => db.disp[d] = "acked"
      /\ db.disp[d] \notin {"running", "completed", "failed"} => tries[d] = 0
      /\ db.disp[d] # "none"
  <2>1. d \in Dispatch /\ HostOf[d[1]] = h
    BY DEF TryInv
  <2>2. host[h].pc \in {"got", "acked", "running"}
    BY DEF TypeOK
  <2> QED  BY <2>1, <2>2 DEF TryInv
<1>2. \A e \in Dispatch : db'.disp[e] = IF e = d THEN st ELSE db.disp[e]
  BY DEF TypeOK, Rows
<1>3. Numbered(db)'
  BY <1>1, <1>2 DEF TryInv, Numbered
<1>4. ASSUME NEW e \in Dispatch
      PROVE  /\ tries'[e] <= 1
             /\ tries'[e] # 0 => db'.disp[e] \in {"running", "completed", "failed"}
  <2>1. /\ tries[e] \in Nat /\ tries[e] <= 1
        /\ tries[e] # 0 => db.disp[e] \in {"running", "completed", "failed"}
    BY DEF TypeOK, TryInv
  <2>2. tries \in [Dispatch -> Nat]
    BY DEF TypeOK
  <2> HIDE DEF d
  <2> QED  BY <1>1, <1>2, <2>1, <2>2 DEF d
<1>5. ASSUME NEW g \in Host
      PROVE  /\ host'[g].pc # "poll" => host'[g].d \in Dispatch /\ HostOf[host'[g].d[1]] = g
             /\ host'[g].pc = "got" => db'.disp[host'[g].d] = "pending"
             /\ host'[g].pc = "acked" => db'.disp[host'[g].d] = "acked"
             /\ host'[g].pc = "running" => db'.disp[host'[g].d] = "running"
  <2>1. host \in [Host -> HostState]
    BY DEF TypeOK, HostState
  <2>2. CASE g = h
    BY <1>1, <1>2, <2>1, <2>2 DEF HostState
  <2>3. CASE g # h
    <3>1. host'[g] = host[g]
      BY <2>1, <2>3 DEF HostState
    <3>2. host[g].pc # "poll" => host[g].d \in Dispatch /\ host[g].d # d
      BY <1>1, <2>3 DEF TryInv
    <3> HIDE DEF d
    <3> QED  BY <1>2, <3>1, <3>2 DEF TryInv
  <2> QED  BY <2>2, <2>3
<1> QED  BY <1>3, <1>4, <1>5 DEF TryInv

\* Every transaction, restart and host step keeps it.
LEMMA NextTries == IInv /\ TryInv /\ [Next]_vars => TryInv'
<1> SUFFICES ASSUME IInv, TryInv, [Next]_vars PROVE TryInv'
  OBVIOUS
<1>1. TypeOK /\ db \in Rows /\ Numbered(db)
  BY DEF IInv, TypeOK, TryInv
<1>2. \A t \in Rows : t.disp = db.disp /\ t.batch = db.batch => HandsOut(db, t)
  BY <1>1, SameDispatches
<1>3. ASSUME NEW t, HandsOut(db, t), Commit(t), UNCHANGED <<host, tries>> PROVE TryInv'
  BY <1>1, <1>3, GatewayTries DEF Commit
<1>4. CASE ScheduleAfterLaunch
  BY <1>1, <1>3, <1>4, OutcomeRun DEF ScheduleAfterLaunch
<1>5. ASSUME NEW n \in Node, ExecStart(n) PROVE TryInv'
  <2> DEFINE t == StartNode(db, n)
  <2>1. t \in Rows /\ t.disp = db.disp /\ t.batch = db.batch
    BY <1>1 DEF StartNode, Rows, NodeStatus, TaskStatus, RunStatus
  <2> HIDE DEF t
  <2>2. Commit(t) /\ UNCHANGED <<host, tries>>
    BY <1>5 DEF ExecStart, t
  <2> QED  BY <1>2, <1>3, <2>1, <2>2
<1>6. ASSUME NEW n \in Node, ExecSucceed(n) PROVE TryInv'
  <2> DEFINE s == CompleteNode(db, n)
  <2>1. s \in Rows /\ s.disp = db.disp /\ s.batch = db.batch
    BY <1>1, CompleteRun
  <2>2. PICK o \in ScheduleOutcomes(s) : Commit(o.rows) /\ UNCHANGED <<host, tries>>
    BY <1>6 DEF ExecSucceed
  <2> HIDE DEF s
  <2>3. Numbered(s)
    BY <1>1, <2>1 DEF Numbered
  <2>4. HandsOut(s, o.rows)
    BY <2>1, <2>3, OutcomeRun
  <2>5. HandsOut(db, o.rows)
    BY <2>1, <2>4 DEF HandsOut
  <2> QED  BY <1>3, <2>2, <2>5
<1>7. ASSUME NEW n \in Node, ExecFail(n) PROVE TryInv'
  <2>1. PICK s \in {db, CompleteNode(db, n)} : Commit(FailNode(s, n)) /\ UNCHANGED <<host, tries>>
    BY <1>7 DEF ExecFail
  <2>2. s \in Rows /\ s.disp = db.disp /\ s.batch = db.batch
    BY <1>1, <2>1, CompleteRun
  <2>3. LET t == FailNode(s, n) IN t \in Rows /\ t.disp = db.disp /\ t.batch = db.batch
    BY <2>2, FailRun
  <2> QED  BY <1>2, <1>3, <2>1, <2>3
<1>8. CASE Crash
  <2>1. PICK t : Commit(t) /\ (t = db \/ \E n \in Node : t = CompleteNode(db, n))
    BY <1>8 DEF Crash
  <2>2. t \in Rows /\ t.disp = db.disp /\ t.batch = db.batch
    BY <1>1, <2>1, CompleteRun
  <2> QED  BY <1>2, <1>3, <1>8, <2>1, <2>2 DEF Crash
<1>9. ASSUME NEW h \in Host, HostPoll(h) \/ HostError(h) PROVE TryInv'
  <2>1. db' = db /\ tries' = tries /\ \A g \in Host : g # h => host'[g] = host[g]
    BY <1>1, <1>9 DEF HostPoll, HostError, TypeOK
  <2>2. \/ host'[h].pc = "poll"
        \/ /\ host'[h].pc = "got" /\ host'[h].d \in Dispatch
           /\ HostOf[host'[h].d[1]] = h /\ db.disp[host'[h].d] = "pending"
    BY <1>1, <1>9 DEF HostPoll, HostError, TypeOK
  <2> QED  BY <2>1, <2>2 DEF TryInv, Numbered
<1>10. ASSUME NEW h \in Host, HostAck(h) PROVE TryInv'
  <2>1. host[h].pc = "got" /\ host[h].d \in Dispatch /\ host[h].d[1] \in Node
    BY <1>10 DEF HostAck, TryInv, Dispatch
  <2>2. db'.disp = [db.disp EXCEPT ![host[h].d] = "acked"] /\ db'.batch = db.batch
    BY <1>1, <1>10, <2>1 DEF HostAck, Commit, AckDispatch, Rows
  <2> QED  BY <1>1, <1>10, <2>1, <2>2, RequestTries DEF HostAck
<1>11. ASSUME NEW h \in Host, HostProgress(h) PROVE TryInv'
  <2>1. host[h].pc = "acked" /\ host[h].d \in Dispatch /\ host[h].d[1] \in Node
    BY <1>11 DEF HostProgress, TryInv, Dispatch
  <2>2. db'.disp = [db.disp EXCEPT ![host[h].d] = "running"] /\ db'.batch = db.batch
    BY <1>1, <1>11, <2>1 DEF HostProgress, Commit, ProgressDispatch, Rows
  <2> QED  BY <1>1, <1>11, <2>1, <2>2, RequestTries DEF HostProgress
<1>12. ASSUME NEW h \in Host, HostReport(h) PROVE TryInv'
  <2> DEFINE d == host[h].d
  <2>1. host[h].pc = "running" /\ d \in Dispatch /\ d[1] \in Node
    BY <1>12 DEF HostReport, TryInv, Dispatch
  <2>2. PICK st \in {"completed", "failed"} :
           \/ st = "completed" /\ Commit(CompleteDispatch(db, d))
           \/ st = "failed" /\ Commit(FailDispatch(db, d))
    BY <1>12 DEF HostReport
  <2> DEFINE s == [db EXCEPT !.disp[d] = st]
  <2>3. /\ s \in Rows /\ s.batch = db.batch
        /\ s.disp = [db.disp EXCEPT ![d] = st]
    <3> HIDE DEF d
    <3> QED  BY <1>1, <2>1 DEF Rows, DispatchStatus
  <2>4. db' \in {CompleteNode(s, d[1]), FailNode(s, d[1])}
    BY <2>2 DEF CompleteDispatch, FailDispatch, Commit
  <2>5. db'.disp = [db.disp EXCEPT ![d] = st] /\ db'.batch = db.batch
    <3> HIDE DEF s, d
    <3>1. /\ CompleteNode(s, d[1]).disp = s.disp /\ CompleteNode(s, d[1]).batch = s.batch
          /\ FailNode(s, d[1]).disp = s.disp /\ FailNode(s, d[1]).batch = s.batch
      BY <2>1, <2>3, CompleteRun, FailRun
    <3> QED  BY <2>3, <2>4, <3>1
  <2> QED  BY <1>1, <1>12, <2>1, <2>5, RequestTries DEF HostReport
<1>13. CASE UserStep
  <2>1. UNCHANGED <<host, tries>>
    BY <1>13 DEF UserStep, UserSchedule, UserStart, UserComplete, UserCancel, UserRefresh,
                 UserUnchanged
  <2>2. CASE UserSchedule
    BY <1>1, <1>3, <2>1, <2>2, OutcomeRun DEF UserSchedule
  <2>3. CASE ~UserSchedule
    <3>1. db' = Reconcile(db) \/ \E st \in RunStatus, at \in BOOLEAN :
                                     db' = [db EXCEPT !.run = st, !.completedAt = at]
      BY <1>13, <2>3
         DEF UserStep, UserStart, UserComplete, UserCancel, UserRefresh, Commit, RunStatus
    <3>2. db' \in Rows /\ db'.disp = db.disp /\ db'.batch = db.batch
      <4>1. CASE db' = Reconcile(db)
        BY <1>1, <4>1, ReconcileRun
      <4>2. CASE \E st \in RunStatus, at \in BOOLEAN :
                    db' = [db EXCEPT !.run = st, !.completedAt = at]
        BY <1>1, <4>2 DEF Rows
      <4> QED  BY <3>1, <4>1, <4>2
    <3> QED  BY <1>1, <1>2, <2>1, <3>2, GatewayTries
  <2> QED  BY <2>2, <2>3
<1>14. CASE UNCHANGED vars
  BY <1>14 DEF vars, TryInv, Numbered
<1> QED
  BY <1>4, <1>5, <1>6, <1>7, <1>8, <1>9, <1>10, <1>11, <1>12, <1>13, <1>14 DEF Next

\* It holds in every behaviour of a run.
LEMMA AlwaysTryInv == Spec => []TryInv
<1>1. Init => TryInv
  BY DEF Init, TryInv, Numbered
<1> QED  BY <1>1, NextTries, Inductive, PTL DEF Spec

(***************************************************************************)
(* Polling claims nothing, and still a host executes each dispatch at most *)
(* once: what it has begun is not pending any more.                        *)
(***************************************************************************)
THEOREM OneTry == Spec => []AtMostOneTry
<1>1. TryInv => AtMostOneTry
  BY DEF TryInv, AtMostOneTry
<1> QED  BY <1>1, AlwaysTryInv, PTL

-----------------------------------------------------------------------------
(* What a closed run says about its steps                                  *)

\* Rows t call the run completed because no step is pending or failed, or
\* because the rows before did, and no step has failed since.
Written(t) ==
    t.run = "completed" =>
        \/ NonePending(t) /\ NoneFailed(t)
        \/ db.run = "completed" /\ (NoneFailed(db) => NoneFailed(t))

(***************************************************************************)
(* Each step leaves such rows, or schedules: from what the launch or a     *)
(* user finds, or after an executor recorded its step.                     *)
(***************************************************************************)
LEMMA StepWrites ==
    ASSUME IInv, TryInv, [Next]_vars, ~UserComplete
    PROVE  \/ Written(db')
           \/ \E o \in ScheduleOutcomes(db) : db' = o.rows /\ (ScheduleAfterLaunch \/ UserSchedule)
           \/ \E n \in Node : \E o \in ScheduleOutcomes(CompleteNode(db, n)) : db' = o.rows
<1> DEFINE Goal == Written(db')
<1>1. db \in Rows
  BY DEF IInv, TypeOK
<1>2. CASE ScheduleAfterLaunch \/ UserSchedule
  BY <1>2 DEF ScheduleAfterLaunch, UserSchedule, Commit
<1>3. ASSUME NEW n \in Node, ExecStart(n) PROVE Goal
  BY <1>1, <1>3 DEF ExecStart, Commit, StartNode, Written, Rows
<1>4. ASSUME NEW n \in Node, ExecSucceed(n)
      PROVE  \E o \in ScheduleOutcomes(CompleteNode(db, n)) : db' = o.rows
  BY <1>4 DEF ExecSucceed, Commit
<1>5. ASSUME NEW n \in Node, ExecFail(n) PROVE Goal
  <2>1. PICK s \in {db, CompleteNode(db, n)} : db' = FailNode(s, n)
    BY <1>5 DEF ExecFail, Commit
  <2>2. s \in Rows
    BY <1>1, <2>1, CompleteRun
  <2> QED  BY <2>1, <2>2, FailRun DEF Written
<1>6. CASE Crash
  <2>1. CASE db' = db
    BY <2>1 DEF Written, NoneFailed
  <2>2. ASSUME NEW n \in Node, db' = CompleteNode(db, n) PROVE Goal
    <3>1. db'.node = [db.node EXCEPT ![n] = "completed"]
      BY <1>1, <2>2, CompleteRun
    <3>2. NoneFailed(db) => NoneFailed(db')
      BY <1>1, <3>1 DEF NoneFailed, Rows
    <3> QED  BY <1>1, <2>2, <3>2, CompleteRun DEF Written
  <2> QED  BY <1>6, <2>1, <2>2 DEF Crash, Commit
<1>7. ASSUME NEW h \in Host, HostPoll(h) \/ HostError(h) PROVE Goal
  BY <1>7 DEF HostPoll, HostError, Written, NoneFailed
<1>8. ASSUME NEW h \in Host, host[h].pc # "poll"
      PROVE  host[h].d \in Dispatch /\ host[h].d[1] \in Node
  BY <1>8 DEF TryInv, Dispatch
<1>9. ASSUME NEW h \in Host, HostAck(h) PROVE Goal
  <2>1. host[h].d[1] \in Node /\ db' = AckDispatch(db, host[h].d)
    BY <1>8, <1>9 DEF HostAck, Commit
  <2>2. /\ db'.node = [db.node EXCEPT ![host[h].d[1]] = "assigned"]
        /\ db'.run \in {db.run, "scheduled"}
    BY <1>1, <2>1 DEF AckDispatch, Rows
  <2>3. NoneFailed(db) => NoneFailed(db')
    BY <1>1, <2>1, <2>2 DEF NoneFailed, Rows
  <2> QED  BY <2>2, <2>3 DEF Written
<1>10. ASSUME NEW h \in Host, HostProgress(h) PROVE Goal
  <2>1. db' = ProgressDispatch(db, host[h].d)
    BY <1>10 DEF HostProgress, Commit
  <2> QED  BY <1>1, <2>1 DEF ProgressDispatch, Rows, Written
<1>11. ASSUME NEW h \in Host, HostReport(h) PROVE Goal
  <2> DEFINE d == host[h].d
  <2>1. d \in Dispatch /\ d[1] \in Node
    BY <1>8, <1>11 DEF HostReport
  <2>2. PICK st \in {"completed", "failed"} :
           \/ st = "completed" /\ db' = CompleteDispatch(db, d)
           \/ st = "failed" /\ db' = FailDispatch(db, d)
    BY <1>11 DEF HostReport, Commit
  <2> DEFINE s == [db EXCEPT !.disp[d] = st]
  <2>3. s \in Rows /\ s.node = db.node /\ s.run = db.run
    <3> HIDE DEF d
    <3> QED  BY <1>1, <2>1 DEF Rows, DispatchStatus
  <2>4. db' \in {CompleteNode(s, d[1]), FailNode(s, d[1])}
    BY <2>2 DEF CompleteDispatch, FailDispatch
  <2> HIDE DEF s, d
  <2>5. CASE db' = CompleteNode(s, d[1])
    <3>1. db'.node = [db.node EXCEPT ![d[1]] = "completed"]
      BY <2>1, <2>3, <2>5, CompleteRun
    <3>2. NoneFailed(db) => NoneFailed(db')
      BY <1>1, <3>1 DEF NoneFailed, Rows
    <3> QED  BY <2>1, <2>3, <2>5, <3>2, CompleteRun DEF Written
  <2>6. CASE db' = FailNode(s, d[1])
    BY <2>1, <2>3, <2>6, FailRun DEF Written
  <2> QED  BY <2>4, <2>5, <2>6
<1>12. CASE UserStart \/ UserCancel
  <2>1. db'.run # "completed"
    BY <1>1, <1>12 DEF UserStart, UserCancel, Commit, Rows
  <2> QED  BY <2>1 DEF Written
<1>13. CASE UserRefresh
  <2>1. db' = Reconcile(db)
    BY <1>13 DEF UserRefresh, Commit
  <2> QED  BY <1>1, <2>1, ReconcileRun DEF Written, NonePending, NoneFailed
<1>14. CASE UNCHANGED vars
  BY <1>14 DEF vars, Written, NoneFailed
<1> QED
  BY <1>2, <1>3, <1>4, <1>5, <1>6, <1>7, <1>9, <1>10, <1>11, <1>12, <1>13, <1>14
     DEF Next, UserStep

(***************************************************************************)
(* The platform closes a run as completed only when no step is pending.    *)
(***************************************************************************)
THEOREM CompletedAtTheEnd == Spec => NoEarlyCompletion
<1>1. ASSUME IInv, TryInv, [Next]_vars,
             db.run # "completed", db'.run = "completed", ~UserComplete
      PROVE  NonePending(db')
  <2>1. db \in Rows /\ Numbered(db)
    BY <1>1 DEF IInv, TypeOK, TryInv
  <2>2. CASE Written(db')
    BY <1>1, <2>2 DEF Written
  <2>3. ASSUME NEW o \in ScheduleOutcomes(db), db' = o.rows PROVE NonePending(db')
    BY <1>1, <2>1, <2>3, OutcomeRun
  <2>4. ASSUME NEW n \in Node, NEW o \in ScheduleOutcomes(CompleteNode(db, n)), db' = o.rows
        PROVE  NonePending(db')
    <3> DEFINE s == CompleteNode(db, n)
    <3>1. /\ s \in Rows /\ Numbered(s)
          /\ s.run = "completed" => NonePending(s)
      BY <1>1, <2>1, CompleteRun DEF Numbered
    <3> HIDE DEF s
    <3>2. o.rows = s \/ NonePending(o.rows)
      BY <1>1, <2>4, <3>1, OutcomeRun DEF s
    <3> QED  BY <1>1, <2>4, <3>1, <3>2
  <2> QED  BY <1>1, <2>2, <2>3, <2>4, StepWrites
<1>2. IInv /\ TryInv /\ [Next]_vars =>
         [(db.run # "completed" /\ db'.run = "completed" /\ ~UserComplete)
             => \A n \in Node : db'.node[n] \notin PendingNode]_vars
  BY <1>1 DEF NonePending
<1> QED  BY <1>2, Inductive, AlwaysTryInv, PTL DEF Spec, NoEarlyCompletion

\* Before the launch request schedules, nothing has happened to the steps;
\* and a completed run hides no failure.
HonestInv ==
    /\ ~launched => \A n \in Node : db.node[n] = "pending"
    /\ Honest(db)

\* Without schedule requests, only the launch hands out the first steps.
LEMMA LaunchFirst ==
    ASSUME "schedule" \notin UserOps, IInv, HonestInv, [Next]_vars, ~launched'
    PROVE  \A n \in Node : db'.node[n] = "pending"
<1>1. /\ db \in Rows
      /\ ~launched => \A n \in Node : db.node[n] = "pending"
      /\ \A n \in Node : exec[n] # "idle" => db.node[n] # "pending"
  BY DEF IInv, TypeOK, StepInv, HonestInv
<1>2. CASE UNCHANGED <<db, launched>>
  BY <1>1, <1>2
<1>3. ASSUME NEW n \in Node, ExecStart(n) \/ ExecSucceed(n) \/ ExecFail(n) PROVE FALSE
  BY <1>1, <1>3 DEF ExecStart, ExecSucceed, ExecFail
<1>4. ASSUME NEW h \in Host, HostAck(h) \/ HostProgress(h) \/ HostReport(h) PROVE FALSE
  <2>1. ~launched /\ host[h].pc # "poll"
    BY <1>4 DEF HostAck, HostProgress, HostReport
  <2>2. db.node[host[h].d[1]] # "pending" /\ host[h].d[1] \in Node
    BY <2>1 DEF IInv, StepInv, HostInv, Dispatch
  <2> QED  BY <1>1, <2>1, <2>2
<1>5. CASE UserStart \/ UserComplete \/ UserCancel
  BY <1>1, <1>5 DEF UserStart, UserComplete, UserCancel, UserUnchanged, Commit, Rows
<1>6. CASE UserRefresh
  BY <1>1, <1>6, ReconcileRun DEF UserRefresh, UserUnchanged, Commit
<1> QED
  BY <1>2, <1>3, <1>4, <1>5, <1>6
     DEF Next, UserStep, ScheduleAfterLaunch, Crash, HostPoll, HostError, UserSchedule, vars

\* It holds in every behaviour in which users neither schedule nor complete a run.
LEMMA AlwaysHonest ==
    ASSUME {"schedule", "complete"} \cap UserOps = {}
    PROVE  Spec => []HonestInv
<1>1. ASSUME IInv, TryInv, HonestInv, [Next]_vars PROVE Honest(db')
  <2>1. db \in Rows /\ Numbered(db) /\ Honest(db)
    BY <1>1 DEF IInv, TypeOK, TryInv, HonestInv
  <2>2. ~UserComplete /\ ~UserSchedule
    BY DEF UserComplete, UserSchedule
  <2>3. CASE Written(db')
    BY <2>1, <2>3 DEF Written, Honest
  <2>4. ASSUME ScheduleAfterLaunch, NEW o \in ScheduleOutcomes(db), db' = o.rows
        PROVE  Honest(db')
    <3>1. NoneFailed(db)
      BY <1>1, <2>4 DEF ScheduleAfterLaunch, HonestInv, NoneFailed
    <3> QED  BY <2>1, <2>4, <3>1, OutcomeRun DEF Shown
  <2>5. ASSUME NEW n \in Node, NEW o \in ScheduleOutcomes(CompleteNode(db, n)), db' = o.rows
        PROVE  Honest(db')
    <3> DEFINE s == CompleteNode(db, n)
    <3>1. /\ s \in Rows /\ s.node = [db.node EXCEPT ![n] = "completed"]
          /\ s.disp = db.disp /\ s.batch = db.batch /\ Shown(s)
          /\ s.run = "completed" /\ db.run # "completed" => NoneFailed(s)
      BY <2>1, CompleteRun DEF Shown
    <3> HIDE DEF s
    <3>2. Numbered(s)
      BY <2>1, <3>1 DEF Numbered
    <3>3. Honest(s)
      BY <2>1, <3>1 DEF Honest, NoneFailed, Rows
    <3> QED  BY <2>5, <3>1, <3>2, <3>3, OutcomeRun DEF s
  <2> QED  BY <1>1, <2>2, <2>3, <2>4, <2>5, StepWrites
<1>2. IInv /\ TryInv /\ HonestInv /\ [Next]_vars => HonestInv'
  <2> SUFFICES ASSUME IInv, TryInv, HonestInv, [Next]_vars PROVE HonestInv'
    OBVIOUS
  <2>1. ~launched' => \A n \in Node : db'.node[n] = "pending"
    BY LaunchFirst
  <2>2. Honest(db')
    BY <1>1
  <2> QED  BY <2>1, <2>2 DEF HonestInv, Honest, NoneFailed
<1>3. Init => HonestInv
  BY DEF Init, HonestInv, Honest
<1> QED  BY <1>2, <1>3, Inductive, AlwaysTryInv, PTL DEF Spec

(***************************************************************************)
(* Unless a user schedules or completes a run by hand, whatever else is    *)
(* called, lost or restarted: a run with a failed step is never reported   *)
(* as completed.  Both exceptions are real: after "start" reopened a       *)
(* failed run, "schedule" finds no pending step and closes it.             *)
(***************************************************************************)
THEOREM FailureNotMasked ==
    ASSUME {"schedule", "complete"} \cap UserOps = {}
    PROVE  Spec => []NoMaskedFailure
<1>1. HonestInv => NoMaskedFailure
  BY DEF HonestInv, Honest, NoneFailed, NoMaskedFailure
<1> QED  BY <1>1, AlwaysHonest, PTL

-----------------------------------------------------------------------------
(* A plan of internal steps that has come to rest                          *)

\* No restart, every step internal, and no step depends on itself, directly
\* or through others (the planner drops only direct loops).
InternalPlan ==
    /\ External = {} /\ MaxCrashes = 0
    /\ \E rank \in [Node -> Nat] : \A n \in Node : \A m \in Deps[n] : rank[m] < rank[n]

\* Among any steps of such a plan, one depends on none of the others.
LEMMA FirstStep ==
    ASSUME InternalPlan, NEW S \in SUBSET Node, S # {}
    PROVE  \E n \in S : Deps[n] \cap S = {}
<1>1. PICK rank \in [Node -> Nat] : \A n \in Node : \A m \in Deps[n] : rank[m] < rank[n]
  BY DEF InternalPlan
<1> DEFINE T == {rank[m] : m \in S}
<1>2. T \subseteq Nat /\ T # {}
  OBVIOUS
<1>3. PICK x \in T : \A y \in T : ~ (<<y, x>> \in OpToRel(<, Nat))
  <2> HIDE DEF T
  <2> QED  BY <1>2, NatLessThanWellFounded, WFMin
<1>4. PICK n \in S : x = rank[n]
  BY <1>3
<1>5. ASSUME NEW m \in Deps[n] \cap S PROVE FALSE
  <2>1. rank[m] \in T /\ rank[m] \in Nat /\ x \in Nat
    BY <1>2, <1>3
  <2>2. ~ (rank[m] < x)
    BY <1>3, <2>1 DEF OpToRel
  <2> QED  BY <1>1, <1>4, <2>2
<1> QED  BY <1>5

(***************************************************************************)
(* _schedule_next_pending_step on a plan of internal steps: every ready    *)
(* step is assigned and gets an executor, no other step is touched.  With  *)
(* no step ready the rows stay, unless nothing is pending at all.          *)
(***************************************************************************)
LEMMA OutcomeInternal ==
    ASSUME InternalPlan, NEW s \in Rows, NEW o \in ScheduleOutcomes(s)
    PROVE  /\ o.rows \in Rows /\ o.rows.disp = s.disp
           /\ o.spawn = ReadyNodes(s)
           /\ \A n \in Node : o.rows.node[n] = IF n \in ReadyNodes(s) THEN "assigned"
                                               ELSE s.node[n]
           /\ \/ ReadyNodes(s) # {} /\ o.rows.run = "scheduled"
              \/ ReadyNodes(s) = {} /\ ~NonePending(s) /\ o.rows = s
              \/ ReadyNodes(s) = {} /\ NonePending(s) /\ o.rows = CloseRun(s)
<1> DEFINE ready == ReadyNodes(s)
<1>1. External = {}
  BY DEF InternalPlan
<1>2. CASE /\ \A n \in Node : s.node[n] \notin PendingNode
           /\ o = [rows |-> CloseRun(s), spawn |-> {}]
  <2>1. ready = {}
    BY <1>2 DEF ReadyNodes
  <2> QED  BY <1>2, <2>1, CloseRunRun DEF NonePending
<1>3. CASE /\ ~ \A n \in Node : s.node[n] \notin PendingNode
           /\ ready = {} /\ o = [rows |-> s, spawn |-> {}]
  BY <1>3 DEF NonePending
<1>4. CASE /\ ready # {}
           /\ \E blocked \in SUBSET (ready \cap External) : o \in BatchOutcomes(s, ready, blocked)
  <2>1. PICK last \in ready :
           o = [rows |-> ScheduleBatch(s, ready, {}, {}, last), spawn |-> ready \cap Internal]
    BY <1>1, <1>4 DEF BatchOutcomes
  <2>2. ready \in SUBSET Node /\ ready \cap Internal = ready
    BY <1>1 DEF ReadyNodes, Internal
  <2> DEFINE node == [n \in Node |-> IF n \in ready THEN "assigned" ELSE s.node[n]]
             assignee == AssigneeAfter(s, ready, {}, NumNodes)
             w == [s EXCEPT !.node = node, !.disp = s.disp, !.batch = s.batch,
                            !.assignee = assignee, !.retired = s.retired,
                            !.task = "assigned", !.run = "scheduled", !.completedAt = FALSE]
  <2>3. o.rows = w
    <3>1. [d \in Dispatch |-> IF d[1] \in {} /\ d[2] = s.batch THEN "pending" ELSE s.disp[d]]
             = s.disp
      BY DEF Rows
    <3>2. ready \ {} = ready /\ ready \cap External = {}
      BY <1>1
    <3> HIDE DEF ready
    <3>3. ScheduleBatch(s, ready, {}, {}, last) = w
      BY <3>1, <3>2 DEF ScheduleBatch
    <3> QED  BY <2>1, <3>3
  <2>4. w \in Rows /\ w.disp = s.disp /\ w.node = node /\ w.run = "scheduled"
    <3>1. node \in [Node -> NodeStatus]
      BY DEF Rows, NodeStatus
    <3>2. assignee \in 0..Stray
      BY <2>2, AssigneeType
    <3> HIDE DEF node, assignee
    <3> QED  BY <3>1, <3>2 DEF Rows, TaskStatus, RunStatus
  <2> HIDE DEF w
  <2> QED  BY <1>4, <2>1, <2>2, <2>3, <2>4
<1> QED  BY <1>2, <1>3, <1>4 DEF ScheduleOutcomes

\* An executor is there for each step that is handed out, and for no other.
Carried(s, e) ==
    \A n \in Node : /\ s.node[n] \in {"pending", "assigned", "running", "completed", "failed"}
                    /\ e[n] # "idle" <=> s.node[n] \in {"assigned", "running"}

\* Unless a step has failed, every pending step waits for another to end.
Drained(s) == NoneFailed(s) => ReadyNodes(s) = {}

\* No host is involved, and what is not pending has an executor or has ended.
LiveInv ==
    /\ \A d \in Dispatch : db.disp[d] = "none"
    /\ \A h \in Host : host[h].pc = "poll"
    /\ Carried(db, exec)
    /\ launched => Drained(db)

\* Scheduling leaves no step ready, and every assigned step with an executor.
LEMMA ScheduleLive ==
    ASSUME InternalPlan, NEW s \in Rows, NEW e \in [Node -> ExecState], Carried(s, e),
           NEW o \in ScheduleOutcomes(s)
    PROVE  Carried(o.rows, Spawn(e, o.spawn)) /\ Drained(o.rows)
<1>1. /\ o.spawn = ReadyNodes(s)
      /\ \A n \in Node : o.rows.node[n] = IF n \in ReadyNodes(s) THEN "assigned"
                                          ELSE s.node[n]
  BY OutcomeInternal
<1>2. Carried(o.rows, Spawn(e, o.spawn))
  BY <1>1 DEF Carried, Spawn
<1>3. ASSUME NEW n \in ReadyNodes(o.rows) PROVE FALSE
  <2>1. n \in Node /\ o.rows.node[n] \in PendingNode
        /\ \A m \in Deps[n] : m \in Node /\ o.rows.node[m] \in TerminalNode
    BY RunAssumption DEF ReadyNodes, NodeIsReady, RunAssumption
  <2>2. n \notin ReadyNodes(s) /\ s.node[n] \in PendingNode
    BY <1>1, <2>1 DEF PendingNode
  <2>3. \A m \in Deps[n] : s.node[m] \in TerminalNode
    BY <1>1, <2>1 DEF TerminalNode
  <2> QED  BY <2>1, <2>2, <2>3 DEF ReadyNodes, NodeIsReady
<1> QED  BY <1>2, <1>3 DEF Drained

\* A step that an executor holds moves on; other steps stay.
LEMMA MoveLive ==
    ASSUME NEW s \in Rows, NEW e \in [Node -> ExecState], Carried(s, e),
           NEW n \in Node, e[n] # "idle", NEW t \in Rows, NEW st, NEW x,
           t.node = [s.node EXCEPT ![n] = st],
           \/ st = "running" /\ x = "turn"
           \/ st \in {"completed", "failed"} /\ x = "idle"
    PROVE  /\ Carried(t, [e EXCEPT ![n] = x])
           /\ st = "running" /\ Drained(s) => Drained(t)
           /\ st = "failed" => Drained(t)
<1>1. \A m \in Node : t.node[m] = IF m = n THEN st ELSE s.node[m]
  BY DEF Rows
<1>2. Carried(t, [e EXCEPT ![n] = x])
  BY <1>1 DEF Carried, ExecState
<1>3. st = "failed" => ~NoneFailed(t)
  BY <1>1 DEF NoneFailed
<1>4. ASSUME st = "running", Drained(s) PROVE Drained(t)
  <2>1. s.node[n] \in {"assigned", "running"}
    BY DEF Carried
  <2>2. NoneFailed(t) => NoneFailed(s)
    BY <1>1, <2>1 DEF NoneFailed
  <2>3. \A m \in Node : t.node[m] \in PendingNode => s.node[m] \in PendingNode
    BY <1>1, <1>4 DEF PendingNode
  <2>4. \A m \in Node : t.node[m] \in TerminalNode => s.node[m] \in TerminalNode
    BY <1>1, <1>4 DEF TerminalNode
  <2>5. \A m \in Node : Deps[m] \subseteq Node
    BY RunAssumption DEF RunAssumption
  <2>6. ReadyNodes(t) \subseteq ReadyNodes(s)
    BY <2>3, <2>4, <2>5 DEF ReadyNodes, NodeIsReady
  <2> QED  BY <1>4, <2>2, <2>6 DEF Drained
<1> QED  BY <1>2, <1>3, <1>4 DEF Drained

\* Failing a step, alone or after it was recorded completed, writes only that step.
LEMMA FailNodes ==
    ASSUME NEW s \in Rows, NEW n \in Node, NEW u \in {s, CompleteNode(s, n)}
    PROVE  LET r == FailNode(u, n)
           IN  /\ r \in Rows /\ r.disp = s.disp /\ r.run = "failed"
               /\ r.node = [s.node EXCEPT ![n] = "failed"]
<1>1. u \in Rows /\ u.disp = s.disp /\ u.node \in {s.node, [s.node EXCEPT ![n] = "completed"]}
  BY CompleteRun
<1> DEFINE t == [u EXCEPT !.node[n] = "failed", !.task = "failed", !.run = "failed",
                          !.completedAt = TRUE]
<1>2. t \in Rows /\ t.node = [u.node EXCEPT ![n] = "failed"]
  BY <1>1 DEF Rows, NodeStatus, TaskStatus, RunStatus
<1>3. [u.node EXCEPT ![n] = "failed"] = [s.node EXCEPT ![n] = "failed"]
  BY <1>1 DEF Rows
<1>4. FailNode(u, n).node = t.node
  <2>1. FailNode(u, n) = Reconcile(t)
    BY DEF FailNode
  <2> HIDE DEF t
  <2> QED  BY <1>2, <2>1, ReconcileRun
<1> HIDE DEF t
<1> QED  BY <1>1, <1>2, <1>3, <1>4, FailRun

\* Every step of a plan of internal steps keeps it, whatever users call.
LEMMA NextLive == InternalPlan /\ IInv /\ LiveInv /\ [Next]_vars => LiveInv'
<1> SUFFICES ASSUME InternalPlan, IInv, LiveInv, [Next]_vars PROVE LiveInv'
  OBVIOUS
<1>1. /\ db \in Rows /\ exec \in [Node -> ExecState] /\ Carried(db, exec)
      /\ host \in [Host -> HostState]
      /\ launched => Drained(db)
  BY DEF IInv, TypeOK, ExecState, HostState, LiveInv
<1>2. ASSUME NEW o \in ScheduleOutcomes(db), db' = o.rows, exec' = Spawn(exec, o.spawn),
             host' = host
      PROVE  LiveInv'
  <2>1. o.rows.disp = db.disp
    BY <1>1, <1>2, OutcomeInternal
  <2>2. Carried(o.rows, Spawn(exec, o.spawn)) /\ Drained(o.rows)
    BY <1>1, <1>2, ScheduleLive
  <2> QED  BY <1>2, <2>1, <2>2 DEF LiveInv, Carried, Drained, NoneFailed, ReadyNodes, NodeIsReady
<1>3. ASSUME db'.node = db.node, db'.disp = db.disp, UNCHANGED <<exec, host, launched>>
      PROVE  LiveInv'
  BY <1>3 DEF LiveInv, Carried, Drained, NoneFailed, ReadyNodes, NodeIsReady
<1>4. CASE ScheduleAfterLaunch
  BY <1>2, <1>4 DEF ScheduleAfterLaunch, Commit
<1>5. ASSUME NEW n \in Node, ExecStart(n) PROVE LiveInv'
  <2> DEFINE t == StartNode(db, n)
  <2>1. t \in Rows /\ t.node = [db.node EXCEPT ![n] = "running"] /\ t.disp = db.disp
    BY <1>1 DEF StartNode, Rows, NodeStatus, TaskStatus, RunStatus
  <2>2. exec[n] # "idle" /\ exec' = [exec EXCEPT ![n] = "turn"] /\ db' = t
        /\ UNCHANGED <<host, launched>>
    BY <1>5 DEF ExecStart, Commit
  <2> HIDE DEF t
  <2>3. Carried(t, [exec EXCEPT ![n] = "turn"]) /\ (Drained(db) => Drained(t))
    BY <1>1, <2>1, <2>2, MoveLive
  <2>4. launched => Drained(t)
    BY <1>1, <2>3
  <2>5. Carried(db', exec') /\ (launched' => Drained(db')) /\ db'.disp = db.disp
    BY <2>1, <2>2, <2>3, <2>4
  <2> QED  BY <2>2, <2>5
           DEF LiveInv, Carried, Drained, NoneFailed, ReadyNodes, NodeIsReady
<1>6. ASSUME NEW n \in Node, ExecSucceed(n) PROVE LiveInv'
  <2> DEFINE s == CompleteNode(db, n)
             e == [exec EXCEPT ![n] = "idle"]
  <2>1. s \in Rows /\ s.node = [db.node EXCEPT ![n] = "completed"] /\ s.disp = db.disp
    BY <1>1, CompleteRun
  <2>2. PICK o \in ScheduleOutcomes(s) : db' = o.rows /\ exec' = Spawn(e, o.spawn)
    BY <1>6 DEF ExecSucceed, Commit
  <2>3. exec[n] # "idle" /\ UNCHANGED <<host, launched>>
    BY <1>6 DEF ExecSucceed
  <2> HIDE DEF s
  <2>4. Carried(s, e) /\ e \in [Node -> ExecState]
    BY <1>1, <2>1, <2>3, MoveLive DEF ExecState
  <2> HIDE DEF e
  <2>5. Carried(o.rows, Spawn(e, o.spawn)) /\ Drained(o.rows) /\ o.rows.disp = s.disp
    BY <2>1, <2>2, <2>4, ScheduleLive, OutcomeInternal
  <2> QED  BY <2>1, <2>2, <2>3, <2>5
           DEF LiveInv, Carried, Drained, NoneFailed, ReadyNodes, NodeIsReady
<1>7. ASSUME NEW n \in Node, ExecFail(n) PROVE LiveInv'
  <2>1. PICK u \in {db, CompleteNode(db, n)} : db' = FailNode(u, n)
    BY <1>7 DEF ExecFail, Commit
  <2> DEFINE t == FailNode(u, n)
  <2>2. t \in Rows /\ t.node = [db.node EXCEPT ![n] = "failed"] /\ t.disp = db.disp
    BY <1>1, FailNodes
  <2>3. exec[n] # "idle" /\ exec' = [exec EXCEPT ![n] = "idle"] /\ UNCHANGED <<host, launched>>
    BY <1>7 DEF ExecFail
  <2> HIDE DEF t
  <2>4. Carried(t, [exec EXCEPT ![n] = "idle"]) /\ Drained(t)
    BY <1>1, <2>2, <2>3, MoveLive
  <2> QED  BY <2>1, <2>2, <2>3, <2>4
           DEF t, LiveInv, Carried, Drained, NoneFailed, ReadyNodes, NodeIsReady
<1>8. CASE Crash
  BY <1>8, RunAssumption DEF Crash, InternalPlan, IInv, TypeOK
<1>9. ASSUME NEW h \in Host,
             HostPoll(h) \/ HostAck(h) \/ HostProgress(h) \/ HostReport(h) \/ HostError(h)
      PROVE  FALSE
  BY <1>9 DEF HostPoll, HostAck, HostProgress, HostReport, HostError, LiveInv
<1>10. CASE UserSchedule
  BY <1>2, <1>10 DEF UserSchedule, UserUnchanged, Commit
<1>11. CASE UserStart \/ UserComplete \/ UserCancel
  BY <1>1, <1>3, <1>11 DEF UserStart, UserComplete, UserCancel, UserUnchanged, Commit, Rows
<1>12. CASE UserRefresh
  BY <1>1, <1>3, <1>12, ReconcileRun DEF UserRefresh, UserUnchanged, Commit
<1>13. CASE UNCHANGED vars
  BY <1>3, <1>13 DEF vars
<1> QED
  BY <1>4, <1>5, <1>6, <1>7, <1>8, <1>9, <1>10, <1>11, <1>12, <1>13 DEF Next, UserStep

\* It holds in every behaviour of a plan of internal steps.
LEMMA AlwaysLive == ASSUME InternalPlan PROVE Spec => []LiveInv
<1>1. Init => LiveInv
  BY DEF Init, LiveInv, Carried
<1>2. IInv /\ LiveInv /\ [Next]_vars => LiveInv'
  BY NextLive
<1> QED  BY <1>1, <1>2, Inductive, PTL DEF Spec

\* At rest, a step that has not ended is pending; the first such step waits for none.
LEMMA RestLeavesNothing ==
    ASSUME InternalPlan, Carried(db, exec), NoneFailed(db), ReadyNodes(db) = {},
           \A n \in Node : exec[n] = "idle"
    PROVE  \A n \in Node : db.node[n] = "completed"
<1> DEFINE S == {n \in Node : db.node[n] = "pending"}
<1>1. \A n \in Node : db.node[n] \in {"pending", "completed"}
  BY DEF Carried, NoneFailed
<1>2. ASSUME S # {} PROVE FALSE
  <2>1. PICK n \in S : Deps[n] \cap S = {}
    BY <1>2, FirstStep
  <2>2. \A m \in Deps[n] : db.node[m] = "completed"
    BY <1>1, <2>1, RunAssumption DEF RunAssumption
  <2>3. n \in ReadyNodes(db)
    BY <2>1, <2>2 DEF ReadyNodes, NodeIsReady, PendingNode, TerminalNode
  <2> QED  BY <2>3
<1> QED  BY <1>1, <1>2

(***************************************************************************)
(* Nothing is left behind: when no executor is left of a launched run of   *)
(* internal steps, whatever users have called meanwhile, all its steps     *)
(* have completed, or one has failed and the run was not continued.        *)
(***************************************************************************)
NothingLeft == AtRest => \/ \A n \in Node : db.node[n] = "completed"
                         \/ \E n \in Node : db.node[n] = "failed"

THEOREM RestMeansDone == ASSUME InternalPlan PROVE Spec => []NothingLeft
<1>1. LiveInv => NothingLeft
  BY RestLeavesNothing DEF LiveInv, Drained, NoneFailed, AtRest, NothingLeft
<1> QED  BY <1>1, AlwaysLive, PTL

\* reconcile_run_state renames an open run only, to what its steps say.
LEMMA ReconcileNames ==
    ASSUME NEW s \in Rows
    PROVE  LET r == Reconcile(s)
           IN  /\ r.run \in {s.run, "completed", "failed"}
               /\ r.run = "failed" /\ s.run # "failed" => ~NoneFailed(s)
<1> DEFINE task == ResolveTask(s.node)
           over == s.run \in TerminalRun
           open == task \notin {"completed", "failed"}
           run  == IF over \/ open THEN s.run
                   ELSE IF task = "failed" THEN "failed" ELSE "completed"
           t    == [s EXCEPT !.task = task, !.run = run, !.completedAt = over \/ ~open]
<1>1. task = "failed" => ~NoneFailed(s)
  BY DEF ResolveTask, NoneFailed
<1>2. run \in {s.run, "completed", "failed"} /\ (run = "failed" /\ s.run # "failed" => task = "failed")
  <2> HIDE DEF task
  <2> QED  OBVIOUS
<1>3. t.run = run
  <2> HIDE DEF task, run, over, open
  <2> QED  BY DEF Rows
<1>4. Reconcile(s) = RetireAgents(t)
  BY DEF Reconcile
<1>5. RetireAgents(t).run = t.run
  <2>1. task \in TaskStatus /\ run \in RunStatus
    BY ResolveType DEF Rows, RunStatus
  <2>2. t \in Rows
    <3> HIDE DEF task, run, over, open
    <3> QED  BY <2>1 DEF Rows
  <2> HIDE DEF t
  <2> QED  BY <2>2 DEF RetireAgents, Rows
<1> HIDE DEF t, run, task, over
<1> QED  BY <1>1, <1>2, <1>3, <1>4, <1>5

\* Closing a run names it completed, or failed when a step was.
LEMMA CloseNames ==
    ASSUME NEW s \in Rows, s.run # "blocked"
    PROVE  LET r == CloseRun(s)
           IN  /\ r.run \in TerminalRun
               /\ r.run \in {s.run, "completed", "failed"}
               /\ r.run = "failed" /\ s.run # "failed" => ~NoneFailed(s)
<1> DEFINE t == [s EXCEPT !.run = "completed", !.completedAt = TRUE]
<1>1. t \in Rows /\ t.node = s.node /\ t.run = "completed"
  BY DEF Rows, RunStatus
<1>2. CloseRun(s) = IF s.run \in TerminalRun THEN s ELSE Reconcile(t)
  BY DEF CloseRun
<1> HIDE DEF t
<1> QED  BY <1>1, <1>2, ReconcileNames, ReconcileRun DEF NoneFailed, TerminalRun

\* What a run of internal steps may be called, with these steps, when these
\* executors are left: closed when none is.
Named(s, e) ==
    /\ s.run \notin {"blocked", "cancelled"}
    /\ s.run = "failed" => ~NoneFailed(s)
    /\ (\A n \in Node : e[n] = "idle") => s.run \in TerminalRun

\* Scheduling a run with open steps creates executors or closes it.
LEMMA ScheduleNames ==
    ASSUME InternalPlan, NEW s \in Rows, NEW e \in [Node -> ExecState], Carried(s, e),
           s.run \notin {"blocked", "cancelled"},
           s.run = "failed" => ~NoneFailed(s),
           ~NoneFailed(s) => s.run \in TerminalRun,
           NEW o \in ScheduleOutcomes(s)
    PROVE  Named(o.rows, Spawn(e, o.spawn))
<1>1. /\ o.spawn = ReadyNodes(s)
      /\ \A n \in Node : o.rows.node[n] = IF n \in ReadyNodes(s) THEN "assigned"
                                          ELSE s.node[n]
      /\ ReadyNodes(s) \subseteq Node
  BY OutcomeInternal DEF ReadyNodes
<1>2. NoneFailed(s) <=> NoneFailed(o.rows)
  BY <1>1 DEF NoneFailed, ReadyNodes, PendingNode
<1>3. CASE ReadyNodes(s) # {} /\ o.rows.run = "scheduled"
  BY <1>1, <1>3 DEF Named, Spawn
<1>4. CASE ReadyNodes(s) = {} /\ ~NonePending(s) /\ o.rows = s
  <2>1. ASSUME \A n \in Node : e[n] = "idle", NoneFailed(s) PROVE FALSE
    <3> DEFINE S == {n \in Node : s.node[n] = "pending"}
    <3>1. \A n \in Node : s.node[n] \in {"pending", "completed"}
      BY <2>1 DEF Carried, NoneFailed
    <3>2. S # {}
      BY <1>4, <3>1 DEF NonePending, PendingNode
    <3>3. PICK n \in S : Deps[n] \cap S = {}
      BY <3>2, FirstStep
    <3>4. \A m \in Deps[n] : s.node[m] = "completed"
      BY <3>1, <3>3, RunAssumption DEF RunAssumption
    <3>5. n \in ReadyNodes(s)
      BY <3>3, <3>4 DEF ReadyNodes, NodeIsReady, PendingNode, TerminalNode
    <3> QED  BY <1>4, <3>5
  <2> QED  BY <1>1, <1>4, <2>1 DEF Named, Spawn
<1>5. CASE ReadyNodes(s) = {} /\ NonePending(s) /\ o.rows = CloseRun(s)
  <2> DEFINE t == CloseRun(s)
  <2>1. /\ t.run \in TerminalRun /\ t.run \in {s.run, "completed", "failed"}
        /\ t.run = "failed" /\ s.run # "failed" => ~NoneFailed(s)
    BY CloseNames
  <2> HIDE DEF t
  <2> QED  BY <1>2, <1>5, <2>1 DEF t, Named
<1> QED  BY <1>3, <1>4, <1>5, OutcomeInternal

\* While users only read, a run is closed at rest, and failed only if a step did.
RestInv ==
    /\ db.run \notin {"blocked", "cancelled"}
    /\ db.run = "failed" => ~NoneFailed(db)
    /\ AtRest => db.run \in TerminalRun

\* Every step of such a run keeps it.
LEMMA NextRest ==
    ASSUME InternalPlan, UserOps \subseteq {"refresh"}
    PROVE  IInv /\ LiveInv /\ HonestInv /\ RestInv /\ [Next]_vars => RestInv'
<1> SUFFICES ASSUME IInv, LiveInv, HonestInv, RestInv, [Next]_vars PROVE RestInv'
  OBVIOUS
<1>1. /\ db \in Rows /\ exec \in [Node -> ExecState] /\ Carried(db, exec)
      /\ db.run \notin {"blocked", "cancelled"}
      /\ db.run = "failed" => ~NoneFailed(db)
  BY DEF IInv, TypeOK, ExecState, LiveInv, RestInv
<1>2. ASSUME NEW s \in Rows, NEW e \in [Node -> ExecState], Carried(s, e),
             s.run \notin {"blocked", "cancelled"}, s.run = "failed" => ~NoneFailed(s),
             ~NoneFailed(s) => s.run \in TerminalRun,
             NEW o \in ScheduleOutcomes(s), db' = o.rows, exec' = Spawn(e, o.spawn)
      PROVE  RestInv'
  <2>1. Named(db', exec')
    BY <1>2, ScheduleNames
  <2> QED  BY <2>1 DEF Named, RestInv, AtRest, NoneFailed
<1>3. CASE ScheduleAfterLaunch
  <2>1. NoneFailed(db)
    BY <1>3 DEF ScheduleAfterLaunch, HonestInv, NoneFailed
  <2> QED  BY <1>1, <1>2, <1>3, <2>1 DEF ScheduleAfterLaunch, Commit
<1>4. ASSUME NEW n \in Node, ExecStart(n) PROVE RestInv'
  <2>1. db'.run = "running" /\ exec'[n] = "turn"
    BY <1>1, <1>4 DEF ExecStart, Commit, StartNode, Rows
  <2> QED  BY <2>1 DEF RestInv, AtRest
<1>5. ASSUME NEW n \in Node, ExecSucceed(n) PROVE RestInv'
  <2> DEFINE s == CompleteNode(db, n)
             c == [db EXCEPT !.node[n] = "completed"]
             e == [exec EXCEPT ![n] = "idle"]
  <2>1. exec[n] # "idle" /\ db.node[n] # "failed"
    BY <1>1, <1>5 DEF ExecSucceed, Carried
  <2>2. /\ s \in Rows /\ s.node = [db.node EXCEPT ![n] = "completed"]
        /\ ~NoneFailed(s) => s.run \in TerminalRun
    BY <1>1, CompleteRun
  <2>3. NoneFailed(s) <=> NoneFailed(db)
    BY <1>1, <2>1, <2>2 DEF NoneFailed, Rows
  <2>4. s.run \in {db.run, "completed", "failed"} /\ (s.run = "failed" => ~NoneFailed(s))
    <3>1. c \in Rows /\ c.run = db.run /\ c.node = s.node
      BY <1>1, <2>2 DEF Rows, NodeStatus
    <3>2. s = Reconcile(c)
      BY DEF CompleteNode
    <3> HIDE DEF s, c
    <3> QED  BY <1>1, <2>3, <3>1, <3>2, ReconcileNames DEF NoneFailed
  <2>5. PICK o \in ScheduleOutcomes(s) : db' = o.rows /\ exec' = Spawn(e, o.spawn)
    BY <1>5 DEF ExecSucceed, Commit
  <2> HIDE DEF s
  <2>6. Carried(s, e) /\ e \in [Node -> ExecState]
    BY <1>1, <2>1, <2>2, MoveLive DEF ExecState
  <2> HIDE DEF e
  <2> QED  BY <1>1, <1>2, <2>2, <2>4, <2>5, <2>6
<1>6. ASSUME NEW n \in Node, ExecFail(n) PROVE RestInv'
  <2>1. PICK u \in {db, CompleteNode(db, n)} : db' = FailNode(u, n)
    BY <1>6 DEF ExecFail, Commit
  <2>2. db'.run = "failed" /\ db'.node = [db.node EXCEPT ![n] = "failed"]
    BY <1>1, <2>1, FailNodes
  <2>3. \E m \in Node : db'.node[m] = "failed"
    BY <1>1, <2>2 DEF Rows
  <2> QED  BY <2>2, <2>3 DEF RestInv, NoneFailed, TerminalRun
<1>7. CASE Crash
  BY <1>7, RunAssumption DEF Crash, InternalPlan, IInv, TypeOK
<1>8. ASSUME NEW h \in Host,
             HostPoll(h) \/ HostAck(h) \/ HostProgress(h) \/ HostReport(h) \/ HostError(h)
      PROVE  FALSE
  BY <1>8 DEF HostPoll, HostAck, HostProgress, HostReport, HostError, LiveInv
<1>9. CASE UserStep
  <2>1. db' = Reconcile(db) /\ UNCHANGED <<exec, launched>>
    BY <1>9 DEF UserStep, UserSchedule, UserStart, UserComplete, UserCancel, UserRefresh,
                UserUnchanged, Commit
  <2>2. /\ db'.node = db.node
        /\ db'.run \in {db.run, "completed", "failed"}
        /\ db'.run = "failed" /\ db.run # "failed" => ~NoneFailed(db)
    BY <1>1, <2>1, ReconcileNames, ReconcileRun
  <2> QED  BY <2>1, <2>2 DEF RestInv, AtRest, NoneFailed, TerminalRun
<1>10. CASE UNCHANGED vars
  BY <1>10 DEF vars, RestInv, AtRest, NoneFailed
<1> QED  BY <1>3, <1>4, <1>5, <1>6, <1>7, <1>8, <1>9, <1>10 DEF Next

(***************************************************************************)
(* What "Settles" promises once the executors are done: from then on, for  *)
(* ever, the run is closed and says whether all its steps completed.  What *)
(* fairness adds is only that executors end: each step has at most one     *)
(* turn.                                                                   *)
(***************************************************************************)
THEOREM RestIsReported ==
    ASSUME InternalPlan, UserOps \subseteq {"refresh"}
    PROVE  Spec => [](AtRest => []Reported)
<1>1. Init => RestInv
  BY DEF Init, RestInv, AtRest
<1>2. IInv /\ LiveInv /\ HonestInv /\ RestInv /\ [Next]_vars => RestInv'
  BY NextRest
<1>3. Spec => []HonestInv
  <2>1. {"schedule", "complete"} \cap UserOps = {}
    OBVIOUS
  <2> QED  BY <2>1, AlwaysHonest
<1>4. LiveInv /\ HonestInv /\ RestInv => (AtRest => Reported)
  <2> SUFFICES ASSUME LiveInv, HonestInv, RestInv, AtRest PROVE Reported
    OBVIOUS
  <2>1. NoneFailed(db) => \A n \in Node : db.node[n] = "completed"
    BY RestLeavesNothing DEF LiveInv, Drained, AtRest
  <2>2. db.run \in {"completed", "failed"}
    BY DEF RestInv, TerminalRun
  <2>3. (\A n \in Node : db.node[n] = "completed") => NoneFailed(db)
    BY DEF NoneFailed
  <2> QED  BY <2>1, <2>2, <2>3 DEF RestInv, HonestInv, Honest, Reported
<1>5. IInv /\ LiveInv /\ AtRest /\ [Next]_vars => AtRest'
  <2> SUFFICES ASSUME IInv, LiveInv, AtRest, [Next]_vars PROVE AtRest'
    OBVIOUS
  <2>1. crashes = 0 /\ MaxCrashes = 0
    BY RunAssumption DEF InternalPlan, IInv, TypeOK
  <2>2. ASSUME NEW n \in Node, ExecStart(n) \/ ExecSucceed(n) \/ ExecFail(n) PROVE FALSE
    BY <2>2 DEF AtRest, ExecStart, ExecSucceed, ExecFail
  <2>3. ~ScheduleAfterLaunch /\ ~Crash
    BY <2>1 DEF AtRest, ScheduleAfterLaunch, Crash
  <2>4. CASE UserStep
    BY <2>4 DEF AtRest, UserStep, UserSchedule, UserStart, UserComplete, UserCancel,
                UserRefresh, UserUnchanged
  <2>5. ASSUME NEW h \in Host,
               HostPoll(h) \/ HostAck(h) \/ HostProgress(h) \/ HostReport(h) \/ HostError(h)
        PROVE  AtRest'
    BY <2>5 DEF AtRest, HostPoll, HostAck, HostProgress, HostReport, HostError
  <2>6. CASE UNCHANGED vars
    BY <2>6 DEF AtRest, vars
  <2> QED  BY <2>2, <2>3, <2>4, <2>5, <2>6 DEF Next
<1> QED  BY <1>1, <1>2, <1>3, <1>4, <1>5, Inductive, AlwaysLive, PTL DEF Spec
=============================================================================
