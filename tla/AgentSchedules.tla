--------------------------- MODULE AgentSchedules ---------------------------
(***************************************************************************)
(* Agent schedules: the planner that turns due schedules into run rows,    *)
(* the executors that claim batches of queued runs and work through them   *)
(* one turn at a time, and the user's calls on a schedule.                 *)
(*                                                                         *)
(* Every gateway process runs a planner and an executor loop.  A planner   *)
(* cycle holds an advisory lock and awaits nothing; claiming skips locked  *)
(* rows.  So every transaction is one step, and only the executor's turn   *)
(* separates the read of a schedule from the write of its result.          *)
(***************************************************************************)
EXTENDS Naturals, FiniteSets

CONSTANTS
    Schedule,    \* schedules, created before the behaviour starts
    InitKind,    \* InitKind[s]: "once" or "recurring"
    InitNext,    \* InitNext[s]: the first time at which s is due
    Proc,        \* gateway processes
    MaxTime,     \* bound: the clock stops here
    Period,      \* the cron expression: due at every multiple of Period
    BatchLimit,  \* executor_batch_limit
    Retention,   \* terminal_once_retention_days, in clock ticks
    MaxCrashes,  \* bound: stops of a process
    UserOps      \* UserOps[s]: the calls that users make on s in this instance

AllUserOps == {"update", "pause", "resume", "run_now", "delete"}

NoTime   == 0                      \* NULL; the clock starts at 1
Time     == 1..MaxTime
NextTime == 0..(MaxTime + Period)  \* the next slot may lie past the bound
Run      == Schedule \X Time  \* a run row, by its unique (schedule, scheduled_for)

ASSUME ScheduleAssumption ==
    /\ MaxTime \in Nat \ {0}
    /\ Period \in Nat \ {0}
    /\ BatchLimit \in Nat \ {0}
    /\ Retention \in Nat
    /\ MaxCrashes \in Nat
    /\ InitKind \in [Schedule -> {"once", "recurring"}]
    /\ InitNext \in [Schedule -> Time]
    /\ UserOps \in [Schedule -> SUBSET AllUserOps]

Kind           == {"once", "recurring"}
ScheduleStatus == {"active", "paused", "completed", "failed", "deleted"}
TerminalOnce   == {"completed", "failed"}
RunStatus      == {"none", "queued", "running", "succeeded", "failed", "skipped"}

Row == [kind: Kind, status: ScheduleStatus, next: NextTime,
        last: Time \cup {NoTime}, updated: Time]

NoRun == <<"none", NoTime>>

VARIABLES
    now,      \* the clock
    sched,    \* sched[s]: the row of schedule s
    runs,     \* runs[s][t]: status of the run row of s scheduled for t
    batch,    \* batch[p]: claimed runs that the executor of p has still to finish
    turn,     \* turn[p]: the run whose turn p awaits
    crashes,  \* stops of processes so far
    begun,    \* history: begun[k], turns begun for run k
    fired,    \* history: fired[s], runs planned since s was last given a time
    first     \* history: first[s], the next time that s was last given

vars == <<now, sched, runs, batch, turn, crashes, begun, fired, first>>

Of(k) == k[1]
RunAt(k) == runs[k[1]][k[2]]
Held == UNION {batch[p] : p \in Proc}

-----------------------------------------------------------------------------
(* The planner                                                             *)

\* compute_next_run_at: the first slot of the cron expression after a time.
NextSlot(t) == (t \div Period + 1) * Period

Due(s) ==
    /\ sched[s].status = "active"
    /\ sched[s].next # NoTime
    /\ sched[s].next <= now

Overlapping(s) == \E t \in Time : runs[s][t] = "running"
Duplicate(s)   == runs[s][sched[s].next] # "none"

\* Mutant: a one-time schedule stays as it is after it was planned.
AdvanceOpen(r) ==
    IF r.kind = "once" THEN [r EXCEPT !.updated = now]
    ELSE [r EXCEPT !.next = NextSlot(@), !.updated = now]

\* Mutant: the next slot is looked for after the present, not after the slot.
AdvanceFromNow(r) ==
    IF r.kind = "once"
    THEN [r EXCEPT !.status = "completed", !.next = NoTime, !.updated = now]
    ELSE [r EXCEPT !.next = NextSlot(now), !.updated = now]

\* _advance_schedule_after_planning
Advance(r) ==
    IF r.kind = "once"
    THEN [r EXCEPT !.status = "completed", !.next = NoTime, !.updated = now]
    ELSE [r EXCEPT !.next = NextSlot(@), !.updated = now]

\* cleanup_terminal_one_time_schedules: the status tells whether a schedule
\* is finished; run rows go with their schedule.
Expired(r) ==
    /\ r.kind = "once"
    /\ r.status \in TerminalOnce
    /\ (IF r.last # NoTime THEN r.last ELSE r.updated) + Retention < now

\* plan_due_schedule_runs
Planned(s) ==
    IF ~Due(s) THEN sched[s]
    ELSE IF Overlapping(s) /\ ~Duplicate(s)
         THEN Advance([sched[s] EXCEPT !.last = now])
         ELSE Advance(sched[s])

PlannedRuns(s) ==
    [t \in Time |-> IF Due(s) /\ t = sched[s].next /\ ~Duplicate(s)
                    THEN IF Overlapping(s) THEN "skipped" ELSE "queued"
                    ELSE runs[s][t]]

Deleted(r) == [r EXCEPT !.status = "deleted"]
NoRuns     == [t \in Time |-> "none"]

\* A planner cycle; when the hourly timer is up it also cleans up.
PlannerCycle ==
    \E cleaned \in {{}, {s \in Schedule : Expired(Planned(s))}} :
        /\ \E s \in Schedule : Due(s) \/ s \in cleaned
        /\ sched' = [s \in Schedule |-> IF s \in cleaned THEN Deleted(Planned(s)) ELSE Planned(s)]
        /\ runs' = [s \in Schedule |-> IF s \in cleaned THEN NoRuns ELSE PlannedRuns(s)]
        /\ fired' = [s \in Schedule |-> IF Due(s) THEN fired[s] + 1 ELSE fired[s]]
        /\ UNCHANGED <<now, batch, turn, crashes, begun, first>>

-----------------------------------------------------------------------------
(* The executors                                                           *)

\* Rows after the runs in S have reached a status.
Mark(S, st) ==
    [s \in Schedule |-> [t \in Time |-> IF <<s, t>> \in S THEN st ELSE runs[s][t]]]

\* Mutant: runs that another process has claimed are claimed again.
ClaimUnended(p) ==
    LET open == {k \in Run : RunAt(k) \in {"queued", "running"}}
    IN  /\ batch[p] = {}
        /\ \E b \in SUBSET open :
              /\ b # {} /\ Cardinality(b) <= BatchLimit
              /\ batch' = [batch EXCEPT ![p] = b]
              /\ runs' = Mark(b, "running")
        /\ UNCHANGED <<now, sched, turn, crashes, begun, fired, first>>

\* claim_queued_schedule_run_ids: the oldest queued runs, as many as fit.
Claim(p) ==
    LET queued == {k \in Run : RunAt(k) = "queued"}
    IN  /\ batch[p] = {}
        /\ \E b \in SUBSET queued :
              /\ b # {} /\ Cardinality(b) <= BatchLimit
              /\ Cardinality(b) = BatchLimit \/ b = queued
              /\ \A k \in b, l \in queued \ b : k[2] <= l[2]
              /\ batch' = [batch EXCEPT ![p] = b]
              /\ runs' = Mark(b, "running")
        /\ UNCHANGED <<now, sched, turn, crashes, begun, fired, first>>

\* The run failed (an exception of the turn): a one-time schedule fails with it.
Failed(r) ==
    IF r.kind = "once"
    THEN [r EXCEPT !.status = "failed", !.next = NoTime, !.last = now, !.updated = now]
    ELSE [r EXCEPT !.last = now, !.updated = now]

\* _mark_invalid_binding: a recurring schedule is paused besides.
Unbound(r) ==
    IF r.kind = "once" THEN Failed(r)
    ELSE [r EXCEPT !.status = "paused", !.last = now, !.updated = now]

\* Mutant: the status of the run is written to the schedule.
SucceededAsRun(r) ==
    [r EXCEPT !.status = "succeeded", !.last = now, !.updated = now]

\* The turn succeeded: a one-time schedule is completed unless it had failed.
Succeeded(r) ==
    IF r.kind = "once" /\ r.status # "failed"
    THEN [r EXCEPT !.status = "completed", !.next = NoTime, !.last = now, !.updated = now]
    ELSE [r EXCEPT !.last = now, !.updated = now]

\* The row of run k and of its schedule are written and k leaves the batch.
Finish(p, k, st, row) ==
    /\ runs' = Mark({k}, st)
    /\ sched' = [sched EXCEPT ![Of(k)] = row]
    /\ batch' = [batch EXCEPT ![p] = @ \ {k}]

\* Run row k is gone: _load_run_for_execution raises out of the loop over the
\* batch, whose other runs nobody looks at again.
Abandon(p, k) ==
    /\ RunAt(k) = "none"
    /\ batch' = [batch EXCEPT ![p] = {}]
    /\ UNCHANGED <<runs, sched>>

Head(p, k) ==
    /\ turn[p] = NoRun
    /\ k \in batch[p]
    /\ \A l \in batch[p] : k[2] <= l[2]

\* execute_schedule_run up to the turn.  Nothing asks whether the schedule is
\* still active.
BeginRun(p, k) ==
    /\ Head(p, k)
    /\ RunAt(k) # "none"
    /\ turn' = [turn EXCEPT ![p] = k]
    /\ begun' = [begun EXCEPT ![k] = @ + 1]
    /\ UNCHANGED <<now, sched, runs, batch, crashes, fired, first>>

\* execute_schedule_run when owner, conversation or external agent is missing.
RefuseRun(p, k) ==
    /\ Head(p, k)
    /\ RunAt(k) # "none"
    /\ Finish(p, k, "failed", Unbound(sched[Of(k)]))
    /\ UNCHANGED <<now, turn, crashes, begun, fired, first>>

LoseRun(p, k) ==
    /\ Head(p, k)
    /\ Abandon(p, k)
    /\ UNCHANGED <<now, turn, crashes, begun, fired, first>>

\* Mutant: a failed turn ends the loop over the batch.
EndRunStoppingBatch(p) ==
    LET k == turn[p]
    IN  /\ k # NoRun
        /\ turn' = [turn EXCEPT ![p] = NoRun]
        /\ runs' = Mark({k}, "failed")
        /\ sched' = [sched EXCEPT ![Of(k)] = Failed(@)]
        /\ batch' = [batch EXCEPT ![p] = {}]
        /\ UNCHANGED <<now, crashes, begun, fired, first>>

\* Mutant: a failed one-time schedule keeps the time of its next run.
EndRunKeepingNext(p) ==
    LET k == turn[p]
    IN  /\ k # NoRun
        /\ turn' = [turn EXCEPT ![p] = NoRun]
        /\ Finish(p, k, "failed", [sched[Of(k)] EXCEPT !.status = "failed"])
        /\ UNCHANGED <<now, crashes, begun, fired, first>>

\* execute_schedule_run after the turn: succeeded, failed, or delivery found
\* the binding invalid.
EndRun(p) ==
    LET k == turn[p]
        r == sched[Of(k)]
    IN  /\ k # NoRun
        /\ turn' = [turn EXCEPT ![p] = NoRun]
        /\ IF RunAt(k) = "none" THEN Abandon(p, k)
           ELSE \/ Finish(p, k, "succeeded", Succeeded(r))
                \/ Finish(p, k, "failed", Failed(r))
                \/ Finish(p, k, "failed", Unbound(r))
        /\ UNCHANGED <<now, crashes, begun, fired, first>>

\* The process stops, or its executor task is cancelled: what it had claimed
\* stays "running".
Crash(p) ==
    /\ crashes < MaxCrashes
    /\ batch[p] # {}
    /\ crashes' = crashes + 1
    /\ batch' = [batch EXCEPT ![p] = {}]
    /\ turn' = [turn EXCEPT ![p] = NoRun]
    /\ UNCHANGED <<now, sched, runs, begun, fired, first>>

-----------------------------------------------------------------------------
(* The user's calls                                                        *)

Finished(s) == sched[s].kind = "once" /\ sched[s].status \in TerminalOnce

UserUnchanged == UNCHANGED <<now, batch, turn, crashes, begun>>

\* update_schedule: a new time, possibly a new kind.
UpdateSchedule(s) ==
    /\ "update" \in UserOps[s]
    /\ sched[s].status # "deleted"
    /\ \E kind \in Kind, at \in (now + 1)..MaxTime :
          sched' = [sched EXCEPT ![s].kind = kind,
                                 ![s].next = IF kind = "once" THEN at ELSE NextSlot(now),
                                 ![s].status = IF @ \in TerminalOnce THEN "active" ELSE @,
                                 ![s].updated = now]
    /\ fired' = [fired EXCEPT ![s] = 0]
    /\ first' = [first EXCEPT ![s] = sched'[s].next]
    /\ UNCHANGED runs /\ UserUnchanged

PauseSchedule(s) ==
    /\ "pause" \in UserOps[s]
    /\ sched[s].status # "deleted" /\ ~Finished(s)
    /\ sched' = [sched EXCEPT ![s].status = "paused", ![s].updated = now]
    /\ UNCHANGED <<runs, fired, first>> /\ UserUnchanged

\* resume_schedule.  For a one-time schedule max(run_at, now) is max(next, now),
\* since next is run_at or the time of an earlier resumption.  A recurring one
\* continues after its next slot when that is still to come.
ResumeSchedule(s) ==
    LET later == IF sched[s].next > now THEN sched[s].next ELSE now
    IN  /\ "resume" \in UserOps[s]
        /\ sched[s].status # "deleted" /\ ~Finished(s)
        /\ later <= MaxTime  \* bound: each call moves a recurring one a slot on
        /\ sched' = [sched EXCEPT ![s].status = "active", ![s].updated = now,
                         ![s].next = IF sched[s].kind = "once" THEN later ELSE NextSlot(later)]
        /\ first' = [first EXCEPT ![s] = sched'[s].next]
        /\ UNCHANGED <<runs, fired>> /\ UserUnchanged

\* run_schedule_now: the unique index refuses a second run for the same time.
RunNow(s) ==
    /\ "run_now" \in UserOps[s]
    /\ sched[s].status # "deleted" /\ ~Finished(s)
    /\ runs[s][now] = "none"
    /\ runs' = [runs EXCEPT ![s][now] = "queued"]
    /\ UNCHANGED <<sched, fired, first>> /\ UserUnchanged

DeleteSchedule(s) ==
    /\ "delete" \in UserOps[s]
    /\ sched[s].status # "deleted"
    /\ sched' = [sched EXCEPT ![s].status = "deleted"]
    /\ runs' = [runs EXCEPT ![s] = NoRuns]
    /\ UNCHANGED <<fired, first>> /\ UserUnchanged

UserStep(s) ==
    \/ UpdateSchedule(s) \/ PauseSchedule(s) \/ ResumeSchedule(s)
    \/ RunNow(s) \/ DeleteSchedule(s)

-----------------------------------------------------------------------------
(* Specification                                                           *)

Init ==
    /\ now = 1
    /\ sched = [s \in Schedule |-> [kind |-> InitKind[s], status |-> "active",
                   next |-> InitNext[s], last |-> NoTime, updated |-> 1]]
    /\ runs = [s \in Schedule |-> NoRuns]
    /\ batch = [p \in Proc |-> {}]
    /\ turn = [p \in Proc |-> NoRun]
    /\ crashes = 0
    /\ begun = [k \in Run |-> 0]
    /\ fired = [s \in Schedule |-> 0]
    /\ first = InitNext

Tick ==
    /\ now < MaxTime
    /\ now' = now + 1
    /\ UNCHANGED <<sched, runs, batch, turn, crashes, begun, fired, first>>

Execute(p) == \E k \in Run : BeginRun(p, k) \/ RefuseRun(p, k) \/ LoseRun(p, k)

Next ==
    \/ Tick
    \/ PlannerCycle
    \/ \E p \in Proc : Claim(p) \/ Execute(p) \/ EndRun(p) \/ Crash(p)
    \/ \E s \in Schedule : UserStep(s)

Spec == Init /\ [][Next]_vars

\* The planner and executor loops run on timers, and every turn ends.
Fairness ==
    /\ WF_vars(PlannerCycle)
    /\ \A p \in Proc : WF_vars(Claim(p)) /\ WF_vars(Execute(p)) /\ WF_vars(EndRun(p))

FairSpec == Spec /\ Fairness

-----------------------------------------------------------------------------
(* Properties                                                              *)

TypeOK ==
    /\ now \in Time
    /\ sched \in [Schedule -> Row]
    /\ runs \in [Schedule -> [Time -> RunStatus]]
    /\ batch \in [Proc -> SUBSET Run]
    /\ turn \in [Proc -> Run \cup {NoRun}]
    /\ crashes \in 0..MaxCrashes
    /\ begun \in [Run -> Nat]
    /\ fired \in [Schedule -> Nat]
    /\ first \in [Schedule -> NextTime]

\* A run is one execution attempt: no run has a second turn, whichever
\* processes claim, stop or lose it in between.
RunOnce == \A k \in Run : begun[k] <= 1

\* The planner can always find an active schedule again: it has a next time,
\* and a finished one-time schedule has none that would revive it.
NextTimeKept ==
    \A s \in Schedule :
        /\ sched[s].status = "active" => sched[s].next # NoTime
        /\ Finished(s) => sched[s].next = NoTime

\* A one-time schedule is planned at most once for each time it was given.
OnceFiresOnce == \A s \in Schedule : sched[s].kind = "once" => fired[s] <= 1

\* A recurring schedule accounts for every slot the clock has left behind, from
\* the first one that its user chose: the planner catches up slot by slot,
\* however late it runs.
NoSlotMissed ==
    \A s \in Schedule, t \in Time :
        (/\ sched[s].kind = "recurring" /\ sched[s].status # "deleted"
         /\ t % Period = 0 /\ first[s] <= t /\ t < sched[s].next)
            => runs[s][t] # "none"

\* The executor of k's batch will meet a run whose row was deleted; it then
\* drops the batch, and k with it.
BesideDeleted(k) ==
    \E p \in Proc : k \in batch[p] /\ \E l \in batch[p] : RunAt(l) = "none"

\* A queued run is executed and ends, however the runs before it in its batch
\* end and whatever their users do to their schedules, with three exceptions:
\* it is deleted with its schedule, a process stops, or a run that was claimed
\* with it is deleted with another schedule before its turn is over.
QueuedRunsEnd ==
    \A k \in Run : RunAt(k) = "queued"
        ~> (RunAt(k) \in {"succeeded", "failed", "none"} \/ BesideDeleted(k) \/ crashes > 0)
=============================================================================
