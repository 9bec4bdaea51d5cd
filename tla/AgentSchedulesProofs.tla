------------------------ MODULE AgentSchedulesProofs ------------------------
(***************************************************************************)
(* Proofs about AgentSchedules, for any number of schedules, processes and *)
(* clock ticks: the rows keep their types, no run begins a second turn,    *)
(* every active schedule keeps a next time, a one-time schedule is planned *)
(* once per time it was given, no slot is missed, a deleted schedule stays *)
(* as it is, runs only move on, and a running run has its executor.        *)
(***************************************************************************)
EXTENDS AgentSchedules, TLAPS

-----------------------------------------------------------------------------
(* The inductive invariant                                                 *)

\* What the row of a schedule and its count of planned runs keep saying.
SoundRow(r, f) ==
    /\ r \in Row
    /\ f \in Nat
    /\ r.status \in {"active", "paused"} => r.next # NoTime
    /\ r.kind = "recurring" => r.status \in {"active", "paused", "deleted"}
    /\ (r.kind = "once" /\ r.status \in TerminalOnce) => r.next = NoTime
    /\ (r.kind = "once") => f <= 1
    /\ (r.kind = "once" /\ r.next # NoTime) => f = 0

RowsSound ==
    /\ sched = [s \in Schedule |-> sched[s]]
    /\ fired = [s \in Schedule |-> fired[s]]
    /\ \A s \in Schedule : SoundRow(sched[s], fired[s])

\* A run that could be claimed is neither held nor begun; a held run other than
\* the one in its turn has not begun; no run is held twice.
Fresh(k) == begun[k] = 0 /\ \A p \in Proc : k \notin batch[p]

Unclaimed(k) ==
    \/ RunAt(k) = "queued"
    \/ RunAt(k) = "none" /\ sched[Of(k)].status # "deleted"

Owned ==
    /\ \A p, q \in Proc : p # q => batch[p] \cap batch[q] = {}
    /\ \A p \in Proc : turn[p] # NoRun => turn[p] \in batch[p]
    /\ \A k \in Run : begun[k] <= 1
    /\ \A k \in Run : Unclaimed(k) => Fresh(k)
    /\ \A p \in Proc : \A k \in batch[p] : turn[p] # k => begun[k] = 0
    /\ \A k \in Run : sched[Of(k)].status = "deleted" => RunAt(k) = "none"

Typed ==
    /\ now \in Time
    /\ runs \in [Schedule -> [Time -> RunStatus]]
    /\ batch \in [Proc -> SUBSET Run]
    /\ turn \in [Proc -> Run \cup {NoRun}]
    /\ crashes \in 0..MaxCrashes
    /\ begun \in [Run -> Nat]

IInv == Typed /\ RowsSound /\ Owned

-----------------------------------------------------------------------------
(* Lemmas about the operators                                              *)

\* Division with remainder, as compute_next_run_at's cron slots use it.
LEMMA Remainder ==
    ASSUME NEW t \in Nat, NEW d \in Nat \ {0}
    PROVE  /\ t = (t \div d) * d + (t % d)
           /\ t % d \in 0..(d - 1)
           /\ t \div d \in Nat
  OBVIOUS

\* compute_next_run_at returns a later time, at most one period away.
LEMMA SlotAfter ==
    ASSUME NEW t \in Nat
    PROVE  NextSlot(t) \in Nat /\ t < NextSlot(t) /\ NextSlot(t) <= t + Period
<1>1. Period \in Nat \ {0}  BY ScheduleAssumption
<1>2. /\ t = (t \div Period) * Period + (t % Period)
      /\ t % Period \in 0..(Period - 1)
      /\ t \div Period \in Nat
  BY <1>1, Remainder
<1>3. (t \div Period + 1) * Period = (t \div Period) * Period + Period  BY <1>1, <1>2
<1> QED  BY <1>1, <1>2, <1>3 DEF NextSlot

\* _advance_schedule_after_planning keeps a due row sound, and counts as fired.
LEMMA AdvanceSound ==
    ASSUME NEW r, NEW f, SoundRow(r, f), now \in Time,
           r.status = "active", r.next # NoTime, r.next <= now
    PROVE  SoundRow(Advance(r), f + 1)
<1>1. MaxTime \in Nat /\ Period \in Nat  BY ScheduleAssumption
<1>2. r.next \in Nat /\ r.next <= MaxTime  BY <1>1 DEF SoundRow, Row, NextTime, Time, NoTime
<1>3. NextSlot(r.next) \in NextTime /\ NextSlot(r.next) # NoTime
  BY <1>1, <1>2, SlotAfter DEF NextTime, NoTime
<1>4. 0 \in NextTime  BY <1>1 DEF NextTime
<1>5. r \in Row /\ f \in Nat /\ now \in Time  BY DEF SoundRow
<1>6. CASE r.kind = "once"
  <2>1. Advance(r) = [r EXCEPT !.status = "completed", !.next = NoTime, !.updated = now]
    BY <1>6 DEF Advance
  <2>2. f = 0  BY <1>6 DEF SoundRow
  <2>3. Advance(r) \in Row  BY <1>4, <1>5, <2>1 DEF Row, ScheduleStatus, NoTime
  <2>4. /\ Advance(r).kind = "once" /\ Advance(r).status = "completed"
        /\ Advance(r).next = NoTime
    BY <1>5, <1>6, <2>1 DEF Row
  <2>5. f + 1 \in Nat /\ f + 1 <= 1  BY <2>2
  <2> QED  BY <2>3, <2>4, <2>5 DEF SoundRow
<1>7. CASE r.kind # "once"
  <2>1. Advance(r) = [r EXCEPT !.next = NextSlot(r.next), !.updated = now]
    BY <1>7 DEF Advance
  <2> DEFINE slot == NextSlot(r.next)
  <2>2. slot \in NextTime /\ slot # NoTime  BY <1>3
  <2>3. Advance(r) = [r EXCEPT !.next = slot, !.updated = now]  BY <2>1
  <2> HIDE DEF slot
  <2>4. f + 1 \in Nat  BY <1>5
  <2> QED  BY <1>5, <1>7, <2>2, <2>3, <2>4 DEF SoundRow, Row, ScheduleStatus, TerminalOnce
<1> QED  BY <1>6, <1>7

\* The failure of a run keeps its schedule's row sound.
LEMMA FailedSound ==
    ASSUME NEW r, NEW f, SoundRow(r, f), now \in Time
    PROVE  SoundRow(Failed(r), f)
<1>1. 0 \in NextTime  BY ScheduleAssumption DEF NextTime
<1> QED  BY <1>1 DEF SoundRow, Failed, Row, Kind, ScheduleStatus, TerminalOnce, NoTime

\* _mark_invalid_binding keeps the row sound.
LEMMA UnboundSound ==
    ASSUME NEW r, NEW f, SoundRow(r, f), now \in Time, r.status # "deleted"
    PROVE  SoundRow(Unbound(r), f)
  BY FailedSound DEF SoundRow, Unbound, Row, Kind, ScheduleStatus, TerminalOnce, NoTime

\* The success of a run keeps the row sound.
LEMMA SucceededSound ==
    ASSUME NEW r, NEW f, SoundRow(r, f), now \in Time
    PROVE  SoundRow(Succeeded(r), f)
<1>1. 0 \in NextTime  BY ScheduleAssumption DEF NextTime
<1> QED  BY <1>1 DEF SoundRow, Succeeded, Row, Kind, ScheduleStatus, TerminalOnce, NoTime

\* A deleted schedule's row is kept as it was, under the status "deleted".
LEMMA DeletedSound ==
    ASSUME NEW r, NEW f, SoundRow(r, f)
    PROVE  SoundRow(Deleted(r), f)
  BY DEF SoundRow, Deleted, Row, Kind, ScheduleStatus, TerminalOnce

\* A run row is a pair of its schedule and its time.
LEMMA RunPair ==
    ASSUME NEW k \in Run
    PROVE  k[1] \in Schedule /\ k[2] \in Time /\ k = <<k[1], k[2]>>
  BY DEF Run

\* Marking runs writes those rows and no other.
LEMMA MarkAt ==
    ASSUME NEW S, NEW st, NEW k \in Run
    PROVE  Mark(S, st)[k[1]][k[2]] = IF k \in S THEN st ELSE RunAt(k)
  BY RunPair DEF Mark, RunAt

\* Marking runs with a status of the table keeps the type of the run rows.
LEMMA MarkTyped ==
    ASSUME NEW S, NEW st \in RunStatus, runs \in [Schedule -> [Time -> RunStatus]]
    PROVE  Mark(S, st) \in [Schedule -> [Time -> RunStatus]]
  BY DEF Mark

-----------------------------------------------------------------------------
(* The rows of the schedules                                               *)

\* The planner leaves a sound row, whose fired count is that of the cycle.
LEMMA PlannedSound ==
    ASSUME now \in Time, RowsSound, NEW s \in Schedule
    PROVE  SoundRow(Planned(s), IF Due(s) THEN fired[s] + 1 ELSE fired[s])
<1>1. SoundRow(sched[s], fired[s])  BY DEF RowsSound
<1>2. CASE ~Due(s)  BY <1>1, <1>2 DEF Planned
<1>3. CASE Due(s)
  <2> DEFINE r == [sched[s] EXCEPT !.last = now]
  <2>1. SoundRow(r, fired[s]) /\ r.status = sched[s].status /\ r.next = sched[s].next
    BY <1>1 DEF SoundRow, Row, TerminalOnce
  <2>2. /\ sched[s].status = "active" /\ sched[s].next # NoTime /\ sched[s].next <= now
    BY <1>3 DEF Due
  <2> HIDE DEF r
  <2>3. SoundRow(Advance(r), fired[s] + 1)  BY <2>1, <2>2, AdvanceSound
  <2>4. SoundRow(Advance(sched[s]), fired[s] + 1)  BY <1>1, <2>2, AdvanceSound
  <2>5. Planned(s) = Advance(r) \/ Planned(s) = Advance(sched[s])
    BY <1>3 DEF Planned, r
  <2> QED  BY <1>3, <2>3, <2>4, <2>5
<1> QED  BY <1>2, <1>3

\* A due time has passed: it is one the clock has shown.
LEMMA PlannedTime ==
    ASSUME now \in Time, RowsSound, NEW s \in Schedule, Due(s)
    PROVE  sched[s].next \in Time
  BY ScheduleAssumption DEF RowsSound, SoundRow, Row, NextTime, NoTime, Time, Due

\* A planner cycle advances due schedules and may delete finished ones.
LEMMA PlannerRows ==
    ASSUME now \in Time, RowsSound, PlannerCycle
    PROVE  RowsSound'
<1>1. PICK cleaned \in {{}, {s \in Schedule : Expired(Planned(s))}} :
        /\ sched' = [s \in Schedule |-> IF s \in cleaned THEN Deleted(Planned(s)) ELSE Planned(s)]
        /\ fired' = [s \in Schedule |-> IF Due(s) THEN fired[s] + 1 ELSE fired[s]]
  BY DEF PlannerCycle
<1>2. ASSUME NEW s \in Schedule PROVE SoundRow(sched'[s], fired'[s])
  BY <1>1, PlannedSound, DeletedSound
<1> QED  BY <1>1, <1>2 DEF RowsSound

\* The end of a run writes the row of its schedule, to another sound one.
LEMMA FinishRows ==
    ASSUME RowsSound, NEW p, NEW k \in Run, NEW st, NEW row,
           Finish(p, k, st, row), SoundRow(row, fired[Of(k)]), fired' = fired
    PROVE  RowsSound'
<1>1. sched' = [sched EXCEPT ![Of(k)] = row]  BY DEF Finish
<1>2. ASSUME NEW s \in Schedule PROVE SoundRow(sched'[s], fired'[s])
  <2>1. SoundRow(sched[s], fired[s])  BY DEF RowsSound
  <2>2. sched'[s] = IF s = Of(k) THEN row ELSE sched[s]  BY <1>1 DEF RowsSound
  <2> QED  BY <2>1, <2>2
<1> QED  BY <1>1, <1>2 DEF RowsSound

\* Whatever a user calls, the rows stay sound.
LEMMA UserRows ==
    ASSUME now \in Time, RowsSound, NEW s \in Schedule, UserStep(s)
    PROVE  RowsSound'
<1> DEFINE r == sched[s]
<1>1. SoundRow(r, fired[s]) /\ r \in Row  BY DEF RowsSound, SoundRow
<1>2. MaxTime \in Nat /\ Period \in Nat /\ now \in Nat /\ now # 0 /\ now <= MaxTime
  BY ScheduleAssumption DEF Time
<1>3. ASSUME NEW t \in Nat, t <= MaxTime
      PROVE  NextSlot(t) \in NextTime /\ NextSlot(t) # NoTime
  BY <1>2, <1>3, SlotAfter DEF NextTime, NoTime
<1>4. SUFFICES /\ sched' = [sched EXCEPT ![s] = sched'[s]]
               /\ fired' = [fired EXCEPT ![s] = fired'[s]]
               /\ SoundRow(sched'[s], fired'[s])
  <2>1. ASSUME NEW q \in Schedule PROVE SoundRow(sched'[q], fired'[q])
    <3>1. q # s => sched'[q] = sched[q] /\ fired'[q] = fired[q]  BY <1>4 DEF RowsSound
    <3> QED  BY <1>4, <3>1 DEF RowsSound
  <2> QED  BY <1>4, <2>1 DEF RowsSound
<1>5. CASE UpdateSchedule(s)
  <2>1. PICK kind \in Kind, at \in (now + 1)..MaxTime :
          sched' = [sched EXCEPT ![s].kind = kind,
                                 ![s].next = IF kind = "once" THEN at ELSE NextSlot(now),
                                 ![s].status = IF @ \in TerminalOnce THEN "active" ELSE @,
                                 ![s].updated = now]
    BY <1>5 DEF UpdateSchedule
  <2> DEFINE next   == IF kind = "once" THEN at ELSE NextSlot(now)
             status == IF r.status \in TerminalOnce THEN "active" ELSE r.status
  <2>2. next \in NextTime /\ next # NoTime  BY <1>2, <1>3 DEF NextTime, NoTime
  <2>3. sched'[s] = [r EXCEPT !.kind = kind, !.next = next, !.status = status, !.updated = now]
    BY <2>1 DEF RowsSound
  <2>7. sched' = [sched EXCEPT ![s] = sched'[s]]  BY <2>1 DEF RowsSound
  <2> HIDE DEF next, r
  <2>4. /\ fired' = [fired EXCEPT ![s] = 0] /\ fired'[s] = 0  BY <1>5 DEF UpdateSchedule, RowsSound
  <2>5. sched'[s] \in Row /\ sched'[s].next # NoTime /\ sched'[s].status \notin TerminalOnce
    BY <1>1, <2>2, <2>3 DEF Row, ScheduleStatus, TerminalOnce
  <2>6. SoundRow(sched'[s], 0)
    BY <2>5 DEF SoundRow, Row, Kind, ScheduleStatus, TerminalOnce
  <2> QED  BY <2>4, <2>6, <2>7
<1>6. CASE PauseSchedule(s)
  <2>1. sched' = [sched EXCEPT ![s] = [r EXCEPT !.status = "paused", !.updated = now]]
        /\ fired' = fired /\ r.status # "deleted" /\ ~Finished(s)
    BY <1>6 DEF PauseSchedule, RowsSound
  <2>2. sched'[s] = [r EXCEPT !.status = "paused", !.updated = now]  BY <2>1 DEF RowsSound
  <2>3. r.next # NoTime
    BY <1>1, <2>1 DEF Finished, SoundRow, Row, Kind, ScheduleStatus, TerminalOnce
  <2>4. SoundRow(sched'[s], fired[s])
    BY <1>1, <2>2, <2>3 DEF SoundRow, Row, Kind, ScheduleStatus, TerminalOnce
  <2> QED  BY <2>1, <2>2, <2>4 DEF RowsSound
<1>7. CASE ResumeSchedule(s)
  <2> DEFINE later == IF r.next > now THEN r.next ELSE now
             next  == IF r.kind = "once" THEN later ELSE NextSlot(later)
  <2>1. /\ sched' = [sched EXCEPT ![s] = [r EXCEPT !.status = "active", !.updated = now, !.next = next]]
        /\ fired' = fired /\ r.status # "deleted" /\ ~Finished(s) /\ later <= MaxTime
    BY <1>7 DEF ResumeSchedule, RowsSound
  <2>2. sched'[s] = [r EXCEPT !.status = "active", !.updated = now, !.next = next]
    BY <2>1 DEF RowsSound
  <2>3. r.next # NoTime /\ r.next \in Nat
    BY <1>1, <1>2, <2>1
       DEF Finished, SoundRow, Row, Kind, ScheduleStatus, TerminalOnce, NextTime, NoTime
  <2>4. later \in Nat /\ later # 0  BY <1>2, <2>3
  <2>5. later \in NextTime  BY <1>2, <2>1, <2>4 DEF NextTime
  <2>6. next \in NextTime /\ next # NoTime  BY <1>3, <2>1, <2>4, <2>5 DEF NoTime
  <2> HIDE DEF next, later
  <2>7. SoundRow(sched'[s], fired[s])
    BY <1>1, <2>2, <2>3, <2>6 DEF SoundRow, Row, Kind, ScheduleStatus, TerminalOnce
  <2> QED  BY <2>1, <2>2, <2>7 DEF RowsSound
<1>8. CASE RunNow(s)  BY <1>1, <1>8 DEF RunNow, RowsSound
<1>9. CASE DeleteSchedule(s)
  <2>1. sched' = [sched EXCEPT ![s] = Deleted(r)] /\ fired' = fired
    BY <1>9 DEF DeleteSchedule, RowsSound, Deleted
  <2>2. sched'[s] = Deleted(r)  BY <2>1 DEF RowsSound
  <2> QED  BY <1>1, <2>1, <2>2, DeletedSound DEF RowsSound
<1> QED  BY <1>5, <1>6, <1>7, <1>8, <1>9 DEF UserStep

-----------------------------------------------------------------------------
(* Who holds a run                                                         *)

\* The value of a free executor is no run.
LEMMA NoRunIsNone == NoRun \notin Run
<1>1. ASSUME NEW k \in Run PROVE k # NoRun
  BY RunPair, ScheduleAssumption DEF NoRun, NoTime, Time
<1> QED  BY <1>1

\* What every step but a claim and the start of a turn leaves behind: executors
\* hold no more than before, and no run becomes claimable that was not.
HoldsNoMore ==
    /\ begun' = begun
    /\ \A q \in Proc : batch'[q] \subseteq batch[q]
    /\ \A q \in Proc :
          \/ turn'[q] = turn[q] /\ (turn[q] # NoRun => turn[q] \in batch'[q])
          \/ turn'[q] = NoRun /\ turn[q] \notin batch'[q]
    /\ \A k \in Run : Unclaimed(k)' => Unclaimed(k)
    /\ \A k \in Run : (sched[Of(k)].status = "deleted")' => (RunAt(k) = "none")'

\* Such a step keeps every run with one holder and one turn.
LEMMA HoldsNoMoreOwned ==
    ASSUME Owned, HoldsNoMore
    PROVE  Owned'
<1>1. \A k \in Run : Fresh(k) => Fresh(k)'  BY DEF HoldsNoMore, Fresh
<1>2. (\A k \in Run : Unclaimed(k) => Fresh(k))'  BY <1>1 DEF HoldsNoMore, Owned
<1>3. (\A p, q \in Proc : p # q => batch[p] \cap batch[q] = {})'
  <2> SUFFICES ASSUME NEW p \in Proc, NEW q \in Proc, p # q
               PROVE  batch'[p] \cap batch'[q] = {}
    OBVIOUS
  <2>1. batch[p] \cap batch[q] = {}  BY DEF Owned
  <2>2. batch'[p] \subseteq batch[p] /\ batch'[q] \subseteq batch[q]  BY DEF HoldsNoMore
  <2> QED  BY <2>1, <2>2
<1>4. (\A p \in Proc : turn[p] # NoRun => turn[p] \in batch[p])'  BY DEF HoldsNoMore
<1>5. (\A k \in Run : begun[k] <= 1)'  BY DEF HoldsNoMore, Owned
<1>6. (\A p \in Proc : \A k \in batch[p] : turn[p] # k => begun[k] = 0)'
  <2> SUFFICES ASSUME NEW p \in Proc, NEW k \in batch'[p], turn'[p] # k
               PROVE  begun'[k] = 0
    OBVIOUS
  <2>1. k \in batch[p] /\ begun' = begun  BY DEF HoldsNoMore
  <2>2. turn[p] # k  BY DEF HoldsNoMore
  <2> QED  BY <2>1, <2>2 DEF Owned
<1>7. (\A k \in Run : sched[Of(k)].status = "deleted" => RunAt(k) = "none")'
  BY DEF HoldsNoMore
<1> QED  BY <1>2, <1>3, <1>4, <1>5, <1>6, <1>7 DEF Owned

\* claim_queued_schedule_run_ids takes queued runs, which nobody holds.
LEMMA ClaimOwned ==
    ASSUME Typed, Owned, NEW p \in Proc, Claim(p)
    PROVE  Owned'
<1>1. PICK b \in SUBSET {k \in Run : RunAt(k) = "queued"} :
        batch' = [batch EXCEPT ![p] = b] /\ runs' = Mark(b, "running")
  BY DEF Claim
<1>2. batch[p] = {} /\ turn' = turn /\ begun' = begun /\ sched' = sched  BY DEF Claim
<1>3. batch'[p] = b /\ \A q \in Proc : q # p => batch'[q] = batch[q]  BY <1>1 DEF Typed
<1>4. turn[p] = NoRun  BY <1>2 DEF Owned
<1>5. \A k \in b : k \in Run /\ Fresh(k) /\ sched[Of(k)].status # "deleted"
  BY <1>1 DEF Owned, Unclaimed
<1>6. \A k \in Run : RunAt(k)' = IF k \in b THEN "running" ELSE RunAt(k)
  BY <1>1, MarkAt DEF RunAt
<1>7. (\A k \in Run : Unclaimed(k) => Fresh(k))'
  <2> SUFFICES ASSUME NEW k \in Run, Unclaimed(k)' PROVE Fresh(k)'
    OBVIOUS
  <2>1. k \notin b /\ Unclaimed(k)  BY <1>2, <1>6 DEF Unclaimed
  <2>2. Fresh(k)  BY <2>1 DEF Owned
  <2> QED  BY <1>2, <1>3, <2>1, <2>2 DEF Fresh
<1>8. (\A q, r \in Proc : q # r => batch[q] \cap batch[r] = {})'
  <2>1. ASSUME NEW q \in Proc, q # p PROVE batch'[q] \cap b = {}
    BY <1>3, <1>5, <2>1 DEF Fresh
  <2> SUFFICES ASSUME NEW q \in Proc, NEW r \in Proc, q # r
               PROVE  batch'[q] \cap batch'[r] = {}
    OBVIOUS
  <2>2. q # p /\ r # p => batch[q] \cap batch[r] = {}  BY DEF Owned
  <2> QED  BY <1>3, <2>1, <2>2
<1>9. (\A q \in Proc : turn[q] # NoRun => turn[q] \in batch[q])'
  BY <1>2, <1>3, <1>4 DEF Owned
<1>10. (\A q \in Proc : \A k \in batch[q] : turn[q] # k => begun[k] = 0)'
  BY <1>2, <1>3, <1>5 DEF Owned, Fresh
<1>11. (\A k \in Run : sched[Of(k)].status = "deleted" => RunAt(k) = "none")'
  BY <1>2, <1>5, <1>6 DEF Owned
<1>12. (\A k \in Run : begun[k] <= 1)'  BY <1>2 DEF Owned
<1> QED  BY <1>7, <1>8, <1>9, <1>10, <1>11, <1>12 DEF Owned

\* execute_schedule_run begins the turn of a run that has had none.
LEMMA BeginOwned ==
    ASSUME Typed, Owned, NEW p \in Proc, NEW k \in Run, BeginRun(p, k)
    PROVE  Owned'
<1>1. /\ turn[p] = NoRun /\ k \in batch[p]
      /\ turn' = [turn EXCEPT ![p] = k] /\ begun' = [begun EXCEPT ![k] = @ + 1]
      /\ batch' = batch /\ runs' = runs /\ sched' = sched
  BY DEF BeginRun, Head
<1>2. begun[k] = 0  BY <1>1, NoRunIsNone DEF Owned
<1>3. \A l \in Run : begun'[l] = IF l = k THEN 1 ELSE begun[l]  BY <1>1, <1>2 DEF Typed
<1>4. turn'[p] = k /\ \A q \in Proc : q # p => turn'[q] = turn[q]  BY <1>1 DEF Typed
<1>5. ~Unclaimed(k)  BY <1>1 DEF Owned, Fresh
<1>6. (\A l \in Run : Unclaimed(l) => Fresh(l))'
  <2> SUFFICES ASSUME NEW l \in Run, Unclaimed(l)' PROVE Fresh(l)'
    OBVIOUS
  <2>1. Unclaimed(l)  BY <1>1 DEF Unclaimed, RunAt
  <2>2. Fresh(l) /\ l # k  BY <1>5, <2>1 DEF Owned
  <2> QED  BY <1>1, <1>3, <2>2 DEF Fresh
<1>7. (\A q \in Proc : \A l \in batch[q] : turn[q] # l => begun[l] = 0)'
  <2> SUFFICES ASSUME NEW q \in Proc, NEW l \in batch[q], turn'[q] # l PROVE begun'[l] = 0
    BY <1>1
  <2>1. l \in Run  BY DEF Typed
  <2>2. CASE q = p
    <3>1. turn[q] # l  BY <1>1, <2>1, <2>2, NoRunIsNone
    <3> QED  BY <1>3, <1>4, <2>1, <2>2, <3>1 DEF Owned
  <2>3. CASE q # p
    <3>1. batch[q] \cap batch[p] = {}  BY <2>3 DEF Owned
    <3>2. l # k /\ turn[q] # l  BY <1>1, <1>4, <2>3, <3>1
    <3> QED  BY <1>3, <2>1, <3>2 DEF Owned
  <2> QED  BY <2>2, <2>3
<1>8. (\A q \in Proc : turn[q] # NoRun => turn[q] \in batch[q])'  BY <1>1, <1>4 DEF Owned
<1>9. (\A l \in Run : begun[l] <= 1)'  BY <1>3 DEF Owned
<1>10. (\A l \in Run : sched[Of(l)].status = "deleted" => RunAt(l) = "none")'
  BY <1>1 DEF Owned, RunAt
<1>11. (\A q, r \in Proc : q # r => batch[q] \cap batch[r] = {})'  BY <1>1 DEF Owned
<1> QED  BY <1>6, <1>7, <1>8, <1>9, <1>10, <1>11 DEF Owned

\* The end of a run gives it up, and its status can no longer be claimed.
LEMMA FinishOwned ==
    ASSUME Typed, RowsSound, Owned, NEW p \in Proc, NEW k \in batch[p], NEW st, NEW row,
           RunAt(k) # "none", Finish(p, k, st, row), st \in {"succeeded", "failed"},
           row.status # "deleted", begun' = begun,
           \/ turn' = turn /\ turn[p] = NoRun
           \/ turn' = [turn EXCEPT ![p] = NoRun] /\ turn[p] = k
    PROVE  Owned'
<1>1. k \in Run /\ k[1] \in Schedule  BY RunPair DEF Typed
<1>2. \A l \in Run : RunAt(l)' = IF l = k THEN st ELSE RunAt(l)
  BY MarkAt DEF Finish, RunAt
<1>3. \A s \in Schedule : sched'[s] = IF s = Of(k) THEN row ELSE sched[s]
  BY DEF Finish, RowsSound
<1>4. sched[Of(k)].status # "deleted"  BY <1>1 DEF Owned
<1>5. \A q \in Proc : batch'[q] = IF q = p THEN batch[p] \ {k} ELSE batch[q]
  BY DEF Finish, Typed
<1>6. ASSUME NEW l \in Run
      PROVE  /\ Unclaimed(l)' => Unclaimed(l)
             /\ (sched[Of(l)].status = "deleted")' => (RunAt(l) = "none")'
  <2>1. Of(l) \in Schedule  BY RunPair DEF Of
  <2>2. (sched[Of(l)].status = "deleted")' <=> sched[Of(l)].status = "deleted"
    <3>1. Of(l)' = Of(l)  BY DEF Of
    <3>2. sched'[Of(l)] = IF Of(l) = Of(k) THEN row ELSE sched[Of(l)]  BY <1>3, <2>1
    <3> QED  BY <1>4, <3>1, <3>2
  <2>3. RunAt(l)' = IF l = k THEN st ELSE RunAt(l)  BY <1>2
  <2>4. sched[Of(l)].status = "deleted" => RunAt(l) = "none" /\ l # k  BY <1>4 DEF Owned
  <2> QED  BY <2>2, <2>3, <2>4 DEF Unclaimed
<1>7. \A q \in Proc : batch'[q] \subseteq batch[q]  BY <1>5
<1>8. \A q \in Proc :
        \/ turn'[q] = turn[q] /\ (turn[q] # NoRun => turn[q] \in batch'[q])
        \/ turn'[q] = NoRun /\ turn[q] \notin batch'[q]
  <2>1. CASE turn' = turn /\ turn[p] = NoRun  BY <1>5, <2>1 DEF Owned
  <2>2. CASE turn' = [turn EXCEPT ![p] = NoRun] /\ turn[p] = k
    <3>1. \A q \in Proc : turn'[q] = IF q = p THEN NoRun ELSE turn[q]  BY <2>2 DEF Typed
    <3> QED  BY <1>5, <2>2, <3>1 DEF Owned
  <2> QED  BY <2>1, <2>2
<1>9. \A l \in Run : Unclaimed(l)' => Unclaimed(l)  BY <1>6
<1>10. \A l \in Run : (sched[Of(l)].status = "deleted")' => (RunAt(l) = "none")'  BY <1>6
<1>11. HoldsNoMore  BY <1>7, <1>8, <1>9, <1>10 DEF HoldsNoMore
<1> QED  BY <1>11, HoldsNoMoreOwned

\* An executor that gives up its batch holds nothing.
LEMMA GiveUpOwned ==
    ASSUME Typed, Owned, NEW p \in Proc, batch' = [batch EXCEPT ![p] = {}],
           begun' = begun, runs' = runs, sched' = sched,
           turn' = [turn EXCEPT ![p] = NoRun] \/ (turn' = turn /\ turn[p] = NoRun)
    PROVE  Owned'
<1>1. \A q \in Proc : batch'[q] = IF q = p THEN {} ELSE batch[q]  BY DEF Typed
<1>2. \A q \in Proc : turn'[q] = IF q = p THEN NoRun ELSE turn[q]  BY DEF Typed
<1>3. \A k \in Run : Unclaimed(k)' => Unclaimed(k)  BY DEF Unclaimed, RunAt
<1>4. \A k \in Run : (sched[Of(k)].status = "deleted")' => (RunAt(k) = "none")'
  BY DEF RunAt, Owned
<1>5. \A q \in Proc :
        \/ turn'[q] = turn[q] /\ (turn[q] # NoRun => turn[q] \in batch'[q])
        \/ turn'[q] = NoRun /\ turn[q] \notin batch'[q]
  BY <1>1, <1>2 DEF Owned
<1>6. \A q \in Proc : batch'[q] \subseteq batch[q]  BY <1>1
<1>7. HoldsNoMore  BY <1>3, <1>4, <1>5, <1>6 DEF HoldsNoMore
<1> QED  BY <1>7, HoldsNoMoreOwned

\* A planner cycle queues new runs only, and deletes no row without its runs.
LEMMA PlannerOwned ==
    ASSUME Typed, RowsSound, Owned, PlannerCycle
    PROVE  Owned'
<1>1. PICK cleaned \in {{}, {s \in Schedule : Expired(Planned(s))}} :
        /\ sched' = [s \in Schedule |-> IF s \in cleaned THEN Deleted(Planned(s)) ELSE Planned(s)]
        /\ runs' = [s \in Schedule |-> IF s \in cleaned THEN NoRuns ELSE PlannedRuns(s)]
        /\ batch' = batch /\ turn' = turn /\ begun' = begun
  BY DEF PlannerCycle
<1>2. ASSUME NEW k \in Run
      PROVE  /\ Unclaimed(k)' => Unclaimed(k)
             /\ (sched[Of(k)].status = "deleted")' => (RunAt(k) = "none")'
  <2> DEFINE s == k[1]
             t == k[2]
  <2>1. s \in Schedule /\ t \in Time  BY RunPair
  <2>2. SoundRow(sched[s], fired[s])  BY <2>1 DEF RowsSound
  <2>3. sched[s].status = "deleted" => runs[s][t] = "none"  BY DEF Owned, RunAt, Of
  <2>4. CASE s \in cleaned
    <3>1. sched'[s] = Deleted(Planned(s)) /\ runs'[s][t] = "none"
      BY <1>1, <2>1, <2>4 DEF NoRuns
    <3>2. Planned(s) \in Row
      <4>1. now \in Time  BY DEF Typed
      <4>2. SoundRow(Planned(s), IF Due(s) THEN fired[s] + 1 ELSE fired[s])
        BY <2>1, <4>1, PlannedSound
      <4> QED  BY <4>2 DEF SoundRow
    <3>3. sched'[s].status = "deleted"  BY <3>1, <3>2 DEF Deleted, Row
    <3> QED  BY <3>1, <3>3 DEF Unclaimed, RunAt, Of
  <2>5. CASE s \notin cleaned
    <3>1. sched'[s] = Planned(s) /\ runs'[s][t] = PlannedRuns(s)[t]  BY <1>1, <2>1, <2>5
    <3>2. CASE ~Due(s)
      <4>1. sched'[s] = sched[s] /\ runs'[s][t] = runs[s][t]
        BY <2>1, <3>1, <3>2 DEF Planned, PlannedRuns
      <4> QED  BY <2>3, <4>1 DEF Unclaimed, RunAt, Of
    <3>3. CASE Due(s)
      <4>1. sched[s].status = "active"  BY <3>3 DEF Due
      <4>2. runs'[s][t] = "queued" => runs[s][t] \in {"queued", "none"}
        BY <2>1, <3>1, <3>3 DEF PlannedRuns, Duplicate
      <4>3. runs'[s][t] = "none" => runs[s][t] = "none"
        BY <2>1, <3>1, <3>3 DEF PlannedRuns, Duplicate
      <4>4. sched'[s].status # "deleted"
        BY <2>2, <3>1, <3>3, <4>1 DEF Planned, Advance, SoundRow, Row
      <4> QED  BY <4>1, <4>2, <4>3, <4>4 DEF Unclaimed, RunAt, Of
    <3> QED  BY <3>2, <3>3
  <2> QED  BY <2>4, <2>5
<1>3. \A k \in Run : Unclaimed(k)' => Unclaimed(k)  BY <1>2
<1>4. \A k \in Run : (sched[Of(k)].status = "deleted")' => (RunAt(k) = "none")'  BY <1>2
<1>5. HoldsNoMore  BY <1>1, <1>3, <1>4 DEF HoldsNoMore, Owned
<1> QED  BY <1>5, HoldsNoMoreOwned

\* A user can queue a run that never was, or delete a schedule and its runs.
LEMMA UserOwned ==
    ASSUME Typed, RowsSound, Owned, NEW s \in Schedule, UserStep(s)
    PROVE  Owned'
<1>1. batch' = batch /\ turn' = turn /\ begun' = begun
  BY DEF UserStep, UpdateSchedule, PauseSchedule, ResumeSchedule, RunNow, DeleteSchedule,
         UserUnchanged
<1>2. SoundRow(sched[s], fired[s])  BY DEF RowsSound
<1>3. \/ /\ runs' = runs
         /\ sched[s].status # "deleted" /\ sched'[s].status # "deleted"
         /\ \A q \in Schedule : q # s => sched'[q] = sched[q]
      \/ /\ sched' = sched /\ sched[s].status # "deleted" /\ runs[s][now] = "none"
         /\ runs' = [runs EXCEPT ![s][now] = "queued"]
      \/ /\ sched'[s].status = "deleted" /\ runs' = [runs EXCEPT ![s] = NoRuns]
         /\ \A q \in Schedule : q # s => sched'[q] = sched[q]
  <2>1. CASE UpdateSchedule(s)
    BY <1>2, <2>1 DEF UpdateSchedule, RowsSound, SoundRow, Row
  <2>2. CASE PauseSchedule(s)
    BY <1>2, <2>2 DEF PauseSchedule, RowsSound, SoundRow, Row
  <2>3. CASE ResumeSchedule(s)
    BY <1>2, <2>3 DEF ResumeSchedule, RowsSound, SoundRow, Row
  <2>4. CASE RunNow(s)  BY <2>4 DEF RunNow
  <2>5. CASE DeleteSchedule(s)
    BY <1>2, <2>5 DEF DeleteSchedule, RowsSound, SoundRow, Row
  <2> QED  BY <2>1, <2>2, <2>3, <2>4, <2>5 DEF UserStep
<1>4. ASSUME NEW k \in Run
      PROVE  /\ Unclaimed(k)' => Unclaimed(k)
             /\ (sched[Of(k)].status = "deleted")' => (RunAt(k) = "none")'
  <2>1. k[1] \in Schedule /\ k[2] \in Time /\ now \in Time  BY RunPair DEF Typed
  <2>2. sched[k[1]].status = "deleted" => runs[k[1]][k[2]] = "none"  BY DEF Owned, RunAt, Of
  <2>3. runs \in [Schedule -> [Time -> RunStatus]]  BY DEF Typed
  <2> QED  BY <1>3, <2>1, <2>2, <2>3 DEF Unclaimed, RunAt, Of, NoRuns
<1>5. \A k \in Run : Unclaimed(k)' => Unclaimed(k)  BY <1>4
<1>6. \A k \in Run : (sched[Of(k)].status = "deleted")' => (RunAt(k) = "none")'  BY <1>4
<1>7. HoldsNoMore  BY <1>1, <1>5, <1>6 DEF HoldsNoMore, Owned
<1> QED  BY <1>7, HoldsNoMoreOwned

-----------------------------------------------------------------------------
(* The invariant                                                           *)

\* A schedule starts active with its first time; nothing is queued.
LEMMA InitInv == Init => IInv
<1> SUFFICES ASSUME Init PROVE IInv
  OBVIOUS
<1>1. MaxTime \in Nat /\ MaxTime # 0 /\ Period \in Nat  BY ScheduleAssumption
<1>2. Typed  BY <1>1, ScheduleAssumption DEF Init, Typed, Time, NoRuns, RunStatus, Run, NoRun
<1>3. RowsSound
  <2>1. ASSUME NEW s \in Schedule PROVE SoundRow(sched[s], fired[s])
    <3>1. InitKind[s] \in Kind /\ InitNext[s] \in Time  BY ScheduleAssumption DEF Kind
    <3>2. InitNext[s] \in NextTime /\ InitNext[s] # NoTime  BY <1>1, <3>1 DEF NextTime, NoTime, Time
    <3>3. 1 \in Time  BY <1>1 DEF Time
    <3> QED  BY <3>1, <3>2, <3>3
             DEF Init, SoundRow, Row, ScheduleStatus, TerminalOnce, NoTime
  <2> QED  BY <2>1 DEF Init, RowsSound
<1>4. Owned
  BY RunPair DEF Init, Owned, Unclaimed, Fresh, RunAt, NoRuns, Of
<1> QED  BY <1>2, <1>3, <1>4 DEF IInv

\* The types are kept by every step.
LEMMA NextTyped ==
    ASSUME Typed, RowsSound, Next
    PROVE  Typed'
<1> USE DEF Typed
<1>1. CASE Tick  BY <1>1, ScheduleAssumption DEF Tick, Time
<1>2. CASE PlannerCycle
  <2>1. runs' \in [Schedule -> [Time -> RunStatus]]
    BY <1>2 DEF PlannerCycle, PlannedRuns, NoRuns, RunStatus
  <2> QED  BY <1>2, <2>1 DEF PlannerCycle
<1>3. ASSUME NEW p \in Proc, Claim(p) \/ Execute(p) \/ EndRun(p) \/ Crash(p)
      PROVE  Typed'
  <2>1. CASE Claim(p)
    <3>1. PICK b \in SUBSET {k \in Run : RunAt(k) = "queued"} :
            batch' = [batch EXCEPT ![p] = b] /\ runs' = Mark(b, "running")
      BY <2>1 DEF Claim
    <3>2. runs' \in [Schedule -> [Time -> RunStatus]]  BY <3>1, MarkTyped DEF RunStatus
    <3> QED  BY <2>1, <3>1, <3>2 DEF Claim
  <2>2. CASE Execute(p)
    <3>1. PICK k \in Run : BeginRun(p, k) \/ RefuseRun(p, k) \/ LoseRun(p, k)
      BY <2>2 DEF Execute
    <3>2. CASE BeginRun(p, k)  BY <3>2 DEF BeginRun
    <3>3. CASE RefuseRun(p, k)
      <4>1. runs' = Mark({k}, "failed")  BY <3>3 DEF RefuseRun, Finish
      <4>2. runs' \in [Schedule -> [Time -> RunStatus]]  BY <4>1, MarkTyped DEF RunStatus
      <4> QED  BY <3>3, <4>2 DEF RefuseRun, Finish
    <3>4. CASE LoseRun(p, k)  BY <3>4 DEF LoseRun, Abandon
    <3> QED  BY <3>1, <3>2, <3>3, <3>4
  <2>3. CASE EndRun(p)
    <3>1. \/ runs' = runs /\ batch' = [batch EXCEPT ![p] = {}]
          \/ /\ runs' \in {Mark({turn[p]}, "succeeded"), Mark({turn[p]}, "failed")}
             /\ batch' = [batch EXCEPT ![p] = @ \ {turn[p]}]
      BY <2>3 DEF EndRun, Abandon, Finish
    <3>2. runs' \in [Schedule -> [Time -> RunStatus]]  BY <3>1, MarkTyped DEF RunStatus
    <3> QED  BY <2>3, <3>1, <3>2 DEF EndRun
  <2>4. CASE Crash(p)  BY <2>4, ScheduleAssumption DEF Crash
  <2> QED  BY <1>3, <2>1, <2>2, <2>3, <2>4
<1>4. ASSUME NEW s \in Schedule, UserStep(s) PROVE Typed'
  <2>1. runs' = runs \/ runs' = [runs EXCEPT ![s][now] = "queued"]
        \/ runs' = [runs EXCEPT ![s] = NoRuns]
    BY <1>4 DEF UserStep, UpdateSchedule, PauseSchedule, ResumeSchedule, RunNow, DeleteSchedule
  <2>2. NoRuns \in [Time -> RunStatus]  BY DEF NoRuns, RunStatus
  <2>3. runs' \in [Schedule -> [Time -> RunStatus]]
    <3>1. CASE runs' = [runs EXCEPT ![s][now] = "queued"]  BY <3>1 DEF RunStatus
    <3>2. CASE runs' = [runs EXCEPT ![s] = NoRuns]  BY <2>2, <3>2
    <3> QED  BY <2>1, <3>1, <3>2
  <2>4. UNCHANGED <<now, batch, turn, crashes, begun>>
    BY <1>4 DEF UserStep, UpdateSchedule, PauseSchedule, ResumeSchedule, RunNow, DeleteSchedule,
                UserUnchanged
  <2> QED  BY <2>3, <2>4
<1> QED  BY <1>1, <1>2, <1>3, <1>4 DEF Next

\* An executor's step keeps rows sound and every run with one holder.
LEMMA ExecutorStep ==
    ASSUME IInv, NEW p \in Proc, Claim(p) \/ Execute(p) \/ EndRun(p) \/ Crash(p)
    PROVE  RowsSound' /\ Owned'
<1> USE DEF IInv
<1>1. now \in Time  BY DEF Typed
<1>2. ASSUME sched' = sched, fired' = fired PROVE RowsSound'  BY <1>2 DEF RowsSound
<1>3. CASE Claim(p)  BY <1>2, <1>3, ClaimOwned DEF Claim
<1>4. ASSUME NEW k \in Run, RunAt(k) # "none"
      PROVE  /\ SoundRow(Unbound(sched[Of(k)]), fired[Of(k)])
             /\ SoundRow(Failed(sched[Of(k)]), fired[Of(k)])
             /\ SoundRow(Succeeded(sched[Of(k)]), fired[Of(k)])
             /\ Unbound(sched[Of(k)]).status # "deleted"
             /\ Failed(sched[Of(k)]).status # "deleted"
             /\ Succeeded(sched[Of(k)]).status # "deleted"
  <2> DEFINE r == sched[Of(k)]
  <2>1. SoundRow(r, fired[Of(k)])  BY RunPair DEF RowsSound, Of
  <2>2. r.status # "deleted"  BY <1>4 DEF Owned
  <2>3. r \in Row  BY <2>1 DEF SoundRow
  <2> HIDE DEF r
  <2>4. /\ Unbound(r).status # "deleted" /\ Failed(r).status # "deleted"
        /\ Succeeded(r).status # "deleted"
    BY <2>2, <2>3 DEF Unbound, Failed, Succeeded, Row
  <2>5. /\ SoundRow(Unbound(r), fired[Of(k)]) /\ SoundRow(Failed(r), fired[Of(k)])
        /\ SoundRow(Succeeded(r), fired[Of(k)])
    BY <1>1, <2>1, <2>2, UnboundSound, FailedSound, SucceededSound
  <2> QED  BY <2>4, <2>5 DEF r
<1>5. CASE Execute(p)
  <2>1. PICK k \in Run : BeginRun(p, k) \/ RefuseRun(p, k) \/ LoseRun(p, k)
    BY <1>5 DEF Execute
  <2>2. CASE BeginRun(p, k)  BY <1>2, <2>2, BeginOwned DEF BeginRun
  <2>3. CASE RefuseRun(p, k)
    <3>1. /\ k \in batch[p] /\ RunAt(k) # "none" /\ turn' = turn /\ turn[p] = NoRun
          /\ Finish(p, k, "failed", Unbound(sched[Of(k)])) /\ begun' = begun /\ fired' = fired
      BY <2>3 DEF RefuseRun, Head
    <3>2. SoundRow(Unbound(sched[Of(k)]), fired[Of(k)])
          /\ Unbound(sched[Of(k)]).status # "deleted"
      BY <1>4, <3>1
    <3>3. RowsSound'  BY <3>1, <3>2, FinishRows
    <3>4. Owned'  BY <3>1, <3>2, FinishOwned
    <3> QED  BY <3>3, <3>4
  <2>4. CASE LoseRun(p, k)
    <3>1. /\ batch' = [batch EXCEPT ![p] = {}] /\ runs' = runs /\ sched' = sched
          /\ turn' = turn /\ turn[p] = NoRun /\ begun' = begun /\ fired' = fired
      BY <2>4 DEF LoseRun, Abandon, Head
    <3> QED  BY <1>2, <3>1, GiveUpOwned
  <2> QED  BY <2>1, <2>2, <2>3, <2>4
<1>6. CASE EndRun(p)
  <2> DEFINE k == turn[p]
  <2>1. k # NoRun /\ k \in batch[p] /\ k \in Run
    BY <1>6 DEF EndRun, Owned, Typed
  <2>2. turn' = [turn EXCEPT ![p] = NoRun] /\ begun' = begun /\ fired' = fired
    BY <1>6 DEF EndRun
  <2>3. CASE RunAt(k) = "none"
    <3>1. batch' = [batch EXCEPT ![p] = {}] /\ runs' = runs /\ sched' = sched
      BY <1>6, <2>3 DEF EndRun, Abandon
    <3> QED  BY <1>2, <2>2, <3>1, GiveUpOwned
  <2>4. CASE RunAt(k) # "none"
    <3>1. \/ Finish(p, k, "succeeded", Succeeded(sched[Of(k)]))
          \/ Finish(p, k, "failed", Failed(sched[Of(k)]))
          \/ Finish(p, k, "failed", Unbound(sched[Of(k)]))
      BY <1>6, <2>4 DEF EndRun
    <3>2. ASSUME NEW st \in {"succeeded", "failed"}, NEW row, Finish(p, k, st, row),
                 SoundRow(row, fired[Of(k)]), row.status # "deleted"
          PROVE  RowsSound' /\ Owned'
      <4>1. RowsSound'  BY <2>1, <2>2, <3>2, FinishRows
      <4>2. Owned'  BY <2>1, <2>2, <2>4, <3>2, FinishOwned
      <4> QED  BY <4>1, <4>2
    <3> HIDE DEF k
    <3> QED  BY <1>4, <2>1, <2>4, <3>1, <3>2
  <2> QED  BY <2>3, <2>4
<1>7. CASE Crash(p)
  <2>1. /\ batch' = [batch EXCEPT ![p] = {}] /\ runs' = runs /\ sched' = sched
        /\ turn' = [turn EXCEPT ![p] = NoRun] /\ begun' = begun /\ fired' = fired
    BY <1>7 DEF Crash
  <2> QED  BY <1>2, <2>1, GiveUpOwned
<1> QED  BY <1>3, <1>5, <1>6, <1>7

\* A step of the clock, the planner, an executor or a user keeps the invariant.
LEMMA NextInv == IInv /\ [Next]_vars => IInv'
<1> SUFFICES ASSUME IInv, [Next]_vars PROVE IInv'
  OBVIOUS
<1>0. Typed /\ RowsSound /\ Owned /\ now \in Time  BY DEF IInv, Typed
<1>1. CASE Next
  <2>1. Typed'  BY <1>0, <1>1, NextTyped
  <2>2. CASE Tick
    <3>1. UNCHANGED <<sched, runs, batch, turn, begun, fired>>  BY <2>2 DEF Tick
    <3>2. RowsSound'  BY <1>0, <3>1 DEF RowsSound
    <3>3. Owned'  BY <1>0, <3>1 DEF Owned, Unclaimed, Fresh, RunAt
    <3> QED  BY <2>1, <3>2, <3>3 DEF IInv
  <2>3. CASE PlannerCycle  BY <1>0, <2>1, <2>3, PlannerRows, PlannerOwned DEF IInv
  <2>4. ASSUME NEW p \in Proc, Claim(p) \/ Execute(p) \/ EndRun(p) \/ Crash(p) PROVE IInv'
    BY <2>1, <2>4, ExecutorStep DEF IInv
  <2>5. ASSUME NEW s \in Schedule, UserStep(s) PROVE IInv'
    BY <1>0, <2>1, <2>5, UserRows, UserOwned DEF IInv
  <2> QED  BY <1>1, <2>2, <2>3, <2>4, <2>5 DEF Next
<1>2. CASE UNCHANGED vars
  BY <1>0, <1>2 DEF vars, IInv, Typed, RowsSound, Owned, Unclaimed, Fresh, RunAt
<1> QED  BY <1>1, <1>2

\* The invariant holds in every behaviour of the schedules.
THEOREM Inductive == Spec => []IInv
<1>1. Init => IInv  BY InitInv
<1>2. IInv /\ [Next]_vars => IInv'  BY NextInv
<1> QED  BY <1>1, <1>2, PTL DEF Spec

-----------------------------------------------------------------------------
(* The slots of recurring schedules                                        *)

\* The next times that users gave are times, and no slot after them is missed.
Slots == first \in [Schedule -> NextTime] /\ NoSlotMissed

\* From one slot to the next there is no other: n is the only slot, if it is one,
\* before NextSlot(n).
LEMMA OneSlotOn ==
    ASSUME NEW n \in Nat, NEW t \in Nat, t % Period = 0, n <= t, t < NextSlot(n)
    PROVE  t = n
<1> DEFINE a == n \div Period
           q == t \div Period
<1>1. Period \in Nat \ {0}  BY ScheduleAssumption
<1>2. n = a * Period + (n % Period) /\ n % Period \in Nat /\ a \in Nat
  <2>1. /\ n = (n \div Period) * Period + (n % Period)
        /\ n % Period \in 0..(Period - 1)
        /\ n \div Period \in Nat
    BY <1>1, Remainder
  <2> QED  BY <1>1, <2>1
<1>3. t = q * Period /\ q \in Nat
  <2>1. t = (t \div Period) * Period + (t % Period) /\ t \div Period \in Nat
    BY <1>1, Remainder
  <2> QED  BY <1>1, <2>1
<1>4. q * Period < (a + 1) * Period  BY <1>3 DEF NextSlot
<1> HIDE DEF a, q
<1>5. q <= a
  <2> SUFFICES ASSUME q > a PROVE FALSE
    BY <1>2, <1>3
  <2>1. PICK d \in Nat : q = a + 1 + d
    <3>1. q - (a + 1) \in Nat /\ q = a + 1 + (q - (a + 1))  BY <1>2, <1>3
    <3> QED  BY <3>1
  <2>2. q * Period = (a + 1) * Period + d * Period  BY <1>1, <1>2, <2>1
  <2>3. d * Period >= 0  BY <1>1, <2>1
  <2> QED  BY <1>1, <1>2, <1>4, <2>1, <2>2, <2>3
<1>6. q * Period <= a * Period
  <2>1. PICK d \in Nat : a = q + d
    <3>1. a - q \in Nat /\ a = q + (a - q)  BY <1>2, <1>3, <1>5
    <3> QED  BY <3>1
  <2>2. a * Period = q * Period + d * Period  BY <1>1, <1>3, <2>1
  <2>3. d * Period >= 0  BY <1>1, <2>1
  <2> QED  BY <1>1, <1>3, <2>1, <2>2, <2>3
<1> QED  BY <1>1, <1>2, <1>3, <1>6

\* A step that keeps the next times of the recurring schedules, and a row for
\* every slot that had one, misses no slot.
LEMMA KeepSlots ==
    ASSUME Slots, first' = first,
           \A s \in Schedule : \/ sched'[s].kind = "once"
                               \/ sched'[s].status = "deleted"
                               \/ /\ sched[s].kind = "recurring"
                                  /\ sched[s].status # "deleted"
                                  /\ sched'[s].next = sched[s].next,
           \A s \in Schedule : \A t \in Time :
              runs[s][t] # "none" => (runs'[s][t] # "none" \/ sched'[s].status = "deleted")
    PROVE  Slots'
  BY DEF Slots, NoSlotMissed

\* A planner cycle moves a schedule past a slot that it leaves with a row.
LEMMA PlannerSlots ==
    ASSUME IInv, Slots, PlannerCycle
    PROVE  Slots'
<1>1. PICK cleaned \in {{}, {s \in Schedule : Expired(Planned(s))}} :
        /\ sched' = [s \in Schedule |-> IF s \in cleaned THEN Deleted(Planned(s)) ELSE Planned(s)]
        /\ runs' = [s \in Schedule |-> IF s \in cleaned THEN NoRuns ELSE PlannedRuns(s)]
        /\ first' = first
  BY DEF PlannerCycle
<1>2. ASSUME NEW s \in Schedule, NEW t \in Time,
             sched'[s].kind = "recurring", sched'[s].status # "deleted",
             t % Period = 0, first[s] <= t, t < sched'[s].next
      PROVE  runs'[s][t] # "none"
  <2>1. sched[s] \in Row  BY DEF IInv, RowsSound, SoundRow
  <2>2. s \notin cleaned
    <3>1. Planned(s) \in Row
      BY PlannedSound DEF IInv, Typed, SoundRow
    <3> QED  BY <1>1, <1>2, <3>1 DEF Deleted, Row
  <2>3. sched'[s] = Planned(s) /\ runs'[s] = PlannedRuns(s)  BY <1>1, <2>2
  <2>4. CASE ~Due(s)
    BY <1>2, <2>3, <2>4 DEF Planned, PlannedRuns, Slots, NoSlotMissed
  <2>5. CASE Due(s)
    <3> DEFINE n == sched[s].next
    <3>1. n \in Time  BY <2>5, PlannedTime DEF IInv, Typed
    <3>2. n \in Nat /\ t \in Nat  BY <3>1, ScheduleAssumption DEF Time
    <3>3. sched[s].kind = "recurring" /\ sched'[s].next = NextSlot(n) /\ sched[s].status # "deleted"
      BY <1>2, <2>1, <2>3, <2>5 DEF Planned, Advance, Row, Due, Kind
    <3>4. runs'[s][n] # "none"
      BY <2>3, <2>5, <3>1 DEF PlannedRuns, Duplicate
    <3>5. runs[s][t] # "none" => runs'[s][t] # "none"
      BY <2>3, <2>5 DEF PlannedRuns, Duplicate
    <3>6. CASE t < n  BY <1>2, <3>3, <3>5, <3>6 DEF Slots, NoSlotMissed
    <3>7. CASE n <= t
      <4>1. t = n  BY <1>2, <3>2, <3>3, <3>7, OneSlotOn
      <4> QED  BY <3>4, <4>1
    <3> QED  BY <3>2, <3>6, <3>7
  <2> QED  BY <2>4, <2>5
<1> QED  BY <1>1, <1>2 DEF Slots, NoSlotMissed

\* The end of a run keeps the next time of a recurring schedule, and its row.
LEMMA FinishSlots ==
    ASSUME IInv, Slots, NEW p, NEW k \in Run, NEW st \in {"succeeded", "failed"},
           NEW row \in {Unbound(sched[Of(k)]), Failed(sched[Of(k)]), Succeeded(sched[Of(k)])},
           RunAt(k) # "none", Finish(p, k, st, row), first' = first
    PROVE  Slots'
<1>1. sched' = [sched EXCEPT ![Of(k)] = row] /\ runs' = Mark({k}, st)  BY DEF Finish
<1>2. ASSUME NEW s \in Schedule, NEW t \in Time, runs[s][t] # "none"
      PROVE  runs'[s][t] # "none"
  BY <1>1, <1>2 DEF Mark
<1>3. ASSUME NEW s \in Schedule
      PROVE  \/ sched'[s].kind = "once"
             \/ sched'[s].status = "deleted"
             \/ /\ sched[s].kind = "recurring"
                /\ sched[s].status # "deleted"
                /\ sched'[s].next = sched[s].next
  <2>1. sched[s] \in Row  BY DEF IInv, RowsSound, SoundRow
  <2>2. CASE s # Of(k)
    <3>1. sched'[s] = sched[s]  BY <1>1, <2>2 DEF IInv, RowsSound
    <3> QED  BY <2>1, <3>1 DEF Row, Kind
  <2>3. CASE s = Of(k)
    <3>1. sched'[s] = row  BY <1>1, <2>3 DEF IInv, RowsSound
    <3>2. sched[s].status # "deleted"  BY <2>3 DEF IInv, Owned
    <3> QED  BY <2>1, <2>3, <3>1, <3>2 DEF Row, Kind, Unbound, Failed, Succeeded
  <2> QED  BY <2>2, <2>3
<1> QED  BY <1>2, <1>3, KeepSlots

\* A user who moves the next time chooses the first slot to be accounted for.
LEMMA UserSlots ==
    ASSUME IInv, IInv', Slots, NEW s \in Schedule, UserStep(s)
    PROVE  Slots'
<1>1. ASSUME NEW q \in Schedule PROVE sched[q] \in Row /\ sched'[q] \in Row
  BY DEF IInv, RowsSound, SoundRow
<1>2. \A q \in Schedule : q # s => sched'[q] = sched[q] /\ runs'[q] = runs[q]
  BY DEF UserStep, UpdateSchedule, PauseSchedule, ResumeSchedule, RunNow, DeleteSchedule,
         IInv, Typed, RowsSound
<1>3. CASE first' = [first EXCEPT ![s] = sched'[s].next]
  <2>1. sched'[s].next \in NextTime  BY <1>1 DEF Row
  <2>2. first' \in [Schedule -> NextTime] /\ first'[s] = sched'[s].next
    BY <1>3, <2>1 DEF Slots
  <2>3. \A q \in Schedule : q # s => first'[q] = first[q]  BY <1>3 DEF Slots
  <2>4. \A t \in Time : ~(first'[s] <= t /\ t < sched'[s].next)
    BY <2>1, <2>2 DEF Time, NextTime
  <2> QED  BY <1>2, <2>2, <2>3, <2>4 DEF Slots, NoSlotMissed
<1>4. CASE PauseSchedule(s)
  <2>1. /\ sched' = [sched EXCEPT ![s] = [sched[s] EXCEPT !.status = "paused", !.updated = now]]
        /\ runs' = runs /\ first' = first /\ sched[s].status # "deleted"
    BY <1>4 DEF PauseSchedule, IInv, RowsSound
  <2>2. sched'[s] = [sched[s] EXCEPT !.status = "paused", !.updated = now]
    BY <2>1 DEF IInv, RowsSound
  <2>3. sched'[s].next = sched[s].next /\ sched'[s].kind = sched[s].kind  BY <1>1, <2>2 DEF Row
  <2> QED  BY <1>1, <1>2, <2>1, <2>3, KeepSlots DEF Row, Kind
<1>5. CASE RunNow(s)
  <2>1. sched' = sched /\ first' = first /\ runs' = [runs EXCEPT ![s][now] = "queued"]
    BY <1>5 DEF RunNow
  <2>2. \A q \in Schedule, t \in Time : runs[q][t] # "none" => runs'[q][t] # "none"
    BY <2>1 DEF IInv, Typed
  <2> QED  BY <1>1, <2>1, <2>2, KeepSlots DEF Row, Kind
<1>6. CASE DeleteSchedule(s)
  <2>1. sched' = [sched EXCEPT ![s] = Deleted(sched[s])] /\ first' = first
    BY <1>6 DEF DeleteSchedule, Deleted, IInv, RowsSound
  <2>2. sched'[s].status = "deleted"
    <3>1. sched'[s] = Deleted(sched[s])  BY <2>1 DEF IInv, RowsSound
    <3> QED  BY <1>1, <3>1 DEF Deleted, Row
  <2> QED  BY <1>1, <1>2, <2>1, <2>2, KeepSlots DEF Row, Kind
<1> QED  BY <1>3, <1>4, <1>5, <1>6 DEF UserStep, UpdateSchedule, ResumeSchedule

\* Every step accounts for the slots that it leaves behind.
LEMMA NextSlots == IInv /\ IInv' /\ Slots /\ [Next]_vars => Slots'
<1> SUFFICES ASSUME IInv, IInv', Slots, [Next]_vars PROVE Slots'
  OBVIOUS
<1>1. ASSUME NEW q \in Schedule PROVE sched[q] \in Row
  BY DEF IInv, RowsSound, SoundRow
<1>2. ASSUME sched' = sched, first' = first,
             \A s \in Schedule, t \in Time : runs[s][t] # "none" => runs'[s][t] # "none"
      PROVE  Slots'
  BY <1>1, <1>2, KeepSlots DEF Row, Kind
<1>3. CASE Tick  BY <1>2, <1>3 DEF Tick
<1>4. CASE PlannerCycle  BY <1>4, PlannerSlots
<1>5. ASSUME NEW p \in Proc, Claim(p) PROVE Slots'
  BY <1>2, <1>5 DEF Claim, Mark
<1>6. ASSUME NEW p \in Proc, Execute(p) PROVE Slots'
  <2>1. PICK k \in Run : BeginRun(p, k) \/ RefuseRun(p, k) \/ LoseRun(p, k)
    BY <1>6 DEF Execute
  <2>2. CASE BeginRun(p, k)  BY <1>2, <2>2 DEF BeginRun
  <2>3. CASE RefuseRun(p, k)  BY <2>3, FinishSlots DEF RefuseRun
  <2>4. CASE LoseRun(p, k)  BY <1>2, <2>4 DEF LoseRun, Abandon
  <2> QED  BY <2>1, <2>2, <2>3, <2>4
<1>7. ASSUME NEW p \in Proc, EndRun(p) PROVE Slots'
  <2> DEFINE k == turn[p]
  <2>1. k \in Run /\ first' = first  BY <1>7 DEF EndRun, IInv, Typed
  <2>2. CASE RunAt(k) = "none"  BY <1>2, <1>7, <2>1, <2>2 DEF EndRun, Abandon
  <2>3. CASE RunAt(k) # "none"
    <3>1. \/ Finish(p, k, "succeeded", Succeeded(sched[Of(k)]))
          \/ Finish(p, k, "failed", Failed(sched[Of(k)]))
          \/ Finish(p, k, "failed", Unbound(sched[Of(k)]))
      BY <1>7, <2>3 DEF EndRun
    <3> HIDE DEF k
    <3> QED  BY <2>1, <2>3, <3>1, FinishSlots
  <2> QED  BY <2>2, <2>3
<1>8. ASSUME NEW p \in Proc, Crash(p) PROVE Slots'  BY <1>2, <1>8 DEF Crash
<1>9. ASSUME NEW s \in Schedule, UserStep(s) PROVE Slots'  BY <1>9, UserSlots
<1>10. CASE UNCHANGED vars  BY <1>2, <1>10 DEF vars
<1> QED  BY <1>3, <1>4, <1>5, <1>6, <1>7, <1>8, <1>9, <1>10 DEF Next

\* A recurring schedule accounts for every slot since the first that its user
\* chose, however late the planner runs.
THEOREM EverySlot == Spec => []Slots
<1>1. Init => Slots
  <2> SUFFICES ASSUME Init PROVE Slots
    OBVIOUS
  <2>1. InitNext \in [Schedule -> NextTime]
    BY ScheduleAssumption DEF NextTime, Time
  <2>2. ASSUME NEW s \in Schedule PROVE sched[s].next = first[s]  BY DEF Init
  <2>3. ASSUME NEW s \in Schedule, NEW t \in Time PROVE ~(first[s] <= t /\ t < first[s])
    BY <2>1, ScheduleAssumption DEF Init, Time, NextTime
  <2> QED  BY <2>1, <2>2, <2>3 DEF Init, Slots, NoSlotMissed
<1>2. IInv /\ IInv' /\ Slots /\ [Next]_vars => Slots'  BY NextSlots
<1> QED  BY <1>1, <1>2, Inductive, PTL DEF Spec

\* The property of the runs, from that.
THEOREM SlotsAccountedFor == Spec => []NoSlotMissed
<1>1. Slots => NoSlotMissed  BY DEF Slots
<1> QED  BY <1>1, EverySlot, PTL

-----------------------------------------------------------------------------
(* The theorems                                                            *)

\* Rows, batches and turns keep their types: in particular the statuses stay
\* within the CHECK constraints of the tables.
THEOREM TypeCorrect == Spec => []TypeOK
<1>1. IInv /\ Slots => TypeOK
  <2> SUFFICES ASSUME IInv, Slots PROVE TypeOK
    OBVIOUS
  <2>1. sched \in [Schedule -> Row] /\ fired \in [Schedule -> Nat]
    <3>1. \A s \in Schedule : sched[s] \in Row /\ fired[s] \in Nat
      BY DEF IInv, RowsSound, SoundRow
    <3> QED  BY <3>1 DEF IInv, RowsSound
  <2> QED  BY <2>1 DEF IInv, Typed, Slots, TypeOK
<1> QED  BY <1>1, Inductive, EverySlot, PTL

\* No run has a second turn, however many processes claim, crash and lose runs.
THEOREM OneTurnPerRun == Spec => []RunOnce
<1>1. IInv => RunOnce  BY DEF IInv, Owned, RunOnce
<1> QED  BY <1>1, Inductive, PTL

\* The planner finds every active schedule again, and no finished one-time one.
THEOREM NextTimeAlways == Spec => []NextTimeKept
<1>1. IInv => NextTimeKept
  BY DEF IInv, RowsSound, SoundRow, NextTimeKept, Finished
<1> QED  BY <1>1, Inductive, PTL

\* The planner plans a one-time schedule at most once per time it was given.
THEOREM OncePlannedOnce == Spec => []OnceFiresOnce
<1>1. IInv => OnceFiresOnce  BY DEF IInv, RowsSound, SoundRow, OnceFiresOnce
<1> QED  BY <1>1, Inductive, PTL

-----------------------------------------------------------------------------
(* Who works on a run, and what becomes of its row                         *)

\* A step of the planner, of users or of the clock: run rows appear, or go
\* with their schedule; nobody's batch changes.
OtherStep ==
    /\ batch' = batch /\ crashes' = crashes
    /\ \A k \in Run :
          \/ RunAt(k)' = RunAt(k)
          \/ RunAt(k) = "none" /\ RunAt(k)' \in {"queued", "skipped"}
          \/ RunAt(k)' = "none" /\ sched'[Of(k)].status = "deleted"

\* An executor claims queued runs,
ClaimStep(p) ==
    \E b \in SUBSET Run :
        /\ batch' = [batch EXCEPT ![p] = b] /\ batch[p] = {} /\ crashes' = crashes
        /\ \A k \in b : RunAt(k) = "queued"
        /\ \A k \in Run : RunAt(k)' = IF k \in b THEN "running" ELSE RunAt(k)

\* ends one that it holds,
EndStep(p) ==
    \E k \in batch[p], st \in {"succeeded", "failed"} :
        /\ RunAt(k) # "none"
        /\ batch' = [batch EXCEPT ![p] = @ \ {k}] /\ crashes' = crashes
        /\ \A l \in Run : RunAt(l)' = IF l = k THEN st ELSE RunAt(l)

\* or gives up all it holds, because it stops or found a run row gone.
GiveUpStep(p) ==
    /\ batch' = [batch EXCEPT ![p] = {}]
    /\ runs' = runs
    /\ \/ crashes' = crashes + 1
       \/ crashes' = crashes /\ \E k \in batch[p] : RunAt(k) = "none"

\* There are no other steps.
LEMMA KindsOfSteps ==
    ASSUME IInv, [Next]_vars
    PROVE  OtherStep \/ \E p \in Proc : ClaimStep(p) \/ EndStep(p) \/ GiveUpStep(p)
<1>1. /\ runs \in [Schedule -> [Time -> RunStatus]] /\ batch \in [Proc -> SUBSET Run]
      /\ now \in Time
      /\ \A p \in Proc : turn[p] # NoRun => turn[p] \in batch[p]
  BY DEF IInv, Typed, Owned
<1>2. ASSUME NEW p \in Proc, Claim(p) PROVE ClaimStep(p)
  <2>1. PICK b \in SUBSET {k \in Run : RunAt(k) = "queued"} :
          batch' = [batch EXCEPT ![p] = b] /\ runs' = Mark(b, "running")
    BY <1>2 DEF Claim
  <2>2. \A k \in Run : RunAt(k)' = IF k \in b THEN "running" ELSE RunAt(k)
    BY <2>1, MarkAt DEF RunAt
  <2>3. b \in SUBSET Run /\ \A k \in b : RunAt(k) = "queued"
    BY <2>1
  <2> QED  BY <1>2, <2>1, <2>2, <2>3 DEF Claim, ClaimStep
<1>3. ASSUME NEW p \in Proc, NEW k \in batch[p], RunAt(k) # "none", crashes' = crashes,
             NEW st \in {"succeeded", "failed"}, NEW row, Finish(p, k, st, row)
      PROVE  EndStep(p)
  <2>1. k \in Run /\ runs' = Mark({k}, st) /\ batch' = [batch EXCEPT ![p] = @ \ {k}]
    BY <1>1, <1>3 DEF Finish
  <2>2. \A l \in Run : RunAt(l)' = IF l = k THEN st ELSE RunAt(l)
    BY <2>1, MarkAt DEF RunAt
  <2> QED  BY <1>3, <2>1, <2>2 DEF EndStep
<1>4. ASSUME NEW p \in Proc, NEW k \in batch[p], Abandon(p, k), crashes' = crashes
      PROVE  GiveUpStep(p)
  BY <1>4 DEF Abandon, GiveUpStep
<1>5. ASSUME NEW p \in Proc, Execute(p)
      PROVE  OtherStep \/ EndStep(p) \/ GiveUpStep(p)
  <2>1. PICK k \in Run : BeginRun(p, k) \/ RefuseRun(p, k) \/ LoseRun(p, k)
    BY <1>5 DEF Execute
  <2>2. CASE BeginRun(p, k)
    BY <2>2 DEF BeginRun, OtherStep, RunAt
  <2>3. CASE RefuseRun(p, k)
    BY <1>3, <2>3 DEF RefuseRun, Head
  <2>4. CASE LoseRun(p, k)
    BY <1>4, <2>4 DEF LoseRun, Head
  <2> QED  BY <2>1, <2>2, <2>3, <2>4
<1>6. ASSUME NEW p \in Proc, EndRun(p) PROVE EndStep(p) \/ GiveUpStep(p)
  <2> DEFINE k == turn[p]
  <2>1. k \in batch[p] /\ crashes' = crashes
    BY <1>1, <1>6 DEF EndRun
  <2>2. CASE RunAt(k) = "none"
    BY <1>4, <1>6, <2>1, <2>2 DEF EndRun
  <2>3. CASE RunAt(k) # "none"
    <3>1. \/ Finish(p, k, "succeeded", Succeeded(sched[Of(k)]))
          \/ Finish(p, k, "failed", Failed(sched[Of(k)]))
          \/ Finish(p, k, "failed", Unbound(sched[Of(k)]))
      BY <1>6, <2>3 DEF EndRun
    <3> HIDE DEF k
    <3> QED  BY <1>3, <2>1, <2>3, <3>1
  <2> QED  BY <2>2, <2>3
<1>7. ASSUME NEW p \in Proc, Crash(p) PROVE GiveUpStep(p)
  BY <1>7 DEF Crash, GiveUpStep
<1>8. CASE PlannerCycle
  <2>1. PICK cleaned \in SUBSET Schedule :
          /\ sched' = [s \in Schedule |-> IF s \in cleaned THEN Deleted(Planned(s)) ELSE Planned(s)]
          /\ runs' = [s \in Schedule |-> IF s \in cleaned THEN NoRuns ELSE PlannedRuns(s)]
    BY <1>8 DEF PlannerCycle
  <2>2. ASSUME NEW k \in Run
        PROVE  \/ RunAt(k)' = RunAt(k)
               \/ RunAt(k) = "none" /\ RunAt(k)' \in {"queued", "skipped"}
               \/ RunAt(k)' = "none" /\ sched'[Of(k)].status = "deleted"
    <3> DEFINE s == k[1]
               t == k[2]
    <3>1. s \in Schedule /\ t \in Time  BY RunPair
    <3>2. CASE s \in cleaned
      <4>1. Planned(s) \in Row
        <5>1. SoundRow(Planned(s), IF Due(s) THEN fired[s] + 1 ELSE fired[s])
          BY <1>1, <3>1, PlannedSound DEF IInv
        <5> QED  BY <5>1 DEF SoundRow
      <4>2. sched'[s].status = "deleted" /\ runs'[s][t] = "none"
        BY <2>1, <3>1, <3>2, <4>1 DEF Deleted, NoRuns, Row
      <4> QED  BY <4>2 DEF RunAt, Of
    <3>3. CASE s \notin cleaned
      <4>1. runs'[s][t] = PlannedRuns(s)[t]  BY <2>1, <3>1, <3>3
      <4>2. \/ runs'[s][t] = runs[s][t]
            \/ /\ t = sched[s].next /\ ~Duplicate(s)
               /\ runs'[s][t] \in {"queued", "skipped"}
        <5> HIDE DEF s, t
        <5> QED  BY <3>1, <4>1 DEF PlannedRuns
      <4> QED  BY <4>2 DEF RunAt, Duplicate
    <3> QED  BY <3>2, <3>3
  <2> QED  BY <1>8, <2>2 DEF PlannerCycle, OtherStep
<1>9. ASSUME NEW s \in Schedule, UserStep(s) PROVE OtherStep
  <2>1. batch' = batch /\ crashes' = crashes
    BY <1>9 DEF UserStep, UpdateSchedule, PauseSchedule, ResumeSchedule, RunNow, DeleteSchedule,
                UserUnchanged
  <2>2. \/ runs' = runs
        \/ runs[s][now] = "none" /\ runs' = [runs EXCEPT ![s][now] = "queued"]
        \/ sched'[s].status = "deleted" /\ runs' = [runs EXCEPT ![s] = NoRuns]
    <3>1. sched = [q \in Schedule |-> sched[q]] /\ sched[s] \in Row
      BY DEF IInv, RowsSound, SoundRow
    <3> QED  BY <1>9, <3>1 DEF UserStep, UpdateSchedule, PauseSchedule, ResumeSchedule, RunNow,
                              DeleteSchedule, Row
  <2>3. ASSUME NEW k \in Run
        PROVE  \/ RunAt(k)' = RunAt(k)
               \/ RunAt(k) = "none" /\ RunAt(k)' \in {"queued", "skipped"}
               \/ RunAt(k)' = "none" /\ sched'[Of(k)].status = "deleted"
    <3>1. k[1] \in Schedule /\ k[2] \in Time  BY RunPair
    <3> QED  BY <1>1, <2>2, <3>1 DEF RunAt, Of, NoRuns
  <2> QED  BY <2>1, <2>3 DEF OtherStep
<1>10. CASE Tick \/ UNCHANGED vars
  BY <1>10 DEF Tick, vars, OtherStep, RunAt
<1> QED  BY <1>2, <1>5, <1>6, <1>7, <1>8, <1>9, <1>10 DEF Next

(***************************************************************************)
(* A schedule that was deleted stays deleted, whoever was at work on its   *)
(* runs meanwhile: an executor writes the row of a schedule only after it  *)
(* has found the row of the run.                                           *)
(***************************************************************************)
DeletedForGood ==
    [][\A s \in Schedule : sched[s].status = "deleted" => sched'[s] = sched[s]]_vars

LEMMA DeletedStays ==
    ASSUME IInv, [Next]_vars, NEW s \in Schedule, sched[s].status = "deleted"
    PROVE  sched'[s] = sched[s]
<1>1. sched = [q \in Schedule |-> sched[q]] /\ sched[s] \in Row
      /\ \A k \in Run : RunAt(k) # "none" => Of(k) # s
  BY DEF IInv, RowsSound, SoundRow, Owned
<1>2. ASSUME NEW p, NEW k \in Run, NEW st, NEW row, RunAt(k) # "none", Finish(p, k, st, row)
      PROVE  sched'[s] = sched[s]
  BY <1>1, <1>2 DEF Finish
<1>3. ASSUME NEW p \in Proc, Execute(p) PROVE sched'[s] = sched[s]
  BY <1>2, <1>3 DEF Execute, BeginRun, RefuseRun, LoseRun, Abandon
<1>4. ASSUME NEW p \in Proc, EndRun(p) PROVE sched'[s] = sched[s]
  <2> DEFINE k == turn[p]
  <2>1. k \in Run  BY <1>4 DEF EndRun, IInv, Typed
  <2>2. CASE RunAt(k) = "none"  BY <1>4, <2>2 DEF EndRun, Abandon
  <2>3. CASE RunAt(k) # "none"
    <3>1. \/ Finish(p, k, "succeeded", Succeeded(sched[Of(k)]))
          \/ Finish(p, k, "failed", Failed(sched[Of(k)]))
          \/ Finish(p, k, "failed", Unbound(sched[Of(k)]))
      BY <1>4, <2>3 DEF EndRun
    <3> HIDE DEF k
    <3> QED  BY <1>2, <2>1, <2>3, <3>1
  <2> QED  BY <2>2, <2>3
<1>5. CASE PlannerCycle
  <2>1. PICK cleaned \in {{}, {q \in Schedule : Expired(Planned(q))}} :
          sched' = [q \in Schedule |-> IF q \in cleaned THEN Deleted(Planned(q)) ELSE Planned(q)]
    BY <1>5 DEF PlannerCycle
  <2>2. Planned(s) = sched[s]  BY DEF Planned, Due
  <2>3. s \notin cleaned  BY <2>1, <2>2 DEF Expired, TerminalOnce
  <2> QED  BY <2>1, <2>2, <2>3
<1>6. ASSUME NEW q \in Schedule, UserStep(q) PROVE sched'[s] = sched[s]
  <2>1. sched' = sched \/ (sched[q].status # "deleted" /\ \E r : sched' = [sched EXCEPT ![q] = r])
    BY <1>6 DEF UserStep, UpdateSchedule, PauseSchedule, ResumeSchedule, RunNow, DeleteSchedule
  <2> QED  BY <1>1, <2>1
<1> QED
  BY <1>3, <1>4, <1>5, <1>6 DEF Next, Tick, Claim, Crash, vars

\* For every behaviour: a stale write revives no schedule.
THEOREM NoRevival == Spec => DeletedForGood
<1>1. IInv /\ [Next]_vars =>
         [\A s \in Schedule : sched[s].status = "deleted" => sched'[s] = sched[s]]_vars
  BY DeletedStays
<1> QED  BY <1>1, Inductive, PTL DEF Spec, DeletedForGood

\* A claimed run is running until its executor lets go of it, or it was deleted.
Working == \A p \in Proc : \A k \in batch[p] : RunAt(k) \in {"running", "none"}

\* A held run whose row is gone went with its schedule.
LEMMA HeldAndGone ==
    ASSUME IInv, NEW p \in Proc, NEW k \in batch[p], RunAt(k) = "none"
    PROVE  k \in Run /\ Of(k) \in Schedule /\ sched[Of(k)].status = "deleted"
<1>1. k \in Run  BY DEF IInv, Typed
<1> QED  BY <1>1, RunPair DEF IInv, Owned, Unclaimed, Fresh, Of

\* Every step keeps it: only its holder writes the row of a running run.
LEMMA NextWorking == IInv /\ IInv' /\ Working /\ [Next]_vars => Working'
<1> SUFFICES ASSUME IInv, IInv', Working, [Next]_vars,
                    NEW q \in Proc, NEW k \in batch'[q]
             PROVE  RunAt(k)' \in {"running", "none"}
  BY DEF Working
<1>1. batch \in [Proc -> SUBSET Run] /\ batch' \in [Proc -> SUBSET Run] /\ k \in Run
  BY DEF IInv, Typed
<1>2. CASE OtherStep
  <2>1. k \in batch[q] /\ RunAt(k) \in {"running", "none"}
    BY <1>2 DEF OtherStep, Working
  <2>2. CASE RunAt(k) = "none"
    <3>1. Of(k) \in Schedule /\ sched[Of(k)].status = "deleted"
      BY <2>1, <2>2, HeldAndGone
    <3>2. sched'[Of(k)] = sched[Of(k)]  BY <3>1, DeletedStays
    <3>3. \A l \in Run : sched'[Of(l)].status = "deleted" => RunAt(l)' = "none"
      BY DEF IInv, Owned, Of
    <3> QED  BY <1>1, <3>1, <3>2, <3>3
  <2>3. CASE RunAt(k) = "running"  BY <1>1, <1>2, <2>3 DEF OtherStep
  <2> QED  BY <2>1, <2>2, <2>3
<1>3. ASSUME NEW p \in Proc, ClaimStep(p) PROVE RunAt(k)' \in {"running", "none"}
  <2>1. PICK b \in SUBSET Run :
          /\ batch' = [batch EXCEPT ![p] = b]
          /\ \A l \in Run : RunAt(l)' = IF l \in b THEN "running" ELSE RunAt(l)
    BY <1>3 DEF ClaimStep
  <2>2. k \in b \/ k \in batch[q]  BY <1>1, <2>1
  <2> QED  BY <1>1, <2>1, <2>2 DEF Working
<1>4. ASSUME NEW p \in Proc, EndStep(p) PROVE RunAt(k)' \in {"running", "none"}
  <2>1. PICK l \in batch[p], st \in {"succeeded", "failed"} :
          /\ batch' = [batch EXCEPT ![p] = @ \ {l}]
          /\ \A m \in Run : RunAt(m)' = IF m = l THEN st ELSE RunAt(m)
    BY <1>4 DEF EndStep
  <2>2. k \in batch[q] /\ (q = p => k # l)  BY <1>1, <2>1
  <2>3. k # l  BY <2>2 DEF IInv, Owned
  <2> QED  BY <1>1, <2>1, <2>2, <2>3 DEF Working
<1>5. ASSUME NEW p \in Proc, GiveUpStep(p) PROVE RunAt(k)' \in {"running", "none"}
  <2>1. k \in batch[q] /\ RunAt(k)' = RunAt(k)
    BY <1>1, <1>5 DEF GiveUpStep, RunAt
  <2> QED  BY <2>1 DEF Working
<1> QED  BY <1>2, <1>3, <1>4, <1>5, KindsOfSteps

\* It holds in every behaviour.
LEMMA AlwaysWorking == Spec => []Working
<1>1. Init => Working  BY DEF Init, Working
<1> QED  BY <1>1, NextWorking, Inductive, PTL DEF Spec

(***************************************************************************)
(* The row of a run has one history: queued or skipped when it appears,    *)
(* running when it is claimed, then succeeded or failed for good; it goes  *)
(* only with its schedule.  Claims, turns that end late and deletions in   *)
(* between never take it a step back.                                      *)
(***************************************************************************)
MovesOn(old, new, deleted) ==
    \/ new = old
    \/ old = "none" /\ new \in {"queued", "skipped"}
    \/ old = "queued" /\ new = "running"
    \/ old = "running" /\ new \in {"succeeded", "failed"}
    \/ new = "none" /\ deleted

OneHistory ==
    [][\A k \in Run : MovesOn(RunAt(k), RunAt(k)', sched'[Of(k)].status = "deleted")]_vars

THEOREM RunsMoveOn == Spec => OneHistory
<1>1. IInv /\ Working /\ [Next]_vars =>
         [\A k \in Run : MovesOn(RunAt(k), RunAt(k)', sched'[Of(k)].status = "deleted")]_vars
  <2> SUFFICES ASSUME IInv, Working, [Next]_vars, NEW k \in Run
               PROVE  MovesOn(RunAt(k), RunAt(k)', sched'[Of(k)].status = "deleted")
    BY DEF Of
  <2>1. CASE OtherStep  BY <2>1 DEF OtherStep, MovesOn
  <2>2. ASSUME NEW p \in Proc, ClaimStep(p)
        PROVE  MovesOn(RunAt(k), RunAt(k)', sched'[Of(k)].status = "deleted")
    BY <2>2 DEF ClaimStep, MovesOn
  <2>3. ASSUME NEW p \in Proc, EndStep(p)
        PROVE  MovesOn(RunAt(k), RunAt(k)', sched'[Of(k)].status = "deleted")
    BY <2>3 DEF EndStep, Working, MovesOn
  <2>4. ASSUME NEW p \in Proc, GiveUpStep(p)
        PROVE  MovesOn(RunAt(k), RunAt(k)', sched'[Of(k)].status = "deleted")
    BY <2>4 DEF GiveUpStep, RunAt, MovesOn
  <2> QED  BY <2>1, <2>2, <2>3, <2>4, KindsOfSteps
<1> QED  BY <1>1, Inductive, AlwaysWorking, PTL DEF Spec, OneHistory

(***************************************************************************)
(* As long as no process stopped and no schedule was deleted, the running  *)
(* runs are exactly those in the executors' hands: none is left running    *)
(* with nobody to end it, whatever became of the runs before it in its     *)
(* batch.                                                                  *)
(***************************************************************************)
Undisturbed == crashes = 0 /\ \A s \in Schedule : sched[s].status # "deleted"

RunsHaveExecutor == Undisturbed => {k \in Run : RunAt(k) = "running"} = Held

LEMMA NextExecutor ==
    IInv /\ Working /\ RunsHaveExecutor /\ [Next]_vars =>
        (Undisturbed => \A k \in Run : RunAt(k) = "running" => k \in Held)'
<1> SUFFICES ASSUME IInv, Working, RunsHaveExecutor, [Next]_vars, Undisturbed',
                    NEW k \in Run, RunAt(k)' = "running"
             PROVE  \E q \in Proc : k \in batch'[q]
  BY DEF Held, Of, RunAt
<1>1. batch \in [Proc -> SUBSET Run] /\ crashes \in Nat
  BY ScheduleAssumption DEF IInv, Typed
<1>2. \A s \in Schedule : sched[s].status # "deleted"
  BY DeletedStays DEF Undisturbed
<1>3. RunAt(k) = "running" /\ crashes = 0 => \E q \in Proc : k \in batch[q]
  BY <1>2 DEF RunsHaveExecutor, Undisturbed, Held
<1>4. CASE OtherStep
  BY <1>3, <1>4 DEF OtherStep, Undisturbed
<1>5. ASSUME NEW p \in Proc, ClaimStep(p) PROVE \E q \in Proc : k \in batch'[q]
  <2>1. PICK b \in SUBSET Run :
          /\ batch' = [batch EXCEPT ![p] = b] /\ batch[p] = {} /\ crashes' = crashes
          /\ \A l \in Run : RunAt(l)' = IF l \in b THEN "running" ELSE RunAt(l)
    BY <1>5 DEF ClaimStep
  <2>2. CASE k \in b  BY <1>1, <2>1, <2>2
  <2>3. CASE k \notin b
    <3>1. PICK q \in Proc : k \in batch[q]  BY <1>3, <2>1, <2>3 DEF Undisturbed
    <3> QED  BY <1>1, <2>1, <3>1
  <2> QED  BY <2>2, <2>3
<1>6. ASSUME NEW p \in Proc, EndStep(p) PROVE \E q \in Proc : k \in batch'[q]
  <2>1. PICK l \in batch[p], st \in {"succeeded", "failed"} :
          /\ batch' = [batch EXCEPT ![p] = @ \ {l}] /\ crashes' = crashes
          /\ \A m \in Run : RunAt(m)' = IF m = l THEN st ELSE RunAt(m)
    BY <1>6 DEF EndStep
  <2>2. k # l /\ RunAt(k) = "running"  BY <2>1
  <2>3. PICK q \in Proc : k \in batch[q]  BY <1>3, <2>1, <2>2 DEF Undisturbed
  <2> QED  BY <1>1, <2>1, <2>2, <2>3
<1>7. ASSUME NEW p \in Proc, GiveUpStep(p) PROVE FALSE
  <2>1. crashes' = 0  BY DEF Undisturbed
  <2>2. PICK l \in batch[p] : RunAt(l) = "none"  BY <1>1, <1>7, <2>1 DEF GiveUpStep
  <2> QED  BY <1>2, <2>2, HeldAndGone
<1> QED  BY <1>4, <1>5, <1>6, <1>7, KindsOfSteps

\* In every behaviour: the safety half of QueuedRunsEnd.
THEOREM RunningRunsAreHeld == Spec => []RunsHaveExecutor
<1> DEFINE Owner == Undisturbed => \A k \in Run : RunAt(k) = "running" => k \in Held
<1>1. IInv /\ Working /\ Owner => RunsHaveExecutor
  <2> SUFFICES ASSUME IInv, Working, Owner, Undisturbed
               PROVE  {k \in Run : RunAt(k) = "running"} = Held
    BY DEF RunsHaveExecutor
  <2>1. ASSUME NEW k \in Held PROVE k \in Run /\ RunAt(k) = "running"
    <3>1. PICK p \in Proc : k \in batch[p]  BY DEF Held
    <3>2. k \in Run /\ RunAt(k) \in {"running", "none"}  BY <3>1 DEF IInv, Typed, Working
    <3> QED  BY <3>1, <3>2, HeldAndGone DEF Undisturbed
  <2> QED  BY <2>1
<1>2. IInv /\ Working /\ Owner /\ [Next]_vars => Owner'
  <2> HIDE DEF Owner
  <2>1. IInv /\ Working /\ RunsHaveExecutor /\ [Next]_vars => Owner'
    BY NextExecutor DEF Owner
  <2> QED  BY <1>1, <2>1
<1>3. Init => Owner
  BY DEF Init, RunAt, NoRuns, Run
<1> HIDE DEF Owner
<1> QED  BY <1>1, <1>2, <1>3, Inductive, AlwaysWorking, PTL DEF Spec
=============================================================================
