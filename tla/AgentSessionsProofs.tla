------------------------ MODULE AgentSessionsProofs ------------------------
(***************************************************************************)
(* Proofs about AgentSessions, for any number of requests, sessions and    *)
(* faults: the types, that resources follow their sessions, and where a    *)
(* turn is on its way from the buffer of a session to the ledger.          *)
(*                                                                         *)
(* The steps of a session's end are shared by all who end one, so the      *)
(* lemmas are about them: Released, Registered and Abandoned keep a        *)
(* manager sound, whichever manager a caller has at that point; Make,      *)
(* BeginFlush, MakeWithin and SweepOn therefore lead to a sound one.       *)
(***************************************************************************)
EXTENDS AgentSessions, FiniteSetTheorems, WellFoundedInduction, TLAPS

\* m when left is what failed creations and restarts have left behind.
Sound(m, left) ==
    /\ m \in Manager
    /\ \A s \in m.dirs \cup m.reg \cup m.boxes : s <= m.made
    /\ m.reg \subseteq m.dirs
    /\ m.dirs \subseteq m.reg \cup left \cup m.fastDirs
    /\ m.boxes \subseteq m.reg \cup left \cup m.fastBoxes

Tasks ==
    /\ task \in [Task -> TaskState]
    /\ \A t \in Task : task[t].pc \in {"flush", "turn"} => task[t].sid # None

Bufs == buf \in [Id -> Seq(Req)]

Strays == stray \subseteq Id

Rest ==
    /\ stale \subseteq Id
    /\ todo \subseteq Id
    /\ ledger \in [Id -> SUBSET Req]
    /\ cut \subseteq Req
    /\ lost \subseteq Req
    /\ faults \in 0..MaxFaults

IInv == Sound(mgr, stray) /\ Tasks /\ Bufs /\ Strays /\ Rest

\* The invariant is the type and the resources, and nothing else.
LEMMA Parts == IInv <=> TypeOK /\ ResourcesFollow
BY DEF IInv, Sound, Tasks, Bufs, Strays, Rest, TypeOK, ResourcesFollow

-----------------------------------------------------------------------------
(* Managers                                                                *)

\* A set of sessions has an oldest one.
LEMMA OldestExists ==
    ASSUME NEW m \in Manager, m.reg # {}
    PROVE  Oldest(m) \in m.reg /\ Oldest(m) \in Id
<1>1. m.reg \subseteq Nat /\ m.reg \subseteq Id
  BY SessionAssumption DEF SessionAssumption, Manager, Id
<1>2. PICK x \in m.reg : \A y \in m.reg : ~ (<<y, x>> \in OpToRel(<, Nat))
  BY <1>1, NatLessThanWellFounded, WFMin
<1>3. ASSUME NEW y \in m.reg PROVE x <= y
  <2>1. x \in Nat /\ y \in Nat
    BY <1>1
  <2>2. ~ (y < x)
    BY <1>2, <2>1 DEF OpToRel
  <2> QED BY <2>1, <2>2
<1> QED BY <1>1, <1>3 DEF Oldest

\* A user at the limit has an oldest session.
LEMMA AtLimit ==
    ASSUME NEW m \in Manager, ~ (Cardinality(m.reg) < MaxPerUser)
    PROVE  Oldest(m) \in m.reg /\ Oldest(m) \in Id
<1>1. m.reg # {}
  BY FS_EmptySet, SessionAssumption DEF SessionAssumption
<1> QED BY <1>1, OldestExists

\* Ending sessions takes with them what can be removed of their resources.
LEMMA ReleasedSound ==
    ASSUME NEW m, NEW left, NEW S, Sound(m, left)
    PROVE  Sound(Released(m, S), left)
<1> DEFINE r == Released(m, S)
<1>1. m \in Manager
  BY DEF Sound
<1>3. r \in Manager
  BY <1>1 DEF Released, Manager
<1>4. /\ r.reg = m.reg \ S /\ r.made = m.made
      /\ r.dirs = m.dirs \ (S \ m.fastDirs) /\ r.boxes = m.boxes \ (S \ m.fastBoxes)
      /\ r.fastDirs = m.fastDirs /\ r.fastBoxes = m.fastBoxes
  BY <1>1 DEF Released, Manager
<1> HIDE DEF r
<1> QED BY <1>3, <1>4 DEF Sound, r

\* A session that is registered has its resources.
LEMMA RegisteredSound ==
    ASSUME NEW m, NEW left, NEW boxed \in BOOLEAN, Sound(m, left), m.made < MaxSessions
    PROVE  Sound(Registered(m, boxed), left) /\ m.made + 1 \in Id
<1> DEFINE r == Registered(m, boxed)
           s == m.made + 1
<1>1. m \in Manager /\ s \in Id /\ m.made \in Nat
  BY SessionAssumption DEF Sound, SessionAssumption, Manager, Id
<1>2. /\ r.reg = m.reg \cup {s} /\ r.dirs = m.dirs \cup {s} /\ r.made = s
      /\ r.boxes = m.boxes \cup {s} \/ r.boxes = m.boxes
      /\ r.fastDirs = m.fastDirs /\ r.fastBoxes = m.fastBoxes
  BY <1>1 DEF Registered, Manager
<1>3. r \in Manager
  <2>1. s \in 0..MaxSessions /\ m.reg \cup {s} \in SUBSET Id /\ m.dirs \cup {s} \in SUBSET Id
        /\ (IF boxed THEN m.boxes \cup {s} ELSE m.boxes) \in SUBSET Id
    BY <1>1, SessionAssumption DEF Manager, SessionAssumption, Id
  <2> HIDE DEF s
  <2> QED BY <1>1, <2>1 DEF Registered, Manager, s
<1>4. \A i \in Id : i <= m.made => i <= s
  BY <1>1 DEF Id
<1>5. m.dirs \cup m.reg \cup m.boxes \subseteq Id
  BY <1>1 DEF Manager
<1>6. \A i \in r.dirs \cup r.reg \cup r.boxes : i <= r.made
  BY <1>1, <1>2, <1>4, <1>5 DEF Sound
<1> QED BY <1>1, <1>2, <1>3, <1>6 DEF Sound

\* A session that could not be made leaves at most its directory.
LEMMA AbandonedSound ==
    ASSUME NEW m, NEW left, Sound(m, left), m.made < MaxSessions
    PROVE  Sound(Abandoned(m), left \cup {m.made + 1}) /\ m.made + 1 \in Id
<1> DEFINE r == Abandoned(m)
           s == m.made + 1
<1>1. m \in Manager /\ s \in Id /\ m.made \in Nat
  BY SessionAssumption DEF Sound, SessionAssumption, Manager, Id
<1>2. /\ r.reg = m.reg /\ r.dirs = m.dirs \cup {s} /\ r.boxes = m.boxes /\ r.made = s
      /\ r.fastDirs = m.fastDirs /\ r.fastBoxes = m.fastBoxes
  BY <1>1 DEF Abandoned, Manager
<1>3. r \in Manager
  <2>1. s \in 0..MaxSessions /\ m.dirs \cup {s} \in SUBSET Id
    BY <1>1, SessionAssumption DEF Manager, SessionAssumption, Id
  <2> HIDE DEF s
  <2> QED BY <1>1, <2>1 DEF Abandoned, Manager, s
<1>4. \A i \in Id : i <= m.made => i <= s
  BY <1>1 DEF Id
<1>5. m.dirs \cup m.reg \cup m.boxes \subseteq Id
  BY <1>1 DEF Manager
<1>6. \A i \in r.dirs \cup r.reg \cup r.boxes : i <= r.made
  BY <1>1, <1>2, <1>4, <1>5 DEF Sound
<1> QED BY <1>1, <1>2, <1>3, <1>6 DEF Sound

-----------------------------------------------------------------------------
(* The steps that actions share                                            *)

\* A task moves on: the others stay as they are.
LEMMA MoveTask ==
    ASSUME Tasks, NEW t \in Task, NEW c \in TaskState, c.pc \in {"flush", "turn"} => c.sid # None,
           task' = [task EXCEPT ![t] = c]
    PROVE  Tasks'
BY DEF Tasks

\* A task moves on with the session it has in hand, or with none.
LEMMA MoveAt ==
    ASSUME Tasks, NEW t \in Task, NEW pc \in {"new", "turn", "over"}, NEW s \in Id \cup {None},
           pc = "turn" => s # None, task' = [task EXCEPT ![t] = At(pc, s)]
    PROVE  Tasks'
<1>1. At(pc, s) \in TaskState /\ At(pc, s).pc = pc /\ At(pc, s).sid = s
  BY DEF At, TaskState
<1> QED BY <1>1, MoveTask

\* _create_session past its limit: registered, or abandoned.
LEMMA MakeSound ==
    ASSUME NEW t \in Task, NEW m, Sound(m, stray), Tasks, Strays, Make(t, m)
    PROVE  Sound(mgr', stray') /\ Tasks' /\ Strays'
<1>0. m.made < MaxSessions
  BY DEF Make
<1>1. CASE \E boxed \in BOOLEAN :
             /\ mgr' = Registered(m, boxed)
             /\ task' = [task EXCEPT ![t] = At("turn", m.made + 1)]
             /\ UNCHANGED stray
  <2>1. PICK boxed \in BOOLEAN :
             /\ mgr' = Registered(m, boxed)
             /\ task' = [task EXCEPT ![t] = At("turn", m.made + 1)]
             /\ UNCHANGED stray
    BY <1>1
  <2>2. Sound(mgr', stray') /\ m.made + 1 \in Id
    BY <1>0, <2>1, RegisteredSound
  <2>3. m.made + 1 # None
    BY <2>2 DEF Id, None
  <2>4. Tasks'
    BY <2>1, <2>2, <2>3, MoveAt
  <2> QED BY <2>1, <2>2, <2>4 DEF Strays
<1>2. CASE /\ mgr' = Abandoned(m)
           /\ task' = [task EXCEPT ![t] = At("over", None)]
           /\ stray' = stray \cup {m.made + 1}
  <2>1. Sound(mgr', stray') /\ m.made + 1 \in Id
    BY <1>0, <1>2, AbandonedSound
  <2>2. Tasks'
    BY <1>2, MoveAt
  <2> QED BY <1>2, <2>1, <2>2 DEF Strays
<1> QED BY <1>1, <1>2 DEF Make

Goals == {"limit", "make", "sweep", "over"}

\* The buffer is taken and its flush awaited; no resource moves.
LEMMA BeginFlushSound ==
    ASSUME NEW t \in Task, NEW m, NEW s \in Id, NEW goal \in Goals,
           Sound(m, stray), Tasks, Strays, Bufs, BeginFlush(t, m, s, goal)
    PROVE  Sound(mgr', stray') /\ Tasks' /\ Strays' /\ Bufs'
<1>1. /\ mgr' = m /\ stray' = stray
      /\ buf' = [buf EXCEPT ![s] = <<>>]
      /\ task' = [task EXCEPT ![t] = Flushing(s, Range(buf[s]), goal)]
  BY DEF BeginFlush
<1>2. buf[s] \in Seq(Req)
  BY DEF Bufs
<1>3. Range(buf[s]) \subseteq Req
  BY <1>2 DEF Range
<1>4. s # None
  BY DEF Id, None
<1> DEFINE c == Flushing(s, Range(buf[s]), goal)
<1>5. c \in TaskState /\ c.sid = s
  BY <1>3 DEF Flushing, TaskState, Goals
<1> HIDE DEF c
<1>6. Tasks'
  BY <1>1, <1>4, <1>5, MoveTask DEF c
<1>7. Bufs'
  BY <1>1 DEF Bufs
<1> QED BY <1>1, <1>6, <1>7 DEF Strays

\* Making a session, with the end of the oldest when the user is at the limit.
LEMMA MakeWithinSound ==
    ASSUME NEW t \in Task, NEW m, Sound(m, stray), Tasks, Strays, Bufs, MakeWithin(t, m)
    PROVE  Sound(mgr', stray') /\ Tasks' /\ Strays' /\ Bufs'
<1>1. CASE Cardinality(m.reg) < MaxPerUser
  <2>1. Make(t, m) /\ buf' = buf
    BY <1>1 DEF MakeWithin
  <2> QED BY <2>1, MakeSound DEF Bufs
<1>2. CASE ~ (Cardinality(m.reg) < MaxPerUser)
  <2>1. Oldest(m) \in Id
    BY <1>2, AtLimit DEF Sound
  <2>2. CASE BeginFlush(t, m, Oldest(m), "make")
    BY <2>1, <2>2, BeginFlushSound DEF Goals
  <2>3. CASE Make(t, Released(m, {Oldest(m)})) /\ buf' = buf
    <3>1. Sound(Released(m, {Oldest(m)}), stray)
      BY ReleasedSound
    <3> QED BY <2>3, <3>1, MakeSound DEF Bufs
  <2> QED BY <1>2, <2>2, <2>3 DEF MakeWithin
<1> QED BY <1>1, <1>2

\* end_session of one session, with or without turns to flush.
LEMMA EndSound ==
    ASSUME IInv, NEW t \in Task, NEW s \in Id, End(t, s)
    PROVE  Sound(mgr', stray') /\ Tasks' /\ Strays' /\ Bufs'
<1>0. Sound(mgr, stray) /\ Tasks /\ Strays /\ Bufs
  BY DEF IInv
<1>1. CASE BeginFlush(t, mgr, s, "over")
  BY <1>0, <1>1, BeginFlushSound DEF Goals
<1>2. CASE /\ mgr' = IF s \in mgr.reg THEN Released(mgr, {s}) ELSE mgr
           /\ task' = [task EXCEPT ![t] = At("over", None)]
           /\ UNCHANGED <<buf, stray>>
  <2>1. Sound(mgr', stray)
    BY <1>0, <1>2, ReleasedSound
  <2>2. Tasks'
    BY <1>0, <1>2, MoveAt
  <2> QED BY <1>0, <1>2, <2>1, <2>2 DEF Strays, Bufs
<1> QED BY <1>1, <1>2 DEF End

\* The sweep goes on to its next session, or is through.
LEMMA SweepOnSound ==
    ASSUME NEW m, NEW S \in SUBSET Id, Sound(m, stray), Tasks, Strays, Bufs, SweepOn(m, S)
    PROVE  Sound(mgr', stray') /\ Tasks' /\ Strays' /\ Bufs' /\ todo' \subseteq Id
<1>0. Cleaner \in Task
  BY DEF Task
<1>1. CASE /\ mgr' = Released(m, S \cap m.reg)
           /\ task' = [task EXCEPT ![Cleaner] = At("new", None)]
           /\ todo' = {}
           /\ UNCHANGED <<buf, stray>>
  <2>1. Sound(mgr', stray)
    BY <1>1, ReleasedSound
  <2>2. Tasks'
    BY <1>0, <1>1, MoveAt
  <2> QED BY <1>1, <2>1, <2>2 DEF Strays, Bufs
<1>2. CASE \E k \in {s \in S \cap m.reg : buf[s] # <<>>} :
             /\ BeginFlush(Cleaner, Released(m, {s \in S \cap m.reg : s < k}), k, "sweep")
             /\ todo' = {s \in S : k < s}
  <2>1. PICK k \in S :
             /\ BeginFlush(Cleaner, Released(m, {s \in S \cap m.reg : s < k}), k, "sweep")
             /\ todo' = {s \in S : k < s}
    BY <1>2
  <2>2. Sound(Released(m, {s \in S \cap m.reg : s < k}), stray)
    BY ReleasedSound
  <2>3. k \in Id
    OBVIOUS
  <2>4. Sound(mgr', stray') /\ Tasks' /\ Strays' /\ Bufs'
    BY <1>0, <2>1, <2>2, <2>3, BeginFlushSound DEF Goals
  <2> QED BY <2>1, <2>4
<1> QED BY <1>1, <1>2 DEF SweepOn

-----------------------------------------------------------------------------
(* The actions                                                             *)

\* A manager without sessions.
LEMMA Initially == Init => IInv
<1> SUFFICES ASSUME Init PROVE IInv
  OBVIOUS
<1>1. Sound(mgr, stray)
  BY SessionAssumption DEF Init, Sound, Manager, SessionAssumption
<1>2. Tasks
  BY DEF Init, Tasks, At, TaskState
<1>3. Bufs /\ Strays /\ Rest
  BY SessionAssumption DEF Init, Bufs, Strays, Rest, SessionAssumption
<1> QED BY <1>1, <1>2, <1>3 DEF IInv

LEMMA ResumeKeeps == ASSUME IInv, NEW r \in Req, NEW s \in Id, Resume(r, s) PROVE IInv'
<1>1. r \in Task /\ s # None
  BY DEF Task, Id, None
<1>2. Tasks'
  BY <1>1, MoveAt DEF IInv, Resume
<1> QED BY <1>2 DEF IInv, Resume, Sound, Bufs, Strays, Rest

LEMMA RenewKeeps == ASSUME IInv, NEW r \in Req, NEW s \in Id, Renew(r, s) PROVE IInv'
<1>0. r \in Task /\ Sound(mgr, stray) /\ Tasks /\ Strays /\ Bufs /\ Rest
  BY DEF Task, IInv
<1>1. CASE BeginFlush(r, mgr, s, "limit")
  BY <1>0, <1>1, BeginFlushSound DEF Goals, Renew, Rest, IInv
<1>2. CASE MakeWithin(r, Released(mgr, {s}))
  <2>1. Sound(Released(mgr, {s}), stray)
    BY <1>0, ReleasedSound
  <2> QED BY <1>0, <1>2, <2>1, MakeWithinSound DEF Renew, Rest, IInv
<1> QED BY <1>1, <1>2 DEF Renew

LEMMA OpenKeeps == ASSUME IInv, NEW r \in Req, Open(r) PROVE IInv'
<1>0. r \in Task /\ Sound(mgr, stray) /\ Tasks /\ Strays /\ Bufs /\ Rest
  BY DEF Task, IInv
<1> QED BY <1>0, MakeWithinSound DEF Open, Rest, IInv

LEMMA AppendTurnKeeps ==
    ASSUME IInv, NEW r \in Req, NEW s \in Id, AppendTurn(s, r)
    PROVE  Bufs' /\ stale' \subseteq Id /\ cut' \subseteq Req
<1>0. /\ Bufs /\ stale \subseteq Id /\ cut \subseteq Req
      /\ buf[s] \in Seq(Req)
  BY DEF IInv, Bufs, Rest
<1>1. MaxTurns \in Nat \ {0}
  BY SessionAssumption DEF SessionAssumption
<1>2. CASE Len(buf[s]) < MaxTurns
  <2>1. buf' = [buf EXCEPT ![s] = Append(buf[s], r)] /\ cut' = cut /\ stale' = stale \ {s}
    BY <1>2 DEF AppendTurn
  <2>2. Append(buf[s], r) \in Seq(Req)
    BY <1>0
  <2> QED BY <1>0, <2>1, <2>2 DEF Bufs
<1>3. CASE ~ (Len(buf[s]) < MaxTurns)
  <2>1. /\ buf' = [buf EXCEPT ![s] = Append(Tail(buf[s]), r)]
        /\ cut' = cut \cup {Head(buf[s])} /\ stale' = stale \ {s}
    BY <1>3 DEF AppendTurn
  <2>2. buf[s] # <<>>
    BY <1>0, <1>1, <1>3
  <2>3. Append(Tail(buf[s]), r) \in Seq(Req) /\ Head(buf[s]) \in Req
    BY <1>0, <2>2
  <2> QED BY <1>0, <2>1, <2>3 DEF Bufs
<1> QED BY <1>2, <1>3

LEMMA AnswerKeeps == ASSUME IInv, NEW r \in Req, Answer(r) PROVE IInv'
<1>1. r \in Task /\ task[r].pc = "turn"
  BY DEF Task, Answer
<1>2. task[r].sid \in Id
  BY <1>1 DEF IInv, Tasks, TaskState
<1>3. Bufs' /\ stale' \subseteq Id /\ cut' \subseteq Req
  BY <1>2, AppendTurnKeeps DEF Answer
<1>4. Tasks'
  BY <1>1, MoveAt DEF IInv, Answer
<1> QED BY <1>3, <1>4 DEF IInv, Answer, Sound, Strays, Rest

LEMMA GiveUpKeeps == ASSUME IInv, NEW r \in Req, GiveUp(r) PROVE IInv'
<1>1. r \in Task
  BY DEF Task
<1>2. Tasks'
  BY <1>1, MoveAt DEF IInv, GiveUp
<1> QED BY <1>2 DEF IInv, GiveUp, Sound, Bufs, Strays, Rest

LEMMA DisconnectKeeps == ASSUME IInv, NEW r \in Req, Disconnect(r) PROVE IInv'
<1>1. r \in Task /\ task[r].pc = "flush"
  BY DEF Task, Disconnect
<1>2. Tasks'
  BY <1>1, MoveAt DEF IInv, Disconnect
<1>3. lost' \subseteq Req
  BY <1>1 DEF IInv, Rest, Tasks, TaskState, Disconnect
<1> QED BY <1>2, <1>3 DEF IInv, Disconnect, Sound, Bufs, Strays, Rest

LEMMA CloseKeeps == ASSUME IInv, NEW d \in Closer, NEW s \in Id, Close(d, s) PROVE IInv'
<1>1. d \in Task
  BY DEF Task
<1> QED BY <1>1, EndSound DEF IInv, Close, Rest

LEMMA EndTestKeeps == ASSUME IInv, NEW r \in Req, EndTest(r) PROVE IInv'
<1>1. r \in Task /\ task[r].pc = "turn"
  BY DEF Task, EndTest
<1>2. task[r].sid \in Id
  BY <1>1 DEF IInv, Tasks, TaskState
<1> QED BY <1>1, <1>2, EndSound DEF IInv, EndTest, Rest

LEMMA SweepKeeps == ASSUME IInv, Sweep PROVE IInv'
<1>1. mgr.reg \cap stale \in SUBSET Id
  BY DEF IInv, Rest
<1> QED BY <1>1, SweepOnSound DEF IInv, Sweep, Rest

LEMMA RecordKeeps ==
    ASSUME Rest, NEW s \in Id, NEW S \in SUBSET Req, Record(s, S)
    PROVE  ledger' \in [Id -> SUBSET Req] /\ faults' \in 0..MaxFaults
<1>1. CASE ledger' = [ledger EXCEPT ![s] = S] /\ UNCHANGED faults
  BY <1>1 DEF Rest
<1>2. CASE faults < MaxFaults /\ faults' = faults + 1 /\ UNCHANGED ledger
  BY <1>2, SessionAssumption DEF Rest, SessionAssumption
<1> QED BY <1>1, <1>2 DEF Record

LEMMA FinalizeKeeps == ASSUME IInv, NEW t \in Task, Finalize(t) PROVE IInv'
<1> DEFINE s == task[t].sid
           m == Released(mgr, {s})
<1>0. Sound(mgr, stray) /\ Tasks /\ Strays /\ Bufs /\ Rest
  BY DEF IInv
<1>1. task[t].pc = "flush" /\ Record(s, task[t].took) /\ UNCHANGED <<stale, cut, lost>>
  BY DEF Finalize
<1>2. s \in Id /\ task[t].took \in SUBSET Req
  BY <1>0, <1>1 DEF Tasks, TaskState
<1>3. ledger' \in [Id -> SUBSET Req] /\ faults' \in 0..MaxFaults
  BY <1>0, <1>1, <1>2, RecordKeeps
<1>4. Sound(m, stray)
  BY <1>0, ReleasedSound
<1> HIDE DEF m, s
<1>5. Sound(mgr', stray') /\ Tasks' /\ Strays' /\ Bufs' /\ todo' \subseteq Id
  <2>1. CASE /\ mgr' = m
             /\ task' = [task EXCEPT ![t] = At("over", None)]
             /\ UNCHANGED <<buf, todo, stray>>
    <3>1. Tasks'
      BY <1>0, <2>1, MoveAt
    <3> QED BY <1>0, <1>4, <2>1, <3>1 DEF Strays, Bufs, Rest
  <2>2. CASE Make(t, m) /\ UNCHANGED <<buf, todo>>
    BY <1>0, <1>4, <2>2, MakeSound DEF Bufs, Rest
  <2>3. CASE MakeWithin(t, m) /\ UNCHANGED todo
    BY <1>0, <1>4, <2>3, MakeWithinSound DEF Rest
  <2>4. CASE SweepOn(m, todo)
    BY <1>0, <1>4, <2>4, SweepOnSound DEF Rest
  <2> QED BY <2>1, <2>2, <2>3, <2>4 DEF Finalize, m, s
<1> QED BY <1>0, <1>1, <1>3, <1>5 DEF IInv, Rest

LEMMA ExpireKeeps == ASSUME IInv, NEW s \in Id, Expire(s) PROVE IInv'
<1>1. stale' \subseteq Id
  BY DEF IInv, Rest, Expire
<1> QED BY <1>1 DEF IInv, Expire, Sound, Tasks, Bufs, Strays, Rest

LEMMA HoldFastKeeps == ASSUME IInv, NEW s \in Id, HoldFast(s) PROVE IInv'
<1>0. Sound(mgr, stray) /\ mgr \in Manager /\ mgr.fastDirs = {} /\ mgr.fastBoxes = {}
  BY DEF IInv, Sound, HoldFast
<1>1. mgr' \in Manager
  BY <1>0 DEF HoldFast, Manager
<1>2. mgr'.reg = mgr.reg /\ mgr'.dirs = mgr.dirs /\ mgr'.boxes = mgr.boxes /\ mgr'.made = mgr.made
  BY <1>0 DEF HoldFast, Manager
<1>3. Sound(mgr', stray')
  BY <1>0, <1>1, <1>2 DEF HoldFast, Sound
<1> QED BY <1>3 DEF IInv, HoldFast, Tasks, Bufs, Strays, Rest

LEMMA RestartKeeps == ASSUME IInv, Restart PROVE IInv'
<1>0. Sound(mgr, stray) /\ mgr \in Manager /\ stray \subseteq Id
  BY DEF IInv, Sound, Strays
<1>1. mgr' = [reg |-> {}, dirs |-> mgr.dirs, boxes |-> mgr.boxes, made |-> mgr.made,
              fastDirs |-> mgr.fastDirs, fastBoxes |-> mgr.fastBoxes]
  BY <1>0 DEF Restart, Manager
<1>2. mgr' \in Manager
  BY <1>0, <1>1 DEF Manager
<1>3. stray' = stray \cup mgr.dirs /\ mgr.dirs \subseteq Id
  BY <1>0 DEF Restart, Manager
<1>4. Sound(mgr', stray')
  BY <1>0, <1>1, <1>2, <1>3 DEF Sound
<1>5. Tasks'
  <2>1. At("new", None) \in TaskState /\ At("over", None) \in TaskState
    BY DEF At, TaskState
  <2>2. task' \in [Task -> {At("new", None), At("over", None)}]
    BY DEF Restart
  <2>3. \A t \in Task : task'[t].pc \in {"new", "over"}
    BY <2>2 DEF At
  <2> QED BY <2>1, <2>2, <2>3 DEF Tasks
<1>6. Bufs' /\ Strays'
  BY <1>0, <1>3 DEF Restart, Bufs, Strays
<1>7. Rest'
  BY SessionAssumption DEF IInv, Restart, Rest, SessionAssumption
<1> QED BY <1>4, <1>5, <1>6, <1>7 DEF IInv

LEMMA StutterKeeps == ASSUME IInv, UNCHANGED vars PROVE IInv'
BY DEF IInv, vars, Sound, Tasks, Bufs, Strays, Rest

LEMMA Inductive == IInv /\ [Next]_vars => IInv'
<1> SUFFICES ASSUME IInv, [Next]_vars PROVE IInv'
  OBVIOUS
<1>1. ASSUME NEW r \in Req, NEW s \in Id, Resume(r, s) \/ Renew(r, s) PROVE IInv'
  BY <1>1, ResumeKeeps, RenewKeeps
<1>2. ASSUME NEW r \in Req, Open(r) \/ Answer(r) \/ GiveUp(r) \/ EndTest(r) \/ Disconnect(r)
      PROVE  IInv'
  BY <1>2, OpenKeeps, AnswerKeeps, GiveUpKeeps, EndTestKeeps, DisconnectKeeps
<1>3. ASSUME NEW d \in Closer, NEW s \in Id, Close(d, s) PROVE IInv'
  BY <1>3, CloseKeeps
<1>4. CASE Sweep
  BY <1>4, SweepKeeps
<1>5. ASSUME NEW t \in Task, Finalize(t) PROVE IInv'
  BY <1>5, FinalizeKeeps
<1>6. ASSUME NEW s \in Id, Expire(s) \/ HoldFast(s) PROVE IInv'
  BY <1>6, ExpireKeeps, HoldFastKeeps
<1>7. CASE Restart
  BY <1>7, RestartKeeps
<1>8. CASE UNCHANGED vars
  BY <1>8, StutterKeeps
<1> QED BY <1>1, <1>2, <1>3, <1>4, <1>5, <1>6, <1>7, <1>8 DEF Next

\* Every variable keeps its type, and sessions are numbered apart.
THEOREM TypeCorrect == Spec => []TypeOK
<1>1. IInv => TypeOK
  BY Parts
<1> QED BY <1>1, Initially, Inductive, PTL DEF Spec

\* However many tasks end a session at once: whoever resumes a session finds its
\* directory, and no directory and no container outlives its session, but for
\* what cannot be removed and what failed creations and restarts leave.
THEOREM ResourcesFollowSessions == Spec => []ResourcesFollow
<1>1. IInv => ResourcesFollow
  BY Parts
<1> QED BY <1>1, Initially, Inductive, PTL DEF Spec

-----------------------------------------------------------------------------
(* Where a turn is                                                         *)

\* The turns that each task has taken and not yet recorded.
Hand == [t \in Task |-> IF task[t].pc = "flush" THEN task[t].took ELSE {}]

\* Turn r is in a buffer of b, in the hands of a task, in a row of the ledger l,
\* or among the turns that newer ones drove out.
Somewhere(r, b, h, l, c) ==
    \/ \E s \in Id : r \in Range(b[s]) \cup l[s]
    \/ \E t \in Task : r \in h[t]
    \/ r \in c

NoTwice(q) == \A i, j \in 1..Len(q) : q[i] = q[j] => i = j

\* It is in one place only, and in a buffer once.
Apart(b, h, l, c) ==
    /\ \A s \in Id : NoTwice(b[s])
    /\ \A s, q \in Id : s # q => Range(b[s]) \cap Range(b[q]) = {} /\ l[s] \cap l[q] = {}
    /\ \A s, q \in Id : Range(b[s]) \cap l[q] = {}
    /\ \A t, u \in Task : t # u => h[t] \cap h[u] = {}
    /\ \A t \in Task, s \in Id : h[t] \cap (Range(b[s]) \cup l[s]) = {}
    /\ \A t \in Task : h[t] \cap c = {}
    /\ \A s \in Id : c \cap (Range(b[s]) \cup l[s]) = {}

\* A turn is one request's, taken down when the request is over.
TurnsApart ==
    /\ Apart(buf, Hand, ledger, cut)
    /\ \A r \in Req : Somewhere(r, buf, Hand, ledger, cut) => task[r].pc = "over"

Buffers == [Id -> Seq(Req)]
Hands   == [Task -> SUBSET Req]
Rows    == [Id -> SUBSET Req]

LEMMA RangeOf == ASSUME NEW q \in Seq(Req) PROVE Range(q) = {q[i] : i \in 1..Len(q)}
<1>1. DOMAIN q = 1..Len(q)
  OBVIOUS
<1> QED BY <1>1 DEF Range

LEMMA RangeOfNone == Range(<<>>) = {} /\ NoTwice(<<>>)
<1> DEFINE q == <<>>
<1>1. q \in Seq(Req) /\ Len(q) = 0 /\ 1..0 = {}
  OBVIOUS
<1> HIDE DEF q
<1>2. Range(q) = {} /\ NoTwice(q)
  BY <1>1, RangeOf DEF NoTwice
<1> QED BY <1>2 DEF q

LEMMA RangeOfLonger ==
    ASSUME NEW q \in Seq(Req), NEW r \in Req, NoTwice(q), r \notin Range(q)
    PROVE  Range(Append(q, r)) = Range(q) \cup {r} /\ NoTwice(Append(q, r))
<1> DEFINE a == Append(q, r)
<1>1. a \in Seq(Req) /\ Len(a) = Len(q) + 1 /\ a[Len(q) + 1] = r /\ Len(q) \in Nat
  OBVIOUS
<1>2. \A i \in 1..Len(q) : a[i] = q[i]
  OBVIOUS
<1>3. \A i \in 1..Len(a) : i \in 1..Len(q) \/ i = Len(q) + 1
  BY <1>1
<1>4. 1..Len(q) \subseteq 1..Len(a) /\ Len(q) + 1 \in 1..Len(a)
  BY <1>1
<1>5. \A i \in 1..Len(q) : q[i] # r
  BY RangeOf
<1> HIDE DEF a
<1>6. Range(a) = Range(q) \cup {r}
  BY <1>1, <1>2, <1>3, <1>4, RangeOf
<1>7. NoTwice(a)
  BY <1>1, <1>2, <1>3, <1>5 DEF NoTwice
<1> QED BY <1>6, <1>7 DEF a

LEMMA RangeOfRest ==
    ASSUME NEW q \in Seq(Req), q # <<>>, NoTwice(q)
    PROVE  /\ Tail(q) \in Seq(Req) /\ NoTwice(Tail(q))
           /\ Head(q) \in Range(q) /\ Range(Tail(q)) = Range(q) \ {Head(q)}
<1> DEFINE a == Tail(q)
<1>1. /\ a \in Seq(Req) /\ Len(q) \in Nat \ {0} /\ Len(a) = Len(q) - 1
      /\ Head(q) = q[1]
  OBVIOUS
<1>2. \A i \in 1..Len(a) : a[i] = q[i + 1] /\ i + 1 \in 1..Len(q) /\ i + 1 # 1
  BY <1>1
<1>3. \A i \in 1..Len(q) : i = 1 \/ (i - 1 \in 1..Len(a) /\ a[i - 1] = q[i])
  BY <1>1
<1>4. 1 \in 1..Len(q)
  BY <1>1
<1> HIDE DEF a
<1>5. NoTwice(a)
  <2> SUFFICES ASSUME NEW i \in 1..Len(a), NEW j \in 1..Len(a), a[i] = a[j]
               PROVE  i = j
    BY DEF NoTwice
  <2>1. i + 1 = j + 1
    BY <1>2 DEF NoTwice
  <2> QED BY <1>1, <2>1
<1>6. Range(q) = {q[i] : i \in 1..Len(q)} /\ Range(a) = {a[i] : i \in 1..Len(a)}
  BY <1>1, RangeOf
<1>7. Range(a) \subseteq Range(q) /\ q[1] \notin Range(a)
  <2>1. \A i \in 1..Len(a) : a[i] \in Range(q)
    BY <1>2, <1>6
  <2>2. \A i \in 1..Len(a) : a[i] # q[1]
    BY <1>2, <1>4 DEF NoTwice
  <2> QED BY <1>6, <2>1, <2>2
<1>8. Range(q) \subseteq Range(a) \cup {q[1]}
  <2>1. \A i \in 1..Len(q) : q[i] \in Range(a) \cup {q[1]}
    BY <1>3, <1>6
  <2> QED BY <1>6, <2>1
<1>9. q[1] \in Range(q)
  BY <1>4, <1>6
<1> QED BY <1>1, <1>5, <1>7, <1>8, <1>9 DEF a

\* Whoever ends a session has its turns in hand, and its buffer is empty.
LEMMA TakenApart ==
    ASSUME NEW b \in Buffers, NEW h \in Hands, NEW l \in Rows, NEW c,
           NEW t \in Task, NEW s \in Id, h[t] = {}, Apart(b, h, l, c)
    PROVE  LET b1 == [b EXCEPT ![s] = <<>>]
               h1 == [h EXCEPT ![t] = Range(b[s])]
           IN  /\ Apart(b1, h1, l, c)
               /\ \A r : Somewhere(r, b1, h1, l, c) <=> Somewhere(r, b, h, l, c)
<1> DEFINE b1 == [b EXCEPT ![s] = <<>>]
           h1 == [h EXCEPT ![t] = Range(b[s])]
<1>1. \A q \in Id : b1[q] = IF q = s THEN <<>> ELSE b[q]
  BY DEF Buffers
<1>2. \A q \in Id : Range(b1[q]) = (IF q = s THEN {} ELSE Range(b[q])) /\ (NoTwice(b[q]) => NoTwice(b1[q]))
  <2> TAKE q \in Id
  <2>1. CASE q = s
    <3>1. b1[q] = <<>>
      BY <1>1, <2>1
    <3> QED BY <2>1, <3>1, RangeOfNone
  <2>2. CASE q # s
    BY <1>1, <2>2
  <2> QED BY <2>1, <2>2
<1>3. \A u \in Task : h1[u] = IF u = t THEN Range(b[s]) ELSE h[u]
  BY DEF Hands
<1> HIDE DEF b1, h1
<1>4. Apart(b1, h1, l, c)
  BY <1>2, <1>3 DEF Apart
<1>5. \A r : Somewhere(r, b1, h1, l, c) <=> Somewhere(r, b, h, l, c)
  BY <1>2, <1>3 DEF Somewhere
<1> QED BY <1>4, <1>5 DEF b1, h1

\* What t had in hand is in the row of s, and in no hand.
LEMMA RecordedApart ==
    ASSUME NEW b, NEW h \in Hands, NEW l \in Rows, NEW c,
           NEW t \in Task, NEW s \in Id, Apart(b, h, l, c)
    PROVE  LET h1 == [h EXCEPT ![t] = {}]
               l1 == [l EXCEPT ![s] = h[t]]
           IN  /\ Apart(b, h1, l1, c)
               /\ \A r : Somewhere(r, b, h1, l1, c) => Somewhere(r, b, h, l, c)
               /\ \A r : Somewhere(r, b, h, l, c) => Somewhere(r, b, h1, l1, c) \/ r \in l[s]
<1> DEFINE h1 == [h EXCEPT ![t] = {}]
           l1 == [l EXCEPT ![s] = h[t]]
<1>1. \A q \in Id : l1[q] = IF q = s THEN h[t] ELSE l[q]
  BY DEF Rows
<1>2. \A u \in Task : h1[u] = IF u = t THEN {} ELSE h[u]
  BY DEF Hands
<1> HIDE DEF h1, l1
<1>3. Apart(b, h1, l1, c)
  BY <1>1, <1>2 DEF Apart
<1>4. /\ \A r : Somewhere(r, b, h1, l1, c) => Somewhere(r, b, h, l, c)
      /\ \A r : Somewhere(r, b, h, l, c) => Somewhere(r, b, h1, l1, c) \/ r \in l[s]
  BY <1>1, <1>2 DEF Somewhere
<1> QED BY <1>3, <1>4 DEF h1, l1

\* The record has failed or t was cancelled: nobody has its turns any more.
LEMMA DroppedApart ==
    ASSUME NEW b, NEW h \in Hands, NEW l, NEW c, NEW t \in Task, Apart(b, h, l, c)
    PROVE  LET h1 == [h EXCEPT ![t] = {}]
           IN  /\ Apart(b, h1, l, c)
               /\ \A r : Somewhere(r, b, h1, l, c) => Somewhere(r, b, h, l, c)
<1> DEFINE h1 == [h EXCEPT ![t] = {}]
<1>1. \A u \in Task : h1[u] = IF u = t THEN {} ELSE h[u]
  BY DEF Hands
<1> HIDE DEF h1
<1>2. Apart(b, h1, l, c) /\ \A r : Somewhere(r, b, h1, l, c) => Somewhere(r, b, h, l, c)
  BY <1>1 DEF Apart, Somewhere
<1> QED BY <1>2 DEF h1

\* A turn that is nowhere is taken down, and may drive out the first of the buffer.
LEMMA AddedApart ==
    ASSUME NEW b \in Buffers, NEW h, NEW l, NEW c, NEW s \in Id, NEW r \in Req,
           Apart(b, h, l, c), ~ Somewhere(r, b, h, l, c)
    PROVE  LET b1 == [b EXCEPT ![s] = Append(b[s], r)]
           IN  /\ Apart(b1, h, l, c)
               /\ \A x : Somewhere(x, b1, h, l, c) <=> Somewhere(x, b, h, l, c) \/ x = r
<1> DEFINE b1 == [b EXCEPT ![s] = Append(b[s], r)]
<1>0. b[s] \in Seq(Req) /\ NoTwice(b[s]) /\ r \notin Range(b[s])
  BY DEF Buffers, Apart, Somewhere
<1>1. Range(Append(b[s], r)) = Range(b[s]) \cup {r} /\ NoTwice(Append(b[s], r))
  BY <1>0, RangeOfLonger
<1>2. \A q \in Id : b1[q] = IF q = s THEN Append(b[s], r) ELSE b[q]
  BY DEF Buffers
<1> HIDE DEF b1
<1>3. /\ \A q \in Id : Range(b1[q]) = IF q = s THEN Range(b[s]) \cup {r} ELSE Range(b[q])
      /\ \A q \in Id : NoTwice(b[q]) => NoTwice(b1[q])
  BY <1>1, <1>2
<1>4. /\ \A q \in Id : r \notin Range(b[q]) \cup l[q]
      /\ \A u \in Task : r \notin h[u]
      /\ r \notin c
  BY DEF Somewhere
<1>5. Apart(b1, h, l, c)
  BY <1>3, <1>4 DEF Apart
<1>6. \A x : Somewhere(x, b1, h, l, c) <=> Somewhere(x, b, h, l, c) \/ x = r
  BY <1>3 DEF Somewhere
<1> QED BY <1>5, <1>6 DEF b1

LEMMA DrivenOutApart ==
    ASSUME NEW b \in Buffers, NEW h, NEW l, NEW c, NEW s \in Id, b[s] # <<>>, Apart(b, h, l, c)
    PROVE  LET b1 == [b EXCEPT ![s] = Tail(b[s])]
               c1 == c \cup {Head(b[s])}
           IN  /\ b1 \in Buffers
               /\ Apart(b1, h, l, c1)
               /\ \A x : Somewhere(x, b1, h, l, c1) <=> Somewhere(x, b, h, l, c)
<1> DEFINE b1 == [b EXCEPT ![s] = Tail(b[s])]
           c1 == c \cup {Head(b[s])}
<1>0. b[s] \in Seq(Req) /\ NoTwice(b[s])
  BY DEF Buffers, Apart
<1>1. /\ Tail(b[s]) \in Seq(Req) /\ NoTwice(Tail(b[s]))
      /\ Head(b[s]) \in Range(b[s]) /\ Range(Tail(b[s])) = Range(b[s]) \ {Head(b[s])}
  BY <1>0, RangeOfRest
<1>2. b1 \in Buffers /\ \A q \in Id : b1[q] = IF q = s THEN Tail(b[s]) ELSE b[q]
  BY <1>1 DEF Buffers
<1> HIDE DEF b1
<1>3. /\ \A q \in Id : Range(b1[q]) = IF q = s THEN Range(b[s]) \ {Head(b[s])} ELSE Range(b[q])
      /\ \A q \in Id : NoTwice(b[q]) => NoTwice(b1[q])
  BY <1>1, <1>2
<1>4. Apart(b1, h, l, c1)
  <2>1. \A q \in Id : Range(b1[q]) \subseteq Range(b[q]) /\ Head(b[s]) \notin Range(b1[q])
    BY <1>1, <1>3 DEF Apart
  <2>2. \A q \in Id : Head(b[s]) \notin l[q]
    BY <1>1 DEF Apart
  <2>3. \A u \in Task : Head(b[s]) \notin h[u]
    BY <1>1 DEF Apart
  <2> DEFINE y == Head(b[s])
  <2> HIDE DEF y, c1
  <2>4. \A x : x \in c1 <=> x \in c \/ x = y
    BY DEF c1, y
  <2> QED BY <1>3, <2>1, <2>2, <2>3, <2>4 DEF Apart, y
<1>5. \A x : Somewhere(x, b1, h, l, c1) <=> Somewhere(x, b, h, l, c)
  BY <1>1, <1>3 DEF Somewhere
<1> QED BY <1>2, <1>4, <1>5 DEF b1

-----------------------------------------------------------------------------
(* How turns move                                                          *)

\* t goes on, with nothing in hand or with the turns of one more session.
Onward(t) ==
    /\ \A u \in Task \ {t} : task'[u] = task[u]
    /\ task'[t].pc = "flush" /\ task'[t].goal = "sweep" => t = Cleaner
    /\ \/ buf' = buf /\ Hand' = [Hand EXCEPT ![t] = {}]
       \/ \E s \in Id : /\ buf' = [buf EXCEPT ![s] = <<>>]
                        /\ Hand' = [Hand EXCEPT ![t] = Range(buf[s])]
                        /\ task'[t].sid = s

\* Only the cleanup loop sweeps.
OneSweeper == \A t \in Task : task[t].pc = "flush" /\ task[t].goal = "sweep" => t = Cleaner

Starting(t) ==
    /\ task[t].pc # "flush" /\ task[t].pc # "over"
    /\ Onward(t)
    /\ UNCHANGED <<ledger, cut, faults>>

Recording(t) ==
    /\ task[t].pc = "flush"
    /\ Record(task[t].sid, task[t].took)
    /\ Onward(t)
    /\ UNCHANGED cut

\* t is cancelled with turns in hand.
Dropping(t) ==
    /\ t \in Req /\ task[t].pc = "flush"
    /\ lost' = lost \cup task[t].took
    /\ Onward(t)
    /\ buf' = buf /\ Hand' = [Hand EXCEPT ![t] = {}]
    /\ UNCHANGED <<ledger, cut, faults>>

StandingStill == UNCHANGED <<buf, task, ledger, cut, faults>>

LEMMA MoveHand ==
    ASSUME Tasks, NEW t \in Task, NEW c, c.pc = "flush" /\ c.goal = "sweep" => t = Cleaner,
           task' = [task EXCEPT ![t] = c]
    PROVE  /\ Hand' = [Hand EXCEPT ![t] = IF c.pc = "flush" THEN c.took ELSE {}]
           /\ \A u \in Task \ {t} : task'[u] = task[u]
           /\ task'[t] = c
           /\ task'[t].pc = "flush" /\ task'[t].goal = "sweep" => t = Cleaner
<1>1. \A u \in Task : task'[u] = IF u = t THEN c ELSE task[u]
  BY DEF Tasks
<1> DEFINE v == IF c.pc = "flush" THEN c.took ELSE {}
           old(u) == IF task[u].pc = "flush" THEN task[u].took ELSE {}
           new(u) == IF task'[u].pc = "flush" THEN task'[u].took ELSE {}
<1>2. \A u \in Task : new(u) = IF u = t THEN v ELSE old(u)
  BY <1>1
<1>3. Hand' = [u \in Task |-> new(u)]
  BY DEF Hand
<1>4. [Hand EXCEPT ![t] = v] = [u \in Task |-> IF u = t THEN v ELSE old(u)]
  BY DEF Hand
<1> HIDE DEF v, old, new
<1>5. Hand' = [Hand EXCEPT ![t] = v]
  BY <1>2, <1>3, <1>4
<1> QED BY <1>1, <1>5 DEF v

LEMMA MoveIdle ==
    ASSUME Tasks, NEW t \in Task, NEW pc \in {"new", "turn", "over"}, NEW s,
           task' = [task EXCEPT ![t] = At(pc, s)], buf' = buf
    PROVE  Onward(t)
<1>1. At(pc, s).pc # "flush"
  BY DEF At
<1> QED BY <1>1, MoveHand DEF Onward

LEMMA MakeMoves ==
    ASSUME Tasks, NEW t \in Task, NEW m, Make(t, m), buf' = buf PROVE Onward(t)
BY MoveIdle DEF Make

LEMMA BeginFlushMoves ==
    ASSUME Tasks, NEW t \in Task, NEW m, NEW s \in Id, NEW goal \in Goals,
           goal = "sweep" => t = Cleaner, BeginFlush(t, m, s, goal)
    PROVE  Onward(t)
<1> DEFINE c == Flushing(s, Range(buf[s]), goal)
<1>1. c.pc = "flush" /\ c.took = Range(buf[s]) /\ c.goal = goal /\ c.sid = s
  BY DEF Flushing
<1>2. task' = [task EXCEPT ![t] = c] /\ buf' = [buf EXCEPT ![s] = <<>>]
  BY DEF BeginFlush
<1> HIDE DEF c
<1>3. Hand' = [Hand EXCEPT ![t] = IF c.pc = "flush" THEN c.took ELSE {}]
  BY <1>1, <1>2, MoveHand
<1>4. Hand' = [Hand EXCEPT ![t] = Range(buf[s])]
  BY <1>1, <1>3
<1>5. /\ \A u \in Task \ {t} : task'[u] = task[u]
      /\ task'[t].sid = s
      /\ task'[t].pc = "flush" /\ task'[t].goal = "sweep" => t = Cleaner
  BY <1>1, <1>2, MoveHand
<1> QED BY <1>2, <1>4, <1>5 DEF Onward

LEMMA MakeWithinMoves ==
    ASSUME Tasks, NEW t \in Task, NEW m \in Manager, MakeWithin(t, m) PROVE Onward(t)
<1>1. CASE Cardinality(m.reg) < MaxPerUser
  BY <1>1, MakeMoves DEF MakeWithin
<1>2. CASE ~ (Cardinality(m.reg) < MaxPerUser)
  <2>1. Oldest(m) \in Id
    BY <1>2, AtLimit
  <2> QED BY <1>2, <2>1, MakeMoves, BeginFlushMoves DEF MakeWithin, Goals
<1> QED BY <1>1, <1>2

LEMMA EndMoves == ASSUME Tasks, NEW t \in Task, NEW s \in Id, End(t, s) PROVE Onward(t)
BY MoveIdle, BeginFlushMoves DEF End, Goals

LEMMA SweepOnMoves ==
    ASSUME Tasks, NEW m, NEW S \in SUBSET Id, SweepOn(m, S) PROVE Onward(Cleaner)
<1>0. Cleaner \in Task
  BY DEF Task
<1>1. CASE task' = [task EXCEPT ![Cleaner] = At("new", None)] /\ UNCHANGED <<buf, stray>>
  BY <1>0, <1>1, MoveIdle
<1>2. CASE \E k \in S : BeginFlush(Cleaner, Released(m, {s \in S \cap m.reg : s < k}), k, "sweep")
  <2>1. PICK k \in S : BeginFlush(Cleaner, Released(m, {s \in S \cap m.reg : s < k}), k, "sweep")
    BY <1>2
  <2> QED BY <1>0, <2>1, BeginFlushMoves DEF Goals
<1> QED BY <1>1, <1>2 DEF SweepOn

\* However it goes on afterwards, a flush that ends hands over what it took.
LEMMA FinalizeMoves ==
    ASSUME IInv, OneSweeper, NEW t \in Task, Finalize(t) PROVE Recording(t)
<1> DEFINE s == task[t].sid
           m == Released(mgr, {s})
<1>0. Sound(mgr, stray) /\ Tasks /\ todo \in SUBSET Id
  BY DEF IInv, Rest
<1>1. task[t].pc = "flush" /\ Record(s, task[t].took) /\ UNCHANGED cut
  BY DEF Finalize
<1>2. m \in Manager
  BY <1>0, ReleasedSound DEF Sound
<1>3. Onward(t)
  <2>1. CASE task' = [task EXCEPT ![t] = At("over", None)] /\ UNCHANGED <<buf, todo, stray>>
    BY <1>0, <2>1, MoveIdle
  <2>2. CASE Make(t, m) /\ UNCHANGED <<buf, todo>>
    BY <1>0, <2>2, MakeMoves
  <2>3. CASE MakeWithin(t, m)
    BY <1>0, <1>2, <2>3, MakeWithinMoves
  <2>4. CASE task[t].goal = "sweep" /\ SweepOn(m, todo)
    <3>1. t = Cleaner
      BY <1>1, <2>4 DEF OneSweeper
    <3>2. Onward(Cleaner)
      BY <1>0, <2>4, SweepOnMoves
    <3> QED BY <3>1, <3>2
  <2> QED BY <2>1, <2>2, <2>3, <2>4 DEF Finalize
<1> QED BY <1>1, <1>3 DEF Recording

LEMMA RequestMoves ==
    ASSUME IInv, NEW r \in Req
    PROVE  /\ \A s \in Id : Resume(r, s) \/ Renew(r, s) => Starting(r)
           /\ Open(r) \/ GiveUp(r) \/ EndTest(r) => Starting(r)
<1>0. r \in Task /\ Tasks /\ Sound(mgr, stray) /\ mgr \in Manager
  BY DEF IInv, Sound, Task
<1>1. ASSUME NEW s \in Id, Resume(r, s) PROVE Starting(r)
  BY <1>0, <1>1, MoveIdle DEF Resume, Starting
<1>2. ASSUME NEW s \in Id, Renew(r, s) PROVE Starting(r)
  <2>1. Released(mgr, {s}) \in Manager
    BY <1>0, ReleasedSound DEF Sound
  <2>2. Onward(r)
    BY <1>0, <1>2, <2>1, BeginFlushMoves, MakeWithinMoves DEF Renew, Goals
  <2> QED BY <1>2, <2>2 DEF Renew, Starting
<1>3. ASSUME Open(r) PROVE Starting(r)
  BY <1>0, <1>3, MakeWithinMoves DEF Open, Starting
<1>4. ASSUME GiveUp(r) PROVE Starting(r)
  BY <1>0, <1>4, MoveIdle DEF GiveUp, Starting
<1>5. ASSUME EndTest(r) PROVE Starting(r)
  <2>1. task[r].pc = "turn" /\ task[r].sid \in Id
    BY <1>0, <1>5 DEF EndTest, Tasks, TaskState
  <2>2. Onward(r)
    BY <1>0, <1>5, <2>1, EndMoves DEF EndTest
  <2> QED BY <1>5, <2>1, <2>2 DEF EndTest, Starting
<1> QED BY <1>1, <1>2, <1>3, <1>4, <1>5

LEMMA DisconnectMoves == ASSUME IInv, NEW r \in Req, Disconnect(r) PROVE Dropping(r)
<1>1. r \in Task /\ Tasks /\ At("over", None).pc # "flush"
  BY DEF IInv, Task, At
<1>2. task' = [task EXCEPT ![r] = At("over", None)] /\ buf' = buf
  BY DEF Disconnect
<1>3. Onward(r)
  BY <1>1, <1>2, MoveIdle
<1>4. Hand' = [Hand EXCEPT ![r] = {}]
  BY <1>1, <1>2, MoveHand
<1> QED BY <1>2, <1>3, <1>4 DEF Disconnect, Dropping

LEMMA OtherMoves ==
    ASSUME IInv
    PROVE  /\ \A d \in Closer, s \in Id : Close(d, s) => Starting(d)
           /\ Sweep => Starting(Cleaner)
           /\ \A s \in Id : Expire(s) \/ HoldFast(s) => StandingStill
<1>0. Tasks /\ Closer \subseteq Task
  BY DEF IInv, Task
<1>1. ASSUME NEW d \in Closer, NEW s \in Id, Close(d, s) PROVE Starting(d)
  BY <1>0, <1>1, EndMoves DEF Close, Starting
<1>2. ASSUME Sweep PROVE Starting(Cleaner)
  <2>1. mgr.reg \cap stale \in SUBSET Id
    BY DEF IInv, Rest
  <2> QED BY <1>0, <1>2, <2>1, SweepOnMoves DEF Sweep, Starting
<1>3. ASSUME NEW s \in Id, Expire(s) \/ HoldFast(s) PROVE StandingStill
  BY <1>3 DEF Expire, HoldFast, StandingStill
<1> QED BY <1>1, <1>2, <1>3

\* What a step does to the turns: nothing, a task takes some, a task records
\* what it took or is cancelled with it, a request adds its own, or the process
\* stops.
LEMMA KindsOfSteps ==
    ASSUME IInv, OneSweeper, [Next]_vars
    PROVE  \/ \E t \in Task : Starting(t) \/ Recording(t) \/ Dropping(t)
           \/ \E r \in Req : Answer(r)
           \/ Restart
           \/ StandingStill
<1>0. Req \subseteq Task /\ Closer \subseteq Task /\ Cleaner \in Task
  BY DEF Task
<1>1. ASSUME NEW r \in Req, NEW s \in Id, Resume(r, s) \/ Renew(r, s) PROVE Starting(r)
  BY <1>1, RequestMoves
<1>2. ASSUME NEW r \in Req, Open(r) \/ GiveUp(r) \/ EndTest(r) PROVE Starting(r)
  BY <1>2, RequestMoves
<1>3. ASSUME NEW t \in Task, Finalize(t) PROVE Recording(t)
  BY <1>3, FinalizeMoves
<1>4. UNCHANGED vars => StandingStill
  BY DEF vars, StandingStill
<1>5. ASSUME NEW r \in Req, Disconnect(r) PROVE Dropping(r)
  BY <1>5, DisconnectMoves
<1> QED BY <1>0, <1>1, <1>2, <1>3, <1>4, <1>5, OtherMoves DEF Next

-----------------------------------------------------------------------------
(* No turn is recorded twice, and none gets lost on its way                *)

TurnInv == IInv /\ OneSweeper /\ TurnsApart

\* Hands are what the types say.
LEMMA TurnTypes ==
    ASSUME IInv
    PROVE  /\ buf \in Buffers /\ Hand \in Hands /\ ledger \in Rows
           /\ \A t \in Task : Hand[t] = IF task[t].pc = "flush" THEN task[t].took ELSE {}
<1>1. \A t \in Task : task[t].took \in SUBSET Req
  BY DEF IInv, Tasks, TaskState
<1> QED BY <1>1 DEF IInv, Bufs, Rest, Buffers, Hand, Hands, Rows

\* A task goes on with empty hands.
LEMMA OnwardApart ==
    ASSUME NEW t \in Task, Onward(t), buf \in Buffers,
           NEW h \in Hands, NEW l \in Rows, h[t] = {}, Apart(buf, h, l, cut),
           \A v : [Hand EXCEPT ![t] = v] = [h EXCEPT ![t] = v]
    PROVE  /\ Apart(buf', Hand', l, cut)
           /\ \A r : Somewhere(r, buf', Hand', l, cut) <=> Somewhere(r, buf, h, l, cut)
<1>1. CASE buf' = buf /\ Hand' = [Hand EXCEPT ![t] = {}]
  <2>1. Hand' = h
    BY <1>1 DEF Hands
  <2> QED BY <1>1, <2>1
<1>2. CASE \E s \in Id : buf' = [buf EXCEPT ![s] = <<>>] /\ Hand' = [Hand EXCEPT ![t] = Range(buf[s])]
  <2>1. PICK s \in Id : buf' = [buf EXCEPT ![s] = <<>>] /\ Hand' = [Hand EXCEPT ![t] = Range(buf[s])]
    BY <1>2
  <2>2. Hand' = [h EXCEPT ![t] = Range(buf[s])]
    BY <2>1
  <2> DEFINE b1 == [buf EXCEPT ![s] = <<>>]
             h1 == [h EXCEPT ![t] = Range(buf[s])]
  <2>3. /\ Apart(b1, h1, l, cut)
        /\ \A r : Somewhere(r, b1, h1, l, cut) <=> Somewhere(r, buf, h, l, cut)
    BY TakenApart
  <2> HIDE DEF b1, h1
  <2>4. buf' = b1 /\ Hand' = h1
    BY <2>1, <2>2 DEF b1, h1
  <2> QED BY <2>3, <2>4
<1> QED BY <1>1, <1>2 DEF Onward

LEMMA StartingApart == ASSUME TurnInv, NEW t \in Task, Starting(t) PROVE TurnsApart'
<1>1. /\ buf \in Buffers /\ Hand \in Hands /\ ledger \in Rows /\ Hand[t] = {}
      /\ Apart(buf, Hand, ledger, cut)
  BY TurnTypes DEF TurnInv, TurnsApart, Starting
<1>2. Onward(t) /\ ledger' = ledger /\ cut' = cut /\ task[t].pc # "over"
  BY DEF Starting
<1>3. /\ Apart(buf', Hand', ledger, cut)
      /\ \A r : Somewhere(r, buf', Hand', ledger, cut) <=> Somewhere(r, buf, Hand, ledger, cut)
  BY <1>1, <1>2, OnwardApart
<1>4. \A r \in Req : task[r].pc = "over" => task'[r].pc = "over"
  BY <1>2 DEF Onward, Task
<1> QED BY <1>2, <1>3, <1>4 DEF TurnInv, TurnsApart

LEMMA RecordingApart == ASSUME TurnInv, NEW t \in Task, Recording(t) PROVE TurnsApart'
<1> DEFINE h == [Hand EXCEPT ![t] = {}]
           s == task[t].sid
<1>1. /\ buf \in Buffers /\ Hand \in Hands /\ ledger \in Rows
      /\ Apart(buf, Hand, ledger, cut)
  BY TurnTypes DEF TurnInv, TurnsApart
<1>2. Onward(t) /\ cut' = cut /\ task[t].pc = "flush" /\ Hand[t] = task[t].took
  BY TurnTypes DEF Recording, TurnInv
<1>3. s \in Id
  BY <1>2 DEF TurnInv, IInv, Tasks, TaskState
<1>4. h \in Hands /\ h[t] = {} /\ \A v : [Hand EXCEPT ![t] = v] = [h EXCEPT ![t] = v]
  BY <1>1 DEF Hands
<1>5. /\ Apart(buf, h, ledger', cut) /\ ledger' \in Rows
      /\ \A r : Somewhere(r, buf, h, ledger', cut) => Somewhere(r, buf, Hand, ledger, cut)
  <2>1. CASE ledger' = [ledger EXCEPT ![s] = Hand[t]]
    <3>1. Hand[t] \in SUBSET Req
      BY <1>1 DEF Hands
    <3>2. ledger' \in Rows
      BY <1>1, <2>1, <3>1 DEF Rows
    <3> QED BY <1>1, <1>3, <2>1, <3>2, RecordedApart
  <2>2. CASE ledger' = ledger
    BY <1>1, <2>2, DroppedApart
  <2> QED BY <1>2, <2>1, <2>2 DEF Recording, Record
<1> HIDE DEF h
<1>6. /\ Apart(buf', Hand', ledger', cut)
      /\ \A r : Somewhere(r, buf', Hand', ledger', cut) <=> Somewhere(r, buf, h, ledger', cut)
  BY <1>1, <1>2, <1>4, <1>5, OnwardApart
<1>7. \A r \in Req : task[r].pc = "over" => task'[r].pc = "over"
  BY <1>2 DEF Onward, Task
<1>8. \A r \in Req : Somewhere(r, buf', Hand', ledger', cut') => task'[r].pc = "over"
  BY <1>2, <1>5, <1>6, <1>7 DEF TurnInv, TurnsApart
<1> QED BY <1>2, <1>6, <1>8 DEF TurnsApart

LEMMA DroppingApart == ASSUME TurnInv, NEW t \in Task, Dropping(t) PROVE TurnsApart'
<1>1. /\ Hand \in Hands /\ Apart(buf, Hand, ledger, cut)
      /\ \A r \in Req : Somewhere(r, buf, Hand, ledger, cut) => task[r].pc = "over"
  BY TurnTypes DEF TurnInv, TurnsApart
<1>2. buf' = buf /\ Hand' = [Hand EXCEPT ![t] = {}] /\ ledger' = ledger /\ cut' = cut
  BY DEF Dropping
<1>3. /\ Apart(buf', Hand', ledger', cut')
      /\ \A r : Somewhere(r, buf', Hand', ledger', cut') => Somewhere(r, buf, Hand, ledger, cut)
  BY <1>1, <1>2, DroppedApart
<1>4. \A r \in Req : task[r].pc = "over" => task'[r].pc = "over"
  BY DEF Dropping, Onward, Task
<1> QED BY <1>1, <1>3, <1>4 DEF TurnsApart

\* The turn of a request that answers is nowhere yet.
LEMMA AnswerPlaces ==
    ASSUME TurnInv, NEW r \in Req, Answer(r)
    PROVE  /\ Apart(buf', Hand, ledger, cut')
           /\ \A x : Somewhere(x, buf', Hand, ledger, cut')
                       <=> Somewhere(x, buf, Hand, ledger, cut) \/ x = r
<1> DEFINE s == task[r].sid
<1>1. /\ buf \in Buffers /\ Hand \in Hands /\ ledger \in Rows
      /\ Apart(buf, Hand, ledger, cut)
  BY TurnTypes DEF TurnInv, TurnsApart
<1>2. r \in Task /\ task[r].pc = "turn"
  BY DEF Task, Answer
<1>3. s \in Id
  BY <1>2 DEF TurnInv, IInv, Tasks, TaskState
<1>4. ~ Somewhere(r, buf, Hand, ledger, cut)
  BY <1>2 DEF TurnInv, TurnsApart
<1>5. buf[s] \in Seq(Req) /\ MaxTurns \in Nat \ {0}
  BY <1>1, <1>3, SessionAssumption DEF Buffers, SessionAssumption
<1>6. AppendTurn(s, r)
  BY DEF Answer
<1> HIDE DEF s
<1>7. CASE Len(buf[s]) < MaxTurns
  <2>1. buf' = [buf EXCEPT ![s] = Append(buf[s], r)] /\ cut' = cut
    BY <1>6, <1>7 DEF AppendTurn
  <2> QED BY <1>1, <1>3, <1>4, <2>1, AddedApart
<1>8. CASE ~ (Len(buf[s]) < MaxTurns)
  <2> DEFINE b == [buf EXCEPT ![s] = Tail(buf[s])]
             c == cut \cup {Head(buf[s])}
  <2>1. buf[s] # <<>>
    BY <1>5, <1>8
  <2>2. /\ b \in Buffers /\ Apart(b, Hand, ledger, c)
        /\ \A x : Somewhere(x, b, Hand, ledger, c) <=> Somewhere(x, buf, Hand, ledger, cut)
    BY <1>1, <1>3, <2>1, DrivenOutApart
  <2>3. cut' = c /\ buf' = [buf EXCEPT ![s] = Append(Tail(buf[s]), r)]
    BY <1>6, <1>8 DEF AppendTurn
  <2>4. buf' = [b EXCEPT ![s] = Append(b[s], r)]
    BY <1>1, <1>3, <2>3 DEF Buffers
  <2> HIDE DEF b, c
  <2>5. ~ Somewhere(r, b, Hand, ledger, c)
    BY <1>4, <2>2
  <2> DEFINE b1 == [b EXCEPT ![s] = Append(b[s], r)]
  <2>6. /\ Apart(b1, Hand, ledger, c)
        /\ \A x : Somewhere(x, b1, Hand, ledger, c) <=> Somewhere(x, b, Hand, ledger, c) \/ x = r
    <3>1. b \in Buffers /\ Apart(b, Hand, ledger, c) /\ s \in Id
      BY <1>3, <2>2
    <3> QED BY <2>5, <3>1, AddedApart
  <2> HIDE DEF b1
  <2>7. buf' = b1 /\ cut' = c
    BY <2>3, <2>4 DEF b1
  <2> QED BY <2>2, <2>6, <2>7
<1> QED BY <1>7, <1>8

LEMMA AnswerHands ==
    ASSUME TurnInv, NEW r \in Req, Answer(r)
    PROVE  /\ Hand' = Hand /\ task'[r].pc = "over"
           /\ \A u \in Task \ {r} : task'[u] = task[u]
           /\ OneSweeper'
<1>1. r \in Task /\ task[r].pc = "turn" /\ Tasks /\ Hand \in Hands /\ Hand[r] = {}
  BY TurnTypes DEF Task, Answer, TurnInv, IInv
<1>2. task' = [task EXCEPT ![r] = At("over", None)] /\ At("over", None).pc = "over"
  BY DEF Answer, At
<1>3. Hand' = [Hand EXCEPT ![r] = {}] /\ \A u \in Task \ {r} : task'[u] = task[u]
  BY <1>1, <1>2, MoveHand
<1>4. Hand' = Hand
  BY <1>1, <1>3 DEF Hands
<1>5. task'[r].pc = "over"
  BY <1>1, <1>2 DEF Tasks
<1> QED BY <1>3, <1>4, <1>5 DEF OneSweeper, TurnInv

LEMMA AnswerApart == ASSUME TurnInv, NEW r \in Req, Answer(r) PROVE TurnsApart'
<1>1. ledger' = ledger
  BY DEF Answer
<1>2. \A x \in Req : task[x].pc = "over" => task'[x].pc = "over"
  BY AnswerHands DEF Task
<1> QED BY <1>1, <1>2, AnswerHands, AnswerPlaces DEF TurnInv, TurnsApart

\* What was not recorded is gone; the ledger is what it was.
LEMMA RestartApart == ASSUME TurnInv, Restart PROVE TurnsApart' /\ OneSweeper'
<1>1. \A t \in Task : task'[t] = At("new", None) \/ task'[t] = At("over", None)
  BY DEF Restart
<1>2. \A t \in Task : task'[t].pc # "flush"
  BY <1>1 DEF At
<1>3. Hand' = [t \in Task |-> {}]
  BY <1>2 DEF Hand
<1>4. \A s \in Id : buf'[s] = <<>>
  BY DEF Restart
<1>5. /\ \A s \in Id : Range(buf'[s]) = {} /\ NoTwice(buf'[s])
      /\ \A t \in Task : Hand'[t] = {}
      /\ ledger' = ledger /\ cut' = cut
  BY <1>3, <1>4, RangeOfNone DEF Restart
<1>6. Apart(buf', Hand', ledger', cut')
  BY <1>5 DEF TurnInv, TurnsApart, Apart
<1>7. \A r : Somewhere(r, buf', Hand', ledger', cut') => Somewhere(r, buf, Hand, ledger, cut)
  BY <1>5 DEF Somewhere
<1>8. \A r \in Req : task[r].pc = "over" /\ r # Cleaner => task'[r].pc = "over"
  BY DEF Restart, At, Task
<1>9. Cleaner \notin Req
  BY SessionAssumption DEF SessionAssumption
<1> QED BY <1>2, <1>6, <1>7, <1>8, <1>9 DEF TurnInv, TurnsApart, OneSweeper

LEMMA StillApart == ASSUME TurnInv, StandingStill PROVE TurnsApart' /\ OneSweeper'
BY DEF TurnInv, StandingStill, TurnsApart, OneSweeper, Hand, Apart, Somewhere

LEMMA OnwardSweeper == ASSUME OneSweeper, NEW t \in Task, Onward(t) PROVE OneSweeper'
BY DEF OneSweeper, Onward

LEMMA TurnsInductive == TurnInv /\ [Next]_vars => TurnInv'
<1> SUFFICES ASSUME TurnInv, [Next]_vars PROVE TurnInv'
  OBVIOUS
<1>1. IInv'
  BY Inductive DEF TurnInv
<1>2. ASSUME NEW t \in Task, Starting(t) \/ Recording(t) \/ Dropping(t) PROVE TurnsApart' /\ OneSweeper'
  <2>1. Onward(t)
    BY <1>2 DEF Starting, Recording, Dropping
  <2> QED BY <1>2, <2>1, StartingApart, RecordingApart, DroppingApart, OnwardSweeper DEF TurnInv
<1>3. ASSUME NEW r \in Req, Answer(r) PROVE TurnsApart' /\ OneSweeper'
  BY <1>3, AnswerApart, AnswerHands
<1>4. TurnsApart' /\ OneSweeper'
  BY <1>2, <1>3, RestartApart, StillApart, KindsOfSteps DEF TurnInv
<1> QED BY <1>1, <1>4 DEF TurnInv

LEMMA NoTurnsYet == Init => TurnInv
<1> SUFFICES ASSUME Init PROVE TurnInv
  OBVIOUS
<1>1. \A t \in Task : task[t] = At("new", None) /\ task[t].pc = "new"
  BY DEF Init, At
<1>2. /\ \A s \in Id : buf[s] = <<>> /\ ledger[s] = {}
      /\ \A t \in Task : Hand[t] = {}
      /\ cut = {}
  BY <1>1 DEF Init, Hand
<1>3. \A s \in Id : Range(buf[s]) = {} /\ NoTwice(buf[s])
  BY <1>2, RangeOfNone
<1> QED BY <1>1, <1>2, <1>3, Initially DEF TurnInv, OneSweeper, TurnsApart, Apart, Somewhere

\* However many tasks end sessions at once, each turn is in one place: in one
\* buffer and once, or taken by one task, or in one row of the ledger, or among
\* those driven out; so no two flushes record it.
THEOREM NoTurnTwice == Spec => []TurnsApart
<1>1. TurnInv => TurnsApart
  BY DEF TurnInv
<1> QED BY <1>1, NoTurnsYet, TurnsInductive, PTL DEF Spec

\* The way of a turn: from the buffer of a session into the hands of whoever ends
\* that session, or out before newer ones; from the hands into the row of that
\* session, or nowhere when the record or the process fails or the request whose
\* hands they are is cancelled; and in the row it stays, unless somebody ends the
\* same session once more.
Onto ==
    \A r \in Req :
        /\ \A s \in Id :
              /\ r \in Range(buf[s]) =>
                    \/ r \in Range(buf'[s]) \cup cut'
                    \/ \E t \in Task : r \in Hand'[t] /\ task'[t].sid = s
                    \/ faults' > faults
              /\ r \in ledger[s] =>
                    \/ r \in ledger'[s]
                    \/ \E t \in Task : task[t].pc = "flush" /\ task[t].sid = s
        /\ \A t \in Task : r \in Hand[t] =>
              \/ r \in Hand'[t] /\ task'[t].sid = task[t].sid
              \/ r \in ledger'[task[t].sid]
              \/ t \in Req /\ r \in lost'
              \/ faults' > faults
        /\ r \in cut => r \in cut'

TurnsMoveOn == [][Onto]_vars

\* Going on takes the turns of one session at most, and all of them.
LEMMA OnwardOnto ==
    ASSUME buf \in Buffers, Hand \in Hands, NEW t \in Task, Onward(t)
    PROVE  /\ \A s \in Id : \/ buf'[s] = buf[s]
                            \/ Hand'[t] = Range(buf[s]) /\ task'[t].sid = s
           /\ \A u \in Task \ {t} : Hand'[u] = Hand[u] /\ task'[u] = task[u]
<1>1. CASE buf' = buf /\ Hand' = [Hand EXCEPT ![t] = {}]
  BY <1>1 DEF Onward, Hands
<1>2. CASE \E s \in Id : /\ buf' = [buf EXCEPT ![s] = <<>>]
                         /\ Hand' = [Hand EXCEPT ![t] = Range(buf[s])]
                         /\ task'[t].sid = s
  <2>1. PICK s \in Id : /\ buf' = [buf EXCEPT ![s] = <<>>]
                        /\ Hand' = [Hand EXCEPT ![t] = Range(buf[s])]
                        /\ task'[t].sid = s
    BY <1>2
  <2>2. \A q \in Id : q # s => buf'[q] = buf[q]
    BY <2>1 DEF Buffers
  <2>3. Hand'[t] = Range(buf[s]) /\ \A u \in Task \ {t} : Hand'[u] = Hand[u]
    BY <2>1 DEF Hands
  <2> QED BY <2>1, <2>2, <2>3 DEF Onward
<1> QED BY <1>1, <1>2 DEF Onward

LEMMA StartingOnto == ASSUME IInv, NEW t \in Task, Starting(t) PROVE Onto
<1>1. buf \in Buffers /\ Hand \in Hands /\ Hand[t] = {} /\ Onward(t)
  BY TurnTypes DEF Starting
<1>2. ledger' = ledger /\ cut' = cut
  BY DEF Starting
<1> QED BY <1>1, <1>2, OnwardOnto DEF Onto

LEMMA RecordingOnto == ASSUME IInv, NEW t \in Task, Recording(t) PROVE Onto
<1> DEFINE s == task[t].sid
<1>1. buf \in Buffers /\ Hand \in Hands /\ ledger \in Rows /\ Onward(t) /\ cut' = cut
  BY TurnTypes DEF Recording
<1>2. task[t].pc = "flush" /\ Hand[t] = task[t].took /\ s \in Id
  BY TurnTypes DEF Recording, IInv, Tasks, TaskState
<1>3. \/ ledger' = [ledger EXCEPT ![s] = Hand[t]]
      \/ ledger' = ledger /\ faults' > faults
  <2>1. faults + 1 > faults
    BY SessionAssumption DEF IInv, Rest, SessionAssumption
  <2> QED BY <1>2, <2>1 DEF Recording, Record
<1>4. /\ \A q \in Id : q = s \/ ledger'[q] = ledger[q]
      /\ ledger'[s] = Hand[t] \/ faults' > faults
  BY <1>1, <1>2, <1>3 DEF Rows
<1> HIDE DEF s
<1>5. \A u \in Task \ {t} : Hand'[u] = Hand[u] /\ task'[u] = task[u]
  BY <1>1, OnwardOnto
<1>6. \A q \in Id : buf'[q] = buf[q] \/ (Hand'[t] = Range(buf[q]) /\ task'[t].sid = q)
  BY <1>1, OnwardOnto
<1>7. \A q \in Id : q # s => ledger'[q] = ledger[q]
  BY <1>4
<1>8. s = task[t].sid
  BY DEF s
<1> QED BY <1>1, <1>2, <1>4, <1>5, <1>6, <1>7, <1>8 DEF Onto

LEMMA DroppingOnto == ASSUME IInv, NEW t \in Task, Dropping(t) PROVE Onto
<1>1. buf \in Buffers /\ Hand \in Hands /\ Onward(t) /\ Hand[t] = task[t].took
  BY TurnTypes DEF Dropping
<1>2. buf' = buf /\ ledger' = ledger /\ cut' = cut /\ t \in Req /\ lost' = lost \cup Hand[t]
  BY <1>1 DEF Dropping
<1>3. \A u \in Task \ {t} : Hand'[u] = Hand[u] /\ task'[u] = task[u]
  BY <1>1, OnwardOnto
<1> QED BY <1>2, <1>3 DEF Onto

LEMMA AnswerOnto == ASSUME TurnInv, NEW r \in Req, Answer(r) PROVE Onto
<1> DEFINE s == task[r].sid
<1>1. buf \in Buffers /\ r \in Task /\ task[r].pc = "turn" /\ Hand' = Hand
  BY TurnTypes, AnswerHands DEF TurnInv, Task, Answer
<1>2. s \in Id
  BY <1>1 DEF TurnInv, IInv, Tasks, TaskState
<1>3. buf[s] \in Seq(Req) /\ NoTwice(buf[s]) /\ MaxTurns \in Nat \ {0} /\ r \notin Range(buf[s])
  BY <1>1, <1>2, SessionAssumption
     DEF TurnInv, TurnsApart, Apart, Somewhere, Buffers, SessionAssumption
<1>4. AppendTurn(s, r) /\ ledger' = ledger
  BY DEF Answer
<1>5. \A t \in Task : Hand[t] # {} => task'[t] = task[t]
  <2>1. Hand[r] = {}
    BY <1>1, TurnTypes DEF TurnInv
  <2> QED BY <2>1, AnswerHands
<1> HIDE DEF s
<1>6. (\A q \in Id : Range(buf[q]) \subseteq Range(buf'[q]) \cup cut') /\ cut \subseteq cut'
  <2>1. CASE Len(buf[s]) < MaxTurns
    <3>1. buf' = [buf EXCEPT ![s] = Append(buf[s], r)] /\ cut' = cut
      BY <1>4, <2>1 DEF AppendTurn
    <3>2. Range(Append(buf[s], r)) = Range(buf[s]) \cup {r}
      BY <1>3, RangeOfLonger
    <3>3. \A q \in Id : buf'[q] = IF q = s THEN Append(buf[s], r) ELSE buf[q]
      BY <1>1, <3>1 DEF Buffers
    <3> QED BY <3>1, <3>2, <3>3
  <2>2. CASE ~ (Len(buf[s]) < MaxTurns)
    <3>1. /\ buf' = [buf EXCEPT ![s] = Append(Tail(buf[s]), r)]
          /\ cut' = cut \cup {Head(buf[s])}
      BY <1>4, <2>2 DEF AppendTurn
    <3>2. buf[s] # <<>>
      BY <1>3, <2>2
    <3>3. /\ Tail(buf[s]) \in Seq(Req) /\ NoTwice(Tail(buf[s]))
          /\ Range(Tail(buf[s])) = Range(buf[s]) \ {Head(buf[s])}
      BY <1>3, <3>2, RangeOfRest
    <3>4. Range(Append(Tail(buf[s]), r)) = Range(Tail(buf[s])) \cup {r}
      BY <1>3, <3>3, RangeOfLonger
    <3>5. \A q \in Id : buf'[q] = IF q = s THEN Append(Tail(buf[s]), r) ELSE buf[q]
      BY <1>1, <3>1 DEF Buffers
    <3> QED BY <3>1, <3>3, <3>4, <3>5
  <2> QED BY <2>1, <2>2
<1> QED BY <1>1, <1>4, <1>5, <1>6 DEF Onto

LEMMA RestartOnto == ASSUME IInv, Restart PROVE Onto
<1>1. faults' > faults
  BY SessionAssumption DEF Restart, IInv, Rest, SessionAssumption
<1> QED BY <1>1 DEF Restart, Onto

\* However a session is ended, and by however many: no turn gets lost between
\* the buffer and the ledger, but for a record or a process that fails and for a
\* request that is cancelled while it ends a session.
THEOREM TurnsKeepMoving == Spec => TurnsMoveOn
<1>1. TurnInv /\ [Next]_vars => [Onto]_vars
  <2> SUFFICES ASSUME TurnInv, [Next]_vars PROVE [Onto]_vars
    OBVIOUS
  <2>1. CASE UNCHANGED vars
    BY <2>1
  <2>2. ASSUME NEW t \in Task, Starting(t) \/ Recording(t) \/ Dropping(t) PROVE Onto
    BY <2>2, StartingOnto, RecordingOnto, DroppingOnto DEF TurnInv
  <2>3. CASE StandingStill
    BY <2>3 DEF StandingStill, Onto, Hand
  <2>4. \/ \E t \in Task : Starting(t) \/ Recording(t) \/ Dropping(t)
        \/ \E r \in Req : Answer(r)
        \/ Restart
        \/ StandingStill
    BY KindsOfSteps DEF TurnInv
  <2>5. (\E r \in Req : Answer(r)) => Onto
    BY AnswerOnto
  <2>6. Restart => Onto
    BY RestartOnto DEF TurnInv
  <2> QED BY <2>2, <2>3, <2>4, <2>5, <2>6
<1> QED BY <1>1, NoTurnsYet, TurnsInductive, PTL DEF Spec, TurnsMoveOn
=============================================================================
