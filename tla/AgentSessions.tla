--------------------------- MODULE AgentSessions ---------------------------
(***************************************************************************)
(* The sessions of one user in which agents are tried out: a registered    *)
(* session owns a work directory, a container and a buffer of turns.  It   *)
(* is ended by its user, by a new session at the limit, by a request that  *)
(* finds it expired, by the skill test that made it, or by the cleanup     *)
(* loop.  Whoever ends it takes the turns out of the buffer, awaits the    *)
(* language model, records them in the ledger and only then releases the   *)
(* session; with an empty buffer nothing is awaited.  A streamed request   *)
(* whose client leaves is cancelled at that await.                         *)
(*                                                                         *)
(* All of this runs in one event loop, so a step lasts from one await that *)
(* suspends to the next.  Sessions are numbered in the order in which they *)
(* are registered, which is the order of _user_sessions.                   *)
(***************************************************************************)
EXTENDS Naturals, Sequences, FiniteSets, Functions

CONSTANTS
    Req,          \* requests to test an agent, each with one turn
    Tester,       \* those that test a skill, in a session of their own
    Closer,       \* DELETE calls
    Cleaner,      \* the cleanup loop
    MaxPerUser,   \* max_sessions_per_user
    MaxTurns,     \* max_turns of the buffer
    MaxSessions,  \* bound: sessions made
    MaxFaults     \* bound: failing records and restarts

Task == Req \cup Closer \cup {Cleaner}
Id   == 1..MaxSessions
None == 0

ASSUME SessionAssumption ==
    /\ MaxSessions \in Nat /\ MaxFaults \in Nat
    /\ MaxPerUser \in Nat \ {0}
    /\ MaxTurns \in Nat \ {0}
    /\ Tester \subseteq Req
    /\ Req \cap Closer = {}
    /\ Cleaner \notin Req \cup Closer

VARIABLES
    mgr,     \* the manager: see Manager below
    stale,   \* the sessions without activity for ttl_minutes
    buf,     \* buf[s]: memory_turns of s, by request
    task,    \* task[t]: what t is at
    todo,    \* sessions that the cleanup loop has yet to end
    ledger,  \* ledger[s]: the turns in the ledger row of s
    cut,     \* history: turns that newer ones drove out of a buffer
    lost,    \* history: turns in the hands of requests that were cancelled
    stray,   \* history: directories left by failed creations and restarts
    faults   \* failing records and restarts so far

vars == <<mgr, stale, buf, task, todo, ledger, cut, lost, stray, faults>>

\* reg: the sessions in _sessions and _user_sessions; dirs, boxes: the work
\* directories and containers there are; fastDirs, fastBoxes: the sessions whose
\* directory, or container, will not be removed when it comes to that; made:
\* how many sessions were begun.
Manager == [reg: SUBSET Id, dirs: SUBSET Id, boxes: SUBSET Id,
            fastDirs: SUBSET Id, fastBoxes: SUBSET Id, made: 0..MaxSessions]

\* A task that ends session sid awaits the model about the turns it took, and
\* then goes on to "make" a session, to "limit" (make one within the limit), to
\* "sweep" on, or is "over".  A turn runs in session sid.
TaskState == [pc: {"new", "flush", "turn", "over"}, sid: Id \cup {None}, took: SUBSET Req,
              goal: {"limit", "make", "sweep", "over"}]

At(pc, s)            == [pc |-> pc, sid |-> s, took |-> {}, goal |-> "over"]
Flushing(s, S, goal) == [pc |-> "flush", sid |-> s, took |-> S, goal |-> goal]

Init ==
    /\ mgr = [reg |-> {}, dirs |-> {}, boxes |-> {}, fastDirs |-> {}, fastBoxes |-> {}, made |-> 0]
    /\ stale = {}
    /\ buf = [s \in Id |-> <<>>]
    /\ task = [t \in Task |-> At("new", None)]
    /\ todo = {}
    /\ ledger = [s \in Id |-> {}]
    /\ cut = {} /\ lost = {} /\ stray = {}
    /\ faults = 0

-----------------------------------------------------------------------------
(* Making and releasing sessions                                           *)

\* Mutant: the session stays registered without its resources.
ReleasedRegistered(m, S) == [m EXCEPT !.dirs = @ \ S, !.boxes = @ \ S]

\* _cleanup_session_resources and _remove_session: the sessions go even if a
\* directory or a container cannot be removed.
Released(m, S) ==
    [m EXCEPT !.reg = @ \ S, !.dirs = @ \ (S \ m.fastDirs), !.boxes = @ \ (S \ m.fastBoxes)]

\* Mutant: sessions are not told apart.
RegisteredAgain(m, boxed) ==
    LET s == m.made + 1
    IN  [m EXCEPT !.reg = @ \cup {s}, !.dirs = @ \cup {s},
                  !.boxes = IF boxed THEN @ \cup {s} ELSE @]

\* A work directory and a container, or the host; the session is registered.
Registered(m, boxed) ==
    LET s == m.made + 1
    IN  [m EXCEPT !.reg = @ \cup {s}, !.dirs = @ \cup {s}, !.made = s,
                  !.boxes = IF boxed THEN @ \cup {s} ELSE @]

\* No container to be had and no fallback: the directory stays.
Abandoned(m) == [m EXCEPT !.dirs = @ \cup {m.made + 1}, !.made = @ + 1]

\* _create_session after the limit, of manager m; the request is answered
\* with an error, or begins its turn.
Make(t, m) ==
    /\ m.made < MaxSessions
    /\ \/ \E boxed \in BOOLEAN :
            /\ mgr' = Registered(m, boxed)
            /\ task' = [task EXCEPT ![t] = At("turn", m.made + 1)]
            /\ UNCHANGED stray
       \/ /\ mgr' = Abandoned(m)
          /\ task' = [task EXCEPT ![t] = At("over", None)]
          /\ stray' = stray \cup {m.made + 1}

Oldest(m) == CHOOSE s \in m.reg : \A q \in m.reg : s <= q

\* The session-end callbacks: the buffer is taken, and the model awaited.
BeginFlush(t, m, s, goal) ==
    /\ buf[s] # <<>>
    /\ mgr' = m
    /\ buf' = [buf EXCEPT ![s] = <<>>]
    /\ task' = [task EXCEPT ![t] = Flushing(s, Range(buf[s]), goal)]
    /\ UNCHANGED stray

\* _create_session, with the limit.
MakeWithin(t, m) ==
    IF Cardinality(m.reg) < MaxPerUser
    THEN Make(t, m) /\ UNCHANGED buf
    ELSE \/ BeginFlush(t, m, Oldest(m), "make")
         \/ /\ buf[Oldest(m)] = <<>>
            /\ Make(t, Released(m, {Oldest(m)}))
            /\ UNCHANGED buf

-----------------------------------------------------------------------------
(* Requests                                                                *)

\* get_or_create_session finds session s, of the same user and agent.
Resume(r, s) ==
    /\ r \in Req \ Tester /\ task[r].pc = "new"
    /\ s \in mgr.reg \ stale
    /\ task' = [task EXCEPT ![r] = At("turn", s)]
    /\ UNCHANGED <<mgr, stale, buf, todo, ledger, cut, lost, stray, faults>>

\* It finds s expired: s is ended, then a session made.
Renew(r, s) ==
    /\ r \in Req \ Tester /\ task[r].pc = "new"
    /\ s \in mgr.reg \cap stale
    /\ \/ BeginFlush(r, mgr, s, "limit")
       \/ buf[s] = <<>> /\ MakeWithin(r, Released(mgr, {s}))
    /\ UNCHANGED <<stale, todo, ledger, cut, lost, faults>>

\* It finds none, or one of another user or agent.
Open(r) ==
    /\ r \in Req /\ task[r].pc = "new"
    /\ MakeWithin(r, mgr)
    /\ UNCHANGED <<stale, todo, ledger, cut, lost, faults>>

\* append_memory_turn, to the session object that the request holds; appending
\* counts as activity.
AppendTurn(s, r) ==
    /\ buf' = [buf EXCEPT ![s] = IF Len(@) < MaxTurns THEN Append(@, r) ELSE Append(Tail(@), r)]
    /\ cut' = IF Len(buf[s]) < MaxTurns THEN cut ELSE cut \cup {Head(buf[s])}
    /\ stale' = stale \ {s}

\* The turn of a streamed test ends with an answer.
Answer(r) ==
    /\ r \in Req \ Tester /\ task[r].pc = "turn"
    /\ AppendTurn(task[r].sid, r)
    /\ task' = [task EXCEPT ![r] = At("over", None)]
    /\ UNCHANGED <<mgr, todo, ledger, lost, stray, faults>>

\* It fails, is cancelled, has no answer, or is not streamed.
GiveUp(r) ==
    /\ r \in Req \ Tester /\ task[r].pc = "turn"
    /\ task' = [task EXCEPT ![r] = At("over", None)]
    /\ UNCHANGED <<mgr, stale, buf, todo, ledger, cut, lost, stray, faults>>

-----------------------------------------------------------------------------
(* Ending sessions                                                         *)

\* Mutant: a session ends without its callbacks.
EndQuietly(t, s) ==
    /\ mgr' = Released(mgr, {s})
    /\ task' = [task EXCEPT ![t] = At("over", None)]
    /\ UNCHANGED <<buf, stray>>

\* end_session of a session that may be gone by now.
End(t, s) ==
    \/ s \in mgr.reg /\ BeginFlush(t, mgr, s, "over")
    \/ /\ s \notin mgr.reg \/ buf[s] = <<>>
       /\ mgr' = IF s \in mgr.reg THEN Released(mgr, {s}) ELSE mgr
       /\ task' = [task EXCEPT ![t] = At("over", None)]
       /\ UNCHANGED <<buf, stray>>

\* The user closes the dialog of session s.
Close(d, s) ==
    /\ d \in Closer /\ task[d].pc = "new"
    /\ s \in mgr.reg
    /\ End(d, s)
    /\ UNCHANGED <<stale, todo, ledger, cut, lost, faults>>

\* A skill test ends the session it made.
EndTest(r) ==
    /\ r \in Tester /\ task[r].pc = "turn"
    /\ End(r, task[r].sid)
    /\ UNCHANGED <<stale, todo, ledger, cut, lost, faults>>

\* _cleanup_expired_sessions goes through S from the oldest on and stops at the
\* first session that has turns.  Whether it is still expired is not asked again.
SweepOn(m, S) ==
    LET full == {s \in S \cap m.reg : buf[s] # <<>>}
    IN  \/ /\ full = {}
           /\ mgr' = Released(m, S \cap m.reg)
           /\ task' = [task EXCEPT ![Cleaner] = At("new", None)]
           /\ todo' = {}
           /\ UNCHANGED <<buf, stray>>
        \/ \E k \in full :
           /\ \A s \in full : k <= s
           /\ BeginFlush(Cleaner, Released(m, {s \in S \cap m.reg : s < k}), k, "sweep")
           /\ todo' = {s \in S : k < s}

Sweep ==
    /\ task[Cleaner].pc = "new"
    /\ mgr.reg \cap stale # {}
    /\ SweepOn(mgr, mgr.reg \cap stale)
    /\ UNCHANGED <<stale, ledger, cut, lost, faults>>

\* record_session_snapshot replaces the events of the session's row; its
\* exceptions are swallowed.
Record(s, S) ==
    \/ ledger' = [ledger EXCEPT ![s] = S] /\ UNCHANGED faults
    \/ faults < MaxFaults /\ faults' = faults + 1 /\ UNCHANGED ledger

\* The model has answered, or timed out: the turns are recorded, the session
\* is released, and t goes on.
Finalize(t) ==
    LET s == task[t].sid
        m == Released(mgr, {s})
    IN  /\ task[t].pc = "flush"
        /\ Record(s, task[t].took)
        /\ \/ /\ task[t].goal = "over"
              /\ mgr' = m
              /\ task' = [task EXCEPT ![t] = At("over", None)]
              /\ UNCHANGED <<buf, todo, stray>>
           \/ task[t].goal = "make" /\ Make(t, m) /\ UNCHANGED <<buf, todo>>
           \/ task[t].goal = "limit" /\ MakeWithin(t, m) /\ UNCHANGED todo
           \/ task[t].goal = "sweep" /\ SweepOn(m, todo)
        /\ UNCHANGED <<stale, cut, lost>>

\* The client of a stream leaves while its request, or the end of its skill
\* test, awaits the model: the request is cancelled there.  The session stays as
\* it is, with an empty buffer, and the turns taken out of it are gone.
Disconnect(r) ==
    /\ r \in Req /\ task[r].pc = "flush"
    /\ r \in Tester => task[r].goal = "over"
    /\ lost' = lost \cup task[r].took
    /\ task' = [task EXCEPT ![r] = At("over", None)]
    /\ UNCHANGED <<mgr, stale, buf, todo, ledger, cut, stray, faults>>

-----------------------------------------------------------------------------
(* Time, the host and restarts                                             *)

\* rmtree or Docker will refuse: files that the sandbox wrote as another user, a
\* container that does not go.  It makes no difference before the release, so it
\* is settled while the session is the newest.  Bound: one session in the run.
HoldFast(s) ==
    /\ mgr.fastDirs \cup mgr.fastBoxes = {}
    /\ s \in mgr.reg /\ s = mgr.made
    /\ \/ mgr' = [mgr EXCEPT !.fastDirs = {s}]
       \/ s \in mgr.boxes /\ mgr' = [mgr EXCEPT !.fastBoxes = {s}]
    /\ UNCHANGED <<stale, buf, task, todo, ledger, cut, lost, stray, faults>>

\* ttl_minutes without activity; a running turn is none.
Expire(s) ==
    /\ s \in mgr.reg \ stale
    /\ stale' = stale \cup {s}
    /\ UNCHANGED <<mgr, buf, task, todo, ledger, cut, lost, stray, faults>>

\* The process stops: directories and running containers are left behind.
Restart ==
    /\ faults < MaxFaults
    /\ faults' = faults + 1
    /\ mgr' = [mgr EXCEPT !.reg = {}]
    /\ task' = [t \in Task |-> IF task[t].pc = "new" \/ t = Cleaner THEN At("new", None)
                               ELSE At("over", None)]
    /\ todo' = {}
    /\ buf' = [s \in Id |-> <<>>]
    /\ stray' = stray \cup mgr.dirs
    /\ UNCHANGED <<stale, ledger, cut, lost>>

-----------------------------------------------------------------------------
Next ==
    \/ \E r \in Req, s \in Id : Resume(r, s) \/ Renew(r, s)
    \/ \E r \in Req : Open(r) \/ Answer(r) \/ GiveUp(r) \/ EndTest(r) \/ Disconnect(r)
    \/ \E d \in Closer, s \in Id : Close(d, s)
    \/ Sweep
    \/ \E t \in Task : Finalize(t)
    \/ \E s \in Id : Expire(s) \/ HoldFast(s)
    \/ Restart

Spec == Init /\ [][Next]_vars

\* The loop wakes up, time passes, and the calls to the model have a timeout.
Fairness ==
    /\ WF_vars(Sweep)
    /\ \A s \in Id : WF_vars(Expire(s))
    /\ \A t \in Task : WF_vars(Finalize(t))

FairSpec == Spec /\ Fairness

-----------------------------------------------------------------------------
(* Properties                                                              *)

TypeOK ==
    /\ mgr \in Manager
    /\ \A s \in mgr.dirs \cup mgr.reg \cup mgr.boxes : s <= mgr.made
    /\ stale \subseteq Id
    /\ buf \in [Id -> Seq(Req)]
    /\ task \in [Task -> TaskState]
    /\ \A t \in Task : task[t].pc \in {"flush", "turn"} => task[t].sid # None
    /\ todo \subseteq Id
    /\ ledger \in [Id -> SUBSET Req]
    /\ cut \subseteq Req /\ lost \subseteq Req /\ stray \subseteq Id
    /\ faults \in 0..MaxFaults

\* Whoever ends a session and whoever else ends it meanwhile: a session that can
\* be resumed has its directory, and no directory or container outlives its
\* session except what could not be removed and what failed creations and
\* restarts leave.
ResourcesFollow ==
    /\ mgr.reg \subseteq mgr.dirs
    /\ mgr.dirs \subseteq mgr.reg \cup stray \cup mgr.fastDirs
    /\ mgr.boxes \subseteq mgr.reg \cup stray \cup mgr.fastBoxes

Ending(s) == \E t \in Task : task[t].pc = "flush" /\ task[t].sid = s

\* A turn in the buffer of a session that nobody is ending reaches the ledger,
\* unless newer turns drive it out, whoever takes it is cancelled while the model
\* is at work on it, or the record or the process fails.
TurnsReachLedger ==
    \A r \in Req :
        (\E s \in mgr.reg : r \in Range(buf[s]) /\ ~Ending(s))
            ~> (faults > 0 \/ r \in cut \cup lost \/ \E s \in Id : r \in ledger[s])
=============================================================================
