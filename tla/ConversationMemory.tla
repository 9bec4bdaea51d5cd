------------------------- MODULE ConversationMemory -------------------------
(***************************************************************************)
(* Extraction of memory from persistent conversations: a cursor and a      *)
(* lease per conversation, the scan that flushes idle conversations, the   *)
(* flushes of releases, and the compaction that deletes old messages.      *)
(*                                                                         *)
(* A message is its position in its conversation (created_at, message_id). *)
(* A step is one database transaction; the language model is awaited       *)
(* between the claim of a batch and its record in the ledger.  A run token *)
(* is fresh for every claim and a worker has one claim at a time, so the   *)
(* claimant stands for it.                                                 *)
(***************************************************************************)
EXTENDS Naturals, FiniteSets, Sequences

CONSTANTS
    Conv,        \* active conversations
    Flusher,     \* forced flushes: each is one release or deletion
    Scan,        \* the periodic scan; an advisory lock makes it one
    Nobody,
    MaxMsg,      \* bound: messages of one conversation
    BatchTurns,  \* max_new_turns_per_run
    MaxBatches,  \* max_batches_per_invocation
    ScanLimit,   \* scan_limit
    Window,      \* recent_turn_window of compaction
    MaxFaults    \* bound: crashes and failed extractions

Worker == Flusher \cup {Scan}
Pos    == 1..MaxMsg

ASSUME MemoryAssumption ==
    /\ MaxMsg \in Nat /\ MaxFaults \in Nat
    /\ BatchTurns \in Nat \ {0}
    /\ MaxBatches \in Nat \ {0}
    /\ ScanLimit \in Nat \ {0}
    /\ Window \in Nat \ {0}
    /\ Scan \notin Flusher
    /\ Nobody \notin Worker
    /\ Nobody \notin Conv
    /\ IsFiniteSet(Conv)

VARIABLES
    log,      \* log[c]: the roles of the messages of c, in order
    kept,     \* kept[c]: the messages still in the table
    newer,    \* newer[c]: the conversations with a later last_message_at
    idle,     \* those whose last message is older than idle_timeout_minutes
    cursor,   \* cursor[c]: last processed assistant message, 0 for none
    count,    \* count[c]: last_processed_turn_count
    holder,   \* holder[c]: whose run_token is on record, or Nobody
    lease,    \* the conversations with lease_until in the future
    target,   \* target[c]: target_assistant_message_id, 0 for none
    waiting,  \* the conversations with retry_after in the future
    pc,       \* pc[w]: where worker w is
    batch,    \* batch[w]: its claimed batch
    left,     \* left[w]: batches it may still claim
    todo,     \* candidates the scan has yet to flush
    doomed,   \* doomed[c]: messages a compaction is summarising
    faults,   \* crashes and failed extractions so far
    told,     \* history: told[c], messages recorded in the ledger
    closed    \* history: closed[c], turns of the batches that moved the cursor

messageVars == <<log, kept, newer, idle>>
stateVars   == <<cursor, count, holder, lease, target, waiting>>
workVars    == <<pc, batch, left, todo>>
vars == <<messageVars, stateVars, workVars, doomed, faults, told, closed>>

Role  == {"user", "assistant"}
Batch == [conv: Conv \cup {Nobody}, target: 0..MaxMsg, messages: SUBSET Pos, turns: SUBSET Pos,
          base: 0..MaxMsg]
NoBatch == [conv |-> Nobody, target |-> 0, messages |-> {}, turns |-> {}, base |-> 0]

TypeOK ==
    /\ log \in [Conv -> Seq(Role)] /\ \A c \in Conv : Len(log[c]) <= MaxMsg
    /\ kept \in [Conv -> SUBSET Pos]
    /\ newer \in [Conv -> SUBSET Conv]
    /\ idle \subseteq Conv
    /\ cursor \in [Conv -> 0..MaxMsg]
    /\ count \in [Conv -> 0..MaxMsg]
    /\ holder \in [Conv -> Worker \cup {Nobody}]
    /\ lease \subseteq Conv
    /\ target \in [Conv -> 0..MaxMsg]
    /\ \A c \in Conv : (holder[c] # Nobody <=> target[c] # 0) /\ (c \in lease => target[c] # 0)
    /\ waiting \subseteq Conv
    /\ pc \in [Worker -> {"idle", "next", "extracting", "recorded", "done"}]
    /\ batch \in [Worker -> Batch]
    /\ left \in [Worker -> 0..MaxBatches]
    /\ todo \subseteq Conv
    /\ doomed \in [Conv -> SUBSET Pos]
    /\ faults \in 0..MaxFaults
    /\ told \in [Conv -> SUBSET Pos]
    /\ closed \in [Conv -> SUBSET Pos]

Init ==
    /\ log = [c \in Conv |-> <<>>]
    /\ kept = [c \in Conv |-> {}]
    /\ newer = [c \in Conv |-> {}]
    /\ idle = {}
    /\ cursor = [c \in Conv |-> 0]
    /\ count = [c \in Conv |-> 0]
    /\ holder = [c \in Conv |-> Nobody]
    /\ lease = {}
    /\ target = [c \in Conv |-> 0]
    /\ waiting = {}
    /\ pc = [w \in Worker |-> "idle"]
    /\ batch = [w \in Worker |-> NoBatch]
    /\ left = [w \in Worker |-> 0]
    /\ todo = {}
    /\ doomed = [c \in Conv |-> {}]
    /\ faults = 0
    /\ told = [c \in Conv |-> {}]
    /\ closed = [c \in Conv |-> {}]

-----------------------------------------------------------------------------
(* Messages and time                                                       *)

Users(c)      == {p \in kept[c] : log[c][p] = "user"}
Assistants(c) == {p \in kept[c] : log[c][p] = "assistant"}

\* Turns may overlap, and an answer may be that of a scheduled turn, whose input
\* has role "system" and is not read here: any order of roles is possible.
StoreMessage(c, role) ==
    /\ Len(log[c]) < MaxMsg
    /\ log' = [log EXCEPT ![c] = Append(@, role)]
    /\ kept' = [kept EXCEPT ![c] = @ \cup {Len(log[c]) + 1}]
    /\ newer' = [d \in Conv |-> IF d = c THEN {} ELSE newer[d] \cup {c}]
    /\ idle' = idle \ {c}
    /\ UNCHANGED <<stateVars, workVars, doomed, faults, told, closed>>

\* idle_timeout_minutes pass; what is older is idle too.
GrowIdle ==
    \E c \in Conv \ idle :
        /\ log[c] # <<>>
        /\ idle' = idle \cup {c} \cup {d \in Conv : log[d] # <<>> /\ c \in newer[d]}
        /\ UNCHANGED <<log, kept, newer, stateVars, workVars, doomed, faults, told, closed>>

\* run_lease_seconds pass while the model is still at work, or nobody is.
LeaseLapses(c) ==
    /\ c \in lease
    /\ lease' = lease \ {c}
    /\ UNCHANGED <<messageVars, cursor, count, holder, target, waiting, workVars, doomed, faults, told, closed>>

BackoffEnds(c) ==
    /\ c \in waiting
    /\ waiting' = waiting \ {c}
    /\ UNCHANGED <<messageVars, cursor, count, holder, lease, target, workVars, doomed, faults, told, closed>>

-----------------------------------------------------------------------------
(* claim_conversation_delta                                                *)

\* _build_complete_turns: an assistant message closes a turn when a user
\* message came since the assistant message before it.
Asked(c, p) ==
    {q \in Users(c) : cursor[c] < q /\ q < p /\ \A r \in Assistants(c) : ~(q < r /\ r < p)}

NewTurns(c) == {p \in Assistants(c) : p > cursor[c] /\ Asked(c, p) # {}}

\* Mutant: the batch takes the latest turns.
SelectedLatest(c) ==
    {p \in NewTurns(c) : Cardinality({r \in NewTurns(c) : r > p}) < BatchTurns}

\* new_turns[:max_new_turns]
Selected(c) ==
    {p \in NewTurns(c) : Cardinality({r \in NewTurns(c) : r < p}) < BatchTurns}

\* Mutant: a lease that has not run out does not hold others off.
ClaimableAny(c) == c \notin waiting

\* Mutant: nobody takes over a claim whose lease has run out.
ClaimableByNobody(c) == c \notin waiting /\ holder[c] = Nobody

Claimable(c) == c \notin waiting /\ ~(holder[c] # Nobody /\ c \in lease)

\* The claim of worker w on c, and what there is to extract.
Claim(w, c) ==
    LET turns == Selected(c)
        last  == CHOOSE p \in turns : \A q \in turns : q <= p
    IN  /\ Claimable(c) /\ turns # {}
        /\ holder' = [holder EXCEPT ![c] = w]
        /\ lease' = lease \cup {c}
        /\ target' = [target EXCEPT ![c] = last]
        /\ batch' = [batch EXCEPT ![w] =
               [conv |-> c, target |-> last, turns |-> turns, base |-> count[c],
                messages |-> turns \cup UNION {Asked(c, p) : p \in turns}]]
        /\ pc' = [pc EXCEPT ![w] = "extracting"]
        /\ UNCHANGED <<cursor, count, waiting>>

\* The worker goes to its next conversation, or is done.
Turned(w) ==
    pc' = [pc EXCEPT ![w] = IF w # Scan THEN "done" ELSE IF todo = {} THEN "idle" ELSE "next"]

\* Mutant: the target stays.
ClearToken(c) ==
    /\ holder' = [holder EXCEPT ![c] = Nobody]
    /\ lease' = lease \ {c}
    /\ UNCHANGED target

\* _clear_run_lease
ClearLease(c) ==
    /\ holder' = [holder EXCEPT ![c] = Nobody]
    /\ lease' = lease \ {c}
    /\ target' = [target EXCEPT ![c] = 0]

\* Nothing to claim; without new turns the lease on record is cleared.
NoClaim(w, c) ==
    /\ ~Claimable(c) \/ Selected(c) = {}
    /\ IF Claimable(c)
       THEN ClearLease(c)
       ELSE UNCHANGED <<holder, lease, target>>
    /\ batch' = [batch EXCEPT ![w] = NoBatch]
    /\ UNCHANGED <<cursor, count, waiting>>

-----------------------------------------------------------------------------
(* flush_conversation_memory_delta                                         *)

\* A forced flush: a release or a deletion of c.
BeginFlush(w, c) ==
    /\ w \in Flusher
    /\ pc[w] = "idle"
    /\ \/ Claim(w, c) /\ left' = [left EXCEPT ![w] = MaxBatches - 1]
       \/ NoClaim(w, c) /\ pc' = [pc EXCEPT ![w] = "done"] /\ UNCHANGED left
    /\ UNCHANGED <<messageVars, todo, doomed, faults, told, closed>>

\* list_candidate_conversation_ids: whether anything is new is not asked.
Candidate(c) ==
    /\ c \in idle
    /\ c \notin waiting
    /\ ~(holder[c] # Nobody /\ c \in lease)

Candidates == {c \in Conv : Candidate(c)}

\* The oldest scan_limit of them.
FirstCandidates ==
    {c \in Candidates : Cardinality({d \in Candidates : c \in newer[d]}) < ScanLimit}

BeginScan ==
    /\ pc[Scan] = "idle"
    /\ Candidates # {}
    /\ todo' = FirstCandidates
    /\ pc' = [pc EXCEPT ![Scan] = "next"]
    /\ UNCHANGED <<messageVars, stateVars, batch, left, doomed, faults, told, closed>>

\* One conversation of the scan, one batch; the order among them is left open.
ScanNext ==
    /\ pc[Scan] = "next"
    /\ \E c \in todo :
        /\ todo' = todo \ {c}
        /\ \/ Claim(Scan, c) /\ left' = [left EXCEPT ![Scan] = 0]
           \/ /\ NoClaim(Scan, c) /\ UNCHANGED left
              /\ pc' = [pc EXCEPT ![Scan] = IF todo = {c} THEN "idle" ELSE "next"]
    /\ UNCHANGED <<messageVars, doomed, faults, told, closed>>

\* The model has answered and the batch is recorded under its own session id.
Record(w) ==
    /\ pc[w] = "extracting"
    /\ told' = [told EXCEPT ![batch[w].conv] = @ \cup batch[w].messages]
    /\ pc' = [pc EXCEPT ![w] = "recorded"]
    /\ UNCHANGED <<messageVars, stateVars, batch, left, todo, doomed, faults, closed>>

\* _matches_claim
Matches(w) == holder[batch[w].conv] = w /\ target[batch[w].conv] = batch[w].target

\* Mutant: messages are counted instead of turns.
ProcessedMessages(b) == b.base + Cardinality(b.messages)

\* processed_turn_count
Processed(b) == b.base + Cardinality(b.turns)

\* complete_claim; a forced flush then asks for another batch, whether or not
\* the cursor moved.
Complete(w) ==
    LET b == batch[w]
    IN  /\ pc[w] = "recorded"
        /\ IF Matches(w)
           THEN /\ cursor' = [cursor EXCEPT ![b.conv] = b.target]
                /\ count' = [count EXCEPT ![b.conv] = Processed(b)]
                /\ closed' = [closed EXCEPT ![b.conv] = @ \cup b.turns]
                /\ waiting' = waiting \ {b.conv}
                /\ ClearLease(b.conv)
           ELSE UNCHANGED <<stateVars, closed>>
        /\ IF left[w] > 0
           THEN pc' = [pc EXCEPT ![w] = "next"] /\ UNCHANGED batch
           ELSE Turned(w) /\ batch' = [batch EXCEPT ![w] = NoBatch]
        /\ UNCHANGED <<messageVars, left, todo, doomed, faults, told>>

FlushNext(w) ==
    /\ w \in Flusher
    /\ pc[w] = "next"
    /\ \/ Claim(w, batch[w].conv) /\ left' = [left EXCEPT ![w] = @ - 1]
       \/ NoClaim(w, batch[w].conv) /\ pc' = [pc EXCEPT ![w] = "done"] /\ UNCHANGED left
    /\ UNCHANGED <<messageVars, todo, doomed, faults, told, closed>>

\* Extraction or recording raises: fail_claim, and this flush ends.
ExtractionFails(w) ==
    LET c == batch[w].conv
    IN  /\ pc[w] = "extracting"
        /\ faults < MaxFaults /\ faults' = faults + 1
        /\ IF Matches(w)
           THEN ClearLease(c) /\ waiting' = waiting \cup {c} /\ UNCHANGED <<cursor, count>>
           ELSE UNCHANGED stateVars
        /\ Turned(w)
        /\ batch' = [batch EXCEPT ![w] = NoBatch]
        /\ UNCHANGED <<messageVars, left, todo, doomed, told, closed>>

\* The process of w dies, or its task is cancelled: the claim stays on record.
Crash(w) ==
    /\ pc[w] \in {"next", "extracting", "recorded"}
    /\ faults < MaxFaults /\ faults' = faults + 1
    /\ pc' = [pc EXCEPT ![w] = IF w = Scan THEN "idle" ELSE "done"]
    /\ batch' = [batch EXCEPT ![w] = NoBatch]
    /\ todo' = IF w = Scan THEN {} ELSE todo
    /\ UNCHANGED <<messageVars, stateVars, left, doomed, told, closed>>

-----------------------------------------------------------------------------
(* compact_conversation                                                    *)

\* What lies before the last Window questions, as far as message n, the last that
\* is older than min_message_age_hours: an answer may be too young to go with its
\* question.  The cursor is not asked.
Compactable(c, n) ==
    {p \in kept[c] :
        /\ p <= n
        /\ Cardinality(Users(c)) > Window
        /\ Cardinality({q \in Users(c) : q > p}) >= Window}

BeginCompaction(c) ==
    /\ doomed[c] = {}
    /\ \E n \in kept[c] :
        /\ Compactable(c, n) # {}
        /\ doomed' = [doomed EXCEPT ![c] = Compactable(c, n)]
    /\ UNCHANGED <<messageVars, stateVars, workVars, faults, told, closed>>

EndCompaction(c) ==
    /\ doomed[c] # {}
    /\ \/ kept' = [kept EXCEPT ![c] = @ \ doomed[c]]
       \/ UNCHANGED kept   \* the summary fails
    /\ doomed' = [doomed EXCEPT ![c] = {}]
    /\ UNCHANGED <<log, newer, idle, stateVars, workVars, faults, told, closed>>

-----------------------------------------------------------------------------
WorkStep(w) == Record(w) \/ Complete(w) \/ FlushNext(w)

Next ==
    \/ \E c \in Conv, role \in Role : StoreMessage(c, role)
    \/ GrowIdle
    \/ \E c \in Conv : LeaseLapses(c) \/ BackoffEnds(c)
    \/ \E w \in Flusher, c \in Conv : BeginFlush(w, c)
    \/ BeginScan \/ ScanNext
    \/ \E w \in Worker : WorkStep(w) \/ ExtractionFails(w) \/ Crash(w)
    \/ \E c \in Conv : BeginCompaction(c) \/ EndCompaction(c)

\* The loops keep going, time passes, and a batch under extraction is recorded
\* sooner or later.
Fairness ==
    /\ WF_vars(GrowIdle) /\ WF_vars(BeginScan) /\ WF_vars(ScanNext)
    /\ \A c \in Conv : WF_vars(LeaseLapses(c)) /\ WF_vars(BackoffEnds(c))
    /\ \A w \in Worker : WF_vars(WorkStep(w))

Spec     == Init /\ [][Next]_vars
FairSpec == Spec /\ Fairness

-----------------------------------------------------------------------------
(***************************************************************************)
(* Properties                                                              *)
(***************************************************************************)

\* Turns are counted once, though a batch may be extracted more than once.
CountedOnce == \A c \in Conv : count[c] = Cardinality(closed[c])

\* Whatever order claims, lapsed leases, takeovers, crashes and compactions come
\* in, the conversation's memory keeps its promise: the cursor moves forward only,
\* by a holder's completion, and over no user message that the ledger lacks.
Promise == INSTANCE MemoryPromise
    WITH said  <- [c \in Conv |-> Len(log[c])],
         asked <- [c \in Conv |-> Users(c)],
         mark  <- cursor

KeepsPromise == Promise!Spec

\* A compaction has deleted the answer p, or every question that it answers.
CompactedAway(c, p) ==
    \/ p \notin kept[c]
    \/ \A q \in Users(c) : q < p => \E r \in Assistants(c) : q < r /\ r < p

\* Every complete turn reaches the ledger, unless compaction comes first and
\* deletes its answer or its questions.
TurnsAreTold ==
    \A c \in Conv, p \in Pos :
        p \in NewTurns(c) ~> (p \in told[c] \/ CompactedAway(c, p))
=============================================================================
