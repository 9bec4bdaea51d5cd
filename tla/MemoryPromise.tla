--------------------------- MODULE MemoryPromise ---------------------------
(***************************************************************************)
(* What the extraction of memory promises a conversation, whoever does it  *)
(* and however often it is tried: messages are said one after the other,   *)
(* the ledger is told of some of them, perhaps more than once, and a mark  *)
(* says how far the conversation counts as processed.  The mark only moves *)
(* forward, and never past a question that is still in the table and that  *)
(* the ledger has not been told of.  ConversationMemory implements this    *)
(* with claims, leases, takeovers, batches and two transactions.           *)
(***************************************************************************)
EXTENDS Naturals

CONSTANT Conv

VARIABLES
    said,   \* said[c]: how many messages c has had
    asked,  \* asked[c]: the user messages of c that have not been deleted
    told,   \* told[c]: the messages that the ledger has been told of
    mark    \* mark[c]: how far c counts as processed

vars == <<said, asked, told, mark>>

Init ==
    /\ said = [c \in Conv |-> 0]
    /\ asked = [c \in Conv |-> {}]
    /\ told = [c \in Conv |-> {}]
    /\ mark = [c \in Conv |-> 0]

\* A message of the user, or an answer.
Say(c) ==
    /\ said' = [said EXCEPT ![c] = @ + 1]
    /\ \/ asked' = [asked EXCEPT ![c] = @ \cup {said[c] + 1}]
       \/ UNCHANGED asked
    /\ UNCHANGED <<told, mark>>

\* The ledger is told of messages that were said.
Tell(c) ==
    /\ \E S \in SUBSET (1..said[c]) : told' = [told EXCEPT ![c] = @ \cup S]
    /\ UNCHANGED <<said, asked, mark>>

\* The mark moves forward over questions that were told.
Advance(c) ==
    /\ \E m \in 1..said[c] :
        /\ mark[c] < m
        /\ \A p \in asked[c] : p <= m => p \in told[c]
        /\ mark' = [mark EXCEPT ![c] = m]
    /\ UNCHANGED <<said, asked, told>>

\* Old messages are deleted.
Forget(c) ==
    /\ \E S \in SUBSET asked[c] : asked' = [asked EXCEPT ![c] = S]
    /\ UNCHANGED <<said, told, mark>>

Next == \E c \in Conv : Say(c) \/ Tell(c) \/ Advance(c) \/ Forget(c)

Spec == Init /\ [][Next]_vars
=============================================================================
