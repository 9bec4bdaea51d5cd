---------------------- MODULE ConversationMemoryProofs ----------------------
(***************************************************************************)
(* Theorems about ConversationMemory, for every number of conversations,   *)
(* messages and flushes and every size of batch: the refinement, and how   *)
(* turns, the ledger and the cursor keep in step.                          *)
(***************************************************************************)
EXTENDS ConversationMemory, FiniteSetTheorems, WellFoundedInduction, TLAPS

-----------------------------------------------------------------------------
(* Sets of messages                                                        *)

\* Messages are numbered from one.
LEMMA PosNat == MaxMsg \in Nat /\ Pos = 1..MaxMsg /\ Pos \subseteq Nat
BY MemoryAssumption DEF MemoryAssumption, Pos

\* Sets of messages are finite.
LEMMA FiniteSubset ==
    ASSUME NEW S \in SUBSET Pos
    PROVE  IsFiniteSet(S) /\ Cardinality(S) \in 0..MaxMsg
<1>1. IsFiniteSet(Pos) /\ Cardinality(Pos) = MaxMsg
  BY PosNat, FS_Interval, 1 \in Int
<1>2. IsFiniteSet(S) /\ Cardinality(S) <= Cardinality(Pos)
  BY <1>1, FS_Subset
<1> QED  BY <1>1, <1>2, FS_CardinalityType, PosNat

\* A set of messages has a first and a last.
LEMMA FirstExists ==
    ASSUME NEW S \in SUBSET Pos, S # {}
    PROVE  \E p \in S : \A q \in S : p <= q
<1>1. S \subseteq Nat
  BY PosNat
<1>2. PICK x \in S : \A y \in S : ~ (<<y, x>> \in OpToRel(<, Nat))
  BY <1>1, NatLessThanWellFounded, WFMin
<1>3. ASSUME NEW y \in S PROVE x <= y
  <2>1. x \in Nat /\ y \in Nat /\ ~ (y < x)
    BY <1>1, <1>2 DEF OpToRel
  <2> QED  BY <2>1
<1> QED  BY <1>3

LEMMA LastExists ==
    ASSUME NEW S \in SUBSET Pos, S # {}
    PROVE  \E p \in S : \A q \in S : q <= p
<1> DEFINE T == {MaxMsg + 1 - p : p \in S}
<1>1. T \in SUBSET Pos /\ T # {}
  <2>1. \A p \in S : MaxMsg + 1 - p \in 1..MaxMsg
    BY PosNat
  <2> QED  BY <2>1, PosNat
<1>2. PICK x \in T : \A y \in T : x <= y
  <2> HIDE DEF T
  <2> QED  BY <1>1, FirstExists
<1>3. PICK p \in S : x = MaxMsg + 1 - p
  BY <1>2
<1>4. ASSUME NEW q \in S PROVE q <= p
  <2>1. MaxMsg + 1 - q \in T
    OBVIOUS
  <2>2. x <= MaxMsg + 1 - q
    BY <1>2, <2>1
  <2>3. p \in 1..MaxMsg /\ q \in 1..MaxMsg /\ MaxMsg \in Nat
    BY PosNat
  <2> QED  BY <1>3, <2>2, <2>3
<1> QED  BY <1>4

-----------------------------------------------------------------------------
(***************************************************************************)
(* What a claim covers: every user message between the cursor and the      *)
(* target was answered by a turn of the batch.  The first assistant        *)
(* message after it closes a turn, which is selected because the target,   *)
(* which comes later, is.                                                  *)
(***************************************************************************)
MessageTypes ==
    /\ kept \in [Conv -> SUBSET Pos]
    /\ cursor \in [Conv -> 0..MaxMsg]

LEMMA SelectedType ==
    ASSUME MessageTypes, NEW c \in Conv
    PROVE  /\ Selected(c) \subseteq NewTurns(c)
           /\ NewTurns(c) \subseteq Assistants(c)
           /\ Assistants(c) \in SUBSET Pos
           /\ Users(c) \in SUBSET Pos
           /\ cursor[c] \in Nat
           /\ \A p \in NewTurns(c) : p > cursor[c]
BY PosNat DEF MessageTypes, Selected, NewTurns, Assistants, Users

LEMMA Covered ==
    ASSUME MessageTypes, NEW c \in Conv, NEW last \in Selected(c),
           NEW q \in Users(c), cursor[c] < q, q <= last
    PROVE  \E p \in Selected(c) : q \in Asked(c, p)
<1>1. last \in Assistants(c) /\ last \in NewTurns(c) /\ last \in Nat /\ q \in Nat /\ q # last
  <2>1. q # last
    BY SelectedType DEF Users, Assistants
  <2> QED  BY <2>1, SelectedType, PosNat
<1> DEFINE R == {r \in Assistants(c) : r > q}
<1>2. R \in SUBSET Pos /\ last \in R
  BY <1>1, SelectedType
<1>3. PICK r \in R : \A s \in R : r <= s
  <2> HIDE DEF R
  <2> QED  BY <1>2, FirstExists
<1>4. r \in Nat /\ r \in Assistants(c) /\ q < r /\ r <= last
  BY <1>2, <1>3, PosNat
<1>5. q \in Asked(c, r)
  <2>1. \A s \in Assistants(c) : s \in Nat
    BY SelectedType, PosNat
  <2> QED  BY <1>3, <1>4, <2>1 DEF Asked
<1>6. r \in NewTurns(c)
  BY <1>1, <1>4, <1>5, SelectedType DEF NewTurns
<1>7. r \in Selected(c)
  <2> DEFINE A == {x \in NewTurns(c) : x < r}
             B == {x \in NewTurns(c) : x < last}
  <2>1. A \in SUBSET B /\ A \in SUBSET Pos /\ B \in SUBSET Pos
    BY <1>1, <1>4, SelectedType, PosNat
  <2>2. Cardinality(B) < BatchTurns
    BY DEF Selected
  <2> HIDE DEF A, B
  <2>3. /\ Cardinality(A) <= Cardinality(B)
        /\ Cardinality(A) \in Nat /\ Cardinality(B) \in Nat
    <3>1. IsFiniteSet(B) /\ Cardinality(A) \in 0..MaxMsg /\ Cardinality(B) \in 0..MaxMsg
      BY <2>1, FiniteSubset
    <3>2. Cardinality(A) <= Cardinality(B)
      BY <2>1, <3>1, FS_Subset
    <3> QED  BY <3>1, <3>2, PosNat
  <2>4. Cardinality(A) < BatchTurns
    BY <2>2, <2>3, MemoryAssumption DEF MemoryAssumption
  <2> QED  BY <1>6, <2>4 DEF Selected, A
<1> QED  BY <1>5, <1>7

-----------------------------------------------------------------------------
(***************************************************************************)
(* The inductive invariant.  The claim of a worker whose token is still on *)
(* record starts at the cursor and covers what lies between it and the     *)
(* target; the token of anyone else says nothing.                          *)
(***************************************************************************)
NothingSkipped ==
    \A c \in Conv : \A p \in Users(c) : p <= cursor[c] => p \in told[c]

Stored == \A c \in Conv : \A p \in kept[c] : p <= Len(log[c])

Reached == \A c \in Conv : cursor[c] <= Len(log[c])

Counted ==
    \A c \in Conv : count[c] = Cardinality(closed[c]) /\ \A p \in closed[c] : p <= cursor[c]

\* What a claim b on c covers.
Covers(b, c) ==
    /\ b.base = count[c]
    /\ cursor[c] < b.target /\ b.target <= Len(log[c])
    /\ \A p \in b.turns : cursor[c] < p /\ p <= b.target
    /\ \A q \in Users(c) : cursor[c] < q /\ q <= b.target => q \in b.messages

Extracts(w) == pc[w] \in {"extracting", "recorded"}

Claims ==
    \A w \in Worker :
        /\ Extracts(w) =>
            /\ batch[w].conv \in Conv
            /\ Matches(w) => Covers(batch[w], batch[w].conv)
        /\ pc[w] = "recorded" => batch[w].messages \subseteq told[batch[w].conv]

Forced ==
    /\ left[Scan] = 0
    /\ \A w \in Flusher : pc[w] = "next" => batch[w].conv \in Conv /\ left[w] > 0

IInv == TypeOK /\ Stored /\ Reached /\ NothingSkipped /\ Counted /\ Claims /\ Forced

\* What the types say of workers, flushers and batches.
LEMMA Basics ==
    ASSUME TypeOK
    PROVE  /\ MessageTypes
           /\ Nobody \notin Worker /\ Nobody \notin Conv /\ Scan \notin Flusher
           /\ Flusher \subseteq Worker /\ Scan \in Worker
           /\ NoBatch \in Batch /\ NoBatch.conv = Nobody
BY MemoryAssumption, PosNat DEF MemoryAssumption, TypeOK, MessageTypes, Worker, NoBatch, Batch

\* No message, no claim.
LEMMA IInit == Init => IInv
<1> SUFFICES ASSUME Init PROVE IInv
  OBVIOUS
<1> USE MemoryAssumption DEF MemoryAssumption
<1>1. NoBatch \in Batch /\ Cardinality({}) = 0
  BY FS_EmptySet DEF NoBatch, Batch
<1>2. TypeOK
  BY <1>1, PosNat DEF Init, TypeOK
<1>3. Stored /\ Reached /\ NothingSkipped /\ Counted
  BY <1>1 DEF Init, Stored, Reached, NothingSkipped, Users, Counted
<1>4. Claims /\ Forced
  BY DEF Init, Claims, Extracts, Forced, Worker
<1> QED  BY <1>2, <1>3, <1>4 DEF IInv

(***************************************************************************)
(* A claim.                                                                *)
(***************************************************************************)
LEMMA ClaimStep ==
    ASSUME IInv, NEW w \in Worker, NEW c \in Conv, Claim(w, c),
           UNCHANGED <<messageVars, doomed, faults, told, closed>>,
           todo' \subseteq Conv, left' \in [Worker -> 0..MaxBatches], left'[Scan] = 0,
           \A v \in Flusher : v # w => left'[v] = left[v]
    PROVE  IInv'
<1> DEFINE turns == Selected(c)
           last  == CHOOSE p \in turns : \A q \in turns : q <= p
           b     == [conv |-> c, target |-> last, turns |-> turns, base |-> count[c],
                     messages |-> turns \cup UNION {Asked(c, p) : p \in turns}]
<1> USE DEF IInv, messageVars
<1>1. /\ turns # {} /\ turns \in SUBSET Pos /\ MessageTypes
      /\ \A p \in turns : p > cursor[c] /\ p \in kept[c]
      /\ cursor[c] \in Nat
  BY Basics, SelectedType DEF Claim, Assistants
<1>2. last \in turns /\ \A q \in turns : q <= last
  <2>1. \E p \in turns : \A q \in turns : q <= p
    <3> HIDE DEF turns
    <3> QED  BY <1>1, LastExists
  <2> HIDE DEF turns
  <2> QED  BY <2>1
<1>3. /\ last \in Pos /\ last # 0 /\ last \in 0..MaxMsg
      /\ cursor[c] < last /\ last <= Len(log[c])
  <2> HIDE DEF turns, last
  <2> QED  BY <1>1, <1>2, PosNat DEF Stored
<1>4. \A q \in Users(c) : cursor[c] < q /\ q <= last => q \in b.messages
  <2> SUFFICES ASSUME NEW q \in Users(c), cursor[c] < q, q <= last
               PROVE  \E p \in turns : q \in Asked(c, p)
    OBVIOUS
  <2> QED  BY <1>1, <1>2, Covered
<1>5. b.messages \subseteq Pos
  BY <1>1 DEF Asked, Users, MessageTypes
<1>6. b \in Batch
  <2> count[c] \in 0..MaxMsg
    BY DEF TypeOK
  <2> HIDE DEF turns, last
  <2> QED  BY <1>1, <1>3, <1>5 DEF Batch
<1>7. /\ holder' = [holder EXCEPT ![c] = w]
      /\ lease' = lease \cup {c}
      /\ target' = [target EXCEPT ![c] = last]
      /\ batch' = [batch EXCEPT ![w] = b]
      /\ pc' = [pc EXCEPT ![w] = "extracting"]
      /\ UNCHANGED <<cursor, count, waiting>>
  BY DEF Claim
<1>8. b.conv = c /\ b.target = last /\ b.base = count[c] /\ b.turns = turns
  OBVIOUS
<1>9. Covers(b, c)
  BY <1>1, <1>2, <1>3, <1>4, <1>8 DEF Covers
<1> HIDE DEF turns, last, b
<1>10. TypeOK'
  BY <1>3, <1>6, <1>7, Basics DEF TypeOK
<1>11. Stored' /\ Reached' /\ NothingSkipped' /\ Counted'
  BY <1>7 DEF Stored, Reached, NothingSkipped, Users, Counted
<1>12. Claims'
  <2> SUFFICES ASSUME NEW v \in Worker
               PROVE  /\ Extracts(v)' =>
                          /\ batch'[v].conv \in Conv
                          /\ Matches(v)' => Covers(batch[v], batch[v].conv)'
                      /\ pc'[v] = "recorded" => batch'[v].messages \subseteq told'[batch'[v].conv]
    BY DEF Claims
  <2>1. CASE v = w
    BY <2>1, <1>7, <1>8, <1>9 DEF TypeOK, Covers, Users
  <2>2. CASE v # w
    <3>1. pc'[v] = pc[v] /\ batch'[v] = batch[v]
      BY <2>2, <1>7 DEF TypeOK
    <3>2. Matches(v)' /\ batch[v].conv \in Conv => Matches(v)
      BY <2>2, <3>1, <1>7 DEF Matches, TypeOK
    <3> QED  BY <3>1, <3>2, <1>7 DEF Claims, Extracts, Covers, Users
  <2> QED  BY <2>1, <2>2
<1>13. Forced'
  BY <1>7 DEF Forced, TypeOK, Worker
<1> QED  BY <1>10, <1>11, <1>12, <1>13

(***************************************************************************)
(* Steps that move no cursor and give nobody a claim: a worker's claim     *)
(* may go, and nothing it rests on changes.                                *)
(***************************************************************************)
LEMMA QuietStep ==
    ASSUME IInv, TypeOK', Forced',
           UNCHANGED <<log, cursor, count, closed>>,
           \A c \in Conv : kept'[c] \subseteq kept[c] /\ told[c] \subseteq told'[c],
           \A w \in Worker : Extracts(w)' =>
               /\ Extracts(w) /\ batch'[w] = batch[w] /\ (Matches(w)' => Matches(w))
               /\ (pc'[w] = "recorded" => pc[w] = "recorded" \/ batch[w].messages \subseteq told'[batch[w].conv])
    PROVE  IInv'
<1> USE DEF IInv
<1>1. \A c \in Conv : Users(c)' \subseteq Users(c)
  BY DEF Users
<1>2. Stored' /\ Reached' /\ NothingSkipped' /\ Counted'
  BY <1>1 DEF Stored, Reached, NothingSkipped, Counted
<1>3. Claims'
  <2> SUFFICES ASSUME NEW w \in Worker, Extracts(w)'
               PROVE  /\ batch'[w].conv \in Conv
                      /\ Matches(w)' => Covers(batch[w], batch[w].conv)'
                      /\ pc'[w] = "recorded" => batch'[w].messages \subseteq told'[batch'[w].conv]
    BY DEF Claims, Extracts
  <2>1. batch[w].conv \in Conv
    BY DEF Claims
  <2>2. Covers(batch[w], batch[w].conv) => Covers(batch[w], batch[w].conv)'
    BY <1>1, <2>1 DEF Covers
  <2> QED  BY <2>1, <2>2 DEF Claims
<1> QED  BY <1>2, <1>3

\* A conversation with nothing to claim: its lease may be cleared.
LEMMA NoClaimStep ==
    ASSUME IInv, NEW w \in Worker, NEW c \in Conv, NoClaim(w, c), NEW x \in {"idle", "next", "done"},
           x = "next" => w = Scan,
           pc' = [pc EXCEPT ![w] = x],
           UNCHANGED <<messageVars, left, doomed, faults, told, closed>>, todo' \subseteq Conv
    PROVE  IInv'
<1> USE DEF IInv, messageVars
<1>1. TypeOK'
  <2>1. CASE Claimable(c)
    <3>0. /\ holder' = [holder EXCEPT ![c] = Nobody]
          /\ lease' = lease \ {c}
          /\ target' = [target EXCEPT ![c] = 0]
      BY <2>1 DEF NoClaim, ClearLease
    <3>1. /\ holder' \in [Conv -> Worker \cup {Nobody}] /\ target' \in [Conv -> 0..MaxMsg]
          /\ \A d \in Conv : (holder'[d] # Nobody <=> target'[d] # 0) /\ (d \in lease' => target'[d] # 0)
      BY <3>0, PosNat DEF TypeOK
    <3>2. batch' \in [Worker -> Batch] /\ lease' \subseteq Conv
      BY <2>1, Basics DEF NoClaim, ClearLease, TypeOK
    <3> QED  BY <3>1, <3>2 DEF NoClaim, TypeOK
  <2>2. CASE ~Claimable(c)
    BY <2>2, Basics DEF NoClaim, TypeOK
  <2> QED  BY <2>1, <2>2
<1>2. Forced'
  BY Basics DEF NoClaim, Forced, TypeOK
<1>3. \A v \in Worker : Extracts(v)' => Extracts(v) /\ batch'[v] = batch[v] /\ pc'[v] = pc[v]
                                        /\ (Matches(v)' => Matches(v))
  <2> SUFFICES ASSUME NEW v \in Worker, Extracts(v)'
               PROVE  Extracts(v) /\ batch'[v] = batch[v] /\ pc'[v] = pc[v]
                      /\ (Matches(v)' => Matches(v))
    OBVIOUS
  <2>1. v # w /\ pc'[v] = pc[v] /\ batch'[v] = batch[v]
    BY DEF Extracts, NoClaim, TypeOK
  <2>2. batch[v].conv \in Conv
    BY <2>1 DEF Extracts, Claims
  <2>3. Matches(v)' => Matches(v)
    BY <2>1, <2>2, Basics DEF Matches, NoClaim, ClearLease, TypeOK
  <2> QED  BY <2>1, <2>3 DEF Extracts
<1> QED  BY <1>1, <1>2, <1>3, QuietStep DEF NoClaim, Extracts

-----------------------------------------------------------------------------
(***************************************************************************)
(* The cursor moves: the batch was recorded, covered what lies between,    *)
(* and none of its turns had been counted.                                 *)
(***************************************************************************)
LEMMA CompleteStep ==
    ASSUME IInv, NEW w \in Worker, Complete(w)
    PROVE  IInv'
<1> DEFINE b == batch[w]
           c == b.conv
<1> USE DEF IInv, messageVars, stateVars
<1>1. /\ c \in Conv /\ b \in Batch /\ b.messages \subseteq told[c]
      /\ Matches(w) => Covers(b, c)
      /\ pc[w] = "recorded"
  BY DEF Complete, Claims, Extracts, TypeOK
<1>2. pc' \in [Worker -> {"idle", "next", "extracting", "recorded", "done"}]
      /\ batch' \in [Worker -> Batch]
      /\ \A v \in Worker : Extracts(v)' => v # w /\ pc'[v] = pc[v] /\ batch'[v] = batch[v]
  <2>1. CASE left[w] > 0
    BY <2>1 DEF Complete, TypeOK, Extracts
  <2>2. CASE ~(left[w] > 0)
    <3>1. /\ batch' = [batch EXCEPT ![w] = NoBatch]
          /\ \E x \in {"idle", "next", "done"} : pc' = [pc EXCEPT ![w] = x]
      BY <2>2 DEF Complete, Turned
    <3> QED  BY <3>1, Basics DEF TypeOK, Extracts
  <2> QED  BY <2>1, <2>2
<1>3. Forced'
  <2>1. CASE left[w] > 0
    <3>1. w \in Flusher
      BY <2>1 DEF Forced, Worker
    <3> QED  BY <2>1, <1>1, <3>1, Basics DEF Complete, Forced, TypeOK
  <2>2. CASE ~(left[w] > 0)
    BY <2>2, Basics DEF Complete, Turned, Forced, TypeOK
  <2> QED  BY <2>1, <2>2
<1>4. CASE ~Matches(w)
  <2>1. UNCHANGED <<cursor, count, holder, lease, target, waiting, closed>>
    BY <1>4 DEF Complete
  <2>2. TypeOK'
    BY <1>2, <2>1 DEF Complete, TypeOK
  <2>3. \A v \in Worker : Extracts(v)' => Extracts(v) /\ (Matches(v)' => Matches(v))
    BY <1>2, <2>1 DEF Extracts, Matches
  <2> QED  BY <1>2, <1>3, <2>1, <2>2, <2>3, QuietStep DEF Complete
<1>5. CASE Matches(w)
  <2>1. /\ cursor' = [cursor EXCEPT ![c] = b.target]
        /\ count' = [count EXCEPT ![c] = b.base + Cardinality(b.turns)]
        /\ closed' = [closed EXCEPT ![c] = @ \cup b.turns]
        /\ holder' = [holder EXCEPT ![c] = Nobody]
        /\ lease' = lease \ {c}
        /\ target' = [target EXCEPT ![c] = 0]
        /\ waiting' = waiting \ {c}
        /\ UNCHANGED <<log, kept, newer, idle, left, todo, doomed, faults, told>>
    BY <1>5 DEF Complete, ClearLease, Processed
  <2>2. Covers(b, c)
    BY <1>1, <1>5
  <2>3. /\ closed[c] \in SUBSET Pos /\ b.turns \in SUBSET Pos
        /\ closed[c] \cap b.turns = {}
        /\ b.target \in 0..MaxMsg /\ cursor[c] \in 0..MaxMsg
    BY <1>1, <2>2, PosNat DEF TypeOK, Batch, Counted, Covers
  <2>4. b.base + Cardinality(b.turns) = Cardinality(closed[c] \cup b.turns)
    <3> DEFINE S == closed[c]
               T == b.turns
    <3>1. /\ IsFiniteSet(S) /\ IsFiniteSet(T)
          /\ Cardinality(S) \in 0..MaxMsg /\ Cardinality(T) \in 0..MaxMsg
      BY <2>3, FiniteSubset
    <3>2. Cardinality(S \cup T) = Cardinality(S) + Cardinality(T) - Cardinality(S \cap T)
      BY <3>1, FS_Union
    <3>3. Cardinality(S \cap T) = 0
      BY <2>3, FS_EmptySet
    <3>4. b.base = Cardinality(S)
      BY <1>1, <2>2 DEF Covers, Counted
    <3> HIDE DEF S, T
    <3>5. Cardinality(S \cup T) = Cardinality(S) + Cardinality(T)
      BY <3>1, <3>2, <3>3, PosNat
    <3> QED  BY <3>4, <3>5 DEF S, T
  <2>5. b.base + Cardinality(b.turns) \in 0..MaxMsg
    BY <2>3, <2>4, FiniteSubset
  <2>6. TypeOK'
    <3>1. cursor' \in [Conv -> 0..MaxMsg] /\ count' \in [Conv -> 0..MaxMsg]
          /\ closed' \in [Conv -> SUBSET Pos]
      BY <1>1, <2>1, <2>3, <2>5 DEF TypeOK
    <3>2. /\ holder' \in [Conv -> Worker \cup {Nobody}] /\ target' \in [Conv -> 0..MaxMsg]
          /\ \A d \in Conv : (holder'[d] # Nobody <=> target'[d] # 0) /\ (d \in lease' => target'[d] # 0)
      BY <1>1, <2>1, PosNat DEF TypeOK
    <3> QED  BY <1>2, <2>1, <3>1, <3>2 DEF TypeOK
  <2>7. Stored' /\ NothingSkipped'
    <3> SUFFICES ASSUME NEW d \in Conv, NEW p \in Users(d), p <= cursor'[d]
                 PROVE  p \in told[d]
      BY <2>1 DEF Stored, NothingSkipped, Users
    <3>1. p \in Nat
      BY PosNat DEF Users, TypeOK
    <3>2. CASE d = c /\ cursor[c] < p
      BY <1>1, <2>1, <2>2, <3>2 DEF Covers, TypeOK
    <3>3. CASE d # c \/ ~(cursor[c] < p)
      <4>1. p <= cursor[d]
        BY <1>1, <2>1, <2>3, <3>1, <3>3, PosNat DEF TypeOK
      <4> QED  BY <4>1 DEF NothingSkipped
    <3> QED  BY <3>2, <3>3
  <2>8. Counted'
    <3> SUFFICES ASSUME NEW d \in Conv
                 PROVE  count'[d] = Cardinality(closed'[d]) /\ \A p \in closed'[d] : p <= cursor'[d]
      BY DEF Counted
    <3>1. CASE d = c
      <4>1. \A p \in closed[c] : p <= b.target
        BY <1>1, <2>2, <2>3, PosNat DEF Counted, Covers
      <4> QED  BY <3>1, <1>1, <2>1, <2>2, <2>4, <4>1 DEF Covers, TypeOK
    <3>2. CASE d # c
      BY <3>2, <1>1, <2>1 DEF Counted, TypeOK
    <3> QED  BY <3>1, <3>2
  <2>9. Claims'
    <3> SUFFICES ASSUME NEW v \in Worker, Extracts(v)'
                 PROVE  /\ batch'[v].conv \in Conv
                        /\ Matches(v)' => Covers(batch[v], batch[v].conv)'
                        /\ pc'[v] = "recorded" => batch'[v].messages \subseteq told'[batch'[v].conv]
      BY DEF Claims, Extracts
    <3>1. v # w /\ pc'[v] = pc[v] /\ batch'[v] = batch[v] /\ Extracts(v)
      BY <1>2 DEF Extracts
    <3> DEFINE d == batch[v].conv
    <3>2. d \in Conv
      BY <3>1 DEF Claims
    <3>3. CASE d = c
      BY <3>1, <3>3, <1>1, <2>1, Basics DEF Claims, Matches, TypeOK
    <3>4. CASE d # c
      <4>1. /\ Matches(v)' => Matches(v)
            /\ cursor'[d] = cursor[d] /\ count'[d] = count[d] /\ Users(d)' = Users(d)
            /\ told' = told /\ log' = log
        BY <3>1, <3>2, <3>4, <1>1, <2>1 DEF Matches, TypeOK, Users
      <4> QED  BY <3>1, <3>2, <4>1 DEF Claims, Covers
    <3> QED  BY <3>3, <3>4
  <2>10. Reached'
    BY <1>1, <2>1, <2>2 DEF Covers, Reached, TypeOK
  <2> QED  BY <1>3, <2>6, <2>7, <2>8, <2>9, <2>10
<1> QED  BY <1>4, <1>5

-----------------------------------------------------------------------------
(* A new message comes after every target on record                        *)

\* A new message lies beyond every cursor and every claim.
LEMMA StoreStep ==
    ASSUME IInv, NEW c \in Conv, NEW role \in Role, StoreMessage(c, role)
    PROVE  IInv'
<1> DEFINE n == Len(log[c]) + 1
<1> USE DEF IInv
<1>1. /\ log[c] \in Seq(Role) /\ n \in Pos /\ Len(log[c]) \in Nat
      /\ log' = [log EXCEPT ![c] = Append(@, role)]
      /\ kept' = [kept EXCEPT ![c] = @ \cup {n}]
      /\ UNCHANGED <<stateVars, workVars, doomed, faults, told, closed>>
  <2>1. log[c] \in Seq(Role) /\ Len(log[c]) \in Nat
    BY DEF TypeOK
  <2> QED  BY <2>1, PosNat DEF StoreMessage
<1> USE DEF stateVars, workVars
<1>2. Append(log[c], role) \in Seq(Role) /\ Len(Append(log[c], role)) = n
  BY <1>1
<1>3. \A p \in 1..Len(log[c]) : Append(log[c], role)[p] = log[c][p]
  BY <1>1
<1>4. /\ \A d \in Conv : Len(log'[d]) <= MaxMsg /\ Len(log[d]) <= Len(log'[d])
                          /\ Len(log[d]) \in Nat /\ Len(log'[d]) \in Nat
      /\ log' \in [Conv -> Seq(Role)]
      /\ n <= MaxMsg
  BY <1>1, <1>2, PosNat DEF TypeOK, StoreMessage
<1> HIDE DEF n
<1>5. \A d \in Conv : \A p \in Users(d)' : p \in Users(d) \/ (d = c /\ p = n)
  <2> SUFFICES ASSUME NEW d \in Conv, NEW p \in Users(d)', ~(d = c /\ p = n)
               PROVE  p \in Users(d)
    OBVIOUS
  <2>1. p \in kept[d]
    BY <1>1 DEF Users, TypeOK
  <2>2. p \in 1..Len(log[d])
    BY <2>1, PosNat DEF Stored, TypeOK
  <2>3. log'[d][p] = log[d][p]
    BY <1>1, <1>3, <2>2 DEF TypeOK
  <2> QED  BY <2>1, <2>3 DEF Users
<1>6. TypeOK'
  <2>1. newer' \in [Conv -> SUBSET Conv] /\ idle' \subseteq Conv
    BY DEF StoreMessage, TypeOK
  <2> QED  BY <1>1, <1>4, <2>1 DEF TypeOK
<1>7. Stored'
  <2> SUFFICES ASSUME NEW d \in Conv, NEW p \in kept'[d] PROVE p <= Len(log'[d])
    BY DEF Stored
  <2>1. CASE p \in kept[d]
    <3>1. p <= Len(log[d]) /\ p \in Nat
      BY <2>1, PosNat DEF Stored, TypeOK
    <3> QED  BY <3>1, <1>4
  <2>2. CASE p \notin kept[d]
    <3>1. d = c /\ p = n
      BY <2>2, <1>1 DEF TypeOK
    <3> QED  BY <3>1, <1>1, <1>2, <1>4 DEF TypeOK
  <2> QED  BY <2>1, <2>2
<1>8. NothingSkipped' /\ Counted' /\ Forced'
  <2>1. ~(n <= cursor[c])
    <3>1. cursor[c] <= Len(log[c])
      BY DEF Reached
    <3> QED  BY <3>1, <1>1, PosNat DEF n, TypeOK
  <2> QED  BY <1>1, <1>5, <2>1 DEF NothingSkipped, Counted, Forced
<1>9. Claims'
  <2> SUFFICES ASSUME NEW w \in Worker, Extracts(w), Matches(w)
               PROVE  Covers(batch[w], batch[w].conv)'
    BY <1>1 DEF Claims, Extracts, Matches
  <2> DEFINE d == batch[w].conv
  <2>1. d \in Conv /\ Covers(batch[w], d) /\ batch[w] \in Batch
    BY DEF Claims, TypeOK
  <2>2. batch[w].target <= Len(log'[d]) /\ batch[w].target \in Nat
    BY <1>4, <2>1, PosNat DEF Covers, Batch
  <2>3. d = c => ~(n <= batch[w].target)
    BY <1>1, <2>1, <2>2 DEF Covers, n
  <2> QED  BY <1>1, <1>5, <2>1, <2>2, <2>3 DEF Covers
<1>10. Reached'
  BY <1>1, <1>4, PosNat DEF Reached, TypeOK
<1> QED  BY <1>6, <1>7, <1>8, <1>9, <1>10

-----------------------------------------------------------------------------
(* Every step                                                              *)

\* Time, backoff and compaction leave claims as they are.
LEMMA QuietActions ==
    ASSUME IInv,
           \/ GrowIdle
           \/ \E c \in Conv : LeaseLapses(c) \/ BackoffEnds(c) \/ BeginCompaction(c) \/ EndCompaction(c)
           \/ BeginScan
           \/ UNCHANGED vars
    PROVE  IInv'
<1> USE DEF IInv, messageVars, stateVars, workVars
<1>1. CASE GrowIdle
  <2>1. TypeOK' /\ Forced'
    BY <1>1 DEF GrowIdle, TypeOK, Forced
  <2> QED  BY <1>1, <2>1, QuietStep DEF GrowIdle, Extracts, Matches
<1>2. ASSUME NEW c \in Conv, LeaseLapses(c)
      PROVE  IInv'
  <2>1. TypeOK' /\ Forced'
    BY <1>2 DEF LeaseLapses, TypeOK, Forced
  <2> QED  BY <1>2, <2>1, QuietStep DEF LeaseLapses, Extracts, Matches
<1>3. ASSUME NEW c \in Conv, BackoffEnds(c)
      PROVE  IInv'
  <2>1. TypeOK' /\ Forced'
    BY <1>3 DEF BackoffEnds, TypeOK, Forced
  <2> QED  BY <1>3, <2>1, QuietStep DEF BackoffEnds, Extracts, Matches
<1>4. ASSUME NEW c \in Conv, BeginCompaction(c)
      PROVE  IInv'
  <2>1. TypeOK' /\ Forced'
    BY <1>4 DEF BeginCompaction, Compactable, TypeOK, Forced
  <2> QED  BY <1>4, <2>1, QuietStep DEF BeginCompaction, Extracts, Matches
<1>5. ASSUME NEW c \in Conv, EndCompaction(c)
      PROVE  IInv'
  <2>2. kept' \in [Conv -> SUBSET Pos] /\ \A d \in Conv : kept'[d] \subseteq kept[d]
    <3>1. kept[c] \ doomed[c] \in SUBSET Pos /\ kept \in [Conv -> SUBSET Pos]
      BY DEF TypeOK
    <3>2. kept' = [kept EXCEPT ![c] = kept[c] \ doomed[c]] \/ kept' = kept
      BY <1>5 DEF EndCompaction
    <3> QED  BY <3>1, <3>2
  <2>1. TypeOK' /\ Forced'
    BY <1>5, <2>2 DEF EndCompaction, TypeOK, Forced
  <2> QED  BY <1>5, <2>1, <2>2, QuietStep DEF EndCompaction, Extracts, Matches
<1>6. CASE BeginScan
  <2>1. TypeOK' /\ Forced'
    BY <1>6, Basics DEF BeginScan, FirstCandidates, Candidates, TypeOK, Forced
  <2>2. \A v \in Worker : Extracts(v)' => Extracts(v) /\ pc'[v] = pc[v]
    BY <1>6 DEF BeginScan, Extracts, TypeOK
  <2> QED  BY <1>6, <2>1, <2>2, QuietStep DEF BeginScan, Extracts, Matches
<1>7. CASE UNCHANGED vars
  <2>1. TypeOK' /\ Forced'
    BY <1>7 DEF vars, TypeOK, Forced
  <2> QED  BY <1>7, <2>1, QuietStep DEF vars, Extracts, Matches
<1> QED  BY <1>1, <1>2, <1>3, <1>4, <1>5, <1>6, <1>7

\* Recording tells what the batch holds.
LEMMA RecordStep ==
    ASSUME IInv, NEW w \in Worker, Record(w)
    PROVE  IInv'
<1> USE DEF IInv, messageVars, stateVars
<1>1. batch[w].conv \in Conv /\ batch[w].messages \subseteq Pos
  BY DEF Record, Claims, Extracts, TypeOK, Batch
<1>2. TypeOK' /\ Forced'
  BY <1>1, Basics DEF Record, TypeOK, Forced
<1>3. \A c \in Conv : told[c] \subseteq told'[c]
  BY <1>1 DEF Record, TypeOK
<1>4. \A v \in Worker : Extracts(v)' =>
          /\ Extracts(v) /\ batch'[v] = batch[v] /\ (Matches(v)' => Matches(v))
          /\ (pc'[v] = "recorded" => pc[v] = "recorded" \/ batch[v].messages \subseteq told'[batch[v].conv])
  <2> SUFFICES ASSUME NEW v \in Worker, Extracts(v)'
               PROVE  /\ Extracts(v) /\ batch'[v] = batch[v] /\ (Matches(v)' => Matches(v))
                      /\ (pc'[v] = "recorded" => pc[v] = "recorded" \/ batch[v].messages \subseteq told'[batch[v].conv])
    OBVIOUS
  <2>1. batch'[v] = batch[v] /\ (Matches(v)' => Matches(v))
    BY DEF Record, Matches
  <2>2. CASE v = w
    BY <1>1, <2>1, <2>2 DEF Record, Extracts, TypeOK
  <2>3. CASE v # w
    BY <2>1, <2>3 DEF Record, Extracts, TypeOK
  <2> QED  BY <2>2, <2>3
<1> QED  BY <1>2, <1>3, <1>4, QuietStep DEF Record

\* A worker gives up its batch: it fails or dies.
LEMMA GiveUpStep ==
    ASSUME IInv, NEW w \in Worker, ExtractionFails(w) \/ Crash(w)
    PROVE  IInv'
<1> USE DEF IInv, messageVars, stateVars
<1>1. PICK x \in {"idle", "next", "done"} : pc' = [pc EXCEPT ![w] = x] /\ (w # Scan => x # "next")
  BY DEF ExtractionFails, Crash, Turned
<1>2. /\ batch' = [batch EXCEPT ![w] = NoBatch]
      /\ UNCHANGED <<log, kept, newer, idle, cursor, count, left, doomed, told, closed>>
      /\ faults' \in 0..MaxFaults
      /\ todo' \subseteq Conv
  BY MemoryAssumption DEF MemoryAssumption, ExtractionFails, Crash, TypeOK
<1>3. \/ UNCHANGED <<holder, lease, target, waiting>>
      \/ /\ batch[w].conv \in Conv
         /\ holder' = [holder EXCEPT ![batch[w].conv] = Nobody]
         /\ lease' = lease \ {batch[w].conv}
         /\ target' = [target EXCEPT ![batch[w].conv] = 0]
         /\ waiting' = waiting \cup {batch[w].conv}
  BY DEF ExtractionFails, Crash, ClearLease, Claims, Extracts
<1>4. TypeOK'
  <2>1. /\ holder' \in [Conv -> Worker \cup {Nobody}] /\ target' \in [Conv -> 0..MaxMsg]
        /\ \A d \in Conv : (holder'[d] # Nobody <=> target'[d] # 0) /\ (d \in lease' => target'[d] # 0)
        /\ lease' \subseteq Conv /\ waiting' \subseteq Conv
    <3>1. CASE UNCHANGED <<holder, lease, target, waiting>>
      BY <3>1 DEF TypeOK
    <3>2. CASE /\ batch[w].conv \in Conv
               /\ holder' = [holder EXCEPT ![batch[w].conv] = Nobody]
               /\ lease' = lease \ {batch[w].conv}
               /\ target' = [target EXCEPT ![batch[w].conv] = 0]
               /\ waiting' = waiting \cup {batch[w].conv}
      BY <3>2, PosNat DEF TypeOK
    <3> QED  BY <1>3, <3>1, <3>2
  <2> QED  BY <1>1, <1>2, <2>1, Basics DEF TypeOK
<1>5. Forced'
  BY <1>1, <1>2, Basics DEF Forced, TypeOK
<1>6. \A v \in Worker : Extracts(v)' => Extracts(v) /\ batch'[v] = batch[v] /\ pc'[v] = pc[v]
                                        /\ (Matches(v)' => Matches(v))
  <2> SUFFICES ASSUME NEW v \in Worker, Extracts(v)'
               PROVE  Extracts(v) /\ batch'[v] = batch[v] /\ pc'[v] = pc[v]
                      /\ (Matches(v)' => Matches(v))
    OBVIOUS
  <2>1. v # w /\ pc'[v] = pc[v] /\ batch'[v] = batch[v] /\ Extracts(v)
    BY <1>1, <1>2 DEF Extracts, TypeOK
  <2>2. batch[v].conv \in Conv
    BY <2>1 DEF Claims
  <2>3. Matches(v)' => Matches(v)
    <3>1. CASE UNCHANGED <<holder, target>>
      BY <2>1, <3>1 DEF Matches
    <3>2. CASE /\ batch[w].conv \in Conv
               /\ holder' = [holder EXCEPT ![batch[w].conv] = Nobody]
               /\ target' = [target EXCEPT ![batch[w].conv] = 0]
      BY <2>1, <2>2, <3>2, Basics DEF Matches, TypeOK
    <3> QED  BY <1>3, <3>1, <3>2
  <2> QED  BY <2>1, <2>3
<1> QED  BY <1>2, <1>4, <1>5, <1>6, QuietStep

\* A forced flush or the scan claims its next batch.
LEMMA FlushStep ==
    ASSUME IInv,
           \/ \E w \in Flusher, c \in Conv : BeginFlush(w, c)
           \/ \E w \in Worker : FlushNext(w)
           \/ ScanNext
    PROVE  IInv'
<1> USE DEF IInv
<1>1. ASSUME NEW w \in Flusher, NEW c \in Conv, BeginFlush(w, c)
      PROVE  IInv'
  <2>1. CASE Claim(w, c) /\ left' = [left EXCEPT ![w] = MaxBatches - 1]
    <3>1. MaxBatches - 1 \in 0..MaxBatches
      BY MemoryAssumption DEF MemoryAssumption
    <3>2. /\ left' \in [Worker -> 0..MaxBatches] /\ left'[Scan] = 0
          /\ \A v \in Flusher : v # w => left'[v] = left[v]
      BY <2>1, <3>1, Basics DEF TypeOK, Forced
    <3> QED  BY <1>1, <2>1, <3>2, ClaimStep, Basics DEF BeginFlush, TypeOK
  <2>2. CASE NoClaim(w, c) /\ pc' = [pc EXCEPT ![w] = "done"] /\ UNCHANGED left
    BY <1>1, <2>2, NoClaimStep, Basics DEF BeginFlush, TypeOK
  <2> QED  BY <1>1, <2>1, <2>2 DEF BeginFlush
<1>2. ASSUME NEW w \in Worker, FlushNext(w)
      PROVE  IInv'
  <2>1. w \in Flusher /\ batch[w].conv \in Conv /\ left[w] > 0
    BY <1>2 DEF FlushNext, Forced
  <2>2. CASE Claim(w, batch[w].conv) /\ left' = [left EXCEPT ![w] = @ - 1]
    <3>1. left[w] - 1 \in 0..MaxBatches
      <4>1. left[w] \in 0..MaxBatches /\ MaxBatches \in Nat
        BY MemoryAssumption DEF MemoryAssumption, TypeOK
      <4> QED  BY <2>1, <4>1
    <3>2. /\ left' \in [Worker -> 0..MaxBatches] /\ left'[Scan] = 0
          /\ \A v \in Flusher : v # w => left'[v] = left[v]
      BY <2>1, <2>2, <3>1, Basics DEF TypeOK, Forced
    <3> QED  BY <1>2, <2>1, <2>2, <3>2, ClaimStep DEF FlushNext, TypeOK
  <2>3. CASE NoClaim(w, batch[w].conv) /\ pc' = [pc EXCEPT ![w] = "done"] /\ UNCHANGED left
    BY <1>2, <2>1, <2>3, NoClaimStep DEF FlushNext, TypeOK
  <2> QED  BY <1>2, <2>2, <2>3 DEF FlushNext
<1>3. CASE ScanNext
  <2>1. PICK c \in todo :
            /\ todo' = todo \ {c}
            /\ \/ Claim(Scan, c) /\ left' = [left EXCEPT ![Scan] = 0]
               \/ /\ NoClaim(Scan, c) /\ UNCHANGED left
                  /\ pc' = [pc EXCEPT ![Scan] = IF todo = {c} THEN "idle" ELSE "next"]
    BY <1>3 DEF ScanNext
  <2>2. c \in Conv /\ todo' \subseteq Conv
    BY <2>1 DEF TypeOK
  <2>3. CASE Claim(Scan, c) /\ left' = [left EXCEPT ![Scan] = 0]
    <3>1. /\ left' \in [Worker -> 0..MaxBatches] /\ left'[Scan] = 0
          /\ \A v \in Flusher : v # Scan => left'[v] = left[v]
      BY <2>3, Basics, MemoryAssumption DEF MemoryAssumption, TypeOK
    <3>2. \A v \in Flusher : left'[v] = left[v]
      BY <3>1, Basics
    <3> QED  BY <1>3, <2>2, <2>3, <3>1, <3>2, ClaimStep, Basics DEF ScanNext
  <2>4. CASE NoClaim(Scan, c) /\ UNCHANGED left
             /\ pc' = [pc EXCEPT ![Scan] = IF todo = {c} THEN "idle" ELSE "next"]
    <3>1. PICK x \in {"idle", "next", "done"} : pc' = [pc EXCEPT ![Scan] = x]
      BY <2>4
    <3> QED  BY <1>3, <2>2, <2>4, <3>1, NoClaimStep, Basics DEF ScanNext
  <2> QED  BY <2>1, <2>3, <2>4
<1> QED  BY <1>1, <1>2, <1>3

\* Every action keeps the invariant.
LEMMA IStep == IInv /\ [Next]_vars => IInv'
<1> SUFFICES ASSUME IInv, [Next]_vars PROVE IInv'
  OBVIOUS
<1>1. CASE \E c \in Conv, role \in Role : StoreMessage(c, role)
  BY <1>1, StoreStep
<1>2. CASE \E w \in Worker : Record(w)
  BY <1>2, RecordStep
<1>3. CASE \E w \in Worker : Complete(w)
  BY <1>3, CompleteStep
<1>4. CASE \E w \in Worker : ExtractionFails(w) \/ Crash(w)
  BY <1>4, GiveUpStep
<1> QED  BY <1>1, <1>2, <1>3, <1>4, QuietActions, FlushStep DEF Next, WorkStep

\* It holds in every behaviour.
LEMMA Invariance == Spec => []IInv
BY IInit, IStep, PTL DEF Spec

-----------------------------------------------------------------------------
(***************************************************************************)
(* The theorems                                                            *)
(***************************************************************************)

\* Cursors, counts, claims and batches stay within their types, and a token
\* is on record exactly when a target is.
THEOREM TypeCorrect == Spec => []TypeOK
BY Invariance, PTL DEF IInv

\* last_processed_turn_count is the number of turns the cursor has passed in
\* batches, each counted once.
THEOREM TurnsCountedOnce == Spec => []CountedOnce
<1>1. IInv => CountedOnce
  BY DEF IInv, Counted, CountedOnce
<1> QED  BY <1>1, Invariance, PTL

-----------------------------------------------------------------------------
(***************************************************************************)
(* The refinement.  A batch holds only messages that were said, so each    *)
(* record tells of such; a completion whose claim still matches moves the  *)
(* cursor to its target, over questions that its record has told of.       *)
(***************************************************************************)
SaidOnly == \A w \in Worker : Extracts(w) => batch[w].messages \subseteq 1..Len(log[batch[w].conv])

\* What a claim takes has been said.
LEMMA ClaimSaid ==
    ASSUME IInv, NEW w \in Worker, NEW c \in Conv, Claim(w, c), log' = log
    PROVE  batch'[w].messages \subseteq 1..Len(log'[batch'[w].conv])
<1> DEFINE turns == Selected(c)
<1>1. turns \subseteq kept[c] /\ \A p \in turns : Asked(c, p) \subseteq kept[c]
  BY Basics, SelectedType DEF IInv, Assistants, Asked, Users
<1>2. kept[c] \subseteq 1..Len(log[c])
  BY PosNat DEF IInv, TypeOK, Stored
<1>3. batch'[w].conv = c /\ batch'[w].messages = turns \cup UNION {Asked(c, p) : p \in turns}
  BY DEF Claim, IInv, TypeOK
<1> HIDE DEF turns
<1>4. UNION {Asked(c, p) : p \in turns} \subseteq kept[c]
  BY <1>1
<1> QED  BY <1>1, <1>2, <1>3, <1>4

\* A worker has the batch it had, or claims one in this step.
LEMMA BatchFrom ==
    ASSUME IInv, [Next]_vars, NEW w \in Worker, Extracts(w)'
    PROVE  \/ Extracts(w) /\ batch'[w] = batch[w]
           \/ UNCHANGED <<messageVars, doomed, told, closed>> /\ \E c \in Conv : Claim(w, c)
<1> DEFINE Same  == Extracts(w) /\ batch'[w] = batch[w]
           Takes == UNCHANGED <<messageVars, doomed, told, closed>> /\ \E c \in Conv : Claim(w, c)
<1> SUFFICES Same \/ Takes
  OBVIOUS
<1>1. ASSUME UNCHANGED <<pc, batch>> PROVE Same
  BY <1>1 DEF Extracts
<1>2. ASSUME NEW v \in Worker, NEW c \in Conv, Claim(v, c), UNCHANGED <<messageVars, doomed, told, closed>>
      PROVE  Same \/ Takes
  <2>1. CASE v = w
    BY <1>2, <2>1
  <2>2. CASE v # w
    BY <1>2, <2>2 DEF Claim, IInv, TypeOK, Extracts
  <2> QED BY <2>1, <2>2
<1>3. ASSUME NEW v \in Worker, NEW x \in {"idle", "next", "done"}, pc' = [pc EXCEPT ![v] = x],
             \A u \in Worker : u # v => batch'[u] = batch[u]
      PROVE  Same
  <2>1. v # w
    BY <1>3 DEF Extracts, IInv, TypeOK
  <2> QED  BY <1>3, <2>1 DEF Extracts, IInv, TypeOK
<1>4. ASSUME NEW v \in Worker, Record(v) PROVE Same
  BY <1>4 DEF Record, Extracts, IInv, TypeOK
<1>5. ASSUME NEW v \in Worker, NEW c \in Conv, NoClaim(v, c),
             NEW x \in {"idle", "next", "done"}, pc' = [pc EXCEPT ![v] = x]
      PROVE  Same
  <2>1. \A u \in Worker : u # v => batch'[u] = batch[u]
    BY <1>5 DEF NoClaim, IInv, TypeOK
  <2> QED  BY <1>3, <1>5, <2>1
<1>6. ASSUME NEW v \in Flusher, NEW c \in Conv, BeginFlush(v, c) PROVE Same \/ Takes
  <2>1. v \in Worker /\ UNCHANGED <<messageVars, doomed, told, closed>>
    BY <1>6 DEF BeginFlush, Worker
  <2> QED  BY <1>2, <1>5, <1>6, <2>1 DEF BeginFlush
<1>7. ASSUME NEW v \in Worker, FlushNext(v) PROVE Same \/ Takes
  <2>1. UNCHANGED <<messageVars, doomed, told, closed>> /\ batch[v].conv \in Conv
    BY <1>7 DEF FlushNext, IInv, Forced
  <2> QED  BY <1>2, <1>5, <1>7, <2>1 DEF FlushNext
<1>8. CASE ScanNext
  <2>1. PICK c \in todo :
            \/ Claim(Scan, c)
            \/ /\ NoClaim(Scan, c)
               /\ pc' = [pc EXCEPT ![Scan] = IF todo = {c} THEN "idle" ELSE "next"]
    BY <1>8 DEF ScanNext
  <2>2. c \in Conv /\ UNCHANGED <<messageVars, doomed, told, closed>> /\ Scan \in Worker
    BY <1>8, <2>1 DEF ScanNext, IInv, TypeOK, Worker
  <2>3. CASE Claim(Scan, c)
    BY <1>2, <2>2, <2>3
  <2>4. CASE NoClaim(Scan, c) /\ pc' = [pc EXCEPT ![Scan] = IF todo = {c} THEN "idle" ELSE "next"]
    <3>1. PICK x \in {"idle", "next", "done"} : pc' = [pc EXCEPT ![Scan] = x]
      BY <2>4
    <3> QED  BY <1>5, <2>2, <2>4, <3>1
  <2> QED  BY <2>1, <2>3, <2>4
<1>9. ASSUME NEW v \in Worker, Complete(v) \/ ExtractionFails(v) \/ Crash(v) PROVE Same
  <2>1. PICK x \in {"idle", "next", "done"} : pc' = [pc EXCEPT ![v] = x]
    BY <1>9 DEF Complete, ExtractionFails, Crash, Turned
  <2>2. \A u \in Worker : u # v => batch'[u] = batch[u]
    BY <1>9 DEF Complete, ExtractionFails, Crash, IInv, TypeOK
  <2> QED  BY <1>3, <2>1, <2>2
<1>10. CASE BeginScan
  BY <1>10 DEF BeginScan, Extracts, IInv, TypeOK
<1>11. CASE \/ GrowIdle \/ UNCHANGED vars
            \/ \E c \in Conv, role \in Role : StoreMessage(c, role)
            \/ \E c \in Conv : LeaseLapses(c) \/ BackoffEnds(c) \/ BeginCompaction(c) \/ EndCompaction(c)
  BY <1>1, <1>11 DEF GrowIdle, StoreMessage, LeaseLapses, BackoffEnds, BeginCompaction, EndCompaction,
     vars, workVars
<1> HIDE DEF Same, Takes
<1> QED
  BY <1>4, <1>6, <1>7, <1>8, <1>9, <1>10, <1>11 DEF Next, WorkStep

\* Messages are never unsaid.
LEMMA LogGrows ==
    ASSUME IInv, IInv', [Next]_vars, NEW c \in Conv
    PROVE  /\ Len(log[c]) \in Nat /\ Len(log'[c]) \in Nat /\ Len(log[c]) <= Len(log'[c])
           /\ \A p \in 1..Len(log[c]) : log'[c][p] = log[c][p]
<1>1. log[c] \in Seq(Role) /\ log'[c] \in Seq(Role)
  BY DEF IInv, TypeOK
<1>2. CASE log' = log
  BY <1>1, <1>2
<1>3. ASSUME NEW d \in Conv, NEW role \in Role, StoreMessage(d, role)
      PROVE  log'[c] = log[c] \/ log'[c] = Append(log[c], role)
  BY <1>3 DEF StoreMessage, IInv, TypeOK
<1>4. log' = log \/ \E d \in Conv, role \in Role : StoreMessage(d, role)
  BY DEF Next, WorkStep, vars, messageVars, GrowIdle, LeaseLapses, BackoffEnds, BeginFlush, BeginScan,
         ScanNext, Complete, FlushNext, ExtractionFails, Crash, Record, BeginCompaction, EndCompaction
<1>5. ASSUME NEW role \in Role, log'[c] = Append(log[c], role)
      PROVE  /\ Len(log[c]) \in Nat /\ Len(log'[c]) \in Nat /\ Len(log[c]) <= Len(log'[c])
             /\ \A p \in 1..Len(log[c]) : log'[c][p] = log[c][p]
  BY <1>1, <1>5
<1> QED  BY <1>1, <1>2, <1>3, <1>4, <1>5

\* A batch is what its claim took.
LEMMA SaidStep == IInv /\ IInv' /\ SaidOnly /\ [Next]_vars => SaidOnly'
<1> SUFFICES ASSUME IInv, IInv', SaidOnly, [Next]_vars, NEW w \in Worker, Extracts(w)'
             PROVE  batch'[w].messages \subseteq 1..Len(log'[batch'[w].conv])
  BY DEF SaidOnly
<1>1. CASE Extracts(w) /\ batch'[w] = batch[w]
  <2>1. batch[w].conv \in Conv
    BY <1>1 DEF IInv, Claims
  <2>2. 1..Len(log[batch[w].conv]) \subseteq 1..Len(log'[batch[w].conv])
    BY <2>1, LogGrows
  <2> QED  BY <1>1, <2>2 DEF SaidOnly
<1>2. ASSUME NEW c \in Conv, Claim(w, c), UNCHANGED messageVars
      PROVE  batch'[w].messages \subseteq 1..Len(log'[batch'[w].conv])
  BY <1>2, ClaimSaid DEF messageVars
<1> QED  BY <1>1, <1>2, BatchFrom

\* Storing a message is saying it; only a user message is asked.
LEMMA StoreSays ==
    ASSUME IInv, NEW c \in Conv, NEW role \in Role, StoreMessage(c, role)
    PROVE  Promise!Say(c)
<1> DEFINE n == Len(log[c]) + 1
<1>1. /\ log' = [log EXCEPT ![c] = Append(log[c], role)]
      /\ kept' = [kept EXCEPT ![c] = kept[c] \cup {n}]
      /\ UNCHANGED <<told, cursor>>
  BY DEF StoreMessage, stateVars
<1>2. log[c] \in Seq(Role) /\ log \in [Conv -> Seq(Role)] /\ kept \in [Conv -> SUBSET Pos]
  BY DEF IInv, TypeOK
<1>3. log'[c] = Append(log[c], role) /\ kept'[c] = kept[c] \cup {n}
  BY <1>1, <1>2
<1>4. Len(log'[c]) = Len(log[c]) + 1 /\ Len(log[c]) \in Nat
  BY <1>2, <1>3
<1>5. \A p \in kept[c] : p \in 1..Len(log[c]) /\ log'[c][p] = log[c][p]
  <2>1. \A p \in kept[c] : p \in 1..Len(log[c])
    BY PosNat, <1>4 DEF IInv, TypeOK, Stored
  <2> QED  BY <1>2, <1>3, <2>1
<1>6. log'[c][n] = role
  BY <1>2, <1>3
<1>7. Users(c)' = IF role = "user" THEN Users(c) \cup {n} ELSE Users(c)
  BY <1>3, <1>5, <1>6 DEF Users
<1>8. \A d \in Conv : d # c => Len(log'[d]) = Len(log[d]) /\ Users(d)' = Users(d)
  BY <1>1, <1>2 DEF Users
<1>9. [d \in Conv |-> Len(log'[d])] = [[d \in Conv |-> Len(log[d])] EXCEPT ![c] = Len(log[c]) + 1]
  BY <1>4, <1>8
<1>10. \/ [d \in Conv |-> Users(d)'] = [[d \in Conv |-> Users(d)] EXCEPT ![c] = Users(c) \cup {n}]
       \/ [d \in Conv |-> Users(d)'] = [d \in Conv |-> Users(d)]
  <2>1. CASE role = "user"  BY <1>7, <1>8, <2>1
  <2>2. CASE role # "user"  BY <1>7, <1>8, <2>2
  <2> QED  BY <2>1, <2>2
<1> QED  BY <1>1, <1>9, <1>10 DEF Promise!Say

\* Recording a batch tells the ledger of messages that were said.
LEMMA RecordTells ==
    ASSUME IInv, SaidOnly, NEW w \in Worker, Record(w)
    PROVE  \E c \in Conv : Promise!Tell(c)
<1>1. /\ batch[w].conv \in Conv
      /\ batch[w].messages \subseteq 1..Len(log[batch[w].conv])
  BY DEF IInv, Claims, Extracts, SaidOnly, Record
<1>2. /\ told' = [told EXCEPT ![batch[w].conv] = @ \cup batch[w].messages]
      /\ UNCHANGED <<log, kept, cursor>>
  BY DEF Record, messageVars, stateVars
<1> QED  BY <1>1, <1>2 DEF Promise!Tell, Users

\* A completion whose claim matches advances the mark.
LEMMA CompleteAdvances ==
    ASSUME IInv, NEW w \in Worker, Complete(w), Matches(w)
    PROVE  \E c \in Conv : Promise!Advance(c)
<1> DEFINE c == batch[w].conv
           b == batch[w]
<1>1. /\ c \in Conv /\ Covers(b, c) /\ b.messages \subseteq told[c]
      /\ b \in Batch
  BY DEF IInv, Complete, Claims, Extracts, TypeOK
<1>2. cursor' = [cursor EXCEPT ![c] = b.target] /\ UNCHANGED <<log, kept, told>>
  BY DEF Complete, messageVars
<1>3. cursor[c] < b.target /\ b.target <= Len(log[c]) /\ b.target \in Nat /\ cursor[c] \in Nat
      /\ Len(log[c]) \in Nat
  BY <1>1, PosNat DEF Covers, Batch, IInv, TypeOK
<1>4. b.target \in 1..Len(log[c])
  BY <1>3
<1>5. ASSUME NEW p \in Users(c), p <= b.target PROVE p \in told[c]
  <2>1. p \in Nat  BY <1>1, <1>5, PosNat DEF Users, IInv, TypeOK
  <2>2. CASE p <= cursor[c]  BY <1>1, <2>2 DEF IInv, NothingSkipped
  <2>3. CASE cursor[c] < p  BY <1>1, <1>5, <2>3 DEF Covers
  <2> QED  BY <1>3, <2>1, <2>2, <2>3
<1> HIDE DEF b, c
<1> QED  BY <1>1, <1>2, <1>3, <1>4, <1>5 DEF Promise!Advance, Users

\* Compaction forgets.
LEMMA CompactionForgets ==
    ASSUME IInv, NEW c \in Conv, EndCompaction(c)
    PROVE  Promise!Forget(c)
<1>1. /\ kept' = [kept EXCEPT ![c] = kept'[c]] /\ kept'[c] \subseteq kept[c]
      /\ UNCHANGED <<log, told, cursor>>
  BY DEF EndCompaction, IInv, TypeOK, stateVars
<1>2. Users(c)' \subseteq Users(c)
  BY <1>1 DEF Users
<1>3. \A d \in Conv : d # c => Users(d)' = Users(d)
  BY <1>1 DEF Users, IInv, TypeOK
<1>4. [d \in Conv |-> Users(d)'] = [[d \in Conv |-> Users(d)] EXCEPT ![c] = Users(c)']
  BY <1>3
<1> QED  BY <1>1, <1>2, <1>4 DEF Promise!Forget

\* Every step of the extraction is a step of its promise, or none.
LEMMA PromiseStep == IInv /\ SaidOnly /\ [Next]_vars => [Promise!Next]_(Promise!vars)
<1> SUFFICES ASSUME IInv, SaidOnly, [Next]_vars PROVE [Promise!Next]_(Promise!vars)
  OBVIOUS
<1>1. ASSUME UNCHANGED <<log, kept, told, cursor>> PROVE UNCHANGED Promise!vars
  BY <1>1 DEF Promise!vars, Users
<1>2. CASE \E c \in Conv, role \in Role : StoreMessage(c, role)
  BY <1>2, StoreSays DEF Promise!Next
<1>3. CASE \E w \in Worker : Record(w)
  BY <1>3, RecordTells DEF Promise!Next
<1>4. CASE \E w \in Worker : Complete(w) /\ Matches(w)
  BY <1>4, CompleteAdvances DEF Promise!Next
<1>5. CASE \E c \in Conv : EndCompaction(c)
  BY <1>5, CompactionForgets DEF Promise!Next
<1>6. \/ UNCHANGED <<log, kept, told, cursor>>
      \/ \E c \in Conv, role \in Role : StoreMessage(c, role)
      \/ \E w \in Worker : Record(w)
      \/ \E w \in Worker : Complete(w) /\ Matches(w)
      \/ \E c \in Conv : EndCompaction(c)
  BY DEF Next, WorkStep, vars, messageVars, stateVars, GrowIdle, LeaseLapses, BackoffEnds,
         BeginFlush, BeginScan, ScanNext, Claim, NoClaim, Complete, FlushNext,
         ExtractionFails, Crash, BeginCompaction
<1> QED  BY <1>1, <1>2, <1>3, <1>4, <1>5, <1>6

\* ConversationMemory implements MemoryPromise: with any number of workers,
\* lapsed leases, takeovers, crashes and compactions, the cursor moves forward
\* only and over no question that the ledger has not been told of.
THEOREM Refinement == Spec => KeepsPromise
<1>1. Init => Promise!Init
  BY DEF Init, Promise!Init, Users
<1>2. Init => SaidOnly
  BY DEF Init, SaidOnly, Extracts
<1>3. IInv /\ SaidOnly /\ [Next]_vars => [Promise!Next]_(Promise!vars)
  BY PromiseStep
<1>4. IInv /\ IInv' /\ SaidOnly /\ [Next]_vars => SaidOnly'
  BY SaidStep
<1> QED  BY <1>1, <1>2, <1>3, <1>4, Invariance, PTL DEF Spec, KeepsPromise, Promise!Spec

-----------------------------------------------------------------------------
(***************************************************************************)
(* Where turns go.  The invariants: what the ledger was told of, what a    *)
(* batch holds, and what a compaction may be about to delete.              *)
(***************************************************************************)

\* The cursor stands at an answer that a completed batch held, and the ledger
\* was told of all such answers.
Vouched ==
    \A c \in Conv :
        /\ closed[c] \subseteq told[c]
        /\ cursor[c] # 0 => cursor[c] \in closed[c]

\* A batch holds its turns, which are answers, and the target is one of them.
Answers(b) ==
    /\ b.turns \subseteq b.messages
    /\ b.target \in b.turns
    /\ \A p \in b.turns : p \in 1..Len(log[b.conv]) /\ log[b.conv][p] = "assistant"

BatchAnswers == \A w \in Worker : Extracts(w) => Answers(batch[w])

\* What a step does to messages and cursors.
LEMMA StepKinds ==
    ASSUME [Next]_vars
    PROVE  \/ UNCHANGED <<log, kept, cursor, closed, doomed>> /\ (told' = told \/ \E w \in Worker : Record(w))
           \/ \E c \in Conv, role \in Role : StoreMessage(c, role)
           \/ \E w \in Worker : Complete(w) /\ Matches(w)
           \/ \E c \in Conv : BeginCompaction(c) \/ EndCompaction(c)
BY DEF Next, WorkStep, vars, messageVars, stateVars, GrowIdle, LeaseLapses, BackoffEnds,
       BeginFlush, BeginScan, ScanNext, Claim, NoClaim, Record, Complete, FlushNext,
       ExtractionFails, Crash

\* What a claim takes is a batch of answers, all that are new up to its target.
LEMMA ClaimAnswers ==
    ASSUME IInv, NEW w \in Worker, NEW c \in Conv, Claim(w, c), UNCHANGED messageVars
    PROVE  /\ Answers(batch[w])'
           /\ batch'[w].conv = c
           /\ \A p \in NewTurns(c) : p <= batch'[w].target => p \in batch'[w].turns
<1> DEFINE turns == Selected(c)
           last  == CHOOSE p \in turns : \A q \in turns : q <= p
           b     == [conv |-> c, target |-> last, turns |-> turns, base |-> count[c],
                     messages |-> turns \cup UNION {Asked(c, p) : p \in turns}]
<1>1. batch'[w] = b /\ turns # {}
  BY DEF Claim, IInv, TypeOK
<1>2. MessageTypes /\ turns \in SUBSET Pos
  BY Basics, SelectedType DEF IInv
<1>3. last \in turns
  <2>1. \E p \in turns : \A q \in turns : q <= p
    <3> HIDE DEF turns
    <3> QED  BY <1>1, <1>2, LastExists
  <2> HIDE DEF turns
  <2> QED  BY <2>1
<1>4. \A p \in turns : p \in 1..Len(log[c]) /\ log[c][p] = "assistant"
  <2> SUFFICES ASSUME NEW p \in turns PROVE p \in 1..Len(log[c]) /\ log[c][p] = "assistant"
    OBVIOUS
  <2>1. p \in Assistants(c) /\ p \in Pos
    BY <1>2, SelectedType
  <2> QED  BY <2>1, PosNat DEF Assistants, IInv, TypeOK, Stored
<1>5. ASSUME NEW p \in NewTurns(c), p <= last PROVE p \in turns
  <2> DEFINE A == {x \in NewTurns(c) : x < p}
             B == {x \in NewTurns(c) : x < last}
  <2>1. A \in SUBSET B /\ A \in SUBSET Pos /\ B \in SUBSET Pos
    <3>1. NewTurns(c) \in SUBSET Pos /\ last \in Pos
      BY <1>2, <1>3, SelectedType
    <3> HIDE DEF last
    <3> QED  BY <1>5, <3>1, PosNat
  <2>2. Cardinality(B) < BatchTurns
    <3>1. last \in Selected(c)
      BY <1>3
    <3> HIDE DEF last
    <3> QED  BY <3>1 DEF Selected
  <2> HIDE DEF A, B
  <2>3. IsFiniteSet(B) /\ Cardinality(A) \in 0..MaxMsg /\ Cardinality(B) \in 0..MaxMsg
    BY <2>1, FiniteSubset
  <2>4. Cardinality(A) <= Cardinality(B)
    BY <2>1, <2>3, FS_Subset
  <2>5. Cardinality(A) < BatchTurns
    BY <2>2, <2>3, <2>4, PosNat, MemoryAssumption DEF MemoryAssumption
  <2> QED  BY <2>5 DEF Selected, A
<1>6. b.conv = c /\ b.target = last /\ b.turns = turns /\ turns \subseteq b.messages
  OBVIOUS
<1> HIDE DEF turns, last, b
<1>7. log' = log
  BY DEF messageVars
<1> QED  BY <1>1, <1>3, <1>4, <1>5, <1>6, <1>7 DEF Answers

\* A batch stays what its claim took.
LEMMA AnswersStep == IInv /\ IInv' /\ BatchAnswers /\ [Next]_vars => BatchAnswers'
<1> SUFFICES ASSUME IInv, IInv', BatchAnswers, [Next]_vars, NEW w \in Worker, Extracts(w)'
             PROVE  Answers(batch[w])'
  BY DEF BatchAnswers
<1>1. CASE Extracts(w) /\ batch'[w] = batch[w]
  <2>1. batch[w].conv \in Conv /\ Answers(batch[w])
    BY <1>1 DEF IInv, Claims, BatchAnswers
  <2>2. \A p \in 1..Len(log[batch[w].conv]) :
            p \in 1..Len(log'[batch[w].conv]) /\ log'[batch[w].conv][p] = log[batch[w].conv][p]
    BY <2>1, LogGrows
  <2> QED  BY <1>1, <2>1, <2>2 DEF Answers
<1>2. ASSUME NEW c \in Conv, Claim(w, c), UNCHANGED messageVars
      PROVE  Answers(batch[w])'
  BY <1>2, ClaimAnswers
<1> QED  BY <1>1, <1>2, BatchFrom

\* A completion moves the cursor to an answer of a recorded batch.
LEMMA VouchedStep == IInv /\ IInv' /\ BatchAnswers /\ Vouched /\ [Next]_vars => Vouched'
<1> SUFFICES ASSUME IInv, IInv', BatchAnswers, Vouched, [Next]_vars PROVE Vouched'
  OBVIOUS
<1>1. ASSUME UNCHANGED <<cursor, closed, told>> PROVE Vouched'
  BY <1>1 DEF Vouched
<1>2. ASSUME NEW w \in Worker, Record(w) PROVE Vouched'
  BY <1>2 DEF Record, stateVars, Vouched, IInv, TypeOK
<1>3. ASSUME NEW w \in Worker, Complete(w), Matches(w) PROVE Vouched'
  <2>1. /\ batch[w].conv \in Conv /\ batch[w].messages \subseteq told[batch[w].conv]
        /\ Answers(batch[w])
    BY <1>3 DEF Complete, IInv, Claims, Extracts, BatchAnswers
  <2>2. /\ cursor' = [cursor EXCEPT ![batch[w].conv] = batch[w].target]
        /\ closed' = [closed EXCEPT ![batch[w].conv] = @ \cup batch[w].turns]
        /\ told' = told
    BY <1>3 DEF Complete
  <2> QED  BY <2>1, <2>2 DEF Vouched, Answers, IInv, TypeOK
<1>4. \/ UNCHANGED <<cursor, closed, told>>
      \/ \E w \in Worker : Record(w)
      \/ \E w \in Worker : Complete(w) /\ Matches(w)
  BY StepKinds DEF StoreMessage, BeginCompaction, EndCompaction, stateVars
<1> QED  BY <1>1, <1>2, <1>3, <1>4

\* The cursor never rests on a turn that the ledger was not told of: the answer
\* it stands at, and every turn that last_processed_turn_count counts, was
\* recorded before complete_claim moved it.
THEOREM CursorIsVouched == Spec => []Vouched
<1>1. Init => Vouched /\ BatchAnswers
  BY DEF Init, Vouched, BatchAnswers, Extracts
<1> QED  BY <1>1, AnswersStep, VouchedStep, Invariance, PTL DEF Spec

-----------------------------------------------------------------------------
(***************************************************************************)
(* What becomes of a new turn.  Compaction deletes from the front, and     *)
(* with a question all that follows it up to the next question, so that    *)
(* what is left of a conversation has the turns it had.                    *)
(***************************************************************************)

\* The messages still in the table are the latest.
KeptTop == \A c \in Conv : \A p \in kept[c] : \A q \in p..Len(log[c]) : q \in kept[c]

DoomedOk ==
    \A c \in Conv :
        /\ doomed[c] \subseteq kept[c]
        /\ \A p \in doomed[c], q \in kept[c] : q <= p => q \in doomed[c]

\* A claim that still counts holds every new turn up to its target.
TurnsCovered ==
    \A w \in Worker : Extracts(w) /\ Matches(w) =>
        \A p \in NewTurns(batch[w].conv) : p <= batch[w].target => p \in batch[w].turns

TurnInv == IInv /\ BatchAnswers /\ KeptTop /\ DoomedOk /\ TurnsCovered

\* What the types say of the messages of a conversation.
LEMMA MessageBasics ==
    ASSUME IInv, NEW c \in Conv
    PROVE  /\ log[c] \in Seq(Role) /\ Len(log[c]) \in Nat
           /\ kept[c] \in SUBSET (1..Len(log[c])) /\ kept[c] \in SUBSET Pos /\ kept[c] \subseteq Nat
           /\ cursor[c] \in Nat
           /\ Users(c) \subseteq kept[c] /\ Assistants(c) \subseteq kept[c]
           /\ Users(c) \cap Assistants(c) = {} /\ kept[c] = Users(c) \cup Assistants(c)
<1>1. log[c] \in Seq(Role) /\ Len(log[c]) \in Nat /\ kept[c] \in SUBSET Pos /\ cursor[c] \in Nat
  BY PosNat DEF IInv, TypeOK
<1>2. kept[c] \in SUBSET (1..Len(log[c]))
  BY <1>1, PosNat DEF IInv, Stored
<1>3. \A p \in kept[c] : log[c][p] \in Role
  BY <1>1, <1>2
<1> QED  BY <1>1, <1>2, <1>3 DEF Users, Assistants, Role

\* A message that is stored changes nothing about those before it.
LEMMA StoreKeeps ==
    ASSUME IInv, NEW d \in Conv, NEW role \in Role, StoreMessage(d, role), NEW c \in Conv
    PROVE  /\ c # d => log'[c] = log[c] /\ kept'[c] = kept[c]
           /\ c = d => log'[c] = Append(log[c], role) /\ kept'[c] = kept[c] \cup {Len(log[c]) + 1}
           /\ c = d => Len(log'[c]) = Len(log[c]) + 1
           /\ \A p \in kept[c] : p \in kept'[c] /\ (p \in Users(c)' <=> p \in Users(c))
                                 /\ (p \in Assistants(c)' <=> p \in Assistants(c))
           /\ \A p \in kept'[c] : p \in kept[c] \/ p = Len(log[c]) + 1
           /\ UNCHANGED <<cursor, doomed, told, holder, target, pc, batch>>
<1>1. /\ c # d => log'[c] = log[c] /\ kept'[c] = kept[c]
      /\ c = d => log'[c] = Append(log[c], role) /\ kept'[c] = kept[c] \cup {Len(log[c]) + 1}
      /\ UNCHANGED <<cursor, doomed, told, holder, target, pc, batch>>
  BY DEF StoreMessage, stateVars, workVars, IInv, TypeOK
<1>2. c = d => Len(log'[c]) = Len(log[c]) + 1
  BY <1>1, MessageBasics
<1>3. ASSUME NEW p \in kept[c] PROVE p \in kept'[c] /\ log'[c][p] = log[c][p]
  BY <1>1, MessageBasics
<1> QED  BY <1>1, <1>2, <1>3 DEF Users, Assistants

LEMMA StoreKeepsTurns ==
    ASSUME IInv, NEW d \in Conv, NEW role \in Role, StoreMessage(d, role), NEW c \in Conv,
           NEW p \in kept[c]
    PROVE  p \in NewTurns(c)' <=> p \in NewTurns(c)
<1>1. cursor' = cursor /\ p \in Nat /\ p <= Len(log[c]) /\ Len(log[c]) \in Nat
  BY StoreKeeps, MessageBasics
<1>2. \A q : q < p => (q \in Users(c)' <=> q \in Users(c)) /\ (q \in Assistants(c)' <=> q \in Assistants(c))
  <2> SUFFICES ASSUME NEW q, q < p
               PROVE  (q \in Users(c)' <=> q \in Users(c)) /\ (q \in Assistants(c)' <=> q \in Assistants(c))
    OBVIOUS
  <2>1. CASE q \in kept[c]
    BY <2>1, StoreKeeps
  <2>2. CASE q \notin kept[c]
    <3>1. q \notin kept'[c]
      BY <1>1, <2>2, StoreKeeps
    <3> QED  BY <2>2, <3>1 DEF Users, Assistants
  <2> QED  BY <2>1, <2>2
<1>3. Asked(c, p)' = Asked(c, p)
  <2>1. \A q : q \in Asked(c, p)' <=> q \in Asked(c, p)
    BY <1>1, <1>2 DEF Asked
  <2> QED  BY <2>1
<1> QED  BY <1>1, <1>3, StoreKeeps DEF NewTurns

\* After a compaction there are no turns that were not there before it, and those
\* that are gone have lost their answer or their questions.
LEMMA CompactionKeepsTurns ==
    ASSUME IInv, KeptTop, DoomedOk, NEW d \in Conv, EndCompaction(d), NEW c \in Conv
    PROVE  /\ kept'[c] = kept[c] \/ kept'[c] = kept[c] \ doomed[c]
           /\ Users(c)' = Users(c) \cap kept'[c]
           /\ Assistants(c)' = Assistants(c) \cap kept'[c]
           /\ NewTurns(c)' \subseteq NewTurns(c)
           /\ \A p \in NewTurns(c) : p \in kept'[c] => p \in NewTurns(c)' \/ CompactedAway(c, p)'
<1>1. /\ kept'[c] = kept[c] \/ kept'[c] = kept[c] \ doomed[c]
      /\ UNCHANGED <<log, cursor>>
  BY DEF EndCompaction, stateVars, IInv, TypeOK
<1>2. Users(c)' = Users(c) \cap kept'[c] /\ Assistants(c)' = Assistants(c) \cap kept'[c]
  BY <1>1 DEF Users, Assistants
<1>3. \A p \in Users(c) \cup Assistants(c) : p \in Nat /\ p \in kept[c]
  BY MessageBasics
<1>4. ASSUME NEW p \in Assistants(c)' PROVE Asked(c, p)' \subseteq Asked(c, p)
  <2> SUFFICES ASSUME NEW q \in Asked(c, p)' PROVE q \in Asked(c, p)
    OBVIOUS
  <2>1. /\ q \in Users(c) /\ q \in kept'[c] /\ cursor[c] < q /\ q < p
        /\ \A r \in Assistants(c) \cap kept'[c] : ~ (q < r /\ r < p)
    BY <1>1, <1>2 DEF Asked
  <2>2. ASSUME NEW r \in Assistants(c), q < r, r < p PROVE r \in kept'[c]
    <3>1. r \in kept[c] /\ q \in kept[c] /\ r \in Nat /\ q \in Nat
      BY <1>3, <2>1
    <3>2. r \in doomed[c] => q \in doomed[c]
      BY <2>2, <3>1 DEF DoomedOk
    <3> QED  BY <1>1, <2>1, <3>1, <3>2
  <2> QED  BY <2>1, <2>2 DEF Asked
<1>5. NewTurns(c)' \subseteq NewTurns(c)
  BY <1>1, <1>2, <1>4 DEF NewTurns
<1>6. ASSUME NEW p \in NewTurns(c), p \in kept'[c], NEW q \in Users(c), q \in kept'[c], q < p,
             \A r \in Assistants(c)' : ~ (q < r /\ r < p)
      PROVE  p \in NewTurns(c)'
  <2>1. p \in Assistants(c) /\ p > cursor[c] /\ p \in Nat /\ q \in Nat /\ cursor[c] \in Nat
    BY <1>3, MessageBasics DEF NewTurns
  <2>2. PICK u \in Asked(c, p) : TRUE
    BY DEF NewTurns
  <2>3. /\ u \in Users(c) /\ cursor[c] < u /\ u < p /\ u \in Nat /\ u \in kept[c]
        /\ \A r \in Assistants(c) : ~ (u < r /\ r < p)
    BY <1>3, <2>2 DEF Asked
  <2>4. CASE u \in kept'[c]
    <3>1. u \in Asked(c, p)' /\ p \in Assistants(c)' /\ cursor'[c] = cursor[c]
      BY <1>1, <1>2, <1>6, <2>1, <2>3, <2>4 DEF Asked
    <3> QED  BY <2>1, <3>1 DEF NewTurns
  <2>5. CASE u \notin kept'[c]
    <3>1. u \in doomed[c] /\ q \notin doomed[c] /\ q \in kept[c]
      BY <1>1, <1>3, <1>6, <2>3, <2>5
    <3>2. u < q
      <4>1. ~ (q <= u)
        BY <3>1 DEF DoomedOk
      <4> QED  BY <2>1, <2>3, <4>1
    <3>3. cursor'[c] < q /\ p \in Assistants(c)' /\ p > cursor'[c]
      BY <1>1, <1>2, <1>6, <2>1, <2>3, <3>2
    <3>4. q \in Asked(c, p)'
      BY <1>2, <1>6, <3>3 DEF Asked
    <3> QED  BY <3>3, <3>4 DEF NewTurns
  <2> QED  BY <2>4, <2>5
<1>7. ASSUME NEW p \in NewTurns(c), p \in kept'[c] PROVE p \in NewTurns(c)' \/ CompactedAway(c, p)'
  <2> SUFFICES ASSUME p \notin NewTurns(c)', NEW q \in Users(c)', q < p
               PROVE  \E r \in Assistants(c)' : q < r /\ r < p
    BY DEF CompactedAway
  <2>1. q \in Users(c) /\ q \in kept'[c]
    BY <1>2
  <2> QED  BY <1>6, <1>7, <2>1
<1> QED  BY <1>1, <1>2, <1>5, <1>7

\* The token on record is the one that was there, or nobody's, or a new claim's.
LEMMA TokenFrom ==
    ASSUME IInv, [Next]_vars, NEW w \in Worker, Extracts(w), batch'[w] = batch[w], Matches(w)'
    PROVE  Matches(w)
<1> DEFINE c == batch[w].conv
<1> SUFFICES holder[c] = w /\ target[c] = batch[w].target
  BY DEF Matches
<1>1. c \in Conv /\ holder'[c] = w /\ target'[c] = batch[w].target /\ w # Nobody
  BY Basics DEF Matches, IInv, Claims
<1> HIDE DEF c
<1>2. ASSUME UNCHANGED <<holder, target>> PROVE holder[c] = w /\ target[c] = batch[w].target
  BY <1>1, <1>2
<1>3. ASSUME NEW v \in Worker, NEW d \in Conv, Claim(v, d), ~Extracts(v)
      PROVE  holder[c] = w /\ target[c] = batch[w].target
  <2>1. v # w
    BY <1>3
  <2>2. holder' = [holder EXCEPT ![d] = v] /\ target' = [target EXCEPT ![d] = target'[d]]
    BY <1>3 DEF Claim, IInv, TypeOK
  <2> QED  BY <1>1, <2>1, <2>2 DEF IInv, TypeOK
<1>4. ASSUME NEW d \in Conv, ClearLease(d)
      PROVE  holder[c] = w /\ target[c] = batch[w].target
  <2>1. holder' = [holder EXCEPT ![d] = Nobody] /\ target' = [target EXCEPT ![d] = 0]
    BY <1>4 DEF ClearLease
  <2> QED  BY <1>1, <2>1 DEF IInv, TypeOK
<1>5. ASSUME NEW v \in Worker, NEW d \in Conv, NoClaim(v, d)
      PROVE  holder[c] = w /\ target[c] = batch[w].target
  BY <1>2, <1>4, <1>5 DEF NoClaim
<1>6. ASSUME NEW v \in Flusher, NEW d \in Conv, BeginFlush(v, d)
      PROVE  holder[c] = w /\ target[c] = batch[w].target
  <2>1. v \in Worker /\ ~Extracts(v)
    BY <1>6 DEF BeginFlush, Worker, Extracts
  <2> QED  BY <1>3, <1>5, <1>6, <2>1 DEF BeginFlush
<1>7. ASSUME NEW v \in Worker, FlushNext(v)
      PROVE  holder[c] = w /\ target[c] = batch[w].target
  <2>1. ~Extracts(v) /\ batch[v].conv \in Conv
    BY <1>7 DEF FlushNext, Extracts, IInv, Forced
  <2> QED  BY <1>3, <1>5, <1>7, <2>1 DEF FlushNext
<1>8. ASSUME ScanNext
      PROVE  holder[c] = w /\ target[c] = batch[w].target
  <2>1. PICK d \in todo : Claim(Scan, d) \/ NoClaim(Scan, d)
    BY <1>8 DEF ScanNext
  <2>2. d \in Conv /\ Scan \in Worker /\ ~Extracts(Scan)
    BY <1>8, <2>1 DEF ScanNext, IInv, TypeOK, Worker, Extracts
  <2> QED  BY <1>3, <1>5, <2>1, <2>2
<1>9. ASSUME NEW v \in Worker, Complete(v) \/ ExtractionFails(v)
      PROVE  holder[c] = w /\ target[c] = batch[w].target
  <2>1. batch[v].conv \in Conv
    BY <1>9 DEF Complete, ExtractionFails, IInv, Claims, Extracts
  <2>2. ClearLease(batch[v].conv) \/ UNCHANGED <<holder, target>>
    BY <1>9 DEF Complete, ExtractionFails, stateVars
  <2> QED  BY <1>2, <1>4, <2>1, <2>2
<1>10. \/ UNCHANGED <<holder, target>>
       \/ \E v \in Flusher, d \in Conv : BeginFlush(v, d)
       \/ ScanNext
       \/ \E v \in Worker : FlushNext(v) \/ Complete(v) \/ ExtractionFails(v)
  BY DEF Next, WorkStep, vars, stateVars, GrowIdle, StoreMessage, LeaseLapses, BackoffEnds,
         BeginScan, Record, Crash, BeginCompaction, EndCompaction
<1> QED  BY <1>2, <1>6, <1>7, <1>8, <1>9, <1>10

\* What is in the table stays the latest of the conversation.
LEMMA KeptTopStep == IInv /\ KeptTop /\ DoomedOk /\ [Next]_vars => KeptTop'
<1> SUFFICES ASSUME IInv, KeptTop, DoomedOk, [Next]_vars, NEW c \in Conv,
                    NEW p \in kept'[c], NEW q \in p..Len(log'[c])
             PROVE  q \in kept'[c]
  BY DEF KeptTop
<1>1. CASE UNCHANGED <<log, kept>>
  BY <1>1 DEF KeptTop
<1>2. ASSUME NEW d \in Conv, NEW role \in Role, StoreMessage(d, role) PROVE q \in kept'[c]
  <2>1. CASE c # d
    BY <1>2, <2>1, StoreKeeps DEF KeptTop
  <2>2. CASE c = d
    <3>1. /\ kept'[c] = kept[c] \cup {Len(log[c]) + 1} /\ Len(log'[c]) = Len(log[c]) + 1
          /\ Len(log[c]) \in Nat /\ \A r \in kept[c] : r \in Nat
      BY <1>2, <2>2, StoreKeeps, MessageBasics
    <3>2. p \in Nat /\ q \in Nat /\ p <= q /\ q <= Len(log[c]) + 1
      BY <3>1
    <3>3. CASE p \in kept[c] /\ q <= Len(log[c])
      BY <3>1, <3>2, <3>3 DEF KeptTop
    <3>4. CASE q = Len(log[c]) + 1
      BY <3>1, <3>4
    <3> QED  BY <3>1, <3>2, <3>3, <3>4
  <2> QED  BY <2>1, <2>2
<1>3. ASSUME NEW d \in Conv, EndCompaction(d) PROVE q \in kept'[c]
  <2>1. (kept'[c] = kept[c] \/ kept'[c] = kept[c] \ doomed[c]) /\ log' = log
    BY <1>3, CompactionKeepsTurns DEF EndCompaction
  <2>2. p \in kept[c] /\ p \in Nat /\ q \in kept[c] /\ p <= q
    BY <2>1, MessageBasics DEF KeptTop
  <2>3. q \in doomed[c] => p \in doomed[c]
    BY <2>2 DEF DoomedOk
  <2> QED  BY <2>1, <2>2, <2>3
<1>4. \/ UNCHANGED <<log, kept>>
      \/ \E d \in Conv, role \in Role : StoreMessage(d, role)
      \/ \E d \in Conv : EndCompaction(d)
  BY StepKinds DEF Complete, BeginCompaction, messageVars
<1> QED  BY <1>1, <1>2, <1>3, <1>4

\* What a compaction takes are the oldest messages.
LEMMA CompactableOk ==
    ASSUME IInv, NEW c \in Conv, NEW n \in kept[c]
    PROVE  /\ Compactable(c, n) \subseteq kept[c]
           /\ \A p \in Compactable(c, n), q \in kept[c] : q <= p => q \in Compactable(c, n)
<1> DEFINE After(p) == {u \in Users(c) : u > p}
<1>1. \A p : After(p) \in SUBSET Pos /\ IsFiniteSet(After(p)) /\ Cardinality(After(p)) \in Nat
  <2> SUFFICES ASSUME NEW p PROVE After(p) \in SUBSET Pos /\ IsFiniteSet(After(p)) /\ Cardinality(After(p)) \in Nat
    OBVIOUS
  <2>1. After(p) \in SUBSET Pos
    BY MessageBasics
  <2> HIDE DEF After
  <2>2. IsFiniteSet(After(p)) /\ Cardinality(After(p)) \in 0..MaxMsg
    BY <2>1, FiniteSubset
  <2> QED  BY <2>1, <2>2
<1>2. \A p \in kept[c] : p \in Nat
  BY MessageBasics
<1>3. \A u \in Users(c) : u \in Nat
  BY MessageBasics
<1>4. \A p : p \in Compactable(c, n) <=>
          p \in kept[c] /\ p <= n /\ Cardinality(Users(c)) > Window /\ Cardinality(After(p)) >= Window
  BY DEF Compactable
<1>5. ASSUME NEW p \in Compactable(c, n), NEW q \in kept[c], q <= p PROVE q \in Compactable(c, n)
  <2>1. p \in Nat /\ q \in Nat /\ n \in Nat /\ p <= n /\ Cardinality(After(p)) >= Window
    BY <1>2, <1>4
  <2>2. After(p) \subseteq After(q)
    BY <1>3, <1>5, <2>1
  <2>3. Cardinality(After(p)) <= Cardinality(After(q))
    <3> HIDE DEF After
    <3> QED  BY <1>1, <2>2, FS_Subset
  <2>4. Cardinality(After(q)) >= Window /\ q <= n
    <3>1. Window \in Nat /\ Cardinality(After(p)) \in Nat /\ Cardinality(After(q)) \in Nat
      BY <1>1, MemoryAssumption DEF MemoryAssumption
    <3> HIDE DEF After
    <3> QED  BY <1>5, <2>1, <2>3, <3>1
  <2> QED  BY <1>4, <2>4
<1> QED  BY <1>4, <1>5

LEMMA DoomedStep == IInv /\ KeptTop /\ DoomedOk /\ [Next]_vars => DoomedOk'
<1> SUFFICES ASSUME IInv, KeptTop, DoomedOk, [Next]_vars PROVE DoomedOk'
  OBVIOUS
<1>1. CASE UNCHANGED <<log, kept, doomed>>
  BY <1>1 DEF DoomedOk, Users
<1>2. ASSUME NEW d \in Conv, NEW role \in Role, StoreMessage(d, role) PROVE DoomedOk'
  <2> SUFFICES ASSUME NEW c \in Conv
               PROVE  /\ doomed'[c] \subseteq kept'[c]
                      /\ \A p \in doomed'[c], q \in kept'[c] : q <= p => q \in doomed'[c]
    BY DEF DoomedOk
  <2>1. /\ doomed'[c] = doomed[c] /\ doomed[c] \subseteq kept[c]
        /\ \A p \in kept[c] : p \in kept'[c] /\ (p \in Users(c)' <=> p \in Users(c))
        /\ \A p \in kept'[c] : p \in kept[c] \/ p = Len(log[c]) + 1
        /\ Len(log[c]) \in Nat /\ \A p \in kept[c] : p \in Nat /\ p <= Len(log[c])
        /\ Users(c) \subseteq kept[c]
    BY <1>2, StoreKeeps, MessageBasics DEF DoomedOk
  <2>2. ASSUME NEW p \in doomed[c], NEW q \in kept'[c], q <= p PROVE q \in doomed[c]
    <3>1. p \in Nat /\ p <= Len(log[c]) /\ p \in kept[c]
      BY <2>1
    <3>2. q \in kept[c]
      BY <2>1, <2>2, <3>1
    <3> QED  BY <2>2, <3>2 DEF DoomedOk
  <2> QED  BY <2>1, <2>2
<1>3. ASSUME NEW d \in Conv, BeginCompaction(d) PROVE DoomedOk'
  <2>1. PICK n \in kept[d] : doomed' = [doomed EXCEPT ![d] = Compactable(d, n)] /\ UNCHANGED <<log, kept>>
    BY <1>3 DEF BeginCompaction, messageVars
  <2>2. \A c \in Conv : (c = d => doomed'[c] = Compactable(d, n)) /\ (c # d => doomed'[c] = doomed[c])
    BY <2>1 DEF IInv, TypeOK
  <2>3. ASSUME NEW c \in Conv
        PROVE  /\ doomed'[c] \subseteq kept'[c]
               /\ \A p \in doomed'[c], q \in kept'[c] : q <= p => q \in doomed'[c]
    <3>1. CASE c = d
      BY <2>1, <2>2, <3>1, CompactableOk
    <3>2. CASE c # d
      BY <2>1, <2>2, <3>2 DEF DoomedOk
    <3> QED  BY <3>1, <3>2
  <2> QED  BY <2>3 DEF DoomedOk
<1>4. ASSUME NEW d \in Conv, EndCompaction(d) PROVE DoomedOk'
  <2>1. /\ doomed' = [doomed EXCEPT ![d] = {}] /\ log' = log
        /\ \A c \in Conv : c # d => kept'[c] = kept[c]
    BY <1>4 DEF EndCompaction, IInv, TypeOK
  <2>2. \A c \in Conv : (c = d => doomed'[c] = {})
                        /\ (c # d => doomed'[c] = doomed[c] /\ kept'[c] = kept[c] /\ Users(c)' = Users(c))
    BY <2>1 DEF Users, IInv, TypeOK
  <2> QED  BY <2>2 DEF DoomedOk
<1>5. \/ UNCHANGED <<log, kept, doomed>>
      \/ \E d \in Conv, role \in Role : StoreMessage(d, role)
      \/ \E d \in Conv : BeginCompaction(d) \/ EndCompaction(d)
  BY StepKinds DEF Complete, messageVars
<1> QED  BY <1>1, <1>2, <1>3, <1>4, <1>5

\* A claim that still counts goes on holding every new turn up to its target:
\* nothing new can come to stand before it, and nobody else moves the cursor.
LEMMA TurnsCoveredStep == TurnInv /\ IInv' /\ [Next]_vars => TurnsCovered'
<1> SUFFICES ASSUME TurnInv, IInv', [Next]_vars, NEW w \in Worker, Extracts(w)', Matches(w)',
                    NEW c \in Conv, batch'[w].conv = c, NEW p \in NewTurns(c)', p <= batch'[w].target
             PROVE  p \in batch'[w].turns
  <2> SUFFICES ASSUME NEW w \in Worker, Extracts(w)', Matches(w)', TurnInv, IInv', [Next]_vars,
                      NEW p, (p \in NewTurns(batch[w].conv))', p <= batch'[w].target
               PROVE  p \in batch'[w].turns
    BY DEF TurnsCovered
  <2>1. PICK c \in Conv : batch'[w].conv = c
    BY DEF IInv, Claims
  <2>2. p \in NewTurns(c)'
    BY <2>1 DEF NewTurns, Asked, Users, Assistants
  <2> QED  BY <2>1, <2>2
<1> USE DEF TurnInv
<1>1. ASSUME NEW d \in Conv, Claim(w, d), UNCHANGED messageVars
      PROVE  p \in batch'[w].turns
  <2>1. \A r \in NewTurns(c) : r <= batch'[w].target => r \in batch'[w].turns
    BY <1>1, ClaimAnswers
  <2>2. NewTurns(c)' = NewTurns(c)
    BY <1>1 DEF NewTurns, Asked, Users, Assistants, Claim, messageVars
  <2> QED  BY <2>1, <2>2
<1>2. CASE Extracts(w) /\ batch'[w] = batch[w]
  <2>1. Matches(w) /\ batch[w].conv = c /\ Answers(batch[w])
    BY <1>2, TokenFrom DEF IInv, Claims, BatchAnswers
  <2>2. p \in NewTurns(c)' /\ p <= batch[w].target /\ batch'[w].turns = batch[w].turns
    BY <1>2
  <2>3. SUFFICES p \in NewTurns(c)
    BY <1>2, <2>1, <2>2 DEF TurnsCovered
  <2>4. CASE UNCHANGED <<log, kept, cursor>>
    BY <2>2, <2>4 DEF NewTurns, Asked, Users, Assistants
  <2>5. ASSUME NEW d \in Conv, NEW role \in Role, StoreMessage(d, role) PROVE p \in NewTurns(c)
    <3>1. p \in kept'[c]
      BY <2>2 DEF NewTurns, Assistants
    <3>2. batch[w].target \in 1..Len(log[c]) /\ Len(log[c]) \in Nat
      BY <2>1, MessageBasics DEF Answers
    <3>3. p \in kept[c]
      BY <2>1, <2>2, <2>5, <3>1, <3>2, StoreKeeps
    <3> QED  BY <2>1, <2>2, <2>5, <3>3, StoreKeepsTurns
  <2>6. ASSUME NEW v \in Worker, Complete(v), Matches(v) PROVE p \in NewTurns(c)
    <3>1. /\ batch[v].conv \in Conv
          /\ cursor' = [cursor EXCEPT ![batch[v].conv] = batch[v].target]
          /\ holder' = [holder EXCEPT ![batch[v].conv] = Nobody]
          /\ UNCHANGED <<log, kept>>
      BY <2>6 DEF Complete, ClearLease, messageVars, IInv, Claims, Extracts
    <3>2. holder'[c] = w /\ w # Nobody
      BY <1>2, Basics DEF Matches, IInv
    <3>3. c # batch[v].conv
      BY <3>1, <3>2, <2>1 DEF IInv, TypeOK
    <3>4. cursor'[c] = cursor[c]
      BY <3>1, <3>3, <2>1 DEF IInv, TypeOK
    <3> QED  BY <2>2, <3>1, <3>4 DEF NewTurns, Asked, Users, Assistants
  <2>7. ASSUME NEW d \in Conv, EndCompaction(d) PROVE p \in NewTurns(c)
    BY <2>1, <2>2, <2>7, CompactionKeepsTurns
  <2>8. ASSUME NEW d \in Conv, BeginCompaction(d) PROVE UNCHANGED <<log, kept, cursor>>
    BY <2>8 DEF BeginCompaction, messageVars, stateVars
  <2> QED  BY <2>4, <2>5, <2>6, <2>7, <2>8, StepKinds
<1> QED  BY <1>1, <1>2, BatchFrom

\* The invariant of turns holds in every behaviour.
LEMMA TurnsInvariant == Spec => []TurnInv
<1>1. Init => TurnInv
  BY IInit DEF Init, TurnInv, BatchAnswers, Extracts, KeptTop, DoomedOk, TurnsCovered
<1>2. TurnInv /\ IInv' /\ [Next]_vars => TurnInv'
  BY AnswersStep, KeptTopStep, DoomedStep, TurnsCoveredStep DEF TurnInv
<1> QED  BY <1>1, <1>2, Invariance, PTL DEF Spec

\* A new turn stays one until the ledger knows it or a compaction has taken the
\* answer or its questions.
NewTurnsStay ==
    \A c \in Conv, p \in Pos :
        p \in NewTurns(c) => p \in NewTurns(c)' \/ p \in told'[c] \/ CompactedAway(c, p)'

LEMMA NewTurnsStayStep == TurnInv /\ IInv' /\ [Next]_vars => NewTurnsStay
<1> SUFFICES ASSUME TurnInv, IInv', [Next]_vars, NEW c \in Conv, NEW p \in NewTurns(c), p \in kept'[c]
             PROVE  p \in NewTurns(c)' \/ p \in told'[c] \/ CompactedAway(c, p)'
  BY DEF NewTurnsStay, CompactedAway
<1> USE DEF TurnInv
<1>1. p \in Assistants(c) /\ p \in kept[c] /\ p \in Nat
  BY MessageBasics DEF NewTurns
<1>2. CASE UNCHANGED <<log, kept, cursor>>
  <2>1. NewTurns(c)' = NewTurns(c)
    BY <1>2 DEF NewTurns, Asked, Users, Assistants
  <2> QED  BY <2>1
<1>3. ASSUME NEW d \in Conv, NEW role \in Role, StoreMessage(d, role) PROVE p \in NewTurns(c)'
  BY <1>1, <1>3, StoreKeepsTurns
<1>4. ASSUME NEW w \in Worker, Complete(w), Matches(w) PROVE p \in NewTurns(c)' \/ p \in told'[c]
  <2> DEFINE b == batch[w]
  <2>1. /\ b.conv \in Conv /\ b.messages \subseteq told[b.conv] /\ Answers(b) /\ Covers(b, b.conv)
        /\ Extracts(w)
    BY <1>4 DEF Complete, IInv, Claims, Extracts, BatchAnswers
  <2>2. /\ cursor' = [cursor EXCEPT ![b.conv] = b.target]
        /\ UNCHANGED <<log, kept, told>>
    BY <1>4 DEF Complete, messageVars
  <2>3. CASE c # b.conv
    <3>1. cursor'[c] = cursor[c]
      BY <2>1, <2>2, <2>3 DEF IInv, TypeOK
    <3> QED  BY <2>2, <3>1 DEF NewTurns, Asked, Users, Assistants
  <2>4. CASE c = b.conv /\ p <= b.target
    <3>1. p \in b.turns
      BY <1>4, <2>1, <2>4 DEF TurnsCovered
    <3> QED  BY <2>1, <2>2, <2>4, <3>1 DEF Answers
  <2>5. CASE c = b.conv /\ ~ (p <= b.target)
    <3>1. /\ cursor'[c] = b.target /\ b.target \in 1..Len(log[c]) /\ log[c][b.target] = "assistant"
          /\ Len(log[c]) \in Nat /\ b.target \in Nat /\ b.target < p /\ p <= Len(log[c])
      <4>1. cursor'[c] = b.target
        BY <2>1, <2>2, <2>5 DEF IInv, TypeOK
      <4>2. b.target \in 1..Len(log[c]) /\ log[c][b.target] = "assistant"
        BY <2>1, <2>5 DEF Answers
      <4>3. Len(log[c]) \in Nat /\ p \in 1..Len(log[c])
        BY <1>1, MessageBasics
      <4> HIDE DEF b
      <4> QED  BY <2>5, <4>1, <4>2, <4>3
    <3>2. PICK q \in Asked(c, p) : TRUE
      BY DEF NewTurns
    <3>3. /\ q \in Users(c) /\ q \in kept[c] /\ q \in Nat /\ q < p
          /\ \A r \in Assistants(c) : ~ (q < r /\ r < p)
      BY <3>2, MessageBasics DEF Asked
    <3>4. q # b.target
      BY <3>1, <3>3 DEF Users
    <3>5. ~ (q < b.target)
      <4> SUFFICES ASSUME q < b.target PROVE FALSE
        OBVIOUS
      <4>1. b.target \in q..Len(log[c])
        BY <3>1, <3>3
      <4>2. b.target \in kept[c]
        BY <3>3, <4>1 DEF KeptTop
      <4>3. b.target \in Assistants(c)
        BY <3>1, <4>2 DEF Assistants
      <4> QED  BY <3>1, <3>3, <4>3
    <3>6. b.target < q
      BY <3>1, <3>3, <3>4, <3>5
    <3>7. q \in Asked(c, p)'
      BY <2>2, <3>1, <3>3, <3>6 DEF Asked, Users, Assistants
    <3>8. p \in Assistants(c)'
      BY <1>1, <2>2 DEF Assistants
    <3> QED  BY <3>1, <3>7, <3>8 DEF NewTurns
  <2> QED  BY <2>3, <2>4, <2>5
<1>5. ASSUME NEW d \in Conv, EndCompaction(d) PROVE p \in NewTurns(c)' \/ CompactedAway(c, p)'
  BY <1>5, CompactionKeepsTurns
<1>6. ASSUME NEW d \in Conv, BeginCompaction(d) PROVE UNCHANGED <<log, kept, cursor>>
  BY <1>6 DEF BeginCompaction, messageVars, stateVars
<1> QED  BY <1>2, <1>3, <1>4, <1>5, <1>6, StepKinds

\* No step forgets a complete turn that is still to be extracted: the cursor
\* passes it only when its batch has been recorded, nothing that is stored later
\* can take its questions over, and otherwise it goes only when a compaction
\* deletes its answer, or all its questions while the answer is too young to go.
THEOREM TurnsAreNotForgotten == Spec => [][NewTurnsStay]_vars
<1>1. TurnInv /\ IInv' /\ [Next]_vars => [NewTurnsStay]_vars
  BY NewTurnsStayStep
<1> QED  BY <1>1, TurnsInvariant, Invariance, PTL DEF Spec
=============================================================================
