-------------------------- MODULE TrackSpoolProofs --------------------------
(***************************************************************************)
(* Proofs about TrackSpool, for every number of processes, fixes, batches  *)
(* and crashes.                                                            *)
(***************************************************************************)
EXTENDS TrackSpool, FiniteSetTheorems, TLAPS

\* The inductive invariant behind ExactlyOnce, StoredInOrder and the
\* refinement.  The spool is a suffix of what was accepted, the frozen batch a
\* prefix of the spool; a receipt or a held batch names exactly the rows with
\* its id; and a fix is stored when its batch has a receipt.
Members(b) == {s \in Seqs : batchOf[s] = b}

SpoolInv ==
    /\ pending \subseteq Accepted
    /\ \A s \in Seqs \ Accepted : batchOf[s] = None
    /\ \A s \in pending : \A t \in Accepted : s < t => t \in pending
    /\ \A s \in Frozen : \A t \in pending : t < s => t \in Frozen
    /\ \A s \in Frozen : \A t \in Seqs : batchOf[t] = batchOf[s] => t \in pending
    /\ OneFrozenBatch

StoreInv ==
    /\ \A s \in Accepted \ pending :
          batchOf[s] # None /\ receipts[batchOf[s]] # None
    /\ \A b \in BatchIds : receipts[b] # None => receipts[b] = Members(b)
    /\ \A s \in Seqs :
          pgRows[s] = IF batchOf[s] # None /\ receipts[batchOf[s]] # None
                      THEN 1 ELSE 0

HeldInv ==
    \A w \in Workers : Flushing(w) =>
        /\ held[w].rows = Members(held[w].id)
        /\ pc[w] = "ack" => receipts[held[w].id] # None

WindowInv ==
    \A w \in Workers : \A v \in throttled[w] : \E s \in Accepted : vesselOf[s] = v

IndInv == TypeOK /\ SpoolInv /\ StoreInv /\ HeldInv /\ WindowInv

-----------------------------------------------------------------------------
(* The rows claim freezes *)

\* A set of spool rows is finite.
LEMMA SeqSetsAreFinite ==
    ASSUME NEW S \in SUBSET Seqs
    PROVE  IsFiniteSet(S) /\ Cardinality(S) \in Nat
<1>1. IsFiniteSet(Seqs)
  BY FS_Interval, TrackSpoolAssumptions DEF Seqs
<1> QED
  BY <1>1, FS_Subset, FS_CardinalityType

\* claim freezes a subset of the spool that is closed towards older rows.
LEMMA OldestIsPrefix ==
    ASSUME NEW S \in SUBSET Seqs
    PROVE  /\ Oldest(S) \subseteq S
           /\ \A s \in Oldest(S) : \A t \in S : t < s => t \in Oldest(S)
<1>1. Oldest(S) \subseteq S
  BY DEF Oldest
<1>2. \A s \in Oldest(S) : \A t \in S : t < s => t \in Oldest(S)
  <2> SUFFICES ASSUME NEW s \in Oldest(S), NEW t \in S, t < s
               PROVE  t \in Oldest(S)
    OBVIOUS
  <2> DEFINE Below(x) == {u \in S : u <= x}
  <2>1. s \in Nat /\ t \in Nat /\ S \subseteq Nat
    BY TrackSpoolAssumptions DEF Oldest, Seqs
  <2>2. Below(t) \subseteq Below(s)
    <3> SUFFICES ASSUME NEW u \in S, u <= t
                 PROVE  u <= s
      OBVIOUS
    <3> QED
      BY <2>1
  <2>3. IsFiniteSet(Below(s))
    BY SeqSetsAreFinite
  <2>4. /\ Cardinality(Below(t)) <= Cardinality(Below(s))
        /\ Cardinality(Below(t)) \in Nat /\ Cardinality(Below(s)) \in Nat
    BY <2>2, <2>3, FS_Subset, FS_CardinalityType
  <2>5. Cardinality(Below(s)) <= Limit
    BY DEF Oldest
  <2> QED
    BY <2>4, <2>5, TrackSpoolAssumptions DEF Oldest
<1> QED
  BY <1>1, <1>2
-----------------------------------------------------------------------------
(* Type correctness *)

LEMMA TypeInit == Init => TypeOK
BY TrackSpoolAssumptions DEF Init, TypeOK, Seqs, NoBatch, Flushing

LEMMA TypeStep == TypeOK /\ [Next]_vars => TypeOK'
<1> SUFFICES ASSUME TypeOK, [Next]_vars
             PROVE  TypeOK'
  OBVIOUS
<1> USE TrackSpoolAssumptions DEF TypeOK, Seqs, NoBatch, Flushing, spool,
                                  postgres
<1>1. CASE UNCHANGED vars
  BY <1>1 DEF vars
<1>2. ASSUME NEW w \in Workers, Open(w) PROVE TypeOK'
  <2>1. Cardinality(pending) \in Int
    BY SeqSetsAreFinite
  <2> QED
    BY <1>2, <2>1 DEF Open
<1>3. ASSUME NEW w \in Workers, Crash(w) PROVE TypeOK'
  BY <1>3 DEF Crash
<1>4. ASSUME NEW w \in Workers, NEW v \in Vessels, NEW signal \in BOOLEAN,
             OnPosition(w, v, signal)
      PROVE  TypeOK'
  BY <1>4 DEF OnPosition
<1>5. ASSUME NEW w \in Workers, NEW v \in Vessels, NEW signal \in BOOLEAN,
             OnPositionRejected(w, v, signal)
      PROVE  TypeOK'
  BY <1>5 DEF OnPositionRejected, vars
<1>6. ASSUME NEW w \in Workers, NEW v \in Vessels, IntervalElapses(w, v)
      PROVE  TypeOK'
  BY <1>6 DEF IntervalElapses
<1>7. ASSUME NEW w \in Workers, ReClaim(w) PROVE TypeOK'
  <2>1. PICK b \in BatchIds :
           held' = [held EXCEPT ![w] = [id |-> b, rows |-> RowsOf(b)]]
    BY <1>7 DEF ReClaim, Frozen
  <2>2. RowsOf(b) \in SUBSET Seqs
    BY DEF RowsOf
  <2> QED
    BY <1>7, <2>1, <2>2 DEF ReClaim
<1>8. ASSUME NEW w \in Workers, Claim(w) PROVE TypeOK'
  <2>1. Oldest(pending) \in SUBSET Seqs
    BY DEF Oldest
  <2> QED
    BY <1>8, <2>1 DEF Claim
<1>9. ASSUME NEW w \in Workers, ReadReceipt(w) PROVE TypeOK'
  BY <1>9 DEF ReadReceipt
<1>10. ASSUME NEW w \in Workers, Commit(w) PROVE TypeOK'
  BY <1>10 DEF Commit
<1>11. ASSUME NEW w \in Workers, FlushError(w) PROVE TypeOK'
  BY <1>11 DEF FlushError
<1>12. ASSUME NEW w \in Workers, Acknowledge(w) PROVE TypeOK'
  <2>1. Cardinality(held[w].rows) \in Int
    BY SeqSetsAreFinite
  <2>2. count' \in [Workers -> Int]
    BY <1>12, <2>1 DEF Acknowledge
  <2>3. pending' \subseteq Seqs
    BY <1>12 DEF Acknowledge
  <2> QED
    BY <1>12, <2>2, <2>3 DEF Acknowledge
<1> HIDE DEF TypeOK
<1> QED
  BY <1>1, <1>2, <1>3, <1>4, <1>5, <1>6, <1>7, <1>8, <1>9, <1>10, <1>11, <1>12
  DEF Next, Flush, Ingest

\* The variables of the ingest path keep their types, and a flush thread past
\* claim holds a batch with an id.
THEOREM TypeCorrect == Spec => []TypeOK
BY TypeInit, TypeStep, PTL DEF Spec

-----------------------------------------------------------------------------
(* The inductive invariant *)

LEMMA IndInit == Init => IndInv
<1> SUFFICES ASSUME Init PROVE IndInv
  OBVIOUS
<1>1. TypeOK
  BY TypeInit
<1>2. SpoolInv
  BY DEF Init, SpoolInv, Accepted, Frozen, OneFrozenBatch
<1>3. StoreInv
  BY DEF Init, StoreInv, Accepted
<1>4. HeldInv /\ WindowInv
  BY DEF Init, HeldInv, WindowInv, Flushing
<1> QED
  BY <1>1, <1>2, <1>3, <1>4 DEF IndInv

\* A step that leaves the spool and PostgreSQL alone, starts no flush and opens
\* no throttle window.
LEMMA VolatileStep ==
    ASSUME IndInv, TypeOK', UNCHANGED <<spool, postgres>>,
           \A w \in Workers : Flushing(w)' => /\ Flushing(w) /\ held'[w] = held[w]
                                              /\ pc'[w] = "ack" =>
                                                    receipts[held[w].id] # None,
           \A w \in Workers : throttled'[w] \subseteq throttled[w]
    PROVE  IndInv'
<1>1. UNCHANGED <<nextSeq, pending, batchOf, vesselOf, receipts, pgRows>>
  BY DEF spool, postgres
<1>2. SpoolInv'
  BY <1>1 DEF IndInv, SpoolInv, Accepted, Frozen, OneFrozenBatch
<1>3. StoreInv'
  BY <1>1 DEF IndInv, StoreInv, Accepted, Members
<1>4. HeldInv'
  BY <1>1 DEF IndInv, HeldInv, Members
<1>5. WindowInv'
  BY <1>1 DEF IndInv, WindowInv, Accepted
<1> QED
  BY <1>2, <1>3, <1>4, <1>5 DEF IndInv

LEMMA OnPositionStep ==
    ASSUME IndInv, TypeOK', NEW w \in Workers, NEW v \in Vessels,
           NEW signal \in BOOLEAN, OnPosition(w, v, signal)
    PROVE  IndInv'
<1> USE TrackSpoolAssumptions DEF IndInv, TypeOK, Accepted, Seqs
<1>1. /\ nextSeq \in Seqs /\ nextSeq' = nextSeq + 1
      /\ pending' = pending \cup {nextSeq}
      /\ vesselOf' = [vesselOf EXCEPT ![nextSeq] = v]
      /\ throttled' = [throttled EXCEPT ![w] = @ \cup {v}]
      /\ UNCHANGED <<batchOf, receipts, pgRows, pc, held>>
  BY DEF OnPosition, postgres
<1>2. Accepted' = Accepted \cup {nextSeq} /\ nextSeq \notin Accepted
  BY <1>1
<1>3. batchOf[nextSeq] = None
  <2>1. nextSeq \in Seqs \ Accepted
    <3> HIDE DEF IndInv, TypeOK, Accepted, Seqs
    <3> QED
      BY <1>1, <1>2
  <2> QED
    BY <2>1 DEF SpoolInv
<1>4. SpoolInv'
  <2>1. Frozen' = Frozen
    BY <1>1, <1>3 DEF Frozen
  <2>2. pending' \subseteq Accepted'
    <3> HIDE DEF Accepted
    <3> QED
      BY <1>1, <1>2 DEF SpoolInv
  <2>3. \A s \in Seqs \ Accepted' : batchOf'[s] = None
    <3> HIDE DEF Accepted, Seqs
    <3> QED
      BY <1>1, <1>2 DEF SpoolInv
  <2>4. \A s \in pending' : \A t \in Accepted' : s < t => t \in pending'
    <3> SUFFICES ASSUME NEW s \in pending', NEW t \in Accepted, s < t
                 PROVE  t \in pending
      BY <1>1, <1>2
    <3>1. s \in pending
      BY <1>1
    <3> QED
      BY <3>1 DEF SpoolInv
  <2>5. \A s \in Frozen' : \A t \in pending' : t < s => t \in Frozen'
    <3> SUFFICES ASSUME NEW s \in Frozen, NEW t \in pending', t < s
                 PROVE  t \in Frozen
      BY <2>1
    <3>1. s \in Accepted
      BY DEF SpoolInv, Frozen
    <3>2. t \in pending
      BY <1>1, <3>1
    <3> QED
      BY <3>2 DEF SpoolInv
  <2>6. \A s \in Frozen' : \A t \in Seqs : batchOf'[t] = batchOf'[s] => t \in pending'
    BY <1>1, <2>1 DEF SpoolInv
  <2>7. OneFrozenBatch'
    BY <1>1, <2>1 DEF SpoolInv, OneFrozenBatch
  <2> QED
    BY <2>2, <2>5, <2>6, <2>7, <2>4, <2>3 DEF SpoolInv
<1>5. StoreInv'
  BY <1>1 DEF StoreInv, Members
<1>6. HeldInv'
  BY <1>1 DEF HeldInv, Members, Flushing
<1>7. WindowInv'
  BY <1>1 DEF WindowInv
<1> QED
  BY <1>4, <1>5, <1>6, <1>7

LEMMA ReClaimStep ==
    ASSUME IndInv, TypeOK', NEW w \in Workers, ReClaim(w)
    PROVE  IndInv'
<1> USE TrackSpoolAssumptions DEF IndInv, TypeOK, Accepted, Seqs
<1>1. UNCHANGED <<nextSeq, pending, batchOf, vesselOf, receipts, pgRows, throttled>>
  BY DEF ReClaim, spool, postgres
<1>2. PICK b \in BatchIds :
         /\ held' = [held EXCEPT ![w] = [id |-> b, rows |-> RowsOf(b)]]
         /\ \E s \in pending : batchOf[s] = b
         /\ pc' = [pc EXCEPT ![w] = "claimed"]
  BY DEF ReClaim, Frozen
<1>3. SpoolInv' /\ StoreInv' /\ WindowInv'
  BY <1>1 DEF SpoolInv, StoreInv, WindowInv, Frozen, OneFrozenBatch, Members
<1>4. RowsOf(b) = Members(b)
  BY <1>2 DEF RowsOf, Members, SpoolInv, Frozen
<1>5. HeldInv'
  BY <1>1, <1>2, <1>4 DEF HeldInv, Members, Flushing
<1> QED
  BY <1>3, <1>5

LEMMA ClaimStep ==
    ASSUME IndInv, TypeOK', NEW w \in Workers, Claim(w)
    PROVE  IndInv'
<1> USE TrackSpoolAssumptions DEF IndInv, TypeOK, Accepted, Seqs
<1> DEFINE new == Oldest(pending)
<1>1. /\ UNCHANGED <<nextSeq, pending, vesselOf, receipts, pgRows, throttled>>
      /\ pc' = [pc EXCEPT ![w] = "claimed"]
      /\ Frozen = {}
  BY DEF Claim, postgres
<1>2. PICK b \in BatchIds :
         /\ FreshId(b)
         /\ batchOf' = [s \in Seqs |-> IF s \in new THEN b ELSE batchOf[s]]
         /\ held' = [held EXCEPT ![w] = [id |-> b, rows |-> new]]
  BY DEF Claim
<1>3. /\ new \subseteq pending
      /\ \A s \in new : \A t \in pending : t < s => t \in new
  BY OldestIsPrefix
<1> HIDE DEF new
<1>4. \A s \in pending : batchOf[s] = None
  BY <1>1 DEF Frozen
<1>5. /\ receipts[b] = None
      /\ \A s \in Seqs : batchOf[s] # b
      /\ \A u \in Workers : held[u].id # b
      /\ b # None
  BY <1>2 DEF FreshId
<1>6. Members(b)' = new
  BY <1>2, <1>3, <1>5 DEF Members
<1>7. \A c \in BatchIds : c # b => Members(c)' = Members(c)
  BY <1>2, <1>3, <1>4 DEF Members
<1>8. Frozen' = new
  BY <1>1, <1>2, <1>3, <1>4, <1>5 DEF Frozen
<1>9. SpoolInv'
  BY <1>1, <1>2, <1>3, <1>5, <1>8 DEF SpoolInv, OneFrozenBatch
<1>10. StoreInv'
  <2>1. \A s \in Accepted' \ pending' :
           batchOf'[s] # None /\ receipts'[batchOf'[s]] # None
    BY <1>1, <1>2, <1>3 DEF StoreInv
  <2>2. \A c \in BatchIds : receipts'[c] # None => receipts'[c] = Members(c)'
    BY <1>1, <1>5, <1>7 DEF StoreInv
  <2>3. \A s \in Seqs :
           pgRows'[s] = IF batchOf'[s] # None /\ receipts'[batchOf'[s]] # None
                        THEN 1 ELSE 0
    BY <1>1, <1>2, <1>3, <1>4, <1>5 DEF StoreInv
  <2> QED
    BY <2>1, <2>2, <2>3 DEF StoreInv
<1>11. HeldInv'
  <2> SUFFICES ASSUME NEW u \in Workers, Flushing(u)'
               PROVE  /\ held'[u].rows = Members(held[u].id)'
                      /\ pc'[u] = "ack" => receipts'[held'[u].id] # None
    BY DEF HeldInv
  <2>1. CASE u = w
    <3>1. held'[u].id = b /\ held'[u].rows = new /\ pc'[u] = "claimed"
      BY <1>1, <1>2, <2>1
    <3> QED
      BY <1>6, <3>1 DEF Members
  <2>2. CASE u # w
    <3>1. Flushing(u) /\ held'[u] = held[u] /\ pc'[u] = pc[u]
      BY <1>1, <1>2, <2>2 DEF Flushing
    <3>2. held[u].id \in BatchIds /\ held[u].id # b
      BY <1>5, <3>1
    <3> QED
      BY <1>1, <1>7, <3>1, <3>2 DEF HeldInv, Members
  <2> QED
    BY <2>1, <2>2
<1>12. WindowInv'
  BY <1>1 DEF WindowInv
<1> QED
  BY <1>9, <1>10, <1>11, <1>12

LEMMA CommitStep ==
    ASSUME IndInv, TypeOK', NEW w \in Workers, Commit(w)
    PROVE  IndInv'
<1> USE TrackSpoolAssumptions DEF IndInv, TypeOK, Accepted, Seqs
<1> DEFINE b == held[w].id
<1>1. /\ UNCHANGED <<nextSeq, pending, batchOf, vesselOf, held, throttled>>
      /\ pc[w] = "insert" /\ receipts[b] = None
      /\ receipts' = [receipts EXCEPT ![b] = held[w].rows]
      /\ pgRows' = [s \in Seqs |->
                       IF s \in held[w].rows THEN pgRows[s] + 1 ELSE pgRows[s]]
      /\ pc' = [pc EXCEPT ![w] = "ack"]
  BY DEF Commit, spool
<1>2. b \in BatchIds /\ held[w].rows = Members(b)
  BY <1>1 DEF HeldInv, Flushing
<1>3. held[w].rows # None
  OBVIOUS
<1> HIDE DEF b
<1>4. receipts'[b] = Members(b) /\ receipts'[b] # None
  BY <1>1, <1>2, <1>3
<1>5. \A c \in BatchIds : c # b => receipts'[c] = receipts[c]
  BY <1>1
<1>6. SpoolInv' /\ WindowInv'
  <2>1. SpoolInv'
    <3> HIDE DEF TypeOK, Seqs
    <3> QED
      BY <1>1 DEF SpoolInv, Frozen, OneFrozenBatch
  <2>2. WindowInv'
    BY <1>1 DEF WindowInv
  <2> QED
    BY <2>1, <2>2
<1>7. StoreInv'
  <2>1. \A s \in Accepted' \ pending' :
           batchOf'[s] # None /\ receipts'[batchOf'[s]] # None
    BY <1>1, <1>4, <1>5 DEF StoreInv
  <2>2. \A c \in BatchIds : receipts'[c] # None => receipts'[c] = Members(c)'
    BY <1>1, <1>4, <1>5 DEF StoreInv, Members
  <2>3. ASSUME NEW s \in Seqs
        PROVE  pgRows'[s] = IF batchOf'[s] # None /\ receipts'[batchOf'[s]] # None
                            THEN 1 ELSE 0
    <3>1. CASE batchOf[s] = b
      <4>1. s \in held[w].rows /\ pgRows[s] = 0
        BY <1>1, <1>2, <3>1 DEF Members, StoreInv
      <4> QED
        BY <1>1, <1>2, <1>4, <3>1, <4>1
    <3>2. CASE batchOf[s] # b
      <4>1. pgRows'[s] = pgRows[s]
        BY <1>1, <1>2, <3>2 DEF Members
      <4> QED
        BY <1>1, <1>5, <3>2, <4>1 DEF StoreInv
    <3> QED
      BY <3>1, <3>2
  <2> QED
    BY <2>1, <2>2, <2>3 DEF StoreInv
<1>8. HeldInv'
  <2> SUFFICES ASSUME NEW u \in Workers, Flushing(u)'
               PROVE  /\ held'[u].rows = Members(held[u].id)'
                      /\ pc'[u] = "ack" => receipts'[held'[u].id] # None
    BY DEF HeldInv
  <2>1. Flushing(u) /\ held'[u] = held[u] /\ (u # w => pc'[u] = pc[u])
    BY <1>1 DEF Flushing
  <2>2. held'[u].rows = Members(held[u].id)'
    BY <1>1, <2>1 DEF HeldInv, Members
  <2>3. pc'[u] = "ack" => receipts'[held'[u].id] # None
    <3>1. CASE u = w
      BY <1>1, <1>4, <3>1 DEF b
    <3>2. CASE u # w
      BY <1>1, <1>4, <1>5, <2>1, <3>2 DEF HeldInv
    <3> QED
      BY <3>1, <3>2
  <2> QED
    BY <2>2, <2>3
<1> QED
  BY <1>6, <1>7, <1>8

LEMMA AcknowledgeStep ==
    ASSUME IndInv, TypeOK', NEW w \in Workers, Acknowledge(w)
    PROVE  IndInv'
<1> USE TrackSpoolAssumptions DEF IndInv, TypeOK, Accepted, Seqs
<1> DEFINE b == held[w].id
<1>1. /\ UNCHANGED <<nextSeq, batchOf, vesselOf, receipts, pgRows, held, throttled>>
      /\ pending' = pending \ RowsOf(b)
      /\ pc' = [pc EXCEPT ![w] = "idle"]
      /\ pc[w] = "ack"
  BY DEF Acknowledge, postgres
<1>2. b \in BatchIds /\ b # None /\ receipts[b] # None
  BY <1>1 DEF HeldInv, Flushing
<1> HIDE DEF b
<1>3. Frozen' = Frozen \ RowsOf(b) /\ RowsOf(b) \subseteq Frozen
  BY <1>1, <1>2 DEF Frozen, RowsOf
<1>4. SpoolInv'
  <2>1. \A s \in pending' : \A t \in Accepted' : s < t => t \in pending'
    <3> SUFFICES ASSUME NEW s \in pending, s \notin RowsOf(b),
                        NEW t \in Accepted, s < t
                 PROVE  t \in pending /\ t \notin RowsOf(b)
      BY <1>1
    <3>1. t \in pending
      BY DEF SpoolInv
    <3>2. ASSUME t \in RowsOf(b) PROVE FALSE
      <4>1. t \in Frozen /\ batchOf[t] = b
        BY <1>3, <3>2 DEF RowsOf
      <4>2. s \in Frozen
        BY <4>1 DEF SpoolInv
      <4>3. batchOf[s] = b
        BY <4>1, <4>2 DEF SpoolInv, OneFrozenBatch
      <4> QED
        BY <4>3 DEF RowsOf
    <3> QED
      BY <3>1, <3>2
  <2>2. /\ pending' \subseteq Accepted'
        /\ \A s \in Seqs \ Accepted' : batchOf'[s] = None
    BY <1>1 DEF SpoolInv
  <2>3. \A s \in Frozen' : \A t \in pending' : t < s => t \in Frozen'
    BY <1>1, <1>3 DEF SpoolInv
  <2>4. \A s \in Frozen' : \A t \in Seqs : batchOf'[t] = batchOf'[s] => t \in pending'
    BY <1>1, <1>3 DEF SpoolInv, RowsOf, Frozen
  <2>5. OneFrozenBatch'
    BY <1>1, <1>3 DEF SpoolInv, OneFrozenBatch
  <2> QED
    BY <2>1, <2>2, <2>3, <2>4, <2>5 DEF SpoolInv
<1>5. StoreInv'
  <2>1. \A s \in Accepted' \ pending' :
           batchOf'[s] # None /\ receipts'[batchOf'[s]] # None
    BY <1>1, <1>2 DEF StoreInv, RowsOf
  <2> QED
    BY <1>1, <2>1 DEF StoreInv, Members
<1>6. HeldInv'
  BY <1>1 DEF HeldInv, Members, Flushing
<1>7. WindowInv'
  BY <1>1 DEF WindowInv
<1> QED
  BY <1>4, <1>5, <1>6, <1>7

LEMMA IndStep == IndInv /\ [Next]_vars => IndInv'
<1> SUFFICES ASSUME IndInv, [Next]_vars PROVE IndInv'
  OBVIOUS
<1>1. TypeOK'
  BY TypeStep DEF IndInv
<1>2. CASE UNCHANGED vars
  BY <1>1, <1>2, VolatileStep DEF vars, Flushing, IndInv, HeldInv
<1>3. ASSUME NEW w \in Workers, Open(w) PROVE IndInv'
  BY <1>1, <1>3, VolatileStep DEF Open, Flushing, IndInv, TypeOK, HeldInv
<1>4. ASSUME NEW w \in Workers, Crash(w) PROVE IndInv'
  BY <1>1, <1>4, VolatileStep DEF Crash, Flushing, IndInv, TypeOK, HeldInv
<1>5. ASSUME NEW w \in Workers, NEW v \in Vessels, IntervalElapses(w, v)
      PROVE  IndInv'
  BY <1>1, <1>5, VolatileStep DEF IntervalElapses, Flushing, IndInv, TypeOK, HeldInv
<1>6. ASSUME NEW w \in Workers, ReadReceipt(w) PROVE IndInv'
  BY <1>1, <1>6, VolatileStep, TrackSpoolAssumptions
  DEF ReadReceipt, Flushing, IndInv, TypeOK, HeldInv, Seqs
<1>7. ASSUME NEW w \in Workers, FlushError(w) PROVE IndInv'
  BY <1>1, <1>7, VolatileStep DEF FlushError, Flushing, IndInv, TypeOK, HeldInv
<1>8. ASSUME NEW w \in Workers, NEW v \in Vessels, NEW signal \in BOOLEAN,
             OnPositionRejected(w, v, signal)
      PROVE  IndInv'
  BY <1>2, <1>8 DEF OnPositionRejected
<1> QED
  BY <1>1, <1>2, <1>3, <1>4, <1>5, <1>6, <1>7, <1>8, OnPositionStep, ReClaimStep,
     ClaimStep, CommitStep, AcknowledgeStep
  DEF Next, Flush, Ingest
-----------------------------------------------------------------------------
(* What follows from it *)

\* The invariant implies the safety properties.
LEMMA IndInvImplies ==
    IndInv => /\ ExactlyOnce /\ ReceiptsMatch /\ OneFrozenBatch
              /\ StoredInOrder /\ ThrottleBacked
<1> SUFFICES ASSUME IndInv
             PROVE  /\ ExactlyOnce /\ ReceiptsMatch /\ OneFrozenBatch
                    /\ StoredInOrder /\ ThrottleBacked
  OBVIOUS
<1> USE DEF IndInv
<1>1. ExactlyOnce
  <2> SUFFICES ASSUME NEW s \in Seqs
               PROVE  /\ pgRows[s] <= 1
                      /\ s \in Accepted \ pending => pgRows[s] = 1
                      /\ s \notin Accepted => pgRows[s] = 0
    BY DEF ExactlyOnce
  <2> QED
    BY DEF StoreInv, SpoolInv
<1>2. ReceiptsMatch
  BY DEF ReceiptsMatch, HeldInv, StoreInv, TypeOK
<1>3. OneFrozenBatch
  BY DEF SpoolInv
<1>4. StoredInOrder
  <2> SUFFICES ASSUME NEW s \in Seqs, NEW t \in Seqs, t < s, pgRows[s] > 0
               PROVE  pgRows[t] = 1
    BY DEF StoredInOrder
  <2>1. /\ batchOf[s] # None /\ receipts[batchOf[s]] # None
        /\ s \in Accepted
    BY DEF StoreInv, SpoolInv
  <2>2. t \in Accepted
    BY <2>1, TrackSpoolAssumptions DEF Accepted, Seqs, TypeOK
  <2>3. CASE t \notin pending
    BY <2>2, <2>3 DEF StoreInv
  <2>4. CASE t \in pending
    <3>1. s \in Frozen
      BY <2>1, <2>4 DEF SpoolInv, Frozen
    <3>2. t \in Frozen /\ batchOf[t] = batchOf[s]
      BY <2>4, <3>1 DEF SpoolInv, OneFrozenBatch
    <3> QED
      BY <2>1, <3>2 DEF StoreInv
  <2> QED
    BY <2>3, <2>4
<1>5. ThrottleBacked
  <2> SUFFICES ASSUME NEW w \in Workers, NEW v \in throttled[w]
               PROVE  \E s \in Accepted : /\ vesselOf[s] = v
                                          /\ s \in pending \/ pgRows[s] = 1
    BY DEF ThrottleBacked
  <2>1. PICK s \in Accepted : vesselOf[s] = v
    BY DEF WindowInv
  <2>2. s \in Seqs
    BY TrackSpoolAssumptions DEF Accepted, Seqs, TypeOK
  <2> QED
    BY <2>1, <2>2 DEF StoreInv
<1> QED
  BY <1>1, <1>2, <1>3, <1>4, <1>5

\* No accepted fix is lost or stored twice, whatever crashes, lost answers and
\* competing processes do (_flush_spool: "Exactly-once committed delivery
\* across PostgreSQL/SQLite restarts").
THEOREM ExactlyOnceHolds == Spec => []ExactlyOnce
BY IndInit, IndStep, IndInvImplies, PTL DEF Spec

\* The receipt of a batch that is retried matches it: the integrity-mismatch
\* error of _flush_spool, which would block the spool for ever, is unreachable.
THEOREM ReceiptsMatchHolds == Spec => [](ReceiptsMatch /\ OneFrozenBatch)
BY IndInit, IndStep, IndInvImplies, PTL DEF Spec

\* The stored history has no holes: fixes are stored in acceptance order.
THEOREM StoredInOrderHolds == Spec => []StoredInOrder
BY IndInit, IndStep, IndInvImplies, PTL DEF Spec

\* A fix the spool did not commit never throttles the fixes after it.
THEOREM ThrottleBackedHolds == Spec => []ThrottleBacked
BY IndInit, IndStep, IndInvImplies, PTL DEF Spec

-----------------------------------------------------------------------------
(* The counter of a single process *)

\* The counter is the table while the process is up, and the table respects the
\* capacity also while it is down, or a restart would find it over the limit.
CounterInv ==
    Cardinality(Workers) = 1 =>
        /\ Cardinality(pending) <= Capacity
        /\ \A w \in Workers : pc[w] # "down" => count[w] = Cardinality(pending)

\* With one process there is no other.
LEMMA OneWorker ==
    ASSUME Cardinality(Workers) = 1, NEW u \in Workers, NEW w \in Workers
    PROVE  u = w
<1>1. PICK x : Workers = {x}
  BY FS_Singleton, TrackSpoolAssumptions
<1> QED
  BY <1>1

\* Every step moves the counter as it moves the table.
LEMMA CounterStep == IndInv /\ CounterInv /\ [Next]_vars => CounterInv'
<1> SUFFICES ASSUME IndInv, CounterInv, [Next]_vars, Cardinality(Workers) = 1
             PROVE  CounterInv'
  BY DEF CounterInv
<1>1. /\ Cardinality(pending) <= Capacity
      /\ \A w \in Workers : pc[w] # "down" => count[w] = Cardinality(pending)
  BY DEF CounterInv
<1>2. IsFiniteSet(pending) /\ Cardinality(pending) \in Nat /\ TypeOK
  BY SeqSetsAreFinite DEF IndInv, TypeOK
<1>3. ASSUME NEW w \in Workers, Open(w) PROVE CounterInv'
  BY <1>1, <1>2, <1>3, OneWorker DEF CounterInv, Open, spool, TypeOK
<1>4. ASSUME NEW w \in Workers, Crash(w) PROVE CounterInv'
  BY <1>1, <1>2, <1>4, OneWorker DEF CounterInv, Crash, spool, TypeOK
<1>5. ASSUME NEW w \in Workers, NEW v \in Vessels, NEW signal \in BOOLEAN,
             OnPosition(w, v, signal)
      PROVE  CounterInv'
  <2>1. nextSeq \notin pending
    BY <1>2 DEF IndInv, SpoolInv, Accepted, TypeOK
  <2>2. Cardinality(pending') = Cardinality(pending) + 1
    BY <1>2, <1>5, <2>1, FS_AddElement DEF OnPosition
  <2>3. /\ pc[w] # "down" /\ pc' = pc /\ count[w] + 1 <= Capacity
        /\ count'[w] = count[w] + 1
    BY <1>2, <1>5 DEF OnPosition, TypeOK
  <2>4. count'[w] = Cardinality(pending')
    BY <1>1, <2>2, <2>3
  <2> QED
    BY <2>3, <2>4, OneWorker DEF CounterInv
<1>6. ASSUME NEW w \in Workers, Acknowledge(w) PROVE CounterInv'
  <2> DEFINE R == RowsOf(held[w].id)
  <2>1. /\ pending' = pending \ R /\ Cardinality(R) = Cardinality(held[w].rows)
        /\ pc[w] = "ack" /\ count'[w] = count[w] - Cardinality(held[w].rows)
    BY <1>2, <1>6 DEF Acknowledge, TypeOK
  <2>2. R \subseteq pending
    BY DEF RowsOf
  <2> HIDE DEF R
  <2>3. pending \cap R = R /\ Cardinality(R) \in Nat
    BY <1>2, <2>2, FS_Subset, FS_CardinalityType
  <2>4. Cardinality(pending') = Cardinality(pending) - Cardinality(R)
    <3>1. Cardinality(pending \ R) = Cardinality(pending) - Cardinality(pending \cap R)
      BY <1>2, FS_Difference
    <3> QED
      BY <2>1, <2>3, <3>1
  <2>5. count'[w] = Cardinality(pending') /\ Cardinality(pending') <= Capacity
    BY <1>1, <1>2, <2>1, <2>3, <2>4, TrackSpoolAssumptions
  <2> QED
    BY <2>5, OneWorker DEF CounterInv
<1>7. ASSUME UNCHANGED <<pending, count>>,
             \A w \in Workers : pc'[w] # "down" => pc[w] # "down"
      PROVE  CounterInv'
  BY <1>1, <1>7 DEF CounterInv
<1>8. ASSUME NEW w \in Workers, ReClaim(w) PROVE CounterInv'
  BY <1>2, <1>7, <1>8 DEF ReClaim, spool, TypeOK
<1>9. ASSUME NEW w \in Workers, Claim(w) PROVE CounterInv'
  BY <1>2, <1>7, <1>9 DEF Claim, TypeOK
<1>10. ASSUME NEW w \in Workers, ReadReceipt(w) PROVE CounterInv'
  BY <1>2, <1>7, <1>10 DEF ReadReceipt, spool, TypeOK
<1>11. ASSUME NEW w \in Workers, Commit(w) PROVE CounterInv'
  BY <1>2, <1>7, <1>11 DEF Commit, spool, TypeOK
<1>12. ASSUME NEW w \in Workers, FlushError(w) PROVE CounterInv'
  BY <1>2, <1>7, <1>12 DEF FlushError, Flushing, spool, TypeOK
<1>13. ASSUME NEW w \in Workers, NEW v \in Vessels, IntervalElapses(w, v) PROVE CounterInv'
  BY <1>7, <1>13 DEF IntervalElapses, spool
<1>14. CASE UNCHANGED vars
  BY <1>7, <1>14 DEF vars, spool
<1>15. ASSUME NEW w \in Workers, NEW v \in Vessels, NEW signal \in BOOLEAN,
              OnPositionRejected(w, v, signal)
       PROVE  CounterInv'
  BY <1>14, <1>15 DEF OnPositionRejected
<1> QED
  BY <1>3, <1>4, <1>5, <1>6, <1>8, <1>9, <1>10, <1>11, <1>12, <1>13, <1>14, <1>15
  DEF Next, Flush, Ingest

\* With one process the capacity limit is enforced on what the spool really
\* holds, after any history of failed flushes, crashes and restarts.
THEOREM CounterExactHolds == Spec => []CounterExact
<1>1. Init => CounterInv
  BY FS_EmptySet, TrackSpoolAssumptions DEF Init, CounterInv
<1>2. CounterInv => CounterExact
  BY DEF CounterInv, CounterExact
<1>3. Spec => []IndInv
  BY IndInit, IndStep, PTL DEF Spec
<1> QED
  BY <1>1, <1>2, <1>3, CounterStep, PTL DEF Spec

-----------------------------------------------------------------------------
(* Refinement *)

LEMMA CommitStores ==
    ASSUME IndInv, NEW w \in Workers, Commit(w)
    PROVE  History!Store(held[w].rows)
<1> USE TrackSpoolAssumptions DEF IndInv, TypeOK, Accepted, Seqs
<1> DEFINE b == held[w].id  S == held[w].rows
<1>1. /\ receipts[b] = None /\ b \in BatchIds /\ b # None /\ S = Members(b)
      /\ UNCHANGED nextSeq
      /\ pgRows' = [s \in Seqs |-> IF s \in S THEN pgRows[s] + 1 ELSE pgRows[s]]
  BY DEF Commit, HeldInv, Flushing, spool
<1>2. \A s \in S : s \in Accepted /\ s \in Frozen /\ pgRows[s] = 0
  <2> SUFFICES ASSUME NEW s \in S
               PROVE  s \in Accepted /\ s \in Frozen /\ pgRows[s] = 0
    OBVIOUS
  <2>1. s \in Seqs /\ batchOf[s] = b
    BY <1>1 DEF Members
  <2>2. s \in Accepted
    BY <1>1, <2>1 DEF SpoolInv
  <2> HIDE DEF Accepted
  <2>3. s \in pending
    BY <1>1, <2>1, <2>2 DEF StoreInv
  <2> QED
    BY <1>1, <2>1, <2>2, <2>3 DEF StoreInv, Frozen
<1>3. ASSUME NEW s \in S, NEW t \in 1 .. s - 1
      PROVE  t \in S \/ pgRows[t] = 1
  <2>1. t \in Seqs /\ t \in Accepted /\ t < s /\ s \in Accepted
    BY <1>2
  <2>2. CASE t \notin pending
    BY <2>1, <2>2 DEF StoreInv
  <2>3. CASE t \in pending
    <3>1. t \in Frozen
      BY <1>2, <2>1, <2>3 DEF SpoolInv
    <3>2. batchOf[t] = batchOf[s]
      BY <1>2, <3>1 DEF SpoolInv, OneFrozenBatch
    <3> QED
      BY <1>1, <2>1, <3>2 DEF Members
  <2> QED
    BY <2>2, <2>3
<1>4. pgRows' = [s \in 1 .. MaxSeq |-> IF s \in S THEN 1 ELSE pgRows[s]]
  BY <1>1, <1>2
<1> QED
  BY <1>1, <1>2, <1>3, <1>4 DEF History!Store

\* The spool with its crashes, retries and competing processes implements
\* TrackHistory: accept in order, store in order, each fix once.
THEOREM Refinement == Spec => ImplementsHistory
<1>1. Init => History!Init
  BY DEF Init, History!Init, Seqs
<1>2. IndInv /\ [Next]_vars => [History!Next]_<<nextSeq - 1, pgRows>>
  <2> SUFFICES ASSUME IndInv, [Next]_vars
               PROVE  History!Next \/ UNCHANGED <<nextSeq - 1, pgRows>>
    OBVIOUS
  <2>1. ASSUME NEW w \in Workers, NEW v \in Vessels, NEW signal \in BOOLEAN,
               OnPosition(w, v, signal)
        PROVE  History!Accept
    BY <2>1, TrackSpoolAssumptions
    DEF OnPosition, History!Accept, IndInv, TypeOK, postgres
  <2>2. ASSUME NEW w \in Workers, Commit(w) PROVE History!Next
    <3>1. held[w].rows \in SUBSET (1 .. MaxSeq)
      BY DEF IndInv, TypeOK, Seqs
    <3> QED
      BY <2>2, <3>1, CommitStores DEF History!Next
  <2>3. ASSUME UNCHANGED <<nextSeq, pgRows>>
        PROVE  UNCHANGED <<nextSeq - 1, pgRows>>
    BY <2>3
  <2>4. ASSUME NEW w \in Workers,
               \/ Open(w) \/ Crash(w) \/ ReClaim(w) \/ Claim(w) \/ ReadReceipt(w)
               \/ FlushError(w) \/ Acknowledge(w)
               \/ \E v \in Vessels : \/ IntervalElapses(w, v)
                                      \/ \E signal \in BOOLEAN :
                                            OnPositionRejected(w, v, signal)
        PROVE  UNCHANGED <<nextSeq, pgRows>>
    BY <2>4 DEF Open, Crash, ReClaim, Claim, ReadReceipt, FlushError, Acknowledge,
                IntervalElapses, OnPositionRejected, spool, postgres, vars
  <2>5. CASE UNCHANGED vars
    BY <2>3, <2>5 DEF vars, spool, postgres
  <2> QED
    BY <2>1, <2>2, <2>3, <2>4, <2>5 DEF Next, Flush, Ingest, History!Next
<1>3. Spec => []IndInv
  BY IndInit, IndStep, PTL DEF Spec
<1> QED
  BY <1>1, <1>2, <1>3, PTL DEF Spec, ImplementsHistory, History!Spec
=============================================================================
