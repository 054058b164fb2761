--------------------------- MODULE LiveRoomProofs ---------------------------
(***************************************************************************)
(* The Live room of the edge, for any set of event ids, any clock bound,   *)
(* time to live and list length, and a network that delivers what it likes *)
(* when it likes.                                                          *)
(*                                                                         *)
(* What ingest compares a message with is only the record under            *)
(* incident:<id>, not the history.  HistoryInv says that this record       *)
(* dominates the whole history of its incident, which is why comparing     *)
(* with it alone is enough.                                                *)
(***************************************************************************)
EXTENDS LiveRoom, FiniteSetTheorems, TLAPS

HistoryInv ==
  \A k \in 1 .. Len(chain) :
    /\ chain[k].id \in seen
    /\ versionAt[IncidentAt(k)] # NoVersion
    /\ chain[k].observed <= versionAt[IncidentAt(k)]
    /\ chain[k].id.removed /\ ~tombstone[IncidentAt(k)] =>
         chain[k].observed < versionAt[IncidentAt(k)]

IndInv ==
  /\ TypeOK
  /\ HistoryInv
  /\ AcceptedOnce
  /\ NoResurrection
  /\ VisibleIsLatest

\* Whatever is read from the storage has the type it was written with.
LEMMA ReadTypes ==
  ASSUME TypeOK
  PROVE  /\ \A k \in 1 .. Len(chain) :
              /\ chain[k] \in Messages
              /\ IncidentAt(k) \in Incidents
              /\ chain[k].observed \in Int
              /\ chain[k].id.removed \in BOOLEAN
         /\ Len(chain) \in Nat
         /\ \A m \in Messages :
              /\ m.id \in Ids
              /\ m.id.incident \in Incidents
              /\ m.id.removed \in BOOLEAN
              /\ m.observed \in Times
         /\ Times \subseteq Int
<1>1. /\ Times \subseteq Int
      /\ Len(chain) \in Nat
      /\ \A k \in 1 .. Len(chain) : chain[k] \in Messages
  BY RoomAssumption DEF TypeOK, Times
<1>2. ASSUME NEW m \in Messages
      PROVE  /\ m.id \in Ids
             /\ m.id.incident \in Incidents
             /\ m.id.removed \in BOOLEAN
             /\ m.observed \in Times
  <2>1. m.id \in Ids /\ m.observed \in Times
    BY DEF Messages
  <2>2. m.id \in AllIds
    BY <2>1, RoomAssumption
  <2> QED
    BY <2>1, <2>2 DEF AllIds
<1> QED
  BY <1>1, <1>2 DEF IncidentAt

\* The accepted message dominates every earlier version of its incident.
LEMMA AcceptDominates ==
  ASSUME TypeOK, HistoryInv, NEW m \in Messages, ~IsStale(m),
         NEW k \in 1 .. Len(chain), IncidentAt(k) = m.id.incident
  PROVE  /\ chain[k].observed <= m.observed
         /\ chain[k].id.removed /\ ~m.id.removed => chain[k].observed < m.observed
<1> DEFINE i == m.id.incident
<1>1. /\ chain[k].observed \in Int /\ m.observed \in Int /\ i \in Incidents
      /\ chain[k].id.removed \in BOOLEAN /\ m.id.removed \in BOOLEAN
  BY ReadTypes
<1>2. versionAt[i] \in Int /\ tombstone[i] \in BOOLEAN
  BY <1>1, ReadTypes DEF TypeOK, NoVersion
<1>3. /\ versionAt[i] # NoVersion
      /\ chain[k].observed <= versionAt[i]
      /\ chain[k].id.removed /\ ~tombstone[i] => chain[k].observed < versionAt[i]
  BY DEF HistoryInv
<1>4. CurrentVersion(i) = versionAt[i]
  BY <1>3 DEF CurrentVersion
<1>5. /\ ~(m.observed < versionAt[i])
      /\ ~(tombstone[i] /\ ~m.id.removed /\ m.observed <= versionAt[i])
  BY <1>3, <1>4 DEF IsStale
<1> QED
  BY <1>1, <1>2, <1>3, <1>5

\* The chain after an accepted message.
LEMMA AppendChain ==
  ASSUME TypeOK, NEW m \in Messages, chain' = Append(chain, m)
  PROVE  /\ chain' \in Seq(Messages)
         /\ Len(chain') = Len(chain) + 1
         /\ chain'[Len(chain) + 1] = m
         /\ \A k \in 1 .. Len(chain) : chain'[k] = chain[k]
         /\ \A k \in 1 .. Len(chain') : k \in 1 .. Len(chain) \/ k = Len(chain) + 1
<1>1. chain \in Seq(Messages) /\ Len(chain) \in Nat
  BY DEF TypeOK
<1>2. Len(chain') = Len(chain) + 1
  BY <1>1
<1>3. /\ chain'[Len(chain) + 1] = m
      /\ \A k \in 1 .. Len(chain) : chain'[k] = chain[k]
  BY <1>1
<1>4. chain' \in Seq(Messages)
  BY <1>1
<1> QED
  BY <1>1, <1>2, <1>3, <1>4

LEMMA AcceptStep ==
  ASSUME IndInv, NEW m \in Messages, Accept(m)
  PROVE  IndInv'
<1> DEFINE i == m.id.incident
           n == Len(chain) + 1
           others == {k \in FreshPositions : IncidentAt(k) # i}
<1> USE DEF IndInv
<1>1. /\ chain' \in Seq(Messages)
      /\ Len(chain') = n
      /\ chain'[n] = m
      /\ \A k \in 1 .. Len(chain) : chain'[k] = chain[k]
      /\ \A k \in 1 .. Len(chain') : k \in 1 .. Len(chain) \/ k = n
  BY AppendChain DEF Accept
<1>2. /\ m.id \in Ids /\ i \in Incidents /\ m.id.removed \in BOOLEAN
      /\ m.observed \in Times /\ m.observed \in Int /\ Len(chain) \in Nat
  BY ReadTypes
<1>3. /\ seen' = seen \union {m.id} /\ m.id \notin seen /\ ~IsStale(m)
      /\ versionAt' = [versionAt EXCEPT ![i] = m.observed]
      /\ tombstone' = [tombstone EXCEPT ![i] = m.id.removed]
      /\ now' = now /\ resets' = resets
  BY DEF Accept
<1>4. /\ versionAt'[i] = m.observed /\ tombstone'[i] = m.id.removed
      /\ \A h \in Incidents : h # i =>
           versionAt'[h] = versionAt[h] /\ tombstone'[h] = tombstone[h]
  BY <1>2, <1>3 DEF TypeOK
<1>5. others \subseteq 1 .. Len(chain) /\ others \subseteq visible
  BY DEF TypeOK, FreshPositions
<1>6. visible' \subseteq others \union {n} /\ (m.id.removed => visible' \subseteq others)
  BY DEF Accept, Newest
<1>7. TypeOK'
  <2>1. versionAt' \in [Incidents -> Times \union {NoVersion}]
    BY <1>2, <1>3 DEF TypeOK
  <2>2. tombstone' \in [Incidents -> BOOLEAN]
    BY <1>2, <1>3 DEF TypeOK
  <2>3. visible' \subseteq 1 .. Len(chain')
    BY <1>1, <1>2, <1>5, <1>6
  <2>4. seen' \subseteq Ids /\ now' \in Times /\ resets' \in 0 .. MaxResets
    BY <1>2, <1>3 DEF TypeOK
  <2> QED
    BY <1>1, <2>1, <2>2, <2>3, <2>4 DEF TypeOK
<1>8. \A k \in 1 .. Len(chain) : IncidentAt(k)' = IncidentAt(k) /\ IncidentAt(k) \in Incidents
  BY <1>1, ReadTypes DEF IncidentAt
<1>9. \A k \in 1 .. Len(chain') : k = n => IncidentAt(k)' = i
  BY <1>1 DEF IncidentAt
<1>10. \A k \in 1 .. Len(chain) : IncidentAt(k) = i =>
         /\ chain[k].observed <= m.observed
         /\ chain[k].id.removed /\ ~m.id.removed => chain[k].observed < m.observed
  BY <1>3, AcceptDominates
<1>11. HistoryInv'
  <2> SUFFICES ASSUME NEW k \in 1 .. Len(chain')
               PROVE  /\ chain'[k].id \in seen'
                      /\ versionAt'[IncidentAt(k)'] # NoVersion
                      /\ chain'[k].observed <= versionAt'[IncidentAt(k)']
                      /\ chain'[k].id.removed /\ ~tombstone'[IncidentAt(k)'] =>
                           chain'[k].observed < versionAt'[IncidentAt(k)']
    BY DEF HistoryInv, IncidentAt
  <2>1. CASE k = n
    BY <2>1, <1>1, <1>2, <1>3, <1>4, <1>9 DEF NoVersion, Times
  <2>2. CASE k \in 1 .. Len(chain) /\ IncidentAt(k) = i
    BY <2>2, <1>1, <1>2, <1>3, <1>4, <1>8, <1>10 DEF HistoryInv, NoVersion, Times
  <2>3. CASE k \in 1 .. Len(chain) /\ IncidentAt(k) # i
    BY <2>3, <1>1, <1>3, <1>4, <1>8 DEF HistoryInv
  <2> QED
    BY <2>1, <2>2, <2>3, <1>1
<1>12. AcceptedOnce'
  BY <1>1, <1>3 DEF AcceptedOnce, HistoryInv
<1>13. NoResurrection'
  <2> SUFFICES ASSUME NEW j \in 1 .. Len(chain'), NEW k \in 1 .. Len(chain'),
                      j < k, IncidentAt(j)' = IncidentAt(k)'
               PROVE  /\ chain'[j].observed <= chain'[k].observed
                      /\ chain'[j].id.removed /\ ~chain'[k].id.removed =>
                           chain'[j].observed < chain'[k].observed
    BY DEF NoResurrection, IncidentAt
  <2>1. j \in 1 .. Len(chain)
    BY <1>1, <1>2
  <2>2. CASE k = n
    BY <2>1, <2>2, <1>1, <1>8, <1>9, <1>10
  <2>3. CASE k \in 1 .. Len(chain)
    BY <2>1, <2>3, <1>1, <1>8 DEF NoResurrection
  <2> QED
    BY <2>2, <2>3, <1>1
<1>14. VisibleIsLatest'
  <2> SUFFICES ASSUME NEW k \in visible'
               PROVE  /\ ~chain'[k].id.removed
                      /\ \A j \in k + 1 .. Len(chain') : IncidentAt(j)' # IncidentAt(k)'
    BY DEF VisibleIsLatest, IncidentAt
  <2>1. CASE k = n
    <3>1. n \notin others
      BY <1>2, <1>5
    <3>2. ~m.id.removed
      BY <2>1, <3>1, <1>2, <1>6
    <3> QED
      BY <2>1, <3>2, <1>1, <1>2
  <2>2. CASE k \in others
    <3>1. k \in visible /\ k \in 1 .. Len(chain) /\ IncidentAt(k) # i
      BY <2>2, <1>5
    <3>2. ~chain'[k].id.removed
      BY <3>1, <1>1 DEF VisibleIsLatest
    <3>3. ASSUME NEW j \in k + 1 .. Len(chain')
          PROVE  IncidentAt(j)' # IncidentAt(k)'
      <4>1. CASE j = n
        <5>1. j \in 1 .. Len(chain')
          BY <3>1, <1>1, <1>2
        <5> QED
          BY <4>1, <5>1, <3>1, <1>8, <1>9
      <4>2. CASE j \in k + 1 .. Len(chain)
        <5>1. j \in 1 .. Len(chain)
          BY <4>2, <3>1, <1>2
        <5> QED
          BY <4>2, <5>1, <3>1, <1>8 DEF VisibleIsLatest
      <4> QED
        BY <4>1, <4>2, <3>1, <1>1, <1>2
    <3> QED
      BY <3>2, <3>3
  <2> QED
    BY <2>1, <2>2, <1>6
<1> QED
  BY <1>7, <1>11, <1>12, <1>13, <1>14

\* Marking a stale id as seen only enlarges seen.
LEMMA StaleStep ==
  ASSUME IndInv, NEW m \in Messages, Stale(m)
  PROVE  IndInv'
<1> USE DEF IndInv
<1>1. m.id \in Ids
  BY ReadTypes
<1>2. TypeOK'
  BY <1>1 DEF TypeOK, Stale
<1>3. HistoryInv'
  BY DEF HistoryInv, Stale, IncidentAt
<1>4. AcceptedOnce' /\ NoResurrection' /\ VisibleIsLatest'
  BY DEF AcceptedOnce, NoResurrection, VisibleIsLatest, Stale, IncidentAt
<1> QED
  BY <1>2, <1>3, <1>4

LEMMA SnapshotStep ==
  ASSUME IndInv, LoadSnapshot
  PROVE  IndInv'
<1> USE DEF IndInv
<1>1. TypeOK'
  BY DEF TypeOK, LoadSnapshot, FreshPositions
<1>2. HistoryInv' /\ AcceptedOnce' /\ NoResurrection'
  BY DEF HistoryInv, AcceptedOnce, NoResurrection, LoadSnapshot, IncidentAt
<1>3. VisibleIsLatest'
  BY DEF VisibleIsLatest, LoadSnapshot, FreshPositions, IncidentAt
<1> QED
  BY <1>1, <1>2, <1>3

LEMMA ResetStep ==
  ASSUME IndInv, Reset
  PROVE  IndInv'
<1> USE DEF IndInv
<1>1. chain' = <<>> /\ visible' = {}
  BY DEF Reset
<1>2. TypeOK'
  <2>1. /\ versionAt' \in [Incidents -> Times \union {NoVersion}]
        /\ tombstone' \in [Incidents -> BOOLEAN]
        /\ seen' \subseteq Ids /\ now' \in Times
    BY DEF TypeOK, Reset
  <2>2. resets' \in 0 .. MaxResets
    BY RoomAssumption DEF TypeOK, Reset
  <2> QED
    BY <1>1, <2>1, <2>2 DEF TypeOK
<1>3. HistoryInv' /\ AcceptedOnce' /\ NoResurrection' /\ VisibleIsLatest'
  BY <1>1 DEF HistoryInv, AcceptedOnce, NoResurrection, VisibleIsLatest
<1> QED
  BY <1>2, <1>3

LEMMA TickStep ==
  ASSUME IndInv, Tick
  PROVE  IndInv'
<1> USE DEF IndInv
<1>1. TypeOK'
  BY RoomAssumption DEF TypeOK, Tick, Times
<1>2. HistoryInv' /\ AcceptedOnce' /\ NoResurrection' /\ VisibleIsLatest'
  BY DEF HistoryInv, AcceptedOnce, NoResurrection, VisibleIsLatest, Tick, IncidentAt
<1> QED
  BY <1>1, <1>2

LEMMA IndInit == Init => IndInv
<1> SUFFICES ASSUME Init PROVE IndInv
  OBVIOUS
<1>1. chain = <<>> /\ visible = {}
  BY DEF Init
<1>2. TypeOK
  BY <1>1, RoomAssumption DEF Init, TypeOK, Times
<1>3. HistoryInv /\ AcceptedOnce /\ NoResurrection /\ VisibleIsLatest
  BY <1>1 DEF HistoryInv, AcceptedOnce, NoResurrection, VisibleIsLatest
<1> QED
  BY <1>2, <1>3 DEF IndInv

LEMMA IndStutter ==
  ASSUME IndInv, UNCHANGED roomVars
  PROVE  IndInv'
  BY DEF IndInv, roomVars, TypeOK, HistoryInv, AcceptedOnce, NoResurrection,
         VisibleIsLatest, IncidentAt

LEMMA IndStep == IndInv /\ [Next]_roomVars => IndInv'
<1> SUFFICES ASSUME IndInv, [Next]_roomVars PROVE IndInv'
  OBVIOUS
<1>1. ASSUME NEW m \in Messages, Ingest(m) PROVE IndInv'
  BY <1>1, AcceptStep, StaleStep, IndStutter DEF Ingest, Duplicate
<1>2. CASE LoadSnapshot
  BY <1>2, SnapshotStep
<1>3. CASE Reset
  BY <1>3, ResetStep
<1>4. CASE Tick
  BY <1>4, TickStep
<1>5. CASE UNCHANGED roomVars
  BY <1>5, IndStutter
<1> QED
  BY <1>1, <1>2, <1>3, <1>4, <1>5 DEF Next

LEMMA Invariance == Spec => []IndInv
<1>1. Init => IndInv
  BY IndInit
<1>2. IndInv /\ [Next]_roomVars => IndInv'
  BY IndStep
<1> QED
  BY <1>1, <1>2, PTL DEF Spec

\* The room's storage is well typed: in particular every member of the list is
\* an accepted event.
THEOREM TypeCorrect == Spec => []TypeOK
<1>1. IndInv => TypeOK
  BY DEF IndInv
<1> QED
  BY <1>1, Invariance, PTL

\* ingest accepts no event id twice between two resets, whatever is delivered.
THEOREM AcceptedOnceHolds == Spec => []AcceptedOnce
<1>1. IndInv => AcceptedOnce
  BY DEF IndInv
<1> QED
  BY <1>1, Invariance, PTL

\* No delivery order makes the observations of an incident go back or revives
\* what a removal took away.
THEOREM NoResurrectionHolds == Spec => []NoResurrection
<1>1. IndInv => NoResurrection
  BY DEF IndInv
<1> QED
  BY <1>1, Invariance, PTL

\* The list holds at most the last accepted version of each incident, and
\* never a removed one.
THEOREM VisibleIsLatestHolds == Spec => []VisibleIsLatest
<1>1. IndInv => VisibleIsLatest
  BY DEF IndInv
<1> QED
  BY <1>1, Invariance, PTL

-----------------------------------------------------------------------------
(* Who is pushed out of the list *)

\* The incidents of the events accepted after the k-th.
After(k) == {IncidentAt(j) : j \in k + 1 .. Len(chain)}

\* Distinct members have as many distinct images.
LEMMA ImageCount ==
  ASSUME NEW S, NEW T, IsFiniteSet(S), NEW f \in [S -> T],
         \A x, y \in S : f[x] = f[y] => x = y, \A t \in T : \E x \in S : f[x] = t
  PROVE  Cardinality(T) = Cardinality(S)
<1>1. f \in Surjection(S, T) /\ f \in Injection(S, T)
  BY DEF Surjection, Injection, IsInjective
<1> QED
  BY <1>1, FS_Surjection

\* The values of a sequence's end are finitely many.
LEMMA ImageFinite ==
  ASSUME NEW S, NEW T, IsFiniteSet(S), NEW f \in [S -> T],
         \A t \in T : \E x \in S : f[x] = t
  PROVE  IsFiniteSet(T)
<1>1. f \in Surjection(S, T)
  BY DEF Surjection
<1> QED
  BY <1>1, FS_Surjection

\* Finitely many incidents come after an event.
LEMMA AfterFinite ==
  ASSUME TypeOK, NEW k \in Nat
  PROVE  IsFiniteSet(After(k))
<1> DEFINE S == k + 1 .. Len(chain)
           f == [j \in S |-> IncidentAt(j)]
<1>1. IsFiniteSet(S)
  BY FS_Interval DEF TypeOK
<1>2. f \in [S -> After(k)] /\ \A t \in After(k) : \E x \in S : f[x] = t
  BY DEF After
<1> HIDE DEF S, f
<1> QED
  BY <1>1, <1>2, ImageFinite

\* More accepted events are more incidents after an event, never fewer.
LEMMA AfterGrows ==
  ASSUME TypeOK, TypeOK', NEW k \in 1 .. Len(chain), Len(chain') >= Len(chain),
         \A j \in 1 .. Len(chain) : chain'[j] = chain[j]
  PROVE  /\ After(k) \subseteq After(k)'
         /\ Cardinality(After(k)) \in Nat /\ Cardinality(After(k)') \in Nat
         /\ Cardinality(After(k)) <= Cardinality(After(k)')
<1>1. After(k) \subseteq After(k)'
  BY DEF After, IncidentAt, TypeOK
<1>2. k \in Nat
  BY DEF TypeOK
<1>3. IsFiniteSet(After(k)) /\ IsFiniteSet(After(k)')
  <2>1. IsFiniteSet(After(k))
    BY <1>2, AfterFinite
  <2>2. IsFiniteSet(After(k)')
    <3> DEFINE S == k + 1 .. Len(chain')
               f == [j \in S |-> IncidentAt(j)']
    <3>1. IsFiniteSet(S)
      BY <1>2, FS_Interval DEF TypeOK
    <3>2. f \in [S -> After(k)'] /\ \A t \in After(k)' : \E x \in S : f[x] = t
      BY DEF After
    <3> HIDE DEF S, f
    <3> QED
      BY <3>1, <3>2, ImageFinite
  <2> QED
    BY <2>1, <2>2
<1> QED
  BY <1>1, <1>3, FS_Subset, FS_CardinalityType

\* EvictedOnlyWhenFull for one accepted event.
Excused(k) ==
  \/ chain[k].id.removed
  \/ ~IsFresh(chain[k])
  \/ \E j \in k + 1 .. Len(chain) : IncidentAt(j) = IncidentAt(k)
  \/ Cardinality(After(k)) >= MaxEvents

\* slice(-MAX_EVENTS) drops an event only for as many newer ones, and the list
\* holds one event of an incident.
LEMMA CutByOthers ==
  ASSUME TypeOK, TypeOK', VisibleIsLatest, NEW m \in Messages,
         chain' = Append(chain, m), NEW k \in 1 .. Len(chain),
         NEW S \in SUBSET (visible \union {Len(chain) + 1}),
         \A j \in S : j # Len(chain) + 1 => IncidentAt(j) # m.id.incident,
         k \in S, k \notin Newest(S)
  PROVE  Cardinality(After(k)') >= MaxEvents
<1> DEFINE n == Len(chain) + 1
           N == {j \in S : j > k}
           f == [j \in N |-> IncidentAt(j)']
           T == {IncidentAt(j)' : j \in N}
<1>1. /\ Len(chain') = n /\ chain'[n] = m
      /\ \A j \in 1 .. Len(chain) : chain'[j] = chain[j]
      /\ Len(chain) \in Nat
  BY AppendChain DEF TypeOK
<1>2. N \subseteq k + 1 .. n /\ k \in Nat
  <2>1. \A j \in visible : j \in 1 .. Len(chain)
    BY DEF TypeOK
  <2>2. \A j \in S : j \in 1 .. Len(chain) \/ j = n
    BY <2>1
  <2>3. Len(chain) \in Nat /\ k \in Nat
    BY <1>1
  <2>4. ASSUME NEW j \in N PROVE j \in k + 1 .. n
    <3>1. j > k /\ (j \in 1 .. Len(chain) \/ j = Len(chain) + 1)
      BY <2>2
    <3> QED
      BY <2>3, <3>1
  <2> QED
    BY <2>3, <2>4
<1>3. IsFiniteSet(N) /\ Cardinality(N) \in Nat
  <2>1. IsFiniteSet(k + 1 .. n)
    BY <1>1, <1>2, FS_Interval
  <2> QED
    BY <1>2, <2>1, FS_Subset, FS_CardinalityType
<1>4. Cardinality(N) >= MaxEvents
  <2>1. ~(Cardinality(N) < MaxEvents)
    BY DEF Newest
  <2> QED
    BY <1>3, <2>1, RoomAssumption
<1>5. \A x, y \in N : IncidentAt(x)' = IncidentAt(y)' => x = y
  <2> SUFFICES ASSUME NEW x \in N, NEW y \in N, x < y PROVE IncidentAt(x)' # IncidentAt(y)'
    <3>1. \A x, y \in N : x < y \/ y < x \/ x = y
      BY <1>2
    <3> QED
      BY <3>1
  <2>1. x \in visible /\ x \in 1 .. Len(chain) /\ IncidentAt(x)' = IncidentAt(x)
    BY <1>1, <1>2 DEF IncidentAt, TypeOK
  <2>2. CASE y = n
    BY <1>1, <2>1, <2>2 DEF IncidentAt
  <2>3. CASE y # n
    <3>1. y \in x + 1 .. Len(chain) /\ y \in 1 .. Len(chain)
      <4>1. y \in k + 1 .. n /\ k \in Nat /\ Len(chain) \in Nat
        BY <1>1, <1>2
      <4> QED
        BY <2>1, <2>3, <4>1
    <3>2. IncidentAt(y)' = IncidentAt(y)
      BY <1>1, <3>1 DEF IncidentAt
    <3> QED
      BY <2>1, <3>1, <3>2 DEF VisibleIsLatest
  <2> QED
    BY <2>2, <2>3
<1>6. Cardinality(T) = Cardinality(N)
  <2>1. /\ f \in [N -> T] /\ \A t \in T : \E x \in N : f[x] = t
        /\ \A x, y \in N : f[x] = f[y] => x = y
    BY <1>5
  <2> HIDE DEF N, f, T
  <2> QED
    BY <1>3, <2>1, ImageCount
<1>7. T \subseteq After(k)'
  BY <1>1, <1>2 DEF After
<1>8. IsFiniteSet(After(k)')
  <2> DEFINE I == k + 1 .. n
             g == [j \in I |-> IncidentAt(j)']
  <2>1. IsFiniteSet(I)
    BY <1>1, <1>2, FS_Interval
  <2>2. g \in [I -> After(k)'] /\ \A t \in After(k)' : \E x \in I : g[x] = t
    BY <1>1 DEF After
  <2> HIDE DEF I, g
  <2> QED
    BY <2>1, <2>2, ImageFinite
<1> HIDE DEF N, T
<1>9. Cardinality(T) <= Cardinality(After(k)') /\ Cardinality(After(k)') \in Nat
  BY <1>7, <1>8, FS_Subset, FS_CardinalityType
<1> QED
  BY <1>3, <1>4, <1>6, <1>9, RoomAssumption

\* An accepted version excuses whatever it takes out of the list.
LEMMA EvictedAccept ==
  ASSUME IndInv, IndInv', EvictedOnlyWhenFull, NEW m \in Messages, Accept(m)
  PROVE  EvictedOnlyWhenFull'
<1> DEFINE n == Len(chain) + 1
           others == {j \in FreshPositions : IncidentAt(j) # m.id.incident}
<1>1. TypeOK /\ TypeOK' /\ VisibleIsLatest
  BY DEF IndInv
<1>2. /\ Len(chain') = n /\ chain'[n] = m
      /\ \A j \in 1 .. Len(chain) : chain'[j] = chain[j]
      /\ \A j \in 1 .. Len(chain') : j \in 1 .. Len(chain) \/ j = n
      /\ Len(chain) \in Nat
  BY <1>1, AppendChain DEF Accept, TypeOK
<1>3. /\ now' = now /\ chain' = Append(chain, m)
      /\ visible' = IF m.id.removed THEN others ELSE Newest(others \union {n})
  BY DEF Accept
<1> SUFFICES ASSUME NEW k \in 1 .. Len(chain'), k \notin visible' PROVE Excused(k)'
  BY DEF EvictedOnlyWhenFull, Excused, After
<1>4. CASE k = n
  <2>1. CASE m.id.removed
    BY <1>2, <1>4, <2>1 DEF Excused
  <2>2. CASE ~m.id.removed
    <3>1. \A j \in others : j \in 1 .. Len(chain)
      BY <1>1 DEF FreshPositions, TypeOK
    <3>2. {j \in others \union {n} : j > n} = {}
      BY <1>2, <3>1
    <3>3. Cardinality({j \in others \union {n} : j > n}) < MaxEvents
      <4>1. 0 < MaxEvents
        BY RoomAssumption
      <4> QED
        BY <3>2, <4>1, FS_EmptySet
    <3> QED
      BY <1>3, <1>4, <2>2, <3>3 DEF Newest
  <2> QED
    BY <2>1, <2>2
<1>5. CASE k \in 1 .. Len(chain) /\ k \notin visible
  <2>1. Excused(k)
    BY <1>5 DEF EvictedOnlyWhenFull, Excused, After
  <2>2. chain'[k] = chain[k] /\ (IsFresh(chain[k])' <=> IsFresh(chain[k]))
    BY <1>2, <1>3, <1>5 DEF IsFresh
  <2>3. /\ Cardinality(After(k)) \in Nat /\ Cardinality(After(k)') \in Nat
        /\ Cardinality(After(k)) <= Cardinality(After(k)')
    BY <1>1, <1>2, <1>5, AfterGrows
  <2>4. ASSUME NEW j \in k + 1 .. Len(chain), IncidentAt(j) = IncidentAt(k)
        PROVE  j \in k + 1 .. Len(chain') /\ IncidentAt(j)' = IncidentAt(k)'
    BY <1>2, <1>5, <2>4 DEF IncidentAt
  <2>5. CASE Cardinality(After(k)) >= MaxEvents
    BY <2>3, <2>5, RoomAssumption DEF Excused
  <2>6. CASE ~(Cardinality(After(k)) >= MaxEvents)
    BY <2>1, <2>2, <2>4, <2>6 DEF Excused, IsFresh
  <2> QED
    BY <2>5, <2>6
<1>6. CASE k \in 1 .. Len(chain) /\ k \in visible
  <2>1. CASE ~IsFresh(chain[k])
    BY <1>2, <1>3, <1>6, <2>1 DEF Excused, IsFresh
  <2>2. CASE IncidentAt(k) = m.id.incident
    <3>1. n \in k + 1 .. Len(chain')
      BY <1>2, <1>6
    <3>2. chain'[n].id.incident = chain'[k].id.incident
      BY <1>2, <1>6, <2>2 DEF IncidentAt
    <3>3. \E j \in k + 1 .. Len(chain') : chain'[j].id.incident = chain'[k].id.incident
      BY <3>1, <3>2
    <3> QED
      BY <3>3 DEF Excused, IncidentAt
  <2>3. CASE IsFresh(chain[k]) /\ IncidentAt(k) # m.id.incident
    <3>1. k \in others
      BY <1>6, <2>3 DEF FreshPositions
    <3>2. k \notin Newest(others \union {n})
      BY <1>3, <3>1
    <3>3. others \union {n} \in SUBSET (visible \union {n})
      BY DEF FreshPositions
    <3>4. \A j \in others \union {n} : j # n => IncidentAt(j) # m.id.incident
      OBVIOUS
    <3> HIDE DEF others
    <3>5. Cardinality(After(k)') >= MaxEvents
      BY <1>1, <1>3, <1>6, <3>1, <3>2, <3>3, <3>4, CutByOthers
    <3> QED
      BY <3>5 DEF Excused
  <2> QED
    BY <2>1, <2>2, <2>3
<1> QED
  BY <1>2, <1>4, <1>5, <1>6

\* The other handlers take out of the list only what is no longer fresh.
LEMMA EvictedStep == IndInv /\ EvictedOnlyWhenFull /\ [Next]_roomVars => EvictedOnlyWhenFull'
<1> SUFFICES ASSUME IndInv, EvictedOnlyWhenFull, [Next]_roomVars PROVE EvictedOnlyWhenFull'
  OBVIOUS
<1>1. ASSUME NEW m \in Messages, Accept(m) PROVE EvictedOnlyWhenFull'
  BY <1>1, AcceptStep, EvictedAccept
<1>2. CASE UNCHANGED <<now, chain, visible>>
  BY <1>2 DEF EvictedOnlyWhenFull, IsFresh, IncidentAt
<1>3. ASSUME NEW m \in Messages, Duplicate(m) \/ Stale(m) PROVE EvictedOnlyWhenFull'
  BY <1>2, <1>3 DEF Duplicate, Stale, roomVars
<1>4. CASE LoadSnapshot
  <2>1. /\ now' = now /\ chain' = chain
        /\ \A k \in visible : k \notin visible' => ~IsFresh(chain[k])
    BY <1>4 DEF LoadSnapshot, FreshPositions
  <2> QED
    BY <2>1 DEF EvictedOnlyWhenFull, IsFresh, IncidentAt
<1>5. CASE Reset
  BY <1>5 DEF Reset, EvictedOnlyWhenFull
<1>6. CASE Tick
  <2>1. chain' = chain /\ visible' = visible /\ now' = now + 1
    BY <1>6 DEF Tick
  <2>2. \A k \in 1 .. Len(chain) : ~IsFresh(chain[k]) => ~IsFresh(chain[k])'
    <3>1. now \in Int /\ Ttl \in Int
      BY RoomAssumption DEF IndInv, TypeOK, Times
    <3> QED
      BY <2>1, <3>1, ReadTypes DEF IsFresh, IndInv
  <2> QED
    BY <2>1, <2>2 DEF EvictedOnlyWhenFull, IncidentAt, IsFresh
<1>7. CASE UNCHANGED roomVars
  BY <1>2, <1>7 DEF roomVars
<1> QED
  BY <1>1, <1>3, <1>4, <1>5, <1>6, <1>7 DEF Next, Ingest

\* An active, fresh last version is missing from the list only when newer
\* events of MAX_EVENTS other incidents pushed it out: a burst of versions of
\* few incidents never empties the map of the others.
THEOREM EvictedOnlyWhenFullHolds == Spec => []EvictedOnlyWhenFull
<1>1. Init => EvictedOnlyWhenFull
  BY DEF Init, EvictedOnlyWhenFull
<1> QED
  BY <1>1, EvictedStep, Invariance, PTL DEF Spec

=============================================================================
