--------------------------- MODULE LiveEdgeProofs ---------------------------
(***************************************************************************)
(* The publisher and the room together, for any rows, contents, limits and *)
(* bounds, and posts that are lost, late or answered too late.             *)
(*                                                                         *)
(* Two things are shown.  The room that the publisher feeds is the room of *)
(* LiveRoom (RoomRefinement), so what LiveRoomProofs shows of it under an  *)
(* arbitrary network holds here.  And the outbox and the room agree: what  *)
(* the one struck off the other has processed, and a withdrawn row is only *)
(* ever removed where it was shown.  For the second, Justified looks at    *)
(* every id the system holds, the ones the room has seen included: a       *)
(* removal that was delivered makes was_ever_delivered true by itself, and *)
(* must not justify the next one.                                          *)
(*                                                                         *)
(* At the end the page that reads the feed, LiveClient: an outage does not *)
(* empty the map, and the edge build never stops polling.                  *)
(***************************************************************************)
EXTENDS LiveEdge, LiveClient, FiniteSetTheorems, TLAPS

RoomProofs == INSTANCE LiveRoomProofs WITH Versions <- Contents \union {NoContent}, Ids <- EventIds

\* The ids on their way to the room or stored there.
ChainIds == {chain[k].id : k \in 1 .. Len(chain)}
HeldIds == {p.id : p \in pending} \union {p.id : p \in wire} \union ChainIds \union seen

\* The room was sent a version of the row with something in it.
Shownable(i) == \E id \in seen : id.incident = i /\ id.version # NoContent

Justified ==
  resets = 0 => \A id \in HeldIds : id.version = NoContent => Shownable(id.incident)

IndInv == TypeOK /\ RoomProofs!IndInv /\ AckMeansProcessed /\ Justified

-----------------------------------------------------------------------------
(* The room as a part *)

\* The room's assumptions on its constants hold here.
LEMMA RoomConstants == RoomProofs!RoomAssumption
BY EdgeAssumption DEF RoomProofs!RoomAssumption, RoomProofs!AllIds, EventIds

\* Bounds as numbers.
LEMMA Bounds ==
  /\ MaxTime \in Nat /\ MaxEdits \in Nat /\ MaxFaults \in Nat /\ MaxResets \in Nat
  /\ NoContent \notin Contents
BY EdgeAssumption

\* The room's initial state and steps are those LiveRoomProofs is about.
LEMMA SameRoom ==
  /\ Room!Init <=> RoomProofs!Init
  /\ [Room!Next]_roomVars <=> [RoomProofs!Next]_(RoomProofs!roomVars)
  /\ RoomProofs!IndInv => Room!TypeOK
<1>1. Room!Init <=> RoomProofs!Init
  BY DEF Room!Init, RoomProofs!Init, Room!NoVersion, RoomProofs!NoVersion
<1>2. \A m : Room!IsStale(m) <=> RoomProofs!IsStale(m)
  BY DEF Room!IsStale, RoomProofs!IsStale, Room!CurrentVersion, RoomProofs!CurrentVersion,
         Room!FromVisible, RoomProofs!FromVisible, Room!FreshPositions, RoomProofs!FreshPositions,
         Room!IsFresh, RoomProofs!IsFresh, Room!IncidentAt, RoomProofs!IncidentAt,
         Room!NoVersion, RoomProofs!NoVersion
<1>3. Room!FreshPositions = RoomProofs!FreshPositions
  BY DEF Room!FreshPositions, RoomProofs!FreshPositions, Room!IsFresh, RoomProofs!IsFresh
<1>4. ASSUME NEW S PROVE Room!Newest(S) = RoomProofs!Newest(S)
  BY DEF Room!Newest, RoomProofs!Newest, Room!Cardinality, RoomProofs!Cardinality
<1>5. \A m : Room!Accept(m) <=> RoomProofs!Accept(m)
  BY <1>2, <1>3, <1>4
  DEF Room!Accept, RoomProofs!Accept, Room!IncidentAt, RoomProofs!IncidentAt
<1>6. \A m : Room!Stale(m) <=> RoomProofs!Stale(m)
  BY <1>2 DEF Room!Stale, RoomProofs!Stale
<1>7. \A m : Room!Duplicate(m) <=> RoomProofs!Duplicate(m)
  BY DEF Room!Duplicate, RoomProofs!Duplicate, Room!roomVars, RoomProofs!roomVars
<1>8. /\ Room!LoadSnapshot <=> RoomProofs!LoadSnapshot
      /\ Room!Reset <=> RoomProofs!Reset
      /\ Room!Tick <=> RoomProofs!Tick
  BY <1>3 DEF Room!LoadSnapshot, RoomProofs!LoadSnapshot, Room!Reset, RoomProofs!Reset,
              Room!Tick, RoomProofs!Tick, Room!NoVersion, RoomProofs!NoVersion
<1>9. Room!Messages = RoomProofs!Messages
  BY DEF Room!Messages, RoomProofs!Messages, Room!Times, RoomProofs!Times
<1>10. Room!Next <=> RoomProofs!Next
  BY <1>5, <1>6, <1>7, <1>8, <1>9
  DEF Room!Next, RoomProofs!Next, Room!Ingest, RoomProofs!Ingest
<1>11. RoomProofs!IndInv => Room!TypeOK
  BY DEF RoomProofs!IndInv, RoomProofs!TypeOK, Room!TypeOK, Room!Messages, RoomProofs!Messages,
         Room!Times, RoomProofs!Times, Room!NoVersion, RoomProofs!NoVersion
<1> QED
  BY <1>1, <1>10, <1>11 DEF roomVars, RoomProofs!roomVars

\* What ingest does to the ids the room knows, whether the message is a
\* duplicate, stale or taken: the id is remembered, and nothing is forgotten.
LEMMA IngestFacts ==
  ASSUME TypeOK, NEW p \in Payloads, Room!Ingest(p)
  PROVE  /\ seen' = seen \union {p.id}
         /\ ChainIds' \subseteq ChainIds \union {p.id}
         /\ now' = now /\ resets' = resets
<1>1. CASE Room!Duplicate(p)
  BY <1>1 DEF Room!Duplicate, Room!roomVars, ChainIds
<1>2. CASE Room!Stale(p)
  BY <1>2 DEF Room!Stale, ChainIds
<1>3. CASE Room!Accept(p)
  <2>1. /\ seen' = seen \union {p.id} /\ now' = now /\ resets' = resets
        /\ chain' = Append(chain, p)
    BY <1>3 DEF Room!Accept
  <2>2. chain \in Seq(Room!Messages) /\ p \in Room!Messages
    BY DEF TypeOK, Room!TypeOK, Payloads, Room!Messages, Room!Times
  <2>3. /\ Len(chain') = Len(chain) + 1 /\ Len(chain) \in Nat
        /\ chain'[Len(chain) + 1] = p
        /\ \A k \in 1 .. Len(chain) : chain'[k] = chain[k]
    BY <2>1, <2>2
  <2>4. ASSUME NEW k \in 1 .. Len(chain') PROVE chain'[k].id \in ChainIds \union {p.id}
    <3>1. k \in 1 .. Len(chain) \/ k = Len(chain) + 1
      BY <2>3
    <3> QED
      BY <2>3, <3>1 DEF ChainIds
  <2> QED
    BY <2>1, <2>4 DEF ChainIds
<1> QED
  BY <1>1, <1>2, <1>3 DEF Room!Ingest

\* A post that was not answered: the room took it, or did not.
LEMMA UnansweredFacts ==
  ASSUME TypeOK, NEW p \in Payloads, Unanswered(p)
  PROVE  /\ seen \subseteq seen' /\ seen' \subseteq seen \union {p.id}
         /\ ChainIds' \subseteq ChainIds \union {p.id}
         /\ wire \subseteq wire' /\ wire' \subseteq wire \union {p}
         /\ now' = now /\ resets' = resets /\ faults' \in 0 .. MaxFaults
<1>1. faults' \in 0 .. MaxFaults
  BY Bounds DEF Unanswered, TypeOK
<1>2. CASE UNCHANGED roomVars
  BY <1>1, <1>2, IngestFacts DEF Unanswered, roomVars, ChainIds
<1>3. CASE Room!Ingest(p) /\ UNCHANGED wire
  BY <1>1, <1>3, IngestFacts
<1> QED
  BY <1>2, <1>3 DEF Unanswered

\* The other steps of the room.
LEMMA RoomReadFacts ==
  /\ Room!LoadSnapshot => UNCHANGED <<now, seen, chain, resets>>
  /\ Room!Tick => UNCHANGED <<seen, chain, resets>> /\ now' = now + 1 /\ now < MaxTime
  /\ Room!Reset => seen' = {} /\ chain' = <<>> /\ now' = now /\ resets' = resets + 1
BY DEF Room!LoadSnapshot, Room!Tick, Room!Reset

\* Every step of the whole is a step of the room or none of its business.
LEMMA RoomStep == TypeOK /\ [Next]_vars => [Room!Next]_roomVars
<1> SUFFICES ASSUME TypeOK, [Next]_vars PROVE [Room!Next]_roomVars
  OBVIOUS
<1>1. Payloads = Room!Messages
  BY DEF Payloads, Room!Messages, Room!Times
<1>2. batch \subseteq Payloads /\ wire \subseteq Payloads
  BY DEF TypeOK
<1>3. ASSUME NEW p \in Payloads, Room!Ingest(p) PROVE [Room!Next]_roomVars
  BY <1>1, <1>3 DEF Room!Next
<1>4. ASSUME NEW p \in batch, Delivered(p) \/ DeliveryFails(p) \/ PublisherStops(p)
      PROVE  [Room!Next]_roomVars
  BY <1>2, <1>3, <1>4 DEF Delivered, DeliveryFails, PublisherStops, Unanswered
<1>5. ASSUME NEW p \in wire, LateArrival(p) PROVE [Room!Next]_roomVars
  BY <1>2, <1>3, <1>5 DEF LateArrival
<1>6. CASE Snapshot \/ CleanStart \/ Tick
  BY <1>6 DEF Snapshot, CleanStart, Tick, Room!Next
<1>7. CASE Collect \/ CollectCut \/ TakeBatch \/ EndCycle
  BY <1>7 DEF Collect, CollectCut, TakeBatch, EndCycle
<1>8. ASSUME NEW id \in waiting, BecomesDue(id) PROVE [Room!Next]_roomVars
  BY <1>8 DEF BecomesDue
<1>9. ASSUME NEW i \in Incidents, Edit(i) PROVE [Room!Next]_roomVars
  BY <1>9 DEF Edit
<1>10. CASE UNCHANGED vars
  BY <1>10 DEF vars
<1> QED
  BY <1>4, <1>5, <1>6, <1>7, <1>8, <1>9, <1>10 DEF Next, Publisher

\* What LiveRoomProofs shows of the room is kept by the steps of the whole.
LEMMA RoomInvStep == TypeOK /\ RoomProofs!IndInv /\ [Next]_vars => RoomProofs!IndInv' /\ Room!TypeOK'
<1> SUFFICES ASSUME TypeOK, RoomProofs!IndInv, [Next]_vars
             PROVE  RoomProofs!IndInv' /\ Room!TypeOK'
  OBVIOUS
<1>1. [RoomProofs!Next]_(RoomProofs!roomVars)
  BY RoomStep, SameRoom
<1>2. RoomProofs!IndInv'
  BY <1>1, RoomProofs!IndStep, RoomConstants
<1>3. Room!TypeOK'
  BY <1>2 DEF RoomProofs!IndInv, RoomProofs!TypeOK, Room!TypeOK, Room!Messages, RoomProofs!Messages,
         Room!Times, RoomProofs!Times, Room!NoVersion, RoomProofs!NoVersion
<1> QED
  BY <1>2, <1>3

-----------------------------------------------------------------------------
(* The outbox *)

\* The row's version has an id of the edge.
LEMMA VersionType ==
  ASSUME TypeOK, NEW i \in Incidents
  PROVE  /\ Version(i) \in EventIds /\ Version(i).incident = i
         /\ Payload(i) \in Payloads /\ Payload(i).id = Version(i)
         /\ Version(i).version = NoContent => ~public[i]
<1>1. now \in 0 .. MaxTime /\ stamp[i] \in 0 .. MaxTime /\ content[i] \in Contents /\ public[i] \in BOOLEAN
  BY DEF TypeOK, Room!TypeOK, Room!Times
<1>2. Expired(i) \in BOOLEAN
  BY DEF Expired
<1>3. CASE public[i]
  <2>1. Version(i) = [incident |-> i, version |-> content[i], removed |-> Expired(i)]
    BY <1>3 DEF Version
  <2>2. Version(i) \in EventIds /\ Version(i).incident = i /\ Version(i).version # NoContent
    <3> DEFINE e == Expired(i)
    <3>1. e \in BOOLEAN /\ Version(i) = [incident |-> i, version |-> content[i], removed |-> e]
      BY <1>2, <2>1
    <3> HIDE DEF e
    <3>2. [incident |-> i, version |-> content[i], removed |-> e]
            \in [incident : Incidents, version : Contents, removed : BOOLEAN]
      BY <1>1, <3>1
    <3>3. Version(i) \in EventIds
      BY <3>1, <3>2 DEF EventIds
    <3> QED
      BY <1>1, <3>1, <3>3, Bounds
  <2>3. Payload(i) = [id |-> Version(i), observed |-> stamp[i]]
    BY <1>3 DEF Payload
  <2> HIDE DEF Version, Payload
  <2> QED
    BY <1>1, <2>2, <2>3 DEF Payloads
<1>4. CASE ~public[i]
  <2>1. Version(i) = [incident |-> i, version |-> NoContent, removed |-> TRUE]
    BY <1>4 DEF Version
  <2> QED
    BY <1>1, <1>4, <2>1 DEF EventIds, Payload, Payloads
<1> QED
  BY <1>3, <1>4

\* A scan returns rows.
LEMMA ScanTypes == \A rows \in Scans : rows \subseteq Incidents
<1>1. Recent \subseteq Incidents
  BY DEF Recent
<1> QED
  BY <1>1 DEF Scans

\* enqueue stores payloads of rows the collector wants.
LEMMA NewVersionFacts ==
  ASSUME TypeOK, NEW rows \in SUBSET Incidents, NEW p \in NewVersions(rows)
  PROVE  /\ p \in Payloads
         /\ \E i \in rows : Wanted(i) /\ p = Payload(i)
BY VersionType DEF NewVersions

\* enqueue keeps the types of the outbox.
LEMMA EnqueueTypes ==
  ASSUME TypeOK, NEW rows \in SUBSET Incidents, Enqueue(rows)
  PROVE  /\ pending' \subseteq Payloads /\ pending \subseteq pending'
         /\ created' \in [EventIds -> 0 .. MaxTime + MaxEdits]
         /\ UNCHANGED <<waiting, delivered, deliveredAt>>
<1>1. Moment \in 0 .. MaxTime + MaxEdits
  BY Bounds DEF Moment, TypeOK, Room!TypeOK, Room!Times
<1>2. NewVersions(rows) \subseteq Payloads
  BY NewVersionFacts
<1> HIDE DEF NewVersions
<1> QED
  BY <1>1, <1>2 DEF Enqueue, TypeOK

\* The publisher's variables keep their types.
LEMMA TypeStep == TypeOK /\ Room!TypeOK' /\ [Next]_vars => TypeOK'
<1> SUFFICES ASSUME TypeOK, Room!TypeOK', [Next]_vars PROVE TypeOK'
  OBVIOUS
<1>1. now \in 0 .. MaxTime
  BY DEF TypeOK, Room!TypeOK, Room!Times
<1>2. batch \subseteq Payloads /\ wire \subseteq Payloads
  BY DEF TypeOK
<1>3. ASSUME NEW p \in Payloads PROVE p.id \in EventIds
  BY DEF Payloads
<1>4. ASSUME NEW i \in Incidents, Edit(i) PROVE TypeOK'
  BY <1>1, <1>4, Bounds DEF Edit, TypeOK, outboxVars, cycleVars
<1>5. CASE Collect
  <2>1. PICK rows \in Scans : Enqueue(rows)
    BY <1>5 DEF Collect
  <2> QED
    BY <1>5, <2>1, ScanTypes, EnqueueTypes DEF Collect, TypeOK, rowVars
<1>6. CASE CollectCut
  <2>1. PICK rows \in Scans : \E done \in SUBSET rows : Enqueue(done)
    BY <1>6 DEF CollectCut
  <2>2. PICK done \in SUBSET rows : Enqueue(done)
    BY <2>1
  <2>3. done \in SUBSET Incidents
    BY ScanTypes
  <2>4. faults' \in 0 .. MaxFaults
    BY <1>6, Bounds DEF CollectCut, TypeOK
  <2> QED
    BY <1>6, <2>2, <2>3, <2>4, EnqueueTypes DEF CollectCut, TypeOK, rowVars, cycleVars
<1>7. CASE TakeBatch
  BY <1>7 DEF TakeBatch, TypeOK, rowVars, outboxVars
<1>8. ASSUME NEW p \in batch, Delivered(p) PROVE TypeOK'
  <2>1. p \in Payloads /\ p.id \in EventIds
    BY <1>2, <1>3
  <2>2. waiting' \subseteq {q.id : q \in pending'}
    <3> SUFFICES ASSUME NEW id \in waiting, id # p.id PROVE \E q \in pending \ {p} : q.id = id
      BY <1>8 DEF Delivered, Acknowledge
    <3> QED
      BY DEF TypeOK
  <2> QED
    BY <1>1, <1>8, <2>1, <2>2 DEF Delivered, Acknowledge, TypeOK, rowVars
<1>9. ASSUME NEW p \in batch, DeliveryFails(p) PROVE TypeOK'
  <2>1. p \in Payloads /\ p \in pending
    BY <1>2 DEF TypeOK
  <2>2. wire' \subseteq Payloads /\ faults' \in 0 .. MaxFaults
    BY <1>9, <2>1, UnansweredFacts DEF DeliveryFails, TypeOK
  <2> QED
    BY <1>9, <2>1, <2>2 DEF DeliveryFails, TypeOK, rowVars
<1>10. ASSUME NEW p \in batch, PublisherStops(p) PROVE TypeOK'
  <2>1. p \in Payloads
    BY <1>2
  <2>2. wire' \subseteq Payloads /\ faults' \in 0 .. MaxFaults
    BY <1>10, <2>1, UnansweredFacts DEF PublisherStops, TypeOK
  <2> QED
    BY <1>10, <2>2 DEF PublisherStops, TypeOK, rowVars, outboxVars
<1>11. ASSUME NEW id \in waiting, BecomesDue(id) PROVE TypeOK'
  BY <1>11 DEF BecomesDue, TypeOK, rowVars, cycleVars
<1>12. CASE EndCycle
  BY <1>12 DEF EndCycle, TypeOK, rowVars
<1>13. ASSUME NEW p \in wire, LateArrival(p) PROVE TypeOK'
  BY <1>13 DEF LateArrival, TypeOK, rowVars, outboxVars, cycleVars
<1>14. CASE Snapshot
  BY <1>14 DEF Snapshot, TypeOK, rowVars, outboxVars, cycleVars
<1>15. CASE CleanStart
  BY <1>15 DEF CleanStart, TypeOK, rowVars
<1>16. CASE Tick
  BY <1>16 DEF Tick, TypeOK, rowVars, outboxVars, cycleVars
<1>17. CASE UNCHANGED vars
  BY <1>17 DEF vars, TypeOK, rowVars, outboxVars, cycleVars
<1> QED
  BY <1>4, <1>5, <1>6, <1>7, <1>8, <1>9, <1>10, <1>11, <1>12, <1>13, <1>14, <1>15, <1>16, <1>17
  DEF Next, Publisher

-----------------------------------------------------------------------------
(* The invariant *)

\* The empty outbox and the empty room satisfy it.
LEMMA EdgeInit == Init => IndInv
<1> SUFFICES ASSUME Init PROVE IndInv
  OBVIOUS
<1>1. RoomProofs!IndInv
  BY RoomProofs!IndInit, RoomConstants, SameRoom DEF Init
<1>2. Room!TypeOK
  BY <1>1, SameRoom
<1>3. TypeOK
  BY <1>2, Bounds DEF Init, TypeOK
<1>4. seen = {} /\ chain = <<>>
  BY DEF Init, Room!Init
<1>5. AckMeansProcessed
  BY DEF Init, AckMeansProcessed
<1>6. Justified
  BY <1>4 DEF Init, Justified, HeldIds, ChainIds
<1> QED
  BY <1>1, <1>3, <1>5, <1>6 DEF IndInv

\* What the publisher struck off stays something the room has processed.
LEMMA AckStep == TypeOK /\ AckMeansProcessed /\ [Next]_vars => AckMeansProcessed'
<1> SUFFICES ASSUME TypeOK, AckMeansProcessed, [Next]_vars PROVE AckMeansProcessed'
  OBVIOUS
<1> USE DEF AckMeansProcessed
<1>1. batch \subseteq Payloads /\ wire \subseteq Payloads
  BY DEF TypeOK
<1>2. ASSUME NEW p \in batch, Delivered(p) PROVE AckMeansProcessed'
  BY <1>1, <1>2, IngestFacts DEF Delivered, Acknowledge
<1>3. ASSUME NEW p \in batch, DeliveryFails(p) \/ PublisherStops(p) PROVE AckMeansProcessed'
  BY <1>1, <1>3, UnansweredFacts DEF DeliveryFails, PublisherStops, outboxVars
<1>4. ASSUME NEW p \in wire, LateArrival(p) PROVE AckMeansProcessed'
  BY <1>1, <1>4, IngestFacts DEF LateArrival, outboxVars
<1>5. CASE Collect \/ CollectCut
  BY <1>5 DEF Collect, CollectCut, Enqueue, roomVars
<1>6. CASE TakeBatch
  BY <1>6 DEF TakeBatch, outboxVars, roomVars
<1>7. CASE EndCycle
  BY <1>7 DEF EndCycle, roomVars
<1>8. ASSUME NEW id \in waiting, BecomesDue(id) PROVE AckMeansProcessed'
  BY <1>8 DEF BecomesDue, roomVars
<1>9. CASE Snapshot
  BY <1>9, RoomReadFacts DEF Snapshot, outboxVars
<1>10. CASE CleanStart
  BY <1>10 DEF CleanStart
<1>11. CASE Tick
  BY <1>11, RoomReadFacts DEF Tick, outboxVars
<1>12. ASSUME NEW i \in Incidents, Edit(i) PROVE AckMeansProcessed'
  BY <1>12 DEF Edit, roomVars, outboxVars
<1>13. CASE UNCHANGED vars
  BY <1>13 DEF vars, roomVars, outboxVars
<1> QED
  BY <1>2, <1>3, <1>4, <1>5, <1>6, <1>7, <1>8, <1>9, <1>10, <1>11, <1>12, <1>13
  DEF Next, Publisher

\* A step that adds no id but what the system holds already, and lets the room
\* forget nothing, keeps every removal justified.
LEMMA NothingNew ==
  ASSUME Justified, resets' = resets, HeldIds' \subseteq HeldIds, seen \subseteq seen'
  PROVE  Justified'
<1> SUFFICES ASSUME resets = 0, NEW id \in HeldIds', id.version = NoContent
             PROVE  \E s \in seen' : s.incident = id.incident /\ s.version # NoContent
  BY DEF Justified, Shownable
<1> QED
  BY DEF Justified, Shownable

\* enqueue stores the removal of a withdrawn row only after the room was sent
\* something of it: was_ever_delivered finds an acknowledged id, the room knows
\* it, and if that id is a removal itself it was justified before.
LEMMA EnqueueJustified ==
  ASSUME TypeOK, AckMeansProcessed, Justified, resets = 0,
         NEW rows \in SUBSET Incidents, NEW p \in NewVersions(rows), p.id.version = NoContent
  PROVE  Shownable(p.id.incident)
<1>1. PICK i \in rows : Wanted(i) /\ p = Payload(i)
  BY NewVersionFacts
<1>2. i \in Incidents /\ p.id = Version(i) /\ p.id.incident = i /\ ~public[i]
  BY <1>1, VersionType
<1>3. PICK id \in delivered : id.incident = i
  BY <1>1, <1>2 DEF Wanted, WasEverDelivered
<1>4. id \in seen /\ id \in HeldIds
  BY DEF AckMeansProcessed, HeldIds
<1>5. CASE id.version = NoContent
  BY <1>2, <1>3, <1>4, <1>5 DEF Justified
<1>6. CASE id.version # NoContent
  BY <1>2, <1>3, <1>4, <1>6 DEF Shownable
<1> QED
  BY <1>5, <1>6

\* The same for a whole scan.
LEMMA ScanJustified ==
  ASSUME TypeOK, AckMeansProcessed, Justified, NEW rows \in SUBSET Incidents,
         Enqueue(rows), UNCHANGED roomVars, UNCHANGED wire
  PROVE  Justified'
<1>1. /\ pending' = pending \union NewVersions(rows)
      /\ seen' = seen /\ ChainIds' = ChainIds /\ wire' = wire /\ resets' = resets
  BY DEF Enqueue, roomVars, ChainIds
<1> SUFFICES ASSUME resets = 0, NEW id \in HeldIds', id.version = NoContent
             PROVE  \E s \in seen' : s.incident = id.incident /\ s.version # NoContent
  BY <1>1 DEF Justified, Shownable
<1>2. id \in HeldIds \/ \E p \in NewVersions(rows) : id = p.id
  <2> HIDE DEF NewVersions
  <2> QED
    BY <1>1 DEF HeldIds
<1>3. Shownable(id.incident)
  BY <1>2, EnqueueJustified DEF Justified
<1> QED
  BY <1>1, <1>3 DEF Shownable

\* No step holds a removal that nothing justifies.
LEMMA JustifiedStep == TypeOK /\ AckMeansProcessed /\ Justified /\ [Next]_vars => Justified'
<1> SUFFICES ASSUME TypeOK, AckMeansProcessed, Justified, [Next]_vars PROVE Justified'
  OBVIOUS
<1>1. batch \subseteq Payloads /\ batch \subseteq pending /\ wire \subseteq Payloads
  BY DEF TypeOK
<1>2. ASSUME NEW p \in batch, Delivered(p) PROVE Justified'
  <2>1. p.id \in HeldIds
    BY <1>1 DEF HeldIds
  <2>2. /\ seen' = seen \union {p.id} /\ ChainIds' \subseteq ChainIds \union {p.id}
        /\ resets' = resets /\ pending' \subseteq pending /\ wire' = wire
    BY <1>1, <1>2, IngestFacts DEF Delivered, Acknowledge
  <2>3. HeldIds' \subseteq HeldIds
    BY <2>1, <2>2 DEF HeldIds
  <2> QED
    BY <2>2, <2>3, NothingNew
<1>3. ASSUME NEW p \in batch, DeliveryFails(p) \/ PublisherStops(p) PROVE Justified'
  <2>1. p.id \in HeldIds
    BY <1>1 DEF HeldIds
  <2>2. /\ seen \subseteq seen' /\ seen' \subseteq seen \union {p.id}
        /\ ChainIds' \subseteq ChainIds \union {p.id}
        /\ resets' = resets /\ pending' = pending /\ wire' \subseteq wire \union {p}
    BY <1>1, <1>3, UnansweredFacts DEF DeliveryFails, PublisherStops, outboxVars
  <2>3. HeldIds' \subseteq HeldIds
    BY <2>1, <2>2 DEF HeldIds
  <2> QED
    BY <2>2, <2>3, NothingNew
<1>4. ASSUME NEW p \in wire, LateArrival(p) PROVE Justified'
  <2>1. p.id \in HeldIds
    BY DEF HeldIds
  <2>2. /\ seen' = seen \union {p.id} /\ ChainIds' \subseteq ChainIds \union {p.id}
        /\ resets' = resets /\ pending' = pending /\ wire' \subseteq wire
    BY <1>1, <1>4, IngestFacts DEF LateArrival, outboxVars
  <2>3. HeldIds' \subseteq HeldIds
    BY <2>1, <2>2 DEF HeldIds
  <2> QED
    BY <2>2, <2>3, NothingNew
<1>5. CASE Collect
  <2>1. PICK rows \in Scans : Enqueue(rows)
    BY <1>5 DEF Collect
  <2> QED
    BY <1>5, <2>1, ScanTypes, ScanJustified DEF Collect
<1>6. CASE CollectCut
  <2>1. PICK rows \in Scans : \E done \in SUBSET rows : Enqueue(done)
    BY <1>6 DEF CollectCut
  <2>2. PICK done \in SUBSET rows : Enqueue(done)
    BY <2>1
  <2>3. done \in SUBSET Incidents
    BY ScanTypes
  <2> QED
    BY <1>6, <2>2, <2>3, ScanJustified DEF CollectCut
<1>7. ASSUME UNCHANGED <<seen, chain, resets, pending, wire>> PROVE Justified'
  <2>1. HeldIds' = HeldIds
    BY <1>7 DEF HeldIds, ChainIds
  <2> QED
    BY <1>7, <2>1, NothingNew
<1>8. CASE TakeBatch \/ EndCycle
  BY <1>7, <1>8 DEF TakeBatch, EndCycle, outboxVars, roomVars
<1>9. ASSUME NEW id \in waiting, BecomesDue(id) PROVE Justified'
  BY <1>7, <1>9 DEF BecomesDue, roomVars
<1>10. CASE Snapshot \/ Tick
  BY <1>7, <1>10, RoomReadFacts DEF Snapshot, Tick, outboxVars
<1>11. CASE CleanStart
  <2>1. resets' # 0
    BY <1>11, RoomReadFacts DEF CleanStart, TypeOK, Room!TypeOK
  <2> QED
    BY <2>1 DEF Justified
<1>12. ASSUME NEW i \in Incidents, Edit(i) PROVE Justified'
  BY <1>7, <1>12 DEF Edit, roomVars, outboxVars
<1>13. CASE UNCHANGED vars
  BY <1>7, <1>13 DEF vars, roomVars, outboxVars
<1> QED
  BY <1>2, <1>3, <1>4, <1>5, <1>6, <1>8, <1>9, <1>10, <1>11, <1>12, <1>13
  DEF Next, Publisher

\* The invariant holds for ever.
LEMMA EdgeInvariance == Spec => []IndInv
<1>1. IndInv /\ [Next]_vars => IndInv'
  <2> SUFFICES ASSUME IndInv, [Next]_vars PROVE IndInv'
    OBVIOUS
  <2>1. TypeOK /\ RoomProofs!IndInv /\ AckMeansProcessed /\ Justified
    BY DEF IndInv
  <2>2. RoomProofs!IndInv' /\ Room!TypeOK'
    BY <2>1, RoomInvStep
  <2>3. TypeOK'
    BY <2>1, <2>2, TypeStep
  <2>4. AckMeansProcessed' /\ Justified'
    BY <2>1, AckStep, JustifiedStep
  <2> QED
    BY <2>2, <2>3, <2>4 DEF IndInv
<1> QED
  BY EdgeInit, <1>1, PTL DEF Spec

-----------------------------------------------------------------------------
(* Theorems *)

\* Every variable of the publisher and of the room keeps its type: in
\* particular the batch and the ids put off are always rows of the outbox
\* (ready, acknowledge, fail).
THEOREM TypeCorrect == Spec => []TypeOK
<1>1. IndInv => TypeOK
  BY DEF IndInv
<1> QED
  BY EdgeInvariance, <1>1, PTL

\* Whatever posts are lost, late or repeated and wherever the publisher stops,
\* an id it struck off the outbox is one the room has processed (deliver,
\* acknowledge, the clean start).
THEOREM AckMeansProcessedHolds == Spec => []AckMeansProcessed
<1>1. IndInv => AckMeansProcessed
  BY DEF IndInv
<1> QED
  BY EdgeInvariance, <1>1, PTL

\* A removal of a withdrawn row is stored, on its way or in the room only when
\* the room was sent something of that row before (was_ever_delivered).
THEOREM RemovalJustifiedHolds == Spec => []RemovalJustified
<1>1. IndInv => RemovalJustified
  BY DEF IndInv, Justified, RemovalJustified, HeldIds, ChainIds, Shownable
<1> QED
  BY EdgeInvariance, <1>1, PTL

\* The publisher, its retries and the posts it gave up on drive the room only
\* through steps the room of LiveRoom can take: the composition implements it.
THEOREM RoomRefinement == Spec => Room!Spec
<1>1. Init => Room!Init
  BY DEF Init
<1>2. IndInv /\ [Next]_vars => [Room!Next]_(Room!roomVars)
  BY RoomStep DEF IndInv, roomVars, Room!roomVars
<1> QED
  BY EdgeInvariance, <1>1, <1>2, PTL DEF Spec, Room!Spec

\* The room's promise about its limit is kept by the steps of the whole.
LEMMA EvictedInvariance == Spec => []RoomProofs!EvictedOnlyWhenFull
<1>1. Init => RoomProofs!EvictedOnlyWhenFull
  BY DEF Init, Room!Init, RoomProofs!EvictedOnlyWhenFull
<1>2. IndInv /\ RoomProofs!EvictedOnlyWhenFull /\ [Next]_vars => RoomProofs!EvictedOnlyWhenFull'
  BY RoomStep, SameRoom, RoomConstants, RoomProofs!EvictedStep DEF IndInv
<1> QED
  BY EdgeInvariance, <1>1, <1>2, PTL DEF Spec

\* With the real publisher on the other side, no id is accepted twice, nothing
\* removed is brought back by an old observation, a browser sees the last
\* version of an incident only, and that one is cut from the list only by newer
\* events of MaxEvents other incidents (ingest, isStaleIncidentVersion).
THEOREM RoomInvariantsHold ==
  Spec => [](/\ Room!AcceptedOnce /\ Room!NoResurrection
             /\ Room!VisibleIsLatest /\ Room!EvictedOnlyWhenFull)
<1>1. IndInv => Room!AcceptedOnce /\ Room!NoResurrection /\ Room!VisibleIsLatest
  BY DEF IndInv, RoomProofs!IndInv, RoomProofs!HistoryInv, RoomProofs!AcceptedOnce,
         RoomProofs!NoResurrection, RoomProofs!VisibleIsLatest, RoomProofs!IncidentAt,
         Room!AcceptedOnce, Room!NoResurrection, Room!VisibleIsLatest, Room!IncidentAt
<1>2. RoomProofs!EvictedOnlyWhenFull => Room!EvictedOnlyWhenFull
  BY DEF RoomProofs!EvictedOnlyWhenFull, Room!EvictedOnlyWhenFull, RoomProofs!IsFresh,
         Room!IsFresh, RoomProofs!IncidentAt, Room!IncidentAt,
         RoomProofs!Cardinality, Room!Cardinality
<1> QED
  BY EdgeInvariance, EvictedInvariance, <1>1, <1>2, PTL

\* What a step does to a stored payload.
Kept(p) == p \in pending' \/ p.id \in seen' \/ resets' # resets

\* Only the post the room took and the clean start take a payload out of the
\* outbox.
LEMMA OutboxStep ==
  ASSUME TypeOK, [Next]_vars, NEW p \in pending
  PROVE  Kept(p)
<1> USE DEF Kept
<1>1. batch \subseteq Payloads /\ pending \subseteq Payloads
  BY DEF TypeOK
<1>2. CASE pending \subseteq pending'
  BY <1>2
<1>3. ASSUME NEW q \in batch, Delivered(q) PROVE Kept(p)
  <2>1. pending' = pending \ {q} /\ q.id \in seen'
    BY <1>1, <1>3, IngestFacts DEF Delivered, Acknowledge
  <2> QED
    BY <2>1
<1>4. ASSUME NEW q \in batch, DeliveryFails(q) \/ PublisherStops(q) PROVE Kept(p)
  BY <1>2, <1>4 DEF DeliveryFails, PublisherStops, outboxVars
<1>5. CASE Collect \/ CollectCut
  BY <1>2, <1>5 DEF Collect, CollectCut, Enqueue
<1>6. CASE TakeBatch \/ EndCycle
  BY <1>2, <1>6 DEF TakeBatch, EndCycle, outboxVars
<1>7. ASSUME NEW id \in waiting, BecomesDue(id) PROVE Kept(p)
  BY <1>2, <1>7 DEF BecomesDue
<1>8. ASSUME NEW q \in wire, LateArrival(q) PROVE Kept(p)
  BY <1>2, <1>8 DEF LateArrival, outboxVars
<1>9. CASE Snapshot \/ Tick
  BY <1>2, <1>9 DEF Snapshot, Tick, outboxVars
<1>10. CASE CleanStart
  <2>1. resets' = resets + 1 /\ resets \in Nat
    BY <1>10 DEF CleanStart, Room!Reset, TypeOK, Room!TypeOK
  <2> QED
    BY <2>1
<1>11. ASSUME NEW i \in Incidents, Edit(i) PROVE Kept(p)
  BY <1>2, <1>11 DEF Edit, outboxVars
<1>12. CASE UNCHANGED vars
  BY <1>2, <1>12 DEF vars, outboxVars
<1> QED
  BY <1>3, <1>4, <1>5, <1>6, <1>7, <1>8, <1>9, <1>10, <1>11, <1>12 DEF Next, Publisher

\* A stored payload leaves the outbox only when the room has processed its id,
\* or at the operator's clean start: no lost answer, late post, cut scan, newer
\* version of the row or restart of the publisher drops it (deliver, fail,
\* acknowledge, INSERT OR IGNORE of enqueue).
THEOREM NothingIsDropped ==
  Spec => [][\A p \in pending : p \in pending' \/ p.id \in seen' \/ resets' # resets]_vars
<1>1. IndInv /\ [Next]_vars =>
        [\A p \in pending : p \in pending' \/ p.id \in seen' \/ resets' # resets]_vars
  BY OutboxStep DEF IndInv, Kept
<1> QED
  BY EdgeInvariance, <1>1, PTL DEF Spec

\* Every scan reads the rows that cannot be crowded out: the second query takes
\* ScanLimit rows, and fewer than that are as new as such a row.
LEMMA ScansReadThem ==
  ASSUME IsFiniteSet(Incidents), NEW rows \in Scans
  PROVE  NeverCrowdedOut \subseteq rows
<1> SUFFICES ASSUME NEW i \in NeverCrowdedOut PROVE i \in rows
  OBVIOUS
<1> DEFINE S == Recent \ Spikes
           Rivals == {j \in S \ {i} : stamp[j] >= stamp[i]}
<1>1. PICK distress \in Latest(S) : distress \subseteq rows
  BY DEF Scans
<1>2. IsFiniteSet(S) /\ IsFiniteSet(distress) /\ IsFiniteSet(Rivals)
  BY <1>1, FS_Subset DEF Latest, Recent
<1>3. i \in S /\ Cardinality(Rivals) < ScanLimit
  BY DEF NeverCrowdedOut
<1>4. SUFFICES ASSUME i \notin distress PROVE FALSE
  BY <1>1
<1>5. distress \subseteq Rivals
  BY <1>1, <1>3, <1>4 DEF Latest
<1>6. Cardinality(distress) <= Cardinality(Rivals)
  BY <1>2, <1>5, FS_Subset
<1>7. Cardinality(Rivals) < Cardinality(S)
  <2>1. Rivals \subseteq S /\ Rivals # S
    BY <1>3
  <2> QED
    BY <1>2, <2>1, FS_Subset, FS_CardinalityType
<1>8. Cardinality(distress) = IF Cardinality(S) < ScanLimit THEN Cardinality(S) ELSE ScanLimit
  BY <1>1 DEF Latest
<1> QED
  BY <1>2, <1>3, <1>6, <1>7, <1>8, FS_CardinalityType, EdgeAssumption

\* When the outbox is empty and a scan, limited as it is, would add nothing, the
\* room has processed the present version of every wanted row that the scan
\* reads or that newer rows cannot crowd out of it, however long the publisher
\* was stopped and whatever was pruned: the safety half of Reaches (collect,
\* was_delivered, prune).
THEOREM QuietEdgeIsCurrent ==
  ASSUME IsFiniteSet(Incidents)
  PROVE  Spec => [](\A rows \in Scans :
                      pending = {} /\ NewVersions(rows) = {} =>
                        \A i \in rows \union NeverCrowdedOut :
                          Wanted(i) => Version(i) \in seen)
<1>1. ASSUME IndInv, NEW rows \in Scans, pending = {}, NewVersions(rows) = {},
             NEW i \in rows \union NeverCrowdedOut, Wanted(i)
      PROVE  Version(i) \in seen
  <2>1. i \in rows
    BY ScansReadThem
  <2>2. Version(i) \in delivered
    <3> SUFFICES ASSUME Version(i) \notin delivered PROVE FALSE
      OBVIOUS
    <3>1. Payload(i) \in NewVersions(rows)
      BY <1>1, <2>1 DEF NewVersions
    <3> QED
      BY <1>1, <3>1
  <2> QED
    BY <1>1, <2>2 DEF IndInv, AckMeansProcessed
<1>2. IndInv => \A rows \in Scans :
                  pending = {} /\ NewVersions(rows) = {} =>
                    \A i \in rows \union NeverCrowdedOut : Wanted(i) => Version(i) \in seen
  BY <1>1
<1> QED
  BY EdgeInvariance, <1>2, PTL

-----------------------------------------------------------------------------
(* The browser *)

\* In the default build nothing of the edge's transport ever runs, and a list on
\* the map that setItem did not refuse is the stored one.
DefaultBuild ==
  ~edgePrimary =>
    /\ polls = [k \in Slots |-> NoRequest]
    /\ timers = <<>> /\ inbox = <<>> /\ ~socket /\ ~edgeActive
    /\ shown = Blank \/ refused \/ cache = shown

\* No step of the page, of a server or of the tab leaves it.
LEMMA DefaultBuildStep == DefaultBuild /\ [ClientNext]_clientVars => DefaultBuild'
<1> SUFFICES ASSUME DefaultBuild, [ClientNext]_clientVars, ~edgePrimary'
             PROVE  /\ polls' = [k \in Slots |-> NoRequest]
                    /\ timers' = <<>> /\ inbox' = <<>> /\ ~socket' /\ ~edgeActive'
                    /\ shown' = Blank \/ refused' \/ cache' = shown'
  BY DEF DefaultBuild, Slots, NoRequest, Blank
<1> DEFINE Goal == /\ polls' = [k \in Slots |-> NoRequest]
                   /\ timers' = <<>> /\ inbox' = <<>> /\ ~socket' /\ ~edgeActive'
                   /\ shown' = Blank \/ refused' \/ cache' = shown'
<1> USE DEF serverVars, pageVars, chainVars, edgeVars, socketVars
<1>1. edgePrimary' = edgePrimary
  BY DEF ClientNext, clientVars, Revise, Outage, Recover, CopiesExpire, VmSend,
         VmAnswer, VmFail, VmApply, TimerFires, PollAnswer,
         PollApply, PollFail, BackupAnswer, BackupFail,
         BackupApply, MinutePasses, SocketOpens, SocketMessage,
         Visibility, Reload
<1>2. /\ polls = [k \in Slots |-> NoRequest]
      /\ timers = <<>> /\ inbox = <<>> /\ ~socket /\ ~edgeActive
      /\ shown = Blank \/ refused \/ cache = shown
  BY <1>1 DEF DefaultBuild
<1>3. \A k \in Slots : polls[k].at = "idle"
  BY <1>2 DEF NoRequest
<1>4. ASSUME NEW s \in {"vm", "edge"}, Revise(s) \/ Outage(s) \/ Recover(s)
      PROVE  Goal
  BY <1>2, <1>4 DEF Revise, Outage, Recover
<1>5. CASE VmSend \/ VmAnswer \/ VmFail \/ CopiesExpire
  BY <1>2, <1>5 DEF VmSend, VmAnswer, VmFail, CopiesExpire
<1>6. CASE VmApply
  <2>1. UNCHANGED <<polls, timers, inbox, socket, edgeActive>>
    BY <1>6 DEF VmApply
  <2>2. CASE UNCHANGED pageVars
    BY <1>2, <2>1, <2>2
  <2>3. CASE ShowAndStore(vmPoll.got)
    <3>1. cache' = shown' \/ refused' = ~edgePrimary
      BY <2>3 DEF ShowAndStore
    <3>2. cache' = shown' \/ refused'
      BY <1>1, <3>1, Zenon
    <3> QED
      BY <1>2, <2>1, <3>2
  <2> QED
    BY <1>6, <2>2, <2>3 DEF VmApply
<1>7. ~TimerFires /\ ~SocketMessage /\ ~SocketOpens
  BY <1>1, <1>2 DEF TimerFires, SocketMessage, SocketOpens
<1>8. ASSUME NEW k \in Slots
      PROVE  /\ ~PollAnswer(k) /\ ~PollApply(k) /\ ~PollFail(k)
             /\ ~BackupAnswer(k) /\ ~BackupFail(k) /\ ~BackupApply(k)
  BY <1>3 DEF PollAnswer, PollApply, PollFail, BackupAnswer,
              BackupFail, BackupApply
<1>9. CASE MinutePasses \/ Visibility
  BY <1>2, <1>9 DEF MinutePasses, Visibility
<1>10. ASSUME NEW usable \in BOOLEAN, Reload(usable) PROVE Goal
  BY <1>1, <1>2, <1>10 DEF Reload, Mounted, Loaded
<1>11. CASE UNCHANGED clientVars
  BY <1>2, <1>11 DEF clientVars
<1> QED
  BY <1>4, <1>5, <1>6, <1>7, <1>8, <1>9, <1>10, <1>11 DEF ClientNext

\* In the default build nothing empties a map that showed something but a reload
\* that finds no usable copy of it: the front's empty answers are not applied,
\* and a reload in the middle of an outage finds the list unless setItem had
\* refused it, or what is stored has grown too old or cannot be read (pollOnce,
\* storeCachedEvents, loadCachedEvents).
THEOREM LastGoodKeptHolds == ClientSpec => LastGoodKept
<1>1. ClientInit => DefaultBuild
  BY DEF ClientInit, Mounted, DefaultBuild
<1>2. ASSUME DefaultBuild, [ClientNext]_clientVars, ~edgePrimary, shown # Blank
      PROVE  shown' # Blank \/ Reload(FALSE) \/ (refused /\ Reload(TRUE))
  <2> USE DEF pageVars
  <2>1. /\ polls = [k \in Slots |-> NoRequest] /\ timers = <<>> /\ inbox = <<>>
        /\ refused \/ cache = shown
    BY <1>2 DEF DefaultBuild
  <2>2. \A k \in Slots : polls[k].at = "idle"
    BY <2>1 DEF NoRequest
  <2>3. CASE VmApply
    BY <1>2, <2>3 DEF VmApply, ShowAndStore
  <2>4. ASSUME NEW usable \in BOOLEAN, Reload(usable)
        PROVE  shown' # Blank \/ Reload(FALSE) \/ (refused /\ Reload(TRUE))
    <3>1. CASE usable = FALSE
      BY <2>4, <3>1
    <3>2. CASE usable = TRUE
      <4>1. Reload(TRUE)
        BY <2>4, <3>2
      <4>2. shown' = cache
        BY <4>1 DEF Reload, Mounted, Loaded
      <4> QED
        BY <1>2, <2>1, <4>1, <4>2
    <3> QED
      BY <3>1, <3>2
  <2>5. CASE UNCHANGED shown
    BY <1>2, <2>5
  <2>6. ~TimerFires /\ ~SocketMessage
    BY <2>1 DEF TimerFires, SocketMessage
  <2>7. ASSUME NEW k \in Slots
        PROVE  /\ ~PollAnswer(k) /\ ~PollApply(k) /\ ~PollFail(k)
               /\ ~BackupAnswer(k) /\ ~BackupFail(k) /\ ~BackupApply(k)
    BY <2>2 DEF PollAnswer, PollApply, PollFail, BackupAnswer,
                BackupFail, BackupApply
  <2> QED
    BY <1>2, <2>3, <2>4, <2>5, <2>6, <2>7
    DEF ClientNext, clientVars, Revise, Outage, Recover, CopiesExpire, VmSend,
        VmAnswer, VmFail, MinutePasses, SocketOpens, Visibility
<1>3. DefaultBuild /\ [ClientNext]_clientVars =>
        [~edgePrimary /\ shown # Blank =>
           shown' # Blank \/ Reload(FALSE) \/ (refused /\ Reload(TRUE))]_clientVars
  BY <1>2
<1> QED
  BY <1>1, <1>3, DefaultBuildStep, PTL DEF ClientSpec, LastGoodKept

-----------------------------------------------------------------------------
(* The chain of polls *)

\* What the edge build polls with next: a request under way or an armed timer.
ChainAlive == edgePrimary => Busy # {} \/ timers # <<>>

\* The bounds of the page as numbers.
LEMMA ClientBounds ==
  /\ MaxPolls \in Nat \ {0} /\ MaxRev \in Nat /\ MaxOutages \in Nat /\ MaxReloads \in Nat
  /\ 1 \in Slots
BY LiveClientAssumption DEF Slots

\* The requests and lists the page is made of have their types.
LEMMA ClientParts ==
  ASSUME ClientTypeOK
  PROVE  /\ Blank \in Feeds
         /\ NoRequest \in Request /\ Sent \in Request
         /\ \A s \in {"vm", "edge"} : [from |-> s, rev |-> rev[s]] \in Feeds
         /\ OracleAnswers \subseteq Feeds
         /\ oldest \in Nat /\ rev["vm"] \in Nat
         /\ \A f \in Feeds : [at |-> "answered", got |-> f] \in Request
         /\ \A f \in Feeds : [at |-> "backupAnswered", got |-> f] \in Request
<1>1. Blank \in Feeds
  BY DEF Feeds
<1>2. \A s \in {"vm", "edge"} : [from |-> s, rev |-> rev[s]] \in Feeds
  BY DEF Feeds, ClientTypeOK
<1>3. OracleAnswers \subseteq Feeds
  BY <1>1, ClientBounds DEF OracleAnswers, Feeds, ClientTypeOK
<1>4. oldest \in Nat /\ rev["vm"] \in Nat
  BY ClientBounds DEF ClientTypeOK
<1> QED
  BY <1>1, <1>2, <1>3, <1>4 DEF NoRequest, Sent, Request

\* A poll that starts leaves its timers typed and itself in flight.
LEMMA StartPollTypes ==
  ASSUME ClientTypeOK,
         NEW armed \in Seq(SUBSET Slots), StartPoll(armed)
  PROVE  /\ polls' \in [Slots -> Request]
         /\ timers' \in Seq(SUBSET Slots)
         /\ handle' = FALSE
         /\ \E k \in Slots : polls'[k].at # "idle"
<1>1. PICK k \in Slots \ Busy : polls' = [polls EXCEPT ![k] = Sent]
  BY DEF StartPoll
<1>2. polls \in [Slots -> Request]
  BY DEF ClientTypeOK
<1>3. polls' \in [Slots -> Request] /\ polls'[k].at # "idle"
  BY <1>1, <1>2, ClientParts DEF Sent
<1>4. armed # <<>> => Front(armed) \in Seq(SUBSET Slots)
  BY DEF Front
<1> QED
  BY <1>1, <1>3, <1>4 DEF StartPoll

\* A poll that ends arms a timer that pollTimer names.
LEMMA EndPollTypes ==
  ASSUME ClientTypeOK, NEW k \in Slots, EndPoll(k)
  PROVE  /\ polls' \in [Slots -> Request]
         /\ timers' \in Seq(SUBSET Slots) /\ timers' # <<>>
         /\ handle' = TRUE
<1>1. polls' \in [Slots -> Request]
  BY ClientParts DEF EndPoll, ClientTypeOK
<1> DEFINE kept == [i \in 1 .. Len(timers) |-> timers[i] \ {k}]
<1>2. kept \in Seq(SUBSET Slots)
  <2>1. timers \in Seq(SUBSET Slots)
    BY DEF ClientTypeOK
  <2>2. \A i \in 1 .. Len(timers) : kept[i] \in SUBSET Slots
    BY <2>1
  <2>3. Len(timers) \in Nat
    BY <2>1
  <2> QED
    BY <2>2, <2>3
<1>3. Busy \ {k} \in SUBSET Slots
  BY DEF Busy
<1>4. timers' = Append(kept, Busy \ {k})
  BY DEF EndPoll
<1> HIDE DEF kept
<1>5. timers' \in Seq(SUBSET Slots) /\ timers' # <<>>
  BY <1>2, <1>3, <1>4
<1> QED
  BY <1>1, <1>5 DEF EndPoll

ClientInv == ClientTypeOK /\ ChainAlive

\* No step of the page breaks a type or the chain.
LEMMA ClientStep ==
  ASSUME ClientInv, [ClientNext]_clientVars
  PROVE  ClientInv'
<1> USE ClientBounds, ClientParts DEF serverVars, pageVars, chainVars,
        edgeVars, socketVars
<1>0. ClientTypeOK /\ ChainAlive
  BY DEF ClientInv
<1>1. ASSUME UNCHANGED <<edgePrimary, polls, timers>> PROVE ChainAlive'
  BY <1>0, <1>1 DEF ChainAlive, Busy
<1>2. ASSUME NEW k \in Slots, polls'[k].at # "idle" PROVE ChainAlive'
  BY <1>2 DEF ChainAlive, Busy
<1>3. ASSUME timers' # <<>> PROVE ChainAlive'
  BY <1>3 DEF ChainAlive
<1>4. ASSUME NEW s \in {"vm", "edge"}, Revise(s) \/ Outage(s) \/ Recover(s)
      PROVE  ClientInv'
  <2>1. UNCHANGED <<edgePrimary, oldest, shown, cache, refused, hidden, vmPoll, polls, timers, handle, fails, backupSpent,
                    edgeActive, reloads>>
    BY <1>4 DEF Revise, Outage, Recover
  <2>2. up' \in [{"vm", "edge"} -> BOOLEAN]
    BY <1>0, <1>4 DEF ClientTypeOK, Revise, Outage, Recover
  <2>3. rev' \in [{"vm", "edge"} -> 0 .. MaxRev] /\ outages' \in 0 .. MaxOutages
    BY <1>0, <1>4 DEF ClientTypeOK, Revise, Outage, Recover
  <2>6. oldest' \in 0 .. rev'["vm"]
    <3>1. rev'["vm"] \in {rev["vm"], rev["vm"] + 1}
      BY <1>0, <1>4 DEF ClientTypeOK, Revise, Outage, Recover
    <3>2. oldest \in 0 .. rev["vm"]
      BY <1>0 DEF ClientTypeOK
    <3> QED
      BY <1>0, <2>1, <3>1, <3>2
  <2>4. socket' \in BOOLEAN
    <3>1. socket' = FALSE \/ socket' = socket
      BY <1>4 DEF Revise, Outage, Recover
    <3> QED
      BY <1>0, <3>1 DEF ClientTypeOK
  <2>5. inbox' \in Seq(Feeds)
    <3>1. inbox' \in {inbox, Append(inbox, Blank), <<>>}
      BY <1>4 DEF Revise, Outage, Recover
    <3>2. inbox \in Seq(Feeds)
      BY <1>0 DEF ClientTypeOK
    <3>3. Blank \in Feeds
      BY <1>0
    <3>4. Append(inbox, Blank) \in Seq(Feeds)
      BY <3>2, <3>3
    <3>5. <<>> \in Seq(Feeds)
      OBVIOUS
    <3> QED
      BY <3>1, <3>2, <3>4, <3>5
  <2> QED
    BY <1>0, <1>1, <2>1, <2>2, <2>3, <2>4, <2>5, <2>6 DEF ClientInv, ClientTypeOK
<1>5. CASE VmSend \/ VmAnswer \/ VmFail
  <2>1. vmPoll' \in Request
    BY <1>0, <1>5 DEF VmSend, VmAnswer, VmFail
  <2> QED
    BY <1>0, <1>1, <1>5, <2>1
    DEF ClientInv, ClientTypeOK, VmSend, VmAnswer, VmFail
<1>6. CASE VmApply
  <2>1. vmPoll' \in Request /\ shown' \in Feeds /\ cache' \in Feeds
    BY <1>0, <1>6 DEF ClientTypeOK, VmApply, ShowAndStore, Request
  <2>2. refused' \in BOOLEAN
    BY <1>0, <1>6, Zenon DEF ClientTypeOK, VmApply, ShowAndStore, pageVars
  <2> QED
    BY <1>0, <1>1, <1>6, <2>1, <2>2 DEF ClientInv, ClientTypeOK, VmApply
<1>7. ASSUME NEW f \in Feeds, ApplySnapshot(f)
      PROVE  /\ shown' \in Feeds /\ UNCHANGED <<cache, refused>>
             /\ fails' \in 0 .. 3 /\ backupSpent' \in BOOLEAN /\ edgeActive' \in BOOLEAN
  BY <1>0, <1>7 DEF ClientTypeOK, ApplySnapshot, ShowAndStoreAside
<1>8. CASE TimerFires
  <2>1. Tail(timers) \in Seq(SUBSET Slots)
    BY <1>0, <1>8 DEF ClientTypeOK, TimerFires
  <2>2. /\ polls' \in [Slots -> Request]
        /\ timers' \in Seq(SUBSET Slots) /\ handle' = FALSE
        /\ \E k \in Slots : polls'[k].at # "idle"
    BY <1>0, <1>8, <2>1, StartPollTypes DEF TimerFires
  <2> QED
    BY <1>0, <1>2, <1>8, <2>2 DEF ClientInv, ClientTypeOK, TimerFires
<1>9. ASSUME NEW k \in Slots, PollAnswer(k) \/ BackupAnswer(k)
      PROVE  ClientInv'
  <2>1. polls' \in [Slots -> Request] /\ polls'[k].at # "idle"
    BY <1>0, <1>9 DEF ClientTypeOK, PollAnswer, BackupAnswer
  <2> QED
    BY <1>0, <1>2, <1>9, <2>1 DEF ClientInv, ClientTypeOK, PollAnswer, BackupAnswer
<1>10. ASSUME NEW k \in Slots, PollApply(k) PROVE ClientInv'
  <2>1. polls[k].got \in Feeds
    BY <1>0 DEF ClientTypeOK, Request
  <2> QED
    BY <1>0, <1>3, <1>7, <1>10, <2>1, EndPollTypes DEF ClientInv, ClientTypeOK, PollApply
<1>11. ASSUME NEW k \in Slots, PollFail(k) PROVE ClientInv'
  <2>0. fails' \in 0 .. 3
    BY <1>0, <1>11 DEF ClientTypeOK, PollFail
  <2>1. fails' \in 0 .. 3 /\ edgeActive' \in BOOLEAN
    BY <2>0, <1>11 DEF PollFail
  <2>2. CASE EndPoll(k) /\ UNCHANGED backupSpent
    <3>1. UNCHANGED <<edgePrimary, up, rev, outages, oldest, shown, cache, refused, hidden, vmPoll, socket,
                      inbox, reloads, backupSpent>>
      BY <1>11, <2>2 DEF PollFail, serverVars, pageVars, socketVars
    <3>2. EndPoll(k)
      BY <2>2
    <3> QED
      BY <1>0, <1>3, <2>1, <3>1, <3>2, EndPollTypes DEF ClientInv, ClientTypeOK
  <2>3. CASE /\ polls' = [polls EXCEPT ![k].at = "backup"] /\ backupSpent' = TRUE
             /\ UNCHANGED <<timers, handle>>
    <3>1. polls' \in [Slots -> Request] /\ polls'[k].at # "idle"
      <4>1. polls \in [Slots -> Request] /\ polls[k] \in Request
        BY <1>0 DEF ClientTypeOK
      <4>2. /\ [polls[k] EXCEPT !.at = "backup"] \in Request
            /\ [polls[k] EXCEPT !.at = "backup"].at # "idle"
        BY <4>1 DEF Request
      <4>3. polls' = [polls EXCEPT ![k] = [polls[k] EXCEPT !.at = "backup"]]
        BY <2>3
      <4> QED
        BY <4>1, <4>2, <4>3
    <3>2. UNCHANGED <<edgePrimary, up, rev, outages, oldest, shown, cache, refused, hidden, vmPoll, timers,
                      handle, socket, inbox, reloads>>
      BY <1>11, <2>3 DEF PollFail, serverVars, pageVars, socketVars
    <3>3. backupSpent' \in BOOLEAN
      BY <2>3
    <3> QED
      BY <1>0, <1>2, <2>1, <3>1, <3>2, <3>3 DEF ClientInv, ClientTypeOK
  <2> QED
    BY <1>11, <2>2, <2>3 DEF PollFail
<1>12. ASSUME NEW k \in Slots, BackupFail(k) PROVE ClientInv'
  BY <1>0, <1>3, <1>12, EndPollTypes DEF ClientInv, ClientTypeOK, BackupFail
<1>13. ASSUME NEW k \in Slots, BackupApply(k) PROVE ClientInv'
  <2>1. polls[k].got \in Feeds
    BY <1>0 DEF ClientTypeOK, Request
  <2> QED
    BY <1>0, <1>3, <1>13, <2>1, EndPollTypes
    DEF ClientInv, ClientTypeOK, BackupApply, ShowAndStoreAside
<1>14. CASE MinutePasses \/ Visibility
  <2>1. hidden' \in BOOLEAN /\ backupSpent' \in BOOLEAN
    BY <1>0, <1>14, Zenon DEF ClientTypeOK, MinutePasses, Visibility
  <2> QED
    BY <1>0, <1>1, <1>14, <2>1
    DEF ClientInv, ClientTypeOK, MinutePasses, Visibility
<1>15. CASE SocketOpens
  <2>1. inbox' \in Seq(Feeds)
    BY <1>0, <1>15 DEF SocketOpens
  <2> QED
    BY <1>0, <1>1, <1>15, <2>1 DEF ClientInv, ClientTypeOK, SocketOpens
<1>16. CASE SocketMessage
  <2>1. Head(inbox) \in Feeds /\ inbox' \in Seq(Feeds)
    BY <1>0, <1>16 DEF ClientTypeOK, SocketMessage
  <2>2. CASE ApplySnapshot(Head(inbox)) /\ UNCHANGED chainVars
    BY <1>0, <1>1, <1>7, <1>16, <2>1, <2>2 DEF ClientInv, ClientTypeOK, SocketMessage
  <2>3. CASE StartPoll(timers) /\ UNCHANGED <<pageVars, edgeVars>>
    <3>1. /\ polls' \in [Slots -> Request]
          /\ timers' \in Seq(SUBSET Slots) /\ handle' = FALSE
          /\ \E k \in Slots : polls'[k].at # "idle"
      BY <1>0, <2>3, StartPollTypes DEF ClientTypeOK
    <3> QED
      BY <1>0, <1>2, <1>16, <2>1, <2>3, <3>1 DEF ClientInv, ClientTypeOK, SocketMessage
  <2> QED
    BY <1>16, <2>2, <2>3 DEF SocketMessage
<1>17. ASSUME NEW usable \in BOOLEAN, Reload(usable) PROVE ClientInv'
  <2>0. polls' = [k \in Slots |-> IF edgePrimary /\ k = 1 THEN Sent ELSE NoRequest]
    BY <1>17 DEF Reload, Mounted
  <2>1. polls' \in [Slots -> Request] /\ (edgePrimary => polls'[1].at # "idle")
    BY <1>0, <2>0 DEF Sent
  <2>2. ChainAlive'
    BY <1>2, <1>17, <2>1 DEF Reload, ChainAlive
  <2> QED
    <3>0. timers' = <<>> /\ inbox' = <<>>
      BY <1>17 DEF Reload
    <3>1. /\ shown' \in {cache, Blank} /\ vmPoll' = NoRequest /\ fails' = 0
          /\ reloads' = reloads + 1 /\ reloads < MaxReloads /\ refused' = FALSE
          /\ UNCHANGED <<edgePrimary, up, rev, outages, oldest, cache, hidden>>
      BY <1>17 DEF Reload, Mounted, Loaded
    <3>2. handle' = FALSE /\ backupSpent' = FALSE /\ edgeActive' = FALSE /\ socket' = FALSE
      BY <1>17 DEF Reload
    <3>3. shown' \in Feeds /\ reloads' \in 0 .. MaxReloads
      BY <1>0, <3>1 DEF ClientTypeOK
    <3>4. timers' \in Seq(SUBSET Slots)
      BY <3>0
    <3>5. inbox' \in Seq(Feeds)
      BY <3>0
    <3>6. vmPoll' \in Request
      BY <1>0, <3>1
    <3>7. /\ handle' \in BOOLEAN /\ backupSpent' \in BOOLEAN /\ edgeActive' \in BOOLEAN
          /\ socket' \in BOOLEAN /\ (handle' => timers' # <<>>)
      BY <3>2
    <3>8. fails' \in 0 .. 3
      BY <3>1
    <3> QED
      BY <1>0, <2>1, <2>2, <3>1, <3>3, <3>4, <3>5, <3>6, <3>7, <3>8 DEF ClientInv, ClientTypeOK
<1>19. CASE CopiesExpire
  <2>1. oldest' \in 0 .. rev'["vm"]
    BY <1>0, <1>19 DEF CopiesExpire
  <2> QED
    BY <1>0, <1>1, <1>19, <2>1 DEF ClientInv, ClientTypeOK, CopiesExpire
<1>18. CASE UNCHANGED clientVars
  BY <1>0, <1>1, <1>18 DEF ClientInv, ClientTypeOK, clientVars
<1> QED
  BY <1>4, <1>5, <1>6, <1>8, <1>9, <1>10, <1>11, <1>12, <1>13, <1>14, <1>15, <1>16, <1>17, <1>18,
     <1>19
  DEF ClientNext

\* Its start.
LEMMA ClientInvInit ==
  ASSUME ClientInit
  PROVE  ClientInv
<1> USE ClientBounds
<1>1. Blank \in Feeds
  BY DEF Feeds
<1>2. NoRequest \in Request /\ Sent \in Request
  BY <1>1 DEF NoRequest, Sent, Request
<1>3. polls \in [Slots -> Request] /\ (edgePrimary => polls[1].at # "idle")
  BY <1>2 DEF ClientInit, Mounted, Sent
<1>4. ChainAlive
  BY <1>3 DEF ChainAlive, Busy
<1>5. vmPoll \in Request /\ shown \in Feeds
      /\ cache \in Feeds /\ oldest \in 0 .. rev["vm"] /\ refused \in BOOLEAN
  <2>1. cache = Blank /\ shown = Blank /\ vmPoll = NoRequest
    BY DEF ClientInit, Mounted
  <2>2. oldest = 0 /\ rev["vm"] = 0
    BY DEF ClientInit
  <2>3. refused \in BOOLEAN
    BY DEF ClientInit
  <2> QED
    BY <1>1, <1>2, <2>1, <2>2, <2>3
<1>6. up \in [{"vm", "edge"} -> BOOLEAN] /\ rev \in [{"vm", "edge"} -> 0 .. MaxRev]
  BY DEF ClientInit
<1>7. /\ hidden \in BOOLEAN /\ handle \in BOOLEAN /\ backupSpent \in BOOLEAN
      /\ edgeActive \in BOOLEAN /\ socket \in BOOLEAN /\ edgePrimary \in BOOLEAN
      /\ (handle => timers # <<>>)
  BY DEF ClientInit
<1>8. outages \in 0 .. MaxOutages /\ fails \in 0 .. 3 /\ reloads \in 0 .. MaxReloads
  BY DEF ClientInit
<1>9. timers \in Seq(SUBSET Slots)
  BY DEF ClientInit
<1>10. inbox \in Seq(Feeds)
  BY DEF ClientInit
<1> QED
  BY <1>3, <1>4, <1>5, <1>6, <1>7, <1>8, <1>9, <1>10 DEF ClientInv, ClientTypeOK

\* The types of the page, its requests, its timers and the socket's messages.
THEOREM ClientTypeCorrect == ClientSpec => []ClientTypeOK
<1>1. ClientInv => ClientTypeOK
  BY DEF ClientInv
<1>2. ClientInit => ClientInv
  BY ClientInvInit
<1>3. ClientInv /\ [ClientNext]_clientVars => ClientInv'
  BY ClientStep
<1> QED
  BY <1>1, <1>2, <1>3, PTL DEF ClientSpec

\* The edge build never stops polling: whatever requests fail, however many
\* timers the calls of pollSnapshot clear for one another and wherever the page
\* is reloaded, a request is under way or a timer is armed (pollSnapshot).
THEOREM ChainNeverDies == ClientSpec => []ChainAlive
<1>1. ClientInv => ChainAlive
  BY DEF ClientInv
<1>2. ClientInit => ClientInv
  BY ClientInvInit
<1>3. ClientInv /\ [ClientNext]_clientVars => ClientInv'
  BY ClientStep
<1> QED
  BY <1>1, <1>2, <1>3, PTL DEF ClientSpec

=============================================================================
