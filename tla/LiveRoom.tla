------------------------------ MODULE LiveRoom ------------------------------
(***************************************************************************)
(* The public Live room of the edge (apps/edge/src/live.js, class          *)
(* LiveRoom): a Durable Object that takes signed event versions from the   *)
(* publisher, drops duplicates and stale versions, and keeps the list of   *)
(* events every browser is shown.                                          *)
(*                                                                         *)
(* Here the room is alone with a network that may deliver any message, in  *)
(* any order and as often as it likes.  LiveEdge puts the publisher that   *)
(* really feeds it on the other side.                                      *)
(*                                                                         *)
(* From its look-up of event:<id> to its storage.put ingest awaits storage *)
(* operations only, and the object's input gate lets no other request in   *)
(* meanwhile, so each handler is one action.  (head_hash is read before    *)
(* the digest is awaited; the previous_hash link it gives is not modelled.)*)
(* A refused request (bad signature, invalid body, private event) changes  *)
(* nothing and is left out.                                                *)
(***************************************************************************)
EXTENDS Integers, FiniteSets, Sequences

CONSTANTS Incidents,   \* incident ids: properties.incident_id
          Versions,    \* material contents an incident's event may have
          Ids,         \* event ids: the versions that may ever be sent
          MaxTime,     \* bound on the clock
          Ttl,         \* LIVE_EVENT_TTL_SECONDS
          MaxEvents,   \* MAX_EVENTS: length of the list of visible events
          MaxResets    \* bound on signed resets

\* An event id names the incident and, as a hash, the material content; the
\* content includes the type and the expired flag, so it says whether the event
\* is a removal.
AllIds == [incident : Incidents, version : Versions, removed : BOOLEAN]

ASSUME RoomAssumption ==
  /\ Ids \subseteq AllIds
  /\ MaxTime \in Nat
  /\ Ttl \in Nat \ {0}
  /\ MaxEvents \in Nat \ {0}
  /\ MaxResets \in Nat

Times == 0 .. MaxTime

\* No stored version: the incident:<id> key is absent from the storage.
NoVersion == -1

Messages == [id : Ids, observed : Times]

VARIABLES
  now,         \* Date.now()
  seen,        \* ids with an event:<id> key
  versionAt,   \* observed_at under incident:<id>, or NoVersion
  tombstone,   \* the removed flag under incident:<id>
  chain,       \* accepted events, oldest first: head_hash is the hash of the last
  visible,     \* positions in chain of the members of the events list
  resets       \* resets so far

roomVars == <<now, seen, versionAt, tombstone, chain, visible, resets>>

TypeOK ==
  /\ now \in Times
  /\ seen \subseteq Ids
  /\ versionAt \in [Incidents -> Times \union {NoVersion}]
  /\ tombstone \in [Incidents -> BOOLEAN]
  /\ chain \in Seq(Messages)
  /\ visible \subseteq 1 .. Len(chain)
  /\ resets \in 0 .. MaxResets

Init ==
  /\ now = 0
  /\ seen = {}
  /\ versionAt = [i \in Incidents |-> NoVersion]
  /\ tombstone = [i \in Incidents |-> FALSE]
  /\ chain = <<>>
  /\ visible = {}
  /\ resets = 0

-----------------------------------------------------------------------------
(* Reading the room *)

IncidentAt(k) == chain[k].id.incident

\* isFresh: the age counts from the observation, not from the delivery.
IsFresh(m) == m.observed + Ttl > now

FreshPositions == {k \in visible : IsFresh(chain[k])}

\* The version ingest compares with when incident:<id> is absent: the fresh
\* visible event of the incident, if there is one.
FromVisible(i) ==
  IF \E k \in FreshPositions : IncidentAt(k) = i
    THEN chain[CHOOSE k \in FreshPositions : IncidentAt(k) = i].observed
    ELSE NoVersion

CurrentVersion(i) == IF versionAt[i] # NoVersion THEN versionAt[i] ELSE FromVisible(i)

\* Mutant: a removal is compared like any other version.
IsStaleIgnoringRemoval(m) ==
  LET current == CurrentVersion(m.id.incident)
  IN  current # NoVersion /\ m.observed < current

\* isStaleIncidentVersion: an older observation is stale, and so is an active
\* version that is not newer than the removal it would undo.
IsStale(m) ==
  LET current == CurrentVersion(m.id.incident)
  IN  /\ current # NoVersion
      /\ \/ m.observed < current
         \/ tombstone[m.id.incident] /\ ~m.id.removed /\ m.observed <= current

\* Mutant: slice(0, MAX_EVENTS) cuts the newest off.
NewestFromTheFront(S) == {k \in S : Cardinality({j \in S : j < k}) < MaxEvents}

\* slice(-MAX_EVENTS)
Newest(S) == {k \in S : Cardinality({j \in S : j > k}) < MaxEvents}

-----------------------------------------------------------------------------
(* Handlers *)

\* ingest of an event id the room already processed: 200, nothing changes.
Duplicate(m) ==
  /\ m.id \in seen
  /\ UNCHANGED roomVars

\* ingest of a stale version: only the id is remembered, 200.
Stale(m) ==
  /\ m.id \notin seen
  /\ IsStale(m)
  /\ seen' = seen \union {m.id}
  /\ UNCHANGED <<now, versionAt, tombstone, chain, visible, resets>>

\* Mutant: the event:<id> key is not looked up.
AcceptAgain(m) ==
  /\ ~IsStale(m)
  /\ seen' = seen \union {m.id}
  /\ chain' = Append(chain, m)
  /\ versionAt' = [versionAt EXCEPT ![m.id.incident] = m.observed]
  /\ tombstone' = [tombstone EXCEPT ![m.id.incident] = m.id.removed]
  /\ LET others == {k \in FreshPositions : IncidentAt(k) # m.id.incident}
     IN  visible' = IF m.id.removed THEN others
                                    ELSE Newest(others \union {Len(chain) + 1})
  /\ UNCHANGED <<now, resets>>

\* Mutant: the previous version of the incident stays in the list.
AcceptBeside(m) ==
  /\ m.id \notin seen
  /\ ~IsStale(m)
  /\ seen' = seen \union {m.id}
  /\ chain' = Append(chain, m)
  /\ versionAt' = [versionAt EXCEPT ![m.id.incident] = m.observed]
  /\ tombstone' = [tombstone EXCEPT ![m.id.incident] = m.id.removed]
  /\ visible' = IF m.id.removed
                  THEN {k \in FreshPositions : IncidentAt(k) # m.id.incident}
                  ELSE Newest(FreshPositions \union {Len(chain) + 1})
  /\ UNCHANGED <<now, resets>>

\* ingest of a version the room takes: one storage.put replaces the incident's
\* previous version (or only drops it, for a removal), cuts the list to its
\* length, moves the head and remembers the id and the incident's version.
Accept(m) ==
  /\ m.id \notin seen
  /\ ~IsStale(m)
  /\ seen' = seen \union {m.id}
  /\ chain' = Append(chain, m)
  /\ versionAt' = [versionAt EXCEPT ![m.id.incident] = m.observed]
  /\ tombstone' = [tombstone EXCEPT ![m.id.incident] = m.id.removed]
  /\ LET others == {k \in FreshPositions : IncidentAt(k) # m.id.incident}
     IN  visible' = IF m.id.removed THEN others
                                    ELSE Newest(others \union {Len(chain) + 1})
  /\ UNCHANGED <<now, resets>>

Ingest(m) == Duplicate(m) \/ Stale(m) \/ Accept(m)

\* snapshot, status and stream all read through loadSnapshot, which writes the
\* list back without the events that outlived their time.
LoadSnapshot ==
  /\ FreshPositions # visible
  /\ visible' = FreshPositions
  /\ UNCHANGED <<now, seen, versionAt, tombstone, chain, resets>>

\* reset: storage.deleteAll().
Reset ==
  /\ resets < MaxResets
  /\ seen' = {}
  /\ versionAt' = [i \in Incidents |-> NoVersion]
  /\ tombstone' = [i \in Incidents |-> FALSE]
  /\ chain' = <<>>
  /\ visible' = {}
  /\ resets' = resets + 1
  /\ UNCHANGED now

Tick ==
  /\ now < MaxTime
  /\ now' = now + 1
  /\ UNCHANGED <<seen, versionAt, tombstone, chain, visible, resets>>

Next ==
  \/ \E m \in Messages : Ingest(m)
  \/ LoadSnapshot
  \/ Reset
  \/ Tick

Spec == Init /\ [][Next]_roomVars

-----------------------------------------------------------------------------
(* Properties *)

\* Duplicate delivery never advances the head: however often and in whatever
\* order ids arrive, no id is accepted twice between two resets (ingest, the
\* event:<id> key).
AcceptedOnce ==
  \A j, k \in 1 .. Len(chain) : j # k => chain[j].id # chain[k].id

\* Over the whole history of an incident the accepted observations never go
\* back, and what a removal took away is not brought back by the observation it
\* removed, or an older one: only a newer one makes the incident active again
\* (isStaleIncidentVersion).
NoResurrection ==
  \A j, k \in 1 .. Len(chain) :
    j < k /\ IncidentAt(j) = IncidentAt(k) =>
      /\ chain[j].observed <= chain[k].observed
      /\ chain[j].id.removed /\ ~chain[k].id.removed =>
           chain[j].observed < chain[k].observed

\* What the browsers see of an incident is the last version accepted for it,
\* and nothing of it once that version is a removal; so there is never more
\* than one marker of an incident (ingest, withoutPreviousVersion).
VisibleIsLatest ==
  \A k \in visible :
    /\ ~chain[k].id.removed
    /\ \A j \in k + 1 .. Len(chain) : IncidentAt(j) # IncidentAt(k)

\* An active, fresh last version is missing from the list only when newer
\* events of at least MaxEvents other incidents pushed it out (ingest,
\* slice(-MAX_EVENTS)).
EvictedOnlyWhenFull ==
  \A k \in (1 .. Len(chain)) \ visible :
    \/ chain[k].id.removed
    \/ ~IsFresh(chain[k])
    \/ \E j \in k + 1 .. Len(chain) : IncidentAt(j) = IncidentAt(k)
    \/ Cardinality({IncidentAt(j) : j \in k + 1 .. Len(chain)}) >= MaxEvents

=============================================================================
