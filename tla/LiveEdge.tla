------------------------------ MODULE LiveEdge ------------------------------
(***************************************************************************)
(* Publication of the intel database on the public edge: the publisher     *)
(* process (apps/api/core/live_edge_publisher.py) scans the recent rows,   *)
(* keeps their versions in a SQLite outbox and posts them to the LiveRoom  *)
(* (apps/edge/src/live.js) until the room answers 200 or 202.              *)
(*                                                                         *)
(* Posts are lost, answered too late, or arrive after the publisher gave   *)
(* up on them; the publisher stops anywhere and starts again from its      *)
(* outbox; rows are revised, withdrawn, published again and grow old while *)
(* all this goes on.                                                       *)
(*                                                                         *)
(* The units of the clock are days: a distress report is retired after     *)
(* Retention (24 h), a delivered id is forgotten after Keep (48 h), the    *)
(* scan and the room look back Window and Ttl (8 days).                    *)
(***************************************************************************)
EXTENDS Integers, FiniteSets, Sequences

CONSTANTS Incidents,   \* rows of intel_events
          Spikes,      \* the rows of type ais_spike
          Distress,    \* the rows whose public feature is a distress
          Contents,    \* material contents of a row
          NoContent,   \* the content of a removal of a withdrawn row
          Retention, Keep, Window, Ttl,
          ScanLimit,   \* scan_limit of collect
          BatchSize,   \* batch_size of deliver
          MaxEvents,   \* MAX_EVENTS of the room
          MaxTime, MaxEdits, MaxFaults, MaxResets   \* bounds of the model

ASSUME EdgeAssumption ==
  /\ Spikes \subseteq Incidents /\ Distress \subseteq Incidents
  /\ NoContent \notin Contents
  /\ {Retention, Keep, Window, MaxTime, MaxEdits, MaxFaults, MaxResets} \subseteq Nat
  /\ {Ttl, ScanLimit, BatchSize, MaxEvents} \subseteq Nat \ {0}

\* The ids _version_id can give: the hash covers the type and the properties,
\* hence the content and whether it is a removal, but not observed_at.
EventIds ==
  [incident : Incidents, version : Contents, removed : BOOLEAN]
    \union [incident : Incidents, version : {NoContent}, removed : {TRUE}]

VARIABLES now, seen, versionAt, tombstone, chain, visible, resets

Room == INSTANCE LiveRoom WITH Versions <- Contents \union {NoContent}, Ids <- EventIds

Payloads == [id : EventIds, observed : 0 .. MaxTime]

VARIABLES
  content,     \* what the public projection of the row says
  public,      \* whether the policy lets the row into the public feed
  stamp,       \* timestamp_utc of the row
  activity,    \* _latest_activity_time of the row
  edits,       \* row writes so far
  pending,     \* outbox: payloads not yet acknowledged
  created,     \* outbox: created_at of the last payload stored under an id
  waiting,     \* outbox: ids whose next_attempt_at is in the future
  delivered,   \* outbox: acknowledged ids
  deliveredAt, \* outbox: delivered_at of those ids
  pc,          \* the publisher is about to "collect", "take" a batch or "deliver"
  batch,       \* rows of ready() still to post in this cycle
  wire,        \* posts the publisher gave up on and the room has yet to read
  faults       \* faults so far

rowVars == <<content, public, stamp, activity, edits>>
outboxVars == <<pending, created, waiting, delivered, deliveredAt>>
cycleVars == <<pc, batch>>
roomVars == <<now, seen, versionAt, tombstone, chain, visible, resets>>
vars == <<roomVars, rowVars, outboxVars, cycleVars, wire, faults>>

TypeOK ==
  /\ Room!TypeOK
  /\ content \in [Incidents -> Contents]
  /\ public \in [Incidents -> BOOLEAN]
  /\ stamp \in [Incidents -> 0 .. MaxTime]
  /\ activity \in [Incidents -> 0 .. MaxTime]
  /\ edits \in 0 .. MaxEdits
  /\ pending \subseteq Payloads
  /\ created \in [EventIds -> 0 .. MaxTime + MaxEdits]
  /\ waiting \subseteq {p.id : p \in pending}
  /\ delivered \subseteq EventIds
  /\ deliveredAt \in [EventIds -> 0 .. MaxTime]
  /\ pc \in {"collect", "take", "deliver"}
  /\ batch \subseteq pending
  /\ wire \subseteq Payloads
  /\ faults \in 0 .. MaxFaults

Init ==
  /\ Room!Init
  /\ content \in [Incidents -> Contents]
  /\ public \in [Incidents -> BOOLEAN]
  /\ stamp = [i \in Incidents |-> 0]
  /\ activity = [i \in Incidents |-> 0]
  /\ edits = 0
  /\ pending = {}
  /\ created = [id \in EventIds |-> 0]
  /\ waiting = {}
  /\ delivered = {}
  /\ deliveredAt = [id \in EventIds |-> 0]
  /\ pc = "collect"
  /\ batch = {}
  /\ wire = {}
  /\ faults = 0

-----------------------------------------------------------------------------
(* The rows *)

\* A write to the row: its projection or its eligibility changes, a thread
\* repost moves its activity, and the refresh of a machine episode moves its
\* timestamp too.
Edit(i) ==
  /\ edits < MaxEdits
  /\ edits' = edits + 1
  /\ \E c \in Contents, p \in BOOLEAN :
       /\ content' = [content EXCEPT ![i] = c]
       /\ public' = [public EXCEPT ![i] = p]
  /\ \/ UNCHANGED <<stamp, activity>>
     \/ activity' = [activity EXCEPT ![i] = now] /\ UNCHANGED stamp
     \/ activity' = [activity EXCEPT ![i] = now] /\ stamp' = [stamp EXCEPT ![i] = now]
  /\ UNCHANGED <<roomVars, outboxVars, cycleVars, wire, faults>>

\* is_within_live_retention_window, for distress only.
Expired(i) == i \in Distress /\ now - activity[i] >= Retention

\* Whether the cutoff of collect's queries still covers the row.
InWindow(i) == now - stamp[i] <= Window

\* The version of the row as it is now: public_event_from_row, or
\* removed_payload for a row the policy no longer lets through.
Version(i) ==
  IF public[i]
    THEN [incident |-> i, version |-> content[i], removed |-> Expired(i)]
    ELSE [incident |-> i, version |-> NoContent, removed |-> TRUE]

Payload(i) == [id |-> Version(i), observed |-> IF public[i] THEN stamp[i] ELSE now]

WasEverDelivered(i) == \E id \in delivered : id.incident = i

\* Mutant: removals are sent for rows that never were public.
WantedAlways(i) == i \in Incidents

\* collect wants a version of the row at the edge.
Wanted(i) == public[i] \/ WasEverDelivered(i)

-----------------------------------------------------------------------------
(* The publisher's cycle *)

\* The answers ORDER BY timestamp_utc DESC LIMIT scan_limit may give.
Latest(S) ==
  {B \in SUBSET S : /\ Cardinality(B) = IF Cardinality(S) < ScanLimit
                                          THEN Cardinality(S) ELSE ScanLimit
                    /\ \A b \in B, s \in S \ B : stamp[b] >= stamp[s]}

Recent == {i \in Incidents : InWindow(i)}

\* Mutant: the query that leaves spikes out is missing.
ScansOneQuery == Latest(Recent)

\* The two queries of collect.
Scans == {rows \in SUBSET Recent :
            \E general \in Latest(Recent), distress \in Latest(Recent \ Spikes) :
              rows = general \union distress}

\* The rows' versions that enqueue inserts: not delivered, and not pending
\* (INSERT OR IGNORE keeps the payload that is there).
NewVersions(rows) ==
  {Payload(i) : i \in {j \in rows : /\ Wanted(j)
                                    /\ Version(j) \notin delivered
                                    /\ \A p \in pending : p.id # Version(j)}}

\* created_at, to the precision at which a row's version can change.
Moment == edits + now

Enqueue(rows) ==
  LET new == NewVersions(rows)
  IN  /\ pending' = pending \union new
      /\ created' = [id \in EventIds |-> IF \E p \in new : p.id = id THEN Moment ELSE created[id]]
      /\ UNCHANGED <<waiting, delivered, deliveredAt>>

\* collect: all rows of one scan.
Collect ==
  /\ pc = "collect"
  /\ \E rows \in Scans : Enqueue(rows)
  /\ pc' = "take"
  /\ UNCHANGED <<roomVars, rowVars, batch, wire, faults>>

\* collect cut short by an exception or the end of the process: each enqueue
\* commits by itself, so some rows are in the outbox and the next cycle, or the
\* restarted publisher, scans again.
CollectCut ==
  /\ pc = "collect"
  /\ faults < MaxFaults
  /\ faults' = faults + 1
  /\ \E rows \in Scans : \E done \in SUBSET rows : Enqueue(done)
  /\ UNCHANGED <<roomVars, rowVars, cycleVars, wire>>

\* ready: the oldest rows of the outbox that are due.
TakeBatch ==
  /\ pc = "take"
  /\ LET due == {p \in pending : p.id \notin waiting}
     IN  \E b \in SUBSET due :
           /\ Cardinality(b) = IF Cardinality(due) < BatchSize
                                 THEN Cardinality(due) ELSE BatchSize
           /\ \A p \in b, q \in due \ b : created[p.id] <= created[q.id]
           /\ batch' = b
  /\ pc' = "deliver"
  /\ UNCHANGED <<roomVars, rowVars, outboxVars, wire, faults>>

\* p is the next row of the batch: ORDER BY created_at.
IsNext(p) == pc = "deliver" /\ p \in batch /\ \A q \in batch : created[p.id] <= created[q.id]

Acknowledge(p) ==
  /\ pending' = pending \ {p}
  /\ waiting' = waiting \ {p.id}
  /\ delivered' = delivered \union {p.id}
  /\ deliveredAt' = [deliveredAt EXCEPT ![p.id] = now]
  /\ UNCHANGED created

\* The post is answered 200 or 202.
Delivered(p) ==
  /\ IsNext(p)
  /\ Room!Ingest(p)
  /\ Acknowledge(p)
  /\ batch' = batch \ {p}
  /\ UNCHANGED <<rowVars, pc, wire, faults>>

\* What became of a post that was not answered in time: it never reached the
\* room or was refused by the edge, the room took it and the answer was lost, or
\* it is still on its way.
Unanswered(p) ==
  /\ faults < MaxFaults
  /\ faults' = faults + 1
  /\ \/ UNCHANGED <<roomVars, wire>>
     \/ Room!Ingest(p) /\ UNCHANGED wire
     \/ wire' = wire \union {p} /\ UNCHANGED roomVars

\* Mutant: the row is struck off whatever the answer.
DeliveryFailsAcknowledged(p) ==
  /\ IsNext(p)
  /\ Unanswered(p)
  /\ Acknowledge(p)
  /\ batch' = batch \ {p}
  /\ UNCHANGED <<rowVars, pc>>

\* deliver's except branch: fail() puts the row off.
DeliveryFails(p) ==
  /\ IsNext(p)
  /\ Unanswered(p)
  /\ waiting' = waiting \union {p.id}
  /\ batch' = batch \ {p}
  /\ UNCHANGED <<rowVars, pending, created, delivered, deliveredAt, pc>>

\* The publisher stops during a post; systemd starts it again.
PublisherStops(p) ==
  /\ IsNext(p)
  /\ Unanswered(p)
  /\ batch' = {}
  /\ pc' = "collect"
  /\ UNCHANGED <<rowVars, outboxVars>>

\* next_attempt_at passes.
BecomesDue(id) ==
  /\ id \in waiting
  /\ waiting' = waiting \ {id}
  /\ UNCHANGED <<roomVars, rowVars, pending, created, delivered, deliveredAt,
                 cycleVars, wire, faults>>

\* The batch is through; every 3600th cycle prunes the delivered ids.
EndCycle ==
  /\ pc = "deliver"
  /\ batch = {}
  /\ pc' = "collect"
  /\ \/ UNCHANGED delivered
     \/ delivered' = {id \in delivered : now - deliveredAt[id] <= Keep}
  /\ UNCHANGED <<roomVars, rowVars, pending, created, waiting, deliveredAt, batch, wire, faults>>

-----------------------------------------------------------------------------
(* The edge and the operator *)

\* A post the publisher gave up on reaches the room.
LateArrival(p) ==
  /\ p \in wire
  /\ Room!Ingest(p)
  /\ wire' = wire \ {p}
  /\ UNCHANGED <<rowVars, outboxVars, cycleVars, faults>>

Snapshot ==
  /\ Room!LoadSnapshot
  /\ UNCHANGED <<rowVars, outboxVars, cycleVars, wire, faults>>

\* The clean start of docs/LIVE_FIRST_CUTOVER.md: stop the publisher, delete
\* its outbox, reset the room, start the publisher.
CleanStart ==
  /\ Room!Reset
  /\ pending' = {}
  /\ waiting' = {}
  /\ delivered' = {}
  /\ batch' = {}
  /\ pc' = "collect"
  /\ UNCHANGED <<rowVars, created, deliveredAt, wire, faults>>

Tick ==
  /\ Room!Tick
  /\ UNCHANGED <<rowVars, outboxVars, cycleVars, wire, faults>>

Publisher ==
  \/ Collect
  \/ TakeBatch
  \/ \E p \in batch : Delivered(p)
  \/ EndCycle

Next ==
  \/ Publisher
  \/ CollectCut
  \/ \E p \in batch : DeliveryFails(p) \/ PublisherStops(p)
  \/ \E id \in waiting : BecomesDue(id)
  \/ \E p \in wire : LateArrival(p)
  \/ Snapshot
  \/ CleanStart
  \/ Tick
  \/ \E i \in Incidents : Edit(i)

Spec == Init /\ [][Next]_vars

\* The publisher's loop runs for ever (systemd restarts it), a backoff ends,
\* and with finitely many faults a post is answered in the end.
Fairness ==
  /\ WF_vars(Publisher)
  /\ \A id \in EventIds : WF_vars(BecomesDue(id))

FairSpec == Spec /\ Fairness

-----------------------------------------------------------------------------
(* Properties *)

\* An id is struck off the outbox only when the room has processed it: whatever
\* posts are lost or the publisher stops in between, a delivered version is one
\* the room answered for (deliver, acknowledge; both forget at a clean start).
AckMeansProcessed == delivered \subseteq seen

\* The room is told of the removal of a withdrawn row only if it was sent a
\* version of that row before: a row that was never public leaves no trace on
\* the public edge, not even a removal (was_ever_delivered).
RemovalJustified ==
  resets = 0 =>
    \A p \in pending \union wire \union {chain[k] : k \in 1 .. Len(chain)} :
      p.id.version = NoContent =>
        \E id \in seen : id.incident = p.id.incident /\ id.version # NoContent

\* The rows that no scan leaves out, whatever spikes there are: fewer than
\* ScanLimit other rows compete with them for the second query.
NeverCrowdedOut ==
  {i \in Recent \ Spikes :
     Cardinality({j \in (Recent \ Spikes) \ {i} : stamp[j] >= stamp[i]}) < ScanLimit}

\* A version the collector wants at the edge, of a row among the newest
\* ScanLimit that are not spikes, is processed by the room in the end, unless
\* the row changes, or newer rows crowd it out, first: spikes alone never do
\* (collect's second query; at-least-once delivery of the outbox).
WantedAt(id) ==
  \E i \in NeverCrowdedOut : Wanted(i) /\ Version(i) = id

Reaches ==
  \A id \in {e \in EventIds : e.incident \notin Spikes} :
    WantedAt(id) ~> (id \in seen \/ ~WantedAt(id))

-----------------------------------------------------------------------------
(* What the documents say of the edge, and the code does not do *)

\* Nothing to send: the outbox is empty and a scan would add nothing.
Idle == pending = {} /\ wire = {} /\ NewVersions(Recent) = {}

Shown(i) == {chain[k].id : k \in {j \in visible : Room!IncidentAt(j) = i /\ Room!IsFresh(chain[j])}}

\* "A stale version cannot replace a newer incident state": what is shown of an
\* incident is never replaced by a version collected earlier.
StaleNeverReplaces ==
  [][\A i \in Incidents : \A old \in Shown(i), new \in Shown(i)' :
       created[old] <= created[new]']_vars

\* A report that is within the retention window of the VM's feed is shown on
\* the edge too.
ActiveShown ==
  Idle => \A i \in Recent : public[i] /\ ~Expired(i) => Shown(i) # {}

=============================================================================
