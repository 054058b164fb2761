----------------------------- MODULE IntelStore -----------------------------
(***************************************************************************)
(* The intel store (apps/api/core/intel/store.py): events of editorial     *)
(* sources in a bounded deque, their dedup keys, and the rows of           *)
(* intel_events behind them.  Monitor, OCR and drift threads change events *)
(* under the store's lock and queue the durable write after they released  *)
(* it; one worker thread executes the queue in FIFO order.                 *)
(*                                                                         *)
(* Metadata is a set of facts, one per key.  Most writes replace the row's *)
(* metadata by a copy taken outside the lock; enrich_location merges its   *)
(* fact in the database.  The worker merges a second event for a known     *)
(* source item into the first one's row and repoints the event, without    *)
(* the lock.  A restart loses all but the rows.                            *)
(*                                                                         *)
(* The events are those of the X collectors: a post has a url of its own,  *)
(* a time, a dedup key "x:<tweet id>" and a content hash.  One post is     *)
(* collected under several spellings of its source; add compares them      *)
(* normalised, the row and the content hash compare them exactly.          *)
(*                                                                         *)
(* An object number stands for an IntelEvent; its id when it is created is *)
(* its own number, or the row's when it is read back from the row.         *)
(***************************************************************************)
EXTENDS Integers, FiniteSets, Sequences, Functions

CONSTANTS
  Reports,       \* a post and the spelling of its source it is collected under
  AlarmPhone,    \* the spellings load_from_db reads dedup keys for
  Normalised,    \* _normalised_source: of every spelling
  Threads,       \* threads that call the store
  Facts,         \* metadata written by collectors and update_metadata
  Locations,     \* the location of best quality enrich_location writes
  Replies,       \* verified replies of append_thread_repost
  None,
  MaxEvents,     \* MAX_EVENTS: the deque, and the limit of load_from_db
  SeedLimit,     \* the limit of load_from_db's second query
  DedupWindow,   \* DEDUP_WINDOW
  MaxObjects, MaxCalls, MaxRestarts, MaxFails   \* bounds of the model

Posts == {r.post : r \in Reports}
Sources == {r.source : r \in Reports}

\* Posts are numbered in the order of their timestamps.
ASSUME StoreAssumption ==
  /\ Reports \subseteq [post : Posts, source : Sources]
  /\ Posts \subseteq Nat
  /\ None \notin Reports \union Sources \union Threads \union Facts \union Locations \union Replies
  /\ {MaxEvents, SeedLimit, DedupWindow} \subseteq Nat \ {0}
  /\ {MaxObjects, MaxCalls, MaxRestarts, MaxFails} \subseteq Nat

Objects == 1 .. MaxObjects
AllFacts == Facts \union Locations \union Replies

VARIABLES
  events,    \* _events: objects, the newest first
  seen,      \* _seen_order
  created,   \* objects made so far
  report,    \* url and source of an object, and of the row with its number
  eid,       \* id of an object
  meta,      \* metadata of an object
  rows,      \* ids in intel_events
  rowMeta,   \* their metadata
  writes,    \* _persist_queue
  merging,   \* a merge the worker has computed and not yet assigned
  call,      \* what each thread is doing
  loading,   \* rows load_from_db has read and not yet entered
  shown,     \* replies that were broadcast, with the id of their event
  forgotten, \* posts whose key was dropped, or was not read back (history)
  calls, restarts, fails

memory == <<events, seen, forgotten, created, report, eid, meta>>
database == <<rows, rowMeta>>
counters == <<restarts, fails>>
storeVars == <<memory, database, writes, merging, call, loading, shown, calls, counters>>

Idle == [at |-> "idle", obj |-> None, id |-> None, fact |-> None, copy |-> {}]

\* The two keys of a post: the content hash depends on the source's spelling.
TextKey(r) == [post |-> r.post, source |-> r.source]
IdKey(p) == [post |-> p, source |-> None]
Keys == [post : Posts, source : Sources \union {None}]

\* A queued write: a new event, a copy of all metadata, or one fact to merge;
\* by is the thread that waits for it.
Write == [op : {"event", "copy", "fact"}, obj : Objects \union {None},
          id : Objects \union {None}, copy : SUBSET AllFacts,
          by : Threads \union {None}]

StoreTypeOK ==
  /\ events \in Seq(Objects) /\ Len(events) <= MaxEvents
  /\ seen \in Seq(Keys) /\ Len(seen) <= DedupWindow
  /\ created \in 0 .. MaxObjects
  /\ report \in [Objects -> Reports \union {None}]
  /\ eid \in [Objects -> Objects]
  /\ meta \in [Objects -> SUBSET AllFacts]
  /\ rows \subseteq 1 .. created
  /\ rowMeta \in [Objects -> SUBSET AllFacts]
  /\ writes \in Seq(Write)
  /\ merging \in [obj : Objects, row : Objects, facts : SUBSET AllFacts] \union {None}
  /\ call \in [Threads -> [at : {"idle", "event", "copy", "put", "fact", "rehydrate",
                                 "append", "wait", "show"},
                           obj : Objects \union {None}, id : Objects \union {None},
                           fact : AllFacts \union {None}, copy : SUBSET AllFacts]]
  /\ loading \in Seq([row : Objects, keep : BOOLEAN])
  /\ shown \subseteq Objects \X Replies
  /\ forgotten \subseteq Posts
  /\ calls \in 0 .. MaxCalls /\ restarts \in 0 .. MaxRestarts /\ fails \in 0 .. MaxFails

StoreInit ==
  /\ events = <<>> /\ seen = <<>> /\ created = 0
  /\ report = [o \in Objects |-> None]
  /\ eid = [o \in Objects |-> o]
  /\ meta = [o \in Objects |-> {}]
  /\ rows = {} /\ rowMeta = [o \in Objects |-> {}]
  /\ writes = <<>> /\ merging = None
  /\ call = [t \in Threads |-> Idle]
  /\ loading = <<>>
  /\ shown = {} /\ forgotten = {}
  /\ calls = 0 /\ restarts = 0 /\ fails = 0

-----------------------------------------------------------------------------
(* The deque and the dedup window *)

Newest(s, n) == SubSeq(s, 1, IF Len(s) < n THEN Len(s) ELSE n)

\* deque(maxlen).appendleft
PushLeft(o) == Newest(<<o>> \o events, MaxEvents)

\* _remember_seen_locked: keys that are not in the window go to its end, and
\* the oldest go when there are too many.
Insert(s, k) == IF k \in Range(s) THEN s ELSE Append(s, k)
Trim(s) == IF Len(s) <= DedupWindow THEN s ELSE SubSeq(s, Len(s) - DedupWindow + 1, Len(s))
Remember(s, j, k) == Trim(Insert(Insert(s, j), k))

\* The window becomes s; the key of post p was in it or was just entered.
Remembers(p, s) ==
  /\ seen' = s
  /\ forgotten' = forgotten \union
       {q \in Posts : IdKey(q) \in (Range(seen) \union {IdKey(p)}) \ Range(s)}

\* The keys of a call are a Python set: they are entered in either order.
Orders(r) == {Remember(seen, TextKey(r), IdKey(r.post)), Remember(seen, IdKey(r.post), TextKey(r))}

KeysSeen(r) == {TextKey(r), IdKey(r.post)} \intersect Range(seen) # {}

\* The same url, and the same source but for its spelling.
SameItem(r, s) == r.post = s.post /\ Normalised[r.source] = Normalised[s.source]

\* Positions in the deque of the events with this id, and of this post.
Holding(id) == {n \in 1 .. Len(events) : eid[events[n]] = id}
Collected(r) == {n \in 1 .. Len(events) : SameItem(report[events[n]], r)}

\* The loops of the store take the first event that fits.
First(N) == {events[n] : n \in {k \in N : \A m \in N : k <= m}}

\* A thread enters the store; load_from_db is over before any does.
Enter(t) ==
  /\ loading = <<>>
  /\ call[t] = Idle
  /\ calls < MaxCalls
  /\ calls' = calls + 1

Goes(t, c) == call' = [call EXCEPT ![t] = c]

-----------------------------------------------------------------------------
(* add *)

\* A post no key of which is known: it enters the deque under the lock, and is
\* broadcast and queued after.
AddNew(t, r, m) ==
  LET o == created + 1
  IN  /\ Enter(t)
      /\ created < MaxObjects
      /\ Collected(r) = {} /\ ~KeysSeen(r)
      /\ created' = o
      /\ report' = [report EXCEPT ![o] = r]
      /\ eid' = [eid EXCEPT ![o] = o]
      /\ meta' = [meta EXCEPT ![o] = m]
      /\ events' = PushLeft(o)
      /\ \E s \in Orders(r) : Remembers(r.post, s)
      /\ Goes(t, [Idle EXCEPT !.at = "event", !.obj = o])
      /\ UNCHANGED <<database, writes, merging, loading, shown, counters>>

\* A second collector saw the post: what it adds to the metadata is kept, and
\* written when it is new.  The id that is written is read with the copy.
AddDuplicate(t, r, m) ==
  \E o \in First(Collected(r)) :
    /\ Enter(t)
    /\ meta' = [meta EXCEPT ![o] = @ \union m]
    /\ \E s \in Orders(r) : Remembers(r.post, s)
    /\ Goes(t, IF m \subseteq meta[o] THEN Idle
                 ELSE [Idle EXCEPT !.at = "copy", !.obj = o])
    /\ UNCHANGED <<events, created, report, eid, database, writes, merging, loading, shown, counters>>

-----------------------------------------------------------------------------
(* Updates of an event, by its id *)

UpdateMetadata(t, o, f) ==
  /\ Enter(t)
  /\ o \in First(Holding(eid[o]))
  /\ meta' = [meta EXCEPT ![o] = @ \union {f}]
  /\ Goes(t, [Idle EXCEPT !.at = "copy", !.obj = o, !.id = eid[o]])
  /\ UNCHANGED <<events, seen, forgotten, created, report, eid, database, writes, merging, loading, shown,
                 counters>>

\* A location of better quality than the one there is.
EnrichLocation(t, o, f) ==
  /\ Enter(t)
  /\ o \in First(Holding(eid[o]))
  /\ f \notin meta[o]
  /\ meta' = [meta EXCEPT ![o] = @ \union {f}]
  /\ Goes(t, [Idle EXCEPT !.at = "fact", !.id = eid[o], !.fact = f])
  /\ UNCHANGED <<events, seen, forgotten, created, report, eid, database, writes, merging, loading, shown,
                 counters>>

\* append_thread_repost is entered with a verified reply: get, and get_durable
\* when the event is no longer in the deque.
Reply(t, id, f) ==
  /\ Enter(t)
  /\ \/ /\ Holding(id) # {}
        /\ Goes(t, [Idle EXCEPT !.at = "append", !.id = id, !.fact = f])
        /\ UNCHANGED memory
     \/ /\ Holding(id) = {} /\ id \in rows
        /\ created < MaxObjects
        /\ created' = created + 1
        /\ report' = [report EXCEPT ![created + 1] = report[id]]
        /\ eid' = [eid EXCEPT ![created + 1] = id]
        /\ meta' = [meta EXCEPT ![created + 1] = rowMeta[id]]
        /\ Goes(t, [Idle EXCEPT !.at = "rehydrate", !.obj = created + 1, !.id = id, !.fact = f])
        /\ UNCHANGED <<events, seen, forgotten>>
  /\ UNCHANGED <<database, writes, merging, loading, shown, counters>>

\* The copy of the row enters the deque unless the event is there by now.
Rehydrate(t) ==
  /\ call[t].at = "rehydrate"
  /\ events' = IF Holding(call[t].id) = {} THEN PushLeft(call[t].obj) ELSE events
  /\ Goes(t, [call[t] EXCEPT !.at = "append", !.obj = None])
  /\ UNCHANGED <<seen, forgotten, created, report, eid, meta, database, writes, merging, loading, shown,
                 calls, counters>>

\* The reply joins the event's thread, if the event is still there and does
\* not have it.
AppendReply(t) ==
  LET c == call[t]
  IN  /\ c.at = "append"
      /\ \/ \E o \in First(Holding(c.id)) :
              \/ /\ c.fact \notin meta[o]
                 /\ meta' = [meta EXCEPT ![o] = @ \union {c.fact}]
                 /\ Goes(t, [c EXCEPT !.at = "copy", !.obj = o])
              \/ /\ c.fact \in meta[o]
                 /\ Goes(t, Idle)
                 /\ UNCHANGED meta
         \/ /\ Holding(c.id) = {}
            /\ Goes(t, Idle)
            /\ UNCHANGED meta
      /\ UNCHANGED <<events, seen, forgotten, created, report, eid, database, writes, merging, loading,
                     shown, calls, counters>>

-----------------------------------------------------------------------------
(* The hand-over to the persistence worker, outside the lock *)

\* dict(updated.metadata)
Copy(t) ==
  LET c == call[t]
  IN  /\ c.at = "copy"
      /\ Goes(t, [c EXCEPT !.at = "put", !.copy = meta[c.obj], !.obj = None,
                           !.id = IF @ = None THEN eid[c.obj] ELSE @])
      /\ UNCHANGED <<memory, database, writes, merging, loading, shown, calls, counters>>

\* _enqueue_persist; only a reply waits for its write.
Put(t) ==
  LET c == call[t]
      by == IF c.at = "put" /\ c.fact # None THEN t ELSE None
      write(op) == [op |-> op, obj |-> c.obj, id |-> c.id,
                    copy |-> IF op = "fact" THEN {c.fact} ELSE c.copy, by |-> by]
  IN  /\ \/ c.at = "event" /\ writes' = Append(writes, write("event"))
         \/ c.at = "put" /\ writes' = Append(writes, write("copy"))
         \/ c.at = "fact" /\ writes' = Append(writes, write("fact"))
      /\ Goes(t, IF by = t THEN [c EXCEPT !.at = "wait", !.copy = {}] ELSE Idle)
      /\ UNCHANGED <<memory, database, merging, loading, shown, calls, counters>>

\* _fire_broadcast of a reply after its write.
Broadcast(t) ==
  /\ call[t].at = "show"
  /\ shown' = shown \union {<<call[t].id, call[t].fact>>}
  /\ Goes(t, Idle)
  /\ UNCHANGED <<memory, database, writes, merging, loading, calls, counters>>

\* _fire_broadcast serialises the event unguarded: when it raises in add, the
\* event is in the deque and is not queued.
BroadcastRaises(t) ==
  /\ call[t].at \in {"event", "show"}
  /\ fails < MaxFails
  /\ fails' = fails + 1
  /\ Goes(t, Idle)
  /\ UNCHANGED <<memory, database, writes, merging, loading, shown, calls, restarts>>

-----------------------------------------------------------------------------
(* The persistence worker *)

\* The write is over, done or failed: its waiter goes on.
Completed(w) ==
  /\ writes' = Tail(writes)
  /\ call' = [t \in Threads |-> IF t = w.by THEN [call[t] EXCEPT !.at = "show"] ELSE call[t]]

\* Mutant: the look-up is by id only.
RowsOfId(o) == {r \in rows : r = eid[o]}

\* The row that has the event's source, spelled the same, and url.
RowsOf(o) == {r \in rows : report[r] = report[o]}

\* {**event.metadata, **row.meta}: the replies are one key, and the row's win.
Merged(o, r) ==
  rowMeta[r] \union (IF rowMeta[r] \intersect Replies = {} THEN meta[o]
                      ELSE meta[o] \ Replies)

\* Mutant: only an event that is still in the deque is written.
PersistInsertIfHeld ==
  /\ writes # <<>> /\ merging = None
  /\ Head(writes).op = "event"
  /\ LET o == Head(writes).obj
     IN  /\ RowsOf(o) = {}
         /\ o \in Range(events)
         /\ rows' = rows \union {eid[o]}
         /\ rowMeta' = [rowMeta EXCEPT ![eid[o]] = meta[o]]
  /\ Completed(Head(writes))
  /\ UNCHANGED <<memory, merging, loading, shown, calls, counters>>

\* _persist_sync of a report without a row: INSERT, with the metadata the
\* event has by now.
PersistInsert ==
  /\ writes # <<>> /\ merging = None
  /\ Head(writes).op = "event"
  /\ LET o == Head(writes).obj
     IN  /\ RowsOf(o) = {}
         /\ rows' = rows \union {eid[o]}
         /\ rowMeta' = [rowMeta EXCEPT ![eid[o]] = meta[o]]
  /\ Completed(Head(writes))
  /\ UNCHANGED <<memory, merging, loading, shown, calls, counters>>

\* _persist_sync of a report that has a row: the merged metadata ...
PersistMerge ==
  /\ writes # <<>> /\ merging = None
  /\ Head(writes).op = "event"
  /\ LET o == Head(writes).obj
     IN  \E r \in RowsOf(o) :
           merging' = [obj |-> o, row |-> r, facts |-> Merged(o, r)]
  /\ UNCHANGED <<memory, database, writes, call, loading, shown, calls, counters>>

\* ... is assigned to the row and to the event, which takes the row's id; the
\* commit comes last and may fail.
PersistRepoint ==
  /\ merging # None
  /\ eid' = [eid EXCEPT ![merging.obj] = merging.row]
  /\ meta' = [meta EXCEPT ![merging.obj] = merging.facts]
  /\ \/ /\ rowMeta' = [rowMeta EXCEPT ![merging.row] = merging.facts]
        /\ UNCHANGED fails
     \/ /\ fails < MaxFails
        /\ fails' = fails + 1
        /\ UNCHANGED rowMeta
  /\ merging' = None
  /\ Completed(Head(writes))
  /\ UNCHANGED <<events, seen, forgotten, created, report, rows, loading, shown, calls, restarts>>

\* _persist_metadata_sync replaces the metadata; it finds no row for an id that
\* was repointed or is not inserted yet.
PersistMetadata ==
  /\ writes # <<>> /\ merging = None
  /\ Head(writes).op = "copy"
  /\ rowMeta' = [r \in Objects |-> IF r = Head(writes).id /\ r \in rows
                                     THEN Head(writes).copy ELSE rowMeta[r]]
  /\ Completed(Head(writes))
  /\ UNCHANGED <<memory, rows, merging, loading, shown, calls, counters>>

\* _persist_location_sync merges into what the row has.
PersistLocation ==
  /\ writes # <<>> /\ merging = None
  /\ Head(writes).op = "fact"
  /\ rowMeta' = [r \in Objects |-> IF r = Head(writes).id /\ r \in rows
                                     THEN rowMeta[r] \union Head(writes).copy ELSE rowMeta[r]]
  /\ Completed(Head(writes))
  /\ UNCHANGED <<memory, rows, merging, loading, shown, calls, counters>>

\* Mutant: the error ends the write without waking its waiter.
PersistFailsSilently ==
  /\ writes # <<>> /\ merging = None
  /\ fails < MaxFails
  /\ fails' = fails + 1
  /\ writes' = Tail(writes)
  /\ UNCHANGED <<memory, database, merging, call, loading, shown, calls, restarts>>

\* The transaction raises: the error is logged and the write is gone.
PersistFails ==
  /\ writes # <<>> /\ merging = None
  /\ fails < MaxFails
  /\ fails' = fails + 1
  /\ Completed(Head(writes))
  /\ UNCHANGED <<memory, database, merging, loading, shown, calls, restarts>>

-----------------------------------------------------------------------------
(* Restart *)

Post(r) == report[r].post

\* The newest n rows of S, and S in the order of time; equal times in any order.
Latest(S, n) ==
  {T \in SUBSET S : /\ Cardinality(T) = IF Cardinality(S) < n THEN Cardinality(S) ELSE n
                    /\ \A r \in T, s \in S \ T : Post(s) <= Post(r)}

InOrder(S) ==
  {f \in Bijection(1 .. Cardinality(S), S) : \A m, n \in DOMAIN f : m < n => Post(f[m]) <= Post(f[n])}

Backwards(s) == [n \in 1 .. Len(s) |-> s[Len(s) + 1 - n]]

\* Mutant: only what is loaded is known.
SeededNone(loaded, alarms) == {}

\* The rows whose keys it remembers without loading them.
Seeded(loaded, alarms) == alarms \ loaded

\* The queries of load_from_db for the posts after the cutoff: the newest rows,
\* which are loaded from the oldest on, and the newest Alarm Phone rows.
StoreRead(cutoff) ==
  LET recent == {r \in rows : Post(r) > cutoff}
      phoned == {r \in recent : report[r].source \in AlarmPhone}
  IN  \E loaded \in Latest(recent, MaxEvents), alarms \in Latest(phoned, SeedLimit) :
        /\ \E old \in InOrder(loaded), others \in InOrder(Seeded(loaded, alarms)) :
             loading' = [n \in 1 .. Len(old) |-> [row |-> old[n], keep |-> TRUE]]
                          \o [n \in 1 .. Len(others) |-> [row |-> Backwards(others)[n], keep |-> FALSE]]
        /\ forgotten' = forgotten \union {Post(r) : r \in rows \ (loaded \union alarms)}

\* The process dies and starts again; an error of the queries is logged, and
\* nothing is loaded.
StoreRestart ==
  /\ restarts < MaxRestarts
  /\ restarts' = restarts + 1
  /\ \/ /\ \E cutoff \in Posts \union {-1} : StoreRead(cutoff)
        /\ UNCHANGED fails
     \/ /\ fails < MaxFails
        /\ fails' = fails + 1
        /\ loading' = <<>>
        /\ forgotten' = forgotten \union {Post(r) : r \in rows}
  /\ events' = <<>> /\ seen' = <<>>
  /\ eid' = [o \in Objects |-> o]
  /\ meta' = [o \in Objects |-> IF o \in rows THEN rowMeta[o] ELSE {}]
  /\ writes' = <<>>
  /\ merging' = None
  /\ call' = [t \in Threads |-> Idle]
  /\ UNCHANGED <<created, report, database, shown, calls>>

\* load_from_db enters the next row: a loaded one unless one of its keys is
\* known by now, of the others their keys, one after the other.
Load ==
  /\ loading # <<>>
  /\ loading' = Tail(loading)
  /\ LET o == Head(loading).row
         r == report[o]
     IN  \/ /\ Head(loading).keep /\ ~KeysSeen(r)
            /\ events' = PushLeft(o)
            /\ \E s \in Orders(r) : Remembers(r.post, s)
         \/ /\ Head(loading).keep /\ KeysSeen(r)
            /\ UNCHANGED events
            /\ Remembers(r.post, seen)
         \/ /\ ~Head(loading).keep
            /\ UNCHANGED events
            /\ Remembers(r.post,
                         LET s == Remember(seen, TextKey(r), TextKey(r))
                         IN  Remember(s, IdKey(r.post), IdKey(r.post)))
  /\ UNCHANGED <<created, report, eid, meta, database, writes, merging, call, shown, calls, counters>>

-----------------------------------------------------------------------------
Incoming == {{}} \union {{f} : f \in Facts}

ThreadStep(t) == Rehydrate(t) \/ AppendReply(t) \/ Copy(t) \/ Put(t) \/ Broadcast(t)

Worker == PersistInsert \/ PersistMerge \/ PersistRepoint \/ PersistMetadata \/ PersistLocation

StoreNext ==
  \/ \E t \in Threads :
       \/ \E r \in Reports, m \in Incoming : AddNew(t, r, m) \/ AddDuplicate(t, r, m)
       \/ \E o \in Range(events), f \in Facts : UpdateMetadata(t, o, f)
       \/ \E o \in Range(events), f \in Locations : EnrichLocation(t, o, f)
       \/ \E id \in Objects, f \in Replies : Reply(t, id, f)
       \/ ThreadStep(t)
       \/ BroadcastRaises(t)
  \/ Worker
  \/ PersistFails
  \/ StoreRestart
  \/ Load

StoreSpec == StoreInit /\ [][StoreNext]_storeVars

\* The threads of a running process are scheduled and transactions end.
StoreFairness == WF_storeVars(Worker) /\ \A t \in Threads : WF_storeVars(ThreadStep(t))

StoreFairSpec == StoreSpec /\ StoreFairness

-----------------------------------------------------------------------------
(* Properties *)

\* A report has one row, however often its post is evicted, forgotten and
\* collected again, in this process or after a restart (_persist_sync).
OneRowPerItem == \A r, s \in rows : report[r] = report[s] => r = s

\* A post that was recorded is never raised as a second marker, under any
\* spelling of its source: every event of it in memory has the row's id.  This
\* holds until newer keys push the post's key out of the window, or a restart
\* reads the row back neither among the newest rows nor among the newest Alarm
\* Phone rows (load_from_db seeds the keys of those it does not load).
OneMarkerPerPost ==
  \A o \in Range(events), r \in rows : Post(o) = Post(r) => eid[o] = r \/ Post(r) \in forgotten

\* An event that entered the deque has a row in the end, unless its broadcast
\* or its write raised or the process was restarted before it.
Recorded ==
  \A o \in Objects, n \in 0 .. MaxRestarts :
    (o \in Range(events) /\ restarts = n)
      ~> (RowsOf(o) # {} \/ fails > 0 \/ restarts > n)

\* A caller that waits for its write is released, also when the write fails
\* (_persist_worker_loop).
WaiterReleased == \A t \in Threads : call[t].at = "wait" ~> call[t].at # "wait"

\* "Commit before broadcasting so a restart cannot leave a visible reply
\* attached only to an in-memory event" (append_thread_repost): with every
\* write through, what was broadcast is in its row.
ReplyDurable ==
  writes = <<>> /\ merging = None /\ (\A t \in Threads : call[t] = Idle) =>
    \A s \in shown : s[2] \in rowMeta[s[1]]

=============================================================================
