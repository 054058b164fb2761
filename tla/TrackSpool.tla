----------------------------- MODULE TrackSpool -----------------------------
(***************************************************************************)
(* The durable AIS ingest path: TrackStore.on_position writes every kept   *)
(* fix to a SQLite spool (core/vessels/track_spool.py) and a flush thread  *)
(* moves frozen batches of it to PostgreSQL (TrackStore._flush_spool,      *)
(* core/vessels/track_store.py).                                           *)
(*                                                                         *)
(* A fix is identified by the AUTOINCREMENT number the spool gives it.     *)
(* Durable state: the spool table and the PostgreSQL tables.  Volatile     *)
(* state: what one process knows (its counters, its throttle windows, the  *)
(* batch its flush thread holds); a crash erases it at any step.           *)
(* Workers is the set of processes that open the same spool file: one in   *)
(* the documented deployment, two in the case claim's BEGIN IMMEDIATE      *)
(* is there for.                                                           *)
(***************************************************************************)
EXTENDS Integers, FiniteSets

CONSTANTS
    Workers,     \* processes that opened the spool file
    Vessels,     \* MMSIs
    BatchIds,    \* supply of uuid4 batch ids, each handed out once
    None,        \* SQL NULL / Python None
    MaxSeq,      \* bound: spool rows ever inserted
    Limit,       \* claim's row limit (1000 in the code)
    Capacity,    \* max_payload_bytes, in rows of one size
    MaxCrashes   \* bound: process crashes

ASSUME TrackSpoolAssumptions ==
    /\ IsFiniteSet(Workers)
    /\ MaxSeq \in Nat
    /\ Limit \in Nat \ {0}
    /\ Capacity \in Nat
    /\ MaxCrashes \in Nat
    /\ None \notin BatchIds
    /\ \A S \in SUBSET (1 .. MaxSeq) : S # None

VARIABLES
    nextSeq,    \* next AUTOINCREMENT value of the spool table
    pending,    \* seqs of the rows in the spool table
    batchOf,    \* batch_id column of a row (kept after the row is deleted)
    vesselOf,   \* mmsi of the row with a given seq
    receipts,   \* vessel_track_ingest_batches: digest of a batch, or None
    pgRows,     \* vessel_tracks: copies of the fix with a given seq
    pc,         \* where the flush thread of a process is
    held,       \* the FrozenBatch it holds
    count,      \* _pending_count of a process
    throttled,  \* vessels whose _last_write_epoch is inside the interval
    crashes     \* process crashes so far

spool    == <<nextSeq, pending, batchOf, vesselOf>>
postgres == <<receipts, pgRows>>
vars     == <<spool, postgres, pc, held, count, throttled, crashes>>

Seqs      == 1 .. MaxSeq
Accepted  == 1 .. nextSeq - 1                 \* fixes the spool committed
NoBatch   == [id |-> None, rows |-> {}]
Frozen    == {s \in pending : batchOf[s] # None}
RowsOf(b) == {s \in pending : batchOf[s] = b}

\* The flush thread of w holds a batch.
Flushing(w) == pc[w] \in {"claimed", "insert", "ack"}

TypeOK ==
    /\ nextSeq \in 1 .. MaxSeq + 1
    /\ pending \subseteq Seqs
    /\ batchOf \in [Seqs -> BatchIds \cup {None}]
    /\ vesselOf \in [Seqs -> Vessels \cup {None}]
    /\ receipts \in [BatchIds -> (SUBSET Seqs) \cup {None}]
    /\ pgRows \in [Seqs -> Nat]
    /\ pc \in [Workers -> {"down", "idle", "claimed", "insert", "ack"}]
    /\ held \in [Workers -> [id : BatchIds \cup {None}, rows : SUBSET Seqs]]
    /\ count \in [Workers -> Int]
    /\ throttled \in [Workers -> SUBSET Vessels]
    /\ crashes \in 0 .. MaxCrashes
    /\ \A w \in Workers : Flushing(w) => held[w].id \in BatchIds

Init ==
    /\ nextSeq = 1
    /\ pending = {}
    /\ batchOf = [s \in Seqs |-> None]
    /\ vesselOf = [s \in Seqs |-> None]
    /\ receipts = [b \in BatchIds |-> None]
    /\ pgRows = [s \in Seqs |-> 0]
    /\ pc = [w \in Workers |-> "down"]
    /\ held = [w \in Workers |-> NoBatch]
    /\ count = [w \in Workers |-> 0]
    /\ throttled = [w \in Workers |-> {}]
    /\ crashes = 0

-----------------------------------------------------------------------------
(* Process life *)

\* Mutant: frozen rows are forgotten when the counter is rebuilt.
OpenCountsUnbatched(w) ==
    /\ pc[w] = "down"
    /\ pc' = [pc EXCEPT ![w] = "idle"]
    /\ count' = [count EXCEPT ![w] = Cardinality(pending \ Frozen)]
    /\ UNCHANGED <<spool, postgres, held, throttled, crashes>>

\* start / _ensure_spool: the counters are rebuilt from the table.
Open(w) ==
    /\ pc[w] = "down"
    /\ pc' = [pc EXCEPT ![w] = "idle"]
    /\ count' = [count EXCEPT ![w] = Cardinality(pending)]
    /\ UNCHANGED <<spool, postgres, held, throttled, crashes>>

\* The process dies between any two of its steps.
Crash(w) ==
    /\ pc[w] # "down"
    /\ crashes < MaxCrashes
    /\ crashes' = crashes + 1
    /\ pc' = [pc EXCEPT ![w] = "down"]
    /\ held' = [held EXCEPT ![w] = NoBatch]
    /\ count' = [count EXCEPT ![w] = 0]
    /\ throttled' = [throttled EXCEPT ![w] = {}]
    /\ UNCHANGED <<spool, postgres>>

-----------------------------------------------------------------------------
(* Ingest: TrackStore.on_position *)

\* Throttle: one row per vessel and interval, unless the fix is a signal
\* (the navigation status changed, or the vessel jumped).
Keep(w, v, signal) == v \notin throttled[w] \/ signal

\* The spool commits the row; only then is the fix accepted and the throttle
\* window opened.
OnPosition(w, v, signal) ==
    /\ pc[w] # "down"
    /\ Keep(w, v, signal)
    /\ nextSeq <= MaxSeq
    /\ count[w] + 1 <= Capacity
    /\ pending' = pending \cup {nextSeq}
    /\ vesselOf' = [vesselOf EXCEPT ![nextSeq] = v]
    /\ nextSeq' = nextSeq + 1
    /\ count' = [count EXCEPT ![w] = @ + 1]
    /\ throttled' = [throttled EXCEPT ![w] = @ \cup {v}]
    /\ UNCHANGED <<batchOf, postgres, pc, held, crashes>>

\* Mutant: the throttle window opens before the spool has the row.
RejectedButThrottled(w, v, signal) ==
    /\ pc[w] # "down"
    /\ Keep(w, v, signal)
    /\ throttled' = [throttled EXCEPT ![w] = @ \cup {v}]
    /\ UNCHANGED <<spool, postgres, pc, held, count, crashes>>

\* The spool is full, the disk reserve is reached or SQLite fails:
\* TrackSpoolFull is raised to the caller, the fix is not accepted and the
\* window stays as it was.
OnPositionRejected(w, v, signal) ==
    /\ pc[w] # "down"
    /\ Keep(w, v, signal)
    /\ UNCHANGED vars

\* VESSEL_TRACK_MIN_INTERVAL_S passed since the last write of v.
IntervalElapses(w, v) ==
    /\ v \in throttled[w]
    /\ throttled' = [throttled EXCEPT ![w] = @ \ {v}]
    /\ UNCHANGED <<spool, postgres, pc, held, count, crashes>>

-----------------------------------------------------------------------------
(* Flush: claim, PostgreSQL transaction, acknowledge *)

\* Mutant: the newest rows first.
Newest(S) == {s \in S : Cardinality({t \in S : t >= s}) <= Limit}

\* The rows claim freezes: the Limit unbatched rows with the lowest seqs.
Oldest(S) == {s \in S : Cardinality({t \in S : t <= s}) <= Limit}

\* Mutant: a retry fills the batch up with rows that arrived meanwhile.
ReClaimToppedUp(w) ==
    /\ pc[w] = "idle"
    /\ Frozen # {}
    /\ LET b == batchOf[CHOOSE s \in Frozen : TRUE]
       IN  /\ batchOf' = [s \in Seqs |->
                             IF s \in Oldest(pending) THEN b ELSE batchOf[s]]
           /\ held' = [held EXCEPT ![w] = [id |-> b, rows |-> Oldest(pending)]]
    /\ pc' = [pc EXCEPT ![w] = "claimed"]
    /\ UNCHANGED <<nextSeq, pending, vesselOf, postgres, count, throttled,
                   crashes>>

\* An existing frozen batch takes precedence over a new one.
ReClaim(w) ==
    /\ pc[w] = "idle"
    /\ \E first \in Frozen :
          /\ \A s \in Frozen : first <= s
          /\ held' = [held EXCEPT ![w] = [id   |-> batchOf[first],
                                          rows |-> RowsOf(batchOf[first])]]
    /\ pc' = [pc EXCEPT ![w] = "claimed"]
    /\ UNCHANGED <<spool, postgres, count, throttled, crashes>>

\* A uuid that nothing carries yet.
FreshId(b) ==
    /\ receipts[b] = None
    /\ \A s \in Seqs : batchOf[s] # b
    /\ \A u \in Workers : held[u].id # b

Claim(w) ==
    /\ pc[w] = "idle"
    /\ Frozen = {}
    /\ pending # {}
    /\ \E b \in BatchIds :
          /\ FreshId(b)
          /\ batchOf' = [s \in Seqs |->
                            IF s \in Oldest(pending) THEN b ELSE batchOf[s]]
          /\ held' = [held EXCEPT ![w] = [id |-> b, rows |-> Oldest(pending)]]
    /\ pc' = [pc EXCEPT ![w] = "claimed"]
    /\ UNCHANGED <<nextSeq, pending, vesselOf, postgres, count, throttled,
                   crashes>>

\* Mutant: a receipt that already exists is an error.
ReadReceiptOnce(w) ==
    /\ pc[w] = "claimed"
    /\ LET free == receipts[held[w].id] = None
       IN  pc' = [pc EXCEPT ![w] = IF free THEN "insert" ELSE "idle"]
    /\ UNCHANGED <<spool, postgres, held, count, throttled, crashes>>

\* The transaction looks for the receipt.  A receipt of the same digest means
\* the batch is already stored: nothing is inserted and the batch is
\* acknowledged.
ReadReceipt(w) ==
    /\ pc[w] = "claimed"
    /\ LET r == receipts[held[w].id]
       IN  pc' = [pc EXCEPT ![w] = IF r = None THEN "insert"
                                   ELSE IF r = held[w].rows THEN "ack"
                                   ELSE "idle"]
    /\ UNCHANGED <<spool, postgres, held, count, throttled, crashes>>

\* Mutant: the receipt has no unique key.
CommitNoKey(w) ==
    /\ pc[w] = "insert"
    /\ receipts' = [receipts EXCEPT ![held[w].id] = held[w].rows]
    /\ pgRows' = [s \in Seqs |->
                     IF s \in held[w].rows THEN pgRows[s] + 1 ELSE pgRows[s]]
    /\ pc' = [pc EXCEPT ![w] = "ack"]
    /\ UNCHANGED <<spool, held, count, throttled, crashes>>

\* Mutant: rows are committed without their receipt.
CommitNoReceipt(w) ==
    /\ pc[w] = "insert"
    /\ pgRows' = [s \in Seqs |->
                     IF s \in held[w].rows THEN pgRows[s] + 1 ELSE pgRows[s]]
    /\ pc' = [pc EXCEPT ![w] = "ack"]
    /\ UNCHANGED <<spool, receipts, held, count, throttled, crashes>>

\* Rows and receipt commit together; batch_id is the receipt's primary key, so
\* the transaction of a second process cannot commit the same batch.  A
\* client that loses the answer to the commit takes FlushError next.
Commit(w) ==
    /\ pc[w] = "insert"
    /\ receipts[held[w].id] = None
    /\ receipts' = [receipts EXCEPT ![held[w].id] = held[w].rows]
    /\ pgRows' = [s \in Seqs |->
                     IF s \in held[w].rows THEN pgRows[s] + 1 ELSE pgRows[s]]
    /\ pc' = [pc EXCEPT ![w] = "ack"]
    /\ UNCHANGED <<spool, held, count, throttled, crashes>>

\* Any exception of the flush (database down, primary key conflict, ...):
\* rolled back, the batch stays in the spool.
FlushError(w) ==
    /\ Flushing(w)
    /\ pc' = [pc EXCEPT ![w] = "idle"]
    /\ UNCHANGED <<spool, postgres, held, count, throttled, crashes>>

\* acknowledge deletes the batch, or raises when the rows it finds are not as
\* many as the batch had.
Acknowledge(w) ==
    /\ pc[w] = "ack"
    /\ Cardinality(RowsOf(held[w].id)) = Cardinality(held[w].rows)
    /\ pending' = pending \ RowsOf(held[w].id)
    /\ count' = [count EXCEPT ![w] = @ - Cardinality(held[w].rows)]
    /\ pc' = [pc EXCEPT ![w] = "idle"]
    /\ UNCHANGED <<nextSeq, batchOf, vesselOf, postgres, held, throttled,
                   crashes>>

-----------------------------------------------------------------------------
Flush(w) == \/ ReClaim(w) \/ Claim(w) \/ ReadReceipt(w) \/ Commit(w)
            \/ FlushError(w) \/ Acknowledge(w)

Ingest(w, v) == \/ \E signal \in BOOLEAN : \/ OnPosition(w, v, signal)
                                           \/ OnPositionRejected(w, v, signal)
                \/ IntervalElapses(w, v)

Next == \E w \in Workers :
            \/ Open(w)
            \/ Crash(w)
            \/ Flush(w)
            \/ \E v \in Vessels : Ingest(w, v)

Spec == Init /\ [][Next]_vars

\* The supervisor restarts a dead process, the flush loop never stops
\* (_flush_loop catches every exception), and PostgreSQL and SQLite do not
\* fail for ever: a step that is possible again and again is not made to fail
\* again and again.
Fairness == \A w \in Workers :
    /\ WF_vars(Open(w))
    /\ SF_vars(ReClaim(w) \/ Claim(w))
    /\ SF_vars(ReadReceipt(w))
    /\ SF_vars(Commit(w))
    /\ SF_vars(Acknowledge(w))

FairSpec == Spec /\ Fairness

-----------------------------------------------------------------------------
(* Properties *)

\* No accepted fix is lost and none is stored twice: whatever crashes, lost
\* commit answers and competing processes do, a committed spool row is in
\* PostgreSQL exactly once or still waits in the spool, and a row leaves the
\* spool only when it is in PostgreSQL (the docstring of _flush_spool).
ExactlyOnce ==
    \A s \in Seqs :
        /\ pgRows[s] <= 1
        /\ s \in Accepted \ pending => pgRows[s] = 1
        /\ s \notin Accepted => pgRows[s] = 0

\* "Retries always return the identical row set" (claim): the batch a flush
\* thread works on is, row for row, what a receipt of its id records, so the
\* integrity-mismatch error of _flush_spool cannot be raised.
ReceiptsMatch ==
    \A w \in Workers : Flushing(w) =>
        receipts[held[w].id] \in {None, held[w].rows}

\* One batch is frozen at a time, also when two processes claim: they cannot
\* invent different batch ids for the rows of the spool (claim).
OneFrozenBatch == \A s, t \in Frozen : batchOf[s] = batchOf[t]

\* The history is stored in acceptance order: a stored fix has no older fix
\* that is still missing, so a reader never sees a hole that fills later.
StoredInOrder ==
    \A s, t \in Seqs : t < s /\ pgRows[s] > 0 => pgRows[t] > 0

\* A throttle window is open only behind a durable row of that vessel: a fix
\* the spool rejected never suppresses the fixes that follow it (on_position).
ThrottleBacked ==
    \A w \in Workers : \A v \in throttled[w] :
        \E s \in Accepted : vesselOf[s] = v /\ (s \in pending \/ pgRows[s] = 1)

\* With one process the in-memory counter is the table's row count after any
\* history of failed flushes and restarts, so the capacity limit is enforced
\* on what the spool really holds.
CounterExact ==
    Cardinality(Workers) = 1 => \A w \in Workers :
        pc[w] # "down" =>
            /\ count[w] = Cardinality(pending)
            /\ Cardinality(pending) <= Capacity

\* Every accepted fix leaves the spool for PostgreSQL in the end.
Delivered == \A s \in Seqs : s \in pending ~> (s \notin pending /\ pgRows[s] = 1)

History == INSTANCE TrackHistory
              WITH accepted <- nextSeq - 1, history <- pgRows

\* The spool, with its crashes and retries, implements the history of
\* TrackHistory.
ImplementsHistory == History!Spec
=============================================================================
