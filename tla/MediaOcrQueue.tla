--------------------------- MODULE MediaOcrQueue ---------------------------
(***************************************************************************)
(* The bounded pool for media-OCR jobs                                     *)
(* (apps/api/core/intel/media_ocr_queue.py): threads of the collectors     *)
(* submit jobs by key, a fixed pool runs them, a second backlog holds the  *)
(* overflow, and the API's shutdown hook closes the queue.                 *)
(*                                                                         *)
(* submit tests _closed and builds the executor before it takes the lock,  *)
(* so it is three steps; everything under the lock is one.  The            *)
(* ThreadPoolExecutor is external: a FIFO of futures and its threads.      *)
(* reset() is for tests and is not modelled.                               *)
(***************************************************************************)
EXTENDS Integers, FiniteSets, Sequences, Functions

CONSTANTS Jobs,        \* job keys
          Submitters,  \* threads that call submit
          Workers,     \* threads of the executor: MEDIA_OCR_WORKERS
          MaxSize,     \* MEDIA_OCR_QUEUE_MAXSIZE
          MaxSubmits,  \* bound on calls of submit
          CanShutdown, \* whether the shutdown hook runs in this instance
          None

ASSUME QueueAssumption ==
  /\ MaxSize \in Nat \ {0} /\ MaxSubmits \in Nat
  /\ CanShutdown \in BOOLEAN
  /\ None \notin Jobs /\ None \notin Submitters

VARIABLES
  closed,     \* _closed
  executor,   \* whether _executor is set
  holder,     \* the thread that holds _lock across steps, or None
  pending,    \* keys of _pending
  inflight,   \* _inflight
  deferred,   \* _deferred, as keys
  futures,    \* external: work queue of the current executor
  orphans,    \* external: work queue of the executor that is shut down
  work,       \* external: what each worker thread has taken, and whether it
              \* has reported so under the lock
  call,       \* per submitter: where it is in submit, and the job
  submits,    \* calls so far
  down        \* shutdown: "no", "marked" (lock released), "done"

vars == <<closed, executor, holder, pending, inflight, deferred, futures, orphans,
          work, call, submits, down>>
books == <<pending, inflight, deferred>>

Free == [at |-> "idle", job |-> None]

TypeOK ==
  /\ closed \in BOOLEAN /\ executor \in BOOLEAN
  /\ holder \in Submitters \union {None}
  /\ pending \subseteq Jobs /\ inflight \subseteq Jobs
  /\ deferred \in Seq(Jobs) /\ Len(deferred) <= MaxSize
  /\ futures \in Seq(Jobs) /\ orphans \in Seq(Jobs)
  /\ work \in [Workers -> [at : {"idle", "taken", "running"}, job : Jobs \union {None}]]
  /\ call \in [Submitters -> [at : {"idle", "checked", "ready", "stuck"}, job : Jobs \union {None}]]
  /\ submits \in 0 .. MaxSubmits
  /\ down \in {"no", "marked", "done"}

Init ==
  /\ closed = FALSE /\ executor = FALSE /\ holder = None
  /\ pending = {} /\ inflight = {} /\ deferred = <<>>
  /\ futures = <<>> /\ orphans = <<>>
  /\ work = [w \in Workers |-> Free]
  /\ call = [t \in Submitters |-> Free]
  /\ submits = 0
  /\ down = "no"

-----------------------------------------------------------------------------
(* submit *)

Active == Cardinality(pending) + Cardinality(inflight)

\* Mutant: the second backlog is not searched.
IsKnownExceptDeferred(k) == k \in pending \/ k \in inflight

IsKnown(k) == k \in pending \/ k \in inflight \/ k \in Range(deferred)

\* submit is entered: the unlocked test of _closed.
Submit(t, k) ==
  /\ call[t].at = "idle"
  /\ submits < MaxSubmits
  /\ submits' = submits + 1
  /\ call' = [call EXCEPT ![t] = IF closed THEN Free ELSE [at |-> "checked", job |-> k]]
  /\ UNCHANGED <<closed, executor, holder, books, futures, orphans, work, down>>

\* _ensure_executor, called without the lock: takes it only when there is no
\* executor yet.
EnsureExecutor(t) ==
  /\ call[t].at = "checked"
  /\ executor \/ holder = None
  /\ executor' = TRUE
  /\ call' = [call EXCEPT ![t].at = "ready"]
  /\ UNCHANGED <<closed, holder, books, futures, orphans, work, submits, down>>

Return(t) == call' = [call EXCEPT ![t] = Free]

\* Under the lock, a known key or two full backlogs: nothing is stored.
SubmitRejected(t) ==
  LET k == call[t].job
  IN  /\ call[t].at = "ready"
      /\ holder = None
      /\ IsKnown(k) \/ (Active >= MaxSize /\ Len(deferred) >= MaxSize)
      /\ Return(t)
      /\ UNCHANGED <<closed, executor, holder, books, futures, orphans, work, submits, down>>

\* Under the lock, room in the pool: _enqueue_locked.
SubmitQueued(t) ==
  LET k == call[t].job
  IN  /\ call[t].at = "ready"
      /\ holder = None
      /\ ~IsKnown(k) /\ Active < MaxSize
      /\ executor
      /\ pending' = pending \union {k}
      /\ futures' = Append(futures, k)
      /\ Return(t)
      /\ UNCHANGED <<closed, executor, holder, inflight, deferred, orphans, work, submits, down>>

\* The same when shutdown took the executor away in between: _enqueue_locked
\* calls _ensure_executor, which waits for the lock its own thread holds.
SubmitStuck(t) ==
  LET k == call[t].job
  IN  /\ call[t].at = "ready"
      /\ holder = None
      /\ ~IsKnown(k) /\ Active < MaxSize
      /\ ~executor
      /\ pending' = pending \union {k}
      /\ holder' = t
      /\ call' = [call EXCEPT ![t].at = "stuck"]
      /\ UNCHANGED <<closed, executor, inflight, deferred, futures, orphans, work, submits, down>>

\* Under the lock, the pool is full: the second backlog.
SubmitDeferred(t) ==
  LET k == call[t].job
  IN  /\ call[t].at = "ready"
      /\ holder = None
      /\ ~IsKnown(k) /\ Active >= MaxSize /\ Len(deferred) < MaxSize
      /\ deferred' = Append(deferred, k)
      /\ Return(t)
      /\ UNCHANGED <<closed, executor, holder, pending, inflight, futures, orphans, work, submits, down>>

-----------------------------------------------------------------------------
(* The worker threads *)

\* external: an idle worker takes the oldest future.
Take(w) ==
  /\ work[w] = Free
  /\ \/ /\ futures # <<>>
        /\ work' = [work EXCEPT ![w] = [at |-> "taken", job |-> Head(futures)]]
        /\ futures' = Tail(futures)
        /\ UNCHANGED orphans
     \/ /\ orphans # <<>>
        /\ work' = [work EXCEPT ![w] = [at |-> "taken", job |-> Head(orphans)]]
        /\ orphans' = Tail(orphans)
        /\ UNCHANGED futures
  /\ UNCHANGED <<closed, executor, holder, books, call, submits, down>>

\* _run: the job moves from pending to in flight; then fn runs.
Run(w) ==
  /\ work[w].at = "taken"
  /\ holder = None
  /\ pending' = pending \ {work[w].job}
  /\ inflight' = inflight \union {work[w].job}
  /\ work' = [work EXCEPT ![w].at = "running"]
  /\ UNCHANGED <<closed, executor, holder, deferred, futures, orphans, call, submits, down>>

\* Whether _drain_one_deferred_locked hands a deferred job to the pool once
\* only left is in flight.
Drained(left) == deferred # <<>> /\ Cardinality(pending) + Cardinality(left) < MaxSize

\* Mutant: the finished job stays in flight.
FinishForgettingSlot(w) ==
  LET left == inflight
  IN  /\ work[w].at = "running"
      /\ holder = None
      /\ work' = [work EXCEPT ![w] = Free]
      /\ inflight' = left
      /\ \/ /\ ~closed /\ Drained(left)
            /\ pending' = pending \union {Head(deferred)}
            /\ futures' = Append(futures, Head(deferred))
            /\ deferred' = Tail(deferred)
         \/ /\ closed \/ ~Drained(left)
            /\ UNCHANGED <<pending, deferred, futures>>
      /\ UNCHANGED <<closed, executor, holder, orphans, call, submits, down>>

\* Mutant: the freed slot is not refilled.
FinishWithoutDrain(w) ==
  /\ work[w].at = "running"
  /\ holder = None
  /\ work' = [work EXCEPT ![w] = Free]
  /\ inflight' = inflight \ {work[w].job}
  /\ UNCHANGED <<closed, executor, holder, pending, deferred, futures, orphans, call, submits, down>>

\* fn is over, by itself or by an exception: _run's finally frees the slot and
\* drains one deferred job into it.  A deferred key is never pending or in
\* flight, so the loop's skip does not occur.
Finish(w) ==
  LET left == inflight \ {work[w].job}
  IN  /\ work[w].at = "running"
      /\ holder = None
      /\ work' = [work EXCEPT ![w] = Free]
      /\ inflight' = left
      /\ \/ /\ ~closed /\ Drained(left)
            /\ pending' = pending \union {Head(deferred)}
            /\ futures' = Append(futures, Head(deferred))
            /\ deferred' = Tail(deferred)
         \/ /\ closed \/ ~Drained(left)
            /\ UNCHANGED <<pending, deferred, futures>>
      /\ UNCHANGED <<closed, executor, holder, orphans, call, submits, down>>

-----------------------------------------------------------------------------
(* shutdown *)

\* The part under the lock.
ShutdownMark ==
  /\ CanShutdown
  /\ down = "no"
  /\ holder = None
  /\ closed' = TRUE
  /\ executor' = FALSE
  /\ pending' = {}
  /\ deferred' = <<>>
  /\ orphans' = futures
  /\ futures' = <<>>
  /\ down' = "marked"
  /\ UNCHANGED <<holder, inflight, work, call, submits>>

\* executor.shutdown(wait=False, cancel_futures=True), outside the lock.
ShutdownCancel ==
  /\ down = "marked"
  /\ orphans' = <<>>
  /\ down' = "done"
  /\ UNCHANGED <<closed, executor, holder, books, futures, work, call, submits>>

SubmitStep(t) ==
  \/ EnsureExecutor(t)
  \/ SubmitRejected(t)
  \/ SubmitQueued(t)
  \/ SubmitDeferred(t)

WorkerStep(w) == Take(w) \/ Run(w) \/ Finish(w)

Next ==
  \/ \E t \in Submitters : (\E k \in Jobs : Submit(t, k)) \/ SubmitStep(t) \/ SubmitStuck(t)
  \/ \E w \in Workers : WorkerStep(w)
  \/ ShutdownMark
  \/ ShutdownCancel

Spec == Init /\ [][Next]_vars

\* Threads of a running process are scheduled, and fn returns: the OCR
\* subprocesses have timeouts.
Fairness ==
  /\ \A t \in Submitters : WF_vars(SubmitStep(t))
  /\ \A w \in Workers : WF_vars(WorkerStep(w))
  /\ WF_vars(ShutdownCancel)

FairSpec == Spec /\ Fairness

-----------------------------------------------------------------------------
(* Properties *)

\* A job is in one place at most: in a work queue, with one worker, or
\* deferred.  Two threads submitting the same event never make it run twice at
\* a time (dedup by key under the lock, while nothing was shut down).
OneRunPerJob ==
  down = "no" =>
    \A k \in Jobs :
      Cardinality({n \in 1 .. Len(futures) : futures[n] = k})
        + Cardinality({w \in Workers : work[w].job = k})
        + Cardinality({n \in 1 .. Len(deferred) : deferred[n] = k}) <= 1

\* The books agree with the executor: pending are the queued jobs and the taken
\* ones, in flight the running ones; no key is left behind to block its event's
\* next job for ever.
BooksBalance ==
  down = "no" =>
    /\ pending = Range(futures) \union {work[w].job : w \in {x \in Workers : work[x].at = "taken"}}
    /\ inflight = {work[w].job : w \in {x \in Workers : work[x].at = "running"}}

\* Every job the queue took is over in the end, or the queue was shut down.
Finishes ==
  \A k \in Jobs : IsKnown(k) ~> (~IsKnown(k) \/ closed)

=============================================================================
