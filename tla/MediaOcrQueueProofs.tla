------------------------ MODULE MediaOcrQueueProofs ------------------------
(***************************************************************************)
(* The media-OCR queue for any set of jobs, any number of submitting       *)
(* threads and workers, and any size of its backlogs.                      *)
(*                                                                         *)
(* What the lock protects are three books (_pending, _inflight,            *)
(* _deferred); what runs is decided by the executor, which the books only  *)
(* mirror.  Places says that the mirror is exact and that no job has two   *)
(* places; Open says why nothing but shutdown breaks it: until then the    *)
(* executor a submitter has seen is still there when it gets the lock.     *)
(***************************************************************************)
EXTENDS MediaOcrQueue, FiniteSetTheorems, TLAPS

Distinct(s) == \A i, j \in 1 .. Len(s) : s[i] = s[j] => i = j

\* Whoever is at work, in submit or in a worker, has a job.
JobsKnown ==
  /\ \A t \in Submitters : call[t].at # "idle" => call[t].job \in Jobs
  /\ \A w \in Workers : work[w].at = "idle" <=> work[w].job = None

\* Until shutdown a thread past _ensure_executor finds the executor, so that
\* nobody keeps the lock, and no executor was left behind.
Open ==
  down = "no" =>
    /\ ~closed /\ holder = None /\ orphans = <<>>
    /\ \A t \in Submitters : call[t].at = "ready" => executor

\* Every job has one place at most, and the books say which.
Places ==
  /\ Distinct(futures) /\ Distinct(deferred)
  /\ \A v, w \in Workers : work[v].at # "idle" /\ work[v].job = work[w].job => v = w
  /\ \A w \in Workers : work[w].job \notin Range(futures)
  /\ \A k \in Jobs : k \in Range(deferred) => k \notin pending /\ k \notin inflight
  /\ \A k \in Jobs : k \in pending <=>
       k \in Range(futures) \/ \E w \in Workers : work[w].at = "taken" /\ work[w].job = k
  /\ \A k \in Jobs : k \in inflight <=>
       \E w \in Workers : work[w].at = "running" /\ work[w].job = k

\* shutdown clears the books while jobs are running, and ends that.
Placed == down = "no" => Places

IndInv == TypeOK /\ JobsKnown /\ Open /\ Placed

-----------------------------------------------------------------------------
(* Sequences *)

\* What a sequence holds is what it has at its places.
LEMMA RangeOfSeq ==
  ASSUME NEW S, NEW s \in Seq(S), NEW k \in S
  PROVE  k \in Range(s) <=> \E i \in 1 .. Len(s) : s[i] = k
BY DEF Range

\* It holds nothing but elements of its set.
LEMMA RangeType ==
  ASSUME NEW S, NEW s \in Seq(S)
  PROVE  Range(s) \subseteq S
BY DEF Range

\* The empty backlog.
LEMMA EmptySeq ==
  ASSUME NEW S
  PROVE  <<>> \in Seq(S) /\ Len(<<>>) = 0 /\ Range(<<>>) = {}
BY DEF Range

\* A set with no two elements has at most one.
LEMMA AtMostOne ==
  ASSUME NEW S, \A x, y \in S : x = y
  PROVE  /\ Cardinality(S) \in {0, 1}
         /\ S = {} => Cardinality(S) = 0
<1>1. CASE S = {}
  BY <1>1, FS_EmptySet
<1>2. CASE S # {}
  <2>1. PICK x \in S : TRUE
    BY <1>2
  <2>2. S = {x}
    BY <2>1
  <2> QED
    BY <1>2, <2>2, FS_Singleton
<1> QED
  BY <1>1, <1>2

\* append of _enqueue_locked: one more at the end; a new key keeps the keys
\* distinct.
LEMMA AppendFacts ==
  ASSUME NEW S, NEW s \in Seq(S), NEW k \in S
  PROVE  /\ Append(s, k) \in Seq(S)
         /\ Len(Append(s, k)) = Len(s) + 1
         /\ \A x \in S : x \in Range(Append(s, k)) <=> x \in Range(s) \/ x = k
         /\ Distinct(s) /\ k \notin Range(s) => Distinct(Append(s, k))
<1> DEFINE a == Append(s, k)
<1>1. /\ a \in Seq(S)
      /\ Len(a) = Len(s) + 1
      /\ a[Len(s) + 1] = k
      /\ \A i \in 1 .. Len(s) : a[i] = s[i]
      /\ Len(s) \in Nat
  OBVIOUS
<1> HIDE DEF a
<1>2. \A x \in S : x \in Range(a) <=> x \in Range(s) \/ x = k
  <2>1. ASSUME NEW x \in S, x \in Range(a) PROVE x \in Range(s) \/ x = k
    <3>1. PICK i \in 1 .. Len(s) + 1 : a[i] = x
      BY <1>1, <2>1, RangeOfSeq
    <3>2. i = Len(s) + 1 \/ i \in 1 .. Len(s)
      BY <1>1
    <3> QED
      BY <1>1, <3>1, <3>2, RangeOfSeq
  <2>2. ASSUME NEW x \in S, x \in Range(s) \/ x = k PROVE x \in Range(a)
    <3>1. x = k => Len(s) + 1 \in 1 .. Len(a)
      BY <1>1
    <3>2. x \in Range(s) => \E i \in 1 .. Len(s) : s[i] = x
      BY RangeOfSeq
    <3>3. 1 .. Len(s) \subseteq 1 .. Len(a)
      BY <1>1
    <3> QED
      BY <1>1, <2>2, <3>1, <3>2, <3>3, RangeOfSeq
  <2> QED
    BY <2>1, <2>2
<1>3. Distinct(s) /\ k \notin Range(s) => Distinct(a)
  <2> SUFFICES ASSUME Distinct(s), k \notin Range(s),
                      NEW i \in 1 .. Len(s) + 1, NEW j \in 1 .. Len(s) + 1,
                      a[i] = a[j]
               PROVE  i = j
    BY <1>1 DEF Distinct
  <2>1. \A n \in 1 .. Len(s) : s[n] # k
    BY RangeOfSeq
  <2>2. /\ i = Len(s) + 1 \/ i \in 1 .. Len(s)
        /\ j = Len(s) + 1 \/ j \in 1 .. Len(s)
    BY <1>1
  <2> QED
    BY <1>1, <2>1, <2>2 DEF Distinct
<1> QED
  BY <1>1, <1>2, <1>3 DEF a

\* popleft: the first one leaves; of distinct keys no copy stays.
LEMMA TailFacts ==
  ASSUME NEW S, NEW s \in Seq(S), s # <<>>
  PROVE  /\ Head(s) \in S /\ Tail(s) \in Seq(S)
         /\ Len(Tail(s)) <= Len(s)
         /\ Head(s) \in Range(s)
         /\ \A x \in S : x \in Range(Tail(s)) => x \in Range(s)
         /\ \A x \in S : x \in Range(s) => x = Head(s) \/ x \in Range(Tail(s))
         /\ Distinct(s) => Distinct(Tail(s)) /\ Head(s) \notin Range(Tail(s))
<1> DEFINE t == Tail(s)
<1>1. /\ Head(s) = s[1] /\ t \in Seq(S)
      /\ Len(s) \in Nat \ {0}
      /\ Len(t) = Len(s) - 1
      /\ \A i \in 1 .. Len(s) - 1 : t[i] = s[i + 1]
  OBVIOUS
<1> HIDE DEF t
<1>2. Head(s) \in S /\ Head(s) \in Range(s)
  <2>1. 1 \in 1 .. Len(s)
    BY <1>1
  <2> QED
    BY <1>1, <2>1, RangeOfSeq
<1>3. ASSUME NEW x \in S, x \in Range(t)
      PROVE  \E i \in 1 .. Len(s) : i # 1 /\ s[i] = x
  <2>1. PICK i \in 1 .. Len(s) - 1 : t[i] = x
    BY <1>1, <1>3, RangeOfSeq
  <2>2. i + 1 \in 1 .. Len(s) /\ i + 1 # 1
    BY <1>1
  <2> QED
    BY <1>1, <2>1, <2>2
<1>4. ASSUME NEW x \in S, x \in Range(s) PROVE x = Head(s) \/ x \in Range(t)
  <2>1. PICK i \in 1 .. Len(s) : s[i] = x
    BY <1>4, RangeOfSeq
  <2>2. CASE i = 1
    BY <1>1, <2>1, <2>2
  <2>3. CASE i # 1
    <3>1. i - 1 \in 1 .. Len(s) - 1 /\ (i - 1) + 1 = i
      BY <1>1, <2>3
    <3>2. t[i - 1] = x
      BY <1>1, <2>1, <3>1
    <3> QED
      BY <1>1, <3>1, <3>2, RangeOfSeq
  <2> QED
    BY <2>2, <2>3
<1>5. Distinct(s) => Head(s) \notin Range(t)
  BY <1>1, <1>3 DEF Distinct
<1>6. Distinct(s) => Distinct(t)
  <2> SUFFICES ASSUME Distinct(s),
                      NEW i \in 1 .. Len(s) - 1, NEW j \in 1 .. Len(s) - 1,
                      t[i] = t[j]
               PROVE  i = j
    BY <1>1 DEF Distinct
  <2>1. i + 1 \in 1 .. Len(s) /\ j + 1 \in 1 .. Len(s)
    BY <1>1
  <2>2. i + 1 = j + 1
    BY <1>1, <2>1 DEF Distinct
  <2> QED
    BY <2>2
<1> QED
  BY <1>1, <1>2, <1>3, <1>4, <1>5, <1>6, RangeOfSeq DEF t

-----------------------------------------------------------------------------
(* The invariant *)

\* The initial state.
LEMMA InitInd == Init => IndInv
<1> SUFFICES ASSUME Init PROVE IndInv
  OBVIOUS
<1>1. TypeOK
  <2>1. deferred \in Seq(Jobs) /\ futures \in Seq(Jobs) /\ orphans \in Seq(Jobs)
    BY EmptySeq DEF Init
  <2>2. Len(deferred) <= MaxSize
    BY EmptySeq, QueueAssumption DEF Init
  <2>3. /\ pending \subseteq Jobs /\ inflight \subseteq Jobs
        /\ submits \in 0 .. MaxSubmits
    BY QueueAssumption DEF Init
  <2>4. /\ work \in [Workers -> [at : {"idle", "taken", "running"}, job : Jobs \union {None}]]
        /\ call \in [Submitters -> [at : {"idle", "checked", "ready", "stuck"}, job : Jobs \union {None}]]
    BY DEF Init, Free
  <2> QED
    BY <2>1, <2>2, <2>3, <2>4 DEF Init, TypeOK
<1>2. JobsKnown /\ Open
  BY DEF Init, JobsKnown, Open, Free
<1>3. /\ Range(futures) = {} /\ Range(deferred) = {}
      /\ Distinct(futures) /\ Distinct(deferred)
  BY EmptySeq DEF Init, Distinct
<1>4. Placed
  BY <1>3 DEF Init, Placed, Places, Free
<1> QED
  BY <1>1, <1>2, <1>4 DEF IndInv

\* The sequences of a typed state, step by step.
LEMMA QueueTypes ==
  ASSUME TypeOK
  PROVE  /\ \A k \in Jobs :
              /\ Append(futures, k) \in Seq(Jobs) /\ Append(deferred, k) \in Seq(Jobs)
              /\ Len(Append(deferred, k)) = Len(deferred) + 1
         /\ futures # <<>> => Head(futures) \in Jobs /\ Tail(futures) \in Seq(Jobs)
         /\ orphans # <<>> => Head(orphans) \in Jobs /\ Tail(orphans) \in Seq(Jobs)
         /\ deferred # <<>> =>
              /\ Head(deferred) \in Jobs /\ Tail(deferred) \in Seq(Jobs)
              /\ Len(Tail(deferred)) <= Len(deferred)
         /\ Len(deferred) \in Nat
<1>1. futures \in Seq(Jobs) /\ deferred \in Seq(Jobs) /\ orphans \in Seq(Jobs)
  BY DEF TypeOK
<1> QED
  BY <1>1, AppendFacts, TailFacts

\* Every step keeps the types, and whoever is at work has a job.
LEMMA TypeStep == TypeOK /\ JobsKnown /\ [Next]_vars => TypeOK' /\ JobsKnown'
<1> SUFFICES ASSUME TypeOK, JobsKnown, [Next]_vars PROVE TypeOK' /\ JobsKnown'
  OBVIOUS
<1> USE QueueAssumption, QueueTypes DEF TypeOK, JobsKnown, books
<1>1. ASSUME NEW t \in Submitters, NEW k \in Jobs, Submit(t, k) PROVE TypeOK' /\ JobsKnown'
  BY <1>1 DEF Submit, Free
<1>2. ASSUME NEW t \in Submitters, EnsureExecutor(t) PROVE TypeOK' /\ JobsKnown'
  BY <1>2 DEF EnsureExecutor
<1>3. ASSUME NEW t \in Submitters, SubmitRejected(t) PROVE TypeOK' /\ JobsKnown'
  BY <1>3 DEF SubmitRejected, Return, Free
<1>4. ASSUME NEW t \in Submitters, SubmitQueued(t) PROVE TypeOK' /\ JobsKnown'
  BY <1>4 DEF SubmitQueued, Return, Free
<1>5. ASSUME NEW t \in Submitters, SubmitDeferred(t) PROVE TypeOK' /\ JobsKnown'
  BY <1>5 DEF SubmitDeferred, Return, Free
<1>6. ASSUME NEW t \in Submitters, SubmitStuck(t) PROVE TypeOK' /\ JobsKnown'
  BY <1>6 DEF SubmitStuck
<1>7. ASSUME NEW w \in Workers, Take(w) PROVE TypeOK' /\ JobsKnown'
  <2>1. PICK h \in Jobs :
          /\ work' = [work EXCEPT ![w] = [at |-> "taken", job |-> h]]
          /\ futures' \in Seq(Jobs) /\ orphans' \in Seq(Jobs)
    BY <1>7 DEF Take
  <2>2. UNCHANGED <<closed, executor, holder, books, call, submits, down>>
    BY <1>7 DEF Take
  <2> QED
    BY <2>1, <2>2
<1>8. ASSUME NEW w \in Workers, Run(w) PROVE TypeOK' /\ JobsKnown'
  BY <1>8 DEF Run
<1>9. ASSUME NEW w \in Workers, Finish(w) PROVE TypeOK' /\ JobsKnown'
  <2>1. /\ pending' \subseteq Jobs /\ futures' \in Seq(Jobs)
        /\ deferred' \in Seq(Jobs) /\ Len(deferred') \in Nat /\ Len(deferred') <= MaxSize
    <3>1. CASE UNCHANGED <<pending, deferred, futures>>
      BY <3>1
    <3>2. CASE /\ deferred # <<>>
               /\ pending' = pending \union {Head(deferred)}
               /\ futures' = Append(futures, Head(deferred))
               /\ deferred' = Tail(deferred)
      <4>1. PICK h \in Jobs, d \in Seq(Jobs) :
              /\ pending' = pending \union {h}
              /\ futures' = Append(futures, h)
              /\ deferred' = d /\ Len(d) <= Len(deferred)
        BY <3>2
      <4>2. Append(futures, h) \in Seq(Jobs)
        OBVIOUS
      <4> QED
        BY <4>1, <4>2
    <3> QED
      BY <1>9, <3>1, <3>2 DEF Finish, Drained
  <2>2. /\ work' = [work EXCEPT ![w] = Free]
        /\ inflight' = inflight \ {work[w].job}
        /\ UNCHANGED <<closed, executor, holder, orphans, call, submits, down>>
    BY <1>9 DEF Finish
  <2> QED
    BY <2>1, <2>2 DEF Free
<1>10. CASE ShutdownMark
  <2>1. deferred' \in Seq(Jobs) /\ futures' \in Seq(Jobs) /\ orphans' \in Seq(Jobs)
    BY <1>10, EmptySeq DEF ShutdownMark
  <2>2. Len(deferred') <= MaxSize
    <3> HIDE QueueTypes
    <3> QED
      BY <1>10, EmptySeq DEF ShutdownMark
  <2>3. /\ closed' = TRUE /\ executor' = FALSE /\ pending' = {} /\ down' = "marked"
        /\ UNCHANGED <<holder, inflight, work, call, submits>>
    BY <1>10 DEF ShutdownMark
  <2> QED
    BY <2>1, <2>2, <2>3
<1>11. CASE ShutdownCancel
  BY <1>11 DEF ShutdownCancel
<1>12. CASE UNCHANGED vars
  BY <1>12 DEF vars
<1> QED
  BY <1>1, <1>2, <1>3, <1>4, <1>5, <1>6, <1>7, <1>8, <1>9, <1>10, <1>11, <1>12
  DEF Next, SubmitStep, WorkerStep

\* Until shutdown every step leaves the queue open and the lock free: the only
\* step that keeps the lock needs a submitter whose executor is gone.
LEMMA OpenStep == TypeOK /\ Open /\ [Next]_vars => Open'
<1> SUFFICES ASSUME TypeOK, Open, [Next]_vars PROVE Open'
  OBVIOUS
<1> USE DEF TypeOK, Open, books
<1>1. ASSUME NEW t \in Submitters, NEW k \in Jobs, Submit(t, k) PROVE Open'
  BY <1>1 DEF Submit, Free
<1>2. ASSUME NEW t \in Submitters, EnsureExecutor(t) PROVE Open'
  BY <1>2 DEF EnsureExecutor
<1>3. ASSUME NEW t \in Submitters, SubmitRejected(t) PROVE Open'
  BY <1>3 DEF SubmitRejected, Return, Free
<1>4. ASSUME NEW t \in Submitters, SubmitQueued(t) PROVE Open'
  BY <1>4 DEF SubmitQueued, Return, Free
<1>5. ASSUME NEW t \in Submitters, SubmitDeferred(t) PROVE Open'
  BY <1>5 DEF SubmitDeferred, Return, Free
<1>6. ASSUME NEW t \in Submitters, SubmitStuck(t) PROVE Open'
  BY <1>6 DEF SubmitStuck
<1>7. ASSUME NEW w \in Workers, Take(w) PROVE Open'
  BY <1>7 DEF Take
<1>8. ASSUME NEW w \in Workers, Run(w) PROVE Open'
  BY <1>8 DEF Run
<1>9. ASSUME NEW w \in Workers, Finish(w) PROVE Open'
  BY <1>9 DEF Finish
<1>10. CASE ShutdownMark
  BY <1>10 DEF ShutdownMark
<1>11. CASE ShutdownCancel
  BY <1>11 DEF ShutdownCancel
<1>12. CASE UNCHANGED vars
  BY <1>12 DEF vars
<1> QED
  BY <1>1, <1>2, <1>3, <1>4, <1>5, <1>6, <1>7, <1>8, <1>9, <1>10, <1>11, <1>12
  DEF Next, SubmitStep, WorkerStep

\* What the types say of one worker's job.
LEMMA WorkerJob ==
  ASSUME TypeOK, JobsKnown, NEW w \in Workers
  PROVE  /\ work[w].at \in {"idle", "taken", "running"}
         /\ work[w].at = "idle" => work[w].job = None
         /\ work[w].at # "idle" => work[w].job \in Jobs
         /\ work[w].job \in Jobs \union {None}
<1>1. work[w] \in [at : {"idle", "taken", "running"}, job : Jobs \union {None}]
  BY DEF TypeOK
<1> QED
  BY <1>1 DEF JobsKnown

\* The job a queued submission brings is new to the executor and to the
\* deferred ones: the key test under the lock covers all three books.
LEMMA PlacesQueued ==
  ASSUME TypeOK, JobsKnown, Places, NEW t \in Submitters, SubmitQueued(t)
  PROVE  Places'
<1> DEFINE k == call[t].job
<1>1. k \in Jobs
  BY DEF SubmitQueued, JobsKnown
<1>2. /\ k \notin pending /\ k \notin inflight /\ k \notin Range(deferred)
      /\ pending' = pending \union {k} /\ futures' = Append(futures, k)
      /\ UNCHANGED <<inflight, deferred, work>>
  BY DEF SubmitQueued, IsKnown
<1> HIDE DEF k
<1>3. k \notin Range(futures)
  BY <1>1, <1>2 DEF Places
<1>4. /\ Distinct(futures')
      /\ \A x \in Jobs : x \in Range(futures') <=> x \in Range(futures) \/ x = k
      /\ Range(futures') \subseteq Jobs
  <2>1. futures \in Seq(Jobs) /\ Distinct(futures)
    BY DEF TypeOK, Places
  <2>2. Append(futures, k) \in Seq(Jobs)
    BY <1>1, <2>1, AppendFacts
  <2> QED
    BY <1>1, <1>2, <1>3, <2>1, <2>2, AppendFacts, RangeType
<1>5. ASSUME NEW w \in Workers PROVE work[w].job # k /\ work[w].job \notin Range(futures')
  <2>1. work[w].job # k
    BY <1>1, <1>2, WorkerJob, QueueAssumption DEF Places
  <2> QED
    BY <1>4, <2>1, WorkerJob, QueueAssumption DEF Places
<1> QED
  BY <1>1, <1>2, <1>4, <1>5 DEF Places

\* A deferred job is new to all three books too.
LEMMA PlacesDeferred ==
  ASSUME TypeOK, JobsKnown, Places, NEW t \in Submitters, SubmitDeferred(t)
  PROVE  Places'
<1> DEFINE k == call[t].job
<1>1. k \in Jobs
  BY DEF SubmitDeferred, JobsKnown
<1>2. /\ k \notin pending /\ k \notin inflight /\ k \notin Range(deferred)
      /\ deferred' = Append(deferred, k)
      /\ UNCHANGED <<pending, inflight, futures, work>>
  BY DEF SubmitDeferred, IsKnown
<1> HIDE DEF k
<1>3. /\ Distinct(deferred')
      /\ \A x \in Jobs : x \in Range(deferred') <=> x \in Range(deferred) \/ x = k
  BY <1>1, <1>2, AppendFacts DEF TypeOK, Places
<1> QED
  BY <1>1, <1>2, <1>3 DEF Places

\* A worker takes the oldest future: the job leaves the work queue and stays
\* pending.
LEMMA PlacesTake ==
  ASSUME TypeOK, JobsKnown, Places, orphans = <<>>, NEW w \in Workers, Take(w)
  PROVE  Places'
<1> DEFINE h == Head(futures)
<1>1. /\ futures # <<>>
      /\ work[w] = Free
      /\ work' = [work EXCEPT ![w] = [at |-> "taken", job |-> h]]
      /\ futures' = Tail(futures)
      /\ UNCHANGED <<pending, inflight, deferred>>
  BY DEF Take, books
<1>2. /\ h \in Jobs /\ h \in Range(futures)
      /\ Distinct(futures') /\ h \notin Range(futures')
      /\ \A x \in Jobs : x \in Range(futures') => x \in Range(futures)
      /\ \A x \in Jobs : x \in Range(futures) => x = h \/ x \in Range(futures')
      /\ Range(futures') \subseteq Jobs
  BY <1>1, TailFacts, RangeType DEF TypeOK, Places
<1> HIDE DEF h
<1>3. /\ \A v \in Workers : v # w => work'[v] = work[v]
      /\ work'[w].at = "taken" /\ work'[w].job = h
      /\ work[w].at = "idle" /\ work[w].job = None
  BY <1>1 DEF TypeOK, Free
<1>4. \A v \in Workers : work[v].job # h
  BY <1>2 DEF Places
<1>5. \A u, v \in Workers : work'[u].at # "idle" /\ work'[u].job = work'[v].job => u = v
  BY <1>3, <1>4 DEF Places
<1>6. \A v \in Workers : work'[v].job \notin Range(futures')
  BY <1>2, <1>3, WorkerJob DEF Places
<1>7. \A k \in Jobs : k \in pending' <=>
        k \in Range(futures') \/ \E v \in Workers : work'[v].at = "taken" /\ work'[v].job = k
  BY <1>1, <1>2, <1>3 DEF Places
<1>8. \A k \in Jobs : k \in inflight' <=>
        \E v \in Workers : work'[v].at = "running" /\ work'[v].job = k
  BY <1>1, <1>3 DEF Places
<1> QED
  BY <1>1, <1>2, <1>5, <1>6, <1>7, <1>8 DEF Places

\* _run reports the job: it moves from one book to the other.
LEMMA PlacesRun ==
  ASSUME TypeOK, JobsKnown, Places, NEW w \in Workers, Run(w)
  PROVE  Places'
<1> DEFINE j == work[w].job
<1>1. /\ work[w].at = "taken"
      /\ pending' = pending \ {j} /\ inflight' = inflight \union {j}
      /\ work' = [work EXCEPT ![w].at = "running"]
      /\ UNCHANGED <<deferred, futures>>
  BY DEF Run
<1>2. /\ \A v \in Workers : v # w => work'[v] = work[v]
      /\ work'[w].at = "running" /\ work'[w].job = j
  BY <1>1 DEF TypeOK
<1>3. j \in Jobs /\ j \notin Range(futures)
  BY <1>1, WorkerJob DEF Places
<1>4. \A v \in Workers : v # w => work[v].job # j
  BY <1>1 DEF Places
<1>5. j \in pending /\ j \notin Range(deferred)
  BY <1>1, <1>3 DEF Places
<1> HIDE DEF j
<1>6. \A u, v \in Workers : work'[u].at # "idle" /\ work'[u].job = work'[v].job => u = v
  BY <1>2, <1>4 DEF Places
<1>7. \A v \in Workers : work'[v].job \notin Range(futures')
  BY <1>1, <1>2, <1>3 DEF Places
<1>8. \A k \in Jobs : k \in pending' <=>
        k \in Range(futures') \/ \E v \in Workers : work'[v].at = "taken" /\ work'[v].job = k
  <2>1. ASSUME NEW k \in Jobs, k \in pending'
        PROVE  k \in Range(futures') \/ \E v \in Workers : work'[v].at = "taken" /\ work'[v].job = k
    <3>1. k \in pending /\ k # j
      BY <1>1, <2>1
    <3>2. CASE k \in Range(futures)
      BY <1>1, <3>2
    <3>3. CASE \E v \in Workers : work[v].at = "taken" /\ work[v].job = k
      <4>1. PICK v \in Workers : work[v].at = "taken" /\ work[v].job = k
        BY <3>3
      <4>2. v # w
        BY <3>1, <4>1 DEF j
      <4> QED
        BY <1>2, <4>1, <4>2
    <3> QED
      BY <3>1, <3>2, <3>3 DEF Places
  <2>2. ASSUME NEW k \in Jobs,
               k \in Range(futures') \/ \E v \in Workers : work'[v].at = "taken" /\ work'[v].job = k
        PROVE  k \in pending'
    BY <1>1, <1>2, <1>3, <1>4, <2>2 DEF Places
  <2> QED
    BY <2>1, <2>2
<1>9. \A k \in Jobs : k \in inflight' <=>
        \E v \in Workers : work'[v].at = "running" /\ work'[v].job = k
  <2>1. ASSUME NEW k \in Jobs, k \in inflight'
        PROVE  \E v \in Workers : work'[v].at = "running" /\ work'[v].job = k
    <3>1. CASE k = j
      BY <1>2, <3>1
    <3>2. CASE k \in inflight
      <4>1. PICK v \in Workers : work[v].at = "running" /\ work[v].job = k
        BY <3>2 DEF Places
      <4> QED
        BY <1>1, <1>2, <4>1
    <3> QED
      BY <1>1, <2>1, <3>1, <3>2
  <2>2. ASSUME NEW k \in Jobs, NEW v \in Workers, work'[v].at = "running", work'[v].job = k
        PROVE  k \in inflight'
    BY <1>1, <1>2, <2>2 DEF Places
  <2> QED
    BY <2>1, <2>2
<1>10. \A k \in Jobs : k \in Range(deferred') => k \notin pending' /\ k \notin inflight'
  BY <1>1, <1>5 DEF Places
<1> QED
  BY <1>1, <1>6, <1>7, <1>8, <1>9, <1>10 DEF Places

\* _run's finally: the job leaves, and the head of the second backlog takes
\* its slot.  The head is in none of the other books, so it is not enqueued a
\* second time.
LEMMA PlacesFinish ==
  ASSUME TypeOK, JobsKnown, Places, NEW w \in Workers, Finish(w)
  PROVE  Places'
<1> DEFINE j == work[w].job
<1>1. /\ work[w].at = "running"
      /\ inflight' = inflight \ {j}
      /\ work' = [work EXCEPT ![w] = Free]
  BY DEF Finish
<1>2. /\ \A v \in Workers : v # w => work'[v] = work[v]
      /\ work'[w].at = "idle" /\ work'[w].job = None
  BY <1>1 DEF TypeOK, Free
<1>3. j \in Jobs
  BY <1>1, WorkerJob
<1>4. \A v \in Workers : v # w => work[v].job # j
  BY <1>1 DEF Places
<1>5. \A u, v \in Workers : work'[u].at # "idle" /\ work'[u].job = work'[v].job => u = v
  <2> SUFFICES ASSUME NEW u \in Workers, NEW v \in Workers,
                      work'[u].at # "idle", work'[u].job = work'[v].job
               PROVE  u = v
    OBVIOUS
  <2>1. u # w /\ work[u].at # "idle" /\ work[u].job = work'[v].job
    BY <1>2
  <2>2. v # w
    BY <1>2, <2>1, WorkerJob, QueueAssumption
  <2> QED
    BY <1>2, <2>1, <2>2 DEF Places
<1>6. \A k \in Jobs : k \in inflight' <=>
        \E v \in Workers : work'[v].at = "running" /\ work'[v].job = k
  <2>1. ASSUME NEW k \in Jobs, k \in inflight'
        PROVE  \E v \in Workers : work'[v].at = "running" /\ work'[v].job = k
    <3>1. k \in inflight /\ k # j
      BY <1>1, <2>1
    <3>2. PICK v \in Workers : work[v].at = "running" /\ work[v].job = k
      BY <3>1 DEF Places
    <3> QED
      BY <1>2, <3>1, <3>2
  <2>2. ASSUME NEW k \in Jobs, NEW v \in Workers, work'[v].at = "running", work'[v].job = k
        PROVE  k \in inflight'
    BY <1>1, <1>2, <1>4, <2>2 DEF Places
  <2> QED
    BY <2>1, <2>2
<1>7. \A v \in Workers : work[v].at = "taken" <=> work'[v].at = "taken"
  BY <1>1, <1>2
<1>8. \A v \in Workers : work[v].at = "taken" => work'[v].job = work[v].job
  BY <1>1, <1>2
<1>9. None \notin Range(futures)
  BY QueueAssumption, RangeType DEF TypeOK
<1> HIDE DEF j
<1>10. CASE UNCHANGED <<pending, deferred, futures>>
  <2>1. \A v \in Workers : work'[v].job \notin Range(futures')
    BY <1>2, <1>9, <1>10 DEF Places
  <2>2. \A k \in Jobs : k \in pending' <=>
          k \in Range(futures') \/ \E v \in Workers : work'[v].at = "taken" /\ work'[v].job = k
    BY <1>7, <1>8, <1>10 DEF Places
  <2>3. \A k \in Jobs : k \in Range(deferred') => k \notin pending' /\ k \notin inflight'
    BY <1>1, <1>10 DEF Places
  <2> QED
    BY <1>5, <1>6, <1>10, <2>1, <2>2, <2>3 DEF Places
<1>11. CASE /\ deferred # <<>>
            /\ pending' = pending \union {Head(deferred)}
            /\ futures' = Append(futures, Head(deferred))
            /\ deferred' = Tail(deferred)
  <2> DEFINE h == Head(deferred)
  <2>1. /\ h \in Jobs /\ h \in Range(deferred)
        /\ Distinct(deferred') /\ h \notin Range(deferred')
        /\ \A x \in Jobs : x \in Range(deferred') => x \in Range(deferred)
    BY <1>11, TailFacts DEF TypeOK, Places
  <2>2. pending' = pending \union {h} /\ futures' = Append(futures, h)
    BY <1>11
  <2> HIDE DEF h
  <2>3. h \notin pending /\ h \notin inflight /\ h \notin Range(futures)
    BY <2>1 DEF Places
  <2>4. /\ Distinct(futures')
        /\ \A x \in Jobs : x \in Range(futures') <=> x \in Range(futures) \/ x = h
    BY <2>1, <2>2, <2>3, AppendFacts DEF TypeOK, Places
  <2>5. Append(futures, h) \in Seq(Jobs)
    BY <2>1, AppendFacts DEF TypeOK
  <2>6. None \notin Range(futures')
    BY <2>2, <2>5, QueueAssumption, RangeType
  <2>7. ASSUME NEW v \in Workers PROVE work'[v].job \notin Range(futures')
    <3>1. CASE v = w
      BY <1>2, <2>6, <3>1
    <3>2. CASE v # w
      <4>1. work'[v].job = work[v].job /\ work[v].job \notin Range(futures)
        BY <1>2, <3>2 DEF Places
      <4>2. work[v].job # h
        BY <2>1, <2>3, WorkerJob, QueueAssumption DEF Places
      <4> QED
        BY <2>4, <2>6, <4>1, <4>2, WorkerJob
    <3> QED
      BY <3>1, <3>2
  <2>8. \A k \in Jobs : k \in pending' <=>
          k \in Range(futures') \/ \E v \in Workers : work'[v].at = "taken" /\ work'[v].job = k
    BY <1>7, <1>8, <2>2, <2>4 DEF Places
  <2>9. \A k \in Jobs : k \in Range(deferred') => k \notin pending' /\ k \notin inflight'
    BY <1>1, <2>1, <2>2 DEF Places
  <2> QED
    BY <1>5, <1>6, <2>1, <2>4, <2>7, <2>8, <2>9 DEF Places
<1> QED
  BY <1>10, <1>11 DEF Finish, Drained

\* Every step keeps the places, until shutdown.
LEMMA PlacedStep == IndInv /\ [Next]_vars => Placed'
<1> SUFFICES ASSUME IndInv, [Next]_vars, down' = "no" PROVE Places'
  BY DEF Placed
<1>1. TypeOK /\ JobsKnown
  BY DEF IndInv
<1>2. down = "no"
  BY DEF Next, vars, SubmitStep, WorkerStep, Submit, EnsureExecutor, SubmitRejected, SubmitQueued,
         SubmitDeferred, SubmitStuck, Take, Run, Finish, ShutdownMark, ShutdownCancel
<1>3. Places /\ orphans = <<>> /\ \A t \in Submitters : call[t].at = "ready" => executor
  BY <1>2 DEF IndInv, Open, Placed
<1>4. CASE UNCHANGED <<books, futures, work>>
  BY <1>3, <1>4 DEF Places, books
<1>5. ASSUME NEW t \in Submitters, NEW k \in Jobs, Submit(t, k) PROVE Places'
  BY <1>4, <1>5 DEF Submit
<1>6. ASSUME NEW t \in Submitters, EnsureExecutor(t) PROVE Places'
  BY <1>4, <1>6 DEF EnsureExecutor
<1>7. ASSUME NEW t \in Submitters, SubmitRejected(t) PROVE Places'
  BY <1>4, <1>7 DEF SubmitRejected
<1>8. ASSUME NEW t \in Submitters, SubmitQueued(t) PROVE Places'
  BY <1>1, <1>3, <1>8, PlacesQueued
<1>9. ASSUME NEW t \in Submitters, SubmitDeferred(t) PROVE Places'
  BY <1>1, <1>3, <1>9, PlacesDeferred
<1>10. ASSUME NEW t \in Submitters, SubmitStuck(t) PROVE Places'
  BY <1>3, <1>10 DEF SubmitStuck
<1>11. ASSUME NEW w \in Workers, Take(w) PROVE Places'
  BY <1>1, <1>3, <1>11, PlacesTake
<1>12. ASSUME NEW w \in Workers, Run(w) PROVE Places'
  BY <1>1, <1>3, <1>12, PlacesRun
<1>13. ASSUME NEW w \in Workers, Finish(w) PROVE Places'
  BY <1>1, <1>3, <1>13, PlacesFinish
<1>14. CASE ShutdownMark \/ ShutdownCancel
  BY <1>14 DEF ShutdownMark, ShutdownCancel
<1>15. CASE UNCHANGED vars
  BY <1>4, <1>15 DEF vars, books
<1> QED
  BY <1>5, <1>6, <1>7, <1>8, <1>9, <1>10, <1>11, <1>12, <1>13, <1>14, <1>15
  DEF Next, SubmitStep, WorkerStep

-----------------------------------------------------------------------------
(* Theorems *)

\* The invariant holds in every reachable state.
LEMMA IndInvHolds == Spec => []IndInv
<1>1. IndInv /\ [Next]_vars => IndInv'
  BY TypeStep, OpenStep, PlacedStep DEF IndInv
<1> QED
  BY <1>1, InitInd, PTL DEF Spec

\* Every variable keeps its type; in particular neither backlog outgrows its
\* limit (submit's test of _deferred against MEDIA_OCR_QUEUE_MAXSIZE).
THEOREM TypeCorrect == Spec => []TypeOK
<1>1. IndInv => TypeOK
  BY DEF IndInv
<1> QED
  BY <1>1, IndInvHolds, PTL

\* No two threads ever make the same job run twice at a time: submit's key
\* test under the lock and the drain of _run never give a job a second place.
THEOREM JobRunsOnce == Spec => []OneRunPerJob
<1>1. ASSUME IndInv PROVE OneRunPerJob
  <2> SUFFICES ASSUME down = "no", NEW k \in Jobs
               PROVE  Cardinality({n \in 1 .. Len(futures) : futures[n] = k})
                        + Cardinality({w \in Workers : work[w].job = k})
                        + Cardinality({n \in 1 .. Len(deferred) : deferred[n] = k}) <= 1
    BY DEF OneRunPerJob
  <2> DEFINE F == {n \in 1 .. Len(futures) : futures[n] = k}
             W == {w \in Workers : work[w].job = k}
             D == {n \in 1 .. Len(deferred) : deferred[n] = k}
  <2>1. TypeOK /\ JobsKnown /\ Places
    BY <1>1 DEF IndInv, Placed
  <2>2. \A x, y \in F : x = y
    BY <2>1 DEF Places, Distinct
  <2>3. \A x, y \in D : x = y
    BY <2>1 DEF Places, Distinct
  <2>4. \A x, y \in W : x = y
    BY <2>1, WorkerJob, QueueAssumption DEF Places
  <2>5. F # {} => k \in Range(futures)
    BY <2>1, RangeOfSeq DEF TypeOK
  <2>6. D # {} => k \in Range(deferred)
    BY <2>1, RangeOfSeq DEF TypeOK
  <2>7. W # {} => k \notin Range(futures) /\ (k \in pending \/ k \in inflight)
    <3>1. ASSUME NEW w \in Workers, work[w].job = k
          PROVE  k \notin Range(futures) /\ (k \in pending \/ k \in inflight)
      BY <2>1, <3>1, WorkerJob, QueueAssumption DEF Places
    <3> QED
      BY <3>1
  <2>8. F # {} => k \in pending
    BY <2>1, <2>5 DEF Places
  <2>9. /\ F = {} \/ (W = {} /\ D = {})
        /\ W = {} \/ (F = {} /\ D = {})
    BY <2>1, <2>5, <2>6, <2>7, <2>8 DEF Places
  <2> HIDE DEF F, W, D
  <2>10. /\ Cardinality(F) \in {0, 1} /\ (F = {} => Cardinality(F) = 0)
         /\ Cardinality(W) \in {0, 1} /\ (W = {} => Cardinality(W) = 0)
         /\ Cardinality(D) \in {0, 1} /\ (D = {} => Cardinality(D) = 0)
    BY <2>2, <2>3, <2>4, AtMostOne
  <2>11. Cardinality(F) + Cardinality(W) + Cardinality(D) <= 1
    BY <2>9, <2>10
  <2> QED
    BY <2>11 DEF F, W, D
<1> QED
  BY <1>1, IndInvHolds, PTL

\* The books mirror the executor exactly: no key is left behind in _pending or
\* _inflight to turn its event's next job away for ever.
THEOREM BooksAreExact == Spec => []BooksBalance
<1>1. ASSUME IndInv PROVE BooksBalance
  <2> SUFFICES ASSUME down = "no"
               PROVE  /\ pending = Range(futures) \union {work[w].job : w \in {x \in Workers : work[x].at = "taken"}}
                      /\ inflight = {work[w].job : w \in {x \in Workers : work[x].at = "running"}}
    BY DEF BooksBalance
  <2>1. TypeOK /\ JobsKnown /\ Places
    BY <1>1 DEF IndInv, Placed
  <2>2. Range(futures) \subseteq Jobs /\ pending \subseteq Jobs /\ inflight \subseteq Jobs
    BY <2>1, RangeType DEF TypeOK
  <2>3. \A w \in Workers : work[w].at \in {"taken", "running"} => work[w].job \in Jobs
    BY <2>1, WorkerJob
  <2> QED
    BY <2>1, <2>2, <2>3 DEF Places
<1> QED
  BY <1>1, IndInvHolds, PTL

-----------------------------------------------------------------------------
(* The second backlog and the lock *)

\* A job waits in the second backlog only while the pool is full, so that the
\* end of a running job always refills it: no job is stranded there beside a
\* free slot.
PoolFullWhileDeferred ==
  down = "no" =>
    /\ Active <= MaxSize
    /\ deferred # <<>> => Active = MaxSize

\* The books are finite, so that what they hold can be counted.
Counted == down = "no" => IsFiniteSet(pending) /\ IsFiniteSet(inflight)

PoolInv == IndInv /\ Counted /\ PoolFullWhileDeferred

\* Counting a book to which one key is added, or from which one is taken.
LEMMA CountFacts ==
  ASSUME NEW S, IsFiniteSet(S), NEW k
  PROVE  /\ Cardinality(S) \in Nat
         /\ IsFiniteSet(S \union {k}) /\ IsFiniteSet(S \ {k})
         /\ k \notin S => Cardinality(S \union {k}) = Cardinality(S) + 1
         /\ k \in S => Cardinality(S \ {k}) = Cardinality(S) - 1
BY FS_CardinalityType, FS_AddElement, FS_RemoveElement

\* _enqueue_locked adds a new key to a pool with room; the second backlog was
\* empty, since the pool was not full.
LEMMA PoolQueued ==
  ASSUME PoolInv, down = "no", NEW t \in Submitters, SubmitQueued(t)
  PROVE  Counted' /\ PoolFullWhileDeferred'
<1> DEFINE k == call[t].job
<1>1. /\ k \notin pending /\ Active < MaxSize
      /\ pending' = pending \union {k}
      /\ UNCHANGED <<inflight, deferred, down>>
  BY DEF SubmitQueued, IsKnown
<1> HIDE DEF k
<1>2. /\ IsFiniteSet(pending) /\ IsFiniteSet(inflight)
      /\ Cardinality(inflight) \in Nat /\ Cardinality(pending) \in Nat
      /\ deferred # <<>> => Active = MaxSize
  BY FS_CardinalityType DEF PoolInv, Counted, PoolFullWhileDeferred
<1>3. IsFiniteSet(pending') /\ Cardinality(pending') = Cardinality(pending) + 1
  BY <1>1, <1>2, CountFacts
<1>4. deferred = <<>>
  BY <1>1, <1>2, QueueAssumption DEF Active
<1>5. Active' <= MaxSize
  BY <1>1, <1>2, <1>3, QueueAssumption DEF Active
<1> QED
  BY <1>1, <1>2, <1>3, <1>4, <1>5 DEF Counted, PoolFullWhileDeferred

\* _run moves a key from one book to the other: the count stays.
LEMMA PoolRun ==
  ASSUME PoolInv, down = "no", NEW w \in Workers, Run(w)
  PROVE  Counted' /\ PoolFullWhileDeferred'
<1> DEFINE j == work[w].job
<1>1. /\ work[w].at = "taken"
      /\ pending' = pending \ {j} /\ inflight' = inflight \union {j}
      /\ UNCHANGED <<deferred, down>>
  BY DEF Run
<1>2. TypeOK /\ JobsKnown /\ Places
  BY DEF PoolInv, IndInv, Placed
<1>3. j \in Jobs /\ j \in pending
  BY <1>1, <1>2, WorkerJob DEF Places
<1>4. j \notin inflight
  BY <1>1, <1>2, <1>3 DEF Places
<1> HIDE DEF j
<1>5. IsFiniteSet(pending) /\ IsFiniteSet(inflight)
  BY DEF PoolInv, Counted
<1>6. /\ Cardinality(pending) \in Nat /\ Cardinality(inflight) \in Nat
      /\ IsFiniteSet(pending') /\ Cardinality(pending') = Cardinality(pending) - 1
      /\ IsFiniteSet(inflight') /\ Cardinality(inflight') = Cardinality(inflight) + 1
  BY <1>1, <1>3, <1>4, <1>5, CountFacts
<1>7. Active' = Active
  BY <1>6 DEF Active
<1> QED
  BY <1>1, <1>6, <1>7 DEF PoolInv, Counted, PoolFullWhileDeferred

\* _run's finally: the slot that becomes free is filled by the head of the
\* second backlog, or that backlog is empty.
LEMMA PoolFinish ==
  ASSUME PoolInv, down = "no", NEW w \in Workers, Finish(w)
  PROVE  Counted' /\ PoolFullWhileDeferred'
<1> DEFINE j == work[w].job
           left == inflight \ {j}
<1>1. /\ work[w].at = "running" /\ inflight' = left
      /\ UNCHANGED down
      /\ \/ /\ Drained(left)
            /\ pending' = pending \union {Head(deferred)}
         \/ /\ closed \/ ~Drained(left)
            /\ UNCHANGED <<pending, deferred>>
  BY DEF Finish
<1>2. TypeOK /\ JobsKnown /\ Places /\ ~closed
  BY DEF PoolInv, IndInv, Placed, Open
<1>3. j \in inflight
  BY <1>1, <1>2, WorkerJob DEF Places
<1> HIDE DEF j
<1>4. /\ IsFiniteSet(pending) /\ IsFiniteSet(inflight)
      /\ Active <= MaxSize /\ (deferred # <<>> => Active = MaxSize)
  BY DEF PoolInv, Counted, PoolFullWhileDeferred
<1>5. /\ Cardinality(pending) \in Nat /\ Cardinality(inflight) \in Nat
      /\ IsFiniteSet(left) /\ Cardinality(left) = Cardinality(inflight) - 1
  BY <1>3, <1>4, CountFacts
<1> HIDE DEF left
<1>6. CASE Drained(left) /\ pending' = pending \union {Head(deferred)}
  <2>1. deferred # <<>> /\ Head(deferred) \notin pending
    BY <1>2, <1>6, TailFacts DEF Drained, Places, TypeOK
  <2>2. IsFiniteSet(pending') /\ Cardinality(pending') = Cardinality(pending) + 1
    BY <1>4, <1>6, <2>1, CountFacts
  <2>3. Active' = MaxSize
    BY <1>1, <1>4, <1>5, <2>1, <2>2 DEF Active
  <2> QED
    BY <1>1, <1>5, <2>2, <2>3, QueueAssumption DEF Counted, PoolFullWhileDeferred
<1>7. CASE ~Drained(left) /\ UNCHANGED <<pending, deferred>>
  <2>1. Active' = Active - 1 /\ Active \in Nat
    BY <1>1, <1>5, <1>7 DEF Active
  <2>2. deferred = <<>>
    <3>1. deferred = <<>> \/ ~(Cardinality(pending) + Cardinality(left) < MaxSize)
      BY <1>7 DEF Drained
    <3> QED
      BY <1>4, <1>5, <3>1, QueueAssumption DEF Active
  <2>3. Active' <= MaxSize
    BY <1>4, <2>1, QueueAssumption
  <2> QED
    BY <1>1, <1>4, <1>5, <1>7, <2>2, <2>3 DEF Counted, PoolFullWhileDeferred
<1> QED
  BY <1>1, <1>2, <1>6, <1>7

\* Every step keeps the pool full while a job is deferred.
LEMMA PoolStep ==
  ASSUME PoolInv, [Next]_vars
  PROVE  Counted' /\ PoolFullWhileDeferred'
<1> SUFFICES ASSUME down' = "no" PROVE Counted' /\ PoolFullWhileDeferred'
  BY DEF Counted, PoolFullWhileDeferred
<1>1. down = "no"
  BY DEF Next, vars, SubmitStep, WorkerStep, Submit, EnsureExecutor, SubmitRejected, SubmitQueued,
         SubmitDeferred, SubmitStuck, Take, Run, Finish, ShutdownMark, ShutdownCancel
<1>2. \A t \in Submitters : call[t].at = "ready" => executor
  BY <1>1 DEF PoolInv, IndInv, Open
<1>3. CASE UNCHANGED <<books, down>>
  BY <1>3 DEF PoolInv, Counted, PoolFullWhileDeferred, Active, books
<1>4. ASSUME NEW t \in Submitters, SubmitDeferred(t) PROVE Counted' /\ PoolFullWhileDeferred'
  <2>1. Active >= MaxSize /\ UNCHANGED <<pending, inflight, down>>
    BY <1>4 DEF SubmitDeferred
  <2>2. /\ IsFiniteSet(pending) /\ IsFiniteSet(inflight) /\ Active <= MaxSize
        /\ Cardinality(pending) \in Nat /\ Cardinality(inflight) \in Nat
    BY <1>1, FS_CardinalityType DEF PoolInv, Counted, PoolFullWhileDeferred
  <2>3. Active = MaxSize /\ Active' = Active
    BY <2>1, <2>2, QueueAssumption DEF Active
  <2> QED
    BY <2>1, <2>2, <2>3, QueueAssumption DEF Counted, PoolFullWhileDeferred
<1>5. ASSUME NEW t \in Submitters,
             (\E k \in Jobs : Submit(t, k)) \/ SubmitStep(t) \/ SubmitStuck(t)
      PROVE  Counted' /\ PoolFullWhileDeferred'
  <2>1. CASE (\E k \in Jobs : Submit(t, k)) \/ EnsureExecutor(t) \/ SubmitRejected(t)
    BY <1>3, <2>1 DEF Submit, EnsureExecutor, SubmitRejected
  <2>2. CASE SubmitQueued(t)
    BY <1>1, <2>2, PoolQueued
  <2>3. CASE SubmitStuck(t)
    BY <1>2, <2>3 DEF SubmitStuck
  <2> QED
    BY <1>4, <1>5, <2>1, <2>2, <2>3 DEF SubmitStep
<1>6. ASSUME NEW w \in Workers, WorkerStep(w) PROVE Counted' /\ PoolFullWhileDeferred'
  <2>1. CASE Take(w)
    BY <1>3, <2>1 DEF Take
  <2> QED
    BY <1>1, <1>6, <2>1, PoolRun, PoolFinish DEF WorkerStep
<1>7. CASE ShutdownMark \/ ShutdownCancel
  BY <1>7 DEF ShutdownMark, ShutdownCancel
<1> QED
  BY <1>3, <1>5, <1>6, <1>7 DEF Next, vars, books

\* Until shutdown no job waits in the second backlog beside a free slot, and no
\* more than MEDIA_OCR_QUEUE_MAXSIZE jobs have one: the part of Finishes that
\* does not need fairness.
THEOREM DeferredIsNotStranded == Spec => []PoolFullWhileDeferred
<1>1. Init => Counted /\ PoolFullWhileDeferred
  <2>1. IsFiniteSet({}) /\ Cardinality({}) = 0
    BY FS_EmptySet
  <2> QED
    BY <2>1, QueueAssumption DEF Init, Counted, PoolFullWhileDeferred, Active
<1>2. IndInv /\ (Counted /\ PoolFullWhileDeferred) /\ [Next]_vars => (Counted /\ PoolFullWhileDeferred)'
  BY PoolStep DEF PoolInv
<1> QED
  BY <1>1, <1>2, IndInvHolds, PTL DEF Spec

\* _enqueue_locked calls _ensure_executor with the lock held, which would wait
\* for itself if the executor were gone.  Until shutdown takes the executor away
\* that never happens: between two steps nobody has the lock.
THEOREM LockFreeUntilShutdown == Spec => [](holder # None => down # "no")
<1>1. IndInv => (holder # None => down # "no")
  BY DEF IndInv, Open
<1> QED
  BY <1>1, IndInvHolds, PTL

=============================================================================
