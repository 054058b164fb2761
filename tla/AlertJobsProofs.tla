-------------------------- MODULE AlertJobsProofs ---------------------------
(***************************************************************************)
(* Proofs about AlertJobs for any number of alerts, workers, crashes,      *)
(* attempts and lapsed leases: first the rows of the queue, then the       *)
(* invariant of a job none of whose leases ran out under a live worker,    *)
(* then how many workers may execute a job and how often it is attempted.  *)
(***************************************************************************)
EXTENDS AlertJobs, FiniteSetTheorems, TLAPS

-----------------------------------------------------------------------------
LEMMA TypeInit == Init => TypeOK
BY AlertJobsAssumptions DEF Init, TypeOK, JobStatus, Executing

LEMMA TypeStep == TypeOK /\ [Next]_vars => TypeOK'
<1> SUFFICES ASSUME TypeOK, [Next]_vars PROVE TypeOK'
  OBVIOUS
<1> USE AlertJobsAssumptions DEF TypeOK
<1>1. CASE UNCHANGED vars
  BY <1>1 DEF vars, job
<1>2. ASSUME NEW j \in Jobs, Request(j) PROVE TypeOK'
  <2>1. CASE CreateAlert(j)
    BY <2>1 DEF CreateAlert, job
  <2>2. CASE CreateDriftJob(j)
    BY <2>2 DEF CreateDriftJob, job
  <2>3. CASE Enqueue(j)
    BY <2>3 DEF Enqueue, Queue, JobStatus
  <2>4. CASE RequestFails(j)
    BY <2>4 DEF RequestFails, job
  <2> QED
    BY <1>2, <2>1, <2>2, <2>3, <2>4 DEF Request
<1>3. ASSUME NEW j \in Jobs, LeaseExpires(j) \/ BecomesDue(j) PROVE TypeOK'
  <2>1. CASE LeaseExpires(j)
    <3>1. lapses' \in [Jobs -> 0 .. MaxLapses]
      BY <2>1 DEF LeaseExpires
    <3> QED
      BY <2>1, <3>1 DEF LeaseExpires
  <2>2. CASE BecomesDue(j)
    BY <2>2 DEF BecomesDue
  <2> QED
    BY <1>3, <2>1, <2>2
<1>4. ASSUME NEW j \in Jobs, OperatorRetry(j) PROVE TypeOK'
  BY <1>4 DEF OperatorRetry, Queue, JobStatus
<1>5. ASSUME NEW w \in Workers, NEW j \in Jobs, Claim(w, j) PROVE TypeOK'
  BY <1>5 DEF Claim, Executing, JobStatus
<1>6. ASSUME NEW w \in Workers, Renew(w) PROVE TypeOK'
  BY <1>6 DEF Renew
<1>7. ASSUME NEW w \in Workers, NEW p \in Executing \cup {"idle", "down"},
             pc[w] \in Executing \/ p \notin Executing, Goto(w, p)
      PROVE  /\ pc' \in [Workers -> Executing \cup {"idle", "down"}]
             /\ cur' \in [Workers -> Jobs \cup {None}]
             /\ \A u \in Workers : cur'[u] # None <=> pc'[u] \in Executing
  BY <1>7 DEF Goto
<1>8. ASSUME NEW w \in Workers, Execute(w) PROVE TypeOK'
  <2>1. pc[w] \in Executing /\ cur[w] \in Jobs
    BY <1>8 DEF Execute, Compute, Sign, FailDrift, UpdateAlertStatus, CheckDrift,
                Complete, Fail, Executing
  <2>2. PICK p \in Executing \cup {"idle", "down"} : Goto(w, p)
    BY <1>8 DEF Execute, Compute, Sign, FailDrift, UpdateAlertStatus, CheckDrift,
                Complete, Fail, Executing
  <2>3. /\ pc' \in [Workers -> Executing \cup {"idle", "down"}]
        /\ cur' \in [Workers -> Jobs \cup {None}]
        /\ \A u \in Workers : cur'[u] # None <=> pc'[u] \in Executing
    BY <1>7, <2>1, <2>2
  <2>4. /\ alert' \in [Jobs -> {"absent", "processing", "completed", "failed"}]
        /\ drift' \in [Jobs -> {"absent", "computing", "completed", "failed"}]
        /\ UNCHANGED <<req, crashes, retries, lapses>>
    BY <1>8, <2>1 DEF Execute, Compute, Sign, FailDrift, UpdateAlertStatus,
                      CheckDrift, Complete, Fail
  <2>5. /\ status' \in [Jobs -> JobStatus]
        /\ due' \in [Jobs -> BOOLEAN]
        /\ lease' \in [Jobs -> {"none", "held", "expired"}]
        /\ UNCHANGED <<attempts, owner>>
    <3>1. CASE UNCHANGED job
      BY <3>1 DEF job
    <3>2. CASE Complete(w)
      BY <2>1, <3>2 DEF Complete, JobStatus
    <3>3. CASE Fail(w)
      <4>1. status' \in {[status EXCEPT ![cur[w]] = s] : s \in {"dead", "retry"}}
        BY <3>3 DEF Fail
      <4>2. due' = due \/ due' = [due EXCEPT ![cur[w]] = FALSE]
        BY <3>3 DEF Fail
      <4>3. lease' = [lease EXCEPT ![cur[w]] = "none"] /\ UNCHANGED <<attempts, owner>>
        BY <3>3 DEF Fail
      <4>4. status' \in [Jobs -> JobStatus]
        BY <2>1, <4>1 DEF JobStatus
      <4>5. due' \in [Jobs -> BOOLEAN]
        BY <2>1, <4>2
      <4>6. lease' \in [Jobs -> {"none", "held", "expired"}]
        BY <2>1, <4>3
      <4> QED
        BY <4>3, <4>4, <4>5, <4>6
    <3> QED
      BY <1>8, <3>1, <3>2, <3>3 DEF Execute, Compute, Sign, FailDrift,
                                    UpdateAlertStatus, CheckDrift
  <2> QED
    BY <2>3, <2>4, <2>5
<1>9. ASSUME NEW w \in Workers, Crash(w) \/ Restart(w) PROVE TypeOK'
  BY <1>9 DEF Crash, Restart, Goto, Executing, job
<1> HIDE DEF TypeOK
<1> QED
  BY <1>1, <1>2, <1>3, <1>4, <1>5, <1>6, <1>8, <1>9 DEF Next

\* The rows of the queue, the alerts and the workers keep their types, and a
\* worker holds a job exactly while it executes.
THEOREM TypeCorrect == Spec => []TypeOK
BY TypeInit, TypeStep, PTL DEF Spec
-----------------------------------------------------------------------------
(* The rows of the queue *)

\* A job that is not finished can be claimed now, or once its lease runs out or
\* its backoff ends: none is left in a state that claim never selects.
NotStranded ==
    \A j \in Jobs : status[j] \in {"queued", "retry", "running"} =>
        \/ Claimable(j)
        \/ status[j] = "running" /\ lease[j] = "held" /\ due[j]
        \/ status[j] = "retry" /\ lease[j] = "none" /\ ~due[j]

\* The request's progress and the rows it has written.
RequestInv ==
    \A j \in Jobs :
        /\ req[j] \in {"alert", "drift", "done"} => alert[j] # "absent"
        /\ req[j] \in {"drift", "done"} => drift[j] # "absent"
        /\ status[j] # "absent" => req[j] = "done"

\* The columns agree with the status, whoever wrote them last.
RowInv ==
    \A j \in Jobs :
        /\ status[j] = "running" => due[j] /\ lease[j] # "none"
        /\ status[j] # "running" => lease[j] = "none"
        /\ status[j] = "queued" => due[j]

\* A worker executes a job of the table, its own or one it has lost.
HeldInv == \A w \in Workers : cur[w] # None => status[cur[w]] # "absent"

RowsInv == TypeOK /\ RowInv /\ HeldInv /\ RequestInv

\* What a worker's last calls write, whether or not it still owns the job.
LEMMA ReportFacts ==
    ASSUME TypeOK, NEW w \in Workers, Complete(w) \/ Fail(w)
    PROVE  /\ cur[w] \in Jobs
           /\ UNCHANGED <<req, alert, drift>>
           /\ \A u \in Workers : cur'[u] \in {cur[u], None}
           /\ \/ UNCHANGED <<status, due, lease>>
              \/ /\ status'[cur[w]] \in {"completed", "dead", "retry"}
                 /\ lease'[cur[w]] = "none"
                 /\ \A k \in Jobs : k # cur[w] => /\ status'[k] = status[k]
                                                  /\ lease'[k] = lease[k] /\ due'[k] = due[k]
<1>1. cur[w] \in Jobs
  BY DEF Complete, Fail, TypeOK, Executing
<1>2. \A u \in Workers : cur'[u] \in {cur[u], None}
  BY DEF Complete, Fail, Goto, TypeOK
<1>3. CASE Complete(w)
  BY <1>1, <1>2, <1>3 DEF Complete, TypeOK
<1>4. CASE Fail(w)
  BY <1>1, <1>2, <1>4 DEF Fail, TypeOK
<1> QED
  BY <1>3, <1>4

LEMMA RowsStep ==
    ASSUME RowsInv, TypeOK', [Next]_vars
    PROVE  RowsInv'
<1> USE DEF TypeOK
<1>1. TypeOK /\ RowInv /\ HeldInv /\ RequestInv
  BY DEF RowsInv
<1>2. CASE UNCHANGED vars
  BY <1>1, <1>2 DEF vars, job, RowsInv, RowInv, HeldInv, RequestInv
<1>3. ASSUME NEW j \in Jobs, CreateAlert(j) \/ CreateDriftJob(j) \/ RequestFails(j)
      PROVE  RowsInv'
  <2>1. UNCHANGED <<status, due, lease, cur>>
    BY <1>3 DEF CreateAlert, CreateDriftJob, RequestFails, job
  <2>2. RequestInv'
    BY <1>1, <1>3, <2>1 DEF CreateAlert, CreateDriftJob, RequestFails, RequestInv
  <2> QED
    BY <1>1, <2>1, <2>2 DEF RowsInv, RowInv, HeldInv
<1>4. ASSUME NEW j \in Jobs, Enqueue(j) \/ OperatorRetry(j) PROVE RowsInv'
  <2>1. /\ Queue(j) /\ UNCHANGED <<cur, alert, drift>>
        /\ req'[j] = "done" /\ alert[j] # "absent" /\ drift[j] # "absent"
        /\ \A k \in Jobs : k # j => req'[k] = req[k]
    BY <1>1, <1>4 DEF Enqueue, OperatorRetry, RequestInv
  <2>2. RowInv'
    BY <1>1, <2>1 DEF Queue, RowInv
  <2>3. HeldInv'
    BY <1>1, <2>1 DEF Queue, HeldInv
  <2>4. RequestInv'
    BY <1>1, <2>1 DEF Queue, RequestInv
  <2> QED
    BY <2>2, <2>3, <2>4 DEF RowsInv
<1>5. ASSUME NEW j \in Jobs, LeaseExpires(j) \/ BecomesDue(j) PROVE RowsInv'
  <2>1. UNCHANGED <<req, alert, drift, status, cur>>
    BY <1>5 DEF LeaseExpires, BecomesDue
  <2>2. RowInv'
    BY <1>1, <1>5 DEF LeaseExpires, BecomesDue, RowInv
  <2> QED
    BY <1>1, <2>1, <2>2 DEF RowsInv, HeldInv, RequestInv
<1>6. ASSUME NEW w \in Workers, NEW j \in Jobs, Claim(w, j) PROVE RowsInv'
  <2>1. /\ status[j] # "absent" /\ due[j]
        /\ status' = [status EXCEPT ![j] = "running"] /\ lease' = [lease EXCEPT ![j] = "held"]
        /\ cur' = [cur EXCEPT ![w] = j] /\ UNCHANGED <<req, alert, drift, due>>
    BY <1>6 DEF Claim, Claimable
  <2>2. RowInv'
    BY <1>1, <2>1 DEF RowInv
  <2>3. HeldInv'
    BY <1>1, <2>1 DEF HeldInv
  <2>4. RequestInv'
    BY <1>1, <2>1 DEF RequestInv
  <2> QED
    BY <2>2, <2>3, <2>4 DEF RowsInv
<1>7. ASSUME NEW w \in Workers, Renew(w) PROVE RowsInv'
  <2>1. /\ cur[w] \in Jobs /\ status[cur[w]] = "running"
        /\ lease' = [lease EXCEPT ![cur[w]] = "held"]
        /\ UNCHANGED <<req, alert, drift, status, due, cur>>
    BY <1>7 DEF Renew
  <2>2. RowInv'
    BY <1>1, <2>1 DEF RowInv
  <2> QED
    BY <1>1, <2>1, <2>2 DEF RowsInv, HeldInv, RequestInv
<1>8. ASSUME NEW w \in Workers,
             Compute(w) \/ Sign(w) \/ FailDrift(w) \/ UpdateAlertStatus(w) \/ CheckDrift(w)
             \/ Crash(w) \/ Restart(w)
      PROVE  RowsInv'
  <2>1. UNCHANGED <<req, status, due, lease>>
    BY <1>8 DEF Compute, Sign, FailDrift, UpdateAlertStatus, CheckDrift, Crash, Restart, job
  <2>2. \A u \in Workers : cur'[u] \in {cur[u], None}
    <3>1. ASSUME NEW p, Goto(w, p) PROVE \A u \in Workers : cur'[u] \in {cur[u], None}
      BY <3>1 DEF Goto
    <3>2. \E p : Goto(w, p)
      BY <1>8 DEF Compute, Sign, FailDrift, UpdateAlertStatus, CheckDrift, Crash, Restart
    <3> QED
      BY <3>1, <3>2
  <2>3. \A k \in Jobs : /\ alert[k] # "absent" => alert'[k] # "absent"
                        /\ drift[k] # "absent" => drift'[k] # "absent"
    BY <1>8 DEF Compute, Sign, FailDrift, UpdateAlertStatus, CheckDrift, Crash, Restart
  <2>4. HeldInv'
    BY <1>1, <2>1, <2>2 DEF HeldInv
  <2> QED
    BY <1>1, <2>1, <2>3, <2>4 DEF RowsInv, RowInv, RequestInv
<1>9. ASSUME NEW w \in Workers, Complete(w) \/ Fail(w) PROVE RowsInv'
  <2>1. /\ cur[w] \in Jobs /\ UNCHANGED <<req, alert, drift>>
        /\ \A u \in Workers : cur'[u] \in {cur[u], None}
    BY <1>1, <1>9, ReportFacts
  <2>2. CASE UNCHANGED <<status, due, lease>>
    BY <1>1, <2>1, <2>2 DEF RowsInv, RowInv, HeldInv, RequestInv
  <2>3. CASE /\ status'[cur[w]] \in {"completed", "dead", "retry"}
             /\ lease'[cur[w]] = "none"
             /\ \A k \in Jobs : k # cur[w] => /\ status'[k] = status[k]
                                              /\ lease'[k] = lease[k] /\ due'[k] = due[k]
    <3>1. RowInv'
      BY <1>1, <2>1, <2>3 DEF RowInv
    <3>2. \A k \in Jobs : status[k] # "absent" <=> status'[k] # "absent"
      <4>1. cur[w] # None /\ status[cur[w]] # "absent"
        BY <1>1, <2>1, AlertJobsAssumptions DEF HeldInv
      <4> QED
        BY <2>1, <2>3, <4>1
    <3>3. HeldInv'
      BY <1>1, <2>1, <3>2 DEF HeldInv
    <3>4. RequestInv'
      BY <1>1, <2>1, <3>2 DEF RequestInv
    <3> QED
      BY <3>1, <3>3, <3>4 DEF RowsInv
  <2> QED
    BY <1>1, <1>9, <2>2, <2>3, ReportFacts
<1> QED
  BY <1>2, <1>3, <1>4, <1>5, <1>6, <1>7, <1>8, <1>9 DEF Next, Request, Execute

\* The rows' invariant.
LEMMA RowsHold == Spec => []RowsInv
<1>1. Init => RowsInv
  BY TypeInit DEF Init, RowsInv, RowInv, HeldInv, RequestInv
<1>2. RowsInv /\ [Next]_vars => RowsInv'
  BY RowsStep, TypeStep DEF RowsInv
<1> QED
  BY <1>1, <1>2, PTL DEF Spec

\* A worker that claims a job finds its alert and its drift row: the request
\* writes both before it enqueues, and nothing deletes them (create_alert).
THEOREM JobBackedHolds == Spec => []JobBacked
<1>1. RowsInv => JobBacked
  BY DEF RowsInv, RequestInv, JobBacked
<1> QED
  BY <1>1, RowsHold, PTL

\* Whatever a worker that lost its lease still writes with complete or fail, a
\* job that is not finished stays within reach of claim: the part of JobSettles
\* that does not need fairness.
THEOREM NoJobIsStranded == Spec => []NotStranded
<1>1. RowsInv => NotStranded
  BY DEF RowsInv, RowInv, TypeOK, NotStranded, Claimable
<1> QED
  BY <1>1, RowsHold, PTL

-----------------------------------------------------------------------------
(* A job none of whose leases lapsed *)

\* A worker that executes a job none of whose leases lapsed owns it, under a
\* valid lease, or its complete() committed and raised.
OwnerInv ==
    \A w \in Workers : pc[w] \in Executing /\ lapses[cur[w]] = 0 =>
        /\ owner[cur[w]] = w
        /\ \/ status[cur[w]] = "running" /\ lease[cur[w]] = "held"
           \/ status[cur[w]] = "completed" /\ pc[w] = "fail"

\* What the rows of such a job say at each call of _process_drift_inner.
StageInv ==
    \A w \in Workers : cur[w] # None /\ lapses[cur[w]] = 0 =>
        /\ pc[w] \in {"sign", "alert_ok"} => drift[cur[w]] = "completed"
        /\ pc[w] = "alert_failed" => drift[cur[w]] = "failed"
        /\ pc[w] = "check" =>
              (drift[cur[w]] = "completed" => alert[cur[w]] = "completed")
        /\ pc[w] = "complete" =>
              drift[cur[w]] = "completed" /\ alert[cur[w]] = "completed"

IndInv == RowsInv /\ OwnerInv /\ StageInv /\ CompletedMeansDone

LEMMA IndInit == Init => IndInv
BY TypeInit DEF Init, IndInv, RowsInv, RowInv, HeldInv, RequestInv, OwnerInv, StageInv,
                CompletedMeansDone, Executing

\* Such a job is executed by at most one worker.
LEMMA OneExecutor ==
    ASSUME IndInv
    PROVE  \A w, u \in Workers :
             cur[w] # None /\ lapses[cur[w]] = 0 /\ cur[u] = cur[w] => u = w
BY DEF IndInv, RowsInv, TypeOK, OwnerInv

\* What a step of a worker in its job leaves alone.
LEMMA ExecuteFacts ==
    ASSUME TypeOK, NEW w \in Workers, Execute(w)
    PROVE  /\ pc[w] \in Executing /\ cur[w] \in Jobs
           /\ UNCHANGED <<req, owner, attempts, crashes, retries, lapses>>
           /\ \A u \in Workers : u # w => pc'[u] = pc[u] /\ cur'[u] = cur[u]
           /\ cur'[w] \in {cur[w], None}
           /\ \A k \in Jobs : k # cur[w] => /\ drift'[k] = drift[k] /\ alert'[k] = alert[k]
                                            /\ status'[k] = status[k] /\ lease'[k] = lease[k]
<1>1. pc[w] \in Executing /\ cur[w] \in Jobs
  BY DEF Execute, Compute, Sign, FailDrift, UpdateAlertStatus, CheckDrift, Complete, Fail,
         Executing, TypeOK
<1>2. UNCHANGED <<req, owner, attempts, crashes, retries, lapses>>
  BY DEF Execute, Compute, Sign, FailDrift, UpdateAlertStatus, CheckDrift, Complete, Fail, job
<1>3. PICK p \in Executing \cup {"idle"} : Goto(w, p)
  BY DEF Execute, Compute, Sign, FailDrift, UpdateAlertStatus, CheckDrift, Complete, Fail,
         Executing
<1>4. /\ \A u \in Workers : u # w => pc'[u] = pc[u] /\ cur'[u] = cur[u]
      /\ cur'[w] \in {cur[w], None}
  BY <1>3 DEF Goto, TypeOK
<1>5. \A k \in Jobs : k # cur[w] => drift'[k] = drift[k] /\ alert'[k] = alert[k]
  BY <1>1 DEF Execute, Compute, Sign, FailDrift, UpdateAlertStatus, CheckDrift, Complete,
              Fail, TypeOK
<1>6. \A k \in Jobs : k # cur[w] => status'[k] = status[k] /\ lease'[k] = lease[k]
  BY <1>1 DEF Execute, Compute, Sign, FailDrift, UpdateAlertStatus, CheckDrift, Complete,
              Fail, TypeOK, job
<1> QED
  BY <1>1, <1>2, <1>4, <1>5, <1>6

\* The request, the queue and the operator.
LEMMA QueueStep ==
    ASSUME IndInv, RowsInv', NEW j \in Jobs,
           Request(j) \/ LeaseExpires(j) \/ BecomesDue(j) \/ OperatorRetry(j)
    PROVE  IndInv'
<1> USE DEF IndInv, RowsInv, TypeOK
<1>1. CASE Request(j)
  <2>1. /\ UNCHANGED <<pc, cur, lapses>>
        /\ \A k \in Jobs : k # j => /\ drift'[k] = drift[k] /\ alert'[k] = alert[k]
                                    /\ status'[k] = status[k] /\ lease'[k] = lease[k]
                                    /\ owner'[k] = owner[k]
        /\ status[j] = "absent" /\ status'[j] \in {"absent", "queued"}
    BY <1>1 DEF Request, CreateAlert, CreateDriftJob, Enqueue, RequestFails, Queue, job,
                RequestInv
  <2>2. \A w \in Workers : cur[w] # j
    BY <2>1, AlertJobsAssumptions DEF HeldInv
  <2>3. OwnerInv' /\ StageInv'
    BY <2>1, <2>2 DEF OwnerInv, StageInv
  <2> QED
    BY <2>1, <2>3 DEF CompletedMeansDone
<1>2. CASE LeaseExpires(j)
  <2>1. /\ UNCHANGED <<pc, cur, drift, alert, status, owner>>
        /\ \A k \in Jobs : k # j => lease'[k] = lease[k] /\ lapses'[k] = lapses[k]
        /\ lapses'[j] = 0 => lapses[j] = 0
    BY <1>2 DEF LeaseExpires
  <2>2. lapses'[j] = 0 => \A w \in Workers : cur[w] # j
    <3> SUFFICES ASSUME lapses'[j] = 0, NEW w \in Workers, cur[w] = j PROVE FALSE
      OBVIOUS
    <3>1. pc[w] \in Executing /\ lapses[j] = 0
      BY <2>1, AlertJobsAssumptions
    <3>2. owner[j] = w
      BY <3>1 DEF OwnerInv
    <3>3. lapses' = [lapses EXCEPT ![j] = @ + 1]
      BY <1>2, <3>2 DEF LeaseExpires
    <3> QED
      BY <3>1, <3>3
  <2>3. OwnerInv'
    BY <2>1, <2>2 DEF OwnerInv
  <2>4. StageInv'
    BY <2>1, <2>2 DEF StageInv
  <2> QED
    BY <2>1, <2>3, <2>4 DEF CompletedMeansDone
<1>3. CASE BecomesDue(j)
  BY <1>3 DEF BecomesDue, OwnerInv, StageInv, CompletedMeansDone
<1>4. CASE OperatorRetry(j)
  <2>1. /\ UNCHANGED <<pc, cur, lapses, drift, alert>>
        /\ \A k \in Jobs : k # j => /\ status'[k] = status[k] /\ lease'[k] = lease[k]
                                    /\ owner'[k] = owner[k]
        /\ status[j] \in {"dead", "retry"} /\ status'[j] = "queued"
    BY <1>4 DEF OperatorRetry, Queue
  <2>2. lapses[j] = 0 => \A w \in Workers : cur[w] # j
    BY <2>1, AlertJobsAssumptions DEF OwnerInv
  <2>3. OwnerInv' /\ StageInv'
    BY <2>1, <2>2 DEF OwnerInv, StageInv
  <2> QED
    BY <2>1, <2>3 DEF CompletedMeansDone
<1> QED
  BY <1>1, <1>2, <1>3, <1>4

LEMMA ClaimStep ==
    ASSUME IndInv, RowsInv', NEW w \in Workers, NEW j \in Jobs, Claim(w, j)
    PROVE  IndInv'
<1> USE DEF IndInv, RowsInv, TypeOK
<1>1. lapses[j] = 0 => \A u \in Workers : cur[u] # j
  BY AlertJobsAssumptions DEF Claim, Claimable, OwnerInv
<1>2. /\ UNCHANGED <<lapses, drift, alert>>
      /\ status' = [status EXCEPT ![j] = "running"] /\ lease' = [lease EXCEPT ![j] = "held"]
      /\ owner' = [owner EXCEPT ![j] = w]
      /\ pc' = [pc EXCEPT ![w] = "compute"] /\ cur' = [cur EXCEPT ![w] = j]
  BY DEF Claim
<1>3. OwnerInv' /\ StageInv'
  <2> SUFFICES ASSUME NEW u \in Workers, cur'[u] # None, lapses'[cur'[u]] = 0
               PROVE  /\ owner'[cur'[u]] = u
                      /\ \/ status'[cur'[u]] = "running" /\ lease'[cur'[u]] = "held"
                         \/ status'[cur'[u]] = "completed" /\ pc'[u] = "fail"
                      /\ pc'[u] \in {"sign", "alert_ok"} => drift'[cur'[u]] = "completed"
                      /\ pc'[u] = "alert_failed" => drift'[cur'[u]] = "failed"
                      /\ pc'[u] = "check" => (drift'[cur'[u]] = "completed" =>
                                                 alert'[cur'[u]] = "completed")
                      /\ pc'[u] = "complete" => /\ drift'[cur'[u]] = "completed"
                                                /\ alert'[cur'[u]] = "completed"
    BY DEF OwnerInv, StageInv
  <2>1. CASE u = w
    BY <1>2, <2>1
  <2>2. CASE u # w
    <3>1. cur'[u] = cur[u] /\ pc'[u] = pc[u] /\ cur[u] # j
      BY <1>1, <1>2, <2>2
    <3> QED
      BY <1>2, <3>1 DEF OwnerInv, StageInv
  <2> QED
    BY <2>1, <2>2
<1> QED
  BY <1>2, <1>3 DEF CompletedMeansDone

LEMMA ExecuteStep ==
    ASSUME IndInv, RowsInv', NEW w \in Workers, Execute(w)
    PROVE  IndInv'
<1> USE DEF IndInv, RowsInv, TypeOK
<1> DEFINE k == cur[w]
<1>1. /\ pc[w] \in Executing /\ k \in Jobs /\ k # None
      /\ UNCHANGED <<owner, lapses>>
      /\ \A u \in Workers : u # w => pc'[u] = pc[u] /\ cur'[u] = cur[u]
      /\ cur'[w] \in {k, None}
      /\ \A i \in Jobs : i # k => /\ drift'[i] = drift[i] /\ alert'[i] = alert[i]
                                  /\ status'[i] = status[i] /\ lease'[i] = lease[i]
  BY ExecuteFacts, AlertJobsAssumptions
<1>2. lapses[k] = 0 => /\ \A u \in Workers : u # w => cur[u] # k
                       /\ owner[k] = w
                       /\ pc[w] # "fail" => status[k] = "running" /\ lease[k] = "held"
  BY <1>1, OneExecutor DEF OwnerInv
<1> HIDE DEF k
\* what becomes of the job w executes
<1>3. lapses[k] = 0 /\ cur'[w] = k =>
        /\ \/ status'[k] = "running" /\ lease'[k] = "held"
           \/ status'[k] = "completed" /\ pc'[w] = "fail"
        /\ pc'[w] \in {"sign", "alert_ok"} => drift'[k] = "completed"
        /\ pc'[w] = "alert_failed" => drift'[k] = "failed"
        /\ pc'[w] = "check" => (drift'[k] = "completed" => alert'[k] = "completed")
        /\ pc'[w] = "complete" => drift'[k] = "completed" /\ alert'[k] = "completed"
  <2> SUFFICES ASSUME lapses[k] = 0, cur'[w] = k
               PROVE  /\ \/ status'[k] = "running" /\ lease'[k] = "held"
                         \/ status'[k] = "completed" /\ pc'[w] = "fail"
                      /\ pc'[w] \in {"sign", "alert_ok"} => drift'[k] = "completed"
                      /\ pc'[w] = "alert_failed" => drift'[k] = "failed"
                      /\ pc'[w] = "check" => (drift'[k] = "completed" =>
                                                alert'[k] = "completed")
                      /\ pc'[w] = "complete" => /\ drift'[k] = "completed"
                                                /\ alert'[k] = "completed"
    OBVIOUS
  <2>1. CASE Compute(w) \/ Sign(w) \/ FailDrift(w) \/ UpdateAlertStatus(w) \/ CheckDrift(w)
    <3>1. status'[k] = "running" /\ lease'[k] = "held"
      BY <1>1, <1>2, <2>1
      DEF Compute, Sign, FailDrift, UpdateAlertStatus, CheckDrift, job
    <3> QED
      BY <1>1, <2>1, <3>1 DEF k, Compute, Sign, FailDrift, UpdateAlertStatus, CheckDrift,
                              Goto, StageInv
  <2>2. CASE Complete(w)
    <3>1. /\ pc'[w] = "fail"
          /\ status'[k] = "completed" \/ (status'[k] = status[k] /\ lease'[k] = lease[k])
      BY <1>1, <2>2, AlertJobsAssumptions DEF k, Complete, Goto, Executing
    <3>2. status[k] = "running" /\ lease[k] = "held"
      BY <1>2, <2>2 DEF Complete
    <3> QED
      BY <3>1, <3>2
  <2>3. CASE Fail(w)
    <3>1. cur'[w] = None
      BY <2>3 DEF Fail, Goto, Executing
    <3> QED
      BY <1>1, <3>1
  <2> QED
    BY <2>1, <2>2, <2>3 DEF Execute
<1>4. OwnerInv' /\ StageInv'
  <2> SUFFICES ASSUME NEW u \in Workers, cur'[u] # None, lapses'[cur'[u]] = 0
               PROVE  /\ owner'[cur'[u]] = u
                      /\ \/ status'[cur'[u]] = "running" /\ lease'[cur'[u]] = "held"
                         \/ status'[cur'[u]] = "completed" /\ pc'[u] = "fail"
                      /\ pc'[u] \in {"sign", "alert_ok"} => drift'[cur'[u]] = "completed"
                      /\ pc'[u] = "alert_failed" => drift'[cur'[u]] = "failed"
                      /\ pc'[u] = "check" => (drift'[cur'[u]] = "completed" =>
                                                 alert'[cur'[u]] = "completed")
                      /\ pc'[u] = "complete" => /\ drift'[cur'[u]] = "completed"
                                                /\ alert'[cur'[u]] = "completed"
    BY DEF OwnerInv, StageInv
  <2>1. CASE u = w
    BY <1>1, <1>2, <1>3, <2>1
  <2>2. CASE u # w
    <3>1. cur'[u] = cur[u] /\ pc'[u] = pc[u] /\ cur[u] # k /\ cur[u] \in Jobs
      BY <1>1, <1>2, <2>2
    <3> QED
      BY <1>1, <3>1 DEF OwnerInv, StageInv
  <2> QED
    BY <2>1, <2>2
<1>5. CompletedMeansDone'
  <2> SUFFICES ASSUME lapses[k] = 0, status'[k] = "completed"
               PROVE  drift'[k] = "completed" /\ alert'[k] = "completed"
    BY <1>1 DEF CompletedMeansDone
  <2>1. CASE Complete(w)
    <3>1. drift[k] = "completed" /\ alert[k] = "completed"
      BY <1>1, <2>1 DEF k, Complete, StageInv
    <3> QED
      BY <2>1, <3>1 DEF Complete
  <2>2. CASE Fail(w)
    BY <1>1, <2>2 DEF k, Fail
  <2>3. CASE Compute(w) \/ Sign(w) \/ FailDrift(w) \/ UpdateAlertStatus(w) \/ CheckDrift(w)
    BY <1>1, <1>2, <2>3 DEF Compute, Sign, FailDrift, UpdateAlertStatus, CheckDrift, job
  <2> QED
    BY <2>1, <2>2, <2>3 DEF Execute
<1> QED
  BY <1>4, <1>5

LEMMA ProcessStep ==
    ASSUME IndInv, RowsInv', NEW w \in Workers, Renew(w) \/ Crash(w) \/ Restart(w)
    PROVE  IndInv'
<1> USE DEF IndInv, RowsInv, TypeOK
<1>1. CASE Renew(w)
  BY <1>1 DEF Renew, OwnerInv, StageInv, CompletedMeansDone
<1>2. CASE Crash(w)
  <2>1. /\ UNCHANGED <<status, lease, owner, alert, drift, lapses>>
        /\ pc' = [pc EXCEPT ![w] = "down"]
        /\ cur' = [cur EXCEPT ![w] = None]
    BY <1>2 DEF Crash, Goto, Executing, job
  <2> QED
    BY <2>1 DEF OwnerInv, StageInv, CompletedMeansDone, Executing
<1>3. CASE Restart(w)
  <2>1. /\ UNCHANGED <<status, lease, owner, alert, drift, lapses>>
        /\ pc' = [pc EXCEPT ![w] = "idle"]
        /\ cur' = [cur EXCEPT ![w] = None]
    BY <1>3 DEF Restart, Goto, Executing, job
  <2> QED
    BY <2>1 DEF OwnerInv, StageInv, CompletedMeansDone, Executing
<1> QED
  BY <1>1, <1>2, <1>3

LEMMA IndStep == IndInv /\ [Next]_vars => IndInv'
<1> SUFFICES ASSUME IndInv, [Next]_vars PROVE IndInv'
  OBVIOUS
<1>1. RowsInv'
  BY RowsStep, TypeStep DEF IndInv, RowsInv
<1>2. CASE UNCHANGED vars
  BY <1>1, <1>2 DEF vars, job, IndInv, OwnerInv, StageInv, CompletedMeansDone
<1> QED
  BY <1>1, <1>2, QueueStep, ClaimStep, ExecuteStep, ProcessStep DEF Next

\* A completed job stands for a completed drift and a completed alert, whatever
\* crashed in between, unless a lease of it ran out under a live worker.
THEOREM CompletedMeansDoneHolds == Spec => []CompletedMeansDone
<1>1. IndInv => CompletedMeansDone
  BY DEF IndInv
<1> QED
  BY <1>1, IndInit, IndStep, PTL DEF Spec

\* A completed job is put back only by the fail() of a worker that still executes
\* it: one that lost its lease, or the one whose complete() committed and raised.
THEOREM CompletedIsFinalHolds == Spec => CompletedIsFinal
<1> DEFINE Left(j) == \E w \in Executors(j) : /\ pc[w] = "fail"
                                              /\ lapses[j] = 0 => owner[j] = w
           Stays == \A j \in Jobs : status[j] = "completed" /\ status'[j] # "completed" =>
                                       Left(j)
<1>1. IndInv /\ [Next]_vars => [Stays]_vars
  <2> SUFFICES ASSUME IndInv, Next, NEW j \in Jobs, status[j] = "completed",
                      status'[j] # "completed"
               PROVE  Left(j)
    OBVIOUS
  <2> USE DEF IndInv, RowsInv, TypeOK
  <2>1. ASSUME NEW k \in Jobs,
               Request(k) \/ LeaseExpires(k) \/ BecomesDue(k) \/ OperatorRetry(k)
        PROVE  FALSE
    BY <2>1 DEF Request, CreateAlert, CreateDriftJob, Enqueue, RequestFails, Queue,
                LeaseExpires, BecomesDue, OperatorRetry, job, RequestInv
  <2>2. ASSUME NEW w \in Workers, NEW k \in Jobs, Claim(w, k) PROVE FALSE
    BY <2>2 DEF Claim, Claimable
  <2>3. ASSUME NEW w \in Workers, Renew(w) \/ Crash(w) \/ Restart(w) PROVE FALSE
    BY <2>3 DEF Renew, Crash, Restart, job
  <2>4. ASSUME NEW w \in Workers, Execute(w) PROVE Left(j)
    <3>1. cur[w] = j /\ pc[w] \in Executing
      BY <2>4, ExecuteFacts
    <3>2. pc[w] = "fail"
      BY <2>4, <3>1 DEF Execute, Compute, Sign, FailDrift, UpdateAlertStatus, CheckDrift,
                        Complete, Fail, job
    <3>3. lapses[j] = 0 => owner[j] = w
      BY <3>1 DEF OwnerInv
    <3> QED
      BY <3>1, <3>2, <3>3 DEF Executors
  <2> HIDE DEF Left
  <2> QED
    BY <2>1, <2>2, <2>3, <2>4 DEF Next
<1> QED
  BY <1>1, IndInit, IndStep, PTL DEF Spec, CompletedIsFinal

-----------------------------------------------------------------------------
(* How many workers execute a job, and how often it is attempted *)

\* The lease of a running job is that of a worker which executes it.
Held(j) == status[j] = "running" /\ lease[j] = "held" /\ owner[j] \in Executors(j)

\* A worker more than leases that lapsed executes a job only while one of them
\* holds its lease, or when it is completed and they have yet to notice; and each
\* attempt beyond the limit follows a crash or a lapse.
Bounded(j) ==
    /\ IsFiniteSet(Executors(j))
    /\ Cardinality(Executors(j)) <= lapses[j] + 1
    /\ status[j] # "completed" /\ ~Held(j) => Cardinality(Executors(j)) <= lapses[j]
    /\ attempts[j] <= MaxAttempts + crashes + lapses[j]
    /\ status[j] \in {"absent", "queued", "retry"} =>
          attempts[j] < MaxAttempts + crashes + lapses[j]
    /\ status[j] = "running" /\ ~Held(j) => attempts[j] < MaxAttempts + crashes + lapses[j]

BoundsInv == \A j \in Jobs : Bounded(j)

\* A job nobody wrote and nobody joined or left stays within its bounds.
LEMMA OthersBounded ==
    ASSUME TypeOK, TypeOK', NEW j \in Jobs, Bounded(j), crashes' >= crashes,
           Executors(j)' = Executors(j), lapses'[j] = lapses[j], attempts'[j] = attempts[j],
           status'[j] = status[j], lease'[j] = lease[j], owner'[j] = owner[j]
    PROVE  Bounded(j)'
<1>1. /\ attempts[j] \in Nat /\ lapses[j] \in Nat /\ crashes \in Nat /\ crashes' \in Nat
      /\ MaxAttempts \in Nat
  BY AlertJobsAssumptions DEF TypeOK
<1>2. Held(j)' <=> Held(j)
  BY DEF Held
<1> QED
  BY <1>1, <1>2 DEF Bounded

\* A worker that leaves a job nobody else writes, by reporting or by dying.
LEMMA LeaverBounded ==
    ASSUME TypeOK, TypeOK', NEW w \in Workers, NEW j \in Jobs, Bounded(j), cur[w] = j,
           Executors(j)' = Executors(j) \ {w}, lapses'[j] = lapses[j],
           attempts'[j] = attempts[j],
           \/ crashes' = crashes + 1 /\ status'[j] = status[j]
           \/ /\ crashes' = crashes
              /\ status'[j] \in {"completed", "dead", "retry"}
              /\ status'[j] = "retry" => attempts[j] < MaxAttempts
    PROVE  Bounded(j)'
<1>1. /\ attempts[j] \in Nat /\ lapses[j] \in Nat /\ crashes \in Nat /\ crashes' \in Nat
      /\ MaxAttempts \in Nat
  BY AlertJobsAssumptions DEF TypeOK
<1>2. w \in Executors(j) /\ IsFiniteSet(Executors(j))
  BY DEF Executors, Bounded
<1>3. /\ IsFiniteSet(Executors(j)') /\ Cardinality(Executors(j)) \in Nat
      /\ Cardinality(Executors(j)') = Cardinality(Executors(j)) - 1
  BY <1>2, FS_RemoveElement, FS_CardinalityType
<1> QED
  BY <1>1, <1>3 DEF Bounded

\* The request, the queue and the operator.
LEMMA QueueBounded ==
    ASSUME RowsInv, TypeOK', BoundsInv, NEW i \in Jobs,
           Request(i) \/ LeaseExpires(i) \/ BecomesDue(i) \/ OperatorRetry(i)
    PROVE  BoundsInv'
<1> SUFFICES ASSUME NEW j \in Jobs PROVE Bounded(j)'
  BY DEF BoundsInv
<1>1. /\ TypeOK /\ Bounded(j) /\ RequestInv
      /\ attempts[j] \in Nat /\ lapses[j] \in Nat /\ crashes \in Nat
      /\ MaxAttempts \in Nat \ {0}
  BY AlertJobsAssumptions DEF RowsInv, TypeOK, BoundsInv
<1>2. UNCHANGED <<cur, crashes>>
  BY DEF Request, CreateAlert, CreateDriftJob, Enqueue, RequestFails, LeaseExpires, BecomesDue,
         OperatorRetry
<1>3. Executors(j)' = Executors(j)
  BY <1>2 DEF Executors
<1>4. CASE UNCHANGED <<status, attempts, lease, owner, lapses>>
  BY <1>1, <1>2, <1>3, <1>4, OthersBounded
<1>5. CASE Enqueue(i) \/ OperatorRetry(i)
  <2>1. Queue(i) /\ UNCHANGED lapses /\ status[i] \in {"absent", "dead", "retry"}
    BY <1>1, <1>5 DEF Enqueue, OperatorRetry, RequestInv, RowsInv, TypeOK, JobStatus
  <2>2. CASE i = j
    <3>1. status'[j] = "queued" /\ attempts'[j] = 0
      BY <1>1, <2>1, <2>2 DEF Queue, TypeOK
    <3>2. ~Held(j)
      BY <2>1, <2>2 DEF Held
    <3>3. Cardinality(Executors(j)) <= lapses[j]
      BY <1>1, <2>1, <2>2, <3>2 DEF Bounded
    <3> QED
      BY <1>1, <1>2, <1>3, <2>1, <3>1, <3>3 DEF Bounded
  <2>3. CASE i # j
    <3>1. /\ lapses'[j] = lapses[j] /\ attempts'[j] = attempts[j] /\ status'[j] = status[j]
          /\ lease'[j] = lease[j] /\ owner'[j] = owner[j]
      BY <1>1, <2>1, <2>3 DEF Queue, TypeOK
    <3> QED
      BY <1>1, <1>2, <1>3, <3>1, OthersBounded
  <2> QED
    BY <2>2, <2>3
<1>6. CASE LeaseExpires(i)
  <2>1. /\ UNCHANGED <<status, attempts, owner>> /\ lease[i] = "held"
        /\ lease' = [lease EXCEPT ![i] = "expired"]
    BY <1>6 DEF LeaseExpires
  <2>2. CASE i # j
    <3>1. lapses'[j] = lapses[j] /\ lease'[j] = lease[j]
      BY <1>1, <1>6, <2>1, <2>2 DEF LeaseExpires, TypeOK
    <3> QED
      BY <1>1, <1>2, <1>3, <2>1, <3>1, OthersBounded
  <2>3. CASE i = j /\ Held(j)
    <3>1. lapses'[j] = lapses[j] + 1
      BY <1>1, <1>6, <2>3 DEF LeaseExpires, Held, Executors, TypeOK
    <3>2. Cardinality(Executors(j)) \in Nat
      BY <1>1, FS_CardinalityType DEF Bounded
    <3> QED
      BY <1>1, <1>2, <1>3, <2>1, <2>3, <3>1, <3>2 DEF Bounded, Held
  <2>4. CASE i = j /\ ~Held(j)
    <3>1. ~\E w \in Workers : owner[j] = w /\ cur[w] = j
      BY <1>1, <2>1, <2>4 DEF Held, Executors, RowsInv, RowInv, TypeOK
    <3>2. lapses'[j] = lapses[j]
      BY <1>6, <2>4, <3>1 DEF LeaseExpires
    <3> QED
      BY <1>1, <1>2, <1>3, <2>1, <2>4, <3>2 DEF Bounded, Held
  <2> QED
    BY <2>2, <2>3, <2>4
<1> QED
  BY <1>4, <1>5, <1>6 DEF Request, CreateAlert, CreateDriftJob, RequestFails, BecomesDue, job

LEMMA ClaimBounded ==
    ASSUME RowsInv, TypeOK', BoundsInv, NEW w \in Workers, NEW i \in Jobs, Claim(w, i)
    PROVE  BoundsInv'
<1> SUFFICES ASSUME NEW j \in Jobs PROVE Bounded(j)'
  BY DEF BoundsInv
<1>1. /\ TypeOK /\ Bounded(j)
      /\ attempts[j] \in Nat /\ lapses[j] \in Nat /\ crashes \in Nat
      /\ MaxAttempts \in Nat
  BY AlertJobsAssumptions DEF RowsInv, TypeOK, BoundsInv
<1>2. /\ cur' = [cur EXCEPT ![w] = i] /\ owner' = [owner EXCEPT ![i] = w]
      /\ status' = [status EXCEPT ![i] = "running"] /\ lease' = [lease EXCEPT ![i] = "held"]
      /\ attempts' = [attempts EXCEPT ![i] = @ + 1] /\ UNCHANGED <<lapses, crashes>>
  BY DEF Claim
<1>3. cur[w] \notin Jobs
  BY <1>1, AlertJobsAssumptions DEF Claim, TypeOK, Executing
<1>4. CASE i # j
  <2>1. Executors(j)' = Executors(j)
    BY <1>1, <1>2, <1>3, <1>4 DEF Executors, TypeOK
  <2>2. /\ lapses'[j] = lapses[j] /\ attempts'[j] = attempts[j] /\ status'[j] = status[j]
        /\ lease'[j] = lease[j] /\ owner'[j] = owner[j]
    BY <1>1, <1>2, <1>4 DEF TypeOK
  <2> QED
    BY <1>1, <1>2, <2>1, <2>2, OthersBounded
<1>5. CASE i = j
  <2>1. Executors(j)' = Executors(j) \cup {w}
    BY <1>1, <1>2, <1>5 DEF Executors, TypeOK
  <2>2. IsFiniteSet(Executors(j)) /\ status[j] # "completed" /\ ~Held(j)
    BY <1>1, <1>5 DEF Claim, Claimable, Bounded, Held
  <2>3. /\ IsFiniteSet(Executors(j)')
        /\ Cardinality(Executors(j)') \in {Cardinality(Executors(j)),
                                           Cardinality(Executors(j)) + 1}
    BY <2>1, <2>2, FS_AddElement
  <2>4. Cardinality(Executors(j)) \in Nat /\ Cardinality(Executors(j)) <= lapses[j]
    BY <1>1, <2>2, FS_CardinalityType DEF Bounded
  <2>5. Held(j)'
    BY <1>1, <1>2, <1>5, <2>1 DEF Held, TypeOK
  <2>6. attempts'[j] = attempts[j] + 1 /\ status'[j] = "running"
    BY <1>1, <1>2, <1>5 DEF TypeOK
  <2>7. attempts[j] < MaxAttempts + crashes + lapses[j]
    BY <1>1, <1>5, <2>2 DEF Claim, Claimable, Bounded
  <2> QED
    BY <1>1, <1>2, <2>3, <2>4, <2>5, <2>6, <2>7 DEF Bounded
<1> QED
  BY <1>4, <1>5

LEMMA ExecuteBounded ==
    ASSUME RowsInv, TypeOK', BoundsInv, NEW w \in Workers, Execute(w)
    PROVE  BoundsInv'
<1> SUFFICES ASSUME NEW j \in Jobs PROVE Bounded(j)'
  BY DEF BoundsInv
<1>1. /\ TypeOK /\ Bounded(j)
      /\ attempts[j] \in Nat /\ lapses[j] \in Nat /\ crashes \in Nat
      /\ MaxAttempts \in Nat
  BY AlertJobsAssumptions DEF RowsInv, TypeOK, BoundsInv
<1>2. /\ pc[w] \in Executing /\ cur[w] \in Jobs /\ cur[w] # None
      /\ UNCHANGED <<owner, attempts, crashes, lapses>>
      /\ \A u \in Workers : u # w => cur'[u] = cur[u]
      /\ cur'[w] \in {cur[w], None}
      /\ j # cur[w] => status'[j] = status[j] /\ lease'[j] = lease[j]
  BY <1>1, ExecuteFacts, AlertJobsAssumptions
<1>3. CASE j # cur[w]
  <2>1. Executors(j)' = Executors(j)
    BY <1>2, <1>3, AlertJobsAssumptions DEF Executors
  <2> QED
    BY <1>1, <1>2, <1>3, <2>1, OthersBounded
<1>4. CASE j = cur[w] /\ cur'[w] = j
  <2>1. Executors(j)' = Executors(j)
    BY <1>2, <1>4 DEF Executors
  <2>2. \/ status'[j] = status[j] /\ lease'[j] = lease[j]
        \/ status'[j] = "completed"
    <3>1. ~Fail(w)
      BY <1>2, <1>4 DEF Fail, Goto, Executing, TypeOK
    <3>2. CASE Complete(w)
      BY <1>1, <1>4, <3>2 DEF Complete, TypeOK
    <3> QED
      BY <3>1, <3>2 DEF Execute, Compute, Sign, FailDrift, UpdateAlertStatus, CheckDrift, job
  <2> QED
    BY <1>1, <1>2, <2>1, <2>2, OthersBounded DEF Bounded
<1>5. CASE j = cur[w] /\ cur'[w] = None
  <2>1. Executors(j)' = Executors(j) \ {w}
    BY <1>2, <1>5 DEF Executors
  <2>2. Complete(w) \/ Fail(w)
    <3>1. pc[w] \in {"complete", "fail"}
      BY <1>2, <1>5 DEF Execute, Compute, Sign, FailDrift, UpdateAlertStatus, CheckDrift,
                        Complete, Fail, Goto, Executing, TypeOK
    <3> QED
      BY <3>1 DEF Execute, Compute, Sign, FailDrift, UpdateAlertStatus, CheckDrift
  <2>3. /\ status'[j] \in {"completed", "dead", "retry"}
        /\ status'[j] = "retry" => attempts[j] < MaxAttempts
    <3>1. CASE Complete(w)
      BY <1>1, <1>2, <1>5, <3>1 DEF Complete, Goto, Executing, TypeOK
    <3>2. CASE Fail(w)
      BY <1>1, <1>5, <3>2 DEF Fail, TypeOK
    <3> QED
      BY <2>2, <3>1, <3>2
  <2> QED
    BY <1>1, <1>2, <1>5, <2>1, <2>3, LeaverBounded
<1> QED
  BY <1>2, <1>3, <1>4, <1>5

LEMMA ProcessBounded ==
    ASSUME RowsInv, TypeOK', BoundsInv, NEW w \in Workers, Renew(w) \/ Crash(w) \/ Restart(w)
    PROVE  BoundsInv'
<1> SUFFICES ASSUME NEW j \in Jobs PROVE Bounded(j)'
  BY DEF BoundsInv
<1>1. /\ TypeOK /\ Bounded(j)
      /\ attempts[j] \in Nat /\ lapses[j] \in Nat /\ crashes \in Nat
      /\ MaxAttempts \in Nat
  BY AlertJobsAssumptions DEF RowsInv, TypeOK, BoundsInv
<1>2. CASE Renew(w)
  <2>1. /\ UNCHANGED <<cur, owner, status, attempts, lapses, crashes>>
        /\ cur[w] \in Jobs /\ lease' = [lease EXCEPT ![cur[w]] = "held"]
        /\ status[cur[w]] = "running" /\ owner[cur[w]] = w
    BY <1>1, <1>2 DEF Renew, TypeOK
  <2>2. Executors(j)' = Executors(j)
    BY <2>1 DEF Executors
  <2>3. Held(j) => Held(j)'
    BY <1>1, <2>1, <2>2 DEF Held, TypeOK
  <2> QED
    BY <1>1, <2>1, <2>2, <2>3 DEF Bounded
<1>3. CASE Crash(w)
  <2>1. /\ crashes' = crashes + 1 /\ cur' = [cur EXCEPT ![w] = None]
        /\ UNCHANGED <<status, lease, owner, attempts, lapses>>
    BY <1>3 DEF Crash, Goto, Executing, job
  <2>2. CASE cur[w] = j
    <3>1. Executors(j)' = Executors(j) \ {w}
      BY <1>1, <2>1, <2>2, AlertJobsAssumptions DEF Executors, TypeOK
    <3> QED
      BY <1>1, <2>1, <2>2, <3>1, LeaverBounded
  <2>3. CASE cur[w] # j
    <3>1. Executors(j)' = Executors(j)
      BY <1>1, <2>1, <2>3, AlertJobsAssumptions DEF Executors, TypeOK
    <3> QED
      BY <1>1, <2>1, <3>1, OthersBounded
  <2> QED
    BY <2>2, <2>3
<1>4. CASE Restart(w)
  <2>1. /\ pc[w] = "down" /\ cur' = [cur EXCEPT ![w] = None]
        /\ UNCHANGED <<status, lease, owner, attempts, lapses, crashes>>
    BY <1>4 DEF Restart, Goto, Executing, job
  <2>2. Executors(j)' = Executors(j)
    BY <1>1, <2>1, AlertJobsAssumptions DEF Executors, TypeOK, Executing
  <2> QED
    BY <1>1, <2>1, <2>2, OthersBounded
<1> QED
  BY <1>2, <1>3, <1>4

\* Every job stays within its bounds.
LEMMA BoundsHold == Spec => []BoundsInv
<1>1. Init => BoundsInv
  <2> SUFFICES ASSUME Init, NEW j \in Jobs PROVE Bounded(j)
    BY DEF BoundsInv
  <2>1. Executors(j) = {}
    BY AlertJobsAssumptions DEF Init, Executors
  <2> QED
    BY <2>1, FS_EmptySet, AlertJobsAssumptions DEF Init, Bounded
<1>2. RowsInv /\ BoundsInv /\ [Next]_vars => BoundsInv'
  <2> SUFFICES ASSUME RowsInv, BoundsInv, [Next]_vars PROVE BoundsInv'
    OBVIOUS
  <2>1. TypeOK'
    BY TypeStep DEF RowsInv
  <2>2. CASE UNCHANGED vars
    BY <2>2 DEF vars, job, BoundsInv, Bounded, Held, Executors
  <2> QED
    BY <2>1, <2>2, QueueBounded, ClaimBounded, ExecuteBounded, ProcessBounded DEF Next
<1> QED
  BY <1>1, <1>2, RowsHold, PTL DEF Spec

\* However many leases ran out under live workers, and whatever those workers
\* still report, each lapse lets in one more executor and no more.
THEOREM ExclusiveExecutionHolds == Spec => []ExclusiveExecution
<1>1. TypeOK /\ BoundsInv => ExclusiveExecution
  <2> SUFFICES ASSUME TypeOK, BoundsInv, NEW j \in Jobs
               PROVE  Cardinality(Executors(j)) <= 1 + lapses[j]
    BY DEF ExclusiveExecution
  <2>1. Bounded(j) /\ Cardinality(Executors(j)) \in Nat /\ lapses[j] \in Nat
    BY FS_CardinalityType DEF BoundsInv, Bounded, TypeOK
  <2> QED
    BY <2>1 DEF Bounded
<1> QED
  BY <1>1, TypeCorrect, BoundsHold, PTL

\* A job is attempted more often than JOB_MAX_ATTEMPTS only when workers died or
\* lost leases, and by no more than the number of times that happened.
THEOREM AttemptsExplainedHolds == Spec => []AttemptsExplained
<1>1. BoundsInv => AttemptsExplained
  BY DEF BoundsInv, Bounded, AttemptsExplained
<1> QED
  BY <1>1, BoundsHold, PTL

=============================================================================
