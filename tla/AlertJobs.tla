----------------------------- MODULE AlertJobs ------------------------------
(***************************************************************************)
(* A distress alert in queue mode: POST /api/v1/alert writes the alert,    *)
(* the drift row and the job (core/api/routes/alerts.py, core/jobs.py),    *)
(* and worker processes claim the job under a lease, compute the drift and *)
(* settle alert, drift and job (core/worker.py, core/db/store.py).         *)
(*                                                                         *)
(* Each database call is its own transaction and may raise, before or      *)
(* after it committed; a worker may die between any two calls, and a live  *)
(* one may lose its lease.  Time is abstracted to the two facts the code   *)
(* asks about it: whether a backoff is over and whether a lease has run    *)
(* out.                                                                    *)
(*                                                                         *)
(* A call that commits and then raises is the call followed by the failure *)
(* of the next one, or by the end of the process, except for complete.     *)
(***************************************************************************)
EXTENDS Integers, FiniteSets

CONSTANTS
    Jobs,         \* job ids; an alert, its drift and its job share one id
    Workers,      \* worker processes
    None,         \* SQL NULL
    MaxAttempts,  \* JOB_MAX_ATTEMPTS
    MaxLapses,    \* bound: leases of a job that run out under a live worker
    MaxCrashes,   \* bound: worker crashes
    MaxRetries    \* bound: operator retries

ASSUME AlertJobsAssumptions ==
    /\ MaxAttempts \in Nat \ {0}
    /\ MaxLapses \in Nat
    /\ MaxCrashes \in Nat
    /\ MaxRetries \in Nat
    /\ None \notin Workers /\ None \notin Jobs

VARIABLES
    req,      \* progress of the create_alert request
    alert,    \* alert_events.status
    drift,    \* drift_results.status
    status,   \* the row of jobs: status,
    attempts, \*   attempts,
    due,      \*   available_at <= now,
    lease,    \*   lease_until: NULL, in the future, in the past,
    owner,    \*   and worker_id
    pc,       \* the next call of a worker
    cur,      \* the job a worker executes
    crashes,
    retries,
    lapses    \* leases of a job that ran out while their owner executed it

job  == <<status, attempts, due, lease, owner>>
vars == <<req, alert, drift, job, pc, cur, crashes, retries, lapses>>

JobStatus == {"absent", "queued", "running", "retry", "completed", "dead"}
Executing == {"compute", "sign", "fail_drift", "alert_ok", "alert_failed",
              "check", "complete", "fail"}

TypeOK ==
    /\ req \in [Jobs -> {"new", "alert", "drift", "done", "error"}]
    /\ alert \in [Jobs -> {"absent", "processing", "completed", "failed"}]
    /\ drift \in [Jobs -> {"absent", "computing", "completed", "failed"}]
    /\ status \in [Jobs -> JobStatus]
    /\ attempts \in [Jobs -> Nat]
    /\ due \in [Jobs -> BOOLEAN]
    /\ lease \in [Jobs -> {"none", "held", "expired"}]
    /\ owner \in [Jobs -> Workers \cup {None}]
    /\ pc \in [Workers -> Executing \cup {"idle", "down"}]
    /\ cur \in [Workers -> Jobs \cup {None}]
    /\ crashes \in 0 .. MaxCrashes
    /\ retries \in 0 .. MaxRetries
    /\ lapses \in [Jobs -> 0 .. MaxLapses]
    /\ \A w \in Workers : cur[w] # None <=> pc[w] \in Executing

Init ==
    /\ req = [j \in Jobs |-> "new"]
    /\ alert = [j \in Jobs |-> "absent"]
    /\ drift = [j \in Jobs |-> "absent"]
    /\ status = [j \in Jobs |-> "absent"]
    /\ attempts = [j \in Jobs |-> 0]
    /\ due = [j \in Jobs |-> FALSE]
    /\ lease = [j \in Jobs |-> "none"]
    /\ owner = [j \in Jobs |-> None]
    /\ pc = [w \in Workers |-> "idle"]
    /\ cur = [w \in Workers |-> None]
    /\ crashes = 0
    /\ retries = 0
    /\ lapses = [j \in Jobs |-> 0]

-----------------------------------------------------------------------------
(* The request: create_alert, create_drift_job, enqueue, in this order *)

\* A job as enqueue inserts it and as an operator's retry leaves it.
Queue(j) ==
    /\ status' = [status EXCEPT ![j] = "queued"]
    /\ attempts' = [attempts EXCEPT ![j] = 0]
    /\ due' = [due EXCEPT ![j] = TRUE]
    /\ lease' = [lease EXCEPT ![j] = "none"]
    /\ owner' = [owner EXCEPT ![j] = None]

CreateAlert(j) ==
    /\ req[j] = "new"
    /\ req' = [req EXCEPT ![j] = "alert"]
    /\ alert' = [alert EXCEPT ![j] = "processing"]
    /\ UNCHANGED <<drift, job, pc, cur, crashes, retries, lapses>>

CreateDriftJob(j) ==
    /\ req[j] = "alert"
    /\ req' = [req EXCEPT ![j] = "drift"]
    /\ drift' = [drift EXCEPT ![j] = "computing"]
    /\ UNCHANGED <<alert, job, pc, cur, crashes, retries, lapses>>

\* sign_and_store swallows its errors, so the enqueue follows the drift row.
Enqueue(j) ==
    /\ req[j] = "drift"
    /\ req' = [req EXCEPT ![j] = "done"]
    /\ Queue(j)
    /\ UNCHANGED <<alert, drift, pc, cur, crashes, retries, lapses>>

\* A call raises or the API process dies: the rows written so far remain.
RequestFails(j) ==
    /\ req[j] \in {"new", "alert", "drift"}
    /\ req' = [req EXCEPT ![j] = "error"]
    /\ UNCHANGED <<alert, drift, job, pc, cur, crashes, retries, lapses>>

-----------------------------------------------------------------------------
(* The queue *)

\* Mutant: the lease is not looked at.
ClaimableLeased(j) ==
    /\ status[j] \in {"queued", "retry", "running"}
    /\ due[j]

\* Mutant: a running job is never taken over.
ClaimableWaiting(j) ==
    /\ status[j] \in {"queued", "retry"}
    /\ due[j]
    /\ lease[j] \in {"none", "expired"}

\* The row claim selects: waiting or abandoned, due, and under no valid lease.
Claimable(j) ==
    /\ status[j] \in {"queued", "retry", "running"}
    /\ due[j]
    /\ lease[j] \in {"none", "expired"}

Claim(w, j) ==
    /\ pc[w] = "idle"
    /\ Claimable(j)
    /\ status' = [status EXCEPT ![j] = "running"]
    /\ attempts' = [attempts EXCEPT ![j] = @ + 1]
    /\ lease' = [lease EXCEPT ![j] = "held"]
    /\ owner' = [owner EXCEPT ![j] = w]
    /\ pc' = [pc EXCEPT ![w] = "compute"]
    /\ cur' = [cur EXCEPT ![w] = j]
    /\ UNCHANGED <<req, alert, drift, due, crashes, retries, lapses>>

\* The keep_alive thread of the worker: renew.
Renew(w) ==
    /\ pc[w] \in Executing
    /\ status[cur[w]] = "running" /\ owner[cur[w]] = w
    /\ lease' = [lease EXCEPT ![cur[w]] = "held"]
    /\ UNCHANGED <<req, alert, drift, status, attempts, due, owner, pc, cur, crashes, retries, lapses>>

\* JOB_LEASE_SECONDS passed without a renewal: the owner is gone, or it executes
\* the job and its keep_alive thread came late, or died on an exception of renew
\* or heartbeat.
LeaseExpires(j) ==
    /\ lease[j] = "held"
    /\ lease' = [lease EXCEPT ![j] = "expired"]
    /\ IF \E w \in Workers : owner[j] = w /\ cur[w] = j
       THEN lapses[j] < MaxLapses /\ lapses' = [lapses EXCEPT ![j] = @ + 1]
       ELSE UNCHANGED lapses
    /\ UNCHANGED <<req, alert, drift, status, attempts, due, owner, pc, cur, crashes, retries>>

\* The backoff fail() set is over.
BecomesDue(j) ==
    /\ status[j] = "retry" /\ ~due[j]
    /\ due' = [due EXCEPT ![j] = TRUE]
    /\ UNCHANGED <<req, alert, drift, status, attempts, lease, owner, pc, cur, crashes, retries, lapses>>

\* Mutant: any job that is not running can be retried.
OperatorRetryAny(j) ==
    /\ retries < MaxRetries
    /\ status[j] \in {"dead", "retry", "completed"}
    /\ Queue(j)
    /\ retries' = retries + 1
    /\ UNCHANGED <<req, alert, drift, pc, cur, crashes, lapses>>

\* POST /api/v1/jobs/{job_id}/retry
OperatorRetry(j) ==
    /\ retries < MaxRetries
    /\ status[j] \in {"dead", "retry"}
    /\ Queue(j)
    /\ retries' = retries + 1
    /\ UNCHANGED <<req, alert, drift, pc, cur, crashes, lapses>>

-----------------------------------------------------------------------------
(* The worker: execute -> _process_drift_inner, then complete or fail *)

\* The worker's next call; back in its loop it holds no job.
Goto(w, p) ==
    /\ pc' = [pc EXCEPT ![w] = p]
    /\ cur' = [cur EXCEPT ![w] = IF p \in Executing THEN @ ELSE None]

\* engine.compute, then complete_drift_job; either may raise.
Compute(w) ==
    /\ pc[w] = "compute"
    /\ \/ /\ drift' = [drift EXCEPT ![cur[w]] = "completed"]
          /\ Goto(w, "sign")
       \/ /\ Goto(w, "fail_drift")
          /\ UNCHANGED drift
    /\ UNCHANGED <<req, alert, job, crashes, retries, lapses>>

\* sign_and_broadcast: an exception here fails the drift that just completed.
Sign(w) ==
    /\ pc[w] = "sign"
    /\ \E p \in {"alert_ok", "fail_drift"} : Goto(w, p)
    /\ UNCHANGED <<req, alert, drift, job, crashes, retries, lapses>>

\* fail_drift_job; when it raises, execute raises.
FailDrift(w) ==
    /\ pc[w] = "fail_drift"
    /\ \/ /\ drift' = [drift EXCEPT ![cur[w]] = "failed"]
          /\ Goto(w, "alert_failed")
       \/ /\ Goto(w, "fail")
          /\ UNCHANGED drift
    /\ UNCHANGED <<req, alert, job, crashes, retries, lapses>>

\* update_alert_status with the outcome; when it raises, execute raises.
UpdateAlertStatus(w) ==
    /\ pc[w] \in {"alert_ok", "alert_failed"}
    /\ \/ /\ alert' = [alert EXCEPT ![cur[w]] =
                          IF pc[w] = "alert_ok" THEN "completed" ELSE "failed"]
          /\ Goto(w, "check")
       \/ /\ Goto(w, "fail")
          /\ UNCHANGED alert
    /\ UNCHANGED <<req, drift, job, crashes, retries, lapses>>

\* Mutant: the outcome is not looked at.
CheckNothing(w) ==
    /\ pc[w] = "check"
    /\ Goto(w, "complete")
    /\ UNCHANGED <<req, alert, drift, job, crashes, retries, lapses>>

\* execute reads the drift row back and raises unless it is completed.
CheckDrift(w) ==
    /\ pc[w] = "check"
    /\ Goto(w, IF drift[cur[w]] = "completed" THEN "complete" ELSE "fail")
    /\ UNCHANGED <<req, alert, drift, job, crashes, retries, lapses>>

\* complete: no check that the worker still owns the job.  When it commits and
\* raises, run calls fail for the completed job.
Complete(w) ==
    /\ pc[w] = "complete"
    /\ \/ /\ status' = [status EXCEPT ![cur[w]] = "completed"]
          /\ lease' = [lease EXCEPT ![cur[w]] = "none"]
          /\ \E p \in {"idle", "fail"} : Goto(w, p)
       \/ /\ Goto(w, "fail")
          /\ UNCHANGED <<status, lease>>
    /\ UNCHANGED <<req, alert, drift, attempts, due, owner, crashes, retries, lapses>>

\* fail: no check that the worker still owns the job, or of its status.
Fail(w) ==
    /\ pc[w] = "fail"
    /\ IF attempts[cur[w]] >= MaxAttempts
       THEN status' = [status EXCEPT ![cur[w]] = "dead"] /\ UNCHANGED due
       ELSE /\ status' = [status EXCEPT ![cur[w]] = "retry"]
            /\ due' = [due EXCEPT ![cur[w]] = FALSE]
    /\ lease' = [lease EXCEPT ![cur[w]] = "none"]
    /\ Goto(w, "idle")
    /\ UNCHANGED <<req, alert, drift, attempts, owner, crashes, retries, lapses>>

\* The process dies: killed, or an exception of claim or fail leaves run().
Crash(w) ==
    /\ pc[w] # "down"
    /\ crashes < MaxCrashes
    /\ crashes' = crashes + 1
    /\ Goto(w, "down")
    /\ UNCHANGED <<req, alert, drift, job, retries, lapses>>

Restart(w) ==
    /\ pc[w] = "down"
    /\ Goto(w, "idle")
    /\ UNCHANGED <<req, alert, drift, job, crashes, retries, lapses>>

-----------------------------------------------------------------------------
Request(j) == CreateAlert(j) \/ CreateDriftJob(j) \/ Enqueue(j) \/ RequestFails(j)

Execute(w) == \/ Compute(w) \/ Sign(w) \/ FailDrift(w) \/ UpdateAlertStatus(w)
              \/ CheckDrift(w) \/ Complete(w) \/ Fail(w)

Next ==
    \/ \E j \in Jobs : Request(j) \/ LeaseExpires(j) \/ BecomesDue(j) \/ OperatorRetry(j)
    \/ \E w \in Workers : \/ \E j \in Jobs : Claim(w, j)
                          \/ Renew(w)
                          \/ Execute(w)
                          \/ Crash(w)
                          \/ Restart(w)

Spec == Init /\ [][Next]_vars

\* Worker loops run on, dead workers are restarted by the supervisor, and
\* clocks advance: backoffs end and unrenewed leases run out.
Fairness ==
    /\ \A w \in Workers : /\ WF_vars(Execute(w))
                          /\ WF_vars(Restart(w))
                          /\ WF_vars(\E j \in Jobs : Claim(w, j))
    /\ \A j \in Jobs : WF_vars(LeaseExpires(j)) /\ WF_vars(BecomesDue(j))

FairSpec == Spec /\ Fairness

-----------------------------------------------------------------------------
(* Properties *)

\* A lease keeps a job to one worker: beyond one, a job has at most as many
\* executors as leases of it ran out under a live worker, however the late ones
\* report and whoever claims in between (claim, renew).
Executors(j) == {w \in Workers : cur[w] = j}

ExclusiveExecution == \A j \in Jobs : Cardinality(Executors(j)) <= 1 + lapses[j]

\* A completed job is backed by what it was to produce, unless a lease of it ran
\* out under a live worker: the drift and the alert are completed too, and no
\* later step of any worker takes that back.
CompletedMeansDone ==
    \A j \in Jobs : status[j] = "completed" /\ lapses[j] = 0 =>
        drift[j] = "completed" /\ alert[j] = "completed"

\* "Only failed jobs can be retried" (jobs.retry), and claim does not look at
\* completed ones: a job leaves that status only by the fail() of a worker that
\* still executes it, either one that lost its lease or the very worker whose
\* complete() committed and raised.
CompletedIsFinal ==
    [][\A j \in Jobs : status[j] = "completed" /\ status'[j] # "completed" =>
          \E w \in Executors(j) : /\ pc[w] = "fail"
                                  /\ lapses[j] = 0 => owner[j] = w]_vars

\* Attempts beyond the limit come from worker crashes and lapsed leases only: an
\* attempt that ends in an exception is counted and the last one makes the job
\* dead.
AttemptsExplained == \A j \in Jobs : attempts[j] <= MaxAttempts + crashes + lapses[j]

\* A worker never meets a job whose alert or drift row is missing: the request
\* writes both before it enqueues.
JobBacked ==
    \A j \in Jobs : status[j] # "absent" =>
        alert[j] # "absent" /\ drift[j] # "absent"

\* Every enqueued job is completed or becomes dead in the end, over worker
\* crashes and failing transactions.
JobSettles ==
    \A j \in Jobs : status[j] # "absent" ~> status[j] \in {"completed", "dead"}
=============================================================================
