--------------------------- MODULE DriftRequests ---------------------------
(***************************************************************************)
(* Automatic drift of one distress event: who asks for it                  *)
(* (core/intel/drift_service, drift_watchdog, drift_refresher and the      *)
(* auto-drift route), the background runs, the drift job rows, the event's *)
(* drift metadata in memory and in its database row, and the incident's    *)
(* current_drift_id (core/intel/drift_ownership).                          *)
(*                                                                         *)
(* Three callers launch runs: the HTTP route, the refresher thread and the *)
(* watchdog job, which decides on rows it read before.  The event may      *)
(* leave the bounded deque, be moved by image OCR, or be concluded         *)
(* meanwhile, and the process may restart.                                 *)
(*                                                                         *)
(* Events share only the slots, so one event is modelled; where it lies is *)
(* left out.  A database transaction is one step; so are update_metadata   *)
(* and enrich_location, whose own interleavings are the subject of         *)
(* IntelStore.                                                             *)
(***************************************************************************)
EXTENDS Integers, Sequences, FiniteSets

CONSTANTS Slots,       \* MAX_CONCURRENT_DRIFTS
          MaxRuns,     \* bound on the runs launched
          MaxMoves,    \* bound on OCR position upgrades
          MaxFaults    \* bound on calls that raise and restarts of the process

ASSUME DriftAssumption ==
  /\ Slots \in Nat \ {0}
  /\ MaxRuns \in Nat \ {0}
  /\ MaxMoves \in Nat
  /\ MaxFaults \in Nat

\* A run, its request (drift_requested_at) and its job row have one number; 0 is
\* none.
Runs == 1 .. MaxRuns

\* Age of a request: below RETRY_AFTER, below STUCK_AFTER, beyond.
Ages == 0 .. 2
RetryAfter == 1
StuckAfter == 2

Statuses == {"none", "computing", "completed", "failed", "superseded", "ineligible"}

\* The drift metadata: drift_status, drift_requested_at and drift_job_id.
Metas == [status : Statuses, asked : 0 .. MaxRuns, job : 0 .. MaxRuns]

NoMeta == [status |-> "none", asked |-> 0, job |-> 0]

\* Queued writes: _persist_metadata_sync, _persist_location_sync and
\* _persist_drift_status_reset.
MetaWrite(m)  == [kind |-> "meta", meta |-> m]
LocationWrite == [kind |-> "location", meta |-> NoMeta]
ResetWrite    == [kind |-> "reset", meta |-> NoMeta]
Writes == [kind : {"meta", "location", "reset"}, meta : Metas]

\* A run's thread: not launched; started; job row created; result stored; pointer
\* synced; an exception raised; failure stored; ended; killed by a restart; never
\* launched although its slot is taken.
AlivePhases == {"started", "computing", "stored", "synced", "raised", "failing"}
Phases == AlivePhases \cup {"unused", "ended", "killed", "lost"}

VARIABLES
  resident,  \* the event is in the deque
  mem,       \* drift metadata of the event in memory
  row,       \* drift metadata of IntelEventDB
  queue,     \* the persistence queue
  moves,     \* position upgrades so far
  plan,      \* the watchdog is about to launch
  run,       \* phase of each run
  job,       \* DriftResultDB.status
  age,       \* age of each request
  undone,    \* runs that failed their job after they had completed it
  stale,     \* runs completed DRIFT_REFRESH_AFTER_HOURS ago or earlier
  free,      \* free drift slots
  incident,  \* the incident row: absent, open or closed
  over,      \* the event's thread is concluded
  current,   \* current_drift_id, or 0
  faults     \* calls that raised, and restarts, so far

event == <<resident, mem, row, queue, moves>>
work == <<run, job, undone, age, stale, free>>
vars == <<event, plan, work, incident, over, current, faults>>

Alive == {r \in Runs : run[r] \in AlivePhases}
Leaked == {r \in Runs : run[r] = "lost"}

TypeOK ==
  /\ resident \in BOOLEAN
  /\ mem \in Metas /\ row \in Metas
  /\ queue \in Seq(Writes)
  /\ moves \in 0 .. MaxMoves
  /\ plan \in BOOLEAN
  /\ run \in [Runs -> Phases]
  /\ job \in [Runs -> {"none", "computing", "completed", "failed"}]
  /\ age \in [Runs -> Ages]
  /\ undone \subseteq Runs
  /\ stale \subseteq Runs
  /\ free \in 0 .. Slots
  /\ incident \in {"absent", "open", "closed"}
  /\ over \in BOOLEAN
  /\ current \in 0 .. MaxRuns
  /\ faults \in 0 .. MaxFaults

Init ==
  /\ resident = TRUE
  /\ mem = NoMeta /\ row = NoMeta
  /\ queue = <<>>
  /\ moves = 0
  /\ plan = FALSE
  /\ run = [r \in Runs |-> "unused"]
  /\ job = [r \in Runs |-> "none"]
  /\ age = [r \in Runs |-> 0]
  /\ undone = {}
  /\ stale = {}
  /\ free = Slots
  /\ incident = "absent"
  /\ over = FALSE
  /\ current = 0
  /\ faults = 0

-----------------------------------------------------------------------------
(* The intel store *)

\* get_durable
Durable == IF resident THEN mem ELSE row

\* update_metadata, once for each metadata in steps: nothing happens when the
\* event is not in the deque.
UpdateEvent(steps) ==
  IF resident
    THEN /\ mem' = steps[Len(steps)]
         /\ queue' = queue \o [i \in 1 .. Len(steps) |-> MetaWrite(steps[i])]
    ELSE UNCHANGED <<mem, queue>>

\* The event is pushed out of the deque by newer ones.
Evict ==
  /\ resident
  /\ resident' = FALSE
  /\ mem' = NoMeta
  /\ UNCHANGED <<row, queue, moves, plan, work, incident, over, current, faults>>

\* The row after a write.  The queue is FIFO: no better location is in the row
\* before this one.
Written(w, m) ==
  CASE w.kind = "meta"     -> w.meta
    [] w.kind = "location" -> [m EXCEPT !.status = "superseded"]
    [] w.kind = "reset"    -> IF m.status = "computing" THEN [m EXCEPT !.status = "failed"]
                              ELSE m

Persist ==
  /\ queue # <<>>
  /\ row' = Written(Head(queue), row)
  /\ queue' = Tail(queue)
  /\ UNCHANGED <<resident, mem, moves, plan, work, incident, over, current, faults>>

\* _apply_media_ocr: enrich_location moves the event and marks its drift
\* superseded.  The request that follows is Route.
LocationEnriched ==
  /\ resident /\ moves < MaxMoves
  /\ moves' = moves + 1
  /\ mem' = [mem EXCEPT !.status = "superseded"]
  /\ queue' = Append(queue, LocationWrite)
  /\ UNCHANGED <<resident, row, plan, work, incident, over, current, faults>>

-----------------------------------------------------------------------------
(* The callers, and schedule_intel_drift *)

Unused == {r \in Runs : run[r] = "unused"}
NextRun == CHOOSE r \in Unused : TRUE

\* is_auto_drift_eligible: the lifecycle gate; the location evidence is taken to
\* qualify.
Eligible == ~over

Requested == [Durable EXCEPT !.status = "computing", !.asked = NextRun]

\* schedule_intel_drift after its idempotency check: the eligibility gate, the
\* slot, the status, the thread.
Start ==
  /\ Eligible /\ free > 0 /\ Unused # {}
  /\ free' = free - 1
  /\ run' = [run EXCEPT ![NextRun] = "started"]
  /\ UpdateEvent(<<Requested>>)
  /\ UNCHANGED <<resident, row, moves, job, undone, age, stale, incident, over, current, faults>>

\* The thread does not start: the slot is given back.
StartFails ==
  /\ Eligible /\ free > 0 /\ Unused # {}
  /\ faults < MaxFaults
  /\ faults' = faults + 1
  /\ run' = [run EXCEPT ![NextRun] = "ended"]
  /\ UpdateEvent(<<Requested, [Requested EXCEPT !.status = "failed"]>>)
  /\ UNCHANGED <<resident, row, moves, job, undone, age, stale, free, incident, over, current>>

\* update_metadata raises once the status is set (_fire_broadcast): no thread is
\* launched and nobody gives the slot back.
SlotLeaks ==
  /\ Eligible /\ free > 0 /\ Unused # {} /\ resident
  /\ faults < MaxFaults
  /\ faults' = faults + 1
  /\ free' = free - 1
  /\ run' = [run EXCEPT ![NextRun] = "lost"]
  /\ UpdateEvent(<<Requested>>)
  /\ UNCHANGED <<resident, row, moves, job, undone, age, stale, incident, over, current>>

\* intel_auto_drift, with the once-only guard of schedule_intel_drift.  A refusal
\* of the gate or of a busy engine changes nothing here.
RouteWants == Eligible /\ Durable.status \notin {"computing", "completed"}

Route == RouteWants /\ Start /\ UNCHANGED plan

\* DriftRefresher._scan reads the deque; a busy engine ends its attempt.
RefresherWants ==
  resident /\ Eligible /\ mem.status = "completed" /\ mem.job \in stale

Refresher == RefresherWants /\ Start /\ UNCHANGED plan

RequestFails ==
  /\ RouteWants \/ RefresherWants
  /\ StartFails \/ SlotLeaks
  /\ UNCHANGED plan

\* Mutant: any request that was ever made is left to the route.
WaitsForever(m) == m.asked # 0

\* The age guards of the watchdog: what it leaves alone.
Waits(m) ==
  \/ m.status = "computing" /\ (m.asked = 0 \/ age[m.asked] < StuckAfter)
  \/ m.status \in {"failed", "computing"} /\ (m.asked = 0 \/ age[m.asked] < RetryAfter)

HasCurrent == current # 0 /\ job[current] = "completed"

\* drift_watchdog.reconcile reads the durable rows.  Its passes are five minutes
\* apart: the persistence thread has caught up by then.
WatchdogCheck ==
  /\ ~plan
  /\ queue = <<>>
  /\ Eligible
  /\ ~HasCurrent
  /\ ~Waits(row)
  /\ plan' = TRUE
  /\ UNCHANGED <<event, work, incident, over, current, faults>>

\* It forces the launch: whatever happened since, only the gate and the slot count.
WatchdogLaunch == plan /\ Start /\ plan' = FALSE

WatchdogFails == plan /\ (StartFails \/ SlotLeaks) /\ plan' = FALSE

\* Concluded meanwhile, or the engine is busy.
WatchdogRefused ==
  /\ plan
  /\ \/ ~Eligible /\ UpdateEvent(<<[Durable EXCEPT !.status = "ineligible"]>>)
     \/ Eligible /\ free = 0 /\ UNCHANGED <<mem, queue>>
  /\ plan' = FALSE
  /\ UNCHANGED <<resident, row, moves, work, incident, over, current, faults>>

-----------------------------------------------------------------------------
(* The runs: _run_intel_drift *)

\* create_drift_job
RunCreate(r) ==
  /\ run[r] = "started"
  /\ run' = [run EXCEPT ![r] = "computing"]
  /\ job' = [job EXCEPT ![r] = "computing"]
  /\ UNCHANGED <<event, plan, undone, age, stale, free, incident, over, current, faults>>

\* Mutant: the pointer is set first.
RunCompleteAfterSync(r) ==
  /\ run[r] = "computing"
  /\ run' = [run EXCEPT ![r] = "stored"]
  /\ current' = IF incident = "open" THEN r ELSE current
  /\ UNCHANGED <<event, plan, job, undone, age, stale, free, incident, over, faults>>

\* The engine returns and complete_drift_job commits.
RunComplete(r) ==
  /\ run[r] = "computing"
  /\ run' = [run EXCEPT ![r] = "stored"]
  /\ job' = [job EXCEPT ![r] = "completed"]
  /\ UNCHANGED <<event, plan, undone, age, stale, free, incident, over, current, faults>>

\* sync_current_drift_for_incident: a terminal incident loses its pointer.
RunSync(r) ==
  /\ run[r] = "stored"
  /\ run' = [run EXCEPT ![r] = "synced"]
  /\ current' = CASE incident = "absent" -> current
                  [] incident = "closed" -> 0
                  [] incident = "open"   -> r
  /\ UNCHANGED <<event, plan, job, undone, age, stale, free, incident, over, faults>>

\* It raises: logged, and the run goes on.
RunSyncFails(r) ==
  /\ run[r] = "stored"
  /\ faults < MaxFaults
  /\ faults' = faults + 1
  /\ run' = [run EXCEPT ![r] = "synced"]
  /\ UNCHANGED <<event, plan, job, undone, age, stale, free, incident, over, current>>

\* Mutant: the thread ends without its finally.
EndsKeepingSlot(r) ==
  /\ run' = [run EXCEPT ![r] = "ended"]
  /\ UNCHANGED free

\* The thread ends, whatever happened: release_drift_slot.
Ends(r) ==
  /\ run' = [run EXCEPT ![r] = "ended"]
  /\ free' = IF free < Slots THEN free + 1 ELSE free

Reported(r, s) == [Durable EXCEPT !.status = s, !.job = r]

\* The last update_metadata of a run that completed, or failed.
RunRecord(r) ==
  /\ run[r] \in {"synced", "failing"}
  /\ UpdateEvent(<<Reported(r, IF run[r] = "synced" THEN "completed" ELSE "failed")>>)
  /\ Ends(r)
  /\ UNCHANGED <<resident, row, moves, plan, job, undone, age, stale, incident, over, current, faults>>

\* The engine, complete_drift_job before or after its commit, or the report of the
\* completed drift raises, the last once update_metadata has set its status.
RunRaises(r) ==
  /\ run[r] \in {"computing", "stored", "synced"}
  /\ faults < MaxFaults
  /\ faults' = faults + 1
  /\ run' = [run EXCEPT ![r] = "raised"]
  /\ IF run[r] = "synced" THEN UpdateEvent(<<Reported(r, "completed")>>)
                          ELSE UNCHANGED <<mem, queue>>
  /\ UNCHANGED <<resident, row, moves, plan, job, undone, age, stale, free, incident, over,
                 current>>

\* The handler: fail_drift_job, whatever the job's status.
RunFail(r) ==
  /\ run[r] = "raised"
  /\ run' = [run EXCEPT ![r] = "failing"]
  /\ job' = [job EXCEPT ![r] = "failed"]
  /\ undone' = IF job[r] = "completed" THEN undone \cup {r} ELSE undone
  /\ UNCHANGED <<event, plan, age, stale, free, incident, over, current, faults>>

\* create_drift_job raises before or after its commit, or, in the handler,
\* fail_drift_job does: the thread ends and the event's status stays.
RunDies(r) ==
  /\ \/ run[r] \in {"started", "computing"} /\ faults < MaxFaults /\ faults' = faults + 1
     \/ run[r] \in {"raised", "failing"} /\ UNCHANGED faults
  /\ Ends(r)
  /\ UNCHANGED <<event, plan, job, undone, age, stale, incident, over, current>>

-----------------------------------------------------------------------------
(* Environment *)

\* Half an hour, or the rest of the two hours, passes: nothing is left in the
\* persistence queue.
Tick ==
  /\ queue = <<>>
  /\ \E r \in Runs : run[r] # "unused" /\ age[r] < StuckAfter
  /\ age' = [r \in Runs |-> IF run[r] = "unused" \/ age[r] = StuckAfter
                              THEN age[r] ELSE age[r] + 1]
  /\ UNCHANGED <<event, plan, run, job, undone, stale, free, incident, over, current, faults>>

\* DRIFT_REFRESH_AFTER_HOURS pass.
LongTick ==
  /\ queue = <<>>
  /\ age' = [r \in Runs |-> IF run[r] = "unused" THEN age[r] ELSE StuckAfter]
  /\ stale' = {r \in Runs : run[r] = "ended" /\ job[r] = "completed"}
  /\ <<age, stale>>' # <<age, stale>>
  /\ UNCHANGED <<event, plan, run, job, undone, free, incident, over, current, faults>>

\* The source reports the end of the case.
Conclude ==
  /\ ~over
  /\ over' = TRUE
  /\ UNCHANGED <<event, plan, work, incident, current, faults>>

\* sync_incident_for_event, on a thread of its own.
IncidentSync ==
  /\ incident' = IF over THEN "closed" ELSE "open"
  /\ incident' # incident
  /\ UNCHANGED <<event, plan, work, over, current, faults>>

\* reset_stale_computing_jobs
Cleared(j) == [r \in Runs |-> IF j[r] = "computing" THEN "failed" ELSE j[r]]

\* A restart loses the threads and the queue.  The startup marks orphaned jobs
\* failed, loads the deque, which may leave the event out, and resets the events
\* it loaded as computing.
Restart ==
  /\ faults < MaxFaults
  /\ faults' = faults + 1
  /\ run' = [r \in Runs |-> IF r \in Alive \cup Leaked THEN "killed" ELSE run[r]]
  /\ free' = Slots
  /\ job' = Cleared(job)
  /\ plan' = FALSE
  /\ resident' \in BOOLEAN
  /\ mem' = IF resident' THEN Written(ResetWrite, row) ELSE NoMeta
  /\ queue' = IF resident' /\ row.status = "computing" THEN <<ResetWrite>> ELSE <<>>
  /\ UNCHANGED <<row, moves, undone, age, stale, incident, over, current>>

-----------------------------------------------------------------------------

RunStep(r) == RunCreate(r) \/ RunComplete(r) \/ RunSync(r) \/ RunRecord(r) \/ RunFail(r)

RunFault(r) == RunRaises(r) \/ RunDies(r) \/ RunSyncFails(r)

Watchdog == WatchdogCheck \/ WatchdogLaunch \/ WatchdogRefused

Next ==
  \/ Evict \/ Persist \/ LocationEnriched
  \/ Route \/ Watchdog \/ Refresher
  \/ RequestFails \/ WatchdogFails
  \/ \E r \in Runs : RunStep(r) \/ RunFault(r)
  \/ Tick \/ LongTick
  \/ Conclude \/ IncidentSync
  \/ Restart

Spec == Init /\ [][Next]_vars

\* Threads of a running process are scheduled and a simulation ends; the watchdog
\* runs every five minutes and the refresher every twenty; time passes.  Nothing
\* makes a client ask the route.
Fairness ==
  /\ WF_vars(Persist)
  /\ \A r \in Runs : WF_vars(RunStep(r))
  /\ WF_vars(Watchdog)
  /\ WF_vars(Refresher)
  /\ WF_vars(Tick)
  /\ WF_vars(LongTick)
  /\ WF_vars(IncidentSync)

FairSpec == Spec /\ Fairness

-----------------------------------------------------------------------------
(* Properties *)

\* A slot is free, held by a live run, or lost by a request whose update_metadata
\* raised: whatever else raises, the slot comes back once (acquire_drift_slot,
\* release_drift_slot).
SlotsBalance == free + Cardinality(Alive \cup Leaked) = Slots

\* What says that a drift is completed is backed by a completed job: the
\* incident's pointer, the event in memory, its row and the writes under way,
\* over failures and restarts (complete_drift_job, sync_current_drift_for_incident,
\* reset_stale_computing_jobs).  Only a run that raised after completing its own
\* job may fail it: its result is still in the row, and the watchdog takes it for
\* missing.
Vouched(r) == r # 0 /\ (job[r] = "completed" \/ r \in undone)

Backed(m) == m.status = "completed" => Vouched(m.job)

CompletedIsBacked ==
  /\ current # 0 => Vouched(current)
  /\ Backed(mem)
  /\ Backed(row)
  /\ \A i \in 1 .. Len(queue) : queue[i].kind = "meta" => Backed(queue[i].meta)

\* Exhausted runs are the model's bound.  A slot leaked is gone until a restart.
Exhausted == (Unused = {} /\ Alive = {}) \/ Cardinality(Leaked) = Slots

\* Recovery: while the incident is open, it gets its drift, whatever was lost,
\* killed or evicted and although no client asks again (drift_watchdog.reconcile),
\* unless every slot leaked.
Recovered == incident = "open" /\ ~over ~> HasCurrent \/ over \/ Exhausted

\* The drift of an open event is renewed whenever the last run is too old, as
\* long as the event is in the deque (DriftRefresher).
Refreshed ==
  \A r \in Runs :
    /\ resident /\ ~over
    /\ r = current /\ r = mem.job /\ mem.status = "completed" /\ r \in stale
    ~> current # r \/ ~resident \/ over \/ Exhausted

=============================================================================
