---------------------------- MODULE IntelProofs ----------------------------
(***************************************************************************)
(* Proofs about DriftRequests and about IntelStore, whose events and rows  *)
(* keep the requests.                                                      *)
(*                                                                         *)
(* DriftRequests: the types, the slots and what stands behind a completed  *)
(* drift, for any number of slots, runs, moves and faults.  The invariant  *)
(* that carries them ties the phase of a run to the status of its job row: *)
(* a run that has stored its result has a completed job, and no other run  *)
(* may fail it.                                                            *)
(*                                                                         *)
(* IntelStore, in the second part: the types, one row per report, one      *)
(* marker per post, and the write a thread waits for.  Its invariant says  *)
(* of every object that is still of use (Live) that the id it carries is   *)
(* of its own report, before a row has that id and after, and that all     *)
(* objects of a post whose key is not forgotten carry the same id.         *)
(***************************************************************************)
EXTENDS DriftRequests, IntelStore, FiniteSetTheorems, TLAPS

\* The job row of a run, by the phase of its thread.
PhaseJob ==
  \A r \in Runs :
    /\ run[r] \in {"unused", "started", "lost"} => job[r] = "none"
    /\ run[r] = "computing" => job[r] = "computing"
    /\ run[r] \in {"stored", "synced"} => job[r] = "completed"

IndInv == TypeOK /\ PhaseJob /\ SlotsBalance /\ CompletedIsBacked

\* Vouched, of a run of this state, once the step is done.
VouchedThen(r) == r # 0 /\ (job'[r] = "completed" \/ r \in undone')

\* Backed, of metadata of this state, once the step is done.
BackedThen(m) == m.status = "completed" => VouchedThen(m.job)

\* No step takes a completed job back, but for the run that failed it itself.
JobsKept == \A r \in Runs : Vouched(r) => VouchedThen(r)

\* The runs whose slot is taken.
SlotHolders == Alive \cup Leaked

-----------------------------------------------------------------------------
(* Helpers *)

\* The run a launch takes is an unused one.
LEMMA NextRunUnused == Unused # {} => NextRun \in Unused
BY DEF NextRun

\* The metadata of a request is metadata.
LEMMA RequestedType == TypeOK /\ Unused # {} => Requested \in Metas /\ NextRun \in Runs
<1>1. SUFFICES ASSUME TypeOK, Unused # {} PROVE Requested \in Metas /\ NextRun \in Runs
  OBVIOUS
<1>2. NextRun \in Runs
  BY <1>1, NextRunUnused DEF Unused
<1>3. Durable \in Metas
  BY <1>1 DEF Durable, TypeOK
<1>4. \A m \in Metas, n \in 0 .. MaxRuns :
        [m EXCEPT !.status = "computing", !.asked = n] \in Metas
  BY DEF Metas, Statuses
<1>5. NextRun \in 0 .. MaxRuns
  BY <1>2, DriftAssumption DEF Runs
<1>6. Requested \in Metas
  BY <1>3, <1>4, <1>5 DEF Requested
<1> QED BY <1>2, <1>6

\* update_metadata keeps the types.
LEMMA UpdateType ==
  ASSUME TypeOK, NEW steps \in Seq(Metas), Len(steps) > 0, UpdateEvent(steps)
  PROVE  mem' \in Metas /\ queue' \in Seq(Writes)
<1>1. steps[Len(steps)] \in Metas
  OBVIOUS
<1>2. \A i \in 1 .. Len(steps) : MetaWrite(steps[i]) \in Writes
  BY DEF MetaWrite, Writes
<1>3. [i \in 1 .. Len(steps) |-> MetaWrite(steps[i])] \in Seq(Writes)
  BY <1>2
<1>4. queue \o [i \in 1 .. Len(steps) |-> MetaWrite(steps[i])] \in Seq(Writes)
  BY <1>3 DEF TypeOK
<1> QED BY <1>1, <1>4 DEF UpdateEvent, TypeOK

\* What was backed stays backed.
LEMMA BackedStays ==
  ASSUME TypeOK, CompletedIsBacked, JobsKept
  PROVE  /\ BackedThen(mem) /\ BackedThen(row)
         /\ \A i \in 1 .. Len(queue) : queue[i].kind = "meta" => BackedThen(queue[i].meta)
         /\ current # 0 => VouchedThen(current)
<1>1. ASSUME NEW r \in 0 .. MaxRuns, Vouched(r) PROVE VouchedThen(r)
  <2>1. r \in Runs
    BY <1>1, DriftAssumption DEF Vouched, Runs
  <2> QED BY <1>1, <2>1 DEF JobsKept
<1>2. ASSUME NEW m \in Metas, Backed(m) PROVE BackedThen(m)
  BY <1>1, <1>2 DEF Backed, BackedThen, Metas
<1>3. \A i \in 1 .. Len(queue) : queue[i].meta \in Metas
  <2>1. TAKE i \in 1 .. Len(queue)
  <2>2. queue[i] \in Writes
    BY <2>1 DEF TypeOK
  <2> QED BY <2>2 DEF Writes
<1>4. mem \in Metas /\ row \in Metas /\ current \in 0 .. MaxRuns
  BY DEF TypeOK
<1> QED BY <1>1, <1>2, <1>3, <1>4 DEF CompletedIsBacked

\* CompletedIsBacked after a step, from what the step leaves.
LEMMA BackedAfter ==
  ASSUME BackedThen(mem'), BackedThen(row'), current' # 0 => VouchedThen(current'),
         \A i \in 1 .. Len(queue') : queue'[i].kind = "meta" => BackedThen(queue'[i].meta)
  PROVE  CompletedIsBacked'
BY DEF CompletedIsBacked, Backed, BackedThen, Vouched, VouchedThen

\* update_metadata with backed metadata keeps CompletedIsBacked.
LEMMA UpdateBacked ==
  ASSUME TypeOK, CompletedIsBacked, JobsKept, row' = row,
         current' # 0 => VouchedThen(current'),
         NEW steps \in Seq(Metas), Len(steps) > 0, UpdateEvent(steps),
         \A i \in 1 .. Len(steps) : BackedThen(steps[i])
  PROVE  CompletedIsBacked'
<1> DEFINE new == [i \in 1 .. Len(steps) |-> MetaWrite(steps[i])]
<1>1. /\ BackedThen(mem) /\ BackedThen(row)
      /\ \A i \in 1 .. Len(queue) : queue[i].kind = "meta" => BackedThen(queue[i].meta)
  BY BackedStays
<1>2. \A i \in 1 .. Len(steps) : BackedThen(new[i].meta)
  BY DEF MetaWrite
<1>3. BackedThen(mem')
  <2> DEFINE n == Len(steps)
  <2>1. n \in 1 .. Len(steps)
    OBVIOUS
  <2>2. mem' = mem \/ mem' = steps[n]
    BY DEF UpdateEvent
  <2> HIDE DEF n
  <2> QED BY <1>1, <2>1, <2>2
<1>4. \A i \in 1 .. Len(queue') : queue'[i].kind = "meta" => BackedThen(queue'[i].meta)
  <2>1. CASE resident
    <3>1. queue \in Seq(Writes) /\ new \in Seq({MetaWrite(steps[i]) : i \in 1 .. Len(steps)})
      BY DEF TypeOK
    <3>2. queue' = queue \o new
      BY <2>1 DEF UpdateEvent
    <3>3. \A i \in 1 .. Len(queue') :
            IF i <= Len(queue) THEN i \in 1 .. Len(queue) /\ queue'[i] = queue[i]
            ELSE i - Len(queue) \in 1 .. Len(steps) /\ queue'[i] = new[i - Len(queue)]
      BY <3>1, <3>2
    <3> HIDE DEF new
    <3> QED BY <3>3, <1>1, <1>2
  <2>2. CASE ~resident
    BY <2>2, <1>1 DEF UpdateEvent
  <2> QED BY <2>1, <2>2
<1> QED BY <1>1, <1>3, <1>4, BackedAfter

\* The set of runs that hold a slot is finite.
LEMMA SlotHoldersFinite == IsFiniteSet(SlotHolders)
<1>1. IsFiniteSet(Runs)
  BY FS_Interval, DriftAssumption DEF Runs
<1> QED BY <1>1, FS_Subset DEF SlotHolders, Alive, Leaked
-----------------------------------------------------------------------------
(* The inductive invariant *)

LEMMA Initially == Init => IndInv
<1>1. SUFFICES ASSUME Init PROVE IndInv
  OBVIOUS
<1>2. TypeOK
  <2>1. NoMeta \in Metas
    BY DriftAssumption DEF NoMeta, Metas, Statuses
  <2>2. <<>> \in Seq(Writes)
    OBVIOUS
  <2>3. run \in [Runs -> Phases] /\ age \in [Runs -> Ages]
    BY <1>1 DEF Init, Phases, AlivePhases, Ages
  <2>4. job \in [Runs -> {"none", "computing", "completed", "failed"}]
    BY <1>1 DEF Init
  <2>5. free \in 0 .. Slots /\ current \in 0 .. MaxRuns /\ moves \in 0 .. MaxMoves
        /\ faults \in 0 .. MaxFaults
    BY <1>1, DriftAssumption DEF Init
  <2> QED BY <1>1, <2>1, <2>2, <2>3, <2>4, <2>5 DEF Init, TypeOK
<1>3. SlotHolders = {}
  BY <1>1 DEF Init, SlotHolders, Alive, Leaked, AlivePhases
<1>4. SlotsBalance
  <2>1. Cardinality(Alive \cup Leaked) = 0 /\ free = Slots
    BY <1>1, <1>3, FS_EmptySet DEF Init, SlotHolders
  <2> QED BY <2>1, DriftAssumption DEF SlotsBalance
<1>5. PhaseJob /\ CompletedIsBacked
  BY <1>1 DEF Init, PhaseJob, CompletedIsBacked, Backed, NoMeta
<1> QED BY <1>2, <1>4, <1>5 DEF IndInv

\* A live run holds a slot, so one is in use.
LEMMA SlotInUse ==
  ASSUME TypeOK, SlotsBalance, NEW r \in Alive
  PROVE  free < Slots
<1>1. r \in SlotHolders
  BY DEF SlotHolders
<1>2. Cardinality(SlotHolders) \in Nat /\ Cardinality(SlotHolders) # 0
  BY <1>1, SlotHoldersFinite, FS_CardinalityType, FS_EmptySet
<1> QED BY <1>2, DriftAssumption DEF TypeOK, SlotsBalance, SlotHolders

\* What a launch that works, or fails, leaves.
LEMMA StartType == TypeOK /\ (Start \/ StartFails \/ SlotLeaks) => (plan' \in BOOLEAN => TypeOK') /\ JobsKept
<1>1. SUFFICES ASSUME TypeOK, Start \/ StartFails \/ SlotLeaks
               PROVE  (plan' \in BOOLEAN => TypeOK') /\ JobsKept
  OBVIOUS
<1> DEFINE failed == [Requested EXCEPT !.status = "failed"]
<1>2. Requested \in Metas /\ NextRun \in Runs
  BY <1>1, RequestedType DEF Start, StartFails, SlotLeaks
<1>3. failed \in Metas
  BY <1>2 DEF Metas, Statuses
<1>4. mem' \in Metas /\ queue' \in Seq(Writes)
  <2>1. <<Requested>> \in Seq(Metas) /\ Len(<<Requested>>) > 0
    BY <1>2
  <2>2. <<Requested, failed>> \in Seq(Metas) /\ Len(<<Requested, failed>>) > 0
    BY <1>2, <1>3
  <2>3. CASE Start \/ SlotLeaks
    BY <1>1, <2>1, <2>3, UpdateType DEF Start, SlotLeaks
  <2>4. CASE StartFails
    BY <1>1, <2>2, <2>4, UpdateType DEF StartFails
  <2> QED BY <1>1, <2>3, <2>4
<1>5. run' \in [Runs -> Phases]
  BY <1>1, <1>2 DEF Start, StartFails, SlotLeaks, TypeOK, Phases, AlivePhases
<1>6. free' \in 0 .. Slots /\ faults' \in 0 .. MaxFaults
  BY <1>1, DriftAssumption DEF Start, StartFails, SlotLeaks, TypeOK
<1> QED BY <1>1, <1>4, <1>5, <1>6
        DEF Start, StartFails, SlotLeaks, TypeOK, JobsKept, Vouched, VouchedThen

\* What a run reports is metadata.
LEMMA ReportedType ==
  ASSUME TypeOK, NEW r \in Runs, NEW s \in {"completed", "failed"}
  PROVE  /\ Reported(r, s) \in Metas /\ Durable \in Metas
         /\ Reported(r, s).status = s /\ Reported(r, s).job = r
         /\ Reported(r, s).asked = Durable.asked
<1>1. Durable \in Metas /\ r \in 0 .. MaxRuns
  BY DriftAssumption DEF Durable, TypeOK, Runs
<1> QED BY <1>1 DEF Reported, Metas, Statuses

\* The report of a run keeps the types of the event and the queue.
LEMMA ReportType ==
  ASSUME TypeOK, NEW r \in Runs, NEW s \in {"completed", "failed"},
         UpdateEvent(<<Reported(r, s)>>)
  PROVE  mem' \in Metas /\ queue' \in Seq(Writes)
<1> DEFINE last == Reported(r, s)
<1>1. last \in Metas
  BY ReportedType
<1>2. UpdateEvent(<<last>>)
  OBVIOUS
<1> HIDE DEF last
<1>3. <<last>> \in Seq(Metas) /\ Len(<<last>>) > 0
  BY <1>1
<1> QED BY <1>2, <1>3, UpdateType

\* Every step keeps the types.
LEMMA TypeStep == IndInv /\ [Next]_vars => TypeOK'
<1>1. SUFFICES ASSUME IndInv, [Next]_vars PROVE TypeOK'
  OBVIOUS
<1> USE DEF IndInv
<1>2. CASE UNCHANGED vars
  BY <1>1, <1>2 DEF vars, event, work, TypeOK
<1>3. CASE Evict
  <2>1. NoMeta \in Metas
    BY DriftAssumption DEF NoMeta, Metas, Statuses
  <2> QED BY <1>1, <1>3, <2>1 DEF Evict, work, TypeOK
<1>4. ASSUME NEW w \in Writes, NEW m \in Metas PROVE Written(w, m) \in Metas
  BY DEF Written, Writes, Metas, Statuses
<1>5. CASE Persist
  <2>1. Head(queue) \in Writes /\ Tail(queue) \in Seq(Writes)
    BY <1>1, <1>5 DEF Persist, TypeOK
  <2>2. row' \in Metas
    BY <1>1, <1>4, <1>5, <2>1 DEF Persist, TypeOK
  <2> QED BY <1>1, <1>5, <2>1, <2>2 DEF Persist, work, TypeOK
<1>6. CASE LocationEnriched
  <2>1. LocationWrite \in Writes
    BY DriftAssumption DEF LocationWrite, Writes, NoMeta, Metas, Statuses
  <2>2. queue' \in Seq(Writes)
    BY <1>1, <1>6, <2>1 DEF LocationEnriched, TypeOK
  <2>3. mem' \in Metas
    BY <1>1, <1>6 DEF LocationEnriched, TypeOK, Metas, Statuses
  <2>4. moves' \in 0 .. MaxMoves
    BY <1>1, <1>6, DriftAssumption DEF LocationEnriched, TypeOK
  <2> QED BY <1>1, <1>6, <2>2, <2>3, <2>4 DEF LocationEnriched, work, TypeOK
<1>7. CASE Route \/ Refresher \/ RequestFails
  BY <1>1, <1>7, StartType DEF Route, Refresher, RequestFails, TypeOK
<1>8. CASE WatchdogLaunch \/ WatchdogFails
  BY <1>1, <1>8, StartType DEF WatchdogLaunch, WatchdogFails
<1>9. CASE WatchdogCheck
  BY <1>1, <1>9 DEF WatchdogCheck, event, work, TypeOK
<1>10. CASE WatchdogRefused
  <2> DEFINE refused == [Durable EXCEPT !.status = "ineligible"]
  <2>1. Durable \in Metas
    BY <1>1 DEF Durable, TypeOK
  <2>2. refused \in Metas
    BY <2>1 DEF Metas, Statuses
  <2>3. <<refused>> \in Seq(Metas) /\ Len(<<refused>>) > 0
    BY <2>2
  <2>4. mem' \in Metas /\ queue' \in Seq(Writes)
    BY <1>1, <1>10, <2>3, UpdateType DEF WatchdogRefused, TypeOK
  <2> QED BY <1>1, <1>10, <2>4 DEF WatchdogRefused, work, TypeOK
<1>11. ASSUME NEW r \in Runs, RunCreate(r) \/ RunComplete(r) \/ RunSync(r) PROVE TypeOK'
  <2>1. run' \in [Runs -> Phases]
    BY <1>1, <1>11 DEF RunCreate, RunComplete, RunSync, TypeOK, Phases, AlivePhases
  <2>2. job' \in [Runs -> {"none", "computing", "completed", "failed"}]
    BY <1>1, <1>11 DEF RunCreate, RunComplete, RunSync, TypeOK
  <2>3. current' \in 0 .. MaxRuns
    BY <1>1, <1>11, DriftAssumption DEF RunCreate, RunComplete, RunSync, TypeOK, Runs
  <2> QED BY <1>1, <1>11, <2>1, <2>2, <2>3 DEF RunCreate, RunComplete, RunSync, event, TypeOK
<1>12. ASSUME NEW r \in Runs, Ends(r) PROVE run' \in [Runs -> Phases] /\ free' \in 0 .. Slots
  BY <1>1, <1>12, DriftAssumption DEF Ends, TypeOK, Phases, AlivePhases
<1>13. ASSUME NEW r \in Runs, RunRecord(r) PROVE TypeOK'
  <2>1. mem' \in Metas /\ queue' \in Seq(Writes)
    BY <1>1, <1>13, ReportType DEF RunRecord
  <2>2. run' \in [Runs -> Phases] /\ free' \in 0 .. Slots
    BY <1>12, <1>13 DEF RunRecord
  <2> QED BY <1>1, <1>13, <2>1, <2>2 DEF RunRecord, TypeOK
<1>14. ASSUME NEW r \in Runs, RunFault(r) \/ RunFail(r) PROVE TypeOK'
  <2>1. CASE RunSyncFails(r)
    <3>1. run' \in [Runs -> Phases]
      BY <1>1, <2>1 DEF RunSyncFails, TypeOK, Phases, AlivePhases
    <3>2. faults' \in 0 .. MaxFaults
      BY <1>1, <2>1, DriftAssumption DEF RunSyncFails, TypeOK
    <3> QED BY <1>1, <2>1, <3>1, <3>2 DEF RunSyncFails, event, TypeOK
  <2>2. CASE RunDies(r)
    <3>1. run' \in [Runs -> Phases] /\ free' \in 0 .. Slots
      BY <1>12, <2>2 DEF RunDies
    <3>2. faults' \in 0 .. MaxFaults
      BY <1>1, <2>2, DriftAssumption DEF RunDies, TypeOK
    <3> QED BY <1>1, <2>2, <3>1, <3>2 DEF RunDies, event, TypeOK
  <2>3. CASE RunRaises(r)
    <3>1. run' \in [Runs -> Phases]
      BY <1>1, <2>3 DEF RunRaises, TypeOK, Phases, AlivePhases
    <3>2. faults' \in 0 .. MaxFaults
      BY <1>1, <2>3, DriftAssumption DEF RunRaises, TypeOK
    <3>3. mem' \in Metas /\ queue' \in Seq(Writes)
      BY <1>1, <2>3, ReportType DEF RunRaises, TypeOK
    <3> QED BY <1>1, <2>3, <3>1, <3>2, <3>3 DEF RunRaises, TypeOK
  <2>4. CASE RunFail(r)
    <3>1. run' \in [Runs -> Phases]
      BY <1>1, <2>4 DEF RunFail, TypeOK, Phases, AlivePhases
    <3>2. job' \in [Runs -> {"none", "computing", "completed", "failed"}]
      BY <1>1, <2>4 DEF RunFail, TypeOK
    <3>3. undone' \subseteq Runs
      BY <1>1, <2>4 DEF RunFail, TypeOK
    <3> QED BY <1>1, <2>4, <3>1, <3>2, <3>3 DEF RunFail, event, TypeOK
  <2> QED BY <1>14, <2>1, <2>2, <2>3, <2>4 DEF RunFault
<1>15. CASE Tick \/ LongTick
  <2>1. age' \in [Runs -> Ages] /\ stale' \subseteq Runs
    BY <1>1, <1>15 DEF Tick, LongTick, TypeOK, Ages, StuckAfter
  <2> QED BY <1>1, <1>15, <2>1 DEF Tick, LongTick, event, TypeOK
<1>16. CASE Conclude \/ IncidentSync
  BY <1>1, <1>16 DEF Conclude, IncidentSync, event, work, TypeOK
<1>17. CASE Restart
  <2>1. ResetWrite \in Writes /\ NoMeta \in Metas
    BY DriftAssumption DEF ResetWrite, Writes, NoMeta, Metas, Statuses
  <2>2. mem' \in Metas
    BY <1>1, <1>4, <1>17, <2>1 DEF Restart, TypeOK
  <2>3. queue' \in Seq(Writes)
    BY <1>17, <2>1 DEF Restart
  <2>4. run' \in [Runs -> Phases]
    BY <1>1, <1>17 DEF Restart, TypeOK, Phases, AlivePhases
  <2>5. job' \in [Runs -> {"none", "computing", "completed", "failed"}]
    BY <1>1, <1>17 DEF Restart, Cleared, TypeOK
  <2>6. free' \in 0 .. Slots /\ faults' \in 0 .. MaxFaults
    BY <1>1, <1>17, DriftAssumption DEF Restart, TypeOK
  <2> QED BY <1>1, <1>17, <2>2, <2>3, <2>4, <2>5, <2>6 DEF Restart, TypeOK
<1> QED BY <1>1, <1>2, <1>3, <1>5, <1>6, <1>7, <1>8, <1>9, <1>10, <1>11, <1>13, <1>14, <1>15,
           <1>16, <1>17 DEF Next, Watchdog, RunStep

\* The steps that leave the runs and their job rows alone.
Bystander ==
  \/ Evict \/ Persist \/ LocationEnriched \/ WatchdogCheck \/ WatchdogRefused
  \/ Tick \/ LongTick \/ Conclude \/ IncidentSync

LEMMA BystanderKeeps == Bystander \/ UNCHANGED vars => UNCHANGED <<run, job, undone, free, current>>
BY DEF Bystander, Evict, Persist, LocationEnriched, WatchdogCheck, WatchdogRefused, Tick, LongTick,
       Conclude, IncidentSync, vars, event, work

\* Next, by what a step does to the runs.
LEMMA NextCases ==
  Next => \/ Bystander
          \/ Start \/ StartFails \/ SlotLeaks
          \/ \E r \in Runs : RunStep(r) \/ RunFault(r)
          \/ Restart
BY DEF Next, Bystander, Watchdog, Route, Refresher, RequestFails, WatchdogLaunch, WatchdogFails

\* Every step keeps PhaseJob, and no step takes a completed job back.
LEMMA PhaseStep == IndInv /\ [Next]_vars => PhaseJob' /\ JobsKept
<1>1. SUFFICES ASSUME IndInv, [Next]_vars PROVE PhaseJob' /\ JobsKept
  OBVIOUS
<1>2. CASE Bystander \/ UNCHANGED vars
  BY <1>1, <1>2, BystanderKeeps DEF IndInv, PhaseJob, JobsKept, Vouched, VouchedThen
<1>3. CASE Start \/ StartFails \/ SlotLeaks
  <2>1. NextRun \in Unused
    BY <1>3, NextRunUnused DEF Start, StartFails, SlotLeaks
  <2> QED BY <1>1, <1>3, <2>1
          DEF Start, StartFails, SlotLeaks, IndInv, TypeOK, PhaseJob, JobsKept, Unused, Vouched,
              VouchedThen
<1>4. ASSUME NEW r \in Runs, RunStep(r) PROVE PhaseJob' /\ JobsKept
  BY <1>1, <1>4 DEF RunStep, RunCreate, RunComplete, RunSync, RunRecord, RunFail, Ends, IndInv,
                    TypeOK, PhaseJob, JobsKept, Vouched, VouchedThen
<1>5. ASSUME NEW r \in Runs, RunFault(r) PROVE PhaseJob' /\ JobsKept
  BY <1>1, <1>5 DEF RunFault, RunRaises, RunDies, RunSyncFails, Ends, IndInv, TypeOK, PhaseJob,
                    JobsKept, Vouched, VouchedThen
<1>6. CASE Restart
  BY <1>1, <1>6 DEF Restart, Cleared, Alive, AlivePhases, IndInv, TypeOK, PhaseJob, JobsKept,
                    Vouched, VouchedThen
<1> QED BY <1>1, <1>2, <1>3, <1>4, <1>5, <1>6, NextCases

\* A thread that ends takes its run out of SlotHolders and frees its slot.
LEMMA EndsBalance ==
  ASSUME IndInv, NEW r \in Alive, Ends(r)
  PROVE  SlotsBalance'
<1>1. SlotHolders' = SlotHolders \ {r} /\ r \in SlotHolders
  <2>1. r \in Runs /\ run[r] \in AlivePhases /\ run' = [run EXCEPT ![r] = "ended"]
        /\ run \in [Runs -> Phases]
    BY DEF Ends, Alive, IndInv, TypeOK
  <2>2. Alive' = Alive \ {r} /\ Leaked' = Leaked /\ r \notin Leaked
    BY <2>1 DEF Alive, Leaked, AlivePhases
  <2> QED BY <2>2 DEF SlotHolders
<1>2. Cardinality(SlotHolders') = Cardinality(SlotHolders) - 1 /\ Cardinality(SlotHolders) \in Nat
  BY <1>1, SlotHoldersFinite, FS_RemoveElement, FS_CardinalityType
<1>3. free' = free + 1 /\ free \in Nat
  BY SlotInUse DEF Ends, IndInv, TypeOK
<1> QED BY <1>2, <1>3, DriftAssumption DEF SlotsBalance, SlotHolders, IndInv

\* Every step keeps the slots balanced.
LEMMA SlotsStep == IndInv /\ [Next]_vars => SlotsBalance'
<1>1. SUFFICES ASSUME IndInv, [Next]_vars PROVE SlotsBalance'
  OBVIOUS
<1>2. ASSUME SlotHolders' = SlotHolders, free' = free PROVE SlotsBalance'
  BY <1>1, <1>2 DEF SlotsBalance, SlotHolders, IndInv
<1>3. CASE Bystander \/ UNCHANGED vars
  BY <1>2, <1>3, BystanderKeeps DEF SlotHolders, Alive, Leaked
<1>4. CASE Start \/ SlotLeaks
  <2>1. NextRun \in Runs /\ NextRun \notin SlotHolders
    BY <1>4, NextRunUnused DEF Start, SlotLeaks, Unused, SlotHolders, Alive, Leaked, AlivePhases
  <2>2. SlotHolders' = SlotHolders \cup {NextRun}
    BY <1>1, <1>4, <2>1 DEF Start, SlotLeaks, SlotHolders, Alive, Leaked, AlivePhases, IndInv, TypeOK
  <2>3. Cardinality(SlotHolders') = Cardinality(SlotHolders) + 1 /\ Cardinality(SlotHolders) \in Nat
    BY <2>1, <2>2, SlotHoldersFinite, FS_AddElement, FS_CardinalityType
  <2>4. free' = free - 1 /\ free \in Nat
    BY <1>1, <1>4 DEF Start, SlotLeaks, IndInv, TypeOK
  <2> QED BY <1>1, <2>3, <2>4, DriftAssumption DEF SlotsBalance, SlotHolders, IndInv
<1>5. CASE StartFails
  <2>1. NextRun \in Runs /\ NextRun \notin SlotHolders
    BY <1>5, NextRunUnused DEF StartFails, Unused, SlotHolders, Alive, Leaked, AlivePhases
  <2>2. SlotHolders' = SlotHolders
    BY <1>1, <1>5, <2>1 DEF StartFails, SlotHolders, Alive, Leaked, AlivePhases, IndInv, TypeOK
  <2> QED BY <1>2, <1>5, <2>2 DEF StartFails
<1>6. ASSUME NEW r \in Runs,
             RunCreate(r) \/ RunComplete(r) \/ RunSync(r) \/ RunRaises(r) \/ RunFail(r) \/ RunSyncFails(r)
      PROVE  SlotsBalance'
  <2>1. SlotHolders' = SlotHolders /\ free' = free
    BY <1>1, <1>6 DEF RunCreate, RunComplete, RunSync, RunRaises, RunFail, RunSyncFails, SlotHolders, Alive, Leaked, AlivePhases,
                      IndInv, TypeOK
  <2> QED BY <1>2, <2>1
<1>7. ASSUME NEW r \in Runs, RunRecord(r) \/ RunDies(r) PROVE SlotsBalance'
  <2>1. r \in Alive /\ Ends(r)
    BY <1>7 DEF RunRecord, RunDies, Alive, AlivePhases
  <2> QED BY <1>1, <2>1, EndsBalance
<1>8. CASE Restart
  <2>1. Alive' = {} /\ Leaked' = {}
    BY <1>1, <1>8 DEF Restart, Alive, Leaked, AlivePhases, IndInv, TypeOK
  <2>2. Cardinality((Alive \cup Leaked)') = 0 /\ free' = Slots
    BY <1>8, <2>1, FS_EmptySet DEF Restart
  <2> QED BY <2>2, DriftAssumption DEF SlotsBalance
<1> QED BY <1>1, <1>3, <1>4, <1>5, <1>6, <1>7, <1>8, NextCases DEF RunStep, RunFault

\* CompletedIsBacked is kept when the metadata and the queue are, or lose
\* something, and the pointer stays or goes to a completed job.
LEMMA BackedKept ==
  ASSUME IndInv, JobsKept,
         mem' = mem \/ mem'.status # "completed",
         row' = row, queue' = queue,
         current' # 0 => current' = current \/ VouchedThen(current')
  PROVE  CompletedIsBacked'
<1>1. CompletedIsBacked /\ TypeOK
  BY DEF IndInv
<1>2. BackedThen(mem') /\ (current' # 0 => VouchedThen(current'))
  BY <1>1, BackedStays DEF BackedThen
<1> QED BY <1>1, <1>2, BackedStays, BackedAfter

\* Every step keeps what stands behind a completed drift.
LEMMA BackedStep == IndInv /\ [Next]_vars => CompletedIsBacked'
<1>1. SUFFICES ASSUME IndInv, [Next]_vars PROVE CompletedIsBacked'
  OBVIOUS
<1>2. JobsKept /\ PhaseJob /\ TypeOK /\ CompletedIsBacked
  BY <1>1, PhaseStep DEF IndInv
<1>3. CASE UNCHANGED vars \/ WatchdogCheck \/ Tick \/ LongTick \/ Conclude \/ IncidentSync
  BY <1>1, <1>2, <1>3, BackedKept
     DEF vars, event, work, WatchdogCheck, Tick, LongTick, Conclude, IncidentSync
<1>4. CASE Evict
  BY <1>1, <1>2, <1>4, BackedKept DEF Evict, NoMeta
<1>5. CASE Persist
  <2>1. Head(queue) \in Writes /\ Head(queue) = queue[1] /\ Len(queue) >= 1
        /\ Len(Tail(queue)) = Len(queue) - 1
        /\ \A i \in 1 .. Len(Tail(queue)) : Tail(queue)[i] = queue[i + 1]
    BY <1>2, <1>5 DEF Persist, TypeOK
  <2>2. Head(queue).kind \in {"meta", "location", "reset"} /\ row \in Metas
    BY <1>2, <2>1 DEF Writes, TypeOK
  <2>3. BackedThen(Written(Head(queue), row))
    <3>1. CASE Head(queue).kind = "meta"
      BY <1>2, <2>1, <3>1, BackedStays DEF Written
    <3>2. CASE Head(queue).kind = "location"
      BY <2>2, <3>2 DEF Written, BackedThen, Metas
    <3>3. CASE Head(queue).kind = "reset"
      BY <1>2, <2>2, <3>3, BackedStays DEF Written, BackedThen, Metas
    <3> QED BY <2>2, <3>1, <3>2, <3>3
  <2>4. \A i \in 1 .. Len(queue') : i + 1 \in 1 .. Len(queue) /\ queue'[i] = queue[i + 1]
    BY <1>5, <2>1 DEF Persist
  <2>5. UNCHANGED <<mem, current>> /\ row' = Written(Head(queue), row)
    BY <1>5 DEF Persist, work
  <2>6. \A i \in 1 .. Len(queue') : queue'[i].kind = "meta" => BackedThen(queue'[i].meta)
    BY <1>2, <2>4, BackedStays
  <2>7. BackedThen(mem') /\ BackedThen(row') /\ (current' # 0 => VouchedThen(current'))
    BY <1>2, <2>3, <2>5, BackedStays
  <2> QED BY <2>6, <2>7, BackedAfter
<1>6. CASE LocationEnriched
  <2>1. queue' = Append(queue, LocationWrite) /\ UNCHANGED <<row, current>>
    BY <1>6 DEF LocationEnriched, work
  <2>2. mem'.status = "superseded"
    BY <1>2, <1>6 DEF LocationEnriched, TypeOK, Metas
  <2>3. \A i \in 1 .. Len(queue') :
          \/ i \in 1 .. Len(queue) /\ queue'[i] = queue[i]
          \/ queue'[i] = LocationWrite
    BY <1>2, <2>1 DEF TypeOK
  <2>4. \A i \in 1 .. Len(queue') : queue'[i].kind = "meta" => BackedThen(queue'[i].meta)
    BY <1>2, <2>3, BackedStays DEF LocationWrite
  <2>5. BackedThen(mem') /\ BackedThen(row') /\ (current' # 0 => VouchedThen(current'))
    BY <1>2, <2>1, <2>2, BackedStays DEF BackedThen
  <2> QED BY <2>4, <2>5, BackedAfter
<1>7. CASE Start \/ StartFails \/ SlotLeaks
  <2> DEFINE failed == [Requested EXCEPT !.status = "failed"]
  <2>1. Requested \in Metas /\ Requested.status = "computing"
    <3>1. Requested \in Metas /\ Durable \in Metas
      BY <1>2, <1>7, RequestedType DEF Start, StartFails, SlotLeaks, Durable, TypeOK
    <3> QED BY <3>1 DEF Requested, Metas
  <2>2. failed \in Metas /\ failed.status = "failed"
    BY <2>1 DEF Metas, Statuses
  <2>3. row' = row /\ (current' # 0 => VouchedThen(current'))
    BY <1>2, <1>7, BackedStays DEF Start, StartFails, SlotLeaks
  <2> HIDE DEF failed
  <2> DEFINE one == <<Requested>>
             two == <<Requested, failed>>
  <2>4. /\ one \in Seq(Metas) /\ Len(one) > 0
        /\ \A i \in 1 .. Len(one) : BackedThen(one[i])
    BY <2>1 DEF BackedThen
  <2>5. /\ two \in Seq(Metas) /\ Len(two) > 0
        /\ \A i \in 1 .. Len(two) : BackedThen(two[i])
    <3>1. two \in Seq(Metas) /\ Len(two) = 2 /\ two[1] = Requested /\ two[2] = failed
      BY <2>1, <2>2
    <3> QED BY <2>1, <2>2, <3>1 DEF BackedThen
  <2>6. Start \/ SlotLeaks => UpdateEvent(one)
    BY DEF Start, SlotLeaks
  <2>7. StartFails => UpdateEvent(two)
    BY DEF StartFails, failed
  <2> HIDE DEF one, two
  <2> QED BY <1>2, <1>7, <2>3, <2>4, <2>5, <2>6, <2>7, UpdateBacked
<1>8. CASE WatchdogRefused
  <2> DEFINE refused == [Durable EXCEPT !.status = "ineligible"]
  <2>1. Durable \in Metas
    BY <1>2 DEF Durable, TypeOK
  <2>2. refused \in Metas /\ refused.status = "ineligible"
    BY <2>1 DEF Metas, Statuses
  <2> HIDE DEF refused
  <2>3. <<refused>> \in Seq(Metas) /\ Len(<<refused>>) > 0
        /\ \A i \in 1 .. Len(<<refused>>) : BackedThen(<<refused>>[i])
    BY <2>2 DEF BackedThen
  <2>4. row' = row /\ current' = current
    BY <1>8 DEF WatchdogRefused, work
  <2>5. UpdateEvent(<<refused>>) \/ UNCHANGED <<mem, queue>>
    BY <1>8 DEF WatchdogRefused, refused
  <2>6. current' # 0 => VouchedThen(current')
    BY <1>2, <2>4, BackedStays
  <2>7. CASE UpdateEvent(<<refused>>)
    BY <1>2, <2>3, <2>4, <2>6, <2>7, UpdateBacked
  <2>8. CASE UNCHANGED <<mem, queue>>
    BY <1>1, <1>2, <2>4, <2>8, BackedKept
  <2> QED BY <2>5, <2>7, <2>8
<1>9. ASSUME NEW r \in Runs,
             \/ RunCreate(r) \/ RunComplete(r) \/ RunSync(r) \/ RunFail(r)
             \/ RunDies(r) \/ RunSyncFails(r) \/ (RunRaises(r) /\ run[r] # "synced")
      PROVE  CompletedIsBacked'
  <2>1. UNCHANGED <<mem, row, queue>>
    BY <1>9 DEF RunCreate, RunComplete, RunSync, RunFail, RunRaises, RunDies, RunSyncFails, event
  <2>2. current' # 0 => current' = current \/ VouchedThen(current')
    BY <1>2, <1>9 DEF RunCreate, RunComplete, RunSync, RunFail, RunRaises, RunDies, RunSyncFails,
                      PhaseJob, TypeOK, VouchedThen
  <2> QED BY <1>1, <1>2, <2>1, <2>2, BackedKept
<1>10. ASSUME NEW r \in Runs, RunRecord(r) \/ (RunRaises(r) /\ run[r] = "synced")
       PROVE  CompletedIsBacked'
  <2>1. PICK s \in {"completed", "failed"} :
          UpdateEvent(<<Reported(r, s)>>) /\ (s = "completed" => run[r] = "synced")
    BY <1>10 DEF RunRecord, RunRaises
  <2>2. UNCHANGED <<row, job, undone, current>>
    BY <1>10 DEF RunRecord, RunRaises
  <2> DEFINE last == Reported(r, s)
  <2>3. last \in Metas /\ last.job = r /\ last.status = s
    BY <1>2, ReportedType
  <2>4. BackedThen(last)
    BY <1>2, <2>1, <2>2, <2>3, DriftAssumption DEF PhaseJob, BackedThen, VouchedThen, Runs
  <2>5. current' # 0 => VouchedThen(current')
    BY <1>2, <2>2, BackedStays
  <2>6. UpdateEvent(<<last>>)
    BY <2>1
  <2> HIDE DEF last
  <2> DEFINE one == <<last>>
  <2>7. one \in Seq(Metas) /\ Len(one) = 1 /\ one[1] = last
    BY <2>3
  <2>8. UpdateEvent(one)
    BY <2>6
  <2> HIDE DEF one
  <2>9. Len(one) > 0 /\ \A i \in 1 .. Len(one) : BackedThen(one[i])
    BY <2>4, <2>7
  <2> QED BY <1>2, <2>2, <2>5, <2>7, <2>8, <2>9, UpdateBacked
<1>11. CASE Restart
  <2>1. UNCHANGED <<row, current>>
    BY <1>11 DEF Restart
  <2>2. mem' \in {NoMeta, Written(ResetWrite, row)} /\ (queue' = <<>> \/ queue' = <<ResetWrite>>)
    BY <1>11 DEF Restart
  <2>3. row \in Metas
    BY <1>2 DEF TypeOK
  <2>4. BackedThen(row')
    BY <1>2, <2>1, BackedStays
  <2>5. BackedThen(mem')
    BY <2>1, <2>2, <2>3, <2>4 DEF BackedThen, NoMeta, Written, ResetWrite, Metas
  <2>6. current' # 0 => VouchedThen(current')
    BY <1>2, <2>1, BackedStays
  <2>7. \A i \in 1 .. Len(queue') : queue'[i].kind # "meta"
    BY <2>2 DEF ResetWrite
  <2> QED BY <2>4, <2>5, <2>6, <2>7, BackedAfter
<1> QED BY <1>1, <1>3, <1>4, <1>5, <1>6, <1>7, <1>8, <1>9, <1>10, <1>11, NextCases
           DEF Bystander, RunStep, RunFault

-----------------------------------------------------------------------------
(* The theorems *)

LEMMA Inductive == Spec => []IndInv
<1>1. IndInv /\ [Next]_vars => IndInv'
  BY TypeStep, PhaseStep, SlotsStep, BackedStep DEF IndInv
<1> QED BY Initially, <1>1, PTL DEF Spec

\* The types of the event's metadata, the queue, the runs and the slots, over
\* failures, evictions and restarts.
THEOREM TypeCorrect == Spec => []TypeOK
BY Inductive, PTL DEF IndInv

\* Whatever fails or restarts, a slot of MAX_CONCURRENT_DRIFTS is free, held by a
\* live run, or lost to a request whose update_metadata raised: no path of a run
\* leaks its slot or returns it twice.
THEOREM SlotsBalanceHolds == Spec => []SlotsBalance
BY Inductive, PTL DEF IndInv

\* Whatever fails or restarts, what calls a drift completed (the incident's
\* pointer, the event, its row, a queued write) names a completed job, or one that
\* its own run completed and then failed.
THEOREM CompletedIsBackedHolds == Spec => []CompletedIsBacked
BY Inductive, PTL DEF IndInv

-----------------------------------------------------------------------------
(* The dates of the requests *)

\* Metadata that says a drift is computed, or failed, says when it was asked
\* for, and that request was launched: its age grows.
Asked(m) ==
  /\ m.status \in {"computing", "failed"} => m.asked # 0
  /\ m.asked # 0 => run[m.asked] # "unused"

\* The age guards of drift_watchdog.reconcile pass over a request without a
\* date: in the event, its row or a write under way it would never be renewed.
RequestIsDated ==
  /\ Asked(mem) /\ Asked(row)
  /\ \A i \in 1 .. Len(queue) : queue[i].kind = "meta" => Asked(queue[i].meta)

\* The run that ends writes its status into the event that asked for one.
HeldRequest == resident /\ Alive # {} => mem.asked # 0

DatedInv == RequestIsDated /\ HeldRequest

\* Asked, of metadata of this state, once the step is done.
AskedThen(m) ==
  /\ m.status \in {"computing", "failed"} => m.asked # 0
  /\ m.asked # 0 => run'[m.asked] # "unused"

\* No step takes the launch of a run back.
LaunchesKept == \A r \in Runs : run[r] # "unused" => run'[r] # "unused"

LEMMA LaunchesStep == IndInv /\ [Next]_vars => LaunchesKept
<1>1. SUFFICES ASSUME IndInv, [Next]_vars PROVE LaunchesKept
  OBVIOUS
<1>2. CASE Bystander \/ UNCHANGED vars
  BY <1>2, BystanderKeeps DEF LaunchesKept
<1>3. CASE Start \/ StartFails \/ SlotLeaks
  BY <1>1, <1>3 DEF Start, StartFails, SlotLeaks, IndInv, TypeOK, LaunchesKept
<1>4. ASSUME NEW r \in Runs, RunStep(r) PROVE LaunchesKept
  BY <1>1, <1>4 DEF RunStep, RunCreate, RunComplete, RunSync, RunRecord, RunFail, Ends, IndInv,
                    TypeOK, LaunchesKept
<1>5. ASSUME NEW r \in Runs, RunFault(r) PROVE LaunchesKept
  BY <1>1, <1>5 DEF RunFault, RunRaises, RunDies, RunSyncFails, Ends, IndInv, TypeOK, LaunchesKept
<1>6. CASE Restart
  BY <1>1, <1>6 DEF Restart, IndInv, TypeOK, LaunchesKept
<1> QED BY <1>1, <1>2, <1>3, <1>4, <1>5, <1>6, NextCases

\* What was asked stays asked.
LEMMA AskedKept ==
  ASSUME TypeOK, RequestIsDated, LaunchesKept
  PROVE  /\ AskedThen(mem) /\ AskedThen(row)
         /\ \A i \in 1 .. Len(queue) : queue[i].kind = "meta" => AskedThen(queue[i].meta)
<1>1. ASSUME NEW m \in Metas, Asked(m) PROVE AskedThen(m)
  <2>1. m.asked # 0 => m.asked \in Runs
    BY DriftAssumption DEF Metas, Runs
  <2> QED BY <1>1, <2>1 DEF Asked, AskedThen, LaunchesKept
<1>2. \A i \in 1 .. Len(queue) : queue[i].meta \in Metas
  <2>1. TAKE i \in 1 .. Len(queue)
  <2>2. queue[i] \in Writes
    BY <2>1 DEF TypeOK
  <2> QED BY <2>2 DEF Writes
<1>3. mem \in Metas /\ row \in Metas
  BY DEF TypeOK
<1> QED BY <1>1, <1>2, <1>3 DEF RequestIsDated

\* RequestIsDated after a step, from what the step leaves.
LEMMA DatedThen ==
  ASSUME AskedThen(mem'), AskedThen(row'),
         \A i \in 1 .. Len(queue') : queue'[i].kind = "meta" => AskedThen(queue'[i].meta)
  PROVE  RequestIsDated'
BY DEF RequestIsDated, Asked, AskedThen

\* update_metadata with dated metadata keeps RequestIsDated.
LEMMA UpdateDated ==
  ASSUME TypeOK, RequestIsDated, LaunchesKept, row' = row,
         NEW steps \in Seq(Metas), Len(steps) > 0, UpdateEvent(steps),
         resident => \A i \in 1 .. Len(steps) : AskedThen(steps[i])
  PROVE  RequestIsDated'
<1> DEFINE new == [i \in 1 .. Len(steps) |-> MetaWrite(steps[i])]
<1>1. /\ AskedThen(mem) /\ AskedThen(row)
      /\ \A i \in 1 .. Len(queue) : queue[i].kind = "meta" => AskedThen(queue[i].meta)
  BY AskedKept
<1>2. resident => \A i \in 1 .. Len(steps) : AskedThen(new[i].meta)
  BY DEF MetaWrite
<1>3. AskedThen(mem')
  <2> DEFINE n == Len(steps)
  <2>1. n \in 1 .. Len(steps)
    OBVIOUS
  <2>2. mem' = mem \/ (resident /\ mem' = steps[n])
    BY DEF UpdateEvent
  <2> HIDE DEF n
  <2> QED BY <1>1, <2>1, <2>2
<1>4. \A i \in 1 .. Len(queue') : queue'[i].kind = "meta" => AskedThen(queue'[i].meta)
  <2>1. CASE resident
    <3>1. queue \in Seq(Writes) /\ new \in Seq({MetaWrite(steps[i]) : i \in 1 .. Len(steps)})
      BY DEF TypeOK
    <3>2. queue' = queue \o new
      BY <2>1 DEF UpdateEvent
    <3>3. \A i \in 1 .. Len(queue') :
            IF i <= Len(queue) THEN i \in 1 .. Len(queue) /\ queue'[i] = queue[i]
            ELSE i - Len(queue) \in 1 .. Len(steps) /\ queue'[i] = new[i - Len(queue)]
      BY <3>1, <3>2
    <3> HIDE DEF new
    <3> QED BY <2>1, <3>3, <1>1, <1>2
  <2>2. CASE ~resident
    BY <2>2, <1>1 DEF UpdateEvent
  <2> QED BY <2>1, <2>2
<1> QED BY <1>1, <1>3, <1>4, DatedThen

\* A step that writes no metadata, or drops the event, keeps RequestIsDated.
LEMMA DatedKept ==
  ASSUME TypeOK, RequestIsDated, LaunchesKept,
         mem' = mem \/ mem' = NoMeta, row' = row, queue' = queue
  PROVE  RequestIsDated'
<1>1. AskedThen(NoMeta)
  BY DEF AskedThen, NoMeta
<1>2. AskedThen(mem')
  BY <1>1, AskedKept
<1> QED BY <1>2, AskedKept, DatedThen

\* schedule_intel_drift: the request carries the run it launches as its date,
\* and a thread that does not start leaves that date.
LEMMA StartDated ==
  ASSUME IndInv, DatedInv, LaunchesKept, Start \/ StartFails \/ SlotLeaks
  PROVE  RequestIsDated' /\ HeldRequest'
<1> DEFINE asking == Requested
           failed == [Requested EXCEPT !.status = "failed"]
<1>1. Unused # {} /\ row' = row /\ resident' = resident
  BY DEF Start, StartFails, SlotLeaks
<1>2. TypeOK /\ RequestIsDated
  BY DEF IndInv, DatedInv
<1>3. NextRun \in Runs /\ NextRun # 0 /\ run'[NextRun] # "unused"
  <2>1. NextRun \in Runs
    BY <1>1, <1>2, RequestedType
  <2> QED BY <1>2, <2>1, DriftAssumption DEF Start, StartFails, SlotLeaks, TypeOK, Runs
<1>4. asking \in Metas /\ asking.asked = NextRun
  <2>1. Requested \in Metas /\ Durable \in Metas
    BY <1>1, <1>2, RequestedType DEF Durable, TypeOK
  <2> QED BY <2>1 DEF Requested, Metas
<1>5. failed \in Metas /\ failed.asked = NextRun
  BY <1>4 DEF Metas, Statuses
<1> DEFINE one == <<asking>>
           two == <<asking, failed>>
<1>6. Start \/ SlotLeaks => UpdateEvent(one)
  BY DEF Start, SlotLeaks
<1>7. StartFails => UpdateEvent(two)
  BY DEF StartFails
<1> HIDE DEF asking, failed
<1>8. AskedThen(asking) /\ AskedThen(failed)
  BY <1>3, <1>4, <1>5 DEF AskedThen
<1>9. /\ one \in Seq(Metas) /\ Len(one) = 1 /\ one[1] = asking
      /\ two \in Seq(Metas) /\ Len(two) = 2 /\ two[1] = asking /\ two[2] = failed
  BY <1>4, <1>5
<1> HIDE DEF one, two
<1>10. /\ \A i \in 1 .. Len(one) : AskedThen(one[i])
       /\ \A i \in 1 .. Len(two) : AskedThen(two[i])
  BY <1>8, <1>9
<1>11. RequestIsDated'
  <2>1. CASE Start \/ SlotLeaks
    <3>1. Len(one) > 0
      BY <1>9
    <3> QED BY <1>1, <1>2, <1>6, <1>9, <1>10, <2>1, <3>1, UpdateDated
  <2>2. CASE StartFails
    <3>1. Len(two) > 0
      BY <1>9
    <3> QED BY <1>1, <1>2, <1>7, <1>9, <1>10, <2>2, <3>1, UpdateDated
  <2> QED BY <2>1, <2>2
<1>12. resident => mem'.asked = NextRun
  BY <1>4, <1>5, <1>6, <1>7, <1>9 DEF UpdateEvent
<1> QED BY <1>1, <1>3, <1>11, <1>12 DEF HeldRequest

\* The queue without its head, and the row with it.
LEMMA PersistDated ==
  ASSUME IndInv, RequestIsDated, LaunchesKept, Persist
  PROVE  RequestIsDated'
<1>1. TypeOK
  BY DEF IndInv
<1>2. /\ AskedThen(mem) /\ AskedThen(row)
      /\ \A i \in 1 .. Len(queue) : queue[i].kind = "meta" => AskedThen(queue[i].meta)
  BY <1>1, AskedKept
<1> DEFINE w == Head(queue)
<1>3. w \in Writes /\ Len(queue) >= 1 /\ w = queue[1]
      /\ Len(Tail(queue)) = Len(queue) - 1
      /\ \A i \in 1 .. Len(Tail(queue)) : Tail(queue)[i] = queue[i + 1]
  BY <1>1 DEF Persist, TypeOK
<1>4. mem' = mem /\ row' = Written(w, row) /\ queue' = Tail(queue)
  BY DEF Persist
<1> HIDE DEF w
<1>5. w.kind \in {"meta", "location", "reset"} /\ row \in Metas
  BY <1>1, <1>3 DEF Writes, TypeOK
<1>6. AskedThen(row')
  <2>1. CASE w.kind = "meta"
    BY <1>2, <1>3, <1>4, <2>1 DEF Written
  <2>2. CASE w.kind = "location"
    BY <1>2, <1>4, <1>5, <2>2 DEF Written, AskedThen, Metas
  <2>3. CASE w.kind = "reset"
    BY <1>2, <1>4, <1>5, <2>3 DEF Written, AskedThen, Metas
  <2> QED BY <1>5, <2>1, <2>2, <2>3
<1>7. \A i \in 1 .. Len(queue') : i + 1 \in 1 .. Len(queue) /\ queue'[i] = queue[i + 1]
  BY <1>3, <1>4
<1>8. \A i \in 1 .. Len(queue') : queue'[i].kind = "meta" => AskedThen(queue'[i].meta)
  BY <1>2, <1>7
<1> QED BY <1>2, <1>4, <1>6, <1>8, DatedThen

\* Every step keeps the dates.
LEMMA DatedStep == IndInv /\ DatedInv /\ [Next]_vars => DatedInv'
<1>1. SUFFICES ASSUME IndInv, DatedInv, [Next]_vars PROVE RequestIsDated' /\ HeldRequest'
  BY DEF DatedInv
<1>2. TypeOK /\ RequestIsDated /\ HeldRequest /\ LaunchesKept
  BY <1>1, LaunchesStep DEF IndInv, DatedInv
<1>3. CASE \/ UNCHANGED vars \/ Evict
           \/ WatchdogCheck \/ Tick \/ LongTick \/ Conclude \/ IncidentSync
  <2>1. row' = row /\ queue' = queue /\ run' = run
    BY <1>3 DEF vars, event, work, Evict, WatchdogCheck, Tick, LongTick, Conclude, IncidentSync
  <2>2. CASE Evict
    BY <1>2, <2>1, <2>2, DatedKept DEF Evict, HeldRequest
  <2>3. CASE ~Evict
    <3>1. UNCHANGED <<mem, resident>>
      BY <1>3, <2>3 DEF vars, event, WatchdogCheck, Tick, LongTick, Conclude, IncidentSync
    <3> QED BY <1>2, <2>1, <3>1, DatedKept DEF HeldRequest, Alive
  <2> QED BY <2>2, <2>3
<1>4. CASE Persist
  <2>1. UNCHANGED <<mem, resident, run>>
    BY <1>4 DEF Persist, work
  <2> QED BY <1>1, <1>2, <1>4, <2>1, PersistDated DEF HeldRequest, Alive
<1>5. CASE LocationEnriched
  <2>1. queue' = Append(queue, LocationWrite) /\ UNCHANGED <<row, resident, run>>
        /\ mem' = [mem EXCEPT !.status = "superseded"]
    BY <1>5 DEF LocationEnriched, work
  <2>2. mem'.status = "superseded" /\ mem'.asked = mem.asked
    BY <1>2, <2>1 DEF TypeOK, Metas
  <2>3. AskedThen(mem') /\ AskedThen(row')
    BY <1>2, <2>1, <2>2, AskedKept DEF AskedThen
  <2>4. \A i \in 1 .. Len(queue') :
          \/ i \in 1 .. Len(queue) /\ queue'[i] = queue[i]
          \/ queue'[i] = LocationWrite
    BY <1>2, <2>1 DEF TypeOK
  <2>5. \A i \in 1 .. Len(queue') : queue'[i].kind = "meta" => AskedThen(queue'[i].meta)
    BY <1>2, <2>4, AskedKept DEF LocationWrite
  <2> QED BY <1>2, <2>1, <2>2, <2>3, <2>5, DatedThen DEF HeldRequest, Alive
<1>6. CASE Start \/ StartFails \/ SlotLeaks
  BY <1>1, <1>2, <1>6, StartDated
<1>7. CASE WatchdogRefused
  <2> DEFINE refused == [Durable EXCEPT !.status = "ineligible"]
  <2>1. UNCHANGED <<row, resident, run>>
    BY <1>7 DEF WatchdogRefused, work
  <2>2. UpdateEvent(<<refused>>) \/ UNCHANGED <<mem, queue>>
    BY <1>7 DEF WatchdogRefused
  <2>3. CASE UNCHANGED <<mem, queue>>
    BY <1>2, <2>1, <2>3, DatedKept DEF HeldRequest, Alive
  <2>4. CASE UpdateEvent(<<refused>>)
    <3>1. Durable \in Metas /\ AskedThen(Durable)
      BY <1>2, AskedKept DEF Durable, TypeOK
    <3>2. refused \in Metas /\ refused.status = "ineligible" /\ refused.asked = Durable.asked
      BY <3>1 DEF Metas, Statuses
    <3>3. AskedThen(refused)
      BY <3>1, <3>2 DEF AskedThen
    <3> DEFINE one == <<refused>>
    <3>4. one \in Seq(Metas) /\ Len(one) = 1 /\ one[1] = refused
      BY <3>2
    <3>5. resident => mem'.asked = mem.asked
      BY <2>4, <3>2 DEF UpdateEvent, Durable
    <3>6. UpdateEvent(one)
      BY <2>4
    <3> HIDE DEF refused, one
    <3>7. Len(one) > 0 /\ \A i \in 1 .. Len(one) : AskedThen(one[i])
      BY <3>3, <3>4
    <3>8. RequestIsDated'
      BY <1>2, <2>1, <3>4, <3>6, <3>7, UpdateDated
    <3> QED BY <1>2, <2>1, <3>5, <3>8 DEF HeldRequest, Alive
  <2> QED BY <2>2, <2>3, <2>4
<1>8. ASSUME NEW r \in Runs,
             \/ RunCreate(r) \/ RunComplete(r) \/ RunSync(r) \/ RunFail(r)
             \/ RunDies(r) \/ RunSyncFails(r) \/ (RunRaises(r) /\ run[r] # "synced")
      PROVE  RequestIsDated' /\ HeldRequest'
  <2>1. UNCHANGED <<mem, row, queue, resident>>
    BY <1>8 DEF RunCreate, RunComplete, RunSync, RunFail, RunRaises, RunDies, RunSyncFails, event
  <2>2. r \in Alive
    BY <1>8 DEF RunCreate, RunComplete, RunSync, RunFail, RunRaises, RunDies, RunSyncFails, Alive,
                AlivePhases
  <2> QED BY <1>2, <2>1, <2>2, DatedKept DEF HeldRequest
<1>9. ASSUME NEW r \in Runs, RunRecord(r) \/ (RunRaises(r) /\ run[r] = "synced")
      PROVE  RequestIsDated' /\ HeldRequest'
  <2>1. PICK s \in {"completed", "failed"} : UpdateEvent(<<Reported(r, s)>>)
    BY <1>9 DEF RunRecord, RunRaises
  <2>2. UNCHANGED <<row, resident>> /\ r \in Alive
    BY <1>9 DEF RunRecord, RunRaises, Alive, AlivePhases
  <2> DEFINE last == Reported(r, s)
  <2>3. last \in Metas /\ last.asked = Durable.asked /\ AskedThen(Durable)
    BY <1>2, AskedKept, ReportedType DEF Durable
  <2>4. resident => mem.asked # 0 /\ Durable = mem
    BY <1>2, <2>2 DEF HeldRequest, Durable
  <2>5. UpdateEvent(<<last>>)
    BY <2>1
  <2> HIDE DEF last
  <2> DEFINE one == <<last>>
  <2>6. one \in Seq(Metas) /\ Len(one) = 1 /\ one[1] = last
    BY <2>3
  <2>7. UpdateEvent(one) /\ (resident => mem' = last)
    BY <2>5, <2>6 DEF UpdateEvent
  <2> HIDE DEF one
  <2>8. resident => AskedThen(last)
    BY <2>3, <2>4 DEF AskedThen
  <2>9. Len(one) > 0 /\ (resident => \A i \in 1 .. Len(one) : AskedThen(one[i]))
    BY <2>6, <2>8
  <2>10. RequestIsDated'
    BY <1>2, <2>2, <2>6, <2>7, <2>9, UpdateDated
  <2> QED BY <2>2, <2>3, <2>4, <2>7, <2>10 DEF HeldRequest
<1>10. CASE Restart
  <2>1. row' = row /\ Alive' = {}
    BY <1>2, <1>10 DEF Restart, Alive, AlivePhases, TypeOK
  <2>2. mem' \in {NoMeta, Written(ResetWrite, row)} /\ (queue' = <<>> \/ queue' = <<ResetWrite>>)
    BY <1>10 DEF Restart
  <2>3. row \in Metas /\ AskedThen(row)
    BY <1>2, AskedKept DEF TypeOK
  <2>4. AskedThen(mem')
    BY <2>2, <2>3 DEF AskedThen, NoMeta, Written, ResetWrite, Metas
  <2>5. \A i \in 1 .. Len(queue') : queue'[i].kind # "meta"
    BY <2>2 DEF ResetWrite
  <2> QED BY <2>1, <2>3, <2>4, <2>5, DatedThen DEF HeldRequest
<1> QED BY <1>1, <1>3, <1>4, <1>5, <1>6, <1>7, <1>8, <1>9, <1>10, NextCases
           DEF Bystander, RunStep, RunFault

\* Whatever fails, is evicted or restarts, a drift that is said to be computed
\* or to have failed carries the date of a request that was launched, so the
\* watchdog's waiting for it ends: the part of Recovered that needs no fairness.
THEOREM RequestIsDatedHolds == Spec => []RequestIsDated
<1>1. Init => DatedInv
  BY DEF Init, DatedInv, RequestIsDated, HeldRequest, Asked, NoMeta, Alive, AlivePhases
<1>2. DatedInv => RequestIsDated
  BY DEF DatedInv
<1> QED BY <1>1, <1>2, DatedStep, Inductive, PTL DEF Spec

-----------------------------------------------------------------------------
(* The store the requests are kept in *)

\* The objects made so far.
Known == 1 .. created

\* The objects that may still be shown or written in this process: those in the
\* deque, on their way into it or to the queue, in the queue, being merged, and
\* read at the start.
InCalls(c) == {c[t].obj : t \in {u \in Threads : c[u].at \in {"event", "rehydrate"}}}
InWrites(q) == {q[n].obj : n \in {k \in 1 .. Len(q) : q[k].op = "event"}}
InMerge(m) == IF m = None THEN {} ELSE {m.obj}
InLoading(l) == {l[n].row : n \in 1 .. Len(l)}
Live == Range(events) \union InCalls(call) \union InWrites(writes) \union InMerge(merging)
          \union InLoading(loading)

\* An object names the row of its report, before the row is there and after.
Tracked ==
  /\ Live \subseteq Known
  /\ \A o \in Known : eid[o] \in Known /\ report[o] \in Reports /\ report[eid[o]] = report[o]
  /\ merging # None => /\ merging.row \in rows /\ report[merging.row] = report[merging.obj]
                       /\ writes # <<>>

\* What a thread carries from one step of its call to the next, given the
\* objects known.
Fit(c, known) ==
  /\ c.at = "copy" => c.obj \in known
  /\ c.at \in {"append", "rehydrate", "wait", "show"} => c.id \in Objects /\ c.fact \in Replies
  /\ c.at = "fact" => c.id \in Objects /\ c.fact \in Locations
  /\ c.at = "put" => c.id \in Objects
  /\ c.at \in {"copy", "put"} => c.fact \in Replies \union {None}
  /\ c.at = "copy" /\ c.fact # None => c.id \in Objects

\* A thread that waits waits for one write of the queue, and only such a thread
\* is woken.
Waiting ==
  /\ \A n \in 1 .. Len(writes) : writes[n].by # None => call[writes[n].by].at = "wait"
  /\ \A m, n \in 1 .. Len(writes) : writes[m].by = writes[n].by /\ writes[m].by # None => m = n
  /\ \A t \in Threads : call[t].at = "wait" => \E n \in 1 .. Len(writes) : writes[n].by = t

Fits == \A t \in Threads : Fit(call[t], Known)

\* Nothing else happens while load_from_db runs.
Starting ==
  loading # <<>> => writes = <<>> /\ merging = None /\ \A t \in Threads : call[t] = Idle

Shape == StoreTypeOK /\ Fits /\ Waiting /\ Starting

StoreInv == Shape /\ Tracked /\ OneRowPerItem

\* The key of a post is there, or its post counts as forgotten.
Kept(p) == IdKey(p) \in Range(seen) \/ p \in forgotten

\* No key leaves the window unnoticed.
Keeps ==
  /\ forgotten \subseteq forgotten'
  /\ \A p \in Posts : IdKey(p) \in Range(seen) => Kept(p)'

\* A step that makes no object and no row and repoints nothing.
Quiet ==
  /\ Live' \subseteq Live
  /\ UNCHANGED <<created, report, eid, rows>>
  /\ \/ merging' = None
     \/ merging' = merging /\ (writes # <<>> => writes' # <<>>)
  /\ Keeps
  /\ \A o \in InLoading(loading) : o \in InLoading(loading') \/ Kept(Post(o))'

\* What a thread may be doing, and the places of a write.
Calls == [at : {"idle", "event", "copy", "put", "fact", "rehydrate", "append", "wait", "show"},
          obj : Objects \union {None}, id : Objects \union {None},
          fact : AllFacts \union {None}, copy : SUBSET AllFacts]

\* The store's bounds as numbers.
LEMMA StoreBounds ==
  /\ MaxEvents \in Nat \ {0} /\ SeedLimit \in Nat \ {0} /\ DedupWindow \in Nat \ {0}
  /\ MaxObjects \in Nat /\ MaxCalls \in Nat /\ MaxRestarts \in Nat /\ MaxFails \in Nat
  /\ Reports \subseteq [post : Posts, source : Sources]
  /\ None \notin Reports \union Threads \union Facts \union Locations \union Replies
BY StoreAssumption

\* A slice of a sequence: its members are members of the sequence.
LEMMA NewestFacts ==
  ASSUME NEW T, NEW s \in Seq(T), NEW n \in Nat
  PROVE  /\ Newest(s, n) \in Seq(T) /\ Len(Newest(s, n)) <= n
         /\ Len(Newest(s, n)) <= Len(s)
         /\ Len(s) <= n => Newest(s, n) = s
         /\ \A k \in 1 .. Len(Newest(s, n)) : Newest(s, n)[k] = s[k]
<1> DEFINE m == IF Len(s) < n THEN Len(s) ELSE n
<1>1. m \in 0 .. Len(s) /\ m <= n /\ (Len(s) <= n => m = Len(s))
  OBVIOUS
<1>2. Newest(s, n) = SubSeq(s, 1, m)
  BY DEF Newest
<1> HIDE DEF m
<1>3. /\ SubSeq(s, 1, m) \in Seq(T) /\ Len(SubSeq(s, 1, m)) = m
      /\ \A k \in 1 .. m : SubSeq(s, 1, m)[k] = s[k]
  BY <1>1
<1>4. m = Len(s) => SubSeq(s, 1, m) = s
  BY <1>3
<1> QED
  BY <1>1, <1>2, <1>3, <1>4

\* The deque takes an object in front and drops others at its end.
LEMMA PushLeftFacts ==
  ASSUME events \in Seq(Objects), NEW o \in Objects
  PROVE  /\ PushLeft(o) \in Seq(Objects) /\ Len(PushLeft(o)) <= MaxEvents
         /\ Range(PushLeft(o)) \subseteq Range(events) \union {o}
<1> DEFINE s == <<o>> \o events
<1>1. /\ s \in Seq(Objects) /\ Len(s) = Len(events) + 1
      /\ \A k \in 1 .. Len(s) : s[k] = IF k = 1 THEN o ELSE events[k - 1]
  OBVIOUS
<1>2. PushLeft(o) = Newest(s, MaxEvents)
  BY DEF PushLeft
<1> HIDE DEF s
<1> DEFINE w == Newest(s, MaxEvents)
<1>3. /\ w \in Seq(Objects) /\ Len(w) <= MaxEvents /\ Len(w) <= Len(s)
      /\ \A k \in 1 .. Len(w) : w[k] = s[k]
  BY <1>1, NewestFacts, StoreBounds
<1> HIDE DEF w
<1>4. ASSUME NEW k \in 1 .. Len(w) PROVE w[k] \in Range(events) \union {o}
  <2>1. k \in 1 .. Len(s) /\ Len(events) \in Nat
    BY <1>1, <1>3
  <2>2. CASE k = 1
    BY <1>1, <1>3, <2>1, <2>2
  <2>3. CASE k # 1
    <3>1. k - 1 \in 1 .. Len(events) /\ w[k] = events[k - 1]
      BY <1>1, <1>3, <2>1, <2>3
    <3>2. k - 1 \in DOMAIN events
      BY <3>1
    <3> QED
      BY <3>1, <3>2 DEF Range
  <2> QED
    BY <2>2, <2>3
<1>5. DOMAIN w = 1 .. Len(w)
  BY <1>3
<1> QED
  BY <1>2, <1>3, <1>4, <1>5 DEF Range, w

\* The keys of a report.
LEMMA KeyFacts ==
  ASSUME NEW r \in Reports
  PROVE  r.post \in Posts /\ TextKey(r) \in Keys /\ IdKey(r.post) \in Keys
BY StoreBounds DEF TextKey, IdKey, Keys

\* The window takes keys and keeps its size.
LEMMA RememberFacts ==
  ASSUME NEW s \in Seq(Keys), NEW j \in Keys, NEW k \in Keys
  PROVE  Remember(s, j, k) \in Seq(Keys) /\ Len(Remember(s, j, k)) <= DedupWindow
<1>1. ASSUME NEW u \in Seq(Keys), NEW i \in Keys PROVE Insert(u, i) \in Seq(Keys)
  BY DEF Insert
<1>2. Insert(Insert(s, j), k) \in Seq(Keys)
  BY <1>1
<1>3. ASSUME NEW u \in Seq(Keys) PROVE Trim(u) \in Seq(Keys) /\ Len(Trim(u)) <= DedupWindow
  <2>1. CASE Len(u) <= DedupWindow
    BY <2>1 DEF Trim
  <2>2. CASE ~(Len(u) <= DedupWindow)
    <3> DEFINE m == Len(u) - DedupWindow + 1
    <3>1. /\ m \in 1 .. Len(u) /\ Len(u) \in Nat /\ Len(u) - m + 1 = DedupWindow
          /\ Trim(u) = SubSeq(u, m, Len(u))
      BY <2>2, StoreBounds DEF Trim
    <3> HIDE DEF m
    <3>2. SubSeq(u, m, Len(u)) \in Seq(Keys) /\ Len(SubSeq(u, m, Len(u))) = Len(u) - m + 1
      BY <3>1
    <3> QED
      BY <3>1, <3>2, StoreBounds
  <2> QED
    BY <2>1, <2>2
<1> QED
  BY <1>2, <1>3 DEF Remember

\* What leaves the window when keys of a post enter it is put down.
LEMMA RemembersFacts ==
  ASSUME forgotten \subseteq Posts, NEW p \in Posts,
         NEW s \in Seq(Keys), Len(s) <= DedupWindow, Remembers(p, s)
  PROVE  /\ seen' \in Seq(Keys) /\ Len(seen') <= DedupWindow /\ forgotten' \subseteq Posts
         /\ Keeps /\ Kept(p)'
BY DEF Remembers, Keeps, Kept

LEMMA OrdersFacts ==
  ASSUME seen \in Seq(Keys), forgotten \subseteq Posts, NEW r \in Reports,
         \E s \in Orders(r) : Remembers(r.post, s)
  PROVE  /\ seen' \in Seq(Keys) /\ Len(seen') <= DedupWindow /\ forgotten' \subseteq Posts
         /\ Keeps /\ Kept(r.post)'
<1>1. PICK s \in Orders(r) : Remembers(r.post, s)
  OBVIOUS
<1>2. s \in Seq(Keys) /\ Len(s) <= DedupWindow
  BY KeyFacts, RememberFacts DEF Orders
<1> QED
  BY <1>1, <1>2, KeyFacts, RemembersFacts

\* A sequence read backwards.
LEMMA BackwardsFacts ==
  ASSUME NEW T, NEW s \in Seq(T)
  PROVE  /\ Backwards(s) \in Seq(T) /\ Len(Backwards(s)) = Len(s)
         /\ \A k \in 1 .. Len(s) : Backwards(s)[k] = s[Len(s) + 1 - k]
         /\ Backwards(Backwards(s)) = s
<1> DEFINE b == Backwards(s)
<1>1. b = [n \in 1 .. Len(s) |-> s[Len(s) + 1 - n]] /\ Len(s) \in Nat
  BY DEF Backwards
<1>2. \A n \in 1 .. Len(s) : Len(s) + 1 - n \in 1 .. Len(s) /\ s[Len(s) + 1 - n] \in T
  BY <1>1
<1>3. b \in Seq(T) /\ Len(b) = Len(s)
  BY <1>1, <1>2
<1>4. Backwards(b) = [n \in 1 .. Len(s) |-> b[Len(s) + 1 - n]]
  BY <1>3 DEF Backwards
<1>5. \A n \in 1 .. Len(s) : b[Len(s) + 1 - n] = s[n]
  BY <1>1, <1>2
<1>6. Backwards(b) = s
  BY <1>4, <1>5
<1> QED
  BY <1>1, <1>3, <1>6

\* A set of rows in order is a sequence of them, each once.
LEMMA InOrderFacts ==
  ASSUME NEW S, IsFiniteSet(S), NEW f \in InOrder(S)
  PROVE  /\ f \in Seq(S) /\ Len(f) = Cardinality(S)
         /\ \A r \in S : \E n \in 1 .. Len(f) : f[n] = r
         /\ \A m, n \in 1 .. Len(f) : f[m] = f[n] => m = n
<1>1. Cardinality(S) = Cardinality(S)
  BY DEF Cardinality, Cardinality
<1>2. Cardinality(S) \in Nat
  BY FS_CardinalityType
<1>3. f \in Bijection(1 .. Cardinality(S), S)
  BY <1>1 DEF InOrder
<1>4. /\ f \in [1 .. Cardinality(S) -> S]
      /\ \A r \in S : \E n \in 1 .. Cardinality(S) : f[n] = r
      /\ \A m, n \in 1 .. Cardinality(S) : f[m] = f[n] => m = n
  BY <1>3 DEF Bijection, Injection, Surjection, IsInjective
<1>5. f \in Seq(S) /\ Len(f) = Cardinality(S)
  BY <1>2, <1>4
<1> QED
  BY <1>4, <1>5

\* The members of a sequence over T.
LEMMA SeqMembers ==
  ASSUME NEW T, NEW U, T \subseteq U, NEW s \in Seq(T)
  PROVE  /\ s \in Seq(U) /\ Len(s) \in Nat /\ DOMAIN s = 1 .. Len(s)
         /\ \A n \in 1 .. Len(s) : s[n] \in T
         /\ Range(s) = {s[n] : n \in 1 .. Len(s)} /\ Range(s) \subseteq T
<1>1. Len(s) \in Nat /\ DOMAIN s = 1 .. Len(s) /\ \A n \in 1 .. Len(s) : s[n] \in T
  OBVIOUS
<1>2. s \in Seq(U)
  BY <1>1
<1>3. Range(s) = {s[n] : n \in 1 .. Len(s)}
  BY <1>1 DEF Range
<1> QED
  BY <1>1, <1>2, <1>3

\* What is read is entered from the first on.
LEMMA LoadingTail ==
  ASSUME NEW T, \A e \in T : e.row \in Objects, NEW l \in Seq(T), l # <<>>
  PROVE  /\ Tail(l) \in Seq(T)
         /\ Head(l).row \in InLoading(l) /\ Head(l).row \in Objects
         /\ InLoading(Tail(l)) \subseteq InLoading(l)
         /\ \A x \in InLoading(l) : x \in InLoading(Tail(l)) \/ x = Head(l).row
<1> DEFINE u == Tail(l)
<1>1. /\ u \in Seq(T) /\ Len(l) \in Nat \ {0} /\ Len(u) = Len(l) - 1
      /\ \A n \in 1 .. Len(u) : n + 1 \in 1 .. Len(l) /\ u[n] = l[n + 1]
      /\ Head(l) = l[1] /\ 1 \in 1 .. Len(l) /\ l[1] \in T
  OBVIOUS
<1> HIDE DEF u
<1>2. ASSUME NEW x \in InLoading(l), x # l[1].row PROVE x \in InLoading(u)
  <2>1. PICK n \in 1 .. Len(l) : x = l[n].row
    BY DEF InLoading
  <2>2. n - 1 \in 1 .. Len(u) /\ u[n - 1] = l[n]
    BY <1>1, <1>2, <2>1
  <2> QED
    BY <2>1, <2>2 DEF InLoading
<1>3. InLoading(u) \subseteq InLoading(l) /\ l[1].row \in InLoading(l) /\ l[1].row \in Objects
  BY <1>1 DEF InLoading
<1> QED
  BY <1>1, <1>2, <1>3 DEF u

\* Two lists one after the other.
LEMMA ConcatLoading ==
  ASSUME NEW T, NEW a \in Seq(T), NEW b \in Seq(T)
  PROVE  /\ a \o b \in Seq(T)
         /\ InLoading(a \o b) = InLoading(a) \union InLoading(b)
<1> DEFINE c == a \o b
<1>1. c \in Seq(T) /\ Len(c) = Len(a) + Len(b) /\ Len(a) \in Nat /\ Len(b) \in Nat
  OBVIOUS
<1>6. ASSUME NEW n \in 1 .. Len(a) PROVE c[n] = a[n]
  OBVIOUS
<1>7. ASSUME NEW n \in 1 .. Len(b) PROVE c[n + Len(a)] = b[n]
  OBVIOUS
<1> HIDE DEF c
<1>2. ASSUME NEW n \in 1 .. Len(a) PROVE n \in 1 .. Len(c) /\ c[n] = a[n]
  BY <1>1, <1>6
<1>3. ASSUME NEW n \in 1 .. Len(b) PROVE n + Len(a) \in 1 .. Len(c) /\ c[n + Len(a)] = b[n]
  BY <1>1, <1>7
<1>4. ASSUME NEW n \in 1 .. Len(c) PROVE c[n].row \in InLoading(a) \union InLoading(b)
  <2>1. CASE n <= Len(a)
    <3>1. n \in 1 .. Len(a) /\ c[n] = a[n]
      BY <1>1, <1>2, <2>1
    <3> QED
      BY <3>1 DEF InLoading
  <2>2. CASE ~(n <= Len(a))
    <3> DEFINE m == n - Len(a)
    <3>2. m \in 1 .. Len(b) /\ n = m + Len(a)
      BY <1>1, <2>2
    <3> HIDE DEF m
    <3>1. m \in 1 .. Len(b) /\ c[n] = b[m]
      BY <1>3, <3>2
    <3> QED
      BY <3>1 DEF InLoading
  <2> QED
    BY <2>1, <2>2
<1>8. InLoading(c) \subseteq InLoading(a) \union InLoading(b)
  BY <1>4 DEF InLoading
<1>9. ASSUME NEW x \in InLoading(a) PROVE x \in InLoading(c)
  <2>1. PICK n \in 1 .. Len(a) : x = a[n].row
    BY DEF InLoading
  <2> QED
    BY <1>2, <2>1 DEF InLoading
<1>10. ASSUME NEW x \in InLoading(b) PROVE x \in InLoading(c)
  <2>1. PICK n \in 1 .. Len(b) : x = b[n].row
    BY DEF InLoading
  <2> QED
    BY <1>3, <2>1 DEF InLoading
<1>5. InLoading(c) = InLoading(a) \union InLoading(b)
  BY <1>8, <1>9, <1>10
<1> QED
  BY <1>1, <1>5 DEF c

\* The rows of a restart: every row is read back, or its post counts as
\* forgotten.
LEMMA ReadFacts ==
  ASSUME StoreTypeOK, Tracked, NEW cutoff, StoreRead(cutoff)
  PROVE  /\ loading' \in Seq([row : Objects, keep : BOOLEAN]) /\ InLoading(loading') \subseteq rows
         /\ forgotten \subseteq forgotten' /\ forgotten' \subseteq Posts
         /\ \A r \in rows : r \in InLoading(loading') \/ Post(r) \in forgotten'
<1> DEFINE recent == {r \in rows : Post(r) > cutoff}
           phoned == {r \in recent : report[r].source \in AlarmPhone}
<1>1. PICK loaded \in Latest(recent, MaxEvents), alarms \in Latest(phoned, SeedLimit) :
        /\ \E old \in InOrder(loaded), others \in InOrder(Seeded(loaded, alarms)) :
             loading' = [n \in 1 .. Len(old) |-> [row |-> old[n], keep |-> TRUE]]
                          \o [n \in 1 .. Len(others) |-> [row |-> Backwards(others)[n], keep |-> FALSE]]
        /\ forgotten' = forgotten \union {Post(r) : r \in rows \ (loaded \union alarms)}
  BY DEF StoreRead
<1>2. loaded \subseteq rows /\ alarms \subseteq rows
  BY DEF Latest
<1> HIDE DEF recent, phoned
<1> DEFINE rest == Seeded(loaded, alarms)
<1>3. rest = alarms \ loaded
  BY DEF Seeded
<1>4. PICK old \in InOrder(loaded), others \in InOrder(rest) :
        loading' = [n \in 1 .. Len(old) |-> [row |-> old[n], keep |-> TRUE]]
                     \o [n \in 1 .. Len(others) |-> [row |-> Backwards(others)[n], keep |-> FALSE]]
  BY <1>1
<1> HIDE DEF rest
<1>5. /\ IsFiniteSet(rows) /\ rows \subseteq Objects
      /\ \A r \in rows : Post(r) \in Posts
  <2>1. created \in 0 .. MaxObjects /\ rows \subseteq 1 .. created
    BY DEF StoreTypeOK
  <2>2. IsFiniteSet(rows)
    <3>1. IsFiniteSet(1 .. created)
      BY <2>1, FS_Interval, StoreBounds
    <3> QED
      BY <2>1, <3>1, FS_Subset
  <2>3. rows \subseteq Objects
    BY <2>1, StoreBounds DEF Objects
  <2>4. \A r \in rows : Post(r) \in Posts
    BY <2>1, KeyFacts DEF Post, Tracked, Known
  <2> QED
    BY <2>2, <2>3, <2>4
<1>6. IsFiniteSet(loaded) /\ IsFiniteSet(rest)
  BY <1>2, <1>3, <1>5, FS_Subset
<1>7. old \in Seq(loaded) /\ \A r \in loaded : \E n \in 1 .. Len(old) : old[n] = r
  BY <1>6, InOrderFacts
<1> DEFINE back == Backwards(others)
<1>8. /\ back \in Seq(rest) /\ Len(back) = Len(others) /\ Len(others) \in Nat
      /\ \A r \in rest : \E n \in 1 .. Len(back) : back[n] = r
  <2>1. others \in Seq(rest) /\ \A r \in rest : \E n \in 1 .. Len(others) : others[n] = r
    BY <1>6, InOrderFacts
  <2>2. /\ back \in Seq(rest) /\ Len(back) = Len(others) /\ Len(others) \in Nat
        /\ \A k \in 1 .. Len(others) : back[k] = others[Len(others) + 1 - k]
    BY <2>1, BackwardsFacts
  <2> HIDE DEF back
  <2>3. ASSUME NEW r \in rest PROVE \E n \in 1 .. Len(back) : back[n] = r
    <3>1. PICK n \in 1 .. Len(others) : others[n] = r
      BY <2>1
    <3> DEFINE k == Len(others) + 1 - n
    <3>2. k \in 1 .. Len(others) /\ Len(others) + 1 - k = n
      BY <2>2
    <3> HIDE DEF k
    <3> QED
      BY <2>2, <3>1, <3>2
  <2> QED
    BY <2>2, <2>3
<1> HIDE DEF back
<1> DEFINE Entry == [row : Objects, keep : BOOLEAN]
           l1 == [n \in 1 .. Len(old) |-> [row |-> old[n], keep |-> TRUE]]
           l2 == [n \in 1 .. Len(others) |-> [row |-> back[n], keep |-> FALSE]]
<1>9. l1 \in Seq(Entry) /\ InLoading(l1) = loaded
  <2>1. /\ Len(old) \in Nat /\ \A n \in 1 .. Len(old) : old[n] \in loaded /\ old[n] \in Objects
    BY <1>2, <1>5, <1>7
  <2>2. /\ l1 \in Seq(Entry) /\ Len(l1) = Len(old) /\ \A n \in 1 .. Len(old) : l1[n].row = old[n]
    BY <2>1
  <2> HIDE DEF l1
  <2> QED
    BY <1>7, <2>1, <2>2 DEF InLoading
<1>10. l2 \in Seq(Entry) /\ InLoading(l2) = rest
  <2>1. \A n \in 1 .. Len(others) : back[n] \in rest /\ back[n] \in Objects
    BY <1>2, <1>3, <1>5, <1>8
  <2>3. /\ Len(others) \in Nat
        /\ \A n \in 1 .. Len(others) : [row |-> back[n], keep |-> FALSE] \in Entry
    BY <1>8, <2>1
  <2>2. /\ l2 \in Seq(Entry) /\ Len(l2) = Len(others) /\ \A n \in 1 .. Len(others) : l2[n].row = back[n]
    <3> HIDE DEF Entry
    <3> QED
      BY <2>3
  <2> HIDE DEF l2
  <2>4. InLoading(l2) \subseteq rest
    BY <2>1, <2>2 DEF InLoading
  <2>5. ASSUME NEW r \in rest PROVE r \in InLoading(l2)
    <3>1. PICK n \in 1 .. Len(others) : back[n] = r
      BY <1>8
    <3> QED
      BY <2>2, <3>1 DEF InLoading
  <2> QED
    BY <2>2, <2>4, <2>5
<1>11. loading' = l1 \o l2
  BY <1>4 DEF back
<1> HIDE DEF l1, l2, Entry
<1>12. loading' \in Seq(Entry) /\ InLoading(loading') = loaded \union rest
  BY <1>9, <1>10, <1>11, ConcatLoading
<1>16. \A r \in rows : r \in InLoading(loading') \/ Post(r) \in forgotten'
  BY <1>1, <1>3, <1>12
<1>17. forgotten \subseteq forgotten' /\ forgotten' \subseteq Posts
  BY <1>1, <1>5 DEF StoreTypeOK
<1> QED
  BY <1>2, <1>3, <1>12, <1>16, <1>17 DEF Entry

\* The same of any restart.
LEMMA RestartFacts ==
  ASSUME StoreTypeOK, Tracked, StoreRestart
  PROVE  /\ loading' \in Seq([row : Objects, keep : BOOLEAN]) /\ InLoading(loading') \subseteq rows
         /\ forgotten \subseteq forgotten' /\ forgotten' \subseteq Posts
         /\ \A r \in rows : r \in InLoading(loading') \/ Post(r) \in forgotten'
         /\ fails' \in 0 .. MaxFails
<1>1. fails \in 0 .. MaxFails /\ MaxFails \in Nat
  BY StoreBounds DEF StoreTypeOK
<1>2. CASE fails' = fails /\ \E cutoff \in Posts \union {-1} : StoreRead(cutoff)
  BY <1>1, <1>2, ReadFacts
<1>3. CASE /\ fails < MaxFails /\ fails' = fails + 1 /\ loading' = <<>>
           /\ forgotten' = forgotten \union {Post(r) : r \in rows}
  <2>1. \A r \in rows : Post(r) \in Posts
    BY KeyFacts DEF StoreTypeOK, Post, Tracked, Known
  <2>2. InLoading(loading') = {}
    BY <1>3 DEF InLoading
  <2>3. forgotten \subseteq Posts
    BY DEF StoreTypeOK
  <2> QED
    BY <1>1, <1>3, <2>1, <2>2, <2>3
<1> QED
  BY <1>2, <1>3 DEF StoreRestart

\* A thread moves on.
LEMMA GoesFacts ==
  ASSUME call \in [Threads -> Calls], NEW t \in Threads, NEW c \in Calls, Goes(t, c)
  PROVE  /\ call' \in [Threads -> Calls] /\ call'[t] = c
         /\ \A u \in Threads : u # t => call'[u] = call[u]
         /\ InCalls(call') \subseteq
              InCalls(call) \union (IF c.at \in {"event", "rehydrate"} THEN {c.obj} ELSE {})
<1>1. /\ call' \in [Threads -> Calls] /\ call'[t] = c
      /\ \A u \in Threads : u # t => call'[u] = call[u]
  BY DEF Goes
<1> QED
  BY <1>1 DEF InCalls

\* A write is put at the end of the queue.
LEMMA AppendWrite ==
  ASSUME NEW q \in Seq(Write), NEW w \in Write
  PROVE  /\ Append(q, w) \in Seq(Write)
         /\ InWrites(Append(q, w)) \subseteq
              InWrites(q) \union (IF w.op = "event" THEN {w.obj} ELSE {})
<1> DEFINE a == Append(q, w)
<1>1. /\ a \in Seq(Write) /\ Len(a) = Len(q) + 1 /\ Len(q) \in Nat
      /\ a[Len(q) + 1] = w /\ \A n \in 1 .. Len(q) : a[n] = q[n]
  OBVIOUS
<1> HIDE DEF a
<1>2. \A n \in 1 .. Len(a) : n \in 1 .. Len(q) \/ n = Len(q) + 1
  BY <1>1
<1>3. InWrites(a) \subseteq InWrites(q) \union (IF w.op = "event" THEN {w.obj} ELSE {})
  BY <1>1, <1>2 DEF InWrites
<1> QED
  BY <1>1, <1>3 DEF a

\* The worker is through with the first write.
LEMMA CompletedFacts ==
  ASSUME call \in [Threads -> Calls], writes \in Seq(Write), writes # <<>>,
         Completed(Head(writes))
  PROVE  /\ call' \in [Threads -> Calls] /\ writes' \in Seq(Write)
         /\ InCalls(call') \subseteq InCalls(call) /\ InWrites(writes') \subseteq InWrites(writes)
<1> DEFINE shows(c) == [c EXCEPT !.at = "show"]
<1>1. ASSUME NEW c \in Calls PROVE shows(c) \in Calls /\ shows(c).at = "show"
  BY DEF Calls
<1>2. /\ call' = [t \in Threads |-> IF t = Head(writes).by THEN shows(call[t]) ELSE call[t]]
      /\ writes' = Tail(writes)
  BY DEF Completed
<1> HIDE DEF shows
<1>3. /\ call' \in [Threads -> Calls]
      /\ \A t \in Threads : call'[t] = call[t] \/ call'[t].at = "show"
  BY <1>1, <1>2
<1>4. InCalls(call') \subseteq InCalls(call)
  BY <1>3 DEF InCalls
<1>5. /\ writes' \in Seq(Write) /\ Len(writes) \in Nat \ {0} /\ Len(writes') = Len(writes) - 1
      /\ \A n \in 1 .. Len(writes') : n + 1 \in 1 .. Len(writes) /\ writes'[n] = writes[n + 1]
  BY <1>2
<1>6. InWrites(writes') \subseteq InWrites(writes)
  BY <1>5 DEF InWrites
<1> QED
  BY <1>3, <1>4, <1>5, <1>6

\* Where a first event of some kind is found.
LEMMA FirstMember ==
  ASSUME events \in Seq(Objects), NEW N \in SUBSET (1 .. Len(events)), NEW o \in First(N)
  PROVE  o \in Objects /\ o \in Range(events)
<1>1. PICK n \in N : o = events[n]
  BY DEF First
<1> QED
  BY <1>1 DEF Range

\* The calls a thread may leave behind.
LEMMA CallTypes ==
  ASSUME NEW c \in Calls, NEW o \in Objects \union {None}, NEW id \in Objects \union {None},
         NEW f \in AllFacts \union {None}, NEW s \in SUBSET AllFacts,
         NEW a \in {"idle", "event", "copy", "put", "fact", "rehydrate", "append", "wait", "show"}
  PROVE  /\ Idle \in Calls /\ Idle.at = "idle"
         /\ [Idle EXCEPT !.at = a, !.obj = o] \in Calls
         /\ [Idle EXCEPT !.at = a, !.obj = o, !.id = id] \in Calls
         /\ [Idle EXCEPT !.at = a, !.id = id, !.fact = f] \in Calls
         /\ [Idle EXCEPT !.at = a, !.obj = o, !.id = id, !.fact = f] \in Calls
         /\ [c EXCEPT !.at = a, !.obj = o] \in Calls
         /\ [c EXCEPT !.at = a, !.copy = s] \in Calls
<1>1. Idle \in Calls /\ Idle.at = "idle"
  BY DEF Idle, Calls
<1>2. \A d \in Calls : /\ [d EXCEPT !.at = a] \in Calls
                       /\ [d EXCEPT !.obj = o] \in Calls
                       /\ [d EXCEPT !.id = id] \in Calls
                       /\ [d EXCEPT !.fact = f] \in Calls
                       /\ [d EXCEPT !.copy = s] \in Calls
  BY DEF Calls
<1> HIDE DEF Calls
<1>3. \A d \in Calls : /\ [d EXCEPT !.at = a, !.obj = o] \in Calls
                       /\ [d EXCEPT !.at = a, !.id = id] \in Calls
                       /\ [d EXCEPT !.at = a, !.copy = s] \in Calls
  BY <1>2
<1>4. /\ [Idle EXCEPT !.at = a, !.obj = o, !.id = id] \in Calls
      /\ [Idle EXCEPT !.at = a, !.id = id, !.fact = f] \in Calls
  BY <1>1, <1>2, <1>3
<1>5. [Idle EXCEPT !.at = a, !.obj = o, !.id = id, !.fact = f] \in Calls
  BY <1>2, <1>4
<1> QED
  BY <1>1, <1>3, <1>4, <1>5

\* A write is for a thread that waits, or for none.
LEMMA WriteFields ==
  ASSUME NEW q \in Seq(Write), NEW n \in 1 .. Len(q)
  PROVE  /\ q[n] \in Write /\ q[n].by \in Threads \union {None}
         /\ q[n].obj \in Objects \union {None} /\ q[n].copy \subseteq AllFacts
<1>1. q[n] \in Write
  OBVIOUS
<1>2. \A w \in Write : /\ w.by \in Threads \union {None}
                             /\ w.obj \in Objects \union {None}
                             /\ w.copy \subseteq AllFacts
  BY DEF Write
<1> QED
  BY <1>1, <1>2

\* A thread that does not wait moves on, and the queue stays.
LEMMA FitsMove ==
  ASSUME call \in [Threads -> Calls], Fits, Waiting, NEW t \in Threads, NEW c \in Calls,
         call[t].at # "wait", c.at # "wait", Goes(t, c), Known \subseteq Known', Fit(c, Known'),
         writes' = writes, writes \in Seq(Write), None \notin Threads
  PROVE  Fits' /\ Waiting'
<1>1. /\ call' \in [Threads -> Calls] /\ call'[t] = c
      /\ \A u \in Threads : u # t => call'[u] = call[u]
  BY GoesFacts
<1>2. ASSUME NEW u \in Threads PROVE Fit(call'[u], Known')
  <2>1. CASE u = t
    BY <1>1, <2>1
  <2>2. CASE u # t
    <3>1. Fit(call[u], Known) /\ call'[u] = call[u]
      BY <1>1, <2>2 DEF Fits
    <3> QED
      BY <3>1 DEF Fit
  <2> QED
    BY <2>1, <2>2
<1>3. Waiting'
  <2>1. \A n \in 1 .. Len(writes) : writes[n].by \in Threads \union {None}
    BY WriteFields
  <2>2. \A u \in Threads : call'[u].at = "wait" <=> call[u].at = "wait"
    BY <1>1
  <2> QED
    BY <2>1, <2>2 DEF Waiting
<1> QED
  BY <1>2, <1>3 DEF Fits

\* The first write is over: the thread that waited for it, and no other, goes
\* on.
LEMMA FitsCompleted ==
  ASSUME call \in [Threads -> Calls], Fits, Waiting, writes \in Seq(Write), writes # <<>>,
         Completed(Head(writes)), Known' = Known, None \notin Threads
  PROVE  Fits' /\ Waiting'
<1>1. /\ writes' \in Seq(Write) /\ Len(writes) \in Nat \ {0} /\ Len(writes') = Len(writes) - 1
      /\ \A n \in 1 .. Len(writes') : n + 1 \in 1 .. Len(writes) /\ writes'[n] = writes[n + 1]
      /\ Head(writes) = writes[1] /\ 1 \in 1 .. Len(writes)
  BY DEF Completed
<1>2. \A n \in 1 .. Len(writes) : writes[n].by \in Threads \union {None}
  BY WriteFields
<1> DEFINE shows(c) == [c EXCEPT !.at = "show"]
<1>3. ASSUME NEW c \in Calls
      PROVE shows(c).at = "show" /\ shows(c).id = c.id /\ shows(c).fact = c.fact
  BY DEF Calls
<1>4. call' = [t \in Threads |-> IF t = writes[1].by THEN shows(call[t]) ELSE call[t]]
  BY <1>1 DEF Completed
<1> HIDE DEF shows
<1>5. ASSUME NEW t \in Threads PROVE Fit(call'[t], Known')
  <2>1. Fit(call[t], Known) /\ call[t] \in Calls
    BY DEF Fits
  <2>2. CASE t = writes[1].by
    <3>1. call[t].at = "wait"
      BY <1>1, <2>2 DEF Waiting
    <3>2. call'[t].at = "show" /\ call'[t].id = call[t].id /\ call'[t].fact = call[t].fact
      BY <1>3, <1>4, <2>1, <2>2
    <3> QED
      BY <2>1, <3>1, <3>2 DEF Fit
  <2>3. CASE t # writes[1].by
    BY <1>4, <2>1, <2>3
  <2> QED
    BY <2>2, <2>3
<1>6. \A t \in Threads : call'[t].at = "wait" <=> (call[t].at = "wait" /\ t # writes[1].by)
  BY <1>3, <1>4
<1>7. ASSUME NEW n \in 1 .. Len(writes'), writes'[n].by # None
      PROVE  call'[writes'[n].by].at = "wait"
  <2>1. n + 1 \in 1 .. Len(writes) /\ n + 1 # 1 /\ writes'[n] = writes[n + 1]
    BY <1>1
  <2>2. writes[n + 1].by # writes[1].by
    BY <1>1, <1>7, <2>1 DEF Waiting
  <2> QED
    BY <1>2, <1>6, <1>7, <2>1, <2>2 DEF Waiting
<1>8. ASSUME NEW m \in 1 .. Len(writes'), NEW n \in 1 .. Len(writes'),
             writes'[m].by = writes'[n].by, writes'[m].by # None
      PROVE  m = n
  <2>1. m + 1 = n + 1
    BY <1>1, <1>8 DEF Waiting
  <2> QED
    BY <2>1
<1>9. ASSUME NEW t \in Threads, call'[t].at = "wait"
      PROVE  \E n \in 1 .. Len(writes') : writes'[n].by = t
  <2>1. PICK k \in 1 .. Len(writes) : writes[k].by = t
    BY <1>6, <1>9 DEF Waiting
  <2>2. k # 1
    BY <1>6, <1>9, <2>1
  <2>3. k - 1 \in 1 .. Len(writes') /\ writes'[k - 1] = writes[(k - 1) + 1] /\ (k - 1) + 1 = k
    BY <1>1, <2>2
  <2> QED
    BY <2>1, <2>3
<1> QED
  BY <1>5, <1>7, <1>8, <1>9 DEF Fits, Waiting

\* The parts of Shape the steps below start from.
LEMMA ShapeFacts ==
  ASSUME Shape
  PROVE  /\ events \in Seq(Objects) /\ Len(events) <= MaxEvents
         /\ seen \in Seq(Keys) /\ Len(seen) <= DedupWindow /\ forgotten \subseteq Posts
         /\ created \in 0 .. MaxObjects /\ Known \subseteq Objects
         /\ report \in [Objects -> Reports \union {None}] /\ eid \in [Objects -> Objects]
         /\ meta \in [Objects -> SUBSET AllFacts]
         /\ rows \subseteq Known /\ rowMeta \in [Objects -> SUBSET AllFacts]
         /\ writes \in Seq(Write) /\ call \in [Threads -> Calls]
         /\ None \notin Threads
<1>1. created \in 0 .. MaxObjects /\ rows \subseteq 1 .. created
  BY DEF Shape, StoreTypeOK
<1>2. Known \subseteq Objects
  BY <1>1, StoreBounds DEF Known, Objects
<1> QED
  BY <1>1, <1>2, StoreBounds DEF Shape, StoreTypeOK, Known, Calls

\* Entering the store.
LEMMA EnterFacts ==
  ASSUME Shape, NEW t \in Threads, Enter(t)
  PROVE  call[t].at # "wait" /\ calls' \in 0 .. MaxCalls /\ loading = <<>>
BY StoreBounds DEF Enter, Idle, Shape, StoreTypeOK

\* A step of a call or of the worker comes after load_from_db.
LEMMA Started ==
  ASSUME Shape, writes # <<>> \/ merging # None \/ \E t \in Threads : call[t].at # "idle"
  PROVE  loading = <<>> /\ InLoading(loading) = {}
<1>1. loading = <<>>
  BY DEF Shape, Starting, Idle
<1> QED
  BY <1>1 DEF InLoading

\* A thread goes on by itself, and changes no more than metadata, the window
\* and what was shown.
LEMMA QuietMove ==
  ASSUME Shape, NEW t \in Threads, NEW c \in Calls,
         call[t].at # "wait", c.at \notin {"wait", "event", "rehydrate"}, Fit(c, Known),
         Goes(t, c), meta' \in [Objects -> SUBSET AllFacts],
         shown' \subseteq Objects \X Replies, calls' \in 0 .. MaxCalls, fails' \in 0 .. MaxFails,
         UNCHANGED <<seen, forgotten>> \/ \E r \in Reports : \E s \in Orders(r) : Remembers(r.post, s),
         loading = <<>>,
         UNCHANGED <<events, created, report, eid, rows, rowMeta, writes, merging, loading, restarts>>
  PROVE  Shape' /\ Quiet
<1> USE ShapeFacts
<1>1. Known' = Known
  BY DEF Known
<1>2. Fits' /\ Waiting'
  BY <1>1, FitsMove DEF Shape
<1>3. call' \in [Threads -> Calls] /\ InCalls(call') \subseteq InCalls(call)
  BY GoesFacts
<1>4. seen' \in Seq(Keys) /\ Len(seen') <= DedupWindow /\ forgotten' \subseteq Posts /\ Keeps
  <2>1. CASE UNCHANGED <<seen, forgotten>>
    BY <2>1 DEF Keeps, Kept
  <2>2. CASE \E r \in Reports : \E s \in Orders(r) : Remembers(r.post, s)
    BY <2>2, OrdersFacts
  <2> QED
    BY <2>1, <2>2
<1>5. StoreTypeOK'
  BY <1>3, <1>4 DEF Shape, StoreTypeOK, Calls
<1>6. Live' \subseteq Live
  BY <1>3 DEF Live
<1>7. Starting' /\ InLoading(loading) = {}
  BY DEF Starting, InLoading
<1> QED
  BY <1>2, <1>4, <1>5, <1>6, <1>7 DEF Shape, Quiet

\* add of a post that is there.
LEMMA AddDuplicateStep ==
  ASSUME Shape, Tracked, NEW t \in Threads, NEW i \in Reports,
         NEW m \in Incoming, AddDuplicate(t, i, m)
  PROVE  Shape' /\ Quiet
<1> USE ShapeFacts
<1>1. PICK o \in First(Collected(i)) :
        /\ Enter(t)
        /\ meta' = [meta EXCEPT ![o] = @ \union m]
        /\ \E s \in Orders(i) : Remembers(i.post, s)
        /\ Goes(t, IF m \subseteq meta[o] THEN Idle
                           ELSE [Idle EXCEPT !.at = "copy", !.obj = o])
        /\ UNCHANGED <<events, created, report, eid, database, writes, merging, loading, shown,
                       counters>>
  BY DEF AddDuplicate
<1>2. o \in Objects /\ o \in Known
  BY FirstMember DEF Collected, Live, Tracked
<1> DEFINE c == IF m \subseteq meta[o] THEN Idle
                  ELSE [Idle EXCEPT !.at = "copy", !.obj = o]
<1>3. c \in Calls /\ c.at \in {"idle", "copy"} /\ Fit(c, Known)
  BY <1>2 DEF Idle, Calls, Fit
<1>4. Goes(t, c)
  BY <1>1
<1> HIDE DEF c
<1>5. m \subseteq AllFacts
  BY DEF Incoming, AllFacts
<1>6. shown' \subseteq Objects \X Replies /\ fails' \in 0 .. MaxFails
  BY <1>1 DEF Shape, StoreTypeOK, counters
<1>7. meta' \in [Objects -> SUBSET AllFacts]
  BY <1>1, <1>2, <1>5
<1>8. loading = <<>> /\ call[t].at # "wait" /\ calls' \in 0 .. MaxCalls
  BY <1>1, EnterFacts
<1> QED
  BY <1>1, <1>3, <1>4, <1>6, <1>7, <1>8, QuietMove DEF database, counters

\* update_metadata and enrich_location, under the lock.
LEMMA UpdateStep ==
  ASSUME Shape, Tracked, NEW t \in Threads, NEW o \in Range(events),
         NEW f \in Facts \union Locations,
         \/ UpdateMetadata(t, o, f)
         \/ f \in Locations /\ EnrichLocation(t, o, f)
  PROVE  Shape' /\ Quiet
<1> USE ShapeFacts
<1>1. o \in Known /\ eid[o] \in Objects
  BY DEF Live, Tracked
<1>2. /\ Enter(t) /\ meta' = [meta EXCEPT ![o] = @ \union {f}]
      /\ UNCHANGED <<events, seen, forgotten, created, report, eid, rows, rowMeta, writes, merging, loading, shown,
                     restarts, fails>>
  BY DEF UpdateMetadata, EnrichLocation, database, counters
<1>3. PICK c \in {[Idle EXCEPT !.at = "copy", !.obj = o, !.id = eid[o]]}
                   \union (IF f \in Locations
                             THEN {[Idle EXCEPT !.at = "fact", !.id = eid[o], !.fact = f]} ELSE {}) :
        Goes(t, c)
  BY DEF UpdateMetadata, EnrichLocation
<1>4. c \in Calls /\ c.at \in {"copy", "fact"} /\ Fit(c, Known)
  <2>1. CASE c = [Idle EXCEPT !.at = "copy", !.obj = o, !.id = eid[o]]
    BY <1>1, <2>1 DEF Idle, Calls, Fit
  <2>2. CASE f \in Locations /\ c = [Idle EXCEPT !.at = "fact", !.id = eid[o], !.fact = f]
    BY <1>1, <2>2 DEF Idle, Calls, Fit, AllFacts
  <2> QED
    BY <2>1, <2>2
<1>5. {f} \subseteq AllFacts
  BY DEF AllFacts
<1>6. shown' \subseteq Objects \X Replies /\ fails' \in 0 .. MaxFails
  BY <1>2 DEF Shape, StoreTypeOK
<1>7. meta' \in [Objects -> SUBSET AllFacts]
  BY <1>1, <1>2, <1>5
<1> QED
  BY <1>2, <1>3, <1>4, <1>6, <1>7, EnterFacts, QuietMove

\* append_thread_repost finds the event in the deque.
LEMMA ReplyHeldStep ==
  ASSUME Shape, NEW t \in Threads, NEW id \in Objects,
         NEW f \in Replies, Reply(t, id, f), UNCHANGED memory,
         Goes(t, [Idle EXCEPT !.at = "append", !.id = id, !.fact = f])
  PROVE  Shape' /\ Quiet
<1> USE ShapeFacts
<1> DEFINE c == [Idle EXCEPT !.at = "append", !.id = id, !.fact = f]
<1>1. c \in Calls /\ c.at = "append" /\ Fit(c, Known)
  BY DEF Idle, Calls, Fit, AllFacts
<1>2. Goes(t, c)
  OBVIOUS
<1> HIDE DEF c
<1>3. /\ Enter(t)
      /\ UNCHANGED <<events, seen, forgotten, created, report, eid, meta, rows, rowMeta, writes, merging, loading, shown,
                     restarts, fails>>
  BY DEF Reply, memory, database, counters
<1>4. shown' \subseteq Objects \X Replies /\ fails' \in 0 .. MaxFails
  BY <1>3 DEF Shape, StoreTypeOK
<1> QED
  BY <1>1, <1>2, <1>3, <1>4, EnterFacts, QuietMove

\* The later steps of a call: the reply joins the event, the copy is taken, the
\* reply is broadcast.
LEMMA AppendReplyStep ==
  ASSUME Shape, Tracked, NEW t \in Threads, AppendReply(t)
  PROVE  Shape' /\ Quiet
<1> USE ShapeFacts
<1>1. /\ call[t].at = "append" /\ call[t] \in Calls
      /\ UNCHANGED <<events, seen, forgotten, created, report, eid, rows, rowMeta, writes, merging, loading, shown, calls,
                     restarts, fails>>
  BY DEF AppendReply, database, counters
<1>2. call[t].fact \in Replies /\ call[t].id \in Objects
  BY <1>1 DEF Shape, Fits, Fit
<1>3. /\ shown' \subseteq Objects \X Replies /\ calls' \in 0 .. MaxCalls
      /\ fails' \in 0 .. MaxFails /\ loading = <<>>
  BY <1>1, Started DEF Shape, StoreTypeOK
<1>4. CASE Goes(t, Idle) /\ UNCHANGED meta
  <2>1. Idle \in Calls /\ Idle.at = "idle" /\ Fit(Idle, Known)
    BY DEF Idle, Calls, Fit
  <2> QED
    BY <1>1, <1>3, <1>4, <2>1, QuietMove
<1>5. ASSUME NEW o \in First(Holding(call[t].id)),
             meta' = [meta EXCEPT ![o] = @ \union {call[t].fact}],
             Goes(t, [call[t] EXCEPT !.at = "copy", !.obj = o])
      PROVE  Shape' /\ Quiet
  <2>1. o \in Known
    BY FirstMember DEF Holding, Live, Tracked
  <2> DEFINE c == [call[t] EXCEPT !.at = "copy", !.obj = o]
  <2>2. c \in Calls /\ c.at = "copy" /\ Fit(c, Known)
    BY <1>1, <1>2, <2>1 DEF Calls, Fit
  <2>3. Goes(t, c)
    BY <1>5
  <2> HIDE DEF c
  <2>4. meta' \in [Objects -> SUBSET AllFacts]
    BY <1>2, <1>5, <2>1 DEF AllFacts
  <2> QED
    BY <1>1, <1>3, <2>2, <2>3, <2>4, QuietMove
<1> QED
  BY <1>4, <1>5 DEF AppendReply

\* dict(updated.metadata)
LEMMA CopyStep ==
  ASSUME Shape, NEW t \in Threads, Copy(t)
  PROVE  Shape' /\ Quiet
<1> USE ShapeFacts
<1>1. /\ call[t].at = "copy" /\ call[t] \in Calls
      /\ UNCHANGED <<events, seen, forgotten, created, report, eid, meta, rows, rowMeta, writes, merging, loading, shown,
                     calls, restarts, fails>>
  BY DEF Copy, memory, database, counters
<1>2. /\ shown' \subseteq Objects \X Replies /\ calls' \in 0 .. MaxCalls
      /\ fails' \in 0 .. MaxFails /\ loading = <<>>
  BY <1>1, Started DEF Shape, StoreTypeOK
<1>3. call[t].obj \in Objects /\ call[t].fact \in Replies \union {None}
  BY <1>1 DEF Shape, Fits, Fit
<1> DEFINE c == [call[t] EXCEPT !.at = "put", !.copy = meta[call[t].obj], !.obj = None,
                                !.id = IF @ = None THEN eid[call[t].obj] ELSE @]
<1>4. c \in Calls /\ c.at = "put" /\ c.id \in Objects /\ c.fact = call[t].fact
  BY <1>1, <1>3 DEF Calls
<1>5. Goes(t, c)
  BY DEF Copy
<1> HIDE DEF c
<1>6. Fit(c, Known)
  BY <1>3, <1>4 DEF Fit
<1> QED
  BY <1>1, <1>2, <1>4, <1>5, <1>6, QuietMove

\* _fire_broadcast
LEMMA BroadcastStep ==
  ASSUME Shape, NEW t \in Threads, Broadcast(t)
  PROVE  Shape' /\ Quiet
<1> USE ShapeFacts
<1>1. /\ call[t].at = "show" /\ shown' = shown \union {<<call[t].id, call[t].fact>>}
      /\ Goes(t, Idle)
      /\ UNCHANGED <<events, seen, forgotten, created, report, eid, meta, rows, rowMeta, writes, merging,
                     loading, calls, restarts, fails>>
  BY DEF Broadcast, memory, database, counters
<1>2. call[t].fact \in Replies /\ call[t].id \in Objects
  BY <1>1 DEF Shape, Fits, Fit
<1>3. /\ shown' \subseteq Objects \X Replies /\ calls' \in 0 .. MaxCalls
      /\ fails' \in 0 .. MaxFails /\ loading = <<>>
  BY <1>1, <1>2, Started DEF Shape, StoreTypeOK
<1>4. Idle \in Calls /\ Idle.at = "idle" /\ Fit(Idle, Known)
  BY DEF Idle, Calls, Fit
<1> QED
  BY <1>1, <1>3, <1>4, QuietMove

\* _fire_broadcast raises.
LEMMA RaiseStep ==
  ASSUME Shape, NEW t \in Threads, BroadcastRaises(t)
  PROVE  Shape' /\ Quiet
<1> USE ShapeFacts
<1>1. /\ call[t].at \in {"event", "show"} /\ Goes(t, Idle) /\ fails < MaxFails /\ fails' = fails + 1
      /\ UNCHANGED <<events, seen, forgotten, created, report, eid, meta, rows, rowMeta, writes, merging,
                     loading, shown, calls, restarts>>
  BY DEF BroadcastRaises, memory, database
<1>2. /\ shown' \subseteq Objects \X Replies /\ calls' \in 0 .. MaxCalls /\ loading = <<>>
      /\ fails \in 0 .. MaxFails
  BY <1>1, Started DEF Shape, StoreTypeOK
<1>3. fails' \in 0 .. MaxFails
  BY <1>1, <1>2, StoreBounds
<1>4. Idle \in Calls /\ Idle.at = "idle" /\ Fit(Idle, Known)
  BY DEF Idle, Calls, Fit
<1> QED
  BY <1>1, <1>2, <1>3, <1>4, QuietMove

\* The copy of the row enters the deque.
LEMMA RehydrateStep ==
  ASSUME Shape, Tracked, NEW t \in Threads, Rehydrate(t)
  PROVE  Shape' /\ Quiet
<1> USE ShapeFacts
<1>1. /\ call[t].at = "rehydrate" /\ call[t] \in Calls
      /\ UNCHANGED <<seen, forgotten, created, report, eid, meta, rows, rowMeta, writes, merging, loading, shown, calls,
                     restarts, fails>>
      /\ events' = events \/ events' = PushLeft(call[t].obj)
  BY DEF Rehydrate, database, counters
<1>2. /\ call[t].obj \in InCalls(call) /\ call[t].obj \in Objects
      /\ call[t].id \in Objects /\ call[t].fact \in Replies
  <2>1. call[t].obj \in InCalls(call)
    BY <1>1 DEF InCalls
  <2> QED
    BY <1>1, <2>1 DEF Shape, Fits, Fit, Live, Tracked
<1>3. /\ events' \in Seq(Objects) /\ Len(events') <= MaxEvents
      /\ Range(events') \subseteq Range(events) \union {call[t].obj}
  BY <1>1, <1>2, PushLeftFacts
<1> DEFINE c == [call[t] EXCEPT !.at = "append", !.obj = None]
<1>4. c \in Calls /\ c.at = "append" /\ c.id = call[t].id /\ c.fact = call[t].fact
  BY <1>1 DEF Calls
<1>5. Goes(t, c)
  BY DEF Rehydrate
<1> HIDE DEF c
<1>6. Fit(c, Known) /\ Known' = Known
  BY <1>1, <1>2, <1>4 DEF Fit, Known
<1>7. Fits' /\ Waiting'
  BY <1>1, <1>4, <1>5, <1>6, FitsMove DEF Shape
<1>8. call' \in [Threads -> Calls] /\ InCalls(call') \subseteq InCalls(call)
  BY <1>4, <1>5, GoesFacts
<1>9. StoreTypeOK'
  BY <1>1, <1>3, <1>8 DEF Shape, StoreTypeOK, Calls
<1>10. Live' \subseteq Live
  BY <1>1, <1>2, <1>3, <1>8 DEF Live
<1>11. Starting' /\ InLoading(loading) = {} /\ Keeps
  BY <1>1, Started DEF Starting, Keeps, Kept
<1> QED
  BY <1>1, <1>7, <1>9, <1>10, <1>11 DEF Shape, Quiet

\* _enqueue_persist
LEMMA PutStep ==
  ASSUME Shape, NEW t \in Threads, Put(t)
  PROVE  Shape' /\ Quiet
<1> USE ShapeFacts
<1> DEFINE c == call[t]
           by == IF c.at = "put" /\ c.fact # None THEN t ELSE None
           write(op) == [op |-> op, obj |-> c.obj, id |-> c.id,
                         copy |-> IF op = "fact" THEN {c.fact} ELSE c.copy, by |-> by]
           d == IF by = t THEN [c EXCEPT !.at = "wait", !.copy = {}] ELSE Idle
<1>1. /\ \/ c.at = "event" /\ writes' = Append(writes, write("event"))
         \/ c.at = "put" /\ writes' = Append(writes, write("copy"))
         \/ c.at = "fact" /\ writes' = Append(writes, write("fact"))
      /\ Goes(t, d)
      /\ UNCHANGED <<events, seen, forgotten, created, report, eid, meta, rows, rowMeta, merging, loading, shown, calls,
                     restarts, fails>>
  BY DEF Put, memory, database, counters
<1>2. c \in Calls /\ Fit(c, Known) /\ by \in {t, None} /\ (by = t <=> c.at = "put" /\ c.fact # None)
  BY DEF Shape, Fits
<1>3. PICK w \in Write :
        /\ writes' = Append(writes, w) /\ w.by = by
        /\ w.op = "event" => c.at = "event" /\ w.obj = c.obj
  <2>1. CASE c.at = "event"
    <3>1. write("event") \in Write
      BY <1>2 DEF Calls, Write
    <3> QED
      BY <1>1, <2>1, <3>1
  <2>2. CASE c.at = "put"
    <3>1. write("copy") \in Write
      BY <1>2 DEF Calls, Write
    <3> QED
      BY <1>1, <2>2, <3>1
  <2>3. CASE c.at = "fact"
    <3>1. write("fact") \in Write
      BY <1>2, <2>3 DEF Calls, Write, Fit, AllFacts
    <3> QED
      BY <1>1, <2>3, <3>1
  <2> QED
    BY <1>1, <2>1, <2>2, <2>3
<1>4. /\ d \in Calls /\ d.at = (IF by = t THEN "wait" ELSE "idle")
      /\ Fit(d, Known)
  BY <1>2 DEF Calls, Fit, Idle
<1>5. call[t].at \in {"event", "put", "fact"} /\ d.at \in {"wait", "idle"} /\ Goes(t, d)
  BY <1>1, <1>4
<1> HIDE DEF d, by
<1>6. /\ call' \in [Threads -> Calls] /\ call'[t] = d
      /\ \A u \in Threads : u # t => call'[u] = call[u]
      /\ InCalls(call') \subseteq InCalls(call)
  BY <1>4, <1>5, GoesFacts
<1>7. /\ writes' \in Seq(Write)
      /\ InWrites(writes') \subseteq InWrites(writes) \union (IF w.op = "event" THEN {w.obj} ELSE {})
      /\ Len(writes') = Len(writes) + 1 /\ Len(writes) \in Nat /\ writes'[Len(writes) + 1] = w
      /\ \A n \in 1 .. Len(writes) : writes'[n] = writes[n]
  BY <1>3, AppendWrite
<1>8. InWrites(writes') \subseteq InWrites(writes) \union InCalls(call)
  BY <1>3, <1>7 DEF InCalls
<1>9. Live' \subseteq Live
  BY <1>1, <1>6, <1>8 DEF Live
<1>10. Fits'
  <2>1. Known' = Known
    BY <1>1 DEF Known
  <2> QED
    BY <1>4, <1>6, <2>1 DEF Shape, Fits
<1>11. Waiting'
  <2>1. \A n \in 1 .. Len(writes) : writes[n].by # t
    <3>1. \A n \in 1 .. Len(writes) : writes[n].by # None => call[writes[n].by].at = "wait"
      BY DEF Shape, Waiting
    <3> QED
      BY <1>5, <3>1
  <2>2. \A n \in 1 .. Len(writes') : n \in 1 .. Len(writes) \/ n = Len(writes) + 1
    BY <1>7
  <2>3. \A n \in 1 .. Len(writes) : writes[n].by \in Threads \union {None} /\ n \in 1 .. Len(writes')
    BY <1>7, WriteFields
  <2>4. Len(writes) + 1 \in 1 .. Len(writes')
    BY <1>7
  <2>5. ASSUME NEW n \in 1 .. Len(writes'), writes'[n].by # None
        PROVE  call'[writes'[n].by].at = "wait"
    <3>1. CASE n \in 1 .. Len(writes)
      <4>1. writes'[n] = writes[n] /\ writes[n].by \in Threads /\ writes[n].by # t
        BY <1>7, <2>1, <2>3, <2>5, <3>1
      <4>2. call[writes[n].by].at = "wait"
        BY <2>5, <3>1, <4>1 DEF Shape, Waiting
      <4> QED
        BY <1>6, <4>1, <4>2
    <3>2. CASE n = Len(writes) + 1
      BY <1>2, <1>3, <1>4, <1>6, <1>7, <2>5, <3>2
    <3> QED
      BY <2>2, <3>1, <3>2
  <2>6. ASSUME NEW m \in 1 .. Len(writes'), NEW n \in 1 .. Len(writes'),
               writes'[m].by = writes'[n].by, writes'[m].by # None
        PROVE  m = n
    <3>1. \A k \in 1 .. Len(writes) : writes'[k].by # writes'[Len(writes) + 1].by \/ writes'[k].by = None
      BY <1>2, <1>3, <1>7, <2>1
    <3>2. CASE m \in 1 .. Len(writes) /\ n \in 1 .. Len(writes)
      BY <1>7, <2>6, <3>2 DEF Shape, Waiting
    <3> QED
      BY <2>2, <2>6, <3>1, <3>2
  <2>7. ASSUME NEW u \in Threads, call'[u].at = "wait"
        PROVE  \E n \in 1 .. Len(writes') : writes'[n].by = u
    <3>1. CASE u = t
      BY <1>3, <1>4, <1>6, <1>7, <2>4, <2>7, <3>1
    <3>2. CASE u # t
      <4>1. PICK n \in 1 .. Len(writes) : writes[n].by = u
        BY <1>6, <2>7, <3>2 DEF Shape, Waiting
      <4> QED
        BY <1>7, <2>3, <4>1
    <3> QED
      BY <3>1, <3>2
  <2> QED
    BY <2>5, <2>6, <2>7 DEF Waiting
<1>12. StoreTypeOK'
  BY <1>1, <1>6, <1>7 DEF Shape, StoreTypeOK, Calls
<1>13. Starting' /\ InLoading(loading) = {} /\ Keeps
  BY <1>1, <1>5, Started DEF Starting, Keeps, Kept
<1> QED
  BY <1>1, <1>9, <1>10, <1>11, <1>12, <1>13 DEF Shape, Quiet

\* The worker ends a write that makes no row: the metadata is replaced, a fact
\* is merged, or the transaction fails.
LEMMA WriteStep ==
  ASSUME Shape,
         PersistMetadata \/ PersistLocation \/ PersistFails
  PROVE  Shape' /\ Quiet
<1> USE ShapeFacts
<1>1. /\ writes # <<>> /\ merging = None /\ Completed(Head(writes))
      /\ UNCHANGED <<events, seen, forgotten, created, report, eid, meta, rows, merging, loading, shown, calls, restarts>>
  BY DEF PersistMetadata, PersistLocation, PersistFails, memory,
         database, counters
<1>2. Head(writes).copy \subseteq AllFacts
  <2>1. Head(writes) = writes[1] /\ 1 \in 1 .. Len(writes)
    BY <1>1
  <2> QED
    BY <2>1, WriteFields
<1>3. rowMeta' \in [Objects -> SUBSET AllFacts] /\ fails' \in 0 .. MaxFails
  <2>1. fails \in 0 .. MaxFails
    BY DEF Shape, StoreTypeOK
  <2> DEFINE w == Head(writes)
  <2>2. w.copy \subseteq AllFacts
    BY <1>2
  <2>3. CASE PersistMetadata
    <3>1. /\ rowMeta' = [r \in Objects |-> IF r = w.id /\ r \in rows THEN w.copy ELSE rowMeta[r]]
          /\ fails' = fails
      BY <2>3 DEF PersistMetadata, counters
    <3> HIDE DEF w
    <3> QED
      BY <2>1, <2>2, <3>1
  <2>4. CASE PersistLocation
    <3>1. /\ rowMeta' = [r \in Objects |-> IF r = w.id /\ r \in rows
                                                   THEN rowMeta[r] \union w.copy ELSE rowMeta[r]]
          /\ fails' = fails
      BY <2>4 DEF PersistLocation, counters
    <3> HIDE DEF w
    <3> QED
      BY <2>1, <2>2, <3>1
  <2>5. CASE PersistFails
    BY <2>1, <2>5, StoreBounds DEF PersistFails, database
  <2> QED
    BY <2>3, <2>4, <2>5
<1>4. Known' = Known
  BY <1>1 DEF Known
<1>5. Fits' /\ Waiting'
  BY <1>1, <1>4, FitsCompleted DEF Shape
<1>6. /\ call' \in [Threads -> Calls] /\ writes' \in Seq(Write)
      /\ InCalls(call') \subseteq InCalls(call) /\ InWrites(writes') \subseteq InWrites(writes)
  BY <1>1, CompletedFacts
<1>7. StoreTypeOK'
  BY <1>1, <1>3, <1>6 DEF Shape, StoreTypeOK, Calls
<1>8. Live' \subseteq Live
  BY <1>1, <1>6 DEF Live
<1>9. Starting' /\ InLoading(loading) = {} /\ Keeps
  BY <1>1, Started DEF Starting, Keeps, Kept
<1> QED
  BY <1>1, <1>5, <1>7, <1>8, <1>9 DEF Shape, Quiet

\* load_from_db enters a row.
LEMMA LoadStep ==
  ASSUME Shape, Tracked, Load
  PROVE  Shape' /\ Quiet
<1> USE ShapeFacts
<1> DEFINE Entry == [row : Objects, keep : BOOLEAN]
<1>1. /\ loading # <<>> /\ loading' = Tail(loading) /\ loading \in Seq(Entry)
      /\ UNCHANGED <<created, report, eid, meta, rows, rowMeta, writes, merging, call, shown, calls,
                     restarts, fails>>
  BY DEF Load, Shape, StoreTypeOK, database, counters
<1>0. PICK o, r : o = Head(loading).row /\ r = report[o]
  OBVIOUS
<1>2. /\ loading' \in Seq(Entry)
      /\ o \in InLoading(loading) /\ o \in Objects
      /\ InLoading(loading') \subseteq InLoading(loading)
      /\ \A x \in InLoading(loading) : x \in InLoading(loading') \/ x = o
  <2>1. \A e \in Entry : e.row \in Objects
    OBVIOUS
  <2> HIDE DEF Entry
  <2> QED
    BY <1>0, <1>1, <2>1, LoadingTail
<1>3. o \in Known /\ r \in Reports /\ r.post = Post(o)
  BY <1>0, <1>2 DEF Tracked, Live, Post
<1>4. events' = events \/ events' = PushLeft(o)
  BY <1>0 DEF Load
<1>5. /\ seen' \in Seq(Keys) /\ Len(seen') <= DedupWindow /\ forgotten' \subseteq Posts
      /\ Keeps /\ Kept(r.post)'
  <2>1. CASE \E s \in Orders(r) : Remembers(r.post, s)
    BY <1>3, <2>1, OrdersFacts
  <2>2. CASE Remembers(r.post, seen)
    BY <1>3, <2>2, KeyFacts, RemembersFacts
  <2>3. PICK s, u : /\ s = Remember(seen, TextKey(r), TextKey(r))
                    /\ u = Remember(s, IdKey(r.post), IdKey(r.post))
    OBVIOUS
  <2>4. CASE Remembers(r.post, u)
    <3>1. s \in Seq(Keys)
      BY <1>3, <2>3, KeyFacts, RememberFacts
    <3>2. u \in Seq(Keys) /\ Len(u) <= DedupWindow
      BY <1>3, <2>3, <3>1, KeyFacts, RememberFacts
    <3> QED
      BY <1>3, <2>4, <3>2, KeyFacts, RemembersFacts
  <2> QED
    BY <1>0, <2>1, <2>2, <2>3, <2>4 DEF Load
<1>6. /\ events' \in Seq(Objects) /\ Len(events') <= MaxEvents
      /\ Range(events') \subseteq Range(events) \union {o}
  BY <1>2, <1>4, PushLeftFacts
<1>7. Known' = Known /\ Fits' /\ Waiting' /\ Starting'
  BY <1>1 DEF Known, Shape, Fits, Waiting, Starting
<1>8. StoreTypeOK'
  BY <1>1, <1>2, <1>5, <1>6 DEF Shape, StoreTypeOK
<1>9. Live' \subseteq Live
  BY <1>1, <1>2, <1>6 DEF Live
<1>10. Kept(Post(o))'
  BY <1>1, <1>3, <1>5 DEF Kept, Post
<1> QED
  BY <1>1, <1>2, <1>5, <1>7, <1>8, <1>9, <1>10 DEF Shape, Quiet, Kept, Post

-----------------------------------------------------------------------------
(* The steps that make an object or a row, or repoint one *)

\* add of a new post.
LEMMA AddNewStep ==
  ASSUME Shape, NEW t \in Threads, NEW i \in Reports,
         NEW m \in Incoming, AddNew(t, i, m)
  PROVE  /\ Shape' /\ Live' \subseteq Live \union {created + 1} /\ IdKey(i.post) \notin Range(seen)
         /\ created' = created + 1 /\ created + 1 \in Objects
         /\ report' = [report EXCEPT ![created + 1] = i] /\ eid' = [eid EXCEPT ![created + 1] = created + 1]
         /\ loading = <<>> /\ Keeps /\ Kept(i.post)' /\ UNCHANGED <<rows, merging, writes, loading>>
<1> USE ShapeFacts
<1> DEFINE o == created + 1
<1>1. /\ Enter(t) /\ created < MaxObjects /\ ~KeysSeen(i)
      /\ created' = o /\ report' = [report EXCEPT ![o] = i] /\ eid' = [eid EXCEPT ![o] = o]
      /\ meta' = [meta EXCEPT ![o] = m] /\ events' = PushLeft(o)
      /\ \E s \in Orders(i) : Remembers(i.post, s)
      /\ Goes(t, [Idle EXCEPT !.at = "event", !.obj = o])
      /\ UNCHANGED <<rows, rowMeta, writes, merging, loading, shown, restarts, fails>>
  BY DEF AddNew, database, counters
<1>2. o \in Objects /\ o \in 0 .. MaxObjects
  BY <1>1, StoreBounds DEF Objects
<1>3. Known \subseteq Known' /\ Known' = 1 .. o
  BY <1>1 DEF Known
<1> DEFINE c == [Idle EXCEPT !.at = "event", !.obj = o]
<1>4. c \in Calls /\ c.at = "event" /\ c.obj = o /\ Fit(c, Known')
  BY <1>2 DEF Idle, Calls, Fit
<1>5. Goes(t, c)
  BY <1>1
<1> HIDE DEF c
<1>6. call[t].at # "wait" /\ calls' \in 0 .. MaxCalls /\ loading = <<>>
  BY <1>1, EnterFacts
<1>7. Fits' /\ Waiting'
  BY <1>1, <1>3, <1>4, <1>5, <1>6, FitsMove DEF Shape
<1>8. call' \in [Threads -> Calls] /\ InCalls(call') \subseteq InCalls(call) \union {o}
  BY <1>4, <1>5, GoesFacts
<1>9. /\ events' \in Seq(Objects) /\ Len(events') <= MaxEvents
      /\ Range(events') \subseteq Range(events) \union {o}
  BY <1>1, <1>2, PushLeftFacts
<1>10. StoreTypeOK'
  <2>1. seen' \in Seq(Keys) /\ Len(seen') <= DedupWindow /\ forgotten' \subseteq Posts
    BY <1>1, OrdersFacts
  <2>2. m \subseteq AllFacts
    BY DEF Incoming, AllFacts
  <2>3. rows' \subseteq 1 .. created'
    BY <1>1, <1>3 DEF Known
  <2>4. /\ report' \in [Objects -> Reports \union {None}] /\ eid' \in [Objects -> Objects]
        /\ meta' \in [Objects -> SUBSET AllFacts]
    BY <1>1, <1>2, <2>2
  <2> QED
    BY <1>1, <1>2, <1>6, <1>8, <1>9, <2>1, <2>3, <2>4 DEF Shape, StoreTypeOK, Calls
<1>11. Live' \subseteq Live \union {o}
  BY <1>1, <1>8, <1>9 DEF Live
<1>12. Keeps /\ Kept(i.post)'
  BY <1>1, OrdersFacts
<1>13. Starting' /\ IdKey(i.post) \notin Range(seen)
  BY <1>1, <1>6 DEF Starting, KeysSeen
<1> QED
  BY <1>1, <1>2, <1>6, <1>7, <1>10, <1>11, <1>12, <1>13 DEF Shape

\* append_thread_repost reads the event back from its row.
LEMMA ReplyReadStep ==
  ASSUME Shape, NEW t \in Threads, NEW id \in Objects,
         NEW f \in Replies, Reply(t, id, f), ~UNCHANGED memory
  PROVE  /\ Shape' /\ Live' \subseteq Live \union {created + 1} /\ id \in rows
         /\ created' = created + 1 /\ created + 1 \in Objects
         /\ report' = [report EXCEPT ![created + 1] = report[id]]
         /\ eid' = [eid EXCEPT ![created + 1] = id]
         /\ loading = <<>> /\ UNCHANGED <<rows, merging, writes, seen, forgotten, loading>>
<1> USE ShapeFacts
<1> DEFINE o == created + 1
<1>1. /\ Enter(t) /\ created < MaxObjects /\ id \in rows
      /\ created' = o /\ report' = [report EXCEPT ![o] = report[id]] /\ eid' = [eid EXCEPT ![o] = id]
      /\ meta' = [meta EXCEPT ![o] = rowMeta[id]]
      /\ Goes(t, [Idle EXCEPT !.at = "rehydrate", !.obj = o, !.id = id, !.fact = f])
      /\ UNCHANGED <<events, seen, forgotten, rows, rowMeta, writes, merging, loading, shown, restarts,
                     fails>>
  BY DEF Reply, database, counters
<1>2. o \in Objects /\ o \in 0 .. MaxObjects
  BY <1>1, StoreBounds DEF Objects
<1>3. Known \subseteq Known' /\ Known' = 1 .. o
  BY <1>1 DEF Known
<1> DEFINE c == [Idle EXCEPT !.at = "rehydrate", !.obj = o, !.id = id, !.fact = f]
<1>4. c \in Calls /\ c.at = "rehydrate" /\ c.obj = o /\ Fit(c, Known')
  BY <1>2 DEF Idle, Calls, Fit, AllFacts
<1>5. Goes(t, c)
  BY <1>1
<1> HIDE DEF c
<1>6. call[t].at # "wait" /\ calls' \in 0 .. MaxCalls /\ loading = <<>>
  BY <1>1, EnterFacts
<1>7. Fits' /\ Waiting'
  BY <1>1, <1>3, <1>4, <1>5, <1>6, FitsMove DEF Shape
<1>8. call' \in [Threads -> Calls] /\ InCalls(call') \subseteq InCalls(call) \union {o}
  BY <1>4, <1>5, GoesFacts
<1>9. StoreTypeOK'
  <2>1. rows' \subseteq 1 .. created'
    BY <1>1, <1>3 DEF Known
  <2>2. /\ report' \in [Objects -> Reports \union {None}] /\ eid' \in [Objects -> Objects]
        /\ meta' \in [Objects -> SUBSET AllFacts]
    BY <1>1, <1>2
  <2> QED
    BY <1>1, <1>2, <1>6, <1>8, <2>1, <2>2 DEF Shape, StoreTypeOK, Calls
<1>10. Live' \subseteq Live \union {o}
  BY <1>1, <1>8 DEF Live
<1>11. Starting'
  BY <1>1, <1>6 DEF Starting
<1> QED
  BY <1>1, <1>2, <1>6, <1>7, <1>9, <1>10, <1>11 DEF Shape

\* The event of the first write.
LEMMA FirstWrite ==
  ASSUME Shape, Tracked, writes # <<>>, Head(writes).op = "event"
  PROVE  /\ Head(writes).obj \in InWrites(writes) /\ Head(writes).obj \in Known
         /\ Head(writes).obj \in Live
<1>1. Head(writes) = writes[1] /\ 1 \in 1 .. Len(writes)
  BY ShapeFacts
<1>2. Head(writes).obj \in InWrites(writes)
  BY <1>1 DEF InWrites
<1> QED
  BY <1>2 DEF Live, Tracked

\* _persist_sync inserts a row.
LEMMA InsertStep ==
  ASSUME Shape, Tracked, PersistInsert
  PROVE  /\ Shape' /\ Live' \subseteq Live /\ merging' = None
         /\ \E o \in Live : RowsOf(o) = {} /\ rows' = rows \union {eid[o]}
         /\ loading = <<>> /\ UNCHANGED <<created, report, eid, seen, forgotten, loading>>
<1> USE ShapeFacts
<1> DEFINE o == Head(writes).obj
<1>1. /\ writes # <<>> /\ merging = None /\ Completed(Head(writes))
      /\ Head(writes).op = "event" /\ RowsOf(o) = {}
      /\ rows' = rows \union {eid[o]} /\ rowMeta' = [rowMeta EXCEPT ![eid[o]] = meta[o]]
      /\ UNCHANGED <<events, seen, forgotten, created, report, eid, meta, merging, loading, shown, calls, restarts, fails>>
  BY DEF PersistInsert, memory, counters
<1>2. o \in Known /\ o \in Live /\ eid[o] \in Known
  BY <1>1, FirstWrite DEF Tracked
<1> HIDE DEF o
<1>3. Known' = Known /\ rows' \subseteq 1 .. created'
  BY <1>1, <1>2 DEF Known
<1>4. Fits' /\ Waiting'
  BY <1>1, <1>3, FitsCompleted DEF Shape
<1>5. /\ call' \in [Threads -> Calls] /\ writes' \in Seq(Write)
      /\ InCalls(call') \subseteq InCalls(call) /\ InWrites(writes') \subseteq InWrites(writes)
  BY <1>1, CompletedFacts
<1>6. StoreTypeOK'
  <2>1. rowMeta' \in [Objects -> SUBSET AllFacts]
    BY <1>1, <1>2
  <2> QED
    BY <1>1, <1>3, <1>5, <2>1 DEF Shape, StoreTypeOK, Calls
<1>7. Live' \subseteq Live
  BY <1>1, <1>5 DEF Live
<1>8. Starting' /\ loading = <<>>
  BY <1>1, Started DEF Starting
<1> QED
  BY <1>1, <1>2, <1>4, <1>6, <1>7, <1>8 DEF Shape

\* _persist_sync finds the report's row and computes the merge.
LEMMA MergeStep ==
  ASSUME Shape, Tracked, PersistMerge
  PROVE  /\ Shape' /\ Live' \subseteq Live /\ writes' = writes /\ writes # <<>>
         /\ merging'.row \in rows /\ report[merging'.row] = report[merging'.obj]
         /\ loading = <<>> /\ UNCHANGED <<created, report, eid, rows, seen, forgotten, loading>>
<1> USE ShapeFacts
<1> DEFINE o == Head(writes).obj
<1>1. /\ writes # <<>> /\ Head(writes).op = "event"
      /\ UNCHANGED <<events, seen, forgotten, created, report, eid, meta, rows, rowMeta, writes, call, loading, shown, calls,
                     restarts, fails>>
  BY DEF PersistMerge, memory, database, counters
<1>2. PICK r \in RowsOf(o) : merging' = [obj |-> o, row |-> r, facts |-> Merged(o, r)]
  BY DEF PersistMerge
<1>3. o \in Known /\ o \in InWrites(writes)
  BY <1>1, FirstWrite
<1> HIDE DEF o
<1>4. r \in rows /\ report[r] = report[o]
  BY DEF RowsOf
<1>5. Merged(o, r) \subseteq AllFacts
  BY <1>3, <1>4 DEF Merged
<1>6. merging'.obj = o /\ merging'.row = r
      /\ merging' \in [obj : Objects, row : Objects, facts : SUBSET AllFacts]
  BY <1>2, <1>3, <1>4, <1>5
<1>7. Known' = Known
  BY <1>1 DEF Known
<1>8. Fits' /\ Waiting'
  BY <1>1, <1>7 DEF Shape, Fits, Waiting
<1>9. StoreTypeOK'
  BY <1>1, <1>6 DEF Shape, StoreTypeOK
<1>10. Live' \subseteq Live
  BY <1>1, <1>3, <1>6 DEF Live, InMerge
<1>11. Starting' /\ loading = <<>>
  BY <1>1, Started DEF Starting
<1> QED
  BY <1>1, <1>4, <1>6, <1>8, <1>9, <1>10, <1>11 DEF Shape

\* The merge is assigned: the event takes the row's id.
LEMMA RepointStep ==
  ASSUME Shape, Tracked, PersistRepoint
  PROVE  /\ Shape' /\ Live' \subseteq Live /\ merging # None /\ merging' = None
         /\ merging.obj \in Live /\ eid' = [eid EXCEPT ![merging.obj] = merging.row]
         /\ loading = <<>> /\ UNCHANGED <<created, report, rows, seen, forgotten, loading>>
<1> USE ShapeFacts
<1>1. /\ merging # None /\ writes # <<>> /\ Completed(Head(writes))
      /\ eid' = [eid EXCEPT ![merging.obj] = merging.row]
      /\ meta' = [meta EXCEPT ![merging.obj] = merging.facts] /\ merging' = None
      /\ UNCHANGED <<events, seen, forgotten, created, report, rows, loading, shown, calls, restarts>>
  BY DEF PersistRepoint, Tracked
<1>2. merging.obj \in Live /\ merging.obj \in Known
  BY <1>1 DEF Live, InMerge, Tracked
<1>3. /\ merging.obj \in Objects /\ merging.row \in Objects
      /\ merging.facts \in SUBSET AllFacts
  BY <1>1 DEF Shape, StoreTypeOK
<1>4. rowMeta' \in [Objects -> SUBSET AllFacts] /\ fails' \in 0 .. MaxFails
  <2>1. fails \in 0 .. MaxFails
    BY DEF Shape, StoreTypeOK
  <2>2. \/ rowMeta' = [rowMeta EXCEPT ![merging.row] = merging.facts] /\ fails' = fails
        \/ fails < MaxFails /\ fails' = fails + 1 /\ rowMeta' = rowMeta
    BY DEF PersistRepoint
  <2>3. CASE rowMeta' = [rowMeta EXCEPT ![merging.row] = merging.facts] /\ fails' = fails
    BY <1>3, <2>1, <2>3
  <2>4. CASE fails < MaxFails /\ fails' = fails + 1 /\ rowMeta' = rowMeta
    BY <2>1, <2>4, StoreBounds
  <2> QED
    BY <2>2, <2>3, <2>4
<1>5. Known' = Known
  BY <1>1 DEF Known
<1>6. Fits' /\ Waiting'
  BY <1>1, <1>5, FitsCompleted DEF Shape
<1>7. /\ call' \in [Threads -> Calls] /\ writes' \in Seq(Write)
      /\ InCalls(call') \subseteq InCalls(call) /\ InWrites(writes') \subseteq InWrites(writes)
  BY <1>1, CompletedFacts
<1>8. StoreTypeOK'
  <2>1. eid' \in [Objects -> Objects] /\ meta' \in [Objects -> SUBSET AllFacts]
    BY <1>1, <1>3
  <2> QED
    BY <1>1, <1>4, <1>7, <2>1 DEF Shape, StoreTypeOK, Calls
<1>9. Live' \subseteq Live
  BY <1>1, <1>7 DEF Live, InMerge
<1>10. Starting' /\ loading = <<>>
  BY <1>1, Started DEF Starting
<1> QED
  BY <1>1, <1>2, <1>6, <1>8, <1>9, <1>10 DEF Shape

\* After a restart only what was read back is there.
LEMMA RestartStep ==
  ASSUME Shape, Tracked, StoreRestart
  PROVE  /\ Shape' /\ Live' \subseteq rows /\ merging' = None
         /\ eid' = [o \in Objects |-> o] /\ UNCHANGED <<created, report, rows>>
         /\ forgotten \subseteq forgotten'
         /\ \A r \in rows : r \in InLoading(loading') \/ Post(r) \in forgotten'
<1> USE ShapeFacts
<1>1. /\ restarts < MaxRestarts /\ restarts' = restarts + 1
      /\ events' = <<>> /\ seen' = <<>>
      /\ eid' = [o \in Objects |-> o]
      /\ meta' = [o \in Objects |-> IF o \in rows THEN rowMeta[o] ELSE {}]
      /\ writes' = <<>> /\ merging' = None /\ call' = [t \in Threads |-> Idle]
      /\ UNCHANGED <<created, report, rows, rowMeta, shown, calls>>
  BY DEF StoreRestart, database
<1>2. Idle \in Calls /\ Idle.at = "idle"
  BY DEF Idle, Calls
<1>3. Fits' /\ Waiting' /\ Starting'
  BY <1>1, <1>2 DEF Fits, Fit, Waiting, Starting
<1>4. /\ loading' \in Seq([row : Objects, keep : BOOLEAN]) /\ InLoading(loading') \subseteq rows
      /\ forgotten \subseteq forgotten' /\ forgotten' \subseteq Posts
      /\ \A r \in rows : r \in InLoading(loading') \/ Post(r) \in forgotten'
      /\ fails' \in 0 .. MaxFails
  BY RestartFacts DEF Shape
<1>5. StoreTypeOK'
  <2>1. eid' \in [Objects -> Objects] /\ meta' \in [Objects -> SUBSET AllFacts]
    BY <1>1
  <2>2. restarts' \in 0 .. MaxRestarts
    BY <1>1, StoreBounds DEF Shape, StoreTypeOK
  <2>3. /\ call' \in [Threads -> Calls] /\ writes' \in Seq(Write)
        /\ events' \in Seq(Objects) /\ Len(events') <= MaxEvents
        /\ seen' \in Seq(Keys) /\ Len(seen') <= DedupWindow
    BY <1>1, <1>2, StoreBounds
  <2> QED
    BY <1>1, <1>4, <2>1, <2>2, <2>3 DEF Shape, StoreTypeOK, Calls
<1>6. Live' \subseteq rows
  BY <1>1, <1>2, <1>4 DEF Live, InCalls, InWrites, InMerge, Range
<1> QED
  BY <1>1, <1>3, <1>4, <1>5, <1>6 DEF Shape

-----------------------------------------------------------------------------
(* One row per report *)

\* Every other step is quiet.
LEMMA StoreCases ==
  ASSUME Shape, Tracked, [StoreNext]_storeVars
  PROVE  \/ Shape' /\ Quiet
         \/ \E t \in Threads, i \in Reports, m \in Incoming : AddNew(t, i, m)
         \/ \E t \in Threads, id \in Objects, f \in Replies :
              Reply(t, id, f) /\ ~UNCHANGED memory
         \/ PersistInsert \/ PersistMerge \/ PersistRepoint \/ StoreRestart
<1>1. ASSUME NEW t \in Threads, NEW id \in Objects, NEW f \in Replies, Reply(t, id, f),
             UNCHANGED memory
      PROVE  Shape' /\ Quiet
  <2>1. created' = created /\ created \in Nat
    BY <1>1, ShapeFacts DEF memory
  <2>2. Goes(t, [Idle EXCEPT !.at = "append", !.id = id, !.fact = f])
    BY <1>1, <2>1 DEF Reply
  <2> QED
    BY <1>1, <2>2, ReplyHeldStep
<1>2. ASSUME NEW t \in Threads, ThreadStep(t) PROVE Shape' /\ Quiet
  BY <1>2, RehydrateStep, AppendReplyStep, CopyStep, PutStep, BroadcastStep DEF ThreadStep
<1>3. CASE UNCHANGED storeVars
  <2>1. UNCHANGED <<events, seen, forgotten, created, report, eid, meta, rows, rowMeta, writes, merging, call, loading, shown,
                    calls, restarts, fails>>
    BY <1>3 DEF storeVars, memory, database, counters
  <2>2. Shape'
    BY <2>1 DEF Shape, StoreTypeOK, Fits, Known, Waiting, Starting
  <2>3. Quiet
    BY <2>1 DEF Quiet, Live, Keeps, Kept
  <2> QED
    BY <2>2, <2>3
<1>4. ASSUME NEW t \in Threads, NEW o \in Range(events), NEW f \in Facts,
             UpdateMetadata(t, o, f)
      PROVE  Shape' /\ Quiet
  BY <1>4, UpdateStep
<1>5. ASSUME NEW t \in Threads, NEW o \in Range(events), NEW f \in Locations,
             EnrichLocation(t, o, f)
      PROVE  Shape' /\ Quiet
  BY <1>5, UpdateStep
<1> QED
  BY <1>1, <1>2, <1>3, <1>4, <1>5, AddDuplicateStep, WriteStep, RaiseStep, LoadStep DEF StoreNext, Worker

\* An object keeps naming the row of its report.
LEMMA TrackedStep ==
  ASSUME Shape, Tracked, [StoreNext]_storeVars
  PROVE  Shape' /\ Tracked'
<1> USE ShapeFacts
<1>1. CASE Shape' /\ Quiet
  BY <1>1 DEF Quiet, Tracked, Known
<1>2. ASSUME NEW t \in Threads, NEW i \in Reports, NEW m \in Incoming, AddNew(t, i, m)
      PROVE  Shape' /\ Tracked'
  <2> DEFINE o == created + 1
  <2>1. /\ Shape' /\ Live' \subseteq Live \union {o} /\ created' = o /\ o \in Objects
        /\ report' = [report EXCEPT ![o] = i] /\ eid' = [eid EXCEPT ![o] = o]
        /\ UNCHANGED <<rows, merging, writes>>
    BY <1>2, AddNewStep
  <2>2. Known' = Known \union {o} /\ o \notin Known
    <3>1. created \in Nat /\ created' = created + 1
      BY <2>1
    <3> QED
      BY <3>1 DEF Known
  <2> HIDE DEF o
  <2>3. \A p \in Known' : eid'[p] \in Known' /\ report'[p] \in Reports /\ report'[eid'[p]] = report'[p]
    <3>1. ASSUME NEW p \in Known
          PROVE  eid'[p] \in Known' /\ report'[p] \in Reports /\ report'[eid'[p]] = report'[p]
      <4>1. p # o /\ eid[p] # o /\ eid[p] \in Known /\ p \in Objects /\ eid[p] \in Objects
        BY <2>2 DEF Tracked
      <4> QED
        BY <2>1, <2>2, <4>1 DEF Tracked
    <3>2. eid'[o] = o /\ report'[o] = i
      BY <2>1
    <3> QED
      BY <2>2, <3>1, <3>2
  <2>4. Live' \subseteq Known'
    BY <2>1, <2>2 DEF Tracked
  <2>5. merging' # None => /\ merging'.row \in rows' /\ report'[merging'.row] = report'[merging'.obj]
                           /\ writes' # <<>>
    <3> SUFFICES ASSUME merging # None
                 PROVE  /\ merging.row \in rows /\ report'[merging.row] = report'[merging.obj]
                        /\ writes # <<>>
      BY <2>1
    <3>1. merging.row \in Known /\ merging.obj \in Known
      BY DEF Tracked, Live, InMerge
    <3> QED
      BY <2>1, <2>2, <3>1 DEF Tracked
  <2> QED
    BY <2>1, <2>3, <2>4, <2>5 DEF Tracked
<1>3. ASSUME NEW t \in Threads, NEW id \in Objects, NEW f \in Replies, Reply(t, id, f),
             ~UNCHANGED memory
      PROVE  Shape' /\ Tracked'
  <2> DEFINE o == created + 1
  <2>1. /\ Shape' /\ Live' \subseteq Live \union {o} /\ created' = o /\ o \in Objects
        /\ id \in rows /\ report' = [report EXCEPT ![o] = report[id]] /\ eid' = [eid EXCEPT ![o] = id]
        /\ UNCHANGED <<rows, merging, writes>>
    BY <1>3, ReplyReadStep
  <2>2. Known' = Known \union {o} /\ o \notin Known
    <3>1. created \in Nat /\ created' = created + 1
      BY <2>1
    <3> QED
      BY <3>1 DEF Known
  <2> HIDE DEF o
  <2>3. \A p \in Known' : eid'[p] \in Known' /\ report'[p] \in Reports /\ report'[eid'[p]] = report'[p]
    <3>1. ASSUME NEW p \in Known
          PROVE  eid'[p] \in Known' /\ report'[p] \in Reports /\ report'[eid'[p]] = report'[p]
      <4>1. p # o /\ eid[p] # o /\ eid[p] \in Known /\ p \in Objects /\ eid[p] \in Objects
        BY <2>2 DEF Tracked
      <4> QED
        BY <2>1, <2>2, <4>1 DEF Tracked
    <3>2. eid'[o] = id /\ report'[o] = report[id] /\ id \in Known /\ id # o /\ report'[id] = report[id]
      BY <2>1, <2>2
    <3> QED
      BY <2>2, <3>1, <3>2 DEF Tracked
  <2>4. Live' \subseteq Known'
    BY <2>1, <2>2 DEF Tracked
  <2>5. merging' # None => /\ merging'.row \in rows' /\ report'[merging'.row] = report'[merging'.obj]
                           /\ writes' # <<>>
    <3> SUFFICES ASSUME merging # None
                 PROVE  /\ merging.row \in rows /\ report'[merging.row] = report'[merging.obj]
                        /\ writes # <<>>
      BY <2>1
    <3>1. merging.row \in Known /\ merging.obj \in Known
      BY DEF Tracked, Live, InMerge
    <3> QED
      BY <2>1, <2>2, <3>1 DEF Tracked
  <2> QED
    BY <2>1, <2>3, <2>4, <2>5 DEF Tracked
<1>4. CASE PersistInsert
  BY <1>4, InsertStep DEF Tracked, Known
<1>5. CASE PersistMerge
  BY <1>5, MergeStep DEF Tracked, Known
<1>6. CASE PersistRepoint
  <2>1. /\ Shape' /\ Live' \subseteq Live /\ merging # None /\ merging' = None
        /\ merging.obj \in Live /\ eid' = [eid EXCEPT ![merging.obj] = merging.row]
        /\ UNCHANGED <<created, report, rows>>
    BY <1>6, RepointStep
  <2>2. merging.row \in Known /\ report[merging.row] = report[merging.obj]
    BY <2>1 DEF Tracked
  <2> QED
    BY <2>1, <2>2 DEF Tracked, Known
<1>7. CASE StoreRestart
  BY <1>7, RestartStep DEF Tracked, Known
<1> QED
  BY <1>1, <1>2, <1>3, <1>4, <1>5, <1>6, <1>7, StoreCases

\* A row is inserted only for a report that has none.
LEMMA OneRowStep ==
  ASSUME Shape, Tracked, OneRowPerItem, [StoreNext]_storeVars
  PROVE  OneRowPerItem'
<1> USE ShapeFacts
<1>1. ASSUME rows' = rows, \A r \in Known : report'[r] = report[r] PROVE OneRowPerItem'
  BY <1>1 DEF OneRowPerItem
<1>2. CASE Quiet
  BY <1>1, <1>2 DEF Quiet
<1>3. ASSUME NEW t \in Threads, NEW i \in Reports, NEW m \in Incoming, AddNew(t, i, m)
      PROVE  OneRowPerItem'
  <2>1. /\ created + 1 \notin Known /\ rows' = rows /\ report' = [report EXCEPT ![created + 1] = i]
    BY <1>3, AddNewStep DEF Known
  <2> QED
    BY <1>1, <2>1
<1>4. ASSUME NEW t \in Threads, NEW id \in Objects, NEW f \in Replies, Reply(t, id, f),
             ~UNCHANGED memory
      PROVE  OneRowPerItem'
  <2>1. /\ created + 1 \notin Known /\ rows' = rows /\ report' = [report EXCEPT ![created + 1] = report[id]]
    BY <1>4, ReplyReadStep DEF Known
  <2> QED
    BY <1>1, <2>1
<1>5. CASE PersistInsert
  <2>1. PICK o \in Live : /\ RowsOf(o) = {} /\ rows' = rows \union {eid[o]} /\ report' = report
    BY <1>5, InsertStep
  <2>2. report[eid[o]] = report[o]
    BY DEF Tracked
  <2>3. \A r \in rows : report[r] # report[o]
    BY <2>1 DEF RowsOf
  <2> QED
    BY <2>1, <2>2, <2>3 DEF OneRowPerItem
<1>6. CASE PersistMerge
  BY <1>1, <1>6, MergeStep
<1>7. CASE PersistRepoint
  BY <1>1, <1>7, RepointStep
<1>8. CASE StoreRestart
  BY <1>1, <1>8, RestartStep
<1> QED
  BY <1>2, <1>3, <1>4, <1>5, <1>6, <1>7, <1>8, StoreCases

\* The invariant of the store holds for ever.
LEMMA StoreInvariance == StoreSpec => []StoreInv
<1>1. StoreInit => StoreInv
  <2> SUFFICES ASSUME StoreInit PROVE StoreInv
    OBVIOUS
  <2>1. Idle \in Calls /\ Idle.at = "idle"
    BY DEF Idle, Calls
  <2>2. StoreTypeOK
    BY <2>1, StoreBounds DEF StoreInit, StoreTypeOK, Objects, Calls
  <2>3. Fits /\ Waiting /\ Starting
    BY <2>1 DEF StoreInit, Fits, Fit, Waiting, Starting
  <2>4. Tracked
    <3>1. Live = {} /\ Known = {}
      BY <2>1 DEF StoreInit, Live, Known, InCalls, InWrites, InMerge, InLoading, Range
    <3> QED
      BY <3>1 DEF Tracked, StoreInit
  <2>5. OneRowPerItem
    BY DEF StoreInit, OneRowPerItem
  <2> QED
    BY <2>2, <2>3, <2>4, <2>5 DEF StoreInv, Shape
<1>2. StoreInv /\ [StoreNext]_storeVars => StoreInv'
  BY TrackedStep, OneRowStep DEF StoreInv
<1> QED
  BY <1>1, <1>2, PTL DEF StoreSpec

-----------------------------------------------------------------------------
(* No event without its row or its write *)

\* The objects whose first write has not ended.
Adding(c) == {c[t].obj : t \in {u \in Threads : c[u].at = "event"}}
OnItsWay == Adding(call) \union InWrites(writes) \union InMerge(merging)

\* As long as no transaction failed, everything a reader of the store may see
\* has a row or its write is still to come: the safety half of Recorded.
EventHasItsWrite ==
  fails = 0 => \A o \in Range(events) : RowsOf(o) # {} \/ o \in OnItsWay

\* The same of all that may come back into the deque ...
Entrusted == fails = 0 => \A o \in Live : RowsOf(o) # {} \/ o \in OnItsWay

\* ... which needs that the merge is the one of the write it ends.
MergesHead ==
  merging # None => Head(writes).op = "event" /\ Head(writes).obj = merging.obj

WayInv == MergesHead /\ Entrusted

\* A thread that has no event to hand over takes none from the queue's way.
LEMMA ThreadKeepsWay ==
  ASSUME Shape, NEW t \in Threads, NEW c, Goes(t, c), call[t].at # "event",
         UNCHANGED <<writes, merging>>
  PROVE  OnItsWay \subseteq OnItsWay'
<1>1. \A u \in Threads : call[u].at = "event" => call'[u] = call[u]
  BY ShapeFacts DEF Goes
<1>2. Adding(call) \subseteq Adding(call')
  BY <1>1 DEF Adding
<1> QED
  BY <1>2 DEF OnItsWay

\* The end of a write takes that write's event off its way, and no other.
LEMMA CompletedWay ==
  ASSUME Shape, writes # <<>>, Completed(Head(writes))
  PROVE  /\ Adding(call) \subseteq Adding(call')
         /\ \A o \in InWrites(writes) :
              o \in InWrites(writes') \/ (Head(writes).op = "event" /\ o = Head(writes).obj)
<1> USE ShapeFacts
<1>1. /\ writes' = Tail(writes) /\ Len(writes) \in Nat \ {0} /\ Len(writes') = Len(writes) - 1
      /\ \A n \in 1 .. Len(writes') : writes'[n] = writes[n + 1]
      /\ Head(writes) = writes[1] /\ 1 \in 1 .. Len(writes)
  BY DEF Completed
<1>2. \A u \in Threads : call[u].at = "event" => call'[u] = call[u]
  <2> SUFFICES ASSUME NEW u \in Threads, call[u].at = "event" PROVE call'[u] = call[u]
    OBVIOUS
  <2>1. call' = [t \in Threads |-> IF t = Head(writes).by THEN [call[t] EXCEPT !.at = "show"]
                                                          ELSE call[t]]
    BY DEF Completed
  <2>2. u # Head(writes).by
    <3>1. writes[1].by # None => call[writes[1].by].at = "wait"
      BY <1>1 DEF Shape, Waiting
    <3> QED
      BY <1>1, <3>1
  <2> QED
    BY <2>1, <2>2
<1>3. Adding(call) \subseteq Adding(call')
  BY <1>2 DEF Adding
<1>4. ASSUME NEW o \in InWrites(writes)
      PROVE  o \in InWrites(writes') \/ (Head(writes).op = "event" /\ o = Head(writes).obj)
  <2>1. PICK n \in 1 .. Len(writes) : writes[n].op = "event" /\ o = writes[n].obj
    BY DEF InWrites
  <2>2. CASE n = 1
    BY <1>1, <2>1, <2>2
  <2>3. CASE n # 1
    <3>1. n - 1 \in 1 .. Len(writes') /\ writes'[n - 1] = writes[n]
      BY <1>1, <2>3
    <3> QED
      BY <2>1, <3>1 DEF InWrites
  <2> QED
    BY <2>2, <2>3
<1> QED
  BY <1>3, <1>4

\* An event handed over is in the queue.
LEMMA PutKeepsWay ==
  ASSUME Shape, MergesHead, Tracked, NEW t \in Threads, Put(t)
  PROVE  OnItsWay \subseteq OnItsWay' /\ MergesHead'
<1> USE ShapeFacts
<1> DEFINE c == call[t]
<1>1. PICK w, d : /\ writes' = Append(writes, w) /\ Goes(t, d) /\ merging' = merging
                  /\ c.at = "event" => w.op = "event" /\ w.obj = c.obj
  BY DEF Put
<1> DEFINE a == Append(writes, w)
<1>2. /\ Len(a) = Len(writes) + 1 /\ Len(writes) \in Nat /\ a[Len(writes) + 1] = w
      /\ \A n \in 1 .. Len(writes) : a[n] = writes[n]
      /\ writes # <<>> => Head(a) = Head(writes)
  OBVIOUS
<1>3. writes' = a
  BY <1>1
<1> HIDE DEF a
<1>4. InWrites(writes) \subseteq InWrites(writes')
  BY <1>2, <1>3 DEF InWrites
<1>5. ASSUME NEW o \in Adding(call) PROVE o \in OnItsWay'
  <2>1. PICK u \in Threads : call[u].at = "event" /\ o = call[u].obj
    BY DEF Adding
  <2>2. CASE u = t
    <3>1. Len(writes) + 1 \in 1 .. Len(writes') /\ writes'[Len(writes) + 1] = w
      BY <1>2, <1>3
    <3>2. w.op = "event" /\ w.obj = o
      BY <1>1, <2>1, <2>2
    <3>3. o \in InWrites(writes')
      BY <3>1, <3>2 DEF InWrites
    <3> QED
      BY <3>3 DEF OnItsWay
  <2>3. CASE u # t
    <3>1. call'[u] = call[u]
      BY <1>1, <2>3 DEF Goes
    <3> QED
      BY <2>1, <3>1 DEF Adding, OnItsWay
  <2> QED
    BY <2>2, <2>3
<1>6. OnItsWay \subseteq OnItsWay'
  BY <1>1, <1>4, <1>5 DEF OnItsWay
<1>7. MergesHead'
  BY <1>1, <1>2, <1>3 DEF MergesHead, Tracked
<1> QED
  BY <1>6, <1>7

\* A write of metadata ends no event's way.
LEMMA MetadataKeepsWay ==
  ASSUME Shape, MergesHead, PersistMetadata \/ PersistLocation
  PROVE  OnItsWay \subseteq OnItsWay' /\ MergesHead'
<1>1. /\ writes # <<>> /\ merging = None /\ merging' = None /\ Head(writes).op # "event"
      /\ Completed(Head(writes))
  BY DEF PersistMetadata, PersistLocation
<1>2. Adding(call) \subseteq Adding(call') /\ InWrites(writes) \subseteq InWrites(writes')
  BY <1>1, CompletedWay
<1> QED
  BY <1>1, <1>2 DEF OnItsWay, MergesHead

\* An event leaves its way when its report has a row.
LEMMA WayStep ==
  ASSUME Shape, Tracked, MergesHead, [StoreNext]_storeVars, ~PersistFails, ~StoreRestart,
         ~(\E t \in Threads : BroadcastRaises(t))
  PROVE  /\ MergesHead'
         /\ fails' = 0 => \A o \in OnItsWay : o \in OnItsWay' \/ \E r \in rows' : report'[r] = report'[o]
<1> USE ShapeFacts
<1> DEFINE Goal == /\ MergesHead'
                   /\ \A o \in OnItsWay : o \in OnItsWay' \/ \E r \in rows' : report'[r] = report'[o]
<1>1. ASSUME NEW t \in Threads, NEW c, Goes(t, c), call[t].at # "event", UNCHANGED <<writes, merging>>
      PROVE  Goal
  BY <1>1, ThreadKeepsWay DEF MergesHead
<1> HIDE DEF Goal
<1>2. ASSUME NEW t \in Threads, Enter(t) PROVE call[t].at # "event"
  BY <1>2 DEF Enter, Idle
<1>3. ASSUME NEW t \in Threads, NEW i \in Reports, NEW m \in Incoming,
             AddNew(t, i, m) \/ AddDuplicate(t, i, m)
      PROVE  Goal
  <2>1. Enter(t) /\ UNCHANGED <<writes, merging>> /\ \E c : Goes(t, c)
    BY <1>3 DEF AddNew, AddDuplicate
  <2> QED
    BY <1>1, <1>2, <2>1
<1>4. ASSUME NEW t \in Threads, NEW o \in Range(events), NEW f,
             UpdateMetadata(t, o, f) \/ EnrichLocation(t, o, f)
      PROVE  Goal
  <2>1. Enter(t) /\ UNCHANGED <<writes, merging>> /\ \E c : Goes(t, c)
    BY <1>4 DEF UpdateMetadata, EnrichLocation
  <2> QED
    BY <1>1, <1>2, <2>1
<1>5. ASSUME NEW t \in Threads, NEW id \in Objects, NEW f \in Replies, Reply(t, id, f) PROVE Goal
  <2>1. Enter(t) /\ UNCHANGED <<writes, merging>> /\ \E c : Goes(t, c)
    BY <1>5 DEF Reply
  <2> QED
    BY <1>1, <1>2, <2>1
<1>6. ASSUME NEW t \in Threads, ThreadStep(t) PROVE Goal
  <2>1. CASE Put(t)
    BY <2>1, PutKeepsWay DEF Goal
  <2>2. CASE Rehydrate(t) \/ AppendReply(t) \/ Copy(t) \/ Broadcast(t)
    <3>1. call[t].at # "event" /\ UNCHANGED <<writes, merging>> /\ \E c : Goes(t, c)
      BY <2>2 DEF Rehydrate, AppendReply, Copy, Broadcast
    <3> QED
      BY <1>1, <3>1
  <2> QED
    BY <1>6, <2>1, <2>2 DEF ThreadStep
<1>7. CASE PersistInsert
  <2> DEFINE p == Head(writes).obj
  <2>1. /\ writes # <<>> /\ merging = None /\ merging' = None /\ Completed(Head(writes))
        /\ Head(writes).op = "event" /\ rows' = rows \union {eid[p]} /\ report' = report
    BY <1>7 DEF PersistInsert, memory
  <2>2. eid[p] \in rows' /\ report'[eid[p]] = report'[p]
    BY <2>1, FirstWrite DEF Tracked
  <2>3. \A o \in OnItsWay : o \in OnItsWay' \/ o = p
    BY <2>1, CompletedWay DEF OnItsWay
  <2> QED
    BY <2>1, <2>2, <2>3 DEF Goal, MergesHead
<1>8. CASE PersistMerge
  <2>1. /\ merging = None /\ merging'.obj = Head(writes).obj /\ Head(writes).op = "event"
        /\ UNCHANGED <<writes, call>>
    BY <1>8 DEF PersistMerge
  <2> QED
    BY <2>1 DEF Goal, MergesHead, OnItsWay, InMerge
<1>9. CASE PersistRepoint
  <2>1. /\ merging # None /\ writes # <<>> /\ merging' = None /\ Completed(Head(writes))
        /\ UNCHANGED <<rows, report>>
    BY <1>9 DEF PersistRepoint, Tracked
  <2>2. merging.row \in rows' /\ report'[merging.row] = report'[merging.obj]
    BY <2>1 DEF Tracked
  <2>3. \A o \in OnItsWay : o \in OnItsWay' \/ o = merging.obj
    BY <2>1, CompletedWay DEF OnItsWay, InMerge, MergesHead
  <2> QED
    BY <2>1, <2>2, <2>3 DEF Goal, MergesHead
<1>10. CASE PersistMetadata \/ PersistLocation
  BY <1>10, MetadataKeepsWay DEF Goal
<1>11. CASE UNCHANGED storeVars \/ Load
  <2>1. UNCHANGED <<writes, merging, call>>
    BY <1>11 DEF storeVars, Load
  <2> QED
    BY <2>1 DEF Goal, MergesHead, OnItsWay
<1> QED
  BY <1>3, <1>4, <1>5, <1>6, <1>7, <1>8, <1>9, <1>10, <1>11 DEF StoreNext, Worker, Goal

\* A failure is never forgotten.
LEMMA FailsGrow ==
  ASSUME Shape, [StoreNext]_storeVars, fails' = 0
  PROVE  fails = 0
<1>1. fails \in Nat
  BY StoreBounds DEF Shape, StoreTypeOK
<1>2. ASSUME fails' = fails + 1 PROVE FALSE
  BY <1>1, <1>2
<1>3. ASSUME fails' = fails PROVE fails = 0
  BY <1>3
<1>4. ASSUME NEW t \in Threads, NEW i, NEW m, AddNew(t, i, m) \/ AddDuplicate(t, i, m)
      PROVE  fails' = fails
  BY <1>4 DEF AddNew, AddDuplicate, counters
<1>5. ASSUME NEW t \in Threads, NEW o, NEW f,
             UpdateMetadata(t, o, f) \/ EnrichLocation(t, o, f) \/ Reply(t, o, f)
      PROVE  fails' = fails
  <2>1. CASE UpdateMetadata(t, o, f) \/ EnrichLocation(t, o, f)
    BY <2>1 DEF UpdateMetadata, EnrichLocation, counters
  <2>2. CASE Reply(t, o, f)
    BY <2>2 DEF Reply, counters
  <2> QED
    BY <1>5, <2>1, <2>2
<1>6. ASSUME NEW t \in Threads, ThreadStep(t) PROVE fails' = fails
  BY <1>6 DEF ThreadStep, Rehydrate, AppendReply, Copy, Put, Broadcast, counters
<1>7. CASE PersistInsert \/ PersistMerge \/ PersistMetadata \/ PersistLocation
  BY <1>3, <1>7 DEF PersistInsert, PersistMerge, PersistMetadata, PersistLocation, counters
<1>8. CASE PersistRepoint \/ PersistFails \/ \E t \in Threads : BroadcastRaises(t)
  BY <1>2, <1>3, <1>8 DEF PersistRepoint, PersistFails, BroadcastRaises
<1>9. CASE StoreRestart \/ Load
  BY <1>2, <1>3, <1>9 DEF StoreRestart, Load, counters
<1>10. CASE UNCHANGED storeVars
  BY <1>3, <1>10 DEF storeVars, counters
<1> QED
  BY <1>3, <1>4, <1>5, <1>6, <1>7, <1>8, <1>9, <1>10 DEF StoreNext, Worker

\* What is new in memory has a row or is on its way, and what has a row keeps it.
LEMMA EntrustedStep ==
  ASSUME StoreInv, WayInv, [StoreNext]_storeVars
  PROVE  WayInv'
<1> USE ShapeFacts
<1>1. Shape /\ Tracked /\ MergesHead /\ Live \subseteq Known
  BY DEF StoreInv, WayInv, Tracked
<1>2. fails \in Nat
  BY <1>1, StoreBounds DEF Shape, StoreTypeOK
<1>3. CASE PersistFails
  <2>1. fails' = fails + 1 /\ merging' = None
    BY <1>3 DEF PersistFails
  <2> QED
    BY <1>2, <2>1 DEF WayInv, MergesHead, Entrusted
<1>6. CASE \E t \in Threads : BroadcastRaises(t)
  <2>1. fails' = fails + 1 /\ UNCHANGED <<merging, writes>>
    BY <1>6 DEF BroadcastRaises
  <2> QED
    BY <1>1, <1>2, <2>1 DEF WayInv, MergesHead, Entrusted
<1>4. CASE StoreRestart
  <2>1. Live' \subseteq rows' /\ merging' = None
    BY <1>1, <1>4, RestartStep
  <2> QED
    BY <2>1 DEF WayInv, MergesHead, Entrusted, RowsOf
<1>5. CASE ~PersistFails /\ ~StoreRestart /\ ~(\E t \in Threads : BroadcastRaises(t))
  <2>1. /\ MergesHead'
        /\ fails' = 0 =>
             \A o \in OnItsWay : o \in OnItsWay' \/ \E r \in rows' : report'[r] = report'[o]
    BY <1>1, <1>5, WayStep
  <2> SUFFICES ASSUME fails' = 0, NEW o \in Live'
               PROVE  o \in OnItsWay' \/ \E r \in rows' : report'[r] = report'[o]
    BY <2>1 DEF WayInv, Entrusted, RowsOf
  <2>2. fails = 0
    BY <1>1, <1>5, FailsGrow
  <2>3. \A p \in Live : RowsOf(p) # {} \/ p \in OnItsWay
    BY <2>2 DEF WayInv, Entrusted
  <2>4. ASSUME o \in Live, rows \subseteq rows', report'[o] = report[o],
               \A r \in rows : report'[r] = report[r]
        PROVE  o \in OnItsWay' \/ \E r \in rows' : report'[r] = report'[o]
    BY <2>1, <2>3, <2>4 DEF RowsOf
  <2>5. CASE UNCHANGED report /\ Live' \subseteq Live /\ rows \subseteq rows'
    BY <2>4, <2>5
  <2>6. CASE Quiet
    BY <2>5, <2>6 DEF Quiet
  <2>7. CASE PersistInsert \/ PersistMerge \/ PersistRepoint
    BY <1>1, <2>5, <2>7, InsertStep, MergeStep, RepointStep
  <2>8. ASSUME NEW t \in Threads, NEW i \in Reports, NEW m \in Incoming, AddNew(t, i, m)
        PROVE  o \in OnItsWay' \/ \E r \in rows' : report'[r] = report'[o]
    <3> DEFINE n == created + 1
    <3>1. /\ Live' \subseteq Live \union {n} /\ report' = [report EXCEPT ![n] = i] /\ rows' = rows
      BY <1>1, <2>8, AddNewStep
    <3>2. n \notin Known
      BY <1>1 DEF Known
    <3>3. n \in OnItsWay'
      <4>1. call'[t].at = "event" /\ call'[t].obj = n
        BY <1>1, <2>8 DEF AddNew, Goes, Idle
      <4> QED
        BY <4>1 DEF OnItsWay, Adding
    <3> HIDE DEF n
    <3>4. \A p \in Known : report'[p] = report[p]
      BY <1>1, <3>1, <3>2
    <3> QED
      BY <1>1, <2>4, <3>1, <3>3, <3>4
  <2>9. ASSUME NEW t \in Threads, NEW id \in Objects, NEW f \in Replies, Reply(t, id, f),
               ~UNCHANGED memory
        PROVE  o \in OnItsWay' \/ \E r \in rows' : report'[r] = report'[o]
    <3> DEFINE n == created + 1
    <3>1. /\ Live' \subseteq Live \union {n} /\ n \in Objects /\ id \in rows
          /\ report' = [report EXCEPT ![n] = report[id]] /\ rows' = rows
      BY <1>1, <2>9, ReplyReadStep
    <3>2. n \notin Known
      BY <1>1 DEF Known
    <3> HIDE DEF n
    <3>3. \A p \in Known : report'[p] = report[p]
      BY <1>1, <3>1, <3>2
    <3>4. report'[n] = report'[id] /\ id \in rows'
      BY <1>1, <3>1, <3>3
    <3> QED
      BY <1>1, <2>4, <3>1, <3>3, <3>4
  <2> QED
    BY <1>1, <1>5, <2>6, <2>7, <2>8, <2>9, StoreCases
<1> QED
  BY <1>3, <1>4, <1>5, <1>6

-----------------------------------------------------------------------------
(* One marker per post *)

\* The objects and rows of the posts that are not forgotten.
Minded(S) == {o \in S : Post(o) \notin forgotten}

\* All objects of one such post name the same row, which is the post's only one
\* if it has one, and the post's key is in the window, or will be when
\* load_from_db is through.
Marked ==
  /\ \A o \in Minded(Live), r \in rows : Post(o) = Post(r) => eid[o] = r
  /\ \A o, p \in Minded(Live) : Post(o) = Post(p) => eid[o] = eid[p]
  /\ \A r, s \in Minded(rows) : Post(r) = Post(s) => r = s
  /\ \A o \in Live \union rows : Kept(Post(o)) \/ o \in InLoading(loading)

\* The posts of the known objects.
LEMMA PostFacts ==
  ASSUME Shape, Tracked
  PROVE  \A o \in Known : Post(o) \in Posts /\ Post(eid[o]) = Post(o)
BY KeyFacts DEF Tracked, Post

\* What is kept stays kept.
LEMMA KeptStays ==
  ASSUME Keeps, NEW p \in Posts, Kept(p)
  PROVE  Kept(p)'
BY DEF Keeps, Kept

\* A new object, of a post that has none or of a row read back.
LEMMA MarkedNew ==
  ASSUME StoreInv, Marked, NEW n \in Objects, n = created + 1, NEW r \in Reports, NEW id,
         Live' \subseteq Live \union {n}, created' = n, rows' = rows, loading = <<>>, loading' = loading,
         report' = [report EXCEPT ![n] = r], eid' = [eid EXCEPT ![n] = id],
         Keeps, Kept(r.post)',
         \/ IdKey(r.post) \notin Range(seen)
         \/ id \in rows /\ report[id] = r
  PROVE  Marked'
<1> USE ShapeFacts
<1>1. Shape /\ Tracked /\ Live \subseteq Known /\ rows \subseteq Known
  BY DEF StoreInv, Tracked
<1>2. n \notin Known /\ \A o \in Known : o # n /\ Post(o)' = Post(o) /\ eid'[o] = eid[o] /\ Post(o) \in Posts
  <2>1. n \notin Known
    BY <1>1 DEF Known
  <2>2. \A o \in Known : o \in Objects
    BY <1>1
  <2> QED
    BY <1>1, <2>1, <2>2, PostFacts DEF Post
<1>3. Post(n)' = r.post /\ eid'[n] = id
  BY <1>1 DEF Post
<1>4. /\ Minded(Live)' \subseteq Minded(Live) \union {n}
      /\ Minded(rows)' \subseteq Minded(rows)
  BY <1>1, <1>2 DEF Minded, Keeps
<1>5. \A o \in Live \union rows : Kept(Post(o)) /\ Kept(Post(o))'
  <2>1. InLoading(loading) = {}
    BY DEF InLoading
  <2>2. \A o \in Live \union rows : Kept(Post(o)) /\ Post(o) \in Posts
    BY <1>1, <1>2, <2>1 DEF Marked
  <2>3. \A o \in Live \union rows : (Post(o)' = Post(o))
    BY <1>1, <1>2
  <2>4. ASSUME NEW o \in Live \union rows PROVE Kept(Post(o))'
    <3>1. (IdKey(Post(o)) \in Range(seen') \/ Post(o) \in forgotten')
      BY <2>2, <2>4 DEF Kept, Keeps
    <3> QED
      BY <2>3, <3>1 DEF Kept
  <2> QED
    BY <2>2, <2>4
<1>6. CASE IdKey(r.post) \notin Range(seen)
  <2>1. \A o \in Minded(Live) \union Minded(rows) : Post(o) # r.post
    BY <1>5, <1>6 DEF Kept, Minded
  <2>2. n \in Minded(Live)' => r.post \notin forgotten'
    BY <1>3 DEF Minded
  <2>3. r.post \notin forgotten' => \A q \in rows : Post(q) # r.post
    <3>1. forgotten \subseteq forgotten'
      BY DEF Keeps
    <3> QED
      BY <2>1, <3>1 DEF Minded
  <2>4. ASSUME NEW o \in Minded(Live)', NEW q \in rows', Post(o)' = Post(q)' PROVE eid'[o] = q
    BY <1>1, <1>2, <1>3, <1>4, <2>2, <2>3, <2>4 DEF Marked, Minded
  <2>5. ASSUME NEW o \in Minded(Live)', NEW q \in Minded(Live)', Post(o)' = Post(q)'
        PROVE  eid'[o] = eid'[q]
    BY <1>1, <1>2, <1>3, <1>4, <2>1, <2>5 DEF Marked, Minded
  <2>6. ASSUME NEW o \in Minded(rows)', NEW q \in Minded(rows)', Post(o)' = Post(q)' PROVE o = q
    BY <1>1, <1>2, <1>4, <2>6 DEF Marked, Minded
  <2>7. ASSUME NEW o \in (Live \union rows)' PROVE Kept(Post(o))'
    BY <1>3, <1>5, <2>7
  <2> QED
    BY <2>4, <2>5, <2>6, <2>7 DEF Marked
<1>7. CASE id \in rows /\ report[id] = r
  <2>1. id \in Known /\ Post(id) = r.post
    BY <1>1, <1>7 DEF Post
  <2>2. n \in Minded(Live)' => id \in Minded(rows)
    BY <1>3, <1>7, <2>1 DEF Minded, Keeps
  <2>3. ASSUME NEW o \in Minded(Live)', NEW q \in rows', Post(o)' = Post(q)' PROVE eid'[o] = q
    <3>1. CASE o = n
      <4>1. id \in Minded(rows) /\ q \in Minded(rows) /\ Post(q) = Post(id)
        BY <1>1, <1>2, <1>3, <2>1, <2>2, <2>3, <3>1 DEF Minded
      <4> QED
        BY <1>3, <3>1, <4>1 DEF Marked
    <3>2. CASE o # n
      BY <1>1, <1>2, <1>4, <2>3, <3>2 DEF Marked, Minded
    <3> QED
      BY <3>1, <3>2
  <2>4. ASSUME NEW o \in Minded(Live)', NEW q \in Minded(Live)', Post(o)' = Post(q)'
        PROVE  eid'[o] = eid'[q]
    <3>1. ASSUME NEW x \in Minded(Live), Post(x) = r.post PROVE eid'[x] = id
      BY <1>1, <1>2, <1>7, <2>1, <3>1 DEF Marked, Minded
    <3> QED
      BY <1>1, <1>2, <1>3, <1>4, <2>4, <3>1 DEF Marked, Minded
  <2>5. ASSUME NEW o \in Minded(rows)', NEW q \in Minded(rows)', Post(o)' = Post(q)' PROVE o = q
    BY <1>1, <1>2, <1>4, <2>5 DEF Marked, Minded
  <2>6. ASSUME NEW o \in (Live \union rows)' PROVE Kept(Post(o))'
    BY <1>3, <1>5, <2>6
  <2> QED
    BY <2>3, <2>4, <2>5, <2>6 DEF Marked
<1> QED
  BY <1>6, <1>7

\* A post keeps its one row id.
LEMMA MarkedStep ==
  ASSUME StoreInv, Marked, [StoreNext]_storeVars
  PROVE  Marked'
<1> USE ShapeFacts
<1>1. Shape /\ Tracked /\ Live \subseteq Known /\ rows \subseteq Known
  BY DEF StoreInv, Tracked
<1>2. \A o \in Known : Post(o) \in Posts /\ Post(eid[o]) = Post(o)
  BY <1>1, PostFacts
<1>3. CASE Quiet
  <2>1. /\ Live' \subseteq Live /\ UNCHANGED <<report, eid, rows>> /\ Keeps
        /\ \A o : Post(o)' = Post(o)
    BY <1>3 DEF Quiet, Post
  <2>2. Minded(Live)' \subseteq Minded(Live) /\ Minded(rows)' \subseteq Minded(rows)
    BY <2>1 DEF Minded, Keeps
  <2>3. ASSUME NEW o \in (Live \union rows)' PROVE Kept(Post(o))' \/ o \in InLoading(loading')
    <3>1. o \in Live \union rows /\ Post(o) \in Posts
      BY <1>1, <1>2, <2>1
    <3>2. CASE o \in InLoading(loading)
      BY <1>3, <2>1, <3>2 DEF Quiet
    <3>3. CASE Kept(Post(o))
      BY <2>1, <3>1, <3>3 DEF Kept, Keeps
    <3> QED
      BY <3>1, <3>2, <3>3 DEF Marked
  <2> QED
    BY <2>1, <2>2, <2>3 DEF Marked
<1>4. ASSUME NEW t \in Threads, NEW i \in Reports, NEW m \in Incoming, AddNew(t, i, m)
      PROVE  Marked'
  BY <1>1, <1>4, AddNewStep, MarkedNew
<1>5. ASSUME NEW t \in Threads, NEW id \in Objects, NEW f \in Replies, Reply(t, id, f),
             ~UNCHANGED memory
      PROVE  Marked'
  <2>1. /\ Live' \subseteq Live \union {created + 1} /\ id \in rows
        /\ created' = created + 1 /\ created + 1 \in Objects
        /\ report' = [report EXCEPT ![created + 1] = report[id]]
        /\ eid' = [eid EXCEPT ![created + 1] = id]
        /\ loading = <<>> /\ UNCHANGED <<rows, merging, writes, seen, forgotten, loading>>
    BY <1>1, <1>5, ReplyReadStep
  <2>2. PICK r \in Reports : r = report[id] /\ Post(id) = r.post
    BY <1>1, <2>1 DEF Tracked, Post
  <2>3. Keeps /\ Kept(r.post)'
    <3>1. InLoading(loading) = {}
      BY <2>1 DEF InLoading
    <3>2. Kept(Post(id))
      BY <2>1, <3>1 DEF Marked
    <3> QED
      BY <2>1, <2>2, <3>2 DEF Keeps, Kept
  <2> QED
    BY <2>1, <2>2, <2>3, MarkedNew
<1>6. CASE PersistInsert
  <2>1. PICK o \in Live : RowsOf(o) = {} /\ rows' = rows \union {eid[o]}
    BY <1>1, <1>6, InsertStep
  <2>2. /\ Live' \subseteq Live /\ loading = <<>>
        /\ UNCHANGED <<created, report, eid, seen, forgotten, loading>>
    BY <1>1, <1>6, InsertStep
  <2>3. Minded(Live)' \subseteq Minded(Live) /\ \A x : Post(x)' = Post(x)
    BY <2>2 DEF Minded, Post
  <2>4. Post(eid[o]) = Post(o) /\ (Post(o) \notin forgotten => o \in Minded(Live))
    BY <1>1, <1>2 DEF Minded
  <2>5. \A x \in Live \union rows : Kept(Post(x))
    BY <2>2 DEF Marked, InLoading
  <2>6. ASSUME NEW x \in Minded(Live)', NEW q \in rows', Post(x)' = Post(q)' PROVE eid'[x] = q
    BY <2>1, <2>2, <2>3, <2>4, <2>6 DEF Marked, Minded
  <2>7. ASSUME NEW x \in Minded(rows)', NEW q \in Minded(rows)', Post(x)' = Post(q)' PROVE x = q
    <3>1. ASSUME NEW y \in rows, Post(y) \notin forgotten, Post(y) = Post(o) PROVE y = eid[o]
      BY <2>4, <3>1 DEF Marked
    <3>2. /\ x \in rows \/ x = eid[o]
          /\ q \in rows \/ q = eid[o]
          /\ Post(x) = Post(q) /\ Post(x) \notin forgotten
      BY <2>1, <2>2, <2>3, <2>7 DEF Minded
    <3> QED
      BY <2>4, <3>1, <3>2 DEF Marked, Minded
  <2>8. ASSUME NEW x \in (Live \union rows)' PROVE Kept(Post(x))'
    <3>1. Kept(Post(x))
      BY <2>1, <2>2, <2>4, <2>5
    <3> QED
      BY <2>2, <2>3, <3>1 DEF Kept
  <2> QED
    BY <2>2, <2>3, <2>6, <2>7, <2>8 DEF Marked
<1>7. CASE PersistMerge
  <2>1. Live' \subseteq Live /\ UNCHANGED <<report, eid, rows, seen, forgotten, loading>>
    BY <1>1, <1>7, MergeStep
  <2> QED
    BY <2>1 DEF Marked, Minded, Kept, Post
<1>8. CASE PersistRepoint
  <2>1. /\ Live' \subseteq Live /\ merging # None /\ merging.obj \in Live
        /\ eid' = [eid EXCEPT ![merging.obj] = merging.row]
        /\ UNCHANGED <<report, rows, seen, forgotten, loading>>
    BY <1>1, <1>8, RepointStep
  <2>2. merging.row \in rows /\ Post(merging.row) = Post(merging.obj)
    BY <1>1, <2>1 DEF Tracked, Post
  <2>3. Minded(Live)' \subseteq Minded(Live) /\ Minded(rows)' = Minded(rows) /\ \A x : Post(x)' = Post(x)
    BY <2>1 DEF Minded, Post
  <2>4. \A p \in Minded(Live) : eid'[p] = eid[p]
    <3>1. merging.obj \in Minded(Live) => eid[merging.obj] = merging.row
      BY <2>2 DEF Marked
    <3>2. \A p \in Minded(Live) : p \in Objects
      BY <1>1 DEF Minded
    <3> QED
      BY <1>1, <2>1, <3>1, <3>2
  <2>5. ASSUME NEW x \in (Live \union rows)' PROVE Kept(Post(x))' \/ x \in InLoading(loading')
    BY <2>1, <2>3, <2>5 DEF Marked, Kept
  <2> QED
    BY <2>1, <2>3, <2>4, <2>5 DEF Marked
<1>9. CASE StoreRestart
  <2>1. /\ Live' \subseteq rows /\ eid' = [o \in Objects |-> o] /\ UNCHANGED <<report, rows>>
        /\ forgotten \subseteq forgotten'
        /\ \A r \in rows : r \in InLoading(loading') \/ Post(r) \in forgotten'
    BY <1>1, <1>9, RestartStep
  <2>2. /\ Minded(Live)' \subseteq Minded(rows) /\ Minded(rows)' \subseteq Minded(rows)
        /\ \A x : Post(x)' = Post(x)
    BY <2>1 DEF Minded, Post
  <2>3. \A r \in rows : eid'[r] = r
    BY <1>1, <2>1
  <2>4. ASSUME NEW x \in Minded(Live)', NEW q \in rows', Post(x)' = Post(q)' PROVE eid'[x] = q
    BY <2>1, <2>2, <2>3, <2>4 DEF Marked, Minded
  <2>5. ASSUME NEW x \in Minded(Live)', NEW q \in Minded(Live)', Post(x)' = Post(q)' PROVE eid'[x] = eid'[q]
    BY <2>2, <2>5 DEF Marked
  <2>6. ASSUME NEW x \in (Live \union rows)' PROVE Kept(Post(x))' \/ x \in InLoading(loading')
    <3>1. x \in rows
      BY <2>1
    <3> QED
      BY <2>1, <2>2, <3>1 DEF Kept
  <2> QED
    BY <2>2, <2>4, <2>5, <2>6 DEF Marked
<1> QED
  BY <1>1, <1>3, <1>4, <1>5, <1>6, <1>7, <1>8, <1>9, StoreCases

-----------------------------------------------------------------------------
(* Theorems about the store *)

\* The deque and the window keep their limits, and every thread and every
\* queued write carries what its next step needs, through evictions, merges,
\* failed transactions and restarts.
THEOREM StoreTypeCorrect == StoreSpec => []StoreTypeOK
<1>1. StoreInv => StoreTypeOK
  BY DEF StoreInv, Shape
<1> QED
  BY StoreInvariance, <1>1, PTL

\* A report has one row, however often its post is evicted, forgotten, collected
\* again, also under another spelling of its source, and merged, and whatever
\* writes fail (_persist_sync).
THEOREM OneRowPerItemHolds == StoreSpec => []OneRowPerItem
<1>1. StoreInv => OneRowPerItem
  BY DEF StoreInv
<1> QED
  BY StoreInvariance, <1>1, PTL

\* A thread waits in append_thread_repost only for a write that is in the queue,
\* and no two writes are for the same thread (_enqueue_persist,
\* _persist_worker_loop): the write whose end wakes it is still to come.
THEOREM WaiterHasItsWrite == StoreSpec => []Waiting
<1>1. StoreInv => Waiting
  BY DEF StoreInv, Shape
<1> QED
  BY StoreInvariance, <1>1, PTL

\* As long as no transaction failed, an event that is shown from the deque has a
\* row, or the write that makes it one is with the thread that added it, in the
\* queue or with the worker (add, _enqueue_persist, _persist_sync): no order of
\* evictions, repeated collections, merges and restarts loses that write.
THEOREM EventHasItsWriteHolds == StoreSpec => []EventHasItsWrite
<1>1. StoreInit => WayInv
  <2> SUFFICES ASSUME StoreInit PROVE WayInv
    OBVIOUS
  <2>1. Live = {}
    BY DEF StoreInit, Live, InCalls, InWrites, InMerge, InLoading, Range, Idle
  <2> QED
    BY <2>1 DEF StoreInit, WayInv, MergesHead, Entrusted
<1>2. StoreInv /\ WayInv /\ [StoreNext]_storeVars => WayInv'
  BY EntrustedStep
<1>3. WayInv => EventHasItsWrite
  BY DEF WayInv, Entrusted, EventHasItsWrite, Live
<1> QED
  BY StoreInvariance, <1>1, <1>2, <1>3, PTL DEF StoreSpec

\* A post that was recorded is never raised as a second marker while its key is
\* in the window and restarts read its row back: not after it left the deque, not
\* under another spelling of its source, not by a reply that reads it back, not
\* while or after load_from_db runs, and not when the worker repoints events.
THEOREM OneMarkerPerPostHolds == StoreSpec => []OneMarkerPerPost
<1>1. StoreInit => Marked
  <2> SUFFICES ASSUME StoreInit PROVE Marked
    OBVIOUS
  <2>1. Live = {}
    BY DEF StoreInit, Live, InCalls, InWrites, InMerge, InLoading, Range, Idle
  <2> QED
    BY <2>1 DEF StoreInit, Marked, Minded
<1>2. StoreInv /\ Marked /\ [StoreNext]_storeVars => Marked'
  BY MarkedStep
<1>3. Marked => OneMarkerPerPost
  BY DEF Marked, OneMarkerPerPost, Minded, Live
<1> QED
  BY StoreInvariance, <1>1, <1>2, <1>3, PTL DEF StoreSpec

=============================================================================
