----------------------------- MODULE Incidents -----------------------------
(***************************************************************************)
(* The canonical humanitarian incident (core/intel/humanitarian_incident)  *)
(* and the lifecycle rules it is synced from (core/intel/lifecycle).       *)
(*                                                                         *)
(* An incident is a thread: the founding report and the self-replies,      *)
(* reposts and quotes appended to it.  Every append starts a subscriber    *)
(* thread that computes the lifecycle from the thread as it then is and    *)
(* upserts the incident row; nothing orders these threads, and one that    *)
(* fails is logged and dropped.  A scheduler job re-evaluates the rows     *)
(* that are not terminal, then retires the ones that have gone silent.     *)
(* A reviewer may move the row as well.                                    *)
(*                                                                         *)
(* A text is abstracted to the outcome the classifiers read in it.  One    *)
(* database transaction is one step.  A crash loses the running threads    *)
(* and the running pass: it is the failure of each.                        *)
(***************************************************************************)
EXTENDS Integers, Sequences, FiniteSets

CONSTANTS Events,        \* founding reports: incident_id is the event id
          Window,        \* ARCHIVE_AFTER_HOURS = PUBLIC_STATUS_RETIRE_AFTER_HOURS
          RecentWindow,  \* max_age_hours of reconcile_recent_incident_lifecycles
          MaxTime,       \* bound on the clock
          MaxPosts,      \* bound on the posts of a thread
          MaxReviews,    \* bound on approved reviews
          MaxFails       \* bound on passes that fail

ASSUME IncidentsAssumption ==
  /\ Window \in Nat \ {0}
  /\ RecentWindow \in Nat /\ RecentWindow >= Window
  /\ MaxTime \in Nat
  /\ MaxPosts \in Nat \ {0}
  /\ MaxReviews \in Nat
  /\ MaxFails \in Nat

Times == 0 .. MaxTime

\* What a post says: danger continues, the case is concluded, neither, or the
\* post carries no text of its own (a plain repost).
Notes == {"danger", "rescued", "unclear", "plain"}

Lifecycles == {"active", "needs_review", "resolved", "archived"}

\* lifecycle.in_(("active", "needs_review")): the rows reconcile looks at.
OpenLifecycles == {"active", "needs_review"}

\* A post of a thread and the time it was posted; 1 is the founding report.
Posts == [note : Notes, at : Times]

NoRow == [life |-> "absent", updated |-> 0]
Rows == [life : Lifecycles, updated : Times] \union {NoRow}

\* The subscriber thread of a post: none (not started, or ended), notified, or
\* holding the lifecycle it computed.
ThreadStates == Lifecycles \union {"none", "notified"}

VARIABLES
  now,        \* the clock
  posts,      \* the thread of each event, in order of arrival
  crossPost,  \* a later post of the same source reports the conclusion
  row,        \* HumanitarianIncidentDB, or NoRow
  thread,     \* thread[e][k]: the subscriber thread post k of e started
  pass,       \* the scheduler's reconcile job: the lifecycle it read of the
              \* candidates it still has to visit, and the one it will write
  reviews,    \* approved reviews so far
  fails       \* passes that failed so far

incidentVars == <<now, posts, crossPost, row, thread, pass, reviews, fails>>

Positions == 1 .. MaxPosts

TypeOK ==
  /\ now \in Times
  /\ posts \in [Events -> Seq(Posts)]
  /\ \A e \in Events : Len(posts[e]) \in Positions
  /\ crossPost \in [Events -> BOOLEAN]
  /\ row \in [Events -> Rows]
  /\ thread \in [Events -> [Positions -> ThreadStates]]
  /\ pass \in [running : BOOLEAN,
              was   : [Events -> Lifecycles \union {"none"}],
              write : [Events -> Lifecycles \union {"none"}]]
  /\ reviews \in 0 .. MaxReviews
  /\ fails \in 0 .. MaxFails

IdlePass == [running |-> FALSE,
             was   |-> [e \in Events |-> "none"],
             write |-> [e \in Events |-> "none"]]

Init ==
  /\ now = 0
  /\ posts \in [Events -> {<<[note |-> n, at |-> 0]>> : n \in Notes \ {"plain"}}]
  /\ crossPost = [e \in Events |-> FALSE]
  /\ row = [e \in Events |-> NoRow]
  /\ thread = [e \in Events |-> [k \in Positions |-> IF k = 1 THEN "notified" ELSE "none"]]
  /\ pass = IdlePass
  /\ reviews = 0
  /\ fails = 0

-----------------------------------------------------------------------------
(* The lifecycle rules *)

\* _outcome_from_text
Outcome(note) ==
  CASE note = "danger"  -> "active"
    [] note = "rescued" -> "resolved"
    [] OTHER            -> "none"

\* The textual replies, and the latest of them: replies are sorted by
\* posted_at and the sort is stable.
Replies(p) == {k \in 2 .. Len(p) : p[k].note # "plain"}

IsLatest(p, k) ==
  \A j \in Replies(p) : p[j].at < p[k].at \/ (p[j].at = p[k].at /\ j <= k)

LatestSays(p, outcome) ==
  \E k \in Replies(p) : IsLatest(p, k) /\ Outcome(p[k].note) = outcome

\* latest_own_reply_outcome
LatestOwnReplyOutcome(p) ==
  CASE Replies(p) = {}           -> "none"
    [] LatestSays(p, "active")   -> "active"
    [] LatestSays(p, "resolved") -> "resolved"
    [] OTHER                     -> "needs_review"

\* The window has passed since _latest_activity_time.
Silent(p) == \A k \in 1 .. Len(p) : now - p[k].at >= Window

\* Mutant: a reply that says the danger continues does not reopen the case.
IsDirectlyConcludedForGood(p) ==
  LatestOwnReplyOutcome(p) = "resolved" \/ Outcome(p[1].note) = "resolved"

\* is_directly_concluded
IsDirectlyConcluded(p) ==
  LET reply == LatestOwnReplyOutcome(p)
  IN  /\ reply # "active"
      /\ reply = "resolved" \/ Outcome(p[1].note) = "resolved"

\* is_within_live_window
IsWithinLiveWindow(p) == ~IsDirectlyConcluded(p) /\ ~Silent(p)

\* distress_lifecycle; signal is has_resolution_signal over the posts of the
\* same source the caller passed in.
DistressLifecycle(p, signal) ==
  LET original == Outcome(p[1].note)
      reply    == LatestOwnReplyOutcome(p)
      state    ==
        CASE reply \in {"active", "resolved"} -> reply
          [] reply = "needs_review" -> IF original = "resolved" THEN original ELSE reply
          [] OTHER -> IF signal THEN "resolved"
                      ELSE IF original = "none" THEN "active" ELSE original
  IN  IF state # "active" THEN state
      ELSE IF Silent(p) THEN "archived" ELSE "active"

-----------------------------------------------------------------------------
(* Posts *)

\* append_thread_repost: the reply is committed, then the subscribers are
\* notified on a thread of their own.  posted_at may lie in the past: a delayed
\* reply.
AppendThreadRepost(e, note, at) ==
  /\ Len(posts[e]) < MaxPosts
  /\ at \in posts[e][1].at .. now
  /\ posts' = [posts EXCEPT ![e] = Append(@, [note |-> note, at |-> at])]
  /\ thread' = [thread EXCEPT ![e][Len(posts[e]) + 1] = "notified"]
  /\ UNCHANGED <<now, crossPost, row, pass, reviews, fails>>

\* Another report of the same source says that the case is over.  It notifies
\* for its own event, not for this one.
ReportConclusionElsewhere(e) ==
  /\ ~crossPost[e]
  /\ crossPost' = [crossPost EXCEPT ![e] = TRUE]
  /\ UNCHANGED <<now, posts, row, thread, pass, reviews, fails>>

-----------------------------------------------------------------------------
(* The subscriber threads: _on_intel_event *)

\* The lifecycle is computed from the event as it is when the thread runs.  The
\* same-source posts are those of the bounded deque, which may have lost one.
ThreadCompute(e, k) ==
  /\ thread[e][k] = "notified"
  /\ \E signal \in {FALSE, crossPost[e]} :
       thread' = [thread EXCEPT ![e][k] = DistressLifecycle(posts[e], signal)]
  /\ UNCHANGED <<now, posts, crossPost, row, pass, reviews, fails>>

\* Mutant: the activity time of the row follows whatever was synced last.
SyncRowBackwards(r, life, at) == [life |-> life, updated |-> at]

\* sync_incident_for_event: upsert by event id; last_update_at never goes back.
SyncRow(r, life, at) ==
  [life |-> life,
   updated |-> IF r = NoRow \/ at >= r.updated THEN at ELSE r.updated]

\* The thread of a reply passes a copy of the event stamped with posted_at.
ThreadWrite(e, k) ==
  /\ thread[e][k] \in Lifecycles
  /\ row' = [row EXCEPT ![e] = SyncRow(@, thread[e][k], posts[e][k].at)]
  /\ thread' = [thread EXCEPT ![e][k] = "none"]
  /\ UNCHANGED <<now, posts, crossPost, pass, reviews, fails>>

\* An exception at any stage is logged and the update is dropped: as if the
\* thread had failed before it computed anything.
ThreadFail(e, k) ==
  /\ thread[e][k] = "notified"
  /\ thread' = [thread EXCEPT ![e][k] = "none"]
  /\ UNCHANGED <<now, posts, crossPost, row, pass, reviews, fails>>

-----------------------------------------------------------------------------
(* The scheduler job: _job_reconcile_humanitarian_incidents *)

\* Mutant: only active rows are candidates.
PassBeginActive ==
  /\ ~pass.running
  /\ pass' = [running |-> TRUE,
              was   |-> [e \in Events |->
                           IF row[e].life = "active" /\ now - row[e].updated <= RecentWindow
                             THEN row[e].life ELSE "none"],
              write |-> [e \in Events |-> "none"]]
  /\ UNCHANGED <<now, posts, crossPost, row, thread, reviews, fails>>

\* reconcile_recent_incident_lifecycles reads its candidates.
PassBegin ==
  /\ ~pass.running
  /\ pass' = [running |-> TRUE,
              was   |-> [e \in Events |->
                           IF row[e].life \in OpenLifecycles
                              /\ now - row[e].updated <= RecentWindow
                             THEN row[e].life ELSE "none"],
              write |-> [e \in Events |-> "none"]]
  /\ UNCHANGED <<now, posts, crossPost, row, thread, reviews, fails>>

\* One candidate is re-evaluated against the durable event.
PassCompute(e) ==
  /\ pass.was[e] # "none"
  /\ LET life == DistressLifecycle(posts[e], crossPost[e])
     IN  pass' = [pass EXCEPT !.was[e] = "none",
                              !.write[e] = IF life = pass.was[e] THEN "none" ELSE life]
  /\ UNCHANGED <<now, posts, crossPost, row, thread, reviews, fails>>

\* and synced, in a transaction of its own, with the founding timestamp.
PassWrite(e) ==
  /\ pass.write[e] # "none"
  /\ row' = [row EXCEPT ![e] = SyncRow(@, pass.write[e], posts[e][1].at)]
  /\ pass' = [pass EXCEPT !.write[e] = "none"]
  /\ UNCHANGED <<now, posts, crossPost, thread, reviews, fails>>

\* Mutant: silence is taken for the end of the case.
RetiredResolved(r) ==
  IF r.life = "active" /\ now - r.updated >= Window
    THEN [r EXCEPT !.life = "resolved"] ELSE r

\* Mutant: the window is never over.
RetiredLate(r) ==
  IF r.life = "active" /\ now - r.updated > Window + MaxTime
    THEN [r EXCEPT !.life = "archived"] ELSE r

\* reconcile_stale_incidents of one row: incident_status is active exactly when
\* the lifecycle is.
Retired(r) ==
  IF r.life = "active" /\ now - r.updated >= Window
    THEN [r EXCEPT !.life = "archived"] ELSE r

\* The job ends with it, when every candidate has been visited.
PassRetire ==
  /\ pass.running
  /\ \A e \in Events : pass.was[e] = "none" /\ pass.write[e] = "none"
  /\ row' = [e \in Events |-> Retired(row[e])]
  /\ pass' = IdlePass
  /\ UNCHANGED <<now, posts, crossPost, thread, reviews, fails>>

\* An exception anywhere ends the pass; the next one starts over.
PassFail ==
  /\ fails < MaxFails
  /\ pass.running
  /\ pass' = IdlePass
  /\ fails' = fails + 1
  /\ UNCHANGED <<now, posts, crossPost, row, thread, reviews>>

-----------------------------------------------------------------------------

\* apply_humanitarian_review of an approved transition.
ApplyReview(e, target) ==
  /\ reviews < MaxReviews
  /\ row[e] # NoRow
  /\ target \in {"active", "resolved", "needs_review"} \ {row[e].life}
  /\ row' = [row EXCEPT ![e].life = target]
  /\ reviews' = reviews + 1
  /\ UNCHANGED <<now, posts, crossPost, thread, pass, fails>>

Tick ==
  /\ now < MaxTime
  /\ now' = now + 1
  /\ UNCHANGED <<posts, crossPost, row, thread, pass, reviews, fails>>

Job ==
  \/ PassBegin
  \/ \E e \in Events : PassCompute(e) \/ PassWrite(e)
  \/ PassRetire

Next ==
  \/ \E e \in Events :
       \/ \E n \in Notes, t \in Times : AppendThreadRepost(e, n, t)
       \/ ReportConclusionElsewhere(e)
       \/ \E k \in Positions : ThreadCompute(e, k) \/ ThreadWrite(e, k) \/ ThreadFail(e, k)
       \/ \E l \in Lifecycles : ApplyReview(e, l)
  \/ Job
  \/ PassFail
  \/ Tick

Spec == Init /\ [][Next]_incidentVars

\* The job runs every 15 minutes and each of its transactions ends; passes do not
\* fail for ever; a started thread ends, whether it writes or fails.
Fairness ==
  /\ WF_incidentVars(Job)
  /\ \A e \in Events, k \in Positions :
       WF_incidentVars(ThreadCompute(e, k) \/ ThreadWrite(e, k) \/ ThreadFail(e, k))

FairSpec == Spec /\ Fairness

-----------------------------------------------------------------------------
(* Properties *)

\* Time alone never creates "resolved": a row is resolved, or about to be, only
\* when a post of the thread or of its source said so, or a reviewer did
\* (distress_lifecycle, reconcile_stale_incidents).
ResolvedHasEvidence ==
  \A e \in Events :
    \/ row[e].life = "resolved"
    \/ \E k \in Positions : thread[e][k] = "resolved"
    \/ pass.write[e] = "resolved"
    => \/ \E k \in 1 .. Len(posts[e]) : posts[e][k].note = "rescued"
       \/ crossPost[e]
       \/ reviews > 0

\* The two readings of one thread agree: what the incident row calls active is
\* shown in the live window, and what the live window takes for concluded the row
\* calls resolved (distress_lifecycle, is_within_live_window).
RulesAgree ==
  \A e \in Events, signal \in BOOLEAN :
    LET life == DistressLifecycle(posts[e], signal)
    IN  /\ life = "active" => IsWithinLiveWindow(posts[e])
        /\ IsDirectlyConcluded(posts[e]) => life = "resolved"

\* The timer shown to the public never goes back, in whatever order the threads
\* of the replies run (sync_incident_for_event, last_update_at).
UpdatedNeverGoesBack ==
  [][\A e \in Events : row[e].updated <= row'[e].updated]_incidentVars

\* A row is not left open once its own source reported the end: whatever
\* threads failed or wrote late, the job brings the row to a terminal state
\* unless the thread changes its mind, or the row has been silent for longer
\* than the job looks back (reconcile_recent_incident_lifecycles).
ConclusionReachesRow ==
  \A e \in Events :
    /\ row[e].life \in OpenLifecycles
    /\ DistressLifecycle(posts[e], crossPost[e]) = "resolved"
    ~> \/ row[e].life \notin OpenLifecycles
       \/ DistressLifecycle(posts[e], crossPost[e]) # "resolved"
       \/ now - row[e].updated > RecentWindow

\* An active row without news for a whole window is retired
\* (reconcile_stale_incidents).
SilenceRetires ==
  \A e \in Events :
    row[e].life = "active" /\ now - row[e].updated >= Window ~>
      row[e].life # "active" \/ now - row[e].updated < Window

\* Later evidence may revise a resolved incident: when the latest self-reply
\* says that the danger continues, and no reviewer intervened, the row does not
\* stay resolved.
LaterEvidenceRevises ==
  \A e \in Events :
    LatestOwnReplyOutcome(posts[e]) = "active" /\ row[e].life = "resolved" ~>
      \/ LatestOwnReplyOutcome(posts[e]) # "active"
      \/ row[e].life # "resolved"

=============================================================================
