-------------------------- MODULE IncidentsProofs --------------------------
(***************************************************************************)
(* Proofs about Incidents, for any events, windows, threads and clock: the *)
(* types, that no outcome appears without evidence, that the activity time *)
(* only grows and is that of a post, that nothing is archived early, and   *)
(* that the row and the live window read a thread alike.                   *)
(*                                                                         *)
(* The invariant adds to TypeOK and ResolvedHasEvidence, which also speaks *)
(* of the lifecycles the threads and the job hold and have not written     *)
(* yet, that every thread was started by a post of its event.  TimerInv    *)
(* ties the window the job measures on the row to the posts.               *)
(***************************************************************************)
EXTENDS Incidents, TLAPS

Outcomes == {"none", "active", "resolved", "needs_review"}

\* A post of the thread says that the case is over.
SaidSo(p) == \E k \in 1 .. Len(p) : p[k].note = "rescued"

-----------------------------------------------------------------------------
(* The lifecycle rules *)

LEMMA OutcomeType == \A n : Outcome(n) \in {"none", "active", "resolved"}
BY DEF Outcome

LEMMA OutcomeResolved == \A n : Outcome(n) = "resolved" => n = "rescued"
BY DEF Outcome

LEMMA ReplyType == \A p : LatestOwnReplyOutcome(p) \in Outcomes
BY DEF LatestOwnReplyOutcome, Outcomes

\* The latest reply concludes the case only by saying so.
LEMMA ReplyResolved ==
  ASSUME NEW p, Len(p) \in Nat, LatestOwnReplyOutcome(p) = "resolved"
  PROVE  SaidSo(p)
<1>1. LatestSays(p, "resolved")
  BY DEF LatestOwnReplyOutcome
<1>2. PICK k \in Replies(p) : Outcome(p[k].note) = "resolved"
  BY <1>1 DEF LatestSays
<1>3. p[k].note = "rescued"
  BY <1>2, OutcomeResolved
<1>4. k \in 1 .. Len(p)
  BY <1>2 DEF Replies
<1> QED BY <1>3, <1>4 DEF SaidSo

LEMMA LifecycleType == \A p, signal : DistressLifecycle(p, signal) \in Lifecycles
<1>1. TAKE p, signal
<1>2. Outcome(p[1].note) \in {"none", "active", "resolved"} /\ LatestOwnReplyOutcome(p) \in Outcomes
  BY OutcomeType, ReplyType
<1> QED BY <1>2 DEF DistressLifecycle, Lifecycles, Outcomes

\* A thread evaluates to resolved only on a post that says so or on the signal
\* of its source: silence never does it.
LEMMA LifecycleResolved ==
  ASSUME NEW p, Len(p) \in Nat, Len(p) >= 1, NEW signal \in BOOLEAN,
         DistressLifecycle(p, signal) = "resolved"
  PROVE  SaidSo(p) \/ signal
<1> DEFINE original == Outcome(p[1].note)
           reply == LatestOwnReplyOutcome(p)
<1>1. original \in {"none", "active", "resolved"} /\ reply \in Outcomes
  BY OutcomeType, ReplyType
<1>2. reply = "resolved" => SaidSo(p)
  BY ReplyResolved
<1>3. original = "resolved" => SaidSo(p)
  BY OutcomeResolved DEF SaidSo
<1>4. reply = "resolved" \/ original = "resolved" \/ signal
  <2> HIDE DEF original, reply
  <2>1. DistressLifecycle(p, signal) =
          LET state == CASE reply \in {"active", "resolved"} -> reply
                         [] reply = "needs_review" -> IF original = "resolved" THEN original ELSE reply
                         [] OTHER -> IF signal THEN "resolved"
                                     ELSE IF original = "none" THEN "active" ELSE original
          IN  IF state # "active" THEN state ELSE IF Silent(p) THEN "archived" ELSE "active"
    BY DEF DistressLifecycle, original, reply
  <2> QED BY <1>1, <2>1 DEF Outcomes
<1> QED BY <1>2, <1>3, <1>4

\* The two readings of one thread agree.
LEMMA ReadingsAgree ==
  ASSUME NEW p, NEW signal \in BOOLEAN
  PROVE  /\ DistressLifecycle(p, signal) = "active" => IsWithinLiveWindow(p)
         /\ IsDirectlyConcluded(p) => DistressLifecycle(p, signal) = "resolved"
<1>1. Outcome(p[1].note) \in {"none", "active", "resolved"} /\ LatestOwnReplyOutcome(p) \in Outcomes
  BY OutcomeType, ReplyType
<1> QED BY <1>1 DEF DistressLifecycle, IsWithinLiveWindow, IsDirectlyConcluded, Outcomes

-----------------------------------------------------------------------------
(* The inductive invariant *)

\* A thread that runs was started by a post.
Started == \A e \in Events, k \in Positions : thread[e][k] # "none" => k <= Len(posts[e])

IndInv == TypeOK /\ Started /\ ResolvedHasEvidence

\* What a sync leaves of a row.
LEMMA SyncRowType ==
  ASSUME NEW r \in Rows, NEW life \in Lifecycles, NEW at \in Times
  PROVE  /\ SyncRow(r, life, at) \in Rows
         /\ SyncRow(r, life, at).life = life
         /\ r.updated <= SyncRow(r, life, at).updated
BY IncidentsAssumption DEF SyncRow, Rows, NoRow, Times

LEMMA RetiredType ==
  ASSUME NEW r \in Rows
  PROVE  /\ Retired(r) \in Rows
         /\ Retired(r).life = "resolved" => r.life = "resolved"
         /\ Retired(r).updated = r.updated
BY DEF Retired, Rows, NoRow, Lifecycles

LEMMA Initially == Init => IndInv
<1>1. SUFFICES ASSUME Init PROVE IndInv
  OBVIOUS
<1>2. \A n \in Notes : [note |-> n, at |-> 0] \in Posts
  BY IncidentsAssumption DEF Posts, Times
<1>3. posts \in [Events -> Seq(Posts)] /\ \A e \in Events : Len(posts[e]) \in Positions
  <2>1. ASSUME NEW e \in Events
        PROVE  posts[e] \in Seq(Posts) /\ Len(posts[e]) = 1
    <3>1. PICK n \in Notes : posts[e] = <<[note |-> n, at |-> 0]>>
      BY <1>1 DEF Init
    <3> QED BY <1>2, <3>1
  <2>2. posts = [e \in Events |-> posts[e]]
    BY <1>1 DEF Init
  <2>3. 1 \in Positions
    BY IncidentsAssumption DEF Positions
  <2> QED BY <2>1, <2>2, <2>3
<1>4. thread \in [Events -> [Positions -> ThreadStates]]
  BY <1>1 DEF Init, ThreadStates
<1>5. pass \in [running : BOOLEAN,
               was   : [Events -> Lifecycles \union {"none"}],
               write : [Events -> Lifecycles \union {"none"}]]
  BY <1>1 DEF Init, IdlePass
<1>6. row \in [Events -> Rows]
  BY <1>1 DEF Init, Rows
<1>7. now \in Times /\ reviews \in 0 .. MaxReviews /\ fails \in 0 .. MaxFails
      /\ crossPost \in [Events -> BOOLEAN]
  BY <1>1, IncidentsAssumption DEF Init, Times
<1>8. ResolvedHasEvidence
  BY <1>1 DEF Init, IdlePass, NoRow, ResolvedHasEvidence, Positions
<1>9. Started
  BY <1>1, <1>3 DEF Init, Started, Positions
<1> QED BY <1>3, <1>4, <1>5, <1>6, <1>7, <1>8, <1>9 DEF TypeOK, IndInv

\* Every step keeps the types.
LEMMA TypeStep == TypeOK /\ Started /\ [Next]_incidentVars => TypeOK'
<1>1. SUFFICES ASSUME TypeOK, Started, [Next]_incidentVars PROVE TypeOK'
  OBVIOUS
<1>2. CASE UNCHANGED incidentVars
  BY <1>1, <1>2 DEF incidentVars, TypeOK
<1>3. ASSUME NEW e \in Events, NEW n \in Notes, NEW t \in Times, AppendThreadRepost(e, n, t)
      PROVE  TypeOK'
  <2>1. [note |-> n, at |-> t] \in Posts
    BY DEF Posts
  <2>2. posts[e] \in Seq(Posts) /\ Len(posts[e]) \in Positions /\ Len(posts[e]) < MaxPosts
    BY <1>1, <1>3 DEF AppendThreadRepost, TypeOK
  <2>3. Append(posts[e], [note |-> n, at |-> t]) \in Seq(Posts)
        /\ Len(Append(posts[e], [note |-> n, at |-> t])) = Len(posts[e]) + 1
    BY <2>1, <2>2
  <2>4. Len(posts[e]) + 1 \in Positions
    BY <2>2, IncidentsAssumption DEF Positions
  <2>5. posts' \in [Events -> Seq(Posts)] /\ \A f \in Events : Len(posts'[f]) \in Positions
    BY <1>1, <1>3, <2>3, <2>4 DEF AppendThreadRepost, TypeOK
  <2>6. thread' \in [Events -> [Positions -> ThreadStates]]
    BY <1>1, <1>3, <2>4 DEF AppendThreadRepost, TypeOK, ThreadStates
  <2> QED BY <1>1, <1>3, <2>5, <2>6 DEF AppendThreadRepost, TypeOK
<1>4. ASSUME NEW e \in Events, ReportConclusionElsewhere(e) PROVE TypeOK'
  BY <1>1, <1>4 DEF ReportConclusionElsewhere, TypeOK
<1>5. ASSUME NEW e \in Events, NEW k \in Positions, ThreadCompute(e, k) PROVE TypeOK'
  <2>1. thread' \in [Events -> [Positions -> ThreadStates]]
    BY <1>1, <1>5, LifecycleType DEF ThreadCompute, TypeOK, ThreadStates
  <2> QED BY <1>1, <1>5, <2>1 DEF ThreadCompute, TypeOK
<1>6. ASSUME NEW e \in Events, NEW k \in Positions, ThreadWrite(e, k) PROVE TypeOK'
  <2>1. thread' \in [Events -> [Positions -> ThreadStates]]
    BY <1>1, <1>6 DEF ThreadWrite, TypeOK, ThreadStates
  <2>2. k \in 1 .. Len(posts[e]) /\ posts[e] \in Seq(Posts)
    <3>1. thread[e][k] # "none"
      BY <1>6 DEF ThreadWrite, Lifecycles
    <3>2. k <= Len(posts[e]) /\ Len(posts[e]) \in Nat /\ posts[e] \in Seq(Posts)
      BY <1>1, <3>1 DEF Started, TypeOK
    <3> QED BY <3>2, IncidentsAssumption DEF Positions
  <2>3. posts[e][k].at \in Times
    <3>1. posts[e][k] \in Posts
      BY <2>2
    <3> QED BY <3>1 DEF Posts
  <2>4. row' \in [Events -> Rows]
    BY <1>1, <1>6, <2>3, SyncRowType DEF ThreadWrite, TypeOK
  <2> QED BY <1>1, <1>6, <2>1, <2>4 DEF ThreadWrite, TypeOK
<1>7. ASSUME NEW e \in Events, NEW k \in Positions, ThreadFail(e, k) PROVE TypeOK'
  <2>1. thread' \in [Events -> [Positions -> ThreadStates]]
    BY <1>1, <1>7 DEF ThreadFail, TypeOK, ThreadStates
  <2> QED BY <1>1, <1>7, <2>1 DEF ThreadFail, TypeOK
<1>8. ASSUME NEW e \in Events, NEW l \in Lifecycles, ApplyReview(e, l) PROVE TypeOK'
  <2>1. row' \in [Events -> Rows]
    BY <1>1, <1>8 DEF ApplyReview, TypeOK, Rows, Lifecycles
  <2>2. reviews' \in 0 .. MaxReviews
    BY <1>1, <1>8, IncidentsAssumption DEF ApplyReview, TypeOK
  <2> QED BY <1>1, <1>8, <2>1, <2>2 DEF ApplyReview, TypeOK
<1>9. CASE PassBegin
  <2>1. pass' \in [running : BOOLEAN, was : [Events -> Lifecycles \union {"none"}],
                  write : [Events -> Lifecycles \union {"none"}]]
    BY <1>1, <1>9 DEF PassBegin, OpenLifecycles, Lifecycles
  <2> QED BY <1>1, <1>9, <2>1 DEF PassBegin, TypeOK
<1>10. ASSUME NEW e \in Events, PassCompute(e) PROVE TypeOK'
  <2>1. pass' \in [running : BOOLEAN, was : [Events -> Lifecycles \union {"none"}],
                  write : [Events -> Lifecycles \union {"none"}]]
    <3> DEFINE life == DistressLifecycle(posts[e], crossPost[e])
    <3>1. life \in Lifecycles
      BY LifecycleType
    <3>2. pass' = [pass EXCEPT !.was[e] = "none",
                               !.write[e] = IF life = pass.was[e] THEN "none" ELSE life]
      BY <1>10 DEF PassCompute
    <3> HIDE DEF life
    <3> QED BY <1>1, <3>1, <3>2 DEF TypeOK
  <2> QED BY <1>1, <1>10, <2>1 DEF PassCompute, TypeOK
<1>11. ASSUME NEW e \in Events, PassWrite(e) PROVE TypeOK'
  <2>1. pass' \in [running : BOOLEAN, was : [Events -> Lifecycles \union {"none"}],
                  write : [Events -> Lifecycles \union {"none"}]]
    BY <1>1, <1>11 DEF PassWrite, TypeOK
  <2>2. 1 \in 1 .. Len(posts[e]) /\ posts[e] \in Seq(Posts)
    BY <1>1, IncidentsAssumption DEF TypeOK, Positions
  <2>3. posts[e][1].at \in Times
    <3>1. posts[e][1] \in Posts
      BY <2>2
    <3> QED BY <3>1 DEF Posts
  <2>4. pass.write[e] \in Lifecycles
    BY <1>1, <1>11 DEF PassWrite, TypeOK
  <2>5. row' \in [Events -> Rows]
    BY <1>1, <1>11, <2>3, <2>4, SyncRowType DEF PassWrite, TypeOK
  <2> QED BY <1>1, <1>11, <2>1, <2>5 DEF PassWrite, TypeOK
<1>12. IdlePass \in [running : BOOLEAN, was : [Events -> Lifecycles \union {"none"}],
                    write : [Events -> Lifecycles \union {"none"}]]
  BY DEF IdlePass
<1>13. CASE PassRetire
  <2>1. row' \in [Events -> Rows]
    BY <1>1, <1>13, RetiredType DEF PassRetire, TypeOK
  <2> QED BY <1>1, <1>12, <1>13, <2>1 DEF PassRetire, TypeOK
<1>14. CASE PassFail
  <2>1. fails' \in 0 .. MaxFails
    BY <1>1, <1>14, IncidentsAssumption DEF PassFail, TypeOK
  <2> QED BY <1>1, <1>12, <1>14, <2>1 DEF PassFail, TypeOK
<1>15. CASE Tick
  <2>1. now' \in Times
    BY <1>1, <1>15, IncidentsAssumption DEF Tick, TypeOK, Times
  <2> QED BY <1>1, <1>15, <2>1 DEF Tick, TypeOK
<1> QED BY <1>1, <1>2, <1>3, <1>4, <1>5, <1>6, <1>7, <1>8, <1>9, <1>10, <1>11, <1>13, <1>14, <1>15
           DEF Next, Job

\* Threads are started by posts only, and posts stay.
LEMMA StartedStep == TypeOK /\ Started /\ [Next]_incidentVars => Started'
<1>1. SUFFICES ASSUME TypeOK, Started, [Next]_incidentVars PROVE Started'
  OBVIOUS
<1>2. ASSUME NEW e \in Events, NEW n \in Notes, NEW t \in Times, AppendThreadRepost(e, n, t)
      PROVE  Started'
  <2>1. \A f \in Events : posts[f] \in Seq(Posts) /\ Len(posts[f]) \in Nat
    BY <1>1 DEF TypeOK
  <2>2. /\ Len(posts'[e]) = Len(posts[e]) + 1
        /\ \A f \in Events : Len(posts'[f]) >= Len(posts[f])
    BY <1>1, <1>2, <2>1 DEF AppendThreadRepost, TypeOK
  <2>3. \A f \in Events, k \in Positions :
          thread'[f][k] = thread[f][k] \/ (f = e /\ k = Len(posts[e]) + 1)
    BY <1>1, <1>2 DEF AppendThreadRepost, TypeOK
  <2>4. \A f \in Events : Len(posts'[f]) \in Nat
    <3>1. TypeOK'
      BY <1>1, TypeStep
    <3> QED BY <3>1 DEF TypeOK, Positions
  <2>5. \A k \in Positions : k \in Nat
    BY IncidentsAssumption DEF Positions
  <2> QED BY <1>1, <2>1, <2>2, <2>3, <2>4, <2>5 DEF Started
<1>3. ASSUME NEW e \in Events, NEW k \in Positions,
             ThreadCompute(e, k) \/ ThreadWrite(e, k) \/ ThreadFail(e, k)
      PROVE  Started'
  <2>1. thread[e][k] # "none" /\ posts' = posts
    BY <1>3 DEF ThreadCompute, ThreadWrite, ThreadFail, Lifecycles
  <2>2. \A f \in Events, j \in Positions : thread'[f][j] = thread[f][j] \/ (f = e /\ j = k)
    <3>1. PICK v : thread' = [thread EXCEPT ![e][k] = v]
      BY <1>3 DEF ThreadCompute, ThreadWrite, ThreadFail
    <3> QED BY <1>1, <3>1 DEF TypeOK
  <2> QED BY <1>1, <2>1, <2>2 DEF Started
<1>4. CASE UNCHANGED <<posts, thread>>
  BY <1>1, <1>4 DEF Started
<1> QED BY <1>1, <1>2, <1>3, <1>4
     DEF Next, Job, ReportConclusionElsewhere, ApplyReview, PassBegin, PassCompute, PassWrite,
         PassRetire, PassFail, Tick, incidentVars

-----------------------------------------------------------------------------
(* Evidence *)

Evidence(e) == SaidSo(posts[e]) \/ crossPost[e] \/ reviews > 0

\* The row, a thread or the job says resolved.
Claimed(e) ==
  \/ row[e].life = "resolved"
  \/ \E k \in Positions : thread[e][k] = "resolved"
  \/ pass.write[e] = "resolved"

LEMMA EvidenceForm == ResolvedHasEvidence <=> \A e \in Events : Claimed(e) => Evidence(e)
BY DEF ResolvedHasEvidence, Claimed, Evidence, SaidSo

\* Evidence is not lost.
LEMMA EvidenceKept ==
  ASSUME TypeOK, [Next]_incidentVars, NEW e \in Events, Evidence(e)
  PROVE  Evidence(e)'
<1>1. ASSUME NEW f \in Events, NEW n \in Notes, NEW t \in Times, AppendThreadRepost(f, n, t)
      PROVE  Evidence(e)'
  <2>1. posts[e] \in Seq(Posts) /\ posts'[e] \in {posts[e], Append(posts[e], [note |-> n, at |-> t])}
    BY <1>1 DEF AppendThreadRepost, TypeOK
  <2>2. \A k \in 1 .. Len(posts[e]) : k \in 1 .. Len(posts'[e]) /\ posts'[e][k] = posts[e][k]
    BY <2>1
  <2>3. SaidSo(posts[e]) => SaidSo(posts'[e])
    BY <2>2 DEF SaidSo
  <2> QED BY <1>1, <2>3 DEF AppendThreadRepost, Evidence
<1>2. ASSUME NEW f \in Events, ReportConclusionElsewhere(f) PROVE Evidence(e)'
  BY <1>2 DEF ReportConclusionElsewhere, Evidence, TypeOK
<1>3. ASSUME NEW f \in Events, NEW l \in Lifecycles, ApplyReview(f, l) PROVE Evidence(e)'
  BY <1>3, IncidentsAssumption DEF ApplyReview, Evidence, TypeOK
<1>4. CASE UNCHANGED <<posts, crossPost, reviews>>
  BY <1>4 DEF Evidence
<1> QED BY <1>1, <1>2, <1>3, <1>4
     DEF Next, Job, ThreadCompute, ThreadWrite, ThreadFail, PassBegin, PassCompute, PassWrite,
         PassRetire, PassFail, Tick, incidentVars

\* A lifecycle of resolved is computed on evidence only.
LEMMA ComputedOnEvidence ==
  ASSUME TypeOK, NEW e \in Events, NEW signal \in {FALSE, crossPost[e]},
         DistressLifecycle(posts[e], signal) = "resolved"
  PROVE  Evidence(e)
<1>1. Len(posts[e]) \in Nat /\ Len(posts[e]) >= 1
  <2>1. Len(posts[e]) \in Positions
    BY DEF TypeOK
  <2> QED BY <2>1, IncidentsAssumption DEF Positions
<1>2. signal \in BOOLEAN
  BY DEF TypeOK
<1>3. SaidSo(posts[e]) \/ signal
  BY <1>1, <1>2, LifecycleResolved
<1> QED BY <1>3 DEF Evidence

\* No step makes a claim without evidence.
LEMMA EvidenceStep == IndInv /\ [Next]_incidentVars => ResolvedHasEvidence'
<1>1. SUFFICES ASSUME IndInv, [Next]_incidentVars, NEW e \in Events, Claimed(e)'
               PROVE  Evidence(e)'
  BY DEF ResolvedHasEvidence, Claimed, Evidence, SaidSo
<1>2. TypeOK /\ Started /\ (Claimed(e) => Evidence(e))
  BY <1>1, EvidenceForm DEF IndInv
<1>3. Claimed(e) => Evidence(e)'
  BY <1>1, <1>2, EvidenceKept
<1>4. Evidence(e) => Evidence(e)'
  BY <1>1, <1>2, EvidenceKept
<1>5. ASSUME NEW f \in Events, NEW n \in Notes, NEW t \in Times, AppendThreadRepost(f, n, t)
      PROVE  Claimed(e)
  <2>1. \A k \in Positions : thread'[e][k] \in {thread[e][k], "notified"}
    BY <1>2, <1>5 DEF AppendThreadRepost, TypeOK
  <2> QED BY <1>1, <1>5, <2>1 DEF AppendThreadRepost, Claimed
<1>6. ASSUME NEW f \in Events, NEW k \in Positions, ThreadCompute(f, k) PROVE Evidence(e)'
  <2>1. PICK signal \in {FALSE, crossPost[f]} :
          thread' = [thread EXCEPT ![f][k] = DistressLifecycle(posts[f], signal)]
    BY <1>6 DEF ThreadCompute
  <2>2. CASE f = e /\ DistressLifecycle(posts[f], signal) = "resolved"
    BY <1>2, <1>4, <2>1, <2>2, ComputedOnEvidence
  <2>3. CASE ~(f = e /\ DistressLifecycle(posts[f], signal) = "resolved")
    <3>1. \A j \in Positions : thread'[e][j] = "resolved" => thread[e][j] = "resolved"
      BY <1>2, <2>1, <2>3 DEF TypeOK
    <3>2. Claimed(e)
      BY <1>1, <1>6, <3>1 DEF ThreadCompute, Claimed
    <3> QED BY <1>3, <3>2
  <2> QED BY <2>2, <2>3
<1>7. ASSUME NEW f \in Events, NEW k \in Positions, ThreadWrite(f, k) PROVE Claimed(e)
  <2>1. k \in 1 .. Len(posts[f]) /\ posts[f] \in Seq(Posts)
    <3>1. thread[f][k] # "none"
      BY <1>7 DEF ThreadWrite, Lifecycles
    <3>2. k <= Len(posts[f]) /\ Len(posts[f]) \in Nat /\ posts[f] \in Seq(Posts)
      BY <1>2, <3>1 DEF Started, TypeOK
    <3> QED BY <3>2, IncidentsAssumption DEF Positions
  <2>2. posts[f][k] \in Posts
    BY <2>1
  <2>3. posts[f][k].at \in Times
    BY <2>2 DEF Posts
  <2>4. row'[e].life = row[e].life \/ (f = e /\ row'[e].life = thread[e][k])
    BY <1>2, <1>7, <2>3, SyncRowType DEF ThreadWrite, TypeOK
  <2>5. \A j \in Positions : thread'[e][j] \in {thread[e][j], "none"}
    BY <1>2, <1>7 DEF ThreadWrite, TypeOK
  <2> QED BY <1>1, <1>7, <2>4, <2>5 DEF ThreadWrite, Claimed
<1>8. ASSUME NEW f \in Events, NEW k \in Positions, ThreadFail(f, k) PROVE Claimed(e)
  <2>1. \A j \in Positions : thread'[e][j] \in {thread[e][j], "none"}
    BY <1>2, <1>8 DEF ThreadFail, TypeOK
  <2> QED BY <1>1, <1>8, <2>1 DEF ThreadFail, Claimed
<1>9. ASSUME NEW f \in Events, NEW l \in Lifecycles, ApplyReview(f, l) PROVE Evidence(e)'
  BY <1>2, <1>9, IncidentsAssumption DEF ApplyReview, Evidence, TypeOK
<1>10. CASE PassBegin \/ PassFail
  <2>1. pass'.write = [f \in Events |-> "none"] /\ UNCHANGED <<row, thread>>
    BY <1>10 DEF PassBegin, PassFail, IdlePass
  <2>2. pass'.write[e] = "none"
    BY <2>1
  <2>3. Claimed(e)
    BY <1>1, <2>1, <2>2 DEF Claimed
  <2> QED BY <1>3, <2>3
<1>11. ASSUME NEW f \in Events, PassCompute(f) PROVE Evidence(e)'
  <2> DEFINE life == DistressLifecycle(posts[f], crossPost[f])
  <2>1. CASE f = e /\ life = "resolved"
    BY <1>2, <1>4, <2>1, ComputedOnEvidence
  <2>2. CASE ~(f = e /\ life = "resolved")
    <3> HIDE DEF life
    <3>1. pass' = [pass EXCEPT !.was[f] = "none",
                               !.write[f] = IF life = pass.was[f] THEN "none" ELSE life]
      BY <1>11 DEF PassCompute, life
    <3>2. pass'.write[e] = "resolved" => pass.write[e] = "resolved"
      BY <1>2, <2>2, <3>1 DEF TypeOK
    <3>3. Claimed(e)
      BY <1>1, <1>11, <3>2 DEF PassCompute, Claimed
    <3> QED BY <1>3, <3>3
  <2> QED BY <2>1, <2>2
<1>12. ASSUME NEW f \in Events, PassWrite(f) PROVE Claimed(e)
  <2>1. 1 \in 1 .. Len(posts[f]) /\ posts[f] \in Seq(Posts)
    BY <1>2, IncidentsAssumption DEF TypeOK, Positions
  <2>2. posts[f][1] \in Posts
    BY <2>1
  <2>3. posts[f][1].at \in Times /\ pass.write[f] \in Lifecycles
    BY <1>2, <1>12, <2>2 DEF Posts, PassWrite, TypeOK
  <2>4. row'[e].life = row[e].life \/ (f = e /\ row'[e].life = pass.write[e])
    BY <1>2, <1>12, <2>3, SyncRowType DEF PassWrite, TypeOK
  <2>5. pass'.write[e] \in {pass.write[e], "none"}
    BY <1>2, <1>12 DEF PassWrite, TypeOK
  <2> QED BY <1>1, <1>12, <2>4, <2>5 DEF PassWrite, Claimed
<1>13. CASE PassRetire
  <2>1. row'[e].life = "resolved" => row[e].life = "resolved"
    BY <1>2, <1>13, RetiredType DEF PassRetire, TypeOK
  <2> QED BY <1>1, <1>3, <1>13, <2>1 DEF PassRetire, IdlePass, Claimed
<1>14. CASE UNCHANGED <<row, thread, pass>>
  BY <1>1, <1>3, <1>14 DEF Claimed
<1> QED BY <1>1, <1>3, <1>5, <1>6, <1>7, <1>8, <1>9, <1>10, <1>11, <1>12, <1>13, <1>14
     DEF Next, Job, ReportConclusionElsewhere, Tick, incidentVars

-----------------------------------------------------------------------------
(* The timer and the window *)

PostedAt(e) == {posts[e][k].at : k \in 1 .. Len(posts[e])}

\* No post of a thread is older than its founding report or of the future.
PostTimes == \A e \in Events : \A t \in PostedAt(e) : posts[e][1].at <= t /\ t <= now

\* The activity time of a row is the time of a post.
TimerIsAPost == \A e \in Events : row[e] # NoRow => row[e].updated \in PostedAt(e)

\* The row, a thread or the job says archived.
Retires(e) ==
  \/ row[e].life = "archived"
  \/ \E k \in Positions : thread[e][k] = "archived"
  \/ pass.write[e] = "archived"

Waited(e) == now - posts[e][1].at >= Window

RetiredAfterWindow == \A e \in Events : Retires(e) => Waited(e)

TimerInv == PostTimes /\ TimerIsAPost /\ RetiredAfterWindow

\* A thread has its founding report, and its posts have times.
LEMMA ThreadFacts ==
  ASSUME TypeOK, NEW e \in Events
  PROVE  /\ posts[e] \in Seq(Posts) /\ Len(posts[e]) \in Nat \ {0} /\ 1 \in 1 .. Len(posts[e])
         /\ \A k \in 1 .. Len(posts[e]) : posts[e][k].at \in Times
         /\ PostedAt(e) \subseteq Times /\ posts[e][1].at \in PostedAt(e)
         /\ row[e] \in Rows /\ now \in Times
<1>1. posts[e] \in Seq(Posts) /\ Len(posts[e]) \in Nat \ {0}
  BY IncidentsAssumption DEF TypeOK, Positions
<1>2. \A k \in 1 .. Len(posts[e]) : posts[e][k] \in Posts
  BY <1>1
<1>3. \A k \in 1 .. Len(posts[e]) : posts[e][k].at \in Times
  BY <1>2 DEF Posts
<1>4. 1 \in 1 .. Len(posts[e])
  BY <1>1
<1>5. PostedAt(e) \subseteq Times /\ posts[e][1].at \in PostedAt(e)
  BY <1>3, <1>4 DEF PostedAt
<1> QED BY <1>1, <1>3, <1>4, <1>5 DEF TypeOK

\* Times are numbers.
LEMMA TimesAreNumbers == Times \subseteq Nat /\ Window \in Nat \ {0}
BY IncidentsAssumption DEF Times

\* Only silence archives.
LEMMA LifecycleArchived ==
  ASSUME NEW p, NEW signal, DistressLifecycle(p, signal) = "archived"
  PROVE  Silent(p)
<1> DEFINE original == Outcome(p[1].note)
           reply == LatestOwnReplyOutcome(p)
<1>1. original \in {"none", "active", "resolved"} /\ reply \in Outcomes
  BY OutcomeType, ReplyType
<1> DEFINE state ==
             CASE reply \in {"active", "resolved"} -> reply
               [] reply = "needs_review" -> IF original = "resolved" THEN original ELSE reply
               [] OTHER -> IF signal THEN "resolved"
                           ELSE IF original = "none" THEN "active" ELSE original
<1>2. DistressLifecycle(p, signal) =
        IF state # "active" THEN state ELSE IF Silent(p) THEN "archived" ELSE "active"
  BY DEF DistressLifecycle
<1> HIDE DEF original, reply
<1>3. state # "archived"
  BY <1>1 DEF Outcomes
<1> HIDE DEF state
<1> QED BY <1>2, <1>3

\* Silence of a thread is a window since its founding report.
LEMMA ComputedAfterWindow ==
  ASSUME TypeOK, NEW e \in Events, NEW signal, DistressLifecycle(posts[e], signal) = "archived"
  PROVE  Waited(e)
<1>1. Silent(posts[e])
  BY LifecycleArchived
<1>2. 1 \in 1 .. Len(posts[e])
  BY ThreadFacts
<1> QED BY <1>1, <1>2 DEF Silent, Waited

\* Threads grow at their end, and the clock goes on.
LEMMA ThreadsGrow ==
  ASSUME TypeOK, [Next]_incidentVars, NEW e \in Events
  PROVE  /\ PostedAt(e) \subseteq PostedAt(e)' /\ posts'[e][1] = posts[e][1]
         /\ now' \in Nat /\ now <= now'
         /\ \A t \in PostedAt(e)' : t \in PostedAt(e) \/ (t \in Times /\ posts[e][1].at <= t /\ t <= now)
<1>1. now \in Nat
  BY TimesAreNumbers DEF TypeOK
<1>2. ASSUME posts'[e] = posts[e]
      PROVE  /\ PostedAt(e)' = PostedAt(e) /\ posts'[e][1] = posts[e][1]
  BY <1>2 DEF PostedAt
<1>3. ASSUME NEW f \in Events, NEW n \in Notes, NEW t \in Times, AppendThreadRepost(f, n, t)
      PROVE  /\ PostedAt(e) \subseteq PostedAt(e)' /\ posts'[e][1] = posts[e][1] /\ now' = now
             /\ \A s \in PostedAt(e)' : s \in PostedAt(e) \/ (s \in Times /\ posts[e][1].at <= s /\ s <= now)
  <2>1. now' = now
    BY <1>3 DEF AppendThreadRepost
  <2>2. CASE f # e
    <3>1. posts'[e] = posts[e]
      BY <1>3, <2>2 DEF AppendThreadRepost, TypeOK
    <3> QED BY <1>2, <2>1, <3>1
  <2>3. CASE f = e
    <3> DEFINE p == [note |-> n, at |-> t]
    <3>1. posts'[e] = Append(posts[e], p) /\ posts[e][1].at <= t /\ t <= now
      <4>1. posts[e][1].at \in Nat
        BY ThreadFacts, TimesAreNumbers
      <4>2. t \in posts[e][1].at .. now /\ posts' = [posts EXCEPT ![e] = Append(@, p)]
        BY <1>3, <2>3 DEF AppendThreadRepost
      <4>3. posts[e][1].at <= t /\ t <= now
        BY <1>1, <4>1, <4>2
      <4> HIDE DEF p
      <4>4. posts'[e] = Append(posts[e], p)
        BY <4>2 DEF TypeOK
      <4> QED BY <4>3, <4>4
    <3>2. p.at = t
      OBVIOUS
    <3> HIDE DEF p
    <3>3. /\ Len(posts'[e]) = Len(posts[e]) + 1 /\ posts'[e][Len(posts[e]) + 1] = p
          /\ \A k \in 1 .. Len(posts[e]) : posts'[e][k] = posts[e][k]
          /\ 1 \in 1 .. Len(posts[e]) /\ Len(posts[e]) \in Nat
      BY <3>1, ThreadFacts
    <3>4. \A k \in 1 .. Len(posts'[e]) : k \in 1 .. Len(posts[e]) \/ k = Len(posts[e]) + 1
      BY <3>3
    <3>5. \A k \in 1 .. Len(posts[e]) : k \in 1 .. Len(posts'[e])
      BY <3>3
    <3>6. PostedAt(e) \subseteq PostedAt(e)'
      BY <3>3, <3>5 DEF PostedAt
    <3>7. \A s \in PostedAt(e)' : s \in PostedAt(e) \/ s = t
      BY <3>2, <3>3, <3>4 DEF PostedAt
    <3> QED BY <2>1, <3>1, <3>3, <3>6, <3>7
  <2> QED BY <2>2, <2>3
<1>4. CASE Tick
  BY <1>1, <1>2, <1>4 DEF Tick
<1>5. CASE UNCHANGED <<now, posts>>
  BY <1>1, <1>2, <1>5
<1>6. ASSUME NEW f \in Events, NEW k, NEW l,
             ThreadCompute(f, k) \/ ThreadWrite(f, k) \/ ThreadFail(f, k) \/ ApplyReview(f, l)
      PROVE  UNCHANGED <<now, posts>>
  BY <1>6 DEF ThreadCompute, ThreadWrite, ThreadFail, ApplyReview
<1>7. ASSUME NEW f \in Events, ReportConclusionElsewhere(f) \/ PassCompute(f) \/ PassWrite(f)
      PROVE  UNCHANGED <<now, posts>>
  BY <1>7 DEF ReportConclusionElsewhere, PassCompute, PassWrite
<1>8. CASE PassBegin \/ PassRetire \/ PassFail
  BY <1>5, <1>8 DEF PassBegin, PassRetire, PassFail
<1>9. CASE UNCHANGED incidentVars
  BY <1>5, <1>9 DEF incidentVars
<1> HIDE DEF PostedAt
<1>10. now' = now => now' \in Nat /\ now <= now'
  BY <1>1
<1> QED BY <1>1, <1>3, <1>4, <1>5, <1>6, <1>7, <1>8, <1>9, <1>10 DEF Next, Job

\* Posts are of their time.
LEMMA PostTimesStep == TypeOK /\ PostTimes /\ [Next]_incidentVars => PostTimes'
<1>1. SUFFICES ASSUME TypeOK, PostTimes, [Next]_incidentVars,
                      NEW e \in Events, NEW t \in PostedAt(e)'
               PROVE  posts'[e][1].at <= t /\ t <= now'
  BY DEF PostTimes
<1>2. posts'[e][1] = posts[e][1] /\ now' \in Nat /\ now <= now'
  BY <1>1, ThreadsGrow
<1>3. posts[e][1].at <= t /\ t <= now
  BY <1>1, ThreadsGrow DEF PostTimes
<1>4. t \in Nat /\ now \in Nat
  BY <1>1, ThreadsGrow, ThreadFacts, TimesAreNumbers
<1> QED BY <1>2, <1>3, <1>4

\* A sync writes the time it was given, or keeps the row's.
LEMMA SyncRowTime ==
  ASSUME NEW r, NEW life \in Lifecycles, NEW at
  PROVE  /\ SyncRow(r, life, at).life = life
         /\ SyncRow(r, life, at).updated = at
            \/ (r # NoRow /\ SyncRow(r, life, at).updated = r.updated)
BY DEF SyncRow

\* The post a thread was started by, and the founding one the job passes.
LEMMA WrittenTimes ==
  ASSUME TypeOK, Started, NEW e \in Events
  PROVE  /\ \A k \in Positions : thread[e][k] # "none" => posts[e][k].at \in PostedAt(e)
         /\ posts[e][1].at \in PostedAt(e)
<1>1. ASSUME NEW k \in Positions, thread[e][k] # "none" PROVE k \in 1 .. Len(posts[e])
  <2>1. k <= Len(posts[e]) /\ k \in Nat \ {0} /\ Len(posts[e]) \in Nat
    BY <1>1, ThreadFacts, IncidentsAssumption DEF Started, Positions
  <2> QED BY <2>1
<1> QED BY <1>1, ThreadFacts DEF PostedAt

\* The timer moves to the time of another post, or stays.
LEMMA TimerStep == TypeOK /\ Started /\ TimerIsAPost /\ [Next]_incidentVars => TimerIsAPost'
<1>1. SUFFICES ASSUME TypeOK, Started, TimerIsAPost, [Next]_incidentVars,
                      NEW e \in Events, row'[e] # NoRow
               PROVE  row'[e].updated \in PostedAt(e)
  BY ThreadsGrow DEF TimerIsAPost
<1>2. row[e] # NoRow => row[e].updated \in PostedAt(e)
  BY <1>1 DEF TimerIsAPost
<1>3. ASSUME NEW f \in Events, NEW k \in Positions, ThreadWrite(f, k)
      PROVE  row'[e].updated \in PostedAt(e)
  <2>1. CASE f # e
    <3>1. row'[e] = row[e]
      BY <1>1, <1>3, <2>1 DEF ThreadWrite, TypeOK
    <3> QED BY <1>1, <1>2, <3>1
  <2>2. CASE f = e
    <3>1. row'[e] = SyncRow(row[e], thread[e][k], posts[e][k].at) /\ thread[e][k] \in Lifecycles
      BY <1>1, <1>3, <2>2 DEF ThreadWrite, TypeOK
    <3>2. posts[e][k].at \in PostedAt(e)
      BY <1>1, <3>1, WrittenTimes DEF Lifecycles
    <3>3. \/ row'[e].updated = posts[e][k].at
          \/ row[e] # NoRow /\ row'[e].updated = row[e].updated
      BY <3>1 DEF SyncRow
    <3> QED BY <1>2, <3>2, <3>3
  <2> QED BY <2>1, <2>2
<1>4. ASSUME NEW f \in Events, PassWrite(f) PROVE row'[e].updated \in PostedAt(e)
  <2>1. CASE f # e
    <3>1. row'[e] = row[e]
      BY <1>1, <1>4, <2>1 DEF PassWrite, TypeOK
    <3> QED BY <1>1, <1>2, <3>1
  <2>2. CASE f = e
    <3>1. row'[e] = SyncRow(row[e], pass.write[e], posts[e][1].at) /\ pass.write[e] \in Lifecycles
      BY <1>1, <1>4, <2>2 DEF PassWrite, TypeOK
    <3>2. posts[e][1].at \in PostedAt(e)
      BY <1>1, WrittenTimes
    <3>3. \/ row'[e].updated = posts[e][1].at
          \/ row[e] # NoRow /\ row'[e].updated = row[e].updated
      BY <3>1 DEF SyncRow
    <3> QED BY <1>2, <3>2, <3>3
  <2> QED BY <2>1, <2>2
<1>5. CASE PassRetire
  <2>1. row'[e] = Retired(row[e]) /\ row[e] \in Rows
    BY <1>5, <1>1 DEF PassRetire, TypeOK
  <2>2. row[e] = NoRow => row'[e] = NoRow
    BY <2>1 DEF Retired, NoRow
  <2>3. row'[e].updated = row[e].updated
    BY <2>1, RetiredType
  <2> QED BY <1>1, <1>2, <2>2, <2>3
<1>6. ASSUME NEW f \in Events, NEW l \in Lifecycles, ApplyReview(f, l)
      PROVE  row'[e].updated \in PostedAt(e)
  <2>1. row'[e].updated = row[e].updated /\ (row'[e] = row[e] \/ row[e] # NoRow)
    BY <1>1, <1>6 DEF ApplyReview, TypeOK, Rows, NoRow
  <2> QED BY <1>1, <1>2, <2>1
<1>7. CASE UNCHANGED row
  BY <1>1, <1>2, <1>7
<1> QED BY <1>1, <1>3, <1>4, <1>5, <1>6, <1>7
     DEF Next, Job, AppendThreadRepost, ReportConclusionElsewhere, ThreadCompute, ThreadFail,
         PassBegin, PassCompute, PassFail, Tick, incidentVars

\* No step archives before the window is over.
LEMMA RetireStep ==
  TypeOK /\ Started /\ TimerInv /\ [Next]_incidentVars => RetiredAfterWindow'
<1>1. SUFFICES ASSUME TypeOK, Started, TimerInv, [Next]_incidentVars, NEW e \in Events, Retires(e)'
               PROVE  Waited(e)'
  BY DEF RetiredAfterWindow
<1>2. Retires(e) => Waited(e)
  BY <1>1 DEF TimerInv, RetiredAfterWindow
<1>3. Waited(e) => Waited(e)'
  <2>1. posts'[e][1] = posts[e][1] /\ now' \in Nat /\ now <= now'
    BY <1>1, ThreadsGrow
  <2>2. now \in Nat /\ posts[e][1].at \in Nat /\ Window \in Nat
    BY <1>1, ThreadFacts, TimesAreNumbers
  <2> QED BY <2>1, <2>2 DEF Waited
<1>4. ASSUME NEW f \in Events, NEW n \in Notes, NEW t \in Times, AppendThreadRepost(f, n, t)
      PROVE  Retires(e)
  <2>1. \A k \in Positions : thread'[e][k] \in {thread[e][k], "notified"}
    BY <1>1, <1>4 DEF AppendThreadRepost, TypeOK
  <2> QED BY <1>1, <1>4, <2>1 DEF AppendThreadRepost, Retires
<1>5. ASSUME NEW f \in Events, NEW k \in Positions, ThreadCompute(f, k) PROVE Waited(e)
  <2>1. PICK signal \in {FALSE, crossPost[f]} :
          thread' = [thread EXCEPT ![f][k] = DistressLifecycle(posts[f], signal)]
    BY <1>5 DEF ThreadCompute
  <2>2. CASE f = e /\ DistressLifecycle(posts[f], signal) = "archived"
    BY <1>1, <2>2, ComputedAfterWindow
  <2>3. CASE ~(f = e /\ DistressLifecycle(posts[f], signal) = "archived")
    <3>1. \A j \in Positions : thread'[e][j] = "archived" => thread[e][j] = "archived"
      BY <1>1, <2>1, <2>3 DEF TypeOK
    <3> QED BY <1>1, <1>2, <1>5, <3>1 DEF ThreadCompute, Retires
  <2> QED BY <2>2, <2>3
<1>6. ASSUME NEW f \in Events, NEW k \in Positions, ThreadWrite(f, k) PROVE Retires(e)
  <2>1. row'[e].life = row[e].life \/ (f = e /\ row'[e].life = thread[e][k])
    BY <1>1, <1>6, SyncRowTime DEF ThreadWrite, TypeOK
  <2>2. \A j \in Positions : thread'[e][j] \in {thread[e][j], "none"}
    BY <1>1, <1>6 DEF ThreadWrite, TypeOK
  <2> QED BY <1>1, <1>6, <2>1, <2>2 DEF ThreadWrite, Retires
<1>7. ASSUME NEW f \in Events, NEW k \in Positions, ThreadFail(f, k) PROVE Retires(e)
  <2>1. \A j \in Positions : thread'[e][j] \in {thread[e][j], "none"}
    BY <1>1, <1>7 DEF ThreadFail, TypeOK
  <2> QED BY <1>1, <1>7, <2>1 DEF ThreadFail, Retires
<1>8. CASE PassBegin \/ PassFail
  <2>1. pass'.write = [f \in Events |-> "none"] /\ UNCHANGED <<row, thread>>
    BY <1>8 DEF PassBegin, PassFail, IdlePass
  <2>2. Retires(e)
    BY <1>1, <2>1 DEF Retires
  <2> QED BY <1>2, <1>3, <2>2
<1>9. ASSUME NEW f \in Events, PassCompute(f) PROVE Waited(e)
  <2> DEFINE life == DistressLifecycle(posts[f], crossPost[f])
  <2>1. CASE f = e /\ life = "archived"
    BY <1>1, <2>1, ComputedAfterWindow
  <2>2. CASE ~(f = e /\ life = "archived")
    <3> HIDE DEF life
    <3>1. pass' = [pass EXCEPT !.was[f] = "none",
                               !.write[f] = IF life = pass.was[f] THEN "none" ELSE life]
      BY <1>9 DEF PassCompute, life
    <3>2. pass'.write[e] = "archived" => pass.write[e] = "archived"
      BY <1>1, <2>2, <3>1 DEF TypeOK
    <3> QED BY <1>1, <1>2, <1>9, <3>2 DEF PassCompute, Retires
  <2> QED BY <2>1, <2>2
<1>10. ASSUME NEW f \in Events, PassWrite(f) PROVE Retires(e)
  <2>1. pass.write[f] \in Lifecycles
    BY <1>1, <1>10 DEF PassWrite, TypeOK
  <2>2. row'[e].life = row[e].life \/ (f = e /\ row'[e].life = pass.write[e])
    BY <1>1, <1>10, <2>1, SyncRowTime DEF PassWrite, TypeOK
  <2>3. pass'.write[e] \in {pass.write[e], "none"}
    BY <1>1, <1>10 DEF PassWrite, TypeOK
  <2> QED BY <1>1, <1>10, <2>2, <2>3 DEF PassWrite, Retires
<1>11. CASE PassRetire
  <2>1. row'[e] = Retired(row[e]) /\ thread' = thread /\ pass'.write[e] = "none"
    BY <1>11 DEF PassRetire, IdlePass
  <2>2. CASE row[e].life = "active" /\ now - row[e].updated >= Window
    <3>1. row[e] # NoRow
      BY <2>2 DEF NoRow
    <3>2. row[e].updated \in PostedAt(e) /\ posts[e][1].at <= row[e].updated
      BY <1>1, <3>1 DEF TimerInv, TimerIsAPost, PostTimes
    <3>3. row[e].updated \in Nat /\ posts[e][1].at \in Nat /\ now \in Nat /\ Window \in Nat
      BY <1>1, <3>2, ThreadFacts, TimesAreNumbers
    <3>4. Waited(e)
      BY <2>2, <3>2, <3>3 DEF Waited
    <3> QED BY <1>3, <3>4
  <2>3. CASE ~(row[e].life = "active" /\ now - row[e].updated >= Window)
    <3>1. row'[e] = row[e]
      BY <2>1, <2>3 DEF Retired
    <3>2. Retires(e)
      BY <1>1, <2>1, <3>1 DEF Retires
    <3> QED BY <1>2, <1>3, <3>2
  <2> QED BY <2>2, <2>3
<1>12. ASSUME NEW f \in Events, NEW l \in Lifecycles, ApplyReview(f, l) PROVE Retires(e)
  <2>1. row'[e].life \in {row[e].life, "active", "resolved", "needs_review"}
    BY <1>1, <1>12 DEF ApplyReview, TypeOK, Rows, NoRow
  <2> QED BY <1>1, <1>12, <2>1 DEF ApplyReview, Retires
<1>13. CASE UNCHANGED <<row, thread, pass>>
  BY <1>1, <1>2, <1>3, <1>13 DEF Retires
<1> QED BY <1>1, <1>2, <1>3, <1>4, <1>5, <1>6, <1>7, <1>8, <1>9, <1>10, <1>11, <1>12, <1>13
     DEF Next, Job, ReportConclusionElsewhere, Tick, incidentVars

-----------------------------------------------------------------------------
(* The theorems *)

\* No step takes the activity time of a row back.
LEMMA UpdatedStep ==
  TypeOK /\ Started /\ [Next]_incidentVars =>
    \A e \in Events : row[e].updated <= row'[e].updated
<1>1. SUFFICES ASSUME TypeOK, Started, [Next]_incidentVars, NEW e \in Events
               PROVE  row[e].updated <= row'[e].updated
  OBVIOUS
<1>2. row[e] \in Rows /\ row[e].updated \in Int
  BY <1>1, IncidentsAssumption DEF TypeOK, Rows, NoRow, Times
<1>3. ASSUME NEW f \in Events, NEW k \in Positions, ThreadWrite(f, k)
      PROVE  row[e].updated <= row'[e].updated
  <2>1. k \in 1 .. Len(posts[f]) /\ posts[f] \in Seq(Posts)
    <3>1. thread[f][k] # "none"
      BY <1>3 DEF ThreadWrite, Lifecycles
    <3>2. k <= Len(posts[f]) /\ Len(posts[f]) \in Nat /\ posts[f] \in Seq(Posts)
      BY <1>1, <3>1 DEF Started, TypeOK
    <3> QED BY <3>2, IncidentsAssumption DEF Positions
  <2>2. posts[f][k] \in Posts
    BY <2>1
  <2>3. posts[f][k].at \in Times
    BY <2>2 DEF Posts
  <2> QED BY <1>1, <1>2, <1>3, <2>3, SyncRowType DEF ThreadWrite, TypeOK
<1>4. ASSUME NEW f \in Events, PassWrite(f) PROVE row[e].updated <= row'[e].updated
  <2>1. 1 \in 1 .. Len(posts[f]) /\ posts[f] \in Seq(Posts)
    BY <1>1, IncidentsAssumption DEF TypeOK, Positions
  <2>2. posts[f][1] \in Posts
    BY <2>1
  <2>3. posts[f][1].at \in Times /\ pass.write[f] \in Lifecycles
    BY <1>1, <1>4, <2>2 DEF Posts, PassWrite, TypeOK
  <2> QED BY <1>1, <1>2, <1>4, <2>3, SyncRowType DEF PassWrite, TypeOK
<1>5. CASE PassRetire
  BY <1>1, <1>2, <1>5, RetiredType DEF PassRetire
<1>6. ASSUME NEW f \in Events, NEW l \in Lifecycles, ApplyReview(f, l)
      PROVE  row[e].updated <= row'[e].updated
  <2>1. row'[e].updated = row[e].updated
    BY <1>1, <1>2, <1>6 DEF ApplyReview, TypeOK, Rows, NoRow
  <2> QED BY <1>2, <2>1
<1>7. CASE UNCHANGED row
  BY <1>2, <1>7
<1> QED BY <1>1, <1>3, <1>4, <1>5, <1>6, <1>7
     DEF Next, Job, AppendThreadRepost, ReportConclusionElsewhere, ThreadCompute, ThreadFail,
         PassBegin, PassCompute, PassFail, Tick, incidentVars

LEMMA Inductive == Spec => []IndInv
<1>1. IndInv /\ [Next]_incidentVars => IndInv'
  BY TypeStep, StartedStep, EvidenceStep DEF IndInv
<1> QED BY Initially, <1>1, PTL DEF Spec

\* The timer and the window, for ever.
LEMMA TimerInvariance == Spec => []TimerInv
<1>1. Init => TimerInv
  <2> SUFFICES ASSUME Init, NEW e \in Events
               PROVE  /\ \A t \in PostedAt(e) : posts[e][1].at <= t /\ t <= now
                      /\ row[e] = NoRow /\ ~Retires(e)
    BY DEF TimerInv, PostTimes, TimerIsAPost, RetiredAfterWindow
  <2>1. PICK n \in Notes : posts[e] = <<[note |-> n, at |-> 0]>>
    BY DEF Init
  <2>2. PostedAt(e) = {0} /\ posts[e][1].at = 0
    BY <2>1 DEF PostedAt
  <2>3. row[e] = NoRow /\ ~Retires(e)
    BY DEF Init, Retires, NoRow, IdlePass
  <2> QED BY <2>2, <2>3 DEF Init
<1>2. IndInv /\ TimerInv /\ [Next]_incidentVars => TimerInv'
  BY PostTimesStep, TimerStep, RetireStep DEF IndInv, TimerInv
<1> QED BY Inductive, <1>1, <1>2, PTL DEF Spec

\* The rows, the threads' and the job's held lifecycles and the posts keep their
\* types, whatever runs in which order.
THEOREM TypeCorrect == Spec => []TypeOK
<1>1. IndInv => TypeOK
  BY DEF IndInv
<1> QED BY Inductive, <1>1, PTL

\* No sequence of threads, passes, failures and silence makes a case resolved
\* that neither its source nor a reviewer concluded.
THEOREM ResolvedHasEvidenceHolds == Spec => []ResolvedHasEvidence
<1>1. IndInv => ResolvedHasEvidence
  BY DEF IndInv
<1> QED BY Inductive, <1>1, PTL

\* The incident row and the live window never read one thread in two ways
\* (distress_lifecycle, is_within_live_window, is_directly_concluded).
THEOREM RulesAgreeHolds == Spec => []RulesAgree
<1>1. RulesAgree
  BY ReadingsAgree DEF RulesAgree
<1> QED BY <1>1, PTL

\* The public timer of a row never goes back, in whatever order the subscriber
\* threads and the job write it (sync_incident_for_event).
THEOREM UpdatedNeverGoesBackHolds == Spec => UpdatedNeverGoesBack
<1>1. IndInv /\ [Next]_incidentVars =>
        [\A e \in Events : row[e].updated <= row'[e].updated]_incidentVars
  BY UpdatedStep DEF IndInv
<1> QED BY Inductive, <1>1, PTL DEF Spec, UpdatedNeverGoesBack

\* The public timer of a row is the time of a post of its thread: never of the
\* future, never older than the founding report, and never the time at which a
\* thread, the job or a reviewer happened to write (sync_incident_for_event).
THEOREM TimerIsAPostHolds == Spec => [](TimerIsAPost /\ PostTimes)
<1>1. TimerInv => TimerIsAPost /\ PostTimes
  BY DEF TimerInv
<1> QED BY TimerInvariance, <1>1, PTL

\* No incident is archived, nor about to be, before a whole window has passed
\* since its founding report, in whatever order the threads, the job and the
\* reviewers write (distress_lifecycle, reconcile_stale_incidents): the safety
\* half of SilenceRetires.
THEOREM NoEarlyRetirement == Spec => []RetiredAfterWindow
<1>1. TimerInv => RetiredAfterWindow
  BY DEF TimerInv
<1> QED BY TimerInvariance, <1>1, PTL

=============================================================================
