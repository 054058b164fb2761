------------------------ MODULE RadioFailoverProofs ------------------------
(***************************************************************************)
(* Proofs about RadioFailover, for any receivers, channels and number of   *)
(* replicas: the types, that no connection is forgotten, and that a        *)
(* channel never holds more connections than it has replicas.              *)
(*                                                                         *)
(* NoOrphan is not inductive: it needs that the list is exact until stop() *)
(* takes it, that what a pass has still to check can be stopped, and that  *)
(* nothing is open where the supervisor is about to connect.  The bound on *)
(* the connections is shown for the receivers that may have one (Claims),  *)
(* of which a promotion adds one only when the channel is short.           *)
(***************************************************************************)
EXTENDS RadioFailover, FiniteSetTheorems, WellFoundedInduction, TLAPS

Taken == stopping \in {"closing", "done"}

\* Until stop() takes the list, it is the list of the active receivers.
ListExact == ~Taken => \A r \in Receivers : r \in listed <=> state[r] = "active"

\* What the pass has still to check was on the list; the receiver that is being
\* reconnected is one of it.
TodoBacked ==
  /\ sup.at \in {"check", "restart", "connecting", "opened"} => sup.todo \subseteq Stoppable
  /\ sup.at \in {"restart", "connecting", "opened"} => sup.cur \in sup.todo

\* The receiver that is being promoted is a standby.
PromotedIsStandby == sup.at \in {"promoting", "promoted"} => state[sup.cur] = "standby"

\* Nothing is open where a connection is about to be opened.
NothingThere == sup.at \in {"restart", "connecting", "promoting"} => socket[sup.cur] = "none"

IndInv ==
  TypeOK /\ NoOrphan /\ ListExact /\ TodoBacked /\ PromotedIsStandby /\ NothingThere

\* The receivers of a channel that may have a connection: stop() closes them, or
\* one is being promoted.
Claims(c) ==
  {r \in Candidates(c) : r \in Stoppable \/ (sup.at \in {"promoting", "promoted"} /\ sup.cur = r)}

ClaimsBounded == \A c \in Channels : Cardinality(Claims(c)) <= Replicas

-----------------------------------------------------------------------------
(* The initial states *)

\* Every planned receiver was started and listed, or failed and was not.
LEMMA InitOK == Init => IndInv
<1>1. SUFFICES ASSUME Init PROVE IndInv
  OBVIOUS
<1>2. PICK failed \in SUBSET (UNION {Planned(c) : c \in Channels}) :
        LET up == (UNION {Planned(c) : c \in Channels}) \ failed
        IN  /\ state = [r \in Receivers |->
                          IF r \in up THEN "active"
                          ELSE IF r \in failed THEN "cooldown" ELSE "standby"]
            /\ listed = up
            /\ socket = [r \in Receivers |-> IF r \in up THEN "open" ELSE "none"]
            /\ connected = [r \in Receivers |-> r \in up]
            /\ halted = [r \in Receivers |-> r \in failed]
  BY <1>1 DEF Init
<1> DEFINE up == (UNION {Planned(c) : c \in Channels}) \ failed
<1>3. up \subseteq Receivers
  BY DEF Planned, Candidates
<1>4. /\ due = [r \in Receivers |-> FALSE]
      /\ used = [r \in Receivers |-> FALSE]
      /\ late = [r \in Receivers |-> FALSE]
      /\ quiet = [r \in Receivers |-> FALSE]
      /\ sup = [at |-> "wait", todo |-> {}, cur |-> 1, left |-> {}]
      /\ stopping = "running" /\ adapters = {} /\ toClose = {} /\ faults = 0
  BY <1>1 DEF Init
<1> HIDE DEF up
<1>5. /\ state = [r \in Receivers |->
                    IF r \in up THEN "active"
                    ELSE IF r \in failed THEN "cooldown" ELSE "standby"]
      /\ listed = up
      /\ socket = [r \in Receivers |-> IF r \in up THEN "open" ELSE "none"]
      /\ connected = [r \in Receivers |-> r \in up]
      /\ halted = [r \in Receivers |-> r \in failed]
  BY <1>2 DEF up
<1>6. TypeOK
  <2>1. state \in [Receivers -> {"standby", "active", "cooldown"}]
    BY <1>5
  <2>2. due \in [Receivers -> BOOLEAN] /\ used \in [Receivers -> BOOLEAN]
    BY <1>4
  <2>3. late \in [Receivers -> BOOLEAN] /\ quiet \in [Receivers -> BOOLEAN]
    BY <1>4
  <2>4. connected \in [Receivers -> BOOLEAN] /\ halted \in [Receivers -> BOOLEAN]
    BY <1>5
  <2>5. socket \in [Receivers -> {"none", "open", "dead"}]
    BY <1>5
  <2>6. sup \in [at : {"wait", "check", "fill", "exited"} \union Busy,
                 todo : SUBSET Receivers, cur : Receivers, left : SUBSET Channels]
    BY <1>4, RadioAssumption DEF Busy
  <2>7. QED
    BY <1>3, <1>4, <1>5, <2>1, <2>2, <2>3, <2>4, <2>5, <2>6, RadioAssumption DEF TypeOK
<1>7. NoOrphan /\ ListExact
  BY <1>3, <1>4, <1>5 DEF NoOrphan, ListExact, Stoppable, Taken
<1>8. TodoBacked /\ PromotedIsStandby /\ NothingThere
  BY <1>4 DEF TodoBacked, PromotedIsStandby, NothingThere
<1>9. QED
  BY <1>6, <1>7, <1>8 DEF IndInv

-----------------------------------------------------------------------------
(* The steps *)

\* The types of what the adapters own.
AdapterTypes ==
  /\ socket \in [Receivers -> {"none", "open", "dead"}]
  /\ connected \in [Receivers -> BOOLEAN]
  /\ halted \in [Receivers -> BOOLEAN]
  /\ late \in [Receivers -> BOOLEAN]
  /\ faults \in 0 .. MaxFaults

\* adapter.stop leaves nothing open and touches no other adapter.
LEMMA StopCloses ==
  ASSUME AdapterTypes, NEW r \in Receivers, StopAdapter(r)
  PROVE  /\ AdapterTypes'
         /\ socket' = [socket EXCEPT ![r] = "none"]
<1>1. socket' = [socket EXCEPT ![r] = "none"]
  BY DEF StopAdapter
<1>2. /\ connected' = [connected EXCEPT ![r] = FALSE]
      /\ halted' = [halted EXCEPT ![r] = TRUE]
  BY DEF StopAdapter
<1>3. late' \in [Receivers -> BOOLEAN]
  BY DEF StopAdapter, AdapterTypes
<1>4. faults' \in 0 .. MaxFaults
  BY RadioAssumption DEF StopAdapter, AdapterTypes
<1>5. connected' \in [Receivers -> BOOLEAN]
  BY <1>2 DEF AdapterTypes
<1>6. halted' \in [Receivers -> BOOLEAN]
  BY <1>2 DEF AdapterTypes
<1>7. socket' \in [Receivers -> {"none", "open", "dead"}]
  BY <1>1 DEF AdapterTypes
<1>8. QED
  BY <1>1, <1>3, <1>4, <1>5, <1>6, <1>7 DEF AdapterTypes

\* What the entries, the supervisor and stop() own.
RestTypes ==
  /\ state \in [Receivers -> {"standby", "active", "cooldown"}]
  /\ due \in [Receivers -> BOOLEAN]
  /\ used \in [Receivers -> BOOLEAN]
  /\ listed \subseteq Receivers
  /\ quiet \in [Receivers -> BOOLEAN]
  /\ sup \in [at : {"wait", "check", "fill", "exited"} \union Busy,
              todo : SUBSET Receivers, cur : Receivers, left : SUBSET Channels]
  /\ stopping \in {"running", "joining", "closing", "done"}
  /\ adapters \subseteq Receivers
  /\ toClose \subseteq adapters

LEMMA TypesSplit == /\ TypeOK <=> AdapterTypes /\ RestTypes
                    /\ TypeOK' <=> AdapterTypes' /\ RestTypes'
<1>1. TypeOK <=> AdapterTypes /\ RestTypes
  BY DEF TypeOK, AdapterTypes, RestTypes
<1>2. TypeOK' <=> AdapterTypes' /\ RestTypes'
  BY DEF TypeOK, AdapterTypes, RestTypes
<1>3. QED
  BY <1>1, <1>2

\* Every step keeps the types of the adapters.
LEMMA AdapterTypesStep ==
  ASSUME IndInv, [Next]_radioVars
  PROVE  AdapterTypes'
<1> USE TypesSplit DEF IndInv
<1>1. CASE \E r \in Receivers : LateReader(r)
  BY <1>1, RadioAssumption DEF LateReader, AdapterTypes, entryVars, adapterVars, stopVars
<1>2. CASE \E r \in Receivers : Drop(r)
  BY <1>2, RadioAssumption DEF Drop, AdapterTypes, entryVars, adapterVars, stopVars
<1>3. CASE \E r \in Receivers : Mute(r)
  BY <1>3, RadioAssumption DEF Mute, AdapterTypes, entryVars, adapterVars, stopVars
<1>4. CASE \E r \in Receivers : SilenceElapses(r)
  BY <1>4, RadioAssumption DEF SilenceElapses, AdapterTypes, entryVars, adapterVars, stopVars
<1>5. CASE \E r \in Receivers : OnFrame(r)
  BY <1>5, RadioAssumption DEF OnFrame, AdapterTypes, entryVars, adapterVars, stopVars
<1>6. CASE \E r \in Receivers : CooldownElapses(r)
  BY <1>6, RadioAssumption DEF CooldownElapses, AdapterTypes, entryVars, adapterVars, stopVars
<1>7. CASE PassBegin
  BY <1>7, RadioAssumption DEF PassBegin, Stopped, AdapterTypes, entryVars, adapterVars, stopVars
<1>8. CASE SupervisorExits
  BY <1>8, RadioAssumption DEF SupervisorExits, Stopped, AdapterTypes, entryVars, adapterVars, stopVars
<1>9. CASE \E r \in Receivers : CheckHealthy(r)
  BY <1>9, RadioAssumption DEF CheckHealthy, Checking, First, AdapterTypes, entryVars, adapterVars, stopVars
<1>10. CASE \E r \in Receivers : CheckStale(r)
  BY <1>10, StopCloses DEF CheckStale
<1>11. CASE \E r \in Receivers : CheckDown(r)
  BY <1>11, StopCloses DEF CheckDown
<1>12. CASE \E r \in Receivers : RestartBegins(r)
  BY <1>12, RadioAssumption DEF RestartBegins, ConnectBegins, AdapterTypes, entryVars, adapterVars, stopVars
<1>13. CASE \E r \in Receivers : RestartOpens(r)
  BY <1>13, RadioAssumption DEF RestartOpens, Opens, AdapterTypes, entryVars, adapterVars, stopVars
<1>14. CASE \E r \in Receivers : RestartRefused(r)
  BY <1>14, RadioAssumption DEF RestartRefused, FailAdapter, GiveUp, AdapterTypes, entryVars, adapterVars, stopVars
<1>15. CASE \E r \in Receivers : RestartCompletes(r)
  BY <1>15, RadioAssumption DEF RestartCompletes, Completes, AdapterTypes, entryVars, adapterVars, stopVars
<1>16. CASE \E r \in Receivers : RestartRaises(r)
  BY <1>16, StopCloses DEF RestartRaises
<1>17. CASE ChecksDone
  BY <1>17, RadioAssumption DEF ChecksDone, AdapterTypes, entryVars, adapterVars, stopVars
<1>18. CASE \E c \in Channels : ChannelDone(c)
  BY <1>18, RadioAssumption DEF ChannelDone, Filling, First, AdapterTypes, entryVars, adapterVars, stopVars
<1>19. CASE \E c \in Channels, r \in Receivers : PromotionBegins(c, r)
  BY <1>19, RadioAssumption DEF PromotionBegins, Filling, First, Stopped, Short, Standby, Preferred, Candidates, ConnectBegins, AdapterTypes, entryVars, adapterVars, stopVars
<1>20. CASE \E r \in Receivers : PromotionOpens(r)
  BY <1>20, RadioAssumption DEF PromotionOpens, Opens, AdapterTypes, entryVars, adapterVars, stopVars
<1>21. CASE \E r \in Receivers : PromotionRefused(r)
  BY <1>21, RadioAssumption DEF PromotionRefused, FailAdapter, CoolDown, AdapterTypes, entryVars, adapterVars, stopVars
<1>22. CASE \E r \in Receivers : PromotionRaises(r)
  BY <1>22, StopCloses DEF PromotionRaises
<1>23. CASE \E r \in Receivers : PromotionCompletes(r)
  BY <1>23, RadioAssumption DEF PromotionCompletes, Stopped, Completes, AdapterTypes, entryVars, adapterVars, stopVars
<1>24. CASE \E r \in Receivers : PromotionTooLate(r)
  BY <1>24, StopCloses DEF PromotionTooLate
<1>25. CASE PassEnds
  BY <1>25, RadioAssumption DEF PassEnds, AdapterTypes, entryVars, adapterVars, stopVars
<1>26. CASE Stop
  BY <1>26, RadioAssumption DEF Stop, AdapterTypes, entryVars, adapterVars, stopVars
<1>27. CASE TakeList
  BY <1>27, RadioAssumption DEF TakeList, AdapterTypes, entryVars, adapterVars, stopVars
<1>28. CASE \E r \in Receivers : CloseOne(r)
  BY <1>28, StopCloses DEF CloseOne
<1>29. CASE StopReturns
  BY <1>29, RadioAssumption DEF StopReturns, AdapterTypes, entryVars, adapterVars, stopVars
<1>30. CASE UNCHANGED radioVars
  BY <1>30, RadioAssumption DEF radioVars, AdapterTypes, entryVars, adapterVars, stopVars
<1> QED
  BY <1>1, <1>2, <1>3, <1>4, <1>5, <1>6, <1>7, <1>8, <1>9, <1>10, <1>11, <1>12, <1>13, <1>14, <1>15, <1>16, <1>17, <1>18, <1>19, <1>20, <1>21, <1>22, <1>23, <1>24, <1>25, <1>26, <1>27, <1>28, <1>29, <1>30
     DEF Next, Supervisor, Stopper, Environment

\* The supervisor has done with a receiver and goes on with the checks.
LEMMA CheckedOff ==
  ASSUME RestTypes, NEW r,
         sup' = [sup EXCEPT !.at = "check", !.todo = @ \ {r}]
  PROVE  sup' \in [at : {"wait", "check", "fill", "exited"} \union Busy,
                   todo : SUBSET Receivers, cur : Receivers, left : SUBSET Channels]
BY DEF RestTypes

\* Every step keeps the other types.
LEMMA RestTypesStep ==
  ASSUME IndInv, [Next]_radioVars
  PROVE  RestTypes'
<1> USE TypesSplit DEF IndInv
<1>1. CASE \E r \in Receivers : LateReader(r)
  BY <1>1 DEF LateReader, RestTypes, Busy, entryVars, adapterVars, stopVars
<1>2. CASE \E r \in Receivers : Drop(r)
  BY <1>2 DEF Drop, RestTypes, Busy, entryVars, adapterVars, stopVars
<1>3. CASE \E r \in Receivers : Mute(r)
  BY <1>3 DEF Mute, RestTypes, Busy, entryVars, adapterVars, stopVars
<1>4. CASE \E r \in Receivers : SilenceElapses(r)
  BY <1>4 DEF SilenceElapses, RestTypes, Busy, entryVars, adapterVars, stopVars
<1>5. CASE \E r \in Receivers : OnFrame(r)
  BY <1>5 DEF OnFrame, RestTypes, Busy, entryVars, adapterVars, stopVars
<1>6. CASE \E r \in Receivers : CooldownElapses(r)
  BY <1>6 DEF CooldownElapses, RestTypes, Busy, entryVars, adapterVars, stopVars
<1>7. CASE PassBegin
  BY <1>7 DEF PassBegin, Stopped, RestTypes, Busy, entryVars, adapterVars, stopVars
<1>8. CASE SupervisorExits
  BY <1>8 DEF SupervisorExits, Stopped, RestTypes, Busy, entryVars, adapterVars, stopVars
<1>9. CASE \E r \in Receivers : CheckHealthy(r)
  BY <1>9 DEF CheckHealthy, Checking, First, RestTypes, Busy, entryVars, adapterVars, stopVars
<1>10. CASE \E r \in Receivers : CheckStale(r)
  <2> PICK r \in Receivers : CheckStale(r)
    BY <1>10
  <2>1. sup' = [sup EXCEPT !.at = "check", !.todo = @ \ {r}]
    BY DEF CheckStale, GiveUp
  <2> QED
    BY <2>1, CheckedOff DEF CheckStale, Checking, First, GiveUp, RestTypes, entryVars, adapterVars, stopVars
<1>11. CASE \E r \in Receivers : CheckDown(r)
  BY <1>11 DEF CheckDown, Checking, First, RestTypes, Busy, entryVars, adapterVars, stopVars
<1>12. CASE \E r \in Receivers : RestartBegins(r)
  BY <1>12 DEF RestartBegins, ConnectBegins, RestTypes, Busy, entryVars, adapterVars, stopVars
<1>13. CASE \E r \in Receivers : RestartOpens(r)
  BY <1>13 DEF RestartOpens, Opens, RestTypes, Busy, entryVars, adapterVars, stopVars
<1>14. CASE \E r \in Receivers : RestartRefused(r)
  <2> PICK r \in Receivers : RestartRefused(r)
    BY <1>14
  <2>1. sup' = [sup EXCEPT !.at = "check", !.todo = @ \ {r}]
    BY DEF RestartRefused, GiveUp
  <2> QED
    BY <2>1, CheckedOff DEF RestartRefused, FailAdapter, GiveUp, RestTypes, entryVars, adapterVars, stopVars
<1>15. CASE \E r \in Receivers : RestartCompletes(r)
  <2> PICK r \in Receivers : RestartCompletes(r)
    BY <1>15
  <2>1. sup' = [sup EXCEPT !.at = "check", !.todo = @ \ {r}]
    BY DEF RestartCompletes, GiveUp
  <2> QED
    BY <2>1, CheckedOff DEF RestartCompletes, Completes, RestTypes, entryVars, adapterVars, stopVars
<1>16. CASE \E r \in Receivers : RestartRaises(r)
  <2> PICK r \in Receivers : RestartRaises(r)
    BY <1>16
  <2>1. sup' = [sup EXCEPT !.at = "check", !.todo = @ \ {r}]
    BY DEF RestartRaises, GiveUp
  <2>2. UNCHANGED <<quiet, stopping, adapters, toClose>>
    BY DEF RestartRaises, GiveUp, stopVars
  <2>3. /\ state' = [state EXCEPT ![r] = "cooldown"]
        /\ due' = [due EXCEPT ![r] = FALSE]
        /\ used' = [used EXCEPT ![r] = TRUE]
        /\ listed' = listed \ {r}
    BY DEF RestartRaises, GiveUp
  <2>4. /\ state' \in [Receivers -> {"standby", "active", "cooldown"}]
        /\ due' \in [Receivers -> BOOLEAN] /\ used' \in [Receivers -> BOOLEAN]
        /\ listed' \subseteq Receivers
    BY <2>3 DEF RestTypes
  <2>5. sup' \in [at : {"wait", "check", "fill", "exited"} \union Busy,
                 todo : SUBSET Receivers, cur : Receivers, left : SUBSET Channels]
    BY <2>1, CheckedOff
  <2> QED
    BY <2>2, <2>4, <2>5 DEF RestTypes
<1>17. CASE ChecksDone
  BY <1>17 DEF ChecksDone, RestTypes, Busy, entryVars, adapterVars, stopVars
<1>18. CASE \E c \in Channels : ChannelDone(c)
  BY <1>18 DEF ChannelDone, Filling, First, RestTypes, Busy, entryVars, adapterVars, stopVars
<1>19. CASE \E c \in Channels, r \in Receivers : PromotionBegins(c, r)
  <2> PICK c \in Channels, r \in Receivers : PromotionBegins(c, r)
    BY <1>19
  <2>1. /\ sup' = [sup EXCEPT !.at = "promoting", !.cur = r]
        /\ UNCHANGED <<state, due, used, listed, quiet, stopping, adapters, toClose>>
    BY DEF PromotionBegins, entryVars, stopVars
  <2> QED
    BY <2>1 DEF RestTypes, Busy
<1>20. CASE \E r \in Receivers : PromotionOpens(r)
  BY <1>20 DEF PromotionOpens, Opens, RestTypes, Busy, entryVars, adapterVars, stopVars
<1>21. CASE \E r \in Receivers : PromotionRefused(r)
  BY <1>21 DEF PromotionRefused, FailAdapter, CoolDown, RestTypes, Busy, entryVars, adapterVars, stopVars
<1>22. CASE \E r \in Receivers : PromotionRaises(r)
  BY <1>22 DEF PromotionRaises, CoolDown, RestTypes, Busy, entryVars, adapterVars, stopVars
<1>23. CASE \E r \in Receivers : PromotionCompletes(r)
  BY <1>23 DEF PromotionCompletes, Stopped, Completes, RestTypes, Busy, entryVars, adapterVars, stopVars
<1>24. CASE \E r \in Receivers : PromotionTooLate(r)
  BY <1>24 DEF PromotionTooLate, RestTypes, Busy, entryVars, adapterVars, stopVars
<1>25. CASE PassEnds
  BY <1>25 DEF PassEnds, RestTypes, Busy, entryVars, adapterVars, stopVars
<1>26. CASE Stop
  BY <1>26 DEF Stop, RestTypes, Busy, entryVars, adapterVars, stopVars
<1>27. CASE TakeList
  BY <1>27 DEF TakeList, RestTypes, Busy, entryVars, adapterVars, stopVars
<1>28. CASE \E r \in Receivers : CloseOne(r)
  BY <1>28 DEF CloseOne, RestTypes, Busy, entryVars, adapterVars, stopVars
<1>29. CASE StopReturns
  BY <1>29 DEF StopReturns, RestTypes, Busy, entryVars, adapterVars, stopVars
<1>30. CASE UNCHANGED radioVars
  BY <1>30 DEF radioVars, RestTypes, Busy, entryVars, adapterVars, stopVars
<1> QED
  BY <1>1, <1>2, <1>3, <1>4, <1>5, <1>6, <1>7, <1>8, <1>9, <1>10, <1>11, <1>12, <1>13, <1>14, <1>15, <1>16, <1>17, <1>18, <1>19, <1>20, <1>21, <1>22, <1>23, <1>24, <1>25, <1>26, <1>27, <1>28, <1>29, <1>30
     DEF Next, Supervisor, Stopper, Environment

\* Every step keeps NoOrphan and what it rests on.
LEMMA NoOrphanStep ==
  ASSUME IndInv, [Next]_radioVars
  PROVE  /\ NoOrphan' /\ ListExact' /\ TodoBacked'
         /\ PromotedIsStandby' /\ NothingThere'
<1> USE TypesSplit DEF IndInv
<1>1. CASE \E r \in Receivers : LateReader(r)
  BY <1>1 DEF LateReader, AdapterTypes, RestTypes, Busy, entryVars, adapterVars, stopVars,
     NoOrphan, ListExact, TodoBacked, PromotedIsStandby, NothingThere,
     Stoppable, Held, Taken
<1>2. CASE \E r \in Receivers : Drop(r)
  BY <1>2 DEF Drop, AdapterTypes, RestTypes, Busy, entryVars, adapterVars, stopVars,
     NoOrphan, ListExact, TodoBacked, PromotedIsStandby, NothingThere,
     Stoppable, Held, Taken
<1>3. CASE \E r \in Receivers : Mute(r)
  BY <1>3 DEF Mute, AdapterTypes, RestTypes, Busy, entryVars, adapterVars, stopVars,
     NoOrphan, ListExact, TodoBacked, PromotedIsStandby, NothingThere,
     Stoppable, Held, Taken
<1>4. CASE \E r \in Receivers : SilenceElapses(r)
  BY <1>4 DEF SilenceElapses, AdapterTypes, RestTypes, Busy, entryVars, adapterVars, stopVars,
     NoOrphan, ListExact, TodoBacked, PromotedIsStandby, NothingThere,
     Stoppable, Held, Taken
<1>5. CASE \E r \in Receivers : OnFrame(r)
  BY <1>5 DEF OnFrame, AdapterTypes, RestTypes, Busy, entryVars, adapterVars, stopVars,
     NoOrphan, ListExact, TodoBacked, PromotedIsStandby, NothingThere,
     Stoppable, Held, Taken
<1>6. CASE \E r \in Receivers : CooldownElapses(r)
  BY <1>6 DEF CooldownElapses, AdapterTypes, RestTypes, Busy, entryVars, adapterVars, stopVars,
     NoOrphan, ListExact, TodoBacked, PromotedIsStandby, NothingThere,
     Stoppable, Held, Taken
<1>7. CASE PassBegin
  BY <1>7 DEF PassBegin, Stopped, AdapterTypes, RestTypes, Busy, entryVars, adapterVars, stopVars,
     NoOrphan, ListExact, TodoBacked, PromotedIsStandby, NothingThere,
     Stoppable, Held, Taken
<1>8. CASE SupervisorExits
  BY <1>8 DEF SupervisorExits, Stopped, AdapterTypes, RestTypes, Busy, entryVars, adapterVars, stopVars,
     NoOrphan, ListExact, TodoBacked, PromotedIsStandby, NothingThere,
     Stoppable, Held, Taken
<1>9. CASE \E r \in Receivers : CheckHealthy(r)
  BY <1>9 DEF CheckHealthy, Checking, First, AdapterTypes, RestTypes, Busy, entryVars, adapterVars, stopVars,
     NoOrphan, ListExact, TodoBacked, PromotedIsStandby, NothingThere,
     Stoppable, Held, Taken
<1>10. CASE \E r \in Receivers : CheckStale(r)
  BY <1>10, StopCloses DEF CheckStale, Checking, First, GiveUp, AdapterTypes, RestTypes, Busy, entryVars, adapterVars, stopVars,
     NoOrphan, ListExact, TodoBacked, PromotedIsStandby, NothingThere,
     Stoppable, Held, Taken
<1>11. CASE \E r \in Receivers : CheckDown(r)
  BY <1>11, StopCloses DEF CheckDown, Checking, First, AdapterTypes, RestTypes, Busy, entryVars, adapterVars, stopVars,
     NoOrphan, ListExact, TodoBacked, PromotedIsStandby, NothingThere,
     Stoppable, Held, Taken
<1>12. CASE \E r \in Receivers : RestartBegins(r)
  BY <1>12 DEF RestartBegins, ConnectBegins, AdapterTypes, RestTypes, Busy, entryVars, adapterVars, stopVars,
     NoOrphan, ListExact, TodoBacked, PromotedIsStandby, NothingThere,
     Stoppable, Held, Taken
<1>13. CASE \E r \in Receivers : RestartOpens(r)
  BY <1>13 DEF RestartOpens, Opens, AdapterTypes, RestTypes, Busy, entryVars, adapterVars, stopVars,
     NoOrphan, ListExact, TodoBacked, PromotedIsStandby, NothingThere,
     Stoppable, Held, Taken
<1>14. CASE \E r \in Receivers : RestartRefused(r)
  BY <1>14 DEF RestartRefused, FailAdapter, GiveUp, AdapterTypes, RestTypes, Busy, entryVars, adapterVars, stopVars,
     NoOrphan, ListExact, TodoBacked, PromotedIsStandby, NothingThere,
     Stoppable, Held, Taken
<1>15. CASE \E r \in Receivers : RestartCompletes(r)
  BY <1>15 DEF RestartCompletes, Completes, AdapterTypes, RestTypes, Busy, entryVars, adapterVars, stopVars,
     NoOrphan, ListExact, TodoBacked, PromotedIsStandby, NothingThere,
     Stoppable, Held, Taken
<1>16. CASE \E r \in Receivers : RestartRaises(r)
  BY <1>16, StopCloses DEF RestartRaises, GiveUp, AdapterTypes, RestTypes, Busy, entryVars, adapterVars, stopVars,
     NoOrphan, ListExact, TodoBacked, PromotedIsStandby, NothingThere,
     Stoppable, Held, Taken
<1>17. CASE ChecksDone
  BY <1>17 DEF ChecksDone, AdapterTypes, RestTypes, Busy, entryVars, adapterVars, stopVars,
     NoOrphan, ListExact, TodoBacked, PromotedIsStandby, NothingThere,
     Stoppable, Held, Taken
<1>18. CASE \E c \in Channels : ChannelDone(c)
  BY <1>18 DEF ChannelDone, Filling, First, AdapterTypes, RestTypes, Busy, entryVars, adapterVars, stopVars,
     NoOrphan, ListExact, TodoBacked, PromotedIsStandby, NothingThere,
     Stoppable, Held, Taken
<1>19. CASE \E c \in Channels, r \in Receivers : PromotionBegins(c, r)
  BY <1>19 DEF PromotionBegins, Filling, First, Stopped, Short, Standby, Preferred, Candidates, ConnectBegins, AdapterTypes, RestTypes, Busy, entryVars, adapterVars, stopVars,
     NoOrphan, ListExact, TodoBacked, PromotedIsStandby, NothingThere,
     Stoppable, Held, Taken
<1>20. CASE \E r \in Receivers : PromotionOpens(r)
  BY <1>20 DEF PromotionOpens, Opens, AdapterTypes, RestTypes, Busy, entryVars, adapterVars, stopVars,
     NoOrphan, ListExact, TodoBacked, PromotedIsStandby, NothingThere,
     Stoppable, Held, Taken
<1>21. CASE \E r \in Receivers : PromotionRefused(r)
  BY <1>21 DEF PromotionRefused, FailAdapter, CoolDown, AdapterTypes, RestTypes, Busy, entryVars, adapterVars, stopVars,
     NoOrphan, ListExact, TodoBacked, PromotedIsStandby, NothingThere,
     Stoppable, Held, Taken
<1>22. CASE \E r \in Receivers : PromotionRaises(r)
  BY <1>22, StopCloses DEF PromotionRaises, CoolDown, AdapterTypes, RestTypes, Busy, entryVars, adapterVars, stopVars,
     NoOrphan, ListExact, TodoBacked, PromotedIsStandby, NothingThere,
     Stoppable, Held, Taken
<1>23. CASE \E r \in Receivers : PromotionCompletes(r)
  BY <1>23 DEF PromotionCompletes, Stopped, Completes, AdapterTypes, RestTypes, Busy, entryVars, adapterVars, stopVars,
     NoOrphan, ListExact, TodoBacked, PromotedIsStandby, NothingThere,
     Stoppable, Held, Taken
<1>24. CASE \E r \in Receivers : PromotionTooLate(r)
  BY <1>24, StopCloses DEF PromotionTooLate, AdapterTypes, RestTypes, Busy, entryVars, adapterVars, stopVars,
     NoOrphan, ListExact, TodoBacked, PromotedIsStandby, NothingThere,
     Stoppable, Held, Taken
<1>25. CASE PassEnds
  BY <1>25 DEF PassEnds, AdapterTypes, RestTypes, Busy, entryVars, adapterVars, stopVars,
     NoOrphan, ListExact, TodoBacked, PromotedIsStandby, NothingThere,
     Stoppable, Held, Taken
<1>26. CASE Stop
  BY <1>26 DEF Stop, AdapterTypes, RestTypes, Busy, entryVars, adapterVars, stopVars,
     NoOrphan, ListExact, TodoBacked, PromotedIsStandby, NothingThere,
     Stoppable, Held, Taken
<1>27. CASE TakeList
  BY <1>27 DEF TakeList, AdapterTypes, RestTypes, Busy, entryVars, adapterVars, stopVars,
     NoOrphan, ListExact, TodoBacked, PromotedIsStandby, NothingThere,
     Stoppable, Held, Taken
<1>28. CASE \E r \in Receivers : CloseOne(r)
  BY <1>28, StopCloses DEF CloseOne, AdapterTypes, RestTypes, Busy, entryVars, adapterVars, stopVars,
     NoOrphan, ListExact, TodoBacked, PromotedIsStandby, NothingThere,
     Stoppable, Held, Taken
<1>29. CASE StopReturns
  BY <1>29 DEF StopReturns, AdapterTypes, RestTypes, Busy, entryVars, adapterVars, stopVars,
     NoOrphan, ListExact, TodoBacked, PromotedIsStandby, NothingThere,
     Stoppable, Held, Taken
<1>30. CASE UNCHANGED radioVars
  BY <1>30 DEF radioVars, AdapterTypes, RestTypes, Busy, entryVars, adapterVars, stopVars,
     NoOrphan, ListExact, TodoBacked, PromotedIsStandby, NothingThere,
     Stoppable, Held, Taken
<1> QED
  BY <1>1, <1>2, <1>3, <1>4, <1>5, <1>6, <1>7, <1>8, <1>9, <1>10, <1>11, <1>12, <1>13, <1>14, <1>15, <1>16, <1>17, <1>18, <1>19, <1>20, <1>21, <1>22, <1>23, <1>24, <1>25, <1>26, <1>27, <1>28, <1>29, <1>30
     DEF Next, Supervisor, Stopper, Environment

-----------------------------------------------------------------------------
(* The connections of a channel *)

\* A bounded set of natural numbers has a largest element.
LEMMA HasLargest ==
  ASSUME NEW n \in Nat, NEW S \in SUBSET (1 .. n), S # {}
  PROVE  \E m \in S : \A s \in S : s <= m
<1> DEFINE T == {n - s : s \in S}
<1>1. T \subseteq Nat
  <2> SUFFICES ASSUME NEW s \in S PROVE n - s \in Nat
    OBVIOUS
  <2> QED BY s \in 1 .. n
<1>2. T # {}
  OBVIOUS
<1>3. PICK x \in T : \A y \in T : ~(<<y, x>> \in OpToRel(<, Nat))
  BY <1>1, <1>2, NatLessThanWellFounded, WFMin
<1>4. \A y \in T : x <= y
  <2> SUFFICES ASSUME NEW y \in T, ~(x <= y) PROVE FALSE
    OBVIOUS
  <2>1. x \in Nat /\ y \in Nat /\ y < x
    BY <1>1
  <2>2. <<y, x>> \in OpToRel(<, Nat)
    BY <2>1 DEF OpToRel
  <2> QED BY <1>3, <2>2
<1>5. PICK m \in S : x = n - m
  OBVIOUS
<1>6. \A s \in S : n - m <= n - s
  BY <1>4, <1>5
<1> HIDE DEF T
<1>7. \A s \in S : s <= m
  BY <1>6
<1> QED BY <1>7

\* build_channel_plans starts at most Replicas receivers of a channel.
LEMMA PlannedBounded ==
  ASSUME NEW c \in Channels
  PROVE  IsFiniteSet(Planned(c)) /\ Cardinality(Planned(c)) <= Replicas
<1> DEFINE n == Cardinality(Receivers)
<1>1. n \in Nat /\ Receivers = 1 .. n
  BY RadioAssumption, FS_CardinalityType
<1>2. Candidates(c) \subseteq 1 .. n /\ Planned(c) \subseteq Candidates(c)
  BY <1>1 DEF Candidates, Planned
<1>3. IsFiniteSet(Candidates(c)) /\ IsFiniteSet(Planned(c))
  BY <1>1, <1>2, RadioAssumption, FS_Subset
<1>4. CASE Planned(c) = {}
  BY <1>3, <1>4, FS_EmptySet, RadioAssumption
<1>5. CASE Planned(c) # {}
  <2>1. PICK m \in Planned(c) : \A s \in Planned(c) : s <= m
    BY <1>1, <1>2, <1>5, HasLargest
  <2> DEFINE below == {q \in Candidates(c) : q < m}
  <2>2. Cardinality(below) < Replicas
    BY <2>1 DEF Planned
  <2>3. Planned(c) \ {m} \in SUBSET below
    BY <1>1, <1>2, <2>1
  <2>4. IsFiniteSet(below)
    BY <1>3, FS_Subset
  <2>5. Cardinality(Planned(c) \ {m}) <= Cardinality(below)
    BY <2>3, <2>4, FS_Subset
  <2>6. Cardinality(Planned(c) \ {m}) = Cardinality(Planned(c)) - 1
    BY <1>3, FS_RemoveElement
  <2>7. Cardinality(Planned(c)) \in Nat /\ Cardinality(below) \in Nat
    BY <1>3, <2>4, FS_CardinalityType
  <2> HIDE DEF below
  <2> QED
    BY <1>3, <2>2, <2>5, <2>6, <2>7, RadioAssumption
<1> QED BY <1>4, <1>5

\* Claims are candidates, and there are finitely many of those.
LEMMA ClaimsFinite ==
  /\ \A c \in Channels : IsFiniteSet(Claims(c))
  /\ \A c \in Channels : IsFiniteSet(Claims(c)')
<1>1. \A c \in Channels : IsFiniteSet(Candidates(c))
  BY RadioAssumption, FS_Subset DEF Candidates
<1>2. \A c \in Channels : Claims(c) \subseteq Candidates(c)
  BY DEF Claims
<1>3. \A c \in Channels : Claims(c)' \subseteq Candidates(c)
  BY DEF Claims, Candidates
<1> QED BY <1>1, <1>2, <1>3, FS_Subset

\* A set with less than n elements has room for one more.
LEMMA RoomForOne ==
  ASSUME NEW S, IsFiniteSet(S), NEW x, NEW n \in Nat, Cardinality(S) < n
  PROVE  Cardinality(S \union {x}) <= n
<1>1. Cardinality(S) \in Nat
  BY FS_CardinalityType
<1>2. Cardinality(S \union {x}) = IF x \in S THEN Cardinality(S) ELSE Cardinality(S) + 1
  BY FS_AddElement
<1> QED BY <1>1, <1>2

\* A step that adds no claim keeps the bound.
LEMMA FewerClaims ==
  ASSUME ClaimsBounded, \A c \in Channels : Claims(c)' \subseteq Claims(c)
  PROVE  ClaimsBounded'
<1> SUFFICES ASSUME NEW c \in Channels PROVE Cardinality(Claims(c)') <= Replicas
  BY DEF ClaimsBounded
<1>1. Cardinality(Claims(c)') <= Cardinality(Claims(c))
  BY ClaimsFinite, FS_Subset
<1>2. Cardinality(Claims(c)') \in Nat /\ Cardinality(Claims(c)) \in Nat
  BY ClaimsFinite, FS_CardinalityType
<1> QED BY <1>1, <1>2, RadioAssumption DEF ClaimsBounded

\* The planned receivers that were started are the first claims.
LEMMA ClaimsInit == Init => ClaimsBounded
<1>1. SUFFICES ASSUME Init, NEW c \in Channels PROVE Cardinality(Claims(c)) <= Replicas
  BY DEF ClaimsBounded
<1>2. listed \subseteq UNION {Planned(d) : d \in Channels} /\ Stoppable = listed
  BY <1>1 DEF Init, Stoppable
<1>3. Claims(c) \subseteq Planned(c)
  <2>1. SUFFICES ASSUME NEW r \in Claims(c) PROVE r \in Planned(c)
    OBVIOUS
  <2>2. sup.at = "wait"
    BY <1>1 DEF Init
  <2>3. r \in Candidates(c) /\ r \in listed
    BY <1>2, <2>2 DEF Claims
  <2>4. PICK d \in Channels : r \in Planned(d)
    BY <1>2, <2>3
  <2>5. d = c
    BY <2>3, <2>4 DEF Planned, Candidates
  <2> QED BY <2>4, <2>5
<1>4. Cardinality(Claims(c)) <= Cardinality(Planned(c))
  BY <1>3, PlannedBounded, FS_Subset
<1> QED
  BY <1>4, PlannedBounded, ClaimsFinite, FS_CardinalityType, RadioAssumption

\* A claim is only added by a promotion, to a channel that is short of replicas.
LEMMA ClaimsStep ==
  ASSUME IndInv, ClaimsBounded, [Next]_radioVars
  PROVE  ClaimsBounded'
<1> USE TypesSplit DEF IndInv
<1>1. CASE \E r \in Receivers : LateReader(r)
  <2>1. \A c \in Channels : Claims(c)' \subseteq Claims(c)
    BY <1>1 DEF LateReader, Claims, Stoppable, Candidates, RestTypes, Busy, entryVars, adapterVars, stopVars
  <2> QED
    BY <2>1, FewerClaims
<1>2. CASE \E r \in Receivers : Drop(r)
  <2>1. \A c \in Channels : Claims(c)' \subseteq Claims(c)
    BY <1>2 DEF Drop, Claims, Stoppable, Candidates, RestTypes, Busy, entryVars, adapterVars, stopVars
  <2> QED
    BY <2>1, FewerClaims
<1>3. CASE \E r \in Receivers : Mute(r)
  <2>1. \A c \in Channels : Claims(c)' \subseteq Claims(c)
    BY <1>3 DEF Mute, Claims, Stoppable, Candidates, RestTypes, Busy, entryVars, adapterVars, stopVars
  <2> QED
    BY <2>1, FewerClaims
<1>4. CASE \E r \in Receivers : SilenceElapses(r)
  <2>1. \A c \in Channels : Claims(c)' \subseteq Claims(c)
    BY <1>4 DEF SilenceElapses, Claims, Stoppable, Candidates, RestTypes, Busy, entryVars, adapterVars, stopVars
  <2> QED
    BY <2>1, FewerClaims
<1>5. CASE \E r \in Receivers : OnFrame(r)
  <2>1. \A c \in Channels : Claims(c)' \subseteq Claims(c)
    BY <1>5 DEF OnFrame, Claims, Stoppable, Candidates, RestTypes, Busy, entryVars, adapterVars, stopVars
  <2> QED
    BY <2>1, FewerClaims
<1>6. CASE \E r \in Receivers : CooldownElapses(r)
  <2>1. \A c \in Channels : Claims(c)' \subseteq Claims(c)
    BY <1>6 DEF CooldownElapses, Claims, Stoppable, Candidates, RestTypes, Busy, entryVars, adapterVars, stopVars
  <2> QED
    BY <2>1, FewerClaims
<1>7. CASE PassBegin
  <2>1. \A c \in Channels : Claims(c)' \subseteq Claims(c)
    BY <1>7 DEF PassBegin, Stopped, Claims, Stoppable, Candidates, RestTypes, Busy, entryVars, adapterVars, stopVars
  <2> QED
    BY <2>1, FewerClaims
<1>8. CASE SupervisorExits
  <2>1. \A c \in Channels : Claims(c)' \subseteq Claims(c)
    BY <1>8 DEF SupervisorExits, Stopped, Claims, Stoppable, Candidates, RestTypes, Busy, entryVars, adapterVars, stopVars
  <2> QED
    BY <2>1, FewerClaims
<1>9. CASE \E r \in Receivers : CheckHealthy(r)
  <2>1. \A c \in Channels : Claims(c)' \subseteq Claims(c)
    BY <1>9 DEF CheckHealthy, Checking, First, Claims, Stoppable, Candidates, RestTypes, Busy, entryVars, adapterVars, stopVars
  <2> QED
    BY <2>1, FewerClaims
<1>10. CASE \E r \in Receivers : CheckStale(r)
  <2>1. \A c \in Channels : Claims(c)' \subseteq Claims(c)
    BY <1>10 DEF CheckStale, Checking, First, GiveUp, Claims, Stoppable, Candidates, RestTypes, Busy, entryVars, adapterVars, stopVars
  <2> QED
    BY <2>1, FewerClaims
<1>11. CASE \E r \in Receivers : CheckDown(r)
  <2>1. \A c \in Channels : Claims(c)' \subseteq Claims(c)
    BY <1>11 DEF CheckDown, Checking, First, Claims, Stoppable, Candidates, RestTypes, Busy, entryVars, adapterVars, stopVars
  <2> QED
    BY <2>1, FewerClaims
<1>12. CASE \E r \in Receivers : RestartBegins(r)
  <2>1. \A c \in Channels : Claims(c)' \subseteq Claims(c)
    BY <1>12 DEF RestartBegins, ConnectBegins, Claims, Stoppable, Candidates, RestTypes, Busy, entryVars, adapterVars, stopVars
  <2> QED
    BY <2>1, FewerClaims
<1>13. CASE \E r \in Receivers : RestartOpens(r)
  <2>1. \A c \in Channels : Claims(c)' \subseteq Claims(c)
    BY <1>13 DEF RestartOpens, Opens, Claims, Stoppable, Candidates, RestTypes, Busy, entryVars, adapterVars, stopVars
  <2> QED
    BY <2>1, FewerClaims
<1>14. CASE \E r \in Receivers : RestartRefused(r)
  <2>1. \A c \in Channels : Claims(c)' \subseteq Claims(c)
    BY <1>14 DEF RestartRefused, FailAdapter, GiveUp, Claims, Stoppable, Candidates, RestTypes, Busy, entryVars, adapterVars, stopVars
  <2> QED
    BY <2>1, FewerClaims
<1>15. CASE \E r \in Receivers : RestartCompletes(r)
  <2>1. \A c \in Channels : Claims(c)' \subseteq Claims(c)
    BY <1>15 DEF RestartCompletes, Completes, Claims, Stoppable, Candidates, RestTypes, Busy, entryVars, adapterVars, stopVars
  <2> QED
    BY <2>1, FewerClaims
<1>16. CASE \E r \in Receivers : RestartRaises(r)
  <2>1. \A c \in Channels : Claims(c)' \subseteq Claims(c)
    BY <1>16 DEF RestartRaises, GiveUp, Claims, Stoppable, Candidates, RestTypes, Busy, entryVars, adapterVars, stopVars
  <2> QED
    BY <2>1, FewerClaims
<1>17. CASE ChecksDone
  <2>1. \A c \in Channels : Claims(c)' \subseteq Claims(c)
    BY <1>17 DEF ChecksDone, Claims, Stoppable, Candidates, RestTypes, Busy, entryVars, adapterVars, stopVars
  <2> QED
    BY <2>1, FewerClaims
<1>18. CASE \E c \in Channels : ChannelDone(c)
  <2>1. \A c \in Channels : Claims(c)' \subseteq Claims(c)
    BY <1>18 DEF ChannelDone, Filling, First, Claims, Stoppable, Candidates, RestTypes, Busy, entryVars, adapterVars, stopVars
  <2> QED
    BY <2>1, FewerClaims
<1>19. CASE \E c \in Channels, r \in Receivers : PromotionBegins(c, r)
  <2>1. PICK c \in Channels, r \in Receivers : PromotionBegins(c, r)
    BY <1>19
  <2>2. r \in Candidates(c) /\ Stoppable = listed /\ Stoppable' = listed
    BY <2>1 DEF PromotionBegins, Preferred, First, Standby, Stopped, Stoppable, RestTypes, entryVars, adapterVars, stopVars
  <2>3. Claims(c) = Active(c) /\ Cardinality(Active(c)) < Replicas
    BY <2>1, <2>2 DEF PromotionBegins, Claims, Active, Filling, Short, Stopped, ListExact, Taken,
       Candidates
  <2>4. Claims(c)' = Claims(c) \union {r}
    BY <2>1, <2>2 DEF PromotionBegins, Claims, Candidates, Filling, RestTypes
  <2>5. Cardinality(Claims(c)') <= Replicas
    BY <2>3, <2>4, ClaimsFinite, RoomForOne, RadioAssumption
  <2>6. \A d \in Channels : d # c => Claims(d)' = Claims(d)
    BY <2>1, <2>2 DEF PromotionBegins, Claims, Candidates, Filling, RestTypes
  <2> QED
    BY <2>5, <2>6 DEF ClaimsBounded
<1>20. CASE \E r \in Receivers : PromotionOpens(r)
  <2>1. \A c \in Channels : Claims(c)' \subseteq Claims(c)
    BY <1>20 DEF PromotionOpens, Opens, Claims, Stoppable, Candidates, RestTypes, Busy, entryVars, adapterVars, stopVars
  <2> QED
    BY <2>1, FewerClaims
<1>21. CASE \E r \in Receivers : PromotionRefused(r)
  <2>1. \A c \in Channels : Claims(c)' \subseteq Claims(c)
    BY <1>21 DEF PromotionRefused, FailAdapter, CoolDown, Claims, Stoppable, Candidates, RestTypes, Busy, entryVars, adapterVars, stopVars
  <2> QED
    BY <2>1, FewerClaims
<1>22. CASE \E r \in Receivers : PromotionRaises(r)
  <2>1. \A c \in Channels : Claims(c)' \subseteq Claims(c)
    BY <1>22 DEF PromotionRaises, CoolDown, Claims, Stoppable, Candidates, RestTypes, Busy, entryVars, adapterVars, stopVars
  <2> QED
    BY <2>1, FewerClaims
<1>23. CASE \E r \in Receivers : PromotionCompletes(r)
  <2>1. \A c \in Channels : Claims(c)' \subseteq Claims(c)
    BY <1>23 DEF PromotionCompletes, Stopped, Completes, Claims, Stoppable, Candidates, RestTypes, Busy, entryVars, adapterVars, stopVars
  <2> QED
    BY <2>1, FewerClaims
<1>24. CASE \E r \in Receivers : PromotionTooLate(r)
  <2>1. \A c \in Channels : Claims(c)' \subseteq Claims(c)
    BY <1>24 DEF PromotionTooLate, Claims, Stoppable, Candidates, RestTypes, Busy, entryVars, adapterVars, stopVars
  <2> QED
    BY <2>1, FewerClaims
<1>25. CASE PassEnds
  <2>1. \A c \in Channels : Claims(c)' \subseteq Claims(c)
    BY <1>25 DEF PassEnds, Claims, Stoppable, Candidates, RestTypes, Busy, entryVars, adapterVars, stopVars
  <2> QED
    BY <2>1, FewerClaims
<1>26. CASE Stop
  <2>1. \A c \in Channels : Claims(c)' \subseteq Claims(c)
    BY <1>26 DEF Stop, Claims, Stoppable, Candidates, RestTypes, Busy, entryVars, adapterVars, stopVars
  <2> QED
    BY <2>1, FewerClaims
<1>27. CASE TakeList
  <2>1. \A c \in Channels : Claims(c)' \subseteq Claims(c)
    BY <1>27 DEF TakeList, Claims, Stoppable, Candidates, RestTypes, Busy, entryVars, adapterVars, stopVars
  <2> QED
    BY <2>1, FewerClaims
<1>28. CASE \E r \in Receivers : CloseOne(r)
  <2>1. \A c \in Channels : Claims(c)' \subseteq Claims(c)
    BY <1>28 DEF CloseOne, Claims, Stoppable, Candidates, RestTypes, Busy, entryVars, adapterVars, stopVars
  <2> QED
    BY <2>1, FewerClaims
<1>29. CASE StopReturns
  <2>1. \A c \in Channels : Claims(c)' \subseteq Claims(c)
    BY <1>29 DEF StopReturns, Claims, Stoppable, Candidates, RestTypes, Busy, entryVars, adapterVars, stopVars
  <2> QED
    BY <2>1, FewerClaims
<1>30. CASE UNCHANGED radioVars
  <2>1. \A c \in Channels : Claims(c)' \subseteq Claims(c)
    BY <1>30 DEF radioVars, Claims, Stoppable, Candidates, RestTypes, Busy, entryVars, adapterVars, stopVars
  <2> QED
    BY <2>1, FewerClaims
<1> QED
  BY <1>1, <1>2, <1>3, <1>4, <1>5, <1>6, <1>7, <1>8, <1>9, <1>10, <1>11, <1>12, <1>13, <1>14, <1>15, <1>16, <1>17, <1>18, <1>19, <1>20, <1>21, <1>22, <1>23, <1>24, <1>25, <1>26, <1>27, <1>28, <1>29, <1>30
     DEF Next, Supervisor, Stopper, Environment

-----------------------------------------------------------------------------
(* The theorems *)

\* IndInv is inductive.
LEMMA Invariant == Spec => []IndInv
<1>1. IndInv /\ [Next]_radioVars => IndInv'
  BY AdapterTypesStep, RestTypesStep, NoOrphanStep, TypesSplit DEF IndInv
<1> QED BY InitOK, <1>1, PTL DEF Spec

\* The types of the entries, the adapters, the supervisor and stop(), for any
\* receivers, channels and replicas.
THEOREM TypeCorrect == Spec => []TypeOK
BY Invariant, PTL DEF IndInv

\* Whatever fails, drops or races with stop(), no open connection is forgotten:
\* stop() closes it, or the supervisor that is opening it looks at it again.
THEOREM NoOrphanHolds == Spec => []NoOrphan
BY Invariant, PTL DEF IndInv

\* The two books of the runtime agree: until stop() takes the list, the adapters
\* on it are those of the receivers whose entry says active, in the middle of a
\* pass too, whatever receivers are given up, promoted or refused (_failover_once,
\* _adapters).
THEOREM ListIsExact == Spec => []ListExact
BY Invariant, PTL DEF IndInv

\* What outlives a complete shutdown is a receiver that stop() has closed and the
\* supervisor reconnected behind its back, never one that stop() did not know:
\* a promotion that ends late is closed again (_failover_once, stop).
THEOREM SurvivorsWereClosed ==
  Spec => [](stopping = "done" /\ sup.at = "exited" =>
               \A r \in Receivers : socket[r] # "none" => r \in adapters)
<1>1. IndInv => (stopping = "done" /\ sup.at = "exited" =>
                   \A r \in Receivers : socket[r] # "none" => r \in adapters)
  BY DEF IndInv, NoOrphan, Stoppable, Held
<1> QED BY Invariant, <1>1, PTL

\* A channel never holds more connections than it has replicas, for any number
\* of candidates and whatever fails while one receiver replaces another.
THEOREM ConnectionsBoundedHolds == Spec => []ConnectionsBounded
<1>1. ClaimsBounded /\ [Next]_radioVars /\ IndInv => ClaimsBounded'
  BY ClaimsStep
<1>2. IndInv /\ ClaimsBounded => ConnectionsBounded
  <2> SUFFICES ASSUME IndInv, ClaimsBounded, NEW c \in Channels
               PROVE  Cardinality({r \in Candidates(c) : socket[r] # "none"}) <= Replicas
    BY DEF ConnectionsBounded
  <2> DEFINE conn == {r \in Candidates(c) : socket[r] # "none"}
  <2>1. conn \subseteq Claims(c)
    BY DEF IndInv, NoOrphan, Held, TodoBacked, Claims, Candidates
  <2>2. IsFiniteSet(conn) /\ Cardinality(conn) <= Cardinality(Claims(c))
    BY <2>1, ClaimsFinite, FS_Subset
  <2>3. Cardinality(conn) \in Nat /\ Cardinality(Claims(c)) \in Nat
    BY <2>2, ClaimsFinite, FS_CardinalityType
  <2> QED
    BY <2>2, <2>3, RadioAssumption DEF ClaimsBounded
<1> QED BY Invariant, ClaimsInit, <1>1, <1>2, PTL DEF Spec
=============================================================================
