--------------------------- MODULE RadioFailover ---------------------------
(***************************************************************************)
(* The managed remote receivers (core/radio/runtime.py with failover, and  *)
(* the KiwiSDR and OpenWebRX adapters it drives).                          *)
(*                                                                         *)
(* A channel has more candidates than it needs.  A supervisor thread makes *)
(* passes: receivers whose cooldown is over go back to standby, every      *)
(* active receiver is checked, reconnected or given up, and each channel   *)
(* is filled again from its standbys.  A reader thread per connection      *)
(* reports a disconnect behind the supervisor's back.  stop() waits two    *)
(* seconds for the supervisor and then closes the adapters on its list,    *)
(* also when the supervisor is still inside a connect.                     *)
(*                                                                         *)
(* Clocks are abstracted to what they decide: a cooldown is due or not,    *)
(* and an active receiver is quiet (no frame for stale_after_s since it    *)
(* was activated) or not.  A frame is only that: a receiver being heard.   *)
(***************************************************************************)
EXTENDS Integers, FiniteSets, FiniteSetsExt

CONSTANTS ChannelOf,   \* the channel of each receiver, in registry order
          Replicas,    \* channel_replicas
          MaxFaults    \* bound on failed connects, dropped or mute receivers and
                       \* readers that outlive their join

Receivers == DOMAIN ChannelOf
Channels == {ChannelOf[r] : r \in Receivers}

ASSUME RadioAssumption ==
  /\ IsFiniteSet(Receivers) /\ Receivers = 1 .. Cardinality(Receivers) /\ 1 \in Receivers
  /\ Channels \subseteq Nat /\ IsFiniteSet(Channels)
  /\ Replicas \in Nat \ {0}
  /\ MaxFaults \in Nat

VARIABLES
  state,      \* _ManagedEntry.state
  due,        \* retry_at has passed
  used,       \* previously_active
  listed,     \* the receivers of _adapters
  socket,     \* the connection of the transport: none, open, or dead (closed by
              \* the peer, or left by a reader whose callback raised)
  connected,  \* the adapter's _connected flag
  halted,     \* the transport's _stop event
  late,       \* an earlier reader thread that outlived its join
  quiet,      \* nothing heard for stale_after_s
  sup,        \* the supervisor: where it is, the active receivers it has still to
              \* check, the receiver and the channel it is at
  stopping,   \* stop(): running, joining, closing, done
  adapters,   \* the adapters stop() took from the list
  toClose,    \* those it has still to close
  faults

radioVars == <<state, due, used, listed, socket, connected, halted, late, quiet,
               sup, stopping, adapters, toClose, faults>>

entryVars == <<state, due, used, listed>>
adapterVars == <<socket, connected, halted, late>>
stopVars == <<stopping, adapters, toClose>>

Candidates(c) == {r \in Receivers : ChannelOf[r] = c}
Active(c) == {r \in Candidates(c) : state[r] = "active"}

\* The supervisor is between two calls of the adapter of its receiver.
Busy == {"restart", "connecting", "opened", "promoting", "promoted"}

TypeOK ==
  /\ state \in [Receivers -> {"standby", "active", "cooldown"}]
  /\ due \in [Receivers -> BOOLEAN]
  /\ used \in [Receivers -> BOOLEAN]
  /\ listed \subseteq Receivers
  /\ socket \in [Receivers -> {"none", "open", "dead"}]
  /\ connected \in [Receivers -> BOOLEAN]
  /\ halted \in [Receivers -> BOOLEAN]
  /\ late \in [Receivers -> BOOLEAN]
  /\ quiet \in [Receivers -> BOOLEAN]
  /\ sup \in [at : {"wait", "check", "fill", "exited"} \union Busy,
              todo : SUBSET Receivers, cur : Receivers, left : SUBSET Channels]
  /\ stopping \in {"running", "joining", "closing", "done"}
  /\ adapters \subseteq Receivers
  /\ toClose \subseteq adapters
  /\ faults \in 0 .. MaxFaults

\* build_channel_plans: the first candidates of each channel are started.
Planned(c) ==
  {r \in Candidates(c) : Cardinality({q \in Candidates(c) : q < r}) < Replicas}

\* _start_managed has ended: each planned receiver was started, or failed and
\* was put into cooldown.
Init ==
  \E failed \in SUBSET (UNION {Planned(c) : c \in Channels}) :
    LET up == (UNION {Planned(c) : c \in Channels}) \ failed
    IN  /\ state = [r \in Receivers |->
                      IF r \in up THEN "active"
                      ELSE IF r \in failed THEN "cooldown" ELSE "standby"]
        /\ listed = up
        /\ socket = [r \in Receivers |-> IF r \in up THEN "open" ELSE "none"]
        /\ connected = [r \in Receivers |-> r \in up]
        /\ halted = [r \in Receivers |-> r \in failed]
        /\ due = [r \in Receivers |-> FALSE]
        /\ used = [r \in Receivers |-> FALSE]
        /\ late = [r \in Receivers |-> FALSE]
        /\ quiet = [r \in Receivers |-> FALSE]
        /\ sup = [at |-> "wait", todo |-> {}, cur |-> 1, left |-> {}]
        /\ stopping = "running"
        /\ adapters = {}
        /\ toClose = {}
        /\ faults = 0

Stopped == stopping # "running"

-----------------------------------------------------------------------------
(* The adapters *)

\* adapter.stop: the connection is closed and its reader joined for two seconds;
\* a reader that is still storing an observation outlives the join, a fault too.
StopAdapter(r) ==
  /\ socket' = [socket EXCEPT ![r] = "none"]
  /\ connected' = [connected EXCEPT ![r] = FALSE]
  /\ halted' = [halted EXCEPT ![r] = TRUE]
  /\ \/ UNCHANGED <<late, faults>>
     \/ /\ socket[r] = "open" /\ faults < MaxFaults
        /\ late' = [late EXCEPT ![r] = TRUE]
        /\ faults' = faults + 1

\* The same of an adapter without a connection to close.
FailAdapter(r) ==
  /\ connected' = [connected EXCEPT ![r] = FALSE]
  /\ halted' = [halted EXCEPT ![r] = TRUE]
  /\ UNCHANGED <<socket, late>>

\* transport.start up to connect(): the stop event is cleared.
ConnectBegins(r) ==
  /\ halted' = [halted EXCEPT ![r] = FALSE]
  /\ UNCHANGED <<socket, connected, late>>

\* connect() returns and the reader is started; its loop ends at once if stop()
\* set the event in the meantime, and the connection stays open.
Opens(r) ==
  /\ socket' = [socket EXCEPT ![r] = "open"]
  /\ UNCHANGED <<connected, halted, late>>

\* The rest of adapter.start, and tune: they raise when the connection is gone,
\* or do not notice, and then _connected is set after the reader cleared it.
Completes(r) ==
  /\ socket[r] # "none"
  /\ connected' = [connected EXCEPT ![r] = TRUE]
  /\ UNCHANGED <<socket, halted, late>>

-----------------------------------------------------------------------------
(* The network and the clock *)

\* The peer closes the connection, or the observation could not be stored: the
\* reader ends and reports a disconnect, unless the transport was stopped.
Drop(r) ==
  /\ faults < MaxFaults
  /\ socket[r] = "open"
  /\ socket' = [socket EXCEPT ![r] = "dead"]
  /\ connected' = [connected EXCEPT ![r] = @ /\ halted[r]]
  /\ faults' = faults + 1
  /\ UNCHANGED <<entryVars, halted, late, quiet, sup, stopVars>>

\* A reader of an earlier connection comes back from its callback, finds its
\* connection closed and reports a disconnect, if a start has cleared the event.
LateReader(r) ==
  /\ late[r]
  /\ late' = [late EXCEPT ![r] = FALSE]
  /\ connected' = [connected EXCEPT ![r] = @ /\ halted[r]]
  /\ UNCHANGED <<entryVars, socket, halted, quiet, sup, stopVars, faults>>

\* A receiver stays connected and is not heard any more.
Mute(r) ==
  /\ faults < MaxFaults
  /\ socket[r] = "open" /\ ~quiet[r]
  /\ quiet' = [quiet EXCEPT ![r] = TRUE]
  /\ faults' = faults + 1
  /\ UNCHANGED <<entryVars, adapterVars, sup, stopVars>>

\* Nothing comes from a dead connection.
SilenceElapses(r) ==
  /\ state[r] = "active" /\ socket[r] # "open" /\ ~quiet[r]
  /\ quiet' = [quiet EXCEPT ![r] = TRUE]
  /\ UNCHANGED <<entryVars, adapterVars, sup, stopVars, faults>>

\* _on_frame
OnFrame(r) ==
  /\ socket[r] = "open" /\ quiet[r]
  /\ quiet' = [quiet EXCEPT ![r] = FALSE]
  /\ UNCHANGED <<entryVars, adapterVars, sup, stopVars, faults>>

CooldownElapses(r) ==
  /\ state[r] = "cooldown" /\ ~due[r]
  /\ due' = [due EXCEPT ![r] = TRUE]
  /\ UNCHANGED <<state, used, listed, adapterVars, quiet, sup, stopVars, faults>>

-----------------------------------------------------------------------------
(* The supervisor: _failover_once *)

\* Mutant: a pass begins without looking at the stop event.
PassBeginDeaf ==
  /\ sup.at = "wait"
  /\ state' = [r \in Receivers |-> IF state[r] = "cooldown" /\ due[r] THEN "standby" ELSE state[r]]
  /\ due' = [r \in Receivers |-> FALSE]
  /\ sup' = [sup EXCEPT !.at = "check", !.todo = {r \in Receivers : state[r] = "active"},
                        !.left = Channels]
  /\ UNCHANGED <<used, listed, adapterVars, quiet, stopVars, faults>>

\* Cooldowns that are over end, and the active entries are read.
PassBegin ==
  /\ sup.at = "wait" /\ ~Stopped
  /\ state' = [r \in Receivers |-> IF state[r] = "cooldown" /\ due[r] THEN "standby" ELSE state[r]]
  /\ due' = [r \in Receivers |-> FALSE]
  /\ sup' = [sup EXCEPT !.at = "check", !.todo = {r \in Receivers : state[r] = "active"},
                        !.left = Channels]
  /\ UNCHANGED <<used, listed, adapterVars, quiet, stopVars, faults>>

\* _supervise ends.
SupervisorExits ==
  /\ sup.at = "wait" /\ Stopped
  /\ sup' = [sup EXCEPT !.at = "exited"]
  /\ UNCHANGED <<entryVars, adapterVars, quiet, stopVars, faults>>

First(r, S) == r \in S /\ \A q \in S : r <= q

Checking(r) == sup.at = "check" /\ First(r, sup.todo)

\* Mutant: a connected receiver is taken for a healthy one.
CheckHealthyConnected(r) ==
  /\ Checking(r)
  /\ connected[r]
  /\ sup' = [sup EXCEPT !.todo = @ \ {r}]
  /\ UNCHANGED <<entryVars, adapterVars, quiet, stopVars, faults>>

\* Connected, and heard since.
CheckHealthy(r) ==
  /\ Checking(r)
  /\ connected[r] /\ ~quiet[r]
  /\ sup' = [sup EXCEPT !.todo = @ \ {r}]
  /\ UNCHANGED <<entryVars, adapterVars, quiet, stopVars, faults>>

\* The entry of a receiver that is given up.
GiveUp(r) ==
  /\ state' = [state EXCEPT ![r] = "cooldown"]
  /\ due' = [due EXCEPT ![r] = FALSE]
  /\ used' = [used EXCEPT ![r] = TRUE]
  /\ listed' = listed \ {r}
  /\ sup' = [sup EXCEPT !.at = "check", !.todo = @ \ {r}]
  /\ UNCHANGED <<quiet, stopVars>>

\* Connected but stale: closed and given up.
CheckStale(r) ==
  /\ Checking(r)
  /\ connected[r] /\ quiet[r]
  /\ StopAdapter(r)
  /\ GiveUp(r)

\* Disconnected: stop, and then start again.
CheckDown(r) ==
  /\ Checking(r)
  /\ ~connected[r]
  /\ StopAdapter(r)
  /\ sup' = [sup EXCEPT !.at = "restart", !.cur = r]
  /\ UNCHANGED <<entryVars, quiet, stopVars>>

RestartBegins(r) ==
  /\ sup.at = "restart" /\ sup.cur = r
  /\ ConnectBegins(r)
  /\ sup' = [sup EXCEPT !.at = "connecting"]
  /\ UNCHANGED <<entryVars, quiet, stopVars, faults>>

RestartOpens(r) ==
  /\ sup.at = "connecting" /\ sup.cur = r
  /\ Opens(r)
  /\ sup' = [sup EXCEPT !.at = "opened"]
  /\ UNCHANGED <<entryVars, quiet, stopVars, faults>>

\* connect() raises.
RestartRefused(r) ==
  /\ sup.at = "connecting" /\ sup.cur = r
  /\ faults < MaxFaults
  /\ FailAdapter(r)
  /\ GiveUp(r)
  /\ faults' = faults + 1

\* Reconnected: activated_at is renewed, and so is the stale timer.
RestartCompletes(r) ==
  /\ sup.at = "opened" /\ sup.cur = r
  /\ Completes(r)
  /\ quiet' = [quiet EXCEPT ![r] = FALSE]
  /\ sup' = [sup EXCEPT !.at = "check", !.todo = @ \ {r}]
  /\ UNCHANGED <<entryVars, stopVars, faults>>

\* The connection was lost, closed by stop(), or reported lost by a late reader,
\* before start and tune were over.
RestartRaises(r) ==
  /\ sup.at = "opened" /\ sup.cur = r
  /\ socket[r] # "open" \/ late[r]
  /\ StopAdapter(r)
  /\ GiveUp(r)

ChecksDone ==
  /\ sup.at = "check" /\ sup.todo = {}
  /\ sup' = [sup EXCEPT !.at = "fill"]
  /\ UNCHANGED <<entryVars, adapterVars, quiet, stopVars, faults>>

-----------------------------------------------------------------------------
(* Filling the channels *)

Filling(c) == sup.at = "fill" /\ First(c, sup.left)

Standby(c) == {r \in Candidates(c) : state[r] = "standby"}

\* The first standby that was never active, or else the first standby.
Preferred(c, r) ==
  LET fresh == {q \in Standby(c) : ~used[q]}
  IN  First(r, IF fresh # {} THEN fresh ELSE Standby(c))

\* Mutant: one standby too many is promoted.
ShortByOne(c) == Cardinality(Active(c)) <= Replicas /\ Standby(c) # {}

Short(c) == Cardinality(Active(c)) < Replicas /\ Standby(c) # {}

\* The channel is served, nothing is left to try, or stop() was called.
ChannelDone(c) ==
  /\ Filling(c)
  /\ Stopped \/ ~Short(c)
  /\ sup' = [sup EXCEPT !.left = @ \ {c}]
  /\ UNCHANGED <<entryVars, adapterVars, quiet, stopVars, faults>>

PromotionBegins(c, r) ==
  /\ Filling(c)
  /\ ~Stopped /\ Short(c) /\ Preferred(c, r)
  /\ ConnectBegins(r)
  /\ sup' = [sup EXCEPT !.at = "promoting", !.cur = r]
  /\ UNCHANGED <<entryVars, quiet, stopVars, faults>>

PromotionOpens(r) ==
  /\ sup.at = "promoting" /\ sup.cur = r
  /\ Opens(r)
  /\ sup' = [sup EXCEPT !.at = "promoted"]
  /\ UNCHANGED <<entryVars, quiet, stopVars, faults>>

\* The entry of a standby that could not be started.
CoolDown(r) ==
  /\ state' = [state EXCEPT ![r] = "cooldown"]
  /\ due' = [due EXCEPT ![r] = FALSE]
  /\ sup' = [sup EXCEPT !.at = "fill"]
  /\ UNCHANGED <<used, listed, quiet, stopVars>>

PromotionRefused(r) ==
  /\ sup.at = "promoting" /\ sup.cur = r
  /\ faults < MaxFaults
  /\ FailAdapter(r)
  /\ CoolDown(r)
  /\ faults' = faults + 1

PromotionRaises(r) ==
  /\ sup.at = "promoted" /\ sup.cur = r
  /\ socket[r] # "open" \/ late[r]
  /\ StopAdapter(r)
  /\ CoolDown(r)

\* Mutant: the late connection is kept although stop() was called.
PromotionCompletesLate(r) ==
  /\ sup.at = "promoted" /\ sup.cur = r
  /\ Completes(r)
  /\ state' = [state EXCEPT ![r] = "active"]
  /\ quiet' = [quiet EXCEPT ![r] = FALSE]
  /\ listed' = listed \union {r}
  /\ sup' = [sup EXCEPT !.at = "fill"]
  /\ UNCHANGED <<due, used, stopVars, faults>>

PromotionCompletes(r) ==
  /\ sup.at = "promoted" /\ sup.cur = r
  /\ ~Stopped
  /\ Completes(r)
  /\ state' = [state EXCEPT ![r] = "active"]
  /\ quiet' = [quiet EXCEPT ![r] = FALSE]
  /\ listed' = listed \union {r}
  /\ sup' = [sup EXCEPT !.at = "fill"]
  /\ UNCHANGED <<due, used, stopVars, faults>>

\* The connect outlived stop()'s patience: the new connection is closed.
PromotionTooLate(r) ==
  /\ sup.at = "promoted" /\ sup.cur = r
  /\ Stopped
  /\ StopAdapter(r)
  /\ sup' = [sup EXCEPT !.at = "wait"]
  /\ UNCHANGED <<entryVars, quiet, stopVars>>

PassEnds ==
  /\ sup.at = "fill" /\ sup.left = {}
  /\ sup' = [sup EXCEPT !.at = "wait"]
  /\ UNCHANGED <<entryVars, adapterVars, quiet, stopVars, faults>>

-----------------------------------------------------------------------------
(* stop *)

Stop ==
  /\ stopping = "running"
  /\ stopping' = "joining"
  /\ UNCHANGED <<entryVars, adapterVars, quiet, sup, adapters, toClose, faults>>

\* join returns: the supervisor ended, or two seconds have passed, which they do
\* only while it is inside a call of an adapter.
TakeList ==
  /\ stopping = "joining"
  /\ sup.at \in Busy \union {"exited"}
  /\ stopping' = "closing"
  /\ adapters' = listed
  /\ toClose' = listed
  /\ listed' = {}
  /\ UNCHANGED <<state, due, used, adapterVars, quiet, sup, faults>>

CloseOne(r) ==
  /\ r \in toClose
  /\ StopAdapter(r)
  /\ toClose' = toClose \ {r}
  /\ UNCHANGED <<entryVars, quiet, sup, stopping, adapters>>

StopReturns ==
  /\ stopping = "closing" /\ toClose = {}
  /\ stopping' = "done"
  /\ UNCHANGED <<entryVars, adapterVars, quiet, sup, adapters, toClose, faults>>

-----------------------------------------------------------------------------
Supervisor ==
  \/ PassBegin \/ SupervisorExits \/ ChecksDone \/ PassEnds
  \/ \E r \in Receivers :
       \/ CheckHealthy(r) \/ CheckStale(r) \/ CheckDown(r)
       \/ RestartBegins(r) \/ RestartOpens(r) \/ RestartRefused(r)
       \/ RestartCompletes(r) \/ RestartRaises(r)
       \/ PromotionOpens(r) \/ PromotionRefused(r)
       \/ PromotionRaises(r) \/ PromotionCompletes(r) \/ PromotionTooLate(r)
  \/ \E c \in Channels : ChannelDone(c) \/ \E r \in Receivers : PromotionBegins(c, r)

Stopper == TakeList \/ StopReturns \/ \E r \in Receivers : CloseOne(r)

Environment(r) == LateReader(r) \/ SilenceElapses(r) \/ CooldownElapses(r)

Next ==
  \/ Supervisor
  \/ Stop
  \/ Stopper
  \/ \E r \in Receivers : Environment(r) \/ Drop(r) \/ Mute(r) \/ OnFrame(r)

Spec == Init /\ [][Next]_radioVars

\* The supervisor's calls return (every connect has a timeout), the join of
\* stop() is bounded, time passes, and a reader thread comes back from its
\* callback.  stop() need not be called and frames need not come.
Fairness ==
  /\ WF_radioVars(Supervisor)
  /\ WF_radioVars(Stopper)
  /\ \A r \in Receivers : /\ WF_radioVars(LateReader(r))
                          /\ WF_radioVars(SilenceElapses(r))
                          /\ WF_radioVars(CooldownElapses(r))

FairSpec == Spec /\ Fairness

-----------------------------------------------------------------------------
(* Properties *)

\* The receiver whose connection the supervisor is opening.
Held(r) == sup.at \in {"opened", "promoted"} /\ sup.cur = r

\* What stop() closes, or is going to.
Stoppable == IF stopping \in {"running", "joining"} THEN listed ELSE adapters

\* No connection is forgotten: whatever fails, drops or races with stop(), a
\* connection that was not closed is on the list stop() will take, was on the list it took, or
\* is being opened by the supervisor, which will look at it again
\* (_failover_once, stop).
NoOrphan ==
  \A r \in Receivers : socket[r] # "none" => r \in Stoppable \/ Held(r)

\* A channel never holds more connections to public receivers than it has
\* replicas, not even while one receiver replaces another.
ConnectionsBounded ==
  \A c \in Channels : Cardinality({r \in Candidates(c) : socket[r] # "none"}) <= Replicas

Served(c) ==
  Cardinality({r \in Active(c) : socket[r] = "open"}) >=
    Min({Replicas, Cardinality(Candidates(c))})

\* When the faults are over every channel gets and keeps its replicas, also
\* after a disconnect that was overwritten by the end of start, a disconnect
\* reported by a reader of an earlier connection, and a pass that found every
\* candidate in cooldown (_failover_once).
ChannelsRecover == <>[](Stopped \/ \A c \in Channels : Served(c))

\* stop() returns, and the supervisor ends after it, whatever connect it was in.
StopCompletes == Stopped ~> stopping = "done" /\ sup.at = "exited"

\* No connection of a receiver survives the shutdown: when stop() has returned
\* and the supervisor has ended nothing is open.
NothingSurvives ==
  stopping = "done" /\ sup.at = "exited" => \A r \in Receivers : socket[r] # "open"

=============================================================================
