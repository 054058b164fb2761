----------------------------- MODULE LiveClient -----------------------------
(***************************************************************************)
(* The transport of the public map in the browser: the useLiveFeed hook    *)
(* (apps/web/src/hooks/useLiveFeed.js) on a public host.                   *)
(*                                                                         *)
(* One loop polls the Oracle API through the front of api/live.js.  A      *)
(* build with VITE_LIVE_EDGE_PRIMARY also polls the snapshot of the edge,  *)
(* listens to its socket, whose messages start further polls, and after    *)
(* three failures asks the Oracle API itself as a backup.  Requests        *)
(* overlap, servers go down and come back, the tab is hidden and reloaded. *)
(*                                                                         *)
(* A feed is abstracted to where it came from and its revision; Blank is   *)
(* the empty list.  The front answers an outage either with 502 or with    *)
(* an empty list marked compatibility_mode, and its CDN answers with a     *)
(* copy it kept for some seconds, in a browser's region or another's.      *)
(*                                                                         *)
(* localStorage may refuse a list, and what it holds may be too old, or    *)
(* unreadable, when the page is loaded again.                              *)
(***************************************************************************)
EXTENDS Integers, FiniteSets, SequencesExt

CONSTANTS MaxPolls,    \* bound: pollSnapshot calls in flight
          MaxRev,      \* bound: revisions of either server
          MaxOutages,  \* bound: outages of either server
          MaxReloads   \* bound: reloads of the page

ASSUME LiveClientAssumption ==
  MaxPolls \in Nat \ {0} /\ {MaxRev, MaxOutages, MaxReloads} \subseteq Nat

Blank == [from |-> "none", rev |-> 0]
Feeds == [from : {"vm", "edge"}, rev : 0 .. MaxRev] \union {Blank}

VARIABLES
  edgePrimary, \* VITE_LIVE_EDGE_PRIMARY of the build
  up,          \* whether the "vm" and the "edge" answer
  rev,         \* revision of the feed of each
  outages,
  oldest,      \* oldest revision of the Oracle API's feed that the CDN may hold
  shown,       \* intelEvents
  cache,       \* localStorage: the list under the key of the page's mode, "all"
  refused,     \* history, in the default build: setItem threw on the list shown
  hidden,      \* document.visibilityState
  vmPoll,      \* the request of pollOnce
  polls,       \* the requests of the pollSnapshot calls in flight
  timers,      \* armed timers, in order: the polls in flight when it was armed
  handle,      \* pollTimer names the last of them, and no longer the others
  fails,       \* consecutiveFailures, up to the three that matter
  backupSpent, \* less than 60 s since lastBackupAttempt
  edgeActive,  \* edgeLiveActiveRef
  socket,      \* the socket is open
  inbox,       \* its messages on their way: a snapshot, or Blank for any other type
  reloads

serverVars == <<up, rev, outages, oldest>>
pageVars   == <<shown, cache, refused>>
chainVars  == <<polls, handle, timers>>
edgeVars   == <<fails, backupSpent, edgeActive>>
socketVars == <<socket, inbox>>
clientVars == <<edgePrimary, serverVars, pageVars, hidden, vmPoll, chainVars, edgeVars, socketVars,
               reloads>>

Slots == 1 .. MaxPolls
\* "backup" and "backupAnswered": the call waits for loadOracleBackup.
Request == [at : {"idle", "sent", "answered", "backup", "backupAnswered"}, got : Feeds]
NoRequest == [at |-> "idle", got |-> Blank]
Sent == [at |-> "sent", got |-> Blank]

Busy == {k \in Slots : polls[k].at # "idle"}

ClientTypeOK ==
  /\ edgePrimary \in BOOLEAN
  /\ up \in [{"vm", "edge"} -> BOOLEAN] /\ rev \in [{"vm", "edge"} -> 0 .. MaxRev]
  /\ outages \in 0 .. MaxOutages /\ oldest \in 0 .. rev["vm"]
  /\ shown \in Feeds /\ cache \in Feeds /\ refused \in BOOLEAN
  /\ hidden \in BOOLEAN
  /\ vmPoll \in Request /\ polls \in [Slots -> Request]
  /\ timers \in Seq(SUBSET Slots) /\ handle \in BOOLEAN
  /\ handle => timers # <<>>
  /\ fails \in 0 .. 3 /\ backupSpent \in BOOLEAN /\ edgeActive \in BOOLEAN
  /\ socket \in BOOLEAN /\ inbox \in Seq(Feeds)
  /\ reloads \in 0 .. MaxReloads

\* What loadCachedEvents makes of the stored list: nothing when all of it is
\* older than 24 h or past its live_expires_at, or storage cannot be read.
Loaded(stored, usable) == IF usable THEN stored ELSE Blank

\* The state of the hook after its effects ran: the list it loaded is shown, the
\* loops are about to send their first requests.
Mounted(loaded) ==
  [shown |-> loaded, vmPoll |-> NoRequest,
   polls |-> [k \in Slots |-> IF edgePrimary /\ k = 1 THEN Sent ELSE NoRequest]]

ClientInit ==
  /\ edgePrimary \in BOOLEAN
  /\ up = [s \in {"vm", "edge"} |-> TRUE]
  /\ rev = [s \in {"vm", "edge"} |-> 0]
  /\ outages = 0 /\ oldest = 0
  /\ cache = Blank /\ refused = FALSE
  /\ shown = Mounted(cache).shown
  /\ vmPoll = Mounted(cache).vmPoll
  /\ polls = Mounted(cache).polls
  /\ hidden = FALSE
  /\ timers = <<>> /\ handle = FALSE
  /\ fails = 0 /\ backupSpent = FALSE /\ edgeActive = FALSE
  /\ socket = FALSE /\ inbox = <<>>
  /\ reloads = 0

-----------------------------------------------------------------------------
(* The servers *)

Revise(s) ==
  /\ up[s] /\ rev[s] < MaxRev
  /\ rev' = [rev EXCEPT ![s] = @ + 1]
  \* the room broadcasts the event to its sockets
  /\ inbox' = IF s = "edge" /\ socket THEN Append(inbox, Blank) ELSE inbox
  /\ UNCHANGED <<edgePrimary, up, outages, oldest, pageVars, hidden, vmPoll, chainVars,
                 edgeVars, socket, reloads>>

\* The server stops answering; the edge's socket breaks with it.
Outage(s) ==
  /\ up[s] /\ outages < MaxOutages
  /\ up' = [up EXCEPT ![s] = FALSE]
  /\ outages' = outages + 1
  /\ IF s = "edge" THEN socket' = FALSE /\ inbox' = <<>> ELSE UNCHANGED socketVars
  /\ UNCHANGED <<edgePrimary, rev, oldest, pageVars, hidden, vmPoll, chainVars, edgeVars, reloads>>

Recover(s) ==
  /\ ~up[s]
  /\ up' = [up EXCEPT ![s] = TRUE]
  /\ UNCHANGED <<edgePrimary, rev, outages, oldest, pageVars, hidden, vmPoll, chainVars,
                 edgeVars, socketVars, reloads>>

\* What the front of the Oracle API answers with status 200: the server's list or
\* a copy the CDN kept of an earlier one; in an outage such a copy, or the empty
\* compatibility answer, which the CDN does not keep.
OracleAnswers ==
  {[from |-> "vm", rev |-> r] : r \in oldest .. rev["vm"]}
    \union (IF up["vm"] THEN {} ELSE {Blank})

\* s-maxage and stale-while-revalidate of the CDN's older copies pass.
CopiesExpire ==
  /\ oldest' = rev["vm"]
  /\ UNCHANGED <<edgePrimary, up, rev, outages, pageVars, hidden, vmPoll, chainVars, edgeVars,
                 socketVars, reloads>>

-----------------------------------------------------------------------------
(* The loop over the Oracle API: pollOnce, pollLoop *)

\* A turn of the loop; a hidden tab sends nothing.
VmSend ==
  /\ vmPoll.at = "idle" /\ ~hidden
  /\ vmPoll' = Sent
  /\ UNCHANGED <<edgePrimary, serverVars, pageVars, hidden, chainVars, edgeVars, socketVars,
                 reloads>>

VmAnswer ==
  /\ vmPoll.at = "sent"
  /\ \E f \in OracleAnswers : vmPoll' = [at |-> "answered", got |-> f]
  /\ UNCHANGED <<edgePrimary, serverVars, pageVars, hidden, chainVars, edgeVars, socketVars,
                 reloads>>

\* 502, a timeout or a broken connection: the list stays.
VmFail ==
  /\ vmPoll.at = "sent" /\ ~up["vm"]
  /\ vmPoll' = NoRequest
  /\ UNCHANGED <<edgePrimary, serverVars, pageVars, hidden, chainVars, edgeVars, socketVars,
                 reloads>>

\* The list f is shown and stored under the key of the page's mode; setItem may
\* throw, which storeCachedEvents swallows.
ShowAndStore(f) ==
  /\ shown' = f
  /\ \/ cache' = f /\ refused' = FALSE
     \/ refused' = ~edgePrimary /\ UNCHANGED cache

\* Mutant: the compatibility answer counts as a healthy empty feed.
VmApplyEmpty ==
  /\ vmPoll.at = "answered"
  /\ vmPoll' = NoRequest
  /\ IF edgeActive THEN UNCHANGED pageVars
     ELSE ShowAndStore(vmPoll.got)
  /\ UNCHANGED <<edgePrimary, serverVars, hidden, chainVars, edgeVars, socketVars, reloads>>

\* Mutant: nobody looks whether the edge took over.
VmApplyAnyway ==
  /\ vmPoll.at = "answered"
  /\ vmPoll' = NoRequest
  /\ IF vmPoll.got = Blank THEN UNCHANGED pageVars
     ELSE ShowAndStore(vmPoll.got)
  /\ UNCHANGED <<edgePrimary, serverVars, hidden, chainVars, edgeVars, socketVars, reloads>>

\* The answer is used unless the edge took over meanwhile; the empty
\* compatibility answer leaves the list as it is.
VmApply ==
  /\ vmPoll.at = "answered"
  /\ vmPoll' = NoRequest
  /\ IF edgeActive \/ vmPoll.got = Blank THEN UNCHANGED pageVars
     ELSE ShowAndStore(vmPoll.got)
  /\ UNCHANGED <<edgePrimary, serverVars, hidden, chainVars, edgeVars, socketVars, reloads>>

-----------------------------------------------------------------------------
(* The edge: applySnapshot, pollSnapshot, loadOracleBackup *)

\* It is stored under the key "humanitarian", whatever the mode of the page: the
\* page never reads it back.
ShowAndStoreAside(f) == shown' = f /\ UNCHANGED <<cache, refused>>

\* applySnapshot with a usable snapshot.
ApplySnapshot(f) ==
  /\ ShowAndStoreAside(f)
  /\ edgeActive' = TRUE
  /\ fails' = 0
  /\ UNCHANGED backupSpent

\* Mutant: the timer pollTimer names is not cleared.
StartPollUncleared(armed) ==
  /\ \E k \in Slots \ Busy : polls' = [polls EXCEPT ![k] = Sent]
  /\ timers' = armed
  /\ handle' = FALSE

\* pollSnapshot up to its await, with those timers armed: the one pollTimer
\* names is cleared.
StartPoll(armed) ==
  /\ \E k \in Slots \ Busy : polls' = [polls EXCEPT ![k] = Sent]
  /\ timers' = IF handle /\ armed # <<>> THEN Front(armed) ELSE armed
  /\ handle' = FALSE

\* The end of pollSnapshot: a timer is armed and pollTimer names it.
EndPoll(k) ==
  /\ polls' = [polls EXCEPT ![k] = NoRequest]
  /\ timers' = Append([i \in 1 .. Len(timers) |-> timers[i] \ {k}], Busy \ {k})
  /\ handle' = TRUE

\* The oldest timer fires.  The delay, 10 s, is longer than the time limits of
\* the requests, 4 s and 3 s for the backup: a poll that was in flight when the
\* timer was armed has ended.
TimerFires ==
  /\ timers # <<>>
  /\ Head(timers) = {}
  /\ StartPoll(Tail(timers))
  /\ UNCHANGED <<edgePrimary, serverVars, pageVars, hidden, vmPoll, edgeVars, socketVars,
                 reloads>>

PollAnswer(k) ==
  /\ polls[k].at = "sent" /\ up["edge"]
  /\ polls' = [polls EXCEPT ![k] = [at |-> "answered", got |-> [from |-> "edge", rev |-> rev["edge"]]]]
  /\ UNCHANGED <<edgePrimary, serverVars, pageVars, hidden, vmPoll, timers, handle, edgeVars,
                 socketVars, reloads>>

PollApply(k) ==
  /\ polls[k].at = "answered"
  /\ ApplySnapshot(polls[k].got)
  /\ EndPoll(k)
  /\ UNCHANGED <<edgePrimary, serverVars, hidden, vmPoll, socketVars, reloads>>

\* The request fails or the snapshot is unusable: the third failure in a row
\* asks for the backup, once a minute, and waits for it.
PollFail(k) ==
  /\ polls[k].at = "sent" /\ ~up["edge"]
  /\ fails' = IF fails < 3 THEN fails + 1 ELSE fails
  /\ edgeActive' = FALSE
  /\ IF fails' = 3 /\ ~backupSpent
       THEN /\ polls' = [polls EXCEPT ![k].at = "backup"]
            /\ backupSpent' = TRUE
            /\ UNCHANGED <<timers, handle>>
       ELSE EndPoll(k) /\ UNCHANGED backupSpent
  /\ UNCHANGED <<edgePrimary, serverVars, pageVars, hidden, vmPoll, socketVars, reloads>>

BackupAnswer(k) ==
  /\ polls[k].at = "backup"
  /\ \E f \in OracleAnswers :
       polls' = [polls EXCEPT ![k] = [at |-> "backupAnswered", got |-> f]]
  /\ UNCHANGED <<edgePrimary, serverVars, pageVars, hidden, vmPoll, timers, handle, edgeVars,
                 socketVars, reloads>>

\* The backup fails too: the list stays and the next poll is due.
BackupFail(k) ==
  /\ polls[k].at = "backup" /\ ~up["vm"]
  /\ EndPoll(k)
  /\ UNCHANGED <<edgePrimary, serverVars, pageVars, hidden, vmPoll, edgeVars, socketVars,
                 reloads>>

\* The backup's answer is applied as it is, whatever arrived meanwhile.
BackupApply(k) ==
  /\ polls[k].at = "backupAnswered"
  /\ ShowAndStoreAside(polls[k].got)
  /\ EndPoll(k)
  /\ UNCHANGED <<edgePrimary, serverVars, hidden, vmPoll, edgeVars, socketVars, reloads>>

\* A minute passes since the last attempt at the backup.
MinutePasses ==
  /\ backupSpent
  /\ backupSpent' = FALSE
  /\ UNCHANGED <<edgePrimary, serverVars, pageVars, hidden, vmPoll, chainVars, fails, edgeActive,
                 socketVars, reloads>>

-----------------------------------------------------------------------------
(* The edge's socket: connectWebSocket *)

\* The room greets a socket with its snapshot.
SocketOpens ==
  /\ edgePrimary /\ up["edge"] /\ ~socket
  /\ socket' = TRUE
  /\ inbox' = <<[from |-> "edge", rev |-> rev["edge"]]>>
  /\ UNCHANGED <<edgePrimary, serverVars, pageVars, hidden, vmPoll, chainVars, edgeVars, reloads>>

\* A snapshot is applied, any other message starts a poll.
SocketMessage ==
  /\ inbox # <<>>
  /\ inbox' = Tail(inbox)
  /\ \/ /\ Head(inbox) # Blank
        /\ ApplySnapshot(Head(inbox))
        /\ UNCHANGED chainVars
     \/ /\ Head(inbox) = Blank
        /\ StartPoll(timers)
        /\ UNCHANGED <<pageVars, edgeVars>>
  /\ UNCHANGED <<edgePrimary, serverVars, hidden, vmPoll, socket, reloads>>

-----------------------------------------------------------------------------
(* The page *)

Visibility ==
  /\ hidden' = ~hidden
  /\ UNCHANGED <<edgePrimary, serverVars, pageVars, vmPoll, chainVars, edgeVars, socketVars,
                 reloads>>

\* Only localStorage survives.
Reload(usable) ==
  /\ reloads < MaxReloads
  /\ reloads' = reloads + 1
  /\ shown' = Mounted(Loaded(cache, usable)).shown
  /\ vmPoll' = Mounted(Loaded(cache, usable)).vmPoll
  /\ polls' = Mounted(Loaded(cache, usable)).polls
  /\ timers' = <<>> /\ handle' = FALSE
  /\ fails' = 0 /\ backupSpent' = FALSE /\ edgeActive' = FALSE
  /\ socket' = FALSE /\ inbox' = <<>>
  /\ refused' = FALSE
  /\ UNCHANGED <<edgePrimary, serverVars, cache, hidden>>

ClientNext ==
  \/ \E s \in {"vm", "edge"} : Revise(s) \/ Outage(s) \/ Recover(s)
  \/ CopiesExpire
  \/ VmSend \/ VmAnswer \/ VmFail \/ VmApply
  \/ TimerFires
  \/ \E k \in Slots : \/ PollAnswer(k) \/ PollApply(k) \/ PollFail(k)
                      \/ BackupAnswer(k) \/ BackupFail(k) \/ BackupApply(k)
  \/ MinutePasses
  \/ SocketOpens \/ SocketMessage
  \/ Visibility
  \/ \E usable \in BOOLEAN : Reload(usable)

ClientSpec == ClientInit /\ [][ClientNext]_clientVars

\* Outages end, copies expire, the tab is looked at again and again, timers
\* fire, requests end and the socket's messages are handled.
ClientFairness ==
  /\ \A s \in {"vm", "edge"} : WF_clientVars(Recover(s))
  /\ WF_clientVars(CopiesExpire)
  /\ SF_clientVars(VmSend) /\ WF_clientVars(VmAnswer \/ VmFail) /\ WF_clientVars(VmApply)
  /\ WF_clientVars(TimerFires)
  /\ \A k \in Slots : WF_clientVars(PollAnswer(k) \/ PollFail(k) \/ BackupAnswer(k) \/ BackupFail(k)
                                \/ PollApply(k) \/ BackupApply(k))
  /\ WF_clientVars(Visibility /\ hidden)
  /\ WF_clientVars(SocketOpens) /\ WF_clientVars(SocketMessage)

ClientFairSpec == ClientSpec /\ ClientFairness

-----------------------------------------------------------------------------
(* Properties *)

\* The latest list of the transport the build prefers.
LatestList == LET s == IF edgePrimary THEN "edge" ELSE "vm" IN [from |-> s, rev |-> rev[s]]

\* Whatever the servers, the tab and overlapping requests did, once the servers
\* stay up the map comes to show the preferred server's latest list and keeps
\* it: no late answer of the other transport, or of an older poll, stays.
Converges == <>[](shown = LatestList)

\* In the default build nothing empties a map that showed something, not an
\* outage, not the front's empty compatibility answers and not a reload in the
\* middle of it: a reload may only when setItem had thrown on the list shown, or
\* what it stored has grown too old or cannot be read (pollOnce,
\* storeCachedEvents, loadCachedEvents).
LastGoodKept ==
  [][~edgePrimary /\ shown # Blank =>
       shown' # Blank \/ Reload(FALSE) \/ (refused /\ Reload(TRUE))]_clientVars

\* The polls a burst of socket messages starts do not go on for ever side by
\* side: their timers cancel one another until one chain is left, and one
\* always is (clearTimeout and setTimeout of pollSnapshot).
OneChain == <>[](edgePrimary => Cardinality(Busy) + Len(timers) = 1)

=============================================================================
