---------------------------- MODULE TrackHistory ----------------------------
(***************************************************************************)
(* What the durable AIS ingest path promises: fixes are accepted one after *)
(* the other, and accepted fixes enter the stored history in that order,   *)
(* each exactly once, some number at a time.  Crashes are not visible here.*)
(***************************************************************************)
EXTENDS Integers

CONSTANT MaxSeq

VARIABLES
    accepted,   \* number of fixes accepted; fix s is the s-th
    history     \* copies of a fix in the stored history

Init ==
    /\ accepted = 0
    /\ history = [s \in 1 .. MaxSeq |-> 0]

Accept ==
    /\ accepted' = accepted + 1
    /\ UNCHANGED history

\* S is new, and nothing older than a member of S is missing.
Store(S) ==
    /\ \A s \in S : s <= accepted /\ history[s] = 0
    /\ \A s \in S : \A t \in 1 .. s - 1 : t \in S \/ history[t] = 1
    /\ history' = [s \in 1 .. MaxSeq |-> IF s \in S THEN 1 ELSE history[s]]
    /\ UNCHANGED accepted

Next == Accept \/ \E S \in SUBSET (1 .. MaxSeq) : Store(S)

Spec == Init /\ [][Next]_<<accepted, history>>
=============================================================================
