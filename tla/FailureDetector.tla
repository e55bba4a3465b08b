---- MODULE FailureDetector ----
(***************************************************************************)
(* FailureDetector (src/src/communication/failure_detector.py) on one      *)
(* node, and the heartbeats the other nodes send it                        *)
(* (src/src/nodes/base_node.py).                                           *)
(*                                                                         *)
(* A node watches its peers under the addresses of its peer list; a        *)
(* heartbeat is recorded under the sender's node id, which is watched from *)
(* then on.  phi is a number computed from times; what matters of it is    *)
(* that it is 0 before the first heartbeat, that it passes the threshold   *)
(* when a node has been silent for long enough, and that it is below again *)
(* when a heartbeat has come.                                              *)
(*                                                                         *)
(* An operator named for what it gets wrong is a slip the properties must  *)
(* notice; no other definition uses it.                                    *)
(***************************************************************************)
EXTENDS Naturals, FiniteSets

CONSTANTS
    Peer,        \* the node ids of the peers
    Watched,     \* the names given to add_node: the entries of the peer list
    MaxCrashes,  \* bound: how often peers crash
    MaxFlying    \* bound: heartbeats of one peer that are on their way at once

ASSUME DetectorAssumption == MaxCrashes \in Nat /\ MaxFlying \in Nat

Name == Peer \cup Watched

VARIABLES
    up,         \* the peers that run
    crashes,    \* how many crashes there were
    flying,     \* heartbeats of each peer on their way
    heard,      \* the names with a heartbeat in their history
    overdue,    \* the names whose phi is at the threshold or above
    known,      \* _known_alive
    checking,   \* whether run_check_loop waits for a callback
    current,    \* current_alive of that turn of the loop
    failing,    \* the failures of that turn still to be reported
    told        \* the last event of each name: "failed", "recovered" or "none"

peerVars == <<up, crashes, flying>>
phiVars  == <<heard, overdue>>
loopVars == <<known, checking, current, failing, told>>
detectorVars == <<up, crashes, flying, heard, overdue, known, checking, current, failing, told>>

Monitored == Watched \cup heard

\* get_alive_nodes.
Alive == Monitored \ overdue

DetectorInit ==
    /\ up = Peer
    /\ crashes = 0
    /\ flying = [p \in Peer |-> 0]
    /\ heard = {}
    /\ overdue = {}
    /\ known = {}
    /\ checking = FALSE
    /\ current = {}
    /\ failing = {}
    /\ told = [x \in Name |-> "none"]

-----------------------------------------------------------------------------
(* Heartbeats *)

\* A turn of the peer's _heartbeat_loop comes to this node.  It waits a second for the
\* answer at most; the request may take longer.
SendHeartbeat(p) ==
    /\ p \in up
    /\ flying[p] < MaxFlying
    /\ flying' = [flying EXCEPT ![p] = @ + 1]
    /\ UNCHANGED <<up, crashes, phiVars, loopVars>>

LoseHeartbeat(p) ==
    /\ flying[p] > 0
    /\ flying' = [flying EXCEPT ![p] = @ - 1]
    /\ UNCHANGED <<up, crashes, phiVars, loopVars>>

\* handle_heartbeat and record_heartbeat: the sender is watched from now on.
RecordHeartbeat(p) ==
    /\ flying[p] > 0
    /\ flying' = [flying EXCEPT ![p] = @ - 1]
    /\ heard' = heard \cup {p}
    /\ overdue' = overdue \ {p}
    /\ UNCHANGED <<up, crashes, loopVars>>

\* Time passes without a heartbeat of a name that had one.
FallSilent(x) ==
    /\ x \in heard \ overdue
    /\ overdue' = overdue \cup {x}
    /\ UNCHANGED <<peerVars, heard, loopVars>>

Crash(p) ==
    /\ p \in up
    /\ crashes < MaxCrashes
    /\ crashes' = crashes + 1
    /\ up' = up \ {p}
    /\ UNCHANGED <<flying, phiVars, loopVars>>

Restart(p) ==
    /\ p \notin up
    /\ up' = up \cup {p}
    /\ UNCHANGED <<crashes, flying, phiVars, loopVars>>

-----------------------------------------------------------------------------
(* run_check_loop *)

\* Failures of fs have been reported; then the recoveries are, and the names that were
\* alive when the turn began are remembered.
FinishWithFresh(alive, fs) ==
    /\ told' = [x \in Name |-> CASE x \in fs            -> "failed"
                                 [] x \in Alive \ known -> "recovered"
                                 [] OTHER               -> told[x]]
    /\ known' = Alive
    /\ checking' = FALSE
    /\ current' = {}
    /\ failing' = {}

FinishWithoutForgetting(alive, fs) ==
    /\ told' = [x \in Name |-> CASE x \in fs            -> "failed"
                                 [] x \in alive \ known -> "recovered"
                                 [] OTHER               -> told[x]]
    /\ known' = known \cup alive
    /\ checking' = FALSE
    /\ current' = {}
    /\ failing' = {}

Finish(alive, fs) ==
    /\ told' = [x \in Name |-> CASE x \in fs            -> "failed"
                                 [] x \in alive \ known -> "recovered"
                                 [] OTHER               -> told[x]]
    /\ known' = alive
    /\ checking' = FALSE
    /\ current' = {}
    /\ failing' = {}

\* A turn begins; no callback is registered for recoveries, so without a failure it
\* ends without an await.
Check ==
    /\ ~checking
    /\ IF known \subseteq Alive
       THEN Finish(Alive, {})
       ELSE /\ checking' = TRUE
            /\ current' = Alive
            /\ failing' = known \ Alive
            /\ UNCHANGED <<known, told>>
    /\ UNCHANGED <<peerVars, phiVars>>

\* The callback for one failure runs as a task of its own while the loop waits for it.
ReportFailure(x) ==
    /\ checking
    /\ x \in failing
    /\ IF failing = {x}
       THEN Finish(current, {x})
       ELSE /\ failing' = failing \ {x}
            /\ told' = [told EXCEPT ![x] = "failed"]
            /\ UNCHANGED <<known, checking, current>>
    /\ UNCHANGED <<peerVars, phiVars>>

-----------------------------------------------------------------------------
PeerStep(p) ==
    SendHeartbeat(p) \/ LoseHeartbeat(p) \/ RecordHeartbeat(p) \/ Crash(p) \/ Restart(p)

LoopStep == Check \/ \E x \in failing : ReportFailure(x)

DetectorNext ==
    \/ \E p \in Peer : PeerStep(p)
    \/ \E x \in Name : FallSilent(x)
    \/ LoopStep

\* What time does by itself: it passes for a peer that sends nothing any more.
StoppedFallsSilent(p) ==
    /\ p \notin up
    /\ FallSilent(p)

DetectorSpec == DetectorInit /\ [][DetectorNext]_detectorVars

-----------------------------------------------------------------------------
(* Properties *)

\* What was last told of a node agrees with _known_alive, also while callbacks run and
\* heartbeats come in between: events of a node alternate and none is skipped
\* (the turn compares with what it listed when it began).
ToldIsKnown ==
    \A x \in Name :
        IF x \in known
        THEN IF checking /\ x \notin current
             THEN told[x] = (IF x \in failing THEN "recovered" ELSE "failed")
             ELSE told[x] = "recovered"
        ELSE told[x] \in {"none", "failed"}

\* A peer that was heard and is taken for alive, and stops for good, is reported under its
\* node id, although heartbeats it sent before may still arrive.
CrashIsReported ==
    \A p \in Peer :
        p \notin up /\ p \in known \cap heard ~> told[p] = "failed" \/ p \in up

\* A failure that was reported of a node that is heard again is taken back: by the time
\* a callback runs, its report may be out of date.
MistakeIsCorrected ==
    \A p \in Peer :
        told[p] = "failed" /\ p \notin overdue ~> told[p] = "recovered" \/ p \in overdue
====
