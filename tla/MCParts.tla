---- MODULE MCParts ----
(***************************************************************************)
(* Instances for TLC that are small enough to share a run: the LFU store,  *)
(* the hash ring and the failure detector, which share no state with other *)
(* parts, and the calls of acquire under fair timeouts.  A behaviour       *)
(* exercises one of the four, and nothing relates them.                    *)
(***************************************************************************)
EXTENDS LFUCache, HashRing, FailureDetector, TLC

CONSTANTS m1, m2, m3, Client, Resource, Request, MaxBacklog

\* Neighbouring points, gaps, and keys in front of and behind all points.
ThreeMembers == (m1 :> {1, 4} @@ m2 :> {2, 6} @@ m3 :> {3})

VARIABLES table, backlog, committed, leads, calls, phase, aborting, expiring
Locks == INSTANCE LockManager

lockVars == <<table, backlog, committed, leads, calls, phase, aborting, expiring>>

VARIABLE part

allVars == <<lfuVars, ringVars, detectorVars, lockVars, part>>

Init ==
    /\ LFUInit /\ RingInit /\ DetectorInit /\ Locks!Init
    /\ part \in {"cache", "ring", "detector", "locks"}

CacheStep ==
    part = "cache" /\ LFUNext /\ UNCHANGED <<ringVars, detectorVars, lockVars, part>>
RingStep ==
    part = "ring" /\ RingNext /\ UNCHANGED <<lfuVars, detectorVars, lockVars, part>>

OfDetector(A) == part = "detector" /\ A /\ UNCHANGED <<lfuVars, ringVars, lockVars, part>>
DetectorStep  == OfDetector(DetectorNext)

OfLocks(A) == part = "locks" /\ A /\ UNCHANGED <<lfuVars, ringVars, detectorVars, part>>
LockStep   == OfLocks(Locks!Next)

Next == CacheStep \/ RingStep \/ DetectorStep \/ LockStep

\* The detector's loop gets its turn, and a peer that has stopped falls silent; the waits
\* of acquire have their timeouts. Nothing is assumed of the network, of Raft or of callers.
Spec ==
    /\ Init /\ [][Next]_allVars
    /\ WF_allVars(OfDetector(LoopStep))
    /\ \A p \in Peer : WF_allVars(OfDetector(StoppedFallsSilent(p)))
    /\ \A id \in Request :
          /\ WF_allVars(OfLocks(\E w \in calls : w.id = id /\ Locks!ProposeTimesOut(w)))
          /\ WF_allVars(OfLocks(\E w \in calls : w.id = id /\ Locks!WaitTimesOut(w)))
          /\ WF_allVars(OfLocks(\E w \in calls : w.id = id /\ Locks!CancelReturns(w)))

\* A call of acquire always gets an answer.
AcquireReturns == Locks!AcquireReturns
====
