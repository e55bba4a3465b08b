---- MODULE MCRaftClusters ----
(***************************************************************************)
(* Raft for TLC on two clusters in which every vote is needed, one of them *)
(* chosen at the start: two nodes that exclude themselves from their peers *)
(* run for three terms, and three nodes as docker-compose.yml starts them, *)
(* which list themselves, compete in one term with more calls in flight.   *)
(***************************************************************************)
EXTENDS TLC

CONSTANTS n1, n2, n3, None

VARIABLES
    cluster, state, currentTerm, votedFor, log, votesReceived, nextIndex, matchIndex,
    commitIndex, lastApplied, applied, proposals, rounds, heartbeat, messages, epoch

raftVars == <<state, currentTerm, votedFor, log, votesReceived, nextIndex, matchIndex,
              commitIndex, lastApplied, applied, proposals, rounds, heartbeat, messages, epoch>>
vars == <<cluster, raftVars>>

Pair == INSTANCE Raft WITH
    Node <- {n1, n2}, Peers <- (n1 :> {n2} @@ n2 :> {n1}),
    MaxTerm <- 3, MaxLog <- 2, MaxCommand <- 2, MaxInFlight <- 2, MaxCrashes <- 0

Deployed == INSTANCE Raft WITH
    Node <- {n1, n2, n3}, Peers <- [n \in {n1, n2, n3} |-> {n1, n2, n3}],
    MaxTerm <- 1, MaxLog <- 1, MaxCommand <- 0, MaxInFlight <- 3, MaxCrashes <- 0

Init ==
    \/ cluster = "pair" /\ Pair!Init
    \/ cluster = "deployed" /\ Deployed!Init

Next ==
    /\ UNCHANGED cluster
    /\ \/ cluster = "pair" /\ Pair!Next
       \/ cluster = "deployed" /\ Deployed!Next

Spec == Init /\ [][Next]_vars

\* The properties of Raft, for the cluster chosen.
InCluster(inPair, inDeployed) == IF cluster = "pair" THEN inPair ELSE inDeployed

TypeOK             == InCluster(Pair!TypeOK, Deployed!TypeOK)
ElectionSafety     == InCluster(Pair!ElectionSafety, Deployed!ElectionSafety)
VotersFollow       == InCluster(Pair!VotersFollow, Deployed!VotersFollow)
StateMachineSafety == InCluster(Pair!StateMachineSafety, Deployed!StateMachineSafety)
LeaderCompleteness == InCluster(Pair!LeaderCompleteness, Deployed!LeaderCompleteness)
ProvidesLog ==
    /\ InCluster(Pair!LogsStart, Deployed!LogsStart)
    /\ [][InCluster(Pair!LogsAdvance, Deployed!LogsAdvance)]_vars
CommitNeedsMajority ==
    [][InCluster(Pair!CommitsWithMajority, Deployed!CommitsWithMajority)]_vars

Symmetry == Permutations({n1, n2, n3})
====
