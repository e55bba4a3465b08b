---- MODULE MCRaft ----
(***************************************************************************)
(* Instances of Raft for TLC: the two shapes the peer lists take.          *)
(***************************************************************************)
EXTENDS RaftInvariant, TLC

\* What the comment in base_node.py intends: peers exclude the node itself.
OtherNodes == [n \in Node |-> Node \ {n}]

\* What docker-compose.yml gives: NODE_HOST=0.0.0.0 is no entry of
\* CLUSTER_NODES, so no entry is excluded.
AllNodes == [n \in Node |-> Node]

CONSTANTS n1, n2, n3

\* A reachable state of a majority cluster whose logs have diverged: n1 led term 1,
\* committed its no-op and has the proposals of two clients in its log alone when n2
\* takes the lead; n2 leads term 2, has its no-op on n3 and has heard no answer, and
\* its propose has timed out. The clients of n1 still wait. Calls of n1 are on the way
\* or lost.
Diverged(calls) ==
    LET one == [term |-> 1, leader |-> n1]
        two == [term |-> 2, leader |-> n2] IN
    /\ state = (n1 :> Follower @@ n2 :> Leader @@ n3 :> Follower)
    /\ currentTerm = [n \in Node |-> 2]
    /\ votedFor = (n1 :> None @@ n2 :> n2 @@ n3 :> None)
    /\ log = (n1 :> <<one, one, one>> @@ n2 :> <<one, two>> @@ n3 :> <<one, two>>)
    /\ votesReceived = (n1 :> {n1, n3} @@ n2 :> {n2, n3} @@ n3 :> {})
    /\ nextIndex = [n \in Node |-> [p \in Peers[n] |-> IF n = n3 THEN 1 ELSE 2]]
    /\ matchIndex = [n \in Node |-> [p \in Peers[n] |-> IF n = n1 THEN 1 ELSE 0]]
    /\ commitIndex = (n1 :> 1 @@ n2 :> 0 @@ n3 :> 0)
    /\ lastApplied = commitIndex
    /\ applied = (n1 :> <<one>> @@ n2 :> <<>> @@ n3 :> <<>>)
    /\ proposals = [n \in Node |-> IF n # n1 THEN {} ELSE
          {[index |-> i, term |-> 1, noop |-> FALSE, status |-> "pending"] : i \in 2..3}]
    /\ rounds = [n \in Node |-> 0]
    /\ heartbeat = (n1 :> FALSE @@ n2 :> TRUE @@ n3 :> FALSE)
    /\ messages = SetToBag(calls)
    /\ epoch = [n \in Node |-> 1]

DivergedSpec == Diverged({}) /\ [][Next]_vars

\* The round of n1's last proposal started when n1 had heard of n2's term and no
\* longer led: it carries the log of n1 in the term of n2.
LateRound ==
    [type |-> "append_entries", src |-> n1, dst |-> n3, epoch |-> 1, hbTerm |-> 0,
     term |-> 2, prevLogIndex |-> 1, prevLogTerm |-> 1,
     entries |-> SubSeq(log[n1], 2, 3), leaderCommit |-> 1]
LateRoundSpec == Diverged({LateRound}) /\ [][Next]_vars

Symmetry == Permutations(Node)
====
