---- MODULE RaftInvariant ----
(***************************************************************************)
(* Why a term has at most one leader when every vote is needed, which is   *)
(* the quorum of a node that finds its own address in its peer list        *)
(* (base_node.py, start) in a cluster of two or three.                     *)
(*                                                                         *)
(* A node forgets its vote when it steps down within a term or restarts,   *)
(* so the usual argument (a node votes once in a term) is not available.   *)
(* What does hold: two nodes never have each other's vote in one term,     *)
(* because a candidate that keeps running keeps its own vote.              *)
(***************************************************************************)
EXTENDS Raft

\* No node leads with fewer votes than there are nodes.
Unanimous == \A n \in Node : \A S \in SUBSET Node : Cardinality(S) >= Quorum(n) => S = Node

Active(n) == state[n] # Follower

\* A node that stands for election or leads has its own vote.
OwnVote == \A n \in Node : Active(n) => votedFor[n] = n

\* A message of a call by n: made by a process of n, in a term n has reached since.
Called(n, m) ==
    /\ m.epoch <= epoch[n]
    /\ m.epoch = epoch[n] => m.term <= currentTerm[n]

Grant(m) == m.type = "vote_response" /\ m.granted

CallsNotAhead ==
    \A m \in BagToSet(messages) :
        /\ m.type = "vote_request" => Called(m.src, m)
        /\ Grant(m) => Called(m.dst, m)

\* c has v's vote in its current term, or the vote is on its way to c.
HasVote(c, v) ==
    \/ v \in votesReceived[c]
    \/ \E m \in BagToSet(messages) :
          /\ Grant(m)
          /\ m.src = v
          /\ m.dst = c
          /\ m.epoch = epoch[c]
          /\ m.term = currentTerm[c]

Rivals(c, d) == c # d /\ Active(c) /\ Active(d) /\ currentTerm[c] = currentTerm[d]

NoMutualVotes == \A c, d \in Node : Rivals(c, d) => ~(HasVote(c, d) /\ HasVote(d, c))

LeaderHasAllVotes == \A n \in Node : state[n] = Leader => votesReceived[n] = Node

\* The inductive invariant behind ElectionSafety under Unanimous
\* (handle_vote_request, handle_vote_response, _become_follower).
ElectionInvariant ==
    /\ TypeOK
    /\ OwnVote
    /\ CallsNotAhead
    /\ NoMutualVotes
    /\ LeaderHasAllVotes

-----------------------------------------------------------------------------
(* Logs.  Terms are in order in every cluster.  What else holds is about    *)
(* unanimous clusters whose processes do not restart: there is one log, of  *)
(* which every node has a prefix and the leader all.                        *)

EntriesOrdered(m) ==
    /\ \A i, j \in DOMAIN m.entries : i <= j => m.entries[i].term <= m.entries[j].term
    /\ \A i \in DOMAIN m.entries :
          m.prevLogTerm <= m.entries[i].term /\ m.entries[i].term <= m.term

RequestsOrdered ==
    \A m \in BagToSet(messages) : m.type = "append_entries" => EntriesOrdered(m)

\* The inductive invariant behind TermsOrdered, in any cluster (_handle_append_entries
\* checks prev_log_term and takes over the term before it merges).
TermsInvariant == TypeOK /\ TermsOrdered /\ RequestsOrdered

NeverRestarted == \A n \in Node : epoch[n] = 1

\* Whoever voted for a candidate or leader is out of that term's election.
VotersStay ==
    \A c, v \in Node : Active(c) /\ v # c /\ HasVote(c, v) =>
        \/ currentTerm[v] > currentTerm[c]
        \/ currentTerm[v] = currentTerm[c] /\ ~Active(v)

OneLog == \A a, b \in Node : AgreeOnCommon(log[a], log[b])

\* The log of a request's sender still has all that the request says.
Copied(m) ==
    /\ m.prevLogIndex + Len(m.entries) <= Len(log[m.src])
    /\ m.prevLogTerm = TermAt(log[m.src], m.prevLogIndex)
    /\ \A i \in DOMAIN m.entries : m.entries[i] = log[m.src][m.prevLogIndex + i]

\* A candidate has the log it asked for votes with.
Current(m) ==
    m.epoch = epoch[m.src] /\ m.term = currentTerm[m.src] /\ state[m.src] = Candidate =>
        m.lastLogIndex = Len(log[m.src]) /\ m.lastLogTerm = LastTerm(log[m.src])

\* Who answers, and who is answered, has the matched entries.
BothHave(m) == m.matched <= Len(log[m.src]) /\ m.matched <= Len(log[m.dst])

MessagesFollowLog ==
    \A m \in BagToSet(messages) :
        /\ m.type = "append_entries" => Copied(m)
        /\ m.type = "vote_request" => Current(m)
        /\ m.type = "append_response" => BothHave(m)

PeersIndexed ==
    \A n \in Node : \A p \in Peers[n] :
        /\ nextIndex[n][p] <= Len(log[n]) + 1
        /\ matchIndex[n][p] <= Len(log[n])
        /\ matchIndex[n][p] <= Len(log[p])

AppliedIsPrefix ==
    \A n \in Node :
        /\ commitIndex[n] <= Len(log[n])
        /\ lastApplied[n] <= commitIndex[n]
        /\ applied[n] = SubSeq(log[n], 1, lastApplied[n])

LeaderIsLongest ==
    \A n \in Node : state[n] = Leader => \A b \in Node : Len(log[b]) <= Len(log[n])

\* A candidate that would lose entries lacks the vote of a node that has them.
LongerLogWithholdsVote ==
    \A n \in Node : state[n] = Candidate =>
        \A b \in Node : Len(log[b]) > Len(log[n]) =>
            \E w \in Node : Len(log[w]) > Len(log[n]) /\ ~HasVote(n, w)

LogInvariant ==
    /\ ElectionInvariant
    /\ NeverRestarted
    /\ VotersStay
    /\ TermsInvariant
    /\ OneLog
    /\ MessagesFollowLog
    /\ PeersIndexed
    /\ AppliedIsPrefix
    /\ LeaderIsLongest
    /\ LongerLogWithholdsVote
====
