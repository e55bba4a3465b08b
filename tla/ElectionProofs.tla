---- MODULE ElectionProofs ----
(***************************************************************************)
(* ElectionSafety for every cluster whose quorum is every node, with any   *)
(* number of crashes, and so for the three nodes of docker-compose.yml.    *)
(***************************************************************************)
EXTENDS RaftInvariant, RaftProofs

-----------------------------------------------------------------------------
(* What the actions do to the set of messages *)

LEMMA SendAdds ==
    ASSUME TypeOK, NEW S, Send(S)
    PROVE  BagToSet(messages') = BagToSet(messages) \cup S
BY BagSum DEF Send, TypeOK

LEMMA DiscardAddsNothing ==
    ASSUME TypeOK, NEW m, Discard(m)
    PROVE  BagToSet(messages') \subseteq BagToSet(messages)
BY BagDifference DEF Discard, TypeOK

LEMMA ExchangeAdds ==
    ASSUME TypeOK, NEW m, NEW r,
           messages' = (messages (-) SetToBag({m})) (+) SetToBag({r})
    PROVE  BagToSet(messages') \subseteq BagToSet(messages) \cup {r}
<1> DEFINE B == messages (-) SetToBag({m})
<1>1. IsABag(B) /\ BagToSet(B) \subseteq BagToSet(messages)
  BY BagDifference DEF TypeOK
<1> HIDE DEF B
<1>2. messages' = B (+) SetToBag({r})
  BY DEF B
<1>3. BagToSet(B (+) SetToBag({r})) = BagToSet(B) \cup {r}
  BY <1>1, BagSum
<1> QED
  BY <1>1, <1>2, <1>3

LEMMA ReplyAdds ==
    ASSUME TypeOK, NEW m, NEW r, Reply(m, r)
    PROVE  BagToSet(messages') \subseteq BagToSet(messages) \cup {r}
BY DiscardAddsNothing, ExchangeAdds DEF Reply

-----------------------------------------------------------------------------
(* Steps in which no node stands for election, votes or counts a vote *)

Quiet ==
    /\ \A n \in Node :
          \/ /\ epoch'[n] = epoch[n]
             /\ votesReceived'[n] = votesReceived[n]
             /\ currentTerm'[n] >= currentTerm[n]
          \/ /\ epoch'[n] > epoch[n]
             /\ state'[n] = Follower
    /\ \A n \in Node : state'[n] # Follower =>
          /\ state'[n] = state[n]
          /\ currentTerm'[n] = currentTerm[n]
          /\ votedFor'[n] = votedFor[n]
    /\ \A m \in BagToSet(messages') :
          m.type = "vote_request" \/ Grant(m) => m \in BagToSet(messages)

\* CallsNotAhead survives when terms grow while a process runs and no call is new.
LEMMA CalledLater ==
    ASSUME TypeOK, TypeOK', NEW n \in Node, NEW m \in Message, Called(n, m),
           \/ epoch'[n] = epoch[n] /\ currentTerm'[n] >= currentTerm[n]
           \/ epoch'[n] > epoch[n]
    PROVE  Called(n, m)'
<1>1. /\ m.epoch \in Nat /\ m.term \in Nat
      /\ epoch[n] \in Nat /\ epoch'[n] \in Nat
      /\ currentTerm[n] \in Nat /\ currentTerm'[n] \in Nat
  BY MessageFields DEF TypeOK
<1> QED
  BY <1>1 DEF Called

LEMMA QuietStep ==
    ASSUME ElectionInvariant, TypeOK', Quiet
    PROVE  ElectionInvariant'
<1>1. TypeOK
  BY DEF ElectionInvariant
<1>2. OwnVote'
  BY DEF ElectionInvariant, OwnVote, Active, Quiet
<1>3. CallsNotAhead'
  <2> SUFFICES ASSUME NEW m \in BagToSet(messages')
               PROVE  /\ m.type = "vote_request" => Called(m.src, m)'
                      /\ Grant(m) => Called(m.dst, m)'
    BY DEF CallsNotAhead, Grant
  <2>1. m \in Message /\ m.src \in Node /\ m.dst \in Node
    BY MessageFields DEF TypeOK
  <2>2. ASSUME m.type = "vote_request"
        PROVE  Called(m.src, m)'
    <3>1. Called(m.src, m)
      BY <2>2 DEF ElectionInvariant, CallsNotAhead, Quiet
    <3> QED
      BY <1>1, <2>1, <3>1, CalledLater DEF Quiet
  <2>3. ASSUME Grant(m)
        PROVE  Called(m.dst, m)'
    <3>1. Called(m.dst, m)
      BY <2>3 DEF ElectionInvariant, CallsNotAhead, Quiet
    <3> QED
      BY <1>1, <2>1, <3>1, CalledLater DEF Quiet
  <2> QED
    BY <2>2, <2>3
<1>4. NoMutualVotes'
  <2>1. ASSUME NEW c \in Node, NEW v \in Node, state'[c] # Follower, HasVote(c, v)'
        PROVE  HasVote(c, v)
    <3>1. /\ currentTerm'[c] = currentTerm[c]
          /\ epoch'[c] = epoch[c]
          /\ votesReceived'[c] = votesReceived[c]
      BY <2>1 DEF Quiet
    <3>2. \A m \in BagToSet(messages') : Grant(m) => m \in BagToSet(messages)
      BY DEF Quiet
    <3> QED
      BY <2>1, <3>1, <3>2 DEF HasVote, Grant
  <2>2. ASSUME NEW c \in Node, NEW d \in Node, Rivals(c, d)'
        PROVE  Rivals(c, d)
    BY <2>2 DEF Rivals, Active, Quiet
  <2>3. ASSUME NEW c \in Node, NEW d \in Node, Rivals(c, d)'
        PROVE  ~(HasVote(c, d)' /\ HasVote(d, c)')
    <3>1. ~(HasVote(c, d) /\ HasVote(d, c))
      BY <2>2, <2>3 DEF ElectionInvariant, NoMutualVotes
    <3>2. state'[c] # Follower /\ state'[d] # Follower
      BY <2>3 DEF Rivals, Active
    <3> QED
      BY <2>1, <3>1, <3>2
  <2> QED
    BY <2>3 DEF NoMutualVotes
<1>5. LeaderHasAllVotes'
  BY DEF ElectionInvariant, LeaderHasAllVotes, Quiet, Leader, Follower
<1> QED
  BY <1>2, <1>3, <1>4, <1>5 DEF ElectionInvariant

LEMMA FollowerQuiet ==
    ASSUME TypeOK, NEW n \in Node, NEW t \in Nat, t >= currentTerm[n], BecomeFollower(n, t),
           UNCHANGED <<votesReceived, epoch>>,
           \A m \in BagToSet(messages') :
              m.type = "vote_request" \/ Grant(m) => m \in BagToSet(messages)
    PROVE  Quiet
<1>1. \A a \in Node : /\ epoch'[a] = epoch[a]
                      /\ votesReceived'[a] = votesReceived[a]
                      /\ currentTerm'[a] >= currentTerm[a]
  BY DEF BecomeFollower, TypeOK
<1>2. \A a \in Node : state'[a] # Follower =>
          /\ state'[a] = state[a]
          /\ currentTerm'[a] = currentTerm[a]
          /\ votedFor'[a] = votedFor[a]
  BY DEF BecomeFollower, TypeOK
<1> QED
  BY <1>1, <1>2 DEF Quiet

\* Steps that leave the election's variables alone and send no vote messages.
LEMMA UnchangedQuiet ==
    ASSUME TypeOK, UNCHANGED <<state, currentTerm, votedFor, votesReceived, epoch>>,
           \A m \in BagToSet(messages') :
              m.type = "vote_request" \/ Grant(m) => m \in BagToSet(messages)
    PROVE  Quiet
<1>1. \A n \in Node : currentTerm[n] >= currentTerm[n]
  BY DEF TypeOK
<1> QED
  BY <1>1 DEF Quiet

LEMMA HandleAppendEntriesQuiet ==
    ASSUME TypeOK, NEW m \in BagToSet(messages), HandleAppendEntries(m)
    PROVE  Quiet
<1>1. m.dst \in Node /\ m.term \in Nat
  BY MessageFields DEF TypeOK
<1>2. UNCHANGED <<votesReceived, epoch>>
  BY DEF HandleAppendEntries, candidateVars
<1>3. PICK t, b : Reply(m, AppendAnswer(m, t, b))
  BY DEF HandleAppendEntries, RejectStaleAppend, RejectInconsistentAppend, AcceptAppend
<1>4. ASSUME NEW r \in BagToSet(messages'), r.type = "vote_request" \/ Grant(r)
      PROVE  r \in BagToSet(messages)
  <2>1. r # AppendAnswer(m, t, b)
    BY <1>4 DEF AppendAnswer, Grant
  <2> QED
    BY <1>3, <1>4, <2>1, ReplyAdds
<1>5. CASE RejectStaleAppend(m)
  BY <1>2, <1>4, <1>5, UnchangedQuiet DEF RejectStaleAppend
<1>6. CASE ~RejectStaleAppend(m)
  <2>1. BecomeFollower(m.dst, m.term) /\ m.term >= currentTerm[m.dst]
    BY <1>6 DEF HandleAppendEntries, RejectInconsistentAppend, AcceptAppend
  <2> QED
    BY <1>1, <1>2, <1>4, <2>1, FollowerQuiet
<1> QED
  BY <1>5, <1>6

LEMMA HandleAppendEntriesResponseQuiet ==
    ASSUME TypeOK, NEW m \in BagToSet(messages), HandleAppendEntriesResponse(m)
    PROVE  Quiet
<1>1. m.dst \in Node /\ m.term \in Nat /\ currentTerm[m.dst] \in Nat
  BY MessageFields DEF TypeOK
<1>2. UNCHANGED <<votesReceived, epoch>>
  BY DEF HandleAppendEntriesResponse, candidateVars
<1>3. BagToSet(messages') \subseteq BagToSet(messages)
  BY DiscardAddsNothing DEF HandleAppendEntriesResponse
<1>4. CASE m.term > currentTerm[m.dst]
  <2>1. BecomeFollower(m.dst, m.term)
    BY <1>4 DEF HandleAppendEntriesResponse
  <2> QED
    BY <1>1, <1>2, <1>3, <1>4, <2>1, FollowerQuiet
<1>5. CASE ~(m.term > currentTerm[m.dst])
  <2>1. UNCHANGED <<state, currentTerm, votedFor>>
    BY <1>5 DEF HandleAppendEntriesResponse
  <2> QED
    BY <1>2, <1>3, <2>1, UnchangedQuiet
<1> QED
  BY <1>4, <1>5

LEMMA SendsAppendsQuiet ==
    ASSUME TypeOK, NEW n \in Node, ReplicateToAll(n) \/ Heartbeat(n)
    PROVE  Quiet
<1>1. PICK h : Send(AppendRequests(n, h))
  BY DEF ReplicateToAll, Heartbeat
<1>2. ASSUME NEW r \in BagToSet(messages'), r.type = "vote_request" \/ Grant(r)
      PROVE  r \in BagToSet(messages)
  <2>1. \A q \in AppendRequests(n, h) : q.type = "append_entries"
    BY DEF AppendRequests
  <2>2. r \notin AppendRequests(n, h)
    BY <1>2, <2>1 DEF Grant
  <2> QED
    BY <1>1, <2>2, SendAdds
<1> QED
  BY <1>2, UnchangedQuiet DEF ReplicateToAll, Heartbeat, candidateVars

LEMMA LosesMessageQuiet ==
    ASSUME TypeOK, NEW m \in BagToSet(messages), CallTimesOut(m) \/ Lose(m)
    PROVE  Quiet
<1>1. CASE CallTimesOut(m)
  <2> DEFINE r == [m EXCEPT !.epoch = 0]
  <2>1. r.type = "append_entries"
    <3>1. m \in AppendRequest
      BY <1>1, MessageFields DEF TypeOK, CallTimesOut
    <3> QED
      BY <3>1 DEF AppendRequest
  <2>2. BagToSet(messages') \subseteq BagToSet(messages) \cup {r}
    BY <1>1, ExchangeAdds DEF CallTimesOut
  <2> HIDE DEF r
  <2>3. \A q \in BagToSet(messages') :
           q.type = "vote_request" \/ Grant(q) => q \in BagToSet(messages)
    BY <2>1, <2>2 DEF Grant
  <2> QED
    BY <1>1, <2>3, UnchangedQuiet DEF CallTimesOut, candidateVars
<1>2. CASE Lose(m)
  BY <1>2, DiscardAddsNothing, UnchangedQuiet DEF Lose, candidateVars
<1> QED
  BY <1>1, <1>2

LEMMA ClientQuiet ==
    ASSUME TypeOK, NEW n \in Node,
           Propose(n) \/ Apply(n) \/ \E p \in proposals[n] : ReturnToClient(n, p)
    PROVE  Quiet
<1>1. UNCHANGED <<state, currentTerm, votedFor, votesReceived, epoch, messages>>
  BY DEF Propose, Apply, ReturnToClient, ProposeReturns, ProposeTimesOut, candidateVars
<1> QED
  BY <1>1, UnchangedQuiet

LEMMA CrashQuiet ==
    ASSUME TypeOK, NEW n \in Node, Crash(n)
    PROVE  Quiet
<1>1. \A a \in Node :
          \/ /\ epoch'[a] = epoch[a]
             /\ votesReceived'[a] = votesReceived[a]
             /\ currentTerm'[a] >= currentTerm[a]
          \/ epoch'[a] > epoch[a] /\ state'[a] = Follower
  BY DEF Crash, TypeOK
<1>2. \A a \in Node : state'[a] # Follower =>
          /\ state'[a] = state[a]
          /\ currentTerm'[a] = currentTerm[a]
          /\ votedFor'[a] = votedFor[a]
  BY DEF Crash, TypeOK
<1>3. messages' = messages
  BY DEF Crash
<1> QED
  BY <1>1, <1>2, <1>3 DEF Quiet

-----------------------------------------------------------------------------
(* A node stands for election *)

LEMMA StartElectionStep ==
    ASSUME Unanimous, ElectionInvariant, TypeOK', NEW n \in Node, StartElection(n)
    PROVE  ElectionInvariant'
<1> DEFINE t == currentTerm[n] + 1
<1>1. TypeOK
  BY DEF ElectionInvariant
<1>2. /\ currentTerm' = [currentTerm EXCEPT ![n] = t]
      /\ votedFor' = [votedFor EXCEPT ![n] = n]
      /\ votesReceived' = [votesReceived EXCEPT ![n] = {n}]
      /\ epoch' = epoch
      /\ currentTerm \in [Node -> Nat]
  BY <1>1 DEF StartElection, TypeOK
<1>3. \E s \in {Candidate, Leader} : state' = [state EXCEPT ![n] = s]
  BY DEF StartElection, BecomeLeader
<1>4. \A m \in BagToSet(messages') \ BagToSet(messages) :
          /\ m.type = "vote_request" /\ m.src = n /\ m.epoch = epoch[n] /\ m.term = t
  <2>1. CASE Peers[n] = {}
    BY <2>1 DEF StartElection
  <2>2. CASE Peers[n] # {}
    BY <1>1, <2>2, SendAdds DEF StartElection
  <2> QED
    BY <2>1, <2>2
<1>5. OwnVote'
  BY <1>1, <1>2, <1>3 DEF ElectionInvariant, OwnVote, Active, TypeOK
<1>6. CallsNotAhead'
  <2> SUFFICES ASSUME NEW m \in BagToSet(messages')
               PROVE  /\ m.type = "vote_request" => Called(m.src, m)'
                      /\ Grant(m) => Called(m.dst, m)'
    BY DEF CallsNotAhead, Grant
  <2>1. m \in Message /\ m.src \in Node /\ m.dst \in Node
    BY MessageFields DEF TypeOK
  <2>2. \A a \in Node : epoch'[a] = epoch[a] /\ currentTerm'[a] >= currentTerm[a]
    BY <1>2
  <2>3. CASE m \in BagToSet(messages)
    BY <1>1, <2>1, <2>2, <2>3, CalledLater DEF ElectionInvariant, CallsNotAhead
  <2>4. CASE m \notin BagToSet(messages)
    <3>1. ~Grant(m) /\ m.src = n
      BY <1>4, <2>4 DEF Grant
    <3>2. epoch[n] \in Nat
      BY <1>1 DEF TypeOK
    <3>3. Called(n, m)'
      BY <1>2, <1>4, <2>4, <3>2 DEF Called
    <3> QED
      BY <3>1, <3>3
  <2> QED
    BY <2>3, <2>4
<1>7. \A v \in Node : HasVote(n, v)' => v = n
  <2> SUFFICES ASSUME NEW m \in BagToSet(messages'), Grant(m), m.dst = n,
                      m.epoch = epoch'[n], m.term = currentTerm'[n]
               PROVE  FALSE
    BY <1>2, <1>1 DEF HasVote, Grant, TypeOK
  <2>1. m \in BagToSet(messages)
    BY <1>4 DEF Grant
  <2>2. m.term <= currentTerm[n]
    BY <1>2, <2>1 DEF ElectionInvariant, CallsNotAhead, Called
  <2> QED
    BY <1>2, <2>2
<1>8. NoMutualVotes'
  <2> SUFFICES ASSUME NEW c \in Node, NEW d \in Node, Rivals(c, d)',
                      HasVote(c, d)', HasVote(d, c)'
               PROVE  FALSE
    BY DEF NoMutualVotes
  <2>1. c # d /\ c # n /\ d # n
    BY <1>7 DEF Rivals
  <2>2. \A a \in {c, d} : /\ state'[a] = state[a]
                          /\ currentTerm'[a] = currentTerm[a]
                          /\ votesReceived'[a] = votesReceived[a]
    <3>1. \A a \in Node : a # n => state'[a] = state[a]
      BY <1>1, <1>3 DEF TypeOK
    <3>2. \A a \in Node : a # n => /\ currentTerm'[a] = currentTerm[a]
                                   /\ votesReceived'[a] = votesReceived[a]
      BY <1>1, <1>2 DEF TypeOK
    <3> QED
      BY <2>1, <3>1, <3>2
  <2>3. Rivals(c, d)
    BY <2>2 DEF Rivals, Active
  <2>4. \A m \in BagToSet(messages') : Grant(m) => m \in BagToSet(messages)
    BY <1>4 DEF Grant
  <2>5. HasVote(c, d) /\ HasVote(d, c)
    BY <1>2, <2>2, <2>4 DEF HasVote, Grant
  <2> QED
    BY <2>3, <2>5 DEF ElectionInvariant, NoMutualVotes
<1>9. LeaderHasAllVotes'
  <2>1. CASE Peers[n] = {}
    <3>1. Cardinality({n}) = 1 /\ Cardinality({}) = 0
      BY FS_Singleton, FS_EmptySet
    <3>2. Quorum(n) = 1
      BY <2>1, <3>1 DEF Quorum
    <3>3. {n} = Node
      BY <3>1, <3>2 DEF Unanimous
    <3> QED
      BY <1>1, <1>2, <3>3 DEF LeaderHasAllVotes, TypeOK
  <2>2. CASE Peers[n] # {}
    <3>1. state' = [state EXCEPT ![n] = Candidate]
      BY <2>2 DEF StartElection
    <3> QED
      BY <1>1, <1>2, <3>1 DEF ElectionInvariant, LeaderHasAllVotes, TypeOK, Candidate, Leader
  <2> QED
    BY <2>1, <2>2
<1> QED
  BY <1>5, <1>6, <1>8, <1>9 DEF ElectionInvariant

-----------------------------------------------------------------------------
(* A node answers a request for its vote *)

LEMMA HandleVoteRequestStep ==
    ASSUME ElectionInvariant, TypeOK', NEW m \in BagToSet(messages), HandleVoteRequest(m)
    PROVE  ElectionInvariant'
<1> DEFINE n == m.dst
           newer == m.term > currentTerm[n]
<1>1. TypeOK
  BY DEF ElectionInvariant
<1>2. /\ m \in Message /\ m.type = "vote_request"
      /\ n \in Node /\ m.src \in Node /\ m.term \in Nat /\ currentTerm[n] \in Nat
  BY <1>1, MessageFields DEF TypeOK, HandleVoteRequest
<1>3. /\ state' = [state EXCEPT ![n] = IF newer THEN Follower ELSE @]
      /\ currentTerm' = [currentTerm EXCEPT ![n] = IF newer THEN m.term ELSE @]
      /\ epoch' = epoch
      /\ votesReceived' = votesReceived
  BY DEF HandleVoteRequest, candidateVars
<1>4. PICK g \in BOOLEAN :
        /\ g => /\ m.term >= currentTerm[n]
                /\ newer \/ votedFor[n] \in {None, m.src}
        /\ votedFor' = [votedFor EXCEPT ![n] = IF g THEN m.src
                                               ELSE IF newer THEN None ELSE votedFor[n]]
        /\ Reply(m, [type |-> "vote_response", src |-> n, dst |-> m.src, epoch |-> m.epoch,
                     term |-> currentTerm'[n], granted |-> g])
  <2> DEFINE vote == IF newer THEN None ELSE votedFor[n]
             grant == /\ m.term >= currentTerm[n]
                      /\ VoteFree(vote, m.src)
                      /\ UpToDate(m, log[n])
  <2>1. /\ votedFor' = [votedFor EXCEPT ![n] = IF grant THEN m.src ELSE vote]
        /\ Reply(m, [type |-> "vote_response", src |-> n, dst |-> m.src, epoch |-> m.epoch,
                     term |-> currentTerm'[n], granted |-> grant])
    BY DEF HandleVoteRequest
  <2>2. grant => m.term >= currentTerm[n] /\ (newer \/ votedFor[n] \in {None, m.src})
    BY DEF VoteFree
  <2>3. grant \in BOOLEAN
    OBVIOUS
  <2> HIDE DEF grant
  <2> QED
    BY <2>1, <2>2, <2>3
<1>5. currentTerm'[n] = IF newer THEN m.term ELSE currentTerm[n]
  BY <1>1, <1>2, <1>3 DEF TypeOK
\* The only new message, and a grant only when n stands behind m.src in this term.
<1>6. ASSUME NEW r \in BagToSet(messages'), r \notin BagToSet(messages)
      PROVE  /\ r.type = "vote_response" /\ r.granted = g
             /\ r.src = n /\ r.dst = m.src /\ r.epoch = m.epoch /\ r.term = currentTerm'[n]
  BY <1>1, <1>4, <1>6, ReplyAdds
<1>7. g => currentTerm'[n] = m.term
  BY <1>2, <1>4, <1>5
<1>8. \A a \in Node : /\ epoch'[a] = epoch[a]
                      /\ votesReceived'[a] = votesReceived[a]
                      /\ currentTerm'[a] >= currentTerm[a]
                      /\ a # n => /\ state'[a] = state[a]
                                  /\ currentTerm'[a] = currentTerm[a]
                                  /\ votedFor'[a] = votedFor[a]
  <2>1. \A a \in Node : /\ epoch'[a] = epoch[a]
                        /\ votesReceived'[a] = votesReceived[a]
    BY <1>3
  <2>2. \A a \in Node : a # n => state'[a] = state[a] /\ currentTerm'[a] = currentTerm[a]
    BY <1>1, <1>2, <1>3 DEF TypeOK
  <2>3. \A a \in Node : a # n => votedFor'[a] = votedFor[a]
    BY <1>1, <1>2, <1>4 DEF TypeOK
  <2>4. \A a \in Node : currentTerm[a] \in Nat
    BY <1>1 DEF TypeOK
  <2>5. \A a \in Node : currentTerm'[a] >= currentTerm[a]
    BY <1>2, <1>5, <2>2, <2>4
  <2> QED
    BY <2>1, <2>2, <2>3, <2>5
<1>9. newer => state'[n] = Follower
  BY <1>1, <1>2, <1>3 DEF TypeOK
<1>10. ~newer => state'[n] = state[n] /\ currentTerm'[n] = currentTerm[n]
  BY <1>1, <1>2, <1>3 DEF TypeOK
<1>11. \A a \in Node : Active(a)' =>
          Active(a) /\ state'[a] = state[a] /\ currentTerm'[a] = currentTerm[a]
  BY <1>8, <1>9, <1>10 DEF Active
\* A node that still stands for election has its own vote, so it grants no other.
<1>12. Active(n)' /\ g => m.src = n
  <2> SUFFICES ASSUME Active(n)', g PROVE m.src = n
    OBVIOUS
  <2>1. ~newer /\ Active(n)
    BY <1>2, <1>9, <1>11 DEF Active
  <2>2. votedFor[n] = n
    BY <1>2, <2>1 DEF ElectionInvariant, OwnVote
  <2> QED
    BY <1>2, <1>4, <2>1, <2>2, NodeAssumption
<1>13. OwnVote'
  <2> SUFFICES ASSUME NEW a \in Node, Active(a)' PROVE votedFor'[a] = a
    BY DEF OwnVote, Active
  <2>1. votedFor[a] = a
    BY <1>11 DEF ElectionInvariant, OwnVote
  <2>2. CASE a # n
    BY <1>8, <2>1, <2>2
  <2>3. CASE a = n
    <3>1. ~newer
      BY <1>9, <2>3 DEF Active
    <3>2. votedFor'[n] = IF g THEN m.src ELSE votedFor[n]
      BY <1>1, <1>2, <1>4, <3>1 DEF TypeOK
    <3> QED
      BY <1>12, <2>1, <2>3, <3>2
  <2> QED
    BY <2>2, <2>3
<1>14. CallsNotAhead'
  <2> SUFFICES ASSUME NEW r \in BagToSet(messages')
               PROVE  /\ r.type = "vote_request" => Called(r.src, r)'
                      /\ Grant(r) => Called(r.dst, r)'
    BY DEF CallsNotAhead, Grant
  <2>1. r \in Message /\ r.src \in Node /\ r.dst \in Node
    BY MessageFields DEF TypeOK
  <2>2. CASE r \in BagToSet(messages)
    BY <1>1, <1>8, <2>1, <2>2, CalledLater DEF ElectionInvariant, CallsNotAhead
  <2>3. CASE r \notin BagToSet(messages)
    <3>1. Called(m.src, m)
      BY <1>2 DEF ElectionInvariant, CallsNotAhead
    <3>2. Called(m.src, m)'
      BY <1>1, <1>2, <1>8, <3>1, CalledLater
    <3>3. Grant(r) => r.term = m.term /\ r.epoch = m.epoch /\ r.dst = m.src
      BY <1>6, <1>7, <2>3 DEF Grant
    <3>4. Grant(r) => Called(r.dst, r)'
      BY <3>2, <3>3 DEF Called
    <3> QED
      BY <1>6, <2>3, <3>4
  <2> QED
    BY <2>2, <2>3
<1>15. NoMutualVotes'
  <2> SUFFICES ASSUME NEW c \in Node, NEW d \in Node, Rivals(c, d)',
                      HasVote(c, d)', HasVote(d, c)'
               PROVE  FALSE
    BY DEF NoMutualVotes
  <2>1. Rivals(c, d)
    BY <1>11 DEF Rivals, Active
  <2>2. ASSUME NEW a \in Node, NEW b \in Node, a # b, Active(a)', Active(b)', HasVote(a, b)'
        PROVE  HasVote(a, b)
    <3>1. CASE b \in votesReceived'[a]
      BY <1>8, <3>1 DEF HasVote
    <3>2. ASSUME NEW r \in BagToSet(messages'), Grant(r), r.src = b, r.dst = a,
                 r.epoch = epoch'[a], r.term = currentTerm'[a]
          PROVE  HasVote(a, b)
      <4>1. r \in BagToSet(messages)
        <5> SUFFICES ASSUME r \notin BagToSet(messages) PROVE FALSE
          OBVIOUS
        <5>1. g /\ n = b /\ m.src = a
          BY <1>6, <3>2 DEF Grant
        <5> QED
          BY <1>12, <2>2, <5>1
      <4>2. r.epoch = epoch[a] /\ r.term = currentTerm[a]
        BY <1>8, <1>11, <2>2, <3>2
      <4> QED
        BY <3>2, <4>1, <4>2 DEF HasVote
    <3> QED
      BY <2>2, <3>1, <3>2 DEF HasVote, Grant
  <2>3. c # d /\ Active(c)' /\ Active(d)'
    BY DEF Rivals, Active
  <2>4. HasVote(c, d) /\ HasVote(d, c)
    BY <2>2, <2>3
  <2> QED
    BY <2>1, <2>4 DEF ElectionInvariant, NoMutualVotes
<1>16. LeaderHasAllVotes'
  BY <1>8, <1>11 DEF ElectionInvariant, LeaderHasAllVotes, Active, Leader, Follower
<1> QED
  BY <1>13, <1>14, <1>15, <1>16 DEF ElectionInvariant

-----------------------------------------------------------------------------
(* A candidate counts a vote *)

LEMMA HandleVoteResponseStep ==
    ASSUME Unanimous, ElectionInvariant, TypeOK',
           NEW m \in BagToSet(messages), HandleVoteResponse(m)
    PROVE  ElectionInvariant'
<1> DEFINE n == m.dst
           votes == votesReceived[n] \cup {m.src}
<1>1. TypeOK
  BY DEF ElectionInvariant
<1>2. /\ n \in Node /\ m.src \in Node /\ m.term \in Nat /\ currentTerm[n] \in Nat
      /\ m.type = "vote_response" /\ m.epoch = epoch[n] /\ epoch' = epoch
  BY <1>1, MessageFields DEF TypeOK, HandleVoteResponse
<1>3. BagToSet(messages') \subseteq BagToSet(messages)
  BY <1>1, DiscardAddsNothing DEF HandleVoteResponse
<1>4. CASE state[n] = Candidate /\ m.term > currentTerm[n]
  <2>1. BecomeFollower(n, m.term) /\ votesReceived' = votesReceived
    BY <1>4 DEF HandleVoteResponse, candidateVars
  <2>2. Quiet
    BY <1>1, <1>2, <1>3, <1>4, <2>1, FollowerQuiet
  <2> QED
    BY <2>2, QuietStep
<1>5. CASE ~(state[n] = Candidate /\ m.granted /\ m.term = currentTerm[n])
           /\ ~(state[n] = Candidate /\ m.term > currentTerm[n])
  <2>1. UNCHANGED <<state, currentTerm, votedFor, votesReceived, epoch>>
    BY <1>2, <1>5 DEF HandleVoteResponse, candidateVars
  <2>2. Quiet
    BY <1>1, <1>3, <2>1, UnchangedQuiet
  <2> QED
    BY <2>2, QuietStep
<1>6. CASE state[n] = Candidate /\ m.granted /\ m.term = currentTerm[n]
  <2>1. /\ currentTerm' = currentTerm
        /\ votedFor' = votedFor
        /\ votesReceived' = [votesReceived EXCEPT ![n] = votes]
        /\ IF Cardinality(votes) >= Quorum(n)
           THEN state' = [state EXCEPT ![n] = Leader]
           ELSE state' = state
    <3>1. ~(m.term > currentTerm[n])
      BY <1>2, <1>6
    <3>2. UNCHANGED <<currentTerm, votedFor>>
      BY <3>1 DEF HandleVoteResponse
    <3>3. /\ votesReceived' = [votesReceived EXCEPT ![n] = votes]
          /\ IF Cardinality(votes) >= Quorum(n)
             THEN BecomeLeader(n, currentTerm[n])
             ELSE state' = state
      BY <1>6, <3>1 DEF HandleVoteResponse
    <3> HIDE DEF votes
    <3> QED
      BY <3>2, <3>3 DEF BecomeLeader
  <2>2. \A a \in Node : Active(a)' <=> Active(a)
    <3>1. state' = state \/ state' = [state EXCEPT ![n] = Leader]
      BY <2>1
    <3>2. Candidate # Follower /\ Leader # Follower
      BY DEF Candidate, Leader, Follower
    <3> QED
      BY <1>1, <1>2, <1>6, <3>1, <3>2 DEF Active, TypeOK
  <2>3. OwnVote'
    BY <2>1, <2>2 DEF ElectionInvariant, OwnVote, Active
  <2>4. CallsNotAhead'
    BY <1>2, <1>3, <2>1 DEF ElectionInvariant, CallsNotAhead, Called, Grant
  <2>5. ASSUME NEW a \in Node, NEW b \in Node, HasVote(a, b)'
        PROVE  HasVote(a, b)
    <3>1. CASE b \in votesReceived'[a]
      <4>1. b \in votesReceived[a] \/ (a = n /\ b = m.src)
        BY <1>1, <1>2, <2>1, <3>1 DEF TypeOK
      <4>2. HasVote(n, m.src)
        BY <1>2, <1>6 DEF HasVote, Grant
      <4> QED
        BY <4>1, <4>2 DEF HasVote
    <3>2. CASE b \notin votesReceived'[a]
      BY <1>2, <1>3, <2>1, <2>5, <3>2 DEF HasVote, Grant
    <3> QED
      BY <3>1, <3>2
  <2>6. NoMutualVotes'
    <3> SUFFICES ASSUME NEW c \in Node, NEW d \in Node, Rivals(c, d)',
                        HasVote(c, d)', HasVote(d, c)'
                 PROVE  FALSE
      BY DEF NoMutualVotes
    <3>1. Rivals(c, d)
      BY <2>1, <2>2 DEF Rivals, Active
    <3>2. HasVote(c, d) /\ HasVote(d, c)
      BY <2>5
    <3> QED
      BY <3>1, <3>2 DEF ElectionInvariant, NoMutualVotes
  <2>7. LeaderHasAllVotes'
    <3> SUFFICES ASSUME NEW a \in Node, state'[a] = Leader
                 PROVE  votesReceived'[a] = Node
      BY DEF LeaderHasAllVotes
    <3>1. CASE a # n
      <4>1. state' = state \/ state' = [state EXCEPT ![n] = Leader]
        BY <2>1
      <4>2. state[a] = Leader
        BY <1>1, <3>1, <4>1 DEF TypeOK
      <4>3. votesReceived'[a] = votesReceived[a]
        BY <1>1, <2>1, <3>1 DEF TypeOK
      <4> QED
        BY <4>2, <4>3 DEF ElectionInvariant, LeaderHasAllVotes
    <3>2. CASE a = n
      <4>1. Cardinality(votes) >= Quorum(n)
        BY <1>6, <2>1, <3>2 DEF Candidate, Leader
      <4>2. votes \in SUBSET Node
        BY <1>1, <1>2 DEF TypeOK
      <4>3. votes = Node
        BY <1>2, <4>1, <4>2 DEF Unanimous
      <4> QED
        BY <1>1, <1>2, <2>1, <3>2, <4>3 DEF TypeOK
    <3> QED
      BY <3>1, <3>2
  <2> QED
    BY <2>3, <2>4, <2>6, <2>7 DEF ElectionInvariant
<1> QED
  BY <1>4, <1>5, <1>6

-----------------------------------------------------------------------------
(* The theorems *)

LEMMA ElectionInit == Init => ElectionInvariant
<1> SUFFICES ASSUME Init PROVE ElectionInvariant
  OBVIOUS
<1>1. TypeOK
  BY TypeInit
<1>2. BagToSet(messages) = {}
  BY DEF Init, EmptyBag, SetToBag, BagToSet
<1> QED
  BY <1>1, <1>2 DEF Init, ElectionInvariant, OwnVote, Active, CallsNotAhead,
                    NoMutualVotes, Rivals, LeaderHasAllVotes, Leader, Follower

LEMMA ElectionStep == Unanimous /\ ElectionInvariant /\ [Next]_vars => ElectionInvariant'
<1> SUFFICES ASSUME Unanimous, ElectionInvariant, [Next]_vars PROVE ElectionInvariant'
  OBVIOUS
<1>1. TypeOK /\ TypeOK'
  BY TypeStep DEF ElectionInvariant
<1>2. ASSUME NEW n \in Node, NodeStep(n)
      PROVE  ElectionInvariant'
  <2>1. StartElection(n) \/ Quiet
    BY <1>1, <1>2, SendsAppendsQuiet, ClientQuiet, CrashQuiet DEF NodeStep
  <2> QED
    BY <1>1, <2>1, StartElectionStep, QuietStep
<1>3. ASSUME NEW m \in BagToSet(messages), MessageStep(m)
      PROVE  ElectionInvariant'
  <2>1. HandleVoteRequest(m) \/ HandleVoteResponse(m) \/ Quiet
    BY <1>1, <1>3, HandleAppendEntriesQuiet, HandleAppendEntriesResponseQuiet, LosesMessageQuiet
       DEF MessageStep
  <2> QED
    BY <1>1, <2>1, HandleVoteRequestStep, HandleVoteResponseStep, QuietStep
<1>4. CASE UNCHANGED vars
  <2>1. Quiet
    BY <1>1, <1>4, UnchangedQuiet DEF vars
  <2> QED
    BY <1>1, <2>1, QuietStep
<1> QED
  BY <1>2, <1>3, <1>4 DEF Next

LEMMA InvariantGivesSafety == ElectionInvariant => ElectionSafety
<1> SUFFICES ASSUME ElectionInvariant, NEW a \in Node, NEW b \in Node,
                    state[a] = Leader, state[b] = Leader, currentTerm[a] = currentTerm[b],
                    a # b
             PROVE  FALSE
  BY DEF ElectionSafety
<1>1. Rivals(a, b)
  BY DEF Rivals, Active, Leader, Follower
<1>2. HasVote(a, b) /\ HasVote(b, a)
  BY DEF ElectionInvariant, LeaderHasAllVotes, HasVote
<1> QED
  BY <1>1, <1>2 DEF ElectionInvariant, NoMutualVotes

\* What the argument rests on holds in every reachable state: nobody has the
\* vote of a rival who has its own (handle_vote_request, handle_vote_response).
THEOREM ElectionInvariantHolds == Unanimous => (Spec => []ElectionInvariant)
<1> SUFFICES ASSUME Unanimous PROVE Spec => []ElectionInvariant
  OBVIOUS
<1>1. Init => ElectionInvariant
  BY ElectionInit
<1>2. ElectionInvariant /\ [Next]_vars => ElectionInvariant'
  BY ElectionStep
<1> QED
  BY <1>1, <1>2, PTL DEF Spec

\* When a node needs every vote, a term never has two leaders: not with lost or
\* late answers, and not with restarts that forget term and vote.
THEOREM UnanimousElectionSafety == Unanimous => (Spec => []ElectionSafety)
<1>1. Unanimous => (Spec => []ElectionInvariant)
  BY ElectionInvariantHolds
<1>2. ElectionInvariant => ElectionSafety
  BY InvariantGivesSafety
<1> QED
  BY <1>1, <1>2, PTL

\* The three nodes of docker-compose.yml, each of which has all three addresses
\* in its peer list.
Deployed == Cardinality(Node) = 3 /\ Peers = [n \in Node |-> Node]

LEMMA DeployedUnanimous == Deployed => Unanimous
<1> SUFFICES ASSUME Deployed, NEW n \in Node, NEW S \in SUBSET Node,
                    Cardinality(S) >= Quorum(n)
             PROVE  S = Node
  BY DEF Unanimous
<1>1. Quorum(n) = 3
  BY DEF Deployed, Quorum
<1>2. IsFiniteSet(Node)
  BY NodeAssumption
<1>3. Cardinality(S) \in Nat /\ Cardinality(S) <= 3 /\ (Cardinality(S) = 3 => S = Node)
  BY <1>2, FS_Subset, FS_CardinalityType DEF Deployed
<1> QED
  BY <1>1, <1>3

\* The cluster the repository deploys never has two leaders in one term.
THEOREM DeployedElectionSafety == Deployed => (Spec => []ElectionSafety)
<1>1. Deployed => Unanimous
  BY DeployedUnanimous
<1>2. Unanimous => (Spec => []ElectionSafety)
  BY UnanimousElectionSafety
<1> QED
  BY <1>1, <1>2

====
