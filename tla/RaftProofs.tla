---- MODULE RaftProofs ----
EXTENDS Raft, TLAPS, FiniteSetTheorems

-----------------------------------------------------------------------------
(* Bags and extrema *)

LEMMA BagSum ==
    ASSUME NEW B, IsABag(B), NEW S
    PROVE  /\ IsABag(B (+) SetToBag(S))
           /\ BagToSet(B (+) SetToBag(S)) = BagToSet(B) \cup S
<1> DEFINE C == B (+) SetToBag(S)
<1>1. DOMAIN C = DOMAIN B \cup S
  BY DEF (+), SetToBag
<1>2. ASSUME NEW e \in DOMAIN C
      PROVE  C[e] \in {n \in Nat : n > 0}
  <2>1. CASE e \in DOMAIN B /\ e \in S
    BY <1>1, <2>1 DEF IsABag, (+), SetToBag
  <2>2. CASE e \in DOMAIN B /\ e \notin S
    BY <1>1, <2>2 DEF IsABag, (+), SetToBag
  <2>3. CASE e \notin DOMAIN B /\ e \in S
    BY <1>1, <2>3 DEF IsABag, (+), SetToBag
  <2> QED
    BY <1>1, <2>1, <2>2, <2>3
<1>3. C = [e \in DOMAIN C |-> C[e]]
  BY DEF (+), SetToBag
<1> QED
  BY <1>1, <1>2, <1>3 DEF IsABag, BagToSet

LEMMA BagDifference ==
    ASSUME NEW B, IsABag(B), NEW S
    PROVE  /\ IsABag(B (-) SetToBag(S))
           /\ BagToSet(B (-) SetToBag(S)) \subseteq BagToSet(B)
<1> DEFINE R == [e \in DOMAIN B |-> IF e \in S THEN B[e] - 1 ELSE B[e]]
           D == {e \in DOMAIN B : R[e] > 0}
<1>1. B (-) SetToBag(S) = [e \in D |-> R[e]]
  BY DEF (-), SetToBag
<1>2. ASSUME NEW e \in D
      PROVE  R[e] \in {n \in Nat : n > 0}
  BY DEF IsABag
<1> QED
  BY <1>1, <1>2 DEF IsABag, BagToSet

LEMMA MaxOfRange ==
    ASSUME NEW k \in Nat, NEW S \in SUBSET (0..k), S # {}
    PROVE  Max(S) \in S /\ \A y \in S : Max(S) >= y
<1> DEFINE U == {T \in SUBSET (0..k) : \E j \in 0..k : T = 0..j /\ S \subseteq T}
<1>1. IsFiniteSet(0..k)
  BY FS_Interval
<1>2. IsWellFoundedOn(StrictSubsetOrdering(0..k), SUBSET (0..k))
  BY <1>1, FS_StrictSubsetOrderingWellFounded, FS_FiniteSubsetsOfFinite
<1>3. U \subseteq SUBSET (0..k) /\ U # {}
  <2>1. (0..k) \in U
    OBVIOUS
  <2> QED
    BY <2>1
<1>4. PICK T \in U : \A V \in U : ~ (<<V, T>> \in StrictSubsetOrdering(0..k))
  <2> HIDE DEF U
  <2> QED
    BY <1>2, <1>3, WFMin
<1>5. PICK j \in 0..k : T = 0..j /\ S \subseteq T
  BY <1>4
<1>6. j \in S
  <2> SUFFICES ASSUME j \notin S PROVE FALSE
    OBVIOUS
  <2>1. j > 0
    <3>1. CASE j = 0
      <4>1. 0..j = {0}
        BY <3>1
      <4> QED
        BY <4>1, <1>5, <3>1
    <3> QED
      BY <3>1
  <2>2. (0..(j-1)) \in U
    BY <1>5, <2>1
  <2>3. <<0..(j-1), T>> \in StrictSubsetOrdering(0..k)
    BY <1>5, <2>1, <2>2 DEF StrictSubsetOrdering
  <2> QED
    BY <1>4, <2>2, <2>3
<1>7. \A y \in S : j >= y
  BY <1>5
<1> QED
  BY <1>6, <1>7 DEF Max

LEMMA MinOfNats ==
    ASSUME NEW S \in SUBSET Nat, S # {}
    PROVE  Min(S) \in S /\ \A y \in S : Min(S) <= y
<1>1. PICK e \in S : TRUE
  OBVIOUS
<1> DEFINE M == {i \in 0..e : e - i \in S}
<1>2. M \in SUBSET (0..e) /\ 0 \in M
  OBVIOUS
<1>3. Max(M) \in M /\ \A i \in M : Max(M) >= i
  <2> HIDE DEF M
  <2> QED
    BY <1>2, MaxOfRange
<1>4. e - Max(M) \in S
  BY <1>3
<1>5. ASSUME NEW y \in S
      PROVE  e - Max(M) <= y
  <2>1. CASE y <= e
    <3>1. e - y \in M
      BY <2>1
    <3> QED
      BY <1>3, <3>1
  <2>2. CASE ~(y <= e)
    BY <1>3, <2>2
  <2> QED
    BY <2>1, <2>2
<1> QED
  BY <1>4, <1>5 DEF Min

-----------------------------------------------------------------------------
(* Messages *)

MessagesOK == IsABag(messages) /\ BagToSet(messages) \subseteq Message

LEMMA SendType ==
    ASSUME MessagesOK, NEW S \in SUBSET Message, Send(S)
    PROVE  MessagesOK'
BY BagSum DEF MessagesOK, Send

LEMMA DiscardType ==
    ASSUME MessagesOK, NEW m, Discard(m)
    PROVE  MessagesOK'
BY BagDifference DEF MessagesOK, Discard

\* Replacing one message by another.
LEMMA ExchangeType ==
    ASSUME MessagesOK, NEW m, NEW r \in Message,
           messages' = (messages (-) SetToBag({m})) (+) SetToBag({r})
    PROVE  MessagesOK'
<1> DEFINE B == messages (-) SetToBag({m})
<1>1. IsABag(B) /\ BagToSet(B) \subseteq Message
  BY BagDifference DEF MessagesOK
<1> HIDE DEF B
<1>2. messages' = B (+) SetToBag({r})
  BY DEF B
<1>3. IsABag(B (+) SetToBag({r})) /\ BagToSet(B (+) SetToBag({r})) \subseteq Message
  BY <1>1, BagSum
<1> QED
  BY <1>2, <1>3 DEF MessagesOK

LEMMA ReplyType ==
    ASSUME MessagesOK, NEW m, NEW r \in Message, Reply(m, r)
    PROVE  MessagesOK'
BY DiscardType, ExchangeType DEF Reply

-----------------------------------------------------------------------------
(* Logs *)

LEMMA LastTermType ==
    ASSUME NEW l \in Seq(Entry)
    PROVE  LastTerm(l) \in Nat
<1>1. CASE l = <<>>
  BY <1>1 DEF LastTerm
<1>2. CASE l # <<>>
  <2>1. l[Len(l)] \in Entry
    BY <1>2
  <2> QED
    BY <1>2, <2>1 DEF LastTerm, Entry
<1> QED
  BY <1>1, <1>2

LEMMA TermAtType ==
    ASSUME NEW l \in Seq(Entry), NEW i \in Int
    PROVE  TermAt(l, i) \in Nat
<1>1. CASE i \in DOMAIN l
  <2>1. l[i] \in Entry
    BY <1>1
  <2> QED
    BY <1>1, <2>1 DEF TermAt, Entry
<1>2. CASE i \notin DOMAIN l
  BY <1>2 DEF TermAt
<1> QED
  BY <1>1, <1>2

\* What the append loop does to a log: it keeps the log, or keeps a part of it
\* at least as long as prev and continues with the leader's entries.
LEMMA MergeShape ==
    ASSUME NEW l \in Seq(Entry), NEW entries \in Seq(Entry),
           NEW prev \in Nat, prev <= Len(l)
    PROVE  \/ /\ Merge(l, prev, entries) = l
              /\ prev + Len(entries) <= Len(l)
           \/ \E k \in DOMAIN entries :
                /\ prev + k - 1 <= Len(l)
                /\ prev + k <= Len(l) => l[prev + k].term # entries[k].term
                /\ Merge(l, prev, entries) =
                     SubSeq(l, 1, prev + k - 1) \o SubSeq(entries, k, Len(entries))
                /\ \A i \in 1..k-1 : /\ prev + i <= Len(l)
                                     /\ l[prev + i].term = entries[i].term
<1> DEFINE new == {i \in DOMAIN entries :
                     prev + i <= Len(l) => l[prev + i].term # entries[i].term}
<1>1. CASE new = {}
  <2>1. Merge(l, prev, entries) = l
    BY <1>1 DEF Merge
  <2>2. prev + Len(entries) <= Len(l)
    <3>1. CASE entries = <<>>
      BY <3>1
    <3>2. CASE entries # <<>>
      <4>1. Len(entries) \in DOMAIN entries /\ Len(entries) \notin new
        BY <1>1, <3>2
      <4> QED
        BY <4>1
    <3> QED
      BY <3>1, <3>2
  <2> QED
    BY <2>1, <2>2
<1>2. CASE new # {}
  <2> DEFINE k == Min(new)
  <2>1. new \in SUBSET Nat
    OBVIOUS
  <2>2. k \in new /\ \A i \in new : k <= i
    BY <1>2, <2>1, MinOfNats
  <2>3. ASSUME NEW i \in 1..k-1
        PROVE  i \in DOMAIN entries /\ i \notin new
    <3>1. k \in 1..Len(entries)
      BY <2>2
    <3> HIDE DEF k, new
    <3> QED
      BY <2>2, <3>1
  <2>4. \A i \in 1..k-1 : prev + i <= Len(l) /\ l[prev + i].term = entries[i].term
    BY <2>3
  <2>5. prev + k - 1 <= Len(l)
    <3>1. CASE k = 1
      BY <3>1
    <3>2. CASE k > 1
      <4>1. k - 1 \in 1..k-1
        BY <2>2, <3>2
      <4> QED
        BY <2>2, <2>4, <4>1
    <3> QED
      BY <2>2, <3>1, <3>2
  <2>6. Merge(l, prev, entries) =
          SubSeq(l, 1, prev + k - 1) \o SubSeq(entries, k, Len(entries))
    BY <1>2 DEF Merge
  <2> QED
    BY <2>2, <2>4, <2>5, <2>6
<1> QED
  BY <1>1, <1>2

LEMMA MergeType ==
    ASSUME NEW l \in Seq(Entry), NEW entries \in Seq(Entry),
           NEW prev \in Nat, prev <= Len(l)
    PROVE  Merge(l, prev, entries) \in Seq(Entry)
<1>1. CASE Merge(l, prev, entries) = l
  BY <1>1
<1>2. ASSUME NEW k \in DOMAIN entries,
             prev + k - 1 <= Len(l),
             Merge(l, prev, entries) =
               SubSeq(l, 1, prev + k - 1) \o SubSeq(entries, k, Len(entries))
      PROVE  Merge(l, prev, entries) \in Seq(Entry)
  <2>1. SubSeq(l, 1, prev + k - 1) \in Seq(Entry)
    BY <1>2
  <2>2. SubSeq(entries, k, Len(entries)) \in Seq(Entry)
    BY <1>2
  <2> QED
    BY <1>2, <2>1, <2>2
<1> QED
  BY <1>1, <1>2, MergeShape

-----------------------------------------------------------------------------
(* Numbers *)

LEMMA MaxOfTwo ==
    ASSUME NEW a \in Nat, NEW b \in Nat
    PROVE  Max({a, b}) = IF a >= b THEN a ELSE b
<1>1. CASE a >= b
  BY <1>1 DEF Max
<1>2. CASE ~(a >= b)
  BY <1>2 DEF Max
<1> QED
  BY <1>1, <1>2

LEMMA MinOfTwo ==
    ASSUME NEW a \in Nat, NEW b \in Nat
    PROVE  Min({a, b}) = IF a <= b THEN a ELSE b
<1>1. CASE a <= b
  BY <1>1 DEF Min
<1>2. CASE ~(a <= b)
  BY <1>2 DEF Min
<1> QED
  BY <1>1, <1>2

LEMMA BackOffType ==
    ASSUME NEW i \in Nat \ {0}
    PROVE  BackOff(i) \in Nat \ {0}
BY MaxOfTwo, 1 \in Nat, i - 1 \in Nat DEF BackOff

LEMMA CommitFromLeaderType ==
    ASSUME NEW c \in Nat, NEW d \in Nat, NEW k \in Nat
    PROVE  CommitFromLeader(c, d, k) \in Nat
BY MinOfTwo DEF CommitFromLeader

LEMMA CommittableMax ==
    ASSUME TypeOK, NEW n \in Node, NEW match, Committable(n, match) # {}
    PROVE  Max(Committable(n, match)) \in Committable(n, match)
<1>1. Len(log[n]) \in Nat /\ commitIndex[n] \in Nat
  BY DEF TypeOK
<1>2. Committable(n, match) \in SUBSET (0..Len(log[n]))
  BY <1>1 DEF Committable
<1> QED
  BY <1>1, <1>2, MaxOfRange

-----------------------------------------------------------------------------
(* Type correctness *)

LEMMA StatusType ==
    ASSUME NEW p \in Proposal, NEW s \in {"pending", "displaced", "resolved"}
    PROVE  [p EXCEPT !.status = s] \in Proposal
BY DEF Proposal

LEMMA DisplaceType ==
    ASSUME NEW ps \in SUBSET Proposal, NEW i
    PROVE  Displace(ps, i) \subseteq Proposal
BY StatusType DEF Displace

LEMMA ResolveType ==
    ASSUME NEW ps \in SUBSET Proposal, NEW i
    PROVE  Resolve(ps, i) \subseteq Proposal
BY StatusType DEF Resolve

LEMMA AppendCommandType ==
    ASSUME TypeOK, NEW n \in Node, NEW t \in Nat, NEW noop \in BOOLEAN,
           AppendCommand(n, t, noop)
    PROVE  /\ log' \in [Node -> Seq(Entry)]
           /\ proposals' \in [Node -> SUBSET Proposal]
           /\ rounds' \in [Node -> Nat]
<1> DEFINE i == Len(log[n]) + 1
           e == [term |-> t, leader |-> n]
           p == [index |-> i, term |-> t, noop |-> noop, status |-> "pending"]
<1>1. i \in Nat /\ e \in Entry /\ p \in Proposal
  BY DEF TypeOK, Entry, Proposal
<1>2. log' = [log EXCEPT ![n] = Append(@, e)]
  BY DEF AppendCommand
<1>3. proposals' = [proposals EXCEPT ![n] = Displace(@, i) \cup {p}]
  BY DEF AppendCommand
<1>4. Displace(proposals[n], i) \subseteq Proposal
  BY DisplaceType DEF TypeOK
<1>5. rounds' \in [Node -> Nat]
  BY DEF AppendCommand, TypeOK
<1> HIDE DEF i, e, p
<1>6. log' \in [Node -> Seq(Entry)]
  BY <1>1, <1>2 DEF TypeOK
<1>7. proposals' \in [Node -> SUBSET Proposal]
  BY <1>1, <1>3, <1>4 DEF TypeOK
<1> QED
  BY <1>5, <1>6, <1>7

LEMMA BecomeLeaderType ==
    ASSUME TypeOK, NEW n \in Node, NEW t \in Nat, BecomeLeader(n, t)
    PROVE  /\ state' \in [Node -> {Follower, Candidate, Leader}]
           /\ log' \in [Node -> Seq(Entry)]
           /\ DOMAIN nextIndex' = Node
           /\ DOMAIN matchIndex' = Node
           /\ \A a \in Node : /\ nextIndex'[a] \in [Peers[a] -> Nat \ {0}]
                              /\ matchIndex'[a] \in [Peers[a] -> Nat]
           /\ proposals' \in [Node -> SUBSET Proposal]
           /\ rounds' \in [Node -> Nat]
<1>1. Len(log[n]) + 1 \in Nat \ {0}
  BY DEF TypeOK
<1>2. AppendCommand(n, t, TRUE)
  BY DEF BecomeLeader
<1> QED
  BY <1>1, <1>2, AppendCommandType DEF BecomeLeader, TypeOK

LEMMA BecomeFollowerType ==
    ASSUME TypeOK, NEW n \in Node, NEW t \in Nat, BecomeFollower(n, t)
    PROVE  /\ state' \in [Node -> {Follower, Candidate, Leader}]
           /\ currentTerm' \in [Node -> Nat]
           /\ votedFor' \in [Node -> Node \cup {None}]
           /\ heartbeat' \in [Node -> BOOLEAN]
BY DEF BecomeFollower, TypeOK

LEMMA AppendRequestsType ==
    ASSUME TypeOK, NEW n \in Node, NEW hbTerm \in Nat
    PROVE  AppendRequests(n, hbTerm) \in SUBSET Message
<1> SUFFICES ASSUME NEW p \in Peers[n]
             PROVE  [type |-> "append_entries", src |-> n, dst |-> p, epoch |-> epoch[n],
                     hbTerm |-> hbTerm, term |-> currentTerm[n],
                     prevLogIndex |-> nextIndex[n][p] - 1,
                     prevLogTerm |-> TermAt(log[n], nextIndex[n][p] - 1),
                     entries |-> SubSeq(log[n], nextIndex[n][p], Len(log[n])),
                     leaderCommit |-> commitIndex[n]] \in AppendRequest
  BY DEF AppendRequests, Message
<1>1. p \in Node
  BY PeersAssumption
<1>2. nextIndex[n][p] \in Nat \ {0}
  BY DEF TypeOK
<1>3. log[n] \in Seq(Entry) /\ Len(log[n]) \in Nat
  BY DEF TypeOK
<1>4. TermAt(log[n], nextIndex[n][p] - 1) \in Nat
  <2>1. nextIndex[n][p] - 1 \in Int
    BY <1>2
  <2> QED
    BY <1>3, <2>1, TermAtType
<1>5. SubSeq(log[n], nextIndex[n][p], Len(log[n])) \in Seq(Entry)
  BY <1>2, <1>3
<1>6. epoch[n] \in Nat /\ currentTerm[n] \in Nat /\ commitIndex[n] \in Nat
  BY DEF TypeOK
<1>7. nextIndex[n][p] - 1 \in Nat
  BY <1>2
<1> QED
  BY <1>1, <1>4, <1>5, <1>6, <1>7 DEF AppendRequest

LEMMA VoteRequestType ==
    ASSUME TypeOK, NEW n \in Node
    PROVE  {[type |-> "vote_request", src |-> n, dst |-> p, epoch |-> epoch[n],
             term |-> currentTerm[n] + 1, lastLogIndex |-> Len(log[n]),
             lastLogTerm |-> LastTerm(log[n])] : p \in Peers[n]} \subseteq Message
<1> SUFFICES ASSUME NEW p \in Peers[n]
             PROVE  [type |-> "vote_request", src |-> n, dst |-> p, epoch |-> epoch[n],
                     term |-> currentTerm[n] + 1, lastLogIndex |-> Len(log[n]),
                     lastLogTerm |-> LastTerm(log[n])] \in VoteRequest
  BY DEF Message
<1>1. p \in Node
  BY PeersAssumption
<1>2. log[n] \in Seq(Entry)
  BY DEF TypeOK
<1>3. LastTerm(log[n]) \in Nat
  BY <1>2, LastTermType
<1>4. epoch[n] \in Nat /\ currentTerm[n] + 1 \in Nat /\ Len(log[n]) \in Nat
  BY <1>2 DEF TypeOK
<1> QED
  BY <1>1, <1>3, <1>4 DEF VoteRequest

\* A message of a given type has the fields of that type.
LEMMA MessageFields ==
    ASSUME NEW m \in Message
    PROVE  /\ m.src \in Node /\ m.dst \in Node /\ m.epoch \in Nat /\ m.term \in Nat
           /\ m.type = "vote_request" => m \in VoteRequest
           /\ m.type = "vote_response" => m \in VoteResponse
           /\ m.type = "append_entries" => m \in AppendRequest
           /\ m.type = "append_response" => m \in AppendResponse
BY DEF Message, VoteRequest, VoteResponse, AppendRequest, AppendResponse

LEMMA AppendAnswerType ==
    ASSUME NEW m \in AppendRequest, NEW t \in Nat, NEW b \in BOOLEAN
    PROVE  AppendAnswer(m, t, b) \in Message
<1>1. Len(m.entries) \in Nat
  BY DEF AppendRequest
<1>2. (IF b THEN m.prevLogIndex + Len(m.entries) ELSE 0) \in Nat
  BY <1>1 DEF AppendRequest
<1>3. AppendAnswer(m, t, b) \in AppendResponse
  BY <1>2 DEF AppendAnswer, AppendRequest, AppendResponse
<1> QED
  BY <1>3 DEF Message

LEMMA TypeInit == Init => TypeOK
<1> SUFFICES ASSUME Init PROVE TypeOK
  OBVIOUS
<1>1. IsABag(messages) /\ BagToSet(messages) \subseteq Message
  BY DEF Init, EmptyBag, SetToBag, IsABag, BagToSet
<1> QED
  BY <1>1 DEF Init, TypeOK

LEMMA StartElectionType ==
    ASSUME TypeOK, NEW n \in Node, StartElection(n)
    PROVE  TypeOK'
<1> DEFINE t == currentTerm[n] + 1
<1>1. t \in Nat
  BY DEF TypeOK
<1>2. /\ currentTerm' \in [Node -> Nat]
      /\ votedFor' \in [Node -> Node \cup {None}]
      /\ votesReceived' \in [Node -> SUBSET Node]
      /\ UNCHANGED <<commitIndex, lastApplied, applied, heartbeat, epoch>>
  BY <1>1 DEF StartElection, TypeOK, applyVars
<1>3. CASE Peers[n] = {}
  <2>1. BecomeLeader(n, t) /\ UNCHANGED messages
    BY <1>3 DEF StartElection
  <2>2. /\ state' \in [Node -> {Follower, Candidate, Leader}]
        /\ log' \in [Node -> Seq(Entry)]
        /\ DOMAIN nextIndex' = Node
        /\ DOMAIN matchIndex' = Node
        /\ \A a \in Node : /\ nextIndex'[a] \in [Peers[a] -> Nat \ {0}]
                           /\ matchIndex'[a] \in [Peers[a] -> Nat]
        /\ proposals' \in [Node -> SUBSET Proposal]
        /\ rounds' \in [Node -> Nat]
    BY <1>1, <2>1, BecomeLeaderType
  <2> QED
    BY <1>2, <2>1, <2>2 DEF TypeOK
<1>4. CASE Peers[n] # {}
  <2>1. MessagesOK'
    BY <1>4, VoteRequestType, SendType DEF StartElection, TypeOK, MessagesOK
  <2>2. /\ state' = [state EXCEPT ![n] = Candidate]
        /\ UNCHANGED <<log, nextIndex, matchIndex, proposals, rounds>>
    BY <1>4 DEF StartElection, leaderVars, clientVars
  <2> QED
    BY <1>2, <2>1, <2>2 DEF TypeOK, MessagesOK
<1> QED
  BY <1>3, <1>4

LEMMA HandleVoteRequestType ==
    ASSUME TypeOK, NEW m \in BagToSet(messages), HandleVoteRequest(m)
    PROVE  TypeOK'
<1>1. m \in VoteRequest
  BY MessageFields DEF TypeOK, HandleVoteRequest
<1> DEFINE n == m.dst
<1>2. n \in Node /\ m.src \in Node /\ m.term \in Nat /\ m.epoch \in Nat
  BY <1>1 DEF VoteRequest
<1>3. /\ state' \in [Node -> {Follower, Candidate, Leader}]
      /\ currentTerm' \in [Node -> Nat]
      /\ heartbeat' \in [Node -> BOOLEAN]
      /\ votedFor' \in [Node -> Node \cup {None}]
      /\ UNCHANGED <<log, votesReceived, nextIndex, matchIndex, commitIndex,
                     lastApplied, applied, proposals, rounds, epoch>>
  BY <1>2 DEF HandleVoteRequest, TypeOK, candidateVars, leaderVars, applyVars, clientVars
<1>4. PICK r \in VoteResponse : Reply(m, r)
  BY <1>2, <1>3 DEF HandleVoteRequest, VoteResponse
<1>5. MessagesOK'
  BY <1>4, ReplyType DEF TypeOK, MessagesOK, Message
<1> QED
  BY <1>3, <1>5 DEF TypeOK, MessagesOK

LEMMA HandleVoteResponseType ==
    ASSUME TypeOK, NEW m \in BagToSet(messages), HandleVoteResponse(m)
    PROVE  TypeOK'
<1> DEFINE n == m.dst
<1>1. n \in Node /\ m.src \in Node /\ m.term \in Nat
  BY MessageFields DEF TypeOK
<1>2. MessagesOK'
  BY DiscardType DEF TypeOK, MessagesOK, HandleVoteResponse
<1>3. UNCHANGED <<commitIndex, lastApplied, applied, epoch>>
  BY DEF HandleVoteResponse, applyVars
<1>4. CASE state[n] = Candidate /\ m.term > currentTerm[n]
  <2>1. /\ BecomeFollower(n, m.term)
        /\ UNCHANGED <<log, votesReceived, nextIndex, matchIndex, proposals, rounds>>
    BY <1>4 DEF HandleVoteResponse, candidateVars, leaderVars, clientVars
  <2> QED
    BY <1>1, <1>2, <1>3, <2>1, BecomeFollowerType DEF TypeOK, MessagesOK
<1>5. CASE ~(state[n] = Candidate /\ m.term > currentTerm[n])
  <2>1. UNCHANGED <<currentTerm, votedFor, heartbeat>>
    BY <1>5 DEF HandleVoteResponse
  <2>2. votesReceived' \in [Node -> SUBSET Node]
    <3>1. CASE state[n] = Candidate /\ m.granted /\ m.term = currentTerm[n]
      <4>1. votesReceived' = [votesReceived EXCEPT ![n] = votesReceived[n] \cup {m.src}]
        BY <1>5, <3>1 DEF HandleVoteResponse
      <4> QED
        BY <1>1, <4>1 DEF TypeOK
    <3>2. CASE ~(state[n] = Candidate /\ m.granted /\ m.term = currentTerm[n])
      BY <1>5, <3>2 DEF HandleVoteResponse, candidateVars, TypeOK
    <3> QED
      BY <3>1, <3>2
  <2>3. CASE BecomeLeader(n, currentTerm[n])
    <3>1. currentTerm[n] \in Nat
      BY <1>1 DEF TypeOK
    <3>2. /\ state' \in [Node -> {Follower, Candidate, Leader}]
          /\ log' \in [Node -> Seq(Entry)]
          /\ DOMAIN nextIndex' = Node
          /\ DOMAIN matchIndex' = Node
          /\ \A a \in Node : /\ nextIndex'[a] \in [Peers[a] -> Nat \ {0}]
                             /\ matchIndex'[a] \in [Peers[a] -> Nat]
          /\ proposals' \in [Node -> SUBSET Proposal]
          /\ rounds' \in [Node -> Nat]
      BY <1>1, <2>3, <3>1, BecomeLeaderType
    <3> QED
      BY <1>2, <1>3, <2>1, <2>2, <3>2 DEF TypeOK, MessagesOK
  <2>4. CASE UNCHANGED <<state, log, leaderVars, clientVars>>
    BY <1>2, <1>3, <2>1, <2>2, <2>4 DEF TypeOK, MessagesOK, leaderVars, clientVars
  <2> QED
    BY <1>5, <2>3, <2>4 DEF HandleVoteResponse
<1> QED
  BY <1>4, <1>5

LEMMA HandleAppendEntriesType ==
    ASSUME TypeOK, NEW m \in BagToSet(messages), HandleAppendEntries(m)
    PROVE  TypeOK'
<1> DEFINE n == m.dst
<1>1. m \in AppendRequest
  BY MessageFields DEF TypeOK, HandleAppendEntries
<1>2. /\ n \in Node /\ m.term \in Nat /\ m.prevLogIndex \in Nat
      /\ m.leaderCommit \in Nat /\ m.entries \in Seq(Entry)
  BY <1>1 DEF AppendRequest
<1>3. currentTerm[n] \in Nat /\ log[n] \in Seq(Entry) /\ commitIndex[n] \in Nat
  BY <1>2 DEF TypeOK
<1>4. UNCHANGED <<votesReceived, nextIndex, matchIndex, lastApplied, applied,
                  proposals, rounds, epoch>>
  BY DEF HandleAppendEntries, candidateVars, leaderVars, applyVars, clientVars
<1>5. CASE RejectStaleAppend(m)
  <2>1. MessagesOK'
    BY <1>1, <1>3, <1>5, AppendAnswerType, ReplyType DEF RejectStaleAppend, TypeOK, MessagesOK
  <2> QED
    BY <1>4, <1>5, <2>1 DEF RejectStaleAppend, TypeOK, MessagesOK
<1>6. CASE RejectInconsistentAppend(m)
  <2>1. MessagesOK'
    BY <1>1, <1>2, <1>6, AppendAnswerType, ReplyType
       DEF RejectInconsistentAppend, TypeOK, MessagesOK
  <2>2. BecomeFollower(n, m.term) /\ UNCHANGED commitIndex
    BY <1>6 DEF RejectInconsistentAppend
  <2>3. log' \in [Node -> Seq(Entry)]
    <3> DEFINE l == IF m.prevLogIndex <= Len(log[n])
                    THEN SubSeq(log[n], 1, m.prevLogIndex - 1) ELSE log[n]
    <3>1. log' = [log EXCEPT ![n] = l]
      BY <1>6 DEF RejectInconsistentAppend
    <3>2. l \in Seq(Entry)
      BY <1>2, <1>3
    <3> HIDE DEF l
    <3> QED
      BY <3>1, <3>2 DEF TypeOK
  <2> QED
    BY <1>2, <1>4, <2>1, <2>2, <2>3, BecomeFollowerType DEF TypeOK, MessagesOK
<1>7. CASE AcceptAppend(m)
  <2> DEFINE merged == Merge(log[n], m.prevLogIndex, m.entries)
             commit == CommitFromLeader(commitIndex[n], m.leaderCommit, Len(merged))
  <2>1. MessagesOK'
    BY <1>1, <1>2, <1>7, AppendAnswerType, ReplyType DEF AcceptAppend, TypeOK, MessagesOK
  <2>2. m.prevLogIndex <= Len(log[n])
    BY <1>2, <1>3, <1>7 DEF AcceptAppend, Consistent
  <2>3. merged \in Seq(Entry)
    BY <1>2, <1>3, <2>2, MergeType
  <2>4. commit \in Nat
    <3>1. Len(merged) \in Nat
      BY <2>3
    <3> HIDE DEF merged
    <3> QED
      BY <1>2, <1>3, <3>1, CommitFromLeaderType
  <2>5. /\ BecomeFollower(n, m.term)
        /\ log' = [log EXCEPT ![n] = merged]
        /\ commitIndex' = [commitIndex EXCEPT ![n] = commit]
    BY <1>7 DEF AcceptAppend
  <2> HIDE DEF merged, commit
  <2>6. log' \in [Node -> Seq(Entry)] /\ commitIndex' \in [Node -> Nat]
    BY <2>3, <2>4, <2>5 DEF TypeOK
  <2> QED
    BY <1>2, <1>4, <2>1, <2>5, <2>6, BecomeFollowerType DEF TypeOK, MessagesOK
<1> QED
  BY <1>5, <1>6, <1>7 DEF HandleAppendEntries

LEMMA HandleAppendEntriesResponseType ==
    ASSUME TypeOK, NEW m \in BagToSet(messages), HandleAppendEntriesResponse(m)
    PROVE  TypeOK'
<1> DEFINE n == m.dst
           p == m.src
           match == [matchIndex[n] EXCEPT ![p] = Max({@, m.matched})]
<1>1. m \in AppendResponse
  BY MessageFields DEF TypeOK, HandleAppendEntriesResponse
<1>2. n \in Node /\ p \in Node /\ m.term \in Nat /\ m.matched \in Nat
  BY <1>1 DEF AppendResponse
<1>3. MessagesOK'
  BY DiscardType DEF TypeOK, MessagesOK, HandleAppendEntriesResponse
<1>4. UNCHANGED <<log, votesReceived, lastApplied, applied, rounds, epoch>>
  BY DEF HandleAppendEntriesResponse, candidateVars, applyVars
<1>5. CASE m.term > currentTerm[n]
  <2>1. BecomeFollower(n, m.term) /\ UNCHANGED <<nextIndex, matchIndex, commitIndex, proposals>>
    BY <1>5 DEF HandleAppendEntriesResponse, leaderVars
  <2> QED
    BY <1>2, <1>3, <1>4, <2>1, BecomeFollowerType DEF TypeOK, MessagesOK
<1>6. CASE ~(m.term > currentTerm[n]) /\ state[n] # Leader
  <2>1. UNCHANGED <<state, currentTerm, votedFor, heartbeat, nextIndex, matchIndex,
                    commitIndex, proposals>>
    BY <1>6 DEF HandleAppendEntriesResponse, leaderVars
  <2> QED
    BY <1>3, <1>4, <2>1 DEF TypeOK, MessagesOK
<1>7. CASE ~(m.term > currentTerm[n]) /\ state[n] = Leader /\ m.success
  <2>1. /\ UNCHANGED <<state, currentTerm, votedFor, heartbeat>>
        /\ matchIndex' = [matchIndex EXCEPT ![n] = match]
        /\ nextIndex' = [nextIndex EXCEPT ![n][p] = m.matched + 1]
        /\ AdvanceCommitIndex(n, match)
    BY <1>7 DEF HandleAppendEntriesResponse
  <2>2. match \in [Peers[n] -> Nat]
    <3>1. CASE p \in Peers[n]
      <4>1. matchIndex[n][p] \in Nat
        BY <1>2, <3>1 DEF TypeOK
      <4>2. Max({matchIndex[n][p], m.matched}) \in Nat
        BY <1>2, <4>1, MaxOfTwo
      <4> QED
        BY <1>2, <4>2 DEF TypeOK
    <3>2. CASE p \notin Peers[n]
      BY <1>2, <3>2 DEF TypeOK
    <3> QED
      BY <3>1, <3>2
  <2> HIDE DEF match
  <2>3. /\ DOMAIN nextIndex' = Node
        /\ DOMAIN matchIndex' = Node
        /\ \A a \in Node : /\ nextIndex'[a] \in [Peers[a] -> Nat \ {0}]
                           /\ matchIndex'[a] \in [Peers[a] -> Nat]
    <3>1. DOMAIN nextIndex' = Node /\ DOMAIN matchIndex' = Node
      BY <2>1 DEF TypeOK
    <3>2. \A a \in Node : matchIndex'[a] \in [Peers[a] -> Nat]
      BY <1>2, <2>1, <2>2 DEF TypeOK
    <3>3. m.matched + 1 \in Nat \ {0}
      BY <1>2
    <3>4. nextIndex' = [nextIndex EXCEPT ![n] = [nextIndex[n] EXCEPT ![p] = m.matched + 1]]
      BY <2>1
    <3>5. [nextIndex[n] EXCEPT ![p] = m.matched + 1] \in [Peers[n] -> Nat \ {0}]
      BY <1>2, <3>3 DEF TypeOK
    <3>6. \A a \in Node : nextIndex'[a] \in [Peers[a] -> Nat \ {0}]
      BY <1>2, <3>4, <3>5 DEF TypeOK
    <3> QED
      BY <3>1, <3>2, <3>6
  <2>4. commitIndex' \in [Node -> Nat] /\ proposals' \in [Node -> SUBSET Proposal]
    <3> DEFINE i == Max(Committable(n, match))
    <3>1. CASE Committable(n, match) = {}
      BY <2>1, <3>1 DEF AdvanceCommitIndex, TypeOK
    <3>2. CASE Committable(n, match) # {}
      <4>1. i \in commitIndex[n] + 1 .. Len(log[n])
        BY <1>2, <3>2, CommittableMax DEF Committable
      <4>2. i \in Nat
        BY <1>2, <4>1 DEF TypeOK
      <4>3. Resolve(proposals[n], i) \in SUBSET Proposal
        BY <1>2, ResolveType DEF TypeOK
      <4>4. /\ commitIndex' = [commitIndex EXCEPT ![n] = i]
            /\ proposals' = [proposals EXCEPT ![n] = Resolve(proposals[n], i)]
        BY <2>1, <3>2 DEF AdvanceCommitIndex
      <4> HIDE DEF i
      <4> QED
        BY <4>2, <4>3, <4>4 DEF TypeOK
    <3> QED
      BY <3>1, <3>2
  <2> QED
    BY <1>3, <1>4, <2>1, <2>3, <2>4 DEF TypeOK, MessagesOK
<1>8. CASE ~(m.term > currentTerm[n]) /\ state[n] = Leader /\ ~m.success
  <2>1. /\ UNCHANGED <<state, currentTerm, votedFor, heartbeat, matchIndex, commitIndex,
                       proposals>>
        /\ nextIndex' = [nextIndex EXCEPT ![n][p] = BackOff(@)]
    BY <1>8 DEF HandleAppendEntriesResponse
  <2>2. DOMAIN nextIndex' = Node /\ \A a \in Node : nextIndex'[a] \in [Peers[a] -> Nat \ {0}]
    <3>1. CASE p \in Peers[n]
      <4>1. BackOff(nextIndex[n][p]) \in Nat \ {0}
        BY <1>2, <3>1, BackOffType DEF TypeOK
      <4> QED
        BY <1>2, <2>1, <4>1 DEF TypeOK
    <3>2. CASE p \notin Peers[n]
      BY <1>2, <2>1, <3>2 DEF TypeOK
    <3> QED
      BY <3>1, <3>2
  <2> QED
    BY <1>3, <1>4, <2>1, <2>2 DEF TypeOK, MessagesOK
<1> QED
  BY <1>5, <1>6, <1>7, <1>8

LEMMA SendsAppendsType ==
    ASSUME TypeOK, NEW n \in Node, ReplicateToAll(n) \/ Heartbeat(n)
    PROVE  TypeOK'
<1>1. currentTerm[n] \in Nat /\ 0 \in Nat
  BY DEF TypeOK
<1>2. MessagesOK'
  BY <1>1, AppendRequestsType, SendType DEF ReplicateToAll, Heartbeat, TypeOK, MessagesOK
<1>3. CASE ReplicateToAll(n)
  <2>1. rounds' \in [Node -> Nat]
    BY <1>3 DEF ReplicateToAll, TypeOK
  <2> QED
    BY <1>2, <1>3, <2>1
       DEF ReplicateToAll, TypeOK, MessagesOK, candidateVars, leaderVars, applyVars
<1>4. CASE Heartbeat(n)
  BY <1>2, <1>4
     DEF Heartbeat, TypeOK, MessagesOK, candidateVars, leaderVars, applyVars, clientVars
<1> QED
  BY <1>3, <1>4

LEMMA LosesMessageType ==
    ASSUME TypeOK, NEW m \in BagToSet(messages), CallTimesOut(m) \/ Lose(m)
    PROVE  TypeOK'
<1>1. CASE CallTimesOut(m)
  <2>1. m \in AppendRequest
    BY <1>1, MessageFields DEF TypeOK, CallTimesOut
  <2>2. [m EXCEPT !.epoch = 0] \in Message
    BY <2>1 DEF AppendRequest, Message
  <2>3. MessagesOK'
    BY <1>1, <2>2, ExchangeType DEF CallTimesOut, TypeOK, MessagesOK
  <2> QED
    BY <1>1, <2>3
       DEF CallTimesOut, TypeOK, MessagesOK, candidateVars, leaderVars, applyVars, clientVars
<1>2. CASE Lose(m)
  <2>1. MessagesOK'
    BY <1>2, DiscardType DEF Lose, TypeOK, MessagesOK
  <2> QED
    BY <1>2, <2>1 DEF Lose, TypeOK, MessagesOK, candidateVars, leaderVars, applyVars, clientVars
<1> QED
  BY <1>1, <1>2

LEMMA ProposeType ==
    ASSUME TypeOK, NEW n \in Node, Propose(n)
    PROVE  TypeOK'
<1>1. currentTerm[n] \in Nat /\ FALSE \in BOOLEAN /\ AppendCommand(n, currentTerm[n], FALSE)
  BY DEF Propose, TypeOK
<1> QED
  BY <1>1, AppendCommandType DEF Propose, TypeOK, candidateVars, leaderVars, applyVars

LEMMA ReturnToClientType ==
    ASSUME TypeOK, NEW n \in Node, NEW p \in proposals[n], ReturnToClient(n, p)
    PROVE  TypeOK'
<1>1. p \in Proposal
  BY DEF TypeOK
<1>2. proposals[n] \ {p} \in SUBSET Proposal
  BY DEF TypeOK
<1>3. Displace(proposals[n] \ {p}, p.index) \in SUBSET Proposal
  BY <1>2, DisplaceType
<1>4. proposals' \in [Node -> SUBSET Proposal]
  BY <1>2, <1>3 DEF ReturnToClient, ProposeReturns, ProposeTimesOut, TypeOK
<1>5. heartbeat' \in [Node -> BOOLEAN]
  BY DEF ReturnToClient, ProposeReturns, ProposeTimesOut, ResumeBecomeLeader, TypeOK
<1> QED
  BY <1>4, <1>5 DEF ReturnToClient, ProposeReturns, ProposeTimesOut, TypeOK,
                     candidateVars, leaderVars, applyVars

LEMMA ApplyType ==
    ASSUME TypeOK, NEW n \in Node, Apply(n)
    PROVE  TypeOK'
<1> DEFINE i == lastApplied[n] + 1
           done == IF i <= Len(log[n]) THEN Append(applied[n], log[n][i]) ELSE applied[n]
<1>1. i \in Nat \ {0} /\ log[n] \in Seq(Entry) /\ applied[n] \in Seq(Entry)
  BY DEF TypeOK
<1>2. done \in Seq(Entry)
  <2>1. CASE i <= Len(log[n])
    <3>1. log[n][i] \in Entry
      BY <1>1, <2>1
    <3> QED
      BY <1>1, <2>1, <3>1
  <2> QED
    BY <1>1, <2>1
<1>3. lastApplied' = [lastApplied EXCEPT ![n] = i] /\ applied' = [applied EXCEPT ![n] = done]
  BY DEF Apply
<1> HIDE DEF i, done
<1>4. lastApplied' \in [Node -> Nat] /\ applied' \in [Node -> Seq(Entry)]
  BY <1>1, <1>2, <1>3 DEF TypeOK
<1> QED
  BY <1>4 DEF Apply, TypeOK, candidateVars, leaderVars, clientVars

LEMMA CrashType ==
    ASSUME TypeOK, NEW n \in Node, Crash(n)
    PROVE  TypeOK'
BY DEF Crash, TypeOK

LEMMA TypeStep == TypeOK /\ [Next]_vars => TypeOK'
<1> SUFFICES ASSUME TypeOK, [Next]_vars PROVE TypeOK'
  OBVIOUS
<1>1. ASSUME NEW n \in Node, NodeStep(n)
      PROVE  TypeOK'
  BY <1>1, StartElectionType, SendsAppendsType, ProposeType, ReturnToClientType, ApplyType,
     CrashType DEF NodeStep
<1>2. ASSUME NEW m \in BagToSet(messages), MessageStep(m)
      PROVE  TypeOK'
  BY <1>2, HandleVoteRequestType, HandleVoteResponseType, HandleAppendEntriesType,
     HandleAppendEntriesResponseType, LosesMessageType DEF MessageStep
<1>3. CASE UNCHANGED vars
  BY <1>3 DEF vars, TypeOK
<1> QED
  BY <1>1, <1>2, <1>3 DEF Next

\* Every reachable state of every cluster is well typed: in particular no answer
\* drives next_index to 0 (raft.py, _handle_append_entries_response).
THEOREM TypeCorrect == Spec => []TypeOK
<1>1. Init => TypeOK
  BY TypeInit
<1>2. TypeOK /\ [Next]_vars => TypeOK'
  BY TypeStep
<1> QED
  BY <1>1, <1>2, PTL DEF Spec

====
