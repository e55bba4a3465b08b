---- MODULE Raft ----
(***************************************************************************)
(* RaftNode (src/src/consensus/raft.py) on every node of a cluster, and    *)
(* the HTTP calls (src/src/nodes/base_node.py) that connect them.          *)
(*                                                                         *)
(* An asyncio process runs a handler without interruption up to its next   *)
(* await that really suspends.  Each such stretch is one action.  A call   *)
(* to a peer is sent once, has a two second timeout and is never retried:  *)
(* the request or its answer may be lost, and messages overtake each       *)
(* other.                                                                  *)
(*                                                                         *)
(* An operator named for what it gets wrong (VoteAnyway, ...) is a slip    *)
(* the properties must notice; no other definition uses it.                *)
(***************************************************************************)
EXTENDS Integers, Sequences, FiniteSets, Bags, FiniteSetsExt

CONSTANTS
    Node,         \* the nodes of the cluster
    Peers,        \* Peers[n]: the nodes whose address is in n's peer list
    None,         \* voted_for = None
    MaxTerm,      \* bound: elections stop at this term
    MaxLog,       \* bound: no log grows past this length
    MaxCommand,   \* bound: clients propose only to a leader whose log is shorter than this
    MaxInFlight,  \* bound: calls are made only while fewer messages than this are in flight
    MaxCrashes    \* bound: how often each node may crash

\* The peer list comes from CLUSTER_NODES and may contain the node itself.
ASSUME NodeAssumption  == IsFiniteSet(Node) /\ None \notin Node
ASSUME PeersAssumption == Peers \in [Node -> SUBSET Node]
ASSUME BoundAssumption == {MaxTerm, MaxLog, MaxCommand, MaxInFlight, MaxCrashes} \subseteq Nat

Follower  == "follower"
Candidate == "candidate"
Leader    == "leader"

VARIABLES
    state,          \* NodeState
    currentTerm,    \* persistent.current_term
    votedFor,       \* persistent.voted_for
    log,            \* persistent.log: entries [term, leader]; a command is reduced to its proposer
    votesReceived,  \* _votes_received
    nextIndex,      \* leader_state.next_index, 1 for an absent key
    matchIndex,     \* leader_state.match_index, 0 for an absent key
    commitIndex,    \* volatile.commit_index
    lastApplied,    \* volatile.last_applied
    applied,        \* the entries passed to _state_machine_apply, in order
    proposals,      \* the calls of propose that have not returned, with their future's status
    rounds,         \* replication rounds scheduled by propose that have not started
    heartbeat,      \* whether the heartbeat loop is running
    messages,       \* bag of requests and answers in flight
    epoch           \* how often the node has started; a call dies with the process that made it

candidateVars == <<votesReceived>>
leaderVars    == <<nextIndex, matchIndex>>
applyVars     == <<lastApplied, applied>>
clientVars    == <<proposals, rounds>>
vars == <<state, currentTerm, votedFor, log, votesReceived, nextIndex, matchIndex,
          commitIndex, lastApplied, applied, proposals, rounds, heartbeat, messages, epoch>>

-----------------------------------------------------------------------------
Entry == [term : Nat, leader : Node]

\* status: "pending" while the future is in _pending_commits, "displaced" once
\* another proposal has taken or removed its slot, "resolved" when it is set to True.
Proposal == [index : Nat, term : Nat, noop : BOOLEAN,
             status : {"pending", "displaced", "resolved"}]

\* Every message carries the epoch of the caller (0: the caller has given up).
\* hbTerm is the term of the heartbeat loop that waits for the answer, 0 for a
\* round started by propose, which nothing cancels.
VoteRequest    == [type : {"vote_request"}, src : Node, dst : Node, epoch : Nat,
                   term : Nat, lastLogIndex : Nat, lastLogTerm : Nat]
VoteResponse   == [type : {"vote_response"}, src : Node, dst : Node, epoch : Nat,
                   term : Nat, granted : BOOLEAN]
AppendRequest  == [type : {"append_entries"}, src : Node, dst : Node, epoch : Nat,
                   hbTerm : Nat, term : Nat, prevLogIndex : Nat, prevLogTerm : Nat,
                   entries : Seq(Entry), leaderCommit : Nat]
AppendResponse == [type : {"append_response"}, src : Node, dst : Node, epoch : Nat,
                   hbTerm : Nat, term : Nat, success : BOOLEAN, matched : Nat]
Message == VoteRequest \cup VoteResponse \cup AppendRequest \cup AppendResponse

-----------------------------------------------------------------------------
(* Helpers *)

Quorum(n) == (Cardinality(Peers[n]) + 1) \div 2 + 1

LastTerm(l) == IF l = <<>> THEN 0 ELSE l[Len(l)].term

\* The term the leader sends for the entry before the first it sends: 0 when
\* next_index points past the end of the log.
TermAt(l, i) == IF i \in DOMAIN l THEN l[i].term ELSE 0

Send(ms)       == messages' = messages (+) SetToBag(ms)
Discard(m)     == messages' = messages (-) SetToBag({m})

\* The answer to a call whose caller is gone reaches nobody.
Reply(m, r) ==
    IF m.epoch = epoch[m.src]
    THEN messages' = (messages (-) SetToBag({m})) (+) SetToBag({r})
    ELSE Discard(m)

\* Room for another round of calls.
MayCall == BagCardinality(messages) < MaxInFlight

BecomeFollowerInOwnTerm(n, t) ==
    /\ state' = [state EXCEPT ![n] = Follower]
    /\ votedFor' = [votedFor EXCEPT ![n] = None]
    /\ heartbeat' = [heartbeat EXCEPT ![n] = FALSE]
    /\ UNCHANGED currentTerm

BecomeFollower(n, t) ==
    /\ state' = [state EXCEPT ![n] = Follower]
    /\ currentTerm' = [currentTerm EXCEPT ![n] = t]
    /\ votedFor' = [votedFor EXCEPT ![n] = None]
    /\ heartbeat' = [heartbeat EXCEPT ![n] = FALSE]

\* _pending_commits is keyed by index: whatever is registered at i loses its slot.
Displace(ps, i) ==
    {IF p.index = i /\ p.status = "pending" THEN [p EXCEPT !.status = "displaced"] ELSE p
        : p \in ps}

Resolve(ps, i) ==
    {IF p.index <= i /\ p.status = "pending" THEN [p EXCEPT !.status = "resolved"] ELSE p
        : p \in ps}

\* The part of propose before its await, in term t.
AppendCommand(n, t, noop) ==
    LET i == Len(log[n]) + 1 IN
    /\ i <= MaxLog
    /\ log' = [log EXCEPT ![n] = Append(@, [term |-> t, leader |-> n])]
    /\ proposals' = [proposals EXCEPT ![n] = Displace(@, i) \cup
           {[index |-> i, term |-> t, noop |-> noop, status |-> "pending"]}]
    /\ rounds' = [rounds EXCEPT ![n] = @ + 1]

\* The part of _become_leader before its await: the no-op is in the log at once,
\* the heartbeat loop starts when its propose returns (ProposeReturns).
BecomeLeader(n, t) ==
    /\ state' = [state EXCEPT ![n] = Leader]
    /\ nextIndex' = [nextIndex EXCEPT ![n] = [p \in Peers[n] |-> Len(log[n]) + 1]]
    /\ matchIndex' = [matchIndex EXCEPT ![n] = [p \in Peers[n] |-> 0]]
    /\ AppendCommand(n, t, TRUE)

-----------------------------------------------------------------------------
Init ==
    /\ state = [n \in Node |-> Follower]
    /\ currentTerm = [n \in Node |-> 0]
    /\ votedFor = [n \in Node |-> None]
    /\ log = [n \in Node |-> <<>>]
    /\ votesReceived = [n \in Node |-> {}]
    /\ nextIndex = [n \in Node |-> [p \in Peers[n] |-> 1]]
    /\ matchIndex = [n \in Node |-> [p \in Peers[n] |-> 0]]
    /\ commitIndex = [n \in Node |-> 0]
    /\ lastApplied = [n \in Node |-> 0]
    /\ applied = [n \in Node |-> <<>>]
    /\ proposals = [n \in Node |-> {}]
    /\ rounds = [n \in Node |-> 0]
    /\ heartbeat = [n \in Node |-> FALSE]
    /\ messages = EmptyBag
    /\ epoch = [n \in Node |-> 1]

-----------------------------------------------------------------------------
(* Leader election *)

\* The election timer is armed in every state but LEADER; when it fires the
\* node votes for itself and asks its peers.  Without peers it wins at once.
StartElection(n) ==
    LET t == currentTerm[n] + 1 IN
    /\ state[n] # Leader
    /\ t <= MaxTerm
    /\ currentTerm' = [currentTerm EXCEPT ![n] = t]
    /\ votedFor' = [votedFor EXCEPT ![n] = n]
    /\ votesReceived' = [votesReceived EXCEPT ![n] = {n}]
    /\ IF Peers[n] = {}
       THEN /\ BecomeLeader(n, t)
            /\ UNCHANGED messages
       ELSE /\ MayCall
            /\ state' = [state EXCEPT ![n] = Candidate]
            /\ Send({[type |-> "vote_request", src |-> n, dst |-> p, epoch |-> epoch[n],
                      term |-> t, lastLogIndex |-> Len(log[n]),
                      lastLogTerm |-> LastTerm(log[n])] : p \in Peers[n]})
            /\ UNCHANGED <<log, leaderVars, clientVars>>
    /\ UNCHANGED <<commitIndex, applyVars, heartbeat, epoch>>

VoteAnyway(vote, c) == TRUE
VoteFree(vote, c) == vote \in {None, c}

LongerOrNot(m, l) == TRUE
UpToDate(m, l) ==
    \/ m.lastLogTerm > LastTerm(l)
    \/ m.lastLogTerm = LastTerm(l) /\ m.lastLogIndex >= Len(l)

HandleVoteRequest(m) ==
    LET n     == m.dst
        newer == m.term > currentTerm[n]
        vote  == IF newer THEN None ELSE votedFor[n]
        grant == /\ m.term >= currentTerm[n]
                 /\ VoteFree(vote, m.src)
                 /\ UpToDate(m, log[n])
    IN
    /\ m.type = "vote_request"
    /\ state' = [state EXCEPT ![n] = IF newer THEN Follower ELSE @]
    /\ currentTerm' = [currentTerm EXCEPT ![n] = IF newer THEN m.term ELSE @]
    /\ heartbeat' = [heartbeat EXCEPT ![n] = @ /\ ~newer]
    /\ votedFor' = [votedFor EXCEPT ![n] = IF grant THEN m.src ELSE vote]
    /\ Reply(m, [type |-> "vote_response", src |-> n, dst |-> m.src, epoch |-> m.epoch,
                 term |-> currentTerm'[n], granted |-> grant])
    /\ UNCHANGED <<log, candidateVars, leaderVars, commitIndex, applyVars, clientVars, epoch>>

\* handle_vote_response: nothing but a candidate looks at the answer.
HandleVoteResponse(m) ==
    LET n     == m.dst
        votes == votesReceived[n] \cup {m.src}
    IN
    /\ m.type = "vote_response"
    /\ m.epoch = epoch[n]
    /\ Discard(m)
    /\ IF state[n] = Candidate /\ m.term > currentTerm[n]
       THEN /\ BecomeFollower(n, m.term)
            /\ UNCHANGED <<log, candidateVars, leaderVars, clientVars>>
       ELSE /\ UNCHANGED <<currentTerm, votedFor, heartbeat>>
            /\ IF state[n] = Candidate /\ m.granted /\ m.term = currentTerm[n]
               THEN /\ votesReceived' = [votesReceived EXCEPT ![n] = votes]
                    /\ IF Cardinality(votes) >= Quorum(n)
                       THEN BecomeLeader(n, currentTerm[n])
                       ELSE UNCHANGED <<state, log, leaderVars, clientVars>>
               ELSE UNCHANGED <<state, log, candidateVars, leaderVars, clientVars>>
    /\ UNCHANGED <<commitIndex, applyVars, epoch>>

-----------------------------------------------------------------------------
(* Log replication *)

\* The requests of one round, built from the node's state of that moment.
AppendRequests(n, hbTerm) ==
    {LET next == nextIndex[n][p] IN
        [type |-> "append_entries", src |-> n, dst |-> p, epoch |-> epoch[n],
         hbTerm |-> hbTerm, term |-> currentTerm[n],
         prevLogIndex |-> next - 1, prevLogTerm |-> TermAt(log[n], next - 1),
         entries |-> SubSeq(log[n], next, Len(log[n])),
         leaderCommit |-> commitIndex[n]] : p \in Peers[n]}

\* A round scheduled by propose: it starts two turns of the event loop later
\* and does not ask whether the node still leads.
ReplicateToAll(n) ==
    /\ rounds[n] > 0
    /\ MayCall
    /\ rounds' = [rounds EXCEPT ![n] = @ - 1]
    /\ Send(AppendRequests(n, 0))
    /\ UNCHANGED <<state, currentTerm, votedFor, log, candidateVars, leaderVars,
                   commitIndex, applyVars, proposals, heartbeat, epoch>>

\* The calls a heartbeat loop of n is waiting for.
Awaited(n) ==
    {m \in BagToSet(messages) :
        \/ /\ m.type = "append_entries" /\ m.src = n
           /\ m.hbTerm = currentTerm[n] /\ m.epoch = epoch[n]
        \/ /\ m.type = "append_response" /\ m.dst = n
           /\ m.hbTerm = currentTerm[n] /\ m.epoch = epoch[n]}

\* One turn of _heartbeat_loop; the turn before has all its answers or has given up.
Heartbeat(n) ==
    /\ heartbeat[n]
    /\ state[n] = Leader
    /\ MayCall
    /\ Awaited(n) = {}
    /\ Send(AppendRequests(n, currentTerm[n]))
    /\ UNCHANGED <<state, currentTerm, votedFor, log, candidateVars, leaderVars,
                   commitIndex, applyVars, clientVars, heartbeat, epoch>>

\* The two second timeout of a heartbeat's call, while its request is still on the way.
CallTimesOut(m) ==
    /\ m.type = "append_entries"
    /\ m.hbTerm > 0
    /\ m.epoch = epoch[m.src]
    /\ messages' = (messages (-) SetToBag({m})) (+) SetToBag({[m EXCEPT !.epoch = 0]})
    /\ UNCHANGED <<state, currentTerm, votedFor, log, candidateVars, leaderVars,
                   commitIndex, applyVars, clientVars, heartbeat, epoch>>

AppendAnswer(m, t, success) ==
    [type |-> "append_response", src |-> m.dst, dst |-> m.src, epoch |-> m.epoch,
     hbTerm |-> m.hbTerm, term |-> t, success |-> success,
     matched |-> IF success THEN m.prevLogIndex + Len(m.entries) ELSE 0]

ConsistentLength(l, m) == m.prevLogIndex <= Len(l)
Consistent(l, m) ==
    m.prevLogIndex > 0 => /\ m.prevLogIndex <= Len(l)
                          /\ l[m.prevLogIndex].term = m.prevLogTerm

MergeWithoutTruncation(l, prev, entries) ==
    l \o SubSeq(entries, Len(l) - prev + 1, Len(entries))

\* The append loop: entries already present are kept; from the first that is
\* missing or has another term on, the log is the leader's.
Merge(l, prev, entries) ==
    LET new == {i \in DOMAIN entries :
                  prev + i <= Len(l) => l[prev + i].term # entries[i].term}
    IN  IF new = {} THEN l
        ELSE SubSeq(l, 1, prev + Min(new) - 1) \o SubSeq(entries, Min(new), Len(entries))

CommitPastLog(commit, leaderCommit, length) == Max({commit, leaderCommit})
CommitOfLeader(commit, leaderCommit, length) == Min({leaderCommit, length})
CommitFromLeader(commit, leaderCommit, length) ==
    IF leaderCommit > commit THEN Min({leaderCommit, length}) ELSE commit

RejectStaleAppend(m) ==
    /\ m.term < currentTerm[m.dst]
    /\ Reply(m, AppendAnswer(m, currentTerm[m.dst], FALSE))
    /\ UNCHANGED <<state, currentTerm, votedFor, heartbeat, log, commitIndex>>

RejectInconsistentAppend(m) ==
    LET n == m.dst IN
    /\ m.term >= currentTerm[n]
    /\ ~Consistent(log[n], m)
    /\ BecomeFollower(n, m.term)
    /\ log' = [log EXCEPT ![n] =
                  IF m.prevLogIndex <= Len(@) THEN SubSeq(@, 1, m.prevLogIndex - 1) ELSE @]
    /\ Reply(m, AppendAnswer(m, m.term, FALSE))
    /\ UNCHANGED commitIndex

AcceptAppend(m) ==
    LET n      == m.dst
        merged == Merge(log[n], m.prevLogIndex, m.entries)
    IN
    /\ m.term >= currentTerm[n]
    /\ Consistent(log[n], m)
    /\ BecomeFollower(n, m.term)
    /\ log' = [log EXCEPT ![n] = merged]
    /\ commitIndex' = [commitIndex EXCEPT ![n] =
           CommitFromLeader(@, m.leaderCommit, Len(merged))]
    /\ Reply(m, AppendAnswer(m, m.term, TRUE))

HandleAppendEntries(m) ==
    /\ m.type = "append_entries"
    /\ \/ RejectStaleAppend(m)
       \/ RejectInconsistentAppend(m)
       \/ AcceptAppend(m)
    /\ UNCHANGED <<candidateVars, leaderVars, applyVars, clientVars, epoch>>

CommittableOnePast(n, match) ==
    {i \in commitIndex[n] + 1 .. Len(log[n]) :
        /\ log[n][i].term = currentTerm[n]
        /\ 1 + Cardinality({p \in Peers[n] : match[p] + 1 >= i}) >= Quorum(n)}

\* The indexes _advance_commit_index accepts: of the current term, and matched by a quorum.
Committable(n, match) ==
    {i \in commitIndex[n] + 1 .. Len(log[n]) :
        /\ log[n][i].term = currentTerm[n]
        /\ 1 + Cardinality({p \in Peers[n] : match[p] >= i}) >= Quorum(n)}

AdvanceCommitIndex(n, match) ==
    LET ready == Committable(n, match) IN
    IF ready = {}
    THEN UNCHANGED <<commitIndex, proposals>>
    ELSE /\ commitIndex' = [commitIndex EXCEPT ![n] = Max(ready)]
         /\ proposals' = [proposals EXCEPT ![n] = Resolve(@, Max(ready))]

BackOffPastStart(i) == i - 1
BackOff(i) == Max({1, i - 1})

\* Nothing ties the answer to the term in which the request was sent; only the
\* answers to a heartbeat disappear with the heartbeat loop, which every
\* step-down cancels.
HandleAppendEntriesResponse(m) ==
    LET n == m.dst
        p == m.src
        match == [matchIndex[n] EXCEPT ![p] = Max({@, m.matched})]
    IN
    /\ m.type = "append_response"
    /\ m.epoch = epoch[n]
    /\ m.hbTerm > 0 => state[n] = Leader /\ m.hbTerm = currentTerm[n]
    /\ Discard(m)
    /\ IF m.term > currentTerm[n]
       THEN /\ BecomeFollower(n, m.term)
            /\ UNCHANGED <<leaderVars, commitIndex, proposals>>
       ELSE /\ UNCHANGED <<state, currentTerm, votedFor, heartbeat>>
            /\ IF state[n] # Leader
               THEN UNCHANGED <<leaderVars, commitIndex, proposals>>
               ELSE IF m.success
               THEN /\ matchIndex' = [matchIndex EXCEPT ![n] = match]
                    /\ nextIndex' = [nextIndex EXCEPT ![n][p] = m.matched + 1]
                    /\ AdvanceCommitIndex(n, match)
               ELSE /\ nextIndex' = [nextIndex EXCEPT ![n][p] = BackOff(@)]
                    /\ UNCHANGED <<matchIndex, commitIndex, proposals>>
    /\ UNCHANGED <<log, candidateVars, applyVars, rounds, epoch>>

-----------------------------------------------------------------------------
(* Client interface and state machine *)

\* A client's command at a leader (the refusal by any other node changes nothing).
Propose(n) ==
    /\ state[n] = Leader
    /\ Len(log[n]) < MaxCommand
    /\ AppendCommand(n, currentTerm[n], FALSE)
    /\ UNCHANGED <<state, currentTerm, votedFor, candidateVars, leaderVars, commitIndex,
                   applyVars, heartbeat, messages, epoch>>

ResumeIfCommitted(n, p) ==
    heartbeat' = [heartbeat EXCEPT ![n] =
                     IF p.noop /\ p.status = "resolved" THEN state[n] = Leader ELSE @]

\* When the no-op's propose returns, _become_leader goes on and starts the
\* heartbeat loop, which ends at once on a node that no longer leads.
ResumeBecomeLeader(n, p) ==
    heartbeat' = [heartbeat EXCEPT ![n] = IF p.noop THEN state[n] = Leader ELSE @]

ProposeReturns(n, p) ==
    /\ p.status = "resolved"
    /\ proposals' = [proposals EXCEPT ![n] = @ \ {p}]
    /\ ResumeBecomeLeader(n, p)
    /\ UNCHANGED <<state, currentTerm, votedFor, log, candidateVars, leaderVars,
                   commitIndex, applyVars, rounds, messages, epoch>>

LeaderTimesOut(n, p) ==
    /\ state[n] = Leader
    /\ p.status # "resolved"
    /\ proposals' = [proposals EXCEPT ![n] = Displace(@ \ {p}, p.index)]
    /\ ResumeBecomeLeader(n, p)
    /\ UNCHANGED <<state, currentTerm, votedFor, log, candidateVars, leaderVars,
                   commitIndex, applyVars, rounds, messages, epoch>>

\* The timeout removes whatever is registered at the index, its own or not.
ProposeTimesOut(n, p) ==
    /\ p.status # "resolved"
    /\ proposals' = [proposals EXCEPT ![n] = Displace(@ \ {p}, p.index)]
    /\ ResumeBecomeLeader(n, p)
    /\ UNCHANGED <<state, currentTerm, votedFor, log, candidateVars, leaderVars,
                   commitIndex, applyVars, rounds, messages, epoch>>

MoreThanOneToApply(n) == lastApplied[n] + 1 < commitIndex[n]
ToApply(n) == lastApplied[n] < commitIndex[n]

\* One turn of _apply_loop: an index past the end of the log is skipped for good.
Apply(n) ==
    LET i == lastApplied[n] + 1 IN
    /\ ToApply(n)
    /\ lastApplied' = [lastApplied EXCEPT ![n] = i]
    /\ applied' = [applied EXCEPT ![n] = IF i <= Len(log[n]) THEN Append(@, log[n][i]) ELSE @]
    /\ UNCHANGED <<state, currentTerm, votedFor, log, candidateVars, leaderVars,
                   commitIndex, clientVars, heartbeat, messages, epoch>>

-----------------------------------------------------------------------------
(* The environment *)

\* RaftState is a plain dataclass that nothing writes to disk: a restarted
\* process begins with the state of __init__.
Crash(n) ==
    /\ epoch[n] <= MaxCrashes
    /\ epoch' = [epoch EXCEPT ![n] = @ + 1]
    /\ state' = [state EXCEPT ![n] = Follower]
    /\ currentTerm' = [currentTerm EXCEPT ![n] = 0]
    /\ votedFor' = [votedFor EXCEPT ![n] = None]
    /\ log' = [log EXCEPT ![n] = <<>>]
    /\ votesReceived' = [votesReceived EXCEPT ![n] = {}]
    /\ nextIndex' = [nextIndex EXCEPT ![n] = [p \in Peers[n] |-> 1]]
    /\ matchIndex' = [matchIndex EXCEPT ![n] = [p \in Peers[n] |-> 0]]
    /\ commitIndex' = [commitIndex EXCEPT ![n] = 0]
    /\ lastApplied' = [lastApplied EXCEPT ![n] = 0]
    /\ applied' = [applied EXCEPT ![n] = <<>>]
    /\ proposals' = [proposals EXCEPT ![n] = {}]
    /\ rounds' = [rounds EXCEPT ![n] = 0]
    /\ heartbeat' = [heartbeat EXCEPT ![n] = FALSE]
    /\ UNCHANGED messages

Lose(m) ==
    /\ Discard(m)
    /\ UNCHANGED <<state, currentTerm, votedFor, log, candidateVars, leaderVars,
                   commitIndex, applyVars, clientVars, heartbeat, epoch>>

-----------------------------------------------------------------------------
ReturnToClient(n, p) == ProposeReturns(n, p) \/ ProposeTimesOut(n, p)

NodeStep(n) ==
    \/ StartElection(n)
    \/ ReplicateToAll(n)
    \/ Heartbeat(n)
    \/ Propose(n)
    \/ \E p \in proposals[n] : ReturnToClient(n, p)
    \/ Apply(n)
    \/ Crash(n)

MessageStep(m) ==
    \/ HandleVoteRequest(m)
    \/ HandleVoteResponse(m)
    \/ HandleAppendEntries(m)
    \/ HandleAppendEntriesResponse(m)
    \/ CallTimesOut(m)
    \/ Lose(m)

Next ==
    \/ \E n \in Node : NodeStep(n)
    \/ \E m \in BagToSet(messages) : MessageStep(m)

Spec == Init /\ [][Next]_vars

\* What asyncio guarantees without the network: propose always returns (its
\* wait has a five second timeout), _apply_loop always gets another turn, and a
\* node without a leader's role times out again.
LocalFairness ==
    /\ \A n \in Node : WF_vars(StartElection(n))
    /\ \A n \in Node : WF_vars(Apply(n))
    /\ \A n \in Node, i \in 1..MaxLog, t \in 1..MaxTerm :
          WF_vars(\E p \in proposals[n] : p.index = i /\ p.term = t /\ ReturnToClient(n, p))

FairSpec == Spec /\ LocalFairness

-----------------------------------------------------------------------------
(* Properties *)

\* Every variable has the shape its fields have in the code; nextIndex never
\* reaches 0, where log[next_idx - 1:] would take the last entry only.
TypeOK ==
    /\ state \in [Node -> {Follower, Candidate, Leader}]
    /\ currentTerm \in [Node -> Nat]
    /\ votedFor \in [Node -> Node \cup {None}]
    /\ log \in [Node -> Seq(Entry)]
    /\ votesReceived \in [Node -> SUBSET Node]
    /\ DOMAIN nextIndex = Node
    /\ DOMAIN matchIndex = Node
    /\ \A n \in Node : /\ nextIndex[n] \in [Peers[n] -> Nat \ {0}]
                       /\ matchIndex[n] \in [Peers[n] -> Nat]
    /\ commitIndex \in [Node -> Nat]
    /\ lastApplied \in [Node -> Nat]
    /\ applied \in [Node -> Seq(Entry)]
    /\ proposals \in [Node -> SUBSET Proposal]
    /\ rounds \in [Node -> Nat]
    /\ heartbeat \in [Node -> BOOLEAN]
    /\ IsABag(messages)
    /\ BagToSet(messages) \subseteq Message
    /\ epoch \in [Node -> Nat \ {0}]

\* No two nodes lead in the same term (handle_vote_request and the quorum of
\* handle_vote_response).
ElectionSafety ==
    \A a, b \in Node :
        state[a] = Leader /\ state[b] = Leader /\ currentTerm[a] = currentTerm[b] => a = b

\* A node whose vote a candidate or leader holds stays out of that term's
\* election, although _become_follower forgets the vote.
VotersFollow ==
    \A c \in Node : state[c] # Follower =>
        \A v \in votesReceived[c] \ {c} :
            \/ currentTerm[v] > currentTerm[c]
            \/ currentTerm[v] = currentTerm[c] /\ state[v] = Follower

\* The terms in a log never decrease and never pass the node's own term, so
\* that comparing last entries (log_ok) compares logs: whatever sequence of
\* truncations, merges and proposals made it.
TermsOrdered ==
    \A n \in Node :
        /\ \A i, j \in DOMAIN log[n] : i <= j => log[n][i].term <= log[n][j].term
        /\ \A i \in DOMAIN log[n] : log[n][i].term <= currentTerm[n]

\* Two logs with the same term at an index are the same up to that index: what
\* the check of prev_log_term and the append loop are for.
LogMatching ==
    \A a, b \in Node : \A i \in DOMAIN log[a] \cap DOMAIN log[b] :
        log[a][i].term = log[b][i].term => SubSeq(log[a], 1, i) = SubSeq(log[b], 1, i)

AgreeOnCommon(s, t) == \A i \in DOMAIN s \cap DOMAIN t : s[i] = t[i]

\* No two nodes hand different commands to their state machines at the same
\* position (_apply_loop, over everything that moves commit_index).
StateMachineSafety == \A a, b \in Node : AgreeOnCommon(applied[a], applied[b])

\* A leader has every entry some node of its term or below has committed
\* (log_ok in handle_vote_request against _advance_commit_index).
LeaderCompleteness ==
    \A a, b \in Node : state[b] = Leader /\ currentTerm[b] >= currentTerm[a] =>
        \A i \in 1..commitIndex[a] \cap DOMAIN log[a] :
            i \in DOMAIN log[b] /\ log[b][i] = log[a][i]

\* A committed index always has its entry: _apply_loop would skip it for good.
CommittedInLog == \A n \in Node : commitIndex[n] <= Len(log[n])

HasPrefix(l, s) == Len(s) <= Len(l) /\ SubSeq(l, 1, Len(s)) = s

\* Every node that does not restart provides the log that the lock manager is built
\* on: whatever a node merges, cuts off or commits late, its state machine gets
\* each committed entry once and in order, and none of them is replaced.
NodeLog(n) == INSTANCE CommandLog WITH
    Command   <- Entry,
    backlog   <- SubSeq(log[n], lastApplied[n] + 1, Len(log[n])),
    committed <- commitIndex[n] - lastApplied[n]
LogsStart   == \A n \in Node : NodeLog(n)!Init
LogsAdvance == \A n \in Node : NodeLog(n)!Next \/ epoch'[n] # epoch[n]
ProvidesLog == LogsStart /\ [][LogsAdvance]_vars

\* When a leader moves its commit index, more than half of the nodes have its
\* log up to there, however old the answers it counted are.
CommitsWithMajority ==
    \A n \in Node : state[n] = Leader /\ commitIndex'[n] > commitIndex[n] /\ state'[n] = Leader =>
        2 * Cardinality({p \in Node : HasPrefix(log[p], SubSeq(log[n], 1, commitIndex'[n]))})
            > Cardinality(Node)
CommitNeedsMajority == [][CommitsWithMajority]_vars

\* What propose promises: it answers True only for a command that is committed.
\* _pending_commits knows the index of the command, not its term.
ResolvedIsOwnEntry ==
    [][\A n \in Node : \A p \in proposals'[n] \ proposals[n] : p.status = "resolved" =>
         p.index \in DOMAIN log'[n] /\ log'[n][p.index].term = p.term]_vars

\* Every proposal is answered, also one whose slot in _pending_commits another
\* proposal has taken.
ProposalsReturn ==
    \A n \in Node, i \in 1..MaxLog, t \in 1..MaxTerm :
        (\E p \in proposals[n] : p.index = i /\ p.term = t)
            ~> ~(\E p \in proposals[n] : p.index = i /\ p.term = t)

\* A node that stays leader comes to send heartbeats, even when no quorum
\* answers and its no-op is never committed.
LeaderHeartbeats ==
    \A n \in Node : state[n] = Leader ~> heartbeat[n] \/ state[n] # Leader

\* What a node knows to be committed reaches its state machine, unless the node
\* restarts and knows it no longer.
CommittedIsApplied ==
    \A n \in Node, i \in 1..MaxLog :
        commitIndex[n] >= i ~> lastApplied[n] >= i \/ commitIndex[n] < i

====
