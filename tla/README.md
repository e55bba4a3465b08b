# TLA+ specification of the Distributed Synchronization System

The program (`src/src/`) is a cluster of Python/asyncio nodes. Every node runs a
Raft replica, and on top of it or beside it a lock manager, a message queue and a
coherent cache. These modules specify the parts that carry the program's logic,
`TLC` checks them on small instances, and `TLAPS` proves the most important facts
for every value of the constants.

- `PROJECT.json` lists the parts, the runs, which source lines each definition
  models, what goes wrong when a definition is changed, the hazards and the theorems.
- Running one instance: `tlc -config MCLock.cfg MCLockManager`. Checking the proofs
  of a module: `tlapm LockProofs.tla`.

## 1. Inventory of the system

| Part | State | Operations | Talks to |
|---|---|---|---|
| Raft node, `consensus/raft.py` | role; term, vote and log (in memory only); votes; `next_index`, `match_index`; `commit_index`, `last_applied`; pending proposals by index | election timer, `handle_vote_request/response`, `handle_append_entries/response`, `propose`, heartbeat loop, `_apply_loop` | peers through the transport; the state machine through `_state_machine_apply` |
| Transport, `nodes/base_node.py` | the peer list | POST to `/raft/*` with a two second timeout, no retry | other nodes |
| Lock manager, `nodes/lock_manager.py` | `_locks` with holders and waiters, `_client_locks`, futures of the calls | `acquire`, `release`, `release_all`, `_apply_command`, deadlock detector, timeout checker | proposes to Raft, is applied by it |
| Wait-for graph, `nodes/lock_manager.py` | edges between clients | `add_wait`, `remove_wait`, `remove_node`, `detect_cycle`, `get_victim` | lock manager |
| Queue node, `nodes/queue_node.py` | `_in_flight`, `_consumer_groups`; the queues in Redis | `produce`, `consume`, `acknowledge`, `negative_acknowledge`, timeout checker | Redis lists shared by all nodes |
| Hash ring, `nodes/queue_node.py` | the node at each virtual node's hash | `add_node`, `remove_node`, `get_node`; `get_partition` is all the program uses | queue node |
| Cache node, `nodes/cache_node.py` | lines with a MESI state, the sharers of a key | `read`, `write`, `invalidate`, coherence messages | other cache nodes |
| LRU and LFU stores, `nodes/cache_node.py` | lines in order of use, or with a count of uses and a bucket of keys for each count | `get`, `put`, `invalidate` | cache node, which is configured with one of them |
| Failure detector, `communication/failure_detector.py` | heartbeat history of each watched name, the names thought alive | `record_heartbeat`, `run_check_loop` | heartbeats of other nodes; callbacks of the base node |
| Message bus, metrics, configuration, HTTP API | | | wiring; the message bus is never constructed |

All coroutines of a node run in one asyncio loop: a handler is atomic up to the next
`await` that really suspends. In the modules one such stretch is one action. Nodes share
nothing but messages, and the queue nodes share Redis.

What is hard in each part, and what makes it correct:

- **Raft.** Answers come late, in another order, or never. Handlers read state before an
  `await` and use it after. Votes are forgotten when a node steps down inside its term,
  and everything is forgotten when it restarts. Correct: one leader in a term, logs that
  match, committed entries that stay, every proposal answered, and answered `True` only if it is
  committed. The last does not hold, and of the others some only where every vote is needed (section 5).
- **Lock manager.** A call of `acquire` can give up while its command is being committed.
  Client release, expiry, abort and cancellation overtake each other through the log.
  Correct: readers or one writer, no lock without a holder, the lists of a client agree
  with the locks, no waiter is lost, deadlocks are found, every call is answered. Futures of proposals are
  kept by index, so a caller may also wait for a command that is not in the log any more.
- **Queue.** A message travels between Redis, an answer on the wire, a node's memory and a
  retry, with awaits between. Correct: it is in exactly one of these places, it dies after
  `max_retries`, fresh messages stay in order, partitions are shared out without gap or
  overlap, everything is settled in the end.
- **Cache.** `write` awaits the invalidation of the other copies and then stores; `read`
  awaits a fetch and then stores. Correct: a value that is not written back is in one place,
  nobody sees a write that is still invalidating, a write takes effect, no store outgrows its capacity.
- **LFU store.** Keys move between buckets on each use, and invalidations and replacements leave keys
  in buckets where they do not belong. Correct: every line can be found for eviction, and the line
  that goes is one used least.
- **Hash ring.** A key behind the last point belongs to the first one; nodes come and go. Correct:
  nodes that know the same members agree on the owner of a key, and a change of members moves few keys.
- **Failure detector.** The check loop compares two lists of names and awaits a callback for every failure
  between making the one and storing it as the other, while heartbeats arrive. Correct: failures and recoveries of a
  name alternate, no change is skipped, a crash is reported, and a false report is taken back.

## 2. Modules

| Module | What it is |
|---|---|
| `Raft` | every Raft node of a cluster and the calls between them |
| `CommandLog` | the abstract specification of the log between Raft and the state machine above it |
| `RaftInvariant` | the inductive invariants: of the election when every vote is needed, of the terms in a log, and of the logs when every vote is needed |
| `RaftProofs` | type correctness of `Raft` |
| `ElectionProofs` | election safety of the deployed cluster |
| `RaftLogProofs` | terms in order in any cluster; one log, and `CommandLog` implemented, in the deployed one |
| `MCRaft` | instances of `Raft` for TLC, and the state with diverged logs three runs start from |
| `MCRaftClusters` | two clusters in which every vote is needed, each an instance of `Raft`, for one run |
| `SharedExclusive` | the abstract specification of a lock: free, read by some, written by one |
| `LockTable` | the replicated state machine of the lock manager as operators on a table |
| `LockManager` | the coroutines around that table, over a Raft log |
| `LockProofs` | exclusion and consistency of the lock table, and what becomes of a request |
| `LockRefinement` | the lock manager implements `SharedExclusive`, and uses the log as `CommandLog` |
| `MCLockManager` | instances of `LockManager` for TLC |
| `CacheNode` | the cache nodes with their stores, and the coherence calls between them |
| `CacheProofs` | Modified values are private, no write is seen early, stores fit |
| `MCCacheNode` | instances of `CacheNode` for TLC |
| `Delivery` | the abstract specification of one message of the queue: unsent, waiting, out, done, dead or lost |
| `DistributedQueue` | the queue nodes, their consumers and Redis |
| `QueueProofs` | a message is in one place, fresh messages stay in order, partitions are shared out, and `Delivery` is implemented |
| `MCDistributedQueue` | instances of `DistributedQueue` for TLC |
| `LFUCache` | the LFU store with its buckets |
| `HashRing` | the consistent hash ring |
| `FailureDetector` | the detector of one node and the heartbeats of its peers |
| `PartsProofs` | keys of the ring are at the next member and few move; the detector tells what it knows; the LFU store finds its lines and evicts those used least |
| `MCParts` | the last three parts and a small instance of `LockManager` side by side, for TLC |

How they fit together. Three abstract specifications say what a part promises, and the
detailed ones are shown to implement them through a refinement mapping: `SharedExclusive`
is implemented by `LockManager` (`KeepsPromise`), `Delivery` by `DistributedQueue` (`DeliveredAsPromised`), and
`CommandLog` by `Raft` (`ProvidesLog`). `CommandLog` is also what joins Raft and the lock manager:
`LockManager` asks of its log nothing but what `CommandLog` allows (`LogOnlyCommits`). The other
parts share no state with each other.

Each module of a state machine also has a few operators named for a mistake
(`VoteAnyway`, `LetGoAndForget`, `RangeToNext`, ...). They are slips a programmer could
make in that code, and `PROJECT.json` says which property notices each. No other definition uses them.

### Raft

Each variable is one field of `RaftNode`, for all nodes at once (the comments in the
module name the field). A command is reduced to the node that proposed it and its term,
which is all the properties tell apart.

| Action | Code |
|---|---|
| `StartElection` | `_election_timer`, `_start_election` up to the sending of the requests |
| `HandleVoteRequest`, `HandleVoteResponse` | the handlers; the second includes `_become_leader`, and with it the no-op's `propose`, up to its await |
| `HandleAppendEntries` | the handler with the step-down, the append loop and the commit index |
| `HandleAppendEntriesResponse` | the handler with `_advance_commit_index` and the futures it sets |
| `Heartbeat`, `ReplicateToAll` | one turn of the heartbeat loop; the round that `propose` schedules, which reads term and log when it starts |
| `Propose`, `ReturnToClient` | `propose` before and after its wait (answer or timeout); a no-op's return starts the heartbeat loop |
| `Apply` | one turn of `_apply_loop` |
| `Crash` | the process stops and starts with empty state; its `epoch` tells its calls from later ones |
| `CallTimesOut`, `Lose` | a heartbeat whose caller gives up after two seconds while the request is under way; a request or an answer that is lost |

`_become_follower` clears `voted_for` also when the term stays the same, and
`BecomeFollower` does so. Messages are a bag, so they may overtake each other.
Timers fire at any time.

The peer list is a constant, because the code does not do what its comment says. The
comment in `base_node.py` is "exclude self"; the comparison is between `host:port` entries
and the node's own `NODE_HOST`, which `docker-compose.yml` sets to `0.0.0.0`. Thus
the deployed nodes have *themselves* in their peer list. The quorum,
`(len(peers) + 1) // 2 + 1`, is then 3 of 3. `MCRaftClusters` has three nodes of the deployed shape and two of
the intended one, `OtherNodes`, which the other runs use: for two nodes each vote is needed too, for three it is a majority.

### Locks

`LockTable` holds the functions of the code that change the table: `ApplyAcquire`,
`ApplyRelease`, `ApplyCancel` with `GrantNext` and the wait-for graph. A table is a record of
locks, the lists of the clients, the edges and the requests granted so far.
`LockManager` is one node: `acquire` in its phases (in `propose`, `waiting`, `cancelling`),
releases by anyone, calls made on other nodes, and the two periodic tasks, whose
lists of what to release are made before the first await.

`LockManager` does not include `Raft`. It has the log as one node sees it: a backlog
of commands of which a prefix is committed, an uncommitted tail that another leader may
truncate, and `propose`, which gives up at any time or answers `True` when the node, leading, commits up to the index
of the command. `_pending_commits` knows no more than the index. So when another leader's log has replaced the command
(phase `overwritten`) and the node leads again within the five seconds, its next commit answers `True` all the same
(`LeaderCommits`); `acquire` then waits though its request is in no queue and not in the log (phase `stranded`), until
`wait_timeout`. Which of the futures up to the index are still registered is left open, since a `propose`
that times out removes whatever is registered at its index. `CommandLog` is
the contract: what is committed stays, is applied once and in order, and all else may change. `ProvidesLog` shows
that the log of each Raft node keeps it (backlog: the entries behind `last_applied`; committed:
`commit_index - last_applied`) until the node restarts, and `LogOnlyCommits` shows
that `LockManager` assumes no more. That different nodes apply the same commands is
`StateMachineSafety`; applying is deterministic, so one node stands for all. One thing `CommandLog` would allow is left out:
a command that was replaced does not come back into the log of this node.

A request keeps its `request_id` for life; `granted` is history and is read only by the
properties and by `Hear`.

### Cache

A node's `_store` is two variables: its `lines` by key and their order of use, `recency`. `sharers` is
`_sharers`. A call of `read`, `write` or DELETE that waits is a record of whom it
waits for; `messages` is a set, since a call asks each node once. A value is the
id of the call that wrote it, so no two writes write the same.

| Action | Code |
|---|---|
| `ReadHit`; `ReadMiss`, `Fill`, `ReadFails` | `read` with a line; without, up to its await, and after it when a peer had the line or none had |
| `WriteOwned`; `StartWrite`, `FinishWrite` | `write` to a line in M or E; any other, before and after `_invalidate_others` |
| `StartDelete`, `FinishDelete` | `handle_cache_invalidate` before and after the same await |
| `HandleFetch`, `HandleInvalidation` | the handlers of coherence messages, atomic because `_writeback` is a stub |
| `TakeAnswer`, `CallTimesOut` | an answer arrives; two seconds have passed, or there is no connection |

`Put` is `LRUCache.put` as it is written: a line that is there stays, the new one is dropped.
A call to a sharer fails at once if node ids are no addresses
(`IdsAreAddresses`), which is the deployed case: `docker-compose.yml` has `node-1` and `172.20.0.11:8001`.
A request whose caller has given up may still arrive. A lost message is one that never moves.

### Queue

`DistributedQueue` has one topic and one group. Redis is external: lists with `rpush`,
`lpush`, `lpop`, each atomic, with an answer that arrives later. `consume` is
`StartConsume`, then `Pop` (Redis) and `Take` (the node) for each partition, then `Return`.
`negative_acknowledge` is `NegativeAcknowledge` (out of memory), then
`Requeue` (into Redis). The checker is `FindTimedOut`, then one `GiveBackTimedOut` for each
listed message. Faults are `Crash`, a Redis call that fails (`RequeueFails`) and an
answer that gets lost (`ReplyLost`). A timeout may strike at any time after delivery:
the code measures the age of a message from its *production*, so a message that waited
long in the queue times out in the checker's next turn.

`DeliveredAsPromised` maps each message to a state of `Delivery` by the one place it is in
(`OnePlace`) and its number of retries there. The in-between states, in an answer of Redis, in a call
or between `negative_acknowledge` and Redis, count as *out*, and only from there can it be lost.

### LFU store, hash ring, failure detector

`LFUCache` has one action for each branch of `get`, `put` and `invalidate`. A bucket is the
sequence of its keys; `access_count` is the count of a line. As in the code, `get` moves the key before it counts, and
neither `invalidate` nor a replacement clears buckets; where `put` then deletes a line that is not
there, the action sets `raised`.

`HashRing` is a function from points to members, and its domain is the sorted list that the code bisects. Which points a member
hashes to is a constant (`Points`), without collisions between members.

`FailureDetector` models time by what it does to phi: a name that has a heartbeat in its history may become
*overdue*, and a heartbeat ends that. `Check` is a turn of `run_check_loop` up to its first callback, `ReportFailure` is
one callback, and the last one also ends the turn with the lists that were made when it began. Peers are watched under the
addresses of the peer list and heard under their node ids, so `Name` has both; a peer whose id is
its address is one of the cases.

## 3. Runs

| Run | Instance | What it shows |
|---|---|---|
| `raft_clusters` | 2 nodes, 3 terms, logs of 2, 2 calls in flight; or 3 nodes that list themselves as peers, 1 term, 3 calls in flight | `ElectionSafety` and `VotersFollow` over every order of the votes; `StateMachineSafety`, `LeaderCompleteness`, `CommitNeedsMajority`, `TypeOK` of commit and apply; and `ProvidesLog`: every node implements `CommandLog` |
| `raft_diverged` | 3 nodes, majority quorum, from a state with diverged logs | truncation, back-off and commits: `LogMatching`, `TermsOrdered`, `CommittedInLog`, `StateMachineSafety` |
| `raft_live` | 2 nodes, each restarts once | `ProposalsReturn`, `LeaderHeartbeats`, `CommittedIsApplied`; and the inductive `ElectionInvariant`, which survives restarts |
| `raft_double_vote` | 3 nodes, majority quorum | **violated** `ElectionSafety`: see findings |
| `raft_overwritten` | as `raft_diverged` | **violated** `ResolvedIsOwnEntry` |
| `raft_late_round` | as `raft_diverged`, and a late round of the deposed leader is on its way | **violated** `StateMachineSafety` |
| `lock` | 2 clients, 1 resource, 3 requests | the lock table is whole; `KeepsPromise`: it implements `SharedExclusive`; `LogOnlyCommits`: it needs only `CommandLog` |
| `lock_deadlock` | 2 clients, 2 resources, 4 requests | **violated** `DeadlockIsCycle` |
| `cache` | 2 nodes that list themselves as peers, 2 keys, 3 calls, room for 1 line | `ModifiedIsPrivate`, `NothingEarly`, and stores that agree with their order and capacity |
| `cache_lost_write` | the same, and no call fails by timeout | **violated** `WriteTakesEffect` |
| `queue` | 1 node, 2 consumers, 2 messages, 2 partitions, 1 fault | `OnePlace`, `FreshInOrder`, `EachPartitionAssigned`, `EverySettled`; and `DeliveredAsPromised`: it implements `Delivery` |
| `parts` | 3 keys in 2 lines; 3 ring members with 5 points; 2 peers, 2 crashes; 2 clients, 1 resource, 2 requests | `Findable`, `PutIsLFU`; `NearestMember`, `MinimalMovement`; `ToldIsKnown`, `CrashIsReported`, `MistakeIsCorrected`; `AcquireReturns` |

A behaviour of `raft_clusters` is one of the one cluster or of the other, and one of `parts` exercises one of its four instances;
they share a run and nothing else.

### Bounds

- `MaxTerm`, `MaxLog`, `MaxCommand`, `MaxInFlight`, `MaxCrashes` bound a Raft run.
  With three nodes, one term and room for three calls, all nodes can be candidates at
  once and hold each other's requests and answers; terms interact in the cluster of two, where an
  answer of term 1 can arrive in term 3. `MaxInFlight` limits when a round of calls
  *starts*, so a round of two calls may exceed it. Truncation needs a third node and
  two finished elections, which is too deep for three nodes from the start.
  The runs from the diverged logs therefore start in a state that such a prefix leads to (`Diverged`; its comment tells how): the
  first leader has two proposals of its own behind the common entry and their callers still wait, and its rival leads the next term with an entry of its
  own on two nodes. One more term is enough for either to win. In `raft_diverged` a round starts only when no other call is under
  way (`MaxInFlight = 1`); with a late round of a deposed leader on its way, as at the start of `raft_late_round`, the properties fail.
- `MaxBacklog` bounds commands that wait to be applied. With 1, a command may still be
  proposed, committed, truncated or overtaken by a timeout; only `CheckTimeouts`, `AbortNext` and
  `WaitTimesOut` wait for or go past a full backlog. Three requests are needed for a queue of
  two behind a holder (two readers behind a writer are handed over together, a
  writer behind a reader alone), and two resources with four requests for a deadlock
  whose edges a grant removes. In the run `lock`, `OneElsewhere` and `OneTask` keep to one call on another node and to one
  periodic task with a list at a time: of a call on another node this one sees its commands only, and a task proposes nothing but releases, which clients may
  ask for at any time too.
- Three calls that wait or write (hits are free) are two writers and a reader of one key, or a write, the
  fetch that shares it, and another write. With room for one line, the second key
  evicts the first, also while a call on it is under way.
- `MaxRetries = 2` distinguishes the first retry from the last. Two messages and
  two partitions are needed for order and assignment; two consumers are as many as
  there are partitions, which includes the member that joins late. `MaxFaults = 1` is any one fault.
- An LFU store of two lines for three keys evicts; counts up to 3 make buckets 1 to 3, so a line can fall behind another
  by more than one use. Five points of three members on a circle of eight have neighbours, gaps, and
  keys in front of and behind all points; larger rings are covered by the proofs. Two peers, of which one is watched under
  its id and the other under another name, can fail together, which is what the stale list of a turn is about; two heartbeats
  may be on their way when their sender crashes.
- Symmetry is used only in runs without liveness, and not where the nodes start in different states.

Deadlock is checked in the lock runs and in `parts`. The Raft instances stop when all nodes have reached their
bounds, the cache instances when all calls are used, and a queue node that has crashed stops, so these have `CHECK_DEADLOCK FALSE`.

### Fairness

- Raft, `LocalFairness`: the election timer fires, `_apply_loop` gets its turn, `propose` returns
  (its wait has a five second timeout). Nothing is assumed of the network: no
  message needs to arrive, so the liveness properties are about what a node does on its own.
- Locks (in `parts`): both waits in `acquire` have a timeout, and so has the proposal of the
  cancellation. Nothing is assumed of Raft or of other clients.
- Cache: none, and no liveness is checked.
- Queue: Redis answers, the checker wakes up, consumers keep polling. The last is
  not in the code but in its clients, and necessary: nobody else takes messages out.
  `EverySettled` makes no promise after a fault, since a fault may lose the message.

- Failure detector: the loop gets its turn, and a peer that has stopped falls silent, which is time passing. Heartbeats may all be lost,
  and `MistakeIsCorrected` therefore ends in "recovered or overdue again".

## 4. Proofs

`RaftProofs`, `TypeCorrect`: `Spec => []TypeOK` for every cluster, peer list and bound.
`TypeOK` is inductive. Its interesting part is that `next_index` stays positive under
any sequence of late negative answers, and that the append loop yields a sequence of entries.

`ElectionProofs`, `UnanimousElectionSafety` and `DeployedElectionSafety`: no term has two leaders if
each quorum is every node, and the deployed cluster of three is such a cluster. The usual
argument (a node votes once in a term) is not available, because votes are
forgotten. What replaces it, `ElectionInvariant`, has four parts besides `TypeOK`:

- a candidate or leader has its own vote (`OwnVote`);
- no request or granted vote in flight comes from a later term than its caller has reached,
  counting restarts (`CallsNotAhead`);
- two rivals of a term never have *each other's* vote, counted or on its way (`NoMutualVotes`).
  A node that grants a vote has not voted for itself in that term, so it is no candidate then;
  if it becomes one later, it does so in a higher term;
- a leader has all votes (`LeaderHasAllVotes`).

Two leaders of a term would have each other's vote. The proof has one lemma for each
action that touches elections, and `QuietStep` covers the others. For a majority
quorum the theorem is false (`raft_double_vote`), and nothing weaker is claimed.

`RaftLogProofs`, first part: `TermsStayOrdered`, for every cluster, peer list and number of restarts: the terms of a log never
decrease and never pass the node's own. The inductive invariant `TermsInvariant` adds that the entries of
a request in flight are in order between its `prev_log_term` and its term; the node takes over that term before it merges.

Second part: `LogInvariantHolds` and, from it, `UnanimousVotersFollow`, `UnanimousLogMatching`, `UnanimousStateMachineSafety`,
`UnanimousLeaderCompleteness`, `UnanimousCommittedInLog`, `UnanimousCommitNeedsMajority` and
`UnanimousProvidesLog` (each node's log implements `CommandLog`, which the lock manager builds on); `DeployedLog` instantiates them for the
deployed cluster. They are stated under two hypotheses:

- `Unanimous`: every quorum is every node, as in the deployed cluster. In a majority cluster two leaders of one
  term are possible and late rounds undo what was acknowledged (section 5), so the log properties are false; there they are
  model-checked from the prepared state of `raft_diverged` only, with rounds that do not overlap.
- `MaxCrashes = 0`: no process restarts. Nothing of Raft is on disk. A node that restarts begins in term 0 with an empty log and may
  lead the same term a second time with other commands at the same indexes, so the properties fail then because of what the code does not
  store. `ElectionInvariant` and `TermsInvariant` are proved with restarts.

`UnanimousCommitNeedsMajority` needs a third, `SelfCountHarmless`: `_advance_commit_index` counts the leader and then its peers, so a
leader that is its own peer counts twice, and in a cluster of two it could commit alone. Three nodes are not affected.

The argument of `LogInvariant` is not the usual one with quorums that intersect. Under unanimity there is *one* log: any two logs agree where both have entries
(`OneLog`), the leader's is the longest (`LeaderIsLongest`), and a request in flight, however old, copies what its sender's log still
has (`MessagesFollowLog`). So an AppendEntries never cuts an entry off (`AppendCopies`), logs only
grow (`LogsGrow`), and what is committed or applied stays (`AppliedIsPrefix`, `PeersIndexed`). A leader is longest because it has all
votes: as long as a node has more entries than a candidate, some such node has not voted for it (`LongerLogWithholdsVote`), and who has voted cannot become
a rival in that term though its vote is forgotten (`VotersStay`). TLC checked `LogInvariant` completely for two nodes and three
terms, with either shape of the peer lists, before it was proved.

`LockProofs`: `LockTypeCorrect`, `LocksAreExclusive`, `ListsAreExact`, `WaitsAreForHolders`, for any
clients, resources and requests. The invariant is `Whole(table)`: exclusion, no lock
without holder, lists equal to holders, edges to holders only. In the middle of a release
the lock has no holder, so the lemmas pass through `Almost(t, r)`, which excuses the lock `r`;
`LetGo` leads from `Whole` to `Almost`, `GrantNext` or `Drop` back. `FrontBounds` (what
`_grant_next` pops is at least one waiter, and exactly one if it is a writer) is what makes a handover
safe. Nothing is assumed about the order of the commands, so the theorems hold
whatever Raft commits.

`WaitersAreNotForgotten` (`WaitingIsQueued`) and `RequestsQueueOnce` (`QueuedOnce`) are about single requests. A call that waits after its
command was committed is in the queue of its resource, or the command is still to be applied; a call that was answered `True` for the index of a command
another leader's log had replaced waits for nothing, and it is the only kind that does; and no request is queued twice. This needs
`RequestInvariant`, which follows a request from the call to the queue: a call's id is used once and its command is in the log at most once, neither while
the request is queued nor after it was granted (`CommandsTracked`); only a call that has been given up can have a cancellation in the log; and
`WaitersTracked` says for each phase where the request is: while `propose` has not returned, somewhere in the log or a queue, while the call waits, in a queue or in
the committed part, and nowhere once it was replaced. The lemmas on the queues say what one command does to them: append one or grant it, hand over a front, or
cut one out (`CutOut`). The step that decides is `LeaderCommits`, which answers `True` to calls with commands up to the new commit index and to
any whose command was replaced.

`LockRefinement`: `LockIsKept` (`Spec => KeepsPromise`) and `LogIsContract` (`Spec => LogOnlyCommits`). `UseOf(t, r)` is
how a table uses a resource, and `Seen(t, u)` says that from `t` to `u` the clients see nothing or one step of one lock.
There is one lemma for each command (`AcquireSeen`, `ReleaseSeen`, `CancelSeen`), from `Whole` of `LockProofs`: a release that
frees a lock and hands it over is a single step of `SharedExclusive`, and `FrontBounds` makes what is handed over
a legal start. The second theorem is about the sequence of commands alone: appending, truncating behind the committed part,
committing and applying are steps of `CommandLog`.

`QueueProofs`: `QueueTypeCorrect`, `MessagesAreInOnePlace`, `FreshStaysInOrder`, `PartitionsAreAssigned` and `QueueDelivers`
(`Spec => DeliveredAsPromised`), for any nodes, consumers, messages, partitions, retries and faults. `Typed` adds to the types that what can be
delivered has a retry left. `PlaceInvariant` is about the copies of messages, sorted by the
kind of place they are in (`Copies`: waiting in Redis, in an answer of Redis, tracked by a node, handed back, dead):
a message has one copy (`OneCopy`), the copy has one position (`OnePosition`), copies are of messages
that were sent (`OnlySent`), and without a fault none is missing (`NoneLost`). What an action does to the lists of Redis, the calls and
the memory of nodes is reduced to its effect on the copies (`Sends`, `Delivers`, `ComesBack`, `Finishes`, `Pushes`, `Loses`), and only that
is used for the invariant and for the refinement: the state of a message in `Delivery` is determined by its one copy (`Stage`). Fresh
messages are in order because `rpush` puts the last one behind all that wait and `lpush` puts in front only what has a retry. For the assignment, the
indexes of the members are shown to be the ranks from 0, and the ranges of partitions of these ranks to
cover each partition exactly once, also when there are more members than partitions.

`PartsProofs`, hash ring: `KeysAreAtNearest` and `LittleMoves`, for any members and points. The invariant `RingInvariant` says that the ring has
exactly the points of its members and each leads to its owner. The point `get_node` picks is the nearest clockwise one (`NextIsNearest`), no other is as
near (`NearestIsUnique`), and so it stays the pick while it is on a ring with fewer points (`SameNext`). That a set of numbers
has a minimum follows from well-foundedness.

`PartsProofs`, failure detector: `DetectorTellsWhatItKnows`. A turn that waits for callbacks has failures to report of names that were known and are
not in the list it made when it began (`LoopConsistent`), whatever heartbeats arrive meanwhile.

`PartsProofs`, LFU store: `LinesAreFindable` and `PutsEvictLeastUsed` (`LFUSpec => PutIsLFU`). `Sound` says that bucket 0 is empty, a bucket has a
key once, and every line is in its bucket and in none below. The second theorem also needs that `_min_freq` is not too high: a
line that belongs below it is listed there or above as well (`Lingers`), which counts as left behind; and that its bucket is not
empty until a put has raised. So if nothing was left behind, no line belongs below the victim's bucket, and a full cache gives up exactly one line.

`CacheProofs`: `ModifiedPrivate` and `WritesNotEarly`. The two properties are inductive only together, and with
`AnswersAwaited`: an answer in flight belongs to a call that still waits for it. A write's
value is fresh because no line and no message has the value of a call that is not over (`NothingEarly`);
so storing it keeps a Modified value private, and a fetched value cannot be Modified
anywhere (`ModifiedIsPrivate` speaks of answers too). Most steps only keep, remove or
downgrade lines (`TameStep`); the others store one line (`OneLineStep`), and what `Put` evicts or
refuses is covered by `PutLines`. Eviction order and sharers play no part in these two, so they
hold for any replacement policy of that shape. `StoresFit` (`TypeOK`) is about the order: with `OrderInvariant`, the order of
a store lists the keys of its lines, each once, and no more than fit. `WithoutFacts`, `AppendFacts` and `TailFacts` say what the
operations of the `OrderedDict` do to an order, and every action is a `get`, a removal or a `put` in one store, or touches none.

The assumptions are the named ones of the modules (`NodeAssumption`, `PeersAssumption`,
`BoundAssumption`, `BacklogAssumption`, `CacheAssumption`, `QueueAssumption`, `RingAssumption`, `LFUAssumption`, `DetectorAssumption`), and TLC evaluates them in each run.

Every invariant and action property of the passing runs is stated by a theorem, for majority clusters only `TypeOK` and `TermsOrdered`. Only
model-checked are therefore `LogMatching`, `CommittedInLog` and `StateMachineSafety` of a majority cluster from the diverged state; and the
liveness properties, since fairness and `ENABLED` are out of the prover's reach: `ProposalsReturn`, `LeaderHeartbeats`, `CommittedIsApplied`,
`AcquireReturns`, `EverySettled`, `CrashIsReported`, `MistakeIsCorrected`. Induction over data is out of its reach as well,
and so are `RECURSIVE` operators, of which the modules have none.

## 5. Findings

- `raft_double_vote`. An AppendEntries of a node's own term makes `_become_follower` clear
  `voted_for`, so the node votes again in the same term and a majority cluster gets two leaders. The
  deployed cluster is safe only because its peer lists make the quorum unanimous, at the
  price of stopping when any node is down.
- `raft_overwritten`. `_advance_commit_index` (`raft.py:393-397`) sets every pending future up to the new commit index, whatever entry
  is at that index by then. In a majority cluster a leader appends an entry, loses the lead, has the entry replaced by the next leader, and
  leads again before the five seconds of `propose` are over: committing its new entry answers the replaced proposal `True`, against "Returns True if
  committed, False otherwise" (`raft.py:453`). `acquire` (`lock_manager.py:226-233`) then waits for a lock it is not queued for. It is `DENIED` after
  `wait_timeout` even if the lock is free; `release` reports a success that did not happen. `LockManager` has this (phase `stranded`), `WaitingIsQueued` says
  exactly which calls it can strike, and `AcquireReturns` that they are answered. With the deployed quorum of all nodes no entry is ever replaced.
- `raft_late_round`. The round that `propose` schedules (`raft.py:471`) does not ask whether the node still leads, and reads term and log when it
  starts. A leader that is deposed before sends its log in the term of its successor; a follower takes it for the successor's and cuts off entries it had
  acknowledged. The successor counts the acknowledgment when it arrives and commits, and two nodes apply different commands at one index, against "Log replication with strong
  consistency" (`raft.py:71`). The deployed quorum does not get there, as the theorems of `RaftLogProofs` show for it.
- `lock_deadlock`. Granting any request of a client removes the edges of all its
  waits, so a real deadlock may have no cycle in the wait-for graph.
- `cache_lost_write`. A write to a Shared line whose known sharers cannot be reached leaves the
  old line in the store, because `LRUCache.put` does not replace a line, and returns `True`.

Further observations, which the models contain and no run is devoted to:

- A message in flight exists in the memory of its node only, so a crash or a failed push to Redis loses it, although the
  head of `queue_node.py` (lines 7 and 8) promises at-least-once delivery and Redis-backed persistence. `Delivery` has the
  step `Lose` for it. The offset committed in Redis is always 0, because a message is serialized before it gets its offset.
- `LFUCache.invalidate` leaves the key in its bucket. A later `put` may choose it for eviction, and raises `KeyError`
  with nothing stored; if the lowest bucket is empty instead, `put` evicts nothing and the store outgrows its capacity
  (`PutIsLFU` is about the time before the first such failure). The first `get` after a `put` does not raise a line's frequency.
- Heartbeats are recorded under node ids and peers are watched under addresses, so a deployed detector
  watches each peer twice, and the name from the peer list is alive for ever.
- Phi is not monotone: the sign of the cubic term at `failure_detector.py:67` makes it fall for a while as silence grows, before it rises for good. With
  a mean interval over some eleven seconds `math.exp` overflows there and ends the check loop for good.
- A lock that was denied is counted in the metrics as acquired (`base_node.py:171`).
- Nothing of Raft is persistent, although the class is called `PersistentState`. A single
  node never commits, because only a peer's answer advances the commit index.
- A leader that is its own peer answers its own AppendEntries by becoming a follower.
- A proposal whose index a later proposal takes waits out its timeout, and then removes the later one's future.
- A lock can be granted to a client that was told `DENIED`. A cancelled wait leaves its edges
  in the graph. A cancelled writer leaves the readers behind it queued until the next release.
  A stream of readers starves a writer until its timeout.
- The checker's list may be stale: a message that was acknowledged and delivered anew
  cannot be told from the one that timed out, and is given back at once. With more members than partitions the last
  member has all partitions. Members never leave a group.
- Two nodes that write one key at once both end in state M, which the head of `cache_node.py` calls "the only copy".
  State E is never reached, since whoever answers a fetch names itself. An evicted or
  invalidated Modified line is lost, since `_writeback` is a stub. A read may store a line that was
  invalidated while the answer was on its way, and keep it.

## 6. Not modelled, and the plan

1. Proofs: in a majority cluster, `LogMatching` and `CommittedInLog` on condition that no term has two leaders; in a unanimous cluster with
   restarts, which of the log properties survive as long as a restarted node does not lead a term again. The wait-for graph: that the victim of
   a cycle waits in it.
2. `LockManager`: commands that come back after they were replaced, which needs five nodes and a third leader.
3. `DistributedQueue`: two groups over one topic. Groups pop from the same lists, so a message
   goes to one group only; with one group, two consumers of different groups on one partition do not occur.

Not modelled, because no property depends on their state: the HTTP layer, JSON, metrics, configuration and logging. Of
`FailureDetector`, the number phi is not modelled (floating point and wall clocks), only whether it passes the threshold. The message
bus is never constructed, `recover_in_flight` and the detector's `remove_node` are never called, nobody sends the message
`handle_update` answers, and the offsets of the queue are written and never read.

Hazards without a property, in `PROJECT.json`, are of three kinds. Where the code promises nothing: two writers of one cache key, readers that starve a
writer, a stale task list that takes away a lock granted anew, a lock granted to a client that was told `DENIED`, group members that never leave. Where it promises
something in words and does not keep it, which the abstract specification then allows: a message that is lost with the memory of its node or between memory and Redis, and
the end of the queue's checker after an error. And the overflow of phi, which is not modelled.
