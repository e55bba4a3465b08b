---- MODULE DistributedQueue ----
(***************************************************************************)
(* DistributedQueue (src/src/nodes/queue_node.py): nodes that share the    *)
(* lists of one Redis server, and keep the messages they have handed out   *)
(* in memory until they are acknowledged.                                  *)
(*                                                                         *)
(* An operator named for what it gets wrong (RangeToNext, ...) is a slip   *)
(* the properties must notice; no other definition uses it.                *)
(*                                                                         *)
(* Every await of a Redis call is a point where other coroutines run.  One *)
(* topic and one consumer group are modelled.  The offset counters in      *)
(* Redis, which the code writes and never reads, are left out, and so is   *)
(* recover_in_flight, which nothing calls.                                 *)
(***************************************************************************)
EXTENDS Naturals, Sequences, FiniteSets

CONSTANTS
    Node,           \* the nodes
    Message,        \* message_id
    NumPartitions,  \* num_partitions
    NumConsumers,   \* the consumers of the group, in the order of their names
    BatchSize,      \* batch_size of every consume
    MaxRetries,     \* max_retries
    MaxFaults       \* bound: crashes and failed Redis calls

ASSUME QueueAssumption ==
    /\ NumPartitions \in Nat \ {0}
    /\ NumConsumers \in Nat \ {0}
    /\ BatchSize \in Nat \ {0}
    /\ MaxRetries \in Nat \ {0}
    /\ MaxFaults \in Nat

Partition == 0 .. NumPartitions - 1
Consumer  == 1 .. NumConsumers

VARIABLES
    queue,      \* Redis: queue:{topic}:{p}
    dlq,        \* Redis: dlq:{topic}:{p}, all partitions together
    produced,   \* the messages produced so far, in order
    inFlight,   \* _in_flight of each node
    members,    \* the group's members each node has seen
    call,       \* the call of consume each consumer has open
    known,      \* messages that were handed to a consumer
    acked,      \* messages that were acknowledged
    returning,  \* messages negative_acknowledge is pushing back to Redis
    checker,    \* the timed out messages _ack_timeout_checker still goes through
    alive,      \* _ack_timeout_checker has not died of an exception
    faults      \* how many faults there were

redisVars  == <<queue, dlq>>
clientVars == <<produced, known, acked>>
nodeVars   == <<inFlight, members, returning, checker, alive>>
vars == <<queue, dlq, produced, inFlight, members, call, known, acked, returning, checker,
          alive, faults>>

\* A stored message.
Entry == [id : Message, partition : Partition, retries : 0..MaxRetries]

Nothing == [id |-> "none"]

\* A call of consume: the partitions it has yet to poll, what it has got, and
\* the answer of the Redis call it waits for.
Call == [node : Node, todo : SUBSET Partition, got : SUBSET Message, reply : Entry \cup {Nothing}]

Idle == [todo |-> {}]

-----------------------------------------------------------------------------
Init ==
    /\ queue = [p \in Partition |-> <<>>]
    /\ dlq = {}
    /\ produced = <<>>
    /\ inFlight = [n \in Node |-> {}]
    /\ members = [n \in Node |-> {}]
    /\ call = [c \in Consumer |-> Idle]
    /\ known = {}
    /\ acked = {}
    /\ returning = [n \in Node |-> {}]
    /\ checker = [n \in Node |-> {}]
    /\ alive = [n \in Node |-> TRUE]
    /\ faults = 0

-----------------------------------------------------------------------------
(* Producers *)

\* The partition of a message is a hash of its key; produce_batch is a sequence
\* of such steps.
Produce(m, p) ==
    /\ \A i \in DOMAIN produced : produced[i] # m
    /\ queue' = [queue EXCEPT ![p] = Append(@, [id |-> m, partition |-> p, retries |-> 0])]
    /\ produced' = Append(produced, m)
    /\ UNCHANGED <<dlq, known, acked, nodeVars, call, faults>>

-----------------------------------------------------------------------------
(* Consumers *)

\* Members in order share the partitions; the last one takes what remains.
IndexOf(ms, c) == Cardinality({d \in ms : d < c})

RangeToNext(i, total) ==
    LET per == NumPartitions \div total IN
    {p \in Partition : p >= i * per /\ (i = total - 1 \/ p <= i * per + per)}

RangeOf(i, total) ==
    LET per == NumPartitions \div total IN
    {p \in Partition : p >= i * per /\ (i = total - 1 \/ p < i * per + per)}

Assigned(ms, c) == RangeOf(IndexOf(ms, c), Cardinality(ms))

StartConsume(c, n) ==
    /\ call[c] = Idle
    /\ members' = [members EXCEPT ![n] = @ \cup {c}]
    /\ call' = [call EXCEPT ![c] = [node |-> n, todo |-> Assigned(members'[n], c),
                                    got |-> {}, reply |-> Nothing]]
    /\ UNCHANGED <<redisVars, clientVars, inFlight, returning, checker, alive, faults>>

Polling(c) == call[c] # Idle /\ call[c].reply = Nothing

Answered(c) == call[c] # Idle /\ call[c].reply # Nothing

More(c) == call[c].todo # {} /\ Cardinality(call[c].got) < BatchSize

\* Redis pops the first message of the next partition, if there is one.
Pop(c) ==
    /\ Polling(c) /\ More(c)
    /\ LET p == CHOOSE q \in call[c].todo : \A r \in call[c].todo : q <= r IN
       IF queue[p] = <<>>
       THEN /\ call' = [call EXCEPT ![c].todo = @ \ {p}]
            /\ UNCHANGED queue
       ELSE /\ call' = [call EXCEPT ![c].todo = @ \ {p}, ![c].reply = Head(queue[p])]
            /\ queue' = [queue EXCEPT ![p] = Tail(@)]
    /\ UNCHANGED <<dlq, clientVars, nodeVars, faults>>

\* The answer arrives, and the message is tracked until it is acknowledged.
Take(c) ==
    /\ Answered(c)
    /\ LET n == call[c].node
           e == call[c].reply
       IN  /\ inFlight' = [inFlight EXCEPT ![n] = {f \in @ : f.id # e.id} \cup {e}]
           /\ call' = [call EXCEPT ![c].got = @ \cup {e.id}, ![c].reply = Nothing]
    /\ UNCHANGED <<redisVars, clientVars, members, returning, checker, alive, faults>>

Return(c) ==
    /\ Polling(c) /\ ~More(c)
    /\ known' = known \cup call[c].got
    /\ call' = [call EXCEPT ![c] = Idle]
    /\ UNCHANGED <<redisVars, produced, acked, nodeVars, faults>>

AcknowledgeInRedis(n, e) ==
    /\ e.id \in known
    /\ acked' = acked \cup {e.id}
    /\ UNCHANGED <<redisVars, produced, known, nodeVars, call, faults>>

\* The acknowledgment of any delivery of the message will do.
Acknowledge(n, e) ==
    /\ e.id \in known
    /\ inFlight' = [inFlight EXCEPT ![n] = @ \ {e}]
    /\ acked' = acked \cup {e.id}
    /\ UNCHANGED <<redisVars, produced, known, members, returning, checker, alive, call, faults>>

-----------------------------------------------------------------------------
(* Redelivery *)

GiveBackUncounted(n, e, byChecker) ==
    /\ inFlight' = [inFlight EXCEPT ![n] = @ \ {e}]
    /\ returning' = [returning EXCEPT ![n] = @ \cup {[entry |-> e, byChecker |-> byChecker]}]

\* negative_acknowledge up to its await; byChecker: the checker called it.
GiveBack(n, e, byChecker) ==
    /\ inFlight' = [inFlight EXCEPT ![n] = @ \ {e}]
    /\ returning' = [returning EXCEPT ![n] = @ \cup
                        {[entry |-> [e EXCEPT !.retries = @ + 1], byChecker |-> byChecker]}]

NegativeAcknowledge(n, e) ==
    /\ e.id \in known
    /\ GiveBack(n, e, FALSE)
    /\ UNCHANGED <<redisVars, clientVars, members, checker, alive, call, faults>>

PushBackLast(e) ==
    IF e.retries >= MaxRetries
    THEN /\ dlq' = dlq \cup {e}
         /\ UNCHANGED queue
    ELSE /\ queue' = [queue EXCEPT ![e.partition] = Append(@, e)]
         /\ UNCHANGED dlq

PushBackOnceMore(e) ==
    IF e.retries > MaxRetries
    THEN /\ dlq' = dlq \cup {e}
         /\ UNCHANGED queue
    ELSE /\ queue' = [queue EXCEPT ![e.partition] = <<e>> \o @]
         /\ UNCHANGED dlq

\* The retried message comes first, and after too many retries not again.
PushBack(e) ==
    IF e.retries >= MaxRetries
    THEN /\ dlq' = dlq \cup {e}
         /\ UNCHANGED queue
    ELSE /\ queue' = [queue EXCEPT ![e.partition] = <<e>> \o @]
         /\ UNCHANGED dlq

Requeue(n, b) ==
    /\ PushBack(b.entry)
    /\ returning' = [returning EXCEPT ![n] = @ \ {b}]
    /\ UNCHANGED <<clientVars, inFlight, members, checker, alive, call, faults>>

CheckerWaits(n) == \E b \in returning[n] : b.byChecker

\* The checker wakes up and lists the messages produced more than 30 seconds ago.
FindTimedOut(n) ==
    /\ alive[n] /\ checker[n] = {} /\ ~CheckerWaits(n)
    /\ \E late \in SUBSET inFlight[n] \ {{}} :
          checker' = [checker EXCEPT ![n] = {e.id : e \in late}]
    /\ UNCHANGED <<redisVars, clientVars, inFlight, members, returning, alive, call, faults>>

\* It gives back the next one, if that is in flight, again or still.
GiveBackTimedOut(n, id) ==
    /\ ~CheckerWaits(n)
    /\ checker' = [checker EXCEPT ![n] = @ \ {id}]
    /\ IF \E e \in inFlight[n] : e.id = id
       THEN \E e \in inFlight[n] : e.id = id /\ GiveBack(n, e, TRUE)
       ELSE UNCHANGED <<inFlight, returning>>
    /\ UNCHANGED <<redisVars, clientVars, members, alive, call, faults>>

-----------------------------------------------------------------------------
(* Faults *)

Fault == faults < MaxFaults /\ faults' = faults + 1

\* A node stops and starts: what it had in memory is gone, what waits in Redis is not.
Crash(n) ==
    /\ Fault
    /\ inFlight' = [inFlight EXCEPT ![n] = {}]
    /\ members' = [members EXCEPT ![n] = {}]
    /\ returning' = [returning EXCEPT ![n] = {}]
    /\ checker' = [checker EXCEPT ![n] = {}]
    /\ alive' = [alive EXCEPT ![n] = TRUE]
    /\ call' = [c \in Consumer |->
                  IF call[c] # Idle /\ call[c].node = n THEN Idle ELSE call[c]]
    /\ UNCHANGED <<redisVars, clientVars>>

\* A Redis call raises, after or before its effect: then the message is nowhere.
\* The checker, if it made the call, ends.
RequeueFails(n, b) ==
    /\ Fault
    /\ PushBack(b.entry) \/ UNCHANGED redisVars
    /\ returning' = [returning EXCEPT ![n] = @ \ {b}]
    /\ IF b.byChecker
       THEN /\ alive' = [alive EXCEPT ![n] = FALSE]
            /\ checker' = [checker EXCEPT ![n] = {}]
       ELSE UNCHANGED <<alive, checker>>
    /\ UNCHANGED <<clientVars, inFlight, members, call>>

\* The connection breaks while Redis answers: the consume ends with an error.
ReplyLost(c) ==
    /\ Answered(c)
    /\ Fault
    /\ call' = [call EXCEPT ![c] = Idle]
    /\ UNCHANGED <<redisVars, clientVars, nodeVars>>

-----------------------------------------------------------------------------
ConsumeStep(c) ==
    \/ \E n \in Node : StartConsume(c, n)
    \/ Pop(c)
    \/ Take(c)
    \/ Return(c)

CheckerStep(n) ==
    \/ FindTimedOut(n)
    \/ \E id \in checker[n] : GiveBackTimedOut(n, id)

Next ==
    \/ \E m \in Message, p \in Partition : Produce(m, p)
    \/ \E c \in Consumer : ConsumeStep(c)
    \/ \E n \in Node : \E e \in inFlight[n] : Acknowledge(n, e) \/ NegativeAcknowledge(n, e)
    \/ \E n \in Node : CheckerStep(n)
    \/ \E n \in Node : \E b \in returning[n] : Requeue(n, b) \/ RequeueFails(n, b)
    \/ \E n \in Node : Crash(n)
    \/ \E c \in Consumer : ReplyLost(c)

Spec == Init /\ [][Next]_vars

\* Redis answers, the checker wakes up, and every consumer of the group keeps polling.
FairSpec ==
    /\ Spec
    /\ \A c \in Consumer : WF_vars(ConsumeStep(c))
    /\ \A n \in Node : WF_vars(CheckerStep(n)) /\ WF_vars(\E b \in returning[n] : Requeue(n, b))

-----------------------------------------------------------------------------
(* Properties *)

TypeOK ==
    /\ queue \in [Partition -> Seq(Entry)]
    /\ dlq \subseteq Entry
    /\ produced \in Seq(Message)
    /\ inFlight \in [Node -> SUBSET Entry]
    /\ members \in [Node -> SUBSET Consumer]
    /\ call \in [Consumer -> Call \cup {Idle}]
    /\ known \subseteq Message
    /\ acked \subseteq Message
    /\ returning \in [Node -> SUBSET [entry : Entry, byChecker : BOOLEAN]]
    /\ checker \in [Node -> SUBSET Message]
    /\ alive \in [Node -> BOOLEAN]
    /\ faults \in 0..MaxFaults

Place(at, tries, where) == [at |-> at, tries |-> tries, where |-> where]

\* Where a message is: in a list in Redis, in an answer of Redis, in the memory of a
\* node, on its way back, dead or done.
InQueue(m) ==
    UNION {{Place("waiting", queue[p][i].retries, <<"queue", p, i>>)
               : i \in {j \in DOMAIN queue[p] : queue[p][j].id = m}} : p \in Partition}
InReply(m) ==
    {Place("out", call[c].reply.retries, <<"reply", c>>)
        : c \in {d \in Consumer : Answered(d) /\ call[d].reply.id = m}}
InMemory(m) ==
    UNION {{Place("out", e.retries, <<"inFlight", n, e>>)
               : e \in {f \in inFlight[n] : f.id = m}} : n \in Node}
OnWayBack(m) ==
    UNION {{Place("out", b.entry.retries - 1, <<"returning", n, b>>)
               : b \in {x \in returning[n] : x.entry.id = m}} : n \in Node}
Dead(m) == {Place("dead", e.retries, <<"dlq", e>>) : e \in {f \in dlq : f.id = m}}
Done(m) == {Place("done", 0, <<"acked", a>>) : a \in {b \in acked : b = m}}

Places(m) == InQueue(m) \cup InReply(m) \cup InMemory(m) \cup OnWayBack(m) \cup Dead(m) \cup Done(m)

\* A message is never in two places, so it is not delivered twice at a time and not
\* again once it is acknowledged or dead; without a fault it is never in none
\* (produce, consume, acknowledge, negative_acknowledge, _ack_timeout_checker).
OnePlace ==
    \A i \in DOMAIN produced :
        LET places == Places(produced[i]) IN
        Cardinality(places) <= 1 /\ (faults = 0 => places # {})

\* Every message is delivered as Delivery says: whatever interleaves, it is with one
\* consumer at a time, every return is counted, and it is dead after exactly
\* max_retries of them (consume, negative_acknowledge, the checker).
TaskOf(m) ==
    IF Places(m) # {}
    THEN LET p == CHOOSE q \in Places(m) : TRUE IN [at |-> p.at, tries |-> p.tries]
    ELSE [at |-> IF \E i \in DOMAIN produced : produced[i] = m THEN "lost" ELSE "unsent",
          tries |-> 0]
DeliveryOf(m) == INSTANCE Delivery WITH task <- TaskOf(m)
DeliveredAsPromised ==
    /\ \A m \in Message : DeliveryOf(m)!Init
    /\ [][\A m \in Message : UNCHANGED TaskOf(m) \/ DeliveryOf(m)!Next]_vars

\* Messages nobody has tried yet are in the order they were produced in, behind
\* those that are retried (rpush, lpush, lpop).
FreshInOrder ==
    \A p \in Partition : \A i, j \in DOMAIN queue[p] :
        i < j /\ queue[p][i].retries = 0 =>
            /\ queue[p][j].retries = 0
            /\ \E k, l \in DOMAIN produced :
                  k < l /\ produced[k] = queue[p][i].id /\ produced[l] = queue[p][j].id

\* Whoever joined a node's group, each partition is some member's, and only one's
\* (_assigned_partitions).
EachPartitionAssigned ==
    \A n \in Node : members[n] # {} =>
        \A p \in Partition :
            Cardinality({c \in members[n] : p \in Assigned(members[n], c)}) = 1

\* Without a fault every message is acknowledged or dead in the end, however often
\* consumers keep it or give it back.
EverySettled ==
    \A m \in Message :
        (\E i \in DOMAIN produced : produced[i] = m)
            ~> (m \in acked \/ (\E e \in dlq : e.id = m) \/ faults > 0)
====
