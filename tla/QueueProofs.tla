---- MODULE QueueProofs ----
(***************************************************************************)
(* Proofs about the queue, for any nodes, consumers, messages, partitions  *)
(* and faults.                                                             *)
(***************************************************************************)
EXTENDS DistributedQueue, FiniteSetTheorems, WellFoundedInduction, TLAPS

-----------------------------------------------------------------------------
(* Type correctness *)

\* Whatever may be delivered (again) has a retry left, and whatever is on its way back
\* has used one.
Retryable ==
    /\ \A p \in Partition : \A i \in DOMAIN queue[p] : queue[p][i].retries < MaxRetries
    /\ \A c \in Consumer : Answered(c) => call[c].reply.retries < MaxRetries
    /\ \A n \in Node : \A e \in inFlight[n] : e.retries < MaxRetries
    /\ \A n \in Node : \A b \in returning[n] : b.entry.retries > 0

Typed == TypeOK /\ Retryable

LEMMA ConstantsType ==
    /\ NumPartitions \in Nat \ {0} /\ NumConsumers \in Nat \ {0} /\ BatchSize \in Nat \ {0}
    /\ MaxRetries \in Nat \ {0} /\ MaxFaults \in Nat
    /\ Partition \subseteq Nat /\ Consumer \subseteq Nat
BY QueueAssumption DEF Partition, Consumer

\* An entry is not the empty answer, and an open call not a closed one.
LEMMA EntryIsSomething == Nothing \notin Entry
BY DEF Nothing, Entry

LEMMA CallIsNotIdle == Idle \notin Call
BY DEF Idle, Call

\* The answer of a call that has one is an entry.
LEMMA AnswerType ==
    ASSUME TypeOK, NEW c \in Consumer, Answered(c)
    PROVE  call[c] \in Call /\ call[c].reply \in Entry
BY DEF Answered, TypeOK, Call

LEMMA PollingType ==
    ASSUME TypeOK, NEW c \in Consumer, Polling(c)
    PROVE  call[c] \in Call /\ ~Answered(c)
BY DEF Polling, Answered, TypeOK

\* consume polls the least of the partitions that are left.
LEMMA LeastExists ==
    ASSUME NEW S \in SUBSET Nat, S # {}
    PROVE  \E x \in S : \A y \in S : x <= y
<1> DEFINE R == OpToRel(<, Nat)
<1>1. \A x, y \in Nat : <<y, x>> \in R <=> y < x
  BY DEF OpToRel
<1>2. IsWellFoundedOn(R, Nat)
  BY NatLessThanWellFounded
<1> HIDE DEF R
<1>3. PICK x \in S : \A y \in S : ~(<<y, x>> \in R)
  BY <1>2, WFMin
<1>4. ASSUME NEW y \in S PROVE x <= y
  <2>1. x \in Nat /\ y \in Nat /\ ~(<<y, x>> \in R)
    BY <1>3
  <2>2. ~(y < x)
    BY <1>1, <2>1
  <2>3. QED
    BY <2>1, <2>2
<1>5. QED
  BY <1>4

LEMMA NextPartition ==
    ASSUME TypeOK, NEW c \in Consumer, Polling(c), More(c)
    PROVE  (CHOOSE q \in call[c].todo : \A r \in call[c].todo : q <= r) \in Partition
<1>1. call[c].todo \in SUBSET Partition /\ call[c].todo # {}
  BY PollingType DEF Call, More
<1>2. \E q \in call[c].todo : \A r \in call[c].todo : q <= r
  BY <1>1, LeastExists, ConstantsType
<1> QED
  BY <1>1, <1>2

LEMMA AssignedType ==
    ASSUME NEW ms, NEW c
    PROVE  Assigned(ms, c) \in SUBSET Partition
BY DEF Assigned, RangeOf

\* A message pushed at the end or at the front, or popped, leaves a list of entries.
LEMMA QueueOps ==
    ASSUME NEW q \in Seq(Entry), NEW e \in Entry
    PROVE  /\ Append(q, e) \in Seq(Entry) /\ <<e>> \o q \in Seq(Entry)
           /\ Len(<<e>> \o q) = Len(q) + 1 /\ (<<e>> \o q)[1] = e
           /\ \A i \in 2..(Len(q) + 1) : (<<e>> \o q)[i] = q[i - 1]
           /\ q # <<>> => /\ Head(q) = q[1] /\ 1 \in DOMAIN q /\ Tail(q) \in Seq(Entry)
                          /\ Len(Tail(q)) = Len(q) - 1
                          /\ \A i \in 1..(Len(q) - 1) : Tail(q)[i] = q[i + 1]
OBVIOUS

LEMMA InitTyped == Init => Typed
BY ConstantsType DEF Init, Typed, TypeOK, Retryable, Answered, Idle

LEMMA ProduceTyped ==
    ASSUME Typed, NEW m \in Message, NEW p \in Partition, Produce(m, p)
    PROVE  Typed'
<1> DEFINE e == [id |-> m, partition |-> p, retries |-> 0]
<1>1. e \in Entry /\ e.retries < MaxRetries
  BY ConstantsType DEF Entry
<1>2. queue[p] \in Seq(Entry) /\ queue' = [queue EXCEPT ![p] = Append(queue[p], e)]
  BY DEF Typed, TypeOK, Produce
<1> HIDE DEF e
<1>3. queue' \in [Partition -> Seq(Entry)]
  BY <1>1, <1>2 DEF Typed, TypeOK
<1>4. ASSUME NEW q \in Partition, NEW i \in DOMAIN queue'[q]
      PROVE  queue'[q][i].retries < MaxRetries
  <2>1. CASE q = p
    <3>1. queue'[q] = Append(queue[p], e)
      BY <1>2, <2>1 DEF Typed, TypeOK
    <3>2. queue'[q][i] = e \/ (i \in DOMAIN queue[p] /\ queue'[q][i] = queue[p][i])
      BY <1>1, <1>2, <1>4, <3>1
    <3> QED
      BY <1>1, <2>1, <3>2 DEF Typed, Retryable
  <2>2. CASE q # p
    BY <1>2, <1>4, <2>2 DEF Typed, TypeOK, Retryable
  <2> QED
    BY <2>1, <2>2
<1>5. produced' \in Seq(Message)
  BY DEF Produce, Typed, TypeOK
<1> QED
  BY <1>3, <1>4, <1>5 DEF Produce, Typed, TypeOK, Retryable, Answered, nodeVars

LEMMA StartConsumeTyped ==
    ASSUME Typed, NEW c \in Consumer, NEW n \in Node, StartConsume(c, n)
    PROVE  Typed'
<1> DEFINE k == [node |-> n, todo |-> Assigned(members'[n], c), got |-> {}, reply |-> Nothing]
<1>1. k \in Call /\ k.reply = Nothing
  BY AssignedType DEF Call
<1>2. call' = [call EXCEPT ![c] = k]
  BY DEF StartConsume
<1> HIDE DEF k
<1>3. call' \in [Consumer -> Call \cup {Idle}]
  BY <1>1, <1>2 DEF Typed, TypeOK
<1>4. members' \in [Node -> SUBSET Consumer]
  BY DEF StartConsume, Typed, TypeOK
<1>5. \A d \in Consumer : Answered(d)' => Answered(d) /\ call'[d] = call[d]
  BY <1>1, <1>2 DEF Answered, Typed, TypeOK
<1> QED
  BY <1>3, <1>4, <1>5 DEF StartConsume, Typed, TypeOK, Retryable, redisVars, clientVars

LEMMA PopTyped ==
    ASSUME Typed, NEW c \in Consumer, Pop(c)
    PROVE  Typed'
<1> DEFINE p == CHOOSE q \in call[c].todo : \A r \in call[c].todo : q <= r
<1>1. p \in Partition /\ call[c] \in Call
  BY NextPartition, PollingType DEF Pop, Typed
<1>2. queue[p] \in Seq(Entry)
  BY <1>1 DEF Typed, TypeOK
<1>3. IF queue[p] = <<>>
      THEN call' = [call EXCEPT ![c].todo = @ \ {p}] /\ queue' = queue
      ELSE /\ call' = [call EXCEPT ![c].todo = @ \ {p}, ![c].reply = Head(queue[p])]
           /\ queue' = [queue EXCEPT ![p] = Tail(queue[p])]
  BY DEF Pop
<1> HIDE DEF p
<1>4. CASE queue[p] = <<>>
  <2> DEFINE rest == call[c].todo \ {p}
  <2>0. rest \in SUBSET Partition /\ call' = [call EXCEPT ![c] = [call[c] EXCEPT !.todo = rest]]
    BY <1>1, <1>3, <1>4 DEF Call
  <2> HIDE DEF rest
  <2>1. call'[c] \in Call /\ call'[c].reply = call[c].reply
    BY <1>1, <2>0 DEF Typed, TypeOK, Call
  <2>2. \A d \in Consumer : d # c => call'[d] = call[d]
    BY <1>3, <1>4 DEF Typed, TypeOK
  <2>3. call' \in [Consumer -> Call \cup {Idle}]
    BY <1>3, <1>4, <2>1 DEF Typed, TypeOK
  <2>4. \A d \in Consumer : Answered(d)' => Answered(d) /\ call'[d].reply = call[d].reply
    BY <1>1, <2>1, <2>2, CallIsNotIdle DEF Answered
  <2> QED
    BY <1>3, <1>4, <2>3, <2>4 DEF Pop, Typed, TypeOK, Retryable, clientVars, nodeVars
<1>5. CASE queue[p] # <<>>
  <2> DEFINE e == Head(queue[p])
  <2>1. e \in Entry /\ e.retries < MaxRetries
    BY <1>1, <1>2, <1>5, QueueOps DEF Typed, Retryable
  <2>2. /\ call' = [call EXCEPT ![c].todo = @ \ {p}, ![c].reply = e]
        /\ queue' = [queue EXCEPT ![p] = Tail(queue[p])]
    BY <1>3, <1>5
  <2>3. ASSUME NEW q \in Partition, NEW i \in DOMAIN queue'[q]
        PROVE  queue'[q][i].retries < MaxRetries
    <3>1. CASE q = p
      <4>1. queue'[q] = Tail(queue[p])
        BY <2>2, <3>1 DEF Typed, TypeOK
      <4>2. i \in 1..(Len(queue[p]) - 1) /\ queue'[q][i] = queue[p][i + 1]
        BY <1>2, <1>5, <2>1, <2>3, <4>1, QueueOps
      <4>3. i + 1 \in DOMAIN queue[p]
        BY <1>2, <4>2
      <4> QED
        BY <1>1, <4>2, <4>3 DEF Typed, Retryable
    <3>2. CASE q # p
      BY <2>2, <2>3, <3>2 DEF Typed, TypeOK, Retryable
    <3> QED
      BY <3>1, <3>2
  <2>4. queue' \in [Partition -> Seq(Entry)]
    BY <1>1, <1>2, <1>5, <2>1, <2>2, QueueOps DEF Typed, TypeOK
  <2> HIDE DEF e
  <2>5. call'[c] \in Call /\ call'[c].reply = e
    BY <1>1, <2>1, <2>2 DEF Typed, TypeOK, Call
  <2>6. \A d \in Consumer : d # c => call'[d] = call[d]
    BY <2>2 DEF Typed, TypeOK
  <2>7. call' \in [Consumer -> Call \cup {Idle}]
    BY <2>2, <2>5 DEF Typed, TypeOK
  <2>8. \A d \in Consumer : Answered(d)' => call'[d].reply.retries < MaxRetries
    BY <2>1, <2>5, <2>6 DEF Answered, Typed, Retryable
  <2> QED
    BY <2>3, <2>4, <2>7, <2>8 DEF Pop, Typed, TypeOK, Retryable, clientVars, nodeVars
<1> QED
  BY <1>4, <1>5

LEMMA TakeTyped ==
    ASSUME Typed, NEW c \in Consumer, Take(c)
    PROVE  Typed'
<1> DEFINE n == call[c].node
           e == call[c].reply
<1>1. call[c] \in Call /\ e \in Entry /\ n \in Node /\ e.retries < MaxRetries
  BY AnswerType DEF Take, Typed, Retryable, Call
<1>2. /\ inFlight' = [inFlight EXCEPT ![n] = {f \in inFlight[n] : f.id # e.id} \cup {e}]
      /\ call' = [call EXCEPT ![c].got = @ \cup {e.id}, ![c].reply = Nothing]
  BY DEF Take
<1> HIDE DEF n, e
<1>3. inFlight' \in [Node -> SUBSET Entry]
  BY <1>1, <1>2 DEF Typed, TypeOK
<1>4. \A k \in Node : \A f \in inFlight'[k] : f = e \/ f \in inFlight[k]
  BY <1>1, <1>2 DEF Typed, TypeOK
<1>5. e.id \in Message
  BY <1>1 DEF Entry
<1>6. call'[c] \in Call /\ call'[c].reply = Nothing
  BY <1>1, <1>2, <1>5 DEF Typed, TypeOK, Call
<1>7. \A d \in Consumer : d # c => call'[d] = call[d]
  BY <1>2 DEF Typed, TypeOK
<1>8. call' \in [Consumer -> Call \cup {Idle}]
  BY <1>2, <1>6 DEF Typed, TypeOK
<1>9. \A d \in Consumer : Answered(d)' => Answered(d) /\ call'[d] = call[d]
  BY <1>6, <1>7 DEF Answered
<1> QED
  BY <1>1, <1>3, <1>4, <1>8, <1>9 DEF Take, Typed, TypeOK, Retryable, redisVars, clientVars

LEMMA ReturnTyped ==
    ASSUME Typed, NEW c \in Consumer, Return(c)
    PROVE  Typed'
<1>1. call[c] \in Call
  BY PollingType DEF Return, Typed
<1>2. known' \subseteq Message
  BY <1>1 DEF Return, Typed, TypeOK, Call
<1>3. call' \in [Consumer -> Call \cup {Idle}]
  BY DEF Return, Typed, TypeOK
<1>4. \A d \in Consumer : Answered(d)' => Answered(d) /\ call'[d] = call[d]
  BY DEF Return, Answered, Typed, TypeOK
<1> QED
  BY <1>2, <1>3, <1>4 DEF Return, Typed, TypeOK, Retryable, redisVars, nodeVars

LEMMA AcknowledgeTyped ==
    ASSUME Typed, NEW n \in Node, NEW e \in inFlight[n], Acknowledge(n, e)
    PROVE  Typed'
<1>1. e.id \in Message
  BY DEF Typed, TypeOK, Entry
<1> QED
  BY <1>1 DEF Acknowledge, Typed, TypeOK, Retryable, Answered, redisVars

LEMMA GiveBackTyped ==
    ASSUME Typed, NEW n \in Node, NEW e \in inFlight[n], NEW by \in BOOLEAN, GiveBack(n, e, by)
    PROVE  /\ inFlight' \in [Node -> SUBSET Entry]
           /\ returning' \in [Node -> SUBSET [entry : Entry, byChecker : BOOLEAN]]
           /\ \A k \in Node : \A f \in inFlight'[k] : f.retries < MaxRetries
           /\ \A k \in Node : \A b \in returning'[k] : b.entry.retries > 0
<1> DEFINE back == [entry |-> [e EXCEPT !.retries = @ + 1], byChecker |-> by]
<1>1. e \in Entry /\ e.retries < MaxRetries
  BY DEF Typed, TypeOK, Retryable
<1>2. [e EXCEPT !.retries = @ + 1] \in Entry /\ e.retries + 1 > 0
  BY <1>1, ConstantsType DEF Entry
<1>3. back \in [entry : Entry, byChecker : BOOLEAN] /\ back.entry.retries > 0
  BY <1>1, <1>2 DEF Entry
<1>4. /\ inFlight' = [inFlight EXCEPT ![n] = @ \ {e}]
      /\ returning' = [returning EXCEPT ![n] = @ \cup {back}]
  BY DEF GiveBack
<1> HIDE DEF back
<1> QED
  BY <1>3, <1>4 DEF Typed, TypeOK, Retryable

LEMMA NegativeAcknowledgeTyped ==
    ASSUME Typed, NEW n \in Node, NEW e \in inFlight[n], NegativeAcknowledge(n, e)
    PROVE  Typed'
BY GiveBackTyped DEF NegativeAcknowledge, Typed, TypeOK, Retryable, Answered, redisVars, clientVars

LEMMA CheckerStepTyped ==
    ASSUME Typed, NEW n \in Node, CheckerStep(n)
    PROVE  Typed'
<1>1. CASE FindTimedOut(n)
  <2>1. PICK late \in SUBSET inFlight[n] \ {{}} :
            checker' = [checker EXCEPT ![n] = {e.id : e \in late}]
    BY <1>1 DEF FindTimedOut
  <2>2. {e.id : e \in late} \in SUBSET Message
    BY DEF Typed, TypeOK, Entry
  <2>3. checker' \in [Node -> SUBSET Message]
    BY <2>1, <2>2 DEF Typed, TypeOK
  <2> QED
    BY <1>1, <2>3 DEF FindTimedOut, Typed, TypeOK, Retryable, Answered, redisVars, clientVars
<1>2. CASE \E id \in checker[n] : GiveBackTimedOut(n, id)
  <2>1. PICK id \in checker[n] : GiveBackTimedOut(n, id)
    BY <1>2
  <2>2. checker' \in [Node -> SUBSET Message]
    BY <2>1 DEF GiveBackTimedOut, Typed, TypeOK
  <2>3. CASE \E e \in inFlight[n] : e.id = id
    <3>1. PICK e \in inFlight[n] : GiveBack(n, e, TRUE)
      BY <2>1, <2>3 DEF GiveBackTimedOut
    <3> QED
      BY <2>1, <2>2, <3>1, GiveBackTyped
      DEF GiveBackTimedOut, Typed, TypeOK, Retryable, Answered, redisVars, clientVars
  <2>4. CASE ~\E e \in inFlight[n] : e.id = id
    BY <2>1, <2>2, <2>4
    DEF GiveBackTimedOut, Typed, TypeOK, Retryable, Answered, redisVars, clientVars
  <2> QED
    BY <2>3, <2>4
<1> QED
  BY <1>1, <1>2 DEF CheckerStep

LEMMA PushBackTyped ==
    ASSUME Typed, NEW e \in Entry, PushBack(e)
    PROVE  /\ queue' \in [Partition -> Seq(Entry)]
           /\ dlq' \subseteq Entry
           /\ \A p \in Partition : \A i \in DOMAIN queue'[p] : queue'[p][i].retries < MaxRetries
<1>1. CASE e.retries >= MaxRetries
  BY <1>1 DEF PushBack, Typed, TypeOK, Retryable
<1>2. CASE ~(e.retries >= MaxRetries)
  <2> DEFINE p == e.partition
  <2>1. e.retries < MaxRetries /\ p \in Partition
    BY <1>2, ConstantsType DEF Entry
  <2>2. queue' = [queue EXCEPT ![p] = <<e>> \o @] /\ UNCHANGED dlq
    BY <1>2 DEF PushBack
  <2> HIDE DEF p
  <2>3. queue[p] \in Seq(Entry)
    BY <2>1 DEF Typed, TypeOK
  <2>4. queue' \in [Partition -> Seq(Entry)]
    BY <2>2, <2>3, QueueOps DEF Typed, TypeOK
  <2>5. ASSUME NEW q \in Partition, NEW i \in DOMAIN queue'[q]
        PROVE  queue'[q][i].retries < MaxRetries
    <3>1. CASE q = p
      <4>1. queue'[q] = <<e>> \o queue[p] /\ queue'[q] \in Seq(Entry)
        BY <2>2, <2>4, <3>1 DEF Typed, TypeOK
      <4>2. i \in 1..(Len(queue[p]) + 1) /\ Len(queue[p]) \in Nat
        BY <2>3, <2>5, <4>1, QueueOps
      <4>3. CASE i = 1
        BY <2>1, <2>3, <4>1, <4>3, QueueOps
      <4>4. CASE i # 1
        <5>1. i \in 2..(Len(queue[p]) + 1) /\ i - 1 \in DOMAIN queue[p]
          BY <2>3, <4>2, <4>4
        <5>2. queue'[q][i] = queue[p][i - 1]
          BY <2>3, <4>1, <5>1, QueueOps
        <5> QED
          BY <2>1, <5>1, <5>2 DEF Typed, Retryable
      <4> QED
        BY <4>3, <4>4
    <3>2. CASE q # p
      BY <2>2, <2>5, <3>2 DEF Typed, TypeOK, Retryable
    <3> QED
      BY <3>1, <3>2
  <2> QED
    BY <2>2, <2>4, <2>5 DEF Typed, TypeOK
<1> QED
  BY <1>1, <1>2

LEMMA RequeueTyped ==
    ASSUME Typed, NEW n \in Node, NEW b \in returning[n], Requeue(n, b) \/ RequeueFails(n, b)
    PROVE  Typed'
<1>1. b.entry \in Entry
  BY DEF Typed, TypeOK
<1>2. /\ queue' \in [Partition -> Seq(Entry)]
      /\ dlq' \subseteq Entry
      /\ \A p \in Partition : \A i \in DOMAIN queue'[p] : queue'[p][i].retries < MaxRetries
  <2>1. CASE PushBack(b.entry)
    BY <1>1, <2>1, PushBackTyped
  <2>2. CASE UNCHANGED redisVars
    BY <2>2 DEF redisVars, Typed, TypeOK, Retryable
  <2> QED
    BY <2>1, <2>2 DEF Requeue, RequeueFails
<1>3. returning' = [returning EXCEPT ![n] = @ \ {b}]
  BY DEF Requeue, RequeueFails
<1>4. alive' \in [Node -> BOOLEAN] /\ checker' \in [Node -> SUBSET Message]
  BY DEF Requeue, RequeueFails, Typed, TypeOK
<1>5. faults' \in 0..MaxFaults
  BY ConstantsType DEF Requeue, RequeueFails, Fault, Typed, TypeOK
<1> QED
  BY <1>2, <1>3, <1>4, <1>5
  DEF Requeue, RequeueFails, Typed, TypeOK, Retryable, Answered, clientVars

LEMMA FaultTyped ==
    ASSUME Typed, (\E n \in Node : Crash(n)) \/ (\E c \in Consumer : ReplyLost(c))
    PROVE  Typed'
<1>1. faults' \in 0..MaxFaults
  BY ConstantsType DEF Crash, ReplyLost, Fault, Typed, TypeOK
<1>2. call' \in [Consumer -> Call \cup {Idle}]
  BY DEF Crash, ReplyLost, Typed, TypeOK
<1>3. \A d \in Consumer : Answered(d)' => Answered(d) /\ call'[d] = call[d]
  BY DEF Crash, ReplyLost, Answered, Typed, TypeOK
<1>4. CASE \E n \in Node : Crash(n)
  BY <1>1, <1>2, <1>3, <1>4 DEF Crash, Typed, TypeOK, Retryable, redisVars, clientVars
<1>5. CASE \E c \in Consumer : ReplyLost(c)
  BY <1>1, <1>2, <1>3, <1>5 DEF ReplyLost, Typed, TypeOK, Retryable, redisVars, clientVars, nodeVars
<1> QED
  BY <1>4, <1>5

LEMMA TypedStep == Typed /\ [Next]_vars => Typed'
<1> SUFFICES ASSUME Typed, [Next]_vars PROVE Typed'
  OBVIOUS
<1>1. CASE \E m \in Message, p \in Partition : Produce(m, p)
  BY <1>1, ProduceTyped
<1>2. CASE \E c \in Consumer : ConsumeStep(c)
  BY <1>2, StartConsumeTyped, PopTyped, TakeTyped, ReturnTyped DEF ConsumeStep
<1>3. CASE \E n \in Node : \E e \in inFlight[n] : Acknowledge(n, e) \/ NegativeAcknowledge(n, e)
  BY <1>3, AcknowledgeTyped, NegativeAcknowledgeTyped
<1>4. CASE \E n \in Node : CheckerStep(n)
  BY <1>4, CheckerStepTyped
<1>5. CASE \E n \in Node : \E b \in returning[n] : Requeue(n, b) \/ RequeueFails(n, b)
  BY <1>5, RequeueTyped
<1>6. CASE (\E n \in Node : Crash(n)) \/ (\E c \in Consumer : ReplyLost(c))
  BY <1>6, FaultTyped
<1>7. CASE UNCHANGED vars
  BY <1>7 DEF vars, Typed, TypeOK, Retryable, Answered
<1> QED
  BY <1>1, <1>2, <1>3, <1>4, <1>5, <1>6, <1>7 DEF Next

LEMMA AlwaysTyped == Spec => []Typed
BY InitTyped, TypedStep, PTL DEF Spec

\* Every reachable state is well typed; in particular no message is returned more often than
\* max_retries, whoever returns it (negative_acknowledge, _ack_timeout_checker).
THEOREM QueueTypeCorrect == Spec => []TypeOK
BY AlwaysTyped, PTL DEF Typed

-----------------------------------------------------------------------------
(* One place for every message *)

\* The copies of messages: in Redis, in its answers, in the nodes' memory, on the way back
\* to Redis, and dead.
Waiting == {e \in Entry : \E p \in Partition : \E i \in DOMAIN queue[p] : queue[p][i] = e}
Replied == {e \in Entry : \E c \in Consumer : Answered(c) /\ call[c].reply = e}
Tracked == {e \in Entry : \E n \in Node : e \in inFlight[n]}
Sent    == {produced[i] : i \in DOMAIN produced}
Handed  == {e \in Entry : \E n \in Node : \E b \in returning[n] : b.entry = e}

Kind == {"waiting", "replied", "tracked", "handed", "dead"}

Copies == [waiting |-> Waiting, replied |-> Replied, tracked |-> Tracked, handed |-> Handed,
           dead |-> dlq]

\* A copy has one position among those of its kind.
QueuePosition ==
    \A p, q \in Partition : \A i \in DOMAIN queue[p], j \in DOMAIN queue[q] :
        queue[p][i] = queue[q][j] => p = q /\ i = j

ReplyPosition ==
    \A c, d \in Consumer :
        Answered(c) /\ Answered(d) /\ call[c].reply = call[d].reply => c = d

TrackPosition == \A n, k \in Node : \A e \in inFlight[n] : e \in inFlight[k] => n = k

HandPosition ==
    \A n, k \in Node : \A b \in returning[n], d \in returning[k] :
        b.entry = d.entry => n = k /\ b = d

OnePosition == QueuePosition /\ ReplyPosition /\ TrackPosition /\ HandPosition

\* A message has one copy, and none once it is acknowledged.
OneCopy ==
    /\ \A j, k \in Kind : \A e \in Copies[j], f \in Copies[k] : e.id = f.id => j = k /\ e = f
    /\ \A k \in Kind : \A e \in Copies[k] : e.id \notin acked

\* Only produced messages have copies.
OnlySent ==
    /\ \A k \in Kind : \A e \in Copies[k] : e.id \in Sent
    /\ acked \subseteq Sent

\* A message that is not acknowledged is somewhere, as long as nothing failed.
NoneLost ==
    faults = 0 => \A m \in Sent : m \in acked \/ \E k \in Kind : \E e \in Copies[k] : e.id = m

PlaceInvariant == Typed /\ OnePosition /\ OneCopy /\ OnlySent /\ NoneLost

\* How a step changes the copies: one is new, moves or is acknowledged, or some get lost.
Adds(k, f) == Copies' = [Copies EXCEPT ![k] = @ \cup {f}]

Moves(j, k, e, f) == Copies' = [Copies EXCEPT ![j] = @ \ {e}, ![k] = @ \cup {f}]

Removes(j, e) == Copies' = [Copies EXCEPT ![j] = @ \ {e}]

Loses ==
    \A k \in Kind : /\ Copies'[k] \subseteq Copies[k]
                    /\ k \in {"waiting", "dead"} => Copies'[k] = Copies[k]

LEMMA CopiesType == Typed => Copies \in [Kind -> SUBSET Entry]
BY DEF Typed, TypeOK, Copies, Kind, Waiting, Replied, Tracked, Handed

LEMMA AddsKeeps ==
    ASSUME PlaceInvariant, NEW k \in Kind, NEW f, Adds(k, f), f.id \in Message \ Sent,
           acked' = acked, Sent' = Sent \cup {f.id}, faults' = faults
    PROVE  OneCopy' /\ OnlySent' /\ NoneLost'
<1>1. Copies \in [Kind -> SUBSET Entry]
  BY CopiesType DEF PlaceInvariant
<1>2. \A l \in Kind : \A x : x \in Copies'[l] <=> x \in Copies[l] \/ (l = k /\ x = f)
  BY <1>1 DEF Adds
<1>3. \A l \in Kind : \A e \in Copies[l] : e.id # f.id
  BY DEF PlaceInvariant, OnlySent
<1>4. f.id \notin acked
  BY DEF PlaceInvariant, OnlySent
<1>5. OneCopy'
  <2>1. /\ \A a, b \in Kind : \A x \in Copies[a], y \in Copies[b] : x.id = y.id => a = b /\ x = y
        /\ \A a \in Kind : \A x \in Copies[a] : x.id \notin acked
    BY DEF OneCopy, PlaceInvariant
  <2>2. ASSUME NEW a \in Kind, NEW b \in Kind, NEW x \in Copies'[a], NEW y \in Copies'[b],
               x.id = y.id
        PROVE  a = b /\ x = y
    BY <1>2, <1>3, <1>4, <2>1, <2>2
  <2>3. ASSUME NEW a \in Kind, NEW x \in Copies'[a]
        PROVE  x.id \notin acked'
    BY <1>2, <1>3, <1>4, <2>1, <2>3
  <2> QED
    BY <2>2, <2>3 DEF OneCopy
<1>6. OnlySent'
  BY <1>2 DEF OnlySent, PlaceInvariant
<1>7. NoneLost'
  BY <1>2 DEF NoneLost, PlaceInvariant
<1> QED
  BY <1>5, <1>6, <1>7

LEMMA MovesKeeps ==
    ASSUME PlaceInvariant, NEW j \in Kind, NEW k \in Kind, j # k, NEW e \in Copies[j], NEW f,
           Moves(j, k, e, f), f.id = e.id, acked' = acked, Sent' = Sent,
           faults' = faults \/ faults' # 0
    PROVE  OneCopy' /\ OnlySent' /\ NoneLost'
<1>1. Copies \in [Kind -> SUBSET Entry]
  BY CopiesType DEF PlaceInvariant
<1>2. \A l \in Kind : \A x :
          x \in Copies'[l] <=> (x \in Copies[l] /\ ~(l = j /\ x = e)) \/ (l = k /\ x = f)
  BY <1>1 DEF Moves
<1>3. OneCopy'
  <2>1. /\ \A a, b \in Kind : \A x \in Copies[a], y \in Copies[b] : x.id = y.id => a = b /\ x = y
        /\ \A a \in Kind : \A x \in Copies[a] : x.id \notin acked
    BY DEF OneCopy, PlaceInvariant
  <2>2. ASSUME NEW a \in Kind, NEW b \in Kind, NEW x \in Copies'[a], NEW y \in Copies'[b],
               x.id = y.id
        PROVE  a = b /\ x = y
    BY <1>2, <2>1, <2>2
  <2>3. ASSUME NEW a \in Kind, NEW x \in Copies'[a]
        PROVE  x.id \notin acked'
    BY <1>2, <2>1, <2>3
  <2> QED
    BY <2>2, <2>3 DEF OneCopy
<1>4. OnlySent'
  BY <1>2 DEF OnlySent, PlaceInvariant
<1>5. NoneLost'
  <2> SUFFICES ASSUME faults = 0, NEW m \in Sent, m \notin acked
               PROVE  \E l \in Kind : \E g \in Copies'[l] : g.id = m
    BY DEF NoneLost, PlaceInvariant
  <2>0. PICK l \in Kind : \E g \in Copies[l] : g.id = m
    BY DEF NoneLost, PlaceInvariant
  <2>1. PICK g \in Copies[l] : g.id = m
    BY <2>0
  <2>2. f \in Copies'[k]
    BY <1>2
  <2>3. CASE l = j /\ g = e
    BY <2>1, <2>2, <2>3
  <2>4. CASE ~(l = j /\ g = e)
    BY <1>2, <2>1, <2>4
  <2> QED
    BY <2>3, <2>4
<1> QED
  BY <1>3, <1>4, <1>5

LEMMA RemovesKeeps ==
    ASSUME PlaceInvariant, NEW j \in Kind, NEW e \in Copies[j], Removes(j, e),
           acked' = acked \cup {e.id}, Sent' = Sent, faults' = faults
    PROVE  OneCopy' /\ OnlySent' /\ NoneLost'
<1>1. Copies \in [Kind -> SUBSET Entry]
  BY CopiesType DEF PlaceInvariant
<1>2. \A l \in Kind : \A x : x \in Copies'[l] <=> x \in Copies[l] /\ ~(l = j /\ x = e)
  BY <1>1 DEF Removes
<1>3. OneCopy'
  <2>1. /\ \A a, b \in Kind : \A x \in Copies[a], y \in Copies[b] : x.id = y.id => a = b /\ x = y
        /\ \A a \in Kind : \A x \in Copies[a] : x.id \notin acked
    BY DEF OneCopy, PlaceInvariant
  <2>2. ASSUME NEW a \in Kind, NEW b \in Kind, NEW x \in Copies'[a], NEW y \in Copies'[b],
               x.id = y.id
        PROVE  a = b /\ x = y
    BY <1>2, <2>1, <2>2
  <2>3. ASSUME NEW a \in Kind, NEW x \in Copies'[a]
        PROVE  x.id \notin acked'
    BY <1>2, <2>1, <2>3
  <2> QED
    BY <2>2, <2>3 DEF OneCopy
<1>4. OnlySent'
  BY <1>2 DEF OnlySent, PlaceInvariant
<1>5. NoneLost'
  BY <1>2 DEF NoneLost, PlaceInvariant
<1> QED
  BY <1>3, <1>4, <1>5

LEMMA LosesKeeps ==
    ASSUME PlaceInvariant, Loses, acked' = acked, Sent' = Sent, faults' # 0
    PROVE  OneCopy' /\ OnlySent' /\ NoneLost'
BY DEF OneCopy, OnlySent, NoneLost, PlaceInvariant, Loses

LEMMA SameKeeps ==
    ASSUME PlaceInvariant, Copies' = Copies, acked' = acked, Sent' = Sent, faults' = faults
    PROVE  OneCopy' /\ OnlySent' /\ NoneLost'
BY DEF OneCopy, OnlySent, NoneLost, PlaceInvariant

\* A message that is popped leaves the lists, and every other one keeps one position.
LEMMA PopCopies ==
    ASSUME Typed, QueuePosition, NEW p \in Partition, queue[p] # <<>>,
           queue' = [queue EXCEPT ![p] = Tail(@)]
    PROVE  Waiting' = Waiting \ {Head(queue[p])} /\ QueuePosition' /\ Head(queue[p]) \in Waiting
<1>1. queue \in [Partition -> Seq(Entry)] /\ queue[p] \in Seq(Entry) /\ Len(queue[p]) \in Nat
  BY DEF Typed, TypeOK
<1>2. queue'[p] = Tail(queue[p]) /\ \A r \in Partition : r # p => queue'[r] = queue[r]
  BY <1>1
<1>3. Head(queue[p]) \in Entry
  BY <1>1
<1>4. /\ DOMAIN queue'[p] = 1..(Len(queue[p]) - 1) /\ DOMAIN queue[p] = 1..Len(queue[p])
      /\ \A i \in 1..(Len(queue[p]) - 1) : queue'[p][i] = queue[p][i + 1]
      /\ Head(queue[p]) = queue[p][1] /\ 1 \in DOMAIN queue[p]
  BY <1>1, <1>2, <1>3, QueueOps
<1>5. \A i \in DOMAIN queue'[p] : i + 1 \in DOMAIN queue[p] /\ queue'[p][i] = queue[p][i + 1]
  BY <1>1, <1>4
<1>6. \A i \in DOMAIN queue[p] :
          i # 1 => i - 1 \in DOMAIN queue'[p] /\ queue'[p][i - 1] = queue[p][i]
  BY <1>1, <1>4
<1>7. QueuePosition'
  <2> SUFFICES ASSUME NEW r \in Partition, NEW s \in Partition, NEW i \in DOMAIN queue'[r],
                      NEW j \in DOMAIN queue'[s], queue'[r][i] = queue'[s][j]
               PROVE  r = s /\ i = j
    BY DEF QueuePosition
  <2>1. CASE r = p /\ s = p
    <3>1. i + 1 = j + 1 /\ i \in Int /\ j \in Int
      BY <1>4, <1>5, <2>1 DEF QueuePosition
    <3> QED
      BY <2>1, <3>1
  <2>2. CASE r # p \/ s # p
    BY <1>2, <1>5, <2>2 DEF QueuePosition
  <2> QED
    BY <2>1, <2>2
<1>8. ASSUME NEW e \in Entry
      PROVE  e \in Waiting' <=> e \in Waiting /\ e # Head(queue[p])
  <2>1. ASSUME e \in Waiting'
        PROVE  e \in Waiting /\ e # Head(queue[p])
    <3>1. PICK r \in Partition : \E i \in DOMAIN queue'[r] : queue'[r][i] = e
      BY <2>1 DEF Waiting
    <3>2. PICK i \in DOMAIN queue'[r] : queue'[r][i] = e
      BY <3>1
    <3>3. CASE r = p
      <4>1. i + 1 \in DOMAIN queue[p] /\ queue[p][i + 1] = e /\ i + 1 # 1
        BY <1>4, <1>5, <3>2, <3>3
      <4> QED
        BY <1>4, <4>1 DEF QueuePosition, Waiting
    <3>4. CASE r # p
      <4>1. i \in DOMAIN queue[r] /\ queue[r][i] = e
        BY <1>2, <3>2, <3>4
      <4> QED
        BY <1>4, <3>4, <4>1 DEF QueuePosition, Waiting
    <3> QED
      BY <3>3, <3>4
  <2>2. ASSUME e \in Waiting, e # Head(queue[p])
        PROVE  e \in Waiting'
    <3>1. PICK r \in Partition : \E i \in DOMAIN queue[r] : queue[r][i] = e
      BY <2>2 DEF Waiting
    <3>2. PICK i \in DOMAIN queue[r] : queue[r][i] = e
      BY <3>1
    <3>3. CASE r = p
      <4>1. i # 1
        BY <1>4, <2>2, <3>2, <3>3
      <4>2. i - 1 \in DOMAIN queue'[p] /\ queue'[p][i - 1] = e
        BY <1>6, <3>2, <3>3, <4>1
      <4> QED
        BY <4>2 DEF Waiting
    <3>4. CASE r # p
      <4>1. i \in DOMAIN queue'[r] /\ queue'[r][i] = e
        BY <1>2, <3>2, <3>4
      <4> QED
        BY <4>1 DEF Waiting
    <3> QED
      BY <3>3, <3>4
  <2> QED
    BY <2>1, <2>2
<1>9. Waiting \subseteq Entry /\ Waiting' \subseteq Entry
  BY DEF Waiting
<1>10. Head(queue[p]) \in Waiting
  BY <1>3, <1>4 DEF Waiting
<1> QED
  BY <1>7, <1>8, <1>9, <1>10

LEMMA AppendCopies ==
    ASSUME Typed, QueuePosition, NEW p \in Partition, NEW f \in Entry, f \notin Waiting,
           queue' = [queue EXCEPT ![p] = Append(@, f)]
    PROVE  Waiting' = Waiting \cup {f} /\ QueuePosition'
<1>1. queue \in [Partition -> Seq(Entry)] /\ queue[p] \in Seq(Entry) /\ Len(queue[p]) \in Nat
  BY DEF Typed, TypeOK
<1>2. queue'[p] = Append(queue[p], f) /\ \A r \in Partition : r # p => queue'[r] = queue[r]
  BY <1>1
<1>3. /\ DOMAIN queue'[p] = 1..(Len(queue[p]) + 1) /\ DOMAIN queue[p] = 1..Len(queue[p])
      /\ \A i \in 1..Len(queue[p]) : queue'[p][i] = queue[p][i]
      /\ queue'[p][Len(queue[p]) + 1] = f
  BY <1>1, <1>2
<1>4. \A r \in Partition : \A i \in DOMAIN queue'[r] :
          \/ i \in DOMAIN queue[r] /\ queue'[r][i] = queue[r][i]
          \/ r = p /\ i = Len(queue[p]) + 1 /\ queue'[r][i] = f
  BY <1>1, <1>2, <1>3
<1>5. \A r \in Partition : \A i \in DOMAIN queue[r] :
          i \in DOMAIN queue'[r] /\ queue'[r][i] = queue[r][i]
  BY <1>1, <1>2, <1>3
<1>6. \A r \in Partition : \A i \in DOMAIN queue[r] : queue[r][i] # f
  BY DEF Waiting
<1>7. QueuePosition'
  BY <1>4, <1>6 DEF QueuePosition
<1>8. ASSUME NEW e \in Entry
      PROVE  e \in Waiting' <=> e \in Waiting \/ e = f
  <2>1. e \in Waiting' => e \in Waiting \/ e = f
    BY <1>4 DEF Waiting
  <2>2. e \in Waiting => e \in Waiting'
    BY <1>5 DEF Waiting
  <2>3. Len(queue[p]) + 1 \in DOMAIN queue'[p]
    BY <1>1, <1>3
  <2>4. f \in Waiting'
    BY <1>3, <2>3 DEF Waiting
  <2> QED
    BY <2>1, <2>2, <2>4
<1>9. Waiting \subseteq Entry /\ Waiting' \subseteq Entry
  BY DEF Waiting
<1> QED
  BY <1>7, <1>8, <1>9

LEMMA PushCopies ==
    ASSUME Typed, QueuePosition, NEW p \in Partition, NEW f \in Entry, f \notin Waiting,
           queue' = [queue EXCEPT ![p] = <<f>> \o @]
    PROVE  Waiting' = Waiting \cup {f} /\ QueuePosition'
<1>1. queue \in [Partition -> Seq(Entry)] /\ queue[p] \in Seq(Entry) /\ Len(queue[p]) \in Nat
  BY DEF Typed, TypeOK
<1>2. queue'[p] = <<f>> \o queue[p] /\ \A r \in Partition : r # p => queue'[r] = queue[r]
  BY <1>1
<1>3. /\ DOMAIN queue'[p] = 1..(Len(queue[p]) + 1) /\ DOMAIN queue[p] = 1..Len(queue[p])
      /\ \A i \in 2..(Len(queue[p]) + 1) : queue'[p][i] = queue[p][i - 1]
      /\ queue'[p][1] = f
  BY <1>1, <1>2, QueueOps
<1>4. \A i \in DOMAIN queue'[p] :
          i = 1 \/ (i - 1 \in DOMAIN queue[p] /\ queue'[p][i] = queue[p][i - 1])
  BY <1>1, <1>3
<1>5. \A i \in DOMAIN queue[p] : i + 1 \in DOMAIN queue'[p] /\ queue'[p][i + 1] = queue[p][i]
  <2> TAKE i \in DOMAIN queue[p]
  <2>1. i \in Int /\ i + 1 \in 2..(Len(queue[p]) + 1) /\ (i + 1) - 1 = i
    BY <1>1, <1>3
  <2> QED
    BY <1>1, <1>3, <2>1
<1>6. \A r \in Partition : \A i \in DOMAIN queue[r] : queue[r][i] # f
  BY DEF Waiting
<1>7. QueuePosition'
  <2> SUFFICES ASSUME NEW r \in Partition, NEW s \in Partition, NEW i \in DOMAIN queue'[r],
                      NEW j \in DOMAIN queue'[s], queue'[r][i] = queue'[s][j]
               PROVE  r = s /\ i = j
    BY DEF QueuePosition
  <2>1. CASE r = p /\ s = p
    <3>1. i = 1 <=> j = 1
      BY <1>3, <1>4, <1>6, <2>1
    <3>2. CASE i # 1
      <4>1. i - 1 = j - 1 /\ i \in Int /\ j \in Int
        BY SMTT(60), <1>3, <1>4, <2>1, <3>1, <3>2 DEF QueuePosition
      <4> QED
        BY <2>1, <4>1
    <3> QED
      BY <2>1, <3>1, <3>2
  <2>2. CASE r # p \/ s # p
    BY <1>2, <1>3, <1>4, <1>6, <2>2 DEF QueuePosition
  <2> QED
    BY <2>1, <2>2
<1>8. ASSUME NEW e \in Entry
      PROVE  e \in Waiting' <=> e \in Waiting \/ e = f
  <2>1. e \in Waiting' => e \in Waiting \/ e = f
    BY <1>2, <1>3, <1>4 DEF Waiting
  <2>2. ASSUME e \in Waiting PROVE e \in Waiting'
    <3>1. PICK r \in Partition : \E i \in DOMAIN queue[r] : queue[r][i] = e
      BY <2>2 DEF Waiting
    <3>2. PICK i \in DOMAIN queue[r] : queue[r][i] = e
      BY <3>1
    <3>3. CASE r = p
      <4>1. i + 1 \in DOMAIN queue'[p] /\ queue'[p][i + 1] = e
        BY <1>5, <3>2, <3>3
      <4> QED
        BY <4>1 DEF Waiting
    <3>4. CASE r # p
      BY <1>2, <3>2, <3>4 DEF Waiting
    <3> QED
      BY <3>3, <3>4
  <2>3. 1 \in DOMAIN queue'[p]
    BY <1>1, <1>3
  <2>4. f \in Waiting'
    BY <1>3, <2>3 DEF Waiting
  <2> QED
    BY <2>1, <2>2, <2>4
<1>9. Waiting \subseteq Entry /\ Waiting' \subseteq Entry
  BY DEF Waiting
<1> QED
  BY <1>7, <1>8, <1>9

\* Answers: none changes, one arrives, one is gone.
LEMMA RepliesSame ==
    ASSUME ReplyPosition,
           \A d \in Consumer : Answered(d)' <=> Answered(d),
           \A d \in Consumer : Answered(d) => call'[d].reply = call[d].reply
    PROVE  Replied' = Replied /\ ReplyPosition'
<1>1. ReplyPosition'
  BY DEF ReplyPosition
<1>2. \A e \in Entry : e \in Replied' <=> e \in Replied
  BY DEF Replied
<1>3. Replied \subseteq Entry /\ Replied' \subseteq Entry
  BY DEF Replied
<1> QED
  BY <1>1, <1>2, <1>3

LEMMA ReplyArrives ==
    ASSUME ReplyPosition, NEW c \in Consumer, ~Answered(c), NEW f \in Entry, f \notin Replied,
           call'[c].reply = f, Answered(c)',
           \A d \in Consumer : d # c => call'[d] = call[d]
    PROVE  Replied' = Replied \cup {f} /\ ReplyPosition'
<1>1. \A d \in Consumer : d # c => (Answered(d)' <=> Answered(d))
  BY DEF Answered
<1>2. \A d \in Consumer : Answered(d) => call[d].reply # f
  BY DEF Replied
<1>3. ReplyPosition'
  BY <1>1, <1>2 DEF ReplyPosition
<1>4. \A e \in Entry : e \in Replied' <=> e \in Replied \/ e = f
  BY <1>1 DEF Replied
<1>5. Replied \subseteq Entry /\ Replied' \subseteq Entry
  BY DEF Replied
<1> QED
  BY <1>3, <1>4, <1>5

LEMMA ReplyGone ==
    ASSUME ReplyPosition, NEW c \in Consumer, Answered(c), call[c].reply \in Entry, ~Answered(c)',
           \A d \in Consumer : d # c => call'[d] = call[d]
    PROVE  Replied' = Replied \ {call[c].reply} /\ ReplyPosition' /\ call[c].reply \in Replied
<1>1. \A d \in Consumer : d # c => (Answered(d)' <=> Answered(d))
  BY DEF Answered
<1>2. ReplyPosition'
  BY <1>1 DEF ReplyPosition
<1>3. \A e \in Entry : e \in Replied' <=> e \in Replied /\ e # call[c].reply
  BY <1>1 DEF Replied, ReplyPosition
<1>4. Replied \subseteq Entry /\ Replied' \subseteq Entry /\ call[c].reply \in Replied
  BY DEF Replied
<1> QED
  BY <1>2, <1>3, <1>4

\* Messages in flight: one is tracked, one no longer.
LEMMA TrackNew ==
    ASSUME Typed, TrackPosition, NEW n \in Node, NEW f \in Entry, f \notin Tracked,
           inFlight' = [inFlight EXCEPT ![n] = @ \cup {f}]
    PROVE  Tracked' = Tracked \cup {f} /\ TrackPosition'
<1>1. \A k \in Node : inFlight'[k] = IF k = n THEN inFlight[k] \cup {f} ELSE inFlight[k]
  BY DEF Typed, TypeOK
<1>2. \A k \in Node : f \notin inFlight[k]
  BY DEF Tracked
<1>3. TrackPosition'
  BY <1>1, <1>2 DEF TrackPosition
<1>4. \A e \in Entry : e \in Tracked' <=> e \in Tracked \/ e = f
  BY <1>1 DEF Tracked
<1>5. Tracked \subseteq Entry /\ Tracked' \subseteq Entry
  BY DEF Tracked
<1> QED
  BY <1>3, <1>4, <1>5

LEMMA TrackGone ==
    ASSUME Typed, TrackPosition, NEW n \in Node, NEW f \in inFlight[n],
           inFlight' = [inFlight EXCEPT ![n] = @ \ {f}]
    PROVE  Tracked' = Tracked \ {f} /\ TrackPosition' /\ f \in Tracked
<1>1. \A k \in Node : inFlight'[k] = IF k = n THEN inFlight[k] \ {f} ELSE inFlight[k]
  BY DEF Typed, TypeOK
<1>2. TrackPosition'
  BY <1>1 DEF TrackPosition
<1>3. \A e \in Entry : e \in Tracked' <=> e \in Tracked /\ e # f
  BY <1>1 DEF Tracked, TrackPosition
<1>4. Tracked \subseteq Entry /\ Tracked' \subseteq Entry /\ f \in Tracked
  BY DEF Tracked, Typed, TypeOK
<1> QED
  BY <1>2, <1>3, <1>4

\* Messages on their way back: one is handed over, one arrives.
LEMMA HandNew ==
    ASSUME Typed, HandPosition, NEW n \in Node, NEW b, b.entry \in Entry, b.entry \notin Handed,
           returning' = [returning EXCEPT ![n] = @ \cup {b}]
    PROVE  Handed' = Handed \cup {b.entry} /\ HandPosition'
<1>1. \A k \in Node : returning'[k] = IF k = n THEN returning[k] \cup {b} ELSE returning[k]
  BY DEF Typed, TypeOK
<1>2. \A k \in Node : \A x \in returning[k] : x.entry # b.entry
  BY DEF Handed
<1>3. HandPosition'
  BY <1>1, <1>2 DEF HandPosition
<1>4. \A e \in Entry : e \in Handed' <=> e \in Handed \/ e = b.entry
  BY <1>1 DEF Handed
<1>5. Handed \subseteq Entry /\ Handed' \subseteq Entry
  BY DEF Handed
<1> QED
  BY <1>3, <1>4, <1>5

LEMMA HandGone ==
    ASSUME Typed, HandPosition, NEW n \in Node, NEW b \in returning[n],
           returning' = [returning EXCEPT ![n] = @ \ {b}]
    PROVE  Handed' = Handed \ {b.entry} /\ HandPosition' /\ b.entry \in Handed
<1>1. \A k \in Node : returning'[k] = IF k = n THEN returning[k] \ {b} ELSE returning[k]
  BY DEF Typed, TypeOK
<1>2. HandPosition'
  BY <1>1 DEF HandPosition
<1>3. \A e \in Entry : e \in Handed' <=> e \in Handed /\ e # b.entry
  BY <1>1 DEF Handed, HandPosition
<1>4. Handed \subseteq Entry /\ Handed' \subseteq Entry /\ b.entry \in Handed
  BY DEF Handed, Typed, TypeOK
<1> QED
  BY <1>2, <1>3, <1>4

\* The kinds of copies are apart.
LEMMA CopyHasOneKind ==
    ASSUME OneCopy
    PROVE  /\ \A e \in Waiting : e \notin Replied /\ e \notin Tracked /\ e \notin Handed
           /\ \A e \in Replied : \A f \in Tracked : e.id # f.id
           /\ \A e \in Tracked : \A f \in Handed : e.id # f.id
           /\ \A e \in Handed : \A f \in Waiting \cup dlq : e.id # f.id
<1>1. /\ Copies["waiting"] = Waiting /\ Copies["replied"] = Replied
      /\ Copies["tracked"] = Tracked /\ Copies["handed"] = Handed /\ Copies["dead"] = dlq
  BY DEF Copies
<1>2. \A j, k \in Kind : j # k => \A e \in Copies[j], f \in Copies[k] : e.id # f.id
  BY DEF OneCopy
<1>3. {"waiting", "replied", "tracked", "handed", "dead"} \subseteq Kind
  BY DEF Kind
<1> QED
  BY <1>1, <1>2, <1>3

LEMMA CopyFields ==
    /\ Copies["waiting"] = Waiting /\ Copies["replied"] = Replied
    /\ Copies["tracked"] = Tracked /\ Copies["handed"] = Handed /\ Copies["dead"] = dlq
    /\ {"waiting", "replied", "tracked", "handed", "dead"} = Kind
BY DEF Copies, Kind

LEMMA ProduceCopies ==
    ASSUME PlaceInvariant, NEW m \in Message, NEW p \in Partition, Produce(m, p)
    PROVE  /\ OnePosition'
           /\ m \notin Sent /\ Sent' = Sent \cup {m}
           /\ Adds("waiting", [id |-> m, partition |-> p, retries |-> 0])
<1> DEFINE f == [id |-> m, partition |-> p, retries |-> 0]
<1>1. f \in Entry /\ f.id = m
  BY ConstantsType DEF Entry
<1>2. m \notin Sent
  BY DEF Produce, Sent
<1>3. produced \in Seq(Message) /\ produced' = Append(produced, m)
  BY DEF Produce, PlaceInvariant, Typed, TypeOK
<1>4. Sent' = Sent \cup {m}
  BY <1>3 DEF Sent
<1>5. f \notin Waiting
  BY <1>1, <1>2, CopyFields DEF PlaceInvariant, OnlySent
<1>6. queue' = [queue EXCEPT ![p] = Append(@, f)]
  BY DEF Produce
<1>7. UNCHANGED <<dlq, inFlight, returning, call>>
  BY DEF Produce, nodeVars
<1> HIDE DEF f
<1>8. Waiting' = Waiting \cup {f} /\ QueuePosition'
  BY <1>1, <1>5, <1>6, AppendCopies DEF PlaceInvariant, OnePosition
<1>9. Replied' = Replied /\ Tracked' = Tracked /\ Handed' = Handed
  BY <1>7 DEF Replied, Answered, Tracked, Handed
<1>10. ReplyPosition' /\ TrackPosition' /\ HandPosition'
  BY <1>7 DEF PlaceInvariant, OnePosition, ReplyPosition, Answered, TrackPosition, HandPosition
<1>11. Adds("waiting", f)
  BY <1>7, <1>8, <1>9 DEF Adds, Copies
<1> QED
  BY <1>2, <1>4, <1>8, <1>10, <1>11 DEF OnePosition, f

LEMMA StartConsumeCopies ==
    ASSUME PlaceInvariant, NEW c \in Consumer, NEW n \in Node, StartConsume(c, n)
    PROVE  OnePosition' /\ Copies' = Copies
<1>1. UNCHANGED <<queue, dlq, inFlight, returning>> /\ call[c] = Idle
  BY DEF StartConsume, redisVars
<1>2. call'[c].reply = Nothing /\ \A d \in Consumer : d # c => call'[d] = call[d]
  BY DEF StartConsume, PlaceInvariant, Typed, TypeOK
<1>3. /\ \A d \in Consumer : Answered(d)' <=> Answered(d)
      /\ \A d \in Consumer : Answered(d) => call'[d].reply = call[d].reply
  BY <1>1, <1>2 DEF Answered
<1>4. Replied' = Replied /\ ReplyPosition'
  BY <1>3, RepliesSame DEF PlaceInvariant, OnePosition
<1> QED
  BY <1>1, <1>4 DEF Copies, Waiting, Tracked, Handed, PlaceInvariant, OnePosition, QueuePosition,
     TrackPosition, HandPosition

LEMMA ReturnCopies ==
    ASSUME PlaceInvariant, NEW c \in Consumer, Return(c)
    PROVE  OnePosition' /\ Copies' = Copies
<1>1. UNCHANGED <<queue, dlq, inFlight, returning>> /\ ~Answered(c)
  BY DEF Return, redisVars, nodeVars, Polling, Answered
<1>2. call'[c] = Idle /\ \A d \in Consumer : d # c => call'[d] = call[d]
  BY DEF Return, PlaceInvariant, Typed, TypeOK
<1>3. /\ \A d \in Consumer : Answered(d)' <=> Answered(d)
      /\ \A d \in Consumer : Answered(d) => call'[d].reply = call[d].reply
  BY <1>1, <1>2 DEF Answered
<1>4. Replied' = Replied /\ ReplyPosition'
  BY <1>3, RepliesSame DEF PlaceInvariant, OnePosition
<1> QED
  BY <1>1, <1>4 DEF Copies, Waiting, Tracked, Handed, PlaceInvariant, OnePosition, QueuePosition,
     TrackPosition, HandPosition

LEMMA PopMoves ==
    ASSUME PlaceInvariant, NEW c \in Consumer, Pop(c)
    PROVE  /\ OnePosition'
           /\ \/ Copies' = Copies
              \/ \E e \in Waiting : Moves("waiting", "replied", e, e)
<1> DEFINE p == CHOOSE q \in call[c].todo : \A r \in call[c].todo : q <= r
<1>1. p \in Partition /\ call[c] \in Call /\ ~Answered(c)
  BY NextPartition, PollingType DEF Pop, PlaceInvariant, Typed
<1>2. queue[p] \in Seq(Entry)
  BY <1>1 DEF PlaceInvariant, Typed, TypeOK
<1>3. IF queue[p] = <<>>
      THEN call' = [call EXCEPT ![c].todo = @ \ {p}] /\ queue' = queue
      ELSE /\ call' = [call EXCEPT ![c].todo = @ \ {p}, ![c].reply = Head(queue[p])]
           /\ queue' = [queue EXCEPT ![p] = Tail(@)]
  BY DEF Pop
<1>4. UNCHANGED <<dlq, inFlight, returning>>
  BY DEF Pop, nodeVars
<1>5. Tracked' = Tracked /\ Handed' = Handed /\ TrackPosition' /\ HandPosition'
  BY <1>4 DEF Tracked, Handed, PlaceInvariant, OnePosition, TrackPosition, HandPosition
<1> HIDE DEF p
<1>6. CASE queue[p] = <<>>
  <2>1. \A d \in Consumer : d # c => call'[d] = call[d]
    BY <1>3, <1>6 DEF PlaceInvariant, Typed, TypeOK
  <2>2. call'[c].reply = call[c].reply /\ call[c].reply = Nothing
    BY <1>1, <1>3, <1>6 DEF PlaceInvariant, Typed, TypeOK, Call, Pop, Polling
  <2>3. /\ \A d \in Consumer : Answered(d)' <=> Answered(d)
        /\ \A d \in Consumer : Answered(d) => call'[d].reply = call[d].reply
    BY <2>1, <2>2 DEF Answered
  <2>4. Replied' = Replied /\ ReplyPosition'
    BY <2>3, RepliesSame DEF PlaceInvariant, OnePosition
  <2> QED
    BY <1>3, <1>4, <1>5, <1>6, <2>4 DEF Copies, Waiting, PlaceInvariant, OnePosition, QueuePosition
<1>7. CASE queue[p] # <<>>
  <2> DEFINE e == Head(queue[p])
  <2>1. /\ call' = [call EXCEPT ![c].todo = @ \ {p}, ![c].reply = e]
        /\ queue' = [queue EXCEPT ![p] = Tail(@)]
    BY <1>3, <1>7
  <2>2. Waiting' = Waiting \ {e} /\ QueuePosition' /\ e \in Waiting
    BY <1>1, <1>7, <2>1, PopCopies DEF PlaceInvariant, OnePosition
  <2> HIDE DEF e
  <2>3. e \in Entry /\ e \notin Replied
    BY <2>2, CopyHasOneKind DEF Waiting, PlaceInvariant
  <2>4. call'[c].reply = e /\ \A d \in Consumer : d # c => call'[d] = call[d]
    BY <1>1, <2>1 DEF PlaceInvariant, Typed, TypeOK, Call
  <2>5. call'[c] \in Call
    BY <1>1, <2>1, <2>3 DEF PlaceInvariant, Typed, TypeOK, Call
  <2>6. Answered(c)'
    BY <2>3, <2>4, <2>5, CallIsNotIdle, EntryIsSomething DEF Answered
  <2>7. Replied' = Replied \cup {e} /\ ReplyPosition'
    BY <1>1, <2>3, <2>4, <2>6, ReplyArrives DEF PlaceInvariant, OnePosition
  <2>8. Moves("waiting", "replied", e, e)
    BY <1>4, <1>5, <2>2, <2>7 DEF Moves, Copies
  <2> QED
    BY <1>5, <2>2, <2>7, <2>8 DEF OnePosition
<1> QED
  BY <1>6, <1>7

LEMMA TakeMoves ==
    ASSUME PlaceInvariant, NEW c \in Consumer, Take(c)
    PROVE  OnePosition' /\ \E e \in Replied : Moves("replied", "tracked", e, e)
<1> DEFINE n == call[c].node
           e == call[c].reply
<1>1. Answered(c) /\ call[c] \in Call /\ e \in Entry /\ n \in Node
  BY AnswerType DEF Take, PlaceInvariant, Typed, Call
<1>2. /\ inFlight' = [inFlight EXCEPT ![n] = {f \in inFlight[n] : f.id # e.id} \cup {e}]
      /\ call' = [call EXCEPT ![c].got = @ \cup {e.id}, ![c].reply = Nothing]
      /\ UNCHANGED <<queue, dlq, returning>>
  BY DEF Take, redisVars
<1> HIDE DEF n
<1>3. call'[c].reply = Nothing /\ \A d \in Consumer : d # c => call'[d] = call[d]
  BY <1>1, <1>2 DEF PlaceInvariant, Typed, TypeOK, Call
<1>4. Replied' = Replied \ {e} /\ ReplyPosition' /\ e \in Replied
  BY <1>1, <1>3, ReplyGone DEF Answered, PlaceInvariant, OnePosition
<1> HIDE DEF e
<1>5. \A f \in Tracked : f.id # e.id
  BY <1>4, CopyHasOneKind DEF PlaceInvariant
<1>6. {f \in inFlight[n] : f.id # e.id} = inFlight[n]
  BY <1>1, <1>5 DEF Tracked, PlaceInvariant, Typed, TypeOK
<1>7. Tracked' = Tracked \cup {e} /\ TrackPosition'
  <2>1. inFlight' = [inFlight EXCEPT ![n] = @ \cup {e}] /\ e \notin Tracked
    BY <1>2, <1>5, <1>6
  <2> QED
    BY <1>1, <2>1, TrackNew DEF PlaceInvariant, OnePosition
<1>8. Waiting' = Waiting /\ Handed' = Handed /\ QueuePosition' /\ HandPosition'
  BY <1>2 DEF Waiting, Handed, QueuePosition, HandPosition, PlaceInvariant, OnePosition
<1>9. Moves("replied", "tracked", e, e)
  <2>1. /\ Replied' = Replied \ {e} /\ Tracked' = Tracked \cup {e}
        /\ Waiting' = Waiting /\ Handed' = Handed /\ dlq' = dlq
    BY <1>2, <1>4, <1>7, <1>8
  <2> QED
    BY <2>1 DEF Moves, Copies
<1> QED
  BY <1>4, <1>7, <1>8, <1>9 DEF OnePosition

LEMMA AcknowledgeRemoves ==
    ASSUME PlaceInvariant, NEW n \in Node, NEW e \in inFlight[n], Acknowledge(n, e)
    PROVE  OnePosition' /\ e \in Tracked /\ Removes("tracked", e) /\ acked' = acked \cup {e.id}
<1>1. /\ inFlight' = [inFlight EXCEPT ![n] = @ \ {e}] /\ acked' = acked \cup {e.id}
      /\ UNCHANGED <<queue, dlq, returning, call>>
  BY DEF Acknowledge, redisVars
<1>2. Tracked' = Tracked \ {e} /\ TrackPosition' /\ e \in Tracked
  BY <1>1, TrackGone DEF PlaceInvariant, OnePosition
<1>3. /\ Waiting' = Waiting /\ Replied' = Replied /\ Handed' = Handed /\ dlq' = dlq
      /\ QueuePosition' /\ ReplyPosition' /\ HandPosition'
  BY <1>1 DEF Waiting, Replied, Answered, Handed, QueuePosition, ReplyPosition, HandPosition,
     PlaceInvariant, OnePosition
<1>4. Removes("tracked", e)
  BY <1>2, <1>3 DEF Removes, Copies
<1> QED
  BY <1>1, <1>2, <1>3, <1>4 DEF OnePosition

\* A copy that comes back, with the retry counted.
Returns(e) == [e EXCEPT !.retries = @ + 1]

LEMMA GiveBackMoves ==
    ASSUME PlaceInvariant, NEW n \in Node, NEW e \in inFlight[n], NEW by \in BOOLEAN,
           GiveBack(n, e, by), UNCHANGED <<queue, dlq, call>>
    PROVE  /\ OnePosition'
           /\ e \in Tracked /\ Moves("tracked", "handed", e, Returns(e))
<1> DEFINE b == [entry |-> Returns(e), byChecker |-> by]
<1>1. e \in Entry /\ e.retries < MaxRetries
  BY DEF PlaceInvariant, Typed, TypeOK, Retryable
<1>2. Returns(e) \in Entry /\ Returns(e).id = e.id
  BY <1>1, ConstantsType DEF Entry, Returns
<1>3. /\ inFlight' = [inFlight EXCEPT ![n] = @ \ {e}]
      /\ returning' = [returning EXCEPT ![n] = @ \cup {b}]
  BY DEF GiveBack, Returns
<1>4. b.entry = Returns(e)
  OBVIOUS
<1> HIDE DEF b
<1>5. Tracked' = Tracked \ {e} /\ TrackPosition' /\ e \in Tracked
  BY <1>3, TrackGone DEF PlaceInvariant, OnePosition
<1>6. b.entry \notin Handed
  BY <1>2, <1>4, <1>5, CopyHasOneKind DEF PlaceInvariant
<1>7. Handed' = Handed \cup {Returns(e)} /\ HandPosition'
  BY <1>2, <1>3, <1>4, <1>6, HandNew DEF PlaceInvariant, OnePosition
<1>8. /\ Waiting' = Waiting /\ Replied' = Replied /\ dlq' = dlq
      /\ QueuePosition' /\ ReplyPosition'
  BY DEF Waiting, Replied, Answered, QueuePosition, ReplyPosition, PlaceInvariant, OnePosition
<1>9. Moves("tracked", "handed", e, Returns(e))
  BY <1>5, <1>7, <1>8 DEF Moves, Copies
<1> QED
  BY <1>5, <1>7, <1>8, <1>9 DEF OnePosition

LEMMA PushBackCopies ==
    ASSUME PlaceInvariant, NEW e \in Handed, PushBack(e)
    PROVE  /\ QueuePosition'
           /\ \/ /\ e.retries < MaxRetries
                 /\ Waiting' = Waiting \cup {e} /\ dlq' = dlq
              \/ /\ e.retries >= MaxRetries
                 /\ Waiting' = Waiting /\ dlq' = dlq \cup {e}
<1>1. e \in Entry /\ e.retries \in Nat /\ MaxRetries \in Nat /\ e.partition \in Partition
  BY ConstantsType DEF Handed, Entry
<1>2. CASE e.retries >= MaxRetries
  BY <1>2 DEF PushBack, Waiting, PlaceInvariant, OnePosition, QueuePosition
<1>3. CASE e.retries < MaxRetries
  <2>1. queue' = [queue EXCEPT ![e.partition] = <<e>> \o @] /\ dlq' = dlq
    BY <1>1, <1>3 DEF PushBack
  <2>2. e \notin Waiting
    BY CopyHasOneKind DEF PlaceInvariant
  <2> QED
    BY <1>1, <1>3, <2>1, <2>2, PushCopies DEF PlaceInvariant, OnePosition
<1> QED
  BY <1>1, <1>2, <1>3

\* A copy is pushed to Redis.
Pushes ==
    \E e \in Handed :
        \/ e.retries < MaxRetries /\ Moves("handed", "waiting", e, e)
        \/ e.retries >= MaxRetries /\ Moves("handed", "dead", e, e)

LEMMA RequeueMoves ==
    ASSUME PlaceInvariant, NEW n \in Node, NEW b \in returning[n],
           Requeue(n, b) \/ RequeueFails(n, b)
    PROVE  OnePosition' /\ (Pushes \/ (Loses /\ RequeueFails(n, b)))
<1>1. returning' = [returning EXCEPT ![n] = @ \ {b}] /\ UNCHANGED <<inFlight, call>>
  BY DEF Requeue, RequeueFails
<1>2. Handed' = Handed \ {b.entry} /\ HandPosition' /\ b.entry \in Handed
  BY <1>1, HandGone DEF PlaceInvariant, OnePosition
<1>3. /\ Tracked' = Tracked /\ Replied' = Replied /\ TrackPosition' /\ ReplyPosition'
  BY <1>1 DEF Tracked, Replied, Answered, TrackPosition, ReplyPosition, PlaceInvariant, OnePosition
<1>4. CASE PushBack(b.entry)
  <2>1. /\ QueuePosition'
        /\ \/ b.entry.retries < MaxRetries /\ Waiting' = Waiting \cup {b.entry} /\ dlq' = dlq
           \/ b.entry.retries >= MaxRetries /\ Waiting' = Waiting /\ dlq' = dlq \cup {b.entry}
    BY <1>2, <1>4, PushBackCopies
  <2>2. OnePosition'
    BY <1>2, <1>3, <2>1 DEF OnePosition
  <2>3. CASE b.entry.retries < MaxRetries /\ Waiting' = Waiting \cup {b.entry} /\ dlq' = dlq
    <3>1. Moves("handed", "waiting", b.entry, b.entry)
      BY <1>2, <1>3, <2>3 DEF Moves, Copies
    <3> QED
      BY <1>2, <2>2, <2>3, <3>1 DEF Pushes
  <2>4. CASE b.entry.retries >= MaxRetries /\ Waiting' = Waiting /\ dlq' = dlq \cup {b.entry}
    <3>1. Moves("handed", "dead", b.entry, b.entry)
      BY <1>2, <1>3, <2>4 DEF Moves, Copies
    <3> QED
      BY <1>2, <2>2, <2>4, <3>1 DEF Pushes
  <2> QED
    BY <2>1, <2>3, <2>4
<1>5. CASE UNCHANGED redisVars /\ RequeueFails(n, b)
  <2>1. Waiting' = Waiting /\ dlq' = dlq /\ QueuePosition'
    BY <1>5 DEF redisVars, Waiting, QueuePosition, PlaceInvariant, OnePosition
  <2>2. Loses
    BY <1>2, <1>3, <2>1 DEF Loses, Copies, Kind
  <2>3. OnePosition'
    BY <1>2, <1>3, <2>1 DEF OnePosition
  <2> QED
    BY <1>5, <2>2, <2>3
<1> QED
  BY <1>4, <1>5 DEF Requeue, RequeueFails

LEMMA CrashLoses ==
    ASSUME PlaceInvariant, NEW n \in Node, Crash(n)
    PROVE  OnePosition' /\ Loses
<1>1. /\ inFlight' = [inFlight EXCEPT ![n] = {}] /\ returning' = [returning EXCEPT ![n] = {}]
      /\ UNCHANGED <<queue, dlq>>
  BY DEF Crash, redisVars
<1>2. \A c \in Consumer : Answered(c)' => Answered(c) /\ call'[c] = call[c]
  BY DEF Crash, Answered
<1>3. /\ \A k \in Node : inFlight'[k] \subseteq inFlight[k]
      /\ \A k \in Node : returning'[k] \subseteq returning[k]
  BY <1>1 DEF PlaceInvariant, Typed, TypeOK
<1>4. Waiting' = Waiting /\ QueuePosition'
  BY <1>1 DEF Waiting, QueuePosition, PlaceInvariant, OnePosition
<1>5. Replied' \subseteq Replied /\ ReplyPosition'
  BY <1>2 DEF Replied, ReplyPosition, PlaceInvariant, OnePosition
<1>6. Tracked' \subseteq Tracked /\ TrackPosition'
  BY <1>3 DEF Tracked, TrackPosition, PlaceInvariant, OnePosition
<1>7. Handed' \subseteq Handed /\ HandPosition'
  BY <1>3 DEF Handed, HandPosition, PlaceInvariant, OnePosition
<1>8. Loses
  BY <1>1, <1>4, <1>5, <1>6, <1>7 DEF Loses, Copies, Kind
<1> QED
  BY <1>4, <1>5, <1>6, <1>7, <1>8 DEF OnePosition

LEMMA ReplyLostLoses ==
    ASSUME PlaceInvariant, NEW c \in Consumer, ReplyLost(c)
    PROVE  OnePosition' /\ Loses
<1>1. Answered(c) /\ call[c].reply \in Entry /\ UNCHANGED <<queue, dlq, inFlight, returning>>
  BY AnswerType DEF ReplyLost, redisVars, nodeVars, PlaceInvariant, Typed
<1>2. call'[c] = Idle /\ \A d \in Consumer : d # c => call'[d] = call[d]
  BY DEF ReplyLost, PlaceInvariant, Typed, TypeOK
<1>3. Replied' = Replied \ {call[c].reply} /\ ReplyPosition'
  BY <1>1, <1>2, ReplyGone DEF Answered, PlaceInvariant, OnePosition
<1>4. /\ Waiting' = Waiting /\ Tracked' = Tracked /\ Handed' = Handed
      /\ QueuePosition' /\ TrackPosition' /\ HandPosition'
  BY <1>1 DEF Waiting, Tracked, Handed, QueuePosition, TrackPosition, HandPosition,
     PlaceInvariant, OnePosition
<1>5. Loses
  BY <1>1, <1>3, <1>4 DEF Loses, Copies, Kind
<1> QED
  BY <1>3, <1>4, <1>5 DEF OnePosition

\* What the steps do to the copies.
FirstCopy(m, p) == [id |-> m, partition |-> p, retries |-> 0]

Sends ==
    \E m \in Message : \E p \in Partition :
        m \notin Sent /\ Sent' = Sent \cup {m} /\ Adds("waiting", FirstCopy(m, p))

Delivers ==
    \/ \E e \in Waiting : Moves("waiting", "replied", e, e)
    \/ \E e \in Replied : Moves("replied", "tracked", e, e)

ComesBack == \E e \in Tracked : Moves("tracked", "handed", e, Returns(e))

Finishes == \E e \in Tracked : Removes("tracked", e) /\ acked' = acked \cup {e.id}

CopiesStep ==
    \/ Sends /\ acked' = acked /\ faults' = faults
    \/ Finishes /\ Sent' = Sent /\ faults' = faults
    \/ /\ acked' = acked /\ Sent' = Sent
       /\ \/ Copies' = Copies /\ faults' = faults
          \/ (Delivers \/ ComesBack \/ Pushes) /\ (faults' = faults \/ faults' # 0)
          \/ Loses /\ faults' # 0

LEMMA FaultCounts == Typed /\ Fault => faults' # 0
BY DEF Typed, TypeOK, Fault

LEMMA ConsumeStepOfCopies ==
    ASSUME PlaceInvariant, NEW c \in Consumer, ConsumeStep(c)
    PROVE  OnePosition' /\ CopiesStep
<1>1. acked' = acked /\ Sent' = Sent /\ faults' = faults
  BY DEF ConsumeStep, StartConsume, Pop, Take, Return, clientVars, Sent
<1>2. OnePosition' /\ (Copies' = Copies \/ Delivers)
  BY StartConsumeCopies, PopMoves, TakeMoves, ReturnCopies DEF ConsumeStep, Delivers
<1> QED
  BY <1>1, <1>2 DEF CopiesStep

LEMMA GiveBackStepOfCopies ==
    ASSUME PlaceInvariant, NEW n \in Node, NEW e \in inFlight[n], NEW by \in BOOLEAN,
           GiveBack(n, e, by), UNCHANGED <<redisVars, clientVars, call, faults>>
    PROVE  OnePosition' /\ CopiesStep
<1>1. acked' = acked /\ Sent' = Sent /\ faults' = faults /\ UNCHANGED <<queue, dlq, call>>
  BY DEF clientVars, redisVars, Sent
<1>2. OnePosition' /\ ComesBack
  BY <1>1, GiveBackMoves DEF ComesBack
<1> QED
  BY <1>1, <1>2 DEF CopiesStep

LEMMA StillCopies ==
    ASSUME PlaceInvariant, UNCHANGED <<redisVars, clientVars, inFlight, returning, call, faults>>
    PROVE  OnePosition' /\ CopiesStep
<1>1. acked' = acked /\ Sent' = Sent /\ faults' = faults /\ UNCHANGED <<queue, dlq>>
  BY DEF clientVars, redisVars, Sent
<1>2. Copies' = Copies
  BY <1>1 DEF Copies, Waiting, Replied, Answered, Tracked, Handed
<1>3. OnePosition'
  BY <1>1 DEF PlaceInvariant, OnePosition, QueuePosition, ReplyPosition, Answered, TrackPosition,
     HandPosition
<1> QED
  BY <1>1, <1>2, <1>3 DEF CopiesStep

LEMMA StepOfCopies ==
    ASSUME PlaceInvariant, [Next]_vars
    PROVE  OnePosition' /\ CopiesStep
<1>1. ASSUME NEW m \in Message, NEW p \in Partition, Produce(m, p)
      PROVE  OnePosition' /\ CopiesStep
  <2>1. acked' = acked /\ faults' = faults
    BY <1>1 DEF Produce
  <2>2. OnePosition' /\ Sends
    BY <1>1, ProduceCopies DEF Sends, FirstCopy
  <2> QED
    BY <2>1, <2>2 DEF CopiesStep
<1>2. ASSUME NEW n \in Node, NEW e \in inFlight[n], Acknowledge(n, e)
      PROVE  OnePosition' /\ CopiesStep
  <2>1. Sent' = Sent /\ faults' = faults
    BY <1>2 DEF Acknowledge, Sent
  <2>2. OnePosition' /\ Finishes
    BY <1>2, AcknowledgeRemoves DEF Finishes
  <2> QED
    BY <2>1, <2>2 DEF CopiesStep
<1>3. ASSUME NEW n \in Node, NEW e \in inFlight[n], NegativeAcknowledge(n, e)
      PROVE  OnePosition' /\ CopiesStep
  BY <1>3, GiveBackStepOfCopies DEF NegativeAcknowledge
<1>4. ASSUME NEW n \in Node, CheckerStep(n)
      PROVE  OnePosition' /\ CopiesStep
  <2>1. CASE FindTimedOut(n)
    BY <2>1, StillCopies DEF FindTimedOut
  <2>2. ASSUME NEW id \in checker[n], GiveBackTimedOut(n, id)
        PROVE  OnePosition' /\ CopiesStep
    <3>1. CASE \E e \in inFlight[n] : e.id = id
      <4>1. PICK e \in inFlight[n] : GiveBack(n, e, TRUE)
        BY <2>2, <3>1 DEF GiveBackTimedOut
      <4> QED
        BY <2>2, <4>1, GiveBackStepOfCopies DEF GiveBackTimedOut
    <3>2. CASE ~\E e \in inFlight[n] : e.id = id
      BY <2>2, <3>2, StillCopies DEF GiveBackTimedOut
    <3> QED
      BY <3>1, <3>2
  <2> QED
    BY <1>4, <2>1, <2>2 DEF CheckerStep
<1>5. ASSUME NEW n \in Node, NEW b \in returning[n], Requeue(n, b) \/ RequeueFails(n, b)
      PROVE  OnePosition' /\ CopiesStep
  <2>1. acked' = acked /\ Sent' = Sent
    BY <1>5 DEF Requeue, RequeueFails, clientVars, Sent
  <2>2. faults' = faults \/ (RequeueFails(n, b) /\ faults' # 0)
    BY <1>5, FaultCounts DEF Requeue, RequeueFails, PlaceInvariant
  <2>3. OnePosition' /\ (Pushes \/ (Loses /\ RequeueFails(n, b)))
    BY <1>5, RequeueMoves
  <2>4. RequeueFails(n, b) => faults' # 0
    BY FaultCounts DEF RequeueFails, PlaceInvariant
  <2> QED
    BY <2>1, <2>2, <2>3, <2>4 DEF CopiesStep
<1>6. ASSUME NEW n \in Node, Crash(n)
      PROVE  OnePosition' /\ CopiesStep
  <2>1. acked' = acked /\ Sent' = Sent /\ faults' # 0
    BY <1>6, FaultCounts DEF Crash, clientVars, Sent, PlaceInvariant
  <2> QED
    BY <1>6, <2>1, CrashLoses DEF CopiesStep
<1>7. ASSUME NEW c \in Consumer, ReplyLost(c)
      PROVE  OnePosition' /\ CopiesStep
  <2>1. acked' = acked /\ Sent' = Sent /\ faults' # 0
    BY <1>7, FaultCounts DEF ReplyLost, clientVars, Sent, PlaceInvariant
  <2> QED
    BY <1>7, <2>1, ReplyLostLoses DEF CopiesStep
<1>8. CASE UNCHANGED vars
  BY <1>8, StillCopies DEF vars, redisVars, clientVars
<1> QED
  BY <1>1, <1>2, <1>3, <1>4, <1>5, <1>6, <1>7, <1>8, ConsumeStepOfCopies DEF Next

LEMMA CopiesStepKeeps ==
    ASSUME PlaceInvariant, CopiesStep
    PROVE  OneCopy' /\ OnlySent' /\ NoneLost'
<1>1. CASE Sends /\ acked' = acked /\ faults' = faults
  <2>1. PICK m \in Message : \E p \in Partition :
            m \notin Sent /\ Sent' = Sent \cup {m} /\ Adds("waiting", FirstCopy(m, p))
    BY <1>1 DEF Sends
  <2>2. PICK p \in Partition : Adds("waiting", FirstCopy(m, p))
    BY <2>1
  <2>3. FirstCopy(m, p).id = m /\ "waiting" \in Kind
    BY DEF FirstCopy, Kind
  <2> QED
    BY <1>1, <2>1, <2>2, <2>3, AddsKeeps
<1>2. CASE Finishes /\ Sent' = Sent /\ faults' = faults
  <2>1. "tracked" \in Kind /\ Tracked = Copies["tracked"]
    BY CopyFields
  <2> QED
    BY <1>2, <2>1, RemovesKeeps DEF Finishes
<1>3. CASE acked' = acked /\ Sent' = Sent /\ Copies' = Copies /\ faults' = faults
  BY <1>3, SameKeeps
<1>4. CASE /\ acked' = acked /\ Sent' = Sent
           /\ Delivers \/ ComesBack \/ Pushes
           /\ faults' = faults \/ faults' # 0
  <2>1. ASSUME NEW j \in Kind, NEW k \in Kind, j # k, NEW e \in Copies[j], Moves(j, k, e, e)
        PROVE  OneCopy' /\ OnlySent' /\ NoneLost'
    BY <1>4, <2>1, MovesKeeps
  <2>2. CASE Delivers \/ Pushes
    BY <2>1, <2>2, CopyFields DEF Delivers, Pushes
  <2>3. CASE ComesBack
    <3>1. PICK e \in Tracked : Moves("tracked", "handed", e, Returns(e))
      BY <2>3 DEF ComesBack
    <3>2. Returns(e).id = e.id
      BY DEF Returns, Tracked, Entry
    <3> QED
      BY <1>4, <3>1, <3>2, MovesKeeps, CopyFields
  <2> QED
    BY <1>4, <2>2, <2>3
<1>5. CASE acked' = acked /\ Sent' = Sent /\ Loses /\ faults' # 0
  BY <1>5, LosesKeeps
<1> QED
  BY <1>1, <1>2, <1>3, <1>4, <1>5 DEF CopiesStep

LEMMA PlaceStep == PlaceInvariant /\ [Next]_vars => PlaceInvariant'
BY TypedStep, StepOfCopies, CopiesStepKeeps DEF PlaceInvariant

LEMMA PlaceInit == Init => PlaceInvariant
<1> SUFFICES ASSUME Init PROVE PlaceInvariant
  OBVIOUS
<1>1. /\ Waiting = {} /\ Replied = {} /\ Tracked = {} /\ Handed = {} /\ dlq = {} /\ Sent = {}
      /\ acked = {}
  BY DEF Init, Waiting, Replied, Answered, Tracked, Handed, Sent
<1>2. \A k \in Kind : Copies[k] = {}
  BY <1>1 DEF Copies, Kind
<1>3. OneCopy /\ OnlySent /\ NoneLost
  BY <1>1, <1>2 DEF OneCopy, OnlySent, NoneLost
<1>4. OnePosition
  BY DEF Init, OnePosition, QueuePosition, ReplyPosition, Answered, TrackPosition, HandPosition
<1> QED
  BY <1>3, <1>4, InitTyped DEF PlaceInvariant

\* The inductive invariant behind OnePlace: a message has one copy until it is settled, the
\* copy has one position, and only a fault makes it disappear.
THEOREM PlaceInvariantHolds == Spec => []PlaceInvariant
BY PlaceInit, PlaceStep, PTL DEF Spec

\* The place of a copy.
PlaceOf(k, e, x) ==
    \/ /\ k = "waiting"
       /\ \E p \in Partition : \E i \in DOMAIN queue[p] :
             queue[p][i] = e /\ x = Place("waiting", e.retries, <<"queue", p, i>>)
    \/ /\ k = "replied"
       /\ \E c \in Consumer :
             Answered(c) /\ call[c].reply = e /\ x = Place("out", e.retries, <<"reply", c>>)
    \/ /\ k = "tracked"
       /\ \E n \in Node : e \in inFlight[n] /\ x = Place("out", e.retries, <<"inFlight", n, e>>)
    \/ /\ k = "handed"
       /\ \E n \in Node : \E b \in returning[n] :
             b.entry = e /\ x = Place("out", e.retries - 1, <<"returning", n, b>>)
    \/ /\ k = "dead"
       /\ e \in dlq /\ x = Place("dead", e.retries, <<"dlq", e>>)

DonePlace(m) == Place("done", 0, <<"acked", m>>)

\* The places of a message, one kind after the other.
LEMMA PlacesByKind ==
    ASSUME NEW m, NEW x
    PROVE  x \in Places(m) <=>
             \/ \E p \in Partition : \E i \in DOMAIN queue[p] :
                  queue[p][i].id = m /\ x = Place("waiting", queue[p][i].retries, <<"queue", p, i>>)
             \/ \E c \in Consumer :
                  /\ Answered(c) /\ call[c].reply.id = m
                  /\ x = Place("out", call[c].reply.retries, <<"reply", c>>)
             \/ \E n \in Node : \E e \in inFlight[n] :
                  e.id = m /\ x = Place("out", e.retries, <<"inFlight", n, e>>)
             \/ \E n \in Node : \E b \in returning[n] :
                  b.entry.id = m /\ x = Place("out", b.entry.retries - 1, <<"returning", n, b>>)
             \/ \E e \in dlq : e.id = m /\ x = Place("dead", e.retries, <<"dlq", e>>)
             \/ m \in acked /\ x = DonePlace(m)
<1>1. x \in Places(m) <=> \/ x \in InQueue(m) \/ x \in InReply(m) \/ x \in InMemory(m)
                          \/ x \in OnWayBack(m) \/ x \in Dead(m) \/ x \in Done(m)
  BY DEF Places
<1>2. x \in InQueue(m) <=> \E p \in Partition : \E i \in DOMAIN queue[p] :
          queue[p][i].id = m /\ x = Place("waiting", queue[p][i].retries, <<"queue", p, i>>)
  BY DEF InQueue
<1>3. x \in InReply(m) <=> \E c \in Consumer :
          /\ Answered(c) /\ call[c].reply.id = m
          /\ x = Place("out", call[c].reply.retries, <<"reply", c>>)
  BY DEF InReply
<1>4. x \in InMemory(m) <=> \E n \in Node : \E e \in inFlight[n] :
          e.id = m /\ x = Place("out", e.retries, <<"inFlight", n, e>>)
  <2> DEFINE S(n) == {Place("out", e.retries, <<"inFlight", n, e>>)
                         : e \in {f \in inFlight[n] : f.id = m}}
  <2>1. \A n \in Node : x \in S(n) <=>
            \E e \in inFlight[n] : e.id = m /\ x = Place("out", e.retries, <<"inFlight", n, e>>)
    OBVIOUS
  <2>2. InMemory(m) = UNION {S(n) : n \in Node}
    BY DEF InMemory
  <2> HIDE DEF S
  <2> QED
    BY <2>1, <2>2
<1>5. x \in OnWayBack(m) <=> \E n \in Node : \E b \in returning[n] :
          b.entry.id = m /\ x = Place("out", b.entry.retries - 1, <<"returning", n, b>>)
  <2> DEFINE S(n) == {Place("out", b.entry.retries - 1, <<"returning", n, b>>)
                         : b \in {y \in returning[n] : y.entry.id = m}}
  <2>1. \A n \in Node : x \in S(n) <=> \E b \in returning[n] :
            b.entry.id = m /\ x = Place("out", b.entry.retries - 1, <<"returning", n, b>>)
    OBVIOUS
  <2>2. OnWayBack(m) = UNION {S(n) : n \in Node}
    BY DEF OnWayBack
  <2> HIDE DEF S
  <2> QED
    BY <2>1, <2>2
<1>6. x \in Dead(m) <=> \E e \in dlq : e.id = m /\ x = Place("dead", e.retries, <<"dlq", e>>)
  BY DEF Dead
<1>7. x \in Done(m) <=> m \in acked /\ x = DonePlace(m)
  BY DEF Done, DonePlace
<1> QED
  BY <1>1, <1>2, <1>3, <1>4, <1>5, <1>6, <1>7, Zenon

LEMMA PlaceIsOfCopy ==
    ASSUME Typed, NEW m, NEW x \in Places(m)
    PROVE  \/ \E k \in Kind : \E e \in Copies[k] : e.id = m /\ PlaceOf(k, e, x)
           \/ m \in acked /\ x = DonePlace(m)
<1>1. ASSUME NEW p \in Partition, NEW i \in DOMAIN queue[p], queue[p][i].id = m,
             x = Place("waiting", queue[p][i].retries, <<"queue", p, i>>)
      PROVE  \E e \in Copies["waiting"] : e.id = m /\ PlaceOf("waiting", e, x)
  <2>1. queue[p][i] \in Entry
    BY DEF Typed, TypeOK
  <2>2. queue[p][i] \in Copies["waiting"]
    BY <2>1, CopyFields DEF Waiting
  <2>3. PlaceOf("waiting", queue[p][i], x)
    BY <1>1 DEF PlaceOf
  <2> QED
    BY <1>1, <2>2, <2>3
<1>2. ASSUME NEW c \in Consumer, Answered(c), call[c].reply.id = m,
             x = Place("out", call[c].reply.retries, <<"reply", c>>)
      PROVE  \E e \in Copies["replied"] : e.id = m /\ PlaceOf("replied", e, x)
  <2>1. call[c].reply \in Entry
    BY <1>2, AnswerType DEF Typed
  <2>2. call[c].reply \in Copies["replied"]
    BY <1>2, <2>1, CopyFields DEF Replied
  <2>3. PlaceOf("replied", call[c].reply, x)
    BY <1>2 DEF PlaceOf
  <2> QED
    BY <1>2, <2>2, <2>3
<1>3. ASSUME NEW n \in Node, NEW e \in inFlight[n], e.id = m,
             x = Place("out", e.retries, <<"inFlight", n, e>>)
      PROVE  e \in Copies["tracked"] /\ PlaceOf("tracked", e, x)
  <2>1. e \in Copies["tracked"]
    BY CopyFields DEF Tracked, Typed, TypeOK
  <2> QED
    BY <1>3, <2>1 DEF PlaceOf
<1>4. ASSUME NEW n \in Node, NEW b \in returning[n], b.entry.id = m,
             x = Place("out", b.entry.retries - 1, <<"returning", n, b>>)
      PROVE  b.entry \in Copies["handed"] /\ PlaceOf("handed", b.entry, x)
  <2>1. b.entry \in Copies["handed"]
    BY CopyFields DEF Handed, Typed, TypeOK
  <2> QED
    BY <1>4, <2>1 DEF PlaceOf
<1>5. ASSUME NEW e \in dlq, e.id = m, x = Place("dead", e.retries, <<"dlq", e>>)
      PROVE  e \in Copies["dead"] /\ PlaceOf("dead", e, x)
  BY <1>5, CopyFields DEF PlaceOf
<1>6. {"waiting", "replied", "tracked", "handed", "dead"} = Kind
  BY CopyFields
<1>7. CASE m \in acked /\ x = DonePlace(m)
  BY <1>7
<1>8. CASE \E k \in Kind : \E e \in Copies[k] : e.id = m /\ PlaceOf(k, e, x)
  BY <1>8
<1> QED
  <2>1. CASE \E p \in Partition : \E i \in DOMAIN queue[p] :
             queue[p][i].id = m /\ x = Place("waiting", queue[p][i].retries, <<"queue", p, i>>)
    BY <1>1, <1>6, <1>8, <2>1
  <2>2. CASE \E c \in Consumer :
             /\ Answered(c) /\ call[c].reply.id = m
             /\ x = Place("out", call[c].reply.retries, <<"reply", c>>)
    BY <1>2, <1>6, <1>8, <2>2
  <2>3. CASE \E n \in Node : \E e \in inFlight[n] :
             e.id = m /\ x = Place("out", e.retries, <<"inFlight", n, e>>)
    BY <1>3, <1>6, <1>8, <2>3
  <2>4. CASE \E n \in Node : \E b \in returning[n] :
             b.entry.id = m /\ x = Place("out", b.entry.retries - 1, <<"returning", n, b>>)
    BY <1>4, <1>6, <1>8, <2>4
  <2>5. CASE \E e \in dlq : e.id = m /\ x = Place("dead", e.retries, <<"dlq", e>>)
    BY <1>5, <1>6, <1>8, <2>5
  <2> QED
    BY <1>7, <2>1, <2>2, <2>3, <2>4, <2>5, PlacesByKind

LEMMA CopyHasPlace ==
    ASSUME NEW k \in Kind, NEW e \in Copies[k]
    PROVE  \E x \in Places(e.id) : PlaceOf(k, e, x)
<1>1. CASE k = "waiting"
  <2>1. e \in Waiting
    BY <1>1, CopyFields
  <2>2. PICK p \in Partition : \E i \in DOMAIN queue[p] : queue[p][i] = e
    BY <2>1 DEF Waiting
  <2>3. PICK i \in DOMAIN queue[p] : queue[p][i] = e
    BY <2>2
  <2>4. Place("waiting", e.retries, <<"queue", p, i>>) \in Places(e.id)
    BY <2>3, PlacesByKind
  <2> QED
    BY <1>1, <2>3, <2>4 DEF PlaceOf
<1>2. CASE k = "replied"
  <2>1. e \in Replied
    BY <1>2, CopyFields
  <2>2. PICK c \in Consumer : Answered(c) /\ call[c].reply = e
    BY <2>1 DEF Replied
  <2>3. Place("out", e.retries, <<"reply", c>>) \in Places(e.id)
    BY <2>2, PlacesByKind
  <2> QED
    BY <1>2, <2>2, <2>3 DEF PlaceOf
<1>3. CASE k = "tracked"
  <2>1. e \in Tracked
    BY <1>3, CopyFields
  <2>2. PICK n \in Node : e \in inFlight[n]
    BY <2>1 DEF Tracked
  <2>3. Place("out", e.retries, <<"inFlight", n, e>>) \in Places(e.id)
    BY <2>2, PlacesByKind
  <2> QED
    BY <1>3, <2>2, <2>3 DEF PlaceOf
<1>4. CASE k = "handed"
  <2>1. e \in Handed
    BY <1>4, CopyFields
  <2>2. PICK n \in Node : \E b \in returning[n] : b.entry = e
    BY <2>1 DEF Handed
  <2>3. PICK b \in returning[n] : b.entry = e
    BY <2>2
  <2>4. Place("out", e.retries - 1, <<"returning", n, b>>) \in Places(e.id)
    BY <2>3, PlacesByKind
  <2> QED
    BY <1>4, <2>3, <2>4 DEF PlaceOf
<1>5. CASE k = "dead"
  <2>1. e \in dlq
    BY <1>5, CopyFields
  <2>2. Place("dead", e.retries, <<"dlq", e>>) \in Places(e.id)
    BY <2>1, PlacesByKind
  <2> QED
    BY <1>5, <2>1, <2>2 DEF PlaceOf
<1> QED
  BY <1>1, <1>2, <1>3, <1>4, <1>5 DEF Kind

LEMMA AckedHasPlace ==
    ASSUME NEW m \in acked
    PROVE  DonePlace(m) \in Places(m)
BY PlacesByKind

LEMMA PlaceOfIsUnique ==
    ASSUME OnePosition, NEW k \in Kind, NEW e, NEW x, NEW y, PlaceOf(k, e, x), PlaceOf(k, e, y)
    PROVE  x = y
<1>1. CASE k = "waiting"
  <2>1. PICK p \in Partition : \E i \in DOMAIN queue[p] :
            queue[p][i] = e /\ x = Place("waiting", e.retries, <<"queue", p, i>>)
    BY <1>1 DEF PlaceOf
  <2>2. PICK i \in DOMAIN queue[p] :
            queue[p][i] = e /\ x = Place("waiting", e.retries, <<"queue", p, i>>)
    BY <2>1
  <2>3. PICK q \in Partition : \E j \in DOMAIN queue[q] :
            queue[q][j] = e /\ y = Place("waiting", e.retries, <<"queue", q, j>>)
    BY <1>1 DEF PlaceOf
  <2>4. PICK j \in DOMAIN queue[q] :
            queue[q][j] = e /\ y = Place("waiting", e.retries, <<"queue", q, j>>)
    BY <2>3
  <2>5. p = q /\ i = j
    BY <2>2, <2>4 DEF OnePosition, QueuePosition
  <2> QED
    BY <2>2, <2>4, <2>5
<1>2. CASE k = "replied"
  BY <1>2 DEF PlaceOf, OnePosition, ReplyPosition
<1>3. CASE k = "tracked"
  BY <1>3 DEF PlaceOf, OnePosition, TrackPosition
<1>4. CASE k = "handed"
  BY <1>4 DEF PlaceOf, OnePosition, HandPosition
<1>5. CASE k = "dead"
  BY <1>5 DEF PlaceOf
<1> QED
  BY <1>1, <1>2, <1>3, <1>4, <1>5 DEF Kind

LEMMA PlacesAreOne ==
    ASSUME PlaceInvariant, NEW m, NEW x \in Places(m), NEW y \in Places(m)
    PROVE  x = y
<1>1. \/ \E k \in Kind : \E e \in Copies[k] : e.id = m /\ PlaceOf(k, e, x)
      \/ m \in acked /\ x = DonePlace(m)
  BY PlaceIsOfCopy DEF PlaceInvariant
<1>2. \/ \E k \in Kind : \E e \in Copies[k] : e.id = m /\ PlaceOf(k, e, y)
      \/ m \in acked /\ y = DonePlace(m)
  BY PlaceIsOfCopy DEF PlaceInvariant
<1>3. \A k \in Kind : \A e \in Copies[k] : e.id \notin acked
  BY DEF PlaceInvariant, OneCopy
<1>4. \A j, k \in Kind : \A e \in Copies[j], f \in Copies[k] : e.id = f.id => j = k /\ e = f
  BY DEF PlaceInvariant, OneCopy
<1>5. CASE m \in acked
  BY <1>1, <1>2, <1>3, <1>5
<1>6. CASE m \notin acked
  <2>1. PICK j \in Kind : \E e \in Copies[j] : e.id = m /\ PlaceOf(j, e, x)
    BY <1>1, <1>6
  <2>2. PICK e \in Copies[j] : e.id = m /\ PlaceOf(j, e, x)
    BY <2>1
  <2>3. PICK k \in Kind : \E f \in Copies[k] : f.id = m /\ PlaceOf(k, f, y)
    BY <1>2, <1>6
  <2>4. PICK f \in Copies[k] : f.id = m /\ PlaceOf(k, f, y)
    BY <2>3
  <2>5. j = k /\ e = f
    BY <1>4, <2>2, <2>4
  <2> QED
    BY <2>2, <2>4, <2>5, PlaceOfIsUnique DEF PlaceInvariant
<1> QED
  BY <1>5, <1>6

\* A message without a copy is nowhere.
LEMMA NowhereWithoutCopy ==
    ASSUME PlaceInvariant, NEW m
    PROVE  Places(m) = {} <=> m \notin acked /\ \A k \in Kind : \A e \in Copies[k] : e.id # m
BY PlaceIsOfCopy, CopyHasPlace, AckedHasPlace DEF PlaceInvariant

LEMMA InvariantGivesOnePlace == PlaceInvariant => OnePlace
<1> SUFFICES ASSUME PlaceInvariant, NEW i \in DOMAIN produced
             PROVE  /\ Cardinality(Places(produced[i])) <= 1
                    /\ faults = 0 => Places(produced[i]) # {}
  BY DEF OnePlace
<1> DEFINE m == produced[i]
<1>1. Places(m) = {} \/ \E x : Places(m) = {x}
  BY PlacesAreOne
<1>2. Cardinality(Places(m)) <= 1
  <2>1. Cardinality({}) = 0 /\ \A x : Cardinality({x}) = 1
    BY FS_EmptySet, FS_Singleton
  <2> QED
    BY <1>1, <2>1
<1>3. faults = 0 => Places(m) # {}
  <2>1. m \in Sent
    BY DEF Sent
  <2>2. faults = 0 => m \in acked \/ \E k \in Kind : \E e \in Copies[k] : e.id = m
    BY <2>1 DEF PlaceInvariant, NoneLost
  <2> QED
    BY <2>2, NowhereWithoutCopy
<1> QED
  BY <1>2, <1>3

\* A message is never in two places, so it is not delivered twice at a time, whichever steps of
\* consumers, checkers and producers interleave on however many nodes; and as long as nothing
\* fails it is somewhere.
THEOREM MessagesAreInOnePlace == Spec => []OnePlace
BY PlaceInvariantHolds, InvariantGivesOnePlace, PTL

-----------------------------------------------------------------------------
(* Order *)

\* One message was produced before the other.
Earlier(a, b) == \E k, l \in DOMAIN produced : k < l /\ produced[k] = a /\ produced[l] = b

FreshIn(q) ==
    \A i, j \in DOMAIN q :
        i < j /\ q[i].retries = 0 => q[j].retries = 0 /\ Earlier(q[i].id, q[j].id)

LEMMA FreshByQueue == FreshInOrder <=> \A p \in Partition : FreshIn(queue[p])
BY DEF FreshInOrder, FreshIn, Earlier

LEMMA FreshByQueueNext == (\A p \in Partition : FreshIn(queue[p])') => FreshInOrder'
BY DEF FreshInOrder, FreshIn, Earlier

LEMMA FreshAfterPop ==
    ASSUME NEW q \in Seq(Entry), q # <<>>, FreshIn(q)
    PROVE  FreshIn(Tail(q))
<1>1. /\ Tail(q) \in Seq(Entry) /\ Len(q) \in Nat /\ Len(Tail(q)) = Len(q) - 1
      /\ \A i \in 1..(Len(q) - 1) : Tail(q)[i] = q[i + 1]
  <2>1. Head(q) \in Entry
    OBVIOUS
  <2> QED
    BY <2>1, QueueOps
<1> SUFFICES ASSUME NEW i \in DOMAIN Tail(q), NEW j \in DOMAIN Tail(q), i < j,
                    Tail(q)[i].retries = 0
             PROVE  Tail(q)[j].retries = 0 /\ Earlier(Tail(q)[i].id, Tail(q)[j].id)
  BY DEF FreshIn
<1>2. i \in 1..(Len(q) - 1) /\ j \in 1..(Len(q) - 1)
  BY <1>1
<1>3. i + 1 \in DOMAIN q /\ j + 1 \in DOMAIN q /\ i + 1 < j + 1
  BY <1>1, <1>2
<1>4. Tail(q)[i] = q[i + 1] /\ Tail(q)[j] = q[j + 1]
  BY <1>1, <1>2
<1> QED
  BY <1>3, <1>4 DEF FreshIn

\* A message that has been returned is no fresh one, so it may go to the front.
LEMMA FreshAfterPush ==
    ASSUME NEW q \in Seq(Entry), NEW e \in Entry, e.retries # 0, FreshIn(q)
    PROVE  FreshIn(<<e>> \o q)
<1> DEFINE s == <<e>> \o q
<1>1. /\ s \in Seq(Entry) /\ Len(q) \in Nat /\ Len(s) = Len(q) + 1 /\ s[1] = e
      /\ \A i \in 2..(Len(q) + 1) : s[i] = q[i - 1]
  BY QueueOps
<1> HIDE DEF s
<1> SUFFICES ASSUME NEW i \in DOMAIN s, NEW j \in DOMAIN s, i < j, s[i].retries = 0
             PROVE  s[j].retries = 0 /\ Earlier(s[i].id, s[j].id)
  BY DEF FreshIn, s
<1>2. i # 1
  BY <1>1
<1>3. i \in 2..(Len(q) + 1) /\ j \in 2..(Len(q) + 1)
  BY <1>1, <1>2
<1>4. i - 1 \in DOMAIN q /\ j - 1 \in DOMAIN q /\ i - 1 < j - 1
  BY <1>1, <1>3
<1>5. s[i] = q[i - 1] /\ s[j] = q[j - 1]
  BY <1>1, <1>3
<1> QED
  BY <1>4, <1>5 DEF FreshIn

LEMMA EarlierStays ==
    ASSUME NEW m, produced \in Seq(Message), m \in Message, produced' = Append(produced, m)
    PROVE  /\ \A a, b : Earlier(a, b) => Earlier(a, b)'
           /\ \A a \in Sent : Earlier(a, m)'
<1>1. /\ Len(produced) \in Nat /\ DOMAIN produced = 1..Len(produced)
      /\ DOMAIN produced' = 1..(Len(produced) + 1)
      /\ \A i \in 1..Len(produced) : produced'[i] = produced[i]
      /\ produced'[Len(produced) + 1] = m
  OBVIOUS
<1>2. \A i \in DOMAIN produced : i \in DOMAIN produced' /\ produced'[i] = produced[i]
  BY <1>1
<1>3. \A a, b : Earlier(a, b) => Earlier(a, b)'
  BY <1>2 DEF Earlier
<1>4. ASSUME NEW a \in Sent
      PROVE  Earlier(a, m)'
  <2>1. PICK k \in DOMAIN produced : produced[k] = a
    BY DEF Sent
  <2>2. k < Len(produced) + 1 /\ Len(produced) + 1 \in DOMAIN produced'
    BY <1>1
  <2> QED
    BY <1>1, <1>2, <2>1, <2>2 DEF Earlier
<1> QED
  BY <1>3, <1>4

LEMMA FreshAfterAppend ==
    ASSUME NEW q \in Seq(Entry), NEW f \in Entry, FreshIn(q), f.retries = 0,
           \A i \in DOMAIN q : q[i].id \in Sent,
           produced \in Seq(Message), produced' = Append(produced, f.id)
    PROVE  FreshIn(Append(q, f))'
<1> DEFINE s == Append(q, f)
<1>1. /\ Len(q) \in Nat /\ DOMAIN s = 1..(Len(q) + 1) /\ s[Len(q) + 1] = f
      /\ \A i \in 1..Len(q) : s[i] = q[i]
      /\ DOMAIN q = 1..Len(q)
  OBVIOUS
<1> HIDE DEF s
<1>2. f.id \in Message
  BY DEF Entry
<1> SUFFICES ASSUME NEW i \in DOMAIN s, NEW j \in DOMAIN s, i < j, s[i].retries = 0
             PROVE  s[j].retries = 0 /\ Earlier(s[i].id, s[j].id)'
  BY DEF FreshIn, s
<1>3. i \in DOMAIN q /\ s[i] = q[i]
  BY <1>1
<1>4. CASE j = Len(q) + 1
  BY <1>1, <1>2, <1>3, <1>4, EarlierStays
<1>5. CASE j # Len(q) + 1
  <2>1. j \in DOMAIN q /\ s[j] = q[j]
    BY <1>1, <1>5
  <2>2. q[j].retries = 0 /\ Earlier(q[i].id, q[j].id)
    BY <1>3, <2>1 DEF FreshIn
  <2> QED
    BY <1>2, <1>3, <2>1, <2>2, EarlierStays
<1> QED
  BY <1>4, <1>5

LEMMA FreshAfterPushBack ==
    ASSUME PlaceInvariant, FreshInOrder, NEW e \in Handed, e.retries > 0, PushBack(e),
           produced' = produced
    PROVE  FreshInOrder'
<1>1. e \in Entry /\ e.retries \in Nat /\ e.partition \in Partition
  BY ConstantsType DEF Handed, Entry
<1>2. queue \in [Partition -> Seq(Entry)] /\ \A p \in Partition : FreshIn(queue[p])
  BY FreshByQueue DEF PlaceInvariant, Typed, TypeOK
<1>3. ASSUME NEW p \in Partition
      PROVE  FreshIn(queue[p])'
  <2>1. FreshIn(queue[p])' <=> FreshIn(queue'[p])
    BY DEF FreshIn, Earlier
  <2>2. queue[p] \in Seq(Entry) /\ FreshIn(queue[p]) /\ e.retries # 0
    BY <1>1, <1>2
  <2>3. FreshIn(<<e>> \o queue[p])
    BY <1>1, <2>2, FreshAfterPush
  <2>4. queue'[p] = queue[p] \/ (queue'[p] = <<e>> \o queue[p])
    BY <1>1, <1>2 DEF PushBack
  <2> QED
    BY <2>1, <2>2, <2>3, <2>4
<1> QED
  BY <1>3, FreshByQueueNext

LEMMA FreshStep ==
    ASSUME PlaceInvariant, FreshInOrder, [Next]_vars
    PROVE  FreshInOrder'
<1>1. /\ queue \in [Partition -> Seq(Entry)] /\ \A p \in Partition : FreshIn(queue[p])
      /\ produced \in Seq(Message)
  BY FreshByQueue DEF PlaceInvariant, Typed, TypeOK
<1>2. CASE UNCHANGED <<queue, produced>>
  BY <1>2 DEF FreshInOrder
<1>3. ASSUME NEW m \in Message, NEW p \in Partition, Produce(m, p)
      PROVE  FreshInOrder'
  <2> DEFINE f == FirstCopy(m, p)
  <2>1. f \in Entry /\ f.id = m /\ f.retries = 0
    BY ConstantsType DEF Entry, FirstCopy
  <2>2. queue' = [queue EXCEPT ![p] = Append(@, f)] /\ produced' = Append(produced, m)
    BY <1>3 DEF Produce, FirstCopy
  <2> HIDE DEF f
  <2>3. ASSUME NEW q \in Partition
        PROVE  FreshIn(queue[q])'
    <3>1. CASE q = p
      <4>1. \A i \in DOMAIN queue[q] : queue[q][i] \in Waiting
        BY <1>1 DEF Waiting
      <4>2. \A i \in DOMAIN queue[q] : queue[q][i].id \in Sent
        BY <4>1, CopyFields DEF PlaceInvariant, OnlySent
      <4>3. queue[q] \in Seq(Entry) /\ FreshIn(queue[q])
        BY <1>1
      <4>4. PICK s : s = queue[q]
        OBVIOUS
      <4>5. FreshIn(s) /\ s \in Seq(Entry) /\ \A i \in DOMAIN s : s[i].id \in Sent
        BY <4>2, <4>3, <4>4
      <4>6. PICK g : g = f
        OBVIOUS
      <4>7. FreshIn(Append(s, g))'
        BY <1>1, <2>1, <2>2, <4>5, <4>6, FreshAfterAppend
      <4>8. queue'[q] = Append(s, g)
        BY <1>1, <2>2, <3>1, <4>4, <4>6
      <4> QED
        BY <4>7, <4>8 DEF FreshIn
    <3>2. CASE q # p
      <4>1. queue'[q] = queue[q]
        BY <1>1, <2>2, <3>2
      <4>2. \A a, b : Earlier(a, b) => Earlier(a, b)'
        BY <1>1, <2>2, EarlierStays
      <4> QED
        BY <1>1, <4>1, <4>2 DEF FreshIn
    <3> QED
      BY <3>1, <3>2
  <2> QED
    BY <2>3, FreshByQueueNext
<1>4. ASSUME NEW c \in Consumer, Pop(c)
      PROVE  FreshInOrder'
  <2> DEFINE p == CHOOSE q \in call[c].todo : \A r \in call[c].todo : q <= r
  <2>1. /\ p \in Partition /\ produced' = produced
        /\ queue' = queue \/ (queue[p] # <<>> /\ queue' = [queue EXCEPT ![p] = Tail(@)])
    BY <1>4, NextPartition DEF Pop, PlaceInvariant, Typed, clientVars
  <2> HIDE DEF p
  <2>2. ASSUME NEW q \in Partition
        PROVE  FreshIn(queue[q])'
    <3>1. FreshIn(queue[q])' <=> FreshIn(queue'[q])
      BY <2>1 DEF FreshIn, Earlier
    <3>2. queue'[q] = queue[q] \/ (queue[q] # <<>> /\ queue'[q] = Tail(queue[q]))
      BY <1>1, <2>1
    <3> QED
      BY <1>1, <3>1, <3>2, FreshAfterPop
  <2> QED
    BY <2>2, FreshByQueueNext
<1>5. ASSUME NEW n \in Node, NEW b \in returning[n], Requeue(n, b) \/ RequeueFails(n, b)
      PROVE  FreshInOrder'
  <2>1. b.entry \in Handed /\ b.entry.retries > 0
    BY DEF Handed, PlaceInvariant, Typed, TypeOK, Retryable
  <2>2. produced' = produced /\ (PushBack(b.entry) \/ queue' = queue)
    BY <1>5 DEF Requeue, RequeueFails, clientVars, redisVars
  <2> QED
    BY <1>2, <2>1, <2>2, FreshAfterPushBack
<1>6. ASSUME NEW c \in Consumer, ConsumeStep(c)
      PROVE  FreshInOrder'
  <2>1. Pop(c) \/ UNCHANGED <<queue, produced>>
    BY <1>6 DEF ConsumeStep, StartConsume, Take, Return, redisVars, clientVars
  <2> QED
    BY <1>2, <1>4, <2>1
<1>7. ASSUME NEW n \in Node,
             \/ \E e \in inFlight[n] : Acknowledge(n, e) \/ NegativeAcknowledge(n, e)
             \/ CheckerStep(n) \/ Crash(n)
      PROVE  UNCHANGED <<queue, produced>>
  BY <1>7 DEF Acknowledge, NegativeAcknowledge, CheckerStep, FindTimedOut, GiveBackTimedOut, Crash,
     redisVars, clientVars
<1>8. ASSUME NEW c \in Consumer, ReplyLost(c)
      PROVE  UNCHANGED <<queue, produced>>
  BY <1>8 DEF ReplyLost, redisVars, clientVars
<1>9. CASE UNCHANGED vars
  BY <1>2, <1>9 DEF vars
<1> QED
  BY <1>2, <1>3, <1>5, <1>6, <1>7, <1>8, <1>9 DEF Next

\* Consumers find fresh messages in the order they were produced in, behind those that are
\* retried, however many consumers and checkers interleave on however many nodes
\* (rpush, lpush, lpop).
THEOREM FreshStaysInOrder == Spec => []FreshInOrder
<1>1. Init => FreshInOrder
  BY DEF Init, FreshInOrder
<1>2. PlaceInvariant /\ FreshInOrder /\ [Next]_vars => FreshInOrder'
  BY FreshStep
<1> QED
  BY <1>1, <1>2, PlaceInvariantHolds, PTL DEF Spec

-----------------------------------------------------------------------------
(* Assignment *)

\* Integer division, as _assigned_partitions uses it.
LEMMA Quotient ==
    ASSUME NEW a \in Nat, NEW b \in Nat \ {0}
    PROVE  /\ a \div b \in Nat
           /\ (a \div b) * b <= a
           /\ a < (a \div b) * b + b
OBVIOUS

LEMMA NextMultiple ==
    ASSUME NEW a \in Nat, NEW b \in Nat, NEW c \in Nat, a < b
    PROVE  a * c + c <= b * c
<1>1. PICK d \in Nat : b = a + 1 + d
  <2>1. b - a - 1 \in Nat /\ b = a + 1 + (b - a - 1)
    OBVIOUS
  <2> QED
    BY <2>1
<1>2. b * c = a * c + c + d * c /\ d * c \in Nat /\ a * c \in Nat
  BY <1>1
<1> QED
  BY <1>2

\* Whatever the number of members, the range of exactly one of them has the partition.
LEMMA OneRange ==
    ASSUME NEW total \in Nat \ {0}, NEW p \in Partition
    PROVE  \E i \in 0 .. total - 1 :
              /\ p \in RangeOf(i, total)
              /\ \A j \in 0 .. total - 1 : p \in RangeOf(j, total) => j = i
<1> DEFINE per == NumPartitions \div total
           last == total - 1
<1>1. per \in Nat /\ p \in Nat /\ last \in Nat /\ total - 1 = last
  BY Quotient, ConstantsType DEF Partition
<1>2. \A i \in 0..last : p \in RangeOf(i, total) <=> p >= i * per /\ (i = last \/ p < i * per + per)
  BY DEF RangeOf
<1> HIDE DEF per, last
<1>3. \A i, j \in 0..last : i < j => i * per + per <= j * per
  BY <1>1, NextMultiple
<1>4. \A i \in 0..last : i * per \in Nat
  BY <1>1
<1>5. CASE p >= last * per
  <2>1. \A j \in 0..last : p \in RangeOf(j, total) => j = last
    <3> SUFFICES ASSUME NEW j \in 0..last, p \in RangeOf(j, total), j # last
                 PROVE  FALSE
      OBVIOUS
    <3>1. p < j * per + per /\ j < last /\ last \in 0..last
      BY <1>1, <1>2
    <3>2. j * per + per <= last * per
      BY <1>3, <3>1
    <3> QED
      BY <1>1, <1>4, <1>5, <3>1, <3>2
  <2>2. last \in 0..last /\ p \in RangeOf(last, total)
    BY <1>1, <1>2, <1>5
  <2> QED
    BY <1>1, <2>1, <2>2
<1>6. CASE ~(p >= last * per)
  <2> DEFINE k == p \div per
  <2>1. per # 0
    BY <1>1, <1>6
  <2>2. k \in Nat /\ k * per <= p /\ p < k * per + per
    BY <1>1, <2>1, Quotient
  <2> HIDE DEF k
  <2>3. k < last
    <3> SUFFICES ASSUME last <= k
                 PROVE  FALSE
      BY <1>1, <2>2
    <3>1. last * per <= k * per
      <4>1. CASE last = k
        BY <1>1, <2>2, <4>1
      <4>2. CASE last < k
        <5>1. last * per + per <= k * per
          BY <1>1, <2>2, <4>2, NextMultiple
        <5>2. last * per \in Nat /\ k * per \in Nat
          BY <1>1, <2>2
        <5> QED
          BY <1>1, <5>1, <5>2
      <4> QED
        BY <1>1, <2>2, <4>1, <4>2
    <3>2. last * per \in Nat /\ k * per \in Nat
      BY <1>1, <2>2
    <3> QED
      BY <1>1, <1>6, <2>2, <3>1, <3>2
  <2>4. k \in 0..last
    BY <1>1, <2>2, <2>3
  <2>5. p \in RangeOf(k, total)
    BY <1>1, <1>2, <1>4, <2>2, <2>4
  <2>6. ASSUME NEW j \in 0..last, p \in RangeOf(j, total)
        PROVE  j = k
    <3>1. p >= j * per /\ (j = last \/ p < j * per + per)
      BY <1>2, <2>6
    <3>2. j * per \in Nat /\ k * per \in Nat
      BY <1>4, <2>4
    <3>3. ~(k < j)
      <4> SUFFICES ASSUME k < j PROVE FALSE
        OBVIOUS
      <4>1. k * per + per <= j * per
        BY <1>3, <2>4
      <4> QED
        BY <1>1, <2>2, <3>1, <3>2, <4>1
    <3>4. ~(j < k)
      <4> SUFFICES ASSUME j < k PROVE FALSE
        OBVIOUS
      <4>1. j * per + per <= k * per /\ j # last
        BY <1>1, <1>3, <2>3, <2>4
      <4> QED
        BY <1>1, <2>2, <3>1, <3>2, <4>1
    <3> QED
      BY <1>1, <2>4, <3>3, <3>4
  <2> QED
    BY <1>1, <2>4, <2>5, <2>6
<1> QED
  BY <1>5, <1>6

Before(ms, c) == {d \in ms : d < c}

LEMMA MembersFinite ==
    ASSUME NEW ms \in SUBSET Consumer
    PROVE  /\ IsFiniteSet(ms) /\ Cardinality(ms) \in Nat
           /\ ms # {} => Cardinality(ms) # 0
<1>1. IsFiniteSet(Consumer)
  BY ConstantsType, FS_Interval DEF Consumer
<1>2. IsFiniteSet(ms)
  BY <1>1, FS_Subset
<1> QED
  BY <1>2, FS_CardinalityType, FS_EmptySet

\* The members' indexes are 0 .. total - 1, each once.
LEMMA IndexesAreRanks ==
    ASSUME NEW ms \in SUBSET Consumer, ms # {}
    PROVE  /\ \A c \in ms : IndexOf(ms, c) \in 0 .. Cardinality(ms) - 1
           /\ \A c, d \in ms : IndexOf(ms, c) = IndexOf(ms, d) => c = d
           /\ \A i \in 0 .. Cardinality(ms) - 1 : \E c \in ms : IndexOf(ms, c) = i
<1> DEFINE total == Cardinality(ms)
           f == [c \in ms |-> IndexOf(ms, c)]
<1>1. IsFiniteSet(ms) /\ total \in Nat \ {0} /\ ms \subseteq Nat
  BY MembersFinite, ConstantsType
<1>2. \A c \in ms : /\ IsFiniteSet(Before(ms, c)) /\ IndexOf(ms, c) = Cardinality(Before(ms, c))
                    /\ IndexOf(ms, c) \in Nat
  BY <1>1, FS_Subset, FS_CardinalityType DEF Before, IndexOf
<1>3. ASSUME NEW c \in ms
      PROVE  IndexOf(ms, c) < total
  <2>1. Before(ms, c) \in SUBSET ms /\ c \notin Before(ms, c)
    BY <1>1 DEF Before
  <2>2. Cardinality(Before(ms, c)) <= total /\ Cardinality(Before(ms, c)) # total
    BY <1>1, <2>1, FS_Subset
  <2> QED
    BY <1>1, <1>2, <2>2
<1>4. ASSUME NEW c \in ms, NEW d \in ms, c < d
      PROVE  IndexOf(ms, c) < IndexOf(ms, d)
  <2>0. \A x \in ms : x < c => x < d
    BY <1>1, <1>4
  <2>1. Before(ms, c) \in SUBSET Before(ms, d) /\ c \notin Before(ms, c) /\ c \in Before(ms, d)
    <3>1. c \in Nat /\ d \in Nat /\ ~(c < c)
      BY <1>1
    <3>2. \A x \in Before(ms, c) : x \in Before(ms, d)
      BY <2>0 DEF Before
    <3> QED
      BY <1>4, <3>1, <3>2 DEF Before
  <2>2. /\ Cardinality(Before(ms, c)) <= Cardinality(Before(ms, d))
        /\ Cardinality(Before(ms, c)) # Cardinality(Before(ms, d))
    BY <1>2, <2>1, FS_Subset
  <2> QED
    BY <1>2, <2>2
<1>5. \A c \in ms : IndexOf(ms, c) \in 0 .. total - 1
  BY <1>1, <1>2, <1>3
<1>6. ASSUME NEW c \in ms, NEW d \in ms, IndexOf(ms, c) = IndexOf(ms, d)
      PROVE  c = d
  <2>1. c \in Nat /\ d \in Nat /\ IndexOf(ms, c) \in Nat
    BY <1>1, <1>2
  <2>2. ~(c < d) /\ ~(d < c)
    BY <1>4, <1>6, <2>1
  <2> QED
    BY <2>1, <2>2
<1>7. \A i \in 0 .. total - 1 : \E c \in ms : IndexOf(ms, c) = i
  <2>1. f \in Injection(ms, 0 .. total - 1)
    BY <1>5, <1>6 DEF Injection, IsInjective
  <2>2. IsFiniteSet(0 .. total - 1) /\ Cardinality(0 .. total - 1) = total
    BY <1>1, FS_Interval
  <2>3. f \in Surjection(ms, 0 .. total - 1)
    BY <2>1, <2>2, FS_Injection
  <2> QED
    BY <2>3 DEF Surjection
<1> QED
  BY <1>5, <1>6, <1>7

LEMMA OneAssigned ==
    ASSUME NEW ms \in SUBSET Consumer, ms # {}, NEW p \in Partition
    PROVE  Cardinality({c \in ms : p \in Assigned(ms, c)}) = 1
<1> DEFINE total == Cardinality(ms)
<1>1. total \in Nat \ {0}
  BY MembersFinite
<1>2. PICK i \in 0 .. total - 1 : /\ p \in RangeOf(i, total)
                                  /\ \A j \in 0 .. total - 1 : p \in RangeOf(j, total) => j = i
  BY <1>1, OneRange
<1>3. PICK c \in ms : IndexOf(ms, c) = i
  BY IndexesAreRanks
<1>4. \A d \in ms : p \in Assigned(ms, d) <=> d = c
  BY <1>2, <1>3, IndexesAreRanks DEF Assigned
<1>5. {d \in ms : p \in Assigned(ms, d)} = {c}
  BY <1>3, <1>4
<1> QED
  BY <1>5, FS_Singleton

\* Whoever joined a group, each partition is polled by one of its members and no other, also
\* when there are more members than partitions or the partitions do not divide evenly
\* (_assigned_partitions).
THEOREM PartitionsAreAssigned == Spec => []EachPartitionAssigned
<1>1. TypeOK => EachPartitionAssigned
  BY OneAssigned DEF TypeOK, EachPartitionAssigned
<1> QED
  BY <1>1, QueueTypeCorrect, PTL

-----------------------------------------------------------------------------
(* The queue implements Delivery *)

\* What Delivery sees of a copy.
Stage(k, e) ==
    [at    |-> IF k \in {"waiting", "dead"} THEN k ELSE "out",
     tries |-> IF k = "handed" THEN e.retries - 1 ELSE e.retries]

DoneTask == [at |-> "done", tries |-> 0]

\* And of a message that has none and was never acknowledged.
AbsentTask(m) == [at |-> IF m \in Sent THEN "lost" ELSE "unsent", tries |-> 0]

TaskKnown(m) ==
    /\ \A k \in Kind : \A e \in Copies[k] : e.id = m => TaskOf(m) = Stage(k, e)
    /\ m \in acked => TaskOf(m) = DoneTask
    /\ m \notin acked /\ (\A k \in Kind : \A e \in Copies[k] : e.id # m)
       => TaskOf(m) = AbsentTask(m)

LEMMA PlaceShowsStage ==
    ASSUME NEW k \in Kind, NEW e, NEW x, PlaceOf(k, e, x)
    PROVE  [at |-> x.at, tries |-> x.tries] = Stage(k, e)
<1>1. \A at, tries, where : /\ Place(at, tries, where).at = at
                            /\ Place(at, tries, where).tries = tries
  BY DEF Place
<1>2. CASE k = "waiting"
  <2>1. \E w : x = Place("waiting", e.retries, w)
    BY <1>2 DEF PlaceOf
  <2>2. Stage(k, e) = [at |-> "waiting", tries |-> e.retries]
    BY <1>2 DEF Stage
  <2> QED
    BY <1>1, <2>1, <2>2
<1>3. CASE k = "replied"
  <2>1. \E w : x = Place("out", e.retries, w)
    BY <1>3 DEF PlaceOf
  <2>2. Stage(k, e) = [at |-> "out", tries |-> e.retries]
    BY <1>3 DEF Stage
  <2> QED
    BY <1>1, <2>1, <2>2
<1>4. CASE k = "tracked"
  <2>1. \E w : x = Place("out", e.retries, w)
    BY <1>4 DEF PlaceOf
  <2>2. Stage(k, e) = [at |-> "out", tries |-> e.retries]
    BY <1>4 DEF Stage
  <2> QED
    BY <1>1, <2>1, <2>2
<1>5. CASE k = "handed"
  <2>1. \E w : x = Place("out", e.retries - 1, w)
    BY <1>5 DEF PlaceOf
  <2>2. Stage(k, e) = [at |-> "out", tries |-> e.retries - 1]
    BY <1>5 DEF Stage
  <2> QED
    BY <1>1, <2>1, <2>2
<1>6. CASE k = "dead"
  <2>1. \E w : x = Place("dead", e.retries, w)
    BY <1>6 DEF PlaceOf
  <2>2. Stage(k, e) = [at |-> "dead", tries |-> e.retries]
    BY <1>6 DEF Stage
  <2> QED
    BY <1>1, <2>1, <2>2
<1> QED
  BY <1>2, <1>3, <1>4, <1>5, <1>6 DEF Kind

\* A message with a place is described by that place, whichever is chosen.
LEMMA TaskOfPlace ==
    ASSUME PlaceInvariant, NEW m, NEW x \in Places(m)
    PROVE  TaskOf(m) = [at |-> x.at, tries |-> x.tries]
<1>1. (CHOOSE q \in Places(m) : TRUE) = x
  BY PlacesAreOne
<1>2. Places(m) # {}
  OBVIOUS
<1> QED
  BY <1>1, <1>2 DEF TaskOf

LEMMA TaskByCopies == PlaceInvariant => \A m \in Message : TaskKnown(m)
<1> SUFFICES ASSUME PlaceInvariant, NEW m \in Message
             PROVE  TaskKnown(m)
  OBVIOUS
<1>1. ASSUME NEW k \in Kind, NEW e \in Copies[k], e.id = m
      PROVE  TaskOf(m) = Stage(k, e)
  <2>1. PICK x \in Places(m) : PlaceOf(k, e, x)
    BY <1>1, CopyHasPlace
  <2> QED
    BY <2>1, TaskOfPlace, PlaceShowsStage
<1>2. ASSUME m \in acked
      PROVE  TaskOf(m) = DoneTask
  <2>1. DonePlace(m) \in Places(m)
    BY <1>2, AckedHasPlace
  <2>2. DonePlace(m).at = "done" /\ DonePlace(m).tries = 0
    BY DEF DonePlace, Place
  <2> QED
    BY <2>1, <2>2, TaskOfPlace DEF DoneTask
<1>3. ASSUME m \notin acked, \A k \in Kind : \A e \in Copies[k] : e.id # m
      PROVE  TaskOf(m) = AbsentTask(m)
  <2>1. Places(m) = {}
    BY <1>3, NowhereWithoutCopy
  <2>2. (\E i \in DOMAIN produced : produced[i] = m) <=> m \in Sent
    BY DEF Sent
  <2> QED
    BY <2>1, <2>2 DEF TaskOf, AbsentTask
<1> QED
  BY <1>1, <1>2, <1>3 DEF TaskKnown

LEMMA CopiesTypeNext == (Typed => Copies \in [Kind -> SUBSET Entry])'
BY CopiesType, PTL

LEMMA TaskByCopiesNext == (PlaceInvariant => \A m \in Message : TaskKnown(m))'
BY TaskByCopies, PTL

\* The steps Delivery allows.
LEMMA DeliverySteps ==
    ASSUME NEW m, NEW tries
    PROVE  /\ TaskOf(m) = [at |-> "unsent", tries |-> 0]
                /\ TaskOf(m)' = [at |-> "waiting", tries |-> 0]
              => DeliveryOf(m)!Next
           /\ TaskOf(m) = [at |-> "waiting", tries |-> tries]
                /\ TaskOf(m)' = [at |-> "out", tries |-> tries]
              => DeliveryOf(m)!Next
           /\ TaskOf(m) = [at |-> "out", tries |-> tries] /\ TaskOf(m)' = DoneTask
              => DeliveryOf(m)!Next
           /\ TaskOf(m) = [at |-> "out", tries |-> tries]
                /\ TaskOf(m)' = [at |-> "lost", tries |-> 0]
              => DeliveryOf(m)!Next
           /\ TaskOf(m) = [at |-> "out", tries |-> tries] /\ tries + 1 < MaxRetries
                /\ TaskOf(m)' = [at |-> "waiting", tries |-> tries + 1]
              => DeliveryOf(m)!Next
           /\ TaskOf(m) = [at |-> "out", tries |-> tries] /\ ~(tries + 1 < MaxRetries)
                /\ TaskOf(m)' = [at |-> "dead", tries |-> tries + 1]
              => DeliveryOf(m)!Next
BY DEF DeliveryOf!Next, DeliveryOf!Send, DeliveryOf!Deliver, DeliveryOf!Finish, DeliveryOf!Lose,
   DeliveryOf!Return, DeliveryOf!Task, DeliveryOf!Unsent, DeliveryOf!Done, DeliveryOf!Lost, DoneTask


\* Nothing about the message changed.
SameCopies(m) ==
    /\ \A k \in Kind : \A e \in Entry : e.id = m => (e \in Copies'[k] <=> e \in Copies[k])
    /\ m \in acked' <=> m \in acked
    /\ m \in Sent' <=> m \in Sent

LEMMA TaskStays ==
    ASSUME PlaceInvariant, PlaceInvariant', NEW m \in Message, SameCopies(m)
    PROVE  UNCHANGED TaskOf(m)
<1>1. TaskKnown(m) /\ TaskKnown(m)'
  BY TaskByCopies, TaskByCopiesNext
<1>2. \A k \in Kind : Copies[k] \subseteq Entry /\ Copies'[k] \subseteq Entry
  BY CopiesType, CopiesTypeNext DEF PlaceInvariant
<1>3. CASE m \in acked
  BY <1>1, <1>3 DEF TaskKnown, SameCopies, DoneTask
<1>4. CASE m \notin acked /\ \E k \in Kind : \E e \in Copies[k] : e.id = m
  <2>1. PICK k \in Kind : \E e \in Copies[k] : e.id = m
    BY <1>4
  <2>2. PICK e \in Copies[k] : e.id = m
    BY <2>1
  <2>3. e \in Copies'[k]
    BY <1>2, <2>2 DEF SameCopies
  <2>4. TaskOf(m) = Stage(k, e) /\ TaskOf(m)' = Stage(k, e)
    BY <1>1, <2>2, <2>3 DEF TaskKnown, Stage
  <2> QED
    BY <2>4
<1>5. CASE m \notin acked /\ ~\E k \in Kind : \E e \in Copies[k] : e.id = m
  <2>1. \A k \in Kind : \A e \in Copies'[k] : e.id # m
    BY <1>2, <1>5 DEF SameCopies
  <2>2. TaskOf(m) = AbsentTask(m) /\ TaskOf(m)' = AbsentTask(m)'
    BY <1>1, <1>5, <2>1 DEF TaskKnown, SameCopies
  <2>3. AbsentTask(m)' = AbsentTask(m)
    BY DEF AbsentTask, SameCopies
  <2> QED
    BY <2>2, <2>3
<1> QED
  BY <1>3, <1>4, <1>5

\* A copy that moves changes the task of its message, and no other.
LEMMA TaskMoves ==
    ASSUME PlaceInvariant, PlaceInvariant', NEW j \in Kind, NEW k \in Kind, j # k,
           NEW e \in Copies[j], NEW f, f.id = e.id, Moves(j, k, e, f),
           acked' = acked, Sent' = Sent, NEW m \in Message
    PROVE  \/ UNCHANGED TaskOf(m)
           \/ m = e.id /\ TaskOf(m) = Stage(j, e) /\ TaskOf(m)' = Stage(k, f)
<1>1. Copies \in [Kind -> SUBSET Entry]
  BY CopiesType DEF PlaceInvariant
<1>2. /\ \A x : x \in Copies'[k] <=> x \in Copies[k] \/ x = f
      /\ \A x : x \in Copies'[j] <=> x \in Copies[j] /\ x # e
      /\ \A l \in Kind : l # j /\ l # k => Copies'[l] = Copies[l]
  BY <1>1 DEF Moves
<1>3. CASE m = e.id
  <2>1. TaskOf(m) = Stage(j, e)
    BY <1>3, TaskByCopies DEF TaskKnown
  <2>2. f \in Copies'[k]
    BY <1>2
  <2>3. TaskKnown(m)'
    BY TaskByCopiesNext
  <2>4. TaskOf(m)' = Stage(k, f)
    BY <1>3, <2>2, <2>3 DEF TaskKnown, Stage
  <2> QED
    BY <1>3, <2>1, <2>4
<1>4. CASE m # e.id
  <2>1. \A l \in Kind : \A x \in Entry : x.id = m => (x \in Copies'[l] <=> x \in Copies[l])
    BY <1>2, <1>4
  <2> QED
    BY <2>1, TaskStays DEF SameCopies
<1> QED
  BY <1>3, <1>4

\* Delivered and tracked, or given back: for Delivery the message goes out, or nothing happens.
LEMMA DeliversIsDeliver ==
    ASSUME PlaceInvariant, PlaceInvariant', Delivers, acked' = acked, Sent' = Sent,
           NEW m \in Message
    PROVE  UNCHANGED TaskOf(m) \/ DeliveryOf(m)!Next
<1>1. CASE \E e \in Waiting : Moves("waiting", "replied", e, e)
  <2>1. PICK e \in Waiting : Moves("waiting", "replied", e, e)
    BY <1>1
  <2>2. \/ UNCHANGED TaskOf(m)
        \/ TaskOf(m) = Stage("waiting", e) /\ TaskOf(m)' = Stage("replied", e)
    BY <2>1, CopyFields, TaskMoves
  <2>3. /\ Stage("waiting", e) = [at |-> "waiting", tries |-> e.retries]
        /\ Stage("replied", e) = [at |-> "out", tries |-> e.retries]
    BY DEF Stage
  <2> QED
    BY <2>2, <2>3, DeliverySteps
<1>2. CASE \E e \in Replied : Moves("replied", "tracked", e, e)
  <2>1. PICK e \in Replied : Moves("replied", "tracked", e, e)
    BY <1>2
  <2>2. \/ UNCHANGED TaskOf(m)
        \/ TaskOf(m) = Stage("replied", e) /\ TaskOf(m)' = Stage("tracked", e)
    BY <2>1, CopyFields, TaskMoves
  <2>3. Stage("replied", e) = Stage("tracked", e)
    BY DEF Stage
  <2> QED
    BY <2>2, <2>3
<1> QED
  BY <1>1, <1>2 DEF Delivers

LEMMA ComesBackUnseen ==
    ASSUME PlaceInvariant, PlaceInvariant', ComesBack, acked' = acked, Sent' = Sent,
           NEW m \in Message
    PROVE  UNCHANGED TaskOf(m)
<1>1. PICK e \in Tracked : Moves("tracked", "handed", e, Returns(e))
  BY DEF ComesBack
<1>2. e \in Entry /\ e.retries \in Nat
  BY ConstantsType DEF Tracked, Entry
<1>3. Returns(e).id = e.id /\ Returns(e).retries = e.retries + 1
  BY <1>2 DEF Returns, Entry
<1>4. \/ UNCHANGED TaskOf(m)
      \/ TaskOf(m) = Stage("tracked", e) /\ TaskOf(m)' = Stage("handed", Returns(e))
  BY <1>1, <1>3, CopyFields, TaskMoves
<1>5. Stage("handed", Returns(e)) = Stage("tracked", e)
  BY <1>2, <1>3 DEF Stage
<1> QED
  BY <1>4, <1>5

\* The return counts when the message is back in Redis: it waits again or is dead.
LEMMA PushesIsReturn ==
    ASSUME PlaceInvariant, PlaceInvariant', Pushes, acked' = acked, Sent' = Sent,
           NEW m \in Message
    PROVE  UNCHANGED TaskOf(m) \/ DeliveryOf(m)!Next
<1>1. PICK e \in Handed : \/ e.retries < MaxRetries /\ Moves("handed", "waiting", e, e)
                          \/ e.retries >= MaxRetries /\ Moves("handed", "dead", e, e)
  BY DEF Pushes
<1>2. /\ e.retries \in Nat /\ e.retries - 1 + 1 = e.retries
      /\ MaxRetries \in Nat
  BY ConstantsType DEF Handed, Entry
<1>3. Stage("handed", e) = [at |-> "out", tries |-> e.retries - 1]
  BY DEF Stage
<1>4. CASE e.retries < MaxRetries /\ Moves("handed", "waiting", e, e)
  <2>1. \/ UNCHANGED TaskOf(m)
        \/ TaskOf(m) = Stage("handed", e) /\ TaskOf(m)' = Stage("waiting", e)
    BY <1>4, CopyFields, TaskMoves
  <2>2. Stage("waiting", e) = [at |-> "waiting", tries |-> e.retries - 1 + 1]
    BY <1>2 DEF Stage
  <2> QED
    BY <1>2, <1>3, <1>4, <2>1, <2>2, DeliverySteps
<1>5. CASE e.retries >= MaxRetries /\ Moves("handed", "dead", e, e)
  <2>1. \/ UNCHANGED TaskOf(m)
        \/ TaskOf(m) = Stage("handed", e) /\ TaskOf(m)' = Stage("dead", e)
    BY <1>5, CopyFields, TaskMoves
  <2>2. Stage("dead", e) = [at |-> "dead", tries |-> e.retries - 1 + 1]
    BY <1>2 DEF Stage
  <2>3. ~(e.retries - 1 + 1 < MaxRetries)
    BY <1>2, <1>5
  <2> QED
    BY <1>3, <2>1, <2>2, <2>3, DeliverySteps
<1> QED
  BY <1>1, <1>4, <1>5

LEMMA SendsIsSend ==
    ASSUME PlaceInvariant, PlaceInvariant', Sends, acked' = acked, NEW m \in Message
    PROVE  UNCHANGED TaskOf(m) \/ DeliveryOf(m)!Next
<1>1. PICK k \in Message : \E p \in Partition :
          k \notin Sent /\ Sent' = Sent \cup {k} /\ Adds("waiting", FirstCopy(k, p))
  BY DEF Sends
<1>2. PICK p \in Partition :
          k \notin Sent /\ Sent' = Sent \cup {k} /\ Adds("waiting", FirstCopy(k, p))
  BY <1>1
<1> DEFINE f == FirstCopy(k, p)
<1>3. f.id = k /\ f.retries = 0
  BY DEF FirstCopy
<1>4. Copies \in [Kind -> SUBSET Entry] /\ "waiting" \in Kind
  BY CopiesType DEF PlaceInvariant, Kind
<1>5. Copies' = [Copies EXCEPT !["waiting"] = @ \cup {f}]
  BY <1>2 DEF Adds
<1> HIDE DEF f
<1>6. /\ f \in Copies'["waiting"]
      /\ \A l \in Kind : \A x : x \in Copies'[l] <=> x \in Copies[l] \/ (l = "waiting" /\ x = f)
  BY <1>4, <1>5
<1>7. CASE m = k
  <2>1. m \notin Sent /\ m \notin acked
    BY <1>2, <1>7 DEF PlaceInvariant, OnlySent
  <2>2. \A l \in Kind : \A x \in Copies[l] : x.id # m
    BY <2>1 DEF PlaceInvariant, OnlySent
  <2>3. TaskOf(m) = AbsentTask(m)
    BY <2>1, <2>2, TaskByCopies DEF TaskKnown
  <2>4. TaskOf(m) = [at |-> "unsent", tries |-> 0]
    BY <2>1, <2>3 DEF AbsentTask
  <2>5. TaskKnown(m)'
    BY TaskByCopiesNext
  <2>6. TaskOf(m)' = Stage("waiting", f)
    BY <1>3, <1>4, <1>6, <1>7, <2>5 DEF TaskKnown, Stage
  <2>7. Stage("waiting", f) = [at |-> "waiting", tries |-> 0]
    BY <1>3 DEF Stage
  <2> QED
    BY <2>4, <2>6, <2>7, DeliverySteps
<1>8. CASE m # k
  <2>1. \A l \in Kind : \A x \in Entry : x.id = m => (x \in Copies'[l] <=> x \in Copies[l])
    BY <1>3, <1>6, <1>8
  <2>2. m \in Sent' <=> m \in Sent
    BY <1>2, <1>8
  <2> QED
    BY <2>1, <2>2, TaskStays DEF SameCopies
<1> QED
  BY <1>7, <1>8

LEMMA FinishesIsFinish ==
    ASSUME PlaceInvariant, PlaceInvariant', Finishes, Sent' = Sent, NEW m \in Message
    PROVE  UNCHANGED TaskOf(m) \/ DeliveryOf(m)!Next
<1>1. PICK e \in Tracked : Removes("tracked", e) /\ acked' = acked \cup {e.id}
  BY DEF Finishes
<1>2. Copies \in [Kind -> SUBSET Entry] /\ "tracked" \in Kind /\ e \in Copies["tracked"]
  BY CopiesType, CopyFields DEF PlaceInvariant, Kind
<1>3. \A l \in Kind : \A x : x \in Copies'[l] <=> x \in Copies[l] /\ ~(l = "tracked" /\ x = e)
  BY <1>1, <1>2 DEF Removes
<1>4. CASE m = e.id
  <2>1. TaskOf(m) = Stage("tracked", e)
    BY <1>2, <1>4, TaskByCopies DEF TaskKnown
  <2>2. Stage("tracked", e) = [at |-> "out", tries |-> e.retries]
    BY DEF Stage
  <2>3. TaskKnown(m)' /\ m \in acked'
    BY <1>1, <1>4, TaskByCopiesNext
  <2>4. TaskOf(m)' = DoneTask
    BY <2>3 DEF TaskKnown, DoneTask
  <2> QED
    BY <2>1, <2>2, <2>4, DeliverySteps
<1>5. CASE m # e.id
  <2>1. \A l \in Kind : \A x \in Entry : x.id = m => (x \in Copies'[l] <=> x \in Copies[l])
    BY <1>3, <1>5
  <2>2. m \in acked' <=> m \in acked
    BY <1>1, <1>5
  <2> QED
    BY <2>1, <2>2, TaskStays DEF SameCopies
<1> QED
  BY <1>4, <1>5

\* A fault loses only messages that are out.
LEMMA LosesIsLose ==
    ASSUME PlaceInvariant, PlaceInvariant', Loses, acked' = acked, Sent' = Sent, NEW m \in Message
    PROVE  UNCHANGED TaskOf(m) \/ DeliveryOf(m)!Next
<1>1. \A k \in Kind : /\ Copies'[k] \subseteq Copies[k]
                      /\ k \in {"waiting", "dead"} => Copies'[k] = Copies[k]
  BY DEF Loses
<1>2. CASE \A k \in Kind : \A e \in Copies[k] : e.id # m
  <2>1. \A k \in Kind : \A x \in Entry : x.id = m => (x \in Copies'[k] <=> x \in Copies[k])
    BY <1>1, <1>2
  <2> QED
    BY <2>1, TaskStays DEF SameCopies
<1>3. CASE ~\A k \in Kind : \A e \in Copies[k] : e.id # m
  <2>1. PICK k \in Kind : \E e \in Copies[k] : e.id = m
    BY <1>3
  <2>2. PICK e \in Copies[k] : e.id = m
    BY <2>1
  <2>3. TaskOf(m) = Stage(k, e)
    BY <2>2, TaskByCopies DEF TaskKnown
  <2>4. TaskKnown(m)'
    BY TaskByCopiesNext
  <2>5. CASE e \in Copies'[k]
    <3>1. TaskOf(m)' = Stage(k, e)
      BY <2>2, <2>4, <2>5 DEF TaskKnown, Stage
    <3> QED
      BY <2>3, <3>1
  <2>6. CASE e \notin Copies'[k]
    <3>1. k \notin {"waiting", "dead"}
      BY <1>1, <2>2, <2>6
    <3>2. PICK tries : TaskOf(m) = [at |-> "out", tries |-> tries]
      BY <2>3, <3>1 DEF Stage
    <3>3. \A l \in Kind : \A f \in Copies'[l] : f.id # m
      <4> SUFFICES ASSUME NEW l \in Kind, NEW f \in Copies'[l], f.id = m
                   PROVE  FALSE
        OBVIOUS
      <4>1. f \in Copies[l]
        BY <1>1
      <4>2. l = k /\ f = e
        BY <2>2, <4>1 DEF PlaceInvariant, OneCopy
      <4> QED
        BY <2>6, <4>2
    <3>4. m \notin acked /\ m \in Sent
      BY <2>2 DEF PlaceInvariant, OneCopy, OnlySent
    <3>5. TaskOf(m)' = [at |-> "lost", tries |-> 0]
      <4>1. AbsentTask(m)' = [at |-> "lost", tries |-> 0]
        BY <3>4 DEF AbsentTask
      <4> QED
        BY <2>4, <3>3, <3>4, <4>1 DEF TaskKnown
    <3> QED
      BY <3>2, <3>5, DeliverySteps
  <2> QED
    BY <2>5, <2>6
<1> QED
  BY <1>2, <1>3

LEMMA StepIsDelivery ==
    ASSUME PlaceInvariant, PlaceInvariant', [Next]_vars
    PROVE  \A m \in Message : UNCHANGED TaskOf(m) \/ DeliveryOf(m)!Next
<1> SUFFICES ASSUME NEW m \in Message
             PROVE  UNCHANGED TaskOf(m) \/ DeliveryOf(m)!Next
  OBVIOUS
<1>1. CopiesStep
  BY StepOfCopies
<1>2. CASE Copies' = Copies /\ acked' = acked /\ Sent' = Sent
  BY <1>2, TaskStays DEF SameCopies
<1>3. CASE Sends /\ acked' = acked
  BY <1>3, SendsIsSend
<1>4. CASE Finishes /\ Sent' = Sent
  BY <1>4, FinishesIsFinish
<1>5. CASE (Delivers \/ ComesBack \/ Pushes) /\ acked' = acked /\ Sent' = Sent
  BY <1>5, DeliversIsDeliver, ComesBackUnseen, PushesIsReturn
<1>6. CASE Loses /\ acked' = acked /\ Sent' = Sent
  BY <1>6, LosesIsLose
<1> QED
  BY <1>1, <1>2, <1>3, <1>4, <1>5, <1>6 DEF CopiesStep

LEMMA InitIsUnsent ==
    ASSUME Init, NEW m \in Message
    PROVE  DeliveryOf(m)!Init
<1>1. PlaceInvariant
  BY PlaceInit
<1>2. m \notin acked /\ m \notin Sent
  BY DEF Init, Sent
<1>3. \A k \in Kind : \A e \in Copies[k] : e.id # m
  BY <1>1, <1>2 DEF PlaceInvariant, OnlySent
<1>4. TaskOf(m) = AbsentTask(m)
  BY <1>1, <1>2, <1>3, TaskByCopies DEF TaskKnown
<1> QED
  BY <1>2, <1>4 DEF AbsentTask, DeliveryOf!Init, DeliveryOf!Unsent, DeliveryOf!Task

\* Every message goes the way Delivery promises, whatever steps of producers, consumers,
\* checkers and faults interleave: it is out with one consumer at a time, it waits again after
\* each return until max_retries of them make it dead, and it is lost only while it is out
\* (produce, consume, acknowledge, negative_acknowledge, _ack_timeout_checker).
THEOREM QueueDelivers == Spec => DeliveredAsPromised
<1>1. Init => \A m \in Message : DeliveryOf(m)!Init
  BY InitIsUnsent
<1>2. PlaceInvariant /\ PlaceInvariant' /\ [Next]_vars
          => [\A m \in Message : UNCHANGED TaskOf(m) \/ DeliveryOf(m)!Next]_vars
  BY StepIsDelivery
<1> QED
  BY <1>1, <1>2, PlaceInvariantHolds, PTL DEF Spec, DeliveredAsPromised

====
