---- MODULE RaftLogProofs ----
(***************************************************************************)
(* What the logs promise: terms in order in any cluster, and one common    *)
(* log in a cluster whose quorum is every node and whose processes do not  *)
(* restart (nothing of Raft is on disk, so a restart forgets the log).     *)
(***************************************************************************)
EXTENDS ElectionProofs

-----------------------------------------------------------------------------
(* Logs as sequences *)

InOrder(l, t) ==
    /\ \A i, j \in DOMAIN l : i <= j => l[i].term <= l[j].term
    /\ \A i \in DOMAIN l : l[i].term <= t

LEMMA EntryTerm ==
    ASSUME NEW l \in Seq(Entry), NEW i \in DOMAIN l
    PROVE  l[i] \in Entry /\ l[i].term \in Nat
<1>1. l[i] \in Entry
  OBVIOUS
<1> QED
  BY <1>1 DEF Entry

LEMMA InOrderLater ==
    ASSUME NEW l \in Seq(Entry), NEW t \in Nat, NEW u \in Nat, InOrder(l, t), t <= u
    PROVE  InOrder(l, u)
<1>1. \A i \in DOMAIN l : l[i].term \in Nat /\ l[i].term <= t
  BY EntryTerm DEF InOrder
<1> QED
  BY <1>1 DEF InOrder

LEMMA InOrderAppend ==
    ASSUME NEW l \in Seq(Entry), NEW t \in Nat, NEW e \in Entry, InOrder(l, t), t <= e.term
    PROVE  InOrder(Append(l, e), e.term)
<1> DEFINE k == Append(l, e)
<1>1. /\ DOMAIN k = 1..Len(l) + 1
      /\ \A i \in 1..Len(l) : k[i] = l[i]
      /\ k[Len(l) + 1] = e
  OBVIOUS
<1>2. e.term \in Nat
  BY DEF Entry
<1>3. \A i \in 1..Len(l) : k[i].term \in Nat /\ k[i].term <= e.term
  <2>1. \A i \in 1..Len(l) : l[i].term \in Nat /\ l[i].term <= t
    BY EntryTerm DEF InOrder
  <2> HIDE DEF k
  <2> QED
    BY <1>1, <1>2, <2>1
<1>4. \A i, j \in 1..Len(l) : i <= j => k[i].term <= k[j].term
  <2> HIDE DEF k
  <2> QED
    BY <1>1 DEF InOrder
<1> HIDE DEF k
<1>5. InOrder(k, e.term)
  BY SMTT(60), <1>1, <1>2, <1>3, <1>4 DEF InOrder
<1> QED
  BY <1>5 DEF k

LEMMA InOrderPrefix ==
    ASSUME NEW l \in Seq(Entry), NEW t \in Nat, InOrder(l, t), NEW k \in Int, k <= Len(l)
    PROVE  InOrder(SubSeq(l, 1, k), t)
<1>1. /\ DOMAIN SubSeq(l, 1, k) \subseteq DOMAIN l
      /\ \A i \in DOMAIN SubSeq(l, 1, k) : SubSeq(l, 1, k)[i] = l[i]
  OBVIOUS
<1> QED
  BY <1>1 DEF InOrder

\* What a suffix of a sequence holds.
LEMMA RestOfSequence ==
    ASSUME NEW S, NEW q \in Seq(S), NEW k \in 1..Len(q)
    PROVE  /\ SubSeq(q, k, Len(q)) \in Seq(S)
           /\ Len(SubSeq(q, k, Len(q))) = Len(q) - k + 1
           /\ \A i \in 1..Len(SubSeq(q, k, Len(q))) : SubSeq(q, k, Len(q))[i] = q[k + i - 1]
BY SMTT(60)

LEMMA ConcatElements ==
    ASSUME NEW s \in Seq(Entry), NEW t \in Seq(Entry)
    PROVE  /\ Len(s \o t) = Len(s) + Len(t)
           /\ \A i \in 1..Len(s) : (s \o t)[i] = s[i]
           /\ \A i \in Len(s) + 1..Len(s) + Len(t) : (s \o t)[i] = t[i - Len(s)]
OBVIOUS

LEMMA ShiftedIndex ==
    ASSUME NEW prev \in Nat, NEW len \in Nat, NEW k \in 1..len, NEW i \in prev + k..prev + len,
           NEW a, a = prev + k - 1, NEW b, b = len - k + 1
    PROVE  i \in a + 1..a + b /\ i - a \in 1..b /\ k + (i - a) - 1 = i - prev
OBVIOUS

\* MergeShape entry by entry.
LEMMA MergeElements ==
    ASSUME NEW l \in Seq(Entry), NEW entries \in Seq(Entry),
           NEW prev \in Nat, prev <= Len(l)
    PROVE  \/ Merge(l, prev, entries) = l /\ prev + Len(entries) <= Len(l)
           \/ \E k \in 1..Len(entries) :
                /\ prev + k - 1 <= Len(l)
                /\ prev + k <= Len(l) => l[prev + k].term # entries[k].term
                /\ \A i \in 1..k-1 : prev + i <= Len(l) /\ l[prev + i].term = entries[i].term
                /\ Len(Merge(l, prev, entries)) = prev + Len(entries)
                /\ \A i \in 1..prev + k - 1 : Merge(l, prev, entries)[i] = l[i]
                /\ \A i \in prev + k..prev + Len(entries) :
                      Merge(l, prev, entries)[i] = entries[i - prev]
<1> SUFFICES ASSUME ~(Merge(l, prev, entries) = l /\ prev + Len(entries) <= Len(l))
             PROVE  \E k \in 1..Len(entries) :
                /\ prev + k - 1 <= Len(l)
                /\ prev + k <= Len(l) => l[prev + k].term # entries[k].term
                /\ \A i \in 1..k-1 : prev + i <= Len(l) /\ l[prev + i].term = entries[i].term
                /\ Len(Merge(l, prev, entries)) = prev + Len(entries)
                /\ \A i \in 1..prev + k - 1 : Merge(l, prev, entries)[i] = l[i]
                /\ \A i \in prev + k..prev + Len(entries) :
                      Merge(l, prev, entries)[i] = entries[i - prev]
  OBVIOUS
<1>1. PICK k \in DOMAIN entries :
        /\ prev + k - 1 <= Len(l)
        /\ prev + k <= Len(l) => l[prev + k].term # entries[k].term
        /\ Merge(l, prev, entries) =
             SubSeq(l, 1, prev + k - 1) \o SubSeq(entries, k, Len(entries))
        /\ \A i \in 1..k-1 : prev + i <= Len(l) /\ l[prev + i].term = entries[i].term
  BY MergeShape
<1> DEFINE a == prev + k - 1
           s == SubSeq(l, 1, a)
           t == SubSeq(entries, k, Len(entries))
<1>2. Len(entries) \in Nat /\ k \in 1..Len(entries) /\ a \in 0..Len(l)
  <2>1. Len(entries) \in Nat /\ k \in 1..Len(entries) /\ Len(l) \in Nat
    OBVIOUS
  <2>2. prev + k - 1 <= Len(l)
    BY <1>1
  <2> QED
    BY <2>1, <2>2
<1>3. s \in Seq(Entry) /\ Len(s) = a /\ \A i \in 1..a : s[i] = l[i]
  BY <1>2
<1>4. /\ t \in Seq(Entry) /\ Len(t) = Len(entries) - k + 1
      /\ \A i \in 1..Len(t) : t[i] = entries[k + i - 1]
  <2> HIDE DEF a, s
  <2> QED
    BY <1>2, RestOfSequence
<1> HIDE DEF s, t
<1>5. /\ Len(s \o t) = Len(s) + Len(t)
      /\ \A i \in 1..Len(s) : (s \o t)[i] = s[i]
      /\ \A i \in Len(s) + 1..Len(s) + Len(t) : (s \o t)[i] = t[i - Len(s)]
  BY <1>3, <1>4, ConcatElements
<1>6. \A i \in prev + k..prev + Len(entries) : (s \o t)[i] = entries[i - prev]
  <2> SUFFICES ASSUME NEW i \in prev + k..prev + Len(entries)
               PROVE  (s \o t)[i] = entries[i - prev]
    OBVIOUS
  <2>1. Len(s) = a /\ Len(t) = Len(entries) - k + 1
    BY <1>3, <1>4
  <2>2. Len(entries) \in Nat /\ k \in 1..Len(entries)
    BY <1>2
  <2>3. PICK b : b = Len(entries) - k + 1
    OBVIOUS
  <2>4. PICK c : c = prev + k - 1
    OBVIOUS
  <2>5. i \in c + 1..c + b /\ i - c \in 1..b /\ k + (i - c) - 1 = i - prev
    BY <2>2, <2>3, <2>4, ShiftedIndex, SMTT(60)
  <2>6. Len(s) = c /\ Len(t) = b
    BY <2>1, <2>3, <2>4
  <2> QED
    BY <1>4, <1>5, <2>5, <2>6
<1>7. Merge(l, prev, entries) = s \o t
  BY <1>1 DEF s, t
<1>8. Len(s \o t) = prev + Len(entries)
  BY <1>2, <1>3, <1>4, <1>5
<1>9. \A i \in 1..prev + k - 1 : Merge(l, prev, entries)[i] = l[i]
  BY <1>3, <1>5, <1>7
<1>10. \A i \in prev + k..prev + Len(entries) : Merge(l, prev, entries)[i] = entries[i - prev]
  BY <1>6, <1>7
<1>11. Len(Merge(l, prev, entries)) = prev + Len(entries)
  BY <1>7, <1>8
<1>12. k \in 1..Len(entries)
  BY <1>2
<1> HIDE DEF a
<1> QED
  BY <1>1, <1>9, <1>10, <1>11, <1>12, Zenon

\* The append loop keeps terms in order, because prev_log_term was checked.
LEMMA MergeInOrder ==
    ASSUME NEW l \in Seq(Entry), NEW entries \in Seq(Entry), NEW t \in Nat, NEW u \in Nat,
           NEW prev \in Nat, prev <= Len(l), t <= u,
           InOrder(l, t), InOrder(entries, u),
           prev > 0 => \A i \in DOMAIN entries : l[prev].term <= entries[i].term
    PROVE  InOrder(Merge(l, prev, entries), u)
<1>1. InOrder(l, u)
  BY InOrderLater
<1>2. CASE Merge(l, prev, entries) # l
  <2> DEFINE M == Merge(l, prev, entries)
  <2>1. PICK k \in 1..Len(entries) :
          /\ prev + k - 1 <= Len(l)
          /\ prev + k <= Len(l) => l[prev + k].term # entries[k].term
          /\ \A i \in 1..k-1 : prev + i <= Len(l) /\ l[prev + i].term = entries[i].term
          /\ Len(M) = prev + Len(entries)
          /\ \A i \in 1..prev + k - 1 : M[i] = l[i]
          /\ \A i \in prev + k..prev + Len(entries) : M[i] = entries[i - prev]
    BY <1>2, MergeElements, Zenon
  <2> DEFINE a == prev + k - 1
  <2>2. M \in Seq(Entry) /\ DOMAIN M = 1..prev + Len(entries)
    BY <2>1, MergeType
  <2> HIDE DEF M
  <2>3. \A i \in DOMAIN M : \/ i \in 1..a /\ i \in DOMAIN l /\ M[i] = l[i]
                            \/ /\ i \in a + 1..prev + Len(entries)
                               /\ i - prev \in DOMAIN entries /\ M[i] = entries[i - prev]
    BY SMTT(60), <2>1, <2>2
  <2>4. \A i \in DOMAIN l : l[i].term \in Nat
    BY EntryTerm
  <2>5. \A i \in DOMAIN entries : entries[i].term \in Nat
    BY EntryTerm
  \* The last entry that is kept is not newer than any that follows.
  <2>6. ASSUME a > 0, NEW j \in k..Len(entries)
        PROVE  a \in DOMAIN l /\ l[a].term <= entries[j].term
    <3>1. a \in DOMAIN l
      BY <2>1, <2>6
    <3>2. CASE k = 1
      <4>1. a = prev /\ prev > 0 /\ j \in DOMAIN entries
        BY <2>6, <3>2
      <4> QED
        BY <3>1, <4>1
    <3>3. CASE k # 1
      <4>1. k - 1 \in 1..k-1 /\ k - 1 \in DOMAIN entries /\ j \in DOMAIN entries /\ k - 1 <= j
        BY <2>1, <3>3
      <4>2. l[a].term = entries[k - 1].term
        <5>1. prev + (k - 1) = a
          BY <2>1
        <5> QED
          BY <2>1, <4>1, <5>1
      <4> QED
        BY <3>1, <4>1, <4>2 DEF InOrder
    <3> QED
      BY <3>2, <3>3
  <2>7. ASSUME NEW i \in DOMAIN M, NEW j \in DOMAIN M, i <= j
        PROVE  M[i].term <= M[j].term
    <3>1. CASE j \in 1..a
      <4>1. i \in DOMAIN l /\ j \in DOMAIN l /\ M[i] = l[i] /\ M[j] = l[j]
        BY <2>2, <2>3, <2>7, <3>1
      <4> QED
        BY <2>7, <4>1 DEF InOrder
    <3>2. CASE i \in a + 1..prev + Len(entries)
      <4>1. /\ k \in Int /\ Len(entries) \in Nat /\ i \in Int /\ j \in Int
            /\ i >= prev + k /\ j >= prev + k
        BY <2>2, <2>7, <3>2
      <4>2. ~(i \in 1..a) /\ ~(j \in 1..a) /\ i - prev <= j - prev
        BY <2>7, <4>1
      <4>3. /\ i - prev \in DOMAIN entries /\ j - prev \in DOMAIN entries
            /\ M[i] = entries[i - prev] /\ M[j] = entries[j - prev] /\ i - prev <= j - prev
        BY <2>3, <2>7, <4>2
      <4> QED
        BY <4>3 DEF InOrder
    <3>3. CASE i \in 1..a /\ j \in a + 1..prev + Len(entries)
      <4>0. /\ k \in Int /\ Len(entries) \in Nat /\ j \in Int
            /\ j >= prev + k /\ j <= prev + Len(entries)
        BY <3>3
      <4>1. a > 0 /\ j - prev \in k..Len(entries) /\ M[j] = entries[j - prev]
        <5>1. a > 0
          BY <3>3
        <5>2. j - prev \in k..Len(entries)
          BY <4>0
        <5>3. ~(j \in 1..a)
          BY <4>0
        <5> QED
          BY <2>3, <5>1, <5>2, <5>3
      <4>2. i \in DOMAIN l /\ M[i] = l[i] /\ i <= a
        BY <2>3, <3>3
      <4>3. a \in DOMAIN l /\ l[a].term <= entries[j - prev].term
        BY <2>6, <4>1
      <4>4. l[i].term <= l[a].term
        BY <4>2, <4>3 DEF InOrder
      <4>5. l[i].term \in Nat /\ l[a].term \in Nat /\ entries[j - prev].term \in Nat
        BY <2>4, <2>5, <4>1, <4>2, <4>3
      <4> QED
        BY SMTT(60), <4>1, <4>2, <4>3, <4>4, <4>5
    <3> QED
      BY <2>3, <3>1, <3>2, <3>3
  <2>8. \A i \in DOMAIN M : M[i].term <= u
    BY <1>1, <2>3 DEF InOrder
  <2>9. InOrder(M, u)
    BY <2>7, <2>8 DEF InOrder
  <2> QED
    BY <2>9 DEF M
<1> QED
  BY <1>1, <1>2

-----------------------------------------------------------------------------
(* Where requests and answers come from *)

\* A request in flight is an earlier one, or a copy of it whose caller has given up,
\* or one of a round of this step.
SameRequest(m, q) ==
    /\ q.type = "append_entries" /\ q.src = m.src /\ q.term = m.term
    /\ q.prevLogIndex = m.prevLogIndex /\ q.prevLogTerm = m.prevLogTerm
    /\ q.entries = m.entries

NewRequest(m) ==
    \E n \in Node : \E p \in Peers[n] :
        /\ UNCHANGED <<log, currentTerm>>
        /\ m.src = n /\ m.term = currentTerm[n]
        /\ m.prevLogIndex = nextIndex[n][p] - 1
        /\ m.prevLogTerm = TermAt(log[n], nextIndex[n][p] - 1)
        /\ m.entries = SubSeq(log[n], nextIndex[n][p], Len(log[n]))

LEMMA VoteStepSendsNoRequests ==
    ASSUME TypeOK, NEW n \in Node, StartElection(n),
           NEW m \in BagToSet(messages'), m.type # "vote_request"
    PROVE  m \in BagToSet(messages)
<1>1. CASE Peers[n] = {}
  BY <1>1 DEF StartElection
<1>2. CASE Peers[n] # {}
  BY <1>2, SendAdds DEF StartElection
<1> QED
  BY <1>1, <1>2

\* What a message step leaves in flight: at most one message is new.
LEMMA MessageStepSends ==
    ASSUME TypeOK, NEW q \in BagToSet(messages), MessageStep(q),
           NEW m \in BagToSet(messages'), m \notin BagToSet(messages)
    PROVE  \/ HandleVoteRequest(q) /\ m.type = "vote_response" /\ m.src = q.dst /\ m.dst = q.src
           \/ /\ HandleAppendEntries(q)
              /\ \E t, b : m = AppendAnswer(q, t, b) /\ (b => AcceptAppend(q))
           \/ CallTimesOut(q) /\ m = [q EXCEPT !.epoch = 0]
<1>1. CASE HandleVoteRequest(q)
  <2>1. PICK t, b : Reply(q, [type |-> "vote_response", src |-> q.dst, dst |-> q.src,
                              epoch |-> q.epoch, term |-> t, granted |-> b])
    BY <1>1 DEF HandleVoteRequest
  <2> QED
    BY <1>1, <2>1, ReplyAdds
<1>2. CASE HandleAppendEntries(q)
  <2>1. PICK t, b : Reply(q, AppendAnswer(q, t, b)) /\ (b => AcceptAppend(q))
    <3>1. CASE AcceptAppend(q)
      BY <3>1 DEF AcceptAppend
    <3>2. CASE ~AcceptAppend(q)
      BY <1>2, <3>2 DEF HandleAppendEntries, RejectStaleAppend, RejectInconsistentAppend
    <3> QED
      BY <3>1, <3>2
  <2> QED
    BY <1>2, <2>1, ReplyAdds
<1>3. CASE CallTimesOut(q)
  BY <1>3, ExchangeAdds DEF CallTimesOut
<1>4. CASE HandleVoteResponse(q) \/ HandleAppendEntriesResponse(q) \/ Lose(q)
  BY <1>4, DiscardAddsNothing DEF HandleVoteResponse, HandleAppendEntriesResponse, Lose
<1> QED
  BY <1>1, <1>2, <1>3, <1>4 DEF MessageStep

LEMMA RequestOrigin ==
    ASSUME TypeOK, [Next]_vars, NEW m \in BagToSet(messages'), m.type = "append_entries"
    PROVE  (\E q \in BagToSet(messages) : SameRequest(m, q)) \/ NewRequest(m)
<1>1. CASE m \in BagToSet(messages)
  BY <1>1 DEF SameRequest
<1>2. ASSUME m \notin BagToSet(messages), NEW n \in Node, NodeStep(n)
      PROVE  NewRequest(m)
  <2>1. CASE ReplicateToAll(n) \/ Heartbeat(n)
    <3>1. PICK h : Send(AppendRequests(n, h))
      BY <2>1 DEF ReplicateToAll, Heartbeat
    <3>2. m \in AppendRequests(n, h)
      BY <1>2, <3>1, SendAdds
    <3>3. UNCHANGED <<log, currentTerm>>
      BY <2>1 DEF ReplicateToAll, Heartbeat
    <3>4. PICK p \in Peers[n] :
            /\ m.src = n /\ m.term = currentTerm[n]
            /\ m.prevLogIndex = nextIndex[n][p] - 1
            /\ m.prevLogTerm = TermAt(log[n], nextIndex[n][p] - 1)
            /\ m.entries = SubSeq(log[n], nextIndex[n][p], Len(log[n]))
      BY <3>2 DEF AppendRequests
    <3> QED
      BY <3>3, <3>4 DEF NewRequest
  <2>2. CASE StartElection(n)
    BY <1>2, <2>2, VoteStepSendsNoRequests
  <2>3. CASE Propose(n) \/ Apply(n) \/ Crash(n) \/ \E p \in proposals[n] : ReturnToClient(n, p)
    BY <1>2, <2>3 DEF Propose, Apply, Crash, ReturnToClient, ProposeReturns, ProposeTimesOut
  <2> QED
    BY <1>2, <2>1, <2>2, <2>3 DEF NodeStep
<1>3. ASSUME m \notin BagToSet(messages), NEW q \in BagToSet(messages), MessageStep(q)
      PROVE  SameRequest(m, q)
  <2>1. ~(\E t, b : m = AppendAnswer(q, t, b))
    BY DEF AppendAnswer
  <2>2. CallTimesOut(q) /\ m = [q EXCEPT !.epoch = 0]
    BY <1>3, <2>1, MessageStepSends
  <2>3. q \in AppendRequest
    BY <2>2, MessageFields DEF TypeOK, CallTimesOut
  <2> QED
    BY <2>2, <2>3 DEF SameRequest, CallTimesOut, AppendRequest
<1> QED
  BY <1>1, <1>2, <1>3 DEF Next, vars

-----------------------------------------------------------------------------
(* Terms in order *)

LEMMA OrderOfLogs ==
    TermsOrdered <=> \A n \in Node : InOrder(log[n], currentTerm[n])
BY DEF TermsOrdered, InOrder

\* A round reads the sender's log, which is in order.
LEMMA RequestsStayOrdered ==
    ASSUME TermsInvariant, TypeOK', [Next]_vars
    PROVE  RequestsOrdered'
<1> SUFFICES ASSUME NEW m \in BagToSet(messages'), m.type = "append_entries"
             PROVE  EntriesOrdered(m)
  BY DEF RequestsOrdered, EntriesOrdered
<1>1. TypeOK
  BY DEF TermsInvariant
<1>2. CASE \E q \in BagToSet(messages) : SameRequest(m, q)
  BY <1>2 DEF TermsInvariant, RequestsOrdered, SameRequest, EntriesOrdered
<1>3. CASE NewRequest(m)
  <2>0. PICK n \in Node : \E p \in Peers[n] :
          /\ m.term = currentTerm[n]
          /\ m.prevLogIndex = nextIndex[n][p] - 1
          /\ m.prevLogTerm = TermAt(log[n], nextIndex[n][p] - 1)
          /\ m.entries = SubSeq(log[n], nextIndex[n][p], Len(log[n]))
    BY <1>3 DEF NewRequest
  <2>1. PICK p \in Peers[n] :
          /\ m.term = currentTerm[n]
          /\ m.prevLogIndex = nextIndex[n][p] - 1
          /\ m.prevLogTerm = TermAt(log[n], nextIndex[n][p] - 1)
          /\ m.entries = SubSeq(log[n], nextIndex[n][p], Len(log[n]))
    BY <2>0
  <2> DEFINE l == log[n]
             k == nextIndex[n][p]
             t == currentTerm[n]
  <2>2. l \in Seq(Entry) /\ k \in Nat \ {0} /\ t \in Nat
    BY <1>1 DEF TypeOK
  <2>3. InOrder(l, t)
    BY OrderOfLogs DEF TermsInvariant
  <2>4. \A i \in DOMAIN l : l[i].term \in Nat
    BY <2>2, EntryTerm
  <2> HIDE DEF l, k, t
  <2>5. \A i \in DOMAIN SubSeq(l, k, Len(l)) :
           /\ i \in Nat /\ k + i - 1 \in DOMAIN l /\ k <= k + i - 1
           /\ SubSeq(l, k, Len(l))[i] = l[k + i - 1]
    BY <2>2
  <2>6. \A i, j \in DOMAIN SubSeq(l, k, Len(l)) :
           i <= j => SubSeq(l, k, Len(l))[i].term <= SubSeq(l, k, Len(l))[j].term
    <3> SUFFICES ASSUME NEW i \in DOMAIN SubSeq(l, k, Len(l)),
                        NEW j \in DOMAIN SubSeq(l, k, Len(l)), i <= j
                 PROVE  l[k + i - 1].term <= l[k + j - 1].term
      BY <2>5
    <3>1. k + i - 1 <= k + j - 1
      BY <2>2, <2>5
    <3> QED
      BY <2>3, <2>5, <3>1 DEF InOrder
  <2>7. ASSUME NEW i \in DOMAIN SubSeq(l, k, Len(l))
        PROVE  /\ TermAt(l, k - 1) <= SubSeq(l, k, Len(l))[i].term
               /\ SubSeq(l, k, Len(l))[i].term <= t
    <3>1. k + i - 1 \in DOMAIN l /\ k - 1 <= k + i - 1
      BY <2>2, <2>5
    <3>2. l[k + i - 1].term \in Nat /\ l[k + i - 1].term <= t
      BY <2>3, <2>4, <3>1 DEF InOrder
    <3>3. TermAt(l, k - 1) <= l[k + i - 1].term
      BY <2>3, <3>1, <3>2 DEF TermAt, InOrder
    <3> QED
      BY <2>5, <3>2, <3>3
  <2> QED
    BY <2>1, <2>6, <2>7 DEF EntriesOrdered, l, k, t
<1> QED
  BY <1>1, <1>2, <1>3, RequestOrigin

LEMMA FollowerTerms ==
    ASSUME TypeOK, NEW n \in Node, NEW t \in Nat, t >= currentTerm[n], BecomeFollower(n, t)
    PROVE  \A a \in Node : currentTerm'[a] >= currentTerm[a]
BY DEF BecomeFollower, TypeOK

\* Steps that leave logs alone and let terms grow.
LEMMA TermsGrow ==
    ASSUME TypeOK, TypeOK', TermsOrdered, log' = log,
           \A n \in Node : currentTerm'[n] >= currentTerm[n]
    PROVE  TermsOrdered'
<1> SUFFICES ASSUME NEW n \in Node PROVE InOrder(log[n], currentTerm'[n])
  BY DEF TermsOrdered, InOrder
<1>1. /\ log[n] \in Seq(Entry) /\ currentTerm[n] \in Nat /\ currentTerm'[n] \in Nat
      /\ currentTerm[n] <= currentTerm'[n]
  BY DEF TypeOK
<1>2. InOrder(log[n], currentTerm[n])
  BY OrderOfLogs
<1> QED
  BY <1>1, <1>2, InOrderLater

\* Steps that change one log and the term of its node.
LEMMA TermsOfOne ==
    ASSUME TypeOK, TypeOK', TermsOrdered, NEW n \in Node, NEW l, NEW t,
           log' = [log EXCEPT ![n] = l], currentTerm' = [currentTerm EXCEPT ![n] = t],
           InOrder(l, t)
    PROVE  TermsOrdered'
<1> SUFFICES ASSUME NEW a \in Node PROVE InOrder(log'[a], currentTerm'[a])
  BY DEF TermsOrdered, InOrder
<1>1. CASE a = n
  BY <1>1 DEF TypeOK
<1>2. CASE a # n
  <2>1. log'[a] = log[a] /\ currentTerm'[a] = currentTerm[a]
    BY <1>2 DEF TypeOK
  <2>2. InOrder(log[a], currentTerm[a])
    BY OrderOfLogs
  <2> QED
    BY <2>1, <2>2
<1> QED
  BY <1>1, <1>2

\* A leader's entry is in the term it has or takes.
LEMMA TermsOfLeader ==
    ASSUME TypeOK, TypeOK', TermsOrdered, NEW n \in Node, NEW t \in Nat, NEW noop,
           AppendCommand(n, t, noop), t >= currentTerm[n],
           currentTerm' = [currentTerm EXCEPT ![n] = t]
    PROVE  TermsOrdered'
<1> DEFINE e == [term |-> t, leader |-> n]
<1>1. e \in Entry /\ log[n] \in Seq(Entry) /\ currentTerm[n] \in Nat /\ e.term = t
  BY DEF Entry, TypeOK
<1>2. log' = [log EXCEPT ![n] = Append(log[n], e)]
  BY DEF AppendCommand
<1> HIDE DEF e
<1>3. InOrder(log[n], currentTerm[n])
  BY OrderOfLogs
<1>4. InOrder(Append(log[n], e), t)
  BY <1>1, <1>3, InOrderAppend
<1> QED
  BY <1>2, <1>4, TermsOfOne

LEMMA AppendKeepsTerms ==
    ASSUME TermsInvariant, TypeOK', NEW m \in BagToSet(messages), HandleAppendEntries(m)
    PROVE  TermsOrdered'
<1> DEFINE n == m.dst
           l == log[n]
           t == currentTerm[n]
<1>1. TypeOK /\ TermsOrdered
  BY DEF TermsInvariant
<1>2. m \in AppendRequest
  BY <1>1, MessageFields DEF TypeOK, HandleAppendEntries
<1>3. /\ n \in Node /\ m.term \in Nat /\ m.prevLogIndex \in Nat /\ m.prevLogTerm \in Nat
      /\ m.entries \in Seq(Entry)
  BY <1>2 DEF AppendRequest
<1>4. l \in Seq(Entry) /\ t \in Nat /\ InOrder(l, t)
  BY <1>1, <1>3, OrderOfLogs DEF TypeOK
<1>5. CASE RejectStaleAppend(m)
  <2>1. log' = log /\ currentTerm' = currentTerm
    BY <1>5 DEF RejectStaleAppend
  <2>2. \A a \in Node : currentTerm'[a] >= currentTerm[a]
    BY <1>1, <2>1 DEF TypeOK
  <2> QED
    BY <1>1, <2>1, <2>2, TermsGrow
<1>6. CASE RejectInconsistentAppend(m)
  <2> DEFINE k == IF m.prevLogIndex <= Len(l) THEN SubSeq(l, 1, m.prevLogIndex - 1) ELSE l
  <2>1. /\ log' = [log EXCEPT ![n] = k] /\ currentTerm' = [currentTerm EXCEPT ![n] = m.term]
        /\ m.term >= t
    BY <1>6 DEF RejectInconsistentAppend, BecomeFollower
  <2>2. k \in Seq(Entry) /\ InOrder(k, t)
    <3>1. CASE m.prevLogIndex <= Len(l)
      BY <1>3, <1>4, <3>1, InOrderPrefix
    <3> QED
      BY <1>4, <3>1
  <2>3. InOrder(k, m.term)
    BY <1>3, <1>4, <2>1, <2>2, InOrderLater
  <2> HIDE DEF k
  <2> QED
    BY <1>1, <1>3, <2>1, <2>3, TermsOfOne
<1>7. CASE AcceptAppend(m)
  <2> DEFINE k == Merge(l, m.prevLogIndex, m.entries)
  <2>1. /\ log' = [log EXCEPT ![n] = k] /\ currentTerm' = [currentTerm EXCEPT ![n] = m.term]
        /\ m.term >= t
        /\ Consistent(l, m)
    BY <1>7 DEF AcceptAppend, BecomeFollower
  <2>2. /\ m.prevLogIndex <= Len(l)
        /\ m.prevLogIndex > 0 => l[m.prevLogIndex].term = m.prevLogTerm
    BY <1>3, <1>4, <2>1 DEF Consistent
  <2>3. EntriesOrdered(m)
    BY DEF TermsInvariant, RequestsOrdered, HandleAppendEntries
  <2>4. InOrder(m.entries, m.term)
    BY <2>3 DEF EntriesOrdered, InOrder
  <2>5. m.prevLogIndex > 0 => \A i \in DOMAIN m.entries :
                                 l[m.prevLogIndex].term <= m.entries[i].term
    BY <2>2, <2>3 DEF EntriesOrdered
  <2> HIDE DEF n, l, t
  <2>6. InOrder(k, m.term)
    BY <1>3, <1>4, <2>1, <2>2, <2>4, <2>5, MergeInOrder
  <2> HIDE DEF k
  <2> QED
    BY <1>1, <1>3, <2>1, <2>6, TermsOfOne DEF l
<1> QED
  BY <1>5, <1>6, <1>7 DEF HandleAppendEntries

LEMMA TermsStep == TermsInvariant /\ [Next]_vars => TermsInvariant'
<1> SUFFICES ASSUME TermsInvariant, [Next]_vars PROVE TermsInvariant'
  OBVIOUS
<1>1. TypeOK /\ TypeOK' /\ TermsOrdered
  BY TypeStep DEF TermsInvariant
<1>2. \A n \in Node : currentTerm[n] \in Nat /\ currentTerm[n] >= currentTerm[n]
  BY <1>1 DEF TypeOK
<1>3. ASSUME NEW n \in Node, StartElection(n)
      PROVE  TermsOrdered'
  <2> DEFINE t == currentTerm[n] + 1
  <2>1. t \in Nat /\ t >= currentTerm[n] /\ currentTerm' = [currentTerm EXCEPT ![n] = t]
    BY <1>2, <1>3 DEF StartElection
  <2>2. CASE Peers[n] = {}
    <3>1. AppendCommand(n, t, TRUE)
      BY <1>3, <2>2 DEF StartElection, BecomeLeader
    <3> QED
      BY <1>1, <2>1, <3>1, TermsOfLeader
  <2>3. CASE Peers[n] # {}
    <3>1. log' = log
      BY <1>3, <2>3 DEF StartElection
    <3>2. \A a \in Node : currentTerm'[a] >= currentTerm[a]
      BY <1>1, <1>2, <2>1 DEF TypeOK
    <3> QED
      BY <1>1, <3>1, <3>2, TermsGrow
  <2> QED
    BY <2>2, <2>3
<1>4. ASSUME NEW n \in Node, Propose(n)
      PROVE  TermsOrdered'
  <2>1. AppendCommand(n, currentTerm[n], FALSE) /\ currentTerm' = currentTerm
    BY <1>4 DEF Propose
  <2>2. currentTerm' = [currentTerm EXCEPT ![n] = currentTerm[n]]
    BY <1>1, <2>1 DEF TypeOK
  <2> QED
    BY <1>1, <1>2, <2>1, <2>2, TermsOfLeader
<1>5. ASSUME NEW n \in Node, Crash(n)
      PROVE  TermsOrdered'
  <2>1. log' = [log EXCEPT ![n] = <<>>] /\ currentTerm' = [currentTerm EXCEPT ![n] = 0]
    BY <1>5 DEF Crash
  <2>2. InOrder(<<>>, 0)
    BY DEF InOrder
  <2> QED
    BY <1>1, <2>1, <2>2, TermsOfOne
<1>6. ASSUME NEW n \in Node, NodeStep(n)
      PROVE  TermsOrdered'
  <2>1. CASE UNCHANGED <<log, currentTerm>>
    BY <1>1, <1>2, <2>1, TermsGrow
  <2> QED
    BY <1>3, <1>4, <1>5, <1>6, <2>1 DEF NodeStep, ReplicateToAll, Heartbeat, Apply,
       ReturnToClient, ProposeReturns, ProposeTimesOut
<1>7. ASSUME NEW m \in BagToSet(messages), MessageStep(m)
      PROVE  TermsOrdered'
  <2> DEFINE n == m.dst
  <2>1. n \in Node /\ m.term \in Nat
    BY <1>1, MessageFields DEF TypeOK
  <2>2. CASE HandleVoteRequest(m)
    <3>1. log' = log /\ \E t \in {m.term, currentTerm[n]} :
              t >= currentTerm[n] /\ currentTerm' = [currentTerm EXCEPT ![n] = t]
      <4>1. CASE m.term > currentTerm[n]
        BY <2>1, <2>2, <4>1, <1>1 DEF HandleVoteRequest, TypeOK
      <4>2. CASE ~(m.term > currentTerm[n])
        BY <2>1, <2>2, <4>2, <1>1 DEF HandleVoteRequest, TypeOK
      <4> QED
        BY <4>1, <4>2
    <3>2. PICK t \in {m.term, currentTerm[n]} :
              t >= currentTerm[n] /\ currentTerm' = [currentTerm EXCEPT ![n] = t]
      BY <3>1
    <3>3. currentTerm \in [Node -> Nat] /\ t \in Nat
      BY SMTT(60), <1>1, <2>1 DEF TypeOK
    <3>4. \A a \in Node : currentTerm'[a] >= currentTerm[a]
      BY <3>2, <3>3
    <3> QED
      BY <1>1, <3>1, <3>4, TermsGrow
  <2>3. CASE HandleVoteResponse(m)
    <3>1. CASE state[n] = Candidate /\ m.term > currentTerm[n]
      <4>1. log' = log /\ BecomeFollower(n, m.term)
        BY <2>3, <3>1 DEF HandleVoteResponse
      <4>2. \A a \in Node : currentTerm'[a] >= currentTerm[a]
        <5>1. m.term >= currentTerm[n]
          BY <1>2, <2>1, <3>1
        <5> QED
          BY <1>1, <2>1, <4>1, <5>1, FollowerTerms
      <4> QED
        BY <1>1, <4>1, <4>2, TermsGrow
    <3>2. CASE ~(state[n] = Candidate /\ m.term > currentTerm[n])
      <4>1. currentTerm' = currentTerm
        BY <2>3, <3>2 DEF HandleVoteResponse
      <4>2. log' = log \/ AppendCommand(n, currentTerm[n], TRUE)
        BY <2>3, <3>2 DEF HandleVoteResponse, BecomeLeader
      <4>3. currentTerm' = [currentTerm EXCEPT ![n] = currentTerm[n]]
        BY <1>1, <4>1 DEF TypeOK
      <4> QED
        BY <1>1, <1>2, <2>1, <4>1, <4>2, <4>3, TermsGrow, TermsOfLeader
    <3> QED
      BY <3>1, <3>2
  <2>4. CASE HandleAppendEntriesResponse(m)
    <3>1. log' = log
      BY <2>4 DEF HandleAppendEntriesResponse
    <3>2. CASE m.term > currentTerm[n]
      <4>1. BecomeFollower(n, m.term)
        BY <2>4, <3>2 DEF HandleAppendEntriesResponse
      <4>2. \A a \in Node : currentTerm'[a] >= currentTerm[a]
        <5>1. m.term >= currentTerm[n]
          BY <1>2, <2>1, <3>2
        <5> QED
          BY <1>1, <2>1, <4>1, <5>1, FollowerTerms
      <4> QED
        BY <1>1, <3>1, <4>2, TermsGrow
    <3>3. CASE ~(m.term > currentTerm[n])
      <4>1. currentTerm' = currentTerm
        BY <2>4, <3>3 DEF HandleAppendEntriesResponse
      <4> QED
        BY <1>1, <1>2, <3>1, <4>1, TermsGrow
    <3> QED
      BY <3>2, <3>3
  <2>5. CASE CallTimesOut(m) \/ Lose(m)
    BY <1>1, <1>2, <2>5, TermsGrow DEF CallTimesOut, Lose
  <2> QED
    BY <1>7, <1>1, <2>2, <2>3, <2>4, <2>5, AppendKeepsTerms DEF MessageStep
<1>8. ASSUME UNCHANGED vars
      PROVE  TermsOrdered'
  BY <1>1, <1>2, <1>8, TermsGrow DEF vars
<1>9. TermsOrdered'
  BY <1>6, <1>7, <1>8 DEF Next
<1> QED
  BY <1>1, <1>9, RequestsStayOrdered DEF TermsInvariant

LEMMA TermsInit == Init => TermsInvariant
<1> SUFFICES ASSUME Init PROVE TermsInvariant
  OBVIOUS
<1>1. TypeOK
  BY TypeInit
<1>2. BagToSet(messages) = {}
  BY DEF Init, EmptyBag, SetToBag, BagToSet
<1>3. RequestsOrdered
  BY <1>2 DEF RequestsOrdered
<1>4. \A n \in Node : log[n] = <<>>
  BY DEF Init
<1>5. TermsOrdered
  BY <1>4 DEF TermsOrdered
<1> QED
  BY <1>1, <1>3, <1>5 DEF TermsInvariant

\* In every cluster, with any restarts, late requests and divergence, the terms of
\* a log never decrease and never pass its node's term: comparing last entries
\* (log_ok in handle_vote_request) compares logs.
THEOREM TermsStayOrdered == Spec => []TermsOrdered
<1>1. Init => TermsInvariant
  BY TermsInit
<1>2. TermsInvariant /\ [Next]_vars => TermsInvariant'
  BY TermsStep
<1>3. TermsInvariant => TermsOrdered
  BY DEF TermsInvariant
<1> QED
  BY <1>1, <1>2, <1>3, PTL DEF Spec

-----------------------------------------------------------------------------
(* What a step does to the votes when no process restarts *)

LEMMA NoRestart ==
    ASSUME MaxCrashes = 0, TypeOK, NeverRestarted, [Next]_vars
    PROVE  epoch' = epoch /\ NeverRestarted'
<1>1. ASSUME NEW n \in Node, Crash(n)
      PROVE  FALSE
  BY <1>1 DEF Crash, NeverRestarted
<1>2. ASSUME NEW n \in Node, NodeStep(n)
      PROVE  epoch' = epoch
  BY <1>1, <1>2 DEF NodeStep, StartElection, ReplicateToAll, Heartbeat, Propose, ReturnToClient,
     ProposeReturns, ProposeTimesOut, Apply
<1>3. ASSUME NEW m \in BagToSet(messages), MessageStep(m)
      PROVE  epoch' = epoch
  BY <1>3 DEF MessageStep, HandleVoteRequest, HandleVoteResponse, HandleAppendEntries,
     HandleAppendEntriesResponse, CallTimesOut, Lose
<1>4. epoch' = epoch
  BY <1>2, <1>3 DEF Next, vars
<1> QED
  BY <1>4 DEF NeverRestarted

\* c goes on in its term, as what it was or as the leader.
StandsOn(c) ==
    /\ Active(c) /\ Active(c)'
    /\ currentTerm'[c] = currentTerm[c]
    /\ state'[c] \in {state[c], Leader}

\* v grants its vote to c, which still stands where it asked for it.
Granted(c, v) ==
    \E m \in BagToSet(messages) :
        /\ HandleVoteRequest(m)
        /\ m.src = c /\ m.dst = v /\ m.epoch = epoch[c]
        /\ m.term = currentTerm[c]
        /\ UpToDate(m, log[v])
        /\ currentTerm'[v] = currentTerm[c]
        /\ Active(v)' => v = c

VotesMove ==
    /\ \A a \in Node : currentTerm'[a] >= currentTerm[a]
    /\ \A a \in Node : Active(a)' => \/ StandsOn(a)
                                     \/ /\ currentTerm'[a] > currentTerm[a]
                                        /\ \A v \in Node : HasVote(a, v)' => v = a
    /\ \A c, v \in Node : StandsOn(c) /\ HasVote(c, v)' => HasVote(c, v) \/ Granted(c, v)

LEMMA QuietVotes ==
    ASSUME TypeOK, TypeOK', Quiet, epoch' = epoch
    PROVE  VotesMove
<1>1. \A a \in Node : /\ currentTerm'[a] >= currentTerm[a]
                      /\ votesReceived'[a] = votesReceived[a]
  BY DEF Quiet, TypeOK
<1>2. \A a \in Node : Active(a)' => StandsOn(a)
  BY DEF Quiet, StandsOn, Active
<1>3. \A m \in BagToSet(messages') : Grant(m) => m \in BagToSet(messages)
  BY DEF Quiet
<1>4. ASSUME NEW c \in Node, NEW v \in Node, StandsOn(c), HasVote(c, v)'
      PROVE  HasVote(c, v)
  BY <1>1, <1>3, <1>4 DEF HasVote, StandsOn, Grant
<1> QED
  BY <1>1, <1>2, <1>4 DEF VotesMove

LEMMA StartElectionVotes ==
    ASSUME ElectionInvariant, TypeOK', NEW n \in Node, StartElection(n)
    PROVE  VotesMove
<1>1. TypeOK
  BY DEF ElectionInvariant
<1>2. /\ currentTerm' = [currentTerm EXCEPT ![n] = currentTerm[n] + 1]
      /\ votesReceived' = [votesReceived EXCEPT ![n] = {n}]
      /\ epoch' = epoch
      /\ currentTerm \in [Node -> Nat]
  BY <1>1 DEF StartElection, TypeOK
<1>3. \E s \in {Candidate, Leader} : state' = [state EXCEPT ![n] = s]
  BY DEF StartElection, BecomeLeader
<1>4. \A m \in BagToSet(messages') : Grant(m) => m \in BagToSet(messages)
  BY <1>1, VoteStepSendsNoRequests DEF Grant
<1>5. \A a \in Node : currentTerm'[a] >= currentTerm[a]
  BY <1>2
<1>6. ASSUME NEW v \in Node, HasVote(n, v)'
      PROVE  v = n
  <2> SUFFICES ASSUME NEW m \in BagToSet(messages'), Grant(m), m.dst = n,
                      m.epoch = epoch'[n], m.term = currentTerm'[n]
               PROVE  FALSE
    BY <1>1, <1>2, <1>6 DEF HasVote, Grant, TypeOK
  <2>1. m.term <= currentTerm[n]
    BY <1>2, <1>4 DEF ElectionInvariant, CallsNotAhead, Called
  <2> QED
    BY <1>2, <2>1
<1>7. \A a \in Node : a # n => /\ state'[a] = state[a]
                               /\ currentTerm'[a] = currentTerm[a]
                               /\ votesReceived'[a] = votesReceived[a]
  BY <1>1, <1>2, <1>3 DEF TypeOK
<1>8. ASSUME NEW c \in Node, NEW v \in Node, c # n, HasVote(c, v)'
      PROVE  HasVote(c, v)
  BY <1>2, <1>4, <1>7, <1>8 DEF HasVote, Grant
<1>9. currentTerm'[n] > currentTerm[n]
  BY <1>2
<1>10. \A a \in Node : a # n /\ Active(a)' => StandsOn(a)
  BY <1>7 DEF StandsOn, Active
<1>11. ~StandsOn(n)
  BY <1>1, <1>9 DEF StandsOn, TypeOK
<1> QED
  BY <1>5, <1>6, <1>8, <1>9, <1>10, <1>11 DEF VotesMove

LEMMA VoteRequestVotes ==
    ASSUME ElectionInvariant, TypeOK', NEW m \in BagToSet(messages), HandleVoteRequest(m)
    PROVE  VotesMove
<1> DEFINE n == m.dst
           newer == m.term > currentTerm[n]
           vote == IF newer THEN None ELSE votedFor[n]
           grant == /\ m.term >= currentTerm[n]
                    /\ VoteFree(vote, m.src)
                    /\ UpToDate(m, log[n])
<1>1. TypeOK
  BY DEF ElectionInvariant
<1>2. /\ m.type = "vote_request"
      /\ n \in Node /\ m.src \in Node /\ m.term \in Nat /\ currentTerm[n] \in Nat
  BY <1>1, MessageFields DEF TypeOK, HandleVoteRequest
<1>3. /\ state' = [state EXCEPT ![n] = IF newer THEN Follower ELSE @]
      /\ currentTerm' = [currentTerm EXCEPT ![n] = IF newer THEN m.term ELSE @]
      /\ epoch' = epoch
      /\ votesReceived' = votesReceived
      /\ Reply(m, [type |-> "vote_response", src |-> n, dst |-> m.src, epoch |-> m.epoch,
                   term |-> currentTerm'[n], granted |-> grant])
  BY DEF HandleVoteRequest, candidateVars
<1> HIDE DEF grant
<1>4. currentTerm'[n] = IF newer THEN m.term ELSE currentTerm[n]
  BY <1>1, <1>2, <1>3 DEF TypeOK
<1>5. ASSUME NEW r \in BagToSet(messages'), r \notin BagToSet(messages)
      PROVE  /\ r.type = "vote_response" /\ r.granted = grant
             /\ r.src = n /\ r.dst = m.src /\ r.epoch = m.epoch /\ r.term = currentTerm'[n]
  BY <1>1, <1>3, <1>5, ReplyAdds
<1>6. \A a \in Node : a # n => state'[a] = state[a] /\ currentTerm'[a] = currentTerm[a]
  BY <1>1, <1>2, <1>3 DEF TypeOK
<1>7. newer => state'[n] = Follower
  BY <1>1, <1>2, <1>3 DEF TypeOK
<1>8. ~newer => state'[n] = state[n] /\ currentTerm'[n] = currentTerm[n]
  BY <1>1, <1>2, <1>3 DEF TypeOK
<1>9. \A a \in Node : currentTerm'[a] >= currentTerm[a]
  <2>1. \A a \in Node : currentTerm[a] \in Nat
    BY <1>1 DEF TypeOK
  <2> QED
    BY <1>2, <1>4, <1>6, <2>1
<1>10. \A a \in Node : Active(a)' => StandsOn(a)
  BY <1>6, <1>7, <1>8 DEF Active, StandsOn
\* A node that still stands for election has its own vote, so it grants no other.
<1>11. Active(n)' /\ grant => m.src = n
  <2> SUFFICES ASSUME Active(n)', grant PROVE m.src = n
    OBVIOUS
  <2>1. ~newer /\ Active(n)
    BY <1>2, <1>7, <1>10 DEF Active, StandsOn
  <2>2. votedFor[n] = n
    BY <1>2, <2>1 DEF ElectionInvariant, OwnVote
  <2> QED
    BY <1>2, <2>1, <2>2, NodeAssumption DEF grant, VoteFree
<1>12. ASSUME NEW c \in Node, NEW v \in Node, StandsOn(c), HasVote(c, v)', ~HasVote(c, v)
       PROVE  Granted(c, v)
  <2>1. PICK r \in BagToSet(messages') : /\ Grant(r) /\ r.src = v /\ r.dst = c
                                         /\ r.epoch = epoch[c] /\ r.term = currentTerm[c]
    BY <1>3, <1>12 DEF HasVote, Grant, StandsOn
  <2>2. r \notin BagToSet(messages)
    BY <1>12, <2>1 DEF HasVote
  <2>3. grant /\ v = n /\ c = m.src /\ m.epoch = epoch[c] /\ currentTerm'[n] = currentTerm[c]
    BY <1>5, <2>1, <2>2 DEF Grant
  <2>4. currentTerm'[n] = m.term
    BY <1>2, <1>4, <2>3 DEF grant
  <2>5. UpToDate(m, log[n])
    BY <2>3 DEF grant
  <2> QED
    BY <1>11, <2>3, <2>4, <2>5 DEF Granted
<1> QED
  BY <1>9, <1>10, <1>12 DEF VotesMove

LEMMA VoteResponseVotes ==
    ASSUME ElectionInvariant, TypeOK', NEW m \in BagToSet(messages), HandleVoteResponse(m)
    PROVE  VotesMove
<1> DEFINE n == m.dst
           votes == votesReceived[n] \cup {m.src}
<1>1. TypeOK
  BY DEF ElectionInvariant
<1>2. /\ n \in Node /\ m.src \in Node /\ m.term \in Nat /\ currentTerm[n] \in Nat
      /\ m.type = "vote_response" /\ m.epoch = epoch[n] /\ epoch' = epoch
  BY <1>1, MessageFields DEF TypeOK, HandleVoteResponse
<1>3. BagToSet(messages') \subseteq BagToSet(messages)
  BY <1>1, DiscardAddsNothing DEF HandleVoteResponse
<1>4. CASE state[n] = Candidate /\ m.term > currentTerm[n]
  <2>1. BecomeFollower(n, m.term) /\ votesReceived' = votesReceived
    BY <1>4 DEF HandleVoteResponse, candidateVars
  <2>2. Quiet
    BY <1>1, <1>2, <1>3, <1>4, <2>1, FollowerQuiet
  <2> QED
    BY <1>1, <1>2, <2>2, QuietVotes
<1>5. CASE ~(state[n] = Candidate /\ m.granted /\ m.term = currentTerm[n])
           /\ ~(state[n] = Candidate /\ m.term > currentTerm[n])
  <2>1. UNCHANGED <<state, currentTerm, votedFor, votesReceived, epoch>>
    BY <1>2, <1>5 DEF HandleVoteResponse, candidateVars
  <2>2. Quiet
    BY <1>1, <1>3, <2>1, UnchangedQuiet
  <2> QED
    BY <1>1, <1>2, <2>2, QuietVotes
<1>6. CASE state[n] = Candidate /\ m.granted /\ m.term = currentTerm[n]
  <2>1. ~(m.term > currentTerm[n])
    BY <1>2, <1>6
  <2>2. currentTerm' = currentTerm
    BY <2>1 DEF HandleVoteResponse
  <2>3. /\ votesReceived' = [votesReceived EXCEPT ![n] = votes]
        /\ IF Cardinality(votes) >= Quorum(n)
           THEN BecomeLeader(n, currentTerm[n])
           ELSE state' = state
    BY <1>6, <2>1 DEF HandleVoteResponse
  <2> HIDE DEF votes
  <2>4. state' = state \/ state' = [state EXCEPT ![n] = Leader]
    BY <2>3 DEF BecomeLeader
  <2>5. Candidate # Follower /\ Leader # Follower
    BY DEF Candidate, Leader, Follower
  <2>6. \A a \in Node : Active(a)' => StandsOn(a)
    BY <1>1, <1>2, <1>6, <2>2, <2>4, <2>5 DEF Active, StandsOn, TypeOK
  <2>7. ASSUME NEW a \in Node, NEW b \in Node, HasVote(a, b)'
        PROVE  HasVote(a, b)
    <3>1. CASE b \in votesReceived'[a]
      <4>1. b \in votesReceived[a] \/ (a = n /\ b = m.src)
        BY <1>1, <1>2, <2>3, <3>1 DEF TypeOK, votes
      <4>2. HasVote(n, m.src)
        BY <1>2, <1>6 DEF HasVote, Grant
      <4> QED
        BY <4>1, <4>2 DEF HasVote
    <3>2. CASE b \notin votesReceived'[a]
      BY <1>2, <1>3, <2>2, <2>7, <3>2 DEF HasVote, Grant
    <3> QED
      BY <3>1, <3>2
  <2>8. \A a \in Node : currentTerm'[a] >= currentTerm[a]
    BY <1>1, <2>2 DEF TypeOK
  <2> QED
    BY <2>6, <2>7, <2>8 DEF VotesMove
<1> QED
  BY <1>4, <1>5, <1>6

LEMMA VotesStep ==
    ASSUME MaxCrashes = 0, ElectionInvariant, NeverRestarted, [Next]_vars
    PROVE  VotesMove
<1>1. TypeOK /\ TypeOK' /\ epoch' = epoch
  BY TypeStep, NoRestart DEF ElectionInvariant
<1>2. ASSUME NEW n \in Node, NodeStep(n)
      PROVE  VotesMove
  <2>1. StartElection(n) \/ Quiet
    BY <1>1, <1>2, SendsAppendsQuiet, ClientQuiet, CrashQuiet DEF NodeStep
  <2> QED
    BY <1>1, <2>1, StartElectionVotes, QuietVotes
<1>3. ASSUME NEW m \in BagToSet(messages), MessageStep(m)
      PROVE  VotesMove
  <2>1. HandleVoteRequest(m) \/ HandleVoteResponse(m) \/ Quiet
    BY <1>1, <1>3, HandleAppendEntriesQuiet, HandleAppendEntriesResponseQuiet, LosesMessageQuiet
       DEF MessageStep
  <2> QED
    BY <1>1, <2>1, VoteRequestVotes, VoteResponseVotes, QuietVotes
<1>4. CASE UNCHANGED vars
  <2>1. Quiet
    BY <1>1, <1>4, UnchangedQuiet DEF vars
  <2> QED
    BY <1>1, <2>1, QuietVotes
<1> QED
  BY <1>2, <1>3, <1>4 DEF Next

LEMMA VotersStayStep ==
    ASSUME TypeOK, TypeOK', VotersStay, VotesMove
    PROVE  VotersStay'
<1> SUFFICES ASSUME NEW c \in Node, NEW v \in Node, Active(c)', v # c, HasVote(c, v)'
             PROVE  \/ currentTerm'[v] > currentTerm'[c]
                    \/ currentTerm'[v] = currentTerm'[c] /\ ~Active(v)'
  BY DEF VotersStay
<1>1. /\ currentTerm[c] \in Nat /\ currentTerm[v] \in Nat
      /\ currentTerm'[c] \in Nat /\ currentTerm'[v] \in Nat
      /\ currentTerm'[v] >= currentTerm[v]
  BY DEF TypeOK, VotesMove
<1>2. StandsOn(c) /\ (HasVote(c, v) \/ Granted(c, v))
  BY DEF VotesMove
<1>3. CASE HasVote(c, v)
  <2>1. \/ currentTerm[v] > currentTerm[c]
        \/ currentTerm[v] = currentTerm[c] /\ ~Active(v)
    BY <1>2, <1>3 DEF VotersStay, StandsOn
  <2>2. currentTerm'[c] = currentTerm[c]
    BY <1>2 DEF StandsOn
  <2>3. ~Active(v) /\ Active(v)' => currentTerm'[v] > currentTerm[v]
    BY DEF VotesMove, StandsOn
  <2> QED
    BY <1>1, <2>1, <2>2, <2>3
<1>4. CASE Granted(c, v)
  BY <1>2, <1>4 DEF Granted, StandsOn
<1> QED
  BY <1>2, <1>3, <1>4

-----------------------------------------------------------------------------
(* What a step does to the logs of a unanimous cluster *)

\* k begins with l.
Begins(l, k) == Len(l) <= Len(k) /\ \A i \in DOMAIN l : k[i] = l[i]

LEMMA PrefixOfSelf ==
    ASSUME NEW l \in Seq(Entry)
    PROVE  Begins(l, l)
BY DEF Begins

LEMMA PrefixOfAppend ==
    ASSUME NEW l \in Seq(Entry), NEW e
    PROVE  Begins(l, Append(l, e)) /\ Len(Append(l, e)) = Len(l) + 1
BY DEF Begins

\* Merging a part of k into a log that agrees with k copies from k and cuts nothing off.
LEMMA MergeCopies ==
    ASSUME NEW l \in Seq(Entry), NEW entries \in Seq(Entry), NEW k \in Seq(Entry),
           NEW prev \in Nat, prev <= Len(l), AgreeOnCommon(l, k),
           prev + Len(entries) <= Len(k),
           \A i \in DOMAIN entries : entries[i] = k[prev + i]
    PROVE  LET M == Merge(l, prev, entries) IN
           /\ M = l \/ (Begins(l, M) /\ Begins(M, k))
           /\ prev + Len(entries) <= Len(M)
<1> DEFINE M == Merge(l, prev, entries)
<1>1. CASE M = l /\ prev + Len(entries) <= Len(l)
  BY <1>1
<1>2. CASE ~(M = l /\ prev + Len(entries) <= Len(l))
  <2>1. PICK j \in 1..Len(entries) :
          /\ prev + j - 1 <= Len(l)
          /\ prev + j <= Len(l) => l[prev + j].term # entries[j].term
          /\ \A i \in 1..j-1 : prev + i <= Len(l) /\ l[prev + i].term = entries[i].term
          /\ Len(M) = prev + Len(entries)
          /\ \A i \in 1..prev + j - 1 : M[i] = l[i]
          /\ \A i \in prev + j..prev + Len(entries) : M[i] = entries[i - prev]
    BY <1>2, MergeElements, Zenon
  <2>2. M \in Seq(Entry)
    BY MergeType
  <2> HIDE DEF M
  <2>3. Len(entries) \in Nat /\ Len(l) \in Nat /\ Len(k) \in Nat /\ j \in 1..Len(entries)
    OBVIOUS
  <2>4. prev + j > Len(l)
    <3> SUFFICES ASSUME prev + j <= Len(l) PROVE FALSE
      BY <2>3
    <3>1. prev + j \in 1..Len(l) /\ prev + j \in 1..Len(k)
      BY <2>3
    <3>2. l[prev + j] = k[prev + j]
      BY <3>1 DEF AgreeOnCommon
    <3>3. entries[j] = k[prev + j]
      BY <2>3
    <3> QED
      BY <2>1, <3>2, <3>3
  <2>5. prev + j - 1 <= Len(l)
    BY <2>1
  <2>6. prev + j - 1 = Len(l)
    BY <2>3, <2>4, <2>5
  <2>7. Len(M) = prev + Len(entries)
    BY <2>1
  <2>8. \A i \in 1..Len(l) : M[i] = l[i]
    BY <2>1, <2>6
  <2>9. Begins(l, M)
    <3>1. Len(l) <= Len(M) /\ DOMAIN l = 1..Len(l)
      BY <2>3, <2>6, <2>7
    <3> QED
      BY <2>8, <3>1 DEF Begins
  <2>10. ASSUME NEW i \in 1..prev + Len(entries)
         PROVE  k[i] = M[i]
    <3>1. i \in 1..Len(k)
      BY <2>3
    <3>2. CASE i <= Len(l)
      <4>1. i \in 1..Len(l)
        BY <2>3, <3>2
      <4>2. l[i] = k[i]
        BY <3>1, <4>1 DEF AgreeOnCommon
      <4> QED
        BY <2>8, <4>1, <4>2
    <3>3. CASE ~(i <= Len(l))
      <4>1. i \in prev + j..prev + Len(entries) /\ i - prev \in 1..Len(entries)
        BY <2>3, <2>6, <3>3
      <4>2. M[i] = entries[i - prev]
        BY <2>1, <4>1
      <4>3. entries[i - prev] = k[prev + (i - prev)]
        BY <4>1
      <4>4. prev + (i - prev) = i
        OBVIOUS
      <4> QED
        BY <4>2, <4>3, <4>4
    <3> QED
      BY <3>2, <3>3
  <2>11. Begins(M, k)
    BY <2>2, <2>7, <2>10 DEF Begins
  <2>12. prev + Len(entries) <= Len(M)
    BY <2>3, <2>7
  <2> QED
    BY <2>9, <2>11, <2>12 DEF M
<1> QED
  BY <1>1, <1>2

\* A leader has every vote, so no rival has the leader's.
LEMMA LeaderVotesForNobody ==
    ASSUME TypeOK, LeaderHasAllVotes, VotersStay,
           NEW b \in Node, state[b] = Leader, NEW n \in Node, n # b, Active(n)
    PROVE  ~HasVote(n, b)
<1> SUFFICES ASSUME HasVote(n, b) PROVE FALSE
  OBVIOUS
<1>1. Active(b) /\ HasVote(b, n)
  BY DEF Active, HasVote, LeaderHasAllVotes, Leader, Follower
<1>2. currentTerm[n] > currentTerm[b]
  BY <1>1 DEF VotersStay
<1>3. currentTerm[b] > currentTerm[n]
  BY <1>1 DEF VotersStay
<1>4. currentTerm[n] \in Nat /\ currentTerm[b] \in Nat
  BY DEF TypeOK
<1> QED
  BY <1>2, <1>3, <1>4

LEMMA OneLeader ==
    ASSUME TypeOK, LeaderHasAllVotes, VotersStay,
           NEW a \in Node, NEW b \in Node, state[a] = Leader, state[b] = Leader
    PROVE  a = b
<1>1. Active(a) /\ HasVote(a, b)
  BY DEF Active, HasVote, LeaderHasAllVotes, Leader, Follower
<1> QED
  BY <1>1, LeaderVotesForNobody

NoNewLeader == \A a \in Node : state'[a] = Leader => state[a] = Leader

LogsStay == log' = log /\ NoNewLeader

\* A follower catches up with s.
LogCopied ==
    \E n, s \in Node : \E k \in Seq(Entry) :
        /\ log' = [log EXCEPT ![n] = k]
        /\ Begins(log[n], k)
        /\ Begins(k, log[s])
        /\ state'[n] = Follower
        /\ NoNewLeader

\* The leader of the longest log makes it longer.
LogLed ==
    \E n \in Node : \E e \in Entry :
        /\ log' = [log EXCEPT ![n] = Append(log[n], e)]
        /\ state'[n] = Leader
        /\ \A b \in Node : Len(log[b]) <= Len(log[n])

LogsMove == LogsStay \/ LogCopied \/ LogLed

LEMMA QuietLeaders ==
    ASSUME Quiet
    PROVE  NoNewLeader
BY DEF Quiet, NoNewLeader, Leader, Follower

LEMMA CommandLeads ==
    ASSUME TypeOK, NEW n \in Node, NEW t \in Nat, NEW noop, AppendCommand(n, t, noop),
           state'[n] = Leader, \A b \in Node : Len(log[b]) <= Len(log[n])
    PROVE  LogLed
<1> DEFINE e == [term |-> t, leader |-> n]
<1>1. e \in Entry
  BY DEF Entry
<1>2. log' = [log EXCEPT ![n] = Append(log[n], e)]
  BY DEF AppendCommand
<1> QED
  BY <1>1, <1>2 DEF LogLed

\* A request never cuts off an entry, and what it says is then in the receiver's log.
LEMMA AppendCopies ==
    ASSUME LogInvariant, TypeOK', NEW m \in BagToSet(messages), HandleAppendEntries(m)
    PROVE  /\ LogsStay \/ LogCopied
           /\ AcceptAppend(m) => m.prevLogIndex + Len(m.entries) <= Len(log'[m.dst])
<1> DEFINE n == m.dst
           s == m.src
           k == log[s]
           l == log[n]
           prev == m.prevLogIndex
<1>1. TypeOK
  BY DEF LogInvariant, ElectionInvariant
<1>2. m \in AppendRequest
  BY <1>1, MessageFields DEF TypeOK, HandleAppendEntries
<1>3. n \in Node /\ s \in Node /\ m.term \in Nat /\ prev \in Nat /\ m.entries \in Seq(Entry)
  BY <1>2 DEF AppendRequest
<1>4. l \in Seq(Entry) /\ k \in Seq(Entry) /\ AgreeOnCommon(l, k)
  BY <1>1, <1>3 DEF TypeOK, LogInvariant, OneLog
<1>5. /\ prev + Len(m.entries) <= Len(k)
      /\ m.prevLogTerm = TermAt(k, prev)
      /\ \A i \in DOMAIN m.entries : m.entries[i] = k[prev + i]
  BY DEF LogInvariant, MessagesFollowLog, Copied, HandleAppendEntries
<1>6. NoNewLeader
  BY <1>1, HandleAppendEntriesQuiet, QuietLeaders
<1>7. CASE RejectStaleAppend(m)
  <2>1. LogsStay
    BY <1>6, <1>7 DEF RejectStaleAppend, LogsStay
  <2>2. ~AcceptAppend(m)
    <3>1. currentTerm[n] \in Nat
      BY <1>1, <1>3 DEF TypeOK
    <3>2. m.term < currentTerm[n]
      BY <1>7 DEF RejectStaleAppend
    <3>3. AcceptAppend(m) => m.term >= currentTerm[n]
      BY DEF AcceptAppend
    <3> QED
      BY <1>3, <3>1, <3>2, <3>3
  <2> QED
    BY <2>1, <2>2
<1>8. CASE RejectInconsistentAppend(m)
  <2>1. prev > Len(l)
    <3> SUFFICES ASSUME ~(prev > Len(l)) PROVE FALSE
      OBVIOUS
    <3>1. prev > 0 /\ l[prev].term # m.prevLogTerm
      BY <1>3, <1>4, <1>8 DEF RejectInconsistentAppend, Consistent
    <3>2. prev \in DOMAIN l /\ prev \in DOMAIN k
      BY <1>3, <1>4, <1>5, <3>1
    <3>3. l[prev] = k[prev]
      BY <1>4, <3>2 DEF AgreeOnCommon
    <3> QED
      BY <1>5, <3>1, <3>2, <3>3 DEF TermAt
  <2>2. log' = [log EXCEPT ![n] = l]
    <3>1. log' = [log EXCEPT ![n] = IF prev <= Len(l) THEN SubSeq(l, 1, prev - 1) ELSE l]
      BY <1>8 DEF RejectInconsistentAppend
    <3>2. ~(prev <= Len(l))
      BY <1>3, <1>4, <2>1
    <3> QED
      BY <3>1, <3>2, Zenon
  <2>3. log' = log
    BY <1>1, <2>2 DEF TypeOK
  <2>4. ~AcceptAppend(m)
    BY <1>8 DEF RejectInconsistentAppend, AcceptAppend
  <2> QED
    BY <1>6, <2>3, <2>4 DEF LogsStay
<1>9. CASE AcceptAppend(m)
  <2> DEFINE M == Merge(l, prev, m.entries)
  <2>1. prev <= Len(l)
    BY <1>3, <1>4, <1>9 DEF AcceptAppend, Consistent
  <2>2. /\ log' = [log EXCEPT ![n] = M]
        /\ BecomeFollower(n, m.term)
    BY <1>9 DEF AcceptAppend
  <2> HIDE DEF n, s, k, l, prev
  <2>3. /\ M = l \/ (Begins(l, M) /\ Begins(M, k))
        /\ prev + Len(m.entries) <= Len(M)
    BY <1>3, <1>4, <1>5, <2>1, MergeCopies
  <2>4. M \in Seq(Entry)
    BY <1>3, <1>4, <2>1, MergeType
  <2> HIDE DEF M
  <2>5. log'[n] = M /\ state'[n] = Follower
    BY <1>1, <1>3, <2>2 DEF TypeOK, BecomeFollower
  <2>6. CASE M = l
    <3>1. log' = log
      BY <1>1, <2>2, <2>6 DEF TypeOK, l
    <3> QED
      BY <1>6, <2>3, <2>5, <3>1 DEF LogsStay, n, prev
  <2>7. CASE Begins(l, M) /\ Begins(M, k)
    <3>1. LogCopied
      BY <1>3, <1>6, <2>2, <2>4, <2>5, <2>7 DEF LogCopied, k, l
    <3> QED
      BY <2>3, <2>5, <3>1 DEF n, prev
  <2> QED
    BY <2>3, <2>6, <2>7
<1> QED
  BY <1>7, <1>8, <1>9 DEF HandleAppendEntries

LEMMA LogsStep ==
    ASSUME MaxCrashes = 0, LogInvariant, ElectionInvariant', [Next]_vars
    PROVE  LogsMove
<1>1. TypeOK /\ TypeOK' /\ ElectionInvariant /\ LeaderHasAllVotes'
  BY DEF LogInvariant, ElectionInvariant
<1>2. \A n \in Node : currentTerm[n] \in Nat
  BY <1>1 DEF TypeOK
<1>3. ASSUME NEW n \in Node, NodeStep(n)
      PROVE  LogsMove
  <2>1. CASE StartElection(n)
    <3>1. CASE Peers[n] = {}
      <4>1. BecomeLeader(n, currentTerm[n] + 1)
        BY <2>1, <3>1 DEF StartElection
      <4>2. state'[n] = Leader /\ AppendCommand(n, currentTerm[n] + 1, TRUE)
        BY <1>1, <4>1 DEF BecomeLeader, TypeOK
      <4>3. votesReceived'[n] = {n}
        BY <1>1, <2>1 DEF StartElection, TypeOK
      <4>4. Node = {n}
        BY <1>1, <4>2, <4>3 DEF LeaderHasAllVotes
      <4>5. \A b \in Node : Len(log[b]) <= Len(log[n])
        BY <1>1, <4>4 DEF TypeOK
      <4>6. currentTerm[n] + 1 \in Nat
        BY <1>2
      <4> QED
        BY <1>1, <4>2, <4>5, <4>6, CommandLeads DEF LogsMove
    <3>2. CASE Peers[n] # {}
      <4>1. log' = log /\ state' = [state EXCEPT ![n] = Candidate]
        BY <2>1, <3>2 DEF StartElection
      <4>2. NoNewLeader
        BY <1>1, <4>1 DEF NoNewLeader, TypeOK, Candidate, Leader
      <4> QED
        BY <4>1, <4>2 DEF LogsMove, LogsStay
    <3> QED
      BY <3>1, <3>2
  <2>2. CASE Propose(n)
    <3>1. AppendCommand(n, currentTerm[n], FALSE) /\ state[n] = Leader /\ state' = state
      BY <2>2 DEF Propose
    <3>2. \A b \in Node : Len(log[b]) <= Len(log[n])
      BY <3>1 DEF LogInvariant, LeaderIsLongest
    <3> QED
      BY <1>1, <1>2, <3>1, <3>2, CommandLeads DEF LogsMove
  <2>3. CASE ReplicateToAll(n) \/ Heartbeat(n) \/ Apply(n) \/ \E p \in proposals[n] : ReturnToClient(n, p)
    <3>1. log' = log /\ state' = state
      BY <2>3 DEF ReplicateToAll, Heartbeat, Apply, ReturnToClient, ProposeReturns, ProposeTimesOut
    <3> QED
      BY <3>1 DEF LogsMove, LogsStay, NoNewLeader
  <2>4. CASE Crash(n)
    BY <2>4 DEF Crash, LogInvariant, NeverRestarted
  <2> QED
    BY <1>3, <2>1, <2>2, <2>3, <2>4 DEF NodeStep
<1>4. ASSUME NEW m \in BagToSet(messages), MessageStep(m)
      PROVE  LogsMove
  <2> DEFINE n == m.dst
  <2>1. n \in Node
    BY <1>1, MessageFields DEF TypeOK
  <2>2. CASE HandleVoteRequest(m)
    <3>1. log' = log /\ NoNewLeader
      BY <1>1, <2>1, <2>2 DEF HandleVoteRequest, NoNewLeader, TypeOK, Follower, Leader
    <3> QED
      BY <3>1 DEF LogsMove, LogsStay
  <2>3. CASE HandleVoteResponse(m)
    <3> DEFINE votes == votesReceived[n] \cup {m.src}
    <3>1. CASE /\ ~(state[n] = Candidate /\ m.term > currentTerm[n])
               /\ state[n] = Candidate /\ m.granted /\ m.term = currentTerm[n]
               /\ Cardinality(votes) >= Quorum(n)
      <4>1. BecomeLeader(n, currentTerm[n]) /\ votesReceived' = [votesReceived EXCEPT ![n] = votes]
        BY <2>3, <3>1 DEF HandleVoteResponse
      <4>2. state'[n] = Leader /\ AppendCommand(n, currentTerm[n], TRUE)
        BY <1>1, <2>1, <4>1 DEF BecomeLeader, TypeOK
      <4>3. votes = Node
        BY <1>1, <2>1, <4>1, <4>2 DEF LeaderHasAllVotes, TypeOK
      <4>4. \A w \in Node : HasVote(n, w)
        <5>1. HasVote(n, m.src)
          BY <2>3, <3>1 DEF HasVote, Grant, HandleVoteResponse
        <5> QED
          BY <4>3, <5>1 DEF HasVote
      <4>5. \A b \in Node : ~(Len(log[b]) > Len(log[n]))
        BY <2>1, <3>1, <4>4 DEF LogInvariant, LongerLogWithholdsVote
      <4>6. \A b \in Node : Len(log[b]) <= Len(log[n])
        BY <1>1, <2>1, <4>5 DEF TypeOK
      <4> QED
        BY <1>1, <1>2, <2>1, <4>2, <4>6, CommandLeads DEF LogsMove
    <3>2. CASE ~(/\ ~(state[n] = Candidate /\ m.term > currentTerm[n])
                 /\ state[n] = Candidate /\ m.granted /\ m.term = currentTerm[n]
                 /\ Cardinality(votes) >= Quorum(n))
      <4>1. log' = log /\ (state' = state \/ BecomeFollower(n, m.term))
        BY <2>3, <3>2 DEF HandleVoteResponse
      <4>2. NoNewLeader
        BY <1>1, <2>1, <4>1 DEF NoNewLeader, BecomeFollower, TypeOK, Follower, Leader
      <4> QED
        BY <4>1, <4>2 DEF LogsMove, LogsStay
    <3> QED
      BY <3>1, <3>2
  <2>4. CASE HandleAppendEntries(m)
    BY <1>1, <2>4, AppendCopies DEF LogsMove
  <2>5. CASE HandleAppendEntriesResponse(m) \/ CallTimesOut(m) \/ Lose(m)
    <3>1. log' = log
      BY <2>5 DEF HandleAppendEntriesResponse, CallTimesOut, Lose
    <3>2. NoNewLeader
      BY <1>1, <2>5, HandleAppendEntriesResponseQuiet, LosesMessageQuiet, QuietLeaders
    <3> QED
      BY <3>1, <3>2 DEF LogsMove, LogsStay
  <2> QED
    BY <1>4, <2>2, <2>3, <2>4, <2>5 DEF MessageStep
<1>5. CASE UNCHANGED vars
  BY <1>5 DEF vars, LogsMove, LogsStay, NoNewLeader
<1> QED
  BY <1>3, <1>4, <1>5 DEF Next

-----------------------------------------------------------------------------
(* One log, which only grows *)

LEMMA LogsGrow ==
    ASSUME TypeOK, LogsMove
    PROVE  \A n \in Node : Begins(log[n], log'[n])
<1> SUFFICES ASSUME NEW n \in Node PROVE Begins(log[n], log'[n])
  OBVIOUS
<1>1. log[n] \in Seq(Entry)
  BY DEF TypeOK
<1>2. CASE log'[n] = log[n]
  BY <1>1, <1>2, PrefixOfSelf
<1>3. CASE LogsStay
  BY <1>2, <1>3 DEF LogsStay
<1>4. CASE LogCopied
  <2>1. PICK a \in Node : \E k \in Seq(Entry) :
          log' = [log EXCEPT ![a] = k] /\ Begins(log[a], k)
    BY <1>4 DEF LogCopied
  <2>2. \/ log'[n] = log[n]
        \/ Begins(log[n], log'[n])
    BY <2>1 DEF TypeOK
  <2> QED
    BY <1>2, <2>2
<1>5. CASE LogLed
  <2>1. PICK a \in Node, e \in Entry : log' = [log EXCEPT ![a] = Append(log[a], e)]
    BY <1>5 DEF LogLed
  <2>2. CASE n = a
    <3>1. log'[n] = Append(log[n], e)
      BY <2>1, <2>2 DEF TypeOK
    <3> QED
      BY <1>1, <3>1, PrefixOfAppend
  <2>3. CASE n # a
    BY <1>2, <2>1, <2>3 DEF TypeOK
  <2> QED
    BY <2>2, <2>3
<1> QED
  BY <1>3, <1>4, <1>5 DEF LogsMove

LEMMA OneLogStep ==
    ASSUME TypeOK, TypeOK', OneLog, LogsMove
    PROVE  OneLog'
<1>1. CASE LogsStay
  BY <1>1 DEF LogsStay, OneLog
<1>2. ASSUME NEW n \in Node, \A b \in Node : b # n => log'[b] = log[b] /\ AgreeOnCommon(log'[n], log[b])
      PROVE  OneLog'
  <2> SUFFICES ASSUME NEW a \in Node, NEW b \in Node, NEW i \in DOMAIN log'[a] \cap DOMAIN log'[b]
               PROVE  log'[a][i] = log'[b][i]
    BY DEF OneLog, AgreeOnCommon
  <2>1. CASE a # n /\ b # n
    BY <1>2, <2>1 DEF OneLog, AgreeOnCommon
  <2>2. CASE a = n /\ b = n
    BY <2>2
  <2>3. CASE a = n /\ b # n
    BY <1>2, <2>3 DEF AgreeOnCommon
  <2>4. CASE a # n /\ b = n
    BY <1>2, <2>4 DEF AgreeOnCommon
  <2> QED
    BY <2>1, <2>2, <2>3, <2>4
<1>3. CASE LogCopied
  <2>1. PICK n \in Node, s \in Node : \E k \in Seq(Entry) :
          log' = [log EXCEPT ![n] = k] /\ Begins(k, log[s])
    BY <1>3 DEF LogCopied
  <2>2. Begins(log'[n], log[s]) /\ \A b \in Node : b # n => log'[b] = log[b]
    BY <2>1 DEF TypeOK
  <2>3. log'[n] \in Seq(Entry) /\ log[s] \in Seq(Entry)
    BY DEF TypeOK
  <2>4. ASSUME NEW b \in Node
        PROVE  AgreeOnCommon(log'[n], log[b])
    <3>1. AgreeOnCommon(log[s], log[b])
      BY DEF OneLog
    <3>2. \A i \in DOMAIN log'[n] : i \in DOMAIN log[s] /\ log[s][i] = log'[n][i]
      BY <2>2, <2>3 DEF Begins
    <3> QED
      BY <3>1, <3>2 DEF AgreeOnCommon
  <2> QED
    BY <1>2, <2>2, <2>4
<1>4. CASE LogLed
  <2>1. PICK n \in Node, e \in Entry :
          /\ log' = [log EXCEPT ![n] = Append(log[n], e)]
          /\ \A b \in Node : Len(log[b]) <= Len(log[n])
    BY <1>4 DEF LogLed
  <2>2. log'[n] = Append(log[n], e) /\ \A b \in Node : b # n => log'[b] = log[b]
    BY <2>1 DEF TypeOK
  <2>3. ASSUME NEW b \in Node
        PROVE  AgreeOnCommon(log'[n], log[b])
    <3>1. AgreeOnCommon(log[n], log[b])
      BY DEF OneLog
    <3>2. log[n] \in Seq(Entry) /\ log[b] \in Seq(Entry) /\ Len(log[b]) <= Len(log[n])
      BY <2>1 DEF TypeOK
    <3>3. \A i \in DOMAIN log[b] : i \in DOMAIN log[n] /\ Append(log[n], e)[i] = log[n][i]
      BY <3>2
    <3> QED
      BY <2>2, <3>1, <3>3 DEF AgreeOnCommon
  <2> QED
    BY <1>2, <2>2, <2>3
<1> QED
  BY <1>1, <1>3, <1>4 DEF LogsMove

\* Whoever still stands for election has its log, since only followers copy.
LEMMA CandidateKeepsLog ==
    ASSUME TypeOK, LogsMove, NEW n \in Node, state'[n] = Candidate
    PROVE  log'[n] = log[n]
<1>1. Candidate # Follower /\ Candidate # Leader
  BY DEF Candidate, Follower, Leader
<1>2. CASE LogsStay
  BY <1>2 DEF LogsStay
<1>3. CASE LogCopied
  <2>1. PICK a \in Node : state'[a] = Follower /\ \E k : log' = [log EXCEPT ![a] = k]
    BY <1>3 DEF LogCopied
  <2> QED
    BY <1>1, <2>1 DEF TypeOK
<1>4. CASE LogLed
  <2>1. PICK a \in Node : state'[a] = Leader /\ \E k : log' = [log EXCEPT ![a] = k]
    BY <1>4 DEF LogLed
  <2> QED
    BY <1>1, <2>1 DEF TypeOK
<1> QED
  BY <1>2, <1>3, <1>4 DEF LogsMove

-----------------------------------------------------------------------------
(* Messages keep to the log *)

LEMMA VoteRequestOrigin ==
    ASSUME TypeOK, [Next]_vars, NEW m \in BagToSet(messages'), m.type = "vote_request",
           m \notin BagToSet(messages)
    PROVE  /\ m.lastLogIndex = Len(log[m.src])
           /\ m.lastLogTerm = LastTerm(log[m.src])
           /\ log' = log
<1>1. ASSUME NEW n \in Node, NodeStep(n)
      PROVE  /\ m.lastLogIndex = Len(log[m.src])
             /\ m.lastLogTerm = LastTerm(log[m.src])
             /\ log' = log
  <2>1. CASE StartElection(n)
    <3>1. Peers[n] # {} /\ log' = log
      BY <2>1 DEF StartElection
    <3>2. m \in {[type |-> "vote_request", src |-> n, dst |-> p, epoch |-> epoch[n],
                  term |-> currentTerm[n] + 1, lastLogIndex |-> Len(log[n]),
                  lastLogTerm |-> LastTerm(log[n])] : p \in Peers[n]}
      BY <2>1, <3>1, SendAdds DEF StartElection
    <3> QED
      BY <3>1, <3>2
  <2>2. CASE ~StartElection(n)
    <3>1. Quiet
      BY <1>1, <2>2, SendsAppendsQuiet, ClientQuiet, CrashQuiet DEF NodeStep
    <3> QED
      BY <3>1 DEF Quiet
  <2> QED
    BY <2>1, <2>2
<1>2. ASSUME NEW q \in BagToSet(messages), MessageStep(q)
      PROVE  FALSE
  <2>1. ~(\E t, b : m = AppendAnswer(q, t, b))
    BY DEF AppendAnswer
  <2>2. CallTimesOut(q) /\ m = [q EXCEPT !.epoch = 0]
    BY <1>2, <2>1, MessageStepSends
  <2>3. q \in AppendRequest
    BY <2>2, MessageFields DEF TypeOK, CallTimesOut
  <2> QED
    BY <2>2, <2>3 DEF AppendRequest
<1>3. ~UNCHANGED vars
  BY DEF vars
<1> QED
  BY <1>1, <1>2, <1>3 DEF Next

LEMMA AnswerOrigin ==
    ASSUME TypeOK, [Next]_vars, NEW m \in BagToSet(messages'), m.type = "append_response",
           m \notin BagToSet(messages)
    PROVE  \E q \in BagToSet(messages) :
             /\ HandleAppendEntries(q)
             /\ m.src = q.dst /\ m.dst = q.src
             /\ \/ m.matched = 0
                \/ AcceptAppend(q) /\ m.matched = q.prevLogIndex + Len(q.entries)
<1>1. ASSUME NEW n \in Node, NodeStep(n)
      PROVE  FALSE
  <2>1. CASE StartElection(n)
    BY <2>1, VoteStepSendsNoRequests
  <2>2. CASE ReplicateToAll(n) \/ Heartbeat(n)
    <3>1. PICK h : Send(AppendRequests(n, h))
      BY <2>2 DEF ReplicateToAll, Heartbeat
    <3>2. m \in AppendRequests(n, h)
      BY <3>1, SendAdds
    <3> QED
      BY <3>2 DEF AppendRequests
  <2>3. CASE Propose(n) \/ Apply(n) \/ Crash(n) \/ \E p \in proposals[n] : ReturnToClient(n, p)
    BY <2>3 DEF Propose, Apply, Crash, ReturnToClient, ProposeReturns, ProposeTimesOut
  <2> QED
    BY <1>1, <2>1, <2>2, <2>3 DEF NodeStep
<1>2. PICK q \in BagToSet(messages) : MessageStep(q)
  BY <1>1 DEF Next, vars
<1>3. CASE HandleAppendEntries(q) /\ \E t, b : m = AppendAnswer(q, t, b) /\ (b => AcceptAppend(q))
  BY <1>3 DEF AppendAnswer
<1>4. CASE CallTimesOut(q) /\ m = [q EXCEPT !.epoch = 0]
  <2>1. q \in AppendRequest
    BY <1>4, MessageFields DEF TypeOK, CallTimesOut
  <2> QED
    BY <1>4, <2>1 DEF AppendRequest
<1> QED
  BY <1>2, <1>3, <1>4, MessageStepSends

\* What a request says of its sender's log stays true while that log grows.
LEMMA CopiedLater ==
    ASSUME TypeOK, TypeOK', NEW m \in AppendRequest, Copied(m),
           Begins(log[m.src], log'[m.src])
    PROVE  Copied(m)'
<1> DEFINE l == log[m.src]
           k == log'[m.src]
           prev == m.prevLogIndex
<1>1. /\ m.src \in Node /\ prev \in Nat /\ m.entries \in Seq(Entry)
      /\ l \in Seq(Entry) /\ k \in Seq(Entry)
  BY DEF AppendRequest, TypeOK
<1>2. /\ prev + Len(m.entries) <= Len(l)
      /\ m.prevLogTerm = TermAt(l, prev)
      /\ \A i \in DOMAIN m.entries : m.entries[i] = l[prev + i]
  BY DEF Copied
<1>3. Len(l) <= Len(k) /\ \A i \in DOMAIN l : k[i] = l[i]
  BY DEF Begins
<1> HIDE DEF l, k, prev
<1>4. Len(m.entries) \in Nat /\ Len(l) \in Nat /\ Len(k) \in Nat
  BY <1>1
<1>5. prev + Len(m.entries) <= Len(k)
  BY <1>1, <1>2, <1>3, <1>4
<1>6. TermAt(k, prev) = TermAt(l, prev)
  <2>1. prev \in DOMAIN l <=> prev \in DOMAIN k
    BY <1>1, <1>2, <1>4, <1>5
  <2> QED
    BY <1>3, <2>1 DEF TermAt
<1>7. \A i \in DOMAIN m.entries : m.entries[i] = k[prev + i]
  <2>1. \A i \in DOMAIN m.entries : prev + i \in DOMAIN l
    BY <1>1, <1>2, <1>4
  <2> QED
    BY <1>2, <1>3, <2>1
<1> QED
  BY <1>2, <1>5, <1>6, <1>7 DEF Copied, k, prev

\* A round sends what its sender's log has.
LEMMA NewRequestCopies ==
    ASSUME TypeOK, TypeOK', PeersIndexed, NEW m \in AppendRequest, NewRequest(m)
    PROVE  Copied(m)'
<1>1. log' = log
  BY DEF NewRequest
<1>2. PICK n \in Node : \E p \in Peers[n] :
        /\ m.src = n
        /\ m.prevLogIndex = nextIndex[n][p] - 1
        /\ m.prevLogTerm = TermAt(log[n], nextIndex[n][p] - 1)
        /\ m.entries = SubSeq(log[n], nextIndex[n][p], Len(log[n]))
  BY DEF NewRequest
<1>3. PICK p \in Peers[n] :
        /\ m.src = n
        /\ m.prevLogIndex = nextIndex[n][p] - 1
        /\ m.prevLogTerm = TermAt(log[n], nextIndex[n][p] - 1)
        /\ m.entries = SubSeq(log[n], nextIndex[n][p], Len(log[n]))
  BY <1>2
<1> DEFINE l == log[n]
           next == nextIndex[n][p]
<1>4. l \in Seq(Entry) /\ next \in Nat \ {0} /\ next <= Len(l) + 1
  BY DEF TypeOK, PeersIndexed
<1> HIDE DEF l, next
<1>5. /\ Len(SubSeq(l, next, Len(l))) = Len(l) + 1 - next
      /\ \A i \in DOMAIN SubSeq(l, next, Len(l)) :
            i \in Nat /\ SubSeq(l, next, Len(l))[i] = l[next + i - 1]
  BY <1>4
<1>6. \A i \in Nat : next - 1 + i = next + i - 1
  BY <1>4
<1>7. next - 1 + Len(SubSeq(l, next, Len(l))) <= Len(l)
  BY <1>4, <1>5
<1>8. \A i \in DOMAIN SubSeq(l, next, Len(l)) : SubSeq(l, next, Len(l))[i] = l[next - 1 + i]
  BY <1>5, <1>6
<1>9. m.prevLogIndex = next - 1 /\ m.entries = SubSeq(l, next, Len(l)) /\ m.src = n
      /\ m.prevLogTerm = TermAt(l, next - 1)
  BY <1>3 DEF l, next
<1> QED
  BY <1>1, <1>7, <1>8, <1>9 DEF Copied, l

\* A vote request is about the log its candidate still has.
LEMMA CandidateStaysCurrent ==
    ASSUME LogInvariant, TypeOK', LogsMove, VotesMove, epoch' = epoch,
           NEW m \in BagToSet(messages), m.type = "vote_request"
    PROVE  Current(m)'
<1> DEFINE c == m.src
<1>1. TypeOK
  BY DEF LogInvariant, ElectionInvariant
<1>2. c \in Node /\ m.term \in Nat /\ currentTerm[c] \in Nat
  BY <1>1, MessageFields DEF TypeOK
<1> SUFFICES ASSUME m.epoch = epoch[c], m.term = currentTerm'[c], state'[c] = Candidate
             PROVE  m.lastLogIndex = Len(log'[c]) /\ m.lastLogTerm = LastTerm(log'[c])
  BY DEF Current
<1>3. m.term <= currentTerm[c]
  BY DEF LogInvariant, ElectionInvariant, CallsNotAhead, Called
<1>4. Candidate # Follower /\ Candidate # Leader
  BY DEF Candidate, Follower, Leader
<1>5. StandsOn(c)
  BY <1>2, <1>3, <1>4 DEF VotesMove, Active
<1>6. state[c] = Candidate /\ m.term = currentTerm[c]
  BY <1>1, <1>2, <1>4, <1>5 DEF StandsOn, TypeOK
<1>7. Current(m)
  BY DEF LogInvariant, MessagesFollowLog
<1> QED
  BY <1>1, <1>2, <1>6, <1>7, CandidateKeepsLog DEF Current

LEMMA LengthsGrow ==
    ASSUME TypeOK, TypeOK', \A n \in Node : Begins(log[n], log'[n])
    PROVE  \A n \in Node : Len(log[n]) \in Nat /\ Len(log'[n]) \in Nat /\ Len(log[n]) <= Len(log'[n])
BY DEF TypeOK, Begins

LEMMA BothGrow ==
    ASSUME TypeOK, TypeOK', NEW m \in Message, m.type = "append_response", BothHave(m),
           \A n \in Node : Begins(log[n], log'[n])
    PROVE  BothHave(m)'
<1>1. m \in AppendResponse
  BY DEF Message, VoteRequest, VoteResponse, AppendRequest
<1>2. m.src \in Node /\ m.dst \in Node /\ m.matched \in Nat
  BY <1>1 DEF AppendResponse
<1>3. \A n \in Node : Len(log[n]) \in Nat /\ Len(log'[n]) \in Nat /\ Len(log[n]) <= Len(log'[n])
  BY LengthsGrow
<1> QED
  BY <1>2, <1>3 DEF BothHave

LEMMA MessagesStep ==
    ASSUME LogInvariant, TypeOK', LogsMove, VotesMove, epoch' = epoch, [Next]_vars
    PROVE  MessagesFollowLog'
<1>1. TypeOK /\ PeersIndexed
  BY DEF LogInvariant, ElectionInvariant
<1>2. \A n \in Node : Begins(log[n], log'[n])
  BY <1>1, LogsGrow
<1>3. ASSUME NEW m \in BagToSet(messages'), m.type = "append_entries"
      PROVE  Copied(m)'
  <2>1. m \in AppendRequest
    BY <1>3 DEF TypeOK, Message, VoteRequest, VoteResponse, AppendResponse
  <2>2. m.src \in Node
    BY <2>1 DEF AppendRequest
  <2>3. CASE \E q \in BagToSet(messages) : SameRequest(m, q)
    <3>1. PICK q \in BagToSet(messages) : SameRequest(m, q)
      BY <2>3
    <3>2. Copied(q)
      BY <3>1 DEF LogInvariant, MessagesFollowLog, SameRequest
    <3>3. Copied(m)
      BY <3>1, <3>2 DEF SameRequest, Copied
    <3> QED
      BY <1>1, <1>2, <2>1, <2>2, <3>3, CopiedLater
  <2>4. CASE NewRequest(m)
    BY <1>1, <2>1, <2>4, NewRequestCopies
  <2> QED
    BY <1>1, <1>3, <2>3, <2>4, RequestOrigin
<1>4. ASSUME NEW m \in BagToSet(messages'), m.type = "vote_request"
      PROVE  Current(m)'
  <2>1. CASE m \in BagToSet(messages)
    BY <1>4, <2>1, CandidateStaysCurrent
  <2>2. CASE m \notin BagToSet(messages)
    BY <1>1, <1>4, <2>2, VoteRequestOrigin DEF Current
  <2> QED
    BY <2>1, <2>2
<1>5. ASSUME NEW m \in BagToSet(messages'), m.type = "append_response"
      PROVE  BothHave(m)'
  <2>1. m \in Message
    BY DEF TypeOK
  <2>2. CASE m \in BagToSet(messages)
    BY <1>1, <1>2, <1>5, <2>1, <2>2, BothGrow DEF LogInvariant, MessagesFollowLog
  <2>3. CASE m \notin BagToSet(messages)
    <3>1. PICK q \in BagToSet(messages) :
            /\ HandleAppendEntries(q)
            /\ m.src = q.dst /\ m.dst = q.src
            /\ \/ m.matched = 0
               \/ AcceptAppend(q) /\ m.matched = q.prevLogIndex + Len(q.entries)
      BY <1>1, <1>5, <2>3, AnswerOrigin
    <3>2. /\ q \in AppendRequest
          /\ q.prevLogIndex + Len(q.entries) <= Len(log[q.src])
      BY <1>1, <3>1, MessageFields DEF TypeOK, HandleAppendEntries, LogInvariant, MessagesFollowLog, Copied
    <3>3. AcceptAppend(q) => q.prevLogIndex + Len(q.entries) <= Len(log'[q.dst])
      BY <3>1, AppendCopies
    <3>4. q.src \in Node /\ q.dst \in Node /\ q.prevLogIndex \in Nat /\ q.entries \in Seq(Entry)
      BY <3>2 DEF AppendRequest
    <3>5. /\ Len(log[q.src]) \in Nat /\ Len(log'[q.src]) \in Nat /\ Len(log'[q.dst]) \in Nat
          /\ Len(log[q.src]) <= Len(log'[q.src])
      BY <1>1, <1>2, <3>4, LengthsGrow
    <3>6. q.prevLogIndex + Len(q.entries) \in Nat
      BY <3>4
    <3> QED
      BY <3>1, <3>2, <3>3, <3>5, <3>6 DEF BothHave
  <2> QED
    BY <2>2, <2>3
<1> QED
  BY <1>3, <1>4, <1>5 DEF MessagesFollowLog

-----------------------------------------------------------------------------
(* The leader's indexes *)

\* The indexes a step leaves fit the logs it found.
IndexesFit ==
    \A n \in Node : \A p \in Peers[n] :
        /\ nextIndex'[n][p] <= Len(log[n]) + 1
        /\ matchIndex'[n][p] <= Len(log[n])
        /\ matchIndex'[n][p] <= Len(log[p])

LEMMA LengthsType ==
    ASSUME TypeOK
    PROVE  \A n \in Node : Len(log[n]) \in Nat
BY DEF TypeOK

LEMMA IndexesUnchanged ==
    ASSUME PeersIndexed, UNCHANGED leaderVars
    PROVE  IndexesFit
BY DEF PeersIndexed, IndexesFit, leaderVars

\* A new leader starts over, as does a restarted node.
LEMMA IndexesReset ==
    ASSUME TypeOK, PeersIndexed, NEW n \in Node, NEW k \in Nat, k <= Len(log[n]) + 1,
           nextIndex' = [nextIndex EXCEPT ![n] = [p \in Peers[n] |-> k]],
           matchIndex' = [matchIndex EXCEPT ![n] = [p \in Peers[n] |-> 0]]
    PROVE  IndexesFit
<1> SUFFICES ASSUME NEW a \in Node, NEW p \in Peers[a]
             PROVE  /\ nextIndex'[a][p] <= Len(log[a]) + 1
                    /\ matchIndex'[a][p] <= Len(log[a])
                    /\ matchIndex'[a][p] <= Len(log[p])
  BY DEF IndexesFit
<1>1. CASE a # n
  BY <1>1 DEF PeersIndexed, TypeOK
<1>2. CASE a = n
  <2>1. nextIndex'[a][p] = k /\ matchIndex'[a][p] = 0
    BY <1>2 DEF TypeOK
  <2>2. p \in Node
    BY PeersAssumption
  <2>3. Len(log[a]) \in Nat /\ Len(log[p]) \in Nat
    BY <2>2, LengthsType
  <2> QED
    BY <1>2, <2>1, <2>3
<1> QED
  BY <1>1, <1>2

LEMMA BackOffStays ==
    ASSUME NEW i \in Nat \ {0}, NEW k \in Nat, i <= k + 1
    PROVE  BackOff(i) <= k + 1
BY MaxOfTwo, 1 \in Nat, i - 1 \in Nat DEF BackOff

LEMMA AnswerIndexes ==
    ASSUME LogInvariant, NEW m \in BagToSet(messages), HandleAppendEntriesResponse(m)
    PROVE  IndexesFit
<1> DEFINE n == m.dst
           q == m.src
           match == [matchIndex[n] EXCEPT ![q] = Max({@, m.matched})]
<1>1. TypeOK /\ PeersIndexed
  BY DEF LogInvariant, ElectionInvariant
<1>2. m \in AppendResponse
  BY <1>1, MessageFields DEF TypeOK, HandleAppendEntriesResponse
<1>3. n \in Node /\ q \in Node /\ m.matched \in Nat
  BY <1>2 DEF AppendResponse
<1>4. m.matched <= Len(log[n]) /\ m.matched <= Len(log[q])
  BY DEF LogInvariant, MessagesFollowLog, BothHave, HandleAppendEntriesResponse
<1>5. Len(log[n]) \in Nat /\ Len(log[q]) \in Nat
  BY SMTT(60), <1>1, <1>3 DEF TypeOK
<1>6. CASE UNCHANGED leaderVars
  BY <1>1, <1>6, IndexesUnchanged
<1>7. CASE /\ matchIndex' = [matchIndex EXCEPT ![n] = match]
           /\ nextIndex' = [nextIndex EXCEPT ![n][q] = m.matched + 1]
  <2> SUFFICES ASSUME NEW a \in Node, NEW p \in Peers[a]
               PROVE  /\ nextIndex'[a][p] <= Len(log[a]) + 1
                      /\ matchIndex'[a][p] <= Len(log[a])
                      /\ matchIndex'[a][p] <= Len(log[p])
    BY DEF IndexesFit
  <2>1. CASE a # n \/ p # q
    <3>1. nextIndex'[a][p] = nextIndex[a][p] /\ matchIndex'[a][p] = matchIndex[a][p]
      BY <1>1, <1>3, <1>7, <2>1 DEF TypeOK
    <3> QED
      BY <1>1, <3>1 DEF PeersIndexed
  <2>2. CASE a = n /\ p = q
    <3>1. matchIndex[n][q] \in Nat /\ q \in Peers[n]
      BY <1>1, <1>3, <2>2 DEF TypeOK
    <3>2. /\ nextIndex'[n][q] = m.matched + 1
          /\ matchIndex'[n][q] = Max({matchIndex[n][q], m.matched})
      BY <1>1, <1>3, <1>7, <3>1 DEF TypeOK
    <3>3. matchIndex'[n][q] \in {matchIndex[n][q], m.matched}
      BY <1>3, <3>1, <3>2, MaxOfTwo
    <3>4. matchIndex[n][q] <= Len(log[n]) /\ matchIndex[n][q] <= Len(log[q])
      BY <1>1, <1>3, <3>1 DEF PeersIndexed
    <3>5. matchIndex'[n][q] <= Len(log[n]) /\ matchIndex'[n][q] <= Len(log[q])
      BY <1>4, <3>3, <3>4
    <3>6. nextIndex'[n][q] <= Len(log[n]) + 1
      BY <1>3, <1>4, <1>5, <3>2
    <3> QED
      BY <2>2, <3>5, <3>6
  <2> QED
    BY <2>1, <2>2
<1>8. CASE /\ nextIndex' = [nextIndex EXCEPT ![n][q] = BackOff(@)]
           /\ UNCHANGED matchIndex
  <2> SUFFICES ASSUME NEW a \in Node, NEW p \in Peers[a]
               PROVE  nextIndex'[a][p] <= Len(log[a]) + 1
    BY <1>1, <1>8 DEF IndexesFit, PeersIndexed
  <2>1. CASE a # n \/ p # q
    <3>1. nextIndex'[a][p] = nextIndex[a][p]
      BY <1>1, <1>3, <1>8, <2>1 DEF TypeOK
    <3> QED
      BY <1>1, <3>1 DEF PeersIndexed
  <2>2. CASE a = n /\ p = q
    <3>1. nextIndex[n][q] \in Nat \ {0} /\ nextIndex[n][q] <= Len(log[n]) + 1
      BY <1>1, <1>3, <2>2 DEF TypeOK, PeersIndexed
    <3>2. nextIndex'[n][q] = BackOff(nextIndex[n][q])
      BY <1>1, <1>3, <1>8, <2>2 DEF TypeOK
    <3> QED
      BY <1>5, <2>2, <3>1, <3>2, BackOffStays
  <2> QED
    BY <2>1, <2>2
<1> QED
  BY <1>6, <1>7, <1>8 DEF HandleAppendEntriesResponse

LEMMA IndexesStep ==
    ASSUME LogInvariant, [Next]_vars
    PROVE  IndexesFit
<1>1. TypeOK /\ PeersIndexed
  BY DEF LogInvariant, ElectionInvariant
<1>2. \A n \in Node : Len(log[n]) \in Nat /\ Len(log[n]) + 1 \in Nat /\ 1 <= Len(log[n]) + 1
                      /\ Len(log[n]) + 1 <= Len(log[n]) + 1
  BY <1>1 DEF TypeOK
<1>3. ASSUME NEW n \in Node, NEW t, BecomeLeader(n, t)
      PROVE  IndexesFit
  BY <1>1, <1>2, <1>3, IndexesReset DEF BecomeLeader
<1>4. ASSUME NEW n \in Node, NodeStep(n)
      PROVE  IndexesFit
  <2>1. CASE StartElection(n)
    BY <1>1, <1>3, <2>1, IndexesUnchanged DEF StartElection
  <2>2. CASE Crash(n)
    <3>1. 1 \in Nat
      OBVIOUS
    <3> QED
      BY <1>1, <1>2, <2>2, <3>1, IndexesReset DEF Crash
  <2>3. CASE UNCHANGED leaderVars
    BY <1>1, <2>3, IndexesUnchanged
  <2> QED
    BY <1>4, <2>1, <2>2, <2>3 DEF NodeStep, ReplicateToAll, Heartbeat, Propose, Apply,
       ReturnToClient, ProposeReturns, ProposeTimesOut, leaderVars
<1>5. ASSUME NEW m \in BagToSet(messages), MessageStep(m)
      PROVE  IndexesFit
  <2>1. m.dst \in Node
    BY <1>1, MessageFields DEF TypeOK
  <2>2. CASE HandleVoteResponse(m)
    BY <1>1, <1>3, <2>1, <2>2, IndexesUnchanged DEF HandleVoteResponse
  <2>3. CASE HandleAppendEntriesResponse(m)
    BY <2>3, AnswerIndexes
  <2>4. CASE UNCHANGED leaderVars
    BY <1>1, <2>4, IndexesUnchanged
  <2> QED
    BY <1>5, <2>2, <2>3, <2>4 DEF MessageStep, HandleVoteRequest, HandleAppendEntries,
       CallTimesOut, Lose, leaderVars
<1>6. CASE UNCHANGED vars
  BY <1>1, <1>6, IndexesUnchanged DEF vars, leaderVars
<1> QED
  BY <1>4, <1>5, <1>6 DEF Next

LEMMA PeersStep ==
    ASSUME TypeOK, TypeOK', IndexesFit, \A n \in Node : Begins(log[n], log'[n])
    PROVE  PeersIndexed'
<1> SUFFICES ASSUME NEW n \in Node, NEW p \in Peers[n]
             PROVE  /\ nextIndex'[n][p] <= Len(log'[n]) + 1
                    /\ matchIndex'[n][p] <= Len(log'[n])
                    /\ matchIndex'[n][p] <= Len(log'[p])
  BY DEF PeersIndexed
<1>1. p \in Node
  BY PeersAssumption
<1>2. nextIndex'[n][p] \in Nat /\ matchIndex'[n][p] \in Nat
  BY DEF TypeOK
<1>3. /\ Len(log[n]) \in Nat /\ Len(log'[n]) \in Nat /\ Len(log[n]) <= Len(log'[n])
      /\ Len(log[p]) \in Nat /\ Len(log'[p]) \in Nat /\ Len(log[p]) <= Len(log'[p])
  BY <1>1, LengthsGrow
<1>4. /\ nextIndex'[n][p] <= Len(log[n]) + 1
      /\ matchIndex'[n][p] <= Len(log[n])
      /\ matchIndex'[n][p] <= Len(log[p])
  BY DEF IndexesFit
<1> QED
  BY SMTT(60), <1>2, <1>3, <1>4

-----------------------------------------------------------------------------
(* Committing and applying *)

Applies(n) ==
    /\ lastApplied[n] < commitIndex[n]
    /\ lastApplied'[n] = lastApplied[n] + 1
    /\ applied'[n] = Append(applied[n], log[n][lastApplied[n] + 1])
    /\ UNCHANGED <<log, commitIndex>>

\* A step commits entries of n's log, or applies the first committed one.
CommitsMove(n) ==
    /\ commitIndex[n] <= commitIndex'[n]
    /\ commitIndex'[n] <= Len(log'[n])
    /\ (lastApplied'[n] = lastApplied[n] /\ applied'[n] = applied[n]) \/ Applies(n)

LEMMA CommitsStay ==
    ASSUME TypeOK, TypeOK', CommittedInLog, \A n \in Node : Begins(log[n], log'[n]),
           NEW n \in Node, commitIndex'[n] = commitIndex[n],
           UNCHANGED applyVars
    PROVE  CommitsMove(n)
<1>1. /\ Len(log[n]) \in Nat /\ Len(log'[n]) \in Nat /\ Len(log[n]) <= Len(log'[n])
      /\ commitIndex[n] \in Nat /\ commitIndex[n] <= Len(log[n])
  BY LengthsGrow DEF TypeOK, CommittedInLog
<1>2. commitIndex[n] <= commitIndex'[n] /\ commitIndex'[n] <= Len(log'[n])
  BY <1>1
<1> QED
  BY <1>2 DEF CommitsMove, applyVars

LEMMA ApplyCommits ==
    ASSUME TypeOK, CommittedInLog, NEW a \in Node, Apply(a)
    PROVE  \A n \in Node : CommitsMove(n)
<1> SUFFICES ASSUME NEW n \in Node PROVE CommitsMove(n)
  OBVIOUS
<1>1. /\ lastApplied[a] < commitIndex[a] /\ UNCHANGED <<log, commitIndex>>
      /\ lastApplied' = [lastApplied EXCEPT ![a] = lastApplied[a] + 1]
      /\ applied' = [applied EXCEPT ![a] = IF lastApplied[a] + 1 <= Len(log[a])
                                           THEN Append(@, log[a][lastApplied[a] + 1]) ELSE @]
  BY DEF Apply, ToApply
<1>2. /\ lastApplied[a] \in Nat /\ commitIndex[a] \in Nat /\ Len(log[a]) \in Nat
      /\ commitIndex[a] <= Len(log[a])
  BY DEF TypeOK, CommittedInLog
<1>3. lastApplied[a] + 1 <= Len(log[a])
  BY <1>1, <1>2
<1>4. commitIndex[n] <= commitIndex'[n] /\ commitIndex'[n] <= Len(log'[n])
  BY <1>1 DEF TypeOK, CommittedInLog
<1>5. CASE n = a
  BY <1>1, <1>3, <1>4, <1>5 DEF CommitsMove, Applies, TypeOK
<1>6. CASE n # a
  BY <1>1, <1>4, <1>6 DEF CommitsMove, TypeOK
<1> QED
  BY <1>5, <1>6

LEMMA AnswerCommits ==
    ASSUME LogInvariant, TypeOK', \A n \in Node : Begins(log[n], log'[n]),
           NEW m \in BagToSet(messages), HandleAppendEntriesResponse(m)
    PROVE  \A n \in Node : CommitsMove(n)
<1> DEFINE b == m.dst
<1>1. TypeOK /\ CommittedInLog
  BY DEF LogInvariant, ElectionInvariant, AppliedIsPrefix, CommittedInLog
<1>2. b \in Node
  BY <1>1, MessageFields DEF TypeOK
<1>3. UNCHANGED <<log, applyVars>>
  BY DEF HandleAppendEntriesResponse
<1>4. CASE UNCHANGED commitIndex
  BY <1>1, <1>3, <1>4, CommitsStay
<1>5. ASSUME NEW match, AdvanceCommitIndex(b, match)
      PROVE  \A n \in Node : CommitsMove(n)
  <2>1. CASE Committable(b, match) = {}
    BY <1>4, <1>5, <2>1 DEF AdvanceCommitIndex
  <2>2. CASE Committable(b, match) # {}
    <3> DEFINE i == Max(Committable(b, match))
    <3>1. i \in commitIndex[b] + 1 .. Len(log[b])
      BY <1>1, <1>2, <2>2, CommittableMax DEF Committable
    <3>2. commitIndex' = [commitIndex EXCEPT ![b] = i]
      BY <1>5, <2>2 DEF AdvanceCommitIndex
    <3> HIDE DEF i
    <3>3. commitIndex'[b] = i
      BY <1>1, <1>2, <3>2 DEF TypeOK
    <3>4. commitIndex[b] \in Nat
      BY <1>1, <1>2 DEF TypeOK
    <3>5. commitIndex[b] <= i /\ i <= Len(log[b])
      BY <3>1, <3>4
    <3>6. CommitsMove(b)
      BY <1>3, <3>3, <3>5 DEF CommitsMove, applyVars
    <3>7. \A n \in Node : n # b => commitIndex'[n] = commitIndex[n]
      BY <1>1, <1>2, <3>2 DEF TypeOK
    <3> QED
      BY <1>1, <1>3, <3>6, <3>7, CommitsStay
  <2> QED
    BY <2>1, <2>2
<1> QED
  BY <1>4, <1>5 DEF HandleAppendEntriesResponse

LEMMA CommitFromLeaderBounds ==
    ASSUME NEW c \in Nat, NEW d \in Nat, NEW k \in Nat, c <= k
    PROVE  c <= CommitFromLeader(c, d, k) /\ CommitFromLeader(c, d, k) <= k
BY MinOfTwo DEF CommitFromLeader

LEMMA AppendCommits ==
    ASSUME LogInvariant, TypeOK', \A n \in Node : Begins(log[n], log'[n]),
           NEW m \in BagToSet(messages), HandleAppendEntries(m)
    PROVE  \A n \in Node : CommitsMove(n)
<1> DEFINE b == m.dst
           M == Merge(log[b], m.prevLogIndex, m.entries)
<1>1. TypeOK /\ CommittedInLog
  BY DEF LogInvariant, ElectionInvariant, AppliedIsPrefix, CommittedInLog
<1>2. m \in AppendRequest
  BY <1>1, MessageFields DEF TypeOK, HandleAppendEntries
<1>3. b \in Node /\ m.leaderCommit \in Nat
  BY <1>2 DEF AppendRequest
<1>4. UNCHANGED applyVars
  BY DEF HandleAppendEntries
<1>5. CASE RejectStaleAppend(m) \/ RejectInconsistentAppend(m)
  <2>1. UNCHANGED commitIndex
    BY <1>5 DEF RejectStaleAppend, RejectInconsistentAppend
  <2> QED
    BY <1>1, <1>4, <2>1, CommitsStay
<1>6. CASE AcceptAppend(m)
  <2>1. /\ log' = [log EXCEPT ![b] = M]
        /\ commitIndex' = [commitIndex EXCEPT ![b] =
              CommitFromLeader(commitIndex[b], m.leaderCommit, Len(M))]
    BY <1>6 DEF AcceptAppend
  <2> HIDE DEF M
  <2>2. /\ log'[b] = M
        /\ commitIndex'[b] = CommitFromLeader(commitIndex[b], m.leaderCommit, Len(M))
        /\ \A n \in Node : n # b => commitIndex'[n] = commitIndex[n]
    BY <1>1, <1>3, <2>1 DEF TypeOK
  <2>3. /\ Len(log[b]) \in Nat /\ Len(M) \in Nat /\ Len(log[b]) <= Len(M)
    BY <1>1, <1>3, <2>2, LengthsGrow
  <2>4. commitIndex[b] \in Nat /\ commitIndex[b] <= Len(log[b])
    BY <1>1, <1>3 DEF TypeOK, CommittedInLog
  <2>5. commitIndex[b] <= Len(M)
    BY <2>3, <2>4
  <2>6. commitIndex[b] <= commitIndex'[b] /\ commitIndex'[b] <= Len(M)
    BY <1>3, <2>2, <2>3, <2>4, <2>5, CommitFromLeaderBounds
  <2>7. CommitsMove(b)
    BY <1>4, <2>2, <2>6 DEF CommitsMove, applyVars
  <2> QED
    BY <1>1, <1>4, <2>2, <2>7, CommitsStay
<1> QED
  BY <1>5, <1>6 DEF HandleAppendEntries

LEMMA CommitsStep ==
    ASSUME LogInvariant, TypeOK', MaxCrashes = 0, LogsMove, [Next]_vars
    PROVE  \A n \in Node : CommitsMove(n)
<1>1. TypeOK /\ CommittedInLog /\ \A n \in Node : Begins(log[n], log'[n])
  BY LogsGrow DEF LogInvariant, ElectionInvariant, AppliedIsPrefix, CommittedInLog
<1>2. CASE UNCHANGED <<commitIndex, applyVars>>
  BY <1>1, <1>2, CommitsStay
<1>3. ASSUME NEW a \in Node, NodeStep(a)
      PROVE  \A n \in Node : CommitsMove(n)
  <2>1. CASE Apply(a)
    BY <1>1, <2>1, ApplyCommits
  <2>2. ~Crash(a)
    BY DEF Crash, LogInvariant, NeverRestarted
  <2> QED
    BY <1>2, <1>3, <2>1, <2>2 DEF NodeStep, StartElection, ReplicateToAll, Heartbeat, Propose,
       ReturnToClient, ProposeReturns, ProposeTimesOut
<1>4. ASSUME NEW m \in BagToSet(messages), MessageStep(m)
      PROVE  \A n \in Node : CommitsMove(n)
  BY <1>1, <1>2, <1>4, AppendCommits, AnswerCommits DEF MessageStep, HandleVoteRequest,
     HandleVoteResponse, CallTimesOut, Lose
<1>5. CASE UNCHANGED vars
  BY <1>2, <1>5 DEF vars, applyVars
<1> QED
  BY <1>3, <1>4, <1>5 DEF Next

LEMMA SameElements ==
    ASSUME NEW s \in Seq(Entry), NEW t \in Seq(Entry),
           Len(s) = Len(t), \A i \in 1..Len(s) : s[i] = t[i]
    PROVE  s = t
OBVIOUS

LEMMA PrefixLater ==
    ASSUME NEW l \in Seq(Entry), NEW k \in Seq(Entry), Begins(l, k), NEW i \in 0..Len(l)
    PROVE  SubSeq(k, 1, i) = SubSeq(l, 1, i)
<1>1. Len(l) \in Nat /\ Len(k) \in Nat /\ Len(l) <= Len(k) /\ \A j \in 1..Len(l) : k[j] = l[j]
  BY DEF Begins
<1>2. /\ SubSeq(k, 1, i) \in Seq(Entry) /\ SubSeq(l, 1, i) \in Seq(Entry)
      /\ Len(SubSeq(k, 1, i)) = i /\ Len(SubSeq(l, 1, i)) = i
      /\ \A j \in 1..i : SubSeq(k, 1, i)[j] = k[j] /\ SubSeq(l, 1, i)[j] = l[j]
  BY <1>1
<1>3. \A j \in 1..i : SubSeq(k, 1, i)[j] = SubSeq(l, 1, i)[j]
  BY <1>1, <1>2
<1> QED
  BY <1>2, <1>3, SameElements

LEMMA AppliedStep ==
    ASSUME TypeOK, TypeOK', AppliedIsPrefix, \A n \in Node : CommitsMove(n),
           \A n \in Node : Begins(log[n], log'[n])
    PROVE  AppliedIsPrefix'
<1> SUFFICES ASSUME NEW n \in Node
             PROVE  /\ commitIndex'[n] <= Len(log'[n])
                    /\ lastApplied'[n] <= commitIndex'[n]
                    /\ applied'[n] = SubSeq(log'[n], 1, lastApplied'[n])
  BY DEF AppliedIsPrefix
<1> DEFINE i == lastApplied[n]
<1>1. /\ log[n] \in Seq(Entry) /\ log'[n] \in Seq(Entry) /\ Len(log[n]) \in Nat
      /\ i \in Nat /\ commitIndex[n] \in Nat /\ commitIndex'[n] \in Nat
  BY DEF TypeOK
<1>2. i <= commitIndex[n] /\ commitIndex[n] <= Len(log[n]) /\ applied[n] = SubSeq(log[n], 1, i)
  BY DEF AppliedIsPrefix
<1>3. commitIndex[n] <= commitIndex'[n] /\ commitIndex'[n] <= Len(log'[n])
  BY DEF CommitsMove
<1>4. CASE lastApplied'[n] = i /\ applied'[n] = applied[n]
  <2>1. i \in 0..Len(log[n]) /\ i <= commitIndex'[n]
    BY <1>1, <1>2, <1>3
  <2>2. SubSeq(log'[n], 1, i) = SubSeq(log[n], 1, i)
    BY <1>1, <2>1, PrefixLater
  <2> QED
    BY <1>2, <1>3, <1>4, <2>1, <2>2
<1>5. CASE Applies(n)
  <2>1. /\ i < commitIndex[n] /\ lastApplied'[n] = i + 1
        /\ applied'[n] = Append(applied[n], log[n][i + 1])
        /\ log' = log /\ commitIndex' = commitIndex
    BY <1>5 DEF Applies
  <2>2. i + 1 \in 1..Len(log[n]) /\ i + 1 <= commitIndex'[n]
    BY <1>1, <1>2, <2>1
  <2> HIDE DEF i
  <2>3. SubSeq(log[n], 1, i + 1) = Append(SubSeq(log[n], 1, i), log[n][i + 1])
    <3>1. i \in Nat /\ log[n] \in Seq(Entry)
      BY <1>1 DEF i
    <3> QED
      BY <2>2, <3>1, SMTT(30)
  <2> QED
    BY <1>2, <1>3, <2>1, <2>2, <2>3
<1> QED
  BY <1>4, <1>5 DEF CommitsMove

-----------------------------------------------------------------------------
(* The leader has the longest log *)

LEMMA OneLeaderLater ==
    (TypeOK /\ LeaderHasAllVotes /\ VotersStay =>
        \A a, b \in Node : state[a] = Leader /\ state[b] = Leader => a = b)'
<1>1. TypeOK /\ LeaderHasAllVotes /\ VotersStay =>
        \A a, b \in Node : state[a] = Leader /\ state[b] = Leader => a = b
  BY OneLeader
<1> QED
  BY <1>1, PTL

LEMMA LeaderVotesForNobodyLater ==
    (TypeOK /\ LeaderHasAllVotes /\ VotersStay =>
        \A b, n \in Node : state[b] = Leader /\ n # b /\ Active(n) => ~HasVote(n, b))'
<1>1. TypeOK /\ LeaderHasAllVotes /\ VotersStay =>
        \A b, n \in Node : state[b] = Leader /\ n # b /\ Active(n) => ~HasVote(n, b)
  BY LeaderVotesForNobody
<1> QED
  BY <1>1, PTL

LEMMA LengthsTypeLater ==
    ASSUME TypeOK'
    PROVE  \A n \in Node : Len(log'[n]) \in Nat
BY DEF TypeOK

\* In LogLed and in LogCopied, whose step it was.
LEMMA LongestStep ==
    ASSUME TypeOK, TypeOK', LeaderIsLongest, LogsMove, VotersStay', LeaderHasAllVotes'
    PROVE  LeaderIsLongest'
<1> SUFFICES ASSUME NEW n \in Node, state'[n] = Leader, NEW b \in Node
             PROVE  Len(log'[b]) <= Len(log'[n])
  BY DEF LeaderIsLongest
<1>1. CASE LogsStay
  BY <1>1 DEF LogsStay, NoNewLeader, LeaderIsLongest
<1>2. CASE LogCopied
  <2>1. PICK a \in Node, s \in Node : \E k \in Seq(Entry) :
          /\ log' = [log EXCEPT ![a] = k]
          /\ Begins(k, log[s])
          /\ state'[a] = Follower
          /\ NoNewLeader
    BY <1>2 DEF LogCopied
  <2>2. a # n /\ state[n] = Leader
    BY <2>1 DEF NoNewLeader, Follower, Leader
  <2>3. \A c \in Node : Len(log[c]) <= Len(log[n])
    BY <2>2 DEF LeaderIsLongest
  <2>4. log'[n] = log[n] /\ (b # a => log'[b] = log[b]) /\ (b = a => Len(log'[b]) <= Len(log[s]))
    BY <2>1, <2>2 DEF TypeOK, Begins
  <2>5. Len(log'[b]) \in Nat /\ Len(log[s]) \in Nat /\ Len(log[n]) \in Nat
    BY LengthsType, LengthsTypeLater
  <2> QED
    BY <2>3, <2>4, <2>5
<1>3. CASE LogLed
  <2>1. PICK a \in Node, e \in Entry :
          /\ log' = [log EXCEPT ![a] = Append(log[a], e)]
          /\ state'[a] = Leader
          /\ \A c \in Node : Len(log[c]) <= Len(log[a])
    BY <1>3 DEF LogLed
  <2>2. a = n
    BY <2>1, OneLeaderLater
  <2>3. log'[n] = Append(log[n], e) /\ (b # n => log'[b] = log[b])
    BY <2>1, <2>2 DEF TypeOK
  <2>4. log[n] \in Seq(Entry) /\ Len(log[n]) \in Nat /\ Len(log[b]) \in Nat
    BY LengthsType DEF TypeOK
  <2>5. Len(log'[n]) = Len(log[n]) + 1
    BY <2>3, <2>4, PrefixOfAppend
  <2>6. Len(log[b]) <= Len(log[n])
    BY <2>1, <2>2
  <2> QED
    BY <2>3, <2>4, <2>5, <2>6
<1> QED
  BY <1>1, <1>2, <1>3 DEF LogsMove

-----------------------------------------------------------------------------
(* Votes and the length of logs *)

LEMMA LastTermOfExtension ==
    ASSUME NEW l \in Seq(Entry), NEW k \in Seq(Entry), NEW t \in Nat, InOrder(k, t),
           AgreeOnCommon(l, k), Len(l) < Len(k)
    PROVE  ~(LastTerm(l) > LastTerm(k))
<1>1. Len(k) \in DOMAIN k /\ k # <<>> /\ k[Len(k)].term \in Nat
  <2>1. Len(k) \in DOMAIN k /\ k # <<>>
    OBVIOUS
  <2> QED
    BY <2>1, EntryTerm
<1>2. LastTerm(k) = k[Len(k)].term
  BY <1>1 DEF LastTerm
<1>3. CASE l = <<>>
  BY <1>1, <1>2, <1>3 DEF LastTerm
<1>4. CASE l # <<>>
  <2>1. Len(l) \in DOMAIN l /\ Len(l) \in DOMAIN k /\ Len(l) <= Len(k)
    BY <1>4
  <2>2. l[Len(l)] = k[Len(l)]
    BY <2>1 DEF AgreeOnCommon
  <2>3. k[Len(l)].term <= k[Len(k)].term
    BY <1>1, <2>1 DEF InOrder
  <2>4. k[Len(l)].term \in Nat
    BY <2>1, EntryTerm
  <2>5. LastTerm(l) = k[Len(l)].term
    BY <1>4, <2>2 DEF LastTerm
  <2> QED
    BY <1>1, <1>2, <2>3, <2>4, <2>5
<1> QED
  BY <1>3, <1>4

\* log_ok in handle_vote_request: a node does not vote for a shorter log than its own.
LEMMA LongerRefuses ==
    ASSUME LogInvariant, NEW n \in Node, NEW w \in Node, state[n] = Candidate,
           Len(log[w]) > Len(log[n])
    PROVE  ~Granted(n, w)
<1> SUFFICES ASSUME NEW m \in BagToSet(messages), m.type = "vote_request",
                    m.src = n, m.epoch = epoch[n], m.term = currentTerm[n],
                    UpToDate(m, log[w])
             PROVE  FALSE
  BY DEF Granted, HandleVoteRequest
<1>1. m.lastLogIndex = Len(log[n]) /\ m.lastLogTerm = LastTerm(log[n])
  BY DEF LogInvariant, MessagesFollowLog, Current
<1>2. log[n] \in Seq(Entry) /\ log[w] \in Seq(Entry) /\ currentTerm[w] \in Nat
  BY DEF LogInvariant, ElectionInvariant, TypeOK
<1>3. Len(log[n]) \in Nat /\ Len(log[w]) \in Nat
  BY <1>2
<1>4. InOrder(log[w], currentTerm[w])
  BY OrderOfLogs DEF LogInvariant, TermsInvariant
<1>5. AgreeOnCommon(log[n], log[w])
  BY DEF LogInvariant, OneLog
<1>6. ~(LastTerm(log[n]) > LastTerm(log[w]))
  <2>1. Len(log[n]) < Len(log[w])
    BY <1>3
  <2> QED
    BY <1>2, <1>4, <1>5, <2>1, LastTermOfExtension
<1> QED
  BY <1>1, <1>3, <1>6 DEF UpToDate

LEMMA LongerStep ==
    ASSUME LogInvariant, TypeOK', LogsMove, VotesMove, VotersStay', LeaderHasAllVotes'
    PROVE  LongerLogWithholdsVote'
<1> SUFFICES ASSUME NEW n \in Node, state'[n] = Candidate,
                    NEW b \in Node, Len(log'[b]) > Len(log'[n])
             PROVE  \E w \in Node : Len(log'[w]) > Len(log'[n]) /\ ~HasVote(n, w)'
  BY DEF LongerLogWithholdsVote
<1>1. TypeOK
  BY DEF LogInvariant, ElectionInvariant
<1>2. log'[n] = log[n]
  BY <1>1, CandidateKeepsLog
<1>3. /\ \A a \in Node : Len(log[a]) \in Nat /\ Len(log'[a]) \in Nat
      /\ \A a \in Node : Len(log[a]) <= Len(log'[a])
  BY <1>1, LogsGrow, LengthsGrow
<1>4. Active(n)' /\ Candidate # Leader /\ Candidate # Follower
  BY DEF Active, Candidate, Follower, Leader
<1>5. CASE \A v \in Node : HasVote(n, v)' => v = n
  <2>1. b # n
    BY <1>3
  <2> QED
    BY <1>5, <2>1
<1>6. CASE StandsOn(n)
  <2>1. state[n] = Candidate
    BY <1>4, <1>6 DEF StandsOn
  <2>2. CASE \E a \in Node : Len(log[a]) > Len(log[n])
    <3>1. PICK w \in Node : Len(log[w]) > Len(log[n]) /\ ~HasVote(n, w)
      BY <2>1, <2>2 DEF LogInvariant, LongerLogWithholdsVote
    <3>2. ~HasVote(n, w)'
      BY <1>6, <2>1, <3>1, LongerRefuses DEF VotesMove
    <3>3. Len(log'[w]) > Len(log'[n])
      BY <1>2, <1>3, <3>1
    <3> QED
      BY <3>2, <3>3
  <2>3. CASE \A a \in Node : ~(Len(log[a]) > Len(log[n]))
    <3>1. \A a \in Node : Len(log[a]) <= Len(log[n])
      BY <1>3, <2>3
    <3>2. CASE LogsStay
      BY <2>3, <3>2 DEF LogsStay
    <3>3. CASE LogCopied
      <4>1. PICK a \in Node, s \in Node : \E k \in Seq(Entry) :
              log' = [log EXCEPT ![a] = k] /\ Begins(k, log[s])
        BY <3>3 DEF LogCopied
      <4>2. Len(log'[b]) <= Len(log[s]) \/ log'[b] = log[b]
        BY <1>1, <4>1 DEF TypeOK, Begins
      <4>3. Len(log[s]) <= Len(log[n]) /\ Len(log[b]) <= Len(log[n])
        BY <3>1
      <4>4. Len(log'[b]) <= Len(log[n])
        BY <1>3, <4>2, <4>3
      <4> QED
        BY <1>2, <1>3, <4>4
    <3>4. CASE LogLed
      <4>1. PICK a \in Node : state'[a] = Leader /\ \E k : log' = [log EXCEPT ![a] = k]
        BY <3>4 DEF LogLed
      <4>2. b = a
        BY <1>1, <1>2, <2>3, <4>1 DEF TypeOK
      <4>3. ~HasVote(n, b)'
        BY <1>4, <4>1, <4>2, LeaderVotesForNobodyLater
      <4> QED
        BY <4>3
    <3> QED
      BY <3>2, <3>3, <3>4 DEF LogsMove
  <2> QED
    BY <2>2, <2>3
<1> QED
  BY <1>4, <1>5, <1>6 DEF VotesMove

-----------------------------------------------------------------------------
(* The invariant of a unanimous cluster without restarts *)

LEMMA LogInit == Init => LogInvariant
<1> SUFFICES ASSUME Init PROVE LogInvariant
  OBVIOUS
<1>1. ElectionInvariant /\ TermsInvariant
  BY ElectionInit, TermsInit
<1>2. /\ BagToSet(messages) = {}
      /\ \A n \in Node : /\ epoch[n] = 1 /\ state[n] = Follower /\ log[n] = <<>>
                         /\ nextIndex[n] = [p \in Peers[n] |-> 1]
                         /\ matchIndex[n] = [p \in Peers[n] |-> 0]
                         /\ commitIndex[n] = 0 /\ lastApplied[n] = 0 /\ applied[n] = <<>>
  BY DEF Init, EmptyBag, SetToBag, BagToSet
<1>3. NeverRestarted /\ MessagesFollowLog
  BY <1>2 DEF NeverRestarted, MessagesFollowLog
<1>4. VotersStay /\ LeaderIsLongest /\ LongerLogWithholdsVote
  BY <1>2 DEF VotersStay, LeaderIsLongest, LongerLogWithholdsVote, Active, Follower, Candidate, Leader
<1>5. OneLog
  BY <1>2 DEF OneLog, AgreeOnCommon
<1>6. Len(<<>>) = 0 /\ SubSeq(<<>>, 1, 0) = <<>> /\ 0 <= 0
  OBVIOUS
<1>7. PeersIndexed
  <2> SUFFICES ASSUME NEW n \in Node, NEW p \in Peers[n]
               PROVE  /\ nextIndex[n][p] <= Len(log[n]) + 1
                      /\ matchIndex[n][p] <= Len(log[n])
                      /\ matchIndex[n][p] <= Len(log[p])
    BY DEF PeersIndexed
  <2>1. nextIndex[n] = [q \in Peers[n] |-> 1] /\ matchIndex[n] = [q \in Peers[n] |-> 0]
    BY <1>2
  <2>2. Len(log[n]) = 0 /\ Len(log[p]) = 0
    BY <1>2, <1>6, PeersAssumption
  <2>3. nextIndex[n][p] = 1 /\ matchIndex[n][p] = 0
    BY <2>1
  <2> QED
    BY <2>2, <2>3
<1>8. AppliedIsPrefix
  BY <1>2, <1>6, Zenon DEF AppliedIsPrefix
<1> QED
  BY <1>1, <1>3, <1>4, <1>5, <1>7, <1>8 DEF LogInvariant

LEMMA LogStep ==
    ASSUME Unanimous, MaxCrashes = 0, LogInvariant, [Next]_vars
    PROVE  LogInvariant'
<1>1. TypeOK /\ ElectionInvariant /\ TermsInvariant /\ NeverRestarted
  BY DEF LogInvariant, ElectionInvariant
<1>2. ElectionInvariant' /\ TermsInvariant' /\ NeverRestarted' /\ epoch' = epoch
  BY <1>1, ElectionStep, TermsStep, NoRestart
<1>3. TypeOK' /\ LeaderHasAllVotes'
  BY <1>2 DEF ElectionInvariant
<1>4. VotesMove /\ LogsMove
  BY <1>1, <1>2, VotesStep, LogsStep
<1>5. \A n \in Node : Begins(log[n], log'[n])
  BY <1>1, <1>4, LogsGrow
<1>6. VotersStay'
  BY <1>1, <1>3, <1>4, VotersStayStep DEF LogInvariant
<1>7. OneLog'
  BY <1>1, <1>3, <1>4, OneLogStep DEF LogInvariant
<1>8. MessagesFollowLog'
  BY <1>2, <1>3, <1>4, MessagesStep
<1>9. PeersIndexed'
  BY <1>1, <1>3, <1>5, IndexesStep, PeersStep
<1>10. AppliedIsPrefix'
  BY <1>1, <1>3, <1>4, <1>5, CommitsStep, AppliedStep DEF LogInvariant
<1>11. LeaderIsLongest'
  BY <1>1, <1>3, <1>4, <1>6, LongestStep DEF LogInvariant
<1>12. LongerLogWithholdsVote'
  BY <1>3, <1>4, <1>6, LongerStep
<1> QED
  BY <1>2, <1>6, <1>7, <1>8, <1>9, <1>10, <1>11, <1>12 DEF LogInvariant

\* A cluster that needs every vote and whose processes do not restart has one log,
\* of which the leader has all and every other node a beginning.
THEOREM LogInvariantHolds == Unanimous /\ MaxCrashes = 0 => (Spec => []LogInvariant)
<1> SUFFICES ASSUME Unanimous, MaxCrashes = 0 PROVE Spec => []LogInvariant
  OBVIOUS
<1>1. Init => LogInvariant
  BY LogInit
<1>2. LogInvariant /\ [Next]_vars => LogInvariant'
  BY LogStep
<1> QED
  BY <1>1, <1>2, PTL DEF Spec

-----------------------------------------------------------------------------
(* What follows from it *)

LEMMA CommonPrefix ==
    ASSUME NEW l \in Seq(Entry), NEW k \in Seq(Entry), AgreeOnCommon(l, k),
           NEW i \in Nat, i <= Len(l), i <= Len(k)
    PROVE  SubSeq(l, 1, i) = SubSeq(k, 1, i)
<1>1. /\ SubSeq(k, 1, i) \in Seq(Entry) /\ SubSeq(l, 1, i) \in Seq(Entry)
      /\ Len(SubSeq(k, 1, i)) = i /\ Len(SubSeq(l, 1, i)) = i
      /\ \A j \in 1..i : SubSeq(k, 1, i)[j] = k[j] /\ SubSeq(l, 1, i)[j] = l[j]
  OBVIOUS
<1>2. \A j \in 1..i : l[j] = k[j]
  BY DEF AgreeOnCommon
<1>3. \A j \in 1..i : SubSeq(l, 1, i)[j] = SubSeq(k, 1, i)[j]
  BY <1>1, <1>2
<1> QED
  BY <1>1, <1>3, SameElements

LEMMA InvariantGivesVoters == LogInvariant => VotersFollow
<1> SUFFICES ASSUME LogInvariant, NEW c \in Node, state[c] # Follower, NEW v \in votesReceived[c] \ {c}
             PROVE  \/ currentTerm[v] > currentTerm[c]
                    \/ currentTerm[v] = currentTerm[c] /\ state[v] = Follower
  BY DEF VotersFollow
<1>1. v \in Node /\ HasVote(c, v) /\ Active(c)
  BY DEF LogInvariant, ElectionInvariant, TypeOK, HasVote, Active
<1> QED
  BY <1>1 DEF LogInvariant, VotersStay, Active

LEMMA InvariantGivesMatching == LogInvariant => LogMatching
<1> SUFFICES ASSUME LogInvariant, NEW a \in Node, NEW b \in Node,
                    NEW i \in DOMAIN log[a] \cap DOMAIN log[b]
             PROVE  SubSeq(log[a], 1, i) = SubSeq(log[b], 1, i)
  BY DEF LogMatching
<1>1. log[a] \in Seq(Entry) /\ log[b] \in Seq(Entry) /\ AgreeOnCommon(log[a], log[b])
  BY DEF LogInvariant, ElectionInvariant, TypeOK, OneLog
<1>2. i \in Nat /\ i <= Len(log[a]) /\ i <= Len(log[b])
  BY <1>1
<1> QED
  BY <1>1, <1>2, CommonPrefix

LEMMA InvariantGivesCommitted == LogInvariant => CommittedInLog
BY DEF LogInvariant, AppliedIsPrefix, CommittedInLog

LEMMA InvariantGivesApplied == LogInvariant => StateMachineSafety
<1> SUFFICES ASSUME LogInvariant, NEW a \in Node, NEW b \in Node,
                    NEW i \in DOMAIN applied[a] \cap DOMAIN applied[b]
             PROVE  applied[a][i] = applied[b][i]
  BY DEF StateMachineSafety, AgreeOnCommon
<1>1. AgreeOnCommon(log[a], log[b])
  BY DEF LogInvariant, OneLog
<1>2. ASSUME NEW n \in Node, i \in DOMAIN applied[n]
      PROVE  i \in DOMAIN log[n] /\ applied[n][i] = log[n][i]
  <2>1. log[n] \in Seq(Entry) /\ lastApplied[n] \in Nat /\ commitIndex[n] \in Nat
    BY DEF LogInvariant, ElectionInvariant, TypeOK
  <2>2. lastApplied[n] <= commitIndex[n] /\ commitIndex[n] <= Len(log[n])
    BY DEF LogInvariant, AppliedIsPrefix
  <2>3. lastApplied[n] <= Len(log[n])
    BY <2>1, <2>2
  <2>4. i \in DOMAIN SubSeq(log[n], 1, lastApplied[n]) /\ applied[n] = SubSeq(log[n], 1, lastApplied[n])
    BY <1>2 DEF LogInvariant, AppliedIsPrefix
  <2> QED
    BY <2>1, <2>3, <2>4
<1> QED
  BY <1>1, <1>2 DEF AgreeOnCommon

LEMMA InvariantGivesCompleteness == LogInvariant => LeaderCompleteness
<1> SUFFICES ASSUME LogInvariant, NEW a \in Node, NEW b \in Node, state[b] = Leader,
                    NEW i \in DOMAIN log[a]
             PROVE  i \in DOMAIN log[b] /\ log[b][i] = log[a][i]
  BY DEF LeaderCompleteness
<1>1. /\ log[a] \in Seq(Entry) /\ log[b] \in Seq(Entry)
      /\ Len(log[a]) <= Len(log[b]) /\ AgreeOnCommon(log[b], log[a])
  BY DEF LogInvariant, ElectionInvariant, TypeOK, LeaderIsLongest, OneLog
<1>2. i \in DOMAIN log[b]
  BY <1>1
<1> QED
  BY <1>1, <1>2 DEF AgreeOnCommon

\* Whoever's vote a candidate or leader counts stays out of that term's election,
\* although _become_follower forgets the vote.
THEOREM UnanimousVotersFollow == Unanimous /\ MaxCrashes = 0 => (Spec => []VotersFollow)
<1>1. Unanimous /\ MaxCrashes = 0 => (Spec => []LogInvariant)
  BY LogInvariantHolds
<1> QED
  BY <1>1, InvariantGivesVoters, PTL

\* Logs with the same term at an index are the same up to it: the check of
\* prev_log_term and the append loop do their work.
THEOREM UnanimousLogMatching == Unanimous /\ MaxCrashes = 0 => (Spec => []LogMatching)
<1>1. Unanimous /\ MaxCrashes = 0 => (Spec => []LogInvariant)
  BY LogInvariantHolds
<1> QED
  BY <1>1, InvariantGivesMatching, PTL

\* No two state machines get different commands at one position (_apply_loop).
THEOREM UnanimousStateMachineSafety == Unanimous /\ MaxCrashes = 0 => (Spec => []StateMachineSafety)
<1>1. Unanimous /\ MaxCrashes = 0 => (Spec => []LogInvariant)
  BY LogInvariantHolds
<1> QED
  BY <1>1, InvariantGivesApplied, PTL

\* A leader has every committed entry (log_ok in handle_vote_request).
THEOREM UnanimousLeaderCompleteness == Unanimous /\ MaxCrashes = 0 => (Spec => []LeaderCompleteness)
<1>1. Unanimous /\ MaxCrashes = 0 => (Spec => []LogInvariant)
  BY LogInvariantHolds
<1> QED
  BY <1>1, InvariantGivesCompleteness, PTL

\* A committed index has its entry, which _apply_loop would otherwise skip.
THEOREM UnanimousCommittedInLog == Unanimous /\ MaxCrashes = 0 => (Spec => []CommittedInLog)
<1>1. Unanimous /\ MaxCrashes = 0 => (Spec => []LogInvariant)
  BY LogInvariantHolds
<1> QED
  BY <1>1, InvariantGivesCommitted, PTL

-----------------------------------------------------------------------------
(* A commit needs a majority *)

\* The leader counts itself once more when its own address is in its peer list
\* (_advance_commit_index), which in a cluster of two lets it commit alone.
SelfCountHarmless == Cardinality(Node) # 2 \/ \A n \in Node : n \notin Peers[n]

\* Every set of nodes smaller than Node is smaller than a quorum.
LEMMA QuorumIsAll ==
    ASSUME Unanimous, NEW n \in Node
    PROVE  Quorum(n) >= Cardinality(Node)
<1>1. IsFiniteSet(Node) /\ IsFiniteSet(Node \ {n}) /\ IsFiniteSet(Peers[n])
  BY NodeAssumption, PeersAssumption, FS_Subset
<1>2. Cardinality(Node \ {n}) = Cardinality(Node) - 1
  BY <1>1, FS_RemoveElement
<1>3. Quorum(n) \in Nat /\ Cardinality(Node) \in Nat
  <2>1. Cardinality(Peers[n]) \in Nat /\ Cardinality(Node) \in Nat
    BY <1>1, FS_CardinalityType
  <2> QED
    BY <2>1 DEF Quorum
<1>4. ~(Cardinality(Node \ {n}) >= Quorum(n))
  <2>1. Node \ {n} \in SUBSET Node /\ Node \ {n} # Node
    OBVIOUS
  <2> QED
    BY <2>1 DEF Unanimous
<1>5. Cardinality(Node) - 1 < Quorum(n)
  BY <1>2, <1>3, <1>4
<1> QED
  BY <1>3, <1>5

\* The peers counted by _advance_commit_index and the node itself are a majority.
LEMMA CountedIsMajority ==
    ASSUME Unanimous, SelfCountHarmless, NEW n \in Node, NEW T \in SUBSET Peers[n],
           1 + Cardinality(T) >= Quorum(n)
    PROVE  2 * Cardinality(T \cup {n}) > Cardinality(Node)
<1>1. IsFiniteSet(Node) /\ IsFiniteSet(T) /\ T \cup {n} \in SUBSET Node /\ T \in SUBSET Node
  BY NodeAssumption, PeersAssumption, FS_Subset
<1>2. /\ Cardinality(T) \in Nat /\ Cardinality(Node) \in Nat
      /\ Cardinality(T \cup {n}) \in Nat /\ Cardinality(T \cup {n}) <= Cardinality(Node)
      /\ Cardinality(T \cup {n}) = IF n \in T THEN Cardinality(T) ELSE Cardinality(T) + 1
  BY <1>1, FS_CardinalityType, FS_Subset, FS_AddElement
<1>3. Quorum(n) >= Cardinality(Node)
  BY QuorumIsAll
<1>4. IsFiniteSet(Peers[n]) /\ Cardinality(Peers[n]) \in Nat
  BY <1>1, PeersAssumption, FS_Subset, FS_CardinalityType
<1>5. Quorum(n) \in Nat
  BY <1>4 DEF Quorum
<1>6. n \in T => Cardinality(Node) # 2 /\ Cardinality(T) >= 1
  <2> SUFFICES ASSUME n \in T PROVE Cardinality(Node) # 2 /\ Cardinality(T) >= 1
    OBVIOUS
  <2>1. Cardinality(T) # 0
    BY <1>1, FS_EmptySet
  <2> QED
    BY <1>2, <2>1 DEF SelfCountHarmless
<1>7. Cardinality(Node) >= 1
  <2>1. Cardinality(Node) # 0
    BY <1>1, FS_EmptySet
  <2> QED
    BY <1>2, <2>1
<1> DEFINE c == Cardinality(T)
           N == Cardinality(Node)
           s == Cardinality(T \cup {n})
           q == Quorum(n)
<1>8. /\ c \in Nat /\ N \in Nat /\ s \in Nat /\ q \in Nat /\ q >= N /\ 1 + c >= q
      /\ s <= N /\ N >= 1
      /\ (s = c /\ N # 2 /\ c >= 1) \/ s = c + 1
  BY <1>2, <1>3, <1>5, <1>6, <1>7
<1> HIDE DEF c, N, s, q
<1>9. 2 * s > N
  BY <1>8
<1> QED
  BY <1>9 DEF s, N

LEMMA CommitStep ==
    ASSUME Unanimous, SelfCountHarmless, LogInvariant, [Next]_vars, MaxCrashes = 0,
           NEW n \in Node, state[n] = Leader, commitIndex'[n] > commitIndex[n], state'[n] = Leader
    PROVE  2 * Cardinality({p \in Node : HasPrefix(log[p], SubSeq(log[n], 1, commitIndex'[n]))})
              > Cardinality(Node)
<1> DEFINE i == commitIndex'[n]
           H == {p \in Node : HasPrefix(log[p], SubSeq(log[n], 1, i))}
<1>1. TypeOK /\ TypeOK' /\ IndexesFit
  BY TypeStep, IndexesStep DEF LogInvariant, ElectionInvariant
<1>2. commitIndex'[n] # commitIndex[n]
  BY <1>1 DEF TypeOK
<1>3. Leader # Follower
  BY DEF Leader, Follower
<1>4. ASSUME NEW a \in Node, NodeStep(a)
      PROVE  FALSE
  <2>1. ~Crash(a)
    BY DEF Crash, LogInvariant, NeverRestarted
  <2>2. commitIndex' = commitIndex
    BY <1>4, <2>1 DEF NodeStep, StartElection, ReplicateToAll, Heartbeat, Propose, ReturnToClient,
       ProposeReturns, ProposeTimesOut, Apply
  <2> QED
    BY <1>2, <2>2
<1>5. PICK m \in BagToSet(messages) : HandleAppendEntries(m) \/ HandleAppendEntriesResponse(m)
  BY <1>2, <1>4 DEF Next, vars, MessageStep, HandleVoteRequest, HandleVoteResponse, CallTimesOut, Lose
<1>6. m.dst \in Node
  BY <1>1, MessageFields DEF TypeOK
<1>7. ~HandleAppendEntries(m)
  <2> SUFFICES ASSUME HandleAppendEntries(m) PROVE FALSE
    OBVIOUS
  <2>1. AcceptAppend(m)
    BY <1>2 DEF HandleAppendEntries, RejectStaleAppend, RejectInconsistentAppend
  <2>2. m.dst = n
    BY <1>1, <1>2, <1>6, <2>1 DEF AcceptAppend, TypeOK
  <2>3. state'[n] = Follower
    BY <1>1, <2>1, <2>2 DEF AcceptAppend, BecomeFollower, TypeOK
  <2> QED
    BY <1>3, <2>3
<1>8. PICK match : /\ matchIndex' = [matchIndex EXCEPT ![m.dst] = match]
                   /\ AdvanceCommitIndex(m.dst, match)
  BY <1>2, <1>5, <1>7 DEF HandleAppendEntriesResponse
<1>9. Committable(m.dst, match) # {} /\ m.dst = n
  <2>1. Committable(m.dst, match) # {}
    BY <1>2, <1>8 DEF AdvanceCommitIndex
  <2>2. \E k : commitIndex' = [commitIndex EXCEPT ![m.dst] = k]
    BY <1>8, <2>1 DEF AdvanceCommitIndex
  <2>3. m.dst = n
    BY <1>1, <1>2, <1>6, <2>2 DEF TypeOK
  <2> QED
    BY <2>1, <2>3
<1>10. i = Max(Committable(n, match)) /\ matchIndex'[n] = match
  BY <1>1, <1>8, <1>9 DEF AdvanceCommitIndex, TypeOK
<1>11. i \in Committable(n, match)
  BY <1>1, <1>9, <1>10, CommittableMax
<1> DEFINE T == {p \in Peers[n] : match[p] >= i}
<1>12. i \in commitIndex[n] + 1 .. Len(log[n]) /\ 1 + Cardinality(T) >= Quorum(n)
  BY <1>11 DEF Committable
<1>13. commitIndex[n] \in Nat /\ Len(log[n]) \in Nat /\ log[n] \in Seq(Entry)
  BY <1>1 DEF TypeOK
<1> HIDE DEF i
<1>14. i \in Nat /\ i <= Len(log[n])
  BY <1>12, <1>13
<1>15. ASSUME NEW p \in Node, i <= Len(log[p])
       PROVE  p \in H
  <2>1. log[p] \in Seq(Entry) /\ AgreeOnCommon(log[n], log[p])
    BY <1>1 DEF TypeOK, LogInvariant, OneLog
  <2>2. SubSeq(log[n], 1, i) = SubSeq(log[p], 1, i)
    BY <1>13, <1>14, <1>15, <2>1, CommonPrefix
  <2>3. Len(SubSeq(log[n], 1, i)) = i
    BY <1>13, <1>14
  <2> QED
    BY <1>15, <2>2, <2>3 DEF HasPrefix
<1>16. ASSUME NEW p \in T
       PROVE  p \in H
  <2>1. p \in Peers[n] /\ p \in Node /\ match[p] >= i
    BY PeersAssumption
  <2>2. match[p] <= Len(log[p])
    BY <1>1, <1>10, <2>1 DEF IndexesFit
  <2>3. match[p] \in Nat /\ Len(log[p]) \in Nat
    BY <1>1, <1>10, <2>1, LengthsType DEF TypeOK
  <2>4. i <= Len(log[p])
    BY <1>14, <2>1, <2>2, <2>3
  <2> QED
    BY <1>15, <2>1, <2>4
<1>17. T \cup {n} \subseteq H
  BY <1>14, <1>15, <1>16
<1>18. 2 * Cardinality(T \cup {n}) > Cardinality(Node)
  BY <1>12, CountedIsMajority
<1> HIDE DEF T, H
<1>19. /\ IsFiniteSet(H) /\ IsFiniteSet(Node) /\ IsFiniteSet(T \cup {n})
       /\ Cardinality(T \cup {n}) <= Cardinality(H)
  BY <1>17, NodeAssumption, FS_Subset DEF H
<1>20. Cardinality(H) \in Nat /\ Cardinality(Node) \in Nat /\ Cardinality(T \cup {n}) \in Nat
  BY <1>19, FS_CardinalityType
<1>21. 2 * Cardinality(H) > Cardinality(Node)
  BY <1>18, <1>19, <1>20
<1> QED
  BY <1>21 DEF H, i

\* However old the answers a leader counts, the majority has its log up to what it commits.
THEOREM UnanimousCommitNeedsMajority ==
    Unanimous /\ MaxCrashes = 0 /\ SelfCountHarmless => (Spec => CommitNeedsMajority)
<1> SUFFICES ASSUME Unanimous, MaxCrashes = 0, SelfCountHarmless
             PROVE  Spec => CommitNeedsMajority
  OBVIOUS
<1>1. Spec => []LogInvariant
  BY LogInvariantHolds
<1>2. LogInvariant /\ [Next]_vars => [CommitsWithMajority]_vars
  BY CommitStep DEF CommitsWithMajority
<1> QED
  BY <1>1, <1>2, PTL DEF Spec, CommitNeedsMajority

-----------------------------------------------------------------------------
(* Every node provides the log of CommandLog *)

\* The commands behind the applied ones, before and after a step.
Backlog(l, i) == SubSeq(l, i + 1, Len(l))

LEMMA BacklogElements ==
    ASSUME NEW l \in Seq(Entry), NEW i \in Nat, i <= Len(l)
    PROVE  /\ Backlog(l, i) \in Seq(Entry)
           /\ Len(Backlog(l, i)) = Len(l) - i
           /\ \A j \in 1..Len(l) - i : Backlog(l, i)[j] = l[i + j]
<1>1. /\ SubSeq(l, i + 1, Len(l)) \in Seq(Entry)
      /\ Len(SubSeq(l, i + 1, Len(l))) = Len(l) - i
      /\ \A j \in 1..Len(l) - i : SubSeq(l, i + 1, Len(l))[j] = l[(i + 1) + j - 1]
  OBVIOUS
<1>2. \A j \in Int : (i + 1) + j - 1 = i + j
  OBVIOUS
<1>3. \A j \in 1..Len(l) - i : j \in Int
  OBVIOUS
<1> QED
  BY <1>1, <1>2, <1>3 DEF Backlog

LEMMA BacklogKept ==
    ASSUME NEW l \in Seq(Entry), NEW k \in Seq(Entry), Begins(l, k),
           NEW i \in Nat, NEW c \in Nat, i + c <= Len(l)
    PROVE  SubSeq(Backlog(k, i), 1, c) = SubSeq(Backlog(l, i), 1, c)
<1> DEFINE s == Backlog(l, i)
           t == Backlog(k, i)
<1>1. Len(l) \in Nat /\ Len(k) \in Nat /\ Len(l) <= Len(k) /\ \A j \in 1..Len(l) : k[j] = l[j]
  BY DEF Begins
<1>2. i <= Len(l) /\ i <= Len(k) /\ c <= Len(l) - i /\ c <= Len(k) - i
  BY <1>1
<1>3. /\ s \in Seq(Entry) /\ Len(s) = Len(l) - i /\ \A j \in 1..Len(l) - i : s[j] = l[i + j]
      /\ t \in Seq(Entry) /\ Len(t) = Len(k) - i /\ \A j \in 1..Len(k) - i : t[j] = k[i + j]
  BY <1>2, BacklogElements
<1> HIDE DEF s, t
<1>4. ASSUME NEW j \in 1..c
      PROVE  t[j] = s[j]
  <2>1. j \in 1..Len(l) - i /\ j \in 1..Len(k) - i /\ i + j \in 1..Len(l)
    BY <1>1, <1>2
  <2> QED
    BY <1>1, <1>3, <2>1
<1>5. c <= Len(s) /\ c <= Len(t)
  BY <1>2, <1>3
<1>6. /\ SubSeq(s, 1, c) \in Seq(Entry) /\ SubSeq(t, 1, c) \in Seq(Entry)
      /\ Len(SubSeq(s, 1, c)) = c /\ Len(SubSeq(t, 1, c)) = c
      /\ \A j \in 1..c : SubSeq(s, 1, c)[j] = s[j] /\ SubSeq(t, 1, c)[j] = t[j]
  BY <1>3, <1>5
<1>7. \A j \in 1..c : SubSeq(t, 1, c)[j] = SubSeq(s, 1, c)[j]
  BY <1>4, <1>6
<1>8. SubSeq(t, 1, c) = SubSeq(s, 1, c)
  BY <1>6, <1>7, SameElements
<1> QED
  BY <1>8 DEF s, t

LEMMA BacklogTail ==
    ASSUME NEW l \in Seq(Entry), NEW i \in Nat, i < Len(l)
    PROVE  Backlog(l, i + 1) = Tail(Backlog(l, i))
<1> DEFINE s == Backlog(l, i)
           t == Backlog(l, i + 1)
<1>1. i <= Len(l) /\ i + 1 <= Len(l) /\ i + 1 \in Nat /\ Len(l) \in Nat
  OBVIOUS
<1>2. /\ s \in Seq(Entry) /\ Len(s) = Len(l) - i /\ \A j \in 1..Len(l) - i : s[j] = l[i + j]
      /\ t \in Seq(Entry) /\ Len(t) = Len(l) - (i + 1)
      /\ \A j \in 1..Len(l) - (i + 1) : t[j] = l[(i + 1) + j]
  BY <1>1, BacklogElements
<1> HIDE DEF s, t
<1>3. s # <<>> /\ Len(s) >= 1
  BY <1>1, <1>2
<1>4. /\ Tail(s) \in Seq(Entry) /\ Len(Tail(s)) = Len(s) - 1
      /\ \A j \in 1..Len(s) - 1 : Tail(s)[j] = s[j + 1]
  BY <1>2, <1>3
<1>5. Len(t) = Len(Tail(s))
  BY <1>1, <1>2, <1>4
<1>6. ASSUME NEW j \in 1..Len(t)
      PROVE  t[j] = Tail(s)[j]
  <2>1. /\ j \in 1..Len(s) - 1 /\ j \in 1..Len(l) - (i + 1)
        /\ j + 1 \in 1..Len(l) - i /\ (i + 1) + j = i + (j + 1)
    BY <1>1, <1>2
  <2> QED
    BY <1>2, <1>4, <2>1
<1>7. t = Tail(s)
  BY <1>2, <1>4, <1>5, <1>6, SameElements
<1> QED
  BY <1>7 DEF s, t

LEMMA ProvidesStep ==
    ASSUME LogInvariant, [Next]_vars, MaxCrashes = 0, LogInvariant', NEW n \in Node
    PROVE  NodeLog(n)!Next
<1> DEFINE l == log[n]
           k == log'[n]
           i == lastApplied[n]
           j == lastApplied'[n]
           c == commitIndex[n]
           d == commitIndex'[n]
<1>1. /\ TypeOK /\ TypeOK' /\ ElectionInvariant'
      /\ i <= c /\ c <= Len(l) /\ j <= d /\ d <= Len(k)
  BY DEF LogInvariant, ElectionInvariant, AppliedIsPrefix
<1>2. Begins(l, k) /\ CommitsMove(n)
  BY <1>1, LogsStep, LogsGrow, CommitsStep
<1>3. /\ l \in Seq(Entry) /\ k \in Seq(Entry) /\ Len(l) \in Nat /\ Len(k) \in Nat
      /\ i \in Nat /\ j \in Nat /\ c \in Nat /\ d \in Nat
  BY <1>1 DEF TypeOK
<1>4. CASE j = i
  <2>1. c <= d
    BY <1>2 DEF CommitsMove
  <2> HIDE DEF l, k, i, j, c, d
  <2>2. i <= Len(k) /\ c - i \in Nat /\ i + (c - i) <= Len(l) /\ d - i \in c - i .. Len(k) - i
    BY <1>1, <1>3, <1>4, <2>1
  <2>3. Backlog(k, i) \in Seq(Entry) /\ Len(Backlog(k, i)) = Len(k) - i
    BY <1>3, <2>2, BacklogElements
  <2>4. SubSeq(Backlog(k, i), 1, c - i) = SubSeq(Backlog(l, i), 1, c - i)
    <3> DEFINE m == c - i
    <3>1. Begins(l, k) /\ m \in Nat /\ i + m <= Len(l)
      BY <1>2, <2>2
    <3> HIDE DEF m
    <3>2. SubSeq(Backlog(k, i), 1, m) = SubSeq(Backlog(l, i), 1, m)
      BY <1>3, <3>1, BacklogKept
    <3> QED
      BY <3>2 DEF m
  <2>5. /\ Backlog(k, j) \in Seq(Entry)
        /\ d - j \in c - i .. Len(Backlog(k, j))
        /\ SubSeq(Backlog(k, j), 1, c - i) = SubSeq(Backlog(l, i), 1, c - i)
    BY <1>4, <2>2, <2>3, <2>4
  <2> QED
    BY <2>5 DEF NodeLog!Next, NodeLog!Change, Backlog, l, k, i, j, c, d
<1>5. CASE Applies(n)
  <2>1. i < c /\ j = i + 1 /\ k = l /\ d = c
    BY <1>5 DEF Applies
  <2> HIDE DEF l, k, i, j, c, d
  <2>2. c - i > 0 /\ i < Len(l) /\ d - j = (c - i) - 1
    BY <1>1, <1>3, <2>1
  <2>3. Backlog(k, j) = Tail(Backlog(l, i))
    BY <1>3, <2>1, <2>2, BacklogTail
  <2> QED
    BY <2>2, <2>3 DEF NodeLog!Next, NodeLog!Apply, Backlog, l, k, i, j, c, d
<1> QED
  BY <1>2, <1>4, <1>5 DEF CommitsMove

LEMMA ProvidesInit ==
    ASSUME Init, NEW n \in Node
    PROVE  NodeLog(n)!Init
<1>1. log[n] = <<>> /\ lastApplied[n] = 0 /\ commitIndex[n] = 0
  BY DEF Init
<1>2. SubSeq(<<>>, 0 + 1, Len(<<>>)) = <<>> /\ 0 - 0 = 0
  OBVIOUS
<1> QED
  BY <1>1, <1>2 DEF NodeLog!Init

\* What LockManager is built on: on every node each committed entry stays, and
\* reaches the state machine once and in order (_handle_append_entries, _apply_loop).
THEOREM UnanimousProvidesLog == Unanimous /\ MaxCrashes = 0 => (Spec => ProvidesLog)
<1> SUFFICES ASSUME Unanimous, MaxCrashes = 0 PROVE Spec => ProvidesLog
  OBVIOUS
<1>1. Spec => []LogInvariant
  BY LogInvariantHolds
<1>2. Init => LogsStart
  BY ProvidesInit DEF LogsStart
<1>3. LogInvariant /\ LogInvariant' /\ [Next]_vars => [LogsAdvance]_vars
  BY ProvidesStep DEF LogsAdvance
<1> QED
  BY <1>1, <1>2, <1>3, PTL DEF Spec, ProvidesLog

-----------------------------------------------------------------------------
(* The cluster of docker-compose.yml *)

LEMMA DeployedCounts == Deployed => SelfCountHarmless
BY DEF Deployed, SelfCountHarmless

\* The three deployed nodes, as long as none restarts, agree on every log entry and
\* every applied command, each leader has what is committed, and each node
\* gives its state machine the log that LockManager relies on.
THEOREM DeployedLog ==
    Deployed /\ MaxCrashes = 0 =>
        (Spec => /\ [](LogMatching /\ StateMachineSafety /\ LeaderCompleteness /\ CommittedInLog)
                 /\ ProvidesLog
                 /\ CommitNeedsMajority)
<1>1. Deployed => Unanimous /\ SelfCountHarmless
  BY DeployedUnanimous, DeployedCounts
<1> QED
  BY <1>1, UnanimousLogMatching, UnanimousStateMachineSafety, UnanimousLeaderCompleteness,
     UnanimousCommittedInLog, UnanimousProvidesLog, UnanimousCommitNeedsMajority, PTL

====
