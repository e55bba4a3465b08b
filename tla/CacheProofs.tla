---- MODULE CacheProofs ----
(***************************************************************************)
(* Proofs about the cache nodes: a Modified value is private, nobody has   *)
(* the value of a write before the write is over, and every store fits and *)
(* agrees with its order of use, for any nodes, keys, calls and capacity,  *)
(* whether calls fail or not.                                              *)
(***************************************************************************)
EXTENDS CacheNode, Integers, TLAPS

Value == CallId \cup {NoValue}

\* The types the argument needs; nothing depends on recency.
CacheType ==
    /\ lines \in [Node -> [Key -> Line \cup {Absent}]]
    /\ sharers \in [Node -> [Key -> SUBSET Node]]
    /\ calls \in [CallId -> Call \cup {Unused, Returned}]
    /\ messages \subseteq Message

\* An answer belongs to a call that still waits for it.
AnswersAwaited ==
    \A m \in messages : m.type = "answer" => m.peer \in calls[m.call].waiting

CacheInvariant == CacheType /\ AnswersAwaited /\ NothingEarly /\ ModifiedIsPrivate

\* What happens to lines nobody stores to: they stay, go, or are handed out.
Tamer(old, new) == new \in {old, Absent} \/ (old # Absent /\ new = Downgrade(old))

-----------------------------------------------------------------------------
\* A node has no line exactly when its value is NoValue.
LEMMA LineFields ==
    ASSUME NEW line \in Line \cup {Absent}
    PROVE  /\ line.value \in Value
           /\ line.value = NoValue <=> line = Absent
           /\ line.state = Modified => line # Absent
BY CacheAssumption DEF Line, Absent, Value, Modified, Invalid

\* A line that stays, goes or is handed out has no other value, and is only
\* Modified if it was.
LEMMA TamerLine ==
    ASSUME NEW old \in Line \cup {Absent}, NEW new, Tamer(old, new),
           old.dirty <=> old.state = Modified
    PROVE  /\ new \in Line \cup {Absent}
           /\ new.value \in {old.value, NoValue}
           /\ new # Absent => old # Absent /\ new.value = old.value
           /\ new.state = Modified => new = old
           /\ new.dirty <=> new.state = Modified
<1>1. CASE new = old
  BY <1>1 DEF Absent
<1>2. CASE new = Absent
  BY <1>2 DEF Absent, Invalid, Modified
<1>3. CASE old # Absent /\ new = Downgrade(old)
  BY <1>3 DEF Downgrade, Line, Shared, Modified
<1>4. QED
  BY <1>1, <1>2, <1>3 DEF Tamer

\* put gives each key its old line, no line, or the one that is put.
LEMMA PutLines ==
    ASSUME NEW ls \in [Key -> Line \cup {Absent}], NEW order, NEW k \in Key, NEW line \in Line,
           NEW after, after = Put(ls, order, k, line).lines
    PROVE  /\ after \in [Key -> Line \cup {Absent}]
           /\ \A j \in Key : after[j] \in {ls[j], Absent} \/ (j = k /\ after[j] = line)
<1>1. CASE ls[k] # Absent
  BY <1>1 DEF Put
<1>2. CASE ls[k] = Absent /\ HasRoom(order)
  BY <1>2 DEF Put
<1>3. CASE ls[k] = Absent /\ ~HasRoom(order)
  <2>1. Put(ls, order, k, line).lines =
            [j \in Key |-> CASE j = k -> line [] j = Head(order) -> Absent [] OTHER -> ls[j]]
    BY <1>3 DEF Put
  <2>2. QED
    BY <2>1
<1>4. QED
  BY <1>1, <1>2, <1>3

-----------------------------------------------------------------------------
(* One step *)

\* A step that stores at most one line keeps the invariant, if the line's value is
\* the value of a write that is over, and no other Modified line's, and if new
\* answers carry no other value than this one.
LEMMA OneLineStep ==
    ASSUME CacheType, NothingEarly, ModifiedIsPrivate,
           CacheType',
           \A id \in CallId : calls[id].phase = "done" => calls'[id].phase = "done",
           NEW n0 \in Node, NEW k0 \in Key, NEW new \in Line \cup {Absent},
           lines'[n0][k0] = new,
           \A n \in Node, k \in Key :
               <<n, k>> # <<n0, k0>> => Tamer(lines[n][k], lines'[n][k]),
           new.dirty <=> new.state = Modified,
           new # Absent => calls'[new.value].phase = "done",
           \A n \in Node, k \in Key :
               <<n, k>> # <<n0, k0>> /\ lines[n][k].state = Modified => lines[n][k].value # new.value,
           new.state = Modified =>
               /\ \A n \in Node, k \in Key : <<n, k>> # <<n0, k0>> => lines[n][k].value # new.value
               /\ \A m \in messages' : m.value # new.value,
           \A m \in messages' :
               m.value \in {NoValue, new.value} \/ \E x \in messages : x.value = m.value
    PROVE  NothingEarly' /\ ModifiedIsPrivate'
<1>1. \A n \in Node, k \in Key : lines[n][k] \in Line \cup {Absent}
  BY DEF CacheType
<1>2. \A n \in Node, k \in Key : lines[n][k].dirty <=> lines[n][k].state = Modified
  BY DEF ModifiedIsPrivate
<1>3. ASSUME NEW n \in Node, NEW k \in Key, <<n, k>> # <<n0, k0>>
      PROVE  /\ lines'[n][k].value \in {lines[n][k].value, NoValue}
             /\ lines'[n][k] # Absent => lines[n][k] # Absent /\ lines'[n][k].value = lines[n][k].value
             /\ lines'[n][k].state = Modified => lines'[n][k] = lines[n][k]
             /\ lines'[n][k].dirty <=> lines'[n][k].state = Modified
  BY <1>1, <1>2, <1>3, TamerLine
<1>4. \A n \in Node, k \in Key : lines[n][k] # Absent => lines[n][k].value \in CallId
  BY <1>1 DEF Line
<1>5. \A m \in messages : m.value \in Value
  BY DEF CacheType, Message, Value
<1>6. NothingEarly'
  <2>1. ASSUME NEW n \in Node, NEW k \in Key, lines'[n][k] # Absent
        PROVE  calls'[lines'[n][k].value].phase = "done"
    <3>1. CASE <<n, k>> = <<n0, k0>>
      BY <2>1, <3>1
    <3>2. CASE <<n, k>> # <<n0, k0>>
      BY <2>1, <3>2, <1>3, <1>4 DEF NothingEarly
    <3>3. QED
      BY <3>1, <3>2
  <2>2. ASSUME NEW m \in messages', m.value # NoValue
        PROVE  calls'[m.value].phase = "done"
    <3>1. CASE m.value = new.value
      BY <2>2, <3>1, LineFields
    <3>2. CASE \E x \in messages : x.value = m.value
      BY <2>2, <3>2, <1>5 DEF NothingEarly, Value
    <3>3. QED
      BY <2>2, <3>1, <3>2
  <2>3. QED
    BY <2>1, <2>2 DEF NothingEarly
<1>7. ASSUME NEW n \in Node, NEW k \in Key, lines'[n][k].state = Modified
      PROVE  /\ \A p \in Node, j \in Key : <<p, j>> # <<n, k>> => lines'[p][j].value # lines'[n][k].value
             /\ \A m \in messages' : m.value # lines'[n][k].value
  <2>1. lines'[n][k].value # NoValue
    <3>1. lines'[n][k] \in Line \cup {Absent}
      BY DEF CacheType
    <3>2. QED
      BY <3>1, <1>7, LineFields
  <2>2. CASE <<n, k>> = <<n0, k0>>
    BY <2>1, <2>2, <1>3, <1>7
  <2>3. CASE <<n, k>> # <<n0, k0>>
    <3>1. lines'[n][k] = lines[n][k] /\ lines[n][k].state = Modified
      BY <2>3, <1>3, <1>7
    <3>2. \A p \in Node, j \in Key : <<p, j>> # <<n, k>> => lines[p][j].value # lines[n][k].value
      BY <3>1 DEF ModifiedIsPrivate
    <3>3. \A m \in messages : m.value # lines[n][k].value
      BY <3>1 DEF ModifiedIsPrivate
    <3>4. new.value # lines[n][k].value
      BY <2>3, <3>1
    <3>5. ASSUME NEW p \in Node, NEW j \in Key, <<p, j>> # <<n, k>>
          PROVE  lines'[p][j].value # lines'[n][k].value
      <4>1. CASE <<p, j>> = <<n0, k0>>
        BY <4>1, <3>1, <3>4
      <4>2. CASE <<p, j>> # <<n0, k0>>
        BY <4>2, <3>1, <3>2, <3>5, <2>1, <1>3
      <4>3. QED
        BY <4>1, <4>2
    <3>6. \A m \in messages' : m.value # lines'[n][k].value
      BY <3>1, <3>3, <3>4, <2>1
    <3>7. QED
      BY <3>5, <3>6
  <2>4. QED
    BY <2>2, <2>3
<1>8. \A n \in Node, k \in Key : lines'[n][k].dirty <=> lines'[n][k].state = Modified
  BY <1>3
<1>9. ModifiedIsPrivate'
  BY <1>7, <1>8 DEF ModifiedIsPrivate
<1>10. QED
  BY <1>6, <1>9

\* A step that stores nothing, and sends no new value, keeps the invariant.
LEMMA TameStep ==
    ASSUME CacheType, NothingEarly, ModifiedIsPrivate,
           CacheType',
           \A id \in CallId : calls[id].phase = "done" => calls'[id].phase = "done",
           \A n \in Node, k \in Key : Tamer(lines[n][k], lines'[n][k]),
           \A m \in messages' : m.value = NoValue \/ \E x \in messages : x.value = m.value
    PROVE  NothingEarly' /\ ModifiedIsPrivate'
<1>1. CASE \E n \in Node, k \in Key : TRUE
  <2>1. PICK n0 \in Node, k0 \in Key : TRUE
    BY <1>1
  <2> DEFINE old == lines[n0][k0]
             new == lines'[n0][k0]
  <2>2. old \in Line \cup {Absent} /\ new \in Line \cup {Absent}
    BY DEF CacheType
  <2>3. old.dirty <=> old.state = Modified
    BY DEF ModifiedIsPrivate
  <2>4. /\ new # Absent => old # Absent /\ new.value = old.value
        /\ new.state = Modified => new = old
        /\ new.dirty <=> new.state = Modified
        /\ new.value \in {old.value, NoValue}
    BY <2>2, <2>3, TamerLine
  <2>5. new # Absent => calls'[new.value].phase = "done"
    <3>1. old # Absent => old.value \in CallId /\ calls[old.value].phase = "done"
      BY <2>2 DEF NothingEarly, Line
    <3>2. QED
      BY <2>4, <3>1
  <2>6. ASSUME NEW n \in Node, NEW k \in Key, <<n, k>> # <<n0, k0>>, lines[n][k].state = Modified
        PROVE  lines[n][k].value # new.value
    <3>1. lines[n][k].value # old.value
      BY <2>6 DEF ModifiedIsPrivate
    <3>2. lines[n][k] \in Line \cup {Absent}
      BY DEF CacheType
    <3>3. lines[n][k].value # NoValue
      BY <2>6, <3>2, LineFields
    <3>4. QED
      BY <2>4, <3>1, <3>3
  <2>7. ASSUME new.state = Modified
        PROVE  /\ \A n \in Node, k \in Key : <<n, k>> # <<n0, k0>> => lines[n][k].value # new.value
               /\ \A m \in messages' : m.value # new.value
    <3>1. new = old /\ old.state = Modified
      BY <2>4, <2>7
    <3>2. new.value # NoValue
      BY <2>2, <2>7, LineFields
    <3>3. \A m \in messages : m.value # old.value
      BY <3>1 DEF ModifiedIsPrivate
    <3>4. \A n \in Node, k \in Key : <<n, k>> # <<n0, k0>> => lines[n][k].value # old.value
      BY <3>1 DEF ModifiedIsPrivate
    <3>5. QED
      BY <3>1, <3>2, <3>3, <3>4
  <2> HIDE DEF old
  <2>8. QED
    BY <2>2, <2>4, <2>5, <2>6, <2>7, OneLineStep
<1>2. CASE ~\E n \in Node, k \in Key : TRUE
  <2>1. \A m \in messages : m.value \in Value
    BY DEF CacheType, Message, Value
  <2>2. QED
    BY <1>2, <2>1 DEF NothingEarly, ModifiedIsPrivate, Value
<1>3. QED
  BY <1>1, <1>2

-----------------------------------------------------------------------------
(* Calls and messages *)

\* What a step does to calls and messages, whatever it does to the lines.
CallsKept ==
    /\ calls' \in [CallId -> Call \cup {Unused, Returned}]
    /\ messages' \subseteq Message
    /\ AnswersAwaited'
    /\ \A id \in CallId : calls[id].phase = "done" => calls'[id].phase = "done"

\* Only a call in progress waits for anybody.
LEMMA CallFields ==
    ASSUME NEW c \in Call \cup {Unused, Returned}
    PROVE  /\ c.waiting \in SUBSET Node
           /\ c.phase = "waiting" => c \in Call
           /\ c.phase # "waiting" => c.waiting = {}
BY DEF Call, Unused, Returned

\* A new call, and the requests it sends.
LEMMA Asking ==
    ASSUME CacheType, AnswersAwaited,
           NEW id \in CallId, NEW n \in Node, NEW k \in Key,
           NEW op \in {"read", "write", "delete"}, NEW type \in {"fetch", "invalidate"},
           NEW asked \in SUBSET Node, NEW reached \in SUBSET Node,
           calls[id] = Unused,
           calls' = [calls EXCEPT ![id] = NewCall(op, n, k, asked)],
           messages' = messages \cup Requests(type, id, n, k, reached)
    PROVE  /\ CallsKept
           /\ \A m \in messages' : m.value = NoValue \/ m \in messages
<1>1. NewCall(op, n, k, asked) \in Call
  BY DEF NewCall, Call
<1>2. \A m \in Requests(type, id, n, k, reached) :
          m \in Message /\ m.type # "answer" /\ m.value = NoValue
  BY DEF Requests, Message
<1>3. \A m \in messages : m.type = "answer" => m.call # id
  BY DEF AnswersAwaited, Unused
<1>4. \A m \in messages : m.call \in CallId
  BY DEF CacheType, Message
<1>5. AnswersAwaited'
  BY <1>2, <1>3, <1>4 DEF AnswersAwaited, CacheType
<1>6. calls' \in [CallId -> Call \cup {Unused, Returned}]
  BY <1>1 DEF CacheType
<1>7. \A c \in CallId : calls[c].phase = "done" => calls'[c].phase = "done"
  BY DEF Unused, CacheType
<1>8. messages' \subseteq Message
  BY <1>2 DEF CacheType
<1>9. QED
  BY <1>2, <1>5, <1>6, <1>7, <1>8 DEF CallsKept

\* A call that is over, with no answer left for it.
LEMMA Ending ==
    ASSUME CacheType, AnswersAwaited, NEW id \in CallId, Done(id),
           messages' \subseteq messages,
           \A m \in messages' : m.type = "answer" => m.call # id
    PROVE  CallsKept /\ calls'[id].phase = "done"
<1>1. \A m \in messages : m.call \in CallId
  BY DEF CacheType, Message
<1>2. calls' \in [CallId -> Call \cup {Unused, Returned}]
  BY DEF CacheType, Done
<1>3. AnswersAwaited'
  BY <1>1 DEF AnswersAwaited, CacheType, Done
<1>4. calls'[id].phase = "done"
  BY DEF CacheType, Done, Returned
<1>5. \A c \in CallId : calls[c].phase = "done" => calls'[c].phase = "done"
  BY <1>4 DEF CacheType, Done
<1>6. messages' \subseteq Message
  BY DEF CacheType
<1>7. QED
  BY <1>2, <1>3, <1>4, <1>5, <1>6 DEF CallsKept

\* An answer taken, or given up.
LEMMA WaitingLess ==
    ASSUME CacheType, AnswersAwaited, NEW id \in CallId, NEW p \in calls[id].waiting,
           NoLongerWaits(id, p)
    PROVE  CallsKept /\ messages' \subseteq messages
<1>1. calls[id] \in Call
  BY CallFields DEF CacheType
<1>2. [calls[id] EXCEPT !.waiting = @ \ {p}] \in Call
  BY <1>1 DEF Call
<1>3. calls' \in [CallId -> Call \cup {Unused, Returned}]
  BY <1>2 DEF CacheType, NoLongerWaits
<1>4. /\ calls'[id].waiting = calls[id].waiting \ {p}
      /\ \A c \in CallId : c # id => calls'[c] = calls[c]
  BY <1>1 DEF CacheType, NoLongerWaits, Call
<1>5. \A m \in messages : m.call \in CallId
  BY DEF CacheType, Message
<1>6. messages' = messages \ {m \in Answers(id) : m.peer = p}
  BY DEF NoLongerWaits
<1>7. AnswersAwaited'
  <2> SUFFICES ASSUME NEW m \in messages', m.type = "answer"
               PROVE  m.peer \in calls'[m.call].waiting
    BY DEF AnswersAwaited
  <2>1. m \in messages /\ m.peer \in calls[m.call].waiting
    BY <1>6 DEF AnswersAwaited
  <2>2. CASE m.call = id
    BY <2>1, <2>2, <1>4, <1>6 DEF Answers
  <2>3. CASE m.call # id
    BY <2>1, <2>3, <1>4, <1>5
  <2>4. QED
    BY <2>2, <2>3
<1>8. \A c \in CallId : calls[c].phase = "done" => calls'[c].phase = "done"
  BY <1>1, <1>4 DEF Call
<1>9. messages' \subseteq Message
  BY <1>6 DEF CacheType
<1>10. QED
  BY <1>3, <1>6, <1>7, <1>8, <1>9 DEF CallsKept

\* A request answered.
LEMMA Replying ==
    ASSUME CacheType, AnswersAwaited, NEW m \in messages, NEW value \in Value,
           Reply(m, value), UNCHANGED calls
    PROVE  /\ CallsKept
           /\ \A x \in messages' : x.value = value \/ x \in messages
<1>1. m \in Message
  BY DEF CacheType
<1> DEFINE answer == [m EXCEPT !.type = "answer", !.value = value]
<1>2. /\ answer \in Message
      /\ answer.value = value /\ answer.call = m.call /\ answer.peer = m.peer
  BY <1>1 DEF Message, Value
<1>3. \A x \in messages' :
          x \in messages \/ (x = answer /\ m.peer \in calls[m.call].waiting)
  BY DEF Reply
<1> HIDE DEF answer
<1>4. AnswersAwaited'
  BY <1>2, <1>3 DEF AnswersAwaited
<1>5. QED
  BY <1>2, <1>3, <1>4 DEF CallsKept, CacheType

-----------------------------------------------------------------------------
(* Actions *)

Kept == CacheType' /\ AnswersAwaited' /\ NothingEarly' /\ ModifiedIsPrivate'

\* Steps that keep, remove or hand out lines.
LEMMA KeptLines ==
    ASSUME CacheInvariant, CallsKept,
           lines' \in [Node -> [Key -> Line \cup {Absent}]],
           sharers' \in [Node -> [Key -> SUBSET Node]],
           \A n \in Node, k \in Key : Tamer(lines[n][k], lines'[n][k]),
           \A m \in messages' : m.value = NoValue \/ m \in messages
    PROVE  Kept
<1>1. CacheType'
  BY DEF CallsKept, CacheType
<1>2. \A m \in messages' : m.value = NoValue \/ \E x \in messages : x.value = m.value
  OBVIOUS
<1>3. NothingEarly' /\ ModifiedIsPrivate'
  BY <1>1, <1>2, TameStep DEF CacheInvariant, CallsKept
<1>4. QED
  BY <1>1, <1>3 DEF Kept, CallsKept

\* A line that is removed goes, and no other changes.
LEMMA RemovedLine ==
    ASSUME CacheType, NEW n \in Node, NEW k \in Key, Remove(n, k)
    PROVE  /\ lines' \in [Node -> [Key -> Line \cup {Absent}]]
           /\ \A p \in Node, j \in Key : Tamer(lines[p][j], lines'[p][j])
BY DEF CacheType, Remove, Tamer

\* Invalidations go to nodes.
LEMMA AskedNodes ==
    ASSUME CacheType, NEW n \in Node, NEW k \in Key
    PROVE  Asked(n, k) \in SUBSET Node /\ Reached(n, k) \in SUBSET Node
BY CacheAssumption DEF CacheType, Asked, Reached, Known

\* A read of a line that is there only moves it in the order of use.
LEMMA ReadHitKeeps ==
    ASSUME CacheInvariant, NEW n \in Node, NEW k \in Key, ReadHit(n, k)
    PROVE  Kept
<1>1. UNCHANGED <<lines, sharers, calls, messages>>
  BY DEF ReadHit
<1>2. CallsKept
  BY <1>1 DEF CacheInvariant, CacheType, AnswersAwaited, CallsKept
<1>3. QED
  BY <1>1, <1>2, KeptLines DEF CacheInvariant, CacheType, Tamer

\* A miss only asks.
LEMMA ReadMissKeeps ==
    ASSUME CacheInvariant, NEW id \in CallId, NEW n \in Node, NEW k \in Key, ReadMiss(id, n, k)
    PROVE  Kept
<1>1. Peers[n] \in SUBSET Node
  BY CacheAssumption
<1>2. CallsKept /\ \A m \in messages' : m.value = NoValue \/ m \in messages
  BY <1>1, Asking DEF ReadMiss, CacheInvariant
<1>3. UNCHANGED <<lines, sharers>>
  BY DEF ReadMiss, storeVars
<1>4. QED
  BY <1>2, <1>3, KeptLines DEF CacheInvariant, CacheType, Tamer

\* StartWrite and StartDelete both ask others to invalidate.
LEMMA InvalidateKeeps ==
    ASSUME CacheInvariant, NEW id \in CallId, NEW n \in Node, NEW k \in Key,
           NEW op \in {"write", "delete"}, calls[id] = Unused,
           Invalidate(op, id, n, k), UNCHANGED <<lines, sharers>>
    PROVE  Kept
<1>1. CacheType /\ AnswersAwaited
  BY DEF CacheInvariant
<1>2. Asked(n, k) \in SUBSET Node /\ Reached(n, k) \in SUBSET Node
  BY <1>1, AskedNodes
<1>3. CallsKept /\ \A m \in messages' : m.value = NoValue \/ m \in messages
  BY <1>1, <1>2, Asking DEF Invalidate
<1>4. QED
  BY <1>1, <1>3, KeptLines DEF CacheType, Tamer

\* A read that found nothing, or a DELETE, ends.
LEMMA FinishKeeps ==
    ASSUME CacheInvariant, NEW id \in CallId, ReadFails(id) \/ FinishDelete(id)
    PROVE  Kept
<1>1. CacheType /\ AnswersAwaited
  BY DEF CacheInvariant
<1>2. Done(id) /\ UNCHANGED <<sharers, messages>> /\ calls[id].waiting = {} /\ calls[id].phase = "waiting"
  BY DEF ReadFails, FinishDelete
<1>3. \A m \in messages' : m.type = "answer" => m.call # id
  BY <1>1, <1>2 DEF AnswersAwaited
<1>4. CallsKept
  BY <1>1, <1>2, <1>3, Ending
<1>5. CASE ReadFails(id)
  BY <1>1, <1>2, <1>4, <1>5, KeptLines DEF ReadFails, storeVars, CacheType, Tamer
<1>6. CASE FinishDelete(id)
  <2>1. calls[id] \in Call
    BY <1>1, <1>2, CallFields DEF CacheType
  <2>2. calls[id].node \in Node /\ calls[id].key \in Key
    BY <2>1 DEF Call
  <2>3. /\ lines' \in [Node -> [Key -> Line \cup {Absent}]]
        /\ \A p \in Node, j \in Key : Tamer(lines[p][j], lines'[p][j])
    BY <1>1, <1>6, <2>2, RemovedLine DEF FinishDelete
  <2>4. QED
    BY <1>1, <1>2, <1>4, <2>3, KeptLines DEF CacheType
<1>7. QED
  BY <1>5, <1>6

\* An invalidation removes the line and is answered.
LEMMA HandleInvalidationKeeps ==
    ASSUME CacheInvariant, NEW m \in messages, HandleInvalidation(m)
    PROVE  Kept
<1>1. CacheType /\ AnswersAwaited
  BY DEF CacheInvariant
<1>2. m.peer \in Node /\ m.key \in Key
  BY <1>1 DEF CacheType, Message
<1>3. CallsKept /\ \A x \in messages' : x.value = NoValue \/ x \in messages
  BY <1>1, Replying DEF HandleInvalidation, Value
<1>4. /\ lines' \in [Node -> [Key -> Line \cup {Absent}]]
      /\ \A p \in Node, j \in Key : Tamer(lines[p][j], lines'[p][j])
  BY <1>1, <1>2, RemovedLine DEF HandleInvalidation
<1>5. QED
  BY <1>1, <1>3, <1>4, KeptLines DEF CacheType, HandleInvalidation

\* An answer without a value, or a timeout.
LEMMA WaitingLessKeeps ==
    ASSUME CacheInvariant, NEW id \in CallId, NEW p \in calls[id].waiting,
           NoLongerWaits(id, p), UNCHANGED <<storeVars, sharers>>
    PROVE  Kept
<1>1. CallsKept /\ messages' \subseteq messages
  BY WaitingLess DEF CacheInvariant
<1>2. QED
  BY <1>1, KeptLines DEF CacheInvariant, CacheType, Tamer, storeVars

\* A line that is stored: clean, with a value no Modified line has; or Modified, with
\* a value nobody has.
Storable(line) ==
    /\ line \in Line
    /\ line.dirty <=> line.state = Modified
    /\ \A n \in Node, k \in Key : lines[n][k].state = Modified => lines[n][k].value # line.value
    /\ line.state = Modified =>
          /\ \A n \in Node, k \in Key : lines[n][k].value # line.value
          /\ \A m \in messages : m.value # line.value

\* Storing such a line keeps the invariant, wherever it goes and whatever it evicts.
LEMMA StoredLine ==
    ASSUME CacheInvariant, CallsKept, messages' \subseteq messages,
           NEW n \in Node, NEW k \in Key, NEW line, Storable(line),
           calls'[line.value].phase = "done",
           lines' \in [Node -> [Key -> Line \cup {Absent}]],
           sharers' \in [Node -> [Key -> SUBSET Node]],
           \A p \in Node, j \in Key :
               Tamer(lines[p][j], lines'[p][j]) \/ (p = n /\ j = k /\ lines'[p][j] = line)
    PROVE  Kept
<1>1. CacheType'
  BY DEF CallsKept, CacheType
<1>2. CASE Tamer(lines[n][k], lines'[n][k])
  BY <1>2, KeptLines
<1>3. CASE lines'[n][k] = line
  <2>1. \A p \in Node, j \in Key : <<p, j>> # <<n, k>> => Tamer(lines[p][j], lines'[p][j])
    OBVIOUS
  <2>2. \A m \in messages' :
            m.value \in {NoValue, line.value} \/ \E x \in messages : x.value = m.value
    OBVIOUS
  <2>3. /\ line \in Line \cup {Absent}
        /\ line.dirty <=> line.state = Modified
        /\ line # Absent => calls'[line.value].phase = "done"
        /\ \A p \in Node, j \in Key :
               <<p, j>> # <<n, k>> /\ lines[p][j].state = Modified => lines[p][j].value # line.value
        /\ line.state = Modified =>
               /\ \A p \in Node, j \in Key : <<p, j>> # <<n, k>> => lines[p][j].value # line.value
               /\ \A m \in messages' : m.value # line.value
    BY DEF Storable
  <2>4. /\ CacheType /\ NothingEarly /\ ModifiedIsPrivate
        /\ \A id \in CallId : calls[id].phase = "done" => calls'[id].phase = "done"
    BY DEF CacheInvariant, CallsKept
  <2>5. NothingEarly' /\ ModifiedIsPrivate'
    BY <1>1, <1>3, <2>1, <2>2, <2>3, <2>4, OneLineStep
  <2>6. QED
    BY <1>1, <2>5 DEF Kept, CallsKept
<1>4. QED
  BY <1>2, <1>3

\* So does put, which may also leave the old line in place.
LEMMA StoreKeeps ==
    ASSUME CacheInvariant, CallsKept, messages' \subseteq messages,
           NEW n \in Node, NEW k \in Key, NEW line, Storable(line),
           calls'[line.value].phase = "done",
           NEW known \in SUBSET Node, Store(n, k, line, known)
    PROVE  Kept
<1> DEFINE after == Put(lines[n], recency[n], k, line).lines
<1>1. lines[n] \in [Key -> Line \cup {Absent}]
  BY DEF CacheInvariant, CacheType
<1>2. line \in Line
  BY DEF Storable
<1>3. /\ after \in [Key -> Line \cup {Absent}]
      /\ \A j \in Key : after[j] \in {lines[n][j], Absent} \/ (j = k /\ after[j] = line)
  <2>1. after = Put(lines[n], recency[n], k, line).lines
    OBVIOUS
  <2> HIDE DEF after
  <2>2. QED
    BY <1>1, <1>2, <2>1, PutLines
<1>4. lines' = [lines EXCEPT ![n] = after]
  BY DEF Store
<1>5. sharers' \in [Node -> [Key -> SUBSET Node]]
  BY DEF Store, CacheInvariant, CacheType
<1> HIDE DEF after
<1>6. lines' \in [Node -> [Key -> Line \cup {Absent}]]
  BY <1>3, <1>4 DEF CacheInvariant, CacheType
<1>7. \A p \in Node, j \in Key :
          Tamer(lines[p][j], lines'[p][j]) \/ (p = n /\ j = k /\ lines'[p][j] = line)
  BY <1>3, <1>4 DEF CacheInvariant, CacheType, Tamer
<1>8. QED
  BY SMTT(30), <1>5, <1>6, <1>7, StoredLine

\* Nobody has the value of a write that is not over.
LEMMA FreshIsStorable ==
    ASSUME CacheInvariant, NEW id \in CallId, calls[id].phase # "done"
    PROVE  Storable([value |-> id, state |-> Modified, dirty |-> TRUE])
<1>1. id # NoValue
  BY CacheAssumption
<1>2. ASSUME NEW n \in Node, NEW k \in Key
      PROVE  lines[n][k].value # id
  <2>1. CASE lines[n][k] = Absent
    BY <1>1, <2>1 DEF Absent
  <2>2. CASE lines[n][k] # Absent
    BY <2>2 DEF CacheInvariant, NothingEarly
  <2>3. QED
    BY <2>1, <2>2
<1>3. \A m \in messages : m.value # id
  BY <1>1 DEF CacheInvariant, NothingEarly
<1>4. QED
  BY <1>2, <1>3 DEF Storable, Line

\* A write that had to invalidate.
LEMMA FinishWriteKeeps ==
    ASSUME CacheInvariant, NEW id \in CallId, FinishWrite(id)
    PROVE  Kept
<1>1. CacheType /\ AnswersAwaited
  BY DEF CacheInvariant
<1>2. calls[id].phase = "waiting" /\ calls[id].waiting = {} /\ Done(id) /\ UNCHANGED messages
  BY DEF FinishWrite
<1>3. \A m \in messages' : m.type = "answer" => m.call # id
  BY <1>2 DEF CacheInvariant, AnswersAwaited
<1>4. CallsKept /\ calls'[id].phase = "done"
  BY <1>1, <1>2, <1>3, Ending
<1>5. calls[id].node \in Node /\ calls[id].key \in Key
  BY <1>1, <1>2, CallFields DEF CacheType, Call
<1> DEFINE line == [value |-> id, state |-> Modified, dirty |-> TRUE]
<1>6. Storable(line) /\ line.value = id
  BY <1>2, FreshIsStorable
<1>7. Store(calls[id].node, calls[id].key, line, {calls[id].node})
  BY DEF FinishWrite
<1> HIDE DEF line
<1>8. QED
  BY <1>2, <1>4, <1>5, <1>6, <1>7, StoreKeeps

\* A write in place.
LEMMA WriteOwnedKeeps ==
    ASSUME CacheInvariant, NEW id \in CallId, NEW n \in Node, NEW k \in Key, WriteOwned(id, n, k)
    PROVE  Kept
<1>1. CacheType /\ AnswersAwaited
  BY DEF CacheInvariant
<1>2. calls[id] = Unused /\ Done(id) /\ UNCHANGED <<sharers, messages>>
  BY DEF WriteOwned
<1>3. \A m \in messages' : m.type = "answer" => m.call # id
  BY <1>2 DEF CacheInvariant, AnswersAwaited, Unused
<1>4. CallsKept /\ calls'[id].phase = "done"
  BY <1>1, <1>2, <1>3, Ending
<1> DEFINE line == [value |-> id, state |-> Modified, dirty |-> TRUE]
<1>5. Storable(line) /\ line.value = id
  BY <1>2, FreshIsStorable DEF Unused
<1>6. lines' = [lines EXCEPT ![n][k] = line]
  BY DEF WriteOwned
<1> HIDE DEF line
<1>7. lines' \in [Node -> [Key -> Line \cup {Absent}]]
  BY <1>1, <1>5, <1>6 DEF CacheType, Storable
<1>8. \A p \in Node, j \in Key :
          Tamer(lines[p][j], lines'[p][j]) \/ (p = n /\ j = k /\ lines'[p][j] = line)
  BY <1>1, <1>6 DEF CacheType, Tamer
<1>9. sharers' \in [Node -> [Key -> SUBSET Node]]
  BY <1>1, <1>2 DEF CacheType
<1>10. messages' \subseteq messages
  BY <1>2
<1>11. calls'[line.value].phase = "done"
  BY <1>4, <1>5
<1>12. Storable(line) /\ CallsKept
  BY <1>4, <1>5
<1>13. QED
  BY SMTT(30), <1>7, <1>8, <1>9, <1>10, <1>11, <1>12, StoredLine

\* A line that is handed out is downgraded, and its value is on its way.
LEMMA HandleFetchKeeps ==
    ASSUME CacheInvariant, NEW m \in messages, HandleFetch(m)
    PROVE  Kept
<1> DEFINE p == m.peer
           k == m.key
           old == lines[p][k]
<1>1. CacheType /\ AnswersAwaited /\ NothingEarly /\ ModifiedIsPrivate
  BY DEF CacheInvariant
<1>2. p \in Node /\ k \in Key /\ m.node \in Node
  BY <1>1 DEF CacheType, Message
<1>3. old \in Line \cup {Absent}
  BY <1>1, <1>2 DEF CacheType
<1>4. old.value \in Value /\ NoValue \in Value
  BY <1>3, LineFields DEF Value
<1>5. CASE old = Absent
  <2>1. Reply(m, NoValue) /\ UNCHANGED <<storeVars, sharers, calls>>
    BY <1>5 DEF HandleFetch
  <2>2. CallsKept /\ \A x \in messages' : x.value = NoValue \/ x \in messages
    BY <1>1, <1>4, <2>1, Replying
  <2>3. QED
    BY <1>1, <2>1, <2>2, KeptLines DEF CacheType, Tamer, storeVars
<1>6. CASE old # Absent
  <2> DEFINE new == Downgrade(old)
  <2>1. /\ Reply(m, old.value) /\ UNCHANGED calls
        /\ lines' = [lines EXCEPT ![p][k] = new]
        /\ sharers' = [sharers EXCEPT ![p][k] = @ \cup {m.node}]
    BY <1>6 DEF HandleFetch
  <2>2. new \in Line /\ new.value = old.value /\ new.state = Shared /\ new.dirty = FALSE
    BY <1>3, <1>6 DEF Downgrade, Line
  <2>3. CallsKept /\ \A x \in messages' : x.value = old.value \/ x \in messages
    BY <1>1, <1>4, <2>1, Replying
  <2> HIDE DEF p, k, old, new
  <2>4. lines' \in [Node -> [Key -> Line \cup {Absent}]]
    BY <1>1, <2>1, <2>2 DEF CacheType
  <2>5. sharers' \in [Node -> [Key -> SUBSET Node]]
    BY <1>1, <1>2, <2>1 DEF CacheType
  <2>6. CacheType'
    BY <2>3, <2>4, <2>5 DEF CallsKept, CacheType
  <2>7. lines'[p][k] = new
    BY <1>1, <1>2, <2>1 DEF CacheType
  <2>8. \A n \in Node, j \in Key : <<n, j>> # <<p, k>> => Tamer(lines[n][j], lines'[n][j])
    BY <1>1, <2>1 DEF CacheType, Tamer
  <2>9. calls'[new.value].phase = "done"
    <3>1. calls[old.value].phase = "done"
      BY <1>1, <1>2, <1>6 DEF NothingEarly, old
    <3>2. QED
      BY <2>1, <2>2, <3>1
  <2>10. \A n \in Node, j \in Key :
             <<n, j>> # <<p, k>> /\ lines[n][j].state = Modified => lines[n][j].value # new.value
    BY <1>1, <1>2, <2>2 DEF ModifiedIsPrivate, old
  <2>11. \A x \in messages' :
             x.value \in {NoValue, new.value} \/ \E y \in messages : y.value = x.value
    BY <2>2, <2>3
  <2>12. new \in Line \cup {Absent} /\ new.state # Modified /\ (new.dirty <=> new.state = Modified)
    BY <2>2 DEF Modified, Shared
  <2>13. \A id \in CallId : calls[id].phase = "done" => calls'[id].phase = "done"
    BY <2>3 DEF CallsKept
  <2>14. NothingEarly' /\ ModifiedIsPrivate'
    BY <1>1, <1>2, <2>6, <2>7, <2>8, <2>9, <2>10, <2>11, <2>12, <2>13, OneLineStep
  <2>15. QED
    BY <2>3, <2>6, <2>14 DEF Kept, CallsKept
<1>7. QED
  BY <1>5, <1>6

\* The value of an answer is the value of a write that is over, and no Modified line has it.
LEMMA TakeAnswerKeeps ==
    ASSUME CacheInvariant, NEW m \in messages, TakeAnswer(m)
    PROVE  Kept
<1>1. CacheType /\ AnswersAwaited /\ NothingEarly /\ ModifiedIsPrivate
  BY DEF CacheInvariant
<1>2. m.call \in CallId /\ m.value \in Value /\ m.type = "answer"
  BY <1>1 DEF CacheType, Message, Value, TakeAnswer
<1>3. m.peer \in calls[m.call].waiting
  BY <1>1, <1>2 DEF AnswersAwaited
<1>4. CASE calls[m.call].op = "read" /\ m.value # NoValue
  <2> DEFINE n == calls[m.call].node
             k == calls[m.call].key
             line == [value |-> m.value, state |-> Shared, dirty |-> FALSE]
  <2>1. Fill(m.call, m.value)
    BY <1>4 DEF TakeAnswer
  <2>2. n \in Node /\ k \in Key
    BY <1>1, <1>2, <1>3, CallFields DEF CacheType, Call
  <2>3. Done(m.call) /\ messages' = messages \ Answers(m.call)
    BY <2>1 DEF Fill
  <2>4. \A x \in messages' : x.type = "answer" => x.call # m.call
    BY <2>3 DEF Answers
  <2>5. CallsKept /\ messages' \subseteq messages
    BY <1>1, <1>2, <2>3, <2>4, Ending
  <2>6. Storable(line) /\ line.value = m.value
    <3>1. \A p \in Node, j \in Key : lines[p][j].state = Modified => lines[p][j].value # m.value
      BY <1>1 DEF ModifiedIsPrivate
    <3>2. m.value \in CallId
      BY <1>2, <1>4 DEF Value
    <3>3. QED
      BY <3>1, <3>2 DEF Storable, Line, Shared, Modified
  <2>7. calls'[line.value].phase = "done"
    BY <1>1, <1>2, <1>4, <2>5, <2>6 DEF NothingEarly, CallsKept, Value
  <2>8. Store(n, k, line, sharers[n][k] \cup {n})
    BY <2>1 DEF Fill
  <2> HIDE DEF n, k, line
  <2>9. sharers[n][k] \cup {n} \in SUBSET Node
    BY <1>1, <2>2 DEF CacheType
  <2>10. QED
    BY <2>2, <2>5, <2>6, <2>7, <2>8, <2>9, StoreKeeps
<1>5. CASE ~(calls[m.call].op = "read" /\ m.value # NoValue)
  BY <1>2, <1>3, <1>5, WaitingLessKeeps DEF TakeAnswer
<1>6. QED
  BY <1>4, <1>5

-----------------------------------------------------------------------------
(* The invariant *)

\* Empty stores and no calls.
LEMMA InitialCache == Init => CacheInvariant
<1> SUFFICES ASSUME Init PROVE CacheInvariant
  OBVIOUS
<1>1. CacheType /\ AnswersAwaited
  BY DEF Init, CacheType, AnswersAwaited
<1>2. NothingEarly
  BY DEF Init, NothingEarly
<1>3. ModifiedIsPrivate
  BY DEF Init, ModifiedIsPrivate, Absent, Invalid, Modified
<1>4. QED
  BY <1>1, <1>2, <1>3 DEF CacheInvariant

\* One step of any node keeps the invariant.
LEMMA CacheStep == CacheInvariant /\ [Next]_vars => CacheInvariant'
<1> SUFFICES ASSUME CacheInvariant, [Next]_vars PROVE Kept
  BY DEF Kept, CacheInvariant
<1>1. ASSUME NEW n \in Node, NEW k \in Key, ReadHit(n, k) PROVE Kept
  BY <1>1, ReadHitKeeps
<1>2. ASSUME NEW id \in CallId, NEW n \in Node, NEW k \in Key, ClientStep(id, n, k) PROVE Kept
  <2>1. CASE ReadMiss(id, n, k)
    BY <2>1, ReadMissKeeps
  <2>2. CASE WriteOwned(id, n, k)
    BY <2>2, WriteOwnedKeeps
  <2>3. CASE StartWrite(id, n, k)
    BY <2>3, InvalidateKeeps DEF StartWrite
  <2>4. CASE StartDelete(id, n, k)
    BY <2>4, InvalidateKeeps DEF StartDelete, storeVars
  <2>5. QED
    BY <1>2, <2>1, <2>2, <2>3, <2>4 DEF ClientStep
<1>3. ASSUME NEW id \in CallId, Finish(id) PROVE Kept
  BY <1>3, FinishKeeps, FinishWriteKeeps DEF Finish
<1>4. ASSUME NEW id \in CallId, NEW p \in Node, CallTimesOut(id, p) PROVE Kept
  BY <1>4, WaitingLessKeeps DEF CallTimesOut
<1>5. ASSUME NEW m \in messages, MessageStep(m) PROVE Kept
  BY <1>5, HandleFetchKeeps, HandleInvalidationKeeps, TakeAnswerKeeps DEF MessageStep
<1>6. CASE UNCHANGED vars
  BY <1>6 DEF vars, storeVars, Kept, CacheInvariant, CacheType, AnswersAwaited, NothingEarly,
              ModifiedIsPrivate
<1>7. QED
  BY <1>1, <1>2, <1>3, <1>4, <1>5, <1>6 DEF Next

\* Messages and stores keep to the types, answers are awaited, and the two
\* properties below hold together.
THEOREM CacheInvariantHolds == Spec => []CacheInvariant
BY InitialCache, CacheStep, PTL DEF Spec

\* A value that is not written back is in one line and in no answer (handle_fetch_request).
THEOREM ModifiedPrivate == Spec => []ModifiedIsPrivate
<1>1. CacheInvariant => ModifiedIsPrivate
  BY DEF CacheInvariant
<1>2. QED
  BY <1>1, CacheInvariantHolds, PTL

\* Nobody has the value of a write that still waits for invalidations (write).
THEOREM WritesNotEarly == Spec => []NothingEarly
<1>1. CacheInvariant => NothingEarly
  BY DEF CacheInvariant
<1>2. QED
  BY <1>1, CacheInvariantHolds, PTL

-----------------------------------------------------------------------------
(* The store and its order *)

OnceIn(order) == \A i, j \in DOMAIN order : order[i] = order[j] => i = j

\* An order that lists the keys of the lines, each once, and no more than fit.
Orders(order, ls) ==
    /\ order \in Seq(Key)
    /\ Listed(order) = {k \in Key : ls[k] # Absent}
    /\ OnceIn(order)
    /\ Len(order) <= Capacity

OrderInvariant ==
    /\ DOMAIN recency = Node
    /\ \A n \in Node : Orders(recency[n], lines[n])

LEMMA JoinedKeys ==
    ASSUME NEW s \in Seq(Key), NEW t \in Seq(Key)
    PROVE  /\ s \o t \in Seq(Key) /\ Len(s \o t) = Len(s) + Len(t)
           /\ \A j \in 1 .. Len(s) + Len(t) :
                 (s \o t)[j] = IF j <= Len(s) THEN s[j] ELSE t[j - Len(s)]
BY SMTT(30)

LEMMA JoinedPositions ==
    ASSUME NEW n \in Nat, NEW i \in 1 .. n, NEW j \in 1 .. n - 1,
           NEW p, p = i - 1, NEW q, q = n - i
    PROVE  /\ j \in 1 .. p + q
           /\ j < i => j \in 1 .. i - 1 /\ j <= p
           /\ ~(j < i) => ~(j <= p) /\ j - p \in 1 .. n - i /\ i + (j - p) = j + 1
OBVIOUS

\* The order that is left when one position goes.
LEMMA WithoutPosition ==
    ASSUME NEW b \in Seq(Key), NEW i \in DOMAIN b,
           NEW r, r = SubSeq(b, 1, i - 1) \o SubSeq(b, i + 1, Len(b))
    PROVE  /\ r \in Seq(Key) /\ Len(r) = Len(b) - 1 /\ DOMAIN r = 1 .. Len(b) - 1
           /\ \A j \in 1 .. Len(b) - 1 : r[j] = b[IF j < i THEN j ELSE j + 1]
<1> DEFINE s == SubSeq(b, 1, i - 1)
           t == SubSeq(b, i + 1, Len(b))
<1>1. Len(b) \in Nat /\ i \in 1 .. Len(b)
  OBVIOUS
<1>2. s \in Seq(Key) /\ Len(s) = i - 1 /\ \A j \in 1 .. i - 1 : s[j] = b[j]
  BY <1>1
<1>3. t \in Seq(Key) /\ Len(t) = Len(b) - i /\ \A j \in 1 .. Len(b) - i : t[j] = b[i + j]
  <2> HIDE DEF s
  <2>1. QED
    BY <1>1
<1>4. r = s \o t
  OBVIOUS
<1> HIDE DEF s, t
<1>5. /\ s \o t \in Seq(Key) /\ Len(s \o t) = Len(s) + Len(t)
      /\ \A j \in 1 .. Len(s) + Len(t) :
            (s \o t)[j] = IF j <= Len(s) THEN s[j] ELSE t[j - Len(s)]
  BY <1>2, <1>3, JoinedKeys
<1>6. Len(s) + Len(t) = Len(b) - 1
  BY <1>1, <1>2, <1>3
<1>7. ASSUME NEW j \in 1 .. Len(b) - 1
      PROVE  (s \o t)[j] = b[IF j < i THEN j ELSE j + 1]
  <2>1. /\ j \in 1 .. Len(s) + Len(t)
        /\ j < i => j \in 1 .. i - 1 /\ j <= Len(s)
        /\ ~(j < i) => /\ ~(j <= Len(s)) /\ j - Len(s) \in 1 .. Len(b) - i
                       /\ i + (j - Len(s)) = j + 1
    BY <1>1, <1>2, <1>3, JoinedPositions
  <2>2. CASE j < i
    BY <1>2, <1>5, <2>1, <2>2
  <2>3. CASE ~(j < i)
    BY <1>3, <1>5, <2>1, <2>3
  <2>4. QED
    BY <2>2, <2>3
<1>8. DOMAIN (s \o t) = 1 .. Len(b) - 1
  BY <1>5, <1>6
<1>9. QED
  BY <1>4, <1>5, <1>6, <1>7, <1>8

\* pop of an OrderedDict, for a key that is there.
LEMMA WithoutFacts ==
    ASSUME NEW b \in Seq(Key), OnceIn(b), NEW k \in Listed(b)
    PROVE  /\ Without(b, k) \in Seq(Key) /\ OnceIn(Without(b, k))
           /\ Len(Without(b, k)) = Len(b) - 1
           /\ \A x : x \in Listed(Without(b, k)) <=> x \in Listed(b) /\ x # k
<1>1. PICK i \in DOMAIN b : i = (CHOOSE j \in DOMAIN b : b[j] = k) /\ b[i] = k
  BY DEF Listed
<1> DEFINE r == SubSeq(b, 1, i - 1) \o SubSeq(b, i + 1, Len(b))
<1>2. Without(b, k) = r
  BY <1>1 DEF Without
<1>3. /\ r \in Seq(Key) /\ Len(r) = Len(b) - 1 /\ DOMAIN r = 1 .. Len(b) - 1
      /\ \A j \in 1 .. Len(b) - 1 : r[j] = b[IF j < i THEN j ELSE j + 1]
  <2>1. PICK q : q = r
    OBVIOUS
  <2>2. QED
    BY <2>1, WithoutPosition
<1>4. Len(b) \in Nat /\ i \in 1 .. Len(b) /\ DOMAIN b = 1 .. Len(b)
  OBVIOUS
<1> HIDE DEF r
<1>5. \A j \in DOMAIN r : /\ (IF j < i THEN j ELSE j + 1) \in DOMAIN b
                          /\ (IF j < i THEN j ELSE j + 1) # i
  BY <1>3, <1>4
<1>6. ASSUME NEW j \in DOMAIN r, NEW l \in DOMAIN r, r[j] = r[l]
      PROVE  j = l
  <2>1. (IF j < i THEN j ELSE j + 1) = (IF l < i THEN l ELSE l + 1)
    BY <1>3, <1>5, <1>6 DEF OnceIn
  <2>2. j \in Int /\ l \in Int /\ i \in Int
    BY <1>3, <1>4
  <2>3. QED
    BY <2>1, <2>2
<1>7. ASSUME NEW x \in Listed(r)
      PROVE  x \in Listed(b) /\ x # k
  <2>1. PICK j \in DOMAIN r : r[j] = x
    BY <1>7 DEF Listed
  <2>2. PICK l \in DOMAIN b : l # i /\ b[l] = x
    BY <1>3, <1>5, <2>1
  <2>3. x # k
    BY <1>1, <2>2 DEF OnceIn
  <2>4. QED
    BY <2>2, <2>3 DEF Listed
<1>8. ASSUME NEW x \in Listed(b), x # k
      PROVE  x \in Listed(r)
  <2>1. PICK l \in DOMAIN b : b[l] = x
    BY DEF Listed
  <2>2. l # i /\ l \in 1 .. Len(b)
    BY <1>1, <1>4, <1>8, <2>1
  <2>3. PICK j \in 1 .. Len(b) - 1 : (IF j < i THEN j ELSE j + 1) = l
    <3>1. CASE l < i
      <4>1. l \in 1 .. Len(b) - 1
        BY <1>4, <2>2, <3>1
      <4>2. QED
        BY <3>1, <4>1
    <3>2. CASE ~(l < i)
      <4>1. l - 1 \in 1 .. Len(b) - 1 /\ ~(l - 1 < i) /\ (l - 1) + 1 = l
        BY <1>4, <2>2, <3>2
      <4>2. QED
        BY <4>1
    <3>3. QED
      BY <3>1, <3>2
  <2>4. j \in DOMAIN r /\ r[j] = x
    BY <1>3, <2>1, <2>3
  <2>5. QED
    BY <2>4 DEF Listed
<1>9. QED
  BY <1>2, <1>3, <1>6, <1>7, <1>8 DEF OnceIn

\* Assigning to a key that is not there.
LEMMA AppendFacts ==
    ASSUME NEW b \in Seq(Key), OnceIn(b), NEW k \in Key, k \notin Listed(b)
    PROVE  /\ Append(b, k) \in Seq(Key) /\ OnceIn(Append(b, k))
           /\ Len(Append(b, k)) = Len(b) + 1
           /\ \A x : x \in Listed(Append(b, k)) <=> x \in Listed(b) \/ x = k
<1> DEFINE r == Append(b, k)
<1>1. /\ r \in Seq(Key) /\ Len(b) \in Nat /\ DOMAIN b = 1 .. Len(b) /\ Len(r) = Len(b) + 1
      /\ DOMAIN r = 1 .. Len(b) + 1 /\ r[Len(b) + 1] = k /\ \A j \in 1 .. Len(b) : r[j] = b[j]
  OBVIOUS
<1> HIDE DEF r
<1>2. \A j \in DOMAIN r : \/ j \in DOMAIN b /\ r[j] = b[j] /\ r[j] # k
                          \/ j = Len(b) + 1 /\ r[j] = k
  BY <1>1 DEF Listed
<1>3. OnceIn(r)
  BY <1>2 DEF OnceIn
<1>4. \A x \in Listed(r) : x \in Listed(b) \/ x = k
  BY <1>2 DEF Listed
<1>5. \A j \in DOMAIN b : j \in DOMAIN r /\ r[j] = b[j]
  BY <1>1
<1>6. Len(b) + 1 \in DOMAIN r
  BY <1>1
<1>7. \A x : x \in Listed(r) <=> x \in Listed(b) \/ x = k
  BY <1>1, <1>4, <1>5, <1>6 DEF Listed
<1>8. QED
  BY <1>1, <1>3, <1>7 DEF r

\* popitem(last=False).
LEMMA TailFacts ==
    ASSUME NEW b \in Seq(Key), OnceIn(b), b # <<>>
    PROVE  /\ Head(b) \in Listed(b) /\ Tail(b) \in Seq(Key) /\ OnceIn(Tail(b))
           /\ Len(Tail(b)) = Len(b) - 1
           /\ \A x : x \in Listed(Tail(b)) <=> x \in Listed(b) /\ x # Head(b)
<1> DEFINE r == Tail(b)
<1>1. /\ r \in Seq(Key) /\ Len(b) \in Nat /\ DOMAIN b = 1 .. Len(b) /\ 1 \in DOMAIN b
      /\ DOMAIN r = 1 .. Len(b) - 1 /\ \A j \in 1 .. Len(b) - 1 : r[j] = b[j + 1]
      /\ Head(b) = b[1] /\ Len(r) = Len(b) - 1
  OBVIOUS
<1> HIDE DEF r
<1>2. \A j \in DOMAIN r : j \in Int /\ j + 1 \in DOMAIN b /\ j + 1 # 1 /\ r[j] = b[j + 1]
  BY <1>1
<1>3. \A j \in DOMAIN b : j # 1 => j - 1 \in DOMAIN r /\ r[j - 1] = b[j]
  BY <1>1
<1>4. OnceIn(r)
  <2> SUFFICES ASSUME NEW i \in DOMAIN r, NEW j \in DOMAIN r, r[i] = r[j]
               PROVE  i = j
    BY DEF OnceIn
  <2>1. i + 1 = j + 1 /\ i \in Int /\ j \in Int
    BY <1>2 DEF OnceIn
  <2>2. QED
    BY <2>1
<1>5. \A x \in Listed(r) : x \in Listed(b) /\ x # Head(b)
  BY <1>1, <1>2 DEF Listed, OnceIn
<1>6. \A x \in Listed(b) : x # Head(b) => x \in Listed(r)
  BY <1>1, <1>3 DEF Listed
<1>7. QED
  BY <1>1, <1>4, <1>5, <1>6 DEF r, Listed

LEMMA OrderedLengths ==
    ASSUME NEW order \in Seq(Key)
    PROVE  Len(order) \in Nat /\ Capacity \in Nat \ {0} /\ (Len(order) >= Capacity => order # <<>>)
BY CacheAssumption

\* Lines may change as long as none comes or goes.
LEMMA SameKeys ==
    ASSUME NEW order, NEW ls, Orders(order, ls), NEW new,
           \A k \in Key : new[k] = Absent <=> ls[k] = Absent
    PROVE  Orders(order, new)
BY DEF Orders

\* get and move_to_end keep the keys.
LEMMA TouchOrders ==
    ASSUME NEW order, NEW ls, Orders(order, ls), NEW k \in Key
    PROVE  Orders(Touch(order, k), ls)
<1>1. CASE k \in Listed(order)
  <2> DEFINE b == Without(order, k)
  <2>1. /\ b \in Seq(Key) /\ OnceIn(b) /\ Len(b) = Len(order) - 1
        /\ \A x : x \in Listed(b) <=> x \in Listed(order) /\ x # k
    BY <1>1, WithoutFacts DEF Orders
  <2>2. Touch(order, k) = Append(b, k)
    BY <1>1 DEF Touch
  <2> HIDE DEF b
  <2> DEFINE r == Append(b, k)
  <2>3. /\ r \in Seq(Key) /\ OnceIn(r) /\ Len(r) = Len(b) + 1
        /\ \A x : x \in Listed(r) <=> x \in Listed(b) \/ x = k
    BY <2>1, AppendFacts
  <2> HIDE DEF r
  <2>4. Listed(r) = Listed(order)
    BY <1>1, <2>1, <2>3
  <2>5. Len(r) <= Capacity
    BY <2>1, <2>3, OrderedLengths DEF Orders
  <2>6. QED
    BY <2>2, <2>3, <2>4, <2>5 DEF Orders, r
<1>2. CASE k \notin Listed(order)
  BY <1>2 DEF Touch
<1>3. QED
  BY <1>1, <1>2

\* invalidate takes the key out of both.
LEMMA WithoutOrders ==
    ASSUME NEW order, NEW ls \in [Key -> Line \cup {Absent}], Orders(order, ls), NEW k \in Key
    PROVE  Orders(Without(order, k), [ls EXCEPT ![k] = Absent])
<1> DEFINE after == [ls EXCEPT ![k] = Absent]
<1>1. \A j \in Key : after[j] # Absent <=> ls[j] # Absent /\ j # k
  OBVIOUS
<1> HIDE DEF after
<1>2. CASE k \in Listed(order)
  <2> DEFINE b == Without(order, k)
  <2>1. /\ b \in Seq(Key) /\ OnceIn(b) /\ Len(b) = Len(order) - 1
        /\ \A x : x \in Listed(b) <=> x \in Listed(order) /\ x # k
    BY <1>2, WithoutFacts DEF Orders
  <2> HIDE DEF b
  <2>2. Listed(b) = {j \in Key : after[j] # Absent}
    BY <1>1, <2>1 DEF Orders
  <2>3. Len(b) <= Capacity
    BY <2>1, OrderedLengths DEF Orders
  <2>4. QED
    BY <2>1, <2>2, <2>3 DEF Orders, b, after
<1>3. CASE k \notin Listed(order)
  <2>1. Without(order, k) = order
    BY <1>3 DEF Without
  <2>2. \A j \in Key : after[j] = Absent <=> ls[j] = Absent
    BY <1>1, <1>3 DEF Orders
  <2>3. QED
    BY <2>1, <2>2, SameKeys DEF after
<1>4. QED
  BY <1>2, <1>3

\* put keeps order and lines together, whether the key is there, there is room, or the oldest
\* line goes.
LEMMA PutOrders ==
    ASSUME NEW order, NEW ls \in [Key -> Line \cup {Absent}], Orders(order, ls),
           NEW k \in Key, NEW line \in Line,
           NEW put, put = Put(ls, order, k, line)
    PROVE  Orders(put.recency, put.lines)
<1>1. line # Absent
  BY LineFields DEF Line, Absent, Modified, Exclusive, Shared, Invalid
<1>2. CASE ls[k] # Absent
  <2>1. put.lines = ls /\ put.recency = Touch(order, k)
    BY <1>2 DEF Put
  <2>2. QED
    BY <2>1, TouchOrders
<1>3. CASE ls[k] = Absent /\ HasRoom(order)
  <2> DEFINE after == [ls EXCEPT ![k] = line]
             r == Append(order, k)
  <2>1. put.lines = after /\ put.recency = r
    BY <1>3 DEF Put
  <2>2. \A j \in Key : after[j] # Absent <=> ls[j] # Absent \/ j = k
    BY <1>1
  <2>3. k \notin Listed(order)
    BY <1>3 DEF Orders
  <2>4. /\ r \in Seq(Key) /\ OnceIn(r) /\ Len(r) = Len(order) + 1
        /\ \A x : x \in Listed(r) <=> x \in Listed(order) \/ x = k
    BY <2>3, AppendFacts DEF Orders
  <2> HIDE DEF after, r
  <2>5. Listed(r) = {j \in Key : after[j] # Absent}
    BY <2>2, <2>4 DEF Orders
  <2>6. Len(r) <= Capacity
    BY <1>3, <2>4, OrderedLengths DEF Orders, HasRoom
  <2>7. QED
    BY <2>1, <2>4, <2>5, <2>6 DEF Orders
<1>4. CASE ls[k] = Absent /\ ~HasRoom(order)
  <2> DEFINE after == [j \in Key |-> CASE j = k -> line
                                       [] j = Head(order) -> Absent
                                       [] OTHER -> ls[j]]
             b == Tail(order)
             r == Append(b, k)
  <2>1. put.lines = after /\ put.recency = r
    BY <1>4 DEF Put
  <2>2. order \in Seq(Key) /\ OnceIn(order) /\ order # <<>> /\ k \notin Listed(order)
    BY <1>4, OrderedLengths DEF Orders, HasRoom
  <2>3. /\ Head(order) \in Listed(order) /\ b \in Seq(Key) /\ OnceIn(b) /\ Len(b) = Len(order) - 1
        /\ \A x : x \in Listed(b) <=> x \in Listed(order) /\ x # Head(order)
    BY <2>2, TailFacts
  <2> HIDE DEF b
  <2>4. /\ r \in Seq(Key) /\ OnceIn(r) /\ Len(r) = Len(b) + 1
        /\ \A x : x \in Listed(r) <=> x \in Listed(b) \/ x = k
    BY <2>2, <2>3, AppendFacts
  <2>5. \A j \in Key : after[j] # Absent <=> (ls[j] # Absent /\ j # Head(order)) \/ j = k
    <3>1. ASSUME NEW j \in Key
          PROVE  after[j] = IF j = k THEN line ELSE IF j = Head(order) THEN Absent ELSE ls[j]
      <4>1. after[j] = CASE j = k -> line [] j = Head(order) -> Absent [] OTHER -> ls[j]
        BY Zenon
      <4> HIDE DEF after
      <4>2. CASE j = k
        <5>1. k # Head(order)
          BY <2>2, <2>3
        <5>2. QED
          BY <4>1, <4>2, <5>1
      <4>3. CASE j # k
        BY <4>1, <4>3
      <4>4. QED
        BY <4>2, <4>3
    <3>2. QED
      BY <1>1, <3>1
  <2> HIDE DEF after, r
  <2>6. Listed(r) = {j \in Key : after[j] # Absent}
    BY <2>3, <2>4, <2>5 DEF Orders
  <2>7. Len(r) <= Capacity
    BY <2>2, <2>3, <2>4, OrderedLengths DEF Orders
  <2>8. QED
    BY <2>1, <2>4, <2>6, <2>7 DEF Orders
<1>5. QED
  BY <1>2, <1>3, <1>4

-----------------------------------------------------------------------------
\* A step that changes the store of one node.
LEMMA OneStore ==
    ASSUME CacheType, OrderInvariant, NEW n \in Node, NEW order, NEW ls, Orders(order, ls),
           recency' = [recency EXCEPT ![n] = order],
           lines'[n] = ls, \A p \in Node : p # n => lines'[p] = lines[p]
    PROVE  OrderInvariant'
BY DEF OrderInvariant

\* get, and a line that changes in its place.
LEMMA GetOrders ==
    ASSUME CacheType, OrderInvariant, NEW n \in Node, NEW k \in Key, Get(n, k),
           \/ lines' = lines
           \/ \E new \in Line : lines[n][k] # Absent /\ lines' = [lines EXCEPT ![n][k] = new]
    PROVE  OrderInvariant'
<1>1. Orders(recency[n], lines[n])
  BY DEF OrderInvariant
<1>2. \A line \in Line : line # Absent
  BY DEF Line, Absent, Modified, Exclusive, Shared, Invalid
<1>3. /\ \A p \in Node : p # n => lines'[p] = lines[p]
      /\ \A j \in Key : lines'[n][j] = Absent <=> lines[n][j] = Absent
  BY <1>2 DEF CacheType
<1>4. PICK ls : ls = lines'[n]
  OBVIOUS
<1>5. PICK order : order = Touch(recency[n], k)
  OBVIOUS
<1>6. Orders(order, ls)
  <2>1. Orders(order, lines[n])
    BY <1>1, <1>5, TouchOrders
  <2>2. QED
    BY <1>3, <1>4, <2>1, SameKeys
<1>7. recency' = [recency EXCEPT ![n] = order]
  BY <1>5 DEF Get, OrderInvariant
<1>8. QED
  BY <1>3, <1>4, <1>6, <1>7, OneStore

LEMMA RemoveOrders ==
    ASSUME CacheType, OrderInvariant, NEW n \in Node, NEW k \in Key, Remove(n, k)
    PROVE  OrderInvariant'
<1>1. Orders(recency[n], lines[n]) /\ lines[n] \in [Key -> Line \cup {Absent}]
  BY DEF OrderInvariant, CacheType
<1>2. PICK order : order = Without(recency[n], k)
  OBVIOUS
<1>3. PICK ls : ls = [lines[n] EXCEPT ![k] = Absent]
  OBVIOUS
<1>4. Orders(order, ls)
  BY <1>1, <1>2, <1>3, WithoutOrders
<1>5. recency' = [recency EXCEPT ![n] = order]
  BY <1>2 DEF Remove, OrderInvariant
<1>6. lines'[n] = ls /\ \A p \in Node : p # n => lines'[p] = lines[p]
  BY <1>3 DEF Remove, CacheType
<1>7. QED
  BY <1>4, <1>5, <1>6, OneStore

LEMMA StoreOrders ==
    ASSUME CacheType, OrderInvariant, NEW n \in Node, NEW k \in Key, NEW line \in Line, NEW known,
           Store(n, k, line, known)
    PROVE  OrderInvariant'
<1>1. Orders(recency[n], lines[n]) /\ lines[n] \in [Key -> Line \cup {Absent}]
  BY DEF OrderInvariant, CacheType
<1>2. PICK put : put = Put(lines[n], recency[n], k, line)
  OBVIOUS
<1>3. Orders(put.recency, put.lines)
  BY <1>1, <1>2, PutOrders
<1>4. /\ recency' = [recency EXCEPT ![n] = put.recency]
      /\ lines' = [lines EXCEPT ![n] = put.lines]
  BY <1>2 DEF Store
<1>5. lines'[n] = put.lines /\ \A p \in Node : p # n => lines'[p] = lines[p]
  BY <1>4 DEF CacheType
<1>6. QED
  BY <1>3, <1>4, <1>5, OneStore

LEMMA SameStores == OrderInvariant /\ UNCHANGED storeVars => OrderInvariant'
BY DEF OrderInvariant, storeVars

\* The call somebody waits for.
LEMMA WaitingCall ==
    ASSUME CacheType, NEW id \in CallId, calls[id].phase = "waiting" \/ calls[id].waiting # {}
    PROVE  calls[id].node \in Node /\ calls[id].key \in Key
<1>1. calls[id] \in Call
  BY CallFields DEF CacheType
<1>2. QED
  BY <1>1 DEF Call

LEMMA FillOrders ==
    ASSUME CacheInvariant, OrderInvariant, NEW m \in messages, TakeAnswer(m)
    PROVE  OrderInvariant'
<1>1. CacheType /\ m.call \in CallId /\ m.value \in CallId \cup {NoValue} /\ m.type = "answer"
  BY DEF CacheInvariant, CacheType, Message, TakeAnswer
<1>2. CASE calls[m.call].op = "read" /\ m.value # NoValue
  <2>1. calls[m.call].waiting # {}
    BY <1>1 DEF CacheInvariant, AnswersAwaited
  <2>2. calls[m.call].node \in Node /\ calls[m.call].key \in Key
    BY <1>1, <2>1, WaitingCall
  <2> DEFINE line == [value |-> m.value, state |-> Shared, dirty |-> FALSE]
  <2>3. line \in Line
    BY <1>1, <1>2 DEF Line
  <2>4. \E known : Store(calls[m.call].node, calls[m.call].key, line, known)
    BY <1>2 DEF TakeAnswer, Fill
  <2> HIDE DEF line
  <2>5. QED
    BY <1>1, <2>2, <2>3, <2>4, StoreOrders
<1>3. CASE ~(calls[m.call].op = "read" /\ m.value # NoValue)
  BY <1>3, SameStores DEF TakeAnswer
<1>4. QED
  BY <1>2, <1>3

LEMMA HandOutOrders ==
    ASSUME CacheType, OrderInvariant, NEW m \in messages, HandleFetch(m)
    PROVE  OrderInvariant'
<1>1. m.peer \in Node /\ m.key \in Key
  BY DEF CacheType, Message
<1>2. CASE lines[m.peer][m.key] = Absent
  BY <1>2, SameStores DEF HandleFetch
<1>3. CASE lines[m.peer][m.key] # Absent
  <2> DEFINE new == Downgrade(lines[m.peer][m.key])
  <2>1. lines[m.peer][m.key] \in Line
    BY <1>1, <1>3 DEF CacheType
  <2>2. new \in Line
    BY <2>1 DEF Downgrade, Line
  <2>3. lines' = [lines EXCEPT ![m.peer][m.key] = new] /\ Get(m.peer, m.key)
    BY <1>3 DEF HandleFetch
  <2> HIDE DEF new
  <2>4. QED
    BY <1>1, <1>3, <2>2, <2>3, GetOrders
<1>4. QED
  BY <1>2, <1>3

LEMMA WriteOrders ==
    ASSUME CacheType, OrderInvariant, NEW id \in CallId,
           \/ FinishWrite(id)
           \/ \E n \in Node, k \in Key : WriteOwned(id, n, k)
    PROVE  OrderInvariant'
<1> DEFINE line == [value |-> id, state |-> Modified, dirty |-> TRUE]
<1>1. line \in Line
  BY DEF Line
<1>2. CASE FinishWrite(id)
  <2>1. calls[id].node \in Node /\ calls[id].key \in Key
    BY <1>2, WaitingCall DEF FinishWrite
  <2>2. Store(calls[id].node, calls[id].key, line, {calls[id].node})
    BY <1>2 DEF FinishWrite
  <2> HIDE DEF line
  <2>3. QED
    BY <1>1, <2>1, <2>2, StoreOrders
<1>3. ASSUME NEW n \in Node, NEW k \in Key, WriteOwned(id, n, k)
      PROVE  OrderInvariant'
  <2>1. lines' = [lines EXCEPT ![n][k] = line] /\ Get(n, k) /\ lines[n][k] # Absent
    BY <1>3 DEF WriteOwned, Absent, Modified, Exclusive, Invalid
  <2> HIDE DEF line
  <2>2. QED
    BY <1>1, <2>1, GetOrders
<1>4. QED
  BY <1>2, <1>3

\* One step of any node keeps every store and its order together.
LEMMA OrderStep == CacheInvariant /\ OrderInvariant /\ [Next]_vars => OrderInvariant'
<1> SUFFICES ASSUME CacheInvariant, OrderInvariant, [Next]_vars PROVE OrderInvariant'
  OBVIOUS
<1>1. CacheType
  BY DEF CacheInvariant
<1>2. ASSUME NEW n \in Node, NEW k \in Key, ReadHit(n, k) PROVE OrderInvariant'
  BY <1>1, <1>2, GetOrders DEF ReadHit
<1>3. ASSUME NEW id \in CallId, NEW n \in Node, NEW k \in Key, ClientStep(id, n, k)
      PROVE  OrderInvariant'
  <2>1. CASE ReadMiss(id, n, k) \/ StartDelete(id, n, k)
    BY <2>1, SameStores DEF ReadMiss, StartDelete
  <2>2. CASE WriteOwned(id, n, k)
    BY <1>1, <2>2, WriteOrders
  <2>3. CASE StartWrite(id, n, k)
    BY <1>1, <2>3, GetOrders DEF StartWrite
  <2>4. QED
    BY <1>3, <2>1, <2>2, <2>3 DEF ClientStep
<1>4. ASSUME NEW id \in CallId, Finish(id) PROVE OrderInvariant'
  <2>1. CASE ReadFails(id)
    BY <2>1, SameStores DEF ReadFails
  <2>2. CASE FinishWrite(id)
    BY <1>1, <2>2, WriteOrders
  <2>3. CASE FinishDelete(id)
    <3>1. calls[id].node \in Node /\ calls[id].key \in Key
      BY <1>1, <2>3, WaitingCall DEF FinishDelete
    <3>2. QED
      BY <1>1, <2>3, <3>1, RemoveOrders DEF FinishDelete
  <2>4. QED
    BY <1>4, <2>1, <2>2, <2>3 DEF Finish
<1>5. ASSUME NEW id \in CallId, NEW p \in Node, CallTimesOut(id, p) PROVE OrderInvariant'
  BY <1>5, SameStores DEF CallTimesOut
<1>6. ASSUME NEW m \in messages, MessageStep(m) PROVE OrderInvariant'
  <2>1. m.peer \in Node /\ m.key \in Key
    BY <1>1 DEF CacheType, Message
  <2>2. CASE HandleInvalidation(m)
    BY <1>1, <2>1, <2>2, RemoveOrders DEF HandleInvalidation
  <2>3. CASE HandleFetch(m)
    BY <1>1, <2>3, HandOutOrders
  <2>4. CASE TakeAnswer(m)
    BY <2>4, FillOrders
  <2>5. QED
    BY <1>6, <2>2, <2>3, <2>4 DEF MessageStep
<1>7. CASE UNCHANGED vars
  BY <1>7, SameStores DEF vars, storeVars
<1>8. QED
  BY <1>2, <1>3, <1>4, <1>5, <1>6, <1>7 DEF Next

\* The order of a store lists its lines and no more than fit, whatever calls, invalidations,
\* evictions and failures do (LRUCache.put, get, invalidate).
THEOREM StoresFit == Spec => []TypeOK
<1>1. Init => OrderInvariant
  BY CacheAssumption DEF Init, OrderInvariant, Orders, OnceIn, Listed
<1>2. CacheInvariant /\ OrderInvariant => TypeOK
  BY DEF CacheInvariant, CacheType, OrderInvariant, Orders, OnceIn, TypeOK
<1>3. QED
  BY <1>1, <1>2, CacheInvariantHolds, OrderStep, PTL DEF Spec
====
