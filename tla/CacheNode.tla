---- MODULE CacheNode ----
(***************************************************************************)
(* CacheNode with its LRU store (src/src/nodes/cache_node.py) on every     *)
(* node of a cluster, and the coherence calls between them                 *)
(* (src/src/nodes/base_node.py).                                           *)
(*                                                                         *)
(* A coroutine runs without interruption up to the next await that really  *)
(* suspends: read suspends while it asks its peers for a line, write and   *)
(* the DELETE handler while they invalidate other copies.  The handlers of *)
(* coherence messages never do, because the writeback is a stub.  Nobody   *)
(* sends cache_update, so handle_update is left out.                       *)
(*                                                                         *)
(* An operator named for what it gets wrong (StoreFirst, ...) is a slip    *)
(* the properties must notice; no other definition uses it.                *)
(***************************************************************************)
EXTENDS Naturals, Sequences, FiniteSets

CONSTANTS
    Node,             \* the nodes, for their addresses and their node ids
    Key,              \* the keys
    CallId,           \* the calls of read, write and DELETE; a write's value is its id
    NoValue,          \* the value of no line
    Peers,            \* _peers of each node
    Capacity,         \* capacity of every store
    IdsAreAddresses,  \* whether a node id is an address calls can be sent to
    CallsFail         \* whether calls between nodes may time out

ASSUME CacheAssumption ==
    /\ NoValue \notin CallId
    /\ Peers \in [Node -> SUBSET Node]
    /\ \A n \in Node : Peers[n] # {}
    /\ Capacity \in Nat \ {0}
    /\ IdsAreAddresses \in BOOLEAN
    /\ CallsFail \in BOOLEAN

VARIABLES
    lines,     \* _store of each node: its line of each key, Absent when it has none
    recency,   \* the keys of _store, least recently used first
    sharers,   \* _sharers of each node, {} for an absent key
    calls,     \* the calls made so far that had to wait, or that wrote
    messages   \* coherence requests and answers in flight; a lost one stays for ever

storeVars == <<lines, recency>>
vars == <<lines, recency, sharers, calls, messages>>

Modified  == "M"
Exclusive == "E"
Shared    == "S"
Invalid   == "I"

Line == [value : CallId, state : {Modified, Exclusive, Shared}, dirty : BOOLEAN]

Absent == [value |-> NoValue, state |-> Invalid, dirty |-> FALSE]

\* A call waits for the answers of the nodes in waiting.
Call == [phase : {"waiting"}, op : {"read", "write", "delete"},
         node : Node, key : Key, waiting : SUBSET Node]

Unused   == [phase |-> "unused", waiting |-> {}]
Returned == [phase |-> "done", waiting |-> {}]

\* An answer to a fetch carries a value; NoValue says that nothing was found.
Message == [type : {"fetch", "invalidate", "answer"}, call : CallId, node : Node, key : Key,
            peer : Node, value : CallId \cup {NoValue}]

-----------------------------------------------------------------------------
Init ==
    /\ lines = [n \in Node |-> [k \in Key |-> Absent]]
    /\ recency = [n \in Node |-> <<>>]
    /\ sharers = [n \in Node |-> [k \in Key |-> {}]]
    /\ calls = [id \in CallId |-> Unused]
    /\ messages = {}

-----------------------------------------------------------------------------
(* The store *)

Listed(order) == {order[i] : i \in DOMAIN order}

\* An order has a key once (TypeOK).
Without(order, k) ==
    IF k \in Listed(order)
    THEN LET i == CHOOSE j \in DOMAIN order : order[j] = k
         IN  SubSeq(order, 1, i - 1) \o SubSeq(order, i + 1, Len(order))
    ELSE order

\* get, which also makes the key the most recently used.
Touch(order, k) == IF k \in Listed(order) THEN Append(Without(order, k), k) ELSE order

HasOneMore(order) == Len(order) <= Capacity
HasRoom(order) == Len(order) < Capacity

\* put: a line that is there stays as it is; a full store loses its oldest line.
Put(ls, order, k, line) ==
    CASE ls[k] # Absent ->
            [lines |-> ls, recency |-> Touch(order, k), evicted |-> {}]
      [] ls[k] = Absent /\ HasRoom(order) ->
            [lines |-> [ls EXCEPT ![k] = line], recency |-> Append(order, k), evicted |-> {}]
      [] OTHER ->
            [lines |-> [j \in Key |-> CASE j = k -> line
                                        [] j = Head(order) -> Absent
                                        [] OTHER -> ls[j]],
             recency |-> Append(Tail(order), k),
             evicted |-> {Head(order)}]

\* put in the store of n, with _handle_eviction and what becomes of the key's sharers.
Store(n, k, line, known) ==
    LET put == Put(lines[n], recency[n], k, line) IN
    /\ lines' = [lines EXCEPT ![n] = put.lines]
    /\ recency' = [recency EXCEPT ![n] = put.recency]
    /\ sharers' = [sharers EXCEPT ![n] = [j \in Key |->
           CASE j = k -> known [] j \in put.evicted -> {} [] OTHER -> sharers[n][j]]]

Get(n, k) == recency' = [recency EXCEPT ![n] = Touch(@, k)]

Remove(n, k) ==
    /\ lines' = [lines EXCEPT ![n][k] = Absent]
    /\ recency' = [recency EXCEPT ![n] = Without(@, k)]

-----------------------------------------------------------------------------
(* Calls *)

NewCall(op, n, k, asked) ==
    [phase |-> "waiting", op |-> op, node |-> n, key |-> k, waiting |-> asked]

Requests(type, id, n, k, asked) ==
    {[type |-> type, call |-> id, node |-> n, key |-> k, peer |-> p, value |-> NoValue]
        : p \in asked}

Answers(id) == {m \in messages : m.call = id /\ m.type = "answer"}

Done(id) == calls' = [calls EXCEPT ![id] = Returned]

\* One answer less to wait for.
NoLongerWaits(id, p) ==
    /\ calls' = [calls EXCEPT ![id].waiting = @ \ {p}]
    /\ messages' = messages \ {m \in Answers(id) : m.peer = p}

-----------------------------------------------------------------------------
(* read *)

ReadHit(n, k) ==
    /\ lines[n][k] # Absent
    /\ Get(n, k)
    /\ UNCHANGED <<lines, sharers, calls, messages>>

\* _fetch_from_peers asks all peers at once.
ReadMiss(id, n, k) ==
    /\ calls[id] = Unused
    /\ lines[n][k] = Absent
    /\ calls' = [calls EXCEPT ![id] = NewCall("read", n, k, Peers[n])]
    /\ messages' = messages \cup Requests("fetch", id, n, k, Peers[n])
    /\ UNCHANGED <<storeVars, sharers>>

\* The first line found is stored and the other requests are given up.  It has a
\* source node, so its state is Shared, never Exclusive.
Fill(id, value) ==
    LET n == calls[id].node
        k == calls[id].key
    IN
    /\ Store(n, k, [value |-> value, state |-> Shared, dirty |-> FALSE], sharers[n][k] \cup {n})
    /\ Done(id)
    /\ messages' = messages \ Answers(id)

\* Nobody had the line.
ReadFails(id) ==
    /\ calls[id].phase = "waiting" /\ calls[id].op = "read" /\ calls[id].waiting = {}
    /\ Done(id)
    /\ UNCHANGED <<storeVars, sharers, messages>>

-----------------------------------------------------------------------------
(* write and the DELETE handler *)

\* Whom _invalidate_others tells: the sharers it knows, by their node ids, or all peers.
Known(n, k) == sharers[n][k] \ {n}
Asked(n, k) == IF Known(n, k) # {} THEN Known(n, k) ELSE Peers[n]
Reached(n, k) == IF Known(n, k) # {} /\ ~IdsAreAddresses THEN {} ELSE Asked(n, k)

Invalidate(op, id, n, k) ==
    /\ calls' = [calls EXCEPT ![id] = NewCall(op, n, k, Asked(n, k))]
    /\ messages' = messages \cup Requests("invalidate", id, n, k, Reached(n, k))

\* A line in state M or E is written in place.
WriteOwned(id, n, k) ==
    /\ calls[id] = Unused
    /\ lines[n][k].state \in {Modified, Exclusive}
    /\ lines' = [lines EXCEPT ![n][k] = [value |-> id, state |-> Modified, dirty |-> TRUE]]
    /\ Get(n, k)
    /\ Done(id)
    /\ UNCHANGED <<sharers, messages>>

StoreFirst(id, n, k) ==
    /\ calls[id] = Unused
    /\ lines[n][k].state \in {Shared, Invalid}
    /\ Store(n, k, [value |-> id, state |-> Modified, dirty |-> TRUE], {n})
    /\ Invalidate("write", id, n, k)

\* Any other write first invalidates the copies of others.
StartWrite(id, n, k) ==
    /\ calls[id] = Unused
    /\ lines[n][k].state \in {Shared, Invalid}
    /\ Get(n, k)
    /\ Invalidate("write", id, n, k)
    /\ UNCHANGED <<lines, sharers>>

\* All invalidations are answered or have failed.
FinishWrite(id) ==
    /\ calls[id].phase = "waiting" /\ calls[id].op = "write" /\ calls[id].waiting = {}
    /\ Store(calls[id].node, calls[id].key,
             [value |-> id, state |-> Modified, dirty |-> TRUE], {calls[id].node})
    /\ Done(id)
    /\ UNCHANGED messages

StartDelete(id, n, k) ==
    /\ calls[id] = Unused
    /\ Invalidate("delete", id, n, k)
    /\ UNCHANGED <<storeVars, sharers>>

FinishDelete(id) ==
    /\ calls[id].phase = "waiting" /\ calls[id].op = "delete" /\ calls[id].waiting = {}
    /\ Remove(calls[id].node, calls[id].key)
    /\ Done(id)
    /\ UNCHANGED <<sharers, messages>>

-----------------------------------------------------------------------------
(* Coherence messages *)

\* The answer to a call that has stopped waiting reaches nobody.
Reply(m, value) ==
    messages' = (messages \ {m}) \cup
        (IF m.peer \in calls[m.call].waiting
         THEN {[m EXCEPT !.type = "answer", !.value = value]} ELSE {})

KeepState(line) == line
Downgrade(line) == [value |-> line.value, state |-> Shared, dirty |-> FALSE]

\* A line that is handed out is written back and becomes Shared.
HandleFetch(m) ==
    LET p == m.peer
        k == m.key
    IN
    /\ m.type = "fetch"
    /\ IF lines[p][k] = Absent
       THEN /\ Reply(m, NoValue)
            /\ UNCHANGED <<storeVars, sharers>>
       ELSE /\ Reply(m, lines[p][k].value)
            /\ lines' = [lines EXCEPT ![p][k] = Downgrade(@)]
            /\ Get(p, k)
            /\ sharers' = [sharers EXCEPT ![p][k] = @ \cup {m.node}]
    /\ UNCHANGED calls

HandleInvalidation(m) ==
    /\ m.type = "invalidate"
    /\ Remove(m.peer, m.key)
    /\ Reply(m, NoValue)
    /\ UNCHANGED <<sharers, calls>>

TakeAnswer(m) ==
    /\ m.type = "answer"
    /\ IF calls[m.call].op = "read" /\ m.value # NoValue
       THEN Fill(m.call, m.value)
       ELSE /\ NoLongerWaits(m.call, m.peer)
            /\ UNCHANGED <<storeVars, sharers>>

\* The two second timeout, or no connection.  The request may still arrive.
CallTimesOut(id, p) ==
    /\ p \in calls[id].waiting
    /\ CallsFail \/ \A m \in messages : ~(m.call = id /\ m.peer = p)
    /\ NoLongerWaits(id, p)
    /\ UNCHANGED <<storeVars, sharers>>

-----------------------------------------------------------------------------
ClientStep(id, n, k) ==
    \/ ReadMiss(id, n, k)
    \/ WriteOwned(id, n, k)
    \/ StartWrite(id, n, k)
    \/ StartDelete(id, n, k)

Finish(id) == ReadFails(id) \/ FinishWrite(id) \/ FinishDelete(id)

MessageStep(m) == HandleFetch(m) \/ HandleInvalidation(m) \/ TakeAnswer(m)

Next ==
    \/ \E n \in Node, k \in Key : ReadHit(n, k)
    \/ \E id \in CallId, n \in Node, k \in Key : ClientStep(id, n, k)
    \/ \E id \in CallId : Finish(id)
    \/ \E id \in CallId, p \in Node : CallTimesOut(id, p)
    \/ \E m \in messages : MessageStep(m)

Spec == Init /\ [][Next]_vars

-----------------------------------------------------------------------------
(* Properties *)

\* The store and its order agree, and no store outgrows its capacity.
TypeOK ==
    /\ lines \in [Node -> [Key -> Line \cup {Absent}]]
    /\ DOMAIN recency = Node
    /\ \A n \in Node :
          /\ Listed(recency[n]) = {k \in Key : lines[n][k] # Absent}
          /\ \A i, j \in DOMAIN recency[n] : recency[n][i] = recency[n][j] => i = j
          /\ Len(recency[n]) <= Capacity
    /\ sharers \in [Node -> [Key -> SUBSET Node]]
    /\ calls \in [CallId -> Call \cup {Unused, Returned}]
    /\ messages \subseteq Message

\* A value that is not written back is in one line only, and in no answer; what
\* others may have is clean (handle_fetch_request's downgrade against writes in
\* place, fetches in flight and evictions).
ModifiedIsPrivate ==
    \A n \in Node, k \in Key :
        LET line == lines[n][k] IN
        /\ line.dirty <=> line.state = Modified
        /\ line.state = Modified =>
              /\ \A p \in Node, j \in Key : <<p, j>> # <<n, k>> => lines[p][j].value # line.value
              /\ \A m \in messages : m.value # line.value

\* Nobody has or gets the value of a write that still waits for invalidations:
\* other copies are invalidated before the write, not after it (write).
NothingEarly ==
    /\ \A n \in Node, k \in Key :
          lines[n][k] # Absent => calls[lines[n][k].value].phase = "done"
    /\ \A m \in messages : m.value # NoValue => calls[m.value].phase = "done"

\* A write that returns has left its value in the line, in state M ("If in S state
\* -> invalidate all other sharers, transition to M").
WriteTakesEffect ==
    [][\A id \in CallId :
         calls[id].phase = "waiting" /\ calls[id].op = "write" /\ calls'[id].phase = "done" =>
             LET line == lines'[calls[id].node][calls[id].key] IN
             line.value = id /\ line.state = Modified]_vars
====
