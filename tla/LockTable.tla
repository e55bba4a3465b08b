---- MODULE LockTable ----
(***************************************************************************)
(* The state machine that DistributedLockManager                           *)
(* (src/src/nodes/lock_manager.py) applies the committed commands to: the  *)
(* lock table, the resources of each client and the wait-for graph.        *)
(*                                                                         *)
(* An operator named for what it gets wrong (CanAcquireUnlessWriter, ...)  *)
(* is a slip the properties must notice; no other definition uses it.      *)
(***************************************************************************)
EXTENDS Naturals, Sequences, FiniteSets, Relation

CONSTANTS
    Client,     \* client_id
    Resource,   \* resource_id
    Request     \* request_id of a call of acquire

Shared    == "shared"
Exclusive == "exclusive"
LockType  == {Shared, Exclusive}

\* LockRequest
Wish == [id : Request, client : Client, resource : Resource, type : LockType]

Lock == [type : LockType, holders : SUBSET Client, waiters : Seq(Wish)]

\* _locks, _client_locks, the edges of _wfg, and the requests granted so far.
IsTable(t) ==
    /\ DOMAIN t.locks \subseteq Resource
    /\ t \in [locks : [DOMAIN t.locks -> Lock],
              clientLocks : [Client -> SUBSET Resource],
              wfg : SUBSET (Client \X Client),
              granted : SUBSET Request]

EmptyTable ==
    [locks |-> <<>>, clientLocks |-> [c \in Client |-> {}], wfg |-> {}, granted |-> {}]

NoLock(type) == [type |-> type, holders |-> {}, waiters |-> <<>>]

\* The resource's lock, or the one _apply_acquire creates for a request of that type.
LockOf(t, r, type) == IF r \in DOMAIN t.locks THEN t.locks[r] ELSE NoLock(type)

CanAcquireUnlessWriter(lock, type) == lock.holders = {} \/ lock.type = Shared
CanAcquire(lock, type) == lock.holders = {} \/ (type = Shared /\ lock.type = Shared)

Put(locks, r, lock) == [s \in DOMAIN locks \cup {r} |-> IF s = r THEN lock ELSE locks[s]]

RemoveWait(wfg, cs) == {e \in wfg : e[1] \notin cs}
RemoveNodeAsWaiter(wfg, c) == {e \in wfg : e[1] # c}
RemoveNode(wfg, c) == {e \in wfg : c \notin {e[1], e[2]}}

\* The wishes ws, all of one type, are granted on r.
Grant(t, r, lock, type, ws) ==
    LET clients == {w.client : w \in ws} IN
    [locks       |-> Put(t.locks, r, [lock EXCEPT !.holders = @ \cup clients, !.type = type]),
     clientLocks |-> [c \in Client |-> IF c \in clients THEN t.clientLocks[c] \cup {r}
                                                       ELSE t.clientLocks[c]],
     wfg         |-> RemoveWait(t.wfg, clients),
     granted     |-> t.granted \cup {w.id : w \in ws}]

ApplyAcquire(t, w) ==
    LET lock == LockOf(t, w.resource, w.type) IN
    IF CanAcquire(lock, w.type)
    THEN Grant(t, w.resource, lock, w.type, {w})
    ELSE [t EXCEPT !.locks = Put(@, w.resource, [lock EXCEPT !.waiters = Append(@, w)]),
                   !.wfg = @ \cup ({w.client} \X lock.holders)]

\* How many waiters are granted together: a writer alone, or all readers up to the first writer.
Front(ws) ==
    IF ws[1].type = Exclusive THEN 1
    ELSE Cardinality({i \in DOMAIN ws : \A j \in 1..i : ws[j].type = Shared})

GrantNextButKeep(t, r) ==
    LET lock == t.locks[r]
    IN  Grant(t, r, lock, lock.waiters[1].type, {lock.waiters[i] : i \in 1..Front(lock.waiters)})

GrantNext(t, r) ==
    LET lock == t.locks[r]
        n    == Front(lock.waiters)
        rest == [lock EXCEPT !.waiters = SubSeq(@, n + 1, Len(@))]
    IN  Grant(t, r, rest, lock.waiters[1].type, {lock.waiters[i] : i \in 1..n})

ReleaseButStayListed(t, c, r) ==
    [t EXCEPT !.locks[r].holders = @ \ {c},
              !.wfg = RemoveNode(@, c)]

LetGoAndForget(t, c, r) ==
    [t EXCEPT !.locks[r].holders = @ \ {c},
              !.locks[r].waiters = SelectSeq(@, LAMBDA w : w.client # c),
              !.clientLocks[c] = @ \ {r},
              !.wfg = RemoveNode(@, c)]

\* What _apply_release takes away from the client, before it looks at the waiters.
LetGo(t, c, r) ==
    [t EXCEPT !.locks[r].holders = @ \ {c},
              !.clientLocks[c] = @ \ {r},
              !.wfg = RemoveNode(@, c)]

Drop(t, r) == [t EXCEPT !.locks = [s \in DOMAIN @ \ {r} |-> @[s]]]

ReleaseAndGrantNext(t, c, r) ==
    LET u == LetGo(t, c, r) IN
    IF r \notin DOMAIN t.locks THEN t
    ELSE IF u.locks[r].waiters # <<>> THEN GrantNext(u, r)
    ELSE IF u.locks[r].holders # {} THEN u
    ELSE Drop(u, r)

\* A lock that is left without holders goes to the next in line, or away.
ApplyRelease(t, c, r) ==
    LET u == LetGo(t, c, r) IN
    IF r \notin DOMAIN t.locks THEN t
    ELSE IF u.locks[r].holders # {} THEN u
    ELSE IF u.locks[r].waiters # <<>> THEN GrantNext(u, r)
    ELSE Drop(u, r)

\* The queue without the wish of that id (QueuedOnce: there is at most one).
Without(ws, id) ==
    IF \E i \in DOMAIN ws : ws[i].id = id
    THEN LET i == CHOOSE j \in DOMAIN ws : ws[j].id = id
         IN  SubSeq(ws, 1, i - 1) \o SubSeq(ws, i + 1, Len(ws))
    ELSE ws

ApplyCancel(t, id, r) ==
    IF r \in DOMAIN t.locks
    THEN [t EXCEPT !.locks[r].waiters = Without(@, id)]
    ELSE t

-----------------------------------------------------------------------------
(* What is waited for *)

\* The clients on a cycle, of which detect_cycle finds one.
OnCycle(edges) ==
    LET reaches == TransitiveClosure([e \in Client \X Client |-> e \in edges], Client)
    IN  {c \in Client : reaches[<<c, c>>]}

\* Who really waits for whom: a queued client for those that hold the lock.
Waits(t) ==
    UNION {{w.client : w \in {t.locks[r].waiters[i] : i \in DOMAIN t.locks[r].waiters}}
              \X t.locks[r].holders : r \in DOMAIN t.locks}
====
