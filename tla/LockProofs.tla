---- MODULE LockProofs ----
(***************************************************************************)
(* Proofs about the lock manager, for any clients, resources and requests: *)
(* the lock table keeps its invariant whatever commands are committed, and *)
(* a request is tracked from its call to its grant.                        *)
(***************************************************************************)
EXTENDS LockManager, FiniteSetTheorems, TLAPS

HoldersOf(t, r) == IF r \in DOMAIN t.locks THEN t.locks[r].holders ELSE {}

\* Between the two halves of a release the lock r may have no holder.
HeldBut(t, r) == \A s \in DOMAIN t.locks \ {r} : t.locks[s].holders # {}

OneWriter(t) ==
    \A r \in DOMAIN t.locks : t.locks[r].type = Exclusive =>
        \A c, d \in t.locks[r].holders : c = d

Agrees(t) == \A c \in Client : \A r \in Resource : r \in t.clientLocks[c] <=> c \in HoldersOf(t, r)

Points(t) == \A e \in t.wfg : t.clientLocks[e[2]] # {}

\* A table in the middle of a change to the lock r, and a table that is whole.
Almost(t, r) == IsTable(t) /\ HeldBut(t, r) /\ OneWriter(t) /\ Agrees(t) /\ Points(t)

Whole(t) ==
    /\ IsTable(t) /\ OneWriter(t) /\ Agrees(t) /\ Points(t)
    /\ \A r \in DOMAIN t.locks : t.locks[r].holders # {}

-----------------------------------------------------------------------------
(* The front of a queue *)

\* At least one waiter is granted, no more than there are, and a writer alone.
LEMMA FrontBounds ==
    ASSUME NEW ws \in Seq(Wish), ws # <<>>
    PROVE  /\ Front(ws) \in 1..Len(ws)
           /\ ws[1].type = Exclusive => Front(ws) = 1
<1> DEFINE S == {i \in DOMAIN ws : \A j \in 1..i : ws[j].type = Shared}
<1>1. Len(ws) \in Nat \ {0} /\ DOMAIN ws = 1..Len(ws) /\ ws[1] \in Wish
  OBVIOUS
<1>2. CASE ws[1].type = Exclusive
  BY <1>1, <1>2 DEF Front
<1>3. CASE ws[1].type # Exclusive
  <2>1. ws[1].type = Shared
    BY <1>1, <1>3 DEF Wish, LockType
  <2>2. S \subseteq 1..Len(ws) /\ 1 \in S
    BY <1>1, <2>1
  <2>3. IsFiniteSet(1..Len(ws)) /\ Cardinality(1..Len(ws)) = Len(ws)
    BY <1>1, FS_Interval
  <2>4. IsFiniteSet(S) /\ Cardinality(S) <= Len(ws)
    BY <2>2, <2>3, FS_Subset
  <2>5. Cardinality(S) \in Nat /\ Cardinality(S) # 0
    BY <2>2, <2>4, FS_CardinalityType, FS_EmptySet
  <2>6. Front(ws) = Cardinality(S)
    BY <1>3 DEF Front
  <2> HIDE DEF S
  <2>7. QED
    BY <1>1, <1>3, <2>4, <2>5, <2>6
<1>4. QED
  BY <1>2, <1>3

-----------------------------------------------------------------------------
(* What each command does to the table *)

\* Granting keeps the table whole: readers join readers, a writer comes alone.
LEMMA GrantKeepsWhole ==
    ASSUME NEW t, NEW r \in Resource, Almost(t, r),
           NEW lock \in Lock, lock.holders = HoldersOf(t, r),
           NEW type \in LockType,
           NEW ws \in SUBSET Wish, ws # {},
           type = Exclusive => lock.holders = {} /\ \E w \in ws : ws = {w}
    PROVE  Whole(Grant(t, r, lock, type, ws))
<1> DEFINE clients == {w.client : w \in ws}
           held2   == lock.holders \cup clients
           lock2   == [lock EXCEPT !.holders = held2, !.type = type]
           u       == Grant(t, r, lock, type, ws)
<1>1. clients \in SUBSET Client /\ clients # {}
  BY DEF Wish
<1>2. {w.id : w \in ws} \subseteq Request
  BY DEF Wish
<1>3. held2 \in SUBSET Client /\ held2 # {}
  BY <1>1 DEF Lock
<1>4. lock2 \in Lock /\ lock2.holders = held2 /\ lock2.type = type
  BY <1>3 DEF Lock
<1>5. /\ u.locks = Put(t.locks, r, lock2)
      /\ u.clientLocks = [c \in Client |-> IF c \in clients THEN t.clientLocks[c] \cup {r}
                                                            ELSE t.clientLocks[c]]
      /\ u.wfg = RemoveWait(t.wfg, clients)
      /\ u.granted = t.granted \cup {w.id : w \in ws}
      /\ u = [locks |-> u.locks, clientLocks |-> u.clientLocks, wfg |-> u.wfg,
              granted |-> u.granted]
  BY DEF Grant
<1> HIDE DEF u, lock2, held2, clients
<1>6. /\ DOMAIN u.locks = DOMAIN t.locks \cup {r}
      /\ u.locks[r] = lock2
      /\ \A s \in DOMAIN t.locks \ {r} : u.locks[s] = t.locks[s]
      /\ u.locks \in [DOMAIN u.locks -> Lock]
  BY <1>4, <1>5 DEF Put, Almost, IsTable
<1>7. IsTable(u)
  BY <1>1, <1>2, <1>5, <1>6 DEF IsTable, Almost, RemoveWait
<1>8. \A s \in DOMAIN u.locks : u.locks[s].holders # {}
  BY <1>3, <1>4, <1>6 DEF Almost, HeldBut
<1>9. OneWriter(u)
  <2>1. type = Exclusive => \A c, d \in held2 : c = d
    BY DEF held2, clients
  <2>2. QED
    BY <1>4, <1>6, <2>1 DEF Almost, OneWriter
<1>10. Agrees(u)
  <2>1. held2 = HoldersOf(t, r) \cup clients
    BY DEF held2
  <2>2. \A s \in Resource : HoldersOf(u, s) = IF s = r THEN held2 ELSE HoldersOf(t, s)
    BY <1>4, <1>6 DEF HoldersOf
  <2>3. \A c \in Client, s \in Resource :
           s \in u.clientLocks[c] <=> s \in t.clientLocks[c] \/ (s = r /\ c \in clients)
    BY <1>5
  <2>4. QED
    BY <2>1, <2>2, <2>3 DEF Almost, Agrees
<1>11. Points(u)
  <2>1. \A c \in Client : t.clientLocks[c] \subseteq u.clientLocks[c]
    BY <1>5
  <2>2. QED
    BY <1>5, <2>1 DEF Almost, Points, RemoveWait, IsTable
<1>12. QED
  BY <1>7, <1>8, <1>9, <1>10, <1>11 DEF Whole, u

\* A request that cannot be granted has somebody to wait for.
LEMMA AcquireKeepsWhole ==
    ASSUME NEW t, Whole(t), NEW w \in Wish
    PROVE  Whole(ApplyAcquire(t, w))
<1> DEFINE r    == w.resource
           lock == LockOf(t, r, w.type)
<1>1. w.client \in Client /\ r \in Resource /\ w.type \in LockType
  BY DEF Wish
<1>2. lock \in Lock /\ lock.holders = HoldersOf(t, r)
  BY <1>1 DEF LockOf, NoLock, HoldersOf, Lock, Whole, IsTable
<1>3. CASE CanAcquire(lock, w.type)
  <2>1. Almost(t, r)
    BY DEF Whole, Almost, HeldBut
  <2>2. w.type = Exclusive => lock.holders = {}
    BY <1>3 DEF CanAcquire, Shared, Exclusive
  <2>3. Whole(Grant(t, r, lock, w.type, {w}))
    BY <1>1, <1>2, <2>1, <2>2, GrantKeepsWhole
  <2>4. QED
    BY <1>3, <2>3 DEF ApplyAcquire
<1>4. CASE ~CanAcquire(lock, w.type)
  <2> DEFINE lock2 == [lock EXCEPT !.waiters = Append(@, w)]
             edges == {w.client} \X lock.holders
             u == [t EXCEPT !.locks = Put(@, r, lock2), !.wfg = @ \cup edges]
  <2>1. lock.holders # {} /\ r \in DOMAIN t.locks
    BY <1>2, <1>4 DEF CanAcquire, HoldersOf
  <2>2. lock2 \in Lock /\ lock2.holders = lock.holders /\ lock2.type = lock.type
    BY <1>2 DEF Lock
  <2>3. lock = t.locks[r]
    BY <2>1 DEF LockOf
  <2>4. edges \subseteq Client \X Client
    BY <1>1, <1>2 DEF Lock
  <2>5. u = ApplyAcquire(t, w)
    BY <1>4 DEF ApplyAcquire
  <2>6. /\ u.locks = Put(t.locks, r, lock2)
        /\ u.clientLocks = t.clientLocks
        /\ u.wfg = t.wfg \cup edges
        /\ u.granted = t.granted
        /\ u \in [locks : {u.locks}, clientLocks : {u.clientLocks},
                  wfg : {u.wfg}, granted : {u.granted}]
    BY DEF Whole, IsTable
  <2> HIDE DEF u, lock2, lock
  <2>7. /\ DOMAIN u.locks = DOMAIN t.locks
        /\ \A s \in DOMAIN t.locks : /\ u.locks[s].holders = t.locks[s].holders
                                     /\ u.locks[s].type = t.locks[s].type
        /\ u.locks \in [DOMAIN u.locks -> Lock]
    BY <2>1, <2>2, <2>3, <2>6 DEF Put, Whole, IsTable
  <2>8. IsTable(u)
    BY <2>4, <2>6, <2>7 DEF IsTable, Whole
  <2>9. OneWriter(u) /\ Agrees(u) /\ \A s \in DOMAIN u.locks : u.locks[s].holders # {}
    BY <2>6, <2>7 DEF Whole, OneWriter, Agrees, HoldersOf
  <2>10. Points(u)
    <3>1. \A c \in lock.holders : r \in t.clientLocks[c]
      BY <1>1, <1>2 DEF Whole, Agrees, Lock
    <3>2. QED
      BY <2>6, <3>1 DEF Whole, Points
  <2>11. QED
    BY <2>5, <2>8, <2>9, <2>10 DEF Whole
<1>5. QED
  BY <1>3, <1>4

\* Taking a lock away from a client leaves nobody waiting for that client.
LEMMA LetGoKeepsAlmost ==
    ASSUME NEW t, Whole(t), NEW c \in Client, NEW r \in DOMAIN t.locks
    PROVE  /\ Almost(LetGo(t, c, r), r)
           /\ DOMAIN LetGo(t, c, r).locks = DOMAIN t.locks
<1> DEFINE u == LetGo(t, c, r)
           lock2 == [t.locks[r] EXCEPT !.holders = @ \ {c}]
<1>1. r \in Resource /\ t.locks[r] \in Lock
  BY DEF Whole, IsTable
<1>2. lock2 \in Lock /\ lock2.holders = t.locks[r].holders \ {c} /\ lock2.type = t.locks[r].type
  BY <1>1 DEF Lock
<1>3. /\ u.locks = [t.locks EXCEPT ![r] = lock2]
      /\ u.clientLocks = [t.clientLocks EXCEPT ![c] = @ \ {r}]
      /\ u.wfg = RemoveNode(t.wfg, c)
      /\ u.granted = t.granted
      /\ u \in [locks : {u.locks}, clientLocks : {u.clientLocks},
                wfg : {u.wfg}, granted : {u.granted}]
  BY DEF Whole, IsTable, LetGo
<1> HIDE DEF u, lock2
<1>4. /\ DOMAIN u.locks = DOMAIN t.locks
      /\ u.locks \in [DOMAIN u.locks -> Lock]
      /\ \A s \in DOMAIN t.locks : /\ u.locks[s].type = t.locks[s].type
                                   /\ u.locks[s].holders \subseteq t.locks[s].holders
                                   /\ s # r => u.locks[s] = t.locks[s]
      /\ u.locks[r].holders = t.locks[r].holders \ {c}
  BY <1>2, <1>3 DEF Whole, IsTable
<1>5. IsTable(u)
  BY <1>3, <1>4 DEF IsTable, Whole, RemoveNode
<1>6. HeldBut(u, r) /\ OneWriter(u)
  BY <1>4 DEF Whole, HeldBut, OneWriter
<1>7. Agrees(u)
  <2>1. \A s \in Resource : HoldersOf(u, s) = IF s = r THEN HoldersOf(t, s) \ {c} ELSE HoldersOf(t, s)
    BY <1>4 DEF HoldersOf
  <2>2. \A d \in Client : u.clientLocks[d] = IF d = c THEN t.clientLocks[d] \ {r} ELSE t.clientLocks[d]
    BY <1>3 DEF Whole, IsTable
  <2>3. QED
    BY <2>1, <2>2 DEF Whole, Agrees
<1>8. Points(u)
  <2>1. \A e \in u.wfg : e \in t.wfg /\ e[2] \in Client /\ e[2] # c
    BY <1>3 DEF RemoveNode, Whole, IsTable
  <2>2. \A d \in Client \ {c} : u.clientLocks[d] = t.clientLocks[d]
    BY <1>3 DEF Whole, IsTable
  <2>3. QED
    BY <2>1, <2>2 DEF Whole, Points
<1>9. QED
  BY <1>4, <1>5, <1>6, <1>7, <1>8 DEF Almost, u

\* A lock handed over goes to clients that may hold it together.
LEMMA GrantNextKeepsWhole ==
    ASSUME NEW t, NEW r \in DOMAIN t.locks, Almost(t, r),
           t.locks[r].holders = {}, t.locks[r].waiters # <<>>
    PROVE  Whole(GrantNext(t, r))
<1> DEFINE lock == t.locks[r]
           n    == Front(lock.waiters)
           rest == [lock EXCEPT !.waiters = SubSeq(@, n + 1, Len(@))]
           ws   == {lock.waiters[i] : i \in 1..n}
<1>1. lock \in Lock /\ lock.waiters \in Seq(Wish) /\ r \in Resource
  BY DEF Almost, IsTable, Lock
<1>2. n \in 1..Len(lock.waiters) /\ (lock.waiters[1].type = Exclusive => n = 1)
  BY <1>1, FrontBounds
<1>3. \A i \in 1..Len(lock.waiters) : lock.waiters[i] \in Wish
  BY <1>1
<1>4. n \in Nat /\ Len(lock.waiters) \in Nat
  BY <1>1, <1>2
<1> HIDE DEF n
<1>5. ws \in SUBSET Wish /\ ws # {}
  BY <1>2, <1>3, <1>4
<1>6. lock.waiters[1].type \in LockType
  BY <1>2, <1>3, <1>4 DEF Wish
<1>7. lock.waiters[1].type = Exclusive => \E w \in ws : ws = {w}
  <2>1. n = 1 => ws = {lock.waiters[1]}
    OBVIOUS
  <2>2. QED
    BY <1>2, <2>1
<1>8. rest \in Lock /\ rest.holders = HoldersOf(t, r) /\ rest.holders = {}
  <2>1. SubSeq(lock.waiters, n + 1, Len(lock.waiters)) \in Seq(Wish)
    BY <1>1, <1>4
  <2>2. QED
    BY <1>1, <2>1 DEF Lock, HoldersOf
<1>9. Whole(Grant(t, r, rest, lock.waiters[1].type, ws))
  <2> HIDE DEF lock, rest, ws
  <2>1. QED
    BY <1>1, <1>5, <1>6, <1>7, <1>8, GrantKeepsWhole
<1>10. QED
  BY <1>9 DEF GrantNext, n

\* A lock without holders can go: no client has it listed.
LEMMA DropKeepsWhole ==
    ASSUME NEW t, NEW r \in DOMAIN t.locks, Almost(t, r), t.locks[r].holders = {}
    PROVE  Whole(Drop(t, r))
<1> DEFINE u == Drop(t, r)
<1>1. /\ u.locks = [s \in DOMAIN t.locks \ {r} |-> t.locks[s]]
      /\ u.clientLocks = t.clientLocks
      /\ u.wfg = t.wfg
      /\ u.granted = t.granted
      /\ u \in [locks : {u.locks}, clientLocks : {u.clientLocks},
                wfg : {u.wfg}, granted : {u.granted}]
  BY DEF Drop, Almost, IsTable
<1> HIDE DEF u
<1>2. /\ DOMAIN u.locks = DOMAIN t.locks \ {r}
      /\ \A s \in DOMAIN u.locks : u.locks[s] = t.locks[s]
      /\ u.locks \in [DOMAIN u.locks -> Lock]
  BY <1>1 DEF Almost, IsTable
<1>3. IsTable(u)
  BY <1>1, <1>2 DEF Almost, IsTable
<1>4. \A s \in Resource : HoldersOf(u, s) = HoldersOf(t, s)
  BY <1>2 DEF HoldersOf
<1>5. QED
  BY <1>1, <1>2, <1>3, <1>4 DEF Whole, Almost, HeldBut, OneWriter, Agrees, Points, u

LEMMA ReleaseKeepsWhole ==
    ASSUME NEW t, Whole(t), NEW c \in Client, NEW r \in Resource
    PROVE  Whole(ApplyRelease(t, c, r))
<1> DEFINE u == LetGo(t, c, r)
<1>1. CASE r \notin DOMAIN t.locks
  BY <1>1 DEF ApplyRelease
<1>2. CASE r \in DOMAIN t.locks
  <2>1. Almost(u, r) /\ r \in DOMAIN u.locks
    BY <1>2, LetGoKeepsAlmost
  <2>2. u.locks[r].holders # {} => Whole(u)
    BY <2>1 DEF Almost, HeldBut, Whole
  <2> HIDE DEF u
  <2>3. u.locks[r].holders = {} => /\ u.locks[r].waiters # <<>> => Whole(GrantNext(u, r))
                                   /\ Whole(Drop(u, r))
    BY <2>1, GrantNextKeepsWhole, DropKeepsWhole
  <2>4. QED
    BY <1>2, <2>2, <2>3 DEF ApplyRelease, u
<1>3. QED
  BY <1>1, <1>2

LEMMA CancelKeepsWhole ==
    ASSUME NEW t, Whole(t), NEW id \in Request, NEW r \in Resource
    PROVE  Whole(ApplyCancel(t, id, r))
<1>1. CASE r \notin DOMAIN t.locks
  BY <1>1 DEF ApplyCancel
<1>2. CASE r \in DOMAIN t.locks
  <2> DEFINE u  == ApplyCancel(t, id, r)
             ws == t.locks[r].waiters
             lock2 == [t.locks[r] EXCEPT !.waiters = Without(@, id)]
  <2>1. t.locks[r] \in Lock /\ ws \in Seq(Wish)
    BY <1>2 DEF Whole, IsTable, Lock
  <2>2. Without(ws, id) \in Seq(Wish)
    <3>1. CASE \E i \in DOMAIN ws : ws[i].id = id
      <4>1. PICK i \in DOMAIN ws : Without(ws, id) = SubSeq(ws, 1, i - 1) \o SubSeq(ws, i + 1, Len(ws))
        BY <3>1 DEF Without
      <4>2. i \in 1..Len(ws) /\ Len(ws) \in Nat
        BY <2>1, <4>1
      <4>3. SubSeq(ws, 1, i - 1) \in Seq(Wish) /\ SubSeq(ws, i + 1, Len(ws)) \in Seq(Wish)
        BY <2>1, <4>2
      <4>4. QED
        BY <4>1, <4>3
    <3>2. CASE ~\E i \in DOMAIN ws : ws[i].id = id
      BY <2>1, <3>2 DEF Without
    <3>3. QED
      BY <3>1, <3>2
  <2>3. lock2 \in Lock /\ lock2.holders = t.locks[r].holders /\ lock2.type = t.locks[r].type
    BY <2>1, <2>2 DEF Lock
  <2>4. /\ u.locks = [t.locks EXCEPT ![r] = lock2]
        /\ u.clientLocks = t.clientLocks
        /\ u.wfg = t.wfg
        /\ u.granted = t.granted
        /\ u \in [locks : {u.locks}, clientLocks : {u.clientLocks},
                  wfg : {u.wfg}, granted : {u.granted}]
    BY <1>2 DEF Whole, IsTable, ApplyCancel
  <2> HIDE DEF u, lock2
  <2>5. /\ DOMAIN u.locks = DOMAIN t.locks
        /\ \A s \in DOMAIN t.locks : /\ u.locks[s].holders = t.locks[s].holders
                                     /\ u.locks[s].type = t.locks[s].type
        /\ u.locks \in [DOMAIN u.locks -> Lock]
    BY <2>3, <2>4 DEF Whole, IsTable
  <2>6. IsTable(u)
    BY <2>4, <2>5 DEF Whole, IsTable
  <2>7. QED
    BY <2>4, <2>5, <2>6 DEF Whole, OneWriter, Agrees, HoldersOf, Points, u
<1>3. QED
  BY <1>1, <1>2

-----------------------------------------------------------------------------
(* The specification *)

LEMMA CommandsKeepWhole ==
    ASSUME NEW t, Whole(t), NEW cmd \in Command
    PROVE  Whole(ApplyCommand(t, cmd))
<1>1. CASE cmd.op = "acquire"
  <2>1. cmd.wish \in Wish
    BY <1>1 DEF Command
  <2>2. QED
    BY <1>1, <2>1, AcquireKeepsWhole DEF ApplyCommand
<1>2. CASE cmd.op = "cancel"
  <2>1. cmd.wish \in Wish
    BY <1>2 DEF Command
  <2>2. cmd.wish.id \in Request /\ cmd.wish.resource \in Resource
    BY <2>1 DEF Wish
  <2>3. QED
    BY <1>2, <2>2, CancelKeepsWhole DEF ApplyCommand
<1>3. CASE cmd.op = "release"
  <2>1. cmd.client \in Client /\ cmd.resource \in Resource
    BY <1>3 DEF Command
  <2>2. QED
    BY <1>3, <2>1, ReleaseKeepsWhole DEF ApplyCommand
<1>4. QED
  BY <1>1, <1>2, <1>3 DEF Command

LockInvariant == TypeOK /\ Whole(table)

LEMMA InitLock == Init => LockInvariant
<1> SUFFICES ASSUME Init PROVE LockInvariant
  OBVIOUS
<1> USE DEF Init, EmptyTable
<1>1. IsTable(table)
  BY DEF IsTable
<1>2. Whole(table)
  BY <1>1 DEF Whole, OneWriter, Agrees, HoldersOf, Points
<1>3. TypeOK
  BY <1>1 DEF TypeOK, Phase
<1>4. QED
  BY <1>2, <1>3 DEF LockInvariant

LEMMA LogTyped ==
    ASSUME backlog \in Seq(Command), committed \in 0..Len(backlog), NEW cmd \in Command,
           Log(cmd)
    PROVE  backlog' \in Seq(Command) /\ committed \in 0..Len(backlog')
  BY DEF Log

LEMMA ProposeReleaseTyped ==
    ASSUME backlog \in Seq(Command), committed \in 0..Len(backlog),
           NEW p \in Client \X Resource, ProposeRelease(p)
    PROVE  backlog' \in Seq(Command) /\ committed \in 0..Len(backlog')
<1>1. ReleaseCommand(p[1], p[2]) \in Command
  BY DEF ReleaseCommand, Command
<1>2. QED
  BY <1>1, LogTyped DEF ProposeRelease

\* Only Apply changes the lock table.
LEMMA NextLock == LockInvariant /\ [Next]_vars => LockInvariant'
<1> SUFFICES ASSUME LockInvariant, [Next]_vars PROVE LockInvariant'
  OBVIOUS
<1> USE DEF LockInvariant
<1>0. /\ IsTable(table) /\ backlog \in Seq(Command) /\ committed \in 0..Len(backlog)
      /\ leads \in BOOLEAN /\ calls \subseteq Wish /\ phase \in [Request -> Phase]
      /\ aborting \subseteq Client \X Resource /\ expiring \subseteq Client \X Resource
  BY DEF TypeOK
<1>1. ASSUME NEW w \in Wish, StartAcquire(w) \/ AcquireElsewhere(w) PROVE LockInvariant'
  <2>1. AcquireCommand(w) \in Command
    BY DEF AcquireCommand, Command
  <2>2. QED
    BY <1>0, <1>1, <2>1, LogTyped DEF StartAcquire, AcquireElsewhere, TypeOK, Phase, taskVars
<1>2. ASSUME NEW w \in calls, CallStep(w) PROVE LockInvariant'
  <2> USE DEF TypeOK, Phase, taskVars, raftVars
  <2>1. CancelCommand(w) \in Command
    BY <1>0 DEF CancelCommand, Command
  <2>2. CASE ProposeTimesOut(w)
    BY <1>0, <2>2 DEF ProposeTimesOut
  <2>3. CASE WaitTimesOut(w)
    BY <1>0, <2>1, <2>3, LogTyped DEF WaitTimesOut
  <2>4. CASE CancelReturns(w)
    BY <1>0, <2>4 DEF CancelReturns
  <2>5. CASE CancelElsewhere(w)
    BY <1>0, <2>1, <2>5, LogTyped DEF CancelElsewhere, callVars
  <2>6. QED
    BY <1>2, <2>2, <2>3, <2>4, <2>5 DEF CallStep
<1>7. ASSUME NEW c \in Client, NEW r \in Resource, Release(c, r) PROVE LockInvariant'
  <2>1. ReleaseCommand(c, r) \in Command
    BY DEF ReleaseCommand, Command
  <2>2. QED
    BY <1>0, <1>7, <2>1, LogTyped DEF Release, TypeOK, callVars, taskVars
<1>3. CASE RaftStep
  <2> USE DEF TypeOK, taskVars, callVars
  <2>1. CASE LeaderCommits
    <3>1. PICK told \in SUBSET {id \in Request : phase[id] \in InPropose} :
             phase' = [id \in Request |-> IF id \in told THEN AfterTrue(phase[id]) ELSE phase[id]]
      BY <2>1 DEF LeaderCommits
    <3>2. \A id \in told : AfterTrue(phase[id]) \in Phase
      BY DEF InPropose, AfterTrue, Phase
    <3>3. phase' \in [Request -> Phase]
      BY <1>0, <3>1, <3>2
    <3>4. QED
      BY <1>0, <2>1, <3>3 DEF LeaderCommits
  <2>2. CASE FollowerCommits
    BY <1>0, <2>2 DEF FollowerCommits
  <2>3. CASE ChangeLeader
    BY <1>0, <2>3 DEF ChangeLeader
  <2>4. CASE Truncate
    <3>1. PICK k \in committed .. Len(backlog) - 1 : CutOff(k)
      BY <2>4 DEF Truncate
    <3>2. k \in Nat /\ k <= Len(backlog)
      BY <1>0, <3>1
    <3>3. backlog' \in Seq(Command) /\ Len(backlog') = k
      BY <1>0, <3>1, <3>2 DEF CutOff
    <3>4. phase' \in [Request -> Phase]
      BY <1>0, <3>1 DEF CutOff, Phase
    <3>5. QED
      BY <1>0, <3>1, <3>3, <3>4 DEF CutOff
  <2>5. CASE Apply
    <3>1. backlog # <<>> /\ Head(backlog) \in Command
      BY <1>0, <2>5 DEF Apply
    <3>2. Whole(table')
      BY <2>5, <3>1, CommandsKeepWhole DEF Apply
    <3>3. phase' \in [Request -> Phase]
      BY <1>0, <2>5 DEF Apply, Hear, Phase
    <3>4. backlog' \in Seq(Command) /\ committed' \in 0..Len(backlog')
      BY <1>0, <2>5, <3>1 DEF Apply
    <3>5. QED
      BY <1>0, <2>5, <3>2, <3>3, <3>4 DEF Apply, Whole
  <2>6. QED
    BY <1>3, <2>1, <2>2, <2>3, <2>4, <2>5 DEF RaftStep
<1>4. CASE TaskStep
  <2> USE DEF TypeOK, raftVars, callVars
  <2>1. CASE DetectDeadlock
    <3>1. PICK c \in OnCycle(table.wfg) : aborting' = {c} \X table.clientLocks[c]
      BY <2>1 DEF DetectDeadlock
    <3>2. c \in Client /\ table.clientLocks[c] \subseteq Resource
      BY <1>0, <3>1 DEF OnCycle, IsTable
    <3>3. QED
      BY <1>0, <2>1, <3>1, <3>2 DEF DetectDeadlock
  <2>2. CASE CheckTimeouts
    <3>1. PICK rs \in SUBSET DOMAIN table.locks :
             expiring' = UNION {table.locks[r].holders \X {r} : r \in rs}
      BY <2>2 DEF CheckTimeouts
    <3>2. \A r \in rs : r \in Resource /\ table.locks[r].holders \subseteq Client
      BY <1>0 DEF IsTable, Lock
    <3>3. expiring' \subseteq Client \X Resource
      BY <3>1, <3>2
    <3>4. QED
      BY <1>0, <2>2, <3>3 DEF CheckTimeouts
  <2>3. ASSUME NEW p \in aborting, AbortNext(p) PROVE LockInvariant'
    BY <1>0, <2>3, ProposeReleaseTyped DEF AbortNext
  <2>4. ASSUME NEW p \in expiring, ReleaseExpired(p) PROVE LockInvariant'
    BY <1>0, <2>4, ProposeReleaseTyped DEF ReleaseExpired
  <2>5. QED
    BY <1>4, <2>1, <2>2, <2>3, <2>4 DEF TaskStep
<1>5. CASE UNCHANGED vars
  BY <1>0, <1>5 DEF vars, TypeOK, Whole
<1>6. QED
  BY <1>1, <1>2, <1>3, <1>4, <1>5, <1>7 DEF Next

\* Every reachable state is well typed, and at most the whole backlog is committed
\* (propose, _advance_commit_index, the truncation in handle_append_entries).
THEOREM LockTypeCorrect == Spec => []TypeOK
<1>1. LockInvariant => TypeOK
  BY DEF LockInvariant
<1>2. QED
  BY <1>1, InitLock, NextLock, PTL DEF Spec

\* An exclusive lock never has two holders, and no lock is left without one
\* (_apply_acquire, _apply_release, _grant_next).
THEOREM LocksAreExclusive == Spec => []MutualExclusion
<1>1. LockInvariant => MutualExclusion
  BY DEF LockInvariant, Whole, OneWriter, MutualExclusion
<1>2. QED
  BY <1>1, InitLock, NextLock, PTL DEF Spec

\* _client_locks names exactly the locks a client holds, so that a victim of the
\* deadlock detector gives up all of them.
THEOREM ListsAreExact == Spec => []ClientLocksAgree
<1>1. LockInvariant => ClientLocksAgree
  <2> SUFFICES ASSUME LockInvariant, NEW c \in Client
               PROVE table.clientLocks[c] = {r \in DOMAIN table.locks : c \in table.locks[r].holders}
    BY DEF ClientLocksAgree
  <2>1. table.clientLocks[c] \subseteq Resource /\ DOMAIN table.locks \subseteq Resource
    BY DEF LockInvariant, Whole, IsTable
  <2>2. QED
    BY <2>1 DEF LockInvariant, Whole, Agrees, HoldersOf
<1>2. QED
  BY <1>1, InitLock, NextLock, PTL DEF Spec

\* Nobody waits, in the wait-for graph, for a client that has nothing to give up.
THEOREM WaitsAreForHolders == Spec => []EdgesPointAtHolders
<1>1. LockInvariant => EdgesPointAtHolders
  BY DEF LockInvariant, Whole, Points, EdgesPointAtHolders
<1>2. QED
  BY <1>1, InitLock, NextLock, PTL DEF Spec

-----------------------------------------------------------------------------
(* What each command does to the queues *)

\* The queue of a lock, also of one that is not in the table.
QueueOf(t, r) == IF r \in DOMAIN t.locks THEN t.locks[r].waiters ELSE <<>>

OthersKeepQueues(t, u, r) == \A s \in Resource \ {r} : QueueOf(u, s) = QueueOf(t, s)

\* A request has one place in the queues, and none once it was granted.
EachOnce(t) ==
    \A r, s \in Resource : \A i \in DOMAIN QueueOf(t, r), j \in DOMAIN QueueOf(t, s) :
        /\ QueueOf(t, r)[i].id \notin t.granted
        /\ QueueOf(t, r)[i].id = QueueOf(t, s)[j].id => r = s /\ i = j

LEMMA QueuesTyped ==
    ASSUME NEW t, IsTable(t), NEW r \in Resource
    PROVE  /\ QueueOf(t, r) \in Seq(Wish)
           /\ Len(QueueOf(t, r)) \in Nat
           /\ DOMAIN QueueOf(t, r) = 1..Len(QueueOf(t, r))
<1>1. QueueOf(t, r) \in Seq(Wish)
  BY DEF QueueOf, IsTable, Lock
<1>2. QED
  BY <1>1

LEMMA QueuedInQueues ==
    ASSUME NEW t, IsTable(t), NEW v
    PROVE  v \in Queued(t) <=> \E r \in Resource : \E i \in DOMAIN QueueOf(t, r) : v = QueueOf(t, r)[i]
<1>1. v \in Queued(t) <=> \E r \in DOMAIN t.locks : \E i \in DOMAIN t.locks[r].waiters :
                              v = t.locks[r].waiters[i]
  BY DEF Queued
<1>2. DOMAIN t.locks \subseteq Resource
  BY DEF IsTable
<1>3. \A i : i \notin DOMAIN <<>>
  OBVIOUS
<1>4. QED
  BY <1>1, <1>2, <1>3 DEF QueueOf

\* A table whose queue of r has new contents, where the locks are what has changed.
LEMMA PutChangesOneQueue ==
    ASSUME NEW t, IsTable(t), NEW u, NEW r \in Resource, NEW lock,
           u.locks = Put(t.locks, r, lock)
    PROVE  QueueOf(u, r) = lock.waiters /\ OthersKeepQueues(t, u, r)
  BY DEF Put, QueueOf, OthersKeepQueues, IsTable

LEMMA AcquireOnQueues ==
    ASSUME NEW t, IsTable(t), NEW w \in Wish, NEW u, u = ApplyAcquire(t, w)
    PROVE  /\ OthersKeepQueues(t, u, w.resource)
           /\ \/ /\ QueueOf(u, w.resource) = QueueOf(t, w.resource)
                 /\ u.granted = t.granted \cup {w.id}
              \/ /\ QueueOf(u, w.resource) = Append(QueueOf(t, w.resource), w)
                 /\ u.granted = t.granted
<1> DEFINE r    == w.resource
           lock == LockOf(t, r, w.type)
<1>1. r \in Resource
  BY DEF Wish
<1>2. lock.waiters = QueueOf(t, r) /\ lock \in Lock
  <2>1. w.type \in LockType /\ <<>> \in Seq(Wish)
    BY DEF Wish
  <2>2. NoLock(w.type) \in Lock /\ NoLock(w.type).waiters = <<>>
    BY <2>1 DEF NoLock, Lock
  <2>3. QED
    BY <2>2 DEF LockOf, QueueOf, IsTable
<1> HIDE DEF lock, r
<1>3. CASE CanAcquire(lock, w.type)
  <2> DEFINE lock2 == [lock EXCEPT !.holders = @ \cup {v.client : v \in {w}}, !.type = w.type]
  <2>1. u.locks = Put(t.locks, r, lock2) /\ u.granted = t.granted \cup {v.id : v \in {w}}
    BY <1>3 DEF ApplyAcquire, Grant, lock, r
  <2>2. lock2.waiters = lock.waiters
    BY <1>2 DEF Lock
  <2> HIDE DEF lock2
  <2>3. QueueOf(u, r) = QueueOf(t, r) /\ OthersKeepQueues(t, u, r)
    BY <1>1, <1>2, <2>1, <2>2, PutChangesOneQueue
  <2>4. {v.id : v \in {w}} = {w.id}
    OBVIOUS
  <2>5. QED
    BY <2>1, <2>3, <2>4 DEF r
<1>4. CASE ~CanAcquire(lock, w.type)
  <2> DEFINE lock2 == [lock EXCEPT !.waiters = Append(@, w)]
  <2>1. u.locks = Put(t.locks, r, lock2) /\ u.granted = t.granted
    BY <1>4 DEF ApplyAcquire, IsTable, lock, r
  <2>2. lock2.waiters = Append(lock.waiters, w)
    BY <1>2 DEF Lock
  <2> HIDE DEF lock2
  <2>3. QueueOf(u, r) = Append(QueueOf(t, r), w) /\ OthersKeepQueues(t, u, r)
    BY <1>1, <1>2, <2>1, <2>2, PutChangesOneQueue
  <2>4. QED
    BY <2>1, <2>3 DEF r
<1>5. QED
  BY <1>3, <1>4

LEMMA WholeSubSeq ==
    ASSUME NEW q \in Seq(Wish)
    PROVE  SubSeq(q, 1, Len(q)) = q
  OBVIOUS

\* A release takes some waiters off the front of one queue, and these are granted.
LEMMA ReleaseOnQueues ==
    ASSUME NEW t, Whole(t), NEW c \in Client, NEW r \in Resource,
           NEW u, u = ApplyRelease(t, c, r)
    PROVE  /\ OthersKeepQueues(t, u, r)
           /\ \E n \in 0..Len(QueueOf(t, r)) :
                 /\ QueueOf(u, r) = SubSeq(QueueOf(t, r), n + 1, Len(QueueOf(t, r)))
                 /\ u.granted = t.granted \cup {QueueOf(t, r)[i].id : i \in 1..n}
<1> DEFINE q == QueueOf(t, r)
<1>1. IsTable(t) /\ q \in Seq(Wish) /\ Len(q) \in Nat
  BY QueuesTyped DEF Whole
<1>2. ASSUME OthersKeepQueues(t, u, r), QueueOf(u, r) = q, u.granted = t.granted
      PROVE  /\ OthersKeepQueues(t, u, r)
             /\ \E n \in 0..Len(q) : /\ QueueOf(u, r) = SubSeq(q, n + 1, Len(q))
                                     /\ u.granted = t.granted \cup {q[i].id : i \in 1..n}
  <2>1. SubSeq(q, 0 + 1, Len(q)) = q /\ 0 \in 0..Len(q)
    BY <1>1, WholeSubSeq
  <2>2. {q[i].id : i \in 1..0} = {}
    OBVIOUS
  <2>3. QED
    BY <1>2, <2>1, <2>2
<1>3. CASE r \notin DOMAIN t.locks
  <2>1. u = t
    BY <1>3 DEF ApplyRelease
  <2>2. QED
    BY <1>2, <2>1 DEF OthersKeepQueues
<1>4. CASE r \in DOMAIN t.locks
  <2> DEFINE v == LetGo(t, c, r)
  <2>1. IsTable(v) /\ DOMAIN v.locks = DOMAIN t.locks
    BY <1>4, LetGoKeepsAlmost DEF Almost
  <2>2. /\ v.locks[r].waiters = t.locks[r].waiters
        /\ \A s \in DOMAIN t.locks \ {r} : v.locks[s] = t.locks[s]
        /\ v.granted = t.granted
    BY <1>1, <1>4 DEF LetGo, IsTable, Lock
  <2> HIDE DEF v
  <2>3. \A s \in Resource : QueueOf(v, s) = QueueOf(t, s)
    BY <1>4, <2>1, <2>2 DEF QueueOf
  <2>4. CASE v.locks[r].holders # {}
    <3>1. u = v
      BY <1>4, <2>4 DEF ApplyRelease, v
    <3>2. QED
      BY <1>2, <2>2, <2>3, <3>1 DEF OthersKeepQueues
  <2>5. CASE v.locks[r].holders = {} /\ v.locks[r].waiters # <<>>
    <3> DEFINE lock == v.locks[r]
               n    == Front(q)
               rest == [lock EXCEPT !.waiters = SubSeq(q, n + 1, Len(q))]
               ws   == {q[i] : i \in 1..n}
               lock2 == [rest EXCEPT !.holders = @ \cup {w.client : w \in ws},
                                     !.type = q[1].type]
    <3>1. lock.waiters = q /\ lock \in Lock /\ q # <<>>
      BY <1>4, <2>1, <2>2, <2>5 DEF QueueOf, IsTable
    <3>2. n \in 1..Len(q)
      BY <1>1, <3>1, FrontBounds
    <3>3. u = GrantNext(v, r)
      BY <1>4, <2>5 DEF ApplyRelease, v
    <3>4. u.locks = Put(v.locks, r, lock2) /\ u.granted = v.granted \cup {w.id : w \in ws}
      BY <3>1, <3>3 DEF GrantNext, Grant
    <3>5. lock2.waiters = SubSeq(q, n + 1, Len(q))
      BY <3>1 DEF Lock
    <3>6. {w.id : w \in ws} = {q[i].id : i \in 1..n}
      OBVIOUS
    <3> HIDE DEF lock2, n, ws
    <3>7. QueueOf(u, r) = SubSeq(q, n + 1, Len(q)) /\ OthersKeepQueues(v, u, r)
      BY <2>1, <3>4, <3>5, PutChangesOneQueue
    <3>8. OthersKeepQueues(t, u, r)
      BY <2>3, <3>7 DEF OthersKeepQueues
    <3>9. u.granted = t.granted \cup {q[i].id : i \in 1..n}
      BY <2>2, <3>4, <3>6
    <3>10. n \in 0..Len(q)
      BY <1>1, <3>2
    <3>11. QED
      BY <3>7, <3>8, <3>9, <3>10
  <2>6. CASE v.locks[r].holders = {} /\ v.locks[r].waiters = <<>>
    <3>1. u = Drop(v, r)
      BY <1>4, <2>6 DEF ApplyRelease, v
    <3>2. /\ u.locks = [s \in DOMAIN v.locks \ {r} |-> v.locks[s]]
          /\ u.granted = v.granted
      BY <2>1, <3>1 DEF Drop, IsTable
    <3>3. QueueOf(v, r) = <<>>
      BY <2>6 DEF QueueOf
    <3>4. QueueOf(u, r) = <<>> /\ OthersKeepQueues(v, u, r)
      BY <3>2 DEF QueueOf, OthersKeepQueues
    <3>5. QED
      BY <1>2, <2>2, <2>3, <3>2, <3>3, <3>4 DEF OthersKeepQueues
  <2>7. QED
    BY <2>4, <2>5, <2>6
<1>5. QED
  BY <1>3, <1>4

CutOut(q, k) == SubSeq(q, 1, k - 1) \o SubSeq(q, k + 1, Len(q))

\* A cancellation takes at most one waiter out of one queue, the one of the given id.
LEMMA CancelOnQueues ==
    ASSUME NEW t, IsTable(t), NEW id, NEW r \in Resource, NEW u, u = ApplyCancel(t, id, r)
    PROVE  /\ OthersKeepQueues(t, u, r)
           /\ u.granted = t.granted
           /\ \/ QueueOf(u, r) = QueueOf(t, r)
              \/ \E k \in DOMAIN QueueOf(t, r) :
                    /\ QueueOf(t, r)[k].id = id
                    /\ QueueOf(u, r) = CutOut(QueueOf(t, r), k)
<1>1. CASE r \notin DOMAIN t.locks
  BY <1>1 DEF ApplyCancel, OthersKeepQueues
<1>2. CASE r \in DOMAIN t.locks
  <2> DEFINE q == QueueOf(t, r)
  <2>1. q = t.locks[r].waiters
    BY <1>2 DEF QueueOf
  <2>2. /\ DOMAIN u.locks = DOMAIN t.locks
        /\ u.locks[r].waiters = Without(q, id)
        /\ \A s \in DOMAIN t.locks \ {r} : u.locks[s] = t.locks[s]
        /\ u.granted = t.granted
    BY <1>2, <2>1 DEF ApplyCancel, IsTable, Lock
  <2>3. OthersKeepQueues(t, u, r) /\ QueueOf(u, r) = Without(q, id)
    BY <1>2, <2>2 DEF OthersKeepQueues, QueueOf
  <2> HIDE DEF q
  <2>4. CASE \E i \in DOMAIN q : q[i].id = id
    <3> DEFINE k == CHOOSE j \in DOMAIN q : q[j].id = id
    <3>1. k \in DOMAIN q /\ q[k].id = id
      BY <2>4
    <3>2. Without(q, id) = CutOut(q, k)
      BY <2>4 DEF Without, CutOut
    <3> HIDE DEF k
    <3>3. QED
      BY <2>2, <2>3, <3>1, <3>2 DEF q
  <2>5. CASE ~\E i \in DOMAIN q : q[i].id = id
    <3>1. Without(q, id) = q
      BY <2>5 DEF Without
    <3>2. QED
      BY <2>2, <2>3, <3>1 DEF q
  <2>6. QED
    BY <2>4, <2>5
<1>3. QED
  BY <1>1, <1>2

-----------------------------------------------------------------------------
(* What each command does to the requests that wait *)

\* Waiters that only move up in their queue, while none of those that stay is granted, still
\* have one place.
LEMMA MovingUpKeepsOnce ==
    ASSUME NEW t, NEW u, NEW r \in Resource, EachOnce(t), OthersKeepQueues(t, u, r),
           NEW from,
           \A i \in DOMAIN QueueOf(u, r) :
               from[i] \in DOMAIN QueueOf(t, r) /\ QueueOf(u, r)[i] = QueueOf(t, r)[from[i]],
           \A i, j \in DOMAIN QueueOf(u, r) : from[i] = from[j] => i = j,
           \A s \in Resource : \A i \in DOMAIN QueueOf(u, s) : QueueOf(u, s)[i].id \notin u.granted
    PROVE  EachOnce(u)
<1> SUFFICES ASSUME NEW p \in Resource, NEW s \in Resource,
                    NEW i \in DOMAIN QueueOf(u, p), NEW j \in DOMAIN QueueOf(u, s),
                    QueueOf(u, p)[i].id = QueueOf(u, s)[j].id
             PROVE  p = s /\ i = j
  BY DEF EachOnce
<1>1. CASE p = r /\ s = r
  BY <1>1 DEF EachOnce
<1>2. CASE p = r /\ s # r
  BY <1>2 DEF EachOnce, OthersKeepQueues
<1>3. CASE p # r /\ s = r
  BY <1>3 DEF EachOnce, OthersKeepQueues
<1>4. CASE p # r /\ s # r
  BY <1>4 DEF EachOnce, OthersKeepQueues
<1>5. QED
  BY <1>1, <1>2, <1>3, <1>4

LEMMA Appended ==
    ASSUME NEW q \in Seq(Wish), NEW w \in Wish
    PROVE  /\ Len(q) \in Nat
           /\ DOMAIN q = 1..Len(q)
           /\ DOMAIN Append(q, w) = 1..(Len(q) + 1)
           /\ Append(q, w)[Len(q) + 1] = w
           /\ \A i \in DOMAIN q : Append(q, w)[i] = q[i]
  OBVIOUS

\* A request is granted or queued, at the end of one queue.
LEMMA AcquireEffect ==
    ASSUME NEW t, IsTable(t), EachOnce(t), NEW w \in Wish, NEW u, u = ApplyAcquire(t, w),
           IsTable(u), w.id \notin t.granted, \A v \in Queued(t) : v.id # w.id
    PROVE  /\ EachOnce(u)
           /\ \/ u.granted = t.granted \cup {w.id} /\ Queued(u) = Queued(t)
              \/ u.granted = t.granted /\ Queued(u) = Queued(t) \cup {w}
<1> DEFINE r == w.resource
           q == QueueOf(t, r)
<1>1. r \in Resource
  BY DEF Wish
<1>2. OthersKeepQueues(t, u, r)
  BY AcquireOnQueues
<1>3. \A s \in Resource : \A i \in DOMAIN QueueOf(t, s) :
         QueueOf(t, s)[i].id # w.id /\ QueueOf(t, s)[i].id \notin t.granted
  BY QueuedInQueues DEF EachOnce
<1> HIDE DEF r
<1>4. CASE QueueOf(u, r) = q /\ u.granted = t.granted \cup {w.id}
  <2>1. \A s \in Resource : QueueOf(u, s) = QueueOf(t, s)
    BY <1>2, <1>4 DEF OthersKeepQueues
  <2>2. EachOnce(u)
    BY <1>3, <1>4, <2>1 DEF EachOnce
  <2>3. \A v : v \in Queued(u) <=> v \in Queued(t)
    BY <2>1, QueuedInQueues
  <2>4. QED
    BY <1>4, <2>2, <2>3
<1>5. CASE QueueOf(u, r) = Append(q, w) /\ u.granted = t.granted
  <2>1. q \in Seq(Wish)
    BY <1>1, QueuesTyped
  <2>2. /\ Len(q) \in Nat /\ DOMAIN q = 1..Len(q)
        /\ DOMAIN QueueOf(u, r) = 1..(Len(q) + 1)
        /\ QueueOf(u, r)[Len(q) + 1] = w
        /\ \A i \in DOMAIN q : QueueOf(u, r)[i] = q[i]
    BY <1>5, <2>1, Appended
  <2>3. \A i \in DOMAIN QueueOf(u, r) : i \in DOMAIN q \/ i = Len(q) + 1
    BY <2>2
  <2>4. DOMAIN q \subseteq DOMAIN QueueOf(u, r) /\ Len(q) + 1 \in DOMAIN QueueOf(u, r)
    BY <2>2
  <2>5. \A s \in Resource \ {r} : QueueOf(u, s) = QueueOf(t, s)
    BY <1>2 DEF OthersKeepQueues
  <2> DEFINE end == Len(q) + 1
  <2> HIDE DEF end
  <2>6. \A s \in Resource : \A i \in DOMAIN QueueOf(u, s) :
           \/ i \in DOMAIN QueueOf(t, s) /\ QueueOf(u, s)[i] = QueueOf(t, s)[i]
           \/ s = r /\ i = end /\ QueueOf(u, s)[i] = w
    BY <2>2, <2>3, <2>5 DEF end
  <2>7. EachOnce(u)
    <3> SUFFICES ASSUME NEW p \in Resource, NEW s \in Resource,
                        NEW i \in DOMAIN QueueOf(u, p), NEW j \in DOMAIN QueueOf(u, s)
                 PROVE  /\ QueueOf(u, p)[i].id \notin u.granted
                        /\ QueueOf(u, p)[i].id = QueueOf(u, s)[j].id => p = s /\ i = j
      BY DEF EachOnce
    <3>1. QueueOf(u, p)[i].id \notin u.granted
      BY <1>3, <1>5, <2>6
    <3>2. CASE i \in DOMAIN QueueOf(t, p) /\ QueueOf(u, p)[i] = QueueOf(t, p)[i]
      <4>1. CASE j \in DOMAIN QueueOf(t, s) /\ QueueOf(u, s)[j] = QueueOf(t, s)[j]
        BY <3>1, <3>2, <4>1 DEF EachOnce
      <4>2. CASE QueueOf(u, s)[j] = w
        BY <1>3, <3>1, <3>2, <4>2
      <4>3. QED
        BY <2>6, <4>1, <4>2
    <3>3. CASE p = r /\ i = end /\ QueueOf(u, p)[i] = w
      <4>1. CASE j \in DOMAIN QueueOf(t, s) /\ QueueOf(u, s)[j] = QueueOf(t, s)[j]
        BY <1>3, <3>1, <3>3, <4>1
      <4>2. CASE s = r /\ j = end
        BY <3>1, <3>3, <4>2
      <4>3. QED
        BY <2>6, <4>1, <4>2
    <3>4. QED
      BY <2>6, <3>2, <3>3
  <2>8. \A v : v \in Queued(u) <=> v \in Queued(t) \/ v = w
    <3> TAKE v
    <3>1. ASSUME v \in Queued(u) PROVE v \in Queued(t) \/ v = w
      BY <2>6, <3>1, QueuedInQueues
    <3>2. ASSUME v \in Queued(t) PROVE v \in Queued(u)
      <4>1. PICK s \in Resource : \E i \in DOMAIN QueueOf(t, s) : v = QueueOf(t, s)[i]
        BY <3>2, QueuedInQueues
      <4>2. PICK i \in DOMAIN QueueOf(t, s) : v = QueueOf(t, s)[i]
        BY <4>1
      <4>3. i \in DOMAIN QueueOf(u, s) /\ QueueOf(u, s)[i] = v
        BY <2>2, <2>4, <2>5, <4>2
      <4>4. QED
        BY <4>3, QueuedInQueues
    <3>3. ASSUME v = w PROVE v \in Queued(u)
      BY <1>1, <2>2, <2>4, <3>3, QueuedInQueues
    <3>4. QED
      BY <3>1, <3>2, <3>3
  <2>9. QED
    BY <1>5, <2>7, <2>8
<1>6. QED
  BY <1>4, <1>5, AcquireOnQueues DEF r

LEMMA Suffix ==
    ASSUME NEW q \in Seq(Wish), NEW n \in 0..Len(q)
    PROVE  LET rest == SubSeq(q, n + 1, Len(q)) IN
           /\ Len(q) \in Nat /\ DOMAIN q = 1..Len(q)
           /\ DOMAIN rest = 1..(Len(q) - n)
           /\ \A i \in DOMAIN rest : i + n \in (n + 1)..Len(q) /\ rest[i] = q[i + n]
<1>1. Len(q) \in Nat /\ n \in Nat /\ n <= Len(q) /\ DOMAIN q = 1..Len(q)
  OBVIOUS
<1>2. QED
  BY <1>1

\* The requests a release takes out of the queues are the ones it grants.
LEMMA ReleaseEffect ==
    ASSUME NEW t, Whole(t), EachOnce(t), NEW c \in Client, NEW r \in Resource,
           NEW u, u = ApplyRelease(t, c, r), IsTable(u)
    PROVE  /\ EachOnce(u)
           /\ \E G \in SUBSET Queued(t) :
                 /\ u.granted = t.granted \cup {v.id : v \in G}
                 /\ Queued(u) = Queued(t) \ G
<1> DEFINE q == QueueOf(t, r)
<1>1. OthersKeepQueues(t, u, r)
  BY ReleaseOnQueues
<1>2. PICK n \in 0..Len(q) : /\ QueueOf(u, r) = SubSeq(q, n + 1, Len(q))
                             /\ u.granted = t.granted \cup {q[i].id : i \in 1..n}
  BY ReleaseOnQueues
<1>3. IsTable(t) /\ q \in Seq(Wish)
  BY QueuesTyped DEF Whole
<1>4. /\ Len(q) \in Nat /\ DOMAIN q = 1..Len(q)
      /\ DOMAIN QueueOf(u, r) = 1..(Len(q) - n)
      /\ \A i \in DOMAIN QueueOf(u, r) : i + n \in (n + 1)..Len(q) /\ QueueOf(u, r)[i] = q[i + n]
  BY <1>2, <1>3, Suffix
<1> DEFINE front == 1..n
           back  == (n + 1)..Len(q)
           G     == {q[i] : i \in front}
<1>5. /\ front \subseteq DOMAIN q /\ back \subseteq DOMAIN q
      /\ \A i \in front : i \notin back
      /\ \A i \in DOMAIN q : i \in front \/ i \in back
      /\ \A i \in back : i - n \in DOMAIN QueueOf(u, r) /\ (i - n) + n = i
      /\ \A i, j \in DOMAIN QueueOf(u, r) : i + n = j + n => i = j
  BY <1>2, <1>4
<1>6. \A i \in DOMAIN QueueOf(u, r) : i + n \in back /\ i + n \in DOMAIN q
                                        /\ QueueOf(u, r)[i] = q[i + n]
  BY <1>4, <1>5
<1>7. \A i \in back : \E j \in DOMAIN QueueOf(u, r) : QueueOf(u, r)[j] = q[i]
  BY <1>5, <1>6
<1>8. u.granted = t.granted \cup {v.id : v \in G}
  <2>1. {v.id : v \in G} = {q[i].id : i \in front}
    OBVIOUS
  <2>2. QED
    BY <1>2, <2>1
<1> HIDE DEF front, back
<1>9. \A s \in Resource : \A i \in DOMAIN QueueOf(u, s) :
         /\ QueueOf(u, s)[i] \in Queued(t) /\ QueueOf(u, s)[i] \notin G
         /\ QueueOf(u, s)[i].id \notin u.granted
  <2> SUFFICES ASSUME NEW s \in Resource, NEW i \in DOMAIN QueueOf(u, s)
               PROVE  /\ QueueOf(u, s)[i] \in Queued(t) /\ QueueOf(u, s)[i] \notin G
                      /\ QueueOf(u, s)[i].id \notin u.granted
    OBVIOUS
  <2>1. PICK k \in DOMAIN QueueOf(t, s) : /\ QueueOf(u, s)[i] = QueueOf(t, s)[k]
                                          /\ s = r => k \in back
    BY <1>1, <1>6 DEF OthersKeepQueues
  <2>2. \A g \in front : QueueOf(t, s)[k].id # q[g].id
    BY <1>5, <2>1 DEF EachOnce
  <2>3. QueueOf(t, s)[k].id \notin t.granted
    BY DEF EachOnce
  <2>4. QueueOf(t, s)[k] \in Queued(t)
    BY <1>3, QueuedInQueues
  <2>5. QED
    BY <1>8, <2>1, <2>2, <2>3, <2>4
<1>10. EachOnce(u)
  <2> DEFINE from == [i \in DOMAIN QueueOf(u, r) |-> i + n]
  <2>1. \A i \in DOMAIN QueueOf(u, r) : from[i] \in DOMAIN q /\ QueueOf(u, r)[i] = q[from[i]]
    BY <1>6
  <2>2. \A i, j \in DOMAIN QueueOf(u, r) : from[i] = from[j] => i = j
    BY <1>5
  <2>3. \A s \in Resource : \A i \in DOMAIN QueueOf(u, s) : QueueOf(u, s)[i].id \notin u.granted
    BY <1>9
  <2> HIDE DEF from
  <2>4. QED
    BY <1>1, <2>1, <2>2, <2>3, MovingUpKeepsOnce
<1>11. G \in SUBSET Queued(t)
  BY <1>3, <1>5, QueuedInQueues
<1>12. \A v : v \in Queued(u) <=> v \in Queued(t) /\ v \notin G
  <2> TAKE v
  <2>1. ASSUME v \in Queued(u) PROVE v \in Queued(t) /\ v \notin G
    BY <1>9, <2>1, QueuedInQueues
  <2>2. ASSUME v \in Queued(t), v \notin G PROVE v \in Queued(u)
    <3>1. PICK s \in Resource : \E i \in DOMAIN QueueOf(t, s) : v = QueueOf(t, s)[i]
      BY <1>3, <2>2, QueuedInQueues
    <3>2. PICK i \in DOMAIN QueueOf(t, s) : v = QueueOf(t, s)[i]
      BY <3>1
    <3>3. s = r => i \in back
      BY <1>5, <2>2, <3>2
    <3>4. \E j \in DOMAIN QueueOf(u, s) : QueueOf(u, s)[j] = v
      BY <1>1, <1>7, <3>2, <3>3 DEF OthersKeepQueues
    <3>5. QED
      BY <3>4, QueuedInQueues
  <2>3. QED
    BY <2>1, <2>2
<1>13. QED
  BY <1>8, <1>10, <1>11, <1>12

LEMMA LeavingOneOut ==
    ASSUME NEW q \in Seq(Wish), NEW k \in DOMAIN q
    PROVE  LET rest == CutOut(q, k) IN
           /\ Len(q) \in Nat /\ DOMAIN q = 1..Len(q)
           /\ DOMAIN rest = 1..(Len(q) - 1)
           /\ \A i \in DOMAIN rest : rest[i] = q[IF i < k THEN i ELSE i + 1]
<1>1. Len(q) \in Nat /\ DOMAIN q = 1..Len(q) /\ k \in 1..Len(q)
  OBVIOUS
<1> DEFINE a == SubSeq(q, 1, k - 1)
           b == SubSeq(q, k + 1, Len(q))
<1>2. a \in Seq(Wish) /\ Len(a) = k - 1 /\ \A i \in 1..(k - 1) : a[i] = q[i]
  BY <1>1
<1>3. /\ b \in Seq(Wish) /\ Len(b) = Len(q) - k
      /\ \A i \in 1..(Len(q) - k) : b[i] = q[i + k]
  BY <1>1
<1> HIDE DEF a, b
<1>4. /\ DOMAIN (a \o b) = 1..(Len(a) + Len(b))
      /\ \A i \in 1..(Len(a) + Len(b)) :
            (a \o b)[i] = IF i <= Len(a) THEN a[i] ELSE b[i - Len(a)]
  BY <1>2, <1>3
<1>5. DOMAIN (a \o b) = 1..(Len(q) - 1)
  BY <1>1, <1>2, <1>3, <1>4
<1>6. ASSUME NEW i \in 1..(Len(q) - 1)
      PROVE  (a \o b)[i] = q[IF i < k THEN i ELSE i + 1]
  <2>1. (a \o b)[i] = IF i <= k - 1 THEN a[i] ELSE b[i - (k - 1)]
    BY <1>1, <1>2, <1>3, <1>4
  <2>2. CASE i < k
    BY <1>1, <1>2, <2>1, <2>2
  <2>3. CASE ~(i < k)
    <3>1. i - (k - 1) \in 1..(Len(q) - k) /\ (i - (k - 1)) + k = i + 1
      BY <1>1, <2>3
    <3>2. (a \o b)[i] = b[i - (k - 1)]
      BY <1>1, <2>1, <2>3
    <3>3. QED
      BY <1>3, <2>3, <3>1, <3>2
  <2>4. QED
    BY <2>2, <2>3
<1>7. QED
  BY <1>1, <1>5, <1>6 DEF a, b, CutOut

\* A cancellation takes no other request out of the queues, and grants none.
LEMMA CancelEffect ==
    ASSUME NEW t, IsTable(t), EachOnce(t), NEW id, NEW r \in Resource,
           NEW u, u = ApplyCancel(t, id, r), IsTable(u)
    PROVE  /\ EachOnce(u)
           /\ u.granted = t.granted
           /\ Queued(u) \subseteq Queued(t)
           /\ \A v \in Queued(t) \ Queued(u) : v.id = id
<1> DEFINE q == QueueOf(t, r)
<1>1. OthersKeepQueues(t, u, r) /\ u.granted = t.granted
  BY CancelOnQueues
<1>2. q \in Seq(Wish)
  BY QueuesTyped
<1>3. CASE QueueOf(u, r) = q
  <2>1. \A s \in Resource : QueueOf(u, s) = QueueOf(t, s)
    BY <1>1, <1>3 DEF OthersKeepQueues
  <2>2. EachOnce(u)
    BY <1>1, <2>1 DEF EachOnce
  <2>3. \A v : v \in Queued(u) <=> v \in Queued(t)
    BY <2>1, QueuedInQueues
  <2>4. QED
    BY <1>1, <2>2, <2>3
<1>4. ASSUME NEW k \in DOMAIN q, q[k].id = id,
             QueueOf(u, r) = CutOut(q, k)
      PROVE  /\ EachOnce(u)
             /\ Queued(u) \subseteq Queued(t)
             /\ \A v \in Queued(t) \ Queued(u) : v.id = id
  <2> DEFINE from == [i \in DOMAIN QueueOf(u, r) |-> IF i < k THEN i ELSE i + 1]
  <2>1. /\ Len(q) \in Nat /\ DOMAIN q = 1..Len(q)
        /\ DOMAIN QueueOf(u, r) = 1..(Len(q) - 1)
        /\ \A i \in DOMAIN QueueOf(u, r) : QueueOf(u, r)[i] = q[IF i < k THEN i ELSE i + 1]
    <3> HIDE DEF q
    <3>1. QED
      BY <1>2, <1>4, LeavingOneOut
  <2>2. \A i \in DOMAIN QueueOf(u, r) : QueueOf(u, r)[i] = q[from[i]]
    BY <2>1
  <2>3. \A i \in DOMAIN QueueOf(u, r) : from[i] \in DOMAIN q
    BY <2>1
  <2>4. \A i \in DOMAIN QueueOf(u, r) : from[i] \in DOMAIN q /\ QueueOf(u, r)[i] = q[from[i]]
    BY <2>2, <2>3
  <2>5. \A i, j \in DOMAIN QueueOf(u, r) : from[i] = from[j] => i = j
    BY <2>1
  <2>6. \A i \in DOMAIN q \ {k} : \E j \in DOMAIN QueueOf(u, r) : from[j] = i
    <3> SUFFICES ASSUME NEW i \in DOMAIN q, i # k
                 PROVE  \E j \in DOMAIN QueueOf(u, r) : from[j] = i
      OBVIOUS
    <3>1. i \in 1..Len(q) /\ k \in 1..Len(q)
      BY <2>1
    <3>2. CASE i < k
      BY <2>1, <3>1, <3>2
    <3>3. CASE i > k
      <4>1. i - 1 \in DOMAIN QueueOf(u, r) /\ from[i - 1] = i
        BY <2>1, <3>1, <3>3
      <4>2. QED
        BY <4>1
    <3>4. QED
      BY <3>1, <3>2, <3>3
  <2> HIDE DEF from
  <2>7. \A s \in Resource : \A i \in DOMAIN QueueOf(u, s) :
           QueueOf(u, s)[i] \in Queued(t) /\ QueueOf(u, s)[i].id \notin u.granted
    <3>1. \A s \in Resource : \A i \in DOMAIN QueueOf(u, s) :
             \E j \in DOMAIN QueueOf(t, s) : QueueOf(u, s)[i] = QueueOf(t, s)[j]
      BY <1>1, <2>4 DEF OthersKeepQueues
    <3>2. QED
      BY <1>1, <3>1, QueuedInQueues DEF EachOnce
  <2>8. EachOnce(u)
    <3>1. \A s \in Resource : \A i \in DOMAIN QueueOf(u, s) : QueueOf(u, s)[i].id \notin u.granted
      BY <2>7
    <3>2. QED
      BY <1>1, <2>4, <2>5, <3>1, MovingUpKeepsOnce
  <2>9. Queued(u) \subseteq Queued(t)
    BY <2>7, QueuedInQueues
  <2>10. ASSUME NEW v \in Queued(t), v.id # id PROVE v \in Queued(u)
    <3>1. PICK s \in Resource : \E i \in DOMAIN QueueOf(t, s) : v = QueueOf(t, s)[i]
      BY QueuedInQueues
    <3>2. PICK i \in DOMAIN QueueOf(t, s) : v = QueueOf(t, s)[i]
      BY <3>1
    <3>3. \E j \in DOMAIN QueueOf(u, s) : QueueOf(u, s)[j] = v
      <4>1. CASE s = r
        <5>1. i \in DOMAIN q \ {k}
          BY <1>4, <2>10, <3>2, <4>1
        <5>2. QED
          BY <2>4, <2>6, <3>2, <4>1, <5>1
      <4>2. CASE s # r
        BY <1>1, <3>2, <4>2 DEF OthersKeepQueues
      <4>3. QED
        BY <4>1, <4>2
    <3>4. QED
      BY <3>3, QueuedInQueues
  <2>11. QED
    BY <2>8, <2>9, <2>10
<1>5. QED
  <2>1. \/ QueueOf(u, r) = q
        \/ \E k \in DOMAIN q :
              q[k].id = id /\ QueueOf(u, r) = CutOut(q, k)
    BY CancelOnQueues
  <2> HIDE DEF q
  <2>2. QED
    BY <1>1, <1>3, <1>4, <2>1

-----------------------------------------------------------------------------
(* Requests are tracked from the call to the queue *)

\* What has become of a call whose cancellation may be in the log.
GivenUp == {"cancelling", "denied", "elsewhere"}

\* What has become of a call whose command another leader's log has replaced.
Replaced == {"overwritten", "stranded"}

\* A call is made once under its id.
CallsTracked ==
    /\ \A w \in calls : phase[w.id] # "unused"
    /\ \A v, w \in calls : v.id = w.id => v = w
    /\ Queued(table) \subseteq calls
    /\ table.granted \subseteq {w.id : w \in calls}

\* The command of a call is in the log at most once, and neither while the request is queued
\* nor after it was granted. Only what was given up is cancelled.
CommandsTracked ==
    /\ \A i \in DOMAIN backlog : backlog[i].op = "acquire" =>
          /\ backlog[i].wish \in calls
          /\ backlog[i].wish \notin Queued(table)
          /\ backlog[i].wish.id \notin table.granted
    /\ \A i, j \in DOMAIN backlog :
          backlog[i].op = "acquire" /\ backlog[j] = backlog[i] => i = j
    /\ \A i \in DOMAIN backlog : backlog[i].op = "cancel" =>
          phase[backlog[i].wish.id] \in GivenUp

InLog(w, n) == \E i \in 1..n : backlog[i] = AcquireCommand(w)

\* Where the request of a call is as long as the call has no answer.
WaitersTracked ==
    \A w \in calls :
        /\ phase[w.id] = "proposing" => w \in Queued(table) \/ InLog(w, Len(backlog))
        /\ phase[w.id] = "waiting" => w \in Queued(table) \/ InLog(w, committed)
        /\ phase[w.id] \in Replaced => w \notin Queued(table) /\ ~InLog(w, Len(backlog))

RequestInvariant ==
    LockInvariant /\ CallsTracked /\ CommandsTracked /\ EachOnce(table) /\ WaitersTracked

LEMMA CommandKinds ==
    /\ \A w \in Wish : /\ AcquireCommand(w) \in Command
                       /\ AcquireCommand(w).op = "acquire" /\ AcquireCommand(w).wish = w
                       /\ CancelCommand(w) \in Command
                       /\ CancelCommand(w).op = "cancel" /\ CancelCommand(w).wish = w
    /\ \A c \in Client, r \in Resource : /\ ReleaseCommand(c, r) \in Command
                                         /\ ReleaseCommand(c, r).op = "release"
    /\ \A cmd \in Command :
          /\ cmd.op \in {"acquire", "cancel", "release"}
          /\ cmd.op = "acquire" => cmd.wish \in Wish /\ cmd = AcquireCommand(cmd.wish)
          /\ cmd.op = "cancel" => cmd.wish \in Wish
          /\ cmd.op = "release" => cmd.client \in Client /\ cmd.resource \in Resource
  BY DEF Command, AcquireCommand, CancelCommand, ReleaseCommand

LEMMA Logged ==
    ASSUME backlog \in Seq(Command), NEW cmd \in Command, Log(cmd)
    PROVE  /\ Len(backlog) \in Nat
           /\ DOMAIN backlog = 1..Len(backlog)
           /\ DOMAIN backlog' = 1..(Len(backlog) + 1)
           /\ \A i \in DOMAIN backlog : backlog'[i] = backlog[i]
           /\ backlog'[Len(backlog) + 1] = cmd
  BY DEF Log

\* A command that is logged for a call leaves the others tracked.
LEMMA LoggingKeepsTracked ==
    ASSUME TypeOK, CallsTracked, CommandsTracked, WaitersTracked,
           NEW cmd \in Command, Log(cmd), table' = table, committed' = committed,
           calls \subseteq calls',
           cmd.op = "acquire" => /\ cmd.wish \in calls' /\ cmd.wish \notin calls
                                 /\ \A w \in calls : w.id # cmd.wish.id,
           cmd.op = "cancel" => phase'[cmd.wish.id] \in GivenUp,
           \A id \in Request : phase[id] \in GivenUp => phase'[id] \in GivenUp,
           \A w \in calls' :
              /\ phase'[w.id] = "proposing" =>
                    (w \in calls /\ phase[w.id] = "proposing") \/ cmd = AcquireCommand(w)
              /\ phase'[w.id] = "waiting" => w \in calls /\ phase[w.id] = "waiting"
              /\ phase'[w.id] \in Replaced => w \in calls /\ phase[w.id] \in Replaced
    PROVE  CommandsTracked' /\ WaitersTracked'
<1> DEFINE end == Len(backlog) + 1
<1>1. /\ Len(backlog) \in Nat
      /\ DOMAIN backlog = 1..Len(backlog)
      /\ DOMAIN backlog' = 1..end
      /\ \A i \in DOMAIN backlog : backlog'[i] = backlog[i]
      /\ backlog'[end] = cmd
  BY Logged DEF TypeOK
<1>2. \A i \in DOMAIN backlog' : i \in DOMAIN backlog \/ i = end
  BY <1>1
<1>3. \A i \in DOMAIN backlog : backlog[i] \in Command
  BY DEF TypeOK
<1>4. DOMAIN backlog \subseteq DOMAIN backlog' /\ 1..committed \subseteq DOMAIN backlog
  BY <1>1 DEF TypeOK
<1> HIDE DEF end
<1>5. ASSUME NEW i \in DOMAIN backlog', backlog'[i].op = "acquire"
      PROVE  /\ backlog'[i].wish \in calls'
             /\ backlog'[i].wish \notin Queued(table')
             /\ backlog'[i].wish.id \notin table'.granted
  <2>1. CASE i \in DOMAIN backlog
    BY <1>1, <1>5, <2>1 DEF CommandsTracked
  <2>2. CASE i = end
    BY <1>1, <1>5, <2>2 DEF CallsTracked
  <2>3. QED
    BY <1>2, <2>1, <2>2
<1>6. ASSUME NEW i \in DOMAIN backlog', NEW j \in DOMAIN backlog',
             backlog'[i].op = "acquire", backlog'[j] = backlog'[i]
      PROVE  i = j
  <2>1. CASE i \in DOMAIN backlog /\ j \in DOMAIN backlog
    BY <1>1, <1>6, <2>1 DEF CommandsTracked
  <2>2. CASE i \in DOMAIN backlog /\ j = end
    BY <1>1, <1>6, <2>2 DEF CommandsTracked
  <2>3. CASE i = end /\ j \in DOMAIN backlog
    BY <1>1, <1>6, <2>3 DEF CommandsTracked
  <2>4. QED
    BY <1>2, <2>1, <2>2, <2>3
<1>7. ASSUME NEW i \in DOMAIN backlog', backlog'[i].op = "cancel"
      PROVE  phase'[backlog'[i].wish.id] \in GivenUp
  <2>1. CASE i \in DOMAIN backlog
    <3>1. backlog[i].wish \in Wish
      BY <1>1, <1>3, <1>7, <2>1, CommandKinds
    <3>2. backlog[i].wish.id \in Request
      BY <3>1 DEF Wish
    <3>3. QED
      BY <1>1, <1>7, <2>1, <3>2 DEF CommandsTracked
  <2>2. CASE i = end
    BY <1>1, <1>7, <2>2
  <2>3. QED
    BY <1>2, <2>1, <2>2
<1>8. CommandsTracked'
  BY <1>5, <1>6, <1>7 DEF CommandsTracked
<1>9. /\ \A i \in 1..committed : backlog'[i] = backlog[i]
      /\ \A i \in 1..Len(backlog) : i \in 1..Len(backlog') /\ backlog'[i] = backlog[i]
      /\ \A i \in 1..Len(backlog') : i \in 1..Len(backlog) \/ backlog'[i] = cmd
      /\ \E i \in 1..Len(backlog') : backlog'[i] = cmd
  <2>1. DOMAIN backlog' = 1..Len(backlog') /\ end \in DOMAIN backlog'
    BY <1>1 DEF Log, TypeOK, end
  <2>2. QED
    BY <1>1, <1>2, <1>4, <2>1
<1>10. ASSUME NEW w \in calls'
       PROVE  /\ phase'[w.id] = "proposing" => w \in Queued(table') \/ InLog(w, Len(backlog))'
              /\ phase'[w.id] = "waiting" => w \in Queued(table') \/ InLog(w, committed)'
              /\ phase'[w.id] \in Replaced => w \notin Queued(table') /\ ~InLog(w, Len(backlog))'
  <2>1. w \in calls /\ phase[w.id] \in Replaced => cmd # AcquireCommand(w)
    <3>1. calls \subseteq Wish
      BY DEF TypeOK
    <3>2. QED
      BY <3>1, CommandKinds
  <2>2. CASE phase'[w.id] = "proposing"
    BY <1>9, <2>2 DEF WaitersTracked, InLog, Replaced
  <2>3. CASE phase'[w.id] = "waiting"
    BY <1>9, <2>3 DEF WaitersTracked, InLog, Replaced
  <2>4. CASE phase'[w.id] \in Replaced
    BY <1>9, <2>1, <2>4 DEF WaitersTracked, InLog, Replaced
  <2>5. QED
    BY <2>2, <2>3, <2>4
<1>11. WaitersTracked'
  BY <1>10 DEF WaitersTracked
<1>12. QED
  BY <1>8, <1>11

\* As above, when nothing is logged and no fewer commands are committed.
LEMMA PhasesKeepTracked ==
    ASSUME TypeOK, CommandsTracked, WaitersTracked,
           UNCHANGED <<backlog, table, calls>>, committed' \in Nat, committed <= committed',
           \A id \in Request : phase[id] \in GivenUp => phase'[id] \in GivenUp,
           \A w \in calls :
              /\ phase'[w.id] = "proposing" => phase[w.id] = "proposing"
              /\ phase'[w.id] = "waiting" =>
                    phase[w.id] = "waiting" \/ w \in Queued(table) \/ InLog(w, committed')
              /\ phase'[w.id] \in Replaced => phase[w.id] \in Replaced
    PROVE  CommandsTracked' /\ WaitersTracked'
<1>1. ASSUME NEW i \in DOMAIN backlog, backlog[i].op = "cancel"
      PROVE  phase'[backlog[i].wish.id] \in GivenUp
  <2>1. backlog[i] \in Command
    BY DEF TypeOK
  <2>2. backlog[i].wish \in Wish
    BY <1>1, <2>1, CommandKinds
  <2>3. backlog[i].wish.id \in Request
    BY <2>2 DEF Wish
  <2>4. QED
    BY <1>1, <2>3 DEF CommandsTracked
<1>2. CommandsTracked'
  BY <1>1 DEF CommandsTracked
<1>3. 1..committed \subseteq 1..committed'
  BY DEF TypeOK
<1>4. ASSUME NEW w \in calls
      PROVE  /\ phase'[w.id] = "proposing" => w \in Queued(table) \/ InLog(w, Len(backlog))
             /\ phase'[w.id] = "waiting" => w \in Queued(table) \/ InLog(w, committed')
             /\ phase'[w.id] \in Replaced => w \notin Queued(table) /\ ~InLog(w, Len(backlog))
  <2>1. InLog(w, committed) => InLog(w, committed')
    BY <1>3 DEF InLog
  <2>2. QED
    BY <2>1 DEF WaitersTracked
<1>5. \A w \in calls : /\ InLog(w, Len(backlog))' <=> InLog(w, Len(backlog))
                       /\ InLog(w, committed)' <=> InLog(w, committed')
  BY DEF InLog
<1>6. WaitersTracked'
  BY <1>4, <1>5 DEF WaitersTracked
<1>7. QED
  BY <1>2, <1>6

\* What a command does to the requests: the one it acquires for is queued or granted, and
\* those that leave the queues are granted or cancelled.
LEMMA CommandEffect ==
    ASSUME NEW t, Whole(t), EachOnce(t), NEW cmd \in Command, NEW u, u = ApplyCommand(t, cmd),
           cmd.op = "acquire" => /\ cmd.wish.id \notin t.granted
                                 /\ \A v \in Queued(t) : v.id # cmd.wish.id
    PROVE  /\ EachOnce(u)
           /\ t.granted \subseteq u.granted
           /\ \A id \in u.granted : \/ id \in t.granted
                                    \/ cmd.op = "acquire" /\ id = cmd.wish.id
                                    \/ \E v \in Queued(t) : v.id = id
           /\ \A v \in Queued(u) : v \in Queued(t) \/ (cmd.op = "acquire" /\ v = cmd.wish)
           /\ \A v \in Queued(t) : \/ v \in Queued(u)
                                   \/ v.id \in u.granted
                                   \/ cmd.op = "cancel" /\ v.id = cmd.wish.id
           /\ cmd.op = "acquire" => cmd.wish \in Queued(u) \/ cmd.wish.id \in u.granted
<1>1. IsTable(t) /\ IsTable(u)
  BY CommandsKeepWhole DEF Whole
<1>2. CASE cmd.op = "acquire"
  <2>1. cmd.wish \in Wish
    BY <1>2, CommandKinds
  <2>2. u = ApplyAcquire(t, cmd.wish)
    BY <1>2 DEF ApplyCommand
  <2>3. /\ EachOnce(u)
        /\ \/ u.granted = t.granted \cup {cmd.wish.id} /\ Queued(u) = Queued(t)
           \/ u.granted = t.granted /\ Queued(u) = Queued(t) \cup {cmd.wish}
    BY <1>1, <1>2, <2>1, <2>2, AcquireEffect
  <2>4. QED
    BY <1>2, <2>3
<1>3. CASE cmd.op = "cancel"
  <2>1. cmd.wish \in Wish
    BY <1>3, CommandKinds
  <2>2. cmd.wish.resource \in Resource
    BY <2>1 DEF Wish
  <2>3. u = ApplyCancel(t, cmd.wish.id, cmd.wish.resource)
    BY <1>3 DEF ApplyCommand
  <2>4. /\ EachOnce(u)
        /\ u.granted = t.granted
        /\ Queued(u) \subseteq Queued(t)
        /\ \A v \in Queued(t) \ Queued(u) : v.id = cmd.wish.id
    BY <1>1, <2>2, <2>3, CancelEffect
  <2>5. QED
    BY <1>3, <2>4
<1>4. CASE cmd.op = "release"
  <2>1. cmd.client \in Client /\ cmd.resource \in Resource
    BY <1>4, CommandKinds
  <2>2. u = ApplyRelease(t, cmd.client, cmd.resource)
    BY <1>4 DEF ApplyCommand
  <2>3. /\ EachOnce(u)
        /\ \E G \in SUBSET Queued(t) :
              /\ u.granted = t.granted \cup {v.id : v \in G}
              /\ Queued(u) = Queued(t) \ G
    BY <1>1, <2>1, <2>2, ReleaseEffect
  <2>4. PICK G \in SUBSET Queued(t) : /\ u.granted = t.granted \cup {v.id : v \in G}
                                      /\ Queued(u) = Queued(t) \ G
    BY <2>3
  <2>5. QED
    BY <1>4, <2>3, <2>4
<1>5. QED
  BY <1>2, <1>3, <1>4, CommandKinds

LEMMA Shifted ==
    ASSUME backlog \in Seq(Command), backlog # <<>>, backlog' = Tail(backlog)
    PROVE  /\ Len(backlog) \in Nat \ {0}
           /\ DOMAIN backlog = 1..Len(backlog)
           /\ Head(backlog) = backlog[1] /\ 1 \in DOMAIN backlog
           /\ DOMAIN backlog' = 1..(Len(backlog) - 1)
           /\ \A i \in DOMAIN backlog' : i + 1 \in DOMAIN backlog /\ backlog'[i] = backlog[i + 1]
  OBVIOUS

LEMMA ApplyKeepsRequests ==
    ASSUME RequestInvariant, Apply
    PROVE  CallsTracked' /\ CommandsTracked' /\ EachOnce(table)' /\ WaitersTracked'
<1> DEFINE cmd  == Head(backlog)
           new  == table'.granted \ table.granted
<1>1. /\ TypeOK /\ Whole(table) /\ CallsTracked /\ CommandsTracked
      /\ EachOnce(table) /\ WaitersTracked
  BY DEF RequestInvariant, LockInvariant
<1>2. /\ committed > 0 /\ backlog' = Tail(backlog) /\ committed' = committed - 1
      /\ table' = ApplyCommand(table, cmd) /\ calls' = calls
      /\ Hear(new)
  BY DEF Apply
<1>3. /\ backlog \in Seq(Command) /\ committed \in 0..Len(backlog)
      /\ calls \subseteq Wish /\ phase \in [Request -> Phase]
  BY <1>1 DEF TypeOK
<1>4. backlog # <<>>
  BY <1>2, <1>3
<1>5. /\ Len(backlog) \in Nat \ {0}
      /\ DOMAIN backlog = 1..Len(backlog)
      /\ cmd = backlog[1] /\ 1 \in DOMAIN backlog
      /\ DOMAIN backlog' = 1..(Len(backlog) - 1)
      /\ \A i \in DOMAIN backlog' : i + 1 \in DOMAIN backlog /\ backlog'[i] = backlog[i + 1]
  BY <1>2, <1>3, <1>4, Shifted
<1>6. /\ \A i \in DOMAIN backlog' : i + 1 # 1
      /\ \A i, j \in DOMAIN backlog' : i + 1 = j + 1 => i = j
      /\ \A i \in 1..committed : i # 1 => i - 1 \in 1..committed' /\ i - 1 \in DOMAIN backlog'
                                            /\ (i - 1) + 1 = i
  BY <1>2, <1>3, <1>5
<1>7. cmd \in Command
  BY <1>3, <1>5
<1>8. cmd.op = "acquire" => cmd.wish \in calls /\ cmd.wish \notin Queued(table)
                            /\ cmd.wish.id \notin table.granted
  BY <1>1, <1>5 DEF CommandsTracked
<1>9. cmd.op = "acquire" => \A v \in Queued(table) : v.id # cmd.wish.id
  BY <1>1, <1>8 DEF CallsTracked
<1> HIDE DEF cmd
<1>10. /\ EachOnce(table')
       /\ table.granted \subseteq table'.granted
       /\ \A id \in table'.granted : \/ id \in table.granted
                                     \/ cmd.op = "acquire" /\ id = cmd.wish.id
                                     \/ \E v \in Queued(table) : v.id = id
       /\ \A v \in Queued(table') : v \in Queued(table) \/ (cmd.op = "acquire" /\ v = cmd.wish)
       /\ \A v \in Queued(table) : \/ v \in Queued(table')
                                   \/ v.id \in table'.granted
                                   \/ cmd.op = "cancel" /\ v.id = cmd.wish.id
       /\ cmd.op = "acquire" => cmd.wish \in Queued(table') \/ cmd.wish.id \in table'.granted
  BY <1>1, <1>2, <1>7, <1>8, <1>9, CommandEffect
<1>11. \A id \in Request : /\ phase[id] \in GivenUp \cup {"unused"} => phase'[id] = phase[id]
                           /\ phase'[id] = "unused" => phase[id] = "unused"
                           /\ phase'[id] = "proposing" => phase[id] = "proposing" /\ id \notin new
                           /\ phase'[id] = "waiting" => phase[id] = "waiting" /\ id \notin new
                           /\ phase'[id] \in Replaced => phase[id] \in Replaced
  BY <1>2, <1>3 DEF Hear, GivenUp, Replaced
<1> HIDE DEF new
<1>12. CallsTracked'
  <2>1. \A w \in calls : phase'[w.id] # "unused"
    BY <1>1, <1>3, <1>11 DEF CallsTracked, Wish
  <2>2. Queued(table') \subseteq calls
    BY <1>1, <1>8, <1>10 DEF CallsTracked
  <2>3. table'.granted \subseteq {w.id : w \in calls}
    BY <1>1, <1>8, <1>10 DEF CallsTracked
  <2>4. QED
    BY <1>1, <1>2, <2>1, <2>2, <2>3 DEF CallsTracked
<1>13. ASSUME NEW i \in DOMAIN backlog', backlog'[i].op = "acquire"
       PROVE  /\ backlog'[i].wish \in calls
              /\ backlog'[i].wish \notin Queued(table')
              /\ backlog'[i].wish.id \notin table'.granted
  <2> DEFINE w == backlog'[i].wish
  <2>1. /\ backlog[i + 1].op = "acquire" /\ w = backlog[i + 1].wish
        /\ i + 1 \in DOMAIN backlog /\ i + 1 # 1 /\ backlog[i + 1] \in Command
    BY <1>3, <1>5, <1>6, <1>13
  <2>2. w \in calls /\ w \notin Queued(table) /\ w.id \notin table.granted
    BY <1>1, <2>1 DEF CommandsTracked
  <2>3. \A v \in Queued(table) : v.id # w.id
    BY <1>1, <2>2 DEF CallsTracked
  <2>4. cmd.op = "acquire" => w # cmd.wish
    <3>1. backlog[i + 1] # cmd
      BY <1>1, <1>5, <2>1 DEF CommandsTracked
    <3>2. QED
      BY <1>7, <2>1, <3>1, CommandKinds
  <2>5. cmd.op = "acquire" => w.id # cmd.wish.id
    BY <1>1, <1>8, <2>2, <2>4 DEF CallsTracked
  <2> HIDE DEF w
  <2>6. QED
    BY <1>10, <2>2, <2>3, <2>4, <2>5 DEF w
<1>14. ASSUME NEW i \in DOMAIN backlog', NEW j \in DOMAIN backlog',
              backlog'[i].op = "acquire", backlog'[j] = backlog'[i]
       PROVE  i = j
  BY <1>1, <1>5, <1>6, <1>14 DEF CommandsTracked
<1>15. ASSUME NEW i \in DOMAIN backlog', backlog'[i].op = "cancel"
       PROVE  phase'[backlog'[i].wish.id] \in GivenUp
  <2>1. /\ backlog'[i] = backlog[i + 1] /\ i + 1 \in DOMAIN backlog
        /\ backlog[i + 1] \in Command
    BY <1>3, <1>5
  <2>2. backlog[i + 1].wish \in Wish
    BY <1>15, <2>1, CommandKinds
  <2>3. backlog[i + 1].wish.id \in Request
    BY <2>2 DEF Wish
  <2>4. QED
    BY <1>1, <1>11, <1>15, <2>1, <2>3 DEF CommandsTracked
<1>16. CommandsTracked'
  BY <1>2, <1>13, <1>14, <1>15 DEF CommandsTracked
<1>17. ASSUME NEW w \in calls, NEW n \in 0..Len(backlog), phase[w.id] \in {"proposing", "waiting"},
              w.id \notin new, w \in Queued(table) \/ InLog(w, n)
       PROVE  w \in Queued(table') \/ \E i \in 1..(n - 1) : backlog'[i] = AcquireCommand(w)
  <2>1. w \in Wish /\ w.id \in Request
    BY <1>3 DEF Wish
  <2>2. CASE w \in Queued(table)
    <3>1. w.id \notin table.granted
      BY <1>1, <2>2, QueuedInQueues DEF EachOnce, Whole
    <3>2. w.id \notin table'.granted
      BY <1>17, <3>1 DEF new
    <3>3. cmd.op = "cancel" => w.id # cmd.wish.id
      <4>1. cmd.op = "cancel" => phase[cmd.wish.id] \in GivenUp
        BY <1>1, <1>5 DEF CommandsTracked
      <4>2. QED
        BY <1>17, <4>1 DEF GivenUp
    <3>4. QED
      BY <1>10, <2>2, <3>2, <3>3
  <2>3. CASE cmd = AcquireCommand(w)
    <3>1. cmd.op = "acquire" /\ cmd.wish = w
      BY <2>1, <2>3, CommandKinds
    <3>2. w.id \notin table'.granted
      BY <1>8, <1>17, <3>1 DEF new
    <3>3. QED
      BY <1>10, <3>1, <3>2
  <2>4. ASSUME NEW i \in 1..n, i # 1, backlog[i] = AcquireCommand(w)
        PROVE  \E k \in 1..(n - 1) : backlog'[k] = AcquireCommand(w)
    <3>1. i - 1 \in 1..(n - 1) /\ i - 1 \in DOMAIN backlog' /\ (i - 1) + 1 = i
      BY <1>5, <2>4
    <3>2. backlog'[i - 1] = backlog[i]
      BY <1>5, <3>1
    <3>3. QED
      BY <2>4, <3>1, <3>2
  <2>5. QED
    BY <1>5, <1>17, <2>2, <2>3, <2>4 DEF InLog
<1>18. Len(backlog') = Len(backlog) - 1 /\ committed \in 0..Len(backlog)
  BY <1>2, <1>3, <1>4
<1>19. ASSUME NEW w \in calls
       PROVE  /\ phase'[w.id] = "proposing" => w \in Queued(table') \/ InLog(w, Len(backlog))'
              /\ phase'[w.id] = "waiting" => w \in Queued(table') \/ InLog(w, committed)'
              /\ phase'[w.id] \in Replaced => w \notin Queued(table') /\ ~InLog(w, Len(backlog))'
  <2>1. w \in Wish /\ w.id \in Request /\ Len(backlog) \in 0..Len(backlog)
    BY <1>3, <1>5 DEF Wish
  <2>2. CASE phase'[w.id] = "proposing"
    <3>1. phase[w.id] = "proposing" /\ w.id \notin new
      BY <1>11, <2>1, <2>2
    <3>2. w \in Queued(table) \/ InLog(w, Len(backlog))
      BY <1>1, <3>1 DEF WaitersTracked
    <3>3. w \in Queued(table') \/ \E i \in 1..(Len(backlog) - 1) : backlog'[i] = AcquireCommand(w)
      BY <1>17, <2>1, <3>1, <3>2
    <3>4. QED
      BY <1>18, <2>2, <3>3 DEF InLog, Replaced
  <2>3. CASE phase'[w.id] = "waiting"
    <3>1. phase[w.id] = "waiting" /\ w.id \notin new
      BY <1>11, <2>1, <2>3
    <3>2. w \in Queued(table) \/ InLog(w, committed)
      BY <1>1, <3>1 DEF WaitersTracked
    <3>3. w \in Queued(table') \/ \E i \in 1..(committed - 1) : backlog'[i] = AcquireCommand(w)
      BY <1>17, <1>18, <3>1, <3>2
    <3>4. QED
      BY <1>2, <2>3, <3>3 DEF InLog, Replaced
  <2>4. CASE phase'[w.id] \in Replaced
    <3>1. w \notin Queued(table) /\ \A i \in 1..Len(backlog) : backlog[i] # AcquireCommand(w)
      BY <1>1, <1>11, <2>1, <2>4 DEF WaitersTracked, InLog
    <3>2. cmd.op = "acquire" => cmd.wish # w
      BY <1>5, <1>7, <3>1, CommandKinds
    <3>3. \A i \in 1..Len(backlog') : backlog'[i] # AcquireCommand(w)
      BY <1>5, <1>18, <3>1
    <3>4. QED
      BY <1>10, <2>4, <3>1, <3>2, <3>3 DEF InLog, Replaced
  <2>5. QED
    BY <2>2, <2>3, <2>4
<1>20. WaitersTracked'
  BY <1>2, <1>19 DEF WaitersTracked
<1>21. QED
  BY <1>10, <1>12, <1>16, <1>20

LEMMA InitRequests == Init => RequestInvariant
<1> SUFFICES ASSUME Init PROVE RequestInvariant
  OBVIOUS
<1>1. LockInvariant
  BY InitLock
<1>2. \A r \in Resource : QueueOf(table, r) = <<>>
  BY DEF Init, EmptyTable, QueueOf
<1>3. EachOnce(table)
  BY <1>2 DEF EachOnce
<1>4. IsTable(table)
  BY <1>1 DEF LockInvariant, Whole
<1>5. Queued(table) = {}
  BY <1>2, <1>4, QueuedInQueues
<1>6. CallsTracked /\ CommandsTracked /\ WaitersTracked
  <2>1. calls = {} /\ table.granted = {} /\ backlog = <<>>
    BY DEF Init, EmptyTable
  <2>2. DOMAIN backlog = {}
    BY <2>1
  <2>3. CallsTracked
    BY <1>5, <2>1 DEF CallsTracked
  <2>4. CommandsTracked
    BY <2>2 DEF CommandsTracked
  <2>5. WaitersTracked
    BY <2>1 DEF WaitersTracked
  <2>6. QED
    BY <2>3, <2>4, <2>5
<1>7. QED
  BY <1>1, <1>3, <1>6 DEF RequestInvariant

\* A call is made under an id that no call has, so no request and no grant has it.
LEMMA CallKeepsRequests ==
    ASSUME RequestInvariant, NEW w \in Wish, StartAcquire(w) \/ AcquireElsewhere(w)
    PROVE  CallsTracked' /\ CommandsTracked' /\ EachOnce(table)' /\ WaitersTracked'
<1>1. TypeOK /\ CallsTracked /\ CommandsTracked /\ EachOnce(table) /\ WaitersTracked
  BY DEF RequestInvariant, LockInvariant
<1>2. /\ calls \subseteq Wish /\ phase \in [Request -> Phase] /\ w.id \in Request
  BY <1>1 DEF TypeOK, Wish
<1>3. /\ phase[w.id] = "unused"
      /\ calls' = calls \cup {w}
      /\ Log(AcquireCommand(w))
      /\ UNCHANGED <<table, committed>>
  BY DEF StartAcquire, AcquireElsewhere
<1>4. PICK p \in {"proposing", "elsewhere"} : phase' = [phase EXCEPT ![w.id] = p]
  BY DEF StartAcquire, AcquireElsewhere
<1>5. \A v \in calls : v.id # w.id
  BY <1>1, <1>3 DEF CallsTracked
<1>6. \A id \in Request : phase'[id] = IF id = w.id THEN p ELSE phase[id]
  BY <1>2, <1>4
<1>7. CallsTracked'
  <2>1. \A v \in calls' : phase'[v.id] # "unused"
    BY <1>1, <1>2, <1>3, <1>6 DEF CallsTracked, Wish
  <2>2. \A v, x \in calls' : v.id = x.id => v = x
    BY <1>1, <1>3, <1>5 DEF CallsTracked
  <2>3. QED
    BY <1>1, <1>3, <2>1, <2>2 DEF CallsTracked
<1>8. CommandsTracked' /\ WaitersTracked'
  <2>1. /\ AcquireCommand(w) \in Command /\ AcquireCommand(w).op = "acquire"
        /\ AcquireCommand(w).wish = w
    BY CommandKinds
  <2>2. w \in calls' /\ w \notin calls
    BY <1>3, <1>5
  <2>3. \A id \in Request : phase[id] \in GivenUp => phase'[id] \in GivenUp
    BY <1>3, <1>6 DEF GivenUp
  <2>4. ASSUME NEW v \in calls'
        PROVE  /\ phase'[v.id] = "proposing" =>
                     (v \in calls /\ phase[v.id] = "proposing") \/ AcquireCommand(w) = AcquireCommand(v)
               /\ phase'[v.id] = "waiting" => v \in calls /\ phase[v.id] = "waiting"
               /\ phase'[v.id] \in Replaced => v \in calls /\ phase[v.id] \in Replaced
    <3>1. CASE v = w
      BY <1>2, <1>6, <3>1 DEF Replaced
    <3>2. CASE v \in calls /\ v.id # w.id
      <4>1. phase'[v.id] = phase[v.id]
        BY <1>2, <1>6, <3>2 DEF Wish
      <4>2. QED
        BY <3>2, <4>1
    <3>3. QED
      BY <1>3, <1>5, <3>1, <3>2
  <2>5. QED
    BY <1>1, <1>3, <1>5, <2>1, <2>2, <2>3, <2>4, LoggingKeepsTracked
<1>9. QED
  BY <1>1, <1>3, <1>7, <1>8

\* A call that goes on without the table keeps its place: only what waits no longer is cancelled.
LEMMA CallStepKeepsRequests ==
    ASSUME RequestInvariant, NEW w \in calls, CallStep(w)
    PROVE  CallsTracked' /\ CommandsTracked' /\ EachOnce(table)' /\ WaitersTracked'
<1>1. TypeOK /\ CallsTracked /\ CommandsTracked /\ EachOnce(table) /\ WaitersTracked
  BY DEF RequestInvariant, LockInvariant
<1>2. /\ calls \subseteq Wish /\ phase \in [Request -> Phase] /\ w.id \in Request /\ w \in Wish
      /\ committed \in Nat
  BY <1>1 DEF TypeOK, Wish
<1>3. UNCHANGED <<table, committed, calls>>
  BY DEF CallStep, ProposeTimesOut, WaitTimesOut, CancelReturns, CancelElsewhere,
         raftVars, callVars
<1>4. \/ phase' = [phase EXCEPT ![w.id] = "denied"] /\ backlog' = backlog
      \/ phase' = [phase EXCEPT ![w.id] = "cancelling"] /\ Log(CancelCommand(w))
      \/ phase' = phase /\ phase[w.id] = "elsewhere" /\ Log(CancelCommand(w))
  BY DEF CallStep, ProposeTimesOut, WaitTimesOut, CancelReturns, CancelElsewhere,
         raftVars, callVars
<1>5. \A id \in Request : phase'[id] = phase[id] \/ phase'[id] \in {"denied", "cancelling"}
  BY <1>2, <1>4
<1>6. CallsTracked'
  <2>1. \A v \in calls : phase'[v.id] # "unused"
    BY <1>1, <1>2, <1>5 DEF CallsTracked, Wish
  <2>2. QED
    BY <1>1, <1>3, <2>1 DEF CallsTracked
<1>7. \A id \in Request : phase[id] \in GivenUp => phase'[id] \in GivenUp
  BY <1>5 DEF GivenUp
<1>8. \A v \in calls : /\ phase'[v.id] = "proposing" => phase[v.id] = "proposing"
                       /\ phase'[v.id] = "waiting" => phase[v.id] = "waiting"
                       /\ phase'[v.id] \in Replaced => phase[v.id] \in Replaced
  BY <1>2, <1>5 DEF Wish, Replaced
<1>9. CommandsTracked' /\ WaitersTracked'
  <2>1. CASE backlog' = backlog
    BY <1>1, <1>2, <1>3, <1>7, <1>8, <2>1, PhasesKeepTracked
  <2>2. CASE Log(CancelCommand(w)) /\ phase'[w.id] \in GivenUp
    <3>1. /\ CancelCommand(w) \in Command /\ CancelCommand(w).op = "cancel"
          /\ CancelCommand(w).wish = w
      BY <1>2, CommandKinds
    <3>2. QED
      BY <1>1, <1>3, <1>7, <1>8, <2>2, <3>1, LoggingKeepsTracked
  <2>3. QED
    BY <1>2, <1>4, <2>1, <2>2 DEF GivenUp
<1>10. QED
  BY <1>1, <1>3, <1>6, <1>9

\* Releases concern no request.
LEMMA ReleasesKeepRequests ==
    ASSUME RequestInvariant, NEW c \in Client, NEW r \in Resource, Log(ReleaseCommand(c, r)),
           UNCHANGED <<table, committed, calls, phase>>
    PROVE  CallsTracked' /\ CommandsTracked' /\ EachOnce(table)' /\ WaitersTracked'
<1>1. TypeOK /\ CallsTracked /\ CommandsTracked /\ EachOnce(table) /\ WaitersTracked
  BY DEF RequestInvariant, LockInvariant
<1>2. ReleaseCommand(c, r) \in Command /\ ReleaseCommand(c, r).op = "release"
  BY CommandKinds
<1>3. CommandsTracked' /\ WaitersTracked'
  BY <1>1, <1>2, LoggingKeepsTracked
<1>4. QED
  BY <1>1, <1>3 DEF CallsTracked

LEMMA QuietKeepsRequests ==
    ASSUME RequestInvariant, UNCHANGED <<table, backlog, calls, phase>>,
           committed' \in Nat, committed <= committed'
    PROVE  CallsTracked' /\ CommandsTracked' /\ EachOnce(table)' /\ WaitersTracked'
<1>1. TypeOK /\ CallsTracked /\ CommandsTracked /\ EachOnce(table) /\ WaitersTracked
  BY DEF RequestInvariant, LockInvariant
<1>2. CommandsTracked' /\ WaitersTracked'
  BY <1>1, PhasesKeepTracked
<1>3. QED
  BY <1>1, <1>2 DEF CallsTracked

\* A proposal that is answered True was replaced, or its command is committed by now.
LEMMA CommitKeepsRequests ==
    ASSUME RequestInvariant, LeaderCommits
    PROVE  CallsTracked' /\ CommandsTracked' /\ EachOnce(table)' /\ WaitersTracked'
<1>1. TypeOK /\ CallsTracked /\ CommandsTracked /\ EachOnce(table) /\ WaitersTracked
  BY DEF RequestInvariant, LockInvariant
<1>2. calls \subseteq Wish /\ phase \in [Request -> Phase] /\ committed \in 0..Len(backlog)
      /\ Len(backlog) \in Nat
  BY <1>1 DEF TypeOK
<1>3. /\ UNCHANGED <<table, backlog, calls>>
      /\ committed' = committed + 1
  BY DEF LeaderCommits
<1>4. PICK told \in SUBSET {id \in Request : phase[id] \in InPropose} :
         /\ told \cap ProposedFrom(committed + 2) = {}
         /\ phase' = [id \in Request |-> IF id \in told THEN AfterTrue(phase[id]) ELSE phase[id]]
  BY DEF LeaderCommits
<1>5. \A id \in Request :
         /\ phase'[id] = "unused" => phase[id] = "unused"
         /\ phase[id] \in GivenUp => phase'[id] \in GivenUp
         /\ phase'[id] = "proposing" => phase[id] = "proposing"
         /\ phase'[id] = "waiting" => phase[id] = "waiting" \/ (phase[id] = "proposing" /\ id \in told)
         /\ phase'[id] \in Replaced => phase[id] \in Replaced
  <2> SUFFICES ASSUME NEW id \in Request
               PROVE  /\ phase'[id] = "unused" => phase[id] = "unused"
                      /\ phase[id] \in GivenUp => phase'[id] \in GivenUp
                      /\ phase'[id] = "proposing" => phase[id] = "proposing"
                      /\ phase'[id] = "waiting" =>
                            phase[id] = "waiting" \/ (phase[id] = "proposing" /\ id \in told)
                      /\ phase'[id] \in Replaced => phase[id] \in Replaced
    OBVIOUS
  <2>1. CASE id \notin told
    BY <1>4, <2>1
  <2>2. CASE id \in told
    <3>1. phase'[id] = AfterTrue(phase[id])
      BY <1>4, <2>2
    <3>2. CASE phase[id] = "proposing"
      BY <2>2, <3>1, <3>2 DEF AfterTrue, GivenUp, Replaced
    <3>3. CASE phase[id] = "unheard"
      BY <3>1, <3>3 DEF AfterTrue, GivenUp, Replaced
    <3>4. CASE phase[id] = "overwritten"
      BY <3>1, <3>4 DEF AfterTrue, GivenUp, Replaced
    <3>5. QED
      BY <2>2, <3>2, <3>3, <3>4 DEF InPropose
  <2>3. QED
    BY <2>1, <2>2
<1>6. CallsTracked'
  <2>1. \A w \in calls : phase'[w.id] # "unused"
    BY <1>1, <1>2, <1>5 DEF CallsTracked, Wish
  <2>2. QED
    BY <1>1, <1>3, <2>1 DEF CallsTracked
<1>7. ASSUME NEW w \in calls, phase[w.id] = "proposing", w.id \in told
      PROVE  w \in Queued(table) \/ InLog(w, committed')
  <2>1. CASE w \in Queued(table)
    BY <2>1
  <2>2. ASSUME NEW i \in 1..Len(backlog), backlog[i] = AcquireCommand(w) PROVE InLog(w, committed')
    <3>1. i \notin (committed + 2)..Len(backlog)
      BY <1>4, <1>7, <2>2 DEF ProposedFrom
    <3>2. i \in 1..committed'
      BY <1>2, <1>3, <3>1
    <3>3. QED
      BY <2>2, <3>2 DEF InLog
  <2>3. QED
    BY <1>1, <1>7, <2>1, <2>2 DEF WaitersTracked, InLog
<1>8. \A w \in calls :
         /\ phase'[w.id] = "proposing" => phase[w.id] = "proposing"
         /\ phase'[w.id] = "waiting" =>
               phase[w.id] = "waiting" \/ w \in Queued(table) \/ InLog(w, committed')
         /\ phase'[w.id] \in Replaced => phase[w.id] \in Replaced
  BY <1>2, <1>5, <1>7 DEF Wish
<1>9. CommandsTracked' /\ WaitersTracked'
  <2>1. committed' \in Nat /\ committed <= committed'
    BY <1>2, <1>3
  <2>2. QED
    BY <1>1, <1>3, <1>5, <1>8, <2>1, PhasesKeepTracked
<1>10. QED
  BY <1>1, <1>3, <1>6, <1>9

\* What is cut off was not committed, and a call whose command is cut off is known for it.
LEMMA TruncateKeepsRequests ==
    ASSUME RequestInvariant, Truncate
    PROVE  CallsTracked' /\ CommandsTracked' /\ EachOnce(table)' /\ WaitersTracked'
<1>1. TypeOK /\ CallsTracked /\ CommandsTracked /\ EachOnce(table) /\ WaitersTracked
  BY DEF RequestInvariant, LockInvariant
<1>2. /\ backlog \in Seq(Command) /\ committed \in 0..Len(backlog) /\ Len(backlog) \in Nat
      /\ calls \subseteq Wish /\ phase \in [Request -> Phase]
  BY <1>1 DEF TypeOK
<1>3. PICK k \in committed .. Len(backlog) - 1 : CutOff(k)
  BY DEF Truncate
<1>4. /\ UNCHANGED <<table, committed, calls>>
      /\ \A id \in Request :
            phase'[id] = IF phase[id] = "proposing" /\ id \in ProposedFrom(k + 1)
                         THEN "overwritten" ELSE phase[id]
  BY <1>3 DEF CutOff
<1>5. /\ k \in Nat /\ k <= Len(backlog) /\ committed <= k /\ committed \in Nat
      /\ Len(backlog') = k /\ DOMAIN backlog' = 1..k /\ DOMAIN backlog = 1..Len(backlog)
      /\ \A i \in 1..k : backlog'[i] = backlog[i]
  <2>1. k \in Nat /\ k <= Len(backlog) /\ committed <= k /\ committed \in Nat
    BY <1>2, <1>3
  <2>2. backlog' = SubSeq(backlog, 1, k)
    BY <1>3 DEF CutOff
  <2>3. QED
    BY <1>2, <2>1, <2>2
<1>6. /\ 1..k \subseteq 1..Len(backlog) /\ 1..committed \subseteq 1..k
      /\ \A i \in 1..Len(backlog) : i \in 1..k \/ i \in (k + 1)..Len(backlog)
      /\ \A i \in (k + 1)..Len(backlog) : i \in 1..Len(backlog) /\ i \notin 1..k
  BY <1>2, <1>5
<1>7. CallsTracked'
  <2>1. \A w \in calls : phase'[w.id] # "unused"
    BY <1>1, <1>2, <1>4 DEF CallsTracked, Wish
  <2>2. QED
    BY <1>1, <1>4, <2>1 DEF CallsTracked
<1>8. CommandsTracked'
  <2>1. ASSUME NEW i \in 1..k, backlog[i].op = "cancel" PROVE phase'[backlog[i].wish.id] \in GivenUp
    <3>1. backlog[i] \in Command /\ i \in DOMAIN backlog
      BY <1>2, <1>5, <1>6
    <3>2. backlog[i].wish.id \in Request
      BY <2>1, <3>1, CommandKinds DEF Wish
    <3>3. phase[backlog[i].wish.id] \in GivenUp
      BY <1>1, <2>1, <3>1 DEF CommandsTracked
    <3>4. QED
      BY <1>4, <3>2, <3>3 DEF GivenUp
  <2>2. QED
    BY <1>1, <1>4, <1>5, <1>6, <2>1 DEF CommandsTracked
<1>9. ASSUME NEW w \in calls
      PROVE  /\ phase'[w.id] = "proposing" => w \in Queued(table') \/ InLog(w, Len(backlog))'
             /\ phase'[w.id] = "waiting" => w \in Queued(table') \/ InLog(w, committed)'
             /\ phase'[w.id] \in Replaced => w \notin Queued(table') /\ ~InLog(w, Len(backlog))'
  <2>1. w \in Wish /\ w.id \in Request
    BY <1>2 DEF Wish
  <2>2. CASE phase[w.id] = "proposing" /\ w.id \in ProposedFrom(k + 1)
    <3>1. phase'[w.id] = "overwritten"
      BY <1>4, <2>1, <2>2
    <3>2. PICK j \in (k + 1)..Len(backlog) : backlog[j] = AcquireCommand(w)
      <4>1. PICK v \in calls : /\ v.id = w.id
                             /\ \E i \in (k + 1)..Len(backlog) : backlog[i] = AcquireCommand(v)
        BY <2>2 DEF ProposedFrom
      <4>2. v = w
        BY <1>1, <4>1 DEF CallsTracked
      <4>3. QED
        BY <4>1, <4>2
    <3>3. j \in DOMAIN backlog /\ j \notin 1..k
      BY <1>5, <1>6
    <3>4. backlog[j].op = "acquire" /\ backlog[j].wish = w
      BY <2>1, <3>2, CommandKinds
    <3>5. w \notin Queued(table)
      BY <1>1, <3>3, <3>4 DEF CommandsTracked
    <3>6. \A i \in 1..k : backlog[i] # AcquireCommand(w)
      BY <1>1, <1>5, <1>6, <3>2, <3>3, <3>4 DEF CommandsTracked
    <3>7. QED
      BY <1>4, <1>5, <3>1, <3>5, <3>6 DEF InLog
  <2>3. CASE phase'[w.id] = phase[w.id] /\ ~(phase[w.id] = "proposing" /\ w.id \in ProposedFrom(k + 1))
    <3>1. CASE phase[w.id] = "proposing"
      <4>1. \A i \in (k + 1)..Len(backlog) : backlog[i] # AcquireCommand(w)
        BY <2>3, <3>1 DEF ProposedFrom
      <4>2. w \in Queued(table) \/ \E i \in 1..k : backlog[i] = AcquireCommand(w)
        BY <1>1, <1>6, <3>1, <4>1 DEF WaitersTracked, InLog
      <4>3. QED
        BY <1>4, <1>5, <2>3, <3>1, <4>2 DEF InLog, Replaced
    <3>2. CASE phase[w.id] = "waiting"
      BY <1>1, <1>4, <1>5, <1>6, <2>3, <3>2 DEF WaitersTracked, InLog, Replaced
    <3>3. CASE phase[w.id] \in Replaced
      BY <1>1, <1>4, <1>5, <1>6, <2>3, <3>3 DEF WaitersTracked, InLog, Replaced
    <3>4. QED
      BY <2>3, <3>1, <3>2, <3>3
  <2>4. QED
    BY <1>4, <2>1, <2>2, <2>3
<1>10. WaitersTracked'
  BY <1>4, <1>9 DEF WaitersTracked
<1>11. QED
  BY <1>1, <1>4, <1>7, <1>8, <1>10

LEMMA NextRequests == RequestInvariant /\ [Next]_vars => RequestInvariant'
<1> SUFFICES ASSUME RequestInvariant, [Next]_vars PROVE RequestInvariant'
  OBVIOUS
<1> DEFINE Kept == CallsTracked' /\ CommandsTracked' /\ EachOnce(table)' /\ WaitersTracked'
<1>1. LockInvariant'
  BY NextLock DEF RequestInvariant
<1> SUFFICES Kept
  BY <1>1 DEF RequestInvariant
<1>2. /\ committed \in Nat
      /\ aborting \subseteq Client \X Resource /\ expiring \subseteq Client \X Resource
  BY DEF RequestInvariant, LockInvariant, TypeOK
<1>3. ASSUME NEW w \in Wish, StartAcquire(w) \/ AcquireElsewhere(w) PROVE Kept
  BY <1>3, CallKeepsRequests
<1>4. ASSUME NEW c \in Client, NEW r \in Resource, Release(c, r) PROVE Kept
  BY <1>4, ReleasesKeepRequests DEF Release, callVars
<1>5. ASSUME NEW w \in calls, CallStep(w) PROVE Kept
  BY <1>5, CallStepKeepsRequests
<1>6. ASSUME UNCHANGED <<table, backlog, committed, calls, phase>> PROVE Kept
  BY <1>2, <1>6, QuietKeepsRequests
<1>7. CASE RaftStep
  <2>1. CASE LeaderCommits
    BY <2>1, CommitKeepsRequests
  <2>2. CASE FollowerCommits
    <3>1. committed' \in Nat /\ committed <= committed'
      BY <1>2, <2>2 DEF FollowerCommits
    <3>2. QED
      BY <2>2, <3>1, QuietKeepsRequests DEF FollowerCommits, callVars
  <2>3. CASE ChangeLeader
    BY <1>6, <2>3 DEF ChangeLeader, callVars
  <2>4. CASE Truncate
    BY <2>4, TruncateKeepsRequests
  <2>5. CASE Apply
    BY <2>5, ApplyKeepsRequests
  <2>6. QED
    BY <1>7, <2>1, <2>2, <2>3, <2>4, <2>5 DEF RaftStep
<1>8. ASSUME NEW p \in Client \X Resource, ProposeRelease(p),
             UNCHANGED <<table, committed, calls, phase>>
      PROVE  Kept
  <2>1. p[1] \in Client /\ p[2] \in Resource
    OBVIOUS
  <2>2. CASE Log(ReleaseCommand(p[1], p[2]))
    BY <1>8, <2>1, <2>2, ReleasesKeepRequests
  <2>3. CASE backlog' = backlog
    BY <1>6, <1>8, <2>3
  <2>4. QED
    BY <1>8, <2>2, <2>3 DEF ProposeRelease
<1>9. CASE TaskStep
  <2>1. CASE DetectDeadlock \/ CheckTimeouts
    BY <1>6, <2>1 DEF DetectDeadlock, CheckTimeouts, raftVars, callVars
  <2>2. ASSUME NEW p \in aborting, AbortNext(p) PROVE Kept
    BY <1>2, <1>8, <2>2 DEF AbortNext, callVars
  <2>3. ASSUME NEW p \in expiring, ReleaseExpired(p) PROVE Kept
    BY <1>2, <1>8, <2>3 DEF ReleaseExpired, callVars
  <2>4. QED
    BY <1>9, <2>1, <2>2, <2>3 DEF TaskStep
<1>10. CASE UNCHANGED vars
  BY <1>6, <1>10 DEF vars
<1> HIDE DEF Kept
<1>11. QED
  BY <1>3, <1>4, <1>5, <1>7, <1>9, <1>10 DEF Next

\* The inductive invariant behind the two that follow: a request is tracked from the call to
\* its command in the log, from there to one place in a queue and from there to the grant, or
\* to the log of another leader that replaces the command.
THEOREM RequestInvariantHolds == Spec => []RequestInvariant
  BY InitRequests, NextRequests, PTL DEF Spec

\* A call that waits is never forgotten by the lock manager: through releases, cancellations of
\* other calls, handovers and changes of the leader its request is in a queue, or its command is
\* committed and still to be applied (_apply_release, _apply_cancel, _grant_next). The calls that
\* wait for nothing are exactly those that propose answered True for the index of a command which
\* another leader's log had replaced (_advance_commit_index).
THEOREM WaitersAreNotForgotten == Spec => []WaitingIsQueued
<1>1. ASSUME RequestInvariant PROVE WaitingIsQueued
  <2>1. 1..committed \subseteq 1..Len(backlog)
    BY <1>1 DEF RequestInvariant, LockInvariant, TypeOK
  <2>2. QED
    BY <1>1, <2>1 DEF RequestInvariant, WaitersTracked, WaitingIsQueued, InLog, Replaced
<1>2. QED
  BY <1>1, RequestInvariantHolds, PTL

\* A request is in one queue once, and in none after it was granted, so that removing its first
\* place in the queue removes it (_apply_cancel).
THEOREM RequestsQueueOnce == Spec => []QueuedOnce
<1>1. ASSUME RequestInvariant PROVE QueuedOnce
  <2>1. DOMAIN table.locks \subseteq Resource
    BY <1>1 DEF RequestInvariant, LockInvariant, Whole, IsTable
  <2>2. \A r \in DOMAIN table.locks : QueueOf(table, r) = table.locks[r].waiters
    BY DEF QueueOf
  <2>3. QED
    BY <1>1, <2>1, <2>2 DEF RequestInvariant, EachOnce, QueuedOnce
<1>2. QED
  BY <1>1, RequestInvariantHolds, PTL
====
